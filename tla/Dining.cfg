\* The N of the source; the POSIX build of nyfilosof.
CONSTANTS
    N = 5
    Win32 = FALSE
    ForkMayFail = TRUE
SPECIFICATION MCSpec
INVARIANTS
    SomebodyCanStep
PROPERTIES
    DiningSpec
    SeatedDine
    NobodyStarves
