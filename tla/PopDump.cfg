\* The POSIX build, and a user who takes the mail away after each run.
CONSTANTS
    Mail = {"a", "b", "c"}
    Text <- Texts
    Windows = FALSE
    TakesFiles = TRUE
    Rooms = {0, 1, 2, 5}
    MaxSessions = 2
SPECIFICATION Spec
INVARIANT NothingLost
CHECK_DEADLOCK FALSE
