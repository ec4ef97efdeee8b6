CONSTANTS
    Width = 3
    Height = 4
    Need = 2
SPECIFICATION FairSpec
INVARIANTS
    WinnerIsRight
    Alternating
    ComputerPlays
PROPERTY RestartIsHeeded
CHECK_DEADLOCK FALSE
