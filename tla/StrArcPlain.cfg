\* A tree, no hard links, every method, cancelled sessions and read errors.
CONSTANTS
    root = root
    sub = sub
    a = a
    b = b
    c = c
    File = {a, b}
    Dir = {root, sub}
    Root = root
    Parent <- TreeParent
    Node = {1, 2, 3}
    NoNode = NoNode
    LinkArchives = FALSE
    Methods = {"FULL", "DIFF", "INC"}
    List <- Everything
    Excluded = {}
    Included = {root, sub, a, b}
    bHardLinkSupport = TRUE
    UserOps = {"create", "write", "delete", "replace", "cancel", "unreadable"}
    UserBusy = FALSE
    Interrupted = {"none"}
    MaxSessions = 2
    MaxClock = 3
    RestoreTime = 99
    Opt <- OptOA
SPECIFICATION Spec
INVARIANTS
    ClearMeansSaved
    DirectoryTimesRestored
    ClearMeansRestorable
CHECK_DEADLOCK FALSE
