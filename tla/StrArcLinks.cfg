\* Hard links, full and differential sessions.
CONSTANTS
    root = root
    sub = sub
    a = a
    b = b
    c = c
    File = {a, b}
    Dir = {root}
    Root = root
    Parent <- FlatParent
    Node = {1, 2, 3}
    NoNode = NoNode
    LinkArchives = TRUE
    Methods = {"FULL", "DIFF"}
    List <- Everything
    Excluded = {}
    Included = {root, a, b}
    bHardLinkSupport = TRUE
    UserOps = {"create", "write", "link"}
    UserBusy = FALSE
    Interrupted = {"none"}
    MaxSessions = 3
    MaxClock = 3
    RestoreTime = 99
    Opt <- OptO
SPECIFICATION Spec
INVARIANTS
    ContentsRestored
    LinksRestored
CHECK_DEADLOCK FALSE
