\* The user keeps working while sessions run, fail and are cancelled.
CONSTANTS
    root = root
    sub = sub
    a = a
    b = b
    c = c
    File = {a, b, c}
    Dir = {root}
    Root = root
    Parent <- FlatParent
    Node = {1, 2, 3}
    NoNode = NoNode
    LinkArchives = TRUE
    Methods = {"COPY", "FULL"}
    List <- Everything
    Excluded = {}
    Included = {root, b, c}
    bHardLinkSupport = TRUE
    UserOps = {"create", "link", "delete", "cancel", "unreadable"}
    UserBusy = TRUE
    Interrupted = {"part"}
    MaxSessions = 1
    MaxClock = 3
    RestoreTime = 99
    Opt <- OptO
SPECIFICATION FairSpec
INVARIANT LinksResolve
PROPERTY SessionEnds
CHECK_DEADLOCK FALSE
