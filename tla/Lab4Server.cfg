\* Two clients that connect when they like.
CONSTANTS
    Client = {a, b}
    Buffer = 1
    Name = {n1, n2}
    NoName = NoName
    NoClient = NoClient
    Reply = Reply
    Typed <- Says
    Follows <- Anyhow
    Fickle = {}
SPECIFICATION FairSpec
INVARIANTS
    Registered
CHECK_DEADLOCK FALSE
