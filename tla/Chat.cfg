CONSTANTS
    ann = ann
    bob = bob
    cy = cy
    Client = {ann, bob, cy}
    Buffer = 1
    Name = {n1, n2}
    NoName = NoName
    NoClient = NoClient
    Reply = Reply
    Typed <- Lines
    Fickle = {bob}
    Follows <- OneByOne
SPECIFICATION MCSpec
INVARIANTS
    NamesDiffer
PROPERTIES
    ARoom
    SectionIsLeft
CHECK_DEADLOCK FALSE
