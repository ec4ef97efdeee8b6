CONSTANTS
    Name = {1, 2, 3, 4}
    Node = {1, 2, 3, 4, 5, 6, 7, 8, 9}
    NoNode = NoNode
    Content <- SomeContents
    Size <- Sizes
    Chain <- Chains
    Hash <- Hashes
    NoContent = NoContent
    NoSum = NoSum
    Layouts <- InOrder
    ReadOnlyFiles = {{}, {2}}
    Options <- SomeOptions
    Visits <- Once
    At <- Leads
    MaxLinks = 3
    UserOps = {"write", "erase", "replace"}
    Written <- Other
    MaxUserSteps = 1
SPECIFICATION Spec
INVARIANTS
    NothingIsLost
    NamesKept
    DoneWhatWasAsked
PROPERTY AttributesKept
CHECK_DEADLOCK FALSE
