\* regrepl: four keys and three values, a buffer of ten bytes.  strarc: two hives, two
\* sessions.  fsplitw: sectors of two bytes, lengths modulo 8, three disks after the
\* first.  trunczerotail: blocks of two and of four bytes.
CONSTANTS
    Keys = {"r", "k", "l", "m"}
    Root = "r"
    Sub <- MCSub
    Vals <- MCVals
    Type <- MCType
    Registries <- MCRegistries
    Froms <- MCFroms
    Tos <- MCTos
    Cap = 10
    Hive = {"system", "user"}
    Included = {{"system", "user"}, {"user"}}
    Methods = {"full", "diff"}
    MaxVersion = 2
    MaxSessions = 2
    Sector = 2
    Modulus = 8
    FileSizes = {0, 4, 6, 7, 8, 9}
    BufSizes = {0, 2, 4}
    Frees = {0, 2, 4, 10}
    MaxDisks = 4
    STDBUFSIZ = 2
    BIGBUFSIZ = {3, 5}
    TailSizes = {0, 1, 2, 3, 4, 5, 6, 7}
SPECIFICATION MCSpec
INVARIANTS
    ReplacedOnce
    HivesAreSaved
    PartsAreTheFile
    ZeroesAreCut
PROPERTY ToolsGoOn
CHECK_DEADLOCK FALSE
