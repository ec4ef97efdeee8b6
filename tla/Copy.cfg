\* strarc: a file that fits into the pipe but for two blocks, and a filter with
\* little left.  rawcopy: a buffer of two words, and a device that has gone
\* is read to six words.
CONSTANTS
    MaxBlocks = 6
    Capacity = 4
    Rest = 2
    ArchiveCapacity = 2
    ReadFails = TRUE
    WriteFails = TRUE
    Buf = 2
    Lengths = {0, 3}
    Skips = {0, 1}
    Offsets = {0, 1}
    MaxRetries = 1
    MaxImage = 6
    FtpBlocks = 1
SPECIFICATION MCSpec
INVARIANTS
    SuccessIsComplete
    SomebodyCanGoOn
    AsWritten
    CopiedAsAsked
    FtpCopyIsRight
PROPERTY CopiesEnd
CHECK_DEADLOCK FALSE
