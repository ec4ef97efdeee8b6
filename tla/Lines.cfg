\* devredir: a packet of two bytes.  tcpfw: two buffers on the way.  popdump: three
\* messages, two runs, and a disk for the next one to five lines.
CONSTANTS
    Packet = 2
    Room = 2
    MaxBytes = 4
    Max = 2
    Mail = {"a", "b", "c"}
    Text <- Texts
    Windows = TRUE
    TakesFiles = TRUE
    Rooms = {0, 1, 2, 5}
    MaxSessions = 2
SPECIFICATION MCSpec
INVARIANTS
    DeviceUnbroken
    OffAtRest
    MailIsSomewhere
PROPERTIES
    RedirGoesOn
    ForwardGoesOn
    QuietTurnsOff
    DumpEnds
CHECK_DEADLOCK FALSE
