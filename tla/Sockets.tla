------------------------------- MODULE Sockets -------------------------------
(***************************************************************************)
(* The chat servers' sockets: a line that is sent waits for room among the *)
(* lines the client has not read, and sending to a connection that is      *)
(* closed fails at once, which both servers ignore.                        *)
(***************************************************************************)
EXTENDS Naturals, Sequences

CONSTANTS
    Client,  \* connections
    Buffer   \* the lines that one buffers

ASSUME BufferAssumption == Buffer \in Nat \ {0}

VARIABLES open, inbox

sockets == <<open, inbox>>

SocketsOK(Line) ==
    /\ open \in [Client -> BOOLEAN]
    /\ inbox \in [Client -> Seq(Line)]
    /\ \A c \in Client : Len(inbox[c]) <= Buffer

SocketsInit ==
    /\ open = [c \in Client |-> TRUE]
    /\ inbox = [c \in Client |-> <<>>]

Put(c, line) == inbox' = [inbox EXCEPT ![c] = IF open[c] THEN Append(@, line) ELSE @]

Send(c, line) ==
    /\ open[c] => Len(inbox[c]) < Buffer
    /\ Put(c, line)
    /\ UNCHANGED open

ClientReads(c) ==
    /\ inbox[c] # <<>>
    /\ inbox' = [inbox EXCEPT ![c] = Tail(@)]
    /\ UNCHANGED open

Close(c) ==
    /\ open' = [open EXCEPT ![c] = FALSE]
    /\ inbox' = [inbox EXCEPT ![c] = <<>>]
==============================================================================
