------------------------------ MODULE Lab4Server ------------------------------
(***************************************************************************)
(* The chat server in Java: the main thread accepts a connection, reads    *)
(* the name and looks it up (the constructor of ClientManager); a thread   *)
(* for the connection puts it into the table and serves it.  The methods   *)
(* of the table hold its monitor.                                          *)
(***************************************************************************)
EXTENDS Sockets

CONSTANTS
    Name, NoName,
    NoClient,
    Reply,    \* a line for one client
    Fickle,   \* clients that may hang up at any time
    Typed,    \* Typed[c]: the kinds of lines that the client of c types
    Follows   \* Follows[c]: clients that c has seen served before it connects

VARIABLES
    listening,  \* main() is in its loop
    pc,         \* pc[c]: what is done for connection c
    name,       \* name[c]
    table,      \* userNames: name to connection
    cs,         \* the thread that holds the table's monitor for a broadcast
    rest        \* whom that thread has still to send to

vars == <<sockets, listening, pc, name, table, cs, rest>>

Said == {"joined", "says", "left"}
Constructor == {"naming", "checking", "sorry"}
Early == {"away", "put"} \cup Constructor

TypeOK ==
    /\ SocketsOK((Name \X Said) \cup {Reply})
    /\ listening \in BOOLEAN
    /\ pc \in [Client -> Early \cup Said \cup
               {"talk", "list", "elements", "users", "unknown", "close", "remove", "done"}]
    /\ name \in [Client -> Name \cup {NoName}]
    /\ table \in [Name -> Client \cup {NoClient}]
    /\ cs \in Client \cup {NoClient}
    /\ rest \subseteq Client

Init ==
    /\ SocketsInit
    /\ listening = TRUE
    /\ pc = [c \in Client |-> "away"]
    /\ name = [c \in Client |-> NoName]
    /\ table = [n \in Name |-> NoClient]
    /\ cs = NoClient
    /\ rest = {}

Go(c, from, to) == pc[c] = from /\ pc' = [pc EXCEPT ![c] = to]
-----------------------------------------------------------------------------
(* The main thread. *)

Accept(c) ==
    /\ listening
    /\ \A d \in Client : pc[d] \notin Constructor
    /\ \A d \in Follows[c] : pc[d] \notin Early
    /\ Go(c, "away", "naming")
    /\ UNCHANGED <<sockets, listening, name, table, cs, rest>>

ReadName(c, n) ==
    /\ Go(c, "naming", "checking")
    /\ name' = [name EXCEPT ![c] = n]
    /\ UNCHANGED <<sockets, listening, table, cs, rest>>

\* No line, or an empty one.
EmptyName(c) ==
    /\ Go(c, "naming", "done")
    /\ Close(c)
    /\ UNCHANGED <<listening, name, table, cs, rest>>

\* Defect.
CheckName_Not(c) ==
    /\ cs = NoClient
    /\ Go(c, "checking", "put")
    /\ UNCHANGED <<sockets, listening, name, table, cs, rest>>

CheckName(c) ==
    /\ cs = NoClient
    /\ Go(c, "checking", IF table[name[c]] = NoClient THEN "put" ELSE "sorry")
    /\ UNCHANGED <<sockets, listening, name, table, cs, rest>>

Sorry(c) ==
    /\ open[c]
    /\ Go(c, "sorry", "done")
    /\ Close(c)
    /\ UNCHANGED <<listening, name, table, cs, rest>>

\* An exception in the constructor ends the loop.
ConstructorFails(c) ==
    /\ \/ Go(c, "naming", "done")
       \/ ~ open[c] /\ Go(c, "sorry", "done")
    /\ listening' = FALSE
    /\ Close(c)
    /\ UNCHANGED <<name, table, cs, rest>>

Main(c) ==
    \/ Accept(c)
    \/ \E n \in Name : ReadName(c, n)
    \/ EmptyName(c)
    \/ CheckName(c)
    \/ Sorry(c)
    \/ ConstructorFails(c)
-----------------------------------------------------------------------------
(* The thread of a connection. *)

PutName(c) ==
    /\ cs = NoClient
    /\ Go(c, "put", "joined")
    /\ table' = [table EXCEPT ![name[c]] = c]
    /\ UNCHANGED <<sockets, listening, name, cs, rest>>

Begin(c) ==
    /\ pc[c] \in Said
    /\ cs = NoClient
    /\ cs' = c
    /\ rest' = {table[n] : n \in Name} \ {NoClient}
    /\ UNCHANGED <<sockets, listening, pc, name, table>>

SendMsg(c) ==
    /\ cs = c
    /\ \E d \in rest :
         /\ rest' = rest \ {d}
         /\ Send(d, <<name[c], pc[c]>>)
    /\ UNCHANGED <<listening, pc, name, table, cs>>

End(c) ==
    /\ cs = c
    /\ rest = {}
    /\ cs' = NoClient
    /\ \/ Go(c, "left", "close")
       \/ \E what \in Said \ {"left"} : Go(c, what, "talk")
    /\ UNCHANGED <<sockets, listening, name, table, rest>>

BroadCastMsg(c) ==
    \/ Begin(c)
    \/ SendMsg(c)
    \/ End(c)

\* A message, a command, or nothing, an empty line or an exception.
ReadLine(c) ==
    /\ \E to \in Typed[c] \cup {"left"} : Go(c, "talk", to)
    /\ UNCHANGED <<sockets, listening, name, table, cs, rest>>

Answer(c, from, to) ==
    /\ Go(c, from, to)
    /\ Send(c, Reply)
    /\ UNCHANGED <<listening, name, table, cs, rest>>

\* The enumeration is made with the monitor and used without it, so that the
\* number of lines is that of no state of the table in particular.
Elements(c) ==
    /\ cs = NoClient
    /\ Go(c, "elements", "users")
    /\ UNCHANGED <<sockets, listening, name, table, cs, rest>>

ParseCommand(c) ==
    \/ Answer(c, "unknown", "talk")
    \/ Answer(c, "list", "elements")
    \/ Elements(c)
    \/ Answer(c, "users", "users")
    \/ Answer(c, "users", "talk")

CloseSocket(c) ==
    /\ Go(c, "close", "remove")
    /\ Close(c)
    /\ UNCHANGED <<listening, name, table, cs, rest>>

RemoveName(c) ==
    /\ cs = NoClient
    /\ Go(c, "remove", "done")
    /\ table' = [table EXCEPT ![name[c]] = NoClient]
    /\ UNCHANGED <<sockets, listening, name, cs, rest>>

Run(c) ==
    \/ PutName(c)
    \/ BroadCastMsg(c)
    \/ ReadLine(c)
    \/ ParseCommand(c)
    \/ CloseSocket(c)
    \/ RemoveName(c)

Reads(c) ==
    /\ ClientReads(c)
    /\ UNCHANGED <<listening, pc, name, table, cs, rest>>

GoesAway(c) ==
    /\ c \in Fickle
    /\ open[c]
    /\ pc[c] # "away"
    /\ Close(c)
    /\ UNCHANGED <<listening, pc, name, table, cs, rest>>

Next == \E c \in Client : Main(c) \/ Run(c) \/ Reads(c) \/ GoesAway(c)

Spec == Init /\ [][Next]_vars

\* As in ChatSrv.
FairSpec ==
    /\ Spec
    /\ \A c \in Client :
        /\ WF_vars(Reads(c))
        /\ SF_vars(SendMsg(c))
        /\ WF_vars(End(c))
-----------------------------------------------------------------------------
(* Properties. *)

Inside == {table[n] : n \in Name} \ {NoClient}

\* The table has no entry for a connection whose thread has ended, though a
\* thread removes its name whoever holds it.
NoDeadEntries == \A n \in Name : table[n] # NoClient =>
    name[table[n]] = n /\ pc[table[n]] \notin Early \cup {"done"}

\* Clients that do not connect while another one with their name is between the
\* constructor and the table are in a chat room.
Nick == [c \in Client |-> IF c \in Inside THEN name[c] ELSE NoName]
Pending ==
    [c \in Client |-> IF c \in rest THEN << <<name[cs], pc[cs]>> >> ELSE <<>>]
Room == INSTANCE ChatRoom WITH inside <- Inside, nick <- Nick, pending <- Pending
RoomSpec == Room!Spec

\* "keeps a list of all connected users": a connection that has been welcomed
\* is in the table until it leaves.
Registered == \A c \in Client : pc[c] \in {"talk", "says"} => table[name[c]] = c
==============================================================================
