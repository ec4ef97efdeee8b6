------------------------------- MODULE ChatSrv -------------------------------
(***************************************************************************)
(* The chat server chatsrv: inetd runs ChatServer in a thread for each     *)
(* connection.  The threads share a chain of ClientManager objects under   *)
(* one critical section, in which a message is sent to everybody.          *)
(***************************************************************************)
EXTENDS Sockets, SequencesExt

CONSTANTS
    Name, NoName,
    NoClient,
    Reply,  \* a line for one client
    Fickle, \* clients that may hang up at any time
    Typed   \* Typed[c]: the kinds of lines that the client of c types

VARIABLES
    pc,     \* pc[c]: where the thread of connection c is
    first,  \* the chain of ClientManagers, first to last
    name,   \* name[c]
    cs,     \* the thread in the critical section
    rest    \* whom that thread has still to send to

vars == <<sockets, pc, first, name, cs, rest>>

ASSUME NamesAssumption == NoName \notin Name /\ NoClient \notin Client
ASSUME TypedAssumption == Typed \in [Client -> SUBSET {"says", "list", "unknown"}]

\* What is broadcast: "joined the chat", a message, "left the chat".
Said == {"joined", "says", "left"}

TypeOK ==
    /\ SocketsOK((Name \X Said) \cup {Reply})
    /\ pc \in [Client -> {"connect", "name", "sorry", "list", "users", "total",
                          "unknown", "talk", "destroy", "done"} \cup Said]
    /\ first \in Seq(Client)
    /\ name \in [Client -> Name \cup {NoName}]
    /\ cs \in Client \cup {NoClient}
    /\ rest \in Seq(Client)

Init ==
    /\ SocketsInit
    /\ pc = [c \in Client |-> "connect"]
    /\ first = <<>>
    /\ name = [c \in Client |-> NoName]
    /\ cs = NoClient
    /\ rest = <<>>

Go(c, from, to) == pc[c] = from /\ pc' = [pc EXCEPT ![c] = to]

\* The constructor.
Connect(c) ==
    /\ Go(c, "connect", "name")
    /\ cs = NoClient
    /\ first' = <<c>> \o first
    /\ UNCHANGED <<sockets, name, cs, rest>>

\* LineRecv returns nothing: the destructor runs.
NoLine(c) ==
    /\ Go(c, "name", "destroy")
    /\ UNCHANGED <<sockets, first, name, cs, rest>>

\* Defect.
InUse_UntilUnnamed(n) ==
    \E i \in DOMAIN first :
        /\ name[first[i]] = n
        /\ \A j \in 1 .. i - 1 : name[first[j]] # NoName

InUse(n) == \E d \in ToSet(first) : name[d] = n

\* A line with a name is received; the chain is searched and the name is set in
\* one critical section.
ApplyName(c, n) ==
    /\ cs = NoClient
    /\ IF InUse(n)
       THEN Go(c, "name", "sorry") /\ UNCHANGED name
       ELSE Go(c, "name", "joined") /\ name' = [name EXCEPT ![c] = n]
    /\ UNCHANGED <<sockets, first, cs, rest>>

\* A line is sent to the client alone, outside the critical section.
Answer(c, from, to) ==
    /\ Go(c, from, to)
    /\ Send(c, Reply)
    /\ UNCHANGED <<first, name, cs, rest>>

Begin(c) ==
    /\ pc[c] \in Said
    /\ cs = NoClient
    /\ cs' = c
    /\ rest' = first
    /\ UNCHANGED <<sockets, pc, first, name>>

SendMsg(c) ==
    /\ cs = c
    /\ pc[c] \in Said
    /\ rest # <<>>
    /\ Send(Head(rest), <<name[c], pc[c]>>)
    /\ rest' = Tail(rest)
    /\ UNCHANGED <<pc, first, name, cs>>

End(c) ==
    /\ cs = c
    /\ rest = <<>>
    /\ \/ Go(c, "left", "destroy")
       \/ \E what \in Said \ {"left"} : Go(c, what, "talk")
    /\ cs' = NoClient
    /\ UNCHANGED <<sockets, first, name, rest>>

BroadcastMsg(c) ==
    \/ Begin(c)
    \/ SendMsg(c)
    \/ End(c)

\* A line is received: to be broadcast, a command, or none.
LineRecv(c) ==
    /\ \E to \in Typed[c] \cup {"left"} : Go(c, "talk", to)
    /\ UNCHANGED <<sockets, first, name, cs, rest>>

\* Defect.
ListUsers_KeepingLock(c) ==
    /\ pc[c] = "users"
    /\ \/ /\ cs = NoClient
          /\ cs' = c
          /\ rest' = first
          /\ UNCHANGED <<sockets, pc>>
       \/ /\ cs = c
          /\ rest # <<>>
          /\ Send(c, Reply)
          /\ rest' = Tail(rest)
          /\ UNCHANGED <<cs, pc>>
       \/ /\ cs = c
          /\ rest = <<>>
          /\ Go(c, "users", "total")
          /\ UNCHANGED <<sockets, cs, rest>>
    /\ UNCHANGED <<first, name>>

\* "/list" sends a line for every connection, named or not, in the critical
\* section.
ListUsers(c) ==
    /\ pc[c] = "users"
    /\ \/ /\ cs = NoClient
          /\ cs' = c
          /\ rest' = first
          /\ UNCHANGED <<sockets, pc>>
       \/ /\ cs = c
          /\ rest # <<>>
          /\ Send(c, Reply)
          /\ rest' = Tail(rest)
          /\ UNCHANGED <<cs, pc>>
       \/ /\ cs = c
          /\ rest = <<>>
          /\ Go(c, "users", "total")
          /\ cs' = NoClient
          /\ UNCHANGED <<sockets, rest>>
    /\ UNCHANGED <<first, name>>

ParseCommand(c) ==
    \/ Answer(c, "list", "users")
    \/ ListUsers(c)
    \/ Answer(c, "total", "talk")
    \/ Answer(c, "unknown", "talk")

\* Defect.
Destroy_OutsideLock(c) ==
    /\ Go(c, "destroy", "done")
    /\ \E i \in DOMAIN first : first[i] = c /\ first' = RemoveAt(first, i)
    /\ name' = [name EXCEPT ![c] = NoName]
    /\ Close(c)
    /\ UNCHANGED <<cs, rest>>

\* The destructor; inetd closes the connection.
Destroy(c) ==
    /\ Go(c, "destroy", "done")
    /\ cs = NoClient
    /\ \E i \in DOMAIN first : first[i] = c /\ first' = RemoveAt(first, i)
    /\ name' = [name EXCEPT ![c] = NoName]
    /\ Close(c)
    /\ UNCHANGED <<cs, rest>>

ChatServer(c) ==
    \/ Connect(c)
    \/ NoLine(c)
    \/ \E n \in Name : ApplyName(c, n)
    \/ Answer(c, "sorry", "destroy")
    \/ BroadcastMsg(c)
    \/ LineRecv(c)
    \/ ParseCommand(c)
    \/ Destroy(c)

\* The client reads, or goes away.
Reads(c) ==
    /\ ClientReads(c)
    /\ UNCHANGED <<pc, first, name, cs, rest>>

GoesAway(c) ==
    /\ c \in Fickle
    /\ open[c]
    /\ pc[c] # "connect"
    /\ Close(c)
    /\ UNCHANGED <<pc, first, name, cs, rest>>

Next == \E c \in Client : ChatServer(c) \/ Reads(c) \/ GoesAway(c)

Spec == Init /\ [][Next]_vars

\* A thread in the critical section goes on, a send that finds room again and
\* again is done, and connected clients read.  No client need say anything, and nothing
\* is assumed of the order in which threads enter the critical section.
FairSpec ==
    /\ Spec
    /\ \A c \in Client :
        /\ WF_vars(Reads(c))
        /\ SF_vars(SendMsg(c))
        /\ WF_vars(End(c))
        /\ WF_vars(ParseCommand(c))
-----------------------------------------------------------------------------
(* Properties. *)

\* ApplyName keeps nicknames of connections in the chain apart, however their
\* threads interleave.
NamesDiffer ==
    \A c, d \in ToSet(first) : name[c] = name[d] /\ name[c] # NoName => c = d

\* The chain and the critical section make a chat room: one order of messages
\* for all, without gaps for anyone, from the constructor on.
Inside == ToSet(first)
Pending ==
    [c \in Client |->
        IF cs # NoClient /\ pc[cs] \in Said /\ c \in ToSet(rest)
        THEN << <<name[cs], pc[cs]>> >>
        ELSE <<>>]
Room == INSTANCE ChatRoom WITH inside <- Inside, nick <- name, pending <- Pending
RoomSpec == Room!Spec

\* As long as clients read or go away, the critical section is left again, also
\* by those who send lists and messages to clients whose buffers are full.
SectionIsLeft == []<>(cs = NoClient)
==============================================================================
