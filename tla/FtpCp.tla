-------------------------------- MODULE FtpCp --------------------------------
(***************************************************************************)
(* ftpcp: copies a file between two FTP servers, or between a server and   *)
(* this computer, or locally.  A thread for the source and the main thread *)
(* for the target tell each other through two pipes where the source       *)
(* listens and where the target is; an error in either ends the process.   *)
(***************************************************************************)
EXTENDS Naturals, Sequences

CONSTANT MaxBlocks  \* bound on the blocks of the source file

BlocksAssumption == MaxBlocks \in Nat

Side == {"source", "target"}

VARIABLES
    place,       \* place[s]: "server", or "local" if no server is named
    types,       \* the commands for -a and -b
    bVerbose,
    at,          \* at[s]: where the thread of s is
    waiting,     \* waiting[s]: it waits for a reply
    owed,        \* owed[s]: what the server is still to answer, in order
    replies,     \* replies[s]: codes that have come from the server
    gone,        \* gone[s]: the server has closed the control connection
    hTargetAddr, hSourcePort, \* contents of the pipes
    inet_ntoa,   \* whose address is in the static buffer
    listening,   \* there is a socket for the data connection
    linked,      \* the target has connected to it
    closed,      \* the source has closed it
    size, uploaded, downloaded, \* blocks of the file, sent and received
    status,      \* "running", or the end of the process
    fault        \* history: something has failed

control == <<waiting, owed, replies, gone>>
pipes == <<hTargetAddr, hSourcePort, inet_ntoa>>
data == <<listening, linked, closed, size, uploaded, downloaded>>
args == <<place, types, bVerbose>>
vars == <<args, at, control, pipes, data, status, fault>>

TypeOK ==
    /\ place \in [Side -> {"server", "local"}]
    /\ types \subseteq {"TYPE_A", "TYPE_I"}
    /\ \A s \in Side : Len(owed[s]) <= 2
    /\ hTargetAddr \in BOOLEAN /\ hSourcePort \in {"none", "source", "peer"}
    /\ downloaded <= uploaded /\ uploaded <= size /\ size \in 0 .. MaxBlocks
    /\ (uploaded > 0 => linked) /\ (linked => listening)
    /\ status \in {"running", "ok", "failed"}

Init ==
    /\ place \in [Side -> {"server", "local"}]
    /\ types \in SUBSET {"TYPE_A", "TYPE_I"} /\ bVerbose \in BOOLEAN
    /\ at = [s \in Side |-> IF place[s] = "server" THEN "connect" ELSE "open"]
    /\ waiting = [s \in Side |-> FALSE]
    /\ owed = [s \in Side |-> <<>>]
    /\ replies = [s \in Side |-> <<>>]
    /\ gone = [s \in Side |-> FALSE]
    /\ hTargetAddr = FALSE /\ hSourcePort = "none" /\ inet_ntoa = "none"
    /\ listening = FALSE /\ linked = FALSE /\ closed = FALSE
    /\ size \in 0 .. MaxBlocks /\ uploaded = 0 /\ downloaded = 0
    /\ status = "running" /\ fault = FALSE

\* The steps of a dialogue, each with a command but for the first and "transfer".
After(s, step) ==
    LET command == IF s = "source" THEN "PASV" ELSE "PORT"
        binary == IF "TYPE_I" \in types THEN "TYPE_I" ELSE command
    IN  CASE step = "greeting" -> "USER"
          [] step = "USER" -> "PASS"
          [] step = "PASS" -> IF "TYPE_A" \in types THEN "TYPE_A" ELSE binary
          [] step = "TYPE_A" -> binary
          [] step = "TYPE_I" -> command
          [] step = "PASV" -> "RETR"
          [] step = "PORT" -> "STOR"
          [] step \in {"RETR", "STOR"} -> "transfer"
          [] step = "transfer" -> "QUIT"
          [] step = "QUIT" -> "end"

Code ==
    [greeting |-> "220", USER |-> "331", PASS |-> "230", PASV |-> "227", PORT |-> "200",
     RETR |-> "150", STOR |-> "150", transfer |-> "226"]
CodeOf(step) == IF step \in DOMAIN Code THEN Code[step] ELSE "200"

\* Defect.
Required_NotAtEnd(step) == step \in DOMAIN Code \ {"transfer"}
Required(step) == step \in DOMAIN Code

Runs(s, where) == status = "running" /\ place[s] = where
Goto(s, step) == at' = [at EXCEPT ![s] = step]

\* Defect: only the thread ends.
Exit_OfThread(s) ==
    /\ Goto(s, "end")
    /\ waiting' = [waiting EXCEPT ![s] = FALSE]
    /\ fault' = TRUE
    /\ UNCHANGED <<args, owed, replies, gone, pipes, data, status>>

\* exit(1), or SIGPIPE.
Exit(s) ==
    /\ status' = "failed"
    /\ fault' = TRUE
    /\ UNCHANGED <<args, at, control, pipes, data>>
-----------------------------------------------------------------------------
(* PasvThread and PortThread with a server. *)

\* Defect.
Connect_TellingFirst(s) ==
    /\ Runs(s, "server") /\ at[s] = "connect"
    /\ hTargetAddr' = (hTargetAddr \/ s = "target")
    /\ Goto(s, "message")
    /\ owed' = [owed EXCEPT ![s] = <<"greeting">>]
    /\ UNCHANGED <<args, waiting, replies, gone, hSourcePort, inet_ntoa, data, status, fault>>

Connect(s) ==
    /\ Runs(s, "server") /\ at[s] = "connect"
    /\ Goto(s, "message")
    /\ owed' = [owed EXCEPT ![s] = <<"greeting">>]
    /\ UNCHANGED <<args, waiting, replies, gone, pipes, data, status, fault>>

\* With -v the address of the server is shown.
Message(s) ==
    /\ Runs(s, "server") /\ at[s] = "message"
    /\ inet_ntoa' = IF bVerbose THEN "peer" ELSE inet_ntoa
    /\ Goto(s, "tell")
    /\ UNCHANGED <<args, control, hTargetAddr, hSourcePort, data, status, fault>>

\* Defect.
Tell_IfVerbose(s) ==
    /\ Runs(s, "server") /\ at[s] = "tell"
    /\ hTargetAddr' = (hTargetAddr \/ (s = "target" /\ bVerbose))
    /\ Goto(s, "greeting")
    /\ waiting' = [waiting EXCEPT ![s] = TRUE]
    /\ UNCHANGED <<args, owed, replies, gone, hSourcePort, inet_ntoa, data, status, fault>>

\* The target tells the source its address before it reads the greeting.
Tell(s) ==
    /\ Runs(s, "server") /\ at[s] = "tell"
    /\ hTargetAddr' = (hTargetAddr \/ s = "target")
    /\ Goto(s, "greeting")
    /\ waiting' = [waiting EXCEPT ![s] = TRUE]
    /\ UNCHANGED <<args, owed, replies, gone, hSourcePort, inet_ntoa, data, status, fault>>

Asking(s) == Runs(s, "server") /\ at[s] \in DOMAIN Code \cup types \cup {"QUIT"} /\ ~ waiting[s]

\* PORT waits for the other thread.
Ask(s) ==
    /\ Asking(s) /\ ~ gone[s]
    /\ at[s] = "PORT" => hSourcePort # "none"
    /\ waiting' = [waiting EXCEPT ![s] = TRUE]
    /\ owed' = [owed EXCEPT ![s] = Append(@, at[s])]
    /\ UNCHANGED <<args, at, replies, gone, pipes, data, status, fault>>

\* A command cannot be uploaded.
AskFails(s) ==
    /\ Asking(s) /\ gone[s]
    /\ IF at[s] = "QUIT"
       THEN Goto(s, "end") /\ UNCHANGED <<args, control, pipes, data, status, fault>>
       ELSE Exit(s)

\* What LineRecv leaves in the buffer; nothing comes from a server that is gone.
Heeded(s) == IF replies[s] = <<>> THEN "other" ELSE Head(replies[s])

Heed(s) ==
    /\ Runs(s, "server") /\ waiting[s]
    /\ replies[s] # <<>> \/ gone[s]
    /\ IF Required(at[s]) /\ Heeded(s) # CodeOf(at[s]) THEN Exit(s)
       ELSE /\ Goto(s, After(s, at[s]))
            /\ waiting' = [waiting EXCEPT ![s] = at[s] \in {"RETR", "STOR"}]
            /\ replies' = [replies EXCEPT ![s] = IF @ = <<>> THEN @ ELSE Tail(@)]
            /\ hSourcePort' = IF at[s] = "PASV" THEN "source" ELSE hSourcePort
            /\ UNCHANGED <<args, owed, gone, hTargetAddr, inet_ntoa, data, status, fault>>
-----------------------------------------------------------------------------
(* The servers.  A reply has the code that is waited for, or another one; or a line
   in the middle of it is empty or looks like a last one, and ends it too early. *)

\* What a server does, and has done, when it gives the code.
Done(s, step) ==
    CASE step = "PASV" -> listening' = TRUE /\ UNCHANGED closed
      [] step = "transfer" ->
            /\ linked /\ uploaded = size /\ closed
            /\ s = "target" => downloaded = uploaded
            /\ UNCHANGED <<listening, closed>>
      [] OTHER -> UNCHANGED <<listening, closed>>

Owes(s) == status = "running" /\ owed[s] # <<>> /\ ~ gone[s]
StillOwed(s) ==
    owed' = [owed EXCEPT ![s] =
        (IF Head(@) \in {"RETR", "STOR"} THEN <<"transfer">> ELSE <<>>) \o Tail(@)]

Answer(s) ==
    /\ Owes(s)
    /\ Done(s, Head(owed[s]))
    /\ StillOwed(s)
    /\ LET code == CodeOf(Head(owed[s]))
       IN  \/ replies' = [replies EXCEPT ![s] = Append(@, code)] /\ UNCHANGED fault
           \/ replies' = [replies EXCEPT ![s] = @ \o <<"other", code>>] /\ fault' = TRUE
    /\ UNCHANGED <<args, at, waiting, gone, pipes, linked, size, uploaded, downloaded, status>>

\* A server that gives up a transfer closes its data connection.
Refuse(s) ==
    /\ Owes(s)
    /\ closed' = (closed \/ (Head(owed[s]) = "transfer" /\ s = "source"))
    /\ owed' = [owed EXCEPT ![s] = Tail(@)]
    /\ \/ replies' = [replies EXCEPT ![s] = Append(@, "other")] /\ UNCHANGED gone
       \/ gone' = [gone EXCEPT ![s] = TRUE] /\ UNCHANGED replies
    /\ fault' = TRUE
    /\ UNCHANGED <<args, at, waiting, pipes, listening, linked, size, uploaded, downloaded, status>>

Owing(s, steps) == status = "running" /\ owed[s] # <<>> /\ Head(owed[s]) \in steps

\* The target connects when it has STOR, before or after its reply.
ServerConnects ==
    /\ Owing("target", {"STOR", "transfer"})
    /\ listening /\ hSourcePort = "source" /\ ~ linked
    /\ linked' = TRUE
    /\ UNCHANGED <<args, at, control, pipes, listening, closed, size, uploaded, downloaded, status, fault>>

ServerSends ==
    /\ Owing("source", {"transfer"}) /\ linked /\ ~ closed
    /\ IF uploaded < size THEN uploaded' = uploaded + 1 /\ UNCHANGED closed
       ELSE closed' = TRUE /\ UNCHANGED uploaded
    /\ UNCHANGED <<args, at, control, pipes, listening, linked, size, downloaded, status, fault>>

ServerReceives ==
    /\ Owing("target", {"transfer"}) /\ downloaded < uploaded
    /\ downloaded' = downloaded + 1
    /\ UNCHANGED <<args, at, control, pipes, listening, linked, closed, size, uploaded, status, fault>>
-----------------------------------------------------------------------------
(* Local files. *)

\* Any call for a local file may fail.
LocalFails(s) == Runs(s, "local") /\ at[s] # "end" /\ Exit(s)

Open ==
    /\ Runs("source", "local") /\ at["source"] = "open"
    /\ Goto("source", "listen")
    /\ UNCHANGED <<args, control, pipes, data, status, fault>>

\* The source listens on the interface through which the target reaches it.
Listen ==
    /\ Runs("source", "local") /\ at["source"] = "listen" /\ hTargetAddr
    /\ listening' = TRUE
    /\ inet_ntoa' = "source"
    /\ Goto("source", "tell")
    /\ UNCHANGED <<args, control, hTargetAddr, hSourcePort, linked, closed, size, uploaded, downloaded, status, fault>>

TellPort ==
    /\ Runs("source", "local") /\ at["source"] = "tell"
    /\ hSourcePort' = inet_ntoa
    /\ Goto("source", "accept")
    /\ UNCHANGED <<args, control, hTargetAddr, inet_ntoa, data, status, fault>>

Accept ==
    /\ Runs("source", "local") /\ at["source"] = "accept" /\ linked
    /\ inet_ntoa' = IF bVerbose THEN "peer" ELSE inet_ntoa
    /\ Goto("source", "send")
    /\ UNCHANGED <<args, control, hTargetAddr, hSourcePort, data, status, fault>>

Upload ==
    /\ Runs("source", "local") /\ at["source"] = "send"
    /\ IF uploaded < size THEN uploaded' = uploaded + 1 /\ UNCHANGED <<at, closed>>
       ELSE closed' = TRUE /\ Goto("source", "end") /\ UNCHANGED uploaded
    /\ UNCHANGED <<args, control, pipes, listening, linked, size, downloaded, status, fault>>

\* The file is created before anything is known about the source.
Create ==
    /\ Runs("target", "local") /\ at["target"] = "open"
    /\ hTargetAddr' = TRUE
    /\ Goto("target", "link")
    /\ UNCHANGED <<args, control, hSourcePort, inet_ntoa, data, status, fault>>

Link ==
    /\ Runs("target", "local") /\ at["target"] = "link" /\ hSourcePort = "source"
    /\ listening
    /\ linked' = TRUE
    /\ inet_ntoa' = IF bVerbose THEN "peer" ELSE inet_ntoa
    /\ Goto("target", "receive")
    /\ UNCHANGED <<args, control, hTargetAddr, hSourcePort, listening, closed, size, uploaded, downloaded, status, fault>>

Download ==
    /\ Runs("target", "local") /\ at["target"] = "receive"
    /\ \/ downloaded < uploaded /\ downloaded' = downloaded + 1 /\ UNCHANGED at
       \/ downloaded = uploaded /\ closed /\ Goto("target", "end") /\ UNCHANGED downloaded
    /\ UNCHANGED <<args, control, pipes, listening, linked, closed, size, uploaded, status, fault>>
-----------------------------------------------------------------------------
\* main() waits for the thread of the source.
Join ==
    /\ status = "running" /\ \A s \in Side : at[s] = "end"
    /\ status' = "ok"
    /\ UNCHANGED <<args, at, control, pipes, data, fault>>

\* A connection cannot be made.
ConnectFails(s) == Runs(s, "server") /\ at[s] = "connect" /\ Exit(s)

PasvThread ==
    \/ Connect("source") \/ Message("source") \/ Tell("source") \/ Ask("source") \/ AskFails("source") \/ Heed("source")
    \/ Open \/ Listen \/ TellPort \/ Accept \/ Upload
PortThread ==
    \/ Connect("target") \/ Message("target") \/ Tell("target") \/ Ask("target") \/ AskFails("target") \/ Heed("target")
    \/ Create \/ Link \/ Download
    \/ Join
Server(s) == Answer(s) \/ Refuse(s)
Transfer == ServerConnects \/ ServerSends \/ ServerReceives

Next ==
    \/ PasvThread \/ PortThread
    \/ Transfer
    \/ \E s \in Side : Server(s) \/ ConnectFails(s) \/ LocalFails(s)
-----------------------------------------------------------------------------
(* A copy that ends well is complete, with any two ends and whatever a server says. *)
EndsComplete == status = "ok" => downloaded = size /\ closed

(* What the target is told is the address of the source, not another one that is
   converted to text at the same time. *)
AddressIsOwn == hSourcePort \in {"none", "source"}

(* The program ends, if the servers answer or hang up. *)
CopyEnds == <>(status # "running")

(* If nothing fails the copy ends well. *)
GoesWell == [](~ fault) => <>(status = "ok")
==============================================================================
