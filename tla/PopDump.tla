------------------------------ MODULE PopDump ------------------------------
(***************************************************************************)
(* popdump: fetches the mail of a user from a POP server into files named  *)
(* by the numbers of the messages, and deletes each message that it has    *)
(* saved.  The user runs it again and again.                               *)
(***************************************************************************)
EXTENDS PopServer

CONSTANTS
    Windows,     \* built for Windows: WriteFile tells that it has failed
    TakesFiles,  \* the user moves the files away before running it again
    Rooms,       \* lines that the disk may have room for
    MaxSessions  \* bound on the number of times it is run

NumbersAssumption ==
    /\ {Windows, TakesFiles} \subseteq BOOLEAN
    /\ Rooms \subseteq Nat /\ MaxSessions \in Nat

VARIABLES
    does,           \* where main is
    dwMailCounter, dwNumMail,
    files, taken,   \* saved mail by number, and what has been moved away
    room, sessions

client == <<does, dwMailCounter, dwNumMail>>
disk == <<files, taken, room>>
vars == <<server, client, disk, sessions>>

Init ==
    /\ ServerInit
    /\ does = "off" /\ dwMailCounter = 1 /\ dwNumMail = 0
    /\ files = <<>> /\ taken = {} /\ room \in Rooms
    /\ sessions = 0

TypeOK ==
    /\ ServerTypeOK
    /\ does \in {"off", "greeting", "USER", "user", "PASS", "pass", "STAT", "stat",
                 "RETR", "retr", "open", "save", "DELE", "dele", "QUIT", "quit"}
    /\ dwNumMail <= Len(listed)
    /\ does \in {"RETR", "retr", "open", "save", "DELE", "dele"} => dwMailCounter \in 1 .. dwNumMail
    /\ room \in Nat

\* What LineRecv reads; nothing comes over a connection that is broken.
Readable == wire # <<>> \/ hungup
Line == IF wire = <<>> THEN "" ELSE Head(wire)
Reads == wire' = (IF wire = <<>> THEN wire ELSE Tail(wire)) /\ UNCHANGED <<arrived, drop, session, hungup>>

\* main returns.
Exit == does' = "off" /\ Leave /\ UNCHANGED <<dwMailCounter, dwNumMail>>
Goto(where) == does' = where /\ Reads /\ UNCHANGED <<dwMailCounter, dwNumMail>>

Connect ==
    /\ does = "off" /\ sessions < MaxSessions
    /\ TakesFiles => files = <<>>
    /\ \E line \in {"+", "-", "text"} : Greet(line)
    /\ does' = "greeting" /\ dwMailCounter' = 1 /\ dwNumMail' = 0
    /\ sessions' = sessions + 1
    /\ UNCHANGED disk

\* A command that is sent over a broken connection is lost.
Send(command, answer, A) ==
    /\ does = command
    /\ IF hungup THEN UNCHANGED server ELSE A \/ Refuse
    /\ does' = answer
    /\ UNCHANGED <<dwMailCounter, dwNumMail, disk, sessions>>

Greeting ==
    /\ does = "greeting" /\ Readable
    /\ IF Line = "+" THEN Goto("USER") ELSE Exit
    /\ UNCHANGED <<disk, sessions>>

\* The answers to USER and PASS may have lines before the one that counts.
LogOn(answer, then) ==
    /\ does = answer /\ Readable
    /\ \/ Line = "text" /\ Goto(answer)
       \/ Line = "+" /\ Goto(then)
       \/ Line \in {"", "-"} /\ Exit
    /\ UNCHANGED <<disk, sessions>>

Stat ==
    /\ does = "stat" /\ Readable
    /\ IF Line = "+" /\ listed # <<>>
       THEN does' = "RETR" /\ dwNumMail' = Len(listed) /\ Reads /\ UNCHANGED dwMailCounter
       ELSE Exit
    /\ UNCHANGED <<disk, sessions>>

Retr ==
    /\ does = "retr" /\ Readable
    /\ Goto(IF Line = "+" THEN "open" ELSE "QUIT")
    /\ UNCHANGED <<disk, sessions>>

\* An old file of that name is overwritten.
Open ==
    /\ does = "open"
    /\ LET old == IF dwMailCounter \in DOMAIN files THEN Len(files[dwMailCounter].lines) ELSE 0
       IN  \/ /\ does' = "save"
              /\ files' = [n \in DOMAIN files \cup {dwMailCounter} |->
                             IF n = dwMailCounter THEN [mail |-> listed[n], lines |-> <<>>] ELSE files[n]]
              /\ room' = room + old
           \/ does' = "QUIT" /\ UNCHANGED <<files, room>>
    /\ UNCHANGED <<server, dwMailCounter, dwNumMail, taken, sessions>>

\* Defect: an empty line ends a mail, too.
EndOfMail_OrEmpty(line) == line \in {".", ""}
EndOfMail(line) == line = "."

\* Defect.
WriteFails_Unnoticed == Goto("save")
\* POSIX: !write() is not true when write() returns -1.
WriteFails == IF Windows THEN Exit ELSE Goto("save")

Save ==
    /\ does = "save" /\ Readable
    /\ \/ EndOfMail(Line) /\ Goto("DELE") /\ UNCHANGED disk
       \/ /\ ~ EndOfMail(Line) /\ room > 0
          /\ Goto("save")
          /\ files' = [files EXCEPT ![dwMailCounter].lines = Append(@, Line)]
          /\ room' = room - 1
          /\ UNCHANGED taken
       \/ ~ EndOfMail(Line) /\ room = 0 /\ WriteFails /\ UNCHANGED disk
    /\ UNCHANGED sessions

Dele ==
    /\ does = "dele" /\ Readable
    /\ IF Line = "+" /\ dwMailCounter < dwNumMail
       THEN does' = "RETR" /\ dwMailCounter' = dwMailCounter + 1 /\ Reads /\ UNCHANGED dwNumMail
       ELSE Goto("QUIT")
    /\ UNCHANGED <<disk, sessions>>

Bye ==
    /\ does = "quit" /\ Readable
    /\ Exit
    /\ UNCHANGED <<disk, sessions>>

\* The user moves the files away, and with them what room they took.
Take ==
    /\ does = "off" /\ files # <<>>
    /\ taken' = taken \cup {files[n] : n \in DOMAIN files}
    /\ files' = <<>>
    /\ \E r \in Rooms : room' = r
    /\ UNCHANGED <<server, client, sessions>>

Main ==
    \/ Greeting
    \/ Send("USER", "user", Agree(<<"+">>)) \/ Send("USER", "user", Agree(<<"text", "+">>))
    \/ LogOn("user", "PASS")
    \/ Send("PASS", "pass", Agree(<<"+">>))
    \/ LogOn("pass", "STAT")
    \/ Send("STAT", "stat", Agree(<<"+">>)) \/ Stat
    \/ Send("RETR", "retr", Retrieve(dwMailCounter)) \/ Retr
    \/ Open \/ Save
    \/ Send("DELE", "dele", Delete(dwMailCounter)) \/ Dele
    \/ Send("QUIT", "quit", Quit) \/ Bye
Server == (Deliver \/ HangUp) /\ UNCHANGED <<client, disk, sessions>>
Next == Connect \/ Main \/ Take \/ Server

Spec == Init /\ [][Next]_vars /\ WF_vars(Main)
-----------------------------------------------------------------------------
Kept(m) ==
    \E f \in taken \cup {files[n] : n \in DOMAIN files} : f = [mail |-> m, lines |-> Text[m]]

(* Mail that has come is on the server or in a file, all of it. *)
NothingLost == \A m \in arrived : m \in drop \/ Kept(m)

(* Every run of the program ends, whatever the server says and when it hangs up. *)
DumpEnds == does # "off" ~> does = "off"
==============================================================================
