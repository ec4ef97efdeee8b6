------------------------------- MODULE MCLines -------------------------------
(***************************************************************************)
(* Programs at the end of a line, of which a behaviour runs one: the       *)
(* forwarders devredir and tcpfw, LightRepeater at its serial port, and    *)
(* popdump at a connection to a server.                                    *)
(***************************************************************************)
EXTENDS DevRedir, TLC

CONSTANTS Max, Mail, Text, Windows, TakesFiles, Rooms, MaxSessions

VARIABLES
    running,
    arrived, unread, peer, read, pending, event, bCancelling,
    cts, ring, armed, latched, changed, tx, bSquelchOpened, bTailTimerEnabled, lastID,
    repeater, announcer, main, suspended,
    come, drop, listed, marked, wire, hungup, does, dwMailCounter, dwNumMail, files, taken,
    room, sessions

Texts == ("a" :> <<"text">>) @@ ("b" :> <<"", "text">>) @@ ("c" :> <<>>)

Fw == INSTANCE TcpFw
Lr == INSTANCE LightRepeater WITH event <- changed
Pop == INSTANCE PopDump WITH arrived <- come

ASSUME FwMax == Fw!MaxAssumption
ASSUME PopNumbers == Pop!NumbersAssumption
ASSUME PopMail == Pop!MailAssumption

fwonly == <<arrived, unread, peer, read, pending, event, bCancelling>>
devonly == <<client, ready, packet, peers, put>>
lronly ==
    <<cts, ring, armed, latched, changed, tx, bSquelchOpened, bTailTimerEnabled, lastID,
      repeater, announcer, main, suspended>>
poponly ==
    <<come, drop, listed, marked, wire, hungup, does, dwMailCounter, dwNumMail, files, taken,
      room, sessions>>
mcvars == <<running, vars, fwonly, lronly, poponly>>

\* Steps of one program.
Dev(A) == running = "devredir" /\ A /\ UNCHANGED <<running, fwonly, lronly, poponly>>
Tcp(A) == running = "tcpfw" /\ A /\ UNCHANGED <<running, devonly, lronly, poponly>>
Radio(A) == running = "repeater" /\ A /\ UNCHANGED <<running, vars, fwonly, poponly>>
Post(A) == running = "popdump" /\ A /\ UNCHANGED <<running, vars, fwonly, lronly>>

MCInit ==
    /\ running \in {"devredir", "tcpfw", "repeater", "popdump"}
    /\ Empty /\ Fw!Empty /\ Lr!Init /\ Pop!Init
    /\ pc = IF running = "tcpfw" THEN "startlocal" ELSE "accept"
    /\ running # "popdump" => drop = {} /\ room = 0

MCSpec ==
    /\ MCInit
    /\ [][Dev(Next) \/ Tcp(Fw!Next) \/ Radio(Lr!Next) \/ Post(Pop!Next)]_mcvars
    /\ WF_mcvars(Dev(Process) \/ Tcp(Fw!Thread) \/ Radio(Lr!RepeaterEngine) \/ Post(Pop!Main))
    /\ \A s \in Fw!Side : WF_mcvars(Tcp(Fw!PeerReads(s)))
    /\ WF_mcvars(Radio(Lr!AnnounceEngine))
    /\ WF_mcvars(Radio(Lr!StopThreads))

\* devredir: what one client hears of the device has no gap, no repetition and no
\* other order.
DeviceUnbroken == running = "devredir" => TypeOK /\ Unbroken

\* devredir: the device is read whatever the client does, and after a client that
\* has closed its side the next one is waited for.
RedirGoesOn == NextClient /\ DeviceIsRead

\* tcpfw: what either side sends is dealt with, that of the local side if reads of
\* the remote side end again and again; when the remote side ends, both sockets are
\* closed.
ForwardGoesOn == Fw!RemoteIsServed /\ Fw!LocalIsServedAlong /\ Fw!RemoteEnds

\* LightRepeater: in whichever order the two threads read the flags, wrote them and
\* switched, nothing stays on when the repeater thread waits without a time limit,
\* nor when main() has stopped the two; and no change of the squelch is lost.
OffAtRest == running = "repeater" => Lr!TypeOK /\ Lr!OffAtRest

\* LightRepeater: lines that stay as they are end every transmission.
QuietTurnsOff == running = "repeater" => Lr!QuietTurnsOff

\* popdump, built for Windows, with a user who moves the files away between its
\* runs: mail that has come is on the server or in a file, all of it.
MailIsSomewhere == running = "popdump" => Pop!TypeOK /\ Pop!NothingLost

\* popdump: every run ends, whatever the server says and when it hangs up.
DumpEnds == Pop!DumpEnds
==============================================================================
