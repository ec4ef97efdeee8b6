---------------------------- MODULE LightRepeater ----------------------------
(***************************************************************************)
(* The LightRepeater engine: RepeaterEngine follows the squelch and tone   *)
(* call lines of a COM port, AnnounceEngine wakes up once a minute, main() *)
(* stops both.  All three switch one transmitter and share two flags       *)
(* without a lock.                                                         *)
(***************************************************************************)
EXTENDS Naturals

VARIABLES
    cts, ring,            \* the squelch and tone call lines: TRUE is open
    armed,                \* an asynchronous WaitCommEvent is under way
    latched,              \* a line has changed while none was
    event,                \* oLineWait.hEvent is signalled
    tx,                   \* the transmitter is on
    bSquelchOpened, bTailTimerEnabled,
    lastID,               \* dwLastIDTime: 0 closed, 1 not identified yet, 2 a time
    repeater, announcer, main,  \* where each thread is
    suspended             \* threads that main() has suspended

lines == <<cts, ring>>
wait == <<armed, latched, event>>
flags == <<bSquelchOpened, bTailTimerEnabled>>
threads == <<repeater, announcer, main, suspended>>
vars == <<lines, wait, tx, flags, lastID, threads>>

RepeaterPlaces ==
    {"start", "loop", "wait", "timeout", "sound", "off", "lines", "closing",
     "closed", "toneoff", "toneread", "tonewait", "tonecheck", "toneend",
     "open", "openon"}

AnnouncerPlaces ==
    {"sleep", "look", "looktail", "lookopen", "on", "play",
     "check", "checktail", "checkopen", "off"}

TypeOK ==
    /\ {cts, ring, armed, latched, event, tx} \subseteq BOOLEAN
    /\ {bSquelchOpened, bTailTimerEnabled} \subseteq BOOLEAN
    /\ lastID \in 0 .. 2
    /\ repeater \in RepeaterPlaces
    /\ announcer \in AnnouncerPlaces
    /\ main \in {"run", "suspend", "lastoff", "leaving", "exited"}
    /\ suspended \subseteq {"repeater", "announcer"}

Init ==
    /\ cts = FALSE
    /\ ring = FALSE
    /\ armed = FALSE
    /\ latched = FALSE
    /\ event = FALSE
    /\ tx = FALSE
    /\ bSquelchOpened = FALSE
    /\ bTailTimerEnabled = FALSE
    /\ lastID = 0
    /\ repeater = "start"
    /\ announcer = "sleep"
    /\ main = "run"
    /\ suspended = {}
-----------------------------------------------------------------------------
(* The port. *)

\* One or both lines change.  A change ends the wait that is under way, or is
\* kept for the next one.
LineChange ==
    /\ main # "exited"
    /\ \E c, r \in BOOLEAN :
         /\ <<c, r>> # lines
         /\ cts' = c
         /\ ring' = r
    /\ armed' = FALSE
    /\ event' = (event \/ armed)
    /\ latched' = (latched \/ ~ armed)
    /\ UNCHANGED <<tx, flags, lastID, threads>>

\* Defect.
StartWaitRXEvent_Forgetting ==
    /\ armed' = TRUE
    /\ event' = FALSE
    /\ latched' = FALSE

\* WaitCommEvent resets the event before anything else, also when it then finds
\* a wait under way, and completes at once if a change has been kept.
StartWaitRXEvent ==
    /\ armed' = (armed \/ ~ latched)
    /\ event' = (~ armed /\ latched)
    /\ latched' = (armed /\ latched)
-----------------------------------------------------------------------------
(* RepeaterEngine. *)

Repeater(from, to) ==
    /\ "repeater" \notin suspended
    /\ main # "exited"
    /\ repeater = from
    /\ repeater' = to
    /\ UNCHANGED <<lines, announcer, main, suspended>>

Begin ==
    /\ Repeater("start", "loop")
    /\ tx' = FALSE
    /\ UNCHANGED <<wait, flags, lastID>>

StartWait ==
    /\ Repeater("loop", "wait")
    /\ StartWaitRXEvent
    /\ UNCHANGED <<tx, flags, lastID>>

\* The event resets itself when the wait for it ends.
Trigger(from, to) ==
    /\ event
    /\ Repeater(from, to)
    /\ event' = FALSE
    /\ UNCHANGED <<armed, latched, tx, flags, lastID>>

\* Defect.
Timeout_OnlyTail ==
    /\ ~ event
    /\ bTailTimerEnabled
    /\ Repeater("wait", "timeout")
    /\ UNCHANGED <<wait, tx, flags, lastID>>

Timeout ==
    /\ ~ event
    /\ bSquelchOpened \/ bTailTimerEnabled
    /\ Repeater("wait", "timeout")
    /\ UNCHANGED <<wait, tx, flags, lastID>>

StopTailTimer ==
    /\ Repeater("timeout", "sound")
    /\ bTailTimerEnabled' = FALSE
    /\ UNCHANGED <<wait, tx, bSquelchOpened, lastID>>

\* Sign-off, long speaker or "gummitumme" sound, played to its end.
PlaySignoff ==
    /\ Repeater("sound", "off")
    /\ bSquelchOpened' = FALSE
    /\ UNCHANGED <<wait, tx, bTailTimerEnabled, lastID>>

\* Defect.
ShutDown_WhenIdentified ==
    /\ Repeater("off", "loop")
    /\ tx' = (tx /\ lastID < 2)
    /\ lastID' = 0
    /\ UNCHANGED <<wait, flags>>

ShutDown ==
    /\ Repeater("off", "loop")
    /\ tx' = FALSE
    /\ lastID' = 0
    /\ UNCHANGED <<wait, flags>>

Ignored ==
    /\ cts = bSquelchOpened
    /\ Repeater("lines", "loop")
    /\ UNCHANGED <<wait, tx, flags, lastID>>

SquelchOpened ==
    /\ cts
    /\ ~ bSquelchOpened
    /\ Repeater("lines", IF lastID = 0 THEN "toneoff" ELSE "open")
    /\ bTailTimerEnabled' = FALSE
    /\ UNCHANGED <<wait, tx, bSquelchOpened, lastID>>

SquelchClosed ==
    /\ ~ cts
    /\ bSquelchOpened
    /\ Repeater("lines", "closing")
    /\ bTailTimerEnabled' = TRUE
    /\ UNCHANGED <<wait, tx, bSquelchOpened, lastID>>

CloseSquelch ==
    /\ Repeater("closing", "closed")
    /\ bSquelchOpened' = FALSE
    /\ UNCHANGED <<wait, tx, bTailTimerEnabled, lastID>>

\* Start tune, ID or courtesy sound, played while the loop goes on.
Courtesy ==
    /\ Repeater("closed", "loop")
    /\ tx' = TRUE
    /\ IF lastID = 0 THEN lastID' = 1 ELSE lastID' \in {lastID, 2}
    /\ UNCHANGED <<wait, flags>>

\* The check for a tone call: off, a tone, the end of the tone.
ToneOff ==
    /\ Repeater("toneoff", "toneread")
    /\ tx' = FALSE
    /\ UNCHANGED <<wait, flags, lastID>>

ToneRead ==
    /\ IF ring
       THEN Repeater("toneread", "tonecheck") /\ UNCHANGED wait
       ELSE Repeater("toneread", "tonewait") /\ StartWaitRXEvent
    /\ UNCHANGED <<tx, flags, lastID>>

ToneCheck ==
    /\ IF cts /\ ring
       THEN Repeater("tonecheck", "toneend") /\ StartWaitRXEvent
       ELSE Repeater("tonecheck", "loop") /\ UNCHANGED wait
    /\ UNCHANGED <<tx, flags, lastID>>

ToneTimeout ==
    /\ ~ event
    /\ Repeater("toneend", "loop")
    /\ UNCHANGED <<wait, tx, flags, lastID>>

OpenSquelch ==
    /\ Repeater("open", "openon")
    /\ bSquelchOpened' = TRUE
    /\ UNCHANGED <<wait, tx, bTailTimerEnabled, lastID>>

Transmit ==
    /\ Repeater("openon", "loop")
    /\ tx' = TRUE
    /\ UNCHANGED <<wait, flags, lastID>>

RepeaterEngine ==
    \/ Begin
    \/ StartWait
    \/ Trigger("wait", "lines")
    \/ Timeout
    \/ StopTailTimer
    \/ PlaySignoff
    \/ ShutDown
    \/ Ignored
    \/ SquelchOpened
    \/ SquelchClosed
    \/ CloseSquelch
    \/ Courtesy
    \/ ToneOff
    \/ ToneRead
    \/ Trigger("tonewait", "tonecheck")
    \/ ToneCheck
    \/ Trigger("toneend", "loop")   \* too short
    \/ Trigger("toneend", "open")
    \/ ToneTimeout
    \/ OpenSquelch
    \/ Transmit
-----------------------------------------------------------------------------
(* AnnounceEngine. *)

Announcer(from, to) ==
    /\ "announcer" \notin suspended
    /\ main # "exited"
    /\ announcer = from
    /\ announcer' = to
    /\ UNCHANGED <<lines, wait, flags, lastID, repeater, main, suspended>>

\* A minute begins; there may be no announcement for it.
Wake == Announcer("sleep", "look") /\ UNCHANGED tx

\* "bSquelchOpened | bTailTimerEnabled" reads the flags in either order.
Look(from, readTail, readOpen, closed, opened) ==
    /\ \/ Announcer(from, IF bSquelchOpened THEN opened ELSE readTail)
       \/ Announcer(from, IF bTailTimerEnabled THEN opened ELSE readOpen)
       \/ Announcer(readTail, IF bTailTimerEnabled THEN opened ELSE closed)
       \/ Announcer(readOpen, IF bSquelchOpened THEN opened ELSE closed)
    /\ UNCHANGED tx

NoAnnouncement == Announcer("on", "sleep") /\ UNCHANGED tx
AnnounceOn == Announcer("on", "play") /\ tx' = TRUE
PlayAnnouncements == Announcer("play", "check") /\ UNCHANGED tx
AnnounceOff == Announcer("off", "sleep") /\ tx' = FALSE

AnnounceEngine ==
    \/ Wake
    \/ Look("look", "looktail", "lookopen", "on", "sleep")
    \/ NoAnnouncement
    \/ AnnounceOn
    \/ PlayAnnouncements
    \/ Look("check", "checktail", "checkopen", "off", "sleep")
    \/ AnnounceOff
-----------------------------------------------------------------------------
(* main(), after the wait for a quit event or the end of the service. *)

Suspend(from, thread, to) ==
    /\ main = from
    /\ suspended' = suspended \cup {thread}
    /\ main' = to
    /\ UNCHANGED <<lines, wait, tx, flags, lastID, repeater, announcer>>

LastOff ==
    /\ main = "lastoff"
    /\ tx' = FALSE
    /\ main' = "leaving"
    /\ UNCHANGED <<lines, wait, flags, lastID, repeater, announcer, suspended>>

\* The end of the process is the end of its threads.
Exit ==
    /\ main = "leaving"
    /\ main' = "exited"
    /\ UNCHANGED <<lines, wait, tx, flags, lastID, repeater, announcer, suspended>>

Stop == Suspend("run", "repeater", "suspend")

\* Defect.
StopThreads_RepeaterOnly ==
    \/ Suspend("suspend", "repeater", "lastoff")
    \/ LastOff
    \/ Exit

StopThreads ==
    \/ Suspend("suspend", "announcer", "lastoff")
    \/ LastOff
    \/ Exit

Next == LineChange \/ RepeaterEngine \/ AnnounceEngine \/ Stop \/ StopThreads

Spec == Init /\ [][Next]_vars

\* Timeouts expire and sounds end; lines need not change, nor anybody stop it.
FairSpec ==
    /\ Spec
    /\ WF_vars(RepeaterEngine)
    /\ WF_vars(AnnounceEngine)
    /\ WF_vars(StopThreads)
-----------------------------------------------------------------------------
(* Properties. *)

Quiet == repeater = "wait" /\ ~ bSquelchOpened /\ ~ bTailTimerEnabled

\* The repeater thread that waits for the squelch without a time limit, while no
\* announcement is under way, has left no transmitter on, in whichever order
\* the two threads read the flags, wrote them and switched.
IdleIsOff == Quiet /\ announcer = "sleep" => ~ tx

\* Once main() has returned the transmitter is off, wherever it has stopped the
\* two threads.
StoppedIsOff == main = "exited" => ~ tx

\* While the tail timer runs and nothing is signalled, the squelch is closed: a
\* change between two waits of the repeater thread is not lost.
TailMeansClosed ==
    repeater = "wait" /\ armed /\ bTailTimerEnabled => ~ cts

\* In whichever order the two threads read the flags, wrote them and switched,
\* nothing stays on at rest or at the end, and no change of the squelch is lost.
OffAtRest == IdleIsOff /\ StoppedIsOff /\ TailMeansClosed

\* When the lines stay as they are, open squelch or tone included, the
\* transmitter goes off again and again: time limits and the tail end every
\* transmission, whatever was latched, pending or announced at that moment.
QuietTurnsOff ==
    (\E c, r \in BOOLEAN : <>[](cts = c /\ ring = r)) => []<> ~ tx

\* "Make sure transmitter is on", "Turn on transmitter": a repeater that waits
\* for the end of a talk transmits.
OpenIsOn == repeater = "wait" /\ bSquelchOpened /\ main # "exited" => tx
==============================================================================
