-------------------------------- MODULE TcpFw --------------------------------
(***************************************************************************)
(* tcpfw: the thread of one forwarded connection.  AsyncBufferedSwitch has *)
(* one overlapped read under way on each side, waits for either to be      *)
(* done, and sends what was read to the other side.                        *)
(***************************************************************************)
EXTENDS Naturals

CONSTANT Max  \* what a side's buffers take, in each direction

MaxAssumption == Max \in Nat \ {0}

Side == {"local", "remote"}
Other(s) == CHOOSE t \in Side : t # s

VARIABLES
    arrived,   \* arrived[s]: buffers that have come from s and are not read
    unread,    \* unread[s]: buffers sent to s that its peer has not read
    peer,      \* peer[s]: "open", "finished" (sends no more) or "gone"
    read,      \* read[s]: the overlapped read, "none", "reading" or its result
    pending,   \* b...ReadPending
    event,     \* the event of the overlapped read is signalled
    bCancelling,
    pc

vars == <<arrived, unread, peer, read, pending, event, bCancelling, pc>>

Results == {"data", "end", "error"}

TypeOK ==
    /\ {arrived, unread} \subseteq [Side -> 0 .. Max]
    /\ peer \in [Side -> {"open", "finished", "gone"}]
    /\ read \in [Side -> {"none", "reading"} \cup Results]
    /\ {pending, event} \subseteq [Side -> BOOLEAN]
    /\ bCancelling \in BOOLEAN
    /\ pc \in {"startlocal", "startremote", "wait", "look", "tell", "reset",
               "answer", "pass", "loop", "returned", "closed"}

Empty ==
    /\ arrived = [s \in Side |-> 0]
    /\ unread = [s \in Side |-> 0]
    /\ peer = [s \in Side |-> "open"]
    /\ read = [s \in Side |-> "none"]
    /\ pending = [s \in Side |-> FALSE]
    /\ event = [s \in Side |-> FALSE]
    /\ bCancelling = FALSE

Init == pc = "startlocal" /\ Empty

Go(from, to) == pc = from /\ pc' = to
-----------------------------------------------------------------------------
(* The two peers, and the system, which ends a read that is under way. *)

\* The read of s that is under way, if any, gets this result.
Ends(s, result) ==
    IF read[s] = "reading"
    THEN read' = [read EXCEPT ![s] = result] /\ event' = [event EXCEPT ![s] = TRUE]
    ELSE UNCHANGED <<read, event>>

Arrives(s) ==
    /\ peer[s] = "open" /\ pc # "closed"
    /\ read[s] = "reading" \/ arrived[s] < Max
    /\ arrived' = IF read[s] = "reading" THEN arrived ELSE [arrived EXCEPT ![s] = @ + 1]
    /\ Ends(s, "data")
    /\ UNCHANGED <<unread, peer, pending, bCancelling, pc>>

PeerReads(s) ==
    /\ peer[s] # "gone" /\ unread[s] > 0
    /\ unread' = [unread EXCEPT ![s] = @ - 1]
    /\ UNCHANGED <<arrived, peer, read, pending, event, bCancelling, pc>>

PeerFinishes(s) ==
    /\ peer[s] = "open" /\ pc # "closed"
    /\ peer' = [peer EXCEPT ![s] = "finished"]
    /\ Ends(s, "end")
    /\ UNCHANGED <<arrived, unread, pending, bCancelling, pc>>

\* The connection is reset.
PeerGoes(s) ==
    /\ peer[s] # "gone" /\ pc # "closed"
    /\ peer' = [peer EXCEPT ![s] = "gone"]
    /\ Ends(s, "error")
    /\ arrived' = [arrived EXCEPT ![s] = 0]
    /\ unread' = [unread EXCEPT ![s] = 0]
    /\ UNCHANGED <<pending, bCancelling, pc>>

Peer(s) == Arrives(s) \/ PeerReads(s) \/ PeerFinishes(s) \/ PeerGoes(s)
-----------------------------------------------------------------------------
(* AsyncBufferedSwitch and Thread. *)

\* A new read, unless one is under way.  It may be done at once, or fail.
StartRead(s, from, to) ==
    /\ UNCHANGED <<unread, peer, bCancelling>>
    /\ \/ /\ pending[s]
          /\ Go(from, to)
          /\ UNCHANGED <<arrived, read, pending, event>>
       \/ /\ ~ pending[s]
          /\ pending' = [pending EXCEPT ![s] = TRUE]
          /\ IF arrived[s] > 0
             THEN /\ arrived' = [arrived EXCEPT ![s] = @ - 1]
                  /\ read' = [read EXCEPT ![s] = "data"]
                  /\ Go(from, to)
             ELSE /\ UNCHANGED arrived
                  /\ CASE peer[s] = "open" -> read' = [read EXCEPT ![s] = "reading"]
                       [] peer[s] = "finished" -> read' = [read EXCEPT ![s] = "end"]
                       [] OTHER -> UNCHANGED read
                  /\ Go(from, IF peer[s] = "gone" THEN "returned" ELSE to)
          /\ event' = [event EXCEPT ![s] = read'[s] \in Results]

Wait ==
    /\ event["local"] \/ event["remote"]
    /\ Go("wait", "look")
    /\ UNCHANGED <<arrived, unread, peer, read, pending, event, bCancelling>>

\* Defect.
LookLocal_WhenSignalled ==
    /\ Go("look", IF event["local"] /\ read["local"] = "data" THEN "tell" ELSE "reset")
    /\ bCancelling' = (event["local"] /\ read["local"] \in {"end", "error"})
    /\ UNCHANGED <<arrived, unread, peer, read, pending, event>>

\* GetResult on the local side.
LookLocal ==
    /\ Go("look", IF read["local"] = "data" THEN "tell" ELSE "reset")
    /\ bCancelling' = (read["local"] \in {"end", "error"})
    /\ UNCHANGED <<arrived, unread, peer, read, pending, event>>

\* BufSend to s, which waits for room.
Forward(s) ==
    /\ unread[s] < Max
    /\ unread' = [unread EXCEPT ![s] = @ + 1]
    /\ read' = [read EXCEPT ![Other(s)] = "none"]
    /\ pending' = [pending EXCEPT ![Other(s)] = FALSE]

SendToRemote ==
    /\ Go("tell", "reset")
    /\ IF peer["remote"] = "gone"
       THEN bCancelling' = TRUE /\ UNCHANGED <<unread, read, pending>>
       ELSE Forward("remote") /\ UNCHANGED bCancelling
    /\ UNCHANGED <<arrived, peer, event>>

\* The event is reset here, after the look at the result.
ResetLocal ==
    /\ Go("reset", "answer")
    /\ event' = [event EXCEPT !["local"] = FALSE]
    /\ UNCHANGED <<arrived, unread, peer, read, pending, bCancelling>>

\* Defect.
LookRemote_OnlyForTheEnd ==
    /\ pc = "answer"
    /\ pc' = CASE read["remote"] = "data" -> "pass"
               [] read["remote"] = "end" -> "returned"
               [] OTHER -> "loop"
    /\ UNCHANGED <<arrived, unread, peer, read, pending, event, bCancelling>>

LookRemote ==
    /\ pc = "answer"
    /\ pc' = CASE read["remote"] = "data" -> "pass"
               [] read["remote"] = "reading" -> "loop"
               [] OTHER -> "returned"
    /\ UNCHANGED <<arrived, unread, peer, read, pending, event, bCancelling>>

SendToLocal ==
    /\ pc = "pass"
    /\ IF peer["local"] = "gone"
       THEN pc' = "returned" /\ UNCHANGED <<unread, read, pending>>
       ELSE pc' = "loop" /\ Forward("local")
    /\ UNCHANGED <<arrived, peer, event, bCancelling>>

\* Defect.
Loop_ResettingRemote ==
    /\ Go("loop", IF bCancelling THEN "returned" ELSE "startlocal")
    /\ event' = [event EXCEPT !["remote"] = FALSE]
    /\ UNCHANGED <<arrived, unread, peer, read, pending, bCancelling>>

Loop ==
    /\ Go("loop", IF bCancelling THEN "returned" ELSE "startlocal")
    /\ UNCHANGED <<arrived, unread, peer, read, pending, event, bCancelling>>

\* Thread shuts down and closes both sockets; reads that are under way end.
CloseBoth ==
    /\ Go("returned", "closed")
    /\ read' = [s \in Side |-> "none"]
    /\ arrived' = [s \in Side |-> 0]
    /\ UNCHANGED <<unread, peer, pending, event, bCancelling>>

Thread ==
    \/ StartRead("local", "startlocal", "startremote")
    \/ StartRead("remote", "startremote", "wait")
    \/ Wait
    \/ LookLocal
    \/ SendToRemote
    \/ ResetLocal
    \/ LookRemote
    \/ SendToLocal
    \/ Loop
    \/ CloseBoth

Next == Thread \/ \E s \in Side : Peer(s)

Spec == Init /\ [][Next]_vars

\* Peers read what they are sent, or go; they need not send.
FairSpec ==
    /\ Spec
    /\ WF_vars(Thread)
    /\ \A s \in Side : WF_vars(PeerReads(s))
-----------------------------------------------------------------------------
(* Properties. *)

Done(s) == read[s] \in Results
Served(s) == Done(s) ~> ~ Done(s)

\* What the remote side sends, its end included, is dealt with: no order of its
\* arrival and the thread's steps leaves it lying.
RemoteIsServed == Served("remote")

\* What the local side sends is dealt with as long as reads of the remote side
\* end again and again.  A local read that ends between LookLocal and ResetLocal
\* wakes nobody, so that without the remote side nothing can be claimed.
LocalIsServedAlong == []<> Done("remote") => Served("local")

\* When the remote side sends no more, or is gone, both sockets are closed, once
\* what it has sent has been passed on.  (A local side that ends may be missed,
\* see above, and keeps the connection until the remote side ends.)
RemoteEnds == peer["remote"] # "open" ~> pc = "closed"
==============================================================================
