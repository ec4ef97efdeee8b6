------------------------------ MODULE DevRedir ------------------------------
(***************************************************************************)
(* devredir: one process that moves packets between a device and one       *)
(* client of a socket at a time, in a select() loop.  The client speaks to *)
(* a non-blocking device and is itself spoken to with blocking calls.      *)
(* Bytes of the device are numbered as it sends them.                      *)
(***************************************************************************)
EXTENDS Naturals, Sequences

CONSTANTS
    Packet,     \* PACKET_SIZE
    Room,       \* what the socket's buffer takes, in bytes
    MaxBytes    \* bound: bytes that the device sends

ASSUME SizesAssumption == {Packet, Room} \subseteq Nat \ {0} /\ MaxBytes \in Nat

VARIABLES
    client,    \* "none", "open" or "closed" by the peer
    pc,
    ready,     \* what the first select() of a round found readable
    packet,
    typed,     \* bytes that the client has sent and nobody has read
    devroom,   \* room in the device's output buffer
    sent,      \* bytes that the device has sent
    devin,     \* those of them that nobody has read
    socketout, \* bytes in the socket's buffer, not read by the client
    heard,     \* bytes that the client has read
    put        \* bytes of the packet that the device has got

vars == <<client, pc, ready, packet, typed, devroom, sent, devin, socketout, heard, put>>
peers == <<typed, devroom, sent, devin, socketout, heard>>

Places == {"accept", "select", "recv", "todev", "write", "read", "tosocket",
           "send", "close", "killed"}

TypeOK ==
    /\ client \in {"none", "open", "closed"}
    /\ pc \in Places
    /\ ready \subseteq {"socket", "dev"}
    /\ packet \in Seq(Nat) /\ Len(packet) <= Packet
    /\ typed \in 0 .. Packet
    /\ devroom \in 0 .. Packet
    /\ sent \in 0 .. MaxBytes
    /\ \A s \in {devin, socketout, heard} : s \in Seq(1 .. MaxBytes)
    /\ put \in 0 .. Packet
    /\ Len(socketout) <= Room

Empty ==
    /\ client = "none"
    /\ ready = {}
    /\ packet = <<>>
    /\ typed = 0
    /\ devroom = Packet
    /\ sent = 0
    /\ devin = <<>>
    /\ socketout = <<>>
    /\ heard = <<>>
    /\ put = 0

Init == pc = "accept" /\ Empty

Go(from, to) == pc = from /\ pc' = to
-----------------------------------------------------------------------------
(* The peers. *)

ClientTypes ==
    /\ client = "open"
    /\ typed < Packet
    /\ typed' = typed + 1
    /\ UNCHANGED <<client, pc, ready, packet, devroom, sent, devin, socketout, heard, put>>

ClientReads ==
    /\ client = "open"
    /\ socketout # <<>>
    /\ heard' = Append(heard, Head(socketout))
    /\ socketout' = Tail(socketout)
    /\ UNCHANGED <<client, pc, ready, packet, typed, devroom, sent, devin, put>>

ClientCloses ==
    /\ client = "open"
    /\ client' = "closed"
    /\ socketout' = <<>>
    /\ UNCHANGED <<pc, ready, packet, typed, devroom, sent, devin, heard, put>>

DeviceSends ==
    /\ sent < MaxBytes
    /\ sent' = sent + 1
    /\ devin' = Append(devin, sent')
    /\ UNCHANGED <<client, pc, ready, packet, typed, devroom, socketout, heard, put>>

DeviceTakes ==
    /\ devroom < Packet
    /\ devroom' = devroom + 1
    /\ UNCHANGED <<client, pc, ready, packet, typed, sent, devin, socketout, heard, put>>

Peers == ClientTypes \/ ClientReads \/ ClientCloses \/ DeviceSends \/ DeviceTakes
-----------------------------------------------------------------------------
(* The process. *)

Accept ==
    /\ Go("accept", "select")
    /\ client' = "open"
    /\ UNCHANGED <<ready, packet, put, peers>>

Readable ==
    (IF typed > 0 \/ client = "closed" THEN {"socket"} ELSE {})
        \cup (IF devin # <<>> THEN {"dev"} ELSE {})

\* Defect.
NextPart_OneOfThem(found) ==
    IF "socket" \in found THEN "recv"
    ELSE IF found = {"dev"} /\ ready # {"socket", "dev"} THEN "read" ELSE "select"

NextPart(found) ==
    IF "socket" \in found THEN "recv"
    ELSE IF "dev" \in found THEN "read" ELSE "select"

\* Five minutes without anything to read end the connection.
Select ==
    /\ \/ Readable # {} /\ Go("select", NextPart(Readable)) /\ ready' = Readable
       \/ Readable = {} /\ Go("select", "close") /\ ready' = {}
    /\ UNCHANGED <<client, packet, put, peers>>

\* Defect.
Recv_IgnoringTheEnd ==
    /\ \/ /\ typed > 0
          /\ Go("recv", "todev")
          /\ packet' = [i \in 1 .. typed |-> i]
          /\ put' = 0
          /\ typed' = 0
       \/ /\ typed = 0
          /\ Go("recv", NextPart(ready \ {"socket"}))
          /\ UNCHANGED <<packet, put, typed>>
    /\ UNCHANGED <<client, ready, devroom, sent, devin, socketout, heard>>

Recv ==
    /\ \/ /\ typed > 0
          /\ Go("recv", "todev")
          /\ packet' = [i \in 1 .. typed |-> i]
          /\ put' = 0
          /\ typed' = 0
       \/ /\ typed = 0
          /\ Go("recv", "close")
          /\ UNCHANGED <<packet, put, typed>>
    /\ UNCHANGED <<client, ready, devroom, sent, devin, socketout, heard>>

\* The device is ready within a minute or not.
WaitForDevice ==
    /\ \/ devroom > 0 /\ Go("todev", "write")
       \/ devroom = 0 /\ Go("todev", "close")
    /\ UNCHANGED <<client, ready, packet, put, peers>>

\* A write takes what there is room for; without room it fails (O_NDELAY).
Write ==
    /\ pc = "write"
    /\ \/ \E n \in 1 .. devroom :
            /\ n <= Len(packet)
            /\ devroom' = devroom - n
            /\ packet' = SubSeq(packet, 1, Len(packet) - n)
            /\ put' = put + n
            /\ pc' = IF n < Len(packet) THEN "write" ELSE NextPart(ready \ {"socket"})
       \/ /\ devroom = 0
          /\ pc' = "close"
          /\ UNCHANGED <<devroom, packet, put>>
    /\ UNCHANGED <<client, ready, typed, sent, devin, socketout, heard>>

\* Nothing, or an error, ends the connection.
Read ==
    /\ \/ /\ Go("read", "tosocket")
          /\ LET n == IF Len(devin) < Packet THEN Len(devin) ELSE Packet
             IN /\ packet' = SubSeq(devin, 1, n)
                /\ devin' = SubSeq(devin, n + 1, Len(devin))
       \/ /\ Go("read", "close")
          /\ UNCHANGED <<packet, devin>>
    /\ UNCHANGED <<client, ready, typed, devroom, sent, socketout, heard, put>>

WaitForSocket ==
    /\ \/ (Len(socketout) < Room \/ client = "closed") /\ Go("tosocket", "send")
       \/ Len(socketout) = Room /\ Go("tosocket", "close")
    /\ UNCHANGED <<client, ready, packet, put, peers>>

\* Defect.
Send_Twice ==
    /\ pc = "send"
    /\ \/ /\ client = "open"
          /\ Len(socketout) < Room
          /\ socketout' = Append(socketout, Head(packet))
          /\ \/ packet' = Tail(packet)
             \/ packet' = packet
          /\ pc' = IF packet' = <<>> THEN "select" ELSE "send"
       \/ /\ client = "closed"
          /\ packet' = Tail(packet)
          /\ pc' = IF packet' = <<>> THEN "select" ELSE "send"
          /\ UNCHANGED socketout
       \/ /\ client = "closed"
          /\ pc' \in {"close", "killed"}
          /\ UNCHANGED <<packet, socketout>>
    /\ UNCHANGED <<client, ready, typed, devroom, sent, devin, heard, put>>

\* send() returns when everything is in the socket's buffer, byte by byte as
\* the client makes room.  When the client has gone, its bytes vanish, or it
\* fails, or SIGPIPE, which is not handled, kills the process.
Send ==
    /\ pc = "send"
    /\ \/ /\ client = "open"
          /\ Len(socketout) < Room
          /\ socketout' = Append(socketout, Head(packet))
          /\ packet' = Tail(packet)
          /\ pc' = IF packet' = <<>> THEN "select" ELSE "send"
       \/ /\ client = "closed"
          /\ packet' = Tail(packet)
          /\ pc' = IF packet' = <<>> THEN "select" ELSE "send"
          /\ UNCHANGED socketout
       \/ /\ client = "closed"
          /\ pc' \in {"close", "killed"}
          /\ UNCHANGED <<packet, socketout>>
    /\ UNCHANGED <<client, ready, typed, devroom, sent, devin, heard, put>>

\* What the client has not read or sent is lost with the connection.
Close ==
    /\ Go("close", "accept")
    /\ client' = "none"
    /\ typed' = 0
    /\ socketout' = <<>>
    /\ heard' = <<>>
    /\ packet' = <<>>
    /\ put' = 0
    /\ UNCHANGED <<ready, devroom, sent, devin>>

Process ==
    \/ Accept
    \/ Select
    \/ Recv
    \/ WaitForDevice
    \/ Write
    \/ Read
    \/ WaitForSocket
    \/ Send
    \/ Close

Next == Process \/ Peers

Spec == Init /\ [][Next]_vars

FairSpec == Spec /\ WF_vars(Process)
-----------------------------------------------------------------------------
(* Properties. *)

\* What one client hears of the device has no gap, no repetition and no other
\* order, with everything that is under way counted.
Stream ==
    heard \o socketout
        \o (IF pc \in {"tosocket", "send"} THEN packet ELSE <<>>) \o devin
Unbroken ==
    client = "open" /\ pc # "close" =>
        \A i \in 1 .. Len(Stream) - 1 : Stream[i + 1] = Stream[i] + 1

\* When the client has closed its side, the process waits for the next one
\* again, whatever the device does, unless it was sending and is killed.
NextClient == client = "closed" ~> pc \in {"accept", "killed"}

\* A device that has something to say is read, or the connection ends: a client
\* that types all the time does not keep the process from it.
DeviceIsRead == pc = "select" /\ devin # <<>> ~> pc \in {"read", "close"}

\* "redirect data": what the device gets next of a packet is what it has not got
\* yet.
WritesOn == pc = "write" => Head(packet) = put + 1
==============================================================================
