--------------------------- MODULE MCLines_proofs ---------------------------
(***************************************************************************)
(* Of the programs at the end of a line: what a client of devredir hears   *)
(* is what the device said; a repeater at rest is off; popdump loses no    *)
(* mail.                                                                   *)
(***************************************************************************)
EXTENDS MCLines, SequenceTheorems, FiniteSetTheorems, TLAPS

(* devredir. *)

LEMMA Cut ==
    ASSUME NEW S, NEW s \in Seq(S), NEW n \in 0 .. Len(s)
    PROVE  /\ SubSeq(s, 1, n) \in Seq(S)
           /\ Len(SubSeq(s, 1, n)) = n
           /\ SubSeq(s, n + 1, Len(s)) \in Seq(S)
           /\ Len(SubSeq(s, n + 1, Len(s))) = Len(s) - n
<1>1. Len(s) \in Nat /\ n \in Nat /\ n <= Len(s)
  OBVIOUS
<1>2. \A i \in 1 .. n : s[i] \in S
  BY <1>1
<1>3. \A i \in n + 1 .. Len(s) : s[i] \in S
  BY <1>1
<1> QED
  BY <1>1, <1>2, <1>3, SubSeqProperties

LEMMA Appended ==
    ASSUME NEW S, NEW s \in Seq(S), NEW e \in S
    PROVE  Append(s, e) \in Seq(S) /\ Len(Append(s, e)) = Len(s) + 1 /\ Len(s) \in Nat
OBVIOUS

(* s is a run of consecutive numbers that ends with last. *)
Run(s, last) == \A i \in 1 .. Len(s) : s[i] = last - Len(s) + i

LEMMA RunAppend ==
    ASSUME NEW s \in Seq(Int), NEW last \in Int, Run(s, last)
    PROVE  Run(Append(s, last + 1), last + 1)
<1> DEFINE t == Append(s, last + 1)
<1>1. Len(t) = Len(s) + 1 /\ Len(s) \in Nat
  OBVIOUS
<1>2. \A i \in 1 .. Len(t) : t[i] = IF i <= Len(s) THEN s[i] ELSE last + 1
  OBVIOUS
<1> HIDE DEF t
<1>3. \A i \in 1 .. Len(t) : t[i] = (last + 1) - Len(t) + i
  BY <1>1, <1>2 DEF Run
<1> QED
  BY <1>3 DEF Run, t

LEMMA RunTail ==
    ASSUME NEW s \in Seq(Int), NEW last \in Int, s # <<>>, Run(s, last)
    PROVE  Run(Tail(s), last) /\ Head(s) = last - Len(s) + 1 /\ Len(Tail(s)) = Len(s) - 1
BY DEF Run

LEMMA RunSplit ==
    ASSUME NEW s \in Seq(Int), NEW last \in Int, NEW n \in 0 .. Len(s), Run(s, last)
    PROVE  /\ Run(SubSeq(s, 1, n), last - (Len(s) - n))
           /\ Run(SubSeq(s, n + 1, Len(s)), last)
           /\ Len(SubSeq(s, 1, n)) = n
           /\ Len(SubSeq(s, n + 1, Len(s))) = Len(s) - n
<1> DEFINE a == SubSeq(s, 1, n)
           b == SubSeq(s, n + 1, Len(s))
<1>1. Len(s) \in Nat /\ n \in Nat /\ n <= Len(s)
  OBVIOUS
<1>2. Len(a) = n /\ \A i \in 1 .. n : a[i] = s[i]
  BY <1>1
<1>3. Len(b) = Len(s) - n /\ \A i \in 1 .. Len(s) - n : b[i] = s[n + i]
  BY <1>1
<1> HIDE DEF a, b
<1>4. \A i \in 1 .. Len(a) : a[i] = (last - (Len(s) - n)) - Len(a) + i
  <2> SUFFICES ASSUME NEW i \in 1 .. n
               PROVE  a[i] = (last - (Len(s) - n)) - n + i
    BY <1>2
  <2>1. s[i] = last - Len(s) + i
    BY <1>1 DEF Run
  <2> QED
    BY <1>1, <1>2, <2>1
<1>5. \A i \in 1 .. Len(b) : b[i] = last - Len(b) + i
  <2> SUFFICES ASSUME NEW i \in 1 .. Len(s) - n
               PROVE  b[i] = last - (Len(s) - n) + i
    BY <1>3
  <2>1. n + i \in 1 .. Len(s)
    BY <1>1
  <2>2. s[n + i] = last - Len(s) + (n + i)
    BY <2>1 DEF Run
  <2> QED
    BY <1>1, <1>3, <2>2
<1> QED
  BY <1>2, <1>3, <1>4, <1>5 DEF Run, a, b

LEMMA RunConcat ==
    ASSUME NEW s \in Seq(Int), NEW t \in Seq(Int), NEW last \in Int,
           Run(t, last), Run(s, last - Len(t))
    PROVE  Run(s \o t, last)
BY DEF Run

(* The packet on its way to the client. *)
Sending == pc \in {"tosocket", "send"}
ToClient == IF Sending THEN Len(packet) ELSE 0

(* The bytes of the device are one run, kept in four parts. *)
Parts ==
    /\ Run(devin, sent)
    /\ client = "none" => heard = <<>> /\ socketout = <<>>
    /\ client # "closed" /\ pc # "close" =>
         /\ Sending => Run(packet, sent - Len(devin))
         /\ Run(socketout, sent - Len(devin) - ToClient)
         /\ Run(heard, sent - Len(devin) - ToClient - Len(socketout))

(* What each part of a round relies on. *)
Rounds ==
    /\ pc = "accept" <=> client = "none"
    /\ (pc \in {"recv", "todev", "write", "read"} /\ "dev" \in ready) \/ pc = "read" => devin # <<>>
    /\ Sending => packet # <<>> /\ packet \in Seq(1 .. MaxBytes)
    /\ pc \in {"todev", "write"} => put + Len(packet) <= Packet

DevInv == TypeOK /\ Parts /\ Rounds

LEMMA DevInit == Empty /\ pc = "accept" => DevInv
BY SizesAssumption DEF Empty, DevInv, TypeOK, Parts, Rounds, Run, Sending, ToClient, Places

LEMMA DevTyped == ASSUME DevInv, Next PROVE TypeOK'
<1>0. Packet \in Nat \ {0} /\ Room \in Nat \ {0} /\ MaxBytes \in Nat
  BY SizesAssumption
<1>1. /\ client \in {"none", "open", "closed"} /\ pc \in Places /\ ready \subseteq {"socket", "dev"}
      /\ packet \in Seq(Nat) /\ Len(packet) <= Packet /\ Len(packet) \in Nat
      /\ typed \in 0 .. Packet /\ devroom \in 0 .. Packet /\ put \in 0 .. Packet
      /\ sent \in 0 .. MaxBytes
  BY DEF DevInv, TypeOK
<1>2. /\ devin \in Seq(1 .. MaxBytes) /\ socketout \in Seq(1 .. MaxBytes) /\ heard \in Seq(1 .. MaxBytes)
      /\ Len(socketout) <= Room
  BY DEF DevInv, TypeOK
<1>3. SUFFICES
        /\ client' \in {"none", "open", "closed"} /\ pc' \in Places /\ ready' \subseteq {"socket", "dev"}
        /\ packet' \in Seq(Nat) /\ Len(packet') <= Packet
        /\ typed' \in 0 .. Packet /\ devroom' \in 0 .. Packet /\ put' \in 0 .. Packet
        /\ sent' \in 0 .. MaxBytes
        /\ devin' \in Seq(1 .. MaxBytes) /\ socketout' \in Seq(1 .. MaxBytes)
        /\ heard' \in Seq(1 .. MaxBytes) /\ Len(socketout') <= Room
  BY DEF TypeOK
<1> USE DEF Places, peers, Go
<1>4. CASE Accept \/ Select
  BY <1>0, <1>1, <1>2, <1>4 DEF Accept, Select, NextPart, Readable
<1>5. CASE Recv
  <2>1. typed \in Nat /\ [i \in 1 .. typed |-> i] \in Seq(Nat) /\ Len([i \in 1 .. typed |-> i]) = typed
    BY <1>1
  <2> QED
    BY <1>0, <1>1, <1>2, <1>5, <2>1 DEF Recv
<1>6. CASE WaitForDevice \/ WaitForSocket
  BY <1>1, <1>2, <1>6 DEF WaitForDevice, WaitForSocket
<1>7. CASE Write
  <2>1. ASSUME NEW n \in 1 .. devroom, n <= Len(packet)
        PROVE  /\ SubSeq(packet, 1, Len(packet) - n) \in Seq(Nat)
               /\ Len(SubSeq(packet, 1, Len(packet) - n)) = Len(packet) - n
    BY <1>1, <2>1
  <2>2. pc' \in Places
    BY <1>1, <1>7 DEF Write, NextPart
  <2>3. put + Len(packet) <= Packet
    BY <1>7 DEF DevInv, Rounds, Write
  <2>4. /\ packet' \in Seq(Nat) /\ Len(packet') <= Packet
        /\ devroom' \in 0 .. Packet /\ put' \in 0 .. Packet
    <3>1. CASE UNCHANGED <<devroom, packet, put>>
      BY <1>1, <3>1
    <3>2. ASSUME NEW n \in 1 .. devroom, n <= Len(packet), devroom' = devroom - n,
                 packet' = SubSeq(packet, 1, Len(packet) - n), put' = put + n
          PROVE  /\ packet' \in Seq(Nat) /\ Len(packet') <= Packet
                 /\ devroom' \in 0 .. Packet /\ put' \in 0 .. Packet
      <4>1. packet' \in Seq(Nat) /\ Len(packet') = Len(packet) - n
        BY <2>1, <3>2
      <4> QED
        BY <1>0, <1>1, <2>3, <3>2, <4>1
    <3> QED
      BY <1>7, <3>1, <3>2 DEF Write
  <2> QED
    BY <1>1, <1>2, <1>7, <2>2, <2>4 DEF Write
<1>8. CASE Read
  <2> DEFINE n == IF Len(devin) < Packet THEN Len(devin) ELSE Packet
  <2>1. Len(devin) \in Nat /\ n \in 0 .. Len(devin) /\ n <= Packet
    BY <1>0, <1>2
  <2>2. SubSeq(devin, 1, n) \in Seq(1 .. MaxBytes) /\ Len(SubSeq(devin, 1, n)) = n
    BY <1>2, <2>1, Cut
  <2>3. SubSeq(devin, n + 1, Len(devin)) \in Seq(1 .. MaxBytes)
    BY <1>2, <2>1, Cut
  <2>4. SubSeq(devin, 1, n) \in Seq(Nat)
    BY <2>2, SeqMonotonic
  <2>5. packet' \in Seq(Nat) /\ Len(packet') <= Packet /\ devin' \in Seq(1 .. MaxBytes)
    BY <1>1, <1>2, <1>8, <2>1, <2>2, <2>3, <2>4 DEF Read
  <2> QED
    BY <1>1, <1>2, <1>8, <2>5 DEF Read
<1>9. CASE Send
  <2>1. packet # <<>> /\ packet \in Seq(1 .. MaxBytes)
    BY <1>9 DEF Send, Sending, DevInv, Rounds
  <2>2. /\ Head(packet) \in 1 .. MaxBytes /\ Tail(packet) \in Seq(Nat)
        /\ Len(Tail(packet)) = Len(packet) - 1
    BY <1>1, <2>1, HeadTailProperties
  <2>3. packet' \in Seq(Nat) /\ Len(packet') <= Packet
    <3>1. packet' = packet \/ packet' = Tail(packet)
      BY <1>9 DEF Send
    <3> QED
      BY <1>0, <1>1, <2>2, <3>1, SMTT(60)
  <2>4. socketout' \in Seq(1 .. MaxBytes) /\ Len(socketout') <= Room
    <3>1. \/ socketout' = socketout
          \/ socketout' = Append(socketout, Head(packet)) /\ Len(socketout) < Room
      BY <1>9 DEF Send
    <3>2. Len(Append(socketout, Head(packet))) = Len(socketout) + 1 /\ Len(socketout) \in Nat
          /\ Append(socketout, Head(packet)) \in Seq(1 .. MaxBytes)
      BY <1>2, <2>2, Appended
    <3>3. CASE socketout' = socketout
      BY <1>2, <3>3
    <3>4. CASE socketout' = Append(socketout, Head(packet)) /\ Len(socketout) < Room
      <4>1. Len(socketout') <= Room
        BY <1>0, <3>2, <3>4
      <4> QED
        BY <3>2, <3>4, <4>1
    <3> QED
      BY <3>1, <3>3, <3>4
  <2> QED
    BY <1>1, <1>2, <1>9, <2>3, <2>4 DEF Send
<1>10. CASE Close
  BY <1>0, <1>1, <1>2, <1>10 DEF Close
<1>11. CASE Peers
  <2>1. CASE ClientTypes \/ DeviceTakes
    <3>1. typed' \in 0 .. Packet /\ devroom' \in 0 .. Packet
      <4>1. typed \in 0 .. Packet /\ devroom \in 0 .. Packet
        BY <1>1
      <4> QED
        BY <1>0, <2>1, <4>1 DEF ClientTypes, DeviceTakes
    <3> QED
      BY <1>1, <1>2, <2>1, <3>1 DEF ClientTypes, DeviceTakes
  <2>2. CASE ClientCloses
    BY <1>0, <1>1, <1>2, <2>2 DEF ClientCloses
  <2>3. CASE ClientReads
    BY <1>0, <1>1, <1>2, <2>3 DEF ClientReads
  <2>4. CASE DeviceSends
    BY <1>0, <1>1, <1>2, <2>4 DEF DeviceSends
  <2> QED
    BY <1>11, <2>1, <2>2, <2>3, <2>4 DEF Peers
<1> QED
  BY <1>4, <1>5, <1>6, <1>7, <1>8, <1>9, <1>10, <1>11 DEF Next, Process

(* What Read takes and leaves. *)
LEMMA ReadTakes ==
    ASSUME DevInv, Go("read", "tosocket"),
           LET n == IF Len(devin) < Packet THEN Len(devin) ELSE Packet
           IN  packet' = SubSeq(devin, 1, n) /\ devin' = SubSeq(devin, n + 1, Len(devin))
    PROVE  /\ packet' # <<>> /\ packet' \in Seq(1 .. MaxBytes)
           /\ Len(packet') + Len(devin') = Len(devin)
           /\ Run(packet', sent - Len(devin')) /\ Run(devin', sent)
<1> DEFINE n == IF Len(devin) < Packet THEN Len(devin) ELSE Packet
<1>1. devin \in Seq(1 .. MaxBytes) /\ devin # <<>> /\ Run(devin, sent)
  BY DEF DevInv, TypeOK, Rounds, Parts, Go
<1>2. devin \in Seq(Int) /\ sent \in Int /\ Packet \in Nat \ {0}
  <2>1. 1 .. MaxBytes \subseteq Int
    OBVIOUS
  <2> QED
    BY <1>1, <2>1, SeqMonotonic, SizesAssumption DEF DevInv, TypeOK
<1>3. Len(devin) \in Nat /\ Len(devin) # 0
  BY <1>1, EmptySeq
<1>4. n \in 0 .. Len(devin) /\ n \in Nat /\ n # 0
  BY <1>2, <1>3
<1> HIDE DEF n
<1>5. packet' = SubSeq(devin, 1, n) /\ devin' = SubSeq(devin, n + 1, Len(devin))
  BY DEF n
<1>6. packet' \in Seq(1 .. MaxBytes) /\ Len(packet') = n /\ Len(devin') = Len(devin) - n
  <2>1. SubSeq(devin, 1, n) \in Seq(1 .. MaxBytes) /\ Len(SubSeq(devin, 1, n)) = n
        /\ Len(SubSeq(devin, n + 1, Len(devin))) = Len(devin) - n
    BY ONLY <1>1, <1>4, Cut, Zenon
  <2> QED
    BY <1>5, <2>1, Zenon
<1>7. Run(packet', sent - (Len(devin) - n)) /\ Run(devin', sent)
  BY <1>1, <1>2, <1>4, <1>5, RunSplit, ZenonT(90)
<1>8. packet' # <<>>
  BY <1>4, <1>6, EmptySeq
<1>9. Len(packet') + Len(devin') = Len(devin)
  BY <1>3, <1>4, <1>6
<1>10. Run(packet', sent - Len(devin'))
  BY <1>6, <1>7
<1> QED
  BY <1>6, <1>7, <1>8, <1>9, <1>10

LEMMA DevRounds == ASSUME DevInv, Next PROVE Rounds'
<1>0. Packet \in Nat \ {0} /\ MaxBytes \in Nat
  BY SizesAssumption
<1>1. Rounds /\ pc \in Places /\ client \in {"none", "open", "closed"} /\ typed \in 0 .. Packet
  BY DEF DevInv, TypeOK
<1> USE DEF Places, peers, Go, Sending
<1>2. CASE Accept \/ Select \/ WaitForDevice \/ WaitForSocket \/ Close
  BY <1>1, <1>2 DEF Accept, Select, WaitForDevice, WaitForSocket, Close, NextPart, Readable, Rounds
<1>3. CASE Recv
  <2>1. CASE pc' = "close"
    BY <1>1, <1>3, <2>1 DEF Recv, Rounds
  <2>2. CASE pc' = "todev"
    <3>1. packet' = [i \in 1 .. typed |-> i] /\ put' = 0 /\ UNCHANGED <<client, ready, devin>> /\ pc = "recv"
      BY <1>3, <2>2 DEF Recv
    <3>2. Len(packet') = typed
      BY <1>1, <3>1
    <3>3. put' + Len(packet') <= Packet
      BY <1>0, <1>1, <3>1, <3>2
    <3> QED
      BY <1>1, <2>2, <3>1, <3>3 DEF Rounds
  <2> QED
    BY <1>3, <2>1, <2>2 DEF Recv
<1>4. CASE Write
  <2>1. packet \in Seq(Nat) /\ put \in Nat /\ devroom \in Nat /\ put + Len(packet) <= Packet
    BY <1>4, SizesAssumption DEF DevInv, TypeOK, Rounds, Write
  <2>2. put' + Len(packet') <= Packet
    <3>1. CASE UNCHANGED <<packet, put>>
      BY <2>1, <3>1
    <3>2. ASSUME NEW n \in 1 .. devroom, n <= Len(packet),
                 packet' = SubSeq(packet, 1, Len(packet) - n), put' = put + n
          PROVE  put' + Len(packet') <= Packet
      <4>1. Len(packet) \in Nat /\ Len(packet) - n \in 0 .. Len(packet)
        BY <2>1, <3>2
      <4>2. Len(packet') = Len(packet) - n
        BY <2>1, <3>2, <4>1, Cut
      <4>3. n \in Nat /\ put \in Nat /\ put + Len(packet) <= Packet
        BY <2>1, <3>2
      <4>4. \A p, l, m \in Nat : p + l <= Packet => (p + m) + (l - m) <= Packet
        BY <1>0
      <4>5. (put + n) + (Len(packet) - n) <= Packet
        BY <4>1, <4>3, <4>4
      <4> QED
        BY <3>2, <4>2, <4>5
    <3> QED
      BY <1>4, <3>1, <3>2 DEF Write
  <2>3. /\ UNCHANGED <<client, ready, devin>> /\ pc = "write"
        /\ pc' \in {"write", "read", "select", "close"}
        /\ pc' = "read" => "dev" \in ready
    BY <1>4 DEF Write, NextPart
  <2> QED
    BY <1>1, <2>2, <2>3 DEF Rounds
<1>5. CASE Read
  <2>1. CASE pc' = "close"
    BY <1>1, <1>5, <2>1 DEF Read, Rounds
  <2>2. CASE pc' = "tosocket"
    <3>1. packet' # <<>> /\ packet' \in Seq(1 .. MaxBytes)
      BY <1>5, <2>2, ReadTakes DEF Read
    <3> QED
      BY <1>1, <1>5, <2>2, <3>1 DEF Read, Rounds
  <2> QED
    BY <1>5, <2>1, <2>2 DEF Read
<1>6. CASE Send
  <2>1. packet # <<>> /\ packet \in Seq(1 .. MaxBytes)
    BY <1>1, <1>6 DEF Send, Rounds
  <2>2. Tail(packet) \in Seq(1 .. MaxBytes)
    BY <2>1, HeadTailProperties
  <2>3. /\ UNCHANGED <<client, ready, devin>> /\ pc = "send" /\ client # "none"
        /\ pc' \in {"select", "send", "close", "killed"}
        /\ pc' = "send" => packet' = Tail(packet) /\ packet' # <<>>
    BY <1>1, <1>6 DEF Send, Rounds
  <2> QED
    BY <1>1, <2>2, <2>3 DEF Rounds
<1>7. CASE Peers
  <2>1. CASE ClientTypes \/ DeviceTakes \/ ClientCloses \/ ClientReads
    BY <1>1, <2>1 DEF ClientTypes, DeviceTakes, ClientCloses, ClientReads, Rounds
  <2>2. CASE DeviceSends
    <3>1. devin \in Seq(1 .. MaxBytes) /\ sent' \in 1 .. MaxBytes
      BY <2>2, SizesAssumption DEF DeviceSends, DevInv, TypeOK
    <3>2. devin' # <<>>
      BY <2>2, <3>1 DEF DeviceSends
    <3> QED
      BY <1>1, <2>2, <3>2 DEF DeviceSends, Rounds
  <2> QED
    BY <1>7, <2>1, <2>2 DEF Peers
<1> QED
  BY <1>2, <1>3, <1>4, <1>5, <1>6, <1>7 DEF Next, Process

LEMMA DevParts == ASSUME DevInv, Next PROVE Parts'
<1>0. MaxBytes \in Nat
  BY SizesAssumption
<1>1. /\ sent \in Int /\ devin \in Seq(Int) /\ packet \in Seq(Int)
      /\ socketout \in Seq(Int) /\ heard \in Seq(Int)
  <2>1. 1 .. MaxBytes \subseteq Int /\ Nat \subseteq Int
    OBVIOUS
  <2> QED
    BY <1>0, <2>1, SeqMonotonic DEF DevInv, TypeOK
<1>2. Parts /\ Rounds /\ pc \in Places
  BY DEF DevInv, TypeOK
<1>3. /\ Len(devin) \in Nat /\ Len(packet) \in Nat /\ Len(socketout) \in Nat
  BY <1>1, LenProperties
<1> USE DEF Places, peers, Go, Sending, ToClient
<1>4. CASE Accept \/ Close
  <2>1. heard' = <<>> /\ socketout' = <<>> /\ UNCHANGED <<sent, devin>> /\ ~ Sending'
    BY <1>2, <1>4 DEF Accept, Close, Parts, Rounds
  <2>2. \A k : Run(<<>>, k)
    BY DEF Run
  <2> QED
    BY <1>2, <2>1, <2>2 DEF Parts
<1>5. CASE Select \/ Recv \/ WaitForDevice \/ Write
  <2>1. UNCHANGED <<client, sent, devin, socketout, heard>> /\ ~ Sending /\ ~ Sending' /\ pc # "close"
    BY <1>2, <1>5 DEF Select, Recv, WaitForDevice, Write, NextPart
  <2> QED
    BY <1>2, <2>1 DEF Parts
<1>6. CASE WaitForSocket
  BY <1>2, <1>6 DEF WaitForSocket, Parts
<1>7. CASE Read
  <2>1. CASE pc' = "close"
    BY <1>2, <1>7, <2>1 DEF Read, Parts
  <2>2. CASE pc' = "tosocket"
    <3>1. /\ Run(packet', sent - Len(devin')) /\ Run(devin', sent)
          /\ Len(packet') + Len(devin') = Len(devin)
      BY <1>7, <2>2, ReadTakes DEF Read
    <3>2. UNCHANGED <<client, sent, socketout, heard>> /\ pc = "read"
      BY <1>7 DEF Read
    <3>3. Len(packet') \in Nat /\ Len(devin') \in Nat
      BY DevTyped, LenProperties DEF TypeOK
    <3>4. sent - Len(devin') - Len(packet') = sent - Len(devin) - 0
      <4>1. \A a, b, c \in Int : a - b - c = a - (c + b) - 0
        OBVIOUS
      <4>2. sent - Len(devin') - Len(packet') = sent - (Len(packet') + Len(devin')) - 0
        BY <1>1, <3>3, <4>1
      <4> QED
        BY <3>1, <4>2
    <3>5. ToClient' = Len(packet') /\ ToClient = 0
      BY <2>2, <3>2
    <3>6. client # "closed" =>
            Run(socketout, sent - Len(devin) - 0) /\ Run(heard, sent - Len(devin) - 0 - Len(socketout))
      BY <1>2, <3>2, <3>5 DEF Parts
    <3> HIDE DEF ToClient
    <3> QED
      BY <1>2, <3>1, <3>2, <3>4, <3>5, <3>6 DEF Parts
  <2> QED
    BY <1>7, <2>1, <2>2 DEF Read
<1>8. CASE Send
  <2>1. UNCHANGED <<client, sent, devin, heard>> /\ pc = "send" /\ packet # <<>>
    BY <1>2, <1>8 DEF Send, Rounds
  <2>2. CASE client = "closed"
    BY <1>2, <2>1, <2>2 DEF Parts
  <2>3. CASE client # "closed"
    <3>1. /\ socketout' = Append(socketout, Head(packet)) /\ packet' = Tail(packet)
          /\ pc' = IF packet' = <<>> THEN "select" ELSE "send"
          /\ client = "open"
      BY <1>8, <2>3 DEF Send
    <3>2. Run(packet, sent - Len(devin)) /\ Run(socketout, sent - Len(devin) - Len(packet))
          /\ Run(heard, sent - Len(devin) - Len(packet) - Len(socketout))
      BY <1>2, <2>1, <3>1 DEF Parts
    <3>3. /\ Run(packet', sent - Len(devin)) /\ Len(packet') = Len(packet) - 1
          /\ Head(packet) = (sent - Len(devin) - Len(packet)) + 1
      BY <1>1, <1>3, <2>1, <3>1, <3>2, RunTail
    <3>4. Run(socketout', sent - Len(devin) - Len(packet')) /\ Len(socketout') = Len(socketout) + 1
      <4>1. sent - Len(devin) - Len(packet') = sent - Len(devin) - Len(packet) + 1
        BY <1>1, <1>3, <3>3
      <4> QED
        <5> DEFINE k == sent - Len(devin) - Len(packet)
        <5>1. k \in Int
          BY <1>1, <1>3
        <5> HIDE DEF k
        <5>2. Run(Append(socketout, k + 1), k + 1) /\ k + 1 \in Int
          BY <1>1, <3>2, <5>1, RunAppend DEF k
        <5>3. socketout' = Append(socketout, k + 1)
          BY <3>1, <3>3 DEF k
        <5>4. sent - Len(devin) - Len(packet') = k + 1
          BY <4>1 DEF k
        <5> QED
          BY <1>1, <5>2, <5>3, <5>4, Appended
    <3>5. sent - Len(devin) - Len(packet') - Len(socketout') = sent - Len(devin) - Len(packet) - Len(socketout)
      BY <1>1, <1>3, <3>3, <3>4
    <3>6. ToClient' = Len(packet')
      <4>1. packet' = <<>> => Len(packet') = 0
        OBVIOUS
      <4> QED
        BY <3>1, <4>1
    <3> HIDE DEF ToClient
    <3> QED
      BY <1>2, <2>1, <3>1, <3>2, <3>3, <3>4, <3>5, <3>6 DEF Parts
  <2> QED
    BY <2>2, <2>3
<1>9. CASE ClientTypes \/ DeviceTakes \/ ClientCloses
  BY <1>2, <1>9 DEF ClientTypes, DeviceTakes, ClientCloses, Parts
<1>10. CASE ClientReads
  <2>1. /\ client = "open" /\ socketout # <<>> /\ UNCHANGED <<client, pc, packet, sent, devin>>
        /\ heard' = Append(heard, Head(socketout)) /\ socketout' = Tail(socketout)
    BY <1>10 DEF ClientReads
  <2> DEFINE last == sent - Len(devin) - ToClient
  <2>2. ToClient \in Nat /\ ToClient' = ToClient
    BY <1>3, <2>1
  <2> HIDE DEF ToClient
  <2>3. last \in Int /\ last' = last
    BY <1>1, <1>3, <2>1, <2>2
  <2>4. CASE pc # "close"
    <3>1. Run(socketout, last) /\ Run(heard, last - Len(socketout))
      BY <1>2, <2>1, <2>4 DEF Parts
    <3> HIDE DEF last
    <3>2. /\ Run(socketout', last) /\ Len(socketout') = Len(socketout) - 1
          /\ Head(socketout) = (last - Len(socketout)) + 1
      BY <1>1, <2>1, <2>3, <3>1, RunTail
    <3>3. last - Len(socketout') = (last - Len(socketout)) + 1
      BY <1>3, <2>3, <3>2
    <3>4. Run(heard', last - Len(socketout'))
      BY <1>1, <1>3, <2>1, <2>3, <3>1, <3>2, <3>3, RunAppend
    <3> QED
      BY <1>2, <2>1, <2>3, <2>4, <3>2, <3>4 DEF Parts, last
  <2> QED
    BY <1>2, <2>1, <2>4 DEF Parts
<1>11. CASE DeviceSends
  <2>1. devin' = Append(devin, sent + 1) /\ sent' = sent + 1
        /\ UNCHANGED <<client, pc, packet, socketout, heard>>
    BY <1>11 DEF DeviceSends
  <2>2. Run(devin', sent') /\ Len(devin') = Len(devin) + 1
    <3>1. sent + 1 \in Int /\ Run(devin, sent)
      BY <1>1, <1>2 DEF Parts
    <3> QED
      BY <1>1, <2>1, <3>1, RunAppend, Appended
  <2>3. sent' - Len(devin') = sent - Len(devin)
    BY <1>1, <1>3, <2>1, <2>2
  <2>4. ToClient' = ToClient
    BY <2>1
  <2> HIDE DEF ToClient
  <2> QED
    BY <1>2, <2>1, <2>2, <2>3, <2>4 DEF Parts
<1> QED
  BY <1>4, <1>5, <1>6, <1>7, <1>8, <1>9, <1>10, <1>11 DEF Next, Process, Peers

LEMMA DevUnbroken == DevInv => Unbroken
<1> SUFFICES ASSUME DevInv, client = "open", pc # "close"
             PROVE  \A i \in 1 .. Len(Stream) - 1 : Stream[i + 1] = Stream[i] + 1
  BY DEF Unbroken
<1> DEFINE mid == IF Sending THEN packet ELSE <<>>
<1>1. /\ sent \in Int /\ devin \in Seq(Int) /\ mid \in Seq(Int)
      /\ socketout \in Seq(Int) /\ heard \in Seq(Int)
  <2>1. 1 .. MaxBytes \subseteq Int /\ Nat \subseteq Int /\ <<>> \in Seq(Int)
    OBVIOUS
  <2>2. /\ sent \in 0 .. MaxBytes /\ devin \in Seq(1 .. MaxBytes) /\ packet \in Seq(Nat)
        /\ socketout \in Seq(1 .. MaxBytes) /\ heard \in Seq(1 .. MaxBytes)
    BY DEF DevInv, TypeOK
  <2>3. devin \in Seq(Int) /\ packet \in Seq(Int) /\ socketout \in Seq(Int) /\ heard \in Seq(Int)
    BY <2>1, <2>2, SeqMonotonic
  <2>4. sent \in Int
    BY <2>2
  <2> QED
    BY <2>1, <2>3, <2>4
<1>2. /\ Run(devin, sent) /\ Run(mid, sent - Len(devin))
      /\ Run(socketout, sent - Len(devin) - Len(mid))
      /\ Run(heard, sent - Len(devin) - Len(mid) - Len(socketout))
  BY DEF DevInv, Parts, Run, ToClient
<1>3. Stream = heard \o socketout \o mid \o devin
  BY DEF Stream, Sending
<1> HIDE DEF mid
<1>4. Len(devin) \in Int /\ Len(mid) \in Int /\ Len(socketout) \in Int
  BY <1>1, LenProperties
<1> DEFINE first == heard \o socketout
           most == first \o mid
<1>5. Run(first, sent - Len(devin) - Len(mid)) /\ first \in Seq(Int)
  BY <1>1, <1>2, <1>4, RunConcat, ConcatProperties
<1> HIDE DEF first
<1>6. Run(most, sent - Len(devin)) /\ most \in Seq(Int)
  BY <1>1, <1>2, <1>4, <1>5, RunConcat, ConcatProperties
<1> HIDE DEF most
<1>7. Run(Stream, sent) /\ Stream \in Seq(Int)
  <2>1. Stream = most \o devin
    BY <1>3 DEF first, most
  <2> QED
    BY <1>1, <1>2, <1>6, <2>1, RunConcat, ConcatProperties
<1>8. ASSUME NEW i \in 1 .. Len(Stream) - 1 PROVE Stream[i + 1] = Stream[i] + 1
  <2>1. Len(Stream) \in Nat /\ i \in 1 .. Len(Stream) /\ i + 1 \in 1 .. Len(Stream)
    <3>1. Len(Stream) \in Nat
      BY <1>7, LenProperties
    <3> QED
      BY <3>1
  <2>2. Stream[i] = sent - Len(Stream) + i /\ Stream[i + 1] = sent - Len(Stream) + (i + 1)
    BY <1>7, <2>1 DEF Run
  <2> HIDE DEF Stream
  <2> QED
    BY <1>1, <2>1, <2>2
<1> QED
  BY <1>8

LEMMA DevStep == DevInv /\ [Next]_vars => DevInv'
<1>1. ASSUME DevInv, UNCHANGED vars PROVE DevInv'
  BY <1>1 DEF vars, DevInv, TypeOK, Parts, Rounds, Sending, ToClient
<1>2. ASSUME DevInv, Next PROVE DevInv'
  <2>1. TypeOK' /\ Parts' /\ Rounds'
    BY <1>2, DevTyped, DevParts, DevRounds
  <2> QED
    BY <2>1 DEF DevInv
<1> QED
  BY <1>1, <1>2
-----------------------------------------------------------------------------
(* LightRepeater. *)

\* An announcement may be on the air.
Announcing == announcer \in {"play", "check", "checktail", "checkopen", "off"}

\* Places from which the repeater thread does not come back to its loop without
\* switching the transmitter off or opening the squelch.
Switching == {"timeout", "sound", "off", "toneoff", "open", "openon"}

(* A transmitter that is on belongs to somebody who will turn it off. *)
OnIsOwned ==
    tx => Announcing \/ bSquelchOpened \/ bTailTimerEnabled \/ repeater \in Switching

(* What the flags are where the repeater thread writes them one by one. *)
FlagsAtPlaces ==
    /\ repeater \in {"closing", "closed"} => bTailTimerEnabled
    /\ repeater = "openon" => bSquelchOpened
    /\ bTailTimerEnabled =>
         /\ repeater \in {"loop", "wait", "timeout", "lines", "closing", "closed"}
         /\ repeater # "closing" => ~ bSquelchOpened

(* A change is signalled, kept for the next wait, or still to be read. *)
ChangeIsKept ==
    /\ changed => ~ armed
    /\ repeater \in {"lines", "closing", "closed"} => ~ armed
    /\ bTailTimerEnabled =>
         /\ repeater = "loop" => ~ armed
         /\ repeater \in {"loop", "closing", "closed"} /\ cts => latched
         /\ repeater = "wait" /\ armed => ~ cts

(* main() suspends one thread, then the other, and turns off last. *)
Stopping ==
    /\ main # "run" => "repeater" \in suspended
    /\ main \in {"lastoff", "leaving", "exited"} => "announcer" \in suspended
    /\ main \in {"leaving", "exited"} => ~ tx

LrInv == Lr!TypeOK /\ OnIsOwned /\ FlagsAtPlaces /\ ChangeIsKept /\ Stopping
-----------------------------------------------------------------------------
LEMMA LrInit == Lr!Init => LrInv
<1> SUFFICES ASSUME Lr!Init PROVE LrInv
  OBVIOUS
<1>1. Lr!TypeOK
  <2>1. /\ {cts, ring, armed, latched, changed, tx} = {FALSE}
        /\ {bSquelchOpened, bTailTimerEnabled} = {FALSE}
    BY DEF Lr!Init
  <2>2. repeater \in Lr!RepeaterPlaces /\ announcer \in Lr!AnnouncerPlaces
    BY DEF Lr!Init, Lr!RepeaterPlaces, Lr!AnnouncerPlaces
  <2>3. lastID \in 0 .. 2 /\ main \in {"run"} /\ suspended = {}
    BY DEF Lr!Init
  <2>4. {FALSE} \subseteq BOOLEAN /\ {} \subseteq {"repeater", "announcer"}
    OBVIOUS
  <2> QED
    BY <2>1, <2>2, <2>3, <2>4 DEF Lr!TypeOK
<1>2. OnIsOwned /\ FlagsAtPlaces /\ ChangeIsKept /\ Stopping
  BY DEF Lr!Init, OnIsOwned, FlagsAtPlaces, ChangeIsKept, Stopping
<1> QED
  BY <1>1, <1>2 DEF LrInv

(* The port. *)
LEMMA LineChangeStep == ASSUME LrInv, Lr!LineChange PROVE LrInv'
<1> USE DEF LrInv, Lr!lines, Lr!flags, Lr!threads
<1>1. Lr!TypeOK'
  BY DEF Lr!LineChange, Lr!TypeOK
<1>2. OnIsOwned'
  BY DEF Lr!LineChange, OnIsOwned, Announcing
<1>3. FlagsAtPlaces'
  BY DEF Lr!LineChange, FlagsAtPlaces
<1>4. ChangeIsKept'
  BY DEF Lr!LineChange, ChangeIsKept
<1>5. Stopping'
  BY DEF Lr!LineChange, Stopping
<1> QED
  BY <1>1, <1>2, <1>3, <1>4, <1>5

(* The repeater thread: its wait, the timeout, the lines and the tone call. *)
LEMMA RepeaterStep == ASSUME LrInv, Lr!RepeaterEngine PROVE LrInv'
<1> DEFINE Kept == OnIsOwned /\ FlagsAtPlaces /\ ChangeIsKept
<1> USE DEF LrInv, Lr!Repeater, Lr!lines, Lr!wait, Lr!flags
<1>1. /\ main # "exited" /\ "repeater" \notin suspended
      /\ UNCHANGED <<Lr!lines, announcer, main, suspended>>
  BY DEF Lr!RepeaterEngine, Lr!Begin, Lr!StartWait, Lr!Trigger, Lr!Timeout, Lr!StopTailTimer, Lr!PlaySignoff,
         Lr!ShutDown, Lr!Ignored, Lr!SquelchOpened, Lr!SquelchClosed, Lr!CloseSquelch, Lr!Courtesy, Lr!ToneOff,
         Lr!ToneRead, Lr!ToneCheck, Lr!ToneTimeout, Lr!OpenSquelch, Lr!Transmit
<1>2. Stopping'
  BY <1>1 DEF Stopping, Lr!TypeOK
<1>3. Lr!TypeOK'
  <2>1. repeater' \in Lr!RepeaterPlaces /\ lastID' \in 0 .. 2
    BY DEF Lr!TypeOK, Lr!RepeaterPlaces, Lr!RepeaterEngine, Lr!Begin, Lr!StartWait, Lr!Trigger, Lr!Timeout,
           Lr!StopTailTimer, Lr!PlaySignoff, Lr!ShutDown, Lr!Ignored, Lr!SquelchOpened, Lr!SquelchClosed,
           Lr!CloseSquelch, Lr!Courtesy, Lr!ToneOff, Lr!ToneRead, Lr!ToneCheck, Lr!ToneTimeout, Lr!OpenSquelch, Lr!Transmit
  <2>2. {armed', latched', changed', tx', bSquelchOpened', bTailTimerEnabled'} \subseteq BOOLEAN
    BY DEF Lr!TypeOK, Lr!StartWaitRXEvent, Lr!RepeaterEngine, Lr!Begin, Lr!StartWait, Lr!Trigger, Lr!Timeout,
           Lr!StopTailTimer, Lr!PlaySignoff, Lr!ShutDown, Lr!Ignored, Lr!SquelchOpened, Lr!SquelchClosed,
           Lr!CloseSquelch, Lr!Courtesy, Lr!ToneOff, Lr!ToneRead, Lr!ToneCheck, Lr!ToneTimeout, Lr!OpenSquelch, Lr!Transmit
  <2> QED
    BY <1>1, <2>1, <2>2 DEF Lr!TypeOK
<1>4. Kept'
  <2> USE <1>1 DEF Lr!TypeOK, OnIsOwned, Announcing, Switching, FlagsAtPlaces, ChangeIsKept
  <2>1. CASE Lr!Begin \/ Lr!ToneOff
    BY <2>1 DEF Lr!Begin, Lr!ToneOff
  <2>2. CASE Lr!StartWait
    BY <2>2 DEF Lr!StartWait, Lr!StartWaitRXEvent
  <2>3. ASSUME NEW from, NEW to, Lr!Trigger(from, to),
               <<from, to>> \in {<<"wait", "lines">>, <<"tonewait", "tonecheck">>,
                                <<"toneend", "loop">>, <<"toneend", "open">>}
        PROVE  Kept'
    BY <2>3 DEF Lr!Trigger
  <2>4. CASE Lr!Timeout \/ Lr!StopTailTimer
    BY <2>4 DEF Lr!Timeout, Lr!StopTailTimer
  <2>5. CASE Lr!PlaySignoff \/ Lr!ShutDown
    BY <2>5 DEF Lr!PlaySignoff, Lr!ShutDown
  <2>6. CASE Lr!Ignored \/ Lr!SquelchOpened
    BY <2>6 DEF Lr!Ignored, Lr!SquelchOpened
  <2>7. CASE Lr!SquelchClosed \/ Lr!CloseSquelch
    BY <2>7 DEF Lr!SquelchClosed, Lr!CloseSquelch
  <2>8. CASE Lr!Courtesy
    BY <2>8 DEF Lr!Courtesy
  <2>9. CASE Lr!ToneRead \/ Lr!ToneCheck \/ Lr!ToneTimeout
    BY <2>9 DEF Lr!ToneRead, Lr!ToneCheck, Lr!ToneTimeout, Lr!StartWaitRXEvent
  <2>10. CASE Lr!OpenSquelch \/ Lr!Transmit
    BY <2>10 DEF Lr!OpenSquelch, Lr!Transmit
  <2> QED
    BY <2>1, <2>2, <2>3, <2>4, <2>5, <2>6, <2>7, <2>8, <2>9, <2>10 DEF Lr!RepeaterEngine
<1> QED
  BY <1>2, <1>3, <1>4

(* The announcement thread ends with the transmitter off, or with a flag that it
   has just found set. *)
LEMMA AnnouncerStep == ASSUME LrInv, Lr!AnnounceEngine PROVE LrInv'
<1> USE DEF LrInv, Lr!Announcer, Lr!lines, Lr!wait, Lr!flags
<1>1. /\ UNCHANGED <<Lr!lines, Lr!wait, Lr!flags, lastID, repeater, main, suspended>>
      /\ main # "exited" /\ "announcer" \notin suspended
  BY DEF Lr!AnnounceEngine, Lr!Wake, Lr!Look, Lr!NoAnnouncement, Lr!AnnounceOn, Lr!PlayAnnouncements, Lr!AnnounceOff
<1>2. announcer' \in Lr!AnnouncerPlaces /\ tx' \in BOOLEAN
  BY DEF Lr!TypeOK, Lr!AnnouncerPlaces, Lr!AnnounceEngine, Lr!Wake, Lr!Look, Lr!NoAnnouncement, Lr!AnnounceOn,
         Lr!PlayAnnouncements, Lr!AnnounceOff
<1>3. Lr!TypeOK' /\ FlagsAtPlaces' /\ ChangeIsKept' /\ Stopping'
  BY <1>1, <1>2 DEF Lr!TypeOK, FlagsAtPlaces, ChangeIsKept, Stopping
<1>4. tx' => (tx /\ ~ Announcing) \/ Announcing' \/ bSquelchOpened \/ bTailTimerEnabled
  <2> USE DEF Announcing
  <2>1. CASE Lr!Wake \/ Lr!NoAnnouncement \/ Lr!AnnounceOn \/ Lr!PlayAnnouncements \/ Lr!AnnounceOff
    BY <2>1 DEF Lr!Wake, Lr!NoAnnouncement, Lr!AnnounceOn, Lr!PlayAnnouncements, Lr!AnnounceOff
  <2>2. CASE Lr!Look("look", "looktail", "lookopen", "on", "sleep")
    BY <2>2 DEF Lr!Look
  <2>3. CASE Lr!Look("check", "checktail", "checkopen", "off", "sleep")
    BY <2>3 DEF Lr!Look
  <2> QED
    BY <2>1, <2>2, <2>3 DEF Lr!AnnounceEngine
<1> QED
  BY <1>1, <1>3, <1>4 DEF OnIsOwned

(* main() changes no place, flag or line. *)
LEMMA StopStep == ASSUME LrInv, Lr!Stop \/ Lr!StopThreads PROVE LrInv'
<1> USE DEF LrInv, Lr!TypeOK, Lr!lines, Lr!wait, Lr!flags
<1>1. /\ UNCHANGED <<Lr!lines, Lr!wait, Lr!flags, lastID, repeater, announcer>>
      /\ tx' = FALSE \/ tx' = tx
  BY DEF Lr!Stop, Lr!StopThreads, Lr!Suspend, Lr!LastOff, Lr!Exit
<1>2. Lr!TypeOK' /\ Stopping'
  <2>1. CASE Lr!Stop \/ Lr!Suspend("suspend", "announcer", "lastoff")
    <3>1. suspended' \subseteq {"repeater", "announcer"}
      BY <2>1 DEF Lr!Stop, Lr!Suspend
    <3> QED
      BY <1>1, <2>1, <3>1 DEF Lr!Stop, Lr!Suspend, Stopping
  <2>2. CASE Lr!LastOff \/ Lr!Exit
    <3>1. UNCHANGED suspended /\ tx' = FALSE
      BY <2>2 DEF Lr!LastOff, Lr!Exit, Stopping
    <3>2. main' \in {"leaving", "exited"} /\ main \in {"lastoff", "leaving"}
      BY <2>2 DEF Lr!LastOff, Lr!Exit
    <3> QED
      BY <1>1, <3>1, <3>2 DEF Stopping
  <2> QED
    BY <2>1, <2>2 DEF Lr!StopThreads
<1>3. OnIsOwned' /\ FlagsAtPlaces' /\ ChangeIsKept'
  BY <1>1 DEF OnIsOwned, Announcing, FlagsAtPlaces, ChangeIsKept
<1> QED
  BY <1>2, <1>3

LEMMA LrStep == LrInv /\ [Lr!Next]_(Lr!vars) => LrInv'
<1>1. ASSUME LrInv, UNCHANGED Lr!vars PROVE LrInv'
  BY <1>1 DEF Lr!vars, Lr!lines, Lr!wait, Lr!flags, Lr!threads, LrInv, Lr!TypeOK, OnIsOwned, Announcing,
              FlagsAtPlaces, ChangeIsKept, Stopping
<1> QED
  BY <1>1, LineChangeStep, RepeaterStep, AnnouncerStep, StopStep DEF Lr!Next

LEMMA LrRests == LrInv => Lr!TypeOK /\ Lr!OffAtRest
BY DEF LrInv, OnIsOwned, Announcing, Switching, ChangeIsKept, Stopping,
       Lr!OffAtRest, Lr!IdleIsOff, Lr!StoppedIsOff, Lr!TailMeansClosed, Lr!Quiet
-----------------------------------------------------------------------------
(* popdump. *)

(* The mail the program is about, and what its file should be. *)
Current == listed[dwMailCounter]
Whole(m) == [mail |-> m, lines |-> Text[m]]

(* The lines in the file f and those on the wire w begin the text t and its end mark. *)
Flow(f, w, t) ==
    /\ Len(f) <= Len(t) /\ Len(f) + Len(w) <= Len(t) + 1
    /\ \A i \in 1 .. Len(f) : f[i] = t[i]
    /\ \A i \in 1 .. Len(w) : w[i] = IF Len(f) + i <= Len(t) THEN t[Len(f) + i] ELSE "."

(* What is on the wire where main is. *)
Conversation ==
    /\ wire \in Seq(Pop!AllLines)
    /\ does \in {"USER", "PASS", "STAT", "RETR", "DELE"} => wire = <<>>
    /\ does \in {"greeting", "stat", "dele"} => Len(wire) <= 1
    /\ does \in {"user", "pass"} => \A i \in 1 .. Len(wire) : wire[i] = "+" => i = Len(wire)
    /\ does = "retr" /\ wire # <<>> /\ Head(wire) = "+" => Flow(<<>>, Tail(wire), Text[Current])
    /\ does = "open" => Flow(<<>>, wire, Text[Current])
    /\ does = "save" => \/ hungup /\ wire = <<>>
                        \/ Flow(files[dwMailCounter].lines, wire, Text[Current])

(* What has been saved where main is; what is marked has been saved. *)
Saved ==
    /\ does \in {"greeting", "USER", "user", "PASS", "pass", "STAT", "stat"} =>
         files = <<>> /\ marked = {} /\ dwMailCounter = 1
    /\ does \in {"RETR", "retr", "open"} => DOMAIN files \subseteq 1 .. dwMailCounter - 1
    /\ does \in {"save", "DELE", "dele"} =>
         /\ DOMAIN files \subseteq 1 .. dwMailCounter
         /\ dwMailCounter \in DOMAIN files
         /\ files[dwMailCounter] = [mail |-> Current, lines |-> files[dwMailCounter].lines]
         /\ files[dwMailCounter].lines \in Seq(Pop!AllLines)
    /\ does \in {"DELE", "dele"} => files[dwMailCounter] = Whole(Current)
    /\ does \in {"save", "DELE"} => dwMailCounter \notin marked
    /\ does # "off" => \A n \in marked : n \in DOMAIN files /\ files[n] = Whole(listed[n])

(* Until QUIT, what is not on the server has been taken before this run. *)
KeptBefore == does \notin {"off", "quit"} => \A m \in come : m \in drop \/ Whole(m) \in taken

PopInv ==
    /\ Pop!TypeOK /\ listed \in Seq(Mail) /\ {dwMailCounter, dwNumMail} \subseteq Nat
    /\ Conversation
    /\ Saved
    /\ KeptBefore
    /\ Pop!NothingLost

LEMMA Said == {"", "+", "-", ".", "text"} \subseteq Pop!AllLines
BY DEF Pop!AllLines

LEMMA Answers ==
    /\ \A s \in Pop!AllLines : <<s>> \in Seq(Pop!AllLines)
    /\ \A s : Len(<<s>>) = 1 /\ Head(<<s>>) = s
    /\ <<>> \in Seq(Pop!AllLines) /\ <<"text", "+">> \in Seq(Pop!AllLines)
    /\ {<<"-">>, <<"+">>, <<".">>, <<"text">>} \subseteq Seq(Pop!AllLines)
<1>1. \A s \in Pop!AllLines : <<s>> \in Seq(Pop!AllLines)
  OBVIOUS
<1>2. \A s, t \in Pop!AllLines : <<s, t>> \in Seq(Pop!AllLines)
  OBVIOUS
<1>3. \A s : Len(<<s>>) = 1 /\ Head(<<s>>) = s
  OBVIOUS
<1>4. <<>> \in Seq(Pop!AllLines)
  OBVIOUS
<1>5. "+" \in Pop!AllLines /\ "-" \in Pop!AllLines /\ "." \in Pop!AllLines /\ "text" \in Pop!AllLines
  BY Said
<1>6. <<"text", "+">> \in Seq(Pop!AllLines)
  BY <1>2, <1>5
<1>7. {<<"-">>, <<"+">>, <<".">>, <<"text">>} \subseteq Seq(Pop!AllLines)
  BY <1>1, <1>5
<1> QED
  BY <1>1, <1>3, <1>4, <1>6, <1>7

LEMMA Numbered == ASSUME NEW S, IsFiniteSet(S) PROVE Pop!SetToSeq(S) \in Seq(S)
<1>1. Cardinality(S) \in Nat /\ ExistsBijection(1 .. Cardinality(S), S)
  BY FS_CardinalityType
<1>2. \E f \in [1 .. Cardinality(S) -> S] : Pop!IsInjective(f)
  BY <1>1 DEF ExistsBijection, Bijection, Injection, IsInjective, Pop!IsInjective
<1>3. Pop!SetToSeq(S) \in [1 .. Cardinality(S) -> S]
  BY <1>2 DEF Pop!SetToSeq, Pop!Cardinality, Cardinality
<1> QED
  BY <1>1, <1>3

LEMMA Halved ==
    ASSUME NEW S, NEW s \in Seq(S), s # <<>>
    PROVE  /\ Head(s) \in S /\ Head(s) = s[1] /\ Tail(s) \in Seq(S)
           /\ Len(s) \in Nat \ {0} /\ Len(Tail(s)) = Len(s) - 1
           /\ \A i \in 1 .. Len(Tail(s)) : Tail(s)[i] = s[i + 1]
BY HeadTailProperties, EmptySeq

LEMMA Beginning ==
    ASSUME NEW S, NEW s \in Seq(S), NEW n \in 0 .. Len(s)
    PROVE  /\ SubSeq(s, 1, n) \in Seq(S) /\ Len(SubSeq(s, 1, n)) = n
           /\ \A i \in 1 .. n : SubSeq(s, 1, n)[i] = s[i]
<1>1. Len(s) \in Nat /\ n \in Nat /\ n <= Len(s)
  OBVIOUS
<1>2. \A i \in 1 .. n : s[i] \in S
  BY <1>1
<1> QED
  BY <1>1, <1>2, SubSeqProperties

LEMMA FlowCut ==
    ASSUME NEW f \in Seq(Pop!AllLines), NEW w \in Seq(Pop!AllLines), NEW t \in Seq(Pop!AllLines), Flow(f, w, t),
           NEW n \in 0 .. Len(w)
    PROVE  Flow(f, SubSeq(w, 1, n), t)
<1> DEFINE v == SubSeq(w, 1, n)
<1>1. Len(v) = n /\ \A i \in 1 .. n : v[i] = w[i]
  BY Beginning
<1>2. Len(w) \in Nat /\ Len(f) \in Nat /\ Len(t) \in Nat /\ n \in Nat /\ n <= Len(w)
  BY LenProperties
<1> HIDE DEF v
<1>3. Len(f) + n <= Len(t) + 1
  BY <1>2 DEF Flow
<1>4. \A i \in 1 .. n : i \in 1 .. Len(w)
  BY <1>2
<1>5. Flow(f, v, t)
  BY <1>1, <1>3, <1>4 DEF Flow
<1> QED
  BY <1>5 DEF v

LEMMA FlowStart ==
    ASSUME NEW t \in Seq(Pop!AllLines)
    PROVE  Flow(<<>>, t \o <<".">>, t)
<1> DEFINE w == t \o <<".">>
<1>1. Len(w) = Len(t) + 1 /\ Len(t) \in Nat
  OBVIOUS
<1>2. \A i \in 1 .. Len(t) + 1 : w[i] = IF i <= Len(t) THEN t[i] ELSE "."
  OBVIOUS
<1>3. Len(<<>>) = 0 /\ \A i \in 1 .. Len(<<>>) : FALSE
  OBVIOUS
<1> HIDE DEF w
<1>4. Flow(<<>>, w, t)
  <2>1. \A i \in Nat : 0 + i = i
    OBVIOUS
  <2>2. Len(<<>>) + Len(w) <= Len(t) + 1 /\ Len(<<>>) <= Len(t)
    BY <1>1, <1>3
  <2>3. \A i \in 1 .. Len(w) : w[i] = IF Len(<<>>) + i <= Len(t) THEN t[Len(<<>>) + i] ELSE "."
    BY <1>1, <1>2, <1>3
  <2> QED
    BY <1>3, <2>2, <2>3 DEF Flow
<1> QED
  BY <1>4 DEF w

LEMMA FlowNext ==
    ASSUME NEW f \in Seq(Pop!AllLines), NEW w \in Seq(Pop!AllLines), NEW t \in Seq(Pop!AllLines), Flow(f, w, t),
           "." \notin Pop!ToSet(t), w # <<>>
    PROVE  /\ Head(w) = "." => f = t /\ Tail(w) = <<>>
           /\ Head(w) # "." => Flow(Append(f, Head(w)), Tail(w), t)
<1>1. /\ Len(w) \in Nat \ {0} /\ Len(f) \in Nat /\ Len(t) \in Nat
      /\ Len(f) <= Len(t) /\ Len(f) + Len(w) <= Len(t) + 1
  BY Halved, LenProperties DEF Flow
<1>2. /\ Head(w) = w[1] /\ Head(w) \in Pop!AllLines /\ Tail(w) \in Seq(Pop!AllLines) /\ Len(Tail(w)) = Len(w) - 1
      /\ \A i \in 1 .. Len(Tail(w)) : Tail(w)[i] = w[i + 1]
  BY Halved
<1>3. Head(w) = IF Len(f) + 1 <= Len(t) THEN t[Len(f) + 1] ELSE "."
  BY <1>1, <1>2 DEF Flow
<1>4. Len(f) + 1 <= Len(t) => t[Len(f) + 1] # "."
  BY <1>1 DEF Pop!ToSet
<1>5. ASSUME Head(w) = "." PROVE f = t /\ Tail(w) = <<>>
  <2>1. Len(f) = Len(t) /\ Len(w) = 1
    <3> DEFINE F == Len(f)
               T == Len(t)
               W == Len(w)
    <3>1. ~ (F + 1 <= T)
      BY <1>3, <1>4, <1>5
    <3>2. F \in Nat /\ T \in Nat /\ W \in Nat \ {0} /\ F <= T /\ F + W <= T + 1
      BY <1>1
    <3> HIDE DEF F, T, W
    <3>3. F = T /\ W = 1
      BY <3>1, <3>2
    <3> QED
      BY <3>3 DEF F, T, W
  <2>2. f = t
    BY <2>1, SeqEqual DEF Flow
  <2>3. Len(Tail(w)) = 0
    BY <1>2, <2>1
  <2> QED
    BY <1>2, <2>2, <2>3, EmptySeq
<1>6. ASSUME Head(w) # "." PROVE Flow(Append(f, Head(w)), Tail(w), t)
  <2> DEFINE g == Append(f, Head(w))
             v == Tail(w)
  <2>1. Len(f) + 1 <= Len(t) /\ Head(w) = t[Len(f) + 1]
    BY <1>3, <1>6
  <2>2. Len(g) = Len(f) + 1 /\ g[Len(f) + 1] = Head(w) /\ \A i \in 1 .. Len(f) : g[i] = f[i]
    <3>1. Head(w) \in Pop!AllLines
      BY <1>2
    <3> HIDE <1>2
    <3> QED
      BY <3>1
  <2> HIDE DEF g, v
  <2>3. \A i \in 1 .. Len(g) : g[i] = t[i]
    <3>1. ASSUME NEW i \in 1 .. Len(g) PROVE g[i] = t[i]
      <4>1. i = Len(f) + 1 \/ i \in 1 .. Len(f)
        BY <1>1, <2>2
      <4> QED
        BY <2>1, <2>2, <4>1 DEF Flow
    <3> QED
      BY <3>1
  <2>4. Len(g) <= Len(t) /\ Len(g) + Len(v) <= Len(t) + 1
    BY <1>1, <1>2, <2>1, <2>2 DEF v
  <2>5. ASSUME NEW i \in 1 .. Len(v)
        PROVE  v[i] = IF Len(g) + i <= Len(t) THEN t[Len(g) + i] ELSE "."
    <3>1. i + 1 \in 1 .. Len(w) /\ v[i] = w[i + 1]
      BY <1>1, <1>2 DEF v
    <3>2. Len(f) + (i + 1) = Len(g) + i
      BY <1>1, <2>2
    <3>3. w[i + 1] = IF Len(f) + (i + 1) <= Len(t) THEN t[Len(f) + (i + 1)] ELSE "."
      BY <3>1 DEF Flow
    <3> QED
      BY <3>1, <3>2, <3>3
  <2> QED
    BY <2>3, <2>4, <2>5 DEF Flow, g, v
<1> QED
  BY <1>5, <1>6

LEMMA PopInitInv == Pop!Init /\ (Pop!MailAssumption /\ Pop!NumbersAssumption) => PopInv
<1> SUFFICES ASSUME Pop!Init, Pop!MailAssumption, Pop!NumbersAssumption PROVE PopInv
  OBVIOUS
<1>1. /\ drop \in SUBSET Mail /\ come = drop /\ listed = <<>> /\ marked = {} /\ wire = <<>> /\ hungup = TRUE
      /\ does = "off" /\ dwMailCounter = 1 /\ dwNumMail = 0 /\ room \in Nat
  BY DEF Pop!Init, Pop!ServerInit, Pop!NumbersAssumption
<1>2. Pop!ToSet(<<>>) = {} /\ <<>> \in Seq(Mail) /\ Len(<<>>) = 0 /\ <<>> \in Seq(Pop!AllLines)
  BY DEF Pop!ToSet
<1>3. Pop!TypeOK
  BY <1>1, <1>2 DEF Pop!TypeOK, Pop!ServerTypeOK
<1>4. Conversation /\ Saved /\ KeptBefore /\ Pop!NothingLost
  BY <1>1, <1>2 DEF Conversation, Saved, KeptBefore, Pop!NothingLost
<1> QED
  BY <1>1, <1>2, <1>3, <1>4 DEF PopInv

(* In a mail. *)
InMail == does \in {"RETR", "retr", "open", "save", "DELE", "dele"}

LEMMA TheText ==
    ASSUME PopInv, Pop!MailAssumption, InMail
    PROVE  /\ Current \in Mail /\ Text[Current] \in Seq(Pop!AllLines) /\ "." \notin Pop!ToSet(Text[Current])
           /\ dwMailCounter \in 1 .. dwNumMail /\ dwMailCounter \in 1 .. Len(listed)
<1>1. dwMailCounter \in 1 .. dwNumMail /\ dwNumMail \in Nat /\ dwNumMail <= Len(listed) /\ listed \in Seq(Mail)
  BY DEF PopInv, Pop!TypeOK, InMail
<1>2. Len(listed) \in Nat
  BY <1>1, LenProperties
<1>3. dwMailCounter \in 1 .. Len(listed)
  BY <1>1, <1>2
<1>4. Current \in Mail
  BY <1>1, <1>3, ElementOfSeq DEF Current
<1> QED
  BY <1>1, <1>3, <1>4 DEF Pop!MailAssumption

(* One step at a time: what the server may do by itself. *)
LEMMA ServerStep == ASSUME PopInv, Pop!MailAssumption, Pop!Server PROVE PopInv'
<1> USE DEF PopInv
<1>1. UNCHANGED <<listed, marked, Pop!client, Pop!disk, sessions>>
  BY DEF Pop!Server, Pop!Deliver, Pop!HangUp, Pop!session
<1>2. come \subseteq come' /\ drop' \subseteq come' /\ come' \subseteq Mail /\ hungup' \in BOOLEAN
      /\ \A m \in come' : m \in drop' \/ (m \in come /\ m \notin drop)
  BY DEF Pop!Server, Pop!Deliver, Pop!HangUp, Pop!TypeOK, Pop!ServerTypeOK
<1>3. Pop!TypeOK' /\ listed' \in Seq(Mail)
  <2>1. marked \subseteq DOMAIN listed /\ Pop!ToSet(listed) \subseteq Mail
    BY DEF Pop!TypeOK, Pop!ServerTypeOK
  <2>2. Pop!ServerTypeOK'
    BY <1>1, <1>2, <2>1 DEF Pop!ServerTypeOK, Pop!ToSet
  <2> QED
    BY <1>1, <2>2 DEF Pop!TypeOK, Pop!client, Pop!disk
<1>4. Saved' /\ KeptBefore' /\ Pop!NothingLost'
  BY <1>1, <1>2 DEF Saved, KeptBefore, Pop!NothingLost, Pop!Kept, Current, Pop!client, Pop!disk
<1>5. Conversation'
  <2>1. CASE Pop!Deliver
    BY <1>1, <2>1 DEF Pop!Deliver, Conversation, Current, Pop!client, Pop!disk
  <2>2. CASE Pop!HangUp
    <3>1. PICK n \in 0 .. Len(wire) : wire' = SubSeq(wire, 1, n)
      BY <2>2 DEF Pop!HangUp
    <3>2. wire \in Seq(Pop!AllLines) /\ Len(wire) \in Nat /\ n \in Nat /\ n <= Len(wire)
      BY LenProperties DEF Conversation
    <3>3. wire' \in Seq(Pop!AllLines) /\ Len(wire') = n /\ \A i \in 1 .. n : wire'[i] = wire[i]
      BY <3>1, <3>2, Beginning
    <3>4. wire = <<>> => wire' = <<>>
      BY <3>2, <3>3, EmptySeq
    <3>5. UNCHANGED <<does, files, dwMailCounter, Current>> /\ hungup' = TRUE
      BY <1>1, <2>2 DEF Pop!HangUp, Pop!client, Pop!disk, Current
    <3>6. does \in {"greeting", "stat", "dele"} => Len(wire') <= 1
      BY <3>2, <3>3 DEF Conversation
    <3>7. does \in {"user", "pass"} => \A i \in 1 .. Len(wire') : wire'[i] = "+" => i = Len(wire')
      <4> SUFFICES ASSUME does \in {"user", "pass"}, NEW i \in 1 .. n, wire'[i] = "+" PROVE i = n
        BY <3>3
      <4>1. i \in 1 .. Len(wire)
        BY <3>2
      <4>2. i = Len(wire)
        BY <3>3, <4>1 DEF Conversation
      <4> QED
        BY <3>2, <4>2
    <3>8. does = "retr" /\ wire' # <<>> /\ Head(wire') = "+" => Flow(<<>>, Tail(wire'), Text[Current])
      <4> SUFFICES ASSUME does = "retr", wire' # <<>>, Head(wire') = "+"
                   PROVE  Flow(<<>>, Tail(wire'), Text[Current])
        OBVIOUS
      <4>1. n \in Nat \ {0} /\ wire # <<>>
        BY <3>3, <3>4, EmptySeq
      <4>2. Head(wire') = wire'[1] /\ Head(wire) = wire[1]
        BY <3>2, <3>3, <4>1, Halved
      <4>3. Head(wire) = "+"
        BY <3>3, <4>1, <4>2
      <4>4. Flow(<<>>, Tail(wire), Text[Current])
        BY <4>1, <4>3 DEF Conversation
      <4>5. Tail(wire) \in Seq(Pop!AllLines) /\ Len(Tail(wire)) = Len(wire) - 1 /\ n - 1 \in 0 .. Len(Tail(wire))
        BY <3>2, <4>1, Halved
      <4>6. Tail(wire') = SubSeq(Tail(wire), 1, n - 1)
        <5> DEFINE u == SubSeq(Tail(wire), 1, n - 1)
        <5>1. u \in Seq(Pop!AllLines) /\ Len(u) = n - 1 /\ \A i \in 1 .. n - 1 : u[i] = Tail(wire)[i]
          BY <4>5, Beginning
        <5>2. Tail(wire') \in Seq(Pop!AllLines) /\ Len(Tail(wire')) = n - 1
              /\ \A i \in 1 .. n - 1 : Tail(wire')[i] = wire'[i + 1]
          BY <3>3, <4>1, Halved
        <5> HIDE DEF u
        <5>3. ASSUME NEW i \in 1 .. n - 1 PROVE Tail(wire')[i] = u[i]
          <6>1. i + 1 \in 1 .. n /\ i \in 1 .. Len(Tail(wire))
            BY <3>2, <4>1, <4>5
          <6>2. Tail(wire)[i] = wire[i + 1]
            BY <3>2, <4>1, <6>1, Halved
          <6> QED
            BY <3>3, <5>1, <5>2, <6>1, <6>2
        <5>4. Tail(wire') = u
          BY <5>1, <5>2, <5>3, SeqEqual
        <5> QED
          BY <5>4 DEF u
      <4>7. <<>> \in Seq(Pop!AllLines) /\ Text[Current] \in Seq(Pop!AllLines)
        BY TheText DEF InMail
      <4> QED
        BY <4>4, <4>5, <4>6, <4>7, FlowCut
    <3>9. does = "open" => Flow(<<>>, wire', Text[Current])
      <4> SUFFICES ASSUME does = "open" PROVE Flow(<<>>, wire', Text[Current])
        OBVIOUS
      <4>1. <<>> \in Seq(Pop!AllLines) /\ Text[Current] \in Seq(Pop!AllLines) /\ Flow(<<>>, wire, Text[Current])
        BY TheText DEF InMail, Conversation
      <4> QED
        BY <3>1, <3>2, <4>1, FlowCut
    <3>10. does = "save" => \/ wire' = <<>>
                            \/ Flow(files[dwMailCounter].lines, wire', Text[Current])
      <4> SUFFICES ASSUME does = "save", wire # <<>>
                   PROVE  Flow(files[dwMailCounter].lines, wire', Text[Current])
        BY <3>4
      <4>1. /\ files[dwMailCounter].lines \in Seq(Pop!AllLines) /\ Text[Current] \in Seq(Pop!AllLines)
            /\ Flow(files[dwMailCounter].lines, wire, Text[Current])
        BY TheText DEF InMail, Conversation, Saved
      <4> QED
        BY <3>1, <3>2, <4>1, FlowCut
    <3>11. does \in {"USER", "PASS", "STAT", "RETR", "DELE"} => wire' = <<>>
      BY <3>4 DEF Conversation
    <3> QED
      BY <3>3, <3>5, <3>6, <3>7, <3>8, <3>9, <3>10, <3>11 DEF Conversation
  <2> QED
    BY <2>1, <2>2 DEF Pop!Server
<1> QED
  BY <1>1, <1>3, <1>4, <1>5 DEF Pop!client

(* main leaves. *)
LEMMA ExitStep == ASSUME PopInv, does # "off", Pop!Exit, UNCHANGED <<Pop!disk, sessions>> PROVE PopInv'
<1>1. /\ does' = "off" /\ hungup' = TRUE /\ wire' = <<>>
      /\ UNCHANGED <<come, drop, listed, marked, dwMailCounter, dwNumMail, files, taken, room, sessions>>
  BY DEF Pop!Exit, Pop!Leave, Pop!session, Pop!disk
<1>2. Pop!TypeOK' /\ listed' \in Seq(Mail) /\ ({dwMailCounter, dwNumMail} \subseteq Nat)'
  BY <1>1 DEF PopInv, Pop!TypeOK, Pop!ServerTypeOK
<1>3. Conversation'
  <2>1. <<>> \in Seq(Pop!AllLines)
    OBVIOUS
  <2> QED
    BY <1>1, <2>1 DEF Conversation
<1>4. Saved' /\ KeptBefore' /\ Pop!NothingLost'
  BY <1>1 DEF PopInv, Saved, KeptBefore, Pop!NothingLost, Pop!Kept
<1> QED
  BY <1>2, <1>3, <1>4 DEF PopInv

(* The numbers that main reads its listing by, and the server's part of the types. *)
LEMMA Types ==
    ASSUME PopInv
    PROVE  /\ drop \subseteq come /\ come \subseteq Mail /\ Pop!ToSet(listed) \subseteq Mail
           /\ marked \subseteq DOMAIN listed /\ hungup \in BOOLEAN
           /\ dwNumMail \in Nat /\ dwMailCounter \in Nat /\ room \in Nat /\ dwNumMail <= Len(listed)
           /\ listed \in Seq(Mail) /\ wire \in Seq(Pop!AllLines) /\ Len(wire) \in Nat
BY LenProperties DEF PopInv, Pop!TypeOK, Pop!ServerTypeOK, Conversation

(* A line is read. *)
LEMMA Reading ==
    ASSUME PopInv, Pop!Reads
    PROVE  /\ UNCHANGED <<come, drop, listed, marked, hungup>>
           /\ wire' \in Seq(Pop!AllLines)
           /\ wire = <<>> => wire' = <<>> /\ Pop!Line = ""
           /\ wire # <<>> => wire' = Tail(wire) /\ Pop!Line = Head(wire) /\ Pop!Line = wire[1]
           /\ wire # <<>> => /\ Len(wire') = Len(wire) - 1
                             /\ \A i \in 1 .. Len(wire') : wire'[i] = wire[i + 1]
           /\ Len(wire) <= 1 => wire' = <<>>
<1>1. wire \in Seq(Pop!AllLines) /\ Len(wire) \in Nat
  BY Types
<1>2. UNCHANGED <<come, drop, listed, marked, hungup>>
  BY DEF Pop!Reads, Pop!session
<1>3. CASE wire = <<>>
  BY <1>1, <1>2, <1>3 DEF Pop!Reads, Pop!Line
<1>4. CASE wire # <<>>
  <2>1. wire' = Tail(wire) /\ Pop!Line = Head(wire)
    BY <1>4 DEF Pop!Reads, Pop!Line
  <2>2. /\ Tail(wire) \in Seq(Pop!AllLines) /\ Len(Tail(wire)) = Len(wire) - 1 /\ Head(wire) = wire[1]
        /\ \A i \in 1 .. Len(Tail(wire)) : Tail(wire)[i] = wire[i + 1]
        /\ Len(wire) \in Nat \ {0}
    BY <1>1, <1>4, Halved
  <2>3. Len(wire) <= 1 => Len(Tail(wire)) = 0
    BY <2>2
  <2>4. Len(wire) <= 1 => Tail(wire) = <<>>
    BY <2>2, <2>3, EmptySeq
  <2> QED
    BY <1>2, <1>4, <2>1, <2>2, <2>4
<1> QED
  BY <1>3, <1>4

(* What a step that only reads on, or only sends, leaves of the rest. *)
LEMMA SameTypes ==
    ASSUME PopInv, UNCHANGED <<come, drop, listed, room>>, hungup' \in BOOLEAN,
           marked' \subseteq DOMAIN listed, dwNumMail' \in Nat, dwMailCounter' \in Nat,
           dwNumMail' <= Len(listed),
           does' \in {"off", "greeting", "USER", "user", "PASS", "pass", "STAT", "stat",
                      "RETR", "retr", "open", "save", "DELE", "dele", "QUIT", "quit"},
           InMail' => dwMailCounter' \in 1 .. dwNumMail'
    PROVE  Pop!TypeOK' /\ listed' \in Seq(Mail) /\ ({dwMailCounter, dwNumMail} \subseteq Nat)'
<1>1. Pop!ServerTypeOK'
  BY Types DEF Pop!ServerTypeOK, Pop!ToSet
<1>2. (dwNumMail <= Len(listed))'
  OBVIOUS
<1> QED
  BY <1>1, <1>2, Types DEF Pop!TypeOK, InMail

(* Goto to a place where nothing is said about the files that was not said before. *)
LEMMA GotoFrame ==
    ASSUME PopInv, NEW where, Pop!Goto(where), UNCHANGED Pop!disk,
           where \in {"greeting", "USER", "user", "PASS", "pass", "STAT", "stat",
                      "RETR", "retr", "open", "save", "DELE", "dele", "QUIT", "quit"},
           where \in {"RETR", "retr", "open", "save", "DELE", "dele"} => InMail
    PROVE  /\ Pop!TypeOK' /\ listed' \in Seq(Mail) /\ ({dwMailCounter, dwNumMail} \subseteq Nat)'
           /\ UNCHANGED <<come, drop, listed, marked, hungup, files, taken, dwMailCounter, dwNumMail>>
           /\ Pop!NothingLost' /\ Pop!Reads /\ does' = where
<1>1. /\ does' = where /\ Pop!Reads
      /\ UNCHANGED <<come, drop, listed, marked, hungup, files, taken, room, dwMailCounter, dwNumMail>>
  BY DEF Pop!Goto, Pop!Reads, Pop!session, Pop!disk
<1>2. InMail => dwMailCounter \in 1 .. dwNumMail
  BY DEF InMail, PopInv, Pop!TypeOK
<1>3. Pop!TypeOK' /\ listed' \in Seq(Mail) /\ ({dwMailCounter, dwNumMail} \subseteq Nat)'
  BY <1>1, <1>2, Types, SameTypes DEF InMail
<1>4. Pop!NothingLost'
  BY <1>1 DEF PopInv, Pop!NothingLost, Pop!Kept
<1> QED
  BY <1>1, <1>3, <1>4

(* The greeting and the answers to USER and PASS. *)
LEMMA LogOnStep ==
    ASSUME PopInv, Pop!Greeting \/ Pop!LogOn("user", "PASS") \/ Pop!LogOn("pass", "STAT") PROVE PopInv'
<1>1. CASE Pop!Greeting /\ Pop!Line = "+"
  <2>1. Pop!Goto("USER") /\ UNCHANGED Pop!disk /\ does = "greeting"
    BY <1>1 DEF Pop!Greeting
  <2>2. /\ Pop!TypeOK' /\ listed' \in Seq(Mail) /\ ({dwMailCounter, dwNumMail} \subseteq Nat)'
        /\ UNCHANGED <<come, drop, listed, marked, hungup, files, taken, dwMailCounter, dwNumMail>>
        /\ Pop!NothingLost' /\ Pop!Reads /\ does' = "USER"
    BY <2>1, GotoFrame
  <2>3. wire' = <<>> /\ wire' \in Seq(Pop!AllLines)
    BY <2>1, <2>2, Reading DEF PopInv, Conversation
  <2> QED
    BY <2>1, <2>2, <2>3 DEF PopInv, Conversation, Saved, KeptBefore
<1>2. ASSUME NEW answer \in {"user", "pass"}, NEW then \in {"PASS", "STAT"}, Pop!LogOn(answer, then)
      PROVE  PopInv'
  <2>1. CASE Pop!Exit
    BY <1>2, <2>1, ExitStep DEF Pop!LogOn
  <2>2. CASE Pop!Line = "text" /\ Pop!Goto(answer)
    <3>1. /\ Pop!TypeOK' /\ listed' \in Seq(Mail) /\ ({dwMailCounter, dwNumMail} \subseteq Nat)'
          /\ UNCHANGED <<come, drop, listed, marked, hungup, files, taken, dwMailCounter, dwNumMail>>
          /\ Pop!NothingLost' /\ Pop!Reads /\ does' = answer
      BY <1>2, <2>2, GotoFrame DEF Pop!LogOn
    <3>2. does = answer /\ wire # <<>>
      BY <1>2, <2>2, <3>1, Reading DEF Pop!LogOn
    <3>3. \A i \in 1 .. Len(wire') : wire'[i] = "+" => i = Len(wire')
      <4> SUFFICES ASSUME NEW i \in 1 .. Len(wire'), wire'[i] = "+" PROVE i = Len(wire')
        OBVIOUS
      <4>1. Len(wire') = Len(wire) - 1 /\ wire'[i] = wire[i + 1] /\ Len(wire) \in Nat
        BY <3>1, <3>2, Reading, Types
      <4>2. i + 1 \in 1 .. Len(wire)
        BY <4>1
      <4>3. i + 1 = Len(wire)
        BY <3>2, <4>1, <4>2 DEF PopInv, Conversation
      <4> QED
        BY <4>1, <4>3
    <3>4. wire' \in Seq(Pop!AllLines)
      BY <3>1, Reading
    <3> QED
      BY <3>1, <3>2, <3>3, <3>4 DEF PopInv, Conversation, Saved, KeptBefore
  <2>3. CASE Pop!Line = "+" /\ Pop!Goto(then)
    <3>1. /\ Pop!TypeOK' /\ listed' \in Seq(Mail) /\ ({dwMailCounter, dwNumMail} \subseteq Nat)'
          /\ UNCHANGED <<come, drop, listed, marked, hungup, files, taken, dwMailCounter, dwNumMail>>
          /\ Pop!NothingLost' /\ Pop!Reads /\ does' = then
      BY <1>2, <2>3, GotoFrame DEF Pop!LogOn
    <3>2. does = answer /\ wire # <<>> /\ wire[1] = "+"
      BY <1>2, <2>3, <3>1, Reading DEF Pop!LogOn
    <3>3. Len(wire) \in Nat \ {0}
      BY <3>2, Types, EmptySeq
    <3>4. Len(wire) <= 1
      <4>1. 1 \in 1 .. Len(wire)
        BY <3>3
      <4>2. Len(wire) = 1
        BY <3>2, <4>1 DEF PopInv, Conversation
      <4> QED
        BY <4>2
    <3>5. wire' = <<>> /\ wire' \in Seq(Pop!AllLines)
      BY <3>1, <3>4, Reading
    <3> QED
      BY <3>1, <3>2, <3>5 DEF PopInv, Conversation, Saved, KeptBefore
  <2> QED
    BY <1>2, <2>1, <2>2, <2>3 DEF Pop!LogOn
<1>3. CASE Pop!Greeting /\ Pop!Line # "+"
  BY <1>3, ExitStep DEF Pop!Greeting
<1> QED
  BY <1>1, <1>2, <1>3

LEMMA StatStep == ASSUME PopInv, Pop!Stat PROVE PopInv'
<1>1. CASE Pop!Exit
  BY <1>1, ExitStep DEF Pop!Stat
<1>2. CASE ~ Pop!Exit
  <2>1. /\ does = "stat" /\ does' = "RETR" /\ dwNumMail' = Len(listed) /\ Pop!Reads
        /\ UNCHANGED dwMailCounter /\ UNCHANGED Pop!disk /\ listed # <<>>
    BY <1>2 DEF Pop!Stat
  <2>2. Len(listed) \in Nat \ {0}
    BY <2>1, Types, EmptySeq
  <2>3. wire' = <<>> /\ wire' \in Seq(Pop!AllLines) /\ UNCHANGED <<come, drop, listed, marked, hungup, files, taken, room>>
    BY <2>1, Reading DEF PopInv, Conversation, Pop!disk
  <2>4. dwMailCounter = 1 /\ files = <<>> /\ marked = {}
    BY <2>1 DEF PopInv, Saved
  <2>5. dwMailCounter' \in 1 .. dwNumMail'
    BY <2>1, <2>2, <2>4
  <2>6. Pop!TypeOK' /\ listed' \in Seq(Mail) /\ ({dwMailCounter, dwNumMail} \subseteq Nat)'
    BY <2>1, <2>2, <2>3, <2>5, Types, SameTypes
  <2>7. Saved'
    <3>1. DOMAIN <<>> = {}
      OBVIOUS
    <3> QED
      BY <2>1, <2>3, <2>4, <3>1 DEF Saved
  <2> QED
    BY <2>1, <2>3, <2>6, <2>7 DEF PopInv, Conversation, KeptBefore, Pop!NothingLost, Pop!Kept
<1> QED
  BY <1>1, <1>2

LEMMA RetrStep == ASSUME PopInv, Pop!Retr PROVE PopInv'
<1>1. CASE Pop!Line = "+"
  <2>1. Pop!Goto("open") /\ does = "retr" /\ UNCHANGED Pop!disk
    BY <1>1 DEF Pop!Retr
  <2>2. /\ Pop!TypeOK' /\ listed' \in Seq(Mail) /\ ({dwMailCounter, dwNumMail} \subseteq Nat)'
        /\ UNCHANGED <<come, drop, listed, marked, hungup, files, taken, dwMailCounter, dwNumMail>>
        /\ Pop!NothingLost' /\ Pop!Reads /\ does' = "open"
    BY <2>1, GotoFrame DEF InMail
  <2>3. wire # <<>> /\ wire' = Tail(wire) /\ Head(wire) = "+" /\ wire' \in Seq(Pop!AllLines)
    BY <1>1, <2>2, Reading
  <2>4. Flow(<<>>, wire', Text[Current])
    BY <2>1, <2>3 DEF PopInv, Conversation
  <2>5. Conversation'
    BY <2>2, <2>3, <2>4 DEF Conversation, Current
  <2>6. Saved' /\ KeptBefore'
    BY <2>1, <2>2 DEF PopInv, Saved, KeptBefore
  <2> QED
    BY <2>2, <2>5, <2>6 DEF PopInv
<1>2. CASE Pop!Line # "+"
  <2>1. Pop!Goto("QUIT") /\ does = "retr" /\ UNCHANGED Pop!disk
    BY <1>2 DEF Pop!Retr
  <2>2. /\ Pop!TypeOK' /\ listed' \in Seq(Mail) /\ ({dwMailCounter, dwNumMail} \subseteq Nat)'
        /\ UNCHANGED <<come, drop, listed, marked, hungup, files, taken, dwMailCounter, dwNumMail>>
        /\ Pop!NothingLost' /\ Pop!Reads /\ does' = "QUIT"
    BY <2>1, GotoFrame
  <2>3. wire' \in Seq(Pop!AllLines)
    BY <2>2, Reading
  <2> QED
    BY <2>1, <2>2, <2>3 DEF PopInv, Conversation, Saved, KeptBefore
<1> QED
  BY <1>1, <1>2

LEMMA DeleStep == ASSUME PopInv, Pop!Dele PROVE PopInv'
<1>0. does = "dele" /\ UNCHANGED Pop!disk
  BY DEF Pop!Dele
<1>1. CASE Pop!Line = "+" /\ dwMailCounter < dwNumMail
  <2>1. does' = "RETR" /\ dwMailCounter' = dwMailCounter + 1 /\ Pop!Reads /\ UNCHANGED dwNumMail
    BY <1>1 DEF Pop!Dele
  <2>2. wire' = <<>> /\ wire' \in Seq(Pop!AllLines) /\ UNCHANGED <<come, drop, listed, marked, hungup, files, taken, room>>
    BY <1>0, <2>1, Reading DEF PopInv, Conversation, Pop!disk
  <2>3. dwMailCounter' \in 1 .. dwNumMail' /\ dwMailCounter' - 1 = dwMailCounter
    BY <1>1, <2>1, Types
  <2>4. Pop!TypeOK' /\ listed' \in Seq(Mail) /\ ({dwMailCounter, dwNumMail} \subseteq Nat)'
    BY <2>1, <2>2, <2>3, Types, SameTypes
  <2>5. Saved'
    BY <1>0, <2>1, <2>2, <2>3 DEF PopInv, Saved
  <2>6. Conversation' /\ KeptBefore' /\ Pop!NothingLost'
    BY <1>0, <2>1, <2>2 DEF PopInv, Conversation, KeptBefore, Pop!NothingLost, Pop!Kept
  <2> QED
    BY <2>4, <2>5, <2>6 DEF PopInv
<1>2. CASE ~ (Pop!Line = "+" /\ dwMailCounter < dwNumMail)
  <2>1. Pop!Goto("QUIT")
    BY <1>2 DEF Pop!Dele
  <2>2. /\ Pop!TypeOK' /\ listed' \in Seq(Mail) /\ ({dwMailCounter, dwNumMail} \subseteq Nat)'
        /\ UNCHANGED <<come, drop, listed, marked, hungup, files, taken, dwMailCounter, dwNumMail>>
        /\ Pop!NothingLost' /\ Pop!Reads /\ does' = "QUIT"
    BY <1>0, <2>1, GotoFrame
  <2>3. wire' \in Seq(Pop!AllLines)
    BY <2>2, Reading
  <2> QED
    BY <1>0, <2>2, <2>3 DEF PopInv, Conversation, Saved, KeptBefore
<1> QED
  BY <1>1, <1>2

LEMMA SaveStep == ASSUME PopInv, Pop!MailAssumption, Windows, Pop!Save PROVE PopInv'
<1> DEFINE file == files[dwMailCounter]
<1>0. does = "save" /\ Pop!Readable
  BY DEF Pop!Save
<1>1. /\ Text[Current] \in Seq(Pop!AllLines) /\ "." \notin Pop!ToSet(Text[Current])
      /\ dwMailCounter \in 1 .. dwNumMail
  BY <1>0, TheText DEF InMail
<1>2. /\ DOMAIN files \subseteq 1 .. dwMailCounter /\ dwMailCounter \in DOMAIN files
      /\ file = [mail |-> Current, lines |-> file.lines] /\ file.lines \in Seq(Pop!AllLines)
      /\ dwMailCounter \notin marked
      /\ (hungup /\ wire = <<>>) \/ Flow(file.lines, wire, Text[Current])
  BY <1>0 DEF PopInv, Saved, Conversation
<1>3. CASE Pop!EndOfMail(Pop!Line) /\ Pop!Goto("DELE") /\ UNCHANGED Pop!disk
  <2>1. /\ Pop!TypeOK' /\ listed' \in Seq(Mail) /\ ({dwMailCounter, dwNumMail} \subseteq Nat)'
        /\ UNCHANGED <<come, drop, listed, marked, hungup, files, taken, dwMailCounter, dwNumMail>>
        /\ Pop!NothingLost' /\ Pop!Reads /\ does' = "DELE"
    BY <1>0, <1>3, GotoFrame DEF InMail
  <2>2. Pop!Line = "."
    BY <1>3 DEF Pop!EndOfMail
  <2>3. wire # <<>> /\ Head(wire) = "." /\ wire' = Tail(wire)
    BY <2>1, <2>2, Reading
  <2>4. file.lines = Text[Current] /\ wire' = <<>>
    BY <1>1, <1>2, <2>3, FlowNext, Types
  <2>5. file = Whole(Current)
    BY <1>2, <2>4 DEF Whole
  <2>6. UNCHANGED Current /\ <<>> \in Seq(Pop!AllLines)
    BY <2>1 DEF Current
  <2>7. Saved'
    BY <1>0, <1>2, <2>1, <2>5, <2>6 DEF PopInv, Saved, Whole
  <2>8. Conversation' /\ KeptBefore'
    BY <1>0, <2>1, <2>4, <2>6 DEF PopInv, Conversation, KeptBefore
  <2> QED
    BY <2>1, <2>7, <2>8 DEF PopInv
<1>4. CASE /\ ~ Pop!EndOfMail(Pop!Line) /\ room > 0 /\ Pop!Goto("save")
           /\ files' = [files EXCEPT ![dwMailCounter].lines = Append(@, Pop!Line)]
           /\ room' = room - 1 /\ UNCHANGED taken
  <2>1. /\ does' = "save" /\ Pop!Reads /\ UNCHANGED <<dwMailCounter, dwNumMail, taken>>
        /\ room' \in Nat
    BY <1>4, Types DEF Pop!Goto
  <2>2. /\ UNCHANGED <<come, drop, listed, marked, hungup>> /\ wire' \in Seq(Pop!AllLines)
    BY <2>1, Reading
  <2>3. Pop!TypeOK' /\ listed' \in Seq(Mail) /\ ({dwMailCounter, dwNumMail} \subseteq Nat)'
    <3>1. Pop!ServerTypeOK'
      BY <2>2, Types DEF Pop!ServerTypeOK, Pop!ToSet
    <3> QED
      BY <1>1, <2>1, <2>2, <3>1, Types DEF Pop!TypeOK
  <2>4. Pop!Line \in Pop!AllLines
    <3>1. wire # <<>> => Head(wire) \in Pop!AllLines
      BY Types, Halved
    <3> QED
      BY <3>1, Said DEF Pop!Line
  <2>5. /\ DOMAIN files' = DOMAIN files
        /\ \A n \in DOMAIN files \ {dwMailCounter} : files'[n] = files[n]
        /\ files'[dwMailCounter] = [mail |-> Current, lines |-> Append(file.lines, Pop!Line)]
    <3>1. files'[dwMailCounter] = [file EXCEPT !.lines = Append(@, Pop!Line)]
      BY <1>2, <1>4
    <3>2. [[mail |-> Current, lines |-> file.lines] EXCEPT !.lines = Append(@, Pop!Line)]
            = [mail |-> Current, lines |-> Append(file.lines, Pop!Line)]
      BY SMTT(60)
    <3>3. files'[dwMailCounter] = [mail |-> Current, lines |-> Append(file.lines, Pop!Line)]
      <4> HIDE DEF file
      <4> QED
        BY <1>2, <3>1, <3>2
    <3> QED
      BY <1>4, <3>3
  <2>6. Append(file.lines, Pop!Line) \in Seq(Pop!AllLines)
    BY <1>2, <2>4
  <2>7. UNCHANGED Current
    BY <2>1, <2>2 DEF Current
  <2>8. Saved'
    <3>1. \A n \in marked : n \in DOMAIN files /\ files[n] = Whole(listed[n])
      BY <1>0 DEF PopInv, Saved
    <3> HIDE DEF file
    <3>2. files'[dwMailCounter].lines = Append(file.lines, Pop!Line)
      BY <2>5
    <3> QED
      BY <1>2, <2>1, <2>2, <2>5, <2>6, <2>7, <3>1, <3>2 DEF Saved, Whole
  <2>9. (hungup /\ wire' = <<>>) \/ Flow(files'[dwMailCounter].lines, wire', Text[Current])
    <3>1. CASE wire = <<>>
      BY <1>0, <2>1, <3>1, Reading DEF Pop!Readable
    <3>2. CASE wire # <<>>
      <4>1. wire' = Tail(wire) /\ Pop!Line = Head(wire) /\ Head(wire) # "."
        BY <1>4, <2>1, <3>2, Reading DEF Pop!EndOfMail
      <4>2. Flow(Append(file.lines, Pop!Line), wire', Text[Current])
        BY <1>1, <1>2, <3>2, <4>1, FlowNext, Types
      <4> QED
        BY <2>5, <4>2
    <3> QED
      BY <3>1, <3>2
  <2>10. Conversation'
    BY <2>1, <2>2, <2>7, <2>9 DEF Conversation
  <2>11. KeptBefore' /\ Pop!NothingLost'
    BY <1>0, <2>1, <2>2 DEF PopInv, KeptBefore, Pop!NothingLost, Pop!Kept, Whole
  <2> QED
    BY <2>3, <2>8, <2>10, <2>11 DEF PopInv
<1>5. CASE Pop!WriteFails /\ UNCHANGED Pop!disk /\ UNCHANGED sessions
  BY <1>0, <1>5, ExitStep DEF Pop!WriteFails
<1> QED
  BY <1>3, <1>4, <1>5 DEF Pop!Save

LEMMA OpenStep == ASSUME PopInv, Pop!MailAssumption, Pop!Open PROVE PopInv'
<1>0. /\ does = "open" /\ does' \in {"save", "QUIT"}
      /\ UNCHANGED <<come, drop, listed, marked, wire, hungup, dwMailCounter, dwNumMail, taken>>
  BY DEF Pop!Open, Pop!server, Pop!session
<1>1. /\ DOMAIN files \subseteq 1 .. dwMailCounter - 1 /\ dwMailCounter \in 1 .. dwNumMail
      /\ Flow(<<>>, wire, Text[Current])
      /\ \A n \in marked : n \in DOMAIN files /\ files[n] = Whole(listed[n])
  BY <1>0 DEF PopInv, Saved, Conversation, Pop!TypeOK
<1>2. dwMailCounter \notin DOMAIN files /\ dwMailCounter \in Nat
  BY <1>1, Types
<1>3. room' \in Nat
  BY <1>2, Types DEF Pop!Open
<1>4. Pop!TypeOK' /\ listed' \in Seq(Mail) /\ ({dwMailCounter, dwNumMail} \subseteq Nat)'
  <2>1. Pop!ServerTypeOK'
    BY <1>0, Types DEF Pop!ServerTypeOK, Pop!ToSet
  <2> QED
    BY <1>0, <1>1, <1>3, <2>1, Types DEF Pop!TypeOK
<1>5. KeptBefore' /\ Pop!NothingLost'
  BY <1>0 DEF PopInv, KeptBefore, Pop!NothingLost, Pop!Kept, Whole
<1>6. CASE does' = "QUIT"
  <2>1. UNCHANGED files
    BY <1>6 DEF Pop!Open
  <2>2. Conversation' /\ Saved'
    BY <1>0, <1>1, <1>6, <2>1 DEF PopInv, Conversation, Saved, Whole
  <2> QED
    BY <1>4, <1>5, <2>2 DEF PopInv
<1>7. CASE does' = "save"
  <2>1. files' = [n \in DOMAIN files \cup {dwMailCounter} |->
                    IF n = dwMailCounter THEN [mail |-> listed[n], lines |-> <<>>] ELSE files[n]]
    BY <1>7 DEF Pop!Open
  <2>2. /\ DOMAIN files' = DOMAIN files \cup {dwMailCounter}
        /\ files'[dwMailCounter] = [mail |-> Current, lines |-> <<>>]
        /\ \A n \in DOMAIN files : files'[n] = files[n]
    BY <1>2, <2>1 DEF Current
  <2>3. UNCHANGED Current /\ <<>> \in Seq(Pop!AllLines) /\ files'[dwMailCounter].lines = <<>>
    BY <1>0, <2>2 DEF Current
  <2>4. Conversation'
    BY <1>0, <1>1, <1>7, <2>3 DEF PopInv, Conversation
  <2>5. DOMAIN files' \subseteq 1 .. dwMailCounter
    BY <1>1, <1>2, <2>2
  <2>6. Saved'
    BY <1>0, <1>1, <1>2, <1>7, <2>2, <2>3, <2>5 DEF Saved, Whole
  <2> QED
    BY <1>4, <1>5, <2>4, <2>6 DEF PopInv
<1> QED
  BY <1>0, <1>6, <1>7

(* What a command puts on the wire. *)
LEMMA Sent ==
    ASSUME PopInv, Pop!MailAssumption, NEW command, NEW answer, NEW A, Pop!Send(command, answer, A),
           command \in {"USER", "PASS", "STAT", "RETR", "DELE"}
    PROVE  /\ does = command /\ does' = answer /\ wire = <<>>
           /\ UNCHANGED <<dwMailCounter, dwNumMail, files, taken, room>>
           /\ \/ UNCHANGED <<come, drop, listed, marked, hungup>> /\ wire' \in {<<>>, <<"-">>}
              \/ A
<1>1. does = command /\ does' = answer /\ UNCHANGED <<dwMailCounter, dwNumMail, files, taken, room>>
  BY DEF Pop!Send, Pop!disk
<1>2. wire = <<>>
  BY <1>1 DEF PopInv, Conversation
<1>3. CASE UNCHANGED Pop!server
  BY <1>1, <1>2, <1>3 DEF Pop!server, Pop!session
<1>4. CASE Pop!Refuse
  BY <1>1, <1>2, <1>4 DEF Pop!Refuse, Pop!Says, Pop!session
<1> QED
  BY <1>1, <1>2, <1>3, <1>4 DEF Pop!Send

(* A command that only asks. *)
LEMMA AskStep ==
    ASSUME PopInv, Pop!MailAssumption,
           \/ Pop!Send("USER", "user", Pop!Agree(<<"+">>))
           \/ Pop!Send("USER", "user", Pop!Agree(<<"text", "+">>))
           \/ Pop!Send("PASS", "pass", Pop!Agree(<<"+">>))
           \/ Pop!Send("STAT", "stat", Pop!Agree(<<"+">>))
    PROVE  PopInv'
<1>1. /\ <<does, does'>> \in {<<"USER", "user">>, <<"PASS", "pass">>, <<"STAT", "stat">>}
      /\ UNCHANGED <<dwMailCounter, dwNumMail, files, taken, room, come, drop, listed, marked, hungup>>
      /\ \/ wire' \in {<<>>, <<"-">>, <<"+">>}
         \/ wire' = <<"text", "+">> /\ does = "USER"
  <2>1. wire = <<>> => wire \o <<"+">> = <<"+">> /\ wire \o <<"text", "+">> = <<"text", "+">>
    OBVIOUS
  <2> QED
    BY <2>1, Sent DEF Pop!Agree, Pop!Says, Pop!session
<1>2. wire' \in Seq(Pop!AllLines)
  BY <1>1, Answers
<1>3. does' \in {"stat"} => Len(wire') <= 1
  BY <1>1
<1>4. \A i \in 1 .. Len(wire') : wire'[i] = "+" => i = Len(wire')
  <2>1. CASE wire' \in {<<>>, <<"-">>, <<"+">>}
    <3>1. Len(<<>>) = 0
      OBVIOUS
    <3>2. Len(wire') \in {0, 1}
      BY <2>1, <3>1, Answers
    <3> QED
      BY <3>2
  <2>2. CASE wire' = <<"text", "+">>
    BY <2>2
  <2> QED
    BY <1>1, <2>1, <2>2
<1>5. Pop!TypeOK' /\ listed' \in Seq(Mail) /\ ({dwMailCounter, dwNumMail} \subseteq Nat)'
  BY <1>1, Types, SameTypes DEF InMail
<1>6. Conversation' /\ Saved' /\ KeptBefore' /\ Pop!NothingLost'
  BY <1>1, <1>2, <1>3, <1>4 DEF PopInv, Conversation, Saved, KeptBefore, Pop!NothingLost, Pop!Kept
<1> QED
  BY <1>5, <1>6 DEF PopInv

LEMMA AskForMailStep == ASSUME PopInv, Pop!MailAssumption, Pop!Send("RETR", "retr", Pop!Retrieve(dwMailCounter)) PROVE PopInv'
<1> DEFINE t == Text[Current]
           whole == <<"+">> \o t \o <<".">>
<1>1. /\ does = "RETR" /\ does' = "retr" /\ wire = <<>>
      /\ UNCHANGED <<dwMailCounter, dwNumMail, files, taken, room, come, drop, listed, marked, hungup>>
      /\ wire' \in {<<>>, <<"-">>} \/ wire' = wire \o whole
  BY Sent DEF Pop!Retrieve, Pop!Agree, Pop!Says, Pop!session, Current
<1>2. t \in Seq(Pop!AllLines) /\ dwMailCounter \in 1 .. dwNumMail
  BY <1>1, TheText DEF InMail
<1> HIDE DEF t
<1>3. whole \in Seq(Pop!AllLines) /\ Head(whole) = "+" /\ Tail(whole) = t \o <<".">>
  <2> DEFINE u == t \o <<".">>
  <2>1. u \in Seq(Pop!AllLines) /\ whole = <<"+">> \o u
    BY <1>2, Answers, ConcatAssociative, ConcatProperties
  <2> HIDE DEF u
  <2>2. /\ <<"+">> \o u \in Seq(Pop!AllLines) /\ Len(<<"+">> \o u) = 1 + Len(u) /\ Len(u) \in Nat
        /\ (<<"+">> \o u)[1] = "+" /\ \A i \in 1 .. Len(u) : (<<"+">> \o u)[i + 1] = u[i]
    <3> DEFINE p == <<"+">>
    <3>1. p \in Seq(Pop!AllLines) /\ Len(p) = 1 /\ p[1] = "+" /\ Len(u) \in Nat
      BY <2>1, Answers, LenProperties
    <3> HIDE DEF p
    <3>2. /\ p \o u \in Seq(Pop!AllLines) /\ Len(p \o u) = 1 + Len(u)
          /\ \A i \in 1 .. 1 + Len(u) : (p \o u)[i] = IF i <= 1 THEN p[i] ELSE u[i - 1]
      <4>1. /\ p \o u \in Seq(Pop!AllLines) /\ Len(p \o u) = Len(p) + Len(u)
            /\ \A i \in 1 .. Len(p) + Len(u) : (p \o u)[i] = IF i <= Len(p) THEN p[i] ELSE u[i - Len(p)]
        BY <2>1, <3>1, ConcatProperties
      <4> QED
        BY <3>1, <4>1
    <3>3. (p \o u)[1] = "+"
      BY <3>1, <3>2
    <3>4. ASSUME NEW i \in 1 .. Len(u) PROVE (p \o u)[i + 1] = u[i]
      <4>1. i + 1 \in 1 .. 1 + Len(u) /\ ~ (i + 1 <= 1) /\ (i + 1) - 1 = i
        BY <3>1
      <4> QED
        BY <3>2, <4>1
    <3> QED
      BY <3>1, <3>2, <3>3, <3>4 DEF p
  <2> DEFINE v == <<"+">> \o u
  <2> HIDE DEF v
  <2>3. /\ v \in Seq(Pop!AllLines) /\ Len(v) = 1 + Len(u) /\ Len(u) \in Nat
        /\ v[1] = "+" /\ \A i \in 1 .. Len(u) : v[i + 1] = u[i] /\ v # <<>>
    BY <2>2, EmptySeq DEF v
  <2>4. Head(v) = "+" /\ Tail(v) \in Seq(Pop!AllLines) /\ Len(Tail(v)) = Len(u)
        /\ \A i \in 1 .. Len(u) : Tail(v)[i] = u[i]
    BY <2>3, Halved
  <2>5. Tail(v) = u
    BY <2>1, <2>4, SeqEqual
  <2> QED
    BY <2>1, <2>3, <2>4, <2>5 DEF u, v
<1>4. Flow(<<>>, t \o <<".">>, t)
  BY <1>2, FlowStart
<1>5. wire' \in Seq(Pop!AllLines) /\ (wire' # <<>> /\ Head(wire') = "+" => Flow(<<>>, Tail(wire'), t))
  <2>1. CASE wire' \in {<<>>, <<"-">>}
    <3>1. Head(<<"-">>) = "-" /\ <<>> \in Seq(Pop!AllLines) /\ <<"-">> \in Seq(Pop!AllLines)
      BY Answers
    <3> QED
      BY <2>1, <3>1
  <2>2. CASE wire' = wire \o whole
    <3>1. wire' = whole
      BY <1>1, <1>3, <2>2
    <3> QED
      BY <1>3, <1>4, <3>1
  <2> QED
    BY <1>1, <2>1, <2>2
<1>6. Pop!TypeOK' /\ listed' \in Seq(Mail) /\ ({dwMailCounter, dwNumMail} \subseteq Nat)'
  BY <1>1, <1>2, Types, SameTypes
<1>7. UNCHANGED Current
  BY <1>1 DEF Current
<1>8. Conversation'
  BY <1>1, <1>5, <1>7 DEF Conversation, t
<1>9. Saved' /\ KeptBefore' /\ Pop!NothingLost'
  BY <1>1 DEF PopInv, Saved, KeptBefore, Pop!NothingLost, Pop!Kept
<1> QED
  BY <1>6, <1>8, <1>9 DEF PopInv

LEMMA DeleteStep == ASSUME PopInv, Pop!MailAssumption, Pop!Send("DELE", "dele", Pop!Delete(dwMailCounter)) PROVE PopInv'
<1>1. /\ does = "DELE" /\ does' = "dele" /\ wire = <<>>
      /\ UNCHANGED <<dwMailCounter, dwNumMail, files, taken, room, come, drop, listed, hungup>>
      /\ wire' \in {<<>>, <<"-">>, wire \o <<"+">>}
      /\ marked' \in {marked, marked \cup {dwMailCounter}}
  BY Sent DEF Pop!Delete, Pop!Says
<1>2. wire' \in Seq(Pop!AllLines) /\ Len(wire') <= 1
  <2>1. wire \o <<"+">> = <<"+">> /\ Len(<<>>) = 0
    BY <1>1
  <2>2. wire' \in {<<>>, <<"-">>, <<"+">>}
    BY <1>1, <2>1
  <2>3. Len(<<"-">>) = 1 /\ Len(<<"+">>) = 1
    BY Answers
  <2>4. wire' \in Seq(Pop!AllLines)
    BY <2>2, Answers
  <2>5. Len(wire') = 0 \/ Len(wire') = 1
    BY <2>1, <2>2, <2>3
  <2>6. \A k : k = 0 \/ k = 1 => k <= 1
    OBVIOUS
  <2> QED
    BY <2>4, <2>5, <2>6
<1>3. dwMailCounter \in 1 .. Len(listed) /\ dwMailCounter \in 1 .. dwNumMail /\ DOMAIN listed = 1 .. Len(listed)
  BY <1>1, TheText, Types, LenProperties DEF InMail
<1>4. Pop!TypeOK' /\ listed' \in Seq(Mail) /\ ({dwMailCounter, dwNumMail} \subseteq Nat)'
  BY <1>1, <1>3, Types, SameTypes
<1>5. UNCHANGED Current
  BY <1>1 DEF Current
<1>6. Saved'
  BY <1>1, <1>5 DEF PopInv, Saved, Whole, Current
<1>7. Conversation' /\ KeptBefore' /\ Pop!NothingLost'
  BY <1>1, <1>2 DEF PopInv, Conversation, KeptBefore, Pop!NothingLost, Pop!Kept
<1> QED
  BY <1>4, <1>6, <1>7 DEF PopInv

(* At QUIT the server deletes what is marked: all of it has been saved. *)
LEMMA QuitStep == ASSUME PopInv, Pop!MailAssumption, Pop!Send("QUIT", "quit", Pop!Quit) PROVE PopInv'
<1>1. /\ does = "QUIT" /\ does' = "quit"
      /\ UNCHANGED <<dwMailCounter, dwNumMail, files, taken, room, come, listed, marked>>
      /\ drop' \in {drop, drop \ {listed[n] : n \in marked}}
      /\ hungup' \in BOOLEAN
      /\ wire' \in {wire, wire \o <<"-">>, wire \o <<"+">>}
  BY Types DEF Pop!Send, Pop!server, Pop!session, Pop!disk, Pop!Refuse, Pop!Quit, Pop!Says
<1>2. wire' \in Seq(Pop!AllLines)
  <2>1. \A v \in Seq(Pop!AllLines) : wire \o v \in Seq(Pop!AllLines)
    BY Types, ConcatProperties
  <2> QED
    BY <1>1, <2>1, Answers, Types
<1>3. Pop!TypeOK' /\ listed' \in Seq(Mail) /\ ({dwMailCounter, dwNumMail} \subseteq Nat)'
  <2>1. Pop!ServerTypeOK'
    BY <1>1, Types DEF Pop!ServerTypeOK, Pop!ToSet
  <2> QED
    BY <1>1, <2>1, Types DEF Pop!TypeOK
<1>4. Pop!NothingLost'
  <2> SUFFICES ASSUME NEW m \in come, m \notin drop' PROVE Pop!Kept(m)
    BY <1>1 DEF Pop!NothingLost, Pop!Kept
  <2>1. CASE m \notin drop
    BY <2>1 DEF PopInv, Pop!NothingLost
  <2>2. CASE m \in drop
    <3>1. PICK n \in marked : m = listed[n]
      BY <1>1, <2>2
    <3>2. n \in DOMAIN files /\ files[n] = Whole(m)
      BY <1>1, <3>1 DEF PopInv, Saved
    <3> QED
      BY <3>2 DEF Pop!Kept, Whole
  <2> QED
    BY <2>1, <2>2
<1>5. Conversation' /\ Saved' /\ KeptBefore'
  BY <1>1, <1>2 DEF PopInv, Conversation, Saved, KeptBefore
<1> QED
  BY <1>3, <1>4, <1>5 DEF PopInv

LEMMA ConnectStep == ASSUME PopInv, Pop!MailAssumption, TakesFiles, Pop!Connect PROVE PopInv'
<1>1. PICK line \in {"+", "-", "text"} : Pop!Greet(line)
  BY DEF Pop!Connect
<1>2. /\ does = "off" /\ files = <<>> /\ does' = "greeting" /\ dwMailCounter' = 1 /\ dwNumMail' = 0
      /\ UNCHANGED <<files, taken, room, come, drop>>
      /\ hungup' = FALSE /\ listed' = Pop!SetToSeq(drop) /\ marked' = {} /\ wire' = <<line>>
  BY <1>1 DEF Pop!Connect, Pop!disk, Pop!Greet
<1>3. listed' \in Seq(Mail) /\ Pop!ToSet(listed') \subseteq Mail /\ Len(listed') \in Nat
  <2>1. IsFiniteSet(drop) /\ drop \subseteq Mail
    BY Types, FS_Subset DEF Pop!MailAssumption, Pop!IsFiniteSet, IsFiniteSet
  <2>2. listed' \in Seq(drop)
    BY <1>2, <2>1, Numbered
  <2>3. listed' \in Seq(Mail)
    BY <2>1, <2>2, SeqMonotonic
  <2>4. \A i \in DOMAIN listed' : listed'[i] \in Mail
    BY <2>3, LenProperties, ElementOfSeq
  <2> QED
    BY <2>3, <2>4, LenProperties DEF Pop!ToSet
<1>4. Pop!TypeOK' /\ ({dwMailCounter, dwNumMail} \subseteq Nat)'
  <2>1. Pop!ServerTypeOK'
    BY <1>2, <1>3, Types DEF Pop!ServerTypeOK
  <2> QED
    BY <1>2, <1>3, <2>1, Types DEF Pop!TypeOK
<1>5. Conversation' /\ Saved'
  <2>1. <<line>> \in Seq(Pop!AllLines) /\ Len(<<line>>) = 1
    BY Answers, Said
  <2> QED
    BY <1>2, <2>1 DEF Conversation, Saved
<1>6. KeptBefore' /\ Pop!NothingLost'
  <2>1. {files[n] : n \in DOMAIN files} = {}
    <3>1. DOMAIN <<>> = {}
      OBVIOUS
    <3> QED
      BY <1>2, <3>1
  <2> QED
    BY <1>2, <2>1 DEF PopInv, KeptBefore, Pop!NothingLost, Pop!Kept, Whole
<1> QED
  BY <1>3, <1>4, <1>5, <1>6 DEF PopInv

LEMMA TakeStep == ASSUME PopInv, Pop!NumbersAssumption, Pop!Take PROVE PopInv'
<1>1. /\ does = "off" /\ taken' = taken \cup {files[n] : n \in DOMAIN files} /\ files' = <<>> /\ room' \in Nat
      /\ UNCHANGED <<come, drop, listed, marked, wire, hungup, does, dwMailCounter, dwNumMail>>
  BY DEF Pop!Take, Pop!server, Pop!session, Pop!client, Pop!NumbersAssumption
<1>2. Pop!TypeOK' /\ listed' \in Seq(Mail) /\ ({dwMailCounter, dwNumMail} \subseteq Nat)'
  <2>1. Pop!ServerTypeOK'
    BY <1>1, Types DEF Pop!ServerTypeOK, Pop!ToSet
  <2> QED
    BY <1>1, <2>1, Types DEF Pop!TypeOK
<1>3. Conversation' /\ Saved' /\ KeptBefore'
  BY <1>1 DEF PopInv, Conversation, Saved, KeptBefore
<1>4. Pop!NothingLost'
  BY <1>1 DEF PopInv, Pop!NothingLost, Pop!Kept
<1> QED
  BY <1>2, <1>3, <1>4 DEF PopInv

LEMMA PopStep ==
    ASSUME PopInv, Pop!MailAssumption, Pop!NumbersAssumption, Windows, TakesFiles, [Pop!Next]_(Pop!vars) PROVE PopInv'
<1>1. CASE UNCHANGED Pop!vars
  BY <1>1 DEF Pop!vars, Pop!server, Pop!session, Pop!client, Pop!disk, PopInv, Pop!TypeOK, Pop!ServerTypeOK, Conversation, Current, Saved,
              KeptBefore, Pop!NothingLost, Pop!Kept
<1>2. CASE Pop!Main
  <2>1. CASE Pop!Bye
    BY <2>1, ExitStep DEF Pop!Bye
  <2> QED
    BY <1>2, <2>1, LogOnStep, AskStep, StatStep, AskForMailStep, RetrStep, OpenStep, SaveStep, DeleteStep, DeleStep,
       QuitStep DEF Pop!Main
<1> QED
  BY <1>1, <1>2, ConnectStep, TakeStep, ServerStep DEF Pop!Next
-----------------------------------------------------------------------------
(* One of the programs runs. *)

LEMMA OneRuns ==
    ASSUME [Dev(Next) \/ Tcp(Fw!Next) \/ Radio(Lr!Next) \/ Post(Pop!Next)]_mcvars
    PROVE  /\ running' = running
           /\ running = "devredir" => [Next]_vars
           /\ running = "repeater" => [Lr!Next]_(Lr!vars)
           /\ running = "popdump" => [Pop!Next]_(Pop!vars)
<1>1. CASE UNCHANGED mcvars
  BY <1>1 DEF mcvars, vars, lronly, poponly, Lr!vars, Lr!lines, Lr!wait, Lr!flags, Lr!threads,
              Pop!vars, Pop!server, Pop!session, Pop!client, Pop!disk
<1> QED
  BY <1>1 DEF Dev, Tcp, Radio, Post

(* What a client of devredir hears of the device has no gap, no repetition and no
   other order, with everything that is under way counted. *)
THEOREM DeviceIsUnbroken == MCSpec => []DeviceUnbroken
<1> DEFINE I == running = "devredir" => DevInv
<1>1. MCInit => I
  BY DevInit DEF MCInit
<1>2. I /\ [Dev(Next) \/ Tcp(Fw!Next) \/ Radio(Lr!Next) \/ Post(Pop!Next)]_mcvars => I'
  BY OneRuns, DevStep
<1>3. I => DeviceUnbroken
  BY DevUnbroken DEF DeviceUnbroken, DevInv
<1> QED
  BY <1>1, <1>2, <1>3, PTL DEF MCSpec

(* However the lines change and the threads interleave: a repeater at rest and one
   that has been stopped do not transmit, and no change of the squelch is lost. *)
THEOREM RepeaterRests == MCSpec => []OffAtRest
<1> DEFINE I == running = "repeater" => LrInv
<1>1. MCInit => I
  BY LrInit DEF MCInit
<1>2. I /\ [Dev(Next) \/ Tcp(Fw!Next) \/ Radio(Lr!Next) \/ Post(Pop!Next)]_mcvars => I'
  BY OneRuns, LrStep
<1>3. I => OffAtRest
  BY LrRests DEF OffAtRest
<1> QED
  BY <1>1, <1>2, <1>3, PTL DEF MCSpec

(* Built for Windows, run by a user who moves the files away between its runs,
   popdump loses no mail: what has come is on the server or in a file, all of it,
   whatever the server answers and whenever the connection breaks. *)
THEOREM NoMailIsLost == ASSUME Windows, TakesFiles PROVE MCSpec => []MailIsSomewhere
<1> DEFINE I == running = "popdump" => PopInv
<1>1. MCInit => I
  BY PopInitInv, PopMail, PopNumbers DEF MCInit
<1>2. I /\ [Dev(Next) \/ Tcp(Fw!Next) \/ Radio(Lr!Next) \/ Post(Pop!Next)]_mcvars => I'
  BY OneRuns, PopStep, PopMail, PopNumbers
<1>3. I => MailIsSomewhere
  BY DEF MailIsSomewhere, PopInv
<1> QED
  BY <1>1, <1>2, <1>3, PTL DEF MCSpec
==============================================================================
