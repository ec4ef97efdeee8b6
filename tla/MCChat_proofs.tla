---------------------------- MODULE MCChat_proofs ----------------------------
(***************************************************************************)
(* For any number of connections, names and buffered lines: nicknames in   *)
(* chatsrv differ, and both servers keep a chat room, the one in Java when *)
(* its clients come one after the other.                                   *)
(***************************************************************************)
EXTENDS MCChat, SequenceTheorems, TLAPS

-----------------------------------------------------------------------------
(* chatsrv. *)

(* The chain has every connection between its constructor and its destructor,
   once. *)
Chain ==
    /\ IsInjective(first)
    /\ \A c \in Client : c \in ToSet(first) <=> pc[c] \notin {"connect", "done"}

Served == Said \cup {"list", "users", "total", "unknown", "talk"}

(* A thread that serves its client knows the client's name. *)
Named ==
    \A c \in Client :
        /\ pc[c] \in {"connect", "name", "sorry", "done"} => name[c] = NoName
        /\ pc[c] \in Served => name[c] # NoName

(* In the critical section a thread has each connection of the chain to send to
   once at most. *)
Section ==
    cs # NoClient =>
        /\ pc[cs] \in Said \cup {"users"}
        /\ IsInjective(rest)
        /\ ToSet(rest) \subseteq ToSet(first)

IInv == TypeOK /\ Chain /\ Named /\ Section /\ NamesDiffer

-----------------------------------------------------------------------------
(* Sequences. *)

(* A new connection is put in front of the chain. *)
LEMMA ChainLonger ==
    ASSUME NEW s \in Seq(Client), IsInjective(s), NEW c \in Client, c \notin ToSet(s)
    PROVE  /\ <<c>> \o s \in Seq(Client)
           /\ IsInjective(<<c>> \o s)
           /\ ToSet(<<c>> \o s) = ToSet(s) \cup {c}
<1> DEFINE t == <<c>> \o s
<1>1. t \in Seq(Client) /\ Len(t) = Len(s) + 1
  OBVIOUS
<1>2. DOMAIN t = 1 .. Len(s) + 1 /\ DOMAIN s = 1 .. Len(s) /\ Len(s) \in Nat
  BY <1>1
<1>3. \A i \in DOMAIN t : t[i] = IF i = 1 THEN c ELSE s[i - 1]
  BY <1>2
<1>4. IsInjective(t)
  BY <1>2, <1>3 DEF IsInjective, ToSet
<1>5. ToSet(t) \subseteq ToSet(s) \cup {c}
  BY <1>2, <1>3 DEF ToSet
<1>6. c \in ToSet(t)
  BY <1>2, <1>3 DEF ToSet
<1>7. \A i \in DOMAIN s : s[i] \in ToSet(t)
  <2> TAKE i \in DOMAIN s
  <2>1. i + 1 \in DOMAIN t /\ t[i + 1] = s[i]
    BY <1>2, <1>3
  <2> QED
    BY <2>1 DEF ToSet
<1> QED
  BY <1>1, <1>4, <1>5, <1>6, <1>7 DEF ToSet

(* A connection is taken out of the chain. *)
LEMMA ChainShorter ==
    ASSUME NEW s \in Seq(Client), IsInjective(s), NEW k \in DOMAIN s
    PROVE  /\ RemoveAt(s, k) \in Seq(Client)
           /\ IsInjective(RemoveAt(s, k))
           /\ ToSet(RemoveAt(s, k)) = ToSet(s) \ {s[k]}
<1> DEFINE t == RemoveAt(s, k)
<1>1. k \in 1 .. Len(s) /\ Len(s) \in Nat /\ DOMAIN s = 1 .. Len(s)
  OBVIOUS
<1>2. /\ t \in Seq(Client) /\ DOMAIN t = 1 .. Len(s) - 1
      /\ \A i \in DOMAIN t : t[i] = IF i < k THEN s[i] ELSE s[i + 1]
  <2> DEFINE a == SubSeq(s, 1, k - 1)
             b == SubSeq(s, k + 1, Len(s))
  <2>1. /\ a \in Seq(Client) /\ Len(a) = k - 1
        /\ \A i \in 1 .. k - 1 : a[i] = s[i]
    BY <1>1
  <2>2. /\ b \in Seq(Client) /\ Len(b) = Len(s) - k
        /\ \A i \in 1 .. Len(s) - k : b[i] = s[i + k]
    BY <1>1
  <2>3. t = a \o b
    BY DEF RemoveAt
  <2> HIDE DEF a, b, t
  <2>4. /\ t \in Seq(Client) /\ Len(t) = Len(a) + Len(b)
        /\ \A i \in 1 .. Len(t) : t[i] = IF i <= Len(a) THEN a[i] ELSE b[i - Len(a)]
    BY <2>1, <2>2, <2>3, ConcatProperties
  <2>5. Len(t) = Len(s) - 1 /\ DOMAIN t = 1 .. Len(s) - 1
    BY <1>1, <2>1, <2>2, <2>4
  <2>6. ASSUME NEW i \in DOMAIN t
        PROVE  t[i] = IF i < k THEN s[i] ELSE s[i + 1]
    <3>1. CASE i < k
      BY <1>1, <2>1, <2>4, <2>5, <2>6, <3>1
    <3>2. CASE i >= k
      <4>1. t[i] = b[i - (k - 1)] /\ i - (k - 1) \in 1 .. Len(s) - k
        BY <1>1, <2>1, <2>4, <2>5, <2>6, <3>2
      <4> QED
        BY <1>1, <2>2, <2>5, <2>6, <3>2, <4>1
    <3> QED
      BY <1>1, <2>5, <2>6, <3>1, <3>2
  <2> QED
    BY <2>4, <2>5, <2>6
<1>3. IsInjective(t)
  BY <1>1, <1>2 DEF IsInjective
<1>4. ToSet(t) \subseteq ToSet(s) \ {s[k]}
  BY <1>1, <1>2 DEF IsInjective, ToSet
<1>5. ASSUME NEW i \in DOMAIN s, s[i] # s[k]
      PROVE  s[i] \in ToSet(t)
  <2>1. CASE i < k
    <3>1. i \in DOMAIN t /\ t[i] = s[i]
      BY <1>1, <1>2, <2>1
    <3> QED
      BY <3>1 DEF ToSet
  <2>2. CASE i > k
    <3>1. i - 1 \in DOMAIN t /\ t[i - 1] = s[i]
      BY <1>1, <1>2, <2>2
    <3> QED
      BY <3>1 DEF ToSet
  <2> QED
    BY <1>1, <1>5, <2>1, <2>2
<1> QED
  BY <1>2, <1>3, <1>4, <1>5 DEF ToSet

(* The first of those who are still to be sent to is done with. *)
LEMMA RestShorter ==
    ASSUME NEW s \in Seq(Client), s # <<>>, IsInjective(s)
    PROVE  /\ Head(s) \in Client /\ Head(s) \in ToSet(s)
           /\ Tail(s) \in Seq(Client)
           /\ IsInjective(Tail(s))
           /\ ToSet(Tail(s)) = ToSet(s) \ {Head(s)}
<1>1. /\ Tail(s) \in Seq(Client) /\ DOMAIN Tail(s) = 1 .. Len(s) - 1
      /\ DOMAIN s = 1 .. Len(s) /\ Len(s) \in Nat \ {0}
      /\ \A i \in DOMAIN Tail(s) : Tail(s)[i] = s[i + 1]
      /\ Head(s) = s[1] /\ s[1] \in Client
  OBVIOUS
<1>2. IsInjective(Tail(s))
  BY <1>1 DEF IsInjective
<1>3. ToSet(Tail(s)) \subseteq ToSet(s) \ {s[1]}
  BY <1>1 DEF IsInjective, ToSet
<1>4. ASSUME NEW i \in DOMAIN s, s[i] # s[1]
      PROVE  s[i] \in ToSet(Tail(s))
  <2>1. i - 1 \in DOMAIN Tail(s) /\ Tail(s)[i - 1] = s[i]
    BY <1>1, <1>4
  <2> QED
    BY <2>1 DEF ToSet
<1>5. Head(s) \in ToSet(s)
  BY <1>1 DEF ToSet
<1>6. ToSet(Tail(s)) = ToSet(s) \ {s[1]}
  BY <1>3, <1>4 DEF ToSet
<1> QED
  BY <1>1, <1>2, <1>5, <1>6

-----------------------------------------------------------------------------
(* Sockets. *)

Line == (Name \X Said) \cup {Reply}

LEMMA SendOK ==
    ASSUME SocketsOK(Line), NEW c \in Client, NEW line \in Line, Send(c, line)
    PROVE  SocketsOK(Line)'
<1>1. open' \in [Client -> BOOLEAN]
  BY DEF SocketsOK, Send
<1>2. CASE open[c]
  <2>1. inbox' = [inbox EXCEPT ![c] = Append(@, line)]
    BY <1>2 DEF Send, Put
  <2>2. /\ inbox[c] \in Seq(Line) /\ Append(inbox[c], line) \in Seq(Line)
        /\ Len(Append(inbox[c], line)) = Len(inbox[c]) + 1
    BY DEF SocketsOK
  <2>3. inbox' \in [Client -> Seq(Line)]
    BY <2>1, <2>2 DEF SocketsOK
  <2>4. Len(inbox[c]) + 1 <= Buffer
    BY <1>2, <2>2, BufferAssumption DEF Send
  <2>5. \A d \in Client : Len(inbox'[d]) <= Buffer
    BY <2>1, <2>2, <2>4 DEF SocketsOK
  <2> QED
    BY <1>1, <2>3, <2>5 DEF SocketsOK
<1>3. CASE ~ open[c]
  <2>1. inbox' = inbox
    BY <1>3 DEF Send, Put, SocketsOK
  <2> QED
    BY <1>1, <2>1 DEF SocketsOK
<1> QED
  BY <1>2, <1>3

LEMMA ClientReadsOK ==
    ASSUME SocketsOK(Line), NEW c \in Client, ClientReads(c)
    PROVE  SocketsOK(Line)'
<1>1. /\ inbox[c] \in Seq(Line) /\ Tail(inbox[c]) \in Seq(Line)
      /\ Len(Tail(inbox[c])) = Len(inbox[c]) - 1 /\ Len(inbox[c]) \in Nat
  BY DEF SocketsOK, ClientReads
<1>2. inbox' \in [Client -> Seq(Line)]
  BY <1>1 DEF SocketsOK, ClientReads
<1>3. \A d \in Client : Len(inbox'[d]) <= Buffer
  BY <1>1, BufferAssumption DEF SocketsOK, ClientReads
<1> QED
  BY <1>2, <1>3 DEF SocketsOK, ClientReads

LEMMA CloseOK ==
    ASSUME SocketsOK(Line), NEW c \in Client, Close(c)
    PROVE  SocketsOK(Line)'
<1>1. <<>> \in Seq(Line) /\ Len(<<>>) <= Buffer
  BY BufferAssumption
<1>2. open' \in [Client -> BOOLEAN] /\ inbox' \in [Client -> Seq(Line)]
  BY <1>1 DEF SocketsOK, Close
<1>3. \A d \in Client : Len(inbox'[d]) <= Buffer
  BY <1>1 DEF SocketsOK, Close
<1> QED
  BY <1>2, <1>3 DEF SocketsOK

-----------------------------------------------------------------------------
(* The invariant. *)

LEMMA InitIInv == Init => IInv
<1> SUFFICES ASSUME Init PROVE IInv
  OBVIOUS
<1>1. <<>> \in Seq(Client) /\ <<>> \in Seq(Line) /\ Len(<<>>) <= Buffer
  BY BufferAssumption
<1>2. SocketsOK(Line)
  BY <1>1 DEF Init, SocketsInit, SocketsOK
<1>3. TypeOK
  BY <1>1, <1>2 DEF Init, TypeOK, Line
<1>4. Chain /\ NamesDiffer
  BY DEF Init, Chain, NamesDiffer, IsInjective, ToSet
<1>5. Named /\ Section
  BY DEF Init, Named, Section, Served, Said
<1> QED
  BY <1>3, <1>4, <1>5 DEF IInv

(* What a step leaves alone and what it moves: a thread that only goes on. *)
LEMMA GoesOn ==
    ASSUME IInv, NEW c \in Client, NEW from, NEW to,
           Go(c, from, to), UNCHANGED <<first, name, cs, rest>>, SocketsOK(Line)',
           to \in Served \cup {"destroy"},
           from \in (Served \ {"users"}) \cup {"name", "sorry"},
           from \notin Said, from \in {"name", "sorry"} => to = "destroy"
    PROVE  IInv'
<1> USE DEF IInv, TypeOK
<1>1. pc[c] = from /\ pc' = [pc EXCEPT ![c] = to]
  BY DEF Go
<1>2. TypeOK'
  BY <1>1 DEF Served, Said, Line
<1>3. Chain'
  BY <1>1 DEF Chain, Served, Said
<1>4. Named'
  BY <1>1 DEF Named, Served, Said
<1>5. Section'
  <2>1. cs # NoClient => cs # c
    BY <1>1 DEF Section, Served, Said
  <2> QED
    BY <1>1, <2>1 DEF Section
<1>6. NamesDiffer'
  BY DEF NamesDiffer
<1> QED
  BY <1>2, <1>3, <1>4, <1>5, <1>6

LEMMA SocketsOnly ==
    ASSUME IInv, UNCHANGED <<pc, first, name, cs, rest>>, SocketsOK(Line)'
    PROVE  IInv'
  BY DEF IInv, TypeOK, Line, Chain, Named, Section, NamesDiffer

LEMMA ConnectIInv == ASSUME IInv, NEW c \in Client, Connect(c) PROVE IInv'
<1> USE DEF IInv, TypeOK, Connect, sockets
<1>1. pc[c] = "connect" /\ pc' = [pc EXCEPT ![c] = "name"] /\ cs = NoClient
  BY DEF Go
<1>2. c \notin ToSet(first) /\ IsInjective(first) /\ name[c] = NoName
  BY <1>1 DEF Chain, Named
<1>3. /\ first' \in Seq(Client) /\ IsInjective(first')
      /\ ToSet(first') = ToSet(first) \cup {c}
  BY <1>2, ChainLonger
<1>4. TypeOK'
  BY <1>1, <1>3 DEF SocketsOK, Line
<1>5. Chain'
  BY <1>1, <1>3 DEF Chain
<1>6. Named'
  BY <1>1, <1>2 DEF Named, Served, Said
<1>7. Section'
  BY <1>1 DEF Section
<1>8. NamesDiffer'
  BY <1>2, <1>3 DEF NamesDiffer
<1> QED
  BY <1>4, <1>5, <1>6, <1>7, <1>8

(* The search and the setting of the name are one step for other threads. *)
LEMMA ApplyNameIInv ==
    ASSUME IInv, NEW c \in Client, NEW n \in Name, ApplyName(c, n)
    PROVE  IInv'
<1> USE DEF IInv, TypeOK, sockets
<1>1. pc[c] = "name" /\ cs = NoClient /\ c \in ToSet(first)
  BY DEF ApplyName, Go, Chain
<1>2. UNCHANGED <<open, inbox, first, cs, rest>> /\ SocketsOK(Line)'
  BY DEF ApplyName, SocketsOK, Line
<1>3. Section'
  BY <1>1, <1>2 DEF Section
<1>4. CASE InUse(n)
  <2>1. pc' = [pc EXCEPT ![c] = "sorry"] /\ name' = name
    BY <1>4 DEF ApplyName, Go
  <2>2. TypeOK'
    BY <1>2, <2>1 DEF Line
  <2>3. Chain'
    BY <1>1, <1>2, <2>1 DEF Chain
  <2>4. Named'
    BY <1>1, <2>1 DEF Named, Served, Said
  <2>5. NamesDiffer'
    BY <1>2, <2>1 DEF NamesDiffer
  <2> QED
    BY <1>3, <2>2, <2>3, <2>4, <2>5
<1>5. CASE ~ InUse(n)
  <2>1. pc' = [pc EXCEPT ![c] = "joined"] /\ name' = [name EXCEPT ![c] = n]
    BY <1>5 DEF ApplyName, Go
  <2>2. TypeOK'
    BY <1>2, <2>1 DEF Line, Said
  <2>3. Chain'
    BY <1>1, <1>2, <2>1 DEF Chain
  <2>4. Named'
    BY <1>1, <2>1, NamesAssumption DEF Named, Served, Said
  <2>5. \A d \in ToSet(first) : d \in Client /\ name[d] # n
    BY <1>5 DEF InUse, ToSet
  <2>6. NamesDiffer'
    BY <1>2, <2>1, <2>5 DEF NamesDiffer
  <2> QED
    BY <1>3, <2>2, <2>3, <2>4, <2>6
<1> QED
  BY <1>4, <1>5

LEMMA AnswerIInv ==
    ASSUME IInv, NEW c \in Client, NEW from, NEW to, Answer(c, from, to),
           <<from, to>> \in {<<"sorry", "destroy">>, <<"list", "users">>,
                            <<"total", "talk">>, <<"unknown", "talk">>}
    PROVE  IInv'
<1>1. Reply \in Line
  BY DEF Line
<1>2. SocketsOK(Line)'
  BY <1>1, SendOK DEF Answer, IInv, TypeOK, Line
<1>3. Go(c, from, to) /\ UNCHANGED <<first, name, cs, rest>>
  BY DEF Answer
<1> QED
  BY <1>2, <1>3, GoesOn DEF Served, Said

LEMMA BeginIInv == ASSUME IInv, NEW c \in Client, Begin(c) PROVE IInv'
<1> USE DEF IInv, TypeOK, Begin, sockets
<1>1. TypeOK'
  BY DEF SocketsOK, Line
<1>2. Section'
  BY DEF Section, Chain
<1>3. Chain' /\ Named' /\ NamesDiffer'
  BY DEF Chain, Named, NamesDiffer
<1> QED
  BY <1>1, <1>2, <1>3

LEMMA SendMsgIInv == ASSUME IInv, NEW c \in Client, SendMsg(c) PROVE IInv'
<1> USE DEF IInv, TypeOK
<1>1. pc[c] \in Said /\ cs = c /\ rest # <<>> /\ cs # NoClient
  BY NamesAssumption DEF SendMsg
<1>2. <<name[c], pc[c]>> \in Line
  BY <1>1 DEF Line, Named, Served
<1>3. IsInjective(rest) /\ ToSet(rest) \subseteq ToSet(first)
  BY <1>1 DEF Section
<1>4. /\ Head(rest) \in Client /\ Tail(rest) \in Seq(Client)
      /\ IsInjective(Tail(rest)) /\ ToSet(Tail(rest)) \subseteq ToSet(rest)
  BY <1>1, <1>3, RestShorter
<1>5. SocketsOK(Line)'
  BY <1>2, <1>4, SendOK DEF SendMsg, Line
<1>6. TypeOK'
  BY <1>4, <1>5 DEF SendMsg, Line
<1>7. Section'
  BY <1>1, <1>3, <1>4 DEF SendMsg, Section
<1>8. Chain' /\ Named' /\ NamesDiffer'
  BY DEF SendMsg, Chain, Named, NamesDiffer
<1> QED
  BY <1>6, <1>7, <1>8

LEMMA EndIInv == ASSUME IInv, NEW c \in Client, End(c) PROVE IInv'
<1> USE DEF IInv, TypeOK, sockets
<1>1. PICK to \in {"talk", "destroy"} :
          pc[c] \in Said /\ pc' = [pc EXCEPT ![c] = to]
  BY DEF End, Go, Said
<1>2. cs' = NoClient /\ UNCHANGED <<open, inbox, first, name, rest>>
  BY DEF End
<1>3. TypeOK'
  BY <1>1, <1>2 DEF SocketsOK, Line
<1>4. Chain'
  BY <1>1, <1>2 DEF Chain, Said
<1>5. Named'
  BY <1>1, <1>2 DEF Named, Served, Said
<1>6. Section' /\ NamesDiffer'
  BY <1>2 DEF Section, NamesDiffer
<1> QED
  BY <1>3, <1>4, <1>5, <1>6

LEMMA ListUsersIInv == ASSUME IInv, NEW c \in Client, ListUsers(c) PROVE IInv'
<1> USE DEF IInv, TypeOK, sockets
<1>1. pc[c] = "users" /\ UNCHANGED <<first, name>>
  BY DEF ListUsers
<1>2. CASE cs = NoClient /\ cs' = c /\ rest' = first /\ UNCHANGED <<sockets, pc>>
  <2>1. TypeOK'
    BY <1>1, <1>2 DEF SocketsOK, Line
  <2>2. Section'
    BY <1>1, <1>2 DEF Section, Chain
  <2>3. Chain' /\ Named' /\ NamesDiffer'
    BY <1>1, <1>2 DEF Chain, Named, NamesDiffer
  <2> QED
    BY <2>1, <2>2, <2>3
<1>3. CASE cs = c /\ rest # <<>> /\ Send(c, Reply) /\ rest' = Tail(rest) /\ UNCHANGED <<cs, pc>>
  <2>1. Reply \in Line /\ cs # NoClient
    BY <1>3, NamesAssumption DEF Line
  <2>2. SocketsOK(Line)'
    BY <1>3, <2>1, SendOK DEF Line
  <2>3. IsInjective(rest) /\ ToSet(rest) \subseteq ToSet(first)
    BY <2>1 DEF Section
  <2>4. /\ Tail(rest) \in Seq(Client)
        /\ IsInjective(Tail(rest)) /\ ToSet(Tail(rest)) \subseteq ToSet(rest)
    BY <1>3, <2>3, RestShorter
  <2>5. TypeOK'
    BY <1>1, <1>3, <2>2, <2>4 DEF Line
  <2>6. Section'
    BY <1>1, <1>3, <2>1, <2>3, <2>4 DEF Section
  <2>7. Chain' /\ Named' /\ NamesDiffer'
    BY <1>1, <1>3 DEF Chain, Named, NamesDiffer
  <2> QED
    BY <2>5, <2>6, <2>7
<1>4. CASE cs = c /\ rest = <<>> /\ Go(c, "users", "total") /\ cs' = NoClient
           /\ UNCHANGED <<sockets, rest>>
  <2>1. pc' = [pc EXCEPT ![c] = "total"]
    BY <1>4 DEF Go
  <2>2. TypeOK'
    BY <1>1, <1>4, <2>1 DEF SocketsOK, Line
  <2>3. Chain'
    BY <1>1, <2>1 DEF Chain
  <2>4. Named'
    BY <1>1, <2>1 DEF Named, Served, Said
  <2>5. Section' /\ NamesDiffer'
    BY <1>1, <1>4 DEF Section, NamesDiffer
  <2> QED
    BY <2>2, <2>3, <2>4, <2>5
<1> QED
  BY <1>2, <1>3, <1>4 DEF ListUsers

LEMMA DestroyIInv == ASSUME IInv, NEW c \in Client, Destroy(c) PROVE IInv'
<1> USE DEF IInv, TypeOK
<1>1. /\ pc[c] = "destroy" /\ pc' = [pc EXCEPT ![c] = "done"]
      /\ cs = NoClient /\ name' = [name EXCEPT ![c] = NoName]
      /\ Close(c) /\ UNCHANGED <<cs, rest>>
  BY DEF Destroy, Go
<1>2. PICK i \in DOMAIN first : first[i] = c /\ first' = RemoveAt(first, i)
  BY DEF Destroy
<1>3. /\ first' \in Seq(Client) /\ IsInjective(first')
      /\ ToSet(first') = ToSet(first) \ {c}
  BY <1>2, ChainShorter DEF Chain
<1>4. SocketsOK(Line)'
  BY <1>1, CloseOK DEF Line
<1>5. TypeOK'
  BY <1>1, <1>3, <1>4 DEF Line
<1>6. Chain'
  BY <1>1, <1>3 DEF Chain
<1>7. Named'
  BY <1>1 DEF Named, Served, Said
<1>8. Section'
  BY <1>1 DEF Section
<1>9. NamesDiffer'
  <2>1. \A d \in ToSet(first') : d \in Client /\ d \in ToSet(first) /\ name'[d] = name[d]
    BY <1>1, <1>3 DEF ToSet
  <2> QED
    BY <2>1 DEF NamesDiffer
<1> QED
  BY <1>5, <1>6, <1>7, <1>8, <1>9

LEMMA ChatServerIInv == ASSUME IInv, NEW c \in Client, ChatServer(c) PROVE IInv'
<1>1. CASE Connect(c)
  BY <1>1, ConnectIInv
<1>2. CASE NoLine(c)
  <2>1. SocketsOK(Line)'
    BY <1>2 DEF NoLine, sockets, SocketsOK, IInv, TypeOK, Line
  <2> QED
    BY <1>2, <2>1, GoesOn DEF NoLine, Said, Served
<1>3. CASE \E n \in Name : ApplyName(c, n)
  BY <1>3, ApplyNameIInv
<1>4. CASE Answer(c, "sorry", "destroy")
  BY <1>4, AnswerIInv
<1>5. CASE BroadcastMsg(c)
  BY <1>5, BeginIInv, SendMsgIInv, EndIInv DEF BroadcastMsg
<1>6. CASE LineRecv(c)
  <2>1. SocketsOK(Line)'
    BY <1>6 DEF LineRecv, sockets, SocketsOK, IInv, TypeOK, Line
  <2>2. PICK to \in Typed[c] \cup {"left"} : Go(c, "talk", to)
    BY <1>6 DEF LineRecv
  <2>3. to \in Served
    BY <2>2, TypedAssumption DEF Served, Said
  <2> QED
    BY <1>6, <2>1, <2>2, <2>3, GoesOn DEF LineRecv, Said, Served
<1>7. CASE ParseCommand(c)
  BY <1>7, ListUsersIInv, AnswerIInv DEF ParseCommand
<1>8. CASE Destroy(c)
  BY <1>8, DestroyIInv
<1> QED
  BY <1>1, <1>2, <1>3, <1>4, <1>5, <1>6, <1>7, <1>8 DEF ChatServer

LEMMA StepIInv == IInv /\ [Next]_vars => IInv'
<1> SUFFICES ASSUME IInv, [Next]_vars PROVE IInv'
  OBVIOUS
<1>1. CASE UNCHANGED vars
  <2>1. SocketsOK(Line)'
    BY <1>1 DEF vars, sockets, SocketsOK, IInv, TypeOK, Line
  <2> QED
    BY <1>1, <2>1, SocketsOnly DEF vars
<1>2. ASSUME NEW c \in Client, ChatServer(c) \/ Reads(c) \/ GoesAway(c)
      PROVE  IInv'
  <2>1. CASE ChatServer(c)
    BY <2>1, ChatServerIInv
  <2>2. CASE Reads(c)
    BY <2>2, ClientReadsOK, SocketsOnly DEF Reads, IInv, TypeOK, Line
  <2>3. CASE GoesAway(c)
    BY <2>3, CloseOK, SocketsOnly DEF GoesAway, IInv, TypeOK, Line
  <2> QED
    BY <1>2, <2>1, <2>2, <2>3
<1> QED
  BY <1>1, <1>2 DEF Next

-----------------------------------------------------------------------------
(* chatsrv keeps a chat room. *)

Nobody == [c \in Client |-> <<>>]

LEMMA NothingPending == ASSUME cs = NoClient PROVE Pending = Nobody
  BY DEF Pending, Nobody

LEMMA InitRoom == Init => Room!Init
<1> SUFFICES ASSUME Init PROVE Room!Init
  OBVIOUS
<1>1. Pending = Nobody
  BY NothingPending DEF Init
<1>2. Inside = {}
  BY DEF Init, Inside, ToSet
<1> QED
  BY <1>1, <1>2 DEF Init, SocketsInit, Room!Init, Nobody

(* Steps of which the room notices nothing. *)
LEMMA Unnoticed ==
    ASSUME UNCHANGED <<sockets, first, name>>, Pending' = Pending
    PROVE  UNCHANGED Room!vars
  BY DEF Room!vars, Inside, sockets

LEMMA GoesOnUnnoticed ==
    ASSUME IInv, NEW c \in Client, NEW from, NEW to, Go(c, from, to),
           UNCHANGED <<sockets, first, name, cs, rest>>, from \notin Said \cup {"users"}
    PROVE  UNCHANGED Room!vars
<1>1. cs = NoClient \/ (cs # c /\ cs \in Client)
  BY DEF IInv, TypeOK, Section, Go
<1>2. Pending' = Pending
  BY <1>1 DEF Pending, Go, IInv, TypeOK
<1> QED
  BY <1>2, Unnoticed

LEMMA ConnectRoom ==
    ASSUME IInv, NEW c \in Client, Connect(c)
    PROVE  Room!Enter(c, NoName)
<1>1. cs = NoClient /\ cs' = NoClient /\ pc[c] = "connect"
  BY DEF Connect, Go
<1>2. c \notin ToSet(first) /\ IsInjective(first) /\ name[c] = NoName /\ first \in Seq(Client)
  BY <1>1 DEF IInv, TypeOK, Chain, Named
<1>3. ToSet(first') = ToSet(first) \cup {c}
  BY <1>2, ChainLonger DEF Connect
<1>4. Pending = Nobody /\ Pending' = Nobody
  BY <1>1 DEF Pending, Nobody
<1>5. name' = [name EXCEPT ![c] = NoName]
  BY <1>2 DEF Connect, IInv, TypeOK
<1> QED
  BY <1>2, <1>3, <1>4, <1>5 DEF Room!Enter, Inside, Connect, sockets

LEMMA ApplyNameRoom ==
    ASSUME IInv, NEW c \in Client, NEW n \in Name, ApplyName(c, n)
    PROVE  Room!TakeName(c, n) \/ UNCHANGED Room!vars
<1>1. /\ cs = NoClient /\ cs' = NoClient /\ pc[c] = "name"
      /\ UNCHANGED <<open, inbox, first>>
  BY DEF ApplyName, Go, sockets
<1>2. Pending = Nobody /\ Pending' = Nobody
  BY <1>1 DEF Pending, Nobody
<1>3. CASE InUse(n)
  <2>1. UNCHANGED name
    BY <1>3 DEF ApplyName
  <2> QED
    BY <1>1, <1>2, <2>1 DEF Room!vars, Inside
<1>4. CASE ~ InUse(n)
  <2>1. name' = [name EXCEPT ![c] = n]
    BY <1>4 DEF ApplyName
  <2>2. c \in Inside /\ name[c] = NoName
    BY <1>1 DEF IInv, Chain, Named, Inside
  <2>3. Room!Free(n)
    BY <1>4 DEF Room!Free, InUse, Inside
  <2> QED
    BY <1>1, <1>2, <2>1, <2>2, <2>3 DEF Room!TakeName, Inside
<1> QED
  BY <1>3, <1>4

LEMMA AnswerRoom ==
    ASSUME NEW c \in Client, Send(c, Reply), UNCHANGED <<first, name>>, Pending' = Pending
    PROVE  Room!Answer(c)
  BY DEF Room!Answer, Room!Gets, Send, Put, Inside

LEMMA BeginRoom ==
    ASSUME IInv, NEW c \in Client, Begin(c)
    PROVE  Room!Say(c, pc[c])
<1>1. /\ pc[c] \in Said /\ pc' = pc /\ cs = NoClient /\ cs' = c /\ rest' = first
      /\ UNCHANGED <<open, inbox, first, name>>
  BY DEF Begin, sockets
<1>2. c \in Inside /\ name[c] # NoName
  BY <1>1 DEF IInv, Chain, Named, Inside, Served, Said
<1>3. Pending = Nobody
  BY <1>1, NothingPending
<1>4. Pending' = [d \in Client |->
          IF d \in Inside THEN << <<name[c], pc[c]>> >> ELSE <<>>]
  BY <1>1, NamesAssumption DEF Pending, Inside
<1>5. \A d \in Client : Append(Pending[d], <<name[c], pc[c]>>) = << <<name[c], pc[c]>> >>
  BY <1>3 DEF Nobody
<1>6. Pending' = [d \in Client |->
          IF d \in Inside THEN Append(Pending[d], <<name[c], pc[c]>>) ELSE Pending[d]]
  BY <1>3, <1>4, <1>5 DEF Nobody
<1> QED
  BY <1>1, <1>2, <1>6 DEF Room!Say, Inside

LEMMA SendMsgRoom ==
    ASSUME IInv, NEW c \in Client, SendMsg(c)
    PROVE  Head(rest) \in Client /\ Room!Hear(Head(rest))
<1> DEFINE line == <<name[c], pc[c]>>
           d == Head(rest)
<1>1. /\ pc[c] \in Said /\ pc' = pc /\ cs = c /\ cs' = c /\ c # NoClient
      /\ rest # <<>> /\ rest' = Tail(rest) /\ UNCHANGED <<open, first, name>>
  BY NamesAssumption DEF SendMsg, Send
<1>2. IsInjective(rest) /\ rest \in Seq(Client)
  BY <1>1 DEF IInv, TypeOK, Section
<1>3. d \in Client /\ d \in ToSet(rest) /\ ToSet(Tail(rest)) = ToSet(rest) \ {d}
  BY <1>1, <1>2, RestShorter
<1> HIDE DEF d
<1>4. Pending = [e \in Client |-> IF e \in ToSet(rest) THEN <<line>> ELSE <<>>]
  BY <1>1 DEF Pending
<1>5. Pending' = [e \in Client |-> IF e \in ToSet(rest) \ {d} THEN <<line>> ELSE <<>>]
  BY <1>1, <1>3 DEF Pending
<1> HIDE DEF line
<1>6. Pending[d] = <<line>> /\ Pending[d] # <<>> /\ Head(Pending[d]) = line /\ Tail(Pending[d]) = <<>>
  BY <1>3, <1>4
<1>7. Pending' = [Pending EXCEPT ![d] = Tail(@)]
  BY <1>3, <1>4, <1>5, <1>6
<1>8. inbox' = [inbox EXCEPT ![d] = IF open[d] THEN Append(@, line) ELSE @]
  BY DEF SendMsg, Send, Put, d, line
<1>9. Room!Hear(d)
  BY <1>1, <1>6, <1>7, <1>8 DEF Room!Hear, Room!Gets, Inside
<1> QED
  BY <1>3, <1>9 DEF d

LEMMA EndRoom ==
    ASSUME IInv, NEW c \in Client, End(c)
    PROVE  UNCHANGED Room!vars
<1>1. rest = <<>> /\ cs' = NoClient /\ UNCHANGED <<sockets, first, name>>
  BY DEF End
<1>2. ToSet(rest) = {}
  BY <1>1 DEF ToSet
<1>3. Pending = Nobody /\ Pending' = Nobody
  BY <1>1, <1>2 DEF Pending, Nobody
<1> QED
  BY <1>1, <1>3, Unnoticed

LEMMA ListUsersRoom ==
    ASSUME IInv, NEW c \in Client, ListUsers(c)
    PROVE  Room!Answer(c) \/ UNCHANGED Room!vars
<1>1. /\ pc[c] = "users" /\ UNCHANGED <<first, name>> /\ cs \in {NoClient, c}
      /\ cs' \in {NoClient, c} /\ c # NoClient
  BY NamesAssumption DEF ListUsers
<1>2. pc'[c] \in {"users", "total"}
  BY <1>1 DEF ListUsers, Go, IInv, TypeOK
<1>3. Pending = Nobody /\ Pending' = Nobody
  BY <1>1, <1>2 DEF Pending, Nobody, Said
<1>4. CASE Send(c, Reply)
  BY <1>1, <1>3, <1>4, AnswerRoom
<1>5. CASE UNCHANGED sockets
  BY <1>1, <1>3, <1>5, Unnoticed
<1> QED
  BY <1>4, <1>5 DEF ListUsers

LEMMA DestroyRoom ==
    ASSUME IInv, NEW c \in Client, Destroy(c)
    PROVE  Room!Leave(c)
<1>1. /\ pc[c] = "destroy" /\ cs = NoClient /\ cs' = NoClient
      /\ name' = [name EXCEPT ![c] = NoName] /\ Close(c)
  BY DEF Destroy, Go
<1>2. PICK i \in DOMAIN first : first[i] = c /\ first' = RemoveAt(first, i)
  BY DEF Destroy
<1>3. ToSet(first') = ToSet(first) \ {c}
  BY <1>2, ChainShorter DEF IInv, TypeOK, Chain
<1>4. Pending = Nobody /\ Pending' = Nobody /\ Pending[c] = <<>>
  BY <1>1 DEF Pending, Nobody
<1>5. c \in Inside
  BY <1>1 DEF IInv, Chain, Inside
<1> QED
  BY <1>1, <1>3, <1>4, <1>5 DEF Room!Leave, Inside, Close

LEMMA StepRoom == IInv /\ [Next]_vars => [Room!Next]_(Room!vars)
<1> SUFFICES ASSUME IInv, [Next]_vars PROVE Room!Next \/ UNCHANGED Room!vars
  OBVIOUS
<1>1. CASE UNCHANGED vars
  BY <1>1 DEF vars, sockets, Room!vars, Inside, Pending
<1>2. ASSUME NEW c \in Client, ChatServer(c)
      PROVE  Room!Next \/ UNCHANGED Room!vars
  <2>1. CASE Connect(c)
    BY <2>1, ConnectRoom DEF Room!Next
  <2>2. CASE NoLine(c)
    BY <2>2, GoesOnUnnoticed DEF NoLine, Said
  <2>3. CASE \E n \in Name : ApplyName(c, n)
    BY <2>3, ApplyNameRoom DEF Room!Next
  <2>4. ASSUME NEW from \in {"sorry", "list", "total", "unknown"}, NEW to, Answer(c, from, to)
        PROVE  Room!Next
    <3>1. cs = NoClient \/ (cs # c /\ cs \in Client)
      BY <2>4 DEF IInv, TypeOK, Section, Answer, Go, Said
    <3>2. Pending' = Pending
      BY <2>4, <3>1 DEF Pending, Answer, Go, IInv, TypeOK
    <3> QED
      BY <2>4, <3>2, AnswerRoom DEF Answer, Room!Next
  <2>5. CASE BroadcastMsg(c)
    BY <2>5, BeginRoom, SendMsgRoom, EndRoom DEF BroadcastMsg, Begin, Room!Next
  <2>6. CASE LineRecv(c)
    BY <2>6, GoesOnUnnoticed DEF LineRecv, Said
  <2>7. CASE ListUsers(c)
    BY <2>7, ListUsersRoom DEF Room!Next
  <2>8. CASE Destroy(c)
    BY <2>8, DestroyRoom DEF Room!Next
  <2> QED
    BY <1>2, <2>1, <2>2, <2>3, <2>4, <2>5, <2>6, <2>7, <2>8 DEF ChatServer, ParseCommand
<1>3. ASSUME NEW c \in Client, Reads(c) \/ GoesAway(c)
      PROVE  Room!Next
  <2>1. Pending' = Pending /\ UNCHANGED <<first, name>>
    BY <1>3 DEF Reads, GoesAway, Pending
  <2>2. CASE Reads(c)
    BY <2>1, <2>2 DEF Reads, ClientReads, Room!Read, Room!Next, Inside
  <2>3. CASE GoesAway(c)
    BY <2>1, <2>3 DEF GoesAway, Close, Room!HangUp, Room!Next, Inside
  <2> QED
    BY <1>3, <2>2, <2>3
<1> QED
  BY <1>1, <1>2, <1>3 DEF Next

-----------------------------------------------------------------------------
(* The server in Java. *)

(* A connection that is in the table, and one whose name is being settled. *)
InTable == Said \cup {"talk", "list", "elements", "users", "unknown", "close", "remove"}
Joining == Lab4!Constructor \cup {"put"}

(* The table has the connections between PutName and RemoveName. *)
Entries ==
    /\ \A n \in Name : table[n] # NoClient => name[table[n]] = n /\ pc[table[n]] \in InTable
    /\ \A c \in Client :
        /\ pc[c] \in InTable \cup {"put", "checking", "sorry"} => name[c] \in Name
        /\ pc[c] \in InTable => table[name[c]] = c
        /\ pc[c] = "put" => table[name[c]] = NoClient

(* Clients come one after the other. *)
InTurn ==
    \A d \in Client : \A c \in Follows[d] :
        pc[d] # "away" => pc[c] \notin Lab4!Early

(* The thread that broadcasts. *)
Monitor ==
    IF cs = NoClient
    THEN rest = {}
    ELSE pc[cs] \in Said /\ rest \subseteq Lab4!Inside

(* The socket of a connection that is about to be removed is closed. *)
Removed == \A c \in Client : pc[c] = "remove" => ~ open[c] /\ inbox[c] = <<>>

(* Lab4!TypeOK, in the terms used here. *)
JTypes ==
    /\ SocketsOK(Line)
    /\ listening \in BOOLEAN
    /\ pc \in [Client -> Lab4!Early \cup InTable \cup {"done"}]
    /\ name \in [Client -> Name \cup {NoName}]
    /\ table \in [Name -> Client \cup {NoClient}]
    /\ cs \in Client \cup {NoClient}
    /\ rest \subseteq Client

JInv == JTypes /\ Entries /\ InTurn /\ Monitor /\ Removed

LEMMA SameSets ==
    /\ Lab4!Said = Said
    /\ Lab4!sockets = sockets
    /\ \A S : Lab4!SocketsOK(S) <=> SocketsOK(S)
    /\ \A c, line : Lab4!Send(c, line) <=> Send(c, line)
    /\ \A c : Lab4!Close(c) <=> Close(c)
    /\ \A c : Lab4!ClientReads(c) <=> ClientReads(c)
BY DEF Lab4!Said, Said, Lab4!sockets, sockets, Lab4!SocketsOK, SocketsOK, Lab4!Send, Send, Lab4!Put, Put,
       Lab4!Close, Close, Lab4!ClientReads, ClientReads

(* Two connections are not settling their names at once. *)
LEMMA OneJoins ==
    ASSUME JInv, NEW c \in Client, NEW d \in Client, c # d, pc[c] \in Joining
    PROVE  pc[d] \notin Joining
BY FollowsAssumption DEF JInv, InTurn, Joining, Lab4!Early, Lab4!Constructor

LEMMA InsideIs ==
    ASSUME JInv, NEW c \in Client
    PROVE  c \in Lab4!Inside <=> pc[c] \in InTable
BY NamesAssumption DEF JInv, Entries, Lab4!Inside

LEMMA InitJInv == Lab4!Init => JInv
<1> SUFFICES ASSUME Lab4!Init PROVE JInv
  OBVIOUS
<1>1. <<>> \in Seq(Line) /\ Len(<<>>) <= Buffer
  BY BufferAssumption
<1>2. SocketsOK(Line)
  BY <1>1 DEF Lab4!Init, Lab4!SocketsInit, SocketsOK
<1>3. JTypes
  BY <1>2 DEF Lab4!Init, JTypes, Lab4!Early
<1>4. Entries /\ InTurn /\ Monitor /\ Removed
  BY FollowsAssumption DEF Lab4!Init, Entries, InTurn, Monitor, Removed, InTable, Said, Lab4!Early
<1> QED
  BY <1>3, <1>4 DEF JInv, JTypes

LEMMA PlacesDiffer ==
    /\ "done" \notin InTable \cup Lab4!Early
    /\ InTable \cap Lab4!Early = {}
    /\ Joining \subseteq Lab4!Early /\ "away" \in Lab4!Early \ Joining
    /\ {"naming", "checking", "sorry", "put"} = Joining
    /\ Said \subseteq InTable
    /\ Lab4!Early = Joining \cup {"away"}
BY DEF InTable, Lab4!Early, Lab4!Constructor, Joining, Said

(* Only sockets change. *)
LEMMA JSocketsOnly ==
    ASSUME JInv, UNCHANGED <<listening, pc, name, table, cs, rest>>, SocketsOK(Line)', Removed'
    PROVE  JInv'
<1>1. JTypes'
  BY DEF JTypes, JInv, Line
<1>2. Entries' /\ InTurn' /\ Monitor'
  BY DEF JInv, JTypes, Entries, InTurn, Monitor, Lab4!Inside
<1> QED
  BY <1>1, <1>2 DEF JInv, JTypes

(* A connection that stays in the table goes on, outside a broadcast. *)
LEMMA JGoesOn ==
    ASSUME JInv, NEW c \in Client, NEW from \in InTable, NEW to \in InTable,
           Lab4!Go(c, from, to), UNCHANGED <<listening, name, table, cs, rest>>,
           SocketsOK(Line)', cs # c, Removed'
    PROVE  JInv'
<1>1. pc[c] = from /\ pc' = [pc EXCEPT ![c] = to]
  BY DEF Lab4!Go
<1>2. JTypes'
  BY <1>1 DEF JTypes, JInv, Line
<1>3. Entries'
  BY <1>1, PlacesDiffer DEF JInv, JTypes, Entries
<1>4. InTurn'
  BY <1>1, PlacesDiffer, FollowsAssumption DEF JInv, JTypes, InTurn
<1>5. Monitor'
  BY <1>1 DEF JTypes, JInv, Monitor, Lab4!Inside
<1> QED
  BY <1>2, <1>3, <1>4, <1>5 DEF JInv, JTypes

LEMMA JAccept == ASSUME JInv, NEW c \in Client, Lab4!Accept(c) PROVE JInv'
<1>1. /\ pc[c] = "away" /\ pc' = [pc EXCEPT ![c] = "naming"]
      /\ \A d \in Follows[c] : pc[d] \notin Lab4!Early
      /\ UNCHANGED <<open, inbox, listening, name, table, cs, rest>>
  BY DEF Lab4!Accept, Lab4!Go, Lab4!sockets
<1>2. JTypes'
  BY <1>1, PlacesDiffer DEF JInv, JTypes, Line, SocketsOK
<1>3. Entries'
  BY <1>1, PlacesDiffer DEF JInv, JTypes, Entries
<1>4. InTurn'
  BY <1>1, PlacesDiffer, FollowsAssumption DEF JInv, JTypes, InTurn
<1>5. Monitor' /\ Removed'
  BY <1>1, PlacesDiffer DEF JInv, JTypes, Monitor, Removed, Lab4!Inside
<1> QED
  BY <1>2, <1>3, <1>4, <1>5 DEF JInv, JTypes

LEMMA JReadName == ASSUME JInv, NEW c \in Client, NEW n \in Name, Lab4!ReadName(c, n) PROVE JInv'
<1>1. /\ pc[c] = "naming" /\ pc' = [pc EXCEPT ![c] = "checking"]
      /\ name' = [name EXCEPT ![c] = n]
      /\ UNCHANGED <<open, inbox, listening, table, cs, rest>>
  BY DEF Lab4!ReadName, Lab4!Go, Lab4!sockets
<1>2. JTypes'
  BY <1>1, PlacesDiffer DEF JInv, JTypes, Line, SocketsOK
<1>3. Entries'
  BY <1>1, PlacesDiffer DEF JInv, JTypes, Entries
<1>4. InTurn'
  BY <1>1, PlacesDiffer, FollowsAssumption DEF JInv, JTypes, InTurn
<1>5. Monitor' /\ Removed'
  BY <1>1, PlacesDiffer DEF JInv, JTypes, Monitor, Removed, Lab4!Inside
<1> QED
  BY <1>2, <1>3, <1>4, <1>5 DEF JInv, JTypes

LEMMA JCheckName == ASSUME JInv, NEW c \in Client, Lab4!CheckName(c) PROVE JInv'
<1>1. PICK to \in {"put", "sorry"} :
        /\ pc[c] = "checking" /\ pc' = [pc EXCEPT ![c] = to]
        /\ to = "put" => table[name[c]] = NoClient
        /\ UNCHANGED <<open, inbox, listening, name, table, cs, rest>>
  BY DEF Lab4!CheckName, Lab4!Go, Lab4!sockets
<1>2. JTypes'
  BY <1>1, PlacesDiffer DEF JInv, JTypes, Line, SocketsOK
<1>3. Entries'
  BY <1>1, PlacesDiffer DEF JInv, JTypes, Entries
<1>4. InTurn'
  BY <1>1, PlacesDiffer, FollowsAssumption DEF JInv, JTypes, InTurn
<1>5. Monitor' /\ Removed'
  BY <1>1, PlacesDiffer DEF JInv, JTypes, Monitor, Removed, Lab4!Inside
<1> QED
  BY <1>2, <1>3, <1>4, <1>5 DEF JInv, JTypes

(* A connection is closed before it is in the table. *)
LEMMA JTurnedAway ==
    ASSUME JInv, NEW c \in Client, NEW from \in {"naming", "sorry"},
           Lab4!Go(c, from, "done"), Close(c), listening' \in BOOLEAN,
           UNCHANGED <<name, table, cs, rest>>
    PROVE  JInv'
<1>1. pc[c] = from /\ pc' = [pc EXCEPT ![c] = "done"]
  BY DEF Lab4!Go
<1>2. JTypes'
  <2>1. SocketsOK(Line)'
    BY CloseOK DEF JTypes, JInv
  <2> QED
    BY <1>1, <2>1, PlacesDiffer DEF JInv, JTypes, Line
<1>3. Entries'
  BY <1>1, PlacesDiffer DEF JInv, JTypes, Entries
<1>4. InTurn'
  BY <1>1, PlacesDiffer, FollowsAssumption DEF JInv, JTypes, InTurn
<1>5. Monitor'
  BY <1>1, PlacesDiffer DEF JInv, JTypes, Monitor, Lab4!Inside
<1>6. Removed'
  BY <1>1, PlacesDiffer DEF JInv, JTypes, Removed, Close, SocketsOK
<1> QED
  BY <1>2, <1>3, <1>4, <1>5, <1>6 DEF JInv, JTypes

LEMMA JPutName == ASSUME JInv, NEW c \in Client, Lab4!PutName(c) PROVE JInv'
<1>1. /\ pc[c] = "put" /\ pc' = [pc EXCEPT ![c] = "joined"] /\ cs = NoClient
      /\ table' = [table EXCEPT ![name[c]] = c]
      /\ UNCHANGED <<open, inbox, listening, name, cs, rest>>
  BY DEF Lab4!PutName, Lab4!Go, Lab4!sockets
<1>2. name[c] \in Name /\ table[name[c]] = NoClient
  BY <1>1 DEF JInv, JTypes, Entries
<1>3. "joined" \in InTable
  BY DEF InTable, Said
<1>4. JTypes'
  BY <1>1, <1>2, <1>3, PlacesDiffer DEF JInv, JTypes, Line, SocketsOK
<1>5. \A d \in Client : d # c => pc'[d] = pc[d] /\ pc[d] # "put"
  BY <1>1, PlacesDiffer, OneJoins DEF JInv, JTypes
<1>6. Entries'
  <2>1. \A n \in Name : table'[n] # NoClient => name'[table'[n]] = n /\ pc'[table'[n]] \in InTable
    BY <1>1, <1>2, <1>3 DEF JTypes, JInv, Entries
  <2>2. ASSUME NEW d \in Client
        PROVE  /\ pc'[d] \in InTable \cup {"put", "checking", "sorry"} => name'[d] \in Name
               /\ pc'[d] \in InTable => table'[name'[d]] = d
               /\ pc'[d] = "put" => table'[name'[d]] = NoClient
    BY <1>1, <1>2, <1>3, <1>5, PlacesDiffer, NamesAssumption DEF JInv, JTypes, Entries
  <2> QED
    BY <2>1, <2>2 DEF Entries
<1>7. InTurn'
  BY <1>1, <1>3, PlacesDiffer, FollowsAssumption DEF JInv, JTypes, InTurn
<1>8. Monitor' /\ Removed'
  BY <1>1, PlacesDiffer DEF JInv, JTypes, Monitor, Removed
<1> QED
  BY <1>4, <1>6, <1>7, <1>8 DEF JInv, JTypes

LEMMA JBegin == ASSUME JInv, NEW c \in Client, Lab4!Begin(c) PROVE JInv'
<1>1. /\ pc[c] \in Said /\ cs' = c /\ rest' = Lab4!Inside
      /\ UNCHANGED <<open, inbox, listening, pc, name, table>>
  BY SameSets DEF Lab4!Begin, Lab4!Inside, Lab4!sockets
<1>2. JTypes'
  BY <1>1 DEF JTypes, JInv, Line, SocketsOK, Lab4!Inside
<1>3. Monitor'
  BY <1>1, NamesAssumption DEF Monitor, Lab4!Inside
<1>4. Entries' /\ InTurn' /\ Removed'
  BY <1>1 DEF JInv, JTypes, Entries, InTurn, Removed
<1> QED
  BY <1>2, <1>3, <1>4 DEF JInv, JTypes

(* What is sent to a closed socket is lost. *)
LEMMA SendRemoved ==
    ASSUME JInv, NEW d \in Client, NEW line, Send(d, line),
           \A c \in Client : pc'[c] = "remove" => pc[c] = "remove"
    PROVE  Removed'
BY DEF JTypes, JInv, Removed, Send, Put, SocketsOK

LEMMA JSendMsg == ASSUME JInv, NEW c \in Client, Lab4!SendMsg(c) PROVE JInv'
<1>1. /\ cs = c /\ c # NoClient /\ UNCHANGED <<listening, pc, name, table, cs>>
  BY NamesAssumption DEF Lab4!SendMsg
<1>2. PICK d \in rest : rest' = rest \ {d} /\ Send(d, <<name[c], pc[c]>>)
  BY SameSets DEF Lab4!SendMsg
<1>3. pc[c] \in Said /\ d \in Client /\ name[c] \in Name
  BY <1>1, <1>2, PlacesDiffer DEF JInv, JTypes, Monitor, Entries
<1>4. SocketsOK(Line)'
  BY <1>2, <1>3, SendOK DEF JTypes, JInv, Line
<1>5. JTypes'
  BY <1>1, <1>2, <1>4 DEF JTypes, JInv, Line
<1>6. Removed'
  BY <1>1, <1>2, <1>3, SendRemoved
<1>7. Monitor'
  BY <1>1, <1>2 DEF JInv, JTypes, Monitor, Lab4!Inside
<1>8. Entries' /\ InTurn'
  BY <1>1 DEF JInv, JTypes, Entries, InTurn
<1> QED
  BY <1>5, <1>6, <1>7, <1>8 DEF JInv, JTypes

LEMMA JEnd == ASSUME JInv, NEW c \in Client, Lab4!End(c) PROVE JInv'
<1>1. PICK from \in Said, to \in {"talk", "close"} : pc[c] = from /\ pc' = [pc EXCEPT ![c] = to]
  BY DEF Lab4!End, Lab4!Go, Said, Lab4!Said
<1>2. rest = {} /\ cs' = NoClient /\ UNCHANGED <<open, inbox, listening, name, table, rest>>
  BY DEF Lab4!End, Lab4!sockets
<1>3. to \in InTable /\ to \notin {"put", "checking", "sorry", "remove"} /\ from \in InTable
  BY DEF InTable
<1>4. JTypes'
  BY <1>1, <1>2, <1>3 DEF JTypes, JInv, Line, SocketsOK
<1>5. Entries'
  BY <1>1, <1>2, <1>3, PlacesDiffer DEF JInv, JTypes, Entries
<1>6. InTurn'
  BY <1>1, <1>3, PlacesDiffer, FollowsAssumption DEF JInv, JTypes, InTurn
<1>7. Monitor' /\ Removed'
  BY <1>1, <1>2, <1>3 DEF JTypes, JInv, Monitor, Removed
<1> QED
  BY <1>4, <1>5, <1>6, <1>7 DEF JInv, JTypes

LEMMA JAnswer ==
    ASSUME JInv, NEW c \in Client, NEW from, NEW to, Lab4!Answer(c, from, to),
           {from, to} \subseteq {"unknown", "talk", "list", "elements", "users"}
    PROVE  JInv'
<1>1. from \in InTable \ (Said \cup {"remove"}) /\ to \in InTable \ (Said \cup {"remove"})
  BY DEF InTable, Said
<1>2. pc[c] = from /\ pc' = [pc EXCEPT ![c] = to] /\ Send(c, Reply)
  BY SameSets DEF Lab4!Answer, Lab4!Go
<1>3. cs # c
  BY <1>1, <1>2, NamesAssumption DEF JInv, JTypes, Monitor
<1>4. SocketsOK(Line)'
  BY <1>2, SendOK DEF JTypes, JInv, Line
<1>5. Removed'
  BY <1>1, <1>2, SendRemoved DEF JTypes, JInv
<1> QED
  BY <1>1, <1>3, <1>4, <1>5, JGoesOn DEF Lab4!Answer

(* A step of a connection in the table that touches no socket. *)
LEMMA JQuiet ==
    ASSUME JInv, NEW c \in Client, NEW from \in InTable \ Said, NEW to \in InTable \ {"remove"},
           Lab4!Go(c, from, to), UNCHANGED <<sockets, listening, name, table, cs, rest>>
    PROVE  JInv'
<1>1. pc[c] = from /\ pc' = [pc EXCEPT ![c] = to]
  BY DEF Lab4!Go
<1>2. cs # c
  BY <1>1, NamesAssumption DEF JInv, JTypes, Monitor
<1>3. SocketsOK(Line)' /\ Removed'
  BY <1>1 DEF JTypes, JInv, Removed, sockets, SocketsOK, Line
<1> QED
  BY <1>2, <1>3, JGoesOn

LEMMA JCloseSocket == ASSUME JInv, NEW c \in Client, Lab4!CloseSocket(c) PROVE JInv'
<1>1. /\ pc[c] = "close" /\ pc' = [pc EXCEPT ![c] = "remove"] /\ Close(c)
      /\ Lab4!Go(c, "close", "remove") /\ UNCHANGED <<listening, name, table, cs, rest>>
  BY SameSets DEF Lab4!CloseSocket, Lab4!Go
<1>2. "close" \in InTable /\ "remove" \in InTable /\ "close" \notin Said
  BY DEF InTable, Said
<1>3. cs # c
  BY <1>1, <1>2, NamesAssumption DEF JInv, JTypes, Monitor
<1>4. SocketsOK(Line)'
  BY <1>1, CloseOK DEF JTypes, JInv
<1>5. Removed'
  BY <1>1 DEF JTypes, JInv, Removed, Close, SocketsOK
<1> QED
  BY <1>1, <1>2, <1>3, <1>4, <1>5, JGoesOn

LEMMA JRemoveName == ASSUME JInv, NEW c \in Client, Lab4!RemoveName(c) PROVE JInv'
<1>1. /\ pc[c] = "remove" /\ pc' = [pc EXCEPT ![c] = "done"] /\ cs = NoClient
      /\ table' = [table EXCEPT ![name[c]] = NoClient]
      /\ UNCHANGED <<open, inbox, listening, name, cs, rest>>
  BY DEF Lab4!RemoveName, Lab4!Go, Lab4!sockets
<1>2. "remove" \in InTable
  BY DEF InTable
<1>3. name[c] \in Name /\ table[name[c]] = c
  BY <1>1, <1>2 DEF JInv, JTypes, Entries
<1>4. JTypes'
  BY <1>1, <1>3 DEF JTypes, JInv, Line, SocketsOK
<1>5. Entries'
  <2>1. \A n \in Name : table'[n] # NoClient => n # name[c] /\ table'[n] = table[n] /\ table[n] # c
    BY <1>1, <1>3 DEF JTypes, JInv, Entries
  <2>2. \A n \in Name : table'[n] # NoClient => name'[table'[n]] = n /\ pc'[table'[n]] \in InTable
    BY <1>1, <2>1 DEF JTypes, JInv, Entries
  <2>3. ASSUME NEW d \in Client
        PROVE  /\ pc'[d] \in InTable \cup {"put", "checking", "sorry"} => name'[d] \in Name
               /\ pc'[d] \in InTable => table'[name'[d]] = d
               /\ pc'[d] = "put" => table'[name'[d]] = NoClient
    BY <1>1, <1>3, PlacesDiffer, NamesAssumption DEF JInv, JTypes, Entries
  <2> QED
    BY <2>2, <2>3 DEF Entries
<1>6. InTurn'
  BY <1>1, PlacesDiffer, FollowsAssumption DEF JInv, JTypes, InTurn
<1>7. Monitor' /\ Removed'
  BY <1>1 DEF JTypes, JInv, Monitor, Removed
<1> QED
  BY <1>4, <1>5, <1>6, <1>7 DEF JInv, JTypes

LEMMA StepJInv == JInv /\ [Lab4!Next]_(Lab4!vars) => JInv'
<1> SUFFICES ASSUME JInv, [Lab4!Next]_(Lab4!vars) PROVE JInv'
  OBVIOUS
<1>1. CASE UNCHANGED Lab4!vars
  BY <1>1 DEF Lab4!vars, Lab4!sockets, JInv, JTypes, Line, SocketsOK, Entries, InTurn, Monitor, Removed,
              Lab4!Inside
<1>2. ASSUME NEW c \in Client, Lab4!Main(c)
      PROVE  JInv'
  <2>1. CASE Lab4!Accept(c)
    BY <2>1, JAccept
  <2>2. CASE \E n \in Name : Lab4!ReadName(c, n)
    BY <2>2, JReadName
  <2>3. CASE Lab4!EmptyName(c)
    BY <2>3, JTurnedAway, SameSets DEF Lab4!EmptyName, JInv, JTypes
  <2>4. CASE Lab4!CheckName(c)
    BY <2>4, JCheckName
  <2>5. CASE Lab4!Sorry(c)
    BY <2>5, JTurnedAway, SameSets DEF Lab4!Sorry, JInv, JTypes
  <2>6. CASE Lab4!ConstructorFails(c)
    BY <2>6, JTurnedAway, SameSets DEF Lab4!ConstructorFails
  <2> QED
    BY <1>2, <2>1, <2>2, <2>3, <2>4, <2>5, <2>6 DEF Lab4!Main
<1>3. ASSUME NEW c \in Client, Lab4!Run(c)
      PROVE  JInv'
  <2>1. CASE Lab4!PutName(c)
    BY <2>1, JPutName
  <2>2. CASE Lab4!BroadCastMsg(c)
    BY <2>2, JBegin, JSendMsg, JEnd DEF Lab4!BroadCastMsg
  <2>3. CASE Lab4!ReadLine(c)
    <3>1. PICK to \in Typed[c] \cup {"left"} : Lab4!Go(c, "talk", to)
      BY <2>3 DEF Lab4!ReadLine
    <3>2. "talk" \in InTable \ Said /\ to \in InTable \ {"remove"}
      BY TypedAssumption DEF InTable, Said
    <3> QED
      BY <2>3, <3>1, <3>2, JQuiet DEF Lab4!ReadLine, Lab4!sockets, sockets
  <2>4. CASE Lab4!ParseCommand(c)
    <3>1. CASE Lab4!Elements(c)
      <4>1. "elements" \in InTable \ Said /\ "users" \in InTable \ {"remove"}
        BY DEF InTable, Said
      <4> QED
        BY <3>1, <4>1, JQuiet DEF Lab4!Elements, Lab4!sockets, sockets
    <3> QED
      BY <2>4, <3>1, JAnswer DEF Lab4!ParseCommand
  <2>5. CASE Lab4!CloseSocket(c)
    BY <2>5, JCloseSocket
  <2>6. CASE Lab4!RemoveName(c)
    BY <2>6, JRemoveName
  <2> QED
    BY <1>3, <2>1, <2>2, <2>3, <2>4, <2>5, <2>6 DEF Lab4!Run
<1>4. ASSUME NEW c \in Client, Lab4!Reads(c)
      PROVE  JInv'
  <2>1. SocketsOK(Line)'
    BY <1>4, ClientReadsOK, SameSets DEF Lab4!Reads, JInv, JTypes
  <2>2. Removed'
    BY <1>4, SameSets DEF Lab4!Reads, ClientReads, JInv, JTypes, SocketsOK, Removed
  <2> QED
    BY <1>4, <2>1, <2>2, JSocketsOnly DEF Lab4!Reads
<1>5. ASSUME NEW c \in Client, Lab4!GoesAway(c)
      PROVE  JInv'
  <2>1. SocketsOK(Line)'
    BY <1>5, CloseOK, SameSets DEF Lab4!GoesAway, JInv, JTypes
  <2>2. Removed'
    BY <1>5, SameSets DEF Lab4!GoesAway, Close, JInv, JTypes, SocketsOK, Removed
  <2> QED
    BY <1>5, <2>1, <2>2, JSocketsOnly DEF Lab4!GoesAway
<1> QED
  BY <1>1, <1>2, <1>3, <1>4, <1>5 DEF Lab4!Next

-----------------------------------------------------------------------------
(* The server in Java keeps a chat room. *)

JRoom == INSTANCE ChatRoom WITH
    inside <- Lab4!Inside, nick <- Lab4!Nick, pending <- Lab4!Pending

LEMMA JNothingPending == ASSUME JInv, cs = NoClient PROVE Lab4!Pending = Nobody
BY DEF Lab4!Pending, Nobody, JInv, Monitor

LEMMA InitJRoom == Lab4!Init => JRoom!Init
<1> SUFFICES ASSUME Lab4!Init PROVE JRoom!Init
  OBVIOUS
<1>1. Lab4!Inside = {}
  BY DEF Lab4!Init, Lab4!Inside
<1> QED
  BY <1>1 DEF Lab4!Init, Lab4!SocketsInit, JRoom!Init, Lab4!Pending, Lab4!Nick

(* Steps that neither the table nor the broadcast notices. *)
LEMMA JUnnoticed ==
    ASSUME JInv, NEW c \in Client, NEW from, NEW to, Lab4!Go(c, from, to), from \notin Said,
           UNCHANGED <<table, cs, rest>>,
           name' = name \/ (pc[c] \notin InTable /\ \E n \in Name : name' = [name EXCEPT ![c] = n])
    PROVE  /\ Lab4!Inside' = Lab4!Inside
           /\ Lab4!Nick' = Lab4!Nick
           /\ Lab4!Pending' = Lab4!Pending
<1>1. pc[c] = from /\ pc' = [pc EXCEPT ![c] = to]
  BY DEF Lab4!Go
<1>2. cs # c \/ cs = NoClient
  BY <1>1 DEF JInv, Monitor
<1>3. Lab4!Inside' = Lab4!Inside
  BY DEF Lab4!Inside
<1>4. ASSUME NEW d \in Lab4!Inside
      PROVE  d \in Client /\ name'[d] = name[d]
  <2>1. d \in Client /\ pc[d] \in InTable
    BY InsideIs DEF JInv, JTypes, Lab4!Inside
  <2> QED
    BY <2>1 DEF JInv, JTypes
<1>5. Lab4!Nick' = Lab4!Nick
  BY <1>3, <1>4 DEF Lab4!Nick
<1>6. CASE cs = NoClient
  <2>1. rest = {} /\ rest' = {}
    BY <1>6 DEF JInv, Monitor
  <2>2. Lab4!Pending = Nobody
    BY <2>1 DEF Lab4!Pending, Nobody
  <2>3. Lab4!Pending' = Nobody
    BY <2>1 DEF Lab4!Pending, Nobody
  <2> QED
    BY <1>3, <1>5, <2>2, <2>3
<1>7. CASE cs # NoClient
  <2>1. cs \in Client /\ cs # c /\ cs \in Lab4!Inside
    BY <1>2, <1>7, InsideIs, PlacesDiffer DEF JInv, JTypes, Monitor
  <2>2. name'[cs] = name[cs] /\ pc'[cs] = pc[cs]
    BY <1>1, <1>4, <2>1 DEF JInv, JTypes
  <2> QED
    BY <1>3, <1>5, <2>2 DEF Lab4!Pending
<1> QED
  BY <1>3, <1>5, <1>6, <1>7

LEMMA JQuietRoom ==
    ASSUME JInv, NEW c \in Client, NEW from, NEW to, Lab4!Go(c, from, to), from \notin Said,
           UNCHANGED <<sockets, table, cs, rest>>,
           name' = name \/ (pc[c] \notin InTable /\ \E n \in Name : name' = [name EXCEPT ![c] = n])
    PROVE  UNCHANGED JRoom!vars
BY JUnnoticed DEF JRoom!vars, sockets

LEMMA JCloseRoom ==
    ASSUME JInv, NEW c \in Client, NEW from, NEW to, Lab4!Go(c, from, to), from \notin Said,
           UNCHANGED <<name, table, cs, rest>>, Close(c)
    PROVE  JRoom!HangUp(c)
BY JUnnoticed DEF JRoom!HangUp, Close

LEMMA JPutNameRoom ==
    ASSUME JInv, NEW c \in Client, Lab4!PutName(c)
    PROVE  name[c] \in Name /\ JRoom!Enter(c, name[c])
<1>1. /\ pc[c] = "put" /\ cs = NoClient /\ cs' = NoClient
      /\ table' = [table EXCEPT ![name[c]] = c]
      /\ UNCHANGED <<open, inbox, name, rest>>
  BY DEF Lab4!PutName, Lab4!Go, Lab4!sockets
<1>2. name[c] \in Name /\ table[name[c]] = NoClient
  BY <1>1 DEF JInv, Entries
<1>3. c \notin Lab4!Inside
  BY <1>1, InsideIs, PlacesDiffer
<1>4. Lab4!Inside' = Lab4!Inside \cup {c}
  BY <1>1, <1>2, NamesAssumption DEF Lab4!Inside, JInv, JTypes
<1>5. Lab4!Nick' = [Lab4!Nick EXCEPT ![c] = name[c]]
  BY <1>1, <1>4 DEF Lab4!Nick
<1>6. Lab4!Pending = Nobody /\ Lab4!Pending' = Nobody
  BY <1>1, JNothingPending DEF JInv, Monitor, Lab4!Pending, Nobody
<1>7. JRoom!Free(name[c])
  BY <1>2 DEF JRoom!Free, Lab4!Inside, Lab4!Nick, JInv, JTypes, Entries
<1> QED
  BY <1>1, <1>2, <1>3, <1>4, <1>5, <1>6, <1>7 DEF JRoom!Enter

LEMMA JBeginRoom ==
    ASSUME JInv, NEW c \in Client, Lab4!Begin(c)
    PROVE  JRoom!Say(c, pc[c])
<1>1. /\ pc[c] \in Said /\ cs = NoClient /\ cs' = c /\ rest' = Lab4!Inside
      /\ UNCHANGED <<open, inbox, pc, name, table>>
  BY SameSets DEF Lab4!Begin, Lab4!Inside, Lab4!sockets
<1>2. c \in Lab4!Inside /\ name[c] \in Name
  BY <1>1, InsideIs, PlacesDiffer DEF JInv, Entries
<1>3. Lab4!Inside' = Lab4!Inside /\ Lab4!Nick' = Lab4!Nick
  BY <1>1 DEF Lab4!Inside, Lab4!Nick
<1>4. Lab4!Nick[c] = name[c] /\ name[c] # NoName
  BY <1>2, NamesAssumption DEF Lab4!Nick
<1>5. Lab4!Pending = Nobody
  BY <1>1, JNothingPending
<1>6. Lab4!Pending' = [d \in Client |->
          IF d \in Lab4!Inside THEN << <<name[c], pc[c]>> >> ELSE <<>>]
  BY <1>1 DEF Lab4!Pending
<1>7. \A d \in Client : Append(Lab4!Pending[d], <<name[c], pc[c]>>) = << <<name[c], pc[c]>> >>
  BY <1>5 DEF Nobody
<1>8. Lab4!Pending' = [d \in Client |->
          IF d \in Lab4!Inside THEN Append(Lab4!Pending[d], <<Lab4!Nick[c], pc[c]>>) ELSE Lab4!Pending[d]]
  BY <1>4, <1>5, <1>6, <1>7 DEF Nobody
<1> QED
  BY <1>1, <1>2, <1>3, <1>4, <1>8 DEF JRoom!Say

LEMMA JSendMsgRoom ==
    ASSUME JInv, NEW c \in Client, Lab4!SendMsg(c)
    PROVE  \E d \in Client : JRoom!Hear(d)
<1> DEFINE line == <<name[c], pc[c]>>
<1>1. /\ cs = c /\ c # NoClient /\ UNCHANGED <<pc, name, table, cs>>
  BY NamesAssumption DEF Lab4!SendMsg
<1>2. PICK d \in rest : rest' = rest \ {d} /\ Send(d, line)
  BY SameSets DEF Lab4!SendMsg
<1>3. d \in Client
  BY DEF JInv, JTypes
<1>4. Lab4!Pending = [e \in Client |-> IF e \in rest THEN <<line>> ELSE <<>>]
  BY <1>1 DEF Lab4!Pending
<1>5. Lab4!Pending' = [e \in Client |-> IF e \in rest \ {d} THEN <<line>> ELSE <<>>]
  BY <1>1, <1>2 DEF Lab4!Pending
<1>6. Lab4!Inside' = Lab4!Inside /\ Lab4!Nick' = Lab4!Nick
  BY <1>1 DEF Lab4!Inside, Lab4!Nick
<1> HIDE DEF line
<1>7. /\ Lab4!Pending[d] = <<line>> /\ Lab4!Pending[d] # <<>>
      /\ Head(Lab4!Pending[d]) = line /\ Tail(Lab4!Pending[d]) = <<>>
  BY <1>3, <1>4
<1>8. Lab4!Pending' = [Lab4!Pending EXCEPT ![d] = Tail(@)]
  BY <1>3, <1>4, <1>5, <1>7
<1>9. inbox' = [inbox EXCEPT ![d] = IF open[d] THEN Append(@, line) ELSE @] /\ open' = open
  BY <1>2 DEF Send, Put
<1>10. JRoom!Hear(d)
  BY <1>6, <1>7, <1>8, <1>9 DEF JRoom!Hear, JRoom!Gets
<1> QED
  BY <1>3, <1>10

LEMMA JEndRoom ==
    ASSUME JInv, NEW c \in Client, Lab4!End(c)
    PROVE  UNCHANGED JRoom!vars
BY DEF Lab4!End, Lab4!sockets, JRoom!vars, Lab4!Pending, Lab4!Inside, Lab4!Nick

LEMMA JAnswerRoom ==
    ASSUME JInv, NEW c \in Client, NEW from, NEW to, Lab4!Answer(c, from, to), from \notin Said
    PROVE  JRoom!Answer(c)
BY JUnnoticed, SameSets DEF Lab4!Answer, JRoom!Answer, JRoom!Gets, Send, Put

LEMMA JRemoveNameRoom ==
    ASSUME JInv, NEW c \in Client, Lab4!RemoveName(c)
    PROVE  JRoom!Leave(c)
<1>1. /\ pc[c] = "remove" /\ cs = NoClient /\ cs' = NoClient
      /\ table' = [table EXCEPT ![name[c]] = NoClient]
      /\ UNCHANGED <<open, inbox, name, rest>>
  BY DEF Lab4!RemoveName, Lab4!Go, Lab4!sockets
<1>2. "remove" \in InTable
  BY DEF InTable
<1>3. name[c] \in Name /\ table[name[c]] = c /\ c \in Lab4!Inside
  BY <1>1, <1>2, InsideIs DEF JInv, Entries
<1>4. \A n \in Name : table[n] = c => n = name[c]
  BY NamesAssumption DEF JInv, Entries
<1>5. Lab4!Inside' = Lab4!Inside \ {c}
  BY <1>1, <1>3, <1>4 DEF Lab4!Inside, JInv, JTypes
<1>6. Lab4!Nick' = [Lab4!Nick EXCEPT ![c] = NoName]
  BY <1>1, <1>5 DEF Lab4!Nick
<1>7. Lab4!Pending = Nobody /\ Lab4!Pending' = Nobody /\ Lab4!Pending[c] = <<>>
  BY <1>1, JNothingPending DEF JInv, Monitor, Lab4!Pending, Nobody
<1>8. open' = [open EXCEPT ![c] = FALSE] /\ inbox' = [inbox EXCEPT ![c] = <<>>]
  BY <1>1 DEF JInv, JTypes, Removed, SocketsOK
<1> QED
  BY <1>3, <1>5, <1>6, <1>7, <1>8 DEF JRoom!Leave

LEMMA StepJRoom == JInv /\ [Lab4!Next]_(Lab4!vars) => [JRoom!Next]_(JRoom!vars)
<1> SUFFICES ASSUME JInv, [Lab4!Next]_(Lab4!vars) PROVE JRoom!Next \/ UNCHANGED JRoom!vars
  OBVIOUS
<1> USE SameSets
<1>1. CASE UNCHANGED Lab4!vars
  BY <1>1 DEF Lab4!vars, Lab4!sockets, JRoom!vars, Lab4!Inside, Lab4!Nick, Lab4!Pending
<1>2. ASSUME NEW c \in Client, Lab4!Main(c)
      PROVE  JRoom!Next \/ UNCHANGED JRoom!vars
  <2>1. CASE Lab4!Accept(c)
    BY <2>1, JQuietRoom DEF Lab4!Accept, Said, Lab4!sockets, sockets
  <2>2. CASE \E n \in Name : Lab4!ReadName(c, n)
    BY <2>2, JQuietRoom, PlacesDiffer DEF Lab4!ReadName, Said, Lab4!Go, Lab4!sockets, sockets
  <2>3. CASE Lab4!EmptyName(c)
    BY <2>3, JCloseRoom DEF Lab4!EmptyName, JRoom!Next, Said
  <2>4. CASE Lab4!CheckName(c)
    BY <2>4, JQuietRoom DEF Lab4!CheckName, Said, Lab4!sockets, sockets
  <2>5. CASE Lab4!Sorry(c)
    BY <2>5, JCloseRoom DEF Lab4!Sorry, JRoom!Next, Said
  <2>6. CASE Lab4!ConstructorFails(c)
    BY <2>6, JCloseRoom DEF Lab4!ConstructorFails, JRoom!Next, Said
  <2> QED
    BY <1>2, <2>1, <2>2, <2>3, <2>4, <2>5, <2>6 DEF Lab4!Main
<1>3. ASSUME NEW c \in Client, Lab4!Run(c)
      PROVE  JRoom!Next \/ UNCHANGED JRoom!vars
  <2>1. CASE Lab4!PutName(c)
    BY <2>1, JPutNameRoom DEF JRoom!Next
  <2>2. CASE Lab4!BroadCastMsg(c)
    BY <2>2, JBeginRoom, JSendMsgRoom, JEndRoom DEF Lab4!BroadCastMsg, Lab4!Begin, JRoom!Next
  <2>3. CASE Lab4!ReadLine(c)
    BY <2>3, JQuietRoom DEF Lab4!ReadLine, Said, Lab4!sockets, sockets
  <2>4. CASE Lab4!ParseCommand(c)
    <3>1. CASE Lab4!Elements(c)
      BY <3>1, JQuietRoom DEF Lab4!Elements, Said, Lab4!sockets, sockets
    <3> QED
      BY <2>4, <3>1, JAnswerRoom DEF Lab4!ParseCommand, JRoom!Next, Said
  <2>5. CASE Lab4!CloseSocket(c)
    BY <2>5, JCloseRoom DEF Lab4!CloseSocket, JRoom!Next, Said
  <2>6. CASE Lab4!RemoveName(c)
    BY <2>6, JRemoveNameRoom DEF JRoom!Next
  <2> QED
    BY <1>3, <2>1, <2>2, <2>3, <2>4, <2>5, <2>6 DEF Lab4!Run
<1>4. ASSUME NEW c \in Client, Lab4!Reads(c) \/ Lab4!GoesAway(c)
      PROVE  JRoom!Next
  <2>1. /\ Lab4!Inside' = Lab4!Inside /\ Lab4!Nick' = Lab4!Nick
        /\ Lab4!Pending' = Lab4!Pending
    BY <1>4 DEF Lab4!Reads, Lab4!GoesAway, Lab4!Inside, Lab4!Nick, Lab4!Pending
  <2>2. CASE Lab4!Reads(c)
    BY <2>1, <2>2 DEF Lab4!Reads, ClientReads, JRoom!Read, JRoom!Next
  <2>3. CASE Lab4!GoesAway(c)
    BY <2>1, <2>3 DEF Lab4!GoesAway, Close, JRoom!HangUp, JRoom!Next
  <2> QED
    BY <1>4, <2>2, <2>3
<1> QED
  BY <1>1, <1>2, <1>3, <1>4 DEF Lab4!Next

-----------------------------------------------------------------------------
(* Either server. *)

MCInv ==
    \/ running = "chatsrv" /\ IInv
    \/ running = "lab4server" /\ JInv /\ first = <<>>

LEMMA StepMC == MCInv /\ [Cpp(Next) \/ Java(Lab4!Next)]_mcvars => MCInv'
<1> SUFFICES ASSUME MCInv, [Cpp(Next) \/ Java(Lab4!Next)]_mcvars PROVE MCInv'
  OBVIOUS
<1>1. CASE UNCHANGED mcvars
  <2>1. [Next]_vars /\ [Lab4!Next]_(Lab4!vars) /\ running' = running /\ first' = first
    BY <1>1 DEF mcvars, vars, Lab4!vars, Lab4!sockets, sockets
  <2> QED
    BY <2>1, StepIInv, StepJInv DEF MCInv
<1>2. CASE Cpp(Next)
  BY <1>2, StepIInv DEF Cpp, MCInv
<1>3. CASE Java(Lab4!Next)
  BY <1>3, StepJInv DEF Java, MCInv
<1> QED
  BY <1>1, <1>2, <1>3

LEMMA InitMC == MCInit => MCInv
BY InitIInv, InitJInv DEF MCInit, MCInv

LEMMA InitOneRoom == MCInit => OneRoom!Init
<1>1. CASE running = "chatsrv"
  BY <1>1, InitRoom DEF MCInit, Room!Init, OneRoom!Init
<1>2. CASE running = "lab4server"
  BY <1>2, InitJRoom DEF MCInit, JRoom!Init, OneRoom!Init
<1> QED
  BY <1>1, <1>2 DEF MCInit

LEMMA CppRoom ==
    ASSUME running = "chatsrv", running' = running, [Room!Next]_(Room!vars)
    PROVE  [OneRoom!Next]_(OneRoom!vars)
BY ZenonT(90) DEF Room!Next, Room!vars, OneRoom!Next, OneRoom!vars, Room!Enter, OneRoom!Enter, Room!Free, OneRoom!Free,
       Room!TakeName, OneRoom!TakeName, Room!Say, OneRoom!Say, Room!Hear, OneRoom!Hear, Room!Gets, OneRoom!Gets,
       Room!Answer, OneRoom!Answer, Room!Read, OneRoom!Read, Room!HangUp, OneRoom!HangUp, Room!Leave,
       OneRoom!Leave

LEMMA JavaRoom ==
    ASSUME running = "lab4server", running' = running, [JRoom!Next]_(JRoom!vars)
    PROVE  [OneRoom!Next]_(OneRoom!vars)
BY ZenonT(90) DEF JRoom!Next, JRoom!vars, OneRoom!Next, OneRoom!vars, JRoom!Enter, OneRoom!Enter, JRoom!Free, OneRoom!Free,
       JRoom!TakeName, OneRoom!TakeName, JRoom!Say, OneRoom!Say, JRoom!Hear, OneRoom!Hear, JRoom!Gets,
       OneRoom!Gets, JRoom!Answer, OneRoom!Answer, JRoom!Read, OneRoom!Read, JRoom!HangUp, OneRoom!HangUp,
       JRoom!Leave, OneRoom!Leave

LEMMA StepOneRoom ==
    MCInv /\ [Cpp(Next) \/ Java(Lab4!Next)]_mcvars => [OneRoom!Next]_(OneRoom!vars)
<1> SUFFICES ASSUME MCInv, [Cpp(Next) \/ Java(Lab4!Next)]_mcvars
             PROVE  [OneRoom!Next]_(OneRoom!vars)
  OBVIOUS
<1>1. running' = running
  BY DEF mcvars, Cpp, Java
<1>2. CASE running = "chatsrv"
  <2>1. [Next]_vars
    BY <1>2 DEF mcvars, Cpp, Java
  <2>2. IInv
    BY <1>2 DEF MCInv
  <2> QED
    BY <1>1, <1>2, <2>1, <2>2, StepRoom, CppRoom
<1>3. CASE running = "lab4server"
  <2>1. [Lab4!Next]_(Lab4!vars)
    BY <1>3 DEF mcvars, Cpp, Java, vars, sockets, Lab4!vars, Lab4!sockets
  <2>2. JInv
    BY <1>3 DEF MCInv
  <2> QED
    BY <1>1, <1>3, <2>1, <2>2, StepJRoom, JavaRoom
<1> QED
  BY <1>2, <1>3 DEF MCInv

(* For every number of connections, names and buffered lines: the nicknames of
   connections in the chain of chatsrv differ (ClientManager::ApplyName). *)
THEOREM NicknamesDiffer == MCSpec => []NamesDiffer
<1>1. MCInv => NamesDiffer
  BY DEF MCInv, IInv, NamesDiffer, ToSet
<1> QED
  BY InitMC, StepMC, <1>1, PTL DEF MCSpec

(* For the same, and clients of the server in Java of which one has seen the other
   served before it connects: whoever is in the chain, or in the table, hears the
   same messages in the same order, and no nickname is taken twice. *)
THEOREM KeepsARoom == MCSpec => ARoom
BY InitMC, StepMC, InitOneRoom, StepOneRoom, PTL DEF MCSpec, ARoom, OneRoom!Spec

(* The same of the table: no thread removes the entry of another connection, though
   it removes its name without a look at whose entry it is (ClientManager.run). *)
THEOREM EntriesAreLive == MCSpec => [](running = "lab4server" => Lab4!NoDeadEntries /\ Lab4!Registered)
<1>1. MCInv => (running = "lab4server" => Lab4!NoDeadEntries /\ Lab4!Registered)
  BY PlacesDiffer DEF MCInv, JInv, Entries, Lab4!NoDeadEntries, Lab4!Registered, InTable, Said
<1> QED
  BY InitMC, StepMC, <1>1, PTL DEF MCSpec
=============================================================================
