---------------------------- MODULE MCTools_proofs ----------------------------
(***************************************************************************)
(* Of the Windows tools: strarc saves the hives that it made snapshots of, *)
(* the parts of fsplitw are the file, trunczerotail cuts nothing but       *)
(* zeroes off, and regrepl replaces a text wholly and once.                *)
(***************************************************************************)
EXTENDS MCTools, SequenceTheorems, FiniteSetTheorems, WellFoundedInduction, TLAPS

(* Induction, and functions that are defined by recursion on natural numbers. *)

LEMMA NatInd ==
    ASSUME NEW P \in SUBSET Nat, 0 \in P, \A n \in P : n + 1 \in P
    PROVE  P = Nat
<1> DEFINE R == {ss \in Nat \X Nat : ss[1] < ss[2]}
<1> SUFFICES ASSUME Nat \ P # {} PROVE FALSE   OBVIOUS
<1>1. IsWellFoundedOn(R, Nat)   BY NatLessThanWellFounded DEF OpToRel
<1>2. \A i, j \in Nat : i < j => <<i, j>> \in R   OBVIOUS
<1> HIDE DEF R
<1>3. PICK x \in Nat \ P : \A y \in Nat \ P : ~ (<<y, x>> \in R)
  <2>1. Nat \ P \subseteq Nat  OBVIOUS
  <2> QED BY <1>1, <2>1, WFMin
<1>4. x \in Nat /\ x # 0 /\ x - 1 \in Nat /\ x - 1 < x /\ (x - 1) + 1 = x  BY <1>3
<1>5. x - 1 \notin P BY <1>3, <1>4
<1> QED BY <1>2, <1>3, <1>4, <1>5

LEMMA Greatest ==
    ASSUME NEW S \in SUBSET Nat, S # {}, NEW m \in Nat, \A i \in S : i <= m
    PROVE  \E i \in S : \A j \in S : j <= i
<1> DEFINE P == {n \in Nat : (\A i \in S : i <= n) => \E i \in S : \A j \in S : j <= i}
<1>1. 0 \in P
  <2> SUFFICES ASSUME \A i \in S : i <= 0 PROVE \E i \in S : \A j \in S : j <= i
    OBVIOUS
  <2>1. \A i \in S : i = 0
    OBVIOUS
  <2> QED BY <2>1
<1>2. ASSUME NEW n \in P PROVE n + 1 \in P
  <2> SUFFICES ASSUME \A i \in S : i <= n + 1 PROVE \E i \in S : \A j \in S : j <= i
    OBVIOUS
  <2>1. CASE n + 1 \in S
    BY <2>1
  <2>2. CASE n + 1 \notin S
    <3>1. \A i \in S : i <= n
      BY <2>2
    <3> QED BY <3>1
  <2> QED BY <2>1, <2>2
<1>3. P = Nat
  <2> HIDE DEF P
  <2>1. P \in SUBSET Nat BY DEF P
  <2> QED BY <1>1, <1>2, <2>1, NatInd
<1> QED BY <1>3

\* A function that is given by its first value and by each value from the one before.
Iterates(f, S, a, G, m) ==
    f \in [0 .. m -> S] /\ f[0] = a /\ \A i \in 1 .. m : f[i] = G[i][f[i - 1]]

LEMMA Recursion ==
    ASSUME NEW S, NEW a \in S, NEW G \in [Nat -> [S -> S]], NEW m \in Nat
    PROVE  \E f : Iterates(f, S, a, G, m)
<1> DEFINE Upto(n, f) == Iterates(f, S, a, G, n)
           P == {n \in Nat : \E f : Upto(n, f)}
<1>1. 0 \in P
  <2>1. Upto(0, [i \in 0 .. 0 |-> a])
    BY DEF Iterates
  <2> HIDE DEF Upto
  <2> QED BY <2>1
<1>2. ASSUME NEW n \in P PROVE n + 1 \in P
  <2>1. PICK f : f \in [0 .. n -> S] /\ f[0] = a /\ \A i \in 1 .. n : f[i] = G[i][f[i - 1]]
    BY DEF Iterates
  <2> DEFINE g == [i \in 0 .. n + 1 |-> IF i = n + 1 THEN G[n + 1][f[n]] ELSE f[i]]
  <2>2. f[n] \in S
    BY <2>1
  <2>3. G[n + 1][f[n]] \in S
    BY <2>2
  <2>4. g \in [0 .. n + 1 -> S]
    BY <2>1, <2>3
  <2>5. \A i \in 0 .. n : g[i] = f[i] /\ i # n + 1
    OBVIOUS
  <2>6. g[n + 1] = G[n + 1][f[n]]
    OBVIOUS
  <2>7. ASSUME NEW i \in 1 .. n + 1 PROVE g[i] = G[i][g[i - 1]]
    <3>1. CASE i = n + 1
      <4>1. i - 1 = n /\ n \in 0 .. n  BY <3>1
      <4>2. g[i - 1] = f[n]  BY <4>1, <2>5
      <4> HIDE DEF g
      <4> QED BY <3>1, <4>2, <2>6
    <3>2. CASE i # n + 1
      <4>1. i \in 1 .. n /\ i \in 0 .. n /\ i - 1 \in 0 .. n  BY <3>2
      <4> HIDE DEF g
      <4> QED BY <4>1, <2>5, <2>1
    <3> QED BY <3>1, <3>2
  <2>8. Upto(n + 1, g)
    <3>1. g[0] = a BY <2>1, <2>5
    <3> HIDE DEF g
    <3> QED BY <2>4, <2>7, <3>1 DEF Iterates
  <2> HIDE DEF Upto, g
  <2>9. n + 1 \in Nat OBVIOUS
  <2> QED BY <2>8, <2>9
<1>3. P = Nat
  <2> HIDE DEF P
  <2>1. P \in SUBSET Nat BY DEF P
  <2> QED BY <1>1, <1>2, <2>1, NatInd
<1>4. m \in P BY <1>3
<1> QED BY <1>4

LEMMA LeastOfTwo ==
    ASSUME NEW a \in Int, NEW b \in Int
    PROVE  /\ Split!Min({a, b}) = IF a <= b THEN a ELSE b
           /\ Trunc!Min({a, b}) = IF a <= b THEN a ELSE b
<1>1. \E x \in {a, b} : \A y \in {a, b} : x =< y
  OBVIOUS
<1> DEFINE least == CHOOSE x \in {a, b} : \A y \in {a, b} : x =< y
<1>2. least \in {a, b} /\ \A y \in {a, b} : least =< y
  BY <1>1
<1>3. Split!Min({a, b}) = least /\ Trunc!Min({a, b}) = least
  BY DEF Split!Min, Trunc!Min
<1> HIDE DEF least
<1> QED BY <1>2, <1>3

-----------------------------------------------------------------------------
(* strarc: snapshots of hives. *)

(* The versions when a session and when its walk began are those of the past. *)
Times ==
    /\ began \in [Hive -> Nat] /\ walked \in [Hive -> Nat]
    /\ \A h \in Hive : began[h] <= walked[h] /\ walked[h] <= hive[h].version

\* A snapshot that the walk will archive, of the time between its session and v.
FreshTo(h, v) == snapshot[h].there /\ snapshot[h].archive /\ snapshot[h].version \in began[h] .. v
InArchive(h) == \E e \in entries : e.name = h /\ e.version >= began[h]

(* While snapshots are made: those that are made are as new as the session. *)
Making ==
    /\ made # {} \/ (phase = "snapshots" /\ left # {}) => session.r
    /\ phase = "snapshots" =>
        /\ made \cap left = {} /\ entries = {}
        /\ todo = session.included \X {"hive", "snapshot"}
        /\ \A h \in made : FreshTo(h, hive[h].version)

(* During the walk: a snapshot that is still to be visited is as it was made, and one
   that has been visited is in the archive. *)
Walking ==
    phase = "walk" =>
        \A h \in made :
            /\ <<h, "snapshot">> \in todo => FreshTo(h, walked[h])
            /\ h \in session.included => <<h, "snapshot">> \in todo \/ InArchive(h)

SnapInv == Snap!TypeOK /\ Times /\ Making /\ Walking /\ Snap!OfOneTime /\ Snap!HivesAreSaved

LEMMA SnapInit == Snap!Init => SnapInv
  <2> SUFFICES ASSUME Snap!Init PROVE SnapInv OBVIOUS
  <2>1. hive \in [Hive -> [version : 1 .. MaxVersion, loaded : BOOLEAN, archive : BOOLEAN]]
    <3>1. \A h \in Hive : hive[h] \in [version : {1}, loaded : BOOLEAN, archive : {TRUE}]
      BY DEF Snap!Init
    <3>2. [version : {1}, loaded : BOOLEAN, archive : {TRUE}]
            \subseteq [version : 1 .. MaxVersion, loaded : BOOLEAN, archive : BOOLEAN]
      <4>1. 1 \in 1 .. MaxVersion /\ TRUE \in BOOLEAN
        BY SnapBounds DEF Snap!BoundsAssumption
      <4> QED BY <4>1
    <3>3. hive \in [Hive -> [version : {1}, loaded : BOOLEAN, archive : {TRUE}]]
      BY DEF Snap!Init
    <3> QED BY <3>2, <3>3
  <2>2. Snap!TypeOK
    BY <2>1, SnapBounds DEF Snap!Init, Snap!TypeOK, Snap!BoundsAssumption, Snap!NoFile
  <2>3. \A h \in Hive : Snap!Versions[h] = hive[h].version /\ hive[h].version \in Nat
    BY <2>1 DEF Snap!Versions
  <2>4. Times
    BY <2>3 DEF Snap!Init, Times, Snap!Versions
  <2> QED BY <2>2, <2>4 DEF Snap!Init, SnapInv, Making, Walking, Snap!OfOneTime, Snap!HivesAreSaved

LEMMA SnapStep == SnapInv /\ [Snap!Next]_(Snap!vars) => SnapInv'
  <2> SUFFICES ASSUME SnapInv, [Snap!Next]_(Snap!vars) PROVE SnapInv' OBVIOUS
  <2>0. /\ Snap!TypeOK /\ Times /\ Making /\ Walking /\ Snap!OfOneTime /\ Snap!HivesAreSaved
        /\ MaxVersion \in Nat \ {0} /\ MaxSessions \in Nat /\ Included \subseteq SUBSET Hive
    BY SnapBounds DEF SnapInv, Snap!BoundsAssumption
  <2>h. ASSUME NEW h \in Hive
        PROVE /\ hive[h].version \in 1 .. MaxVersion /\ hive[h].loaded \in BOOLEAN /\ hive[h].archive \in BOOLEAN
              /\ snapshot[h].there \in BOOLEAN /\ snapshot[h].version \in 0 .. MaxVersion
              /\ snapshot[h].archive \in BOOLEAN
    BY <2>0 DEF Snap!TypeOK
  <2> DEFINE HiveFile == [version : 1 .. MaxVersion, loaded : BOOLEAN, archive : BOOLEAN]
             Shot == [there : BOOLEAN, version : 0 .. MaxVersion, archive : BOOLEAN]
  <2>k. /\ hive \in [Hive -> HiveFile] /\ snapshot \in [Hive -> Shot]
        /\ \A h \in Hive : hive[h] \in HiveFile /\ snapshot[h] \in Shot
    BY <2>0 DEF Snap!TypeOK
  <2>l. /\ \A f \in HiveFile, v \in 1 .. MaxVersion, b \in BOOLEAN :
            /\ [f EXCEPT !.version = v, !.archive = b] \in HiveFile
            /\ [f EXCEPT !.loaded = b] \in HiveFile
            /\ [f EXCEPT !.archive = b] \in HiveFile /\ [f EXCEPT !.archive = b].version = f.version
        /\ \A f \in Shot, b \in BOOLEAN : [f EXCEPT !.archive = b] \in Shot
        /\ Snap!NoFile \in Shot
        /\ \A h \in Hive, v \in 0 .. MaxVersion : Snap!Superseded(h, v) \in Shot
    <3>1. 0 \in 0 .. MaxVersion BY <2>0
    <3> QED BY <3>1 DEF Snap!NoFile, Snap!Superseded
  <2>m. /\ \A g \in Hive, f \in HiveFile : [hive EXCEPT ![g] = f] \in [Hive -> HiveFile]
        /\ \A g \in Hive, f \in Shot : [snapshot EXCEPT ![g] = f] \in [Hive -> Shot]
    <3> HIDE DEF HiveFile, Shot
    <3> QED BY <2>k
  <2>1. CASE Snap!System
    <3> USE <2>1 DEF Snap!System, Snap!history
    <3>1. PICK g \in Hive :
            \/ /\ hive[g].loaded /\ hive[g].version < MaxVersion
               /\ hive' = [hive EXCEPT ![g].version = @ + 1, ![g].archive = TRUE]
            \/ hive' = [hive EXCEPT ![g].loaded = ~ @]
      OBVIOUS
    <3>2. hive' \in [Hive -> [version : 1 .. MaxVersion, loaded : BOOLEAN, archive : BOOLEAN]]
      <4>1. hive[g].version < MaxVersion => hive[g].version + 1 \in 1 .. MaxVersion
        BY <2>h, <2>0
      <4>2. PICK f \in HiveFile : hive' = [hive EXCEPT ![g] = f]
        <5>1. CASE /\ hive[g].loaded /\ hive[g].version < MaxVersion
                   /\ hive' = [hive EXCEPT ![g].version = @ + 1, ![g].archive = TRUE]
          <6>1. hive' = [hive EXCEPT ![g] = [hive[g] EXCEPT !.version = hive[g].version + 1, !.archive = TRUE]]
            BY <5>1
          <6>2. [hive[g] EXCEPT !.version = hive[g].version + 1, !.archive = TRUE] \in HiveFile
            BY <5>1, <4>1, <2>l, <2>k
          <6> QED BY <6>1, <6>2
        <5>2. CASE hive' = [hive EXCEPT ![g].loaded = ~ @]
          <6>1. hive' = [hive EXCEPT ![g] = [hive[g] EXCEPT !.loaded = ~ hive[g].loaded]]
            BY <5>2
          <6>2. [hive[g] EXCEPT !.loaded = ~ hive[g].loaded] \in HiveFile
            <7>1. (~ hive[g].loaded) \in BOOLEAN
              OBVIOUS
            <7>2. \A b \in BOOLEAN : [hive[g] EXCEPT !.loaded = b] \in HiveFile
              <8>1. hive[g] \in HiveFile
                BY <2>k
              <8>2. \A f \in HiveFile, b \in BOOLEAN : [f EXCEPT !.loaded = b] \in HiveFile
                BY <2>l
              <8> HIDE <2>1, <5>2
              <8> HIDE DEF HiveFile
              <8> QED BY <8>1, <8>2
            <7> HIDE DEF HiveFile
            <7> QED BY <7>1, <7>2, Zenon
          <6> QED BY <6>1, <6>2
        <5> QED BY <3>1, <5>1, <5>2
      <4> HIDE DEF HiveFile
      <4>3. hive' \in [Hive -> HiveFile]
        BY <4>2, <2>m
      <4> QED BY <4>3 DEF HiveFile
    <3>3. \A h \in Hive : hive'[h].version >= hive[h].version /\ hive'[h].version \in Nat
      <4> TAKE h \in Hive
      <4>1. hive'[h].version \in 1 .. MaxVersion
        BY <3>2
      <4>2. CASE h = g
        <5>1. hive'[g].version = hive[g].version + 1 \/ hive'[g].version = hive[g].version
          BY <3>1, <2>k
        <5> QED BY <4>1, <4>2, <5>1, <2>h, <2>0
      <4>3. CASE h # g
        <5>1. hive'[h] = hive[h]
          BY <3>1, <4>3, <2>k
        <5> QED BY <4>1, <5>1, <2>h, <2>0
      <4> QED BY <4>2, <4>3
    <3>4. Snap!TypeOK'
      BY <3>2, <2>0 DEF Snap!TypeOK, Snap!Files
    <3>5. Times'
      BY <3>3, <2>0, <2>h DEF Times
    <3>6. Making'
      <4>1. ASSUME NEW h \in Hive, FreshTo(h, hive[h].version) PROVE FreshTo(h, hive[h].version)'
        BY <4>1, <3>3, <2>h, <2>0 DEF FreshTo, Times
      <4> QED BY <4>1, <2>0 DEF Making, Snap!TypeOK
    <3>7. Walking' /\ Snap!OfOneTime' /\ Snap!HivesAreSaved'
      BY <2>0 DEF Walking, FreshTo, InArchive, Snap!OfOneTime, Snap!HivesAreSaved
    <3> QED BY <3>4, <3>5, <3>6, <3>7 DEF SnapInv
  <2>2. ASSUME NEW m \in Methods, NEW r \in BOOLEAN, NEW i \in Included, Snap!Start(m, r, i)
        PROVE SnapInv'
    <3> USE <2>2 DEF Snap!Start
    <3>1. \A h \in Hive : Snap!Versions[h] = hive[h].version /\ hive[h].version \in Nat
      BY <2>h DEF Snap!Versions
    <3>2. Snap!TypeOK'
      <4>1. todo' \subseteq Snap!Files
        BY <2>0 DEF Snap!Files
      <4>2. session' \in [method : Methods \cup {"none"}, r : BOOLEAN, included : Included \cup {{}}]
        OBVIOUS
      <4>3. sessions' \in 0 .. MaxSessions
        BY <2>0 DEF Snap!TypeOK
      <4> QED BY <4>1, <4>2, <4>3, <2>0 DEF Snap!TypeOK, Snap!Files
    <3>3. Times'
      BY <3>1 DEF Times, Snap!Versions
    <3> QED BY <3>2, <3>3 DEF SnapInv, Making, Walking, Snap!OfOneTime, Snap!HivesAreSaved
  <2>3. ASSUME NEW h \in Hive, Snap!SaveKey(h) PROVE SnapInv'
    <3> USE <2>3 DEF Snap!SaveKey
    <3>1. Snap!TypeOK'
      <4>1. 0 \in 0 .. MaxVersion /\ hive[h].version \in 0 .. MaxVersion
        BY <2>0, <2>h
      <4>2. snapshot' \in [Hive -> Shot]
        <5>1. PICK f \in Shot : snapshot' = [snapshot EXCEPT ![h] = f] \/ snapshot' = snapshot
          <6>1. Snap!Superseded(h, 0) \in Shot /\ Snap!Superseded(h, hive[h].version) \in Shot
            BY <4>1, <2>l
          <6>2. \/ snapshot' = [snapshot EXCEPT ![h] = Snap!Superseded(h, hive[h].version)]
                \/ snapshot' = [snapshot EXCEPT ![h] = Snap!Superseded(h, 0)]
                \/ snapshot' = snapshot
            OBVIOUS
          <6> HIDE DEF Shot
          <6> QED BY <6>1, <6>2
        <5> HIDE DEF Shot
        <5> QED BY <5>1, <2>m, <2>k
      <4> QED BY <4>2, <2>0 DEF Snap!TypeOK, Snap!Files
    <3>2. Times' /\ Walking' /\ Snap!OfOneTime' /\ Snap!HivesAreSaved'
      BY <2>0 DEF Times, Walking, Snap!OfOneTime, Snap!HivesAreSaved, Making
    <3>3. h \notin made
      BY <2>0 DEF Making
    <3>4. session.r
      BY <2>0 DEF Making
    <3>5. ASSUME NEW g \in made, g # h PROVE FreshTo(g, hive[g].version)'
      <4>1. g \in Hive /\ FreshTo(g, hive[g].version)
        BY <2>0 DEF Making, Snap!TypeOK
      <4>2. snapshot'[g] = snapshot[g]
        BY <3>5, <4>1, <2>0 DEF Snap!TypeOK
      <4> QED BY <4>1, <4>2 DEF FreshTo
    <3>6. h \in made' => FreshTo(h, hive[h].version)'
      <4> SUFFICES ASSUME h \in made' PROVE FreshTo(h, hive[h].version)'
        OBVIOUS
      <4>1. snapshot' = [snapshot EXCEPT ![h] = Snap!Superseded(h, hive[h].version)]
        BY <3>3
      <4>2. snapshot'[h] = Snap!Superseded(h, hive[h].version)
        BY <4>1, <2>0 DEF Snap!TypeOK
      <4> QED BY <4>2, <2>h, <2>0 DEF FreshTo, Snap!Superseded, Times
    <3>7. Making'
      BY <2>0, <3>3, <3>4, <3>5, <3>6 DEF Making
    <3> QED BY <3>1, <3>2, <3>7 DEF SnapInv
  <2>4. CASE Snap!SnapshotsDone
    <3> USE <2>4 DEF Snap!SnapshotsDone
    <3>1. Snap!TypeOK'
      BY <2>0 DEF Snap!TypeOK, Snap!Files
    <3>2. \A h \in Hive : walked'[h] = hive[h].version /\ hive[h].version \in Nat
      BY <2>h DEF Snap!Versions
    <3>3. Times'
      BY <3>2, <2>0 DEF Times, Snap!Versions
    <3>4. Making' /\ Snap!OfOneTime' /\ Snap!HivesAreSaved'
      BY <2>0 DEF Making, Snap!OfOneTime, Snap!HivesAreSaved
    <3>5. Walking'
      BY <3>2, <2>0 DEF Walking, Making, FreshTo, Snap!TypeOK
    <3> QED BY <3>1, <3>3, <3>4, <3>5 DEF SnapInv
  <2>5. ASSUME NEW h \in Hive, Snap!VisitHive(h) PROVE SnapInv'
    <3> USE <2>5 DEF Snap!VisitHive, Snap!Visit, Snap!history
    <3>1. /\ hive' \in [Hive -> [version : 1 .. MaxVersion, loaded : BOOLEAN, archive : BOOLEAN]]
          /\ \A g \in Hive : hive'[g].version = hive[g].version
      BY <2>0, <2>h, SMTT(60) DEF Snap!TypeOK, Snap!Reset
    <3>2. entries \subseteq entries'
          /\ \A e \in entries' : e \in entries \/ (e.from = "hive" /\ e = [name |-> h, version |-> hive[h].version, from |-> "hive"])
      OBVIOUS
    <3>3. entries' \subseteq [name : Hive, version : 0 .. MaxVersion, from : {"hive", "snapshot"}]
      BY <3>2, <2>0, <2>h DEF Snap!TypeOK
    <3>4. Snap!TypeOK'
      BY <3>1, <3>3, <2>0 DEF Snap!TypeOK, Snap!Files
    <3>5. Times'
      BY <3>1, <2>0 DEF Times
    <3>6. Making' /\ Snap!HivesAreSaved'
      BY <2>0 DEF Making, Snap!HivesAreSaved
    <3>7. Snap!OfOneTime'
      BY <3>2, <2>0 DEF Snap!OfOneTime
    <3>8. Walking'
      BY <3>2, <2>0 DEF Walking, FreshTo, InArchive
    <3> QED BY <3>4, <3>5, <3>6, <3>7, <3>8 DEF SnapInv
  <2>6. ASSUME NEW h \in Hive, Snap!VisitSnapshot(h) PROVE SnapInv'
    <3> USE <2>6 DEF Snap!VisitSnapshot, Snap!Visit, Snap!history
    <3> DEFINE new == [name |-> h, version |-> snapshot[h].version, from |-> "snapshot"]
    <3>1. /\ snapshot' \in [Hive -> [there : BOOLEAN, version : 0 .. MaxVersion, archive : BOOLEAN]]
          /\ \A g \in Hive \ {h} : snapshot'[g] = snapshot[g]
      <4>1. Snap!Reset(snapshot[h].archive) \in BOOLEAN
        BY <2>h DEF Snap!Reset
      <4>2. PICK f \in Shot : snapshot' = [snapshot EXCEPT ![h] = f] \/ snapshot' = snapshot
        <5>1. snapshot' = snapshot
              \/ snapshot' = [snapshot EXCEPT ![h] = Snap!NoFile]
              \/ snapshot' = [snapshot EXCEPT ![h] = [snapshot[h] EXCEPT !.archive = Snap!Reset(snapshot[h].archive)]]
          OBVIOUS
        <5> HIDE DEF Shot, Snap!VisitSnapshot
        <5> QED BY <4>1, <5>1, <2>l, <2>k
      <4>3. snapshot' \in [Hive -> Shot]
        <5> HIDE DEF Shot
        <5> QED BY <4>2, <2>m, <2>k
      <4> QED BY <4>2, <4>3, <2>k
    <3>2. entries \subseteq entries' /\ \A e \in entries' : e \in entries \/ e = new
      OBVIOUS
    <3>3. entries' \subseteq [name : Hive, version : 0 .. MaxVersion, from : {"hive", "snapshot"}]
      BY <3>2, <2>0, <2>h DEF Snap!TypeOK
    <3>4. Snap!TypeOK'
      BY <3>1, <3>3, <2>0 DEF Snap!TypeOK, Snap!Files
    <3>5. Times' /\ Making' /\ Snap!HivesAreSaved'
      BY <2>0 DEF Times, Making, Snap!HivesAreSaved
    <3>6. h \in made => FreshTo(h, walked[h])
      BY <2>0 DEF Walking
    <3>7. Snap!OfOneTime'
      BY <3>2, <3>6, <2>0 DEF Snap!OfOneTime, FreshTo
    <3>8. h \in made => new \in entries'
      BY <3>6, <2>0 DEF FreshTo, Snap!Changed, Making
    <3>9. Walking'
      <4> SUFFICES ASSUME NEW g \in made
                   PROVE /\ <<g, "snapshot">> \in todo' => FreshTo(g, walked[g])'
                         /\ g \in session.included => <<g, "snapshot">> \in todo' \/ InArchive(g)'
        BY DEF Walking
      <4>1. g \in Hive  BY <2>0 DEF Snap!TypeOK
      <4>2. CASE g = h
        <5>1. InArchive(h)'
          BY <3>8, <3>6, <2>h, <2>0, <4>2 DEF InArchive, FreshTo, Times
        <5> QED BY <4>2, <5>1
      <4>3. CASE g # h
        BY <4>1, <4>3, <3>1, <3>2, <2>0 DEF Walking, FreshTo, InArchive
      <4> QED BY <4>2, <4>3
    <3> QED BY <3>4, <3>5, <3>7, <3>9 DEF SnapInv
  <2>7. CASE Snap!Finish
    <3> USE <2>7 DEF Snap!Finish, Snap!history
    <3>1. Snap!TypeOK' /\ Times' /\ Making' /\ Walking' /\ Snap!OfOneTime'
      BY <2>0 DEF Snap!TypeOK, Times, Making, Walking, Snap!OfOneTime, Snap!Files
    <3>2. Snap!HivesAreSaved'
      BY <2>0 DEF Walking, Snap!HivesAreSaved, InArchive
    <3> QED BY <3>1, <3>2 DEF SnapInv
  <2>8. CASE UNCHANGED Snap!vars
    BY <2>8, <2>0 DEF Snap!vars, SnapInv, Snap!TypeOK, Times, Making, Walking, Snap!OfOneTime, Snap!HivesAreSaved,
       FreshTo, InArchive, Snap!Files
  <2> QED BY <2>1, <2>2, <2>3, <2>4, <2>5, <2>6, <2>7, <2>8 DEF Snap!Next, Snap!Session
-----------------------------------------------------------------------------
(* fsplitw. *)

\* The function by which FlattenSeq is defined.
Chain(s, f) ==
    f = [i \in 1 .. Len(s) |-> IF i = 1 THEN s[i] ELSE f[i - 1] \o s[i]]

LEMMA ChainExists ==
    ASSUME NEW S, NEW s \in Seq(Seq(S))
    PROVE  \E f \in [1 .. Len(s) -> Seq(S)] : Chain(s, f)
<1> DEFINE T == Seq(S)
           m == Len(s)
           G == [i \in Nat |-> [x \in T |-> IF i \in 1 .. m THEN x \o s[i] ELSE x]]
<1>1. m \in Nat /\ \A i \in 1 .. m : s[i] \in T
  BY LenProperties, ElementOfSeq
<1>2. <<>> \in T /\ \A x \in T, i \in 1 .. m : x \o s[i] \in T /\ <<>> \o x = x
  BY <1>1, EmptySeq, ConcatProperties, ConcatEmptySeq
<1> HIDE DEF T, m
<1>3. G \in [Nat -> [T -> T]]
  BY <1>2
<1>4. \A i \in 1 .. m, x \in T : G[i][x] = x \o s[i]
  BY <1>1
<1> HIDE DEF G
<1>5. PICK g \in [0 .. m -> T] : g[0] = <<>> /\ \A i \in 1 .. m : g[i] = G[i][g[i - 1]]
  <2>1. \A n \in Nat : \E g \in [0 .. n -> T] : g[0] = <<>> /\ \A i \in 1 .. n : g[i] = G[i][g[i - 1]]
    <3>1. \A a \in T, n \in Nat : \E g : Iterates(g, T, a, G, n)
      BY <1>3, Recursion
    <3> QED BY <3>1, <1>2 DEF Iterates
  <2> QED BY <1>1, <2>1
<1>6. ASSUME NEW i \in 1 .. m PROVE g[i] \in T /\ g[i] = IF i = 1 THEN s[i] ELSE g[i - 1] \o s[i]
  <2>1. i - 1 \in 0 .. m /\ i \in 0 .. m
    BY <1>1
  <2>2. g[i - 1] \in T /\ g[i] = g[i - 1] \o s[i] /\ g[i] \in T
    BY <2>1, <1>4, <1>5
  <2>3. i = 1 => g[i - 1] = <<>>
    BY <1>5
  <2>4. <<>> \o s[i] = s[i]
    BY <1>1, <1>2
  <2> QED BY <2>2, <2>3, <2>4
<1> DEFINE f == [i \in 1 .. m |-> g[i]]
<1>7. f \in [1 .. m -> T]
  BY <1>6
<1>8. \A i \in 1 .. m : f[i] = IF i = 1 THEN s[i] ELSE f[i - 1] \o s[i]
  <2> TAKE i \in 1 .. m
  <2>1. i # 1 => i - 1 \in 1 .. m
    BY <1>1
  <2> QED BY <1>6, <2>1
<1>9. f = [i \in 1 .. m |-> IF i = 1 THEN s[i] ELSE f[i - 1] \o s[i]]
  <2> HIDE DEF f
  <2>1. f = [i \in 1 .. m |-> f[i]] BY <1>7
  <2> QED BY <2>1, <1>8
<1> HIDE DEF f
<1> QED BY <1>7, <1>9 DEF Chain, T, m

\* Chains of sequences with a common beginning agree on it.
LEMMA ChainUnique ==
    ASSUME NEW s, NEW t, NEW f, NEW g, NEW n \in Nat,
           Len(s) \in Nat, Len(t) \in Nat, n <= Len(s), n <= Len(t), \A i \in 1 .. n : s[i] = t[i],
           Chain(s, f), Chain(t, g)
    PROVE  \A i \in 1 .. n : f[i] = g[i]
<1>1. /\ \A i \in 1 .. Len(s) : f[i] = IF i = 1 THEN s[i] ELSE f[i - 1] \o s[i]
      /\ \A i \in 1 .. Len(t) : g[i] = IF i = 1 THEN t[i] ELSE g[i - 1] \o t[i]
  BY DEF Chain
<1> DEFINE P == {k \in Nat : k \in 1 .. n => f[k] = g[k]}
<1>2. 0 \in P
  OBVIOUS
<1>3. ASSUME NEW k \in P PROVE k + 1 \in P
  <2> SUFFICES ASSUME k + 1 \in 1 .. n PROVE f[k + 1] = g[k + 1]
    OBVIOUS
  <2>0. k + 1 \in 1 .. Len(s) /\ k + 1 \in 1 .. Len(t) /\ (k + 1) - 1 = k
    OBVIOUS
  <2>1. CASE k = 0
    BY <2>0, <2>1, <1>1
  <2>2. CASE k # 0
    <3>1. k \in 1 .. n /\ k + 1 # 1
      BY <2>2
    <3>2. f[k] = g[k]
      BY <3>1
    <3>3. f[k + 1] = f[k] \o s[k + 1] /\ g[k + 1] = g[k] \o t[k + 1]
      BY <3>1, <2>0, <1>1
    <3> QED BY <3>2, <3>3
  <2> QED BY <2>1, <2>2
<1>4. P = Nat
  <2> HIDE DEF P
  <2>1. P \in SUBSET Nat BY DEF P
  <2> QED BY <1>2, <1>3, <2>1, NatInd
<1> QED BY <1>4

LEMMA Flat ==
    ASSUME NEW S, NEW s \in Seq(Seq(S)), s # <<>>
    PROVE  \E f \in [1 .. Len(s) -> Seq(S)] : Chain(s, f) /\ Split!FlattenSeq(s) = f[Len(s)]
<1>1. Len(s) \in Nat /\ Len(s) # 0
  BY EmptySeq
<1> DEFINE F == CHOOSE f : f = [i \in 1 .. Len(s) |-> IF i = 1 THEN s[i] ELSE f[i - 1] \o s[i]]
<1>2. Split!FlattenSeq(s) = F[Len(s)]
  BY <1>1 DEF Split!FlattenSeq
<1>3. PICK g \in [1 .. Len(s) -> Seq(S)] : Chain(s, g)
  BY ChainExists
<1>4. Chain(s, F)
  BY <1>3 DEF Chain
<1> HIDE DEF F
<1>5. \A i \in 1 .. Len(s) : F[i] = g[i]
  BY <1>1, <1>3, <1>4, ChainUnique
<1>6. Len(s) \in 1 .. Len(s)
  BY <1>1
<1> QED BY <1>2, <1>3, <1>5, <1>6

LEMMA FlatEmpty == Split!FlattenSeq(<<>>) = <<>>
BY DEF Split!FlattenSeq

LEMMA FlatAppend ==
    ASSUME NEW S, NEW s \in Seq(Seq(S)), NEW e \in Seq(S)
    PROVE  /\ Split!FlattenSeq(s) \in Seq(S)
           /\ Split!FlattenSeq(Append(s, e)) = Split!FlattenSeq(s) \o e
<1> DEFINE t == Append(s, e)
<1>1. /\ t \in Seq(Seq(S)) /\ t # <<>> /\ Len(t) = Len(s) + 1 /\ Len(s) \in Nat
      /\ \A i \in 1 .. Len(s) : t[i] = s[i]
      /\ t[Len(s) + 1] = e
  BY AppendProperties, LenProperties
<1> HIDE DEF t
<1>2. PICK g \in [1 .. Len(t) -> Seq(S)] : Chain(t, g) /\ Split!FlattenSeq(t) = g[Len(t)]
  BY <1>1, Flat
<1>3. \A i \in 1 .. Len(t) : g[i] = IF i = 1 THEN t[i] ELSE g[i - 1] \o t[i]
  BY <1>2 DEF Chain
<1>4. CASE s = <<>>
  <2>1. Len(s) = 0 /\ Split!FlattenSeq(s) = <<>> /\ <<>> \in Seq(S) /\ <<>> \o e = e
    BY <1>4, FlatEmpty, EmptySeq, ConcatEmptySeq
  <2>2. g[1] = t[1] /\ t[1] = e /\ Len(t) = 1
    BY <2>1, <1>1, <1>3
  <2> QED BY <2>1, <2>2, <1>2 DEF t
<1>5. CASE s # <<>>
  <2>1. PICK f \in [1 .. Len(s) -> Seq(S)] : Chain(s, f) /\ Split!FlattenSeq(s) = f[Len(s)]
    BY <1>5, Flat
  <2>2. Len(s) \in 1 .. Len(s)
    BY <1>1, <1>5, EmptySeq
  <2>3. \A i \in 1 .. Len(s) : f[i] = g[i]
    <3>1. Len(s) <= Len(t) /\ Len(t) \in Nat BY <1>1
    <3>2. Chain(s, f) /\ Chain(t, g) /\ Len(s) \in Nat /\ Len(s) <= Len(s) /\ \A i \in 1 .. Len(s) : s[i] = t[i]
      BY <1>1, <2>1, <1>2
    <3> QED BY <3>1, <3>2, ChainUnique, SMTT(60)
  <2>4. g[Len(t)] = g[Len(s)] \o e
    <3>1. Len(t) \in 1 .. Len(t) /\ Len(t) # 1 /\ Len(t) - 1 = Len(s) /\ t[Len(t)] = e
      BY <1>1, <2>2
    <3> QED BY <3>1, <1>3
  <2> QED BY <2>1, <2>2, <2>3, <2>4, <1>2 DEF t
<1> QED BY <1>4, <1>5

LEMMA FrontOf ==
    ASSUME NEW S, NEW s \in Seq(S), s # <<>>
    PROVE  /\ Split!Front(s) \in Seq(S) /\ Len(Split!Front(s)) = Len(s) - 1 /\ Len(s) \in Nat \ {0}
           /\ \A i \in 1 .. Len(s) - 1 : Split!Front(s)[i] = s[i]
           /\ s[Len(s)] \in S
           /\ s = Append(Split!Front(s), s[Len(s)])
<1>1. Len(s) \in Nat \ {0} /\ Len(s) - 1 \in Int /\ 1 \in Int
  BY EmptySeq
<1>2. \A i \in 1 .. Len(s) : s[i] \in S
  BY ElementOfSeq
<1>3. /\ Split!Front(s) \in Seq(S)
      /\ Len(Split!Front(s)) = (IF 1 <= Len(s) - 1 THEN Len(s) - 1 - 1 + 1 ELSE 0)
      /\ \A i \in 1 .. Len(s) - 1 - 1 + 1 : Split!Front(s)[i] = s[1 + i - 1]
  <2>1. \A i \in 1 .. Len(s) - 1 : s[i] \in S
    BY <1>1, <1>2
  <2> QED BY <1>1, <2>1, SubSeqProperties DEF Split!Front
<1>4. Len(Split!Front(s)) = Len(s) - 1 /\ \A i \in 1 .. Len(s) - 1 : Split!Front(s)[i] = s[i]
  <2>1. \A i \in 1 .. Len(s) - 1 : i \in 1 .. Len(s) - 1 - 1 + 1 /\ 1 + i - 1 = i
    <3> DEFINE l == Len(s)
    <3>1. l \in Nat BY <1>1
    <3> HIDE DEF l
    <3>2. \A i \in 1 .. l - 1 : i \in 1 .. l - 1 - 1 + 1 /\ 1 + i - 1 = i BY <3>1
    <3> QED BY <3>2 DEF l
  <2>2. Len(Split!Front(s)) = Len(s) - 1
    <3>1. \A l \in Nat \ {0} : (IF 1 <= l - 1 THEN l - 1 - 1 + 1 ELSE 0) = l - 1
      OBVIOUS
    <3>2. Len(Split!Front(s)) = (IF 1 <= Len(s) - 1 THEN Len(s) - 1 - 1 + 1 ELSE 0)
      BY <1>3
    <3> HIDE <1>3
    <3> QED BY <1>1, <3>1, <3>2
  <2> QED BY <1>3, <2>1, <2>2
<1>5. s[Len(s)] \in S
  BY <1>1, <1>2
<1>6. /\ Append(Split!Front(s), s[Len(s)]) \in Seq(S)
      /\ Len(Append(Split!Front(s), s[Len(s)])) = Len(Split!Front(s)) + 1
      /\ \A i \in 1 .. Len(Split!Front(s)) : Append(Split!Front(s), s[Len(s)])[i] = Split!Front(s)[i]
      /\ Append(Split!Front(s), s[Len(s)])[Len(Split!Front(s)) + 1] = s[Len(s)]
  BY <1>3, <1>5, AppendProperties
<1>7. \A i \in 1 .. Len(s) : Append(Split!Front(s), s[Len(s)])[i] = s[i]
  <2> TAKE i \in 1 .. Len(s)
  <2>1. CASE i = Len(s)
    BY <2>1, <1>1, <1>4, <1>6
  <2>2. CASE i # Len(s)
    <3>1. i \in 1 .. Len(s) - 1 /\ i \in 1 .. Len(Split!Front(s)) BY <2>2, <1>1, <1>4
    <3> QED BY <3>1, <1>4, <1>6
  <2> QED BY <2>1, <2>2
<1>8. Len(Append(Split!Front(s), s[Len(s)])) = Len(s)
  BY <1>1, <1>4, <1>6
<1> DEFINE t == Append(Split!Front(s), s[Len(s)])
<1>9. t \in Seq(S) /\ Len(t) = Len(s) /\ \A i \in 1 .. Len(s) : t[i] = s[i]
  BY <1>6, <1>7, <1>8
<1>10. s = t
  <2> HIDE DEF t
  <2> QED BY <1>9, SeqEqual
<1> QED BY <1>1, <1>3, <1>4, <1>5, <1>10

LEMMA Halves ==
    ASSUME NEW S, NEW s \in Seq(S), NEW n \in 0 .. Len(s)
    PROVE  /\ SubSeq(s, 1, n) \in Seq(S) /\ Len(SubSeq(s, 1, n)) = n
           /\ SubSeq(s, n + 1, Len(s)) \in Seq(S) /\ Len(SubSeq(s, n + 1, Len(s))) = Len(s) - n
           /\ SubSeq(s, 1, n) \o SubSeq(s, n + 1, Len(s)) = s
<1> DEFINE a == SubSeq(s, 1, n)
           b == SubSeq(s, n + 1, Len(s))
<1>1. Len(s) \in Nat /\ n \in Nat /\ n <= Len(s) /\ \A i \in 1 .. Len(s) : s[i] \in S
  BY LenProperties, ElementOfSeq
<1>2. a \in Seq(S) /\ Len(a) = n /\ \A i \in 1 .. n : a[i] = s[i]
  <2>1. \A i \in 1 .. n : s[i] \in S BY <1>1
  <2>2. 1 \in Int /\ n \in Int BY <1>1
  <2>3. /\ a \in Seq(S)
        /\ Len(a) = (IF 1 <= n THEN n - 1 + 1 ELSE 0)
        /\ \A i \in 1 .. n - 1 + 1 : a[i] = s[1 + i - 1]
    BY <2>1, <2>2, SubSeqProperties
  <2> HIDE DEF a
  <2>4. \A i \in 1 .. n : i \in 1 .. n - 1 + 1 /\ 1 + i - 1 = i BY <1>1
  <2> QED BY <1>1, <2>3, <2>4
<1>3. b \in Seq(S) /\ Len(b) = Len(s) - n /\ \A i \in 1 .. Len(s) - n : b[i] = s[n + i]
  <2>1. \A i \in n + 1 .. Len(s) : s[i] \in S BY <1>1
  <2>2. n + 1 \in Int /\ Len(s) \in Int BY <1>1
  <2>3. /\ b \in Seq(S)
        /\ Len(b) = (IF n + 1 <= Len(s) THEN Len(s) - (n + 1) + 1 ELSE 0)
        /\ \A i \in 1 .. Len(s) - (n + 1) + 1 : b[i] = s[(n + 1) + i - 1]
    BY <2>1, <2>2, SubSeqProperties
  <2> HIDE DEF b
  <2>4. \A i \in 1 .. Len(s) - n : i \in 1 .. Len(s) - (n + 1) + 1 /\ (n + 1) + i - 1 = n + i BY <1>1
  <2> QED BY <1>1, <2>3, <2>4
<1> HIDE DEF a, b
<1>4. a \o b \in Seq(S) /\ Len(a \o b) = Len(s)
      /\ \A i \in 1 .. Len(s) : (a \o b)[i] = IF i <= n THEN a[i] ELSE b[i - n]
  <2>1. /\ a \o b \in Seq(S) /\ Len(a \o b) = Len(a) + Len(b)
        /\ \A i \in 1 .. Len(a) + Len(b) : (a \o b)[i] = IF i <= Len(a) THEN a[i] ELSE b[i - Len(a)]
    BY <1>2, <1>3, ConcatProperties
  <2> QED BY <1>1, <1>2, <1>3, <2>1
<1>5. \A i \in 1 .. Len(s) : (a \o b)[i] = s[i]
  <2> TAKE i \in 1 .. Len(s)
  <2>1. CASE i <= n
    <3>1. i \in 1 .. n BY <2>1, <1>1
    <3> QED BY <3>1, <2>1, <1>2, <1>4
  <2>2. CASE ~ (i <= n)
    <3>1. i - n \in 1 .. Len(s) - n /\ n + (i - n) = i BY <2>2, <1>1
    <3> QED BY <3>1, <2>2, <1>3, <1>4
  <2> QED BY <2>1, <2>2
<1>6. a \o b = s
  BY <1>4, <1>5, SeqEqual
<1> QED BY <1>2, <1>3, <1>6 DEF a, b

LEMMA BytesAre ==
    ASSUME NEW a \in Nat, NEW b \in Nat, a <= b
    PROVE  Split!Bytes(a, b) \in Seq(Nat) /\ Len(Split!Bytes(a, b)) = b - a /\ \A i \in 1 .. b - a : Split!Bytes(a, b)[i] = a + i
<1>1. b - a \in Nat
  OBVIOUS
<1> DEFINE n == b - a
<1>2. [i \in 1 .. n |-> a + i] \in [1 .. n -> Nat]
  OBVIOUS
<1>3. [i \in 1 .. n |-> a + i] \in Seq(Nat) /\ Len([i \in 1 .. n |-> a + i]) = n
  <2> HIDE DEF n
  <2>1. n \in Nat BY <1>1 DEF n
  <2> QED BY <1>2, <2>1
<1> QED BY <1>3 DEF Split!Bytes

LEMMA BytesJoin ==
    ASSUME NEW a \in Nat, NEW b \in Nat, NEW c \in Nat, a <= b, b <= c
    PROVE  Split!Bytes(a, b) \o Split!Bytes(b, c) = Split!Bytes(a, c)
<1> DEFINE x == Split!Bytes(a, b)
           y == Split!Bytes(b, c)
           z == Split!Bytes(a, c)
<1>1. x \in Seq(Nat) /\ Len(x) = b - a /\ \A i \in 1 .. b - a : x[i] = a + i
  BY BytesAre
<1>2. y \in Seq(Nat) /\ Len(y) = c - b /\ \A i \in 1 .. c - b : y[i] = b + i
  BY BytesAre
<1>3. z \in Seq(Nat) /\ Len(z) = c - a /\ \A i \in 1 .. c - a : z[i] = a + i
  BY BytesAre
<1> HIDE DEF x, y, z
<1>4. /\ x \o y \in Seq(Nat) /\ Len(x \o y) = Len(x) + Len(y)
      /\ \A i \in 1 .. Len(x) + Len(y) : (x \o y)[i] = IF i <= Len(x) THEN x[i] ELSE y[i - Len(x)]
  BY <1>1, <1>2, ConcatProperties
<1>5. Len(x \o y) = Len(z) /\ Len(x) + Len(y) = c - a
  BY <1>1, <1>2, <1>3, <1>4
<1>6. \A i \in 1 .. Len(z) : (x \o y)[i] = z[i]
  <2> TAKE i \in 1 .. Len(z)
  <2>0. i \in 1 .. c - a /\ z[i] = a + i /\ (x \o y)[i] = IF i <= b - a THEN x[i] ELSE y[i - (b - a)]
    BY <1>1, <1>3, <1>4, <1>5
  <2>1. CASE i <= b - a
    <3>1. i \in 1 .. b - a BY <2>0, <2>1
    <3> QED BY <2>0, <2>1, <3>1, <1>1
  <2>2. CASE ~ (i <= b - a)
    <3>1. i - (b - a) \in 1 .. c - b /\ b + (i - (b - a)) = a + i BY <2>0, <2>2
    <3> QED BY <2>0, <2>2, <3>1, <1>2
  <2> QED BY <2>1, <2>2
<1> QED BY <1>3, <1>4, <1>5, <1>6, SeqEqual DEF x, y, z

\* What a Split!file takes on a Split!disk is whole sectors, and it fits if the Split!file does.
WholeSectors(f) == \E k \in Nat : f = k * Sector

LEMMA Fits ==
    ASSUME Sector \in Nat \ {0}, NEW n \in Nat, NEW f \in Nat, n <= f, WholeSectors(f)
    PROVE  f - Split!InSectors(n) \in Nat /\ WholeSectors(f - Split!InSectors(n))
<1> DEFINE q == (-n) \div Sector
           r == (-n) % Sector
<1>1. q \in Int /\ r \in 0 .. Sector - 1 /\ -n = (Sector * q) + r
  OBVIOUS
<1>2. Split!InSectors(n) = n + r
  BY DEF Split!InSectors
<1>3. PICK k \in Nat : f = k * Sector
  BY DEF WholeSectors
<1> HIDE DEF q, r
<1>4. n + r = -(Sector * q) /\ Sector * q \in Int /\ Sector * q = q * Sector
  BY <1>1
<1>5. f - (n + r) = (k + q) * Sector
  <2>1. (k + q) * Sector = (k * Sector) + (q * Sector)
    BY <1>1
  <2>2. k * Sector \in Int OBVIOUS
  <2> QED BY <2>1, <2>2, <1>3, <1>4
<1>6. f - (n + r) > -Sector
  BY <1>1
<1>7. k + q \in Nat
  <2>1. k + q <= -1 => (k + q) * Sector <= -Sector
    <3> DEFINE m == k + q
    <3>1. m \in Int BY <1>1
    <3> HIDE DEF m
    <3>2. m <= -1 => m * Sector <= -Sector BY <3>1
    <3> QED BY <3>2 DEF m
  <2>2. k + q \in Int BY <1>1
  <2>3. f - (n + r) \in Int BY <1>1
  <2> QED BY <2>1, <2>2, <2>3, <1>5, <1>6
<1>8. (k + q) * Sector \in Nat
  BY <1>7
<1> QED BY <1>2, <1>5, <1>7, <1>8 DEF WholeSectors

(* What the buffer, the parts and the room are, beyond the type invariant. *)
Typed ==
    /\ FileSize \in Nat /\ dwBufSize \in Nat /\ dwBufSize < Modulus
    /\ lpBuffer \in Seq(Nat) /\ parts \in Seq(Seq(Nat))
    /\ WholeSectors(free)

Busy == {"create", "write", "prompt"}

(* At which step which part is open, and how parts are counted. *)
Splitting ==
    ended \notin {"crashed", "cancelled"} =>
        /\ does = "open" => readpos = 0 /\ parts = <<>>
        /\ does \in {"read"} \cup Busy => dwBufSize # 0
        /\ does \in Busy => lpBuffer # <<>>
        /\ does = "write" => parts # <<>> /\ parts[Len(parts)] = <<>>
        /\ dwFileCounter = Len(parts) + (IF does \in {"create", "prompt"} THEN 1 ELSE 0)
        /\ \A i \in 1 .. Len(parts) :
              Len(parts[i]) \in 1 .. dwBufSize \/ (does = "write" /\ i = Len(parts))
        /\ does = "end" => readpos = FileSize

SplitInv == Split!TypeOK /\ Typed /\ Splitting /\ Split!PartsInOrder

LEMMA SplitDone == SplitInv => Split!SplitIsWhole
<1> SUFFICES ASSUME SplitInv, ended = "done" PROVE Split!SplitIsWhole
  BY DEF Split!SplitIsWhole
<1>1. Split!TypeOK /\ Typed /\ Splitting /\ Split!PartsInOrder
  BY DEF SplitInv
<1>2. does = "end" /\ ended \notin {"crashed", "cancelled"}
  BY <1>1 DEF Split!TypeOK
<1>3. readpos = FileSize /\ dwFileCounter = Len(parts) + 0 /\ \A i \in 1 .. Len(parts) : Len(parts[i]) \in 1 .. dwBufSize
  BY <1>1, <1>2 DEF Splitting
<1>4. parts \in Seq(Seq(Nat)) /\ Len(parts) \in Nat /\ DOMAIN parts = 1 .. Len(parts)
  BY <1>1, LenProperties DEF Typed
<1>5. Split!FlattenSeq(parts) \o <<>> = Split!Bytes(0, readpos) /\ Split!FlattenSeq(parts) \o <<>> = Split!FlattenSeq(parts)
  <2>1. Split!FlattenSeq(parts) \in Seq(Nat)
    <3>1. <<>> \in Seq(Nat) BY EmptySeq
    <3> QED BY <1>4, <3>1, FlatAppend
  <2> QED BY <2>1, <1>1, <1>2, ConcatEmptySeq DEF Split!PartsInOrder
<1> QED BY <1>2, <1>3, <1>4, <1>5 DEF Split!SplitIsWhole

LEMMA SplitInit == Split!Init => SplitInv
<1> SUFFICES ASSUME Split!Init PROVE SplitInv
  OBVIOUS
<1>0. /\ Sector \in Nat \ {0} /\ Modulus \in Nat \ {0} /\ FileSizes \subseteq Nat
      /\ FileSize \in Nat /\ dwBufSize \in Nat /\ dwBufSize < Modulus /\ free \in Nat /\ free % Sector = 0
  BY SplitBounds DEF Split!BoundsAssumption, Split!Init
<1>1. Split!TypeOK
  <2>1. Len(lpBuffer) = 0 /\ Len(parts) = 0
    BY EmptySeq DEF Split!Init
  <2>2. does = "open" /\ readpos = 0 /\ dwRetryLen = 0 /\ dwFileCounter = 0 /\ ended = "not yet"
    BY DEF Split!Init
  <2>3. /\ 0 \in 0 .. FileSize /\ 0 \in 0 .. Modulus - 1 /\ 0 <= dwBufSize
    BY <1>0
  <2> HIDE DEF Split!Init
  <2> QED BY <1>0, <2>1, <2>2, <2>3 DEF Split!TypeOK
<1>2. Typed
  <2>1. free = Sector * (free \div Sector) + (free % Sector) /\ free \div Sector \in Nat
    BY <1>0
  <2> DEFINE k == free \div Sector
  <2>2. k \in Nat /\ free = k * Sector
    <3>1. k \in Nat /\ free = Sector * k + 0 BY <1>0, <2>1
    <3> HIDE DEF k
    <3>2. Sector * k = k * Sector /\ Sector * k \in Nat BY <3>1, <1>0
    <3> QED BY <3>1, <3>2
  <2>3. <<>> \in Seq(Nat) /\ <<>> \in Seq(Seq(Nat))
    BY EmptySeq
  <2> QED BY <1>0, <2>2, <2>3 DEF Typed, Split!Init, WholeSectors
<1>3. Splitting
  <2>1. Len(parts) = 0
    BY EmptySeq DEF Split!Init
  <2>2. does = "open" /\ readpos = 0 /\ parts = <<>> /\ dwFileCounter = 0
    BY DEF Split!Init
  <2> QED BY <2>1, <2>2 DEF Splitting, Busy
<1>4. Split!PartsInOrder
  <2>1. 0 \in Nat /\ 0 <= 0 OBVIOUS
  <2>2. Split!Bytes(0, 0) \in Seq(Nat) /\ Len(Split!Bytes(0, 0)) = 0 - 0
    BY <2>1, BytesAre
  <2>3. Split!Bytes(0, 0) = <<>>
    BY <2>2, EmptySeq
  <2>4. <<>> \o <<>> = <<>>
    BY EmptySeq, ConcatEmptySeq
  <2> QED BY <2>3, <2>4, FlatEmpty DEF Split!PartsInOrder, Split!Init
<1> QED BY <1>1, <1>2, <1>3, <1>4 DEF SplitInv

\* The facts that a step is about.
LEMMA SplitFacts ==
    ASSUME SplitInv
    PROVE  /\ does \in {"open", "read", "end"} \cup Busy
           /\ FileSize \in Nat /\ dwBufSize \in Nat /\ dwBufSize < Modulus /\ Modulus \in Nat \ {0} /\ Sector \in Nat \ {0}
           /\ lpBuffer \in Seq(Nat) /\ Len(lpBuffer) \in Nat /\ Len(lpBuffer) <= dwBufSize
           /\ parts \in Seq(Seq(Nat)) /\ Len(parts) \in Nat
           /\ \A i \in 1 .. Len(parts) : parts[i] \in Seq(Nat) /\ Len(parts[i]) \in Nat
           /\ Split!FlattenSeq(parts) \in Seq(Nat)
           /\ free \in Nat /\ WholeSectors(free)
           /\ dwRetryLen \in 0 .. Modulus - 1 /\ readpos \in 0 .. FileSize
           /\ dwFileCounter \in {Len(parts), Len(parts) + 1}
           /\ (ended = "not yet") = (does # "end")
<1>1. Split!TypeOK /\ Typed
  BY DEF SplitInv
<1>2. lpBuffer \in Seq(Nat) /\ parts \in Seq(Seq(Nat))
  BY <1>1 DEF Typed
<1>3. Len(lpBuffer) \in Nat /\ Len(parts) \in Nat
  BY <1>2, LenProperties
<1>4. \A i \in 1 .. Len(parts) : parts[i] \in Seq(Nat)
  BY <1>2, ElementOfSeq
<1>5. \A i \in 1 .. Len(parts) : Len(parts[i]) \in Nat
  BY <1>4, LenProperties
<1>6. Split!FlattenSeq(parts) \in Seq(Nat)
  <2>1. <<>> \in Seq(Nat) BY EmptySeq
  <2> QED BY <1>2, <2>1, FlatAppend
<1>7. Modulus \in Nat \ {0} /\ Sector \in Nat \ {0}
  BY SplitBounds DEF Split!BoundsAssumption
<1> QED BY <1>1, <1>2, <1>3, <1>4, <1>5, <1>6, <1>7 DEF Split!TypeOK, Typed, Busy

\* A write of n bytes that the Split!disk has room for.
LEMMA WrittenStep ==
    ASSUME SplitInv, does = "write", NEW n \in Nat, n <= free, n <= Len(lpBuffer), Split!Written(n)
    PROVE  SplitInv'
<1>s. /\ lpBuffer \in Seq(Nat) /\ parts \in Seq(Seq(Nat)) /\ Split!FlattenSeq(parts) \in Seq(Nat)
      /\ WholeSectors(free) /\ ended = "not yet"
  BY SplitFacts
<1>0. /\ FileSize \in Nat /\ dwBufSize \in Nat /\ dwBufSize < Modulus /\ Modulus \in Nat \ {0} /\ Sector \in Nat \ {0}
      /\ Len(lpBuffer) \in Nat /\ Len(lpBuffer) <= dwBufSize /\ Len(parts) \in Nat
      /\ free \in Nat
      /\ dwRetryLen \in 0 .. Modulus - 1 /\ readpos \in 0 .. FileSize
  BY SplitFacts
<1>1. /\ lpBuffer # <<>> /\ parts # <<>> /\ parts[Len(parts)] = <<>> /\ dwBufSize # 0
      /\ dwFileCounter = Len(parts)
      /\ \A i \in 1 .. Len(parts) : Len(parts[i]) \in 1 .. dwBufSize \/ i = Len(parts)
      /\ Split!FlattenSeq(parts) \o lpBuffer = Split!Bytes(0, readpos)
  <2>1. Splitting /\ Split!PartsInOrder /\ ended \notin {"crashed", "cancelled"}
    BY <1>s DEF SplitInv
  <2>2. Split!FlattenSeq(parts) \o lpBuffer = Split!Bytes(0, readpos)
    BY <2>1 DEF Split!PartsInOrder
  <2>3. dwFileCounter = Len(parts) + 0
    BY <2>1 DEF Splitting
  <2>4. /\ lpBuffer # <<>> /\ parts # <<>> /\ parts[Len(parts)] = <<>> /\ dwBufSize # 0
        /\ \A i \in 1 .. Len(parts) : Len(parts[i]) \in 1 .. dwBufSize \/ i = Len(parts)
    BY <2>1 DEF Splitting, Busy
  <2>5. dwFileCounter = Len(parts)
    BY <2>3, <1>0
  <2> QED BY <2>2, <2>4, <2>5
<1>2. /\ free' = free - Split!InSectors(n)
      /\ parts' = IF n = 0 THEN Split!Front(parts) ELSE Append(Split!Front(parts), SubSeq(lpBuffer, 1, n))
      /\ UNCHANGED <<FileSize, dwBufSize, dwRetryLen, ended>>
  BY DEF Split!Written, Split!file
<1>3. \/ n = Len(lpBuffer) /\ does' = "read" /\ UNCHANGED <<readpos, lpBuffer, dwFileCounter>>
      \/ /\ n # Len(lpBuffer) /\ does' = "prompt"
         /\ dwFileCounter' = IF n = 0 THEN dwFileCounter ELSE dwFileCounter + 1
         /\ readpos' = Split!Least(FileSize, readpos + n)
         /\ lpBuffer' = Split!Rest(n) \o Split!Bytes(readpos, readpos')
  BY DEF Split!Written, Split!AskDisk, Split!Counted
<1> DEFINE done == SubSeq(lpBuffer, 1, n)
           rest == SubSeq(lpBuffer, n + 1, Len(lpBuffer))
           front == Split!Front(parts)
<1>4. /\ done \in Seq(Nat) /\ Len(done) = n /\ rest \in Seq(Nat) /\ Len(rest) = Len(lpBuffer) - n
      /\ done \o rest = lpBuffer
  <2>1. n \in 0 .. Len(lpBuffer)
    <3>1. Len(lpBuffer) \in Nat BY <1>0
    <3> HIDE <1>0
    <3> QED BY <3>1
  <2> QED BY <1>s, <2>1, Halves
<1>5. /\ front \in Seq(Seq(Nat)) /\ Len(front) = Len(parts) - 1 /\ Len(parts) \in Nat \ {0}
      /\ \A i \in 1 .. Len(parts) - 1 : front[i] = parts[i]
      /\ parts = Append(front, <<>>)
  BY <1>s, <1>1, FrontOf
<1> HIDE DEF done, rest, front
<1>6. parts' = IF n = 0 THEN front ELSE Append(front, done)
  BY <1>2 DEF front, done
<1>7. /\ Append(front, done) \in Seq(Seq(Nat)) /\ Len(Append(front, done)) = Len(parts)
      /\ \A i \in 1 .. Len(parts) - 1 : Append(front, done)[i] = parts[i]
      /\ Append(front, done)[Len(parts)] = done
  <2>1. /\ Append(front, done) \in Seq(Seq(Nat)) /\ Len(Append(front, done)) = Len(front) + 1
        /\ \A i \in 1 .. Len(front) : Append(front, done)[i] = front[i]
        /\ Append(front, done)[Len(front) + 1] = done
    BY <1>4, <1>5, AppendProperties
  <2>2. Len(front) + 1 = Len(parts)
    BY <1>5
  <2> QED BY <2>1, <2>2, <1>5
<1>8. /\ parts' \in Seq(Seq(Nat)) /\ Len(parts') = (IF n = 0 THEN Len(parts) - 1 ELSE Len(parts))
      /\ \A i \in 1 .. Len(parts') : Len(parts'[i]) \in 1 .. dwBufSize
  <2>1. CASE n = 0
    <3>1. parts' = front BY <2>1, <1>6
    <3>2. \A i \in 1 .. Len(parts) - 1 : i \in 1 .. Len(parts) /\ i # Len(parts)
      BY <1>0
    <3> QED BY <2>1, <3>1, <3>2, <1>5, <1>1
  <2>2. CASE n # 0
    <3>1. parts' = Append(front, done) BY <2>2, <1>6
    <3>2. Len(done) \in 1 .. dwBufSize BY <2>2, <1>4, <1>0
    <3>3. \A i \in 1 .. Len(parts) : i = Len(parts) \/ i \in 1 .. Len(parts) - 1
      BY <1>0
    <3> QED BY <2>2, <3>1, <3>2, <3>3, <1>7, <1>1
  <2> QED BY <2>1, <2>2
<1>9. Split!FlattenSeq(parts') = Split!FlattenSeq(parts) \o done /\ Split!FlattenSeq(parts) \in Seq(Nat)
  <2>1. <<>> \in Seq(Nat) BY EmptySeq
  <2>2. Split!FlattenSeq(front) \in Seq(Nat) /\ Split!FlattenSeq(Append(front, <<>>)) = Split!FlattenSeq(front) \o <<>>
        /\ Split!FlattenSeq(Append(front, done)) = Split!FlattenSeq(front) \o done
    BY <2>1, <1>4, <1>5, FlatAppend
  <2>3. Split!FlattenSeq(parts) = Split!FlattenSeq(front)
    BY <2>2, <1>5, ConcatEmptySeq
  <2>4. CASE n = 0
    <3>1. done = <<>> BY <2>4, <1>4, EmptySeq
    <3>2. Split!FlattenSeq(front) \o <<>> = Split!FlattenSeq(front) BY <2>2, ConcatEmptySeq
    <3> QED BY <2>2, <2>3, <2>4, <3>1, <3>2, <1>6
  <2>5. CASE n # 0
    BY <2>2, <2>3, <2>5, <1>6
  <2> QED BY <2>4, <2>5
<1>10. free' \in Nat /\ WholeSectors(free)'
  BY <1>s, <1>0, <1>2, Fits
<1>11. CASE n = Len(lpBuffer)
  <2>1. does' = "read" /\ UNCHANGED <<readpos, lpBuffer, dwFileCounter>>
    BY <1>3, <1>11
  <2>2. n # 0
    BY <1>s, <1>1, <1>11, EmptySeq
  <2>3. done = lpBuffer
    <3>1. rest = <<>> BY <1>4, <1>11, <1>0, EmptySeq
    <3> QED BY <3>1, <1>4, ConcatEmptySeq
  <2>4. Split!TypeOK'
    <3>1. Len(parts') = Len(parts)
      BY <2>2, <1>8
    <3>2. free' \in Nat /\ dwFileCounter' = Len(parts)
      BY <2>1, <1>1, <1>10
    <3> HIDE <1>1, <1>8
    <3> QED BY <2>1, <3>1, <3>2, <1>0, <1>2, <1>s DEF Split!TypeOK
  <2>5. Typed'
    <3>1. lpBuffer' \in Seq(Nat) /\ parts' \in Seq(Seq(Nat)) /\ WholeSectors(free)'
      BY <2>1, <1>s, <1>8, <1>10
    <3> QED BY <3>1, <1>0, <1>2 DEF Typed
  <2>6. Splitting'
    BY <2>1, <2>2, <1>0, <1>1, <1>2, <1>8 DEF Splitting, Busy
  <2>7. Split!PartsInOrder'
    <3>1. Split!FlattenSeq(parts') = Split!Bytes(0, readpos)
      BY <2>3, <1>1, <1>9
    <3>2. Split!FlattenSeq(parts') \o <<>> = Split!Bytes(0, readpos)
      <4>1. Split!FlattenSeq(parts') \in Seq(Nat) BY <1>9, <1>4, ConcatProperties
      <4> QED BY <3>1, <4>1, ConcatEmptySeq
    <3>3. Split!Bytes(0, readpos)' = Split!Bytes(0, readpos)
      BY <2>1 DEF Split!Bytes
    <3> QED BY <2>1, <3>2, <3>3 DEF Split!PartsInOrder
  <2> QED BY <2>4, <2>5, <2>6, <2>7 DEF SplitInv
<1>12. CASE n # Len(lpBuffer)
  <2>1. /\ does' = "prompt" /\ readpos' = Split!Least(FileSize, readpos + n) /\ lpBuffer' = rest \o Split!Bytes(readpos, readpos')
        /\ dwFileCounter' = IF n = 0 THEN dwFileCounter ELSE dwFileCounter + 1
    BY <1>3, <1>12 DEF Split!Rest, rest
  <2>2. readpos' \in 0 .. FileSize /\ readpos <= readpos' /\ readpos' <= readpos + n /\ readpos \in Nat /\ readpos' \in Nat
    BY <2>1, <1>0, LeastOfTwo, SMTT(60) DEF Split!Least
  <2> DEFINE more == Split!Bytes(readpos, readpos')
  <2>3. more \in Seq(Nat) /\ Len(more) = readpos' - readpos
    BY <2>2, BytesAre
  <2>4. Split!Bytes(0, readpos) \o more = Split!Bytes(0, readpos')
    <3>1. 0 \in Nat /\ 0 <= readpos BY <2>2
    <3> QED BY <2>2, <3>1, BytesJoin
  <2> HIDE DEF more
  <2>5. lpBuffer' = rest \o more
    BY <2>1 DEF more
  <2>6. lpBuffer' \in Seq(Nat) /\ Len(lpBuffer') = Len(rest) + Len(more)
    <3>1. rest \in Seq(Nat) /\ more \in Seq(Nat)
      BY <2>3, <1>4
    <3>2. rest \o more \in Seq(Nat) /\ Len(rest \o more) = Len(rest) + Len(more)
      BY <3>1, ConcatProperties
    <3> QED BY <3>2, <2>5
  <2>7. Len(lpBuffer') \in 1 .. dwBufSize
    <3>1. Len(lpBuffer') = (Len(lpBuffer) - n) + (readpos' - readpos)
      BY <2>3, <2>6, <1>4
    <3>2. \A l, a, b, c \in Nat : n <= l /\ n # l /\ l <= c /\ a <= b /\ b <= a + n => (l - n) + (b - a) \in 1 .. c
      OBVIOUS
    <3> HIDE <2>3, <2>5, <2>6, <1>4
    <3> QED BY <3>1, <3>2, <2>2, <1>0, <1>12
  <2>8. lpBuffer' # <<>>
    BY <2>6, <2>7, EmptySeq
  <2>9. dwFileCounter' = Len(parts') + 1
    BY <2>1, <1>1, <1>8, <1>0
  <2>10. Split!TypeOK'
    <3>1. free' \in Nat
      BY <1>10
    <3>2. Len(lpBuffer') <= dwBufSize
      BY <2>7, <1>0
    <3>3. /\ does' = "prompt" /\ ended' = "not yet"
          /\ UNCHANGED <<FileSize, dwBufSize, dwRetryLen>>
      BY <2>1, <1>2, <1>s
    <3> QED BY <2>2, <2>9, <3>1, <3>2, <3>3, <1>0 DEF Split!TypeOK
  <2>11. Typed'
    BY <2>6, <1>0, <1>2, <1>8, <1>10 DEF Typed
  <2>12. Splitting'
    BY <2>1, <2>8, <2>9, <1>1, <1>2, <1>8 DEF Splitting, Busy
  <2>13. Split!FlattenSeq(parts') \o lpBuffer' = Split!Bytes(0, readpos')
    <3> DEFINE F == Split!FlattenSeq(parts)
    <3>1. F \in Seq(Nat) /\ Split!FlattenSeq(parts') = F \o done
      BY <1>9
    <3> HIDE DEF F
    <3>6. done \in Seq(Nat) /\ rest \in Seq(Nat) /\ more \in Seq(Nat)
      BY <2>3, <1>4
    <3>2. F \o done \in Seq(Nat)
      BY <3>1, <3>6, ConcatProperties
    <3>3. (F \o done) \o (rest \o more) = ((F \o done) \o rest) \o more
      <4> DEFINE G == F \o done
      <4>1. G \in Seq(Nat) BY <3>2
      <4> HIDE DEF G
      <4>2. (G \o rest) \o more = G \o (rest \o more)
        BY <4>1, <3>6, ConcatAssociative, SMTT(60)
      <4> QED BY <4>2 DEF G
    <3>4. (F \o done) \o rest = F \o (done \o rest)
      BY <3>1, <3>6, ConcatAssociative, SMTT(60)
    <3>5. F \o (done \o rest) = Split!Bytes(0, readpos)
      BY <1>4, <1>1 DEF F
    <3> QED BY <3>1, <3>3, <3>4, <3>5, <2>4, <2>5
  <2>14. Split!PartsInOrder'
    <3>1. Split!Bytes(0, readpos)' = Split!Bytes(0, readpos')
      BY DEF Split!Bytes
    <3> QED BY <2>1, <2>13, <3>1 DEF Split!PartsInOrder
  <2> QED BY <2>10, <2>11, <2>12, <2>14 DEF SplitInv
<1> QED BY <1>11, <1>12

LEMMA ReadStep == ASSUME SplitInv, Split!Read PROVE SplitInv'
<1>s. /\ parts \in Seq(Seq(Nat)) /\ Split!FlattenSeq(parts) \in Seq(Nat)
      /\ WholeSectors(free) /\ ended = "not yet" /\ does = "read"
  BY SplitFacts DEF Split!Read
<1>0. /\ FileSize \in Nat /\ dwBufSize \in Nat /\ dwBufSize < Modulus /\ Modulus \in Nat \ {0} /\ Sector \in Nat \ {0}
      /\ Len(parts) \in Nat /\ free \in Nat
      /\ dwRetryLen \in 0 .. Modulus - 1 /\ readpos \in 0 .. FileSize /\ readpos < FileSize
  BY SplitFacts DEF Split!Read
<1>1. /\ readpos' = Split!Least(FileSize, readpos + dwBufSize) /\ lpBuffer' = Split!Bytes(readpos, readpos') /\ does' = "create"
      /\ dwFileCounter' = dwFileCounter + 1
      /\ UNCHANGED <<FileSize, dwBufSize, dwRetryLen, FilePos, parts, free, disks, ended>>
  BY DEF Split!Read, Split!file, Split!disk
<1>2. /\ dwBufSize # 0 /\ dwFileCounter = Len(parts) + 0
      /\ \A i \in 1 .. Len(parts) : Len(parts[i]) \in 1 .. dwBufSize
      /\ Split!FlattenSeq(parts) \o <<>> = Split!Bytes(0, readpos)
  BY <1>s DEF SplitInv, Splitting, Split!PartsInOrder, Busy
<1>3. readpos' \in 0 .. FileSize /\ readpos < readpos' /\ readpos <= readpos' /\ readpos' <= readpos + dwBufSize /\ readpos \in Nat /\ readpos' \in Nat /\ 0 <= readpos
  BY <1>1, <1>0, <1>2, LeastOfTwo DEF Split!Least
<1>4. lpBuffer' \in Seq(Nat) /\ Len(lpBuffer') = readpos' - readpos
  BY <1>1, <1>3, BytesAre
<1>5. Len(lpBuffer') \in 1 .. dwBufSize
  <2>1. readpos' - readpos \in 1 .. dwBufSize
    <3>1. \A a, b, c \in Nat : a < b /\ b <= a + c => b - a \in 1 .. c
      OBVIOUS
    <3> QED BY <3>1, <1>0, <1>3
  <2> QED BY <2>1, <1>4
<1>6. lpBuffer' # <<>>
  BY <1>4, <1>5, EmptySeq
<1>7. Split!TypeOK'
  <2>1. dwFileCounter = Len(parts) /\ Len(lpBuffer') <= dwBufSize
    BY <1>0, <1>2, <1>5
  <2> HIDE <1>2
  <2> QED BY <2>1, <1>s, <1>0, <1>1, <1>3 DEF Split!TypeOK
<1>8. Typed'
  BY <1>s, <1>0, <1>1, <1>4 DEF Typed
<1>9. Splitting'
  BY <1>0, <1>1, <1>2, <1>6 DEF Splitting, Busy
<1>10. Split!PartsInOrder'
  <2>1. Split!Bytes(0, readpos) \o Split!Bytes(readpos, readpos') = Split!Bytes(0, readpos')
    BY <1>3, BytesJoin
  <2>2. Split!FlattenSeq(parts) = Split!Bytes(0, readpos)
    BY <1>s, <1>2, ConcatEmptySeq
  <2>3. Split!Bytes(0, readpos)' = Split!Bytes(0, readpos')
    BY DEF Split!Bytes
  <2> QED BY <1>1, <2>1, <2>2, <2>3 DEF Split!PartsInOrder
<1> QED BY <1>7, <1>8, <1>9, <1>10 DEF SplitInv

LEMMA SplitStep == SplitInv /\ [Split!Next]_(Split!vars) => SplitInv'
<1> SUFFICES ASSUME SplitInv, [Split!Next]_(Split!vars) PROVE SplitInv'
  OBVIOUS
<1>s. /\ lpBuffer \in Seq(Nat) /\ parts \in Seq(Seq(Nat)) /\ Split!FlattenSeq(parts) \in Seq(Nat)
      /\ WholeSectors(free) /\ (ended = "not yet") = (does # "end")
  BY SplitFacts
<1>0. /\ FileSize \in Nat /\ dwBufSize \in Nat /\ dwBufSize < Modulus /\ Modulus \in Nat \ {0} /\ Sector \in Nat \ {0}
      /\ Len(lpBuffer) \in Nat /\ Len(lpBuffer) <= dwBufSize /\ Len(parts) \in Nat
      /\ free \in Nat
      /\ dwRetryLen \in 0 .. Modulus - 1 /\ readpos \in 0 .. FileSize
  BY SplitFacts
<1>i. Split!TypeOK /\ Typed /\ Splitting /\ Split!PartsInOrder
  BY DEF SplitInv
<1>b. \A v : Split!Bytes(0, v)' = Split!Bytes(0, v')
  BY DEF Split!Bytes
<1>1. CASE Split!Open
  <2> USE <1>1 DEF Split!Open, Split!file, Split!disk
  <2>1. Split!TypeOK' /\ Typed' /\ Splitting' /\ Split!PartsInOrder'
    BY <1>i, <1>0 DEF Split!TypeOK, Typed, Splitting, Split!PartsInOrder, Busy, Split!End, Split!Bytes
  <2> QED BY <2>1 DEF SplitInv
<1>2. CASE Split!Read
  BY <1>2, ReadStep
<1>3. CASE Split!Finish
  <2> USE <1>3 DEF Split!Finish, Split!file, Split!disk
  <2>1. Split!TypeOK' /\ Typed' /\ Splitting' /\ Split!PartsInOrder'
    BY <1>i, <1>0 DEF Split!TypeOK, Typed, Splitting, Split!PartsInOrder, Busy, Split!End, Split!Bytes
  <2> QED BY <2>1 DEF SplitInv
<1>4. CASE Split!Create
  <2>1. /\ does = "create" /\ parts' = Append(parts, <<>>) /\ dwRetryLen' = Len(lpBuffer) /\ does' = "write"
        /\ UNCHANGED <<FileSize, dwBufSize, readpos, lpBuffer, dwFileCounter, FilePos, free, disks, ended>>
    BY <1>4 DEF Split!Create, Split!file
  <2>2. /\ parts' \in Seq(Seq(Nat)) /\ Len(parts') = Len(parts) + 1 /\ parts' # <<>>
        /\ \A i \in 1 .. Len(parts) : parts'[i] = parts[i]
        /\ parts'[Len(parts) + 1] = <<>>
    <3>1. \A e \in Seq(Nat) :
            /\ Append(parts, e) \in Seq(Seq(Nat)) /\ Len(Append(parts, e)) = Len(parts) + 1
            /\ Append(parts, e) # <<>>
            /\ \A i \in 1 .. Len(parts) : Append(parts, e)[i] = parts[i]
            /\ Append(parts, e)[Len(parts) + 1] = e
      <4> TAKE e \in Seq(Nat)
      <4>1. parts \in Seq(Seq(Nat)) BY <1>s
      <4> HIDE <1>s, <1>i, <1>0, <1>b
      <4> QED BY <4>1, AppendProperties
    <3>2. <<>> \in Seq(Nat)
      BY EmptySeq
    <3> QED BY <2>1, <3>1, <3>2
  <2>3. Split!TypeOK'
    <3>1. dwFileCounter = Len(parts) + 1
      BY <2>1, <1>i, <1>s DEF Splitting
    <3>2. dwFileCounter = Len(parts') /\ Len(lpBuffer) \in 0 .. Modulus - 1
      BY <2>2, <3>1, <1>0
    <3> QED BY <2>1, <3>2, <1>i, <1>0 DEF Split!TypeOK
  <2>4. Typed'
    BY <2>1, <2>2, <1>i DEF Typed
  <2>5. Splitting'
    <3>1. ended = "not yet"
      BY <2>1, <1>s
    <3>2. /\ dwBufSize # 0 /\ lpBuffer # <<>> /\ dwFileCounter = Len(parts) + 1
          /\ \A i \in 1 .. Len(parts) : Len(parts[i]) \in 1 .. dwBufSize
      BY <2>1, <3>1, <1>i DEF Splitting, Busy
    <3>3. \A i \in 1 .. Len(parts') : i = Len(parts') \/ i \in 1 .. Len(parts)
      BY <2>2, <1>0
    <3>4. \A i \in 1 .. Len(parts') : Len(parts'[i]) \in 1 .. dwBufSize \/ i = Len(parts')
      BY <3>2, <3>3, <2>2
    <3>5. dwFileCounter = Len(parts') + 0 /\ parts'[Len(parts')] = <<>>
      BY <3>2, <2>2, <1>0
    <3> QED BY <2>1, <2>2, <3>2, <3>4, <3>5 DEF Splitting, Busy
  <2>6. Split!PartsInOrder'
    <3>1. <<>> \in Seq(Nat) BY EmptySeq
    <3>2. Split!FlattenSeq(parts') = Split!FlattenSeq(parts) \o <<>> /\ Split!FlattenSeq(parts) \in Seq(Nat)
      BY <2>1, <3>1, <1>s, FlatAppend
    <3>3. Split!FlattenSeq(parts') = Split!FlattenSeq(parts)
      BY <3>2, ConcatEmptySeq
    <3> QED BY <2>1, <3>3, <1>i DEF Split!PartsInOrder, Split!Bytes
  <2> QED BY <2>3, <2>4, <2>5, <2>6 DEF SplitInv
<1>5. CASE Split!Retry
  <2> USE <1>5 DEF Split!Retry, Split!file, Split!disk
  <2>1. dwRetryLen' \in 0 .. Modulus - 1
    BY <1>0 DEF Split!Less
  <2>2. Split!TypeOK' /\ Typed' /\ Splitting' /\ Split!PartsInOrder'
    BY <2>1, <1>i DEF Split!TypeOK, Typed, Splitting, Split!PartsInOrder, Split!Bytes
  <2> QED BY <2>2 DEF SplitInv
<1>6. CASE Split!Write
  <2>1. CASE dwRetryLen <= free /\ dwRetryLen <= Len(lpBuffer) /\ Split!Written(dwRetryLen)
    BY <2>1, <1>0, <1>6, WrittenStep DEF Split!Write
  <2>2. CASE free < dwRetryLen /\ free < Len(lpBuffer) /\ Split!Written(free)
    BY <2>2, <1>0, <1>6, WrittenStep DEF Split!Write
  <2> QED BY <2>1, <2>2, <1>6 DEF Split!Write
<1>7. CASE Split!Overrun \/ Split!Cancel
  <2>1. /\ does' = "end" /\ ended' \in {"crashed", "cancelled"}
        /\ UNCHANGED <<FileSize, dwBufSize, readpos, lpBuffer, dwRetryLen, dwFileCounter, FilePos, parts, free, disks>>
    BY <1>7 DEF Split!Overrun, Split!Cancel, Split!End, Split!file, Split!disk
  <2>2. Split!TypeOK' /\ Typed' /\ Splitting' /\ Split!PartsInOrder'
    BY <2>1, <1>i DEF Split!TypeOK, Typed, Splitting, Split!PartsInOrder
  <2> QED BY <2>2 DEF SplitInv
<1>8. ASSUME NEW f \in Frees PROVE f \in Nat /\ WholeSectors(f)
  <2>1. f \in Nat /\ f % Sector = 0
    BY SplitBounds DEF Split!BoundsAssumption
  <2> DEFINE k == f \div Sector
  <2>2. k \in Nat /\ f = Sector * k + 0 BY <2>1, <1>0
  <2> HIDE DEF k
  <2>3. Sector * k = k * Sector /\ Sector * k \in Nat BY <2>2, <1>0
  <2> QED BY <2>1, <2>2, <2>3 DEF WholeSectors
<1>9. CASE Split!Continue \/ Split!MakeRoom
  <2>1. /\ free' \in Frees \/ free' = free
        /\ \/ does = "prompt" /\ does' = "create"
           \/ does = "write" /\ does' = "write"
        /\ UNCHANGED <<FileSize, dwBufSize, readpos, lpBuffer, dwRetryLen, dwFileCounter, FilePos, parts, ended>>
    BY <1>9 DEF Split!Continue, Split!MakeRoom, Split!file
  <2>2. free' \in Nat /\ WholeSectors(free)'
    BY <2>1, <1>0, <1>s, <1>8
  <2>3. Split!TypeOK' /\ Typed'
    BY <2>1, <2>2, <1>i, <1>0 DEF Split!TypeOK, Typed
  <2>4. Splitting' /\ Split!PartsInOrder'
    BY <2>1, <1>i DEF Splitting, Split!PartsInOrder, Busy, Split!Bytes
  <2> QED BY <2>3, <2>4 DEF SplitInv
<1>10. CASE UNCHANGED Split!vars
  <2>1. Split!TypeOK' /\ Typed' /\ Splitting' /\ Split!PartsInOrder'
    BY <1>10, <1>i DEF Split!vars, Split!file, Split!disk, Split!TypeOK, Typed, Splitting, Split!PartsInOrder, Split!Bytes
  <2> QED BY <2>1 DEF SplitInv
<1> QED BY <1>1, <1>2, <1>3, <1>4, <1>5, <1>6, <1>7, <1>9, <1>10 DEF Split!Next, Split!DoSplitFile
-----------------------------------------------------------------------------
(* trunczerotail. *)

LEMMA PowersOfTwo ==
    /\ Trunc!Power \in [0 .. 22 -> Nat \ {0}] /\ Trunc!Power[0] = STDBUFSIZ
    /\ \A i \in 1 .. 22 : Trunc!Power[i] = 2 * Trunc!Power[i - 1]
<1> DEFINE T == Nat \ {0}
           G == [n \in Nat |-> [p \in T |-> 2 * p]]
<1>1. STDBUFSIZ \in T
  BY TruncBlocks DEF Trunc!BlocksAssumption
<1>2. G \in [Nat -> [T -> T]]
  OBVIOUS
<1>3. PICK f \in [0 .. 22 -> T] : f[0] = STDBUFSIZ /\ \A i \in 1 .. 22 : f[i] = G[i][f[i - 1]]
  <2> HIDE DEF T, G
  <2>1. 22 \in Nat OBVIOUS
  <2>2. \A m \in Nat : \E f \in [0 .. m -> T] : f[0] = STDBUFSIZ /\ \A i \in 1 .. m : f[i] = G[i][f[i - 1]]
    <3>1. \A m \in Nat : \E f : Iterates(f, T, STDBUFSIZ, G, m)
      BY <1>1, <1>2, Recursion
    <3> QED BY <3>1 DEF Iterates
  <2> QED BY <2>1, <2>2
<1>4. \A i \in 1 .. 22 : f[i] = 2 * f[i - 1]
  <2> TAKE i \in 1 .. 22
  <2>1. i \in Nat /\ f[i - 1] \in T
    BY <1>3
  <2> QED BY <2>1, <1>3
<1>5. f = [i \in 0 .. 22 |-> IF i = 0 THEN STDBUFSIZ ELSE 2 * f[i - 1]]
  BY <1>3, <1>4
<1>6. Trunc!Power = [i \in 0 .. 22 |-> IF i = 0 THEN STDBUFSIZ ELSE 2 * Trunc!Power[i - 1]]
  BY <1>5 DEF Trunc!Power
<1> DEFINE U == {n \in Nat : n \in 0 .. 22 => Trunc!Power[n] \in T}
<1>7. 0 \in U
  <2>1. 0 \in 0 .. 22 OBVIOUS
  <2>2. Trunc!Power[0] = STDBUFSIZ BY <1>6, <2>1
  <2> QED BY <1>1, <2>2
<1>8. ASSUME NEW n \in U PROVE n + 1 \in U
  <2> SUFFICES ASSUME n + 1 \in 0 .. 22 PROVE Trunc!Power[n + 1] \in T
    OBVIOUS
  <2>1. n \in 0 .. 22 /\ n + 1 # 0 /\ (n + 1) - 1 = n OBVIOUS
  <2>2. Trunc!Power[n + 1] = 2 * Trunc!Power[n] BY <1>6, <2>1
  <2> QED BY <2>1, <2>2
<1>9. U = Nat
  <2> HIDE DEF U
  <2>1. U \in SUBSET Nat BY DEF U
  <2> QED BY <1>7, <1>8, <2>1, NatInd
<1>10. \A i \in 0 .. 22 : Trunc!Power[i] \in T
  BY <1>9
<1> QED BY <1>6, <1>10

LEMMA RoundedIsPower ==
    ASSUME NEW n \in BIGBUFSIZ \cup {0}
    PROVE  Trunc!Rounded(n) \in Trunc!Powers /\ Trunc!Powers \subseteq Nat \ {0}
<1>1. Trunc!Powers \subseteq Nat \ {0} /\ \A i \in 0 .. 22 : Trunc!Power[i] \in Trunc!Powers
  BY PowersOfTwo DEF Trunc!Powers
<1>2. n \in Nat /\ n < 2 * Trunc!Power[22]
  <2>1. Trunc!Power[22] \in Nat \ {0} BY PowersOfTwo
  <2> QED BY <2>1, TruncBlocks DEF Trunc!BlocksAssumption
<1>3. \E p \in Trunc!Powers : (p <= n /\ n < 2 * p) \/ (n < p /\ p = STDBUFSIZ)
  <2> DEFINE S == {i \in 0 .. 22 : Trunc!Power[i] <= n}
  <2>1. CASE S = {}
    <3>1. 0 \in 0 .. 22 OBVIOUS
    <3>2. ~ (Trunc!Power[0] <= n) BY <2>1, <3>1
    <3>3. n < Trunc!Power[0] BY <3>2, <3>1, <1>2, PowersOfTwo
    <3> QED BY <3>1, <3>3, <1>1, PowersOfTwo
  <2>2. CASE S # {}
    <3>1. PICK i \in S : \A j \in S : j <= i
      <4>1. S \in SUBSET Nat /\ \A k \in S : k <= 22 OBVIOUS
      <4> HIDE DEF S
      <4> QED BY <4>1, <2>2, Greatest
    <3>2. Trunc!Power[i] <= n /\ i \in 0 .. 22
      OBVIOUS
    <3>3. n < 2 * Trunc!Power[i]
      <4>1. CASE i = 22
        BY <4>1, <1>2
      <4>2. CASE i # 22
        <5>1. i + 1 \in 1 .. 22 /\ i + 1 \in 0 .. 22 /\ (i + 1) - 1 = i BY <4>2, <3>2
        <5>2. i + 1 \notin S BY <3>1, <5>1
        <5>3. ~ (Trunc!Power[i + 1] <= n) BY <5>1, <5>2
        <5>4. Trunc!Power[i + 1] = 2 * Trunc!Power[i] /\ Trunc!Power[i] \in Nat BY <5>1, <3>2, PowersOfTwo
        <5> QED BY <5>3, <5>4, <1>2
      <4> QED BY <4>1, <4>2
    <3> QED BY <3>2, <3>3, <1>1
  <2> QED BY <2>1, <2>2
<1> QED BY <1>1, <1>3 DEF Trunc!Rounded

\* The end of the data in a file.
LEMMA EndOfData ==
    ASSUME before \in Seq({0, 1})
    PROVE  /\ Trunc!End \in 0 .. Len(before)
           /\ \A i \in DOMAIN before : i > Trunc!End => before[i] = 0
           /\ Trunc!End # 0 => before[Trunc!End] # 0
<1> DEFINE data == {i \in DOMAIN before : before[i] # 0}
<1>0. DOMAIN before = 1 .. Len(before) /\ Len(before) \in Nat
  BY LenProperties
<1>1. CASE data = {}
  <2>1. Trunc!End = 0 BY <1>1 DEF Trunc!End
  <2> QED BY <1>0, <1>1, <2>1
<1>2. CASE data # {}
  <2>1. \E i \in data : \A j \in data : j <= i
    <3>1. data \in SUBSET Nat /\ \A i \in data : i <= Len(before)
      BY <1>0
    <3> HIDE DEF data
    <3> QED BY <3>1, <1>0, <1>2, Greatest
  <2>2. Trunc!End = CHOOSE i \in data : \A j \in data : j <= i
    BY <1>2 DEF Trunc!End
  <2>3. Trunc!End \in data /\ \A j \in data : j <= Trunc!End
    <3> HIDE DEF data
    <3> QED BY <2>1, <2>2
  <2> QED BY <1>0, <2>3
<1> QED BY <1>1, <1>2

(* Where the pointer is; it goes in whole blocks. *)
Positions ==
    /\ bufsiz \in Nat \ {0} /\ existing_out_file_size \in Nat
    /\ pointer \in Nat /\ current_out_pointer \in Nat
    /\ contents \in Seq({0, 1}) /\ before \in Seq({0, 1})
    /\ ~ shared /\ reads # "end" => contents = before /\ Len(contents) = existing_out_file_size
    /\ reads # "end" => existing_out_file_size <= Len(contents)
    /\ reads = "decide" => pointer <= Len(contents)
    /\ \E k \in Nat : current_out_pointer = k * bufsiz
    /\ reads = "back" => current_out_pointer = pointer
    /\ reads = "read" => current_out_pointer = pointer /\ pointer <= existing_out_file_size

ZeroesAfter(p) == \A i \in DOMAIN before : i > p => before[i] = 0

DataIn(from, to) ==
    \E i \in DOMAIN before : i > from /\ i <= to /\ before[i] # 0

(* Unless others write: what has been read is zeroes, or has the last data. *)
Zeroes ==
    ~ shared =>
        /\ reads = "back" => ZeroesAfter(pointer)
        /\ reads = "read" => ZeroesAfter(pointer + bufsiz)
        /\ reads = "decide" =>
            /\ ZeroesAfter(pointer)
            /\ \/ pointer = 0 /\ current_out_pointer = 0
               \/ /\ DataIn(current_out_pointer, pointer)
                  /\ pointer <= current_out_pointer + bufsiz
                  /\ pointer <= existing_out_file_size

TruncInv == Trunc!TypeOK /\ Positions /\ Zeroes /\ Trunc!OnlyZeroesCut /\ Trunc!TailIsCut

LEMMA Cutting ==
    ASSUME NEW s \in Seq({0, 1}), NEW n \in 0 .. Len(s)
    PROVE  Len(SubSeq(s, 1, n)) = n /\ SubSeq(s, 1, n) \in Seq({0, 1})
<1>1. \A i \in 1 .. n : s[i] \in {0, 1}
  BY ElementOfSeq, LenProperties
<1>2. n \in Int /\ 1 \in Int /\ Len(s) \in Nat
  BY LenProperties
<1>3. Len(SubSeq(s, 1, n)) = (IF 1 <= n THEN n - 1 + 1 ELSE 0) /\ SubSeq(s, 1, n) \in Seq({0, 1})
  BY <1>1, <1>2, SubSeqProperties
<1> QED BY <1>2, <1>3

LEMMA WholeFile ==
    ASSUME before \in Seq({0, 1})
    PROVE  SubSeq(before, 1, Len(before)) = before
<1>1. \A i \in 1 .. Len(before) : before[i] \in {0, 1}
  BY ElementOfSeq, LenProperties
<1>2. 1 \in Int /\ Len(before) \in Nat /\ Len(before) \in Int
  BY LenProperties
<1>3. /\ Len(SubSeq(before, 1, Len(before))) = (IF 1 <= Len(before) THEN Len(before) - 1 + 1 ELSE 0)
      /\ SubSeq(before, 1, Len(before)) \in Seq({0, 1})
      /\ \A i \in 1 .. Len(before) - 1 + 1 : SubSeq(before, 1, Len(before))[i] = before[1 + i - 1]
  BY <1>1, <1>2, SubSeqProperties
<1>4. Len(SubSeq(before, 1, Len(before))) = Len(before)
  BY <1>2, <1>3
<1>5. \A i \in 1 .. Len(before) : SubSeq(before, 1, Len(before))[i] = before[i]
  BY <1>2, <1>3
<1> QED BY <1>3, <1>4, <1>5, SeqEqual

LEMMA BlockIsRead ==
    ASSUME contents \in Seq({0, 1}), pointer \in Nat, bufsiz \in Nat, pointer <= Len(contents)
    PROVE  /\ Len(Trunc!BlockRead) \in 0 .. bufsiz /\ pointer + Len(Trunc!BlockRead) <= Len(contents)
           /\ pointer + Len(Trunc!BlockRead) = IF pointer + bufsiz <= Len(contents) THEN pointer + bufsiz ELSE Len(contents)
           /\ DOMAIN Trunc!BlockRead = 1 .. Len(Trunc!BlockRead)
           /\ \A i \in 1 .. Len(Trunc!BlockRead) : Trunc!BlockRead[i] = contents[pointer + i]
<1> DEFINE m == pointer + 1
           n == IF pointer + bufsiz <= Len(contents) THEN pointer + bufsiz ELSE Len(contents)
<1>1. Len(contents) \in Nat
  BY LenProperties
<1>2. Trunc!BlockRead = SubSeq(contents, m, n)
  <2>1. pointer + bufsiz \in Int /\ Len(contents) \in Int
    BY <1>1
  <2>2. Trunc!Min({pointer + bufsiz, Len(contents)}) = n
    BY <2>1, LeastOfTwo
  <2> QED BY <2>2 DEF Trunc!BlockRead
<1>3. m \in Int /\ n \in Int /\ m >= 1 /\ n <= Len(contents) /\ n >= pointer /\ n <= pointer + bufsiz
  BY <1>1
<1>4. \A i \in m .. n : contents[i] \in {0, 1}
  BY <1>1, <1>3, ElementOfSeq
<1>5. /\ SubSeq(contents, m, n) \in Seq({0, 1})
      /\ Len(SubSeq(contents, m, n)) = (IF m <= n THEN n - m + 1 ELSE 0)
      /\ \A i \in 1 .. n - m + 1 : SubSeq(contents, m, n)[i] = contents[m + i - 1]
  <2> HIDE DEF m, n
  <2> QED BY <1>3, <1>4, SubSeqProperties
<1>6. Len(Trunc!BlockRead) = n - pointer
  BY <1>2, <1>3, <1>5
<1>7. DOMAIN Trunc!BlockRead = 1 .. Len(Trunc!BlockRead)
  BY <1>2, <1>5, LenProperties
<1>8. \A i \in 1 .. Len(Trunc!BlockRead) : Trunc!BlockRead[i] = contents[pointer + i]
  <2> TAKE i \in 1 .. Len(Trunc!BlockRead)
  <2>1. i \in 1 .. n - m + 1 /\ m + i - 1 = pointer + i
    BY <1>3, <1>6
  <2> QED BY <2>1, <1>2, <1>5
<1> QED BY <1>3, <1>6, <1>7, <1>8

LEMMA EmptyBlock ==
    ASSUME contents \in Seq({0, 1}), pointer \in Nat, bufsiz \in Nat, ~ (pointer <= Len(contents))
    PROVE  Len(Trunc!BlockRead) = 0
<1> DEFINE m == pointer + 1
           n == IF pointer + bufsiz <= Len(contents) THEN pointer + bufsiz ELSE Len(contents)
<1>1. Len(contents) \in Nat
  BY LenProperties
<1>2. Trunc!BlockRead = SubSeq(contents, m, n)
  <2>1. pointer + bufsiz \in Int /\ Len(contents) \in Int
    BY <1>1
  <2>2. Trunc!Min({pointer + bufsiz, Len(contents)}) = n
    BY <2>1, LeastOfTwo
  <2> QED BY <2>2 DEF Trunc!BlockRead
<1>3. m \in Int /\ n \in Int /\ n < m
  BY <1>1
<1>4. \A i \in m .. n : contents[i] \in {0, 1}
  BY <1>3
<1>5. Len(SubSeq(contents, m, n)) = (IF m <= n THEN n - m + 1 ELSE 0)
  <2> HIDE DEF m, n
  <2> QED BY <1>3, <1>4, SubSeqProperties
<1> QED BY <1>2, <1>3, <1>5

\* What is cut off, and what is left, when the end of the file is set at pointer.
LEMMA RightEnd ==
    ASSUME Positions, Zeroes, ~ shared, reads = "decide",
           current_out_pointer + bufsiz < existing_out_file_size
    PROVE  /\ SubSeq(contents, 1, pointer) \in Seq({0, 1})
           /\ Len(SubSeq(contents, 1, pointer)) = pointer
           /\ SubSeq(contents, 1, pointer) = SubSeq(before, 1, pointer)
           /\ pointer >= Trunc!End /\ pointer - Trunc!End < bufsiz
<1>1. contents = before /\ Len(before) = existing_out_file_size /\ before \in Seq({0, 1})
      /\ pointer \in Nat /\ current_out_pointer \in Nat /\ bufsiz \in Nat \ {0} /\ existing_out_file_size \in Nat
  BY DEF Positions
<1>2. ZeroesAfter(pointer)
  BY DEF Zeroes
<1>3. \/ pointer = 0 /\ current_out_pointer = 0
      \/ /\ DataIn(current_out_pointer, pointer)
         /\ pointer <= current_out_pointer + bufsiz
         /\ pointer <= existing_out_file_size
  BY DEF Zeroes
<1>4. pointer \in 0 .. Len(before)
  BY <1>1, <1>3
<1>5. Trunc!End \in 0 .. Len(before) /\ (Trunc!End # 0 => before[Trunc!End] # 0)
      /\ \A i \in DOMAIN before : i > Trunc!End => before[i] = 0
  BY <1>1, EndOfData
<1>6. DOMAIN before = 1 .. Len(before)
  BY <1>1, LenProperties
<1>7. Trunc!End <= pointer
  BY <1>1, <1>2, <1>5, <1>6 DEF ZeroesAfter
<1>8. pointer - Trunc!End < bufsiz
  <2>1. CASE pointer = 0
    BY <2>1, <1>7, <1>5, <1>1
  <2>2. CASE DataIn(current_out_pointer, pointer) /\ pointer <= current_out_pointer + bufsiz
    <3>1. PICK i \in DOMAIN before : i > current_out_pointer /\ before[i] # 0
      BY <2>2 DEF DataIn
    <3>2. ~ (i > Trunc!End) /\ i \in Nat
      BY <3>1, <1>5, <1>6
    <3> QED BY <3>1, <3>2, <2>2, <1>1, <1>5
  <2> QED BY <1>3, <2>1, <2>2
<1> QED BY <1>1, <1>4, <1>7, <1>8, Cutting

\* What is left when the file is not worth cutting.
LEMMA RightKept ==
    ASSUME Positions, Zeroes, ~ shared, reads = "decide",
           current_out_pointer + bufsiz >= existing_out_file_size, existing_out_file_size > bufsiz
    PROVE  Len(contents) - Trunc!End < bufsiz
<1>1. contents = before /\ Len(before) = existing_out_file_size /\ before \in Seq({0, 1})
      /\ pointer \in Nat /\ current_out_pointer \in Nat /\ bufsiz \in Nat \ {0} /\ existing_out_file_size \in Nat
  BY DEF Positions
<1>2. DataIn(current_out_pointer, pointer)
  BY <1>1 DEF Zeroes
<1>3. Trunc!End \in 0 .. Len(before) /\ \A i \in DOMAIN before : i > Trunc!End => before[i] = 0
  BY <1>1, EndOfData
<1>4. PICK i \in DOMAIN before : i > current_out_pointer /\ before[i] # 0
  BY <1>2 DEF DataIn
<1>5. i \in Nat /\ ~ (i > Trunc!End)
  BY <1>1, <1>3, <1>4, LenProperties
<1> QED BY <1>1, <1>3, <1>4, <1>5

LEMMA WholeBlocks ==
    ASSUME NEW n \in Nat, NEW b \in Nat \ {0}
    PROVE  /\ n + Trunc!Padding(n, b) \in n .. n + b - 1
           /\ \E k \in Nat : n + Trunc!Padding(n, b) = k * b
<1>1. n % b \in 0 .. b - 1 /\ n = (b * (n \div b)) + (n % b) /\ n \div b \in Nat
  OBVIOUS
<1> DEFINE q == n \div b
           r == n % b
<1>2. CASE r = 0
  <2>1. n + Trunc!Padding(n, b) = n BY <1>2 DEF Trunc!Padding
  <2>2. n = q * b /\ q \in Nat
    <3>1. n = b * q + r /\ q \in Nat BY <1>1
    <3> HIDE DEF q, r
    <3>2. b * q = q * b /\ b * q \in Nat BY <3>1
    <3> QED BY <3>1, <3>2, <1>2
  <2>3. n \in n .. n + b - 1 OBVIOUS
  <2> HIDE DEF q, r
  <2> QED BY <2>1, <2>2, <2>3
<1>3. CASE r # 0
  <2>1. n + Trunc!Padding(n, b) = n + (b - r) BY <1>3 DEF Trunc!Padding
  <2> HIDE DEF q, r
  <2>2. n + (b - r) = (q + 1) * b /\ q + 1 \in Nat
    <3>1. n = b * q + r /\ q \in Nat /\ r \in 0 .. b - 1 BY <1>1 DEF q, r
    <3>2. b * q \in Nat /\ b * q = q * b /\ (q + 1) * b = q * b + b BY <3>1
    <3> QED BY <3>1, <3>2
  <2>3. r \in 1 .. b - 1 BY <1>1, <1>3 DEF q, r
  <2> QED BY <2>1, <2>2, <2>3
<1> QED BY <1>2, <1>3

LEMMA TruncInit == Trunc!Init => TruncInv
  <2> SUFFICES ASSUME Trunc!Init PROVE TruncInv OBVIOUS
  <2>1. /\ contents \in Seq({0, 1}) /\ before = contents /\ Len(contents) \in Nat
        /\ existing_out_file_size = Len(contents)
    BY TruncBlocks, LenProperties DEF Trunc!Init, Trunc!BlocksAssumption
  <2>2. bufsiz \in Trunc!Powers /\ bufsiz \in Nat \ {0}
    BY RoundedIsPower DEF Trunc!Init
  <2>3. /\ current_out_pointer \in Len(contents) .. Len(contents) + bufsiz - 1 /\ pointer = current_out_pointer
        /\ \E k \in Nat : current_out_pointer = k * bufsiz
    BY <2>1, <2>2, WholeBlocks DEF Trunc!Init
  <2>4. Trunc!TypeOK
    BY <2>1, <2>2, <2>3 DEF Trunc!TypeOK, Trunc!Init
  <2>5. Positions
    BY <2>1, <2>2, <2>3 DEF Positions, Trunc!Init
  <2>6. Zeroes
    <3>1. \A i \in DOMAIN before : ~ (i > pointer)
      BY <2>1, <2>3, <2>2, LenProperties
    <3> QED BY <3>1 DEF Zeroes, ZeroesAfter, Trunc!Init
  <2>7. Trunc!OnlyZeroesCut
    BY <2>1, WholeFile, EndOfData DEF Trunc!OnlyZeroesCut
  <2> QED BY <2>4, <2>5, <2>6, <2>7 DEF TruncInv, Trunc!TailIsCut, Trunc!Init

LEMMA TruncStep == TruncInv /\ [Trunc!Next]_(Trunc!vars) => TruncInv'
  <2> SUFFICES ASSUME TruncInv, [Trunc!Next]_(Trunc!vars) PROVE TruncInv' OBVIOUS
  <2>0. Trunc!TypeOK /\ Positions /\ Zeroes /\ Trunc!OnlyZeroesCut /\ Trunc!TailIsCut
    BY DEF TruncInv
  <2>p. /\ bufsiz \in Nat \ {0} /\ existing_out_file_size \in Nat
        /\ pointer \in Nat /\ current_out_pointer \in Nat
        /\ contents \in Seq({0, 1}) /\ before \in Seq({0, 1})
        /\ Len(contents) \in Nat /\ Len(before) \in Nat
        /\ DOMAIN contents = 1 .. Len(contents) /\ DOMAIN before = 1 .. Len(before)
    BY <2>0, LenProperties DEF Positions
  <2>q. /\ reads # "end" => existing_out_file_size <= Len(contents)
        /\ reads = "decide" => pointer <= Len(contents)
        /\ reads = "read" => current_out_pointer = pointer /\ pointer <= existing_out_file_size
    BY <2>0 DEF Positions
  <2>1. CASE Trunc!Back
    <3> USE <2>1 DEF Trunc!Back
    <3>1. CASE current_out_pointer < bufsiz
      <4>1. current_out_pointer = 0
        <5>1. PICK k \in Nat : current_out_pointer = k * bufsiz
          BY <2>0 DEF Positions
        <5>2. k >= 1 => k * bufsiz >= bufsiz
          BY <2>p
        <5>3. k = 0
          BY <3>1, <5>1, <5>2, <2>p
        <5> QED BY <5>1, <5>3, <2>p
      <4>2. pointer = 0
        BY <2>0, <4>1 DEF Positions
      <4>0. UNCHANGED <<contents, before, bufsiz, existing_out_file_size, shared, result, pointer, current_out_pointer>>
            /\ reads' = "decide" /\ reads = "back"
        BY <3>1 DEF Trunc!sizes
      <4>3. Trunc!TypeOK'
        BY <4>0, <2>0 DEF Trunc!TypeOK
      <4>5. Positions'
        <5>1. pointer <= Len(contents)
          BY <4>2, <2>p
        <5> QED BY <4>0, <5>1, <2>0 DEF Positions
      <4>4. Zeroes'
        BY <3>1, <4>1, <4>2, <2>0 DEF Zeroes, ZeroesAfter, Trunc!sizes
      <4>6. Trunc!OnlyZeroesCut' /\ Trunc!TailIsCut'
        BY <3>1, <2>0 DEF Trunc!OnlyZeroesCut, Trunc!TailIsCut, Trunc!End, Trunc!sizes
      <4> QED BY <4>3, <4>4, <4>5, <4>6 DEF TruncInv
    <3>2. CASE ~ (current_out_pointer < bufsiz)
      <4>0. /\ pointer' = pointer - bufsiz /\ current_out_pointer' = pointer' /\ reads' = "read"
            /\ current_out_pointer = pointer /\ pointer <= existing_out_file_size + bufsiz
        BY <3>2, <2>0 DEF Positions, Trunc!TypeOK
      <4>1. pointer' \in Nat /\ pointer' <= existing_out_file_size /\ pointer' + bufsiz = pointer
        BY <3>2, <4>0, <2>p
      <4>2. \E k \in Nat : current_out_pointer' = k * bufsiz
        <5>1. PICK k \in Nat : current_out_pointer = k * bufsiz
          BY <2>0 DEF Positions
        <5>2. k # 0
          BY <3>2, <5>1, <2>p
        <5>3. k - 1 \in Nat /\ (k - 1) * bufsiz = k * bufsiz - bufsiz
          BY <5>2, <2>p
        <5> QED BY <5>1, <5>3, <4>0
      <4>3. Trunc!TypeOK'
        BY <4>0, <4>1, <2>0, <2>p DEF Trunc!TypeOK, Trunc!sizes
      <4>4. Positions'
        BY <4>0, <4>1, <4>2, <2>0, <2>p DEF Positions, Trunc!sizes
      <4>5. Zeroes'
        BY <4>0, <4>1, <2>0 DEF Zeroes, ZeroesAfter, Trunc!sizes
      <4>6. Trunc!OnlyZeroesCut' /\ Trunc!TailIsCut'
        BY <3>2, <2>0 DEF Trunc!OnlyZeroesCut, Trunc!TailIsCut, Trunc!End, Trunc!sizes
      <4> QED BY <4>3, <4>4, <4>5, <4>6 DEF TruncInv
    <3> QED BY <3>1, <3>2
  <2>2. CASE Trunc!ReadBlock
    <3> USE <2>2 DEF Trunc!ReadBlock
    <3>0. current_out_pointer = pointer /\ pointer <= existing_out_file_size /\ reads = "read"
      BY <2>0 DEF Positions
    <3>a. UNCHANGED <<contents, before, bufsiz, existing_out_file_size, shared, result>>
      BY DEF Trunc!sizes
    <3>1. CASE Trunc!AllZero(Trunc!BlockRead) /\ pointer' = Trunc!AfterZeroes /\ current_out_pointer' = pointer' /\ reads' = "back"
      <4>1. pointer' = pointer /\ current_out_pointer' = current_out_pointer
        BY <3>0, <3>1 DEF Trunc!AfterZeroes
      <4>2. Trunc!TypeOK'
        BY <3>0, <3>1, <3>a, <4>1, <2>0 DEF Trunc!TypeOK
      <4>3. Positions'
        BY <3>0, <3>1, <3>a, <4>1, <2>0 DEF Positions
      <4>4. Zeroes'
        <5> SUFFICES ASSUME ~ shared PROVE ZeroesAfter(pointer)'
          BY <3>1, <3>a DEF Zeroes
        <5>1. contents = before /\ pointer <= Len(contents)
          BY <2>0, <3>0 DEF Positions
        <5>2. ZeroesAfter(pointer + bufsiz)
          BY <2>0, <3>0 DEF Zeroes
        <5>3. /\ pointer + Len(Trunc!BlockRead) = IF pointer + bufsiz <= Len(contents) THEN pointer + bufsiz ELSE Len(contents)
              /\ DOMAIN Trunc!BlockRead = 1 .. Len(Trunc!BlockRead) /\ Len(Trunc!BlockRead) \in Nat
              /\ \A i \in 1 .. Len(Trunc!BlockRead) : Trunc!BlockRead[i] = contents[pointer + i]
          BY <5>1, <2>p, BlockIsRead
        <5>4. ASSUME NEW i \in DOMAIN before, i > pointer PROVE before[i] = 0
          <6>1. CASE i > pointer + bufsiz
            BY <6>1, <5>2 DEF ZeroesAfter
          <6>2. CASE ~ (i > pointer + bufsiz)
            <7>1. i - pointer \in 1 .. Len(Trunc!BlockRead) /\ pointer + (i - pointer) = i
              BY <6>2, <5>4, <5>3, <5>1, <2>p
            <7>2. Trunc!BlockRead[i - pointer] = 0
              BY <7>1, <5>3, <3>1 DEF Trunc!AllZero
            <7>3. Trunc!BlockRead[i - pointer] = contents[i]
              BY <7>1, <5>3
            <7> QED BY <7>2, <7>3, <5>1
          <6> QED BY <6>1, <6>2
        <5> QED BY <5>4, <4>1, <3>a DEF ZeroesAfter
      <4>5. Trunc!OnlyZeroesCut' /\ Trunc!TailIsCut'
        BY <3>1, <3>a, <2>0 DEF Trunc!OnlyZeroesCut, Trunc!TailIsCut, Trunc!End
      <4> QED BY <4>2, <4>3, <4>4, <4>5 DEF TruncInv
    <3>2. CASE ~ Trunc!AllZero(Trunc!BlockRead) /\ pointer' = Trunc!AfterData /\ UNCHANGED current_out_pointer /\ reads' = "decide"
      <4>1. pointer' = pointer + Len(Trunc!BlockRead) /\ current_out_pointer' = current_out_pointer
            /\ reads' = "decide" /\ ~ Trunc!AllZero(Trunc!BlockRead)
        BY <3>2 DEF Trunc!AfterData
      <4>b. /\ Len(Trunc!BlockRead) \in 0 .. bufsiz
            /\ pointer <= Len(contents) =>
                 /\ pointer + Len(Trunc!BlockRead) <= Len(contents)
                 /\ pointer + Len(Trunc!BlockRead) = IF pointer + bufsiz <= Len(contents) THEN pointer + bufsiz ELSE Len(contents)
                 /\ DOMAIN Trunc!BlockRead = 1 .. Len(Trunc!BlockRead)
                 /\ \A i \in 1 .. Len(Trunc!BlockRead) : Trunc!BlockRead[i] = contents[pointer + i]
        <5>1. CASE pointer <= Len(contents)
          BY <5>1, <2>p, BlockIsRead
        <5>2. CASE ~ (pointer <= Len(contents))
          BY <5>2, <2>p, EmptyBlock
        <5> QED BY <5>1, <5>2
      <4>2. Trunc!TypeOK'
        BY <3>0, <3>a, <4>1, <4>b, <2>0, <2>p DEF Trunc!TypeOK
      <4>3. Positions'
        <5>1. pointer <= Len(contents)
          BY <3>0, <2>q, <2>p
        <5>2. pointer' \in Nat /\ pointer' <= Len(contents)
          BY <5>1, <4>1, <4>b, <2>p
        <5> QED BY <3>0, <3>a, <4>1, <5>2, <2>0 DEF Positions
      <4>4. Zeroes'
        <5> SUFFICES ASSUME ~ shared
                     PROVE  /\ ZeroesAfter(pointer)' /\ DataIn(current_out_pointer, pointer)'
                            /\ pointer' <= current_out_pointer' + bufsiz' /\ pointer' <= existing_out_file_size'
          BY <4>1, <3>a DEF Zeroes
        <5>1. contents = before /\ pointer <= Len(contents) /\ Len(contents) = existing_out_file_size
          BY <2>0, <3>0 DEF Positions
        <5>2. ZeroesAfter(pointer + bufsiz)
          BY <2>0, <3>0 DEF Zeroes
        <5>3. ZeroesAfter(pointer)'
          <6>1. \A i \in DOMAIN before : i > pointer' => i > pointer + bufsiz
            BY <4>1, <4>b, <5>1, <2>p
          <6> QED BY <6>1, <5>2, <3>a DEF ZeroesAfter
        <5>4. DataIn(current_out_pointer, pointer)'
          <6>1. PICK i \in DOMAIN Trunc!BlockRead : Trunc!BlockRead[i] # 0
            BY <4>1 DEF Trunc!AllZero
          <6>2. i \in 1 .. Len(Trunc!BlockRead) /\ Trunc!BlockRead[i] = contents[pointer + i]
            BY <6>1, <4>b, <5>1
          <6>3. pointer + i \in DOMAIN before /\ pointer + i > pointer /\ pointer + i <= pointer'
            BY <6>2, <4>b, <4>1, <5>1, <2>p
          <6> QED BY <6>1, <6>2, <6>3, <5>1, <4>1, <3>a, <3>0 DEF DataIn
        <5> QED BY <5>1, <5>3, <5>4, <4>1, <4>b, <3>a, <3>0, <2>p
      <4>5. Trunc!OnlyZeroesCut' /\ Trunc!TailIsCut'
        <5>1. result' = "none" \/ Trunc!TailIsCut' BY <3>a, <2>0 DEF Trunc!TailIsCut, Trunc!End
        <5> QED BY <3>a, <2>0 DEF Trunc!OnlyZeroesCut, Trunc!TailIsCut, Trunc!End
      <4> QED BY <4>2, <4>3, <4>4, <4>5 DEF TruncInv
    <3> QED BY <3>1, <3>2
  <2>3. ASSUME NEW how \in {"crashed", "failed"}, Trunc!Ends(how), reads # "end" PROVE TruncInv'
    <3>1. UNCHANGED <<contents, before, bufsiz, existing_out_file_size, shared, current_out_pointer, pointer>>
          /\ reads' = "end" /\ result' = how
      BY <2>3 DEF Trunc!Ends, Trunc!sizes
    <3>2. Trunc!TypeOK' /\ Positions' /\ Zeroes' /\ Trunc!OnlyZeroesCut' /\ Trunc!TailIsCut'
      BY <3>1, <2>0 DEF Trunc!TypeOK, Positions, Zeroes, Trunc!OnlyZeroesCut, Trunc!TailIsCut, Trunc!End
    <3> QED BY <3>2 DEF TruncInv
  <2>4. CASE Trunc!SetEnd
    <3> USE <2>4 DEF Trunc!SetEnd
    <3>0. UNCHANGED <<before, bufsiz, existing_out_file_size, shared, current_out_pointer, pointer>>
          /\ reads' = "end" /\ result' = "truncated" /\ contents' = SubSeq(contents, 1, pointer)
          /\ reads = "decide" /\ current_out_pointer + bufsiz < existing_out_file_size
      BY DEF Trunc!sizes, Trunc!Worthwhile
    <3>1. Trunc!TypeOK'
      BY <3>0, <2>0 DEF Trunc!TypeOK
    <3>2. contents' \in Seq({0, 1})
      <4>1. pointer \in 0 .. Len(contents)
        BY <3>0, <2>q, <2>p
      <4>2. SubSeq(contents, 1, pointer) \in Seq({0, 1})
        BY <4>1, <2>p, Cutting
      <4> QED BY <3>0, <4>2
    <3>3. Positions' /\ Zeroes'
      BY <3>0, <3>2, <2>0 DEF Positions, Zeroes
    <3>4. Trunc!OnlyZeroesCut' /\ Trunc!TailIsCut'
      <4>0. shared => Trunc!OnlyZeroesCut' /\ Trunc!TailIsCut'
        BY <3>0 DEF Trunc!OnlyZeroesCut, Trunc!TailIsCut
      <4> SUFFICES ASSUME ~ shared PROVE Trunc!OnlyZeroesCut' /\ Trunc!TailIsCut'
        BY <4>0
      <4>1. Len(contents') = pointer /\ contents' = SubSeq(before, 1, pointer) /\ pointer >= Trunc!End /\ pointer - Trunc!End < bufsiz
        BY <3>0, <2>0, RightEnd
      <4> QED BY <4>1, <3>0 DEF Trunc!OnlyZeroesCut, Trunc!TailIsCut, Trunc!End
    <3> QED BY <3>1, <3>3, <3>4 DEF TruncInv
  <2>5. CASE Trunc!Keep
    <3>0. UNCHANGED <<contents, before, bufsiz, existing_out_file_size, shared, current_out_pointer, pointer>>
          /\ reads' = "end" /\ result' = "kept"
          /\ reads = "decide" /\ current_out_pointer + bufsiz >= existing_out_file_size
      BY <2>5, <2>p DEF Trunc!Keep, Trunc!Ends, Trunc!sizes, Trunc!Worthwhile
    <3>1. Trunc!TypeOK' /\ Positions' /\ Zeroes' /\ Trunc!OnlyZeroesCut'
      BY <3>0, <2>0 DEF Trunc!TypeOK, Positions, Zeroes, Trunc!OnlyZeroesCut, Trunc!End
    <3>2. Trunc!TailIsCut'
      <4>1. ~ shared /\ existing_out_file_size > bufsiz => Len(contents) - Trunc!End < bufsiz
        BY <3>0, <2>0, RightKept
      <4> QED BY <4>1, <3>0 DEF Trunc!TailIsCut, Trunc!End
    <3> QED BY <3>1, <3>2 DEF TruncInv
  <2>6. CASE Trunc!Share
    <3>0. UNCHANGED <<bufsiz, existing_out_file_size, current_out_pointer, pointer, reads, result>>
          /\ contents' = Append(contents, 1) /\ before' = contents' /\ shared'
      BY <2>6 DEF Trunc!Share, Trunc!sizes
    <3>1. contents' \in Seq({0, 1}) /\ Len(contents') = Len(contents) + 1
      <4>1. 1 \in {0, 1}
        OBVIOUS
      <4> QED BY <3>0, <4>1, <2>p, AppendProperties
    <3>2. Trunc!TypeOK' /\ Zeroes' /\ Trunc!OnlyZeroesCut' /\ Trunc!TailIsCut'
      BY <3>0, <2>0 DEF Trunc!TypeOK, Zeroes, Trunc!OnlyZeroesCut, Trunc!TailIsCut
    <3>3. Positions'
      <4>1. \A n \in Nat : n <= Len(contents) => n <= Len(contents')
        BY <3>1, <2>p
      <4> QED BY <3>0, <3>1, <4>1, <2>0, <2>p DEF Positions
    <3> QED BY <3>2, <3>3 DEF TruncInv
  <2>7. CASE UNCHANGED Trunc!vars
    <3>1. Trunc!TypeOK' /\ Positions' /\ Zeroes' /\ Trunc!OnlyZeroesCut' /\ Trunc!TailIsCut'
      BY <2>7, <2>0 DEF Trunc!vars, Trunc!sizes, Trunc!TypeOK, Positions, Zeroes, ZeroesAfter, DataIn, Trunc!OnlyZeroesCut, Trunc!TailIsCut, Trunc!End
    <3> QED BY <3>1 DEF TruncInv
  <2> QED BY <2>1, <2>2, <2>3, <2>4, <2>5, <2>6, <2>7 DEF Trunc!Next, Trunc!Program, Trunc!Overrun, Trunc!Fails
-----------------------------------------------------------------------------
(* One of the programs runs. *)

LEMMA OneRuns ==
    ASSUME [Repl(Next) \/ Arc(Snap!Next) \/ Cut(Split!Next) \/ Shorten(Trunc!Next)]_mcvars
    PROVE  /\ running' = running
           /\ running = "strarc" => [Snap!Next]_(Snap!vars)
           /\ running = "fsplitw" => [Split!Next]_(Split!vars)
           /\ running = "trunczerotail" => [Trunc!Next]_(Trunc!vars)
<1>1. CASE UNCHANGED mcvars
  BY <1>1 DEF mcvars, snaponly, cutonly, tailonly, Snap!vars, Snap!history, Split!vars, Split!file, Split!disk,
              Trunc!vars, Trunc!sizes
<1> QED
  BY <1>1 DEF Repl, Arc, Cut, Shorten

(* Whatever users do with the hives meanwhile and whichever method a session has:
   a snapshot that it archives is of the time between its start and its walk, and a
   session that comes to its end has archived every hive it made a snapshot of. *)
THEOREM SnapshotsAreSaved == MCSpec => []HivesAreSaved
<1> DEFINE I == running = "strarc" => SnapInv
<1>1. MCInit => I
  BY SnapInit DEF MCInit
<1>2. I /\ [Repl(Next) \/ Arc(Snap!Next) \/ Cut(Split!Next) \/ Shorten(Trunc!Next)]_mcvars => I'
  BY OneRuns, SnapStep
<1>3. I => HivesAreSaved
  BY DEF HivesAreSaved, SnapInv
<1> QED
  BY <1>1, <1>2, <1>3, PTL DEF MCSpec

(* However often a disk is full and wherever a part is cut: the parts and the buffer
   are what has been read, and the parts of a split that is done are the file. *)
THEOREM PartsMakeTheFile == MCSpec => []PartsAreTheFile
<1> DEFINE I == running = "fsplitw" => SplitInv
<1>1. MCInit => I
  BY SplitInit DEF MCInit
<1>2. I /\ [Repl(Next) \/ Arc(Snap!Next) \/ Cut(Split!Next) \/ Shorten(Trunc!Next)]_mcvars => I'
  BY OneRuns, SplitStep
<1>3. I => PartsAreTheFile
  BY SplitDone DEF PartsAreTheFile, SplitInv
<1> QED
  BY <1>1, <1>2, <1>3, PTL DEF MCSpec

(* For every file and every size of block: if nobody else writes, what is cut off is
   zeroes, and less than a block of them is left. *)
THEOREM OnlyTheTailIsCut == MCSpec => []ZeroesAreCut
<1> DEFINE I == running = "trunczerotail" => TruncInv
<1>1. MCInit => I
  BY TruncInit DEF MCInit
<1>2. I /\ [Repl(Next) \/ Arc(Snap!Next) \/ Cut(Split!Next) \/ Shorten(Trunc!Next)]_mcvars => I'
  BY OneRuns, TruncStep
<1>3. I => ZeroesAreCut
  BY DEF ZeroesAreCut, TruncInv
<1> QED
  BY <1>1, <1>2, <1>3, PTL DEF MCSpec
-----------------------------------------------------------------------------
(* regrepl.  Positions, and functions that are defined by recursion on them. *)

LEMMA Least ==
    ASSUME NEW S \in SUBSET Nat, S # {}
    PROVE  \E i \in S : \A j \in S : i <= j
<1> DEFINE R == {ss \in Nat \X Nat : ss[1] < ss[2]}
<1>1. IsWellFoundedOn(R, Nat)
  BY NatLessThanWellFounded DEF OpToRel
<1>2. \A i, j \in Nat : i < j => <<i, j>> \in R
  OBVIOUS
<1> HIDE DEF R
<1>3. PICK x \in S : \A y \in S : ~ (<<y, x>> \in R)
  BY <1>1, WFMin
<1>4. ASSUME NEW y \in S PROVE x <= y
  <2>1. x \in Nat /\ y \in Nat
    OBVIOUS
  <2>2. ~ (y < x)
    BY <1>2, <1>3, <2>1
  <2> QED
    BY <2>1, <2>2
<1> QED
  BY <1>4

LEMMA Downward ==
    ASSUME NEW m \in Nat, NEW P,
           \A i \in 1 .. m : (\A j \in i + 1 .. m : j \in P) => i \in P
    PROVE  \A i \in 1 .. m : i \in P
<1> DEFINE Q == {n \in Nat : \A i \in 1 .. m : m - i < n => i \in P}
<1>1. 0 \in Q
  OBVIOUS
<1>2. ASSUME NEW n \in Q PROVE n + 1 \in Q
  <2> SUFFICES ASSUME NEW i \in 1 .. m, m - i < n + 1 PROVE i \in P
    OBVIOUS
  <2>1. \A j \in i + 1 .. m : j \in 1 .. m /\ m - j < n
    OBVIOUS
  <2> QED
    BY <2>1
<1>3. Q = Nat
  <2>1. Q \in SUBSET Nat
    OBVIOUS
  <2> HIDE DEF Q
  <2> QED
    BY <1>1, <1>2, <2>1, NatInd
<1>4. m \in Q
  BY <1>3
<1> QED
  BY <1>4

\* What G says of a place depends on places of lower rank only.
Descends(G, D, R, rank, m) ==
    /\ R # {} /\ G \in [[D -> R] -> [D -> R]]
    /\ m \in Nat /\ rank \in [D -> 0 .. m]
    /\ \A f, g \in [D -> R] : \A d \in D :
          (\A e \in D : rank[e] < rank[d] => f[e] = g[e]) => G[f][d] = G[g][d]

LEMMA Fixpoint ==
    ASSUME NEW G, NEW D, NEW R, NEW rank, NEW m, Descends(G, D, R, rank, m)
    PROVE  \E f \in [D -> R] : G[f] = f
<1>0. /\ R # {} /\ G \in [[D -> R] -> [D -> R]]
      /\ m \in Nat /\ rank \in [D -> 0 .. m]
      /\ \A f, g \in [D -> R] : \A d \in D :
            (\A e \in D : rank[e] < rank[d] => f[e] = g[e]) => G[f][d] = G[g][d]
  BY DEF Descends
<1> DEFINE a == [d \in D |-> CHOOSE r \in R : TRUE]
           GG == [i \in Nat |-> G]
           S == [D -> R]
<1>1. a \in S /\ GG \in [Nat -> [S -> S]]
  BY <1>0
<1>2. \A i \in Nat : GG[i] = G
  OBVIOUS
<1> HIDE DEF a, GG
<1>3. m + 2 \in Nat
  BY <1>0
<1>4. PICK F : Iterates(F, S, a, GG, m + 2)
  <2> HIDE DEF S
  <2> QED
    BY <1>1, <1>3, Recursion
<1>5. /\ \A i \in 0 .. m + 2 : F[i] \in S
      /\ \A i \in 0 .. m + 1 : F[i + 1] = G[F[i]]
  <2>1. F \in [0 .. m + 2 -> S] /\ \A i \in 1 .. m + 2 : F[i] = GG[i][F[i - 1]]
    BY <1>4 DEF Iterates
  <2>2. ASSUME NEW i \in 0 .. m + 1 PROVE F[i + 1] = G[F[i]]
    <3>1. i + 1 \in 1 .. m + 2 /\ i + 1 \in Nat /\ (i + 1) - 1 = i
      BY <1>0
    <3> QED
      BY <1>2, <2>1, <3>1
  <2> HIDE DEF S
  <2> QED
    BY <2>1, <2>2
<1> DEFINE P == {n \in Nat : n <= m + 1 => \A d \in D : rank[d] < n => F[n][d] = F[n + 1][d]}
<1>6. 0 \in P
  BY <1>0
<1>7. ASSUME NEW n \in P PROVE n + 1 \in P
  <2> SUFFICES ASSUME n + 1 <= m + 1, NEW d \in D, rank[d] < n + 1
               PROVE  F[n + 1][d] = F[(n + 1) + 1][d]
    OBVIOUS
  <2>1. n \in 0 .. m + 1 /\ n + 1 \in 0 .. m + 1 /\ n \in 0 .. m + 2 /\ n + 1 \in 0 .. m + 2
    BY <1>0
  <2>2. \A e \in D : rank[e] < rank[d] => F[n][e] = F[n + 1][e]
    <3>1. \A e \in D : rank[e] < n => F[n][e] = F[n + 1][e]
      BY <1>0
    <3>2. rank[d] \in Nat /\ \A e \in D : rank[e] \in Nat
      BY <1>0
    <3> QED
      BY <3>1, <3>2
  <2>3. F[n] \in [D -> R] /\ F[n + 1] \in [D -> R]
    BY <1>5, <2>1
  <2>4. G[F[n]][d] = G[F[n + 1]][d]
    BY <1>0, <2>2, <2>3
  <2>5. F[n + 1] = G[F[n]] /\ F[(n + 1) + 1] = G[F[n + 1]]
    BY <1>5, <2>1
  <2> QED
    BY <2>4, <2>5
<1>8. P = Nat
  <2>1. P \in SUBSET Nat
    OBVIOUS
  <2> HIDE DEF P
  <2> QED
    BY <1>6, <1>7, <2>1, NatInd
<1>9. m + 1 \in P
  <2> HIDE DEF P
  <2> QED
    BY <1>0, <1>8
<1>10. \A d \in D : F[m + 1][d] = F[(m + 1) + 1][d]
  <2>1. \A d \in D : rank[d] < m + 1
    BY <1>0
  <2> QED
    BY <1>9, <2>1
<1>11. F[m + 1] \in [D -> R] /\ F[(m + 1) + 1] \in [D -> R] /\ F[(m + 1) + 1] = G[F[m + 1]]
  <2>1. m + 1 \in 0 .. m + 1 /\ m + 1 \in 0 .. m + 2 /\ (m + 1) + 1 \in 0 .. m + 2
    BY <1>0
  <2> QED
    BY <1>5, <2>1
<1>12. F[m + 1] = F[(m + 1) + 1]
  BY <1>10, <1>11
<1> QED
  BY <1>11, <1>12
-----------------------------------------------------------------------------
(* What a part of data is. *)

LEMMA PartIs ==
    ASSUME NEW data \in Seq(Nat), NEW a \in Nat \ {0}, NEW b \in Int
    PROVE  LET n == IF b < Len(data) THEN b ELSE Len(data)
           IN  /\ Part(data, a, b) \in Seq(Nat)
               /\ Len(Part(data, a, b)) = IF a <= n THEN n - a + 1 ELSE 0
               /\ \A i \in 1 .. n - a + 1 : Part(data, a, b)[i] = data[a + i - 1]
<1> DEFINE n == IF b < Len(data) THEN b ELSE Len(data)
<1>1. Len(data) \in Nat /\ n \in Int /\ n <= Len(data)
  OBVIOUS
<1>2. \A i \in a .. n : data[i] \in Nat
  BY <1>1
<1>3. Part(data, a, b) = SubSeq(data, a, n)
  BY DEF Part
<1> HIDE DEF n
<1>4. a \in Int
  OBVIOUS
<1>5. /\ SubSeq(data, a, n) \in Seq(Nat)
      /\ Len(SubSeq(data, a, n)) = IF a <= n THEN n - a + 1 ELSE 0
      /\ \A i \in 1 .. n - a + 1 : SubSeq(data, a, n)[i] = data[a + i - 1]
  BY <1>1, <1>2, <1>4, SubSeqProperties
<1>6. QED
  BY <1>3, <1>5 DEF n

LEMMA PartEmpty ==
    ASSUME NEW data \in Seq(Nat), NEW a \in Nat \ {0}, NEW b \in Int, b < a \/ Len(data) < a
    PROVE  Part(data, a, b) = <<>>
<1> DEFINE n == IF b < Len(data) THEN b ELSE Len(data)
<1>0. Len(data) \in Nat /\ n \in Int /\ n < a
  OBVIOUS
<1>1. Part(data, a, b) \in Seq(Nat) /\ Len(Part(data, a, b)) = IF a <= n THEN n - a + 1 ELSE 0
  BY PartIs
<1> HIDE DEF n
<1>2. Len(Part(data, a, b)) = 0
  BY <1>0, <1>1
<1> QED
  BY <1>1, <1>2, EmptySeq

LEMMA PartJoin ==
    ASSUME NEW data \in Seq(Nat), NEW a \in Nat \ {0}, NEW b \in Nat, NEW c \in Nat, a <= b + 1, b <= c
    PROVE  Part(data, a, b) \o Part(data, b + 1, c) = Part(data, a, c)
<1> DEFINE s == Part(data, a, b)
           t == Part(data, b + 1, c)
           u == Part(data, a, c)
<1>1. Len(data) \in Nat /\ b + 1 \in Nat \ {0} /\ c \in Int /\ b \in Int
  OBVIOUS
<1>2. CASE Len(data) <= b
  <2>1. t = <<>>
    BY <1>1, <1>2, PartEmpty
  <2>2. s = u /\ s \in Seq(Nat)
    <3>1. (IF b < Len(data) THEN b ELSE Len(data)) = (IF c < Len(data) THEN c ELSE Len(data))
      BY <1>1, <1>2
    <3>2. s \in Seq(Nat)
      BY <1>1, PartIs
    <3> QED
      BY <3>1, <3>2 DEF Part
  <2> HIDE DEF s, t, u
  <2> QED
    BY <2>1, <2>2, ConcatEmptySeq DEF s, t, u
<1>3. CASE b < Len(data)
  <2> DEFINE n == IF c < Len(data) THEN c ELSE Len(data)
  <2>1. s = SubSeq(data, a, b) /\ t = SubSeq(data, b + 1, n) /\ u = SubSeq(data, a, n)
    BY <1>3 DEF Part
  <2>2. a \in 1 .. Len(data) + 1 /\ b \in a - 1 .. Len(data) /\ n \in b .. Len(data)
    BY <1>1, <1>3
  <2> HIDE DEF s, t, u, n
  <2>3. SubSeq(data, a, b) \o SubSeq(data, b + 1, n) = SubSeq(data, a, n)
    BY <2>2, ConcatAdjacentSubSeq
  <2> QED
    BY <2>1, <2>3 DEF s, t, u
<1> QED
  BY <1>1, <1>2, <1>3

LEMMA PartWhole ==
    ASSUME NEW data \in Seq(Nat), NEW b \in Nat, b >= Len(data)
    PROVE  Part(data, 1, b) = data
<1>1. Part(data, 1, b) = SubSeq(data, 1, Len(data))
  BY DEF Part
<1> QED
  BY <1>1, SubSeqFull

(* A text at a place is within the data. *)
LEMMA TextIsThere ==
    ASSUME NEW data \in Seq(Nat), NEW text \in Seq(Nat), text # <<>>,
           NEW i \in Nat \ {0}, IsAt(text, data, i)
    PROVE  /\ Len(text) \in Nat \ {0} /\ i + Len(text) - 1 <= Len(data)
           /\ \A p \in 1 .. Len(text) : data[i + p - 1] = text[p]
<1>1. Len(text) \in Nat \ {0} /\ Len(data) \in Nat
  BY EmptySeq
<1>2. Part(data, i, i + Len(text) - 1) = text
  BY DEF IsAt
<1> DEFINE b == i + Len(text) - 1
<1>3. b \in Int /\ b >= i
  BY <1>1
<1>4. LET n == IF b < Len(data) THEN b ELSE Len(data)
      IN  /\ Len(Part(data, i, b)) = IF i <= n THEN n - i + 1 ELSE 0
          /\ \A p \in 1 .. n - i + 1 : Part(data, i, b)[p] = data[i + p - 1]
  <2> HIDE DEF b
  <2> QED
    BY <1>3, PartIs
<1>5. b <= Len(data)
  BY <1>1, <1>2, <1>4
<1> QED
  BY <1>1, <1>2, <1>4, <1>5
-----------------------------------------------------------------------------
(* The search for a text, in steps of one or two bytes. *)

Step(a, k, step) == k >= a /\ (k - a) % step = 0
NoneIn(text, data, a, b, step) == \A k \in a .. b : Step(a, k, step) => ~ IsAt(text, data, k)

LEMMA FirstFound ==
    ASSUME NEW data, NEW text \in Seq(Nat), text # <<>>, NEW old \in Nat \ {0}, NEW last \in Nat,
           NEW step \in {1, 2}, NEW i, i = Found(text, data, old, last, step)
    PROVE  \/ i = 0 /\ NoneIn(text, data, old, last - Len(text), step)
           \/ /\ i \in old .. last - Len(text) /\ Step(old, i, step) /\ IsAt(text, data, i)
              /\ NoneIn(text, data, old, i - 1, step)
<1> DEFINE places == {k \in old .. last - Len(text) : (k - old) % step = 0 /\ IsAt(text, data, k)}
<1>1. i = IF places = {} THEN 0 ELSE CHOOSE k \in places : \A j \in places : k <= j
  BY DEF Found
<1>2. Len(text) \in Nat
  OBVIOUS
<1>3. CASE places = {}
  BY <1>1, <1>3 DEF NoneIn, Step
<1>4. CASE places # {}
  <2>1. places \in SUBSET Nat
    BY <1>2
  <2>2. \E k \in places : \A j \in places : k <= j
    <3> HIDE DEF places
    <3> QED
      BY <1>4, <2>1, Least
  <2>3. i \in places /\ \A j \in places : i <= j
    <3> HIDE DEF places
    <3> QED
      BY <1>1, <1>4, <2>2
  <2>4. i \in old .. last - Len(text) /\ Step(old, i, step) /\ IsAt(text, data, i)
    BY <1>2, <2>3 DEF Step
  <2>5. ASSUME NEW k \in old .. i - 1, Step(old, k, step), IsAt(text, data, k) PROVE FALSE
    <3>1. k \in places
      BY <1>2, <2>4, <2>5 DEF Step
    <3>2. i \in Int /\ k < i /\ k \in Int
      BY <1>2, <2>4
    <3> HIDE DEF places
    <3> QED
      BY <2>3, <3>1, <3>2
  <2> QED
    BY <2>4, <2>5 DEF NoneIn
<1> QED
  BY <1>3, <1>4

LEMMA Assoc ==
    ASSUME NEW s \in Seq(Nat), NEW t \in Seq(Nat), NEW u \in Seq(Nat)
    PROVE  (s \o t) \o u = s \o (t \o u)
  BY ConcatAssociative, SMTT(60)
-----------------------------------------------------------------------------
(* What is to come of data from each place on. *)

Texts(data, from, to, step) ==
    /\ data \in Seq(Nat) /\ to \in Seq(Nat)
    /\ from \in Seq(Nat) /\ from # <<>> /\ step \in {1, 2}

RestIs(T, data, from, to, step) ==
    T = [i \in Nat \ {0} |->
            IF i > Len(data) THEN <<>>
            ELSE IF IsAt(from, data, i) THEN to \o T[i + Len(from)]
            ELSE Part(data, i, i + step - 1) \o T[i + step]]

LEMMA RestExists ==
    ASSUME NEW data, NEW from, NEW to, NEW step, Texts(data, from, to, step)
    PROVE  \E T : RestIs(T, data, from, to, step) /\ Expected(data, from, to, step) = T[1]
<1> DEFINE D == Nat \ {0}
           R == Seq(Nat)
           m == Len(data)
           G == [f \in [D -> R] |->
                   [i \in D |->
                      IF i > m THEN <<>>
                      ELSE IF IsAt(from, data, i) THEN to \o f[i + Len(from)]
                      ELSE Part(data, i, i + step - 1) \o f[i + step]]]
           rank == [i \in D |-> IF i > m THEN 0 ELSE m + 1 - i]
<1>1. /\ data \in Seq(Nat) /\ to \in Seq(Nat) /\ step \in {1, 2}
      /\ m \in Nat /\ Len(from) \in Nat \ {0}
  BY EmptySeq DEF Texts
<1>2. \A i \in D : i + Len(from) \in D /\ i + step \in D
  BY <1>1
<1>3. ASSUME NEW f \in [D -> R], NEW i \in D
      PROVE  /\ to \o f[i + Len(from)] \in R
             /\ Part(data, i, i + step - 1) \o f[i + step] \in R
  <2>1. f[i + Len(from)] \in R /\ f[i + step] \in R
    BY <1>2
  <2>2. Part(data, i, i + step - 1) \in R
    <3>1. i + step - 1 \in Int
      BY <1>1
    <3> QED
      BY <1>1, <3>1, PartIs
  <2>3. to \o f[i + Len(from)] \in R
    BY <1>1, <2>1, ConcatProperties
  <2>4. Part(data, i, i + step - 1) \o f[i + step] \in R
    BY <2>1, <2>2, ConcatProperties
  <2> QED
    BY <2>3, <2>4
<1>4. R # {} /\ <<>> \in R
  BY EmptySeq
<1>5. G \in [[D -> R] -> [D -> R]]
  <2> HIDE DEF D, R, m
  <2> QED
    BY <1>3, <1>4
<1>6. rank \in [D -> 0 .. m + 1] /\ m + 1 \in Nat
  BY <1>1
<1>7. ASSUME NEW f \in [D -> R], NEW g \in [D -> R], NEW d \in D,
             \A e \in D : rank[e] < rank[d] => f[e] = g[e]
      PROVE  G[f][d] = G[g][d]
  <2>1. /\ G[f][d] = IF d > m THEN <<>>
                     ELSE IF IsAt(from, data, d) THEN to \o f[d + Len(from)]
                     ELSE Part(data, d, d + step - 1) \o f[d + step]
        /\ G[g][d] = IF d > m THEN <<>>
                     ELSE IF IsAt(from, data, d) THEN to \o g[d + Len(from)]
                     ELSE Part(data, d, d + step - 1) \o g[d + step]
    <3> HIDE DEF D, R, m
    <3> QED
      OBVIOUS
  <2> HIDE DEF G
  <2>2. d <= m => rank[d + Len(from)] < rank[d] /\ rank[d + step] < rank[d]
    <3>1. \A e \in D : rank[e] = IF e > m THEN 0 ELSE m + 1 - e
      OBVIOUS
    <3> HIDE DEF rank
    <3>2. SUFFICES ASSUME d <= m
                   PROVE  rank[d + Len(from)] < rank[d] /\ rank[d + step] < rank[d]
      OBVIOUS
    <3>3. d \in Nat /\ d + Len(from) > d /\ d + step > d /\ d + Len(from) \in Nat /\ d + step \in Nat
      BY <1>1
    <3>4. ASSUME NEW e \in D, e > d PROVE rank[e] < rank[d]
      <4>1. m \in Nat /\ e \in Nat /\ d \in Nat
        BY <1>1
      <4>2. rank[d] = m + 1 - d /\ rank[e] = IF e > m THEN 0 ELSE m + 1 - e
        BY <3>1, <3>2
      <4> HIDE DEF m, D
      <4> QED
        BY <3>2, <3>4, <4>1, <4>2
    <3> HIDE DEF D, m
    <3> QED
      BY <1>2, <3>3, <3>4
  <2>3. d <= m => f[d + Len(from)] = g[d + Len(from)] /\ f[d + step] = g[d + step]
    <3> HIDE DEF rank, D, R, m
    <3> QED
      BY <1>2, <1>7, <2>2
  <2>4. d > m \/ d <= m
    BY <1>1
  <2> HIDE DEF rank, D, R, m
  <2> QED
    BY <2>1, <2>3, <2>4
<1>8. \E f \in [D -> R] : G[f] = f
  <2> HIDE DEF D, R, G, rank, m
  <2> QED
    <3>1. Descends(G, D, R, rank, m + 1)
      BY <1>4, <1>5, <1>6, <1>7 DEF Descends
    <3> QED
      BY <3>1, Fixpoint
<1>9. PICK f \in [D -> R] : G[f] = f
  BY <1>8
<1>10. RestIs(f, data, from, to, step)
  <2>1. G[f] = [i \in D |->
                      IF i > m THEN <<>>
                      ELSE IF IsAt(from, data, i) THEN to \o f[i + Len(from)]
                      ELSE Part(data, i, i + step - 1) \o f[i + step]]
    <3> HIDE DEF D, R, m
    <3> QED
      OBVIOUS
  <2> HIDE DEF G
  <2> QED
    BY <1>9, <2>1 DEF RestIs
<1> DEFINE T == CHOOSE T : RestIs(T, data, from, to, step)
<1>11. RestIs(T, data, from, to, step)
  <2> HIDE DEF G, D, R
  <2> QED
    BY <1>10
<1>12. Expected(data, from, to, step) = T[1]
  BY DEF Expected, RestIs
<1> HIDE DEF T
<1> QED
  BY <1>11, <1>12

LEMMA RestStep ==
    ASSUME NEW T, NEW data, NEW from, NEW to, NEW step, Texts(data, from, to, step),
           RestIs(T, data, from, to, step), NEW i \in Nat \ {0}
    PROVE  T[i] = IF i > Len(data) THEN <<>>
                  ELSE IF IsAt(from, data, i) THEN to \o T[i + Len(from)]
                  ELSE Part(data, i, i + step - 1) \o T[i + step]
  BY DEF RestIs

LEMMA RestType ==
    ASSUME NEW T, NEW data, NEW from, NEW to, NEW step, Texts(data, from, to, step),
           RestIs(T, data, from, to, step)
    PROVE  \A i \in Nat \ {0} : T[i] \in Seq(Nat)
<1> DEFINE P == {i \in Nat \ {0} : T[i] \in Seq(Nat)}
           m == Len(data)
<1>1. /\ data \in Seq(Nat) /\ to \in Seq(Nat) /\ step \in {1, 2}
      /\ m \in Nat /\ Len(from) \in Nat \ {0}
  BY EmptySeq DEF Texts
<1>2. \A i \in Nat \ {0} : i > m => i \in P
  <2> TAKE i \in Nat \ {0}
  <2> HAVE i > m
  <2>1. T[i] = <<>>
    BY RestStep
  <2> QED
    BY <2>1, EmptySeq
<1>3. ASSUME NEW i \in 1 .. m, \A j \in i + 1 .. m : j \in P PROVE i \in P
  <2>0. i \in Nat \ {0} /\ i <= m
    BY <1>1
  <2>1. \A j \in Nat \ {0} : j > i => j \in P
    <3> TAKE j \in Nat \ {0}
    <3> HAVE j > i
    <3>1. j > m \/ j \in i + 1 .. m
      BY <1>1
    <3> HIDE DEF P, m
    <3> QED
      BY <1>2, <1>3, <3>1
  <2>2. i + Len(from) \in P /\ i + step \in P
    <3>1. i + Len(from) \in Nat \ {0} /\ i + Len(from) > i /\ i + step \in Nat \ {0} /\ i + step > i
      BY <1>1, <2>0
    <3> HIDE DEF P
    <3> QED
      BY <2>1, <3>1
  <2>3. Part(data, i, i + step - 1) \in Seq(Nat)
    <3>1. i + step - 1 \in Int
      BY <1>1
    <3> QED
      BY <1>1, <2>0, <3>1, PartIs
  <2>4. to \o T[i + Len(from)] \in Seq(Nat) /\ Part(data, i, i + step - 1) \o T[i + step] \in Seq(Nat)
    BY <1>1, <2>2, <2>3, ConcatProperties
  <2>5. T[i] = IF IsAt(from, data, i) THEN to \o T[i + Len(from)]
               ELSE Part(data, i, i + step - 1) \o T[i + step]
    <3>1. ~ (i > Len(data))
      BY <2>0
    <3> QED
      BY <2>0, <3>1, RestStep
  <2> QED
    BY <2>0, <2>4, <2>5
<1>4. \A i \in 1 .. m : i \in P
  <2> HIDE DEF P, m
  <2> QED
    BY <1>1, <1>3, Downward
<1>5. ASSUME NEW i \in Nat \ {0} PROVE i \in P
  <2>1. i > m \/ i \in 1 .. m
    BY <1>1
  <2> HIDE DEF P, m
  <2> QED
    BY <1>2, <1>4, <2>1
<1> QED
  BY <1>5

LEMMA StepFacts ==
    ASSUME NEW a \in Nat, NEW k \in Nat, NEW step \in {1, 2}
    PROVE  /\ Step(a, a, step)
           /\ Step(a, k, step) /\ k # a => k >= a + step /\ Step(a + step, k, step)
           /\ Step(a + step, k, step) => Step(a, k, step)
           /\ k >= a => Step(a, k, step) \/ Step(a, k + 1, step)
<1>1. CASE step = 1
  <2>1. \A n \in Int : n % 1 = 0
    OBVIOUS
  <2> QED
    BY <1>1, <2>1 DEF Step
<1>2. CASE step = 2
  <2>1. (a - a) % 2 = 0
    OBVIOUS
  <2>2. (k - a) % 2 = 0 /\ k # a /\ k >= a => k >= a + 2 /\ (k - (a + 2)) % 2 = 0
    OBVIOUS
  <2>3. (k - (a + 2)) % 2 = 0 => (k - a) % 2 = 0
    OBVIOUS
  <2>4. k >= a => (k - a) % 2 = 0 \/ ((k + 1) - a) % 2 = 0
    OBVIOUS
  <2> QED
    BY <1>2, <2>1, <2>2, <2>3, <2>4 DEF Step
<1> QED
  BY <1>1, <1>2

(* Without a text in between the data stay. *)
LEMMA RestSkips ==
    ASSUME NEW T, NEW data, NEW from, NEW to, NEW step, Texts(data, from, to, step),
           RestIs(T, data, from, to, step),
           NEW old \in Nat \ {0}, NEW j \in Nat \ {0}, old <= j, Step(old, j, step),
           NoneIn(from, data, old, j - 1, step)
    PROVE  T[old] = Part(data, old, j - 1) \o T[j]
<1> DEFINE Goes(o) == Step(o, j, step) /\ NoneIn(from, data, o, j - 1, step) =>
                          T[o] = Part(data, o, j - 1) \o T[j]
           P == {o \in Nat \ {0} : Goes(o)}
<1>1. data \in Seq(Nat) /\ Len(data) \in Nat /\ step \in {1, 2} /\ T[j] \in Seq(Nat)
  BY RestType DEF Texts
<1>2. ASSUME NEW o \in 1 .. j, \A k \in o + 1 .. j : k \in P PROVE o \in P
  <2>0. o \in Nat \ {0} /\ o <= j
    OBVIOUS
  <2> HIDE DEF P
  <2> SUFFICES ASSUME Step(o, j, step), NoneIn(from, data, o, j - 1, step)
               PROVE  T[o] = Part(data, o, j - 1) \o T[j]
    BY <2>0 DEF P
  <2>1. CASE o = j
    <3>1. Part(data, o, j - 1) = <<>>
      BY <1>1, <2>0, <2>1, PartEmpty
    <3> QED
      BY <1>1, <2>1, <3>1, ConcatEmptySeq
  <2>2. CASE o # j /\ o > Len(data)
    <3>1. T[o] = <<>> /\ T[j] = <<>>
      BY <1>1, <2>0, <2>2, RestStep
    <3>2. Part(data, o, j - 1) = <<>>
      BY <1>1, <2>0, <2>2, PartEmpty
    <3>3. <<>> \in Seq(Nat)
      BY EmptySeq
    <3> QED
      BY <3>1, <3>2, <3>3, ConcatEmptySeq
  <2>3. CASE o # j /\ o <= Len(data)
    <3>1. o + step \in o + 1 .. j /\ Step(o + step, j, step)
      <4>1. j >= o + step /\ Step(o + step, j, step)
        BY <1>1, <2>0, <2>3, StepFacts
      <4> QED
        BY <1>1, <2>0, <4>1
    <3>2. NoneIn(from, data, o + step, j - 1, step)
      <4> SUFFICES ASSUME NEW k \in o + step .. j - 1, Step(o + step, k, step)
                   PROVE  ~ IsAt(from, data, k)
        BY DEF NoneIn
      <4>1. k \in o .. j - 1 /\ Step(o, k, step)
        <5>1. k \in Nat /\ k >= o
          BY <1>1, <2>0
        <5>2. Step(o, k, step)
          BY <1>1, <2>0, <5>1, StepFacts
        <5> QED
          BY <1>1, <2>0, <5>1, <5>2
      <4> QED
        BY <4>1 DEF NoneIn
    <3>3. T[o + step] = Part(data, o + step, j - 1) \o T[j]
      <4>1. o + step \in P
        BY <1>2, <3>1
      <4> QED
        BY <3>1, <3>2, <4>1 DEF P
    <3>4. ~ IsAt(from, data, o)
      <4>1. o \in o .. j - 1 /\ Step(o, o, step)
        <5>1. Step(o, o, step)
          BY <1>1, <2>0, StepFacts
        <5>2. o \in o .. j - 1
          BY <2>0, <2>3
        <5> QED
          BY <5>1, <5>2
      <4> QED
        BY <4>1 DEF NoneIn
    <3>5. T[o] = Part(data, o, o + step - 1) \o T[o + step]
      <4>1. ~ (o > Len(data))
        BY <1>1, <2>0, <2>3
      <4>2. T[o] = IF o > Len(data) THEN <<>>
                   ELSE IF IsAt(from, data, o) THEN to \o T[o + Len(from)]
                   ELSE Part(data, o, o + step - 1) \o T[o + step]
        BY <2>0, RestStep
      <4> QED
        BY <3>4, <4>1, <4>2, Zenon
    <3> DEFINE s == Part(data, o, o + step - 1)
               t == Part(data, o + step, j - 1)
    <3>6. s \o t = Part(data, o, j - 1) /\ s \in Seq(Nat) /\ t \in Seq(Nat)
      <4>1. /\ o + step - 1 \in Nat /\ j - 1 \in Nat /\ o <= (o + step - 1) + 1
            /\ o + step - 1 <= j - 1 /\ (o + step - 1) + 1 = o + step
            /\ o + step \in Nat \ {0} /\ o + step - 1 \in Int /\ j - 1 \in Int
        BY <1>1, <2>0, <3>1
      <4>2. s \in Seq(Nat) /\ t \in Seq(Nat)
        BY <1>1, <2>0, <4>1, PartIs
      <4>3. Part(data, o, o + step - 1) \o Part(data, (o + step - 1) + 1, j - 1) = Part(data, o, j - 1)
        BY <1>1, <2>0, <4>1, PartJoin, ZenonT(90)
      <4> QED
        BY <4>1, <4>2, <4>3
    <3> HIDE DEF s, t
    <3>t. T[j] \in Seq(Nat)
      BY <1>1
    <3>7. (s \o t) \o T[j] = s \o (t \o T[j])
      BY <3>6, <3>t, Assoc
    <3>8. T[o] = s \o (t \o T[j])
      BY <3>3, <3>5 DEF s, t
    <3> QED
      BY <3>6, <3>7, <3>8
  <2>4. o > Len(data) \/ o <= Len(data)
    BY <1>1, <2>0
  <2> QED
    BY <2>1, <2>2, <2>3, <2>4
<1>3. j \in Nat /\ old \in 1 .. j
  OBVIOUS
<1>4. \A o \in 1 .. j : o \in P
  <2> HIDE DEF P
  <2> QED
    BY <1>2, <1>3, Downward
<1> QED
  BY <1>3, <1>4

(* From one text to the next. *)
Becomes(T, data, from, to, old, i) ==
    T[old] = Part(data, old, i - 1) \o (to \o T[i + Len(from)])

LEMMA RestFinds ==
    ASSUME NEW T, NEW data, NEW from, NEW to, NEW step, Texts(data, from, to, step),
           RestIs(T, data, from, to, step),
           NEW old \in Nat \ {0}, NEW i \in Nat \ {0}, old <= i, Step(old, i, step),
           NoneIn(from, data, old, i - 1, step), IsAt(from, data, i)
    PROVE  Becomes(T, data, from, to, old, i)
<1>1. T[old] = Part(data, old, i - 1) \o T[i]
  BY RestSkips
<1>2. ~ (i > Len(data))
  <2>1. Len(from) \in Nat \ {0} /\ i + Len(from) - 1 <= Len(data)
    BY TextIsThere DEF Texts
  <2>2. Len(data) \in Nat
    BY DEF Texts
  <2> QED
    BY <2>1, <2>2
<1>3. T[i] = to \o T[i + Len(from)]
  BY <1>2, RestStep
<1> QED
  BY <1>1, <1>3 DEF Becomes

Hit(T, data, from, to, step, old, i) ==
    /\ Texts(data, from, to, step) /\ RestIs(T, data, from, to, step)
    /\ old \in Nat \ {0} /\ i \in Nat \ {0} /\ old <= i /\ Step(old, i, step)
    /\ NoneIn(from, data, old, i - 1, step) /\ IsAt(from, data, i)

LEMMA RestHits ==
    ASSUME NEW T, NEW data, NEW from, NEW to, NEW step, NEW old, NEW i,
           Hit(T, data, from, to, step, old, i)
    PROVE  Becomes(T, data, from, to, old, i)
<1>1. /\ Texts(data, from, to, step) /\ RestIs(T, data, from, to, step)
      /\ old \in Nat \ {0} /\ i \in Nat \ {0} /\ old <= i /\ Step(old, i, step)
      /\ NoneIn(from, data, old, i - 1, step) /\ IsAt(from, data, i)
  BY DEF Hit
<1> QED
  BY <1>1, RestFinds

\* A text that is found before the byte at last ends before it.
Within(text, data, old, last) == \A k \in old .. last : IsAt(text, data, k) => k + Len(text) <= last
Ending(data, last) == Part(data, last, Len(data))

(* The last text has been replaced. *)
LEMMA RestStays ==
    ASSUME NEW T, NEW data, NEW from, NEW to, NEW step, Texts(data, from, to, step),
           RestIs(T, data, from, to, step), NEW old \in Nat \ {0}, NEW last \in Nat \ {0},
           old <= last, last = Len(data) + 1 \/ (last = Len(data) /\ step = 1),
           Within(from, data, old, last), NoneIn(from, data, old, last - Len(from), step)
    PROVE  T[old] = Part(data, old, Len(data))
<1>1. /\ data \in Seq(Nat) /\ Len(data) \in Nat /\ step \in {1, 2} /\ from \in Seq(Nat) /\ from # <<>>
      /\ Len(from) \in Nat \ {0}
  BY EmptySeq DEF Texts
<1>2. PICK j \in {Len(data) + 1, Len(data) + 2} : Step(old, j, step)
  <2>1. Len(data) + 1 \in Nat /\ Len(data) + 1 >= old
    BY <1>1
  <2>2. Step(old, Len(data) + 1, step) \/ Step(old, (Len(data) + 1) + 1, step)
    BY <1>1, <2>1, StepFacts
  <2>3. (Len(data) + 1) + 1 = Len(data) + 2
    BY <1>1
  <2> QED
    BY <2>2, <2>3
<1>3. j \in Nat \ {0} /\ j > Len(data) /\ j - 1 \in Int /\ j - 1 >= Len(data) /\ old <= j
  BY <1>1, <1>2
<1>4. NoneIn(from, data, old, j - 1, step)
  <2> SUFFICES ASSUME NEW k \in old .. j - 1, Step(old, k, step), IsAt(from, data, k) PROVE FALSE
    BY DEF NoneIn
  <2>1. k \in Nat \ {0} /\ k + Len(from) - 1 <= Len(data)
    <3>1. k \in Nat \ {0}
      BY <1>3
    <3> QED
      BY <1>1, <3>1, TextIsThere
  <2>2. k \in old .. last
    BY <1>1, <2>1
  <2>3. k + Len(from) <= last
    BY <2>2 DEF Within
  <2>4. k \in old .. last - Len(from)
    BY <1>1, <2>2, <2>3
  <2> QED
    BY <2>4 DEF NoneIn
<1>5. T[old] = Part(data, old, j - 1) \o T[j]
  BY <1>2, <1>3, <1>4, RestSkips, ZenonT(90)
<1>6. T[j] = <<>>
  BY <1>3, RestStep
<1>7. Part(data, old, j - 1) = Part(data, old, Len(data)) /\ Part(data, old, Len(data)) \in Seq(Nat)
  <2>1. Len(data) \in Int
    BY <1>1
  <2>2. Part(data, old, Len(data)) \in Seq(Nat)
    BY <1>1, <2>1, PartIs
  <2>3. Part(data, old, j - 1) = Part(data, old, Len(data))
    BY <1>1, <1>3 DEF Part
  <2> QED
    BY <2>2, <2>3
<1> QED
  BY <1>5, <1>6, <1>7, ConcatEmptySeq
-----------------------------------------------------------------------------
(* Data with a text in it change. *)

LeftOver(data, i) == IF i > Len(data) THEN 0 ELSE Len(data) + 1 - i
LengthRight(s, data, from, to, i) ==
    /\ Len(to) = Len(from) => Len(s) = LeftOver(data, i)
    /\ Len(to) > Len(from) => Len(s) >= LeftOver(data, i)
    /\ Len(to) < Len(from) => Len(s) <= LeftOver(data, i)

Sums(s, t, u, data, from, to, i, j) ==
    /\ {Len(s), Len(t), Len(u), Len(from), Len(to)} \subseteq Nat
    /\ {LeftOver(data, i), LeftOver(data, j)} \subseteq Int
    /\ Len(u) = Len(s) + Len(t) /\ LengthRight(t, data, from, to, j)
    /\ \/ Len(s) = Len(to) /\ LeftOver(data, j) = LeftOver(data, i) - Len(from)
       \/ LeftOver(data, j) = LeftOver(data, i) - Len(s)

LEMMA LengthSum ==
    ASSUME NEW s, NEW t, NEW u, NEW data, NEW from, NEW to, NEW i, NEW j,
           Sums(s, t, u, data, from, to, i, j)
    PROVE  LengthRight(u, data, from, to, i)
<1> DEFINE ls == Len(s)  lt == Len(t)  lu == Len(u)  f == Len(from)  g == Len(to)
           a == LeftOver(data, i)  b == LeftOver(data, j)
<1>1. ls \in Nat /\ lt \in Nat /\ lu \in Nat /\ f \in Nat /\ g \in Nat /\ a \in Int /\ b \in Int
  BY DEF Sums
<1>2. lu = ls + lt /\ ((ls = g /\ b = a - f) \/ b = a - ls)
  BY DEF Sums
<1>3. (g = f => lt = b) /\ (g > f => lt >= b) /\ (g < f => lt <= b)
  BY DEF LengthRight, Sums
<1>4. (g = f => lu = a) /\ (g > f => lu >= a) /\ (g < f => lu <= a)
  <2> HIDE DEF ls, lt, lu, f, g, a, b
  <2> QED
    BY <1>1, <1>2, <1>3
<1> QED
  BY <1>4 DEF LengthRight

LEMMA PartFirst ==
    ASSUME NEW data \in Seq(Nat), NEW n \in 0 .. Len(data)
    PROVE  /\ Part(data, 1, n) \in Seq(Nat) /\ Len(Part(data, 1, n)) = n
           /\ \A p \in 1 .. n : Part(data, 1, n)[p] = data[p]
<1>1. Part(data, 1, n) = SubSeq(data, 1, n)
  BY DEF Part
<1>2. \A p \in 1 .. n : data[p] \in Nat
  OBVIOUS
<1>3. /\ SubSeq(data, 1, n) \in Seq(Nat) /\ Len(SubSeq(data, 1, n)) = IF 1 <= n THEN n - 1 + 1 ELSE 0
      /\ \A p \in 1 .. n - 1 + 1 : SubSeq(data, 1, n)[p] = data[1 + p - 1]
  <2>1. 1 \in Int /\ n \in Int
    OBVIOUS
  <2> QED
    BY <1>2, <2>1, SubSeqProperties
<1> HIDE DEF Part
<1> QED
  BY <1>1, <1>3, SMTT(60)

LEMMA RestLength ==
    ASSUME NEW T, NEW data, NEW from, NEW to, NEW step, Texts(data, from, to, step),
           RestIs(T, data, from, to, step)
    PROVE  \A i \in Nat \ {0} : LengthRight(T[i], data, from, to, i)
<1> DEFINE P == {i \in Nat \ {0} : LengthRight(T[i], data, from, to, i)}
           m == Len(data)
<1>1. /\ data \in Seq(Nat) /\ to \in Seq(Nat) /\ step \in {1, 2} /\ from \in Seq(Nat) /\ from # <<>>
      /\ m \in Nat /\ Len(from) \in Nat \ {0} /\ Len(to) \in Nat
  BY EmptySeq DEF Texts
<1>2. \A i \in Nat \ {0} : T[i] \in Seq(Nat) /\ Len(T[i]) \in Nat
  <2>1. \A i \in Nat \ {0} : T[i] \in Seq(Nat)
    BY RestType
  <2> QED
    BY <2>1, LenProperties
<1>3. ASSUME NEW i \in Nat \ {0}, i > m PROVE i \in P
  <2>1. T[i] = <<>>
    BY <1>3, RestStep
  <2>2. Len(T[i]) = 0
    BY <2>1, EmptySeq
  <2> QED
    BY <1>1, <1>3, <2>2 DEF LengthRight, LeftOver
<1>4. ASSUME NEW i \in 1 .. m, \A j \in i + 1 .. m : j \in P PROVE i \in P
  <2>0. i \in Nat \ {0} /\ i <= m
    BY <1>1
  <2>1. ASSUME NEW j \in Nat \ {0}, j > i PROVE LengthRight(T[j], data, from, to, j)
    <3>1. j > m \/ j \in i + 1 .. m
      BY <1>1, <2>1
    <3>2. j \in P
      <4> HIDE DEF P, m
      <4> QED
        BY <1>3, <1>4, <3>1
    <3> QED
      BY <3>2
  <2> HIDE DEF P
  <2>2. CASE IsAt(from, data, i)
    <3> DEFINE j == i + Len(from)
    <3>1. j \in Nat \ {0} /\ j > i
      BY <1>1, <2>0
    <3>2. LengthRight(T[j], data, from, to, j) /\ Len(T[j]) \in Nat /\ T[j] \in Seq(Nat)
      <4> HIDE DEF j
      <4> QED
        BY <1>2, <2>1, <3>1
    <3>3. i + Len(from) - 1 <= m
      BY <1>1, <2>0, <2>2, TextIsThere
    <3>4. T[i] = to \o T[j]
      <4>1. ~ (i > Len(data))
        BY <1>1, <2>0
      <4> QED
        BY <2>0, <2>2, <4>1, RestStep
    <3>5. Len(T[i]) = Len(to) + Len(T[j])
      <4> HIDE DEF j
      <4> QED
        BY <1>1, <3>2, <3>4, ConcatProperties
    <3>6. LeftOver(data, j) = LeftOver(data, i) - Len(from) /\ LeftOver(data, i) \in Nat
      BY <1>1, <2>0, <3>3 DEF LeftOver
    <3>7. LengthRight(T[i], data, from, to, i)
      <4>1. LeftOver(data, j) \in Int
        BY <1>1, <3>6
      <4>2. Len(T[i]) \in Nat
        BY <1>2, <2>0
      <4> HIDE DEF j
      <4>3. Sums(to, T[j], T[i], data, from, to, i, j)
        BY <1>1, <3>2, <3>5, <3>6, <4>1, <4>2 DEF Sums
      <4> QED
        BY <4>3, LengthSum
    <3> QED
      BY <2>0, <3>7 DEF P
  <2>3. CASE ~ IsAt(from, data, i)
    <3> DEFINE j == i + step
               s == Part(data, i, i + step - 1)
    <3>1. j \in Nat \ {0} /\ j > i
      BY <1>1, <2>0
    <3>2. LengthRight(T[j], data, from, to, j) /\ Len(T[j]) \in Nat /\ T[j] \in Seq(Nat)
      <4> HIDE DEF j
      <4> QED
        BY <1>2, <2>1, <3>1
    <3>3. s \in Seq(Nat) /\ Len(s) \in Nat /\ LeftOver(data, j) = LeftOver(data, i) - Len(s)
      <4> DEFINE b == i + step - 1
                 n == IF b < Len(data) THEN b ELSE Len(data)
      <4>1. b \in Int /\ n \in Int /\ i <= n
        BY <1>1, <2>0
      <4>2. s \in Seq(Nat) /\ Len(s) = IF i <= n THEN n - i + 1 ELSE 0
        BY <1>1, <2>0, <4>1, PartIs
      <4>3. Len(s) = n - i + 1
        <5> HIDE DEF n, s
        <5> QED
          BY <4>1, <4>2
      <4>4. LeftOver(data, j) = LeftOver(data, i) - (n - i + 1)
        <5>1. LeftOver(data, i) = m + 1 - i
          BY <1>1, <2>0 DEF LeftOver
        <5>2. CASE i + step <= m
          <6>1. n = i + step - 1 /\ LeftOver(data, j) = m + 1 - (i + step)
            BY <1>1, <2>0, <5>2 DEF LeftOver
          <6> HIDE DEF n, j
          <6> QED
            BY <1>1, <2>0, <5>1, <6>1
        <5>3. CASE i + step > m
          <6>1. n = m /\ LeftOver(data, j) = 0
            BY <1>1, <2>0, <5>3 DEF LeftOver
          <6> HIDE DEF n, j
          <6> QED
            BY <1>1, <2>0, <5>1, <6>1
        <5> QED
          BY <1>1, <2>0, <5>2, <5>3
      <4>5. n - i + 1 \in Nat
        BY <1>1, <2>0, <4>1
      <4> HIDE DEF s, n, j
      <4> QED
        BY <4>2, <4>3, <4>4, <4>5
    <3>4. T[i] = s \o T[j]
      <4>1. ~ (i > Len(data))
        BY <1>1, <2>0
      <4>2. T[i] = IF i > Len(data) THEN <<>>
                   ELSE IF IsAt(from, data, i) THEN to \o T[i + Len(from)]
                   ELSE Part(data, i, i + step - 1) \o T[i + step]
        BY <2>0, RestStep
      <4> QED
        BY <2>3, <4>1, <4>2, Zenon
    <3>5. Len(T[i]) = Len(s) + Len(T[j])
      <4> HIDE DEF j, s
      <4> QED
        BY <1>1, <3>2, <3>3, <3>4, ConcatProperties
    <3>6. LeftOver(data, i) \in Nat
      BY <1>1, <2>0 DEF LeftOver
    <3>7. LengthRight(T[i], data, from, to, i)
      <4>1. LeftOver(data, j) \in Int
        BY <3>3, <3>6
      <4>2. Len(T[i]) \in Nat
        BY <1>2, <2>0
      <4> HIDE DEF j, s
      <4>3. Sums(s, T[j], T[i], data, from, to, i, j)
        BY <1>1, <3>2, <3>3, <3>5, <3>6, <4>1, <4>2 DEF Sums
      <4> QED
        BY <4>3, LengthSum
    <3> QED
      BY <2>0, <3>7 DEF P
  <2> QED
    BY <2>2, <2>3
<1>5. \A i \in 1 .. m : i \in P
  <2> HIDE DEF P, m
  <2> QED
    BY <1>1, <1>4, Downward
<1>6. ASSUME NEW i \in Nat \ {0} PROVE i \in P
  <2>1. i > m \/ i \in 1 .. m
    BY <1>1
  <2> HIDE DEF P, m
  <2> QED
    BY <1>3, <1>5, <2>1
<1> QED
  BY <1>6

\* There is a text from old on that is replaced.
Change(T, data, from, to, old) ==
    \E i \in Nat \ {0} : /\ old <= i /\ IsAt(from, data, i)
                         /\ T[old] = Part(data, old, i - 1) \o (to \o T[i + Len(from)])

LEMMA ChangeIsSeen ==
    ASSUME NEW T, NEW data, NEW from, NEW to, NEW step, Texts(data, from, to, step),
           RestIs(T, data, from, to, step), from # to, Change(T, data, from, to, 1)
    PROVE  \E i \in Nat \ {0} :
              /\ IsAt(from, data, i)
              /\ \/ Len(T[1]) # Len(data)
                 \/ \E p \in 1 .. i + Len(from) - 1 : T[1][p] # data[p]
<1>1. /\ data \in Seq(Nat) /\ to \in Seq(Nat) /\ from \in Seq(Nat) /\ from # <<>>
      /\ Len(data) \in Nat /\ Len(from) \in Nat \ {0} /\ Len(to) \in Nat
  BY EmptySeq DEF Texts
<1>2. PICK i \in Nat \ {0} : IsAt(from, data, i) /\ T[1] = Part(data, 1, i - 1) \o (to \o T[i + Len(from)])
  BY DEF Change
<1> DEFINE j == i + Len(from)
           a == Part(data, 1, i - 1)
           c == T[j]
<1>3. j - 1 <= Len(data) /\ \A p \in 1 .. Len(from) : data[i + p - 1] = from[p]
  BY <1>1, <1>2, TextIsThere
<1>4. j \in Nat \ {0} /\ i - 1 \in Int
  BY <1>1
<1>5. c \in Seq(Nat) /\ Len(c) \in Nat /\ LengthRight(c, data, from, to, j)
  <2> HIDE DEF j
  <2> QED
    BY <1>4, RestType, RestLength, LenProperties
<1>6. a \in Seq(Nat) /\ Len(a) = i - 1
  <2>1. i - 1 \in 0 .. Len(data)
    BY <1>1, <1>3
  <2> QED
    BY <1>1, <2>1, PartFirst
<1>7. T[1] = a \o (to \o c)
  BY <1>2
<1> HIDE DEF a, c
<1>8. /\ to \o c \in Seq(Nat) /\ Len(to \o c) = Len(to) + Len(c)
      /\ \A p \in 1 .. Len(to) + Len(c) : (to \o c)[p] = IF p <= Len(to) THEN to[p] ELSE c[p - Len(to)]
  BY <1>1, <1>5, ConcatProperties
<1>9. /\ Len(T[1]) = Len(a) + Len(to \o c)
      /\ \A p \in 1 .. Len(a) + Len(to \o c) :
            T[1][p] = IF p <= Len(a) THEN a[p] ELSE (to \o c)[p - Len(a)]
  <2> DEFINE u == to \o c
  <2>1. u \in Seq(Nat) /\ T[1] = a \o u
    BY <1>7, <1>8
  <2> HIDE DEF u
  <2>2. Len(a \o u) = Len(a) + Len(u)
        /\ \A p \in 1 .. Len(a) + Len(u) : (a \o u)[p] = IF p <= Len(a) THEN a[p] ELSE u[p - Len(a)]
    BY <1>6, <2>1, ConcatProperties
  <2> QED
    BY <2>1, <2>2 DEF u
<1>10. CASE Len(to) # Len(from)
  <2>1. Len(T[1]) # Len(data)
    <3>1. Len(T[1]) = (i - 1) + Len(to) + Len(c)
      BY <1>1, <1>5, <1>6, <1>8, <1>9
    <3>2. LeftOver(data, j) = Len(data) + 1 - i - Len(from)
      <4>1. i \in Nat /\ i + Len(from) - 1 <= Len(data) /\ Len(data) \in Nat /\ Len(from) \in Nat
        BY <1>1, <1>3
      <4>2. CASE i + Len(from) > Len(data)
        BY <4>1, <4>2 DEF LeftOver
      <4>3. CASE i + Len(from) <= Len(data)
        BY <4>1, <4>3 DEF LeftOver
      <4> QED
        BY <4>1, <4>2, <4>3
    <3>3. /\ Len(to) > Len(from) => Len(c) >= Len(data) + 1 - i - Len(from)
          /\ Len(to) < Len(from) => Len(c) <= Len(data) + 1 - i - Len(from)
      BY <1>5, <3>2 DEF LengthRight
    <3> HIDE DEF j
    <3> QED
      BY <1>1, <1>5, <1>10, <3>1, <3>3
  <2> QED
    BY <1>2, <2>1
<1>11. CASE Len(to) = Len(from)
  <2>1. PICK q \in 1 .. Len(from) : from[q] # to[q]
    BY <1>1, <1>11, SeqEqual
  <2> DEFINE p == i + q - 1
  <2>2. p \in 1 .. j - 1 /\ p \in 1 .. Len(a) + Len(to \o c) /\ ~ (p <= Len(a)) /\ p - Len(a) = q
    BY <1>1, <1>5, <1>6, <1>8, <1>11
  <2>3. T[1][p] = (to \o c)[q]
    <3> HIDE DEF p
    <3> QED
      BY <1>9, <2>2
  <2>4. (to \o c)[q] = to[q]
    BY <1>1, <1>5, <1>8, <1>11
  <2>5. data[p] = from[q]
    BY <1>3
  <2>6. p \in 1 .. i + Len(from) - 1 /\ T[1][p] # data[p]
    BY <2>1, <2>2, <2>3, <2>4, <2>5
  <2> HIDE DEF p
  <2> QED
    BY <1>2, <2>6
<1> QED
  BY <1>10, <1>11
-----------------------------------------------------------------------------
(* The loop over a string or binary data. *)

Outcomes == [how : {"same", "big", "set", "overrun"}, new : Seq(Nat)]
Places(last) == [old : 1 .. last, new : Seq(Nat)]

ReplaceTurn(L, at, data, last, from, to, step, more) ==
    LET i == Found(from, data, at.old, last, step)
        found == at.new \o Part(data, at.old, i - 1) \o to
        rest == at.new \o Part(data, at.old, last - 1)
    IN  IF i = 0 THEN
            IF at.old = 1 THEN Outcome("same", <<>>)
            ELSE IF Len(rest) + more > Cap THEN Outcome("big", at.new)
            ELSE Outcome("set", rest)
        ELSE IF Len(found) - Len(to) + Len(to) \div step + more > Cap THEN Outcome("big", at.new)
        ELSE IF Len(found) > Cap THEN Outcome("overrun", at.new)
        ELSE L[At(After(i, from), found)]

ReplaceLoop(L, data, last, from, to, step, more) ==
    L = [at \in Places(last) |-> ReplaceTurn(L, at, data, last, from, to, step, more)]

LEMMA TurnIs ==
    ASSUME NEW data, NEW from, NEW to, NEW step, Texts(data, from, to, step),
           NEW last \in 1 .. Len(data) + 1, NEW at \in Places(last),
           NEW i, i = Found(from, data, at.old, last, step)
    PROVE  /\ at.new \o Part(data, at.old, last - 1) \in Seq(Nat)
           /\ i # 0 =>
                /\ i \in Nat \ {0} /\ at.old <= i /\ i <= last - Len(from)
                /\ (at.new \o Part(data, at.old, i - 1)) \o to \in Seq(Nat)
                /\ i + Len(from) \in at.old + 1 .. last
                /\ At(i + Len(from), (at.new \o Part(data, at.old, i - 1)) \o to) \in Places(last)
<1>1. /\ data \in Seq(Nat) /\ to \in Seq(Nat) /\ step \in {1, 2} /\ from \in Seq(Nat) /\ from # <<>>
      /\ Len(data) \in Nat /\ Len(from) \in Nat \ {0} /\ last \in Nat
      /\ at.old \in 1 .. last /\ at.old \in Nat \ {0} /\ at.new \in Seq(Nat)
  BY EmptySeq DEF Texts, Places
<1>2. \A b \in Int : at.new \o Part(data, at.old, b) \in Seq(Nat)
  <2> TAKE b \in Int
  <2>1. Part(data, at.old, b) \in Seq(Nat)
    BY <1>1, PartIs
  <2> QED
    BY <1>1, <2>1, ConcatProperties
<1>3. ASSUME i # 0
      PROVE  /\ i \in Nat \ {0} /\ at.old <= i /\ i <= last - Len(from)
             /\ (at.new \o Part(data, at.old, i - 1)) \o to \in Seq(Nat)
             /\ i + Len(from) \in at.old + 1 .. last
  <2>1. i \in at.old .. last - Len(from)
    BY <1>1, <1>3, FirstFound
  <2>2. i \in Nat \ {0} /\ at.old <= i /\ i <= last - Len(from) /\ i - 1 \in Int
        /\ i + Len(from) \in at.old + 1 .. last
    <3> DEFINE o == at.old
               n == Len(from)
    <3>1. o \in Nat \ {0} /\ n \in Nat \ {0} /\ last \in Nat /\ i \in o .. last - n
      BY <1>1, <2>1
    <3>2. i \in Nat \ {0} /\ o <= i /\ i <= last - n /\ i - 1 \in Int /\ i + n \in o + 1 .. last
      <4> HIDE DEF o, n
      <4>1. i \in Int /\ o <= i /\ i <= last - n
        BY <3>1
      <4> QED
        BY <3>1, <4>1
    <3> QED
      BY <3>2
  <2>3. at.new \o Part(data, at.old, i - 1) \in Seq(Nat)
    BY <1>2, <2>2
  <2>4. (at.new \o Part(data, at.old, i - 1)) \o to \in Seq(Nat)
    BY <1>1, <2>3, ConcatProperties
  <2> QED
    BY <2>2, <2>4
<1>4. i # 0 => At(i + Len(from), (at.new \o Part(data, at.old, i - 1)) \o to) \in Places(last)
  <2> DEFINE n == (at.new \o Part(data, at.old, i - 1)) \o to
             o == i + Len(from)
  <2>1. i # 0 => n \in Seq(Nat) /\ o \in 1 .. last
    BY <1>1, <1>3
  <2> HIDE DEF n, o
  <2>2. i # 0 => At(o, n) \in Places(last)
    BY <2>1 DEF At, Places
  <2> QED
    BY <2>2 DEF n, o
<1>5. at.new \o Part(data, at.old, last - 1) \in Seq(Nat)
  <2>1. last - 1 \in Int
    BY <1>1
  <2> QED
    BY <1>2, <2>1
<1> QED
  BY <1>3, <1>4, <1>5

LEMMA LoopExists ==
    ASSUME NEW data, NEW from, NEW to, NEW step, Texts(data, from, to, step),
           NEW last \in 1 .. Len(data) + 1, NEW more
    PROVE  \E L : /\ ReplaceLoop(L, data, last, from, to, step, more)
                  /\ Replaced(data, last, from, to, step, more) = L[At(1, <<>>)]
<1> DEFINE D == Places(last)
           R == Outcomes
           Turns(f, at) == ReplaceTurn(f, at, data, last, from, to, step, more)
           G == [f \in [D -> R] |-> [at \in D |-> Turns(f, at)]]
           rank == [at \in D |-> last - at.old]
<1>1. /\ Len(from) \in Nat \ {0} /\ last \in Nat /\ Len(data) \in Nat
      /\ \A at \in D : at.old \in 1 .. last /\ at.new \in Seq(Nat)
  BY EmptySeq DEF Texts, Places
<1>2. \A how \in {"same", "big", "set", "overrun"}, n \in Seq(Nat) : Outcome(how, n) \in R
  BY DEF Outcome, Outcomes
<1>3. ASSUME NEW f \in [D -> R], NEW at \in D PROVE Turns(f, at) \in R
  <2> DEFINE i == Found(from, data, at.old, last, step)
             found == (at.new \o Part(data, at.old, i - 1)) \o to
             rest == at.new \o Part(data, at.old, last - 1)
  <2>1. rest \in Seq(Nat) /\ at.new \in Seq(Nat) /\ <<>> \in Seq(Nat)
    BY <1>1, TurnIs, EmptySeq
  <2>2. i # 0 => At(After(i, from), found) \in D
    BY TurnIs DEF After
  <2>3. Turns(f, at) = IF i = 0 THEN
            IF at.old = 1 THEN Outcome("same", <<>>)
            ELSE IF Len(rest) + more > Cap THEN Outcome("big", at.new)
            ELSE Outcome("set", rest)
        ELSE IF Len(found) - Len(to) + Len(to) \div step + more > Cap THEN Outcome("big", at.new)
        ELSE IF Len(found) > Cap THEN Outcome("overrun", at.new)
        ELSE f[At(After(i, from), found)]
    BY DEF ReplaceTurn
  <2> HIDE DEF i, found, rest, Turns, R, D
  <2>4. i # 0 => f[At(After(i, from), found)] \in R
    BY <2>2
  <2>5. /\ Outcome("same", <<>>) \in R /\ Outcome("big", at.new) \in R
        /\ Outcome("set", rest) \in R /\ Outcome("overrun", at.new) \in R
    BY <1>2, <2>1
  <2> QED
    BY <2>3, <2>4, <2>5, Zenon
<1>4. R # {}
  BY <1>2, EmptySeq
<1>5. G \in [[D -> R] -> [D -> R]]
  <2> HIDE DEF D, R, Turns
  <2> QED
    BY <1>3
<1>6. rank \in [D -> 0 .. last]
  <2> HIDE DEF D
  <2> QED
    BY <1>1
<1>7. ASSUME NEW f \in [D -> R], NEW g \in [D -> R], NEW at \in D,
             \A e \in D : rank[e] < rank[at] => f[e] = g[e]
      PROVE  G[f][at] = G[g][at]
  <2>1. G[f][at] = Turns(f, at) /\ G[g][at] = Turns(g, at)
    <3> HIDE DEF D, R, Turns
    <3> QED
      OBVIOUS
  <2> DEFINE i == Found(from, data, at.old, last, step)
             found == (at.new \o Part(data, at.old, i - 1)) \o to
             next == At(After(i, from), found)
  <2>2. i # 0 => next \in D /\ next.old = i + Len(from) /\ i + Len(from) \in at.old + 1 .. last
    BY TurnIs DEF After, At
  <2>3. i # 0 => rank[next] < rank[at]
    <3> SUFFICES ASSUME i # 0 PROVE rank[next] < rank[at]
      OBVIOUS
    <3> DEFINE o == i + Len(from)
    <3> HIDE DEF D, i, found, next
    <3>1. rank[next] = last - o /\ rank[at] = last - at.old /\ o \in at.old + 1 .. last
      BY <2>2
    <3> HIDE DEF rank, o
    <3> QED
      BY <1>1, <3>1
  <2>4. i # 0 => f[next] = g[next]
    <3> HIDE DEF D, i, found, next, rank, R
    <3> QED
      BY <1>7, <2>2, <2>3
  <2>5. Turns(f, at) = Turns(g, at)
    <3> USE DEF ReplaceTurn
    <3> HIDE DEF D, R, G, rank
    <3> QED
      BY <2>4
  <2> QED
    BY <2>1, <2>5
<1>8. PICK f \in [D -> R] : G[f] = f
  <2> HIDE DEF D, R, G, rank
  <2>1. Descends(G, D, R, rank, last)
    BY <1>1, <1>4, <1>5, <1>6, <1>7 DEF Descends
  <2> QED
    BY <2>1, Fixpoint
<1>9. ReplaceLoop(f, data, last, from, to, step, more)
  <2>1. G[f] = [at \in D |-> Turns(f, at)]
    <3> HIDE DEF D, R, Turns
    <3> QED
      OBVIOUS
  <2> HIDE DEF G
  <2> QED
    BY <1>8, <2>1 DEF ReplaceLoop
<1> DEFINE L == CHOOSE L : ReplaceLoop(L, data, last, from, to, step, more)
<1>10. ReplaceLoop(L, data, last, from, to, step, more)
  <2> HIDE DEF G, D, R
  <2> QED
    BY <1>9
<1>11. Replaced(data, last, from, to, step, more) = L[At(1, <<>>)]
  BY DEF Replaced, ReplaceLoop, ReplaceTurn, Places
<1> HIDE DEF L
<1> QED
  BY <1>10, <1>11

(* What the loop comes to from each place on. *)
OutcomeRight(r, T, data, last, from, to, more, old, new) ==
    /\ r \in Outcomes
    /\ r.how = "set" => /\ r.new \o Ending(data, last) = new \o T[old]
                        /\ Len(r.new) + more <= Cap
                        /\ old = 1 => Change(T, data, from, to, 1)
    /\ r.how = "same" => old = 1 /\ T[1] = data

LEMMA LoopIsRight ==
    ASSUME NEW data, NEW from, NEW to, NEW step, Texts(data, from, to, step),
           NEW T, RestIs(T, data, from, to, step), NEW last \in 1 .. Len(data) + 1, NEW more \in Nat,
           last = Len(data) + 1 \/ (last = Len(data) /\ step = 1), Within(from, data, 1, last),
           NEW L, ReplaceLoop(L, data, last, from, to, step, more)
    PROVE  OutcomeRight(L[At(1, <<>>)], T, data, last, from, to, more, 1, <<>>)
<1> DEFINE Right(old, new) == OutcomeRight(L[At(old, new)], T, data, last, from, to, more, old, new)
           P == {old \in 1 .. last : \A new \in Seq(Nat) : Right(old, new)}
<1>1. /\ data \in Seq(Nat) /\ to \in Seq(Nat) /\ step \in {1, 2} /\ from \in Seq(Nat) /\ from # <<>>
      /\ Len(data) \in Nat /\ Len(from) \in Nat \ {0} /\ last \in Nat \ {0}
      /\ \A j \in Nat \ {0} : T[j] \in Seq(Nat)
  BY EmptySeq, RestType DEF Texts
<1>0. Texts(data, from, to, step) /\ RestIs(T, data, from, to, step)
  OBVIOUS
<1>t. from \in Seq(Nat) /\ from # <<>> /\ step \in {1, 2} /\ last \in Nat
  BY <1>1
<1>2. ASSUME NEW old \in 1 .. last, \A j \in old + 1 .. last : j \in P PROVE old \in P
  <2> SUFFICES ASSUME NEW new \in Seq(Nat) PROVE Right(old, new)
    OBVIOUS
  <2> DEFINE at == At(old, new)
             i == Found(from, data, old, last, step)
             start == Part(data, old, i - 1)
             found == (new \o start) \o to
             rest == new \o Part(data, old, last - 1)
             r == L[at]
             o == i + Len(from)
             mid == L[At(o, found)]
  <2>1. at \in Places(last) /\ at.old = old /\ at.new = new /\ old \in Nat \ {0}
    BY <1>1 DEF At, Places
  <2>2. r = ReplaceTurn(L, at, data, last, from, to, step, more)
    <3> HIDE DEF at
    <3> QED
      BY <2>1 DEF ReplaceLoop
  <2>3. r = IF i = 0 THEN
                IF old = 1 THEN Outcome("same", <<>>)
                ELSE IF Len(rest) + more > Cap THEN Outcome("big", new)
                ELSE Outcome("set", rest)
            ELSE IF Len(found) - Len(to) + Len(to) \div step + more > Cap THEN Outcome("big", new)
            ELSE IF Len(found) > Cap THEN Outcome("overrun", new)
            ELSE mid
    <3> HIDE DEF at, r
    <3> QED
      BY <2>1, <2>2 DEF ReplaceTurn, After
  <2>4. rest \in Seq(Nat) /\ (i # 0 => /\ i \in Nat \ {0} /\ old <= i /\ i <= last - Len(from)
                                        /\ found \in Seq(Nat) /\ o \in old + 1 .. last)
    <3> HIDE DEF at
    <3> QED
      BY <2>1, TurnIs
  <2>f. \/ i = 0 /\ NoneIn(from, data, old, last - Len(from), step)
        \/ Step(old, i, step) /\ IsAt(from, data, i) /\ NoneIn(from, data, old, i - 1, step)
    <3>1. i = Found(from, data, old, last, step)
      OBVIOUS
    <3> HIDE DEF i
    <3> QED
      BY ONLY <1>t, <2>1, <3>1, FirstFound
  <2>5. \A how \in {"same", "big", "set", "overrun"}, n \in Seq(Nat) :
            Outcome(how, n) \in Outcomes /\ Outcome(how, n).how = how /\ Outcome(how, n).new = n
    BY DEF Outcome, Outcomes
  <2>6. ASSUME r = Outcome("big", new) \/ r = Outcome("overrun", new) PROVE Right(old, new)
    <3> HIDE DEF r
    <3>1. r \in Outcomes /\ r.how \notin {"set", "same"}
      BY <2>5, <2>6
    <3> QED
      BY <3>1 DEF OutcomeRight, r, at
  <2>7. CASE i = 0
    <3>1. NoneIn(from, data, old, last - Len(from), step)
      BY <2>1, <2>7, <2>f DEF Step
    <3>2. T[old] = Part(data, old, Len(data))
      <4>1. Within(from, data, old, last)
        <5>1. \A k \in old .. last : k \in 1 .. last
          OBVIOUS
        <5> QED
          BY <5>1 DEF Within
      <4> QED
        BY <1>1, <2>1, <3>1, <4>1, RestStays
    <3>3. CASE old = 1
      <4>1. r = Outcome("same", <<>>)
        BY <2>3, <2>7, <3>3
      <4>2. T[1] = data
        BY <1>1, <3>2, <3>3, PartWhole
      <4> HIDE DEF r
      <4>3. r \in Outcomes /\ r.how = "same"
        BY <2>5, <4>1, EmptySeq
      <4> QED
        BY <3>3, <4>2, <4>3 DEF OutcomeRight, r, at
    <3>4. CASE old # 1
      <4>1. CASE Len(rest) + more > Cap
        <5>1. r = Outcome("big", new)
          BY <2>3, <2>7, <3>4, <4>1
        <5> HIDE DEF r
        <5> QED
          BY <2>6, <5>1
      <4>2. CASE ~ (Len(rest) + more > Cap)
        <5>1. r = Outcome("set", rest)
          BY <2>3, <2>7, <3>4, <4>2
        <5>2. Len(rest) + more <= Cap
          <6>1. Len(rest) \in Nat
            <7> HIDE DEF rest
            <7> QED
              BY <2>4
          <6> HIDE DEF rest
          <6> QED
            BY <4>2, <6>1, DataAssumption
        <5>3. rest \o Ending(data, last) = new \o T[old]
          <6> DEFINE s == Part(data, old, last - 1)
                     t == Part(data, last, Len(data))
          <6>1. s \in Seq(Nat) /\ t \in Seq(Nat)
            <7>1. last - 1 \in Int /\ Len(data) \in Int
              BY <1>1
            <7> QED
              BY <1>1, <2>1, <7>1, PartIs
          <6>2. s \o t = T[old]
            <7> DEFINE b == last - 1
            <7>1. b \in Nat /\ old <= b + 1 /\ b <= Len(data) /\ b + 1 = last
              BY <1>1
            <7>2. Part(data, old, b) \o Part(data, b + 1, Len(data)) = Part(data, old, Len(data))
              <8>1. b \in Nat /\ old <= b + 1 /\ b <= Len(data) /\ Len(data) \in Nat
                BY <1>1, <7>1
              <8> HIDE DEF b
              <8> QED
                BY ONLY <1>1, <2>1, <8>1, PartJoin, ZenonT(90)
            <7> QED
              BY <3>2, <7>1, <7>2
          <6> HIDE DEF s, t
          <6>3. (new \o s) \o t = new \o (s \o t)
            BY <6>1, Assoc
          <6> QED
            BY <6>2, <6>3 DEF s, t, Ending
        <5> HIDE DEF r, rest
        <5>4. r \in Outcomes /\ r.how = "set" /\ r.new = rest
          BY <2>4, <2>5, <5>1
        <5> QED
          BY <3>4, <5>2, <5>3, <5>4 DEF OutcomeRight, r, at
      <4> QED
        BY <4>1, <4>2
    <3> QED
      BY <3>3, <3>4
  <2>8. CASE i # 0 /\ r = mid
    <3>1. Right(o, found)
      <4>1. o \in P
        BY <1>2, <2>4, <2>8
      <4> HIDE DEF o, found, Right
      <4> QED
        BY <2>4, <2>8, <4>1
    <3>2. /\ i \in Nat \ {0} /\ old <= i /\ found \in Seq(Nat) /\ o \in old + 1 .. last /\ o # 1
          /\ o \in Nat \ {0}
      BY <2>1, <2>4, <2>8
    <3>3. Step(old, i, step) /\ IsAt(from, data, i) /\ NoneIn(from, data, old, i - 1, step)
      BY <2>8, <2>f
    <3>4. T[old] = start \o (to \o T[o])
      <4>1. i \in Nat \ {0} /\ old \in Nat \ {0} /\ old <= i
        BY <2>1, <3>2
      <4> HIDE DEF i
      <4>2. Hit(T, data, from, to, step, old, i)
        BY <1>0, <3>3, <4>1 DEF Hit
      <4>3. Becomes(T, data, from, to, old, i)
        BY <4>2, RestHits
      <4> QED
        BY <4>3 DEF Becomes
    <3>5. found \o T[o] = new \o T[old]
      <4>1. start \in Seq(Nat) /\ to \in Seq(Nat) /\ T[o] \in Seq(Nat) /\ new \in Seq(Nat)
        <5>1. i - 1 \in Int
          BY <3>2
        <5> HIDE DEF i
        <5> QED
          BY <1>1, <2>1, <3>2, <5>1, PartIs
      <4> DEFINE u == T[o]
      <4> HIDE DEF start, o, u
      <4>2. to \o u \in Seq(Nat) /\ new \o start \in Seq(Nat)
        BY <4>1, ConcatProperties DEF u
      <4>3. ((new \o start) \o to) \o u = (new \o start) \o (to \o u)
        BY <4>1, <4>2, Assoc, ZenonT(90) DEF u
      <4>4. (new \o start) \o (to \o u) = new \o (start \o (to \o u))
        BY <4>1, <4>2, Assoc
      <4> QED
        BY <3>4, <4>3, <4>4 DEF u
    <3>6. old = 1 => Change(T, data, from, to, 1)
      BY <3>2, <3>3, <3>4 DEF Change
    <3> HIDE DEF mid, r, i, o, found
    <3>7. OutcomeRight(mid, T, data, last, from, to, more, o, found)
      BY <3>1 DEF mid
    <3>8. OutcomeRight(r, T, data, last, from, to, more, old, new)
      BY <2>8, <3>2, <3>5, <3>6, <3>7 DEF OutcomeRight
    <3> QED
      BY <3>8 DEF r, at
  <2> HIDE DEF r, mid, i, found, rest, Right
  <2> QED
    BY <2>3, <2>6, <2>7, <2>8
<1>3. \A old \in 1 .. last : old \in P
  <2> HIDE DEF P
  <2> QED
    BY <1>1, <1>2, Downward
<1>4. 1 \in P
  <2> HIDE DEF P
  <2> QED
    BY <1>1, <1>3
<1> QED
  BY <1>4, EmptySeq
-----------------------------------------------------------------------------
(* What comes of a string and of binary data. *)

Task(data, from, to, step, last) ==
    /\ Texts(data, from, to, step) /\ from # to /\ last \in 1 .. Len(data) + 1
    /\ last = Len(data) + 1 \/ (last = Len(data) /\ step = 1)
    /\ Within(from, data, 1, last)

Comes(r, goal, data, last) ==
    /\ r \in Outcomes /\ goal \in Seq(Nat)
    /\ r.how = "set" => r.new \o Ending(data, last) = goal /\ goal # data
    /\ r.how = "same" => goal = data

LEMMA ChangeIsNew ==
    ASSUME NEW T, NEW data, NEW from, NEW to, NEW step, Texts(data, from, to, step),
           RestIs(T, data, from, to, step), from # to, Change(T, data, from, to, 1)
    PROVE  T[1] # data
<1>1. Texts(data, from, to, step) /\ RestIs(T, data, from, to, step) /\ from # to
      /\ Change(T, data, from, to, 1)
  OBVIOUS
<1>2. PICK i \in Nat \ {0} : /\ IsAt(from, data, i)
                             /\ \/ Len(T[1]) # Len(data)
                                \/ \E p \in 1 .. i + Len(from) - 1 : T[1][p] # data[p]
  BY <1>1, ChangeIsSeen
<1> QED
  BY <1>2

LEMMA ReplacedIsRight ==
    ASSUME NEW data, NEW from, NEW to, NEW step, NEW last, Task(data, from, to, step, last), NEW more \in Nat
    PROVE  Comes(Replaced(data, last, from, to, step, more), Expected(data, from, to, step), data, last)
<1> DEFINE r == Replaced(data, last, from, to, step, more)
           goal == Expected(data, from, to, step)
<1>1. /\ Texts(data, from, to, step) /\ from # to /\ last \in 1 .. Len(data) + 1
      /\ last = Len(data) + 1 \/ (last = Len(data) /\ step = 1)
      /\ Within(from, data, 1, last)
  BY DEF Task
<1>2. PICK T : RestIs(T, data, from, to, step) /\ goal = T[1]
  BY <1>1, RestExists
<1>3. PICK L : ReplaceLoop(L, data, last, from, to, step, more) /\ r = L[At(1, <<>>)]
  BY <1>1, LoopExists
<1> HIDE DEF r, goal
<1>4. OutcomeRight(r, T, data, last, from, to, more, 1, <<>>)
  BY <1>1, <1>2, <1>3, LoopIsRight
<1>5. goal \in Seq(Nat)
  BY <1>1, <1>2, RestType
<1>6. r \in Outcomes /\ (r.how = "same" => goal = data)
  BY <1>2, <1>4 DEF OutcomeRight
<1>7. ASSUME r.how = "set" PROVE r.new \o Ending(data, last) = goal /\ goal # data
  <2>1. r.new \o Ending(data, last) = <<>> \o T[1] /\ Change(T, data, from, to, 1)
    BY <1>4, <1>7 DEF OutcomeRight
  <2>2. goal # data
    BY <1>1, <1>2, <2>1, ChangeIsNew
  <2>3. <<>> \o goal = goal
    BY <1>5, ConcatEmptySeq
  <2> QED
    BY <1>2, <2>1, <2>2, <2>3
<1> QED
  BY <1>5, <1>6, <1>7 DEF Comes, r, goal

LEMMA FoundIsNew ==
    ASSUME NEW data, NEW from, NEW to, NEW step, Texts(data, from, to, step), from # to,
           NEW last \in Nat, Found(from, data, 1, last, step) # 0
    PROVE  Expected(data, from, to, step) # data
<1> DEFINE i == Found(from, data, 1, last, step)
<1>1. Texts(data, from, to, step) /\ step \in {1, 2} /\ from \in Seq(Nat) /\ from # <<>>
  BY DEF Texts
<1>2. PICK T : RestIs(T, data, from, to, step) /\ Expected(data, from, to, step) = T[1]
  BY <1>1, RestExists
<1>3. /\ i \in 1 .. last - Len(from) /\ Step(1, i, step) /\ IsAt(from, data, i)
      /\ NoneIn(from, data, 1, i - 1, step)
  <2>1. i # 0
    OBVIOUS
  <2>2. 1 \in Nat \ {0} /\ i = Found(from, data, 1, last, step)
    OBVIOUS
  <2> HIDE DEF i
  <2> QED
    BY <1>1, <2>1, <2>2, FirstFound
<1>4. i \in Nat \ {0} /\ 1 <= i
  <2>1. last - Len(from) \in Int
    BY <1>1
  <2> HIDE DEF i
  <2> QED
    BY <1>3, <2>1
<1>5. Hit(T, data, from, to, step, 1, i)
  BY <1>1, <1>2, <1>3, <1>4 DEF Hit
<1>6. Becomes(T, data, from, to, 1, i)
  BY <1>5, RestHits
<1>7. Change(T, data, from, to, 1)
  BY <1>3, <1>4, <1>6 DEF Change, Becomes
<1> QED
  BY <1>1, <1>2, <1>7, ChangeIsNew

LEMMA NotFoundIsOld ==
    ASSUME NEW data, NEW from, NEW to, Texts(data, from, to, 1),
           Found(from, data, 1, Len(data) + 1, 1) = 0
    PROVE  Expected(data, from, to, 1) = data
<1>1. /\ Texts(data, from, to, 1) /\ from \in Seq(Nat) /\ from # <<>> /\ data \in Seq(Nat)
      /\ Len(data) + 1 \in Nat \ {0} /\ 1 <= Len(data) + 1 /\ 1 \in Nat \ {0} /\ Len(data) \in Nat
  BY DEF Texts
<1>2. PICK T : RestIs(T, data, from, to, 1) /\ Expected(data, from, to, 1) = T[1]
  BY <1>1, RestExists
<1>3. NoneIn(from, data, 1, Len(data) + 1 - Len(from), 1)
  <2>1. 1 \in {1, 2} /\ Len(data) + 1 \in Nat
    BY <1>1
  <2> QED
    BY <1>1, <2>1, FirstFound
<1>4. Within(from, data, 1, Len(data) + 1)
  <2> SUFFICES ASSUME NEW k \in 1 .. Len(data) + 1, IsAt(from, data, k)
               PROVE  k + Len(from) <= Len(data) + 1
    BY DEF Within
  <2>1. k \in Nat \ {0}
    BY <1>1
  <2>2. Len(from) \in Nat \ {0} /\ k + Len(from) - 1 <= Len(data)
    BY <1>1, <2>1, TextIsThere
  <2> QED
    BY <1>1, <2>1, <2>2
<1>5. T[1] = Part(data, 1, Len(data))
  BY <1>1, <1>2, <1>3, <1>4, RestStays
<1> QED
  BY <1>1, <1>2, <1>5, PartWhole
-----------------------------------------------------------------------------
(* ReplaceInString: a string and binary data. *)

Achieves(r, type, data, goal) ==
    /\ r \in Outcomes /\ goal \in Seq(Nat)
    /\ r.how = "same" => goal = data
    /\ r.how = "set" /\ type # "multi" => r.new = goal /\ goal # data
    /\ r.how = "set" /\ type = "multi" =>
        /\ r.new \o <<0>> = goal /\ Len(r.new) < Cap
        /\ Len(goal) # Len(data) \/ \E p \in 1 .. Len(goal) - 1 : goal[p] # data[p]

\* A replacement that regrepl is asked for.
Asked == cFrom \in Seq(Nat \ {0}) /\ cFrom # <<>> /\ cTo \in Seq(Nat \ {0}) /\ cFrom # cTo

LEMMA AskedTexts ==
    ASSUME Asked, NEW data \in Seq(Nat)
    PROVE  /\ Texts(data, cFrom, cTo, 1) /\ cFrom # cTo /\ Len(cFrom) \in Nat \ {0}
           /\ \A p \in 1 .. Len(cFrom) : cFrom[p] # 0
<1>1. cFrom \in Seq(Nat) /\ cTo \in Seq(Nat)
  <2>1. Nat \ {0} \subseteq Nat
    OBVIOUS
  <2> QED
    BY <2>1, SeqMonotonic DEF Asked
<1>2. Len(cFrom) \in Nat \ {0}
  BY <1>1, EmptySeq DEF Asked
<1>3. \A p \in 1 .. Len(cFrom) : cFrom[p] \in Nat \ {0}
  BY ElementOfSeq DEF Asked
<1> QED
  BY <1>1, <1>2, <1>3 DEF Texts, Asked

LEMMA LastByte ==
    ASSUME NEW data \in Seq(Nat), NEW n \in Nat \ {0}, n = Len(data)
    PROVE  Part(data, n, n) = <<data[n]>>
<1>1. n \in Int /\ data[n] \in Nat
  OBVIOUS
<1>2. /\ Part(data, n, n) \in Seq(Nat) /\ Len(Part(data, n, n)) = 1
      /\ Part(data, n, n)[1] = data[n]
  <2>1. LET m == IF n < Len(data) THEN n ELSE Len(data)
        IN  /\ Part(data, n, n) \in Seq(Nat)
            /\ Len(Part(data, n, n)) = IF n <= m THEN m - n + 1 ELSE 0
            /\ \A i \in 1 .. m - n + 1 : Part(data, n, n)[i] = data[n + i - 1]
    BY <1>1, PartIs
  <2> QED
    BY <2>1
<1> DEFINE s == Part(data, n, n)
           t == <<data[n]>>
<1>3. t \in Seq(Nat) /\ Len(t) = 1 /\ t[1] = data[n]
  BY <1>1
<1> HIDE DEF s, t
<1>4. s \in Seq(Nat) /\ Len(s) = Len(t) /\ \A i \in 1 .. Len(s) : s[i] = t[i]
  BY <1>2, <1>3 DEF s
<1>5. s = t
  BY <1>3, <1>4, SeqEqual
<1> QED
  BY <1>5 DEF s, t

LEMMA StringIsRight ==
    ASSUME Asked, NEW data \in Seq(Nat), WellFormed("sz", data), Len(data) > Len(cFrom)
    PROVE  Achieves(ReplaceInString("sz", data), "sz", data, Expected(data, cFrom, cTo, 1))
<1> DEFINE n == Len(data)
           r == Replaced(data, n, cFrom, cTo, 1, 1)
           goal == Expected(data, cFrom, cTo, 1)
<1>1. /\ Texts(data, cFrom, cTo, 1) /\ cFrom # cTo /\ Len(cFrom) \in Nat \ {0} /\ n \in Nat \ {0}
      /\ \A p \in 1 .. Len(cFrom) : cFrom[p] # 0
  BY AskedTexts
<1>2. \A i \in 1 .. n : data[i] = 0 <=> i = n
  BY DEF WellFormed
<1>3. Nul(data, 1) = n
  <2>1. n \in 1 .. Len(data) /\ data[n] = 0 /\ \A j \in 1 .. n - 1 : data[j] # 0
    BY <1>1, <1>2
  <2> DEFINE i == Nul(data, 1)
  <2>2. i \in 1 .. Len(data) /\ data[i] = 0
    BY <2>1 DEF Nul
  <2> HIDE DEF i
  <2> QED
    BY <1>2, <2>2 DEF i
<1>4. Within(cFrom, data, 1, n)
  <2> SUFFICES ASSUME NEW k \in 1 .. n, IsAt(cFrom, data, k) PROVE k + Len(cFrom) <= n
    BY DEF Within
  <2> DEFINE m == Len(cFrom)
  <2>1. k \in Nat \ {0} /\ cFrom \in Seq(Nat) /\ cFrom # <<>>
    BY <1>1 DEF Texts
  <2>2. k + m - 1 <= n /\ \A p \in 1 .. m : data[k + p - 1] = cFrom[p]
    BY <2>1, TextIsThere
  <2>3. m \in 1 .. m /\ m \in Nat \ {0} /\ k + m - 1 \in Nat
    BY <1>1, <2>1
  <2>4. data[k + m - 1] # 0
    BY <1>1, <2>2, <2>3
  <2>5. k + m - 1 \in 1 .. n /\ k + m - 1 # n
    BY <1>2, <2>1, <2>2, <2>3, <2>4
  <2>6. k + m <= n
    <3> HIDE DEF m, n
    <3> QED
      BY <1>1, <2>1, <2>3, <2>5
  <2> QED
    BY <2>6
<1>5. Task(data, cFrom, cTo, 1, n)
  BY <1>1, <1>4 DEF Task
<1>6. Comes(r, goal, data, n)
  BY <1>5, ReplacedIsRight
<1>7. ReplaceInString("sz", data) = [r EXCEPT !.new = IF r.how = "set" THEN Append(@, 0) ELSE @]
  BY <1>3 DEF ReplaceInString
<1>8. Ending(data, n) = <<0>>
  BY <1>1, <1>2, LastByte DEF Ending
<1> DEFINE s == [r EXCEPT !.new = IF r.how = "set" THEN Append(@, 0) ELSE @]
<1> HIDE DEF r, goal, n
<1>9. r \in Outcomes /\ r.new \in Seq(Nat) /\ Append(r.new, 0) \in Seq(Nat)
      /\ Append(r.new, 0) = r.new \o <<0>>
  <2>1. r \in Outcomes /\ r.new \in Seq(Nat)
    BY <1>6 DEF Comes, Outcomes
  <2> QED
    BY <2>1, AppendProperties, AppendIsConcat
<1>10. /\ s \in Outcomes /\ s.how = r.how
       /\ s.new = IF r.how = "set" THEN Append(r.new, 0) ELSE r.new
  BY <1>9 DEF Outcomes
<1> HIDE DEF s
<1>11. Achieves(s, "sz", data, goal)
  BY <1>6, <1>8, <1>9, <1>10 DEF Comes, Achieves
<1> QED
  BY <1>7, <1>11 DEF s, goal

LEMMA WideIs ==
    ASSUME NEW text \in Seq(Nat)
    PROVE  /\ Wide(text) \in Seq(Nat) /\ Len(Wide(text)) = 2 * Len(text)
           /\ \A k \in 1 .. Len(text) : Wide(text)[2 * k - 1] = text[k]
<1> DEFINE n == Len(text)
           w == [i \in 1 .. 2 * n |-> IF i % 2 = 1 THEN text[(i + 1) \div 2] ELSE 0]
<1>1. n \in Nat /\ 2 * n \in Nat /\ \A k \in 1 .. n : text[k] \in Nat
  OBVIOUS
<1>2. w \in [1 .. 2 * n -> Nat]
  <2>1. \A i \in 1 .. 2 * n : i % 2 = 1 => (i + 1) \div 2 \in 1 .. n
    BY <1>1
  <2> HIDE DEF n
  <2> QED
    BY <1>1, <2>1
<1>3. \A k \in 1 .. n : w[2 * k - 1] = text[k]
  <2> SUFFICES ASSUME NEW k \in 1 .. n PROVE w[2 * k - 1] = text[k]
    OBVIOUS
  <2>1. 2 * k - 1 \in 1 .. 2 * n /\ (2 * k - 1) % 2 = 1 /\ ((2 * k - 1) + 1) \div 2 = k
    BY <1>1
  <2> QED
    BY <2>1
<1>4. Wide(text) = w
  BY DEF Wide
<1> HIDE DEF w
<1>5. w \in Seq(Nat) /\ Len(w) = 2 * n
  <2>1. w \in Seq(Nat)
    BY <1>1, <1>2, SeqDef
  <2> QED
    BY <1>1, <1>2, <2>1
<1> QED
  BY <1>3, <1>4, <1>5

LEMMA BinaryIsRight ==
    ASSUME Asked, NEW data \in Seq(Nat),
           NEW goal, goal = (LET narrow == Expected(data, cFrom, cTo, 1)
                             IN  IF narrow = data THEN Expected(data, Wide(cFrom), Wide(cTo), 2) ELSE narrow)
    PROVE  Achieves(ReplaceInString("binary", data), "binary", data, goal)
<1> DEFINE last == Len(data) + 1
           found == Found(cFrom, data, 1, last, 1)
           narrow == Expected(data, cFrom, cTo, 1)
<1>1. /\ Texts(data, cFrom, cTo, 1) /\ cFrom # cTo /\ Len(cFrom) \in Nat \ {0} /\ last \in Nat \ {0}
      /\ cFrom \in Seq(Nat) /\ cTo \in Seq(Nat) /\ cFrom # <<>>
  BY AskedTexts DEF Texts
<1>2. \A text \in Seq(Nat) : text # <<>> => Within(text, data, 1, last)
  <2> SUFFICES ASSUME NEW text \in Seq(Nat), text # <<>>, NEW k \in 1 .. last, IsAt(text, data, k)
               PROVE  k + Len(text) <= last
    BY DEF Within
  <2>1. k \in Nat \ {0}
    BY <1>1
  <2>2. Len(text) \in Nat \ {0} /\ k + Len(text) - 1 <= Len(data)
    BY <2>1, TextIsThere
  <2> QED
    BY <1>1, <2>1, <2>2
<1>3. ASSUME NEW r, NEW g, Comes(r, g, data, last) PROVE Achieves(r, "binary", data, g)
  <2>1. Ending(data, last) = <<>>
    <3>1. Len(data) \in Int /\ Len(data) < last
      BY <1>1
    <3> QED
      BY <1>1, <3>1, PartEmpty DEF Ending
  <2>2. r \in Outcomes /\ r.new \in Seq(Nat) /\ r.new \o <<>> = r.new
    BY <1>3, ConcatEmptySeq DEF Comes, Outcomes
  <2> HIDE DEF last
  <2> QED
    BY <1>3, <2>1, <2>2 DEF Comes, Achieves
<1>4. CASE found # 0
  <2>1. narrow # data
    BY <1>1, <1>4, FoundIsNew
  <2>2. Task(data, cFrom, cTo, 1, last)
    BY <1>1, <1>2 DEF Task
  <2>3. Comes(Replaced(data, last, cFrom, cTo, 1, 0), narrow, data, last)
    BY <2>2, ReplacedIsRight
  <2>4. ReplaceInString("binary", data) = Replaced(data, last, cFrom, cTo, 1, 0)
    BY <1>4 DEF ReplaceInString
  <2>5. goal = narrow
    BY <2>1
  <2> HIDE DEF narrow, last
  <2> QED
    BY <1>3, <2>3, <2>4, <2>5
<1>5. CASE found = 0
  <2> DEFINE wide == Expected(data, Wide(cFrom), Wide(cTo), 2)
  <2>1. narrow = data
    BY <1>1, <1>5, NotFoundIsOld
  <2>2. Wide(cFrom) \in Seq(Nat) /\ Wide(cTo) \in Seq(Nat) /\ Wide(cFrom) # <<>> /\ Wide(cFrom) # Wide(cTo)
    <3>1. /\ Wide(cFrom) \in Seq(Nat) /\ Wide(cTo) \in Seq(Nat)
          /\ Len(Wide(cFrom)) = 2 * Len(cFrom) /\ Len(Wide(cTo)) = 2 * Len(cTo)
          /\ \A k \in 1 .. Len(cFrom) : Wide(cFrom)[2 * k - 1] = cFrom[k]
          /\ \A k \in 1 .. Len(cTo) : Wide(cTo)[2 * k - 1] = cTo[k]
      BY <1>1, WideIs
    <3>2. Wide(cFrom) # <<>>
      BY <1>1, <3>1, EmptySeq
    <3>3. ASSUME Wide(cFrom) = Wide(cTo) PROVE FALSE
      <4>1. Len(cFrom) = Len(cTo)
        BY <1>1, <3>1, <3>3
      <4>2. \A k \in 1 .. Len(cFrom) : cFrom[k] = cTo[k]
        BY <3>1, <3>3, <4>1
      <4> QED
        BY <1>1, <4>1, <4>2, SeqEqual
    <3> QED
      BY <3>1, <3>2, <3>3
  <2>3. Task(data, Wide(cFrom), Wide(cTo), 2, last)
    BY <1>1, <1>2, <2>2 DEF Task, Texts
  <2>4. Comes(Replaced(data, last, Wide(cFrom), Wide(cTo), 2, 0), wide, data, last)
    BY <2>3, ReplacedIsRight
  <2>5. ReplaceInString("binary", data) = Replaced(data, last, Wide(cFrom), Wide(cTo), 2, 0)
    BY <1>5 DEF ReplaceInString
  <2>6. goal = wide
    BY <2>1
  <2> HIDE DEF wide, last
  <2> QED
    BY <1>3, <2>4, <2>5, <2>6
<1> QED
  BY <1>4, <1>5
-----------------------------------------------------------------------------
(* The loop over a list of strings. *)

IsList(data) ==
    /\ data \in Seq(Nat) /\ Len(data) \in Nat /\ Len(data) >= 2
    /\ \A i \in 1 .. Len(data) - 1 : data[i] = 0 /\ data[i + 1] = 0 <=> i = Len(data) - 1

LEMMA ListEnds ==
    ASSUME NEW data, IsList(data)
    PROVE  data[Len(data)] = 0 /\ data[Len(data) - 1] = 0
<1>1. Len(data) - 1 \in 1 .. Len(data) - 1 /\ (Len(data) - 1) + 1 = Len(data)
  BY DEF IsList
<1>2. \A i \in 1 .. Len(data) - 1 : data[i] = 0 /\ data[i + 1] = 0 <=> i = Len(data) - 1
  BY DEF IsList
<1> QED
  BY <1>1, <1>2

LEMMA NulIs ==
    ASSUME NEW data, IsList(data), NEW old \in 1 .. Len(data) - 1, NEW last, last = Nul(data, old)
    PROVE  /\ last \in Nat \ {0} /\ last \in old .. Len(data) - 1 /\ data[last] = 0
           /\ data[last + 1] # 0 => last + 1 \in old + 1 .. Len(data) - 1
           /\ data[last + 1] = 0 => last + 1 = Len(data)
<1> DEFINE n == Len(data)
           S == {i \in old .. n : data[i] = 0}
<1>1. n \in Nat /\ n >= 2 /\ data[n] = 0 /\ data[n - 1] = 0
  BY ListEnds DEF IsList
<1>2. old \in Nat \ {0} /\ old <= n - 1 /\ n - 1 \in Nat
  BY <1>1
<1>3. n - 1 \in S /\ S \subseteq Nat
  BY <1>1, <1>2
<1>4. PICK i \in S : \A j \in S : i <= j
  <2> HIDE DEF S
  <2> QED
    BY <1>3, Least
<1>5. i \in old .. n /\ data[i] = 0 /\ \A j \in old .. i - 1 : data[j] # 0
  <2>1. i \in old .. n /\ data[i] = 0
    OBVIOUS
  <2>2. ASSUME NEW j \in old .. i - 1, data[j] = 0 PROVE FALSE
    <3>1. j \in S
      BY <1>1, <1>2, <2>1, <2>2
    <3>2. i <= j
      BY <1>4, <3>1
    <3> QED
      BY <1>1, <1>2, <2>1, <3>2
  <2> QED
    BY <2>1, <2>2
<1>6. last \in old .. n /\ data[last] = 0 /\ \A j \in old .. last - 1 : data[j] # 0
  BY <1>5 DEF Nul
<1>7. last <= n - 1
  <2>1. ~ (n - 1 \in old .. last - 1)
    BY <1>1, <1>6
  <2> HIDE DEF n
  <2> QED
    BY <1>1, <1>2, <1>6, <2>1
<1>8. last \in Nat \ {0} /\ last \in old .. n - 1
  BY <1>1, <1>2, <1>6, <1>7
<1>9. data[last + 1] # 0 => last + 1 \in old + 1 .. n - 1
  <2>1. last + 1 = n => data[last + 1] = 0
    BY <1>1
  <2> HIDE DEF n
  <2> QED
    BY <1>1, <1>2, <1>8, <2>1
<1>10. data[last + 1] = 0 => last + 1 = n
  <2>1. last \in 1 .. n - 1
    BY <1>1, <1>2, <1>8
  <2>2. data[last] = 0 /\ data[last + 1] = 0 <=> last = n - 1
    BY <2>1 DEF IsList
  <2> HIDE DEF n
  <2> QED
    BY <1>1, <1>6, <1>8, <2>2
<1> QED
  BY <1>6, <1>8, <1>9, <1>10

ListPlaces(data) == [old : 1 .. Len(data) - 1, new : Seq(Nat), done : BOOLEAN]
ListAt(old, new, done) == [old |-> old, new |-> new, done |-> done]

ListTurn(L, at, data, from, to) ==
    LET last == Nul(data, at.old)
        i == Found(from, data, at.old, last, 1)
        found == at.new \o Part(data, at.old, i - 1) \o to
        rest == at.new \o Part(data, at.old, last)
    IN  IF (i = 0 /\ Len(rest) >= Cap) \/ (i # 0 /\ Len(found) >= Cap - 1)
        THEN Outcome("big", at.new)
        ELSE IF i # 0 THEN L[[old |-> After(i, from), new |-> found, done |-> TRUE]]
        ELSE IF data[last + 1] # 0 THEN L[[at EXCEPT !.old = last + 1, !.new = rest]]
        ELSE Outcome(IF at.done THEN "set" ELSE "same", rest)

ListLoop(L, data, from, to) ==
    L = [at \in ListPlaces(data) |-> ListTurn(L, at, data, from, to)]

LEMMA ListTurnIs ==
    ASSUME NEW data, NEW from, NEW to, Texts(data, from, to, 1), IsList(data),
           NEW at \in ListPlaces(data), NEW last, last = Nul(data, at.old),
           NEW i, i = Found(from, data, at.old, last, 1)
    PROVE  /\ at.new \o Part(data, at.old, last) \in Seq(Nat)
           /\ i # 0 =>
                /\ i \in Nat \ {0} /\ at.old <= i /\ i + Len(from) \in at.old + 1 .. Len(data) - 1
                /\ (at.new \o Part(data, at.old, i - 1)) \o to \in Seq(Nat)
           /\ data[last + 1] # 0 => last + 1 \in at.old + 1 .. Len(data) - 1
<1>1. /\ data \in Seq(Nat) /\ to \in Seq(Nat) /\ from \in Seq(Nat) /\ from # <<>>
      /\ Len(data) \in Nat /\ Len(from) \in Nat \ {0} /\ at.old \in Nat \ {0}
      /\ at.old \in 1 .. Len(data) - 1 /\ at.new \in Seq(Nat) /\ 1 \in {1, 2}
  BY EmptySeq DEF Texts, ListPlaces
<1>2. /\ last \in Nat \ {0} /\ last \in at.old .. Len(data) - 1
      /\ data[last + 1] # 0 => last + 1 \in at.old + 1 .. Len(data) - 1
  BY <1>1, NulIs
<1>3. \A b \in Int : at.new \o Part(data, at.old, b) \in Seq(Nat)
  <2> TAKE b \in Int
  <2>1. Part(data, at.old, b) \in Seq(Nat)
    BY <1>1, PartIs
  <2> QED
    BY <1>1, <2>1, ConcatProperties
<1>4. ASSUME i # 0
      PROVE  /\ i \in Nat \ {0} /\ at.old <= i /\ i + Len(from) \in at.old + 1 .. Len(data) - 1
             /\ (at.new \o Part(data, at.old, i - 1)) \o to \in Seq(Nat)
  <2>1. i \in at.old .. last - Len(from)
    <3>1. last \in Nat
      BY <1>2
    <3> QED
      BY <1>1, <1>4, <3>1, FirstFound
  <2>2. /\ i \in Nat \ {0} /\ at.old <= i /\ i - 1 \in Int
        /\ i + Len(from) \in at.old + 1 .. Len(data) - 1
    <3> DEFINE o == at.old
               n == Len(from)
               m == Len(data)
    <3>1. /\ o \in Nat \ {0} /\ n \in Nat \ {0} /\ last \in Nat /\ i \in o .. last - n
          /\ m \in Nat /\ last <= m - 1
      BY <1>1, <1>2, <2>1
    <3>2. i \in Nat \ {0} /\ o <= i /\ i - 1 \in Int /\ i + n \in o + 1 .. m - 1
      <4> HIDE DEF o, n, m
      <4>1. i \in Int /\ o <= i /\ i <= last - n
        BY <3>1
      <4> QED
        BY <3>1, <4>1
    <3> QED
      BY <3>2
  <2>3. at.new \o Part(data, at.old, i - 1) \in Seq(Nat)
    BY <1>3, <2>2
  <2> QED
    BY <1>1, <2>2, <2>3, ConcatProperties
<1>5. at.new \o Part(data, at.old, last) \in Seq(Nat)
  BY <1>2, <1>3
<1> QED
  BY <1>2, <1>4, <1>5

LEMMA ListLoopExists ==
    ASSUME NEW data, NEW from, NEW to, Texts(data, from, to, 1), IsList(data)
    PROVE  \E L : /\ ListLoop(L, data, from, to)
                  /\ ReplacedInList(data, from, to) = L[ListAt(1, <<>>, FALSE)]
<1> DEFINE D == ListPlaces(data)
           R == Outcomes
           Turns(f, at) == ListTurn(f, at, data, from, to)
           G == [f \in [D -> R] |-> [at \in D |-> Turns(f, at)]]
           n == Len(data)
           rank == [at \in D |-> n - at.old]
<1>1. /\ n \in Nat
      /\ \A at \in D : at.old \in 1 .. n - 1 /\ at.new \in Seq(Nat) /\ at.done \in BOOLEAN
  BY DEF IsList, ListPlaces
<1>2. \A how \in {"same", "big", "set", "overrun"}, m \in Seq(Nat) : Outcome(how, m) \in R
  BY DEF Outcome, Outcomes
<1>3. ASSUME NEW f \in [D -> R], NEW g \in [D -> R], NEW at \in D,
             \A e \in D : rank[e] < rank[at] => f[e] = g[e]
      PROVE  Turns(f, at) \in R /\ Turns(f, at) = Turns(g, at)
  <2> DEFINE last == Nul(data, at.old)
             i == Found(from, data, at.old, last, 1)
             found == (at.new \o Part(data, at.old, i - 1)) \o to
             rest == at.new \o Part(data, at.old, last)
             p == [old |-> After(i, from), new |-> found, done |-> TRUE]
             q == [at EXCEPT !.old = last + 1, !.new = rest]
  <2>1. /\ rest \in Seq(Nat) /\ at.new \in Seq(Nat)
        /\ i # 0 => After(i, from) \in at.old + 1 .. n - 1 /\ found \in Seq(Nat)
        /\ data[last + 1] # 0 => last + 1 \in at.old + 1 .. n - 1
    BY <1>1, ListTurnIs DEF After
  <2>2. \A h : Turns(h, at) =
            IF (i = 0 /\ Len(rest) >= Cap) \/ (i # 0 /\ Len(found) >= Cap - 1)
            THEN Outcome("big", at.new)
            ELSE IF i # 0 THEN h[p]
            ELSE IF data[last + 1] # 0 THEN h[q]
            ELSE Outcome(IF at.done THEN "set" ELSE "same", rest)
    BY DEF ListTurn
  <2> DEFINE a == After(i, from)
             b == last + 1
  <2>3. i # 0 => p \in D /\ p.old = a
    <3>1. p = [old |-> a, new |-> found, done |-> TRUE]
      OBVIOUS
    <3>2. i # 0 => a \in 1 .. n - 1 /\ found \in Seq(Nat)
      <4> HIDE DEF a, i, found, n
      <4> QED
        BY <1>1, <2>1 DEF a
    <3> HIDE DEF a, found, i
    <3> QED
      BY <3>1, <3>2 DEF ListPlaces
  <2>4. data[last + 1] # 0 => q \in D /\ q.old = b
    <3>1. data[last + 1] # 0 => b \in 1 .. n - 1
      <4> HIDE DEF last, n
      <4> QED
        BY <1>1, <2>1 DEF b
    <3>2. at \in [old : 1 .. n - 1, new : Seq(Nat), done : BOOLEAN] /\ q = [at EXCEPT !.old = b, !.new = rest]
      BY DEF ListPlaces
    <3> HIDE DEF b, rest, last, n, q
    <3>3. data[last + 1] # 0 => q \in [old : 1 .. n - 1, new : Seq(Nat), done : BOOLEAN] /\ q.old = b
      BY <2>1, <3>1, <3>2
    <3> QED
      BY <3>3 DEF ListPlaces, n
  <2>5. (i # 0 => rank[p] < rank[at]) /\ (data[last + 1] # 0 => rank[q] < rank[at])
    <3>1. i # 0 => a \in at.old + 1 .. n - 1
      BY <2>1
    <3>2. data[last + 1] # 0 => b \in at.old + 1 .. n - 1
      BY <2>1
    <3>3. /\ i # 0 => rank[p] = n - a
          /\ data[last + 1] # 0 => rank[q] = n - b
          /\ rank[at] = n - at.old
      <4> HIDE DEF D, p, q, a, b, i, last, n
      <4> QED
        BY <2>3, <2>4
    <3> HIDE DEF D, p, q, a, b, i, last, n, rank
    <3> QED
      BY <1>1, <3>1, <3>2, <3>3
  <2> HIDE DEF D, R, rank, p, q, i, last, found, rest, Turns
  <2>6. (i # 0 => f[p] \in R /\ f[p] = g[p]) /\ (data[last + 1] # 0 => f[q] \in R /\ f[q] = g[q])
    BY <1>3, <2>3, <2>4, <2>5
  <2>7. Outcome("big", at.new) \in R /\ Outcome(IF at.done THEN "set" ELSE "same", rest) \in R
    BY <1>2, <2>1
  <2>8. Turns(f, at) \in R
    BY <2>2, <2>6, <2>7
  <2>9. Turns(f, at) = Turns(g, at)
    BY <2>2, <2>6
  <2> QED
    BY <2>8, <2>9
<1>4. R # {}
  BY <1>2, EmptySeq
<1>5. G \in [[D -> R] -> [D -> R]]
  <2>1. \A f \in [D -> R] : \A at \in D : Turns(f, at) \in R
    <3> HIDE DEF D, R, Turns, rank
    <3> QED
      BY <1>3
  <2> HIDE DEF D, R, Turns
  <2> QED
    BY <2>1
<1>6. rank \in [D -> 0 .. n]
  <2> HIDE DEF D, n
  <2> QED
    BY <1>1
<1>7. ASSUME NEW f \in [D -> R], NEW g \in [D -> R], NEW at \in D,
             \A e \in D : rank[e] < rank[at] => f[e] = g[e]
      PROVE  G[f][at] = G[g][at]
  <2>1. G[f][at] = Turns(f, at) /\ G[g][at] = Turns(g, at)
    <3> HIDE DEF D, R, Turns
    <3> QED
      OBVIOUS
  <2>2. Turns(f, at) = Turns(g, at)
    <3> HIDE DEF D, R, Turns, rank
    <3> QED
      BY <1>3, <1>7
  <2> QED
    BY <2>1, <2>2
<1>8. PICK f \in [D -> R] : G[f] = f
  <2> HIDE DEF D, R, G, rank, n
  <2>1. Descends(G, D, R, rank, n)
    BY <1>1, <1>4, <1>5, <1>6, <1>7 DEF Descends
  <2> QED
    BY <2>1, Fixpoint
<1>9. ListLoop(f, data, from, to)
  <2>1. G[f] = [at \in D |-> Turns(f, at)]
    <3> HIDE DEF D, R, Turns
    <3> QED
      OBVIOUS
  <2> HIDE DEF G
  <2> QED
    BY <1>8, <2>1 DEF ListLoop
<1> DEFINE L == CHOOSE L : ListLoop(L, data, from, to)
<1>10. ListLoop(L, data, from, to)
  <2> HIDE DEF G, D, R
  <2> QED
    BY <1>9
<1>11. ReplacedInList(data, from, to) = L[ListAt(1, <<>>, FALSE)]
  BY DEF ReplacedInList, ListLoop, ListTurn, ListPlaces, ListAt
<1> HIDE DEF L
<1> QED
  BY <1>10, <1>11
-----------------------------------------------------------------------------
(* What comes of a list. *)

NoNul(from) == \A p \in 1 .. Len(from) : from[p] # 0
Skips(T, data, old, last) == T[old] = Part(data, old, last) \o T[last + 1]

\* A text does not go on from one string to the next.
LEMMA ListSkips ==
    ASSUME NEW T, NEW data, NEW from, NEW to, Texts(data, from, to, 1), RestIs(T, data, from, to, 1),
           IsList(data), NoNul(from), NEW old \in 1 .. Len(data) - 1,
           NEW last, last = Nul(data, old), Found(from, data, old, last, 1) = 0
    PROVE  Skips(T, data, old, last)
<1>1. /\ data \in Seq(Nat) /\ from \in Seq(Nat) /\ from # <<>> /\ Len(data) \in Nat
      /\ Len(from) \in Nat \ {0} /\ old \in Nat \ {0} /\ 1 \in {1, 2}
      /\ Texts(data, from, to, 1) /\ RestIs(T, data, from, to, 1)
  BY EmptySeq DEF Texts
<1>2. last \in Nat \ {0} /\ last \in old .. Len(data) - 1 /\ data[last] = 0
  BY NulIs
<1>3. NoneIn(from, data, old, last - Len(from), 1)
  <2>1. last \in Nat
    BY <1>2
  <2> QED
    BY <1>1, <2>1, FirstFound
<1>4. NoneIn(from, data, old, last, 1)
  <2> SUFFICES ASSUME NEW k \in old .. last, Step(old, k, 1), IsAt(from, data, k) PROVE FALSE
    BY DEF NoneIn
  <2> DEFINE m == Len(from)
             p == last - k + 1
  <2>1. k \in Nat \ {0} /\ k <= last
    BY <1>1, <1>2
  <2>2. \A q \in 1 .. m : data[k + q - 1] = from[q]
    BY <1>1, <2>1, TextIsThere
  <2>3. ~ (k \in old .. last - m)
    BY <1>3 DEF NoneIn
  <2>4. p \in 1 .. m /\ k + p - 1 = last
    <3>1. m \in Nat \ {0} /\ last \in Nat /\ old \in Nat /\ k \in Nat /\ old <= k
      BY <1>1, <1>2, <2>1
    <3> HIDE DEF m
    <3>2. k > last - m
      BY <2>3, <3>1
    <3> QED
      BY <2>1, <3>1, <3>2
  <2>5. data[k + p - 1] = from[p] /\ from[p] # 0
    BY <2>2, <2>4 DEF NoNul
  <2> HIDE DEF p
  <2> QED
    BY <1>2, <2>4, <2>5
<1> DEFINE j == last + 1
<1>5. j \in Nat \ {0} /\ old <= j /\ Step(old, j, 1) /\ j - 1 = last
  <2>0. last \in Nat /\ old \in Nat /\ old <= last
    BY <1>1, <1>2
  <2>1. j \in Nat \ {0} /\ old <= j /\ j - 1 = last /\ j - old \in Int
    BY <2>0
  <2>2. \A x \in Int : x % 1 = 0
    OBVIOUS
  <2> HIDE DEF j
  <2> QED
    BY <1>1, <2>1, <2>2 DEF Step
<1>6. T[old] = Part(data, old, j - 1) \o T[j]
  <2>1. NoneIn(from, data, old, j - 1, 1)
    BY <1>4, <1>5
  <2> HIDE DEF j
  <2> QED
    BY <1>1, <1>5, <2>1, RestSkips
<1> QED
  BY <1>5, <1>6 DEF Skips

LEMMA ListLast ==
    ASSUME NEW T, NEW data, NEW from, NEW to, Texts(data, from, to, 1), RestIs(T, data, from, to, 1),
           IsList(data), NoNul(from)
    PROVE  T[Len(data)] = <<0>> /\ Part(data, Len(data), Len(data)) = <<0>>
<1> DEFINE n == Len(data)
<1>1. /\ data \in Seq(Nat) /\ from \in Seq(Nat) /\ from # <<>> /\ n \in Nat \ {0} /\ data[n] = 0
      /\ Len(from) \in Nat \ {0} /\ Texts(data, from, to, 1) /\ RestIs(T, data, from, to, 1)
  BY EmptySeq, ListEnds DEF Texts, IsList
<1>2. Part(data, n, n) = <<0>>
  BY <1>1, LastByte
<1>3. ~ IsAt(from, data, n)
  <2> SUFFICES ASSUME IsAt(from, data, n) PROVE FALSE
    OBVIOUS
  <2>1. \A q \in 1 .. Len(from) : data[n + q - 1] = from[q]
    BY <1>1, TextIsThere
  <2>2. 1 \in 1 .. Len(from) /\ n + 1 - 1 = n
    BY <1>1
  <2> QED
    BY <1>1, <2>1, <2>2 DEF NoNul
<1> DEFINE k == n + 1
<1>4. k \in Nat \ {0} /\ k > n /\ ~ (n > n) /\ n + 1 - 1 = n
  BY <1>1
<1>5. T[k] = <<>>
  <2> HIDE DEF k
  <2> QED
    BY <1>1, <1>4, RestStep
<1>6. T[n] = Part(data, n, n) \o T[k]
  <2>1. T[n] = Part(data, n, n + 1 - 1) \o T[n + 1]
    <3>1. n \in Nat \ {0}
      BY <1>1
    <3> QED
      BY <1>3, <1>4, <3>1 DEF RestIs
  <2> QED
    BY <1>4, <2>1
<1>7. <<0>> \o <<>> = <<0>>
  <2>1. <<0>> \in Seq(Nat)
    OBVIOUS
  <2> QED
    BY <2>1, ConcatEmptySeq
<1> QED
  BY <1>2, <1>5, <1>6, <1>7

ListRight(r, T, data, from, to, old, new, done) ==
    /\ r \in Outcomes /\ r.how \in {"same", "big", "set"}
    /\ r.how = "set" => /\ r.new \o <<0>> = new \o T[old] /\ Len(r.new) < Cap
                        /\ done \/ Change(T, data, from, to, old)
    /\ r.how = "same" => ~ done /\ T[old] = Part(data, old, Len(data))

\* The rest of a string in which there is no more of the text, and the next string.
LEMMA ListRightOn ==
    ASSUME NEW T, NEW data, NEW from, NEW to, Texts(data, from, to, 1), RestIs(T, data, from, to, 1),
           IsList(data), NEW old \in Nat \ {0}, NEW last \in Nat, old <= last, last < Len(data),
           Skips(T, data, old, last), NEW new \in Seq(Nat), NEW done, NEW r,
           ListRight(r, T, data, from, to, last + 1, new \o Part(data, old, last), done)
    PROVE  ListRight(r, T, data, from, to, old, new, done)
<1> DEFINE s == Part(data, old, last)
           b == last + 1
           u == T[b]
<1>1. /\ data \in Seq(Nat) /\ to \in Seq(Nat) /\ Len(data) \in Nat /\ s \in Seq(Nat) /\ b \in Nat \ {0}
      /\ \A i \in Nat \ {0} : T[i] \in Seq(Nat)
  <2>1. data \in Seq(Nat) /\ to \in Seq(Nat) /\ Len(data) \in Nat /\ last \in Int
    BY DEF Texts
  <2>2. \A i \in Nat \ {0} : T[i] \in Seq(Nat)
    BY RestType
  <2>3. s \in Seq(Nat)
    BY <2>1, PartIs
  <2> QED
    BY <2>1, <2>2, <2>3
<1>2. u \in Seq(Nat) /\ T[old] = s \o u /\ ListRight(r, T, data, from, to, b, new \o s, done)
  BY <1>1 DEF Skips
<1>3. \A j \in Nat : b <= j + 1 => s \o Part(data, b, j) = Part(data, old, j)
  <2> SUFFICES ASSUME NEW j \in Nat, b <= j + 1 PROVE s \o Part(data, b, j) = Part(data, old, j)
    OBVIOUS
  <2>1. old <= last + 1 /\ last <= j
    OBVIOUS
  <2> QED
    BY <1>1, <2>1, PartJoin
<1> HIDE DEF s, b, u
<1>4. (new \o s) \o u = new \o (s \o u)
  BY <1>1, <1>2, Assoc
<1>5. ASSUME Change(T, data, from, to, b) PROVE Change(T, data, from, to, old)
  <2>1. PICK i \in Nat \ {0} : /\ b <= i /\ IsAt(from, data, i)
                               /\ u = Part(data, b, i - 1) \o (to \o T[i + Len(from)])
    BY <1>5 DEF Change, u
  <2> DEFINE a == Part(data, b, i - 1)
             c == to \o T[i + Len(from)]
  <2>2. i - 1 \in Nat /\ i - 1 \in Int /\ b <= (i - 1) + 1 /\ i + Len(from) \in Nat \ {0} /\ old <= i
    <3>1. Len(from) \in Nat /\ old <= b
      BY DEF Texts, b
    <3> QED
      BY <1>1, <2>1, <3>1
  <2>3. s \o a = Part(data, old, i - 1)
    BY <1>3, <2>2
  <2>4. a \in Seq(Nat) /\ c \in Seq(Nat)
    <3>1. T[i + Len(from)] \in Seq(Nat)
      BY <1>1, <2>2
    <3> QED
      BY <1>1, <2>2, <3>1, PartIs, ConcatProperties
  <2>5. T[old] = s \o (a \o c)
    BY <1>2, <2>1
  <2> HIDE DEF a, c
  <2>6. (s \o a) \o c = s \o (a \o c)
    <3>1. s \in Seq(Nat)
      BY <1>1
    <3> QED
      BY <2>4, <3>1, Assoc
  <2>7. T[old] = Part(data, old, i - 1) \o c
    BY <2>3, <2>5, <2>6
  <2> QED
    BY <2>1, <2>2, <2>7 DEF Change, c
<1>6. ASSUME r.how = "same" PROVE ~ done /\ T[old] = Part(data, old, Len(data))
  <2>1. ~ done /\ u = Part(data, b, Len(data))
    BY <1>2, <1>6 DEF ListRight, u
  <2>2. b <= Len(data) + 1
    BY <1>1 DEF b
  <2> QED
    BY <1>1, <1>2, <1>3, <2>1, <2>2
<1>7. ASSUME r.how = "set"
      PROVE  /\ r.new \o <<0>> = new \o T[old] /\ Len(r.new) < Cap
             /\ done \/ Change(T, data, from, to, old)
  BY <1>2, <1>4, <1>5, <1>7 DEF ListRight, u
<1> QED
  BY <1>2, <1>6, <1>7 DEF ListRight

\* From one text to the next.
LEMMA ListRightText ==
    ASSUME NEW T, NEW data, NEW from, NEW to, Texts(data, from, to, 1), RestIs(T, data, from, to, 1),
           NEW old \in Nat \ {0}, NEW i \in Nat \ {0}, old <= i, IsAt(from, data, i),
           Becomes(T, data, from, to, old, i), NEW new \in Seq(Nat), NEW done, NEW r,
           ListRight(r, T, data, from, to, i + Len(from), (new \o Part(data, old, i - 1)) \o to, TRUE)
    PROVE  ListRight(r, T, data, from, to, old, new, done)
<1> DEFINE s == Part(data, old, i - 1)
           b == i + Len(from)
           u == T[b]
<1>1. to \in Seq(Nat) /\ s \in Seq(Nat) /\ u \in Seq(Nat)
  <2>1. data \in Seq(Nat) /\ to \in Seq(Nat) /\ Len(from) \in Nat /\ i - 1 \in Int
    BY DEF Texts
  <2>2. u \in Seq(Nat)
    <3>1. b \in Nat \ {0}
      BY <2>1
    <3> HIDE DEF b
    <3> QED
      BY <3>1, RestType
  <2> QED
    BY <2>1, <2>2, PartIs
<1>2. T[old] = s \o (to \o u)
  BY DEF Becomes
<1>3. ListRight(r, T, data, from, to, b, (new \o s) \o to, TRUE)
  OBVIOUS
<1>4. Change(T, data, from, to, old)
  BY <1>2 DEF Change
<1> HIDE DEF s, b, u
<1>5. ((new \o s) \o to) \o u = new \o (s \o (to \o u))
  <2>1. to \o u \in Seq(Nat) /\ new \o s \in Seq(Nat)
    BY <1>1, ConcatProperties
  <2>2. ((new \o s) \o to) \o u = (new \o s) \o (to \o u)
    BY <1>1, <2>1, Assoc, ZenonT(90)
  <2>3. (new \o s) \o (to \o u) = new \o (s \o (to \o u))
    BY <1>1, <2>1, Assoc
  <2> QED
    BY <2>2, <2>3
<1> QED
  BY <1>2, <1>3, <1>4, <1>5 DEF ListRight, u

LEMMA ListLoopIsRight ==
    ASSUME NEW T, NEW data, NEW from, NEW to, Texts(data, from, to, 1), RestIs(T, data, from, to, 1),
           IsList(data), NoNul(from), NEW L, ListLoop(L, data, from, to)
    PROVE  ListRight(L[ListAt(1, <<>>, FALSE)], T, data, from, to, 1, <<>>, FALSE)
<1> DEFINE n == Len(data)
           m == n - 1
           Right(old, new, done) == ListRight(L[ListAt(old, new, done)], T, data, from, to, old, new, done)
           P == {old \in 1 .. m : \A new \in Seq(Nat), done \in BOOLEAN : Right(old, new, done)}
<1>0. Texts(data, from, to, 1) /\ RestIs(T, data, from, to, 1) /\ IsList(data) /\ NoNul(from)
  OBVIOUS
<1>1. n \in Nat /\ m \in Nat \ {0} /\ Len(from) \in Nat \ {0} /\ from \in Seq(Nat) /\ from # <<>>
  <2>1. Len(data) \in Nat /\ Len(data) >= 2
    BY DEF IsList
  <2>2. from \in Seq(Nat) /\ from # <<>>
    BY DEF Texts
  <2>3. Len(from) \in Nat \ {0}
    BY <2>2, EmptySeq
  <2>4. n - 1 \in Nat \ {0}
    BY <2>1
  <2> QED
    BY <2>1, <2>2, <2>3, <2>4
<1>2. ASSUME NEW old \in 1 .. m, \A j \in old + 1 .. m : j \in P PROVE old \in P
  <2> SUFFICES ASSUME NEW new \in Seq(Nat), NEW done \in BOOLEAN PROVE Right(old, new, done)
    OBVIOUS
  <2> DEFINE at == ListAt(old, new, done)
             last == Nul(data, old)
             i == Found(from, data, old, last, 1)
             s == Part(data, old, last)
             found == (new \o Part(data, old, i - 1)) \o to
             rest == new \o s
             r == L[at]
             a == i + Len(from)
             b == last + 1
  <2>1. at \in ListPlaces(data) /\ at.old = old /\ at.new = new /\ at.done = done /\ old \in Nat \ {0}
    BY DEF ListAt, ListPlaces
  <2>3. /\ rest \in Seq(Nat)
        /\ i # 0 => /\ i \in Nat \ {0} /\ old <= i /\ a \in old + 1 .. m /\ found \in Seq(Nat)
        /\ data[b] # 0 => b \in old + 1 .. m
    <3> HIDE DEF at
    <3> QED
      BY <1>0, <2>1, ListTurnIs
  <2>4. last \in Nat \ {0} /\ last \in old .. m /\ (data[b] = 0 => b = n)
    BY <1>0, NulIs
  <2>2. r = IF (i = 0 /\ Len(rest) >= Cap) \/ (i # 0 /\ Len(found) >= Cap - 1)
            THEN Outcome("big", new)
            ELSE IF i # 0 THEN L[ListAt(a, found, TRUE)]
            ELSE IF data[b] # 0 THEN L[ListAt(b, rest, done)]
            ELSE Outcome(IF done THEN "set" ELSE "same", rest)
    <3>1. r = ListTurn(L, at, data, from, to)
      <4> HIDE DEF at
      <4> QED
        BY <2>1 DEF ListLoop
    <3>2. [at EXCEPT !.old = last + 1, !.new = rest] = ListAt(b, rest, done)
      <4> DEFINE R == [old : Int, new : Seq(Nat), done : BOOLEAN]
                 q == [at EXCEPT !.old = b, !.new = rest]
      <4>1. at \in R /\ b \in Int /\ rest \in Seq(Nat) /\ at.done = done
        <5>1. b \in Int
          BY <2>4
        <5>2. at \in R
          BY DEF ListAt
        <5> QED
          BY <2>1, <2>3, <5>1, <5>2
      <4>2. q \in R /\ q.old = b /\ q.new = rest /\ q.done = done
        <5> HIDE DEF at, b, rest
        <5> QED
          BY <4>1
      <4>3. \A x \in R : x = ListAt(x.old, x.new, x.done)
        BY DEF ListAt
      <4>4. q = ListAt(b, rest, done)
        <5> HIDE DEF q, R, b, rest
        <5> QED
          BY <4>2, <4>3
      <4> QED
        BY <4>4
    <3>3. [old |-> After(i, from), new |-> found, done |-> TRUE] = ListAt(a, found, TRUE)
      BY DEF ListAt, After
    <3> HIDE DEF at, r
    <3> QED
      BY <2>1, <3>1, <3>2, <3>3 DEF ListTurn
  <2>5. \A how \in {"same", "big", "set"}, w \in Seq(Nat) :
            Outcome(how, w) \in Outcomes /\ Outcome(how, w).how = how /\ Outcome(how, w).new = w
    BY DEF Outcome, Outcomes
  <2>6. CASE r = Outcome("big", new)
    <3> HIDE DEF r
    <3>1. r \in Outcomes /\ r.how = "big"
      BY <2>5, <2>6
    <3>2. ListRight(r, T, data, from, to, old, new, done)
      BY <3>1 DEF ListRight
    <3> QED
      BY <3>2 DEF r, at
  <2>7. CASE i # 0 /\ r = L[ListAt(a, found, TRUE)]
    <3>1. ListRight(r, T, data, from, to, a, found, TRUE)
      <4>1. a \in P
        BY <1>2, <2>3, <2>7
      <4>2. Right(a, found, TRUE)
        <5> HIDE DEF a, found, Right
        <5> QED
          BY <2>3, <2>7, <4>1
      <4> HIDE DEF r, a, found
      <4> QED
        BY <2>7, <4>2
    <3>2. IsAt(from, data, i) /\ Becomes(T, data, from, to, old, i)
      <4>1. /\ Step(old, i, 1) /\ IsAt(from, data, i) /\ NoneIn(from, data, old, i - 1, 1)
        <5>1. last \in Nat /\ i = Found(from, data, old, last, 1) /\ 1 \in {1, 2}
          BY <2>4
        <5> HIDE DEF i, last
        <5> QED
          BY <1>1, <2>1, <2>7, <5>1, FirstFound
      <4>2. Hit(T, data, from, to, 1, old, i)
        <5> HIDE DEF i
        <5> QED
          BY <1>0, <2>1, <2>3, <2>7, <4>1 DEF Hit
      <4>3. Becomes(T, data, from, to, old, i)
        <5> HIDE DEF i
        <5> QED
          BY <4>2, RestHits
      <4> QED
        BY <4>1, <4>3
    <3>3. ListRight(r, T, data, from, to, old, new, done)
      <4> HIDE DEF r, i
      <4> QED
        BY <1>0, <2>1, <2>3, <2>7, <3>1, <3>2, ListRightText
    <3> QED
      BY <3>3 DEF r, at
  <2>8. ASSUME i = 0 PROVE Skips(T, data, old, last)
    BY <1>0, <2>8, ListSkips
  <2>9. last \in Nat /\ old <= last /\ last < Len(data)
    <3>1. m = Len(data) - 1
      OBVIOUS
    <3> HIDE DEF m, last
    <3> QED
      BY <1>1, <2>4, <3>1
  <2>10. ASSUME i = 0, ListRight(r, T, data, from, to, b, rest, done) PROVE Right(old, new, done)
    <3>1. Skips(T, data, old, last)
      BY <2>8, <2>10
    <3>2. ListRight(r, T, data, from, to, last + 1, new \o Part(data, old, last), done)
      BY <2>10
    <3>3. ListRight(r, T, data, from, to, old, new, done)
      <4> HIDE DEF r, last
      <4> QED
        BY <1>0, <2>1, <2>9, <3>1, <3>2, ListRightOn
    <3> QED
      BY <3>3 DEF r, at
  <2>11. CASE i = 0 /\ data[b] # 0 /\ r = L[ListAt(b, rest, done)]
    <3>1. b \in P
      BY <1>2, <2>3, <2>11
    <3>2. Right(b, rest, done)
      <4> HIDE DEF b, rest, Right
      <4> QED
        BY <2>3, <3>1
    <3>3. ListRight(r, T, data, from, to, b, rest, done)
      <4> HIDE DEF r, b, rest
      <4> QED
        BY <2>11, <3>2
    <3> QED
      BY <2>10, <2>11, <3>3
  <2>12. CASE /\ i = 0 /\ data[b] = 0 /\ ~ (Len(rest) >= Cap)
              /\ r = Outcome(IF done THEN "set" ELSE "same", rest)
    <3>1. T[b] = <<0>> /\ Part(data, b, n) = <<0>>
      <4>1. b = n
        BY <2>4, <2>12
      <4> QED
        BY <1>0, <4>1, ListLast
    <3>2. Len(rest) < Cap
      <4>1. Len(rest) \in Nat
        <5> HIDE DEF rest
        <5> QED
          BY <2>3
      <4> HIDE DEF rest
      <4> QED
        BY <2>12, <4>1, DataAssumption
    <3> HIDE DEF r, rest, b, i
    <3>3. r \in Outcomes /\ r.how = (IF done THEN "set" ELSE "same") /\ r.new = rest
      BY <2>3, <2>5, <2>12
    <3>4. ListRight(r, T, data, from, to, b, rest, done)
      BY <3>1, <3>2, <3>3 DEF ListRight
    <3> QED
      BY <2>10, <2>12, <3>4
  <2> HIDE DEF r, i, b, found, rest, Right
  <2> QED
    BY <2>2, <2>6, <2>7, <2>11, <2>12
<1>3. \A old \in 1 .. m : old \in P
  <2> HIDE DEF P, m
  <2> QED
    BY <1>1, <1>2, Downward
<1>4. 1 \in P
  <2> HIDE DEF P, m
  <2> QED
    BY <1>1, <1>3
<1> QED
  BY <1>4, EmptySeq

LEMMA ListIsRight ==
    ASSUME Asked, NEW data \in Seq(Nat), WellFormed("multi", data), Len(data) > Len(cFrom)
    PROVE  Achieves(ReplaceInString("multi", data), "multi", data, Expected(data, cFrom, cTo, 1))
<1> DEFINE r == ReplacedInList(data, cFrom, cTo)
           goal == Expected(data, cFrom, cTo, 1)
           n == Len(data)
<1>1. /\ Texts(data, cFrom, cTo, 1) /\ cFrom # cTo /\ Len(cFrom) \in Nat \ {0} /\ NoNul(cFrom)
      /\ cFrom \in Seq(Nat) /\ cFrom # <<>> /\ n \in Nat
  BY AskedTexts DEF NoNul, Texts
<1>2. IsList(data)
  BY <1>1 DEF IsList, WellFormed
<1>3. PICK T : RestIs(T, data, cFrom, cTo, 1) /\ goal = T[1]
  BY <1>1, RestExists
<1>4. PICK L : ListLoop(L, data, cFrom, cTo) /\ r = L[ListAt(1, <<>>, FALSE)]
  BY <1>1, <1>2, ListLoopExists
<1>5. ReplaceInString("multi", data) = r
  BY DEF ReplaceInString
<1> HIDE DEF r, goal
<1>6. ListRight(r, T, data, cFrom, cTo, 1, <<>>, FALSE)
  BY <1>1, <1>2, <1>3, <1>4, ListLoopIsRight
<1>7. goal \in Seq(Nat) /\ <<>> \o goal = goal
  <2>1. goal \in Seq(Nat)
    BY <1>1, <1>3, RestType
  <2> QED
    BY <2>1, ConcatEmptySeq
<1>8. r.how = "same" => goal = data
  BY <1>3, <1>6, PartWhole, <1>1 DEF ListRight
<1>9. ASSUME r.how = "set"
      PROVE  /\ r.new \o <<0>> = goal /\ Len(r.new) < Cap
             /\ Len(goal) # n \/ \E p \in 1 .. Len(goal) - 1 : goal[p] # data[p]
  <2>1. r.new \o <<0>> = goal /\ Len(r.new) < Cap /\ Change(T, data, cFrom, cTo, 1)
    BY <1>3, <1>6, <1>7, <1>9 DEF ListRight
  <2>2. PICK i \in Nat \ {0} :
           /\ IsAt(cFrom, data, i)
           /\ \/ Len(goal) # n
              \/ \E p \in 1 .. i + Len(cFrom) - 1 : goal[p] # data[p]
    BY <1>1, <1>3, <2>1, ChangeIsSeen
  <2> DEFINE k == Len(cFrom)
             e == i + k - 1
  <2>3. e <= n /\ \A q \in 1 .. k : data[i + q - 1] = cFrom[q]
    BY <1>1, <2>2, TextIsThere
  <2>4. k \in 1 .. k /\ e \in Nat
    BY <1>1
  <2>5. data[e] # 0
    BY <1>1, <2>3, <2>4 DEF NoNul
  <2>6. e # n
    BY <1>2, <2>5, ListEnds
  <2>7. \A p \in 1 .. e : p \in 1 .. n - 1
    <3> HIDE DEF e, n
    <3> QED
      BY <1>1, <2>3, <2>4, <2>6
  <2> HIDE DEF e
  <2>8. Len(goal) # n \/ \E p \in 1 .. e : goal[p] # data[p]
    BY <2>2 DEF e
  <2> QED
    BY <2>1, <2>7, <2>8
<1>10. r \in Outcomes
  BY <1>6 DEF ListRight
<1>11. Achieves(r, "multi", data, goal)
  BY <1>7, <1>8, <1>9, <1>10 DEF Achieves
<1> QED
  BY <1>5, <1>11 DEF goal
-----------------------------------------------------------------------------
(* What is written for a value. *)

LEMMA FilledIs ==
    ASSUME cNewData \in [1 .. Cap -> Nat], NEW r \in Outcomes, NEW type
    PROVE  /\ Filled(r, type) \in [1 .. Cap -> Nat]
           /\ Filled(r, type) \in Seq(Nat) /\ Len(Filled(r, type)) = Cap
           /\ \A i \in 1 .. Cap : i <= Len(r.new) => Filled(r, type)[i] = r.new[i]
<1> DEFINE f == Filled(r, type)
<1>1. Cap \in Nat /\ r.new \in Seq(Nat) /\ Len(r.new) \in Nat
  BY DataAssumption DEF Outcomes
<1>2. \A i \in 1 .. Cap : i <= Len(r.new) => r.new[i] \in Nat
  BY <1>1, ElementOfSeq
<1>3. f = [i \in 1 .. Cap |->
              IF i <= Len(r.new) THEN r.new[i]
              ELSE IF type # "binary" /\ r.how = "big" /\ i = Len(r.new) + 1 /\ i > 1 THEN 0
              ELSE IF type = "multi" /\ r.how = "set" /\ i >= Cap - 1 THEN 0
              ELSE cNewData[i]]
  BY DEF Filled
<1> HIDE DEF f
<1>4. f \in [1 .. Cap -> Nat]
  BY <1>2, <1>3
<1>5. f \in Seq(Nat)
  BY <1>1, <1>4, SeqDef
<1>6. Len(f) = Cap
  BY <1>1, <1>4, <1>5
<1>7. \A i \in 1 .. Cap : i <= Len(r.new) => f[i] = r.new[i]
  BY <1>3
<1> QED
  BY <1>4, <1>5, <1>6, <1>7 DEF f

SameStrings(w, goal) == Len(w) = Len(goal) /\ \A i \in 1 .. Len(goal) - 1 : w[i] = goal[i]

LEMMA ListIsWritten ==
    ASSUME cNewData \in [1 .. Cap -> Nat], NEW r \in Outcomes, Len(r.new) < Cap, NEW goal \in Seq(Nat),
           r.new \o << 0 >> = goal
    PROVE  SameStrings(Written(r, "multi"), goal)
<1> DEFINE w == Written(r, "multi")
           f == Filled(r, "multi")
           n == Len(r.new)
<1>1. Cap \in Nat /\ r.new \in Seq(Nat) /\ n \in Nat /\ <<0>> \in Seq(Nat) /\ Len(<<0>>) = 1
  BY DataAssumption DEF Outcomes
<1>2. f \in Seq(Nat) /\ Len(f) = Cap /\ \A i \in 1 .. Cap : i <= n => f[i] = r.new[i]
  BY FilledIs
<1>3. w = Part(f, 1, n + 1)
  BY DEF Written
<1> HIDE DEF f, w
<1>4. Len(goal) = n + 1 /\ \A i \in 1 .. n : goal[i] = r.new[i]
  <2> DEFINE z == <<0>>
             s == r.new
  <2>1. s \in Seq(Nat) /\ z \in Seq(Nat) /\ Len(z) = 1 /\ goal = s \o z
    BY <1>1
  <2> HIDE DEF z, s
  <2>2. /\ Len(s \o z) = Len(s) + Len(z)
        /\ \A i \in 1 .. Len(s) + Len(z) : (s \o z)[i] = IF i <= Len(s) THEN s[i] ELSE z[i - Len(s)]
    BY <2>1, ConcatProperties
  <2>3. Len(goal) = Len(s) + 1 /\ \A i \in 1 .. Len(s) : goal[i] = s[i]
    BY <2>1, <2>2
  <2> QED
    BY <2>3 DEF s
<1>5. n + 1 \in 0 .. Len(f) /\ n + 1 \in Int
  BY <1>1, <1>2, SMTT(60)
<1>6. Len(w) = n + 1 /\ \A i \in 1 .. n + 1 : w[i] = f[i]
  BY <1>2, <1>3, <1>5, PartFirst
<1>7. \A i \in 1 .. n : i \in 1 .. n + 1 /\ i \in 1 .. Cap /\ i <= n
  BY <1>1
<1>8. \A i \in 1 .. n : w[i] = goal[i]
  BY <1>2, <1>4, <1>6, <1>7
<1>9. Len(goal) - 1 = n
  BY <1>1, <1>4
<1> QED
  BY <1>4, <1>6, <1>8, <1>9 DEF SameStrings, w

LEMMA WrittenIs ==
    ASSUME cNewData \in [1 .. Cap -> Nat], NEW r \in Outcomes, NEW type
    PROVE  Written(r, type) \in Seq(Nat)
<1>1. r.new \in Seq(Nat) /\ Filled(r, type) \in Seq(Nat) /\ 1 \in Nat \ {0}
  BY FilledIs DEF Outcomes
<1>2. Len(r.new) + 1 \in Int
  BY <1>1
<1> DEFINE f == Filled(r, type)
           b == Len(r.new) + 1
<1> HIDE DEF f, b
<1>3. Part(f, 1, b) \in Seq(Nat)
  BY <1>1, <1>2, PartIs DEF f, b
<1> QED
  BY <1>1, <1>3 DEF Written, f, b

LEMMA ReplacementIsRight ==
    ASSUME Asked, cNewData \in [1 .. Cap -> Nat], NEW v \in DOMAIN Type,
           original[v] \in Seq(Nat), WellFormed(Type[v], original[v]), LongEnough(original[v]),
           NEW r, r = ReplaceInString(Type[v], original[v])
    PROVE  /\ r \in Outcomes
           /\ r.how = "same" => Goal(v) = original[v]
           /\ r.how = "set" => /\ Goal(v) # original[v] /\ Written(r, Type[v]) # original[v]
                               /\ Alike(v, Written(r, Type[v]), Goal(v))
           /\ Written(r, Type[v]) \in Seq(Nat) /\ Filled(r, Type[v]) \in [1 .. Cap -> Nat]
<1> DEFINE data == original[v]
           narrow == Expected(data, cFrom, cTo, 1)
<1>1. Type[v] \in {"sz", "multi", "binary"}
  BY DataAssumption
<1>2. Goal(v) = IF Type[v] = "binary" /\ narrow = data
                THEN Expected(data, Wide(cFrom), Wide(cTo), 2) ELSE narrow
  BY DEF Goal
<1>3. Len(data) > Len(cFrom)
  BY DEF LongEnough
<1> HIDE DEF data, narrow
<1>4. Achieves(r, Type[v], data, Goal(v))
  <2>1. CASE Type[v] = "sz"
    BY <1>2, <1>3, <2>1, StringIsRight DEF data, narrow
  <2>2. CASE Type[v] = "multi"
    BY <1>2, <1>3, <2>2, ListIsRight DEF data, narrow
  <2>3. CASE Type[v] = "binary"
    <3>1. Goal(v) = IF narrow = data THEN Expected(data, Wide(cFrom), Wide(cTo), 2) ELSE narrow
      BY <1>2, <2>3
    <3> QED
      BY <2>3, <3>1, BinaryIsRight DEF data, narrow
  <2> QED
    BY <1>1, <2>1, <2>2, <2>3
<1> DEFINE goal == Goal(v)
           w == Written(r, Type[v])
<1>5. r \in Outcomes /\ goal \in Seq(Nat) /\ (r.how = "same" => goal = data)
  BY <1>4 DEF Achieves
<1>6. ASSUME r.how = "set" PROVE goal # data /\ w # data /\ Alike(v, w, goal)
  <2>1. CASE Type[v] = "multi"
    <3>1. /\ r.new \o <<0>> = goal /\ Len(r.new) < Cap
          /\ Len(goal) # Len(data) \/ \E p \in 1 .. Len(goal) - 1 : goal[p] # data[p]
      BY <1>4, <1>6, <2>1 DEF Achieves
    <3> HIDE DEF goal, w
    <3>2. Len(w) = Len(goal) /\ \A i \in 1 .. Len(goal) - 1 : w[i] = goal[i]
      <4>1. w = Written(r, "multi")
        BY <2>1 DEF w
      <4>2. SameStrings(w, goal)
        BY <1>5, <3>1, <4>1, ListIsWritten
      <4> QED
        BY <4>2 DEF SameStrings
    <3>3. Alike(v, w, goal)
      BY <2>1, <3>2 DEF Alike
    <3> QED
      BY <3>1, <3>2, <3>3
  <2>2. CASE Type[v] # "multi"
    <3>1. w = r.new /\ r.new = goal /\ goal # data
      BY <1>4, <1>6, <2>2 DEF Achieves, Written
    <3> HIDE DEF goal, w
    <3> QED
      BY <2>2, <3>1 DEF Alike
  <2> QED
    BY <2>1, <2>2
<1> QED
  BY <1>5, <1>6, FilledIs, WrittenIs DEF data
-----------------------------------------------------------------------------
(* The walk through the keys: the keys that it has come to, and the values that it
   is past, given the calls of DoSubKey. *)

Frames == [key : Keys, loop : {"values", "keys"}, index : Nat \ {0}]
Turned(s, f) == Append(SubSeq(s, 1, Len(s) - 1), f)

\* The loop over the values of a key is past the one with this index.
Behind(s, k, a) == \A j \in 1 .. Len(s) : s[j].key = k /\ s[j].loop = "values" => a < s[j].index
Past(D, s) ==
    {v \in DOMAIN Type : \E k \in D : \E a \in DOMAIN Vals[k] : v = Vals[k][a] /\ Behind(s, k, a)}

Walk(D, s) ==
    /\ D \in SUBSET Keys /\ Root \in D /\ s \in Seq(Frames)
    /\ \A j \in 1 .. Len(s) : s[j].key \in D
    /\ \A i, j \in 1 .. Len(s) : s[i].key = s[j].key => i = j
    /\ \A j \in 1 .. Len(s) : j < Len(s) => s[j].loop = "keys"
    /\ \A p \in Keys : \A a \in DOMAIN Sub[p] :
        Sub[p][a] \in D =>
            p \in D /\ \A j \in 1 .. Len(s) : s[j].key = p => s[j].loop = "keys" /\ a < s[j].index

\* No subkey has been left out.
Full(D, s) ==
    \A p \in D : \A a \in DOMAIN Sub[p] :
        Sub[p][a] \in D \/ \E j \in 1 .. Len(s) : s[j].key = p /\ (s[j].loop = "values" \/ s[j].index <= a)

LEMMA TreeFacts ==
    /\ \A k \in Keys : Sub[k] \in Seq(Keys) /\ Vals[k] \in Seq(DOMAIN Type)
    /\ \A k \in Keys : DOMAIN Sub[k] = 1 .. Len(Sub[k]) /\ DOMAIN Vals[k] = 1 .. Len(Vals[k])
    /\ \A k \in Keys : Len(Sub[k]) \in Nat /\ Len(Vals[k]) \in Nat
    /\ \A k \in Keys : \A a \in DOMAIN Sub[k] : Sub[k][a] \in Keys
    /\ \A k \in Keys : \A a \in DOMAIN Vals[k] : Vals[k][a] \in DOMAIN Type
    /\ \A j, k \in Keys : \A a \in DOMAIN Sub[j], b \in DOMAIN Sub[k] :
        Sub[j][a] = Sub[k][b] => j = k /\ a = b
    /\ \A j, k \in Keys : \A a \in DOMAIN Vals[j], b \in DOMAIN Vals[k] :
        Vals[j][a] = Vals[k][b] => j = k /\ a = b
<1>1. \A k \in Keys : Sub[k] \in Seq(Keys) /\ Vals[k] \in Seq(DOMAIN Type)
  BY TreeAssumption
<1>2. \A k \in Keys :
        /\ DOMAIN Sub[k] = 1 .. Len(Sub[k]) /\ DOMAIN Vals[k] = 1 .. Len(Vals[k])
        /\ Len(Sub[k]) \in Nat /\ Len(Vals[k]) \in Nat
  BY <1>1, LenProperties
<1>3. \A k \in Keys : \A a \in DOMAIN Sub[k] : Sub[k][a] \in Keys
  BY <1>1, <1>2, ElementOfSeq
<1>4. \A k \in Keys : \A a \in DOMAIN Vals[k] : Vals[k][a] \in DOMAIN Type
  BY <1>1, <1>2, ElementOfSeq
<1>5. Once(Sub) /\ Once(Vals)
  BY TreeAssumption
<1> QED
  BY <1>1, <1>2, <1>3, <1>4, <1>5 DEF Once

LEMMA PopIs ==
    ASSUME NEW s \in Seq(Frames), s # <<>>
    PROVE  LET t == SubSeq(s, 1, Len(s) - 1)
           IN  /\ t \in Seq(Frames) /\ Len(t) = Len(s) - 1 /\ Len(s) \in Nat \ {0}
               /\ \A j \in 1 .. Len(s) - 1 : t[j] = s[j]
<1> DEFINE m == Len(s) - 1
           t == SubSeq(s, 1, m)
<1>1. Len(s) \in Nat \ {0} /\ 1 \in Int /\ m \in Int /\ m \in Nat
  BY EmptySeq
<1>2. \A i \in 1 .. m : s[i] \in Frames
  BY <1>1, ElementOfSeq
<1>3. /\ t \in Seq(Frames) /\ Len(t) = (IF 1 <= m THEN m - 1 + 1 ELSE 0)
      /\ \A i \in 1 .. m - 1 + 1 : t[i] = s[1 + i - 1]
  <2> HIDE DEF m
  <2> QED
    BY <1>1, <1>2, SubSeqProperties
<1>4. Len(t) = m /\ \A j \in 1 .. m : t[j] = s[j]
  <2> HIDE DEF m, t
  <2> QED
    BY <1>1, <1>3
<1> QED
  BY <1>1, <1>3, <1>4

LEMMA TurnedIs ==
    ASSUME NEW s \in Seq(Frames), s # <<>>, NEW f \in Frames
    PROVE  /\ Turned(s, f) \in Seq(Frames) /\ Len(Turned(s, f)) = Len(s) /\ Len(s) \in Nat \ {0}
           /\ \A j \in 1 .. Len(s) : Turned(s, f)[j] = IF j = Len(s) THEN f ELSE s[j]
<1> DEFINE n == Len(s)
           b == SubSeq(s, 1, n - 1)
           t == Append(b, f)
<1>1. b \in Seq(Frames) /\ Len(b) = n - 1 /\ n \in Nat \ {0} /\ \A j \in 1 .. n - 1 : b[j] = s[j]
  BY PopIs
<1> HIDE DEF b
<1>2. t \in Seq(Frames) /\ Len(t) = Len(b) + 1 /\ t[Len(b) + 1] = f
      /\ \A j \in 1 .. Len(b) : t[j] = b[j]
  BY <1>1, AppendProperties
<1> HIDE DEF t, n
<1>3. Len(t) = n /\ \A j \in 1 .. n : t[j] = IF j = n THEN f ELSE s[j]
  BY <1>1, <1>2
<1> QED
  BY <1>1, <1>2, <1>3 DEF Turned, t, b, n

Pushed(t, s, f, g) ==
    /\ t \in Seq(Frames) /\ Len(t) = Len(s) + 1 /\ Len(s) \in Nat \ {0}
    /\ \A j \in 1 .. Len(s) + 1 : t[j] = IF j = Len(s) + 1 THEN g ELSE IF j = Len(s) THEN f ELSE s[j]

LEMMA PushedIs ==
    ASSUME NEW s \in Seq(Frames), s # <<>>, NEW f \in Frames, NEW g \in Frames
    PROVE  Pushed(Append(Turned(s, f), g), s, f, g)
<1> DEFINE n == Len(s)
           b == Turned(s, f)
           t == Append(b, g)
<1>1. /\ b \in Seq(Frames) /\ Len(b) = n /\ n \in Nat \ {0}
      /\ \A j \in 1 .. n : b[j] = IF j = n THEN f ELSE s[j]
  BY TurnedIs
<1> HIDE DEF b
<1>2. t \in Seq(Frames) /\ Len(t) = Len(b) + 1 /\ t[Len(b) + 1] = g
      /\ \A j \in 1 .. Len(b) : t[j] = b[j]
  BY <1>1, AppendProperties
<1> HIDE DEF t, n
<1>3. Len(t) = n + 1 /\ \A j \in 1 .. n + 1 : t[j] = IF j = n + 1 THEN g ELSE IF j = n THEN f ELSE s[j]
  BY <1>1, <1>2
<1> QED
  BY <1>1, <1>2, <1>3 DEF Pushed, t, b, n
-----------------------------------------------------------------------------
(* The steps of the walk. *)

LEMMA NextValue ==
    ASSUME NEW D, NEW s, Walk(D, s), s # <<>>, NEW n, n = Len(s), s[n].loop = "values",
           NEW k, k = s[n].key, NEW i, i = s[n].index, i <= Len(Vals[k]),
           NEW f \in Frames, f.key = k, f.loop = "values", f.index = i + 1
    PROVE  /\ Walk(D, Turned(s, f)) /\ (Full(D, s) => Full(D, Turned(s, f)))
           /\ Vals[k][i] \in DOMAIN Type /\ Vals[k][i] \notin Past(D, s)
           /\ Past(D, Turned(s, f)) = Past(D, s) \cup {Vals[k][i]}
<1> DEFINE t == Turned(s, f)
           v == Vals[k][i]
<1>1. /\ D \in SUBSET Keys /\ Root \in D /\ s \in Seq(Frames)
      /\ \A j \in 1 .. n : s[j].key \in D
      /\ \A h, j \in 1 .. n : s[h].key = s[j].key => h = j
      /\ \A j \in 1 .. n : j < n => s[j].loop = "keys"
      /\ \A p \in Keys : \A a \in DOMAIN Sub[p] :
          Sub[p][a] \in D =>
              p \in D /\ \A j \in 1 .. n : s[j].key = p => s[j].loop = "keys" /\ a < s[j].index
  BY DEF Walk
<1>2. /\ t \in Seq(Frames) /\ Len(t) = n /\ n \in Nat \ {0}
      /\ \A j \in 1 .. n : t[j] = IF j = n THEN f ELSE s[j]
  <2>1. s \in Seq(Frames)
    BY <1>1
  <2>2. /\ Turned(s, f) \in Seq(Frames) /\ Len(Turned(s, f)) = Len(s) /\ Len(s) \in Nat \ {0}
        /\ \A j \in 1 .. Len(s) : Turned(s, f)[j] = IF j = Len(s) THEN f ELSE s[j]
    BY <2>1, TurnedIs
  <2> QED
    BY <2>2
<1>3. n \in 1 .. n /\ s[n] \in Frames /\ k \in D /\ k \in Keys /\ i \in Nat \ {0}
  <2>1. n \in 1 .. n
    BY <1>2
  <2>2. s[n] \in Frames
    BY <1>1, <2>1, ElementOfSeq
  <2> QED
    BY <1>1, <2>1, <2>2 DEF Frames
<1> HIDE DEF t
<1>4. Walk(D, t)
  <2>1. \A j \in 1 .. n : t[j].key = s[j].key /\ t[j].loop = s[j].loop
    BY <1>2, <1>3
  <2>2. \A j \in 1 .. n : t[j].loop = "keys" => t[j].index = s[j].index
    BY <1>2
  <2> QED
    BY <1>1, <1>2, <2>1, <2>2 DEF Walk
<1>5. Full(D, s) => Full(D, t)
  <2>1. \A j \in 1 .. n : t[j].key = s[j].key /\ t[j].loop = s[j].loop
    BY <1>2, <1>3
  <2>2. \A j \in 1 .. n : t[j].loop = "keys" => t[j].index = s[j].index
    BY <1>2
  <2>3. \A j \in 1 .. n : s[j].loop = "values" \/ s[j].loop = "keys"
    <3>1. \A j \in 1 .. n : s[j] \in Frames
      BY <1>1, ElementOfSeq
    <3> QED
      BY <3>1 DEF Frames
  <2> QED
    BY <1>2, <2>1, <2>2, <2>3 DEF Full
<1>6. i \in DOMAIN Vals[k] /\ v \in DOMAIN Type
  BY <1>3, TreeFacts
<1>7. \A p, a : Behind(s, p, a) <=> (p = k => a < i)
  <2>1. \A p, a : \A j \in 1 .. n : s[j].key = p /\ s[j].loop = "values" <=> p = k /\ j = n
    BY <1>1, <1>2, <1>3
  <2> QED
    BY <1>3, <2>1 DEF Behind
<1>8. \A p, a : Behind(t, p, a) <=> (p = k => a < i + 1)
  <2>1. \A p, a : \A j \in 1 .. n : t[j].key = p /\ t[j].loop = "values" <=> p = k /\ j = n
    BY <1>1, <1>2, <1>3
  <2>2. t[n] = f /\ n \in 1 .. n /\ Len(t) = n
    BY <1>2, <1>3
  <2> QED
    BY <2>1, <2>2 DEF Behind
<1>9. v \notin Past(D, s)
  <2> SUFFICES ASSUME v \in Past(D, s) PROVE FALSE
    OBVIOUS
  <2>1. PICK p \in D : \E a \in DOMAIN Vals[p] : v = Vals[p][a] /\ Behind(s, p, a)
    BY DEF Past
  <2>2. PICK a \in DOMAIN Vals[p] : v = Vals[p][a] /\ Behind(s, p, a)
    BY <2>1
  <2>3. p = k /\ a = i
    BY <1>1, <1>3, <1>6, <2>2, TreeFacts
  <2> QED
    BY <1>3, <1>7, <2>2, <2>3
<1>10. ASSUME NEW x PROVE x \in Past(D, t) <=> x \in Past(D, s) \/ x = v
  <2>1. ASSUME x \in Past(D, t) PROVE x \in Past(D, s) \/ x = v
    <3>1. PICK p \in D : \E a \in DOMAIN Vals[p] : x = Vals[p][a] /\ Behind(t, p, a)
      BY <2>1 DEF Past
    <3>2. PICK a \in DOMAIN Vals[p] : x = Vals[p][a] /\ Behind(t, p, a)
      BY <3>1
    <3>3. a \in Nat
      BY <1>1, TreeFacts
    <3>4. p # k \/ a < i \/ a = i
      BY <1>3, <1>8, <3>2, <3>3
    <3>5. (p = k /\ a = i) \/ Behind(s, p, a)
      BY <1>7, <3>4
    <3> QED
      BY <2>1, <3>2, <3>5 DEF Past
  <2>2. ASSUME x \in Past(D, s) PROVE x \in Past(D, t)
    <3>1. PICK p \in D : \E a \in DOMAIN Vals[p] : x = Vals[p][a] /\ Behind(s, p, a)
      BY <2>2 DEF Past
    <3>2. PICK a \in DOMAIN Vals[p] : x = Vals[p][a] /\ Behind(s, p, a)
      BY <3>1
    <3>3. a \in Nat
      BY <1>1, TreeFacts
    <3>4. Behind(t, p, a)
      BY <1>3, <1>7, <1>8, <3>2, <3>3
    <3> QED
      BY <2>2, <3>2, <3>4 DEF Past
  <2>3. ASSUME x = v PROVE x \in Past(D, t)
    <3>1. Behind(t, k, i)
      BY <1>3, <1>8
    <3> QED
      BY <1>3, <1>6, <2>3, <3>1 DEF Past
  <2> QED
    BY <2>1, <2>2, <2>3
<1>11. Past(D, t) = Past(D, s) \cup {v}
  BY <1>10
<1> QED
  BY <1>4, <1>5, <1>6, <1>9, <1>11 DEF t

\* The call at the top is for key k and at index i.
OnTop(D, s, n, k, i, loop) ==
    /\ Walk(D, s) /\ s # <<>> /\ n = Len(s)
    /\ k = s[n].key /\ i = s[n].index /\ s[n].loop = loop

LEMMA TopFacts ==
    ASSUME NEW D, NEW s, NEW n, NEW k, NEW i, NEW loop, OnTop(D, s, n, k, i, loop)
    PROVE  /\ D \in SUBSET Keys /\ Root \in D /\ s \in Seq(Frames) /\ n = Len(s)
           /\ n \in Nat \ {0} /\ n \in 1 .. n /\ k \in D /\ k \in Keys /\ i \in Nat \ {0}
           /\ s[n].key = k /\ s[n].index = i /\ s[n].loop = loop
           /\ \A j \in 1 .. n : s[j].key \in D /\ s[j].index \in Nat \ {0}
           /\ \A j \in 1 .. n : s[j].key = k <=> j = n
           /\ \A h, j \in 1 .. n : s[h].key = s[j].key => h = j
           /\ \A j \in 1 .. n : j < n => s[j].loop = "keys"
           /\ \A p \in Keys : \A a \in DOMAIN Sub[p] :
                Sub[p][a] \in D =>
                    p \in D /\ \A j \in 1 .. n : s[j].key = p => s[j].loop = "keys" /\ a < s[j].index
<1>1. /\ D \in SUBSET Keys /\ Root \in D /\ s \in Seq(Frames) /\ s # <<>> /\ n = Len(s)
      /\ s[n].key = k /\ s[n].index = i /\ s[n].loop = loop
      /\ \A j \in 1 .. n : s[j].key \in D
      /\ \A h, j \in 1 .. n : s[h].key = s[j].key => h = j
      /\ \A j \in 1 .. n : j < n => s[j].loop = "keys"
      /\ \A p \in Keys : \A a \in DOMAIN Sub[p] :
            Sub[p][a] \in D =>
                p \in D /\ \A j \in 1 .. n : s[j].key = p => s[j].loop = "keys" /\ a < s[j].index
  BY DEF OnTop, Walk
<1>2. n \in Nat \ {0} /\ n \in 1 .. n
  <2>1. n \in Nat \ {0}
    BY <1>1, EmptySeq
  <2> QED
    BY <2>1
<1>3. \A j \in 1 .. n : s[j].index \in Nat \ {0}
  <2>1. \A j \in 1 .. n : s[j] \in Frames
    BY <1>1, ElementOfSeq
  <2> QED
    BY <2>1 DEF Frames
<1>4. k \in D /\ k \in Keys /\ i \in Nat \ {0}
  BY <1>1, <1>2, <1>3
<1>5. \A j \in 1 .. n : s[j].key = k <=> j = n
  BY <1>1, <1>2
<1> QED
  BY <1>1, <1>2, <1>3, <1>4, <1>5

\* A turn at the top that leaves the key alone.
LEMMA TurnAtTop ==
    ASSUME NEW D, NEW s, NEW n, NEW k, NEW i, NEW loop, OnTop(D, s, n, k, i, loop),
           NEW f \in Frames, f.key = k
    PROVE  /\ Turned(s, f) \in Seq(Frames) /\ Len(Turned(s, f)) = n
           /\ \A j \in 1 .. n : Turned(s, f)[j] = IF j = n THEN f ELSE s[j]
           /\ \A j \in 1 .. n : Turned(s, f)[j].key = s[j].key
<1> DEFINE t == Turned(s, f)
<1>1. /\ s \in Seq(Frames) /\ s # <<>> /\ n = Len(s) /\ s[n].key = k
  BY DEF OnTop, Walk
<1>2. /\ t \in Seq(Frames) /\ Len(t) = Len(s) /\ Len(s) \in Nat \ {0}
      /\ \A j \in 1 .. Len(s) : t[j] = IF j = Len(s) THEN f ELSE s[j]
  BY <1>1, TurnedIs
<1> HIDE DEF t
<1>3. \A j \in 1 .. n : t[j].key = s[j].key
  BY <1>1, <1>2
<1> QED
  BY <1>1, <1>2, <1>3 DEF t

LEMMA NoValuesAtTop ==
    ASSUME NEW D, NEW s, NEW n, NEW k, NEW i, OnTop(D, s, n, k, i, "keys")
    PROVE  \A p, a : Behind(s, p, a)
<1>1. \A j \in 1 .. n : s[j].loop = "keys"
  BY TopFacts
<1> QED
  BY <1>1 DEF Behind, OnTop

LEMMA ToKeys ==
    ASSUME NEW D, NEW s, NEW n, NEW k, NEW i, OnTop(D, s, n, k, i, "values"),
           NEW f \in Frames, f.key = k, f.loop = "keys", f.index = 1
    PROVE  /\ Walk(D, Turned(s, f)) /\ (Full(D, s) => Full(D, Turned(s, f)))
           /\ Past(D, s) \subseteq Past(D, Turned(s, f))
           /\ i > Len(Vals[k]) => Past(D, Turned(s, f)) = Past(D, s)
           /\ i <= Len(Vals[k]) => \E v \in Past(D, Turned(s, f)) : v \notin Past(D, s)
<1> DEFINE t == Turned(s, f)
<1>1. /\ D \in SUBSET Keys /\ Root \in D /\ n = Len(s) /\ n \in Nat \ {0} /\ n \in 1 .. n
      /\ k \in D /\ k \in Keys /\ i \in Nat \ {0}
      /\ s[n].index = i /\ s[n].loop = "values"
      /\ \A j \in 1 .. n : s[j].key \in D
      /\ \A j \in 1 .. n : s[j].key = k <=> j = n
      /\ \A h, j \in 1 .. n : s[h].key = s[j].key => h = j
      /\ \A j \in 1 .. n : j < n => s[j].loop = "keys"
      /\ \A p \in Keys : \A a \in DOMAIN Sub[p] :
            Sub[p][a] \in D =>
                p \in D /\ \A j \in 1 .. n : s[j].key = p => s[j].loop = "keys" /\ a < s[j].index
  BY TopFacts
<1>2. /\ t \in Seq(Frames) /\ Len(t) = n
      /\ \A j \in 1 .. n : t[j] = IF j = n THEN f ELSE s[j]
      /\ \A j \in 1 .. n : t[j].key = s[j].key
  BY TurnAtTop
<1> HIDE DEF t
<1>3. \A j \in 1 .. n : t[j].loop = "keys"
  BY <1>1, <1>2
<1>4. \A p \in Keys : \A a \in DOMAIN Sub[p] :
        Sub[p][a] \in D => \A j \in 1 .. n : t[j].key = p => j # n /\ a < t[j].index
  BY <1>1, <1>2
<1>5. Walk(D, t)
  BY <1>1, <1>2, <1>3, <1>4 DEF Walk
<1>6. ASSUME Full(D, s) PROVE Full(D, t)
  <2> SUFFICES ASSUME NEW p \in D, NEW a \in DOMAIN Sub[p], Sub[p][a] \notin D
               PROVE  \E j \in 1 .. n : t[j].key = p /\ (t[j].loop = "values" \/ t[j].index <= a)
    BY <1>2 DEF Full
  <2>1. PICK j \in 1 .. n : s[j].key = p /\ (s[j].loop = "values" \/ s[j].index <= a)
    BY <1>1, <1>6 DEF Full
  <2>2. a \in Nat /\ 1 <= a
    BY <1>1, TreeFacts
  <2>3. CASE j = n
    BY <1>2, <2>1, <2>2, <2>3
  <2>4. CASE j # n
    <3>1. t[j] = s[j] /\ s[j].loop = "keys"
      BY <1>1, <1>2, <2>4
    <3> QED
      BY <2>1, <3>1
  <2> QED
    BY <2>3, <2>4
<1>7. \A p, a : Behind(t, p, a)
  BY <1>2, <1>3 DEF Behind
<1>8. \A p, a : p # k \/ a < i => Behind(s, p, a)
  BY <1>1 DEF Behind
<1>9. Past(D, s) \subseteq Past(D, t)
  BY <1>7 DEF Past
<1>10. ASSUME i > Len(Vals[k]) PROVE Past(D, t) \subseteq Past(D, s)
  <2>1. \A a \in DOMAIN Vals[k] : a < i
    BY <1>1, <1>10, TreeFacts
  <2>2. \A p \in D : \A a \in DOMAIN Vals[p] : Behind(s, p, a)
    BY <1>8, <2>1
  <2> QED
    BY <2>2 DEF Past
<1>11. ASSUME i <= Len(Vals[k]) PROVE \E v \in Past(D, t) : v \notin Past(D, s)
  <2> DEFINE g == [key |-> k, loop |-> "values", index |-> i + 1]
             v == Vals[k][i]
  <2>1. g \in Frames /\ g.key = k /\ g.loop = "values" /\ g.index = i + 1
    BY <1>1 DEF Frames
  <2> HIDE DEF g
  <2>2. v \notin Past(D, s)
    BY <1>11, <2>1, NextValue DEF OnTop
  <2>3. i \in DOMAIN Vals[k]
    BY <1>1, <1>11, TreeFacts
  <2>4. v \in DOMAIN Type
    BY <1>1, <2>3, TreeFacts
  <2>5. v \in Past(D, t)
    BY <1>1, <1>7, <2>3, <2>4 DEF Past
  <2> QED
    BY <2>2, <2>5
<1> QED
  BY <1>5, <1>6, <1>9, <1>10, <1>11 DEF t

\* The next subkey has not been there.
LEMMA NewKey ==
    ASSUME NEW D, NEW s, NEW n, NEW k, NEW i, OnTop(D, s, n, k, i, "keys"), i <= Len(Sub[k])
    PROVE  /\ i \in DOMAIN Sub[k] /\ Sub[k][i] \in Keys /\ Sub[k][i] \notin D
           /\ \A p \in Keys : \A a \in DOMAIN Sub[p] :
                Sub[p][a] \in D \cup {Sub[k][i]} =>
                    /\ p \in D
                    /\ (p = k /\ a = i) \/ (Sub[p][a] \in D /\ \A j \in 1 .. n :
                                                s[j].key = p => s[j].loop = "keys" /\ a < s[j].index)
<1> DEFINE c == Sub[k][i]
<1>1. /\ D \in SUBSET Keys /\ n \in 1 .. n /\ k \in D /\ k \in Keys /\ i \in Nat \ {0}
      /\ s[n].key = k /\ s[n].index = i
      /\ \A p \in Keys : \A a \in DOMAIN Sub[p] :
            Sub[p][a] \in D =>
                p \in D /\ \A j \in 1 .. n : s[j].key = p => s[j].loop = "keys" /\ a < s[j].index
  BY TopFacts
<1>2. i \in DOMAIN Sub[k] /\ c \in Keys
  BY <1>1, TreeFacts
<1>3. c \notin D
  BY <1>1, <1>2
<1>4. \A p \in Keys : \A a \in DOMAIN Sub[p] : Sub[p][a] = c => p = k /\ a = i
  BY <1>1, <1>2, TreeFacts
<1> QED
  BY <1>1, <1>2, <1>3, <1>4

LEMMA SkipKey ==
    ASSUME NEW D, NEW s, NEW n, NEW k, NEW i, OnTop(D, s, n, k, i, "keys"), i <= Len(Sub[k]),
           NEW f \in Frames, f.key = k, f.loop = "keys", f.index = i + 1
    PROVE  /\ Sub[k][i] \in Keys /\ Sub[k][i] \notin D /\ Walk(D \cup {Sub[k][i]}, Turned(s, f))
           /\ Past(D, s) \subseteq Past(D \cup {Sub[k][i]}, Turned(s, f))
<1> DEFINE t == Turned(s, f)
           c == Sub[k][i]
           E == D \cup {c}
<1>1. /\ D \in SUBSET Keys /\ Root \in D /\ n = Len(s) /\ n \in Nat \ {0} /\ n \in 1 .. n
      /\ k \in D /\ k \in Keys /\ i \in Nat \ {0} /\ s[n].index = i /\ s[n].loop = "keys"
      /\ \A j \in 1 .. n : s[j].key \in D
      /\ \A j \in 1 .. n : s[j].key = k <=> j = n
      /\ \A h, j \in 1 .. n : s[h].key = s[j].key => h = j
      /\ \A j \in 1 .. n : j < n => s[j].loop = "keys"
  BY TopFacts
<1>2. /\ t \in Seq(Frames) /\ Len(t) = n
      /\ \A j \in 1 .. n : t[j] = IF j = n THEN f ELSE s[j]
      /\ \A j \in 1 .. n : t[j].key = s[j].key
  BY TurnAtTop
<1>3. /\ i \in DOMAIN Sub[k] /\ c \in Keys /\ c \notin D
      /\ \A p \in Keys : \A a \in DOMAIN Sub[p] :
            Sub[p][a] \in E =>
                /\ p \in D
                /\ (p = k /\ a = i) \/ (Sub[p][a] \in D /\ \A j \in 1 .. n :
                                            s[j].key = p => s[j].loop = "keys" /\ a < s[j].index)
  BY NewKey
<1> HIDE DEF t, c
<1>4. \A j \in 1 .. n : t[j].loop = "keys"
  BY <1>1, <1>2
<1>5. ASSUME NEW p \in Keys, NEW a \in DOMAIN Sub[p], Sub[p][a] \in E, NEW j \in 1 .. n, t[j].key = p
      PROVE  a < t[j].index
  <2>1. a \in Nat
    BY TreeFacts
  <2>2. CASE j = n
    BY <1>1, <1>2, <1>3, <1>5, <2>1, <2>2
  <2>3. CASE j # n
    BY <1>1, <1>2, <1>3, <1>5, <2>3
  <2> QED
    BY <2>2, <2>3
<1>6. Walk(E, t)
  BY <1>1, <1>2, <1>3, <1>4, <1>5 DEF Walk
<1>7. \A p, a : Behind(t, p, a)
  BY <1>2, <1>4 DEF Behind
<1>8. Past(D, s) \subseteq Past(E, t)
  BY <1>7 DEF Past
<1> QED
  BY <1>3, <1>6, <1>8 DEF t, c

\* The walk has come to key c, and the calls are now t.
Entered(D, s, c, t) ==
    /\ Walk(D \cup {c}, t)
    /\ Full(D, s) => Full(D \cup {c}, t)
    /\ Past(D \cup {c}, t) = Past(D, s)

LEMMA IntoKey ==
    ASSUME NEW D, NEW s, NEW n, NEW k, NEW i, OnTop(D, s, n, k, i, "keys"), i <= Len(Sub[k]),
           NEW f \in Frames, f.key = k, f.loop = "keys", f.index = i + 1,
           NEW g \in Frames, g.key = Sub[k][i], g.loop = "values", g.index = 1
    PROVE  Entered(D, s, Sub[k][i], Append(Turned(s, f), g))
<1> DEFINE t == Append(Turned(s, f), g)
           c == Sub[k][i]
           E == D \cup {c}
           m == n + 1
<1>1. /\ D \in SUBSET Keys /\ Root \in D /\ s \in Seq(Frames) /\ n = Len(s) /\ n \in Nat \ {0}
      /\ n \in 1 .. n /\ s # <<>>
      /\ k \in D /\ k \in Keys /\ i \in Nat \ {0} /\ s[n].index = i /\ s[n].loop = "keys"
      /\ \A j \in 1 .. n : s[j].key \in D
      /\ \A j \in 1 .. n : s[j].key = k <=> j = n
      /\ \A h, j \in 1 .. n : s[h].key = s[j].key => h = j
      /\ \A j \in 1 .. n : j < n => s[j].loop = "keys"
  BY TopFacts DEF OnTop
<1>2. /\ t \in Seq(Frames) /\ Len(t) = m
      /\ \A j \in 1 .. m : t[j] = IF j = m THEN g ELSE IF j = n THEN f ELSE s[j]
  <2>1. /\ t \in Seq(Frames) /\ Len(t) = Len(s) + 1
        /\ \A j \in 1 .. Len(s) + 1 :
             t[j] = IF j = Len(s) + 1 THEN g ELSE IF j = Len(s) THEN f ELSE s[j]
    <3>1. s \in Seq(Frames) /\ s # <<>>
      BY <1>1
    <3>2. Pushed(t, s, f, g)
      BY <3>1, PushedIs
    <3> QED
      BY <3>2 DEF Pushed
  <2> HIDE DEF t
  <2> QED
    BY <1>1, <2>1
<1>3. /\ i \in DOMAIN Sub[k] /\ c \in Keys /\ c \notin D
      /\ \A p \in Keys : \A a \in DOMAIN Sub[p] :
            Sub[p][a] \in E =>
                /\ p \in D
                /\ (p = k /\ a = i) \/ (Sub[p][a] \in D /\ \A j \in 1 .. n :
                                            s[j].key = p => s[j].loop = "keys" /\ a < s[j].index)
  BY NewKey
<1> HIDE DEF t, c
<1>m. m \in 1 .. m /\ \A j \in 1 .. m : j = m \/ (j \in 1 .. n /\ j # m)
  BY <1>1
<1> HIDE DEF m
<1>4. /\ t[m] = g
      /\ \A j \in 1 .. n : j \in 1 .. m /\ t[j].key = s[j].key /\ t[j].loop = "keys"
                           /\ (j # n => t[j].index = s[j].index) /\ (j = n => t[j].index = i + 1)
  <2>1. \A j \in 1 .. n : j \in 1 .. m /\ j # m
    BY <1>1 DEF m
  <2>2. \A j \in 1 .. n : t[j] = IF j = n THEN f ELSE s[j]
    BY <1>2, <2>1
  <2>3. t[m] = g
    BY <1>2, <1>m
  <2> QED
    BY <1>1, <2>1, <2>2, <2>3
<1>5. \A j \in 1 .. m : t[j].key \in E /\ (t[j].key = c <=> j = m)
  BY <1>1, <1>3, <1>4, <1>m DEF c
<1>6. \A h, j \in 1 .. m : t[h].key = t[j].key => h = j
  BY <1>1, <1>4, <1>5, <1>m
<1>7. \A j \in 1 .. m : j < m => t[j].loop = "keys"
  BY <1>4, <1>m
<1>8. ASSUME NEW p \in Keys, NEW a \in DOMAIN Sub[p], Sub[p][a] \in E, NEW j \in 1 .. m, t[j].key = p
      PROVE  t[j].loop = "keys" /\ a < t[j].index
  <2>1. a \in Nat
    BY TreeFacts
  <2>2. p \in D
    BY <1>3, <1>8
  <2>3. j \in 1 .. n /\ s[j].key = p /\ t[j].loop = "keys"
    BY <1>3, <1>4, <1>5, <1>8, <1>m, <2>2
  <2>4. CASE j = n
    BY <1>1, <1>3, <1>4, <1>8, <2>1, <2>3, <2>4
  <2>5. CASE j # n
    BY <1>1, <1>3, <1>4, <1>8, <2>3, <2>5
  <2> QED
    BY <2>3, <2>4, <2>5
<1>9. Walk(E, t)
  BY <1>1, <1>2, <1>3, <1>5, <1>6, <1>7, <1>8 DEF Walk
<1>10. ASSUME Full(D, s) PROVE Full(E, t)
  <2> SUFFICES ASSUME NEW p \in E, NEW a \in DOMAIN Sub[p], Sub[p][a] \notin E
               PROVE  \E j \in 1 .. m : t[j].key = p /\ (t[j].loop = "values" \/ t[j].index <= a)
    BY <1>2 DEF Full
  <2>0. a \in Nat
    <3>1. p \in Keys
      BY <1>1, <1>3
    <3> QED
      BY <3>1, TreeFacts, SMTT(60)
  <2>1. CASE p = c
    <3>1. t[m].key = p /\ t[m].loop = "values"
      BY <1>4, <2>1 DEF c
    <3> QED
      BY <1>m, <3>1
  <2>2. CASE p \in D
    <3>1. PICK j \in 1 .. n : s[j].key = p /\ (s[j].loop = "values" \/ s[j].index <= a)
      BY <1>1, <1>10, <2>2 DEF Full
    <3>2. CASE j = n
      <4>1. a # i
        BY <1>1, <3>1, <3>2 DEF c
      <4>2. i <= a
        BY <1>1, <3>1, <3>2
      <4>3. t[j].index <= a /\ t[j].key = p
        BY <1>1, <1>4, <2>0, <3>1, <3>2, <4>1, <4>2
      <4> QED
        BY <1>4, <4>3
    <3>3. CASE j # n
      <4>1. s[j].loop = "keys"
        <5>1. j < n
          BY <1>1, <3>3
        <5> QED
          BY <1>1, <5>1
      <4> QED
        BY <1>4, <3>1, <3>3, <4>1
    <3> QED
      BY <3>2, <3>3
  <2> QED
    BY <2>1, <2>2
<1>11. \A p, a : Behind(s, p, a)
  BY NoValuesAtTop
<1>12. \A p \in D : \A a : Behind(t, p, a)
  BY <1>2, <1>3, <1>5, <1>7, <1>4, <1>m DEF Behind
<1>13. \A a \in DOMAIN Vals[c] : ~ Behind(t, c, a)
  <2> SUFFICES ASSUME NEW a \in DOMAIN Vals[c], Behind(t, c, a) PROVE FALSE
    OBVIOUS
  <2>1. a \in Nat /\ a >= 1
    BY <1>3, TreeFacts
  <2>2. t[m].key = c /\ t[m].loop = "values" /\ t[m].index = 1
    BY <1>4 DEF c
  <2>3. a < 1
    BY <1>2, <1>m, <2>2 DEF Behind
  <2> QED
    BY <2>1, <2>3
<1>14. Past(E, t) = Past(D, s)
  BY <1>11, <1>12, <1>13 DEF Past
<1> QED
  BY <1>9, <1>10, <1>14 DEF t, c, Entered

\* DoSubKey returns.
Popped(t, s) == t = SubSeq(s, 1, Len(s) - 1)

LEMMA OutOfKey ==
    ASSUME NEW D, NEW s, NEW n, NEW k, NEW i, OnTop(D, s, n, k, i, "keys"),
           NEW t, Popped(t, s)
    PROVE  /\ i > Len(Sub[k]) =>
                Walk(D, t) /\ (Full(D, s) => Full(D, t)) /\ Past(D, t) = Past(D, s)
           /\ i <= Len(Sub[k]) =>
                /\ Sub[k][i] \in Keys /\ Sub[k][i] \notin D /\ Walk(D \cup {Sub[k][i]}, t)
                /\ Past(D, s) \subseteq Past(D \cup {Sub[k][i]}, t)
<1> DEFINE m == n - 1
<1>1. /\ D \in SUBSET Keys /\ Root \in D /\ s \in Seq(Frames) /\ n = Len(s) /\ n \in Nat \ {0}
      /\ n \in 1 .. n /\ s # <<>>
      /\ k \in D /\ k \in Keys /\ i \in Nat \ {0} /\ s[n].index = i /\ s[n].loop = "keys" /\ s[n].key = k
      /\ \A j \in 1 .. n : s[j].key \in D
      /\ \A j \in 1 .. n : s[j].key = k <=> j = n
      /\ \A h, j \in 1 .. n : s[h].key = s[j].key => h = j
      /\ \A j \in 1 .. n : j < n => s[j].loop = "keys"
      /\ \A p \in Keys : \A a \in DOMAIN Sub[p] :
            Sub[p][a] \in D =>
                p \in D /\ \A j \in 1 .. n : s[j].key = p => s[j].loop = "keys" /\ a < s[j].index
  BY TopFacts DEF OnTop
<1>2. /\ t \in Seq(Frames) /\ Len(t) = m /\ \A j \in 1 .. m : t[j] = s[j] /\ j \in 1 .. n /\ j < n
  <2>1. t \in Seq(Frames) /\ Len(t) = Len(s) - 1 /\ \A j \in 1 .. Len(s) - 1 : t[j] = s[j]
    BY <1>1, PopIs DEF Popped
  <2>2. \A j \in 1 .. m : j \in 1 .. n /\ j < n
    BY <1>1
  <2> QED
    BY <1>1, <2>1, <2>2
<1>3. \A j \in 1 .. n : j = n \/ j \in 1 .. m
  BY <1>1
<1> HIDE DEF m
<1>4. \A j \in 1 .. m : t[j].loop = "keys"
  BY <1>1, <1>2
<1>5. \A p, a : Behind(s, p, a) /\ Behind(t, p, a)
  BY <1>2, <1>4, NoValuesAtTop DEF Behind
<1>6. ASSUME i > Len(Sub[k])
      PROVE  Walk(D, t) /\ (Full(D, s) => Full(D, t)) /\ Past(D, t) = Past(D, s)
  <2>1. Walk(D, t)
    BY <1>1, <1>2, <1>4 DEF Walk
  <2>2. ASSUME Full(D, s) PROVE Full(D, t)
    <3> SUFFICES ASSUME NEW p \in D, NEW a \in DOMAIN Sub[p], Sub[p][a] \notin D
                 PROVE  \E j \in 1 .. m : t[j].key = p /\ (t[j].loop = "values" \/ t[j].index <= a)
      BY <1>2 DEF Full
    <3>1. PICK j \in 1 .. n : s[j].key = p /\ (s[j].loop = "values" \/ s[j].index <= a)
      BY <1>1, <2>2 DEF Full
    <3>2. j # n
      <4>1. a \in Nat /\ a <= Len(Sub[p]) /\ Len(Sub[p]) \in Nat
        BY <1>1, TreeFacts
      <4>2. ASSUME j = n PROVE FALSE
        <5>1. p = k /\ i <= a
          BY <1>1, <3>1, <4>2
        <5> QED
          BY <1>1, <1>6, <4>1, <5>1
      <4> QED
        BY <4>2
    <3> QED
      BY <1>2, <1>3, <3>1, <3>2
  <2>3. Past(D, t) = Past(D, s)
    BY <1>5 DEF Past
  <2> QED
    BY <2>1, <2>2, <2>3
<1>7. ASSUME i <= Len(Sub[k])
      PROVE  /\ Sub[k][i] \in Keys /\ Sub[k][i] \notin D /\ Walk(D \cup {Sub[k][i]}, t)
             /\ Past(D, s) \subseteq Past(D \cup {Sub[k][i]}, t)
  <2> DEFINE c == Sub[k][i]
             E == D \cup {c}
  <2>1. /\ i \in DOMAIN Sub[k] /\ c \in Keys /\ c \notin D
        /\ \A p \in Keys : \A a \in DOMAIN Sub[p] :
              Sub[p][a] \in E =>
                  /\ p \in D
                  /\ (p = k /\ a = i) \/ (Sub[p][a] \in D /\ \A j \in 1 .. n :
                                              s[j].key = p => s[j].loop = "keys" /\ a < s[j].index)
    BY <1>7, NewKey
  <2> HIDE DEF c
  <2>2. ASSUME NEW p \in Keys, NEW a \in DOMAIN Sub[p], Sub[p][a] \in E
        PROVE  p \in E /\ \A j \in 1 .. m : t[j].key = p => t[j].loop = "keys" /\ a < t[j].index
    <3>1. \A j \in 1 .. m : t[j].key # k
      BY <1>1, <1>2
    <3> QED
      BY <1>2, <2>1, <2>2, <3>1
  <2>3. Walk(E, t)
    BY <1>1, <1>2, <1>4, <2>1, <2>2 DEF Walk
  <2>4. Past(D, s) \subseteq Past(E, t)
    BY <1>5 DEF Past
  <2> QED
    BY <2>1, <2>3, <2>4 DEF c
<1> QED
  BY <1>6, <1>7

LEMMA OutOfSearched ==
    ASSUME NEW D, NEW s, NEW n, NEW k, NEW i, OnTop(D, s, n, k, i, "keys"), i > Len(Sub[k]),
           NEW t, Popped(t, s)
    PROVE  Walk(D, t) /\ (Full(D, s) => Full(D, t)) /\ Past(D, t) = Past(D, s)
  BY OutOfKey

LEMMA OutOfUnsearched ==
    ASSUME NEW D, NEW s, NEW n, NEW k, NEW i, OnTop(D, s, n, k, i, "keys"), i <= Len(Sub[k]),
           NEW t, Popped(t, s)
    PROVE  /\ Sub[k][i] \in Keys /\ Sub[k][i] \notin D /\ Walk(D \cup {Sub[k][i]}, t)
           /\ Past(D, s) \subseteq Past(D \cup {Sub[k][i]}, t)
  BY OutOfKey

\* All calls return.
LEMMA AllReturn ==
    ASSUME NEW D, NEW s, Walk(D, s)
    PROVE  Walk(D, <<>>) /\ Past(D, s) \subseteq Past(D, <<>>)
<1>1. <<>> \in Seq(Frames) /\ Len(<<>>) = 0
  BY EmptySeq
<1>2. /\ D \in SUBSET Keys /\ Root \in D
      /\ \A p \in Keys : \A a \in DOMAIN Sub[p] : Sub[p][a] \in D => p \in D
  BY DEF Walk
<1>3. Walk(D, <<>>)
  BY <1>1, <1>2 DEF Walk
<1>4. \A p, a : Behind(<<>>, p, a)
  BY <1>1 DEF Behind
<1> QED
  BY <1>3, <1>4 DEF Past

\* At the end every key has been there, and every value.
LEMMA WalkIsWhole ==
    ASSUME NEW D, Walk(D, <<>>)
    PROVE  /\ Past(D, <<>>) \subseteq DOMAIN Type
           /\ Full(D, <<>>) => D = Keys /\ Past(D, <<>>) = DOMAIN Type
<1>1. Len(<<>>) = 0 /\ D \in SUBSET Keys /\ Root \in D
  BY EmptySeq DEF Walk
<1>2. ASSUME Full(D, <<>>) PROVE D = Keys
  <2>1. \A k \in D : \A a \in DOMAIN Sub[k] : Sub[k][a] \in D
    BY <1>1, <1>2 DEF Full
  <2> QED
    BY <1>1, <2>1, TreeAssumption
<1>3. \A p, a : Behind(<<>>, p, a)
  BY <1>1 DEF Behind
<1>4. ASSUME D = Keys PROVE Past(D, <<>>) = DOMAIN Type
  <2>1. \A v \in DOMAIN Type : \E k \in Keys : \E a \in DOMAIN Vals[k] : v = Vals[k][a]
    BY TreeAssumption
  <2> QED
    BY <1>3, <1>4, <2>1 DEF Past
<1> QED
  BY <1>2, <1>4 DEF Past
-----------------------------------------------------------------------------
(* regrepl: the inductive invariant.  S is the set of the values that the walk is past. *)

ReplTyped ==
    /\ reg \in [DOMAIN Type -> Seq(Nat)] /\ original \in Registries
    /\ cFrom \in Froms /\ cTo \in Tos \ {cFrom}
    /\ cNewData \in [1 .. Cap -> Nat]
    /\ pc \in {"search", "done", "overrun"} /\ (pc = "done" => stack = <<>>)
    /\ bCancel \in BOOLEAN
    /\ dwReplaceCounter \in Nat /\ dwReplaceErrorCounter \in Nat
    /\ dwErrorCounter \in Nat /\ uncounted \in Nat

Clean == dwErrorCounter + uncounted = 0 /\ ~ bCancel
Changed == {v \in DOMAIN Type : reg[v] # original[v]}
Failed(S) == {v \in S : reg[v] = original[v] /\ LongEnough(original[v]) /\ Goal(v) # original[v]}

Reports(D, S) ==
    /\ \A v \in DOMAIN Type : v \notin S => reg[v] = original[v]
    /\ dwReplaceCounter + dwReplaceErrorCounter <= Cardinality(S)
    /\ dwErrorCounter + uncounted + 1 <= Cardinality(S) + Cardinality(D)
    /\ Clean => Full(D, stack) /\ dwReplaceErrorCounter = Cardinality(Failed(S))
Searched(D) == Walk(D, stack) /\ Reports(D, Past(D, stack))

ReplInv ==
    /\ ReplTyped /\ OldOrNew
    /\ dwReplaceCounter = Cardinality(Changed)
    /\ \E D \in SUBSET Keys : Searched(D)

LEMMA ReplAsked ==
    ASSUME ReplTyped
    PROVE  /\ Asked /\ original \in [DOMAIN Type -> Seq(Nat)]
           /\ \A v \in DOMAIN Type : original[v] \in Seq(Nat) /\ WellFormed(Type[v], original[v])
  BY DataAssumption DEF ReplTyped, Asked

LEMMA FiniteParts ==
    /\ \A D \in SUBSET Keys : IsFiniteSet(D) /\ Cardinality(D) \in Nat /\ Cardinality(D) <= Cardinality(Keys)
    /\ \A S \in SUBSET (DOMAIN Type) :
        IsFiniteSet(S) /\ Cardinality(S) \in Nat /\ Cardinality(S) <= Cardinality(DOMAIN Type)
    /\ Cardinality(Keys) \in Nat /\ Cardinality(DOMAIN Type) \in Nat
    /\ \A D, s : Past(D, s) \in SUBSET (DOMAIN Type)
<1>1. IsFiniteSet(Keys) /\ IsFiniteSet(DOMAIN Type)
  BY TreeAssumption
<1>2. \A D, s : Past(D, s) \in SUBSET (DOMAIN Type)
  BY DEF Past
<1>3. \A U : IsFiniteSet(U) =>
        \A D \in SUBSET U : IsFiniteSet(D) /\ Cardinality(D) \in Nat /\ Cardinality(D) <= Cardinality(U)
  BY FS_Subset, FS_CardinalityType
<1>4. Cardinality(Keys) \in Nat /\ Cardinality(DOMAIN Type) \in Nat
  BY <1>1, FS_CardinalityType
<1> QED
  BY <1>1, <1>2, <1>3, <1>4

LEMMA OneMore ==
    ASSUME NEW S, NEW T, IsFiniteSet(T), S \subseteq T, NEW x \in T, x \notin S
    PROVE  Cardinality(S) + 1 <= Cardinality(T)
<1>1. /\ IsFiniteSet(S) /\ Cardinality(S) <= Cardinality(T) /\ (Cardinality(S) = Cardinality(T) => S = T)
      /\ Cardinality(S) \in Nat /\ Cardinality(T) \in Nat
  BY FS_Subset, FS_CardinalityType
<1>2. S # T
  OBVIOUS
<1> QED
  BY <1>1, <1>2

LEMMA GivenStays ==
    ASSUME UNCHANGED given
    PROVE  /\ original' = original /\ cFrom' = cFrom /\ cTo' = cTo
           /\ \A v : Goal(v)' = Goal(v)
<1>1. original' = original /\ cFrom' = cFrom /\ cTo' = cTo
  BY DEF given
<1>2. \A v : Goal(v)' = Goal(v)
  BY <1>1 DEF Goal
<1> QED
  BY <1>1, <1>2

LEMMA TextsStay ==
    ASSUME UNCHANGED <<reg, given>>
    PROVE  Changed' = Changed /\ (OldOrNew => OldOrNew')
<1>1. /\ original' = original /\ reg' = reg
      /\ \A v : Goal(v)' = Goal(v)
  BY GivenStays
<1>2. Changed' = Changed
  BY <1>1 DEF Changed
<1>3. OldOrNew => OldOrNew'
  BY <1>1 DEF OldOrNew, Alike
<1> QED
  BY <1>2, <1>3

(* A step that is about no value: what it adds to the errors is as much as it passes by. *)
LEMMA NoValue ==
    ASSUME ReplTyped, ReplTyped', OldOrNew, dwReplaceCounter = Cardinality(Changed),
           UNCHANGED <<reg, dwReplaceCounter, dwReplaceErrorCounter, given>>,
           NEW D \in SUBSET Keys, NEW E \in SUBSET Keys, Searched(D), Walk(E, stack'),
           Past(D, stack) \subseteq Past(E, stack'),
           Clean' => /\ Clean /\ (Full(D, stack) => Full(E, stack'))
                     /\ Past(E, stack') = Past(D, stack),
           dwErrorCounter' + uncounted' + Cardinality(Past(D, stack)) + Cardinality(D)
               <= dwErrorCounter + uncounted + Cardinality(Past(E, stack')) + Cardinality(E)
    PROVE  ReplInv'
<1> DEFINE S == Past(D, stack)
           T == Past(E, stack')
<1>1. /\ S \in SUBSET (DOMAIN Type) /\ T \in SUBSET (DOMAIN Type) /\ S \subseteq T
      /\ Cardinality(S) \in Nat /\ Cardinality(T) \in Nat /\ Cardinality(S) <= Cardinality(T)
      /\ Cardinality(D) \in Nat /\ Cardinality(E) \in Nat /\ IsFiniteSet(T)
  <2>1. /\ S \in SUBSET (DOMAIN Type) /\ T \in SUBSET (DOMAIN Type) /\ S \subseteq T
        /\ Cardinality(D) \in Nat /\ Cardinality(E) \in Nat
    BY FiniteParts
  <2> HIDE DEF S, T
  <2>2. Cardinality(S) \in Nat /\ Cardinality(T) \in Nat /\ IsFiniteSet(T)
    BY <2>1, FiniteParts
  <2>3. Cardinality(S) <= Cardinality(T)
    BY <2>1, <2>2, FS_Subset
  <2> QED
    BY <2>1, <2>2, <2>3
<1>2. Reports(D, S) /\ Walk(E, stack')
  BY DEF Searched
<1>3. /\ Changed' = Changed /\ OldOrNew'
      /\ reg' = reg /\ original' = original /\ cFrom' = cFrom
      /\ \A v : Goal(v)' = Goal(v)
      /\ dwReplaceCounter' = dwReplaceCounter /\ dwReplaceErrorCounter' = dwReplaceErrorCounter
  BY TextsStay, GivenStays
<1>4. /\ dwReplaceCounter \in Nat /\ dwReplaceErrorCounter \in Nat
      /\ dwErrorCounter \in Nat /\ uncounted \in Nat /\ dwErrorCounter' \in Nat /\ uncounted' \in Nat
  BY DEF ReplTyped
<1>5. /\ Clean' => Clean /\ (Full(D, stack) => Full(E, stack')) /\ T = S
      /\ dwErrorCounter' + uncounted' + Cardinality(S) + Cardinality(D)
           <= dwErrorCounter + uncounted + Cardinality(T) + Cardinality(E)
  OBVIOUS
<1> HIDE DEF S, T
<1>6. \A v \in DOMAIN Type : v \notin T => reg'[v] = original'[v]
  BY <1>1, <1>2, <1>3 DEF Reports
<1>7. dwReplaceCounter' + dwReplaceErrorCounter' <= Cardinality(T)
  <2>1. dwReplaceCounter + dwReplaceErrorCounter <= Cardinality(S)
    BY <1>2 DEF Reports
  <2> QED
    BY <1>1, <1>3, <1>4, <2>1
<1>8. dwErrorCounter' + uncounted' + 1 <= Cardinality(T) + Cardinality(E)
  <2>1. dwErrorCounter + uncounted + 1 <= Cardinality(S) + Cardinality(D)
    BY <1>2 DEF Reports
  <2> QED
    BY <1>1, <1>4, <1>5, <2>1
<1>9. Clean' => Full(E, stack') /\ dwReplaceErrorCounter' = Cardinality(Failed(T))
  BY <1>2, <1>3, <1>5 DEF Reports
<1>10. Searched(E)'
  <2>1. Failed(Past(E, stack))' = Failed(T)
    BY <1>3 DEF Failed, LongEnough, T
  <2> QED
    BY <1>2, <1>6, <1>7, <1>8, <1>9, <2>1 DEF Searched, Reports, T
<1>11. dwReplaceCounter' = Cardinality(Changed')
  BY <1>3
<1> QED
  BY <1>3, <1>10, <1>11 DEF ReplInv

(* What becomes of a value that the walk passes: nothing, nothing although it should
   have been replaced, or its replacement. *)
LEMMA OneValue ==
    ASSUME ReplTyped, ReplTyped', OldOrNew, dwReplaceCounter = Cardinality(Changed),
           UNCHANGED <<given, bCancel, dwErrorCounter, uncounted>>,
           NEW D \in SUBSET Keys, Searched(D), Walk(D, stack'), Full(D, stack) => Full(D, stack'),
           NEW x \in DOMAIN Type, x \notin Past(D, stack), Past(D, stack') = Past(D, stack) \cup {x},
           \/ /\ UNCHANGED <<reg, dwReplaceCounter, dwReplaceErrorCounter>>
              /\ ~ (LongEnough(original[x]) /\ Goal(x) # original[x])
           \/ /\ UNCHANGED <<reg, dwReplaceCounter>> /\ dwReplaceErrorCounter' = dwReplaceErrorCounter + 1
              /\ LongEnough(original[x]) /\ Goal(x) # original[x]
           \/ /\ \A v \in DOMAIN Type \ {x} : reg'[v] = reg[v]
              /\ reg'[x] # original[x] /\ Alike(x, reg'[x], Goal(x))
              /\ dwReplaceCounter' = dwReplaceCounter + 1 /\ UNCHANGED dwReplaceErrorCounter
    PROVE  ReplInv'
<1> DEFINE S == Past(D, stack)
           T == Past(D, stack')
<1>1. /\ original' = original /\ cFrom' = cFrom
      /\ \A v : Goal(v)' = Goal(v)
  BY GivenStays
<1>2. Reports(D, S) /\ Walk(D, stack') /\ T = S \cup {x} /\ x \notin S
  BY DEF Searched
<1>3. /\ S \in SUBSET (DOMAIN Type) /\ IsFiniteSet(S) /\ Cardinality(S) \in Nat
      /\ Cardinality(D) \in Nat
  <2>1. S \in SUBSET (DOMAIN Type)
    BY FiniteParts
  <2> HIDE DEF S
  <2> QED
    BY <2>1, FiniteParts
<1>4. Failed(Past(D, stack))' = {v \in T : /\ reg'[v] = original[v]
                                            /\ LongEnough(original[v]) /\ Goal(v) # original[v]}
  BY <1>1 DEF Failed, LongEnough
<1>5. Changed' = {v \in DOMAIN Type : reg'[v] # original[v]}
  BY <1>1 DEF Changed
<1>6. /\ DOMAIN reg = DOMAIN Type /\ DOMAIN reg' = DOMAIN Type
      /\ dwReplaceCounter \in Nat /\ dwReplaceErrorCounter \in Nat
      /\ dwErrorCounter \in Nat /\ uncounted \in Nat
  BY DEF ReplTyped
<1> HIDE DEF S, T
<1>7. Cardinality(T) = Cardinality(S) + 1
  BY <1>2, <1>3, FS_AddElement
<1>8. /\ \A v \in DOMAIN Type : v \notin S => reg[v] = original[v]
      /\ dwReplaceCounter + dwReplaceErrorCounter <= Cardinality(S)
      /\ dwErrorCounter + uncounted + 1 <= Cardinality(S) + Cardinality(D)
      /\ Clean => Full(D, stack) /\ dwReplaceErrorCounter = Cardinality(Failed(S))
  BY <1>2 DEF Reports
<1>9. Clean' => Clean
  BY DEF Clean
<1>10. reg[x] = original[x] /\ x \notin Failed(S) /\ x \notin Changed
  BY <1>2, <1>8 DEF Failed, Changed
<1>11. Failed(S) \subseteq S /\ Changed \subseteq DOMAIN Type
  BY DEF Failed, Changed
<1>12. IsFiniteSet(Failed(S)) /\ IsFiniteSet(Changed)
  <2>1. Failed(S) \in SUBSET (DOMAIN Type) /\ Changed \in SUBSET (DOMAIN Type)
    BY <1>3, <1>11
  <2> QED
    BY <2>1, FiniteParts
<1>13. /\ \A v \in DOMAIN Type : v \notin T => reg'[v] = original'[v]
       /\ dwReplaceCounter' + dwReplaceErrorCounter' <= Cardinality(T)
       /\ Clean => dwReplaceErrorCounter' = Cardinality(Failed(Past(D, stack))')
       /\ dwReplaceCounter' = Cardinality(Changed') /\ OldOrNew'
  <2>1. CASE /\ UNCHANGED <<reg, dwReplaceCounter, dwReplaceErrorCounter>>
             /\ ~ (LongEnough(original[x]) /\ Goal(x) # original[x])
    <3>1. Failed(Past(D, stack))' = Failed(S)
      BY <1>2, <1>4, <2>1 DEF Failed
    <3>2. Changed' = Changed /\ OldOrNew'
      BY <2>1, TextsStay
    <3> QED
      BY <1>1, <1>2, <1>3, <1>6, <1>7, <1>8, <2>1, <3>1, <3>2
  <2>2. CASE /\ UNCHANGED <<reg, dwReplaceCounter>> /\ dwReplaceErrorCounter' = dwReplaceErrorCounter + 1
             /\ LongEnough(original[x]) /\ Goal(x) # original[x]
    <3>1. Failed(Past(D, stack))' = Failed(S) \cup {x}
      BY <1>2, <1>4, <1>10, <2>2 DEF Failed
    <3>2. Cardinality(Failed(Past(D, stack))') = Cardinality(Failed(S)) + 1
      <4> DEFINE F == Failed(S)
      <4>1. IsFiniteSet(F) /\ x \notin F
        BY <1>10, <1>12
      <4> HIDE DEF F
      <4>2. Cardinality(F \cup {x}) = Cardinality(F) + 1
        BY <4>1, FS_AddElement
      <4> QED
        BY <3>1, <4>2 DEF F
    <3>3. Changed' = Changed /\ OldOrNew'
      BY <2>2, TextsStay
    <3> QED
      BY <1>1, <1>2, <1>3, <1>6, <1>7, <1>8, <2>2, <3>2, <3>3
  <2>3. CASE /\ \A v \in DOMAIN Type \ {x} : reg'[v] = reg[v]
             /\ reg'[x] # original[x] /\ Alike(x, reg'[x], Goal(x))
             /\ dwReplaceCounter' = dwReplaceCounter + 1 /\ UNCHANGED dwReplaceErrorCounter
    <3>0. \A v \in S : v \in DOMAIN Type /\ v # x /\ reg'[v] = reg[v]
      BY <1>2, <1>3, <2>3
    <3>1. Failed(Past(D, stack))' = Failed(S)
      BY <1>2, <1>4, <2>3, <3>0 DEF Failed
    <3>2. Changed' = Changed \cup {x}
      BY <1>5, <1>10, <2>3 DEF Changed
    <3>3. Cardinality(Changed') = Cardinality(Changed) + 1
      BY <1>10, <1>12, <3>2, FS_AddElement
    <3>4. OldOrNew'
      <4>1. \A v \in DOMAIN Type : reg[v] = original[v] \/ Alike(v, reg[v], Goal(v))
        BY <1>6 DEF OldOrNew
      <4>2. \A v \in DOMAIN Type : reg'[v] = original[v] \/ Alike(v, reg'[v], Goal(v))
        BY <2>3, <4>1
      <4> QED
        BY <1>1, <1>6, <4>2 DEF OldOrNew, Alike
    <3>5. \A v \in DOMAIN Type : v \notin T => reg'[v] = original'[v]
      BY <1>1, <1>2, <1>8, <2>3
    <3>6. dwReplaceCounter' + dwReplaceErrorCounter' <= Cardinality(T)
      BY <1>3, <1>6, <1>7, <1>8, <2>3
    <3>7. dwReplaceErrorCounter' = dwReplaceErrorCounter /\ dwReplaceCounter' = Cardinality(Changed')
      BY <2>3, <3>3
    <3> QED
      BY <1>8, <3>1, <3>4, <3>5, <3>6, <3>7
  <2> QED
    BY <2>1, <2>2, <2>3
<1>14. dwErrorCounter' + uncounted' + 1 <= Cardinality(T) + Cardinality(D)
  BY <1>3, <1>6, <1>7, <1>8
<1>15. Clean' => Full(D, stack') /\ dwReplaceErrorCounter' = Cardinality(Failed(Past(D, stack))')
  BY <1>8, <1>9, <1>13
<1>16. Searched(D)'
  BY <1>2, <1>13, <1>14, <1>15 DEF Searched, Reports, T
<1> QED
  BY <1>13, <1>16 DEF ReplInv
-----------------------------------------------------------------------------
(* regrepl: one step for each action. *)

LEMMA ReplInit ==
    ASSUME Init
    PROVE  ReplInv
<1> DEFINE s == <<Call(Root)>>
           D == {Root}
           f == Call(Root)
<1>1. /\ reg \in Registries /\ original = reg /\ pc = "search" /\ stack = s
      /\ cNewData = [i \in 1 .. Cap |-> 0] /\ bCancel = FALSE /\ uncounted = 0
      /\ dwReplaceCounter = 0 /\ dwReplaceErrorCounter = 0 /\ dwErrorCounter = 0
      /\ cFrom \in Froms /\ cTo \in Tos \ {cFrom}
  BY DEF Init
<1>2. ReplTyped
  <2>1. reg \in [DOMAIN Type -> Seq(Nat)]
    BY <1>1, DataAssumption
  <2>2. cNewData \in [1 .. Cap -> Nat]
    BY <1>1
  <2> QED
    BY <1>1, <2>1, <2>2 DEF ReplTyped
<1>3. Root \in Keys /\ f \in Frames /\ f.key = Root /\ f.loop = "values" /\ f.index = 1
  BY TreeAssumption DEF Call, Frames
<1>4. s = <<f>>
  OBVIOUS
<1> HIDE DEF f, s
<1>5. s \in Seq(Frames) /\ Len(s) = 1 /\ s[1] = f
  BY <1>3, <1>4
<1>6. Walk(D, s)
  <2>1. \A p \in Keys : \A a \in DOMAIN Sub[p] : Sub[p][a] # Root
    BY TreeAssumption
  <2>2. \A j \in 1 .. Len(s) : j = 1
    BY <1>5
  <2>3. D \in SUBSET Keys /\ Root \in D
    BY <1>3
  <2> QED
    BY <1>3, <1>5, <2>1, <2>2, <2>3 DEF Walk
<1>7. Full(D, s)
  BY <1>3, <1>5 DEF Full
<1>8. Past(D, s) = {}
  <2>1. \A a \in DOMAIN Vals[Root] : a \in Nat /\ a >= 1
    BY <1>3, TreeFacts
  <2>2. \A a \in DOMAIN Vals[Root] : ~ Behind(s, Root, a)
    BY <1>3, <1>5, <2>1 DEF Behind
  <2> QED
    BY <2>2 DEF Past
<1>9. Cardinality(D) = 1 /\ Cardinality({}) = 0
  <2>1. IsFiniteSet({}) /\ Cardinality({}) = 0
    BY FS_EmptySet
  <2>2. Cardinality({} \cup {Root}) = Cardinality({}) + 1
    BY <2>1, FS_AddElement
  <2>3. {} \cup {Root} = D
    OBVIOUS
  <2> HIDE DEF D
  <2> QED
    BY <2>1, <2>2, <2>3
<1>10. Changed = {} /\ Failed({}) = {} /\ OldOrNew
  BY <1>1 DEF Changed, Failed, OldOrNew
<1>11. Reports(D, {})
  <2>1. dwReplaceCounter + dwReplaceErrorCounter <= Cardinality({})
    BY <1>1, <1>9
  <2>2. dwErrorCounter + uncounted + 1 <= Cardinality({}) + Cardinality(D)
    <3> HIDE DEF D
    <3> QED
      BY <1>1, <1>9
  <2>3. Full(D, stack) /\ dwReplaceErrorCounter = Cardinality(Failed({}))
    BY <1>1, <1>7, <1>9, <1>10
  <2> HIDE DEF D
  <2> QED
    BY <1>1, <2>1, <2>2, <2>3 DEF Reports
<1>12. D \in SUBSET Keys /\ Searched(D)
  BY <1>1, <1>3, <1>6, <1>8, <1>11 DEF Searched
<1> QED
  BY <1>1, <1>2, <1>9, <1>10, <1>12 DEF ReplInv

IsTurn(f, g, loop, i) == f \in Frames /\ f.key = g.key /\ f.loop = loop /\ f.index = i

LEMMA TurnFrame ==
    ASSUME NEW g \in Frames, NEW loop \in {"values", "keys"}, NEW i \in Nat \ {0}
    PROVE  IsTurn([g EXCEPT !.loop = loop, !.index = i], g, loop, i)
  BY DEF IsTurn, Frames

LEMMA ReplTop ==
    ASSUME NEW D, Walk(D, stack), NEW loop, In(loop)
    PROVE  /\ OnTop(D, stack, Len(stack), Top.key, Top.index, loop)
           /\ Top \in Frames /\ Top.key \in Keys /\ Top.index \in Nat \ {0}
           /\ pc = "search" /\ Top = stack[Len(stack)]
<1>1. OnTop(D, stack, Len(stack), Top.key, Top.index, loop)
  BY DEF OnTop, In, Top
<1>2. stack \in Seq(Frames) /\ Len(stack) \in 1 .. Len(stack) /\ Top.key \in Keys /\ Top.index \in Nat \ {0}
  BY <1>1, TopFacts
<1>3. Top \in Frames
  BY <1>2, ElementOfSeq DEF Top
<1> QED
  BY <1>1, <1>2, <1>3 DEF In, Top

\* Turn, in the words of the lemmas about the walk.
LEMMA TurnIsTurned ==
    ASSUME NEW D, Walk(D, stack), NEW now, In(now), NEW loop \in {"values", "keys"},
           NEW i \in Nat \ {0}, Turn(loop, i)
    PROVE  \E f \in Frames : f.key = Top.key /\ f.loop = loop /\ f.index = i /\ stack' = Turned(stack, f)
<1> DEFINE f == [Top EXCEPT !.loop = loop, !.index = i]
<1>1. IsTurn(f, Top, loop, i)
  <2>1. Top \in Frames
    BY ReplTop
  <2> QED
    BY <2>1, TurnFrame
<1>2. stack' = Turned(stack, f)
  BY DEF Turn, Turned, Below
<1> HIDE DEF f
<1> QED
  BY <1>1, <1>2 DEF IsTurn

LEMMA ReplCancel ==
    ASSUME ReplInv, Cancel
    PROVE  ReplInv'
<1>1. PICK D \in SUBSET Keys : Searched(D)
  BY DEF ReplInv
<1>2. ReplTyped /\ OldOrNew /\ dwReplaceCounter = Cardinality(Changed)
  BY DEF ReplInv
<1>3. /\ bCancel' /\ bCancel' = TRUE /\ stack' = <<>> /\ pc' = pc
      /\ UNCHANGED <<reg, dwReplaceCounter, dwReplaceErrorCounter, given>>
      /\ UNCHANGED <<cNewData, dwErrorCounter, uncounted>>
  BY DEF Cancel, counters
<1>4. ReplTyped'
  BY <1>2, <1>3 DEF ReplTyped, given
<1>5. ~ Clean'
  BY <1>3 DEF Clean
<1>6. Walk(D, stack') /\ Past(D, stack) \subseteq Past(D, stack')
  BY <1>1, <1>3, AllReturn DEF Searched
<1>7. dwErrorCounter' + uncounted' + Cardinality(Past(D, stack)) + Cardinality(D)
        <= dwErrorCounter + uncounted + Cardinality(Past(D, stack')) + Cardinality(D)
  <2> DEFINE S == Past(D, stack)
             T == Past(D, stack')
  <2>1. S \in SUBSET (DOMAIN Type) /\ T \in SUBSET (DOMAIN Type) /\ Cardinality(D) \in Nat /\ S \subseteq T
    BY <1>6, FiniteParts
  <2> HIDE DEF S, T
  <2>2. Cardinality(S) \in Nat /\ Cardinality(T) \in Nat /\ Cardinality(S) <= Cardinality(T)
    BY <2>1, FiniteParts, FS_Subset
  <2>3. /\ dwErrorCounter \in Nat /\ uncounted \in Nat
        /\ dwErrorCounter' = dwErrorCounter /\ uncounted' = uncounted
    BY <1>2, <1>3 DEF ReplTyped
  <2> QED
    BY <2>1, <2>2, <2>3 DEF S, T
<1> QED
  BY <1>1, <1>2, <1>3, <1>4, <1>5, <1>6, <1>7, NoValue

\* A step that passes by no value, and counts no error.
LEMMA PlainStep ==
    ASSUME ReplInv, ReplTyped', UNCHANGED <<reg, bCancel, counters, given, uncounted>>,
           NEW D \in SUBSET Keys, NEW E \in SUBSET Keys, Searched(D), D \subseteq E, Walk(E, stack'),
           Full(D, stack) => Full(E, stack'), Past(E, stack') = Past(D, stack)
    PROVE  ReplInv'
<1>1. ReplTyped /\ OldOrNew /\ dwReplaceCounter = Cardinality(Changed)
  BY DEF ReplInv
<1>2. UNCHANGED <<reg, dwReplaceCounter, dwReplaceErrorCounter, given>>
      /\ dwErrorCounter' = dwErrorCounter /\ uncounted' = uncounted /\ bCancel' = bCancel
  BY DEF counters
<1>3. Clean' => Clean
  BY <1>2 DEF Clean
<1>4. dwErrorCounter' + uncounted' + Cardinality(Past(D, stack)) + Cardinality(D)
        <= dwErrorCounter + uncounted + Cardinality(Past(E, stack')) + Cardinality(E)
  <2> DEFINE S == Past(D, stack)
             T == Past(E, stack')
  <2>1. S \in SUBSET (DOMAIN Type) /\ T = S
    BY FiniteParts
  <2> HIDE DEF S, T
  <2>2. Cardinality(S) \in Nat /\ Cardinality(D) \in Nat /\ Cardinality(E) \in Nat
    BY <2>1, FiniteParts
  <2>3. Cardinality(D) <= Cardinality(E)
    <3>1. IsFiniteSet(E)
      BY FiniteParts
    <3> QED
      BY <3>1, FS_Subset
  <2>4. dwErrorCounter \in Nat /\ uncounted \in Nat
    BY <1>1 DEF ReplTyped
  <2> QED
    BY <1>2, <2>1, <2>2, <2>3, <2>4 DEF S, T
<1> QED
  BY <1>1, <1>2, <1>3, <1>4, NoValue

\* A step that counts one error, for a value or for a subkey.
LEMMA ErrorStep ==
    ASSUME ReplInv, ReplTyped', UNCHANGED <<reg, dwReplaceCounter, dwReplaceErrorCounter, given>>,
           dwErrorCounter' + uncounted' = dwErrorCounter + uncounted + 1,
           NEW D \in SUBSET Keys, NEW E \in SUBSET Keys, Searched(D), D \subseteq E, Walk(E, stack'),
           Past(D, stack) \subseteq Past(E, stack'),
           \/ \E c \in E : c \notin D
           \/ \E v \in Past(E, stack') : v \notin Past(D, stack)
    PROVE  ReplInv'
<1>1. ReplTyped /\ OldOrNew /\ dwReplaceCounter = Cardinality(Changed)
  BY DEF ReplInv
<1> DEFINE S == Past(D, stack)
           T == Past(E, stack')
<1>2. dwErrorCounter \in Nat /\ uncounted \in Nat
  BY <1>1 DEF ReplTyped
<1>3. ~ Clean'
  BY <1>2 DEF Clean
<1>4. dwErrorCounter' + uncounted' + Cardinality(S) + Cardinality(D)
        <= dwErrorCounter + uncounted + Cardinality(T) + Cardinality(E)
  <2>1. S \in SUBSET (DOMAIN Type) /\ T \in SUBSET (DOMAIN Type) /\ S \subseteq T
        /\ Cardinality(D) \in Nat /\ Cardinality(E) \in Nat /\ IsFiniteSet(E)
        /\ ((\E c \in E : c \notin D) \/ (\E v \in T : v \notin S))
    BY FiniteParts
  <2>2. dwErrorCounter' \in Nat /\ uncounted' \in Nat
        /\ dwErrorCounter' + uncounted' = dwErrorCounter + uncounted + 1
    BY DEF ReplTyped
  <2> HIDE DEF S, T
  <2>3. Cardinality(S) \in Nat /\ Cardinality(T) \in Nat /\ IsFiniteSet(T)
    BY <2>1, FiniteParts
  <2>4. Cardinality(S) <= Cardinality(T) /\ Cardinality(D) <= Cardinality(E)
    BY <2>1, <2>3, FS_Subset
  <2>5. Cardinality(D) + 1 <= Cardinality(E) \/ Cardinality(S) + 1 <= Cardinality(T)
    BY <2>1, <2>3, OneMore
  <2> DEFINE a == Cardinality(S)  b == Cardinality(T)  d == Cardinality(D)  e == Cardinality(E)
             old == dwErrorCounter + uncounted
             new == dwErrorCounter' + uncounted'
  <2>6. /\ a \in Nat /\ b \in Nat /\ d \in Nat /\ e \in Nat /\ a <= b /\ d <= e
        /\ (d + 1 <= e \/ a + 1 <= b) /\ old \in Nat /\ new = old + 1
    <3>1. a \in Nat /\ b \in Nat
      BY <2>3
    <3>2. d \in Nat /\ e \in Nat
      BY <2>1
    <3>3. a <= b /\ d <= e
      BY <2>4
    <3>4. d + 1 <= e \/ a + 1 <= b
      BY <2>5
    <3>5. old \in Nat
      BY <1>2
    <3>6. new = old + 1
      BY <2>2
    <3> QED
      BY ONLY <3>1, <3>2, <3>3, <3>4, <3>5, <3>6
  <2>7. new + a + d <= old + b + e
    <3> HIDE DEF a, b, d, e, old, new
    <3> QED
      BY <2>6
  <2> QED
    BY <2>7
<1> QED
  BY <1>1, <1>3, <1>4, NoValue

LEMMA ReplEndOfValues ==
    ASSUME ReplInv, EndOfValues
    PROVE  ReplInv'
<1>1. PICK D \in SUBSET Keys : Searched(D)
  BY DEF ReplInv
<1>2. /\ In("values") /\ Top.index > Len(Vals[Top.key]) /\ Turn("keys", 1)
      /\ UNCHANGED <<reg, pc, cNewData, bCancel, counters, given, uncounted>>
  BY DEF EndOfValues
<1>3. Walk(D, stack)
  BY <1>1 DEF Searched
<1>4. OnTop(D, stack, Len(stack), Top.key, Top.index, "values") /\ pc = "search"
  BY <1>2, <1>3, ReplTop
<1>5. PICK f \in Frames : f.key = Top.key /\ f.loop = "keys" /\ f.index = 1 /\ stack' = Turned(stack, f)
  BY <1>2, <1>3, TurnIsTurned
<1>6. Walk(D, stack') /\ (Full(D, stack) => Full(D, stack')) /\ Past(D, stack') = Past(D, stack)
  BY <1>2, <1>4, <1>5, ToKeys
<1>7. ReplTyped'
  BY <1>2, <1>4 DEF ReplInv, ReplTyped, counters, given
<1> QED
  BY <1>1, <1>2, <1>6, <1>7, PlainStep

LEMMA ReplEnumValueFails ==
    ASSUME ReplInv, EnumValueFails
    PROVE  ReplInv'
<1>1. PICK D \in SUBSET Keys : Searched(D)
  BY DEF ReplInv
<1>2. /\ In("values") /\ Top.index <= Len(Vals[Top.key]) /\ Turn("keys", 1)
      /\ dwErrorCounter' = dwErrorCounter + 1
      /\ UNCHANGED <<reg, pc, cNewData, bCancel, dwReplaceCounter, dwReplaceErrorCounter, given, uncounted>>
  BY DEF EnumValueFails
<1>3. Walk(D, stack)
  BY <1>1 DEF Searched
<1>4. OnTop(D, stack, Len(stack), Top.key, Top.index, "values") /\ pc = "search"
  BY <1>2, <1>3, ReplTop
<1>5. PICK f \in Frames : f.key = Top.key /\ f.loop = "keys" /\ f.index = 1 /\ stack' = Turned(stack, f)
  BY <1>2, <1>3, TurnIsTurned
<1>6. Walk(D, stack') /\ Past(D, stack) \subseteq Past(D, stack')
      /\ \E v \in Past(D, stack') : v \notin Past(D, stack)
  BY <1>2, <1>4, <1>5, ToKeys
<1>7. dwErrorCounter \in Nat /\ uncounted \in Nat
  BY DEF ReplInv, ReplTyped
<1>8. ReplTyped' /\ dwErrorCounter' + uncounted' = dwErrorCounter + uncounted + 1
  BY <1>2, <1>4, <1>7 DEF ReplInv, ReplTyped, given
<1> QED
  BY <1>1, <1>2, <1>6, <1>8, ErrorStep

LEMMA ReplEndOfKeys ==
    ASSUME ReplInv, EndOfKeys
    PROVE  ReplInv'
<1>1. PICK D \in SUBSET Keys : Searched(D)
  BY DEF ReplInv
<1>2. /\ In("keys") /\ Top.index > Len(Sub[Top.key]) /\ stack' = Below
      /\ UNCHANGED <<reg, pc, cNewData, bCancel, counters, given, uncounted>>
  BY DEF EndOfKeys
<1>3. Walk(D, stack)
  BY <1>1 DEF Searched
<1>4. OnTop(D, stack, Len(stack), Top.key, Top.index, "keys") /\ pc = "search"
  BY <1>2, <1>3, ReplTop
<1>5. Walk(D, stack') /\ (Full(D, stack) => Full(D, stack')) /\ Past(D, stack') = Past(D, stack)
  <2>1. Popped(stack', stack)
    BY <1>2 DEF Popped, Below
  <2> QED
    BY <1>2, <1>4, <2>1, OutOfSearched
<1>6. ReplTyped'
  BY <1>2, <1>4 DEF ReplInv, ReplTyped, counters, given
<1> QED
  BY <1>1, <1>2, <1>5, <1>6, PlainStep

LEMMA ReplEnumKeyFails ==
    ASSUME ReplInv, EnumKeyFails
    PROVE  ReplInv'
<1>1. PICK D \in SUBSET Keys : Searched(D)
  BY DEF ReplInv
<1>2. /\ In("keys") /\ Top.index <= Len(Sub[Top.key]) /\ stack' = Below
      /\ uncounted' = uncounted + 1
      /\ UNCHANGED <<reg, pc, cNewData, bCancel, counters, given>>
  BY DEF EnumKeyFails
<1>3. Walk(D, stack)
  BY <1>1 DEF Searched
<1>4. OnTop(D, stack, Len(stack), Top.key, Top.index, "keys") /\ pc = "search"
  BY <1>2, <1>3, ReplTop
<1> DEFINE c == Sub[Top.key][Top.index]
           E == D \cup {c}
<1>5. c \in Keys /\ c \notin D /\ Walk(E, stack') /\ Past(D, stack) \subseteq Past(E, stack')
  <2>1. Popped(stack', stack)
    BY <1>2 DEF Popped, Below
  <2> QED
    BY <1>2, <1>4, <2>1, OutOfUnsearched
<1>6. dwErrorCounter \in Nat /\ uncounted \in Nat /\ dwErrorCounter' = dwErrorCounter
      /\ UNCHANGED <<reg, dwReplaceCounter, dwReplaceErrorCounter, given>>
  BY <1>2 DEF ReplInv, ReplTyped, counters
<1>7. ReplTyped' /\ dwErrorCounter' + uncounted' = dwErrorCounter + uncounted + 1
  BY <1>2, <1>4, <1>6 DEF ReplInv, ReplTyped, given
<1> HIDE DEF c
<1>8. E \in SUBSET Keys /\ D \subseteq E /\ \E k \in E : k \notin D
  BY <1>5
<1> HIDE DEF E
<1> QED
  BY <1>1, <1>5, <1>6, <1>7, <1>8, ErrorStep

LEMMA ReplOpenKeyFails ==
    ASSUME ReplInv, OpenKeyFails
    PROVE  ReplInv'
<1>1. PICK D \in SUBSET Keys : Searched(D)
  BY DEF ReplInv
<1>2. /\ In("keys") /\ Top.index <= Len(Sub[Top.key]) /\ Turn(Top.loop, Top.index + 1)
      /\ dwErrorCounter' = dwErrorCounter + 1
      /\ UNCHANGED <<reg, pc, cNewData, bCancel, dwReplaceCounter, dwReplaceErrorCounter, given, uncounted>>
  BY DEF OpenKeyFails, NextItem
<1>3. Walk(D, stack)
  BY <1>1 DEF Searched
<1>4. OnTop(D, stack, Len(stack), Top.key, Top.index, "keys") /\ pc = "search"
      /\ Top.index \in Nat \ {0} /\ Top.loop = "keys"
  BY <1>2, <1>3, ReplTop DEF In
<1>5. PICK f \in Frames : f.key = Top.key /\ f.loop = "keys" /\ f.index = Top.index + 1
                          /\ stack' = Turned(stack, f)
  <2>1. Turn("keys", Top.index + 1) /\ Top.index + 1 \in Nat \ {0}
    BY <1>2, <1>4
  <2> QED
    BY <1>2, <1>3, <2>1, TurnIsTurned
<1> DEFINE c == Sub[Top.key][Top.index]
           E == D \cup {c}
<1>6. c \in Keys /\ c \notin D /\ Walk(E, stack') /\ Past(D, stack) \subseteq Past(E, stack')
  BY <1>2, <1>4, <1>5, SkipKey
<1>7. dwErrorCounter \in Nat /\ uncounted \in Nat
  BY DEF ReplInv, ReplTyped
<1>8. ReplTyped' /\ dwErrorCounter' + uncounted' = dwErrorCounter + uncounted + 1
  BY <1>2, <1>4, <1>7 DEF ReplInv, ReplTyped, given
<1> HIDE DEF c
<1>9. E \in SUBSET Keys /\ D \subseteq E /\ \E k \in E : k \notin D
  BY <1>6
<1> HIDE DEF E
<1> QED
  BY <1>1, <1>2, <1>6, <1>8, <1>9, ErrorStep

LEMMA ReplOpenKey ==
    ASSUME ReplInv, OpenKey
    PROVE  ReplInv'
<1>1. PICK D \in SUBSET Keys : Searched(D)
  BY DEF ReplInv
<1> DEFINE c == Sub[Top.key][Top.index]
           E == D \cup {c}
           f == [Top EXCEPT !.index = @ + 1]
           g == Call(c)
<1>2. /\ In("keys") /\ Top.index <= Len(Sub[Top.key]) /\ stack' = Append(Turned(stack, f), g)
      /\ UNCHANGED <<reg, pc, cNewData, bCancel, counters, given, uncounted>>
  BY DEF OpenKey, Turned, Below
<1>3. Walk(D, stack)
  BY <1>1 DEF Searched
<1>4. OnTop(D, stack, Len(stack), Top.key, Top.index, "keys") /\ pc = "search"
      /\ Top \in Frames /\ Top.index \in Nat \ {0} /\ Top.loop = "keys"
  BY <1>2, <1>3, ReplTop DEF In
<1>5. f \in Frames /\ f.key = Top.key /\ f.loop = "keys" /\ f.index = Top.index + 1
  <2> DEFINE t == Top
  <2>1. t \in Frames /\ t.loop = "keys"
    BY <1>4
  <2> HIDE DEF t
  <2>2. [t EXCEPT !.index = @ + 1] \in Frames /\ [t EXCEPT !.index = @ + 1].key = t.key
        /\ [t EXCEPT !.index = @ + 1].loop = "keys" /\ [t EXCEPT !.index = @ + 1].index = t.index + 1
    BY <2>1 DEF Frames
  <2> QED
    BY <2>2 DEF t
<1>6. c \in Keys /\ c \notin D
  BY <1>2, <1>4, NewKey
<1>7. g \in Frames /\ g.key = c /\ g.loop = "values" /\ g.index = 1
  BY <1>6 DEF Call, Frames
<1> HIDE DEF f, g
<1>8. /\ Walk(E, stack') /\ (Full(D, stack) => Full(E, stack'))
      /\ Past(E, stack') = Past(D, stack)
  <2> DEFINE k == Top.key
             i == Top.index
             n == Len(stack)
  <2>1. OnTop(D, stack, n, k, i, "keys") /\ i <= Len(Sub[k])
    BY <1>2, <1>4
  <2>2. f \in Frames /\ f.key = k /\ f.loop = "keys" /\ f.index = i + 1
    BY <1>5
  <2>3. g \in Frames /\ g.key = Sub[k][i] /\ g.loop = "values" /\ g.index = 1
    BY <1>7
  <2> HIDE DEF k, i, n
  <2>4. Entered(D, stack, Sub[k][i], Append(Turned(stack, f), g))
    BY ONLY <2>1, <2>2, <2>3, IntoKey
  <2> QED
    BY <1>2, <2>4 DEF k, i, Entered
<1>9. ReplTyped'
  BY <1>2, <1>4 DEF ReplInv, ReplTyped, counters, given
<1> HIDE DEF c
<1>10. E \in SUBSET Keys /\ D \subseteq E
  BY <1>6
<1> HIDE DEF E
<1> QED
  BY <1>1, <1>2, <1>8, <1>9, <1>10, PlainStep

LEMMA ReplDone ==
    ASSUME ReplInv, Done
    PROVE  ReplInv'
<1>1. PICK D \in SUBSET Keys : Searched(D)
  BY DEF ReplInv
<1>2. /\ stack = <<>> /\ pc' = "done" /\ stack' = stack
      /\ UNCHANGED <<reg, cNewData, bCancel, counters, given, uncounted>>
  BY DEF Done
<1>3. Walk(D, stack') /\ (Full(D, stack) => Full(D, stack')) /\ Past(D, stack') = Past(D, stack)
  BY <1>1, <1>2 DEF Searched
<1>4. ReplTyped'
  BY <1>2 DEF ReplInv, ReplTyped, counters, given
<1> QED
  BY <1>1, <1>2, <1>3, <1>4, PlainStep

LEMMA ReplStays ==
    ASSUME ReplInv, UNCHANGED vars
    PROVE  ReplInv'
<1>1. PICK D \in SUBSET Keys : Searched(D)
  BY DEF ReplInv
<1>2. /\ stack' = stack /\ pc' = pc
      /\ UNCHANGED <<reg, cNewData, bCancel, counters, given, uncounted>>
  BY DEF vars, counters, given
<1>3. Walk(D, stack') /\ (Full(D, stack) => Full(D, stack')) /\ Past(D, stack') = Past(D, stack)
  BY <1>1, <1>2 DEF Searched
<1>4. ReplTyped'
  BY <1>2 DEF ReplInv, ReplTyped, counters, given
<1> QED
  BY <1>1, <1>2, <1>3, <1>4, PlainStep
-----------------------------------------------------------------------------
(* The values. *)

\* What is known of a value that is about to be looked at.
LEMMA AtValue ==
    ASSUME ReplInv, In("values"), Top.index <= Len(Vals[Top.key]), NEW D \in SUBSET Keys, Searched(D),
           NEW x, x = value
    PROVE  /\ x \in DOMAIN Type /\ x \notin Past(D, stack) /\ reg[x] = original[x]
           /\ original[x] \in Seq(Nat) /\ WellFormed(Type[x], original[x]) /\ Asked
           /\ cNewData \in [1 .. Cap -> Nat]
           /\ NextItem => /\ Walk(D, stack') /\ (Full(D, stack) => Full(D, stack'))
                          /\ Past(D, stack') = Past(D, stack) \cup {x}
<1>1. Walk(D, stack) /\ Reports(D, Past(D, stack)) /\ ReplTyped
  BY DEF Searched, ReplInv
<1>2. OnTop(D, stack, Len(stack), Top.key, Top.index, "values")
      /\ Top \in Frames /\ Top.index \in Nat \ {0} /\ Top.loop = "values"
      /\ Top = stack[Len(stack)]
  BY <1>1, ReplTop DEF In
<1> DEFINE k == Top.key
           i == Top.index
           g == [key |-> k, loop |-> "values", index |-> i + 1]
<1>3. x = Vals[k][i]
  BY DEF value
<1>4. g \in Frames /\ g.key = k /\ g.loop = "values" /\ g.index = i + 1
  BY <1>2 DEF Frames
<1>5. Walk(D, stack) /\ stack # <<>> /\ k = stack[Len(stack)].key /\ i = stack[Len(stack)].index
      /\ stack[Len(stack)].loop = "values" /\ i <= Len(Vals[k])
  BY <1>1, <1>2 DEF OnTop
<1>6. x \in DOMAIN Type /\ x \notin Past(D, stack)
  <2> HIDE DEF g, k, i
  <2> QED
    BY <1>3, <1>4, <1>5, NextValue
<1>7. reg[x] = original[x]
  BY <1>1, <1>6 DEF Reports
<1>8. ASSUME NextItem
      PROVE  /\ Walk(D, stack') /\ (Full(D, stack) => Full(D, stack'))
             /\ Past(D, stack') = Past(D, stack) \cup {x}
  <2>1. Turn("values", i + 1) /\ i + 1 \in Nat \ {0}
    BY <1>2, <1>8 DEF NextItem
  <2>2. PICK f \in Frames : f.key = k /\ f.loop = "values" /\ f.index = i + 1 /\ stack' = Turned(stack, f)
    BY <1>1, <2>1, TurnIsTurned
  <2> HIDE DEF g, k, i
  <2> QED
    BY <1>3, <1>5, <2>2, NextValue
<1>9. cNewData \in [1 .. Cap -> Nat] /\ original[x] \in Seq(Nat) /\ WellFormed(Type[x], original[x]) /\ Asked
  BY <1>1, <1>6, ReplAsked DEF ReplTyped
<1> QED
  BY <1>6, <1>7, <1>8, <1>9

LEMMA ReplPass ==
    ASSUME ReplInv, Pass
    PROVE  ReplInv'
<1>1. PICK D \in SUBSET Keys : Searched(D)
  BY DEF ReplInv
<1> DEFINE x == value
           r == ReplaceInString(Type[x], reg[x])
<1>2. /\ In("values") /\ Top.index <= Len(Vals[Top.key]) /\ NextItem
      /\ ~ LongEnough(reg[x]) \/ r.how = "same"
      /\ cNewData' = IF LongEnough(reg[x]) THEN Filled(r, Type[x]) ELSE cNewData
      /\ UNCHANGED <<reg, pc, bCancel, counters, given, uncounted>>
  BY DEF Pass
<1> HIDE DEF x
<1>3. /\ x \in DOMAIN Type /\ x \notin Past(D, stack) /\ reg[x] = original[x]
      /\ original[x] \in Seq(Nat) /\ WellFormed(Type[x], original[x]) /\ Asked
      /\ cNewData \in [1 .. Cap -> Nat]
      /\ Walk(D, stack') /\ (Full(D, stack) => Full(D, stack'))
      /\ Past(D, stack') = Past(D, stack) \cup {x}
  BY <1>1, <1>2, AtValue DEF x
<1>4. r = ReplaceInString(Type[x], original[x])
  BY <1>3
<1> HIDE DEF r
<1>5. LongEnough(original[x]) => /\ Filled(r, Type[x]) \in [1 .. Cap -> Nat]
                                 /\ r.how = "same" => Goal(x) = original[x]
  BY <1>3, <1>4, ReplacementIsRight
<1>6. cNewData' \in [1 .. Cap -> Nat] /\ ~ (LongEnough(original[x]) /\ Goal(x) # original[x])
  BY <1>2, <1>3, <1>5
<1>7. /\ ReplTyped /\ OldOrNew /\ dwReplaceCounter = Cardinality(Changed) /\ pc = "search"
      /\ UNCHANGED <<given, bCancel, dwErrorCounter, uncounted>>
      /\ UNCHANGED <<reg, dwReplaceCounter, dwReplaceErrorCounter>>
  BY <1>2 DEF ReplInv, counters, In
<1>8. ReplTyped'
  BY <1>2, <1>6, <1>7 DEF ReplTyped, given
<1> QED
  BY <1>1, <1>3, <1>6, <1>7, <1>8, OneValue

LEMMA ReplReplace ==
    ASSUME ReplInv, Replace
    PROVE  ReplInv'
<1>1. PICK D \in SUBSET Keys : Searched(D)
  BY DEF ReplInv
<1> DEFINE x == value
           r == ReplaceInString(Type[x], reg[x])
<1>2. /\ In("values") /\ Top.index <= Len(Vals[Top.key]) /\ NextItem
      /\ LongEnough(reg[x]) /\ r.how = "set" /\ cNewData' = Filled(r, Type[x])
      /\ \/ /\ reg' = [reg EXCEPT ![x] = Written(r, Type[x])]
            /\ dwReplaceCounter' = dwReplaceCounter + 1 /\ UNCHANGED dwReplaceErrorCounter
         \/ dwReplaceErrorCounter' = dwReplaceErrorCounter + 1 /\ UNCHANGED <<reg, dwReplaceCounter>>
      /\ UNCHANGED <<pc, bCancel, dwErrorCounter, given, uncounted>>
  BY DEF Replace, SetValue
<1> HIDE DEF x
<1>3. /\ x \in DOMAIN Type /\ x \notin Past(D, stack) /\ reg[x] = original[x]
      /\ original[x] \in Seq(Nat) /\ WellFormed(Type[x], original[x]) /\ Asked
      /\ cNewData \in [1 .. Cap -> Nat]
      /\ Walk(D, stack') /\ (Full(D, stack) => Full(D, stack'))
      /\ Past(D, stack') = Past(D, stack) \cup {x}
  BY <1>1, <1>2, AtValue DEF x
<1>4. r = ReplaceInString(Type[x], original[x]) /\ LongEnough(original[x])
  BY <1>2, <1>3
<1> DEFINE w == Written(r, Type[x])
<1> HIDE DEF r
<1>5. /\ Goal(x) # original[x] /\ w # original[x] /\ Alike(x, w, Goal(x))
      /\ w \in Seq(Nat) /\ cNewData' \in [1 .. Cap -> Nat]
  BY <1>2, <1>3, <1>4, ReplacementIsRight
<1> HIDE DEF w
<1>6. /\ ReplTyped /\ OldOrNew /\ dwReplaceCounter = Cardinality(Changed) /\ pc = "search"
      /\ UNCHANGED <<given, bCancel, dwErrorCounter, uncounted>>
      /\ reg \in [DOMAIN Type -> Seq(Nat)] /\ dwReplaceCounter \in Nat /\ dwReplaceErrorCounter \in Nat
  BY <1>2 DEF ReplInv, ReplTyped, In
<1>7. \/ /\ \A v \in DOMAIN Type \ {x} : reg'[v] = reg[v]
         /\ reg'[x] = w
         /\ dwReplaceCounter' = dwReplaceCounter + 1 /\ UNCHANGED dwReplaceErrorCounter
         /\ reg' \in [DOMAIN Type -> Seq(Nat)]
      \/ dwReplaceErrorCounter' = dwReplaceErrorCounter + 1 /\ UNCHANGED <<reg, dwReplaceCounter>>
  BY <1>2, <1>3, <1>5, <1>6 DEF w
<1>8. ReplTyped'
  <2>1. reg' \in [DOMAIN Type -> Seq(Nat)] /\ dwReplaceCounter' \in Nat /\ dwReplaceErrorCounter' \in Nat
    BY <1>6, <1>7
  <2> QED
    BY <1>2, <1>5, <1>6, <2>1 DEF ReplTyped, given
<1>9. \/ /\ UNCHANGED <<reg, dwReplaceCounter>> /\ dwReplaceErrorCounter' = dwReplaceErrorCounter + 1
         /\ LongEnough(original[x]) /\ Goal(x) # original[x]
      \/ /\ \A v \in DOMAIN Type \ {x} : reg'[v] = reg[v]
         /\ reg'[x] # original[x] /\ Alike(x, reg'[x], Goal(x))
         /\ dwReplaceCounter' = dwReplaceCounter + 1 /\ UNCHANGED dwReplaceErrorCounter
  BY <1>4, <1>5, <1>7
<1> QED
  BY <1>1, <1>3, <1>6, <1>8, <1>9, OneValue

LEMMA ReplTooBig ==
    ASSUME ReplInv, TooBig
    PROVE  ReplInv'
<1>1. PICK D \in SUBSET Keys : Searched(D)
  BY DEF ReplInv
<1> DEFINE x == value
           r == ReplaceInString(Type[x], reg[x])
<1>2. /\ In("values") /\ Top.index <= Len(Vals[Top.key]) /\ NextItem
      /\ LongEnough(reg[x]) /\ cNewData' = Filled(r, Type[x])
      /\ pc' \in {"overrun", pc} /\ uncounted' = uncounted + 1
      /\ UNCHANGED <<reg, bCancel, counters, given>>
  BY DEF TooBig
<1> HIDE DEF x
<1>3. /\ x \in DOMAIN Type /\ x \notin Past(D, stack) /\ reg[x] = original[x]
      /\ original[x] \in Seq(Nat) /\ WellFormed(Type[x], original[x]) /\ Asked
      /\ cNewData \in [1 .. Cap -> Nat]
      /\ Walk(D, stack') /\ Past(D, stack') = Past(D, stack) \cup {x}
  BY <1>1, <1>2, AtValue DEF x
<1>4. r = ReplaceInString(Type[x], original[x]) /\ LongEnough(original[x])
  BY <1>2, <1>3
<1> HIDE DEF r
<1>5. cNewData' \in [1 .. Cap -> Nat]
  BY <1>2, <1>3, <1>4, ReplacementIsRight
<1>6. /\ ReplTyped /\ pc = "search" /\ dwErrorCounter \in Nat /\ uncounted \in Nat
      /\ dwErrorCounter' = dwErrorCounter /\ UNCHANGED <<reg, dwReplaceCounter, dwReplaceErrorCounter, given>>
  BY <1>2 DEF ReplInv, ReplTyped, counters, In
<1>7. ReplTyped' /\ dwErrorCounter' + uncounted' = dwErrorCounter + uncounted + 1
  BY <1>2, <1>5, <1>6 DEF ReplTyped, given
<1>8. Past(D, stack) \subseteq Past(D, stack') /\ \E v \in Past(D, stack') : v \notin Past(D, stack)
  BY <1>3
<1> QED
  BY <1>1, <1>3, <1>6, <1>7, <1>8, ErrorStep

LEMMA ReplStep ==
    ASSUME ReplInv, [Next]_vars
    PROVE  ReplInv'
  BY ReplCancel, ReplEndOfValues, ReplEnumValueFails, ReplPass, ReplReplace, ReplTooBig, ReplEndOfKeys,
     ReplEnumKeyFails, ReplOpenKeyFails, ReplOpenKey, ReplDone, ReplStays DEF Next, DoSubKey
-----------------------------------------------------------------------------
(* regrepl: what the invariant says of the program. *)

(* Data that is not longer than the text holds it only if it is the text. *)
LEMMA ShortHasNone ==
    ASSUME Asked, NEW data \in Seq(Nat), Len(data) <= Len(cFrom), data # cFrom
    PROVE  /\ \A k \in Nat \ {0} : ~ IsAt(cFrom, data, k) /\ ~ IsAt(Wide(cFrom), data, k)
           /\ Texts(data, cFrom, cTo, 1) /\ Texts(data, Wide(cFrom), Wide(cTo), 2)
<1>1. /\ Texts(data, cFrom, cTo, 1) /\ Len(cFrom) \in Nat \ {0} /\ Len(data) \in Nat
      /\ cFrom \in Seq(Nat) /\ cTo \in Seq(Nat) /\ cFrom # <<>>
  BY AskedTexts DEF Texts
<1>2. /\ Wide(cFrom) \in Seq(Nat) /\ Wide(cTo) \in Seq(Nat) /\ Len(Wide(cFrom)) = 2 * Len(cFrom)
  BY <1>1, WideIs
<1>3. Wide(cFrom) # <<>>
  BY <1>1, <1>2, EmptySeq
<1>4. ASSUME NEW k \in Nat \ {0}, IsAt(cFrom, data, k) PROVE FALSE
  <2>1. k + Len(cFrom) - 1 <= Len(data) /\ \A p \in 1 .. Len(cFrom) : data[k + p - 1] = cFrom[p]
    BY <1>1, <1>4, TextIsThere
  <2>2. k = 1 /\ Len(data) = Len(cFrom)
    BY <1>1, <2>1
  <2>3. \A p \in 1 .. Len(cFrom) : k + p - 1 = p
    BY <1>1, <2>2
  <2>4. \A p \in 1 .. Len(cFrom) : data[p] = cFrom[p]
    BY <2>1, <2>3
  <2> QED
    BY <1>1, <2>2, <2>4, SeqEqual
<1>5. ASSUME NEW k \in Nat \ {0}, IsAt(Wide(cFrom), data, k) PROVE FALSE
  <2>1. k + Len(Wide(cFrom)) - 1 <= Len(data)
    BY <1>2, <1>3, <1>5, TextIsThere
  <2> QED
    BY <1>1, <1>2, <2>1
<1>6. Texts(data, Wide(cFrom), Wide(cTo), 2)
  BY <1>2, <1>3 DEF Texts
<1> QED
  BY <1>1, <1>4, <1>5, <1>6

LEMMA NowhereIsOld ==
    ASSUME NEW data, NEW from, NEW to, NEW step, Texts(data, from, to, step),
           \A k \in Nat \ {0} : ~ IsAt(from, data, k)
    PROVE  Expected(data, from, to, step) = data
<1>1. data \in Seq(Nat) /\ Len(data) \in Nat /\ Len(data) + 1 \in Nat \ {0} /\ 1 <= Len(data) + 1 /\ 1 \in Nat \ {0}
  BY DEF Texts
<1>2. PICK T : RestIs(T, data, from, to, step) /\ Expected(data, from, to, step) = T[1]
  BY RestExists
<1>3. NoneIn(from, data, 1, Len(data) + 1 - Len(from), step) /\ Within(from, data, 1, Len(data) + 1)
  BY <1>1, EmptySeq DEF NoneIn, Within, Texts
<1>4. T[1] = Part(data, 1, Len(data))
  BY <1>1, <1>2, <1>3, RestStays
<1> QED
  BY <1>1, <1>2, <1>4, PartWhole

(* What the search does not look at holds no text, but for data that is the text. *)
LEMMA OnlyTheText ==
    ASSUME Asked, NEW v, original[v] \in Seq(Nat), WellFormed(Type[v], original[v]),
           Type[v] \in {"sz", "multi", "binary"}
    PROVE  Goal(v) # original[v] /\ ~ IsTheText(v) <=> LongEnough(original[v]) /\ Goal(v) # original[v]
<1> DEFINE data == original[v]
           n == Len(data)
<1>1. cFrom \in Seq(Nat) /\ Len(cFrom) \in Nat \ {0} /\ n \in Nat /\ \A p \in 1 .. Len(cFrom) : cFrom[p] # 0
  BY AskedTexts DEF Texts
<1>2. LongEnough(data) => ~ IsTheText(v)
  BY <1>1 DEF LongEnough, IsTheText
<1>3. ASSUME ~ LongEnough(data), ~ IsTheText(v) PROVE Goal(v) = data
  <2>1. n <= Len(cFrom)
    BY <1>1, <1>3 DEF LongEnough
  <2>2. data # cFrom
    <3>1. CASE Type[v] = "binary"
      BY <1>3, <3>1 DEF IsTheText
    <3>2. CASE Type[v] # "binary" /\ n # 0
      <4>1. data[n] = 0
        <5>1. CASE Type[v] = "sz"
          BY <1>1, <3>2, <5>1 DEF WellFormed
        <5>2. CASE Type[v] = "multi" /\ n = 1
          BY <5>2 DEF WellFormed
        <5>3. CASE Type[v] = "multi" /\ n # 1
          <6>1. n - 1 \in 1 .. n - 1 /\ (n - 1) + 1 = n
            <7> HIDE DEF n
            <7> QED
              BY <1>1, <3>2, <5>3
          <6> QED
            BY <5>3, <6>1 DEF WellFormed
        <5> QED
          BY <3>2, <5>1, <5>2, <5>3
      <4> QED
        BY <1>1, <3>2, <4>1
    <3>3. CASE n = 0
      BY <1>1, <3>3
    <3> QED
      BY <3>1, <3>2, <3>3
  <2>3. /\ \A k \in Nat \ {0} : ~ IsAt(cFrom, data, k) /\ ~ IsAt(Wide(cFrom), data, k)
        /\ Texts(data, cFrom, cTo, 1) /\ Texts(data, Wide(cFrom), Wide(cTo), 2)
    BY <2>1, <2>2, ShortHasNone
  <2>4. Expected(data, cFrom, cTo, 1) = data /\ Expected(data, Wide(cFrom), Wide(cTo), 2) = data
    BY <2>3, NowhereIsOld
  <2> QED
    BY <2>4 DEF Goal
<1> QED
  BY <1>2, <1>3

LEMMA ReplGives ==
    ASSUME ReplInv
    PROVE  TypeOK /\ OldOrNew /\ CountIsRight /\ AllReplaced
<1>1. PICK D \in SUBSET Keys : Searched(D)
  BY DEF ReplInv
<1> DEFINE S == Past(D, stack)
<1>2. ReplTyped /\ OldOrNew /\ dwReplaceCounter = Cardinality(Changed) /\ Walk(D, stack) /\ Reports(D, S)
  BY <1>1 DEF ReplInv, Searched
<1>3. /\ DOMAIN reg = DOMAIN Type /\ dwReplaceCounter \in Nat /\ dwReplaceErrorCounter \in Nat
      /\ dwErrorCounter \in Nat /\ uncounted \in Nat
  BY <1>2 DEF ReplTyped
<1>4. CountIsRight
  BY <1>2, <1>3 DEF CountIsRight, Changed
<1>5. TypeOK
  <2>1. /\ Cardinality(S) \in Nat /\ Cardinality(S) <= Cardinality(DOMAIN Type)
        /\ Cardinality(D) \in Nat /\ Cardinality(D) <= Cardinality(Keys)
        /\ Cardinality(Keys) \in Nat /\ Cardinality(DOMAIN Type) \in Nat
    <3>1. S \in SUBSET (DOMAIN Type)
      BY FiniteParts
    <3> HIDE DEF S
    <3> QED
      BY <3>1, FiniteParts
  <2> HIDE DEF S
  <2>2. /\ dwReplaceCounter + dwReplaceErrorCounter <= Cardinality(S)
        /\ dwErrorCounter + uncounted + 1 <= Cardinality(S) + Cardinality(D)
    BY <1>2 DEF Reports
  <2>3. /\ dwReplaceCounter + dwReplaceErrorCounter <= Cardinality(DOMAIN Type)
        /\ dwErrorCounter + uncounted <= Cardinality(Keys) + Cardinality(DOMAIN Type)
    BY <1>3, <2>1, <2>2
  <2>4. \A i \in DOMAIN stack :
            stack[i].key \in Keys /\ stack[i].loop \in {"values", "keys"} /\ stack[i].index \in Nat
    <3>1. stack \in Seq(Frames)
      BY <1>2 DEF Walk
    <3>2. \A i \in DOMAIN stack : stack[i] \in Frames
      BY <3>1
    <3> QED
      BY <3>2 DEF Frames
  <2>5. Len(cNewData) = Cap
    <3>1. cNewData \in [1 .. Cap -> Nat] /\ Cap \in Nat
      BY <1>2, DataAssumption DEF ReplTyped
    <3>2. cNewData \in Seq(Nat) /\ DOMAIN cNewData = 1 .. Cap
      BY <3>1, SeqDef
    <3> QED
      BY <3>1, <3>2
  <2> QED
    BY <1>2, <1>3, <2>3, <2>4, <2>5 DEF TypeOK, ReplTyped
<1>6. AllReplaced
  <2> SUFFICES ASSUME pc = "done", ~ bCancel, dwErrorCounter + uncounted = 0
               PROVE  Cardinality({v \in DOMAIN reg :
                          reg[v] = original[v] /\ Goal(v) # original[v] /\ ~ IsTheText(v)})
                      = dwReplaceErrorCounter
    BY DEF AllReplaced
  <2>1. stack = <<>> /\ Clean
    BY <1>2 DEF ReplTyped, Clean
  <2>2. Full(D, stack) /\ dwReplaceErrorCounter = Cardinality(Failed(S))
    BY <1>2, <2>1 DEF Reports
  <2>3. S = DOMAIN Type
    BY <1>2, <2>1, <2>2, WalkIsWhole
  <2>4. {v \in DOMAIN reg : reg[v] = original[v] /\ Goal(v) # original[v] /\ ~ IsTheText(v)}
        = Failed(S)
    <3>1. \A v \in DOMAIN Type :
            Goal(v) # original[v] /\ ~ IsTheText(v) <=> LongEnough(original[v]) /\ Goal(v) # original[v]
      BY <1>2, ReplAsked, DataAssumption, OnlyTheText
    <3> HIDE DEF S
    <3> QED
      BY <1>3, <2>3, <3>1 DEF Failed
  <2> HIDE DEF S
  <2> QED
    BY <2>2, <2>4
<1> QED
  BY <1>2, <1>4, <1>5, <1>6

(* Whatever the registry holds, whichever calls fail and wherever the user cancels:
   a value is what it was or its whole replacement, the counter of replacements is the
   number of changed values, and if nothing else went wrong, the values that still
   hold the text at the end are as many as the replacement errors, not counting
   binary data that is the text and nothing else, which the program misses. *)
THEOREM TextIsReplacedOnce == MCSpec => []ReplacedOnce
<1> DEFINE I == running = "regrepl" => ReplInv
<1>1. MCInit => I
  BY ReplInit DEF MCInit
<1>2. I /\ [Repl(Next) \/ Arc(Snap!Next) \/ Cut(Split!Next) \/ Shorten(Trunc!Next)]_mcvars => I'
  <2>1. ASSUME [Repl(Next) \/ Arc(Snap!Next) \/ Cut(Split!Next) \/ Shorten(Trunc!Next)]_mcvars,
               running = "regrepl"
        PROVE  [Next]_vars
    BY <2>1 DEF Repl, Arc, Cut, Shorten, mcvars
  <2> QED
    BY <2>1, OneRuns, ReplStep
<1>3. I => ReplacedOnce
  BY ReplGives DEF ReplacedOnce
<1> QED
  BY <1>1, <1>2, <1>3, PTL DEF MCSpec
==============================================================================
