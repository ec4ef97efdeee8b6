------------------------------ MODULE Fdf_proofs ------------------------------
(***************************************************************************)
(* fdf with every set of switches, on volumes of every size: no contents   *)
(* are lost, names and attributes are kept, and the duplicates and links   *)
(* are in the end as the switches ask.                                     *)
(***************************************************************************)
EXTENDS Fdf, FiniteSetTheorems, SequenceTheorems, WellFoundedInduction, TLAPS

(* A name has one path that the search finds. *)
OncePerName == \A j, k \in 1 .. Len(Visits) : At[Visits[j]] = At[Visits[k]] => j = k

(* What is written differs from other contents of its size in whole blocks. *)
TailFixed(c) == \A d \in Content : Size[d.body] = Size[c.body] => d.tail = c.tail
WholeBlocks == \A c \in Written : TailFixed(c)

Entry == DOMAIN table
Visited == {At[Visits[k]] : k \in 1 .. at - 1}
first(k) == At[table[k].path]
Long(c) == Skips => Size[c.body] > 0

(* The names of the records have been visited. *)
RecordsBefore ==
    /\ Len(table) < at
    /\ \A k \in Entry : \E j \in 1 .. at - 1 : table[k].path = Visits[j]

(* A checksum that is kept is right about the tail of its file, or nobody else's
   tail could be mistaken for it. *)
TailsHold ==
    \A k \in Entry : table[k].sum # NoSum /\ Present(first(k)) =>
        \/ Contents(first(k)).tail = table[k].sum.tail
        \/ TailFixed(Contents(first(k)))

(* What is known of the file in hand. *)
AtWork ==
    /\ pc \in {"same", "copy", "search", "equal"} => at <= Len(Visits)
    /\ pc = "same" => /\ Present(file) /\ Links(dir[file]) > 1
                      /\ \E k \in Entry : fr = table[k] /\ fr.node = dir[file]
    /\ pc = "copy" => ~ Present(file) /\ \E k \in Entry : fr = table[k]
    /\ pc \in {"search", "equal"} => Searched
    /\ pc = "equal" => /\ \E k \in Entry : fr.path = table[k].path
                       /\ Present(At[fr.path])
                       /\ Same(Contents(At[fr.path]), Contents(file))

SafeInv == TypeOK /\ RecordsBefore /\ TailsHold /\ AtWork /\ NothingIsLost
-----------------------------------------------------------------------------
(* As long as nobody else has changed a file. *)

(* The file of a record is there, and its contents are those of the node that it
   was found to be. *)
RecordsHold ==
    steps = 0 => \A k \in Entry : /\ Present(first(k))
                                  /\ Same(data[table[k].node], Contents(first(k)))

NamesHold ==
    "d" \notin opts /\ ("c" \in opts => steps = 0) =>
        /\ \A f \in Name : was[f] # NoContent /\ ~ (pc = "copy" /\ f = file) => Same(was[f], Contents(f))
        /\ pc = "copy" /\ was[file] # NoContent => Same(was[file], Contents(At[fr.path]))

NamesInv == SafeInv /\ RecordsHold /\ NamesHold /\ (pc = "copy" => "c" \in opts)
-----------------------------------------------------------------------------
(* What has been done so far. *)

SumsRight ==
    \A k \in Entry : /\ table[k].size = Size[Contents(first(k)).body]
                     /\ Long(Contents(first(k)))
                     /\ table[k].sum # NoSum => table[k].sum = Sum(Contents(first(k)))

Represented ==
    \A f \in Visited : Present(f) /\ Long(Contents(f)) =>
        \E k \in Entry : Same(Contents(f), Contents(first(k)))

Different ==
    \A j, k \in Entry : Same(Contents(first(j)), Contents(first(k))) => j = k

SearchedSoFar ==
    pc = "search" => \A k \in Entry : k < i => ~ Same(Contents(file), Contents(first(k)))

Many(c) == Cardinality({h \in Name : Same(c, Contents(h))}) > MaxLinks
Mode == opts \cap {"c", "d", "l"}

Split ==
    \A k \in Entry : /\ dir[first(k)] = table[k].node
                     /\ \A f \in Visited : dir[f] = table[k].node => f = first(k)

Deleted ==
    \A k \in Entry : /\ dir[first(k)] = table[k].node
                     /\ \A f \in Visited : Same(Contents(f), Contents(first(k))) => dir[f] = dir[first(k)]

Linked ==
    \A k \in Entry :
        \/ Many(Contents(first(k)))
        \/ /\ dir[first(k)] = table[k].node
           /\ \A f \in Visited : Same(Contents(f), Contents(first(k))) => dir[f] = dir[first(k)]

Single ==
    \A k \in Entry : /\ dir[first(k)] = table[k].node
                     /\ \A f \in Visited : Same(Contents(f), Contents(first(k))) => f = first(k)

(* A read-only file has been in the way, and still is. *)
InTheWay == ~ Forced /\ \E n \in Node : readonly[n]

DoneSoFar ==
    steps = 0 =>
        /\ SumsRight /\ Represented /\ Different /\ SearchedSoFar
        /\ Mode = {"c"} => Split
        /\ Mode = {"d"} => InTheWay \/ Deleted
        /\ Mode = {"l"} => InTheWay \/ Linked
        /\ Mode = {"d", "l"} => InTheWay \/ Single

DoneInv == NamesInv /\ DoneSoFar
-----------------------------------------------------------------------------
(* Contents, and what is compared of them. *)

LEMMA ComparedIs ==
    ASSUME NEW c \in Content, NEW d \in Content
    PROVE  Compared(c) = Compared(d) <=>
               (Skips \/ c.head = d.head) /\ c.body = d.body /\ c.tail = d.tail
<1>1. /\ c = [head |-> c.head, body |-> c.body, tail |-> c.tail]
      /\ d = [head |-> d.head, body |-> d.body, tail |-> d.tail]
  BY ContentAssumption
<1>2. CASE Skips
  <2>1. /\ Compared(c) = [head |-> 0, body |-> c.body, tail |-> c.tail]
        /\ Compared(d) = [head |-> 0, body |-> d.body, tail |-> d.tail]
    BY <1>1, <1>2 DEF Compared
  <2> QED
    BY <1>2, <2>1
<1>3. CASE ~ Skips
  <2>1. Compared(c) = c /\ Compared(d) = d
    BY <1>3 DEF Compared
  <2> QED
    BY <1>1, <1>3, <2>1
<1> QED
  BY <1>2, <1>3

LEMMA SumIs ==
    ASSUME NEW c \in Content
    PROVE  Sum(c) = [head |-> IF Skips THEN 0 ELSE c.head, body |-> Hash[c.body], tail |-> c.tail]
<1>1. c = [head |-> c.head, body |-> c.body, tail |-> c.tail]
  BY ContentAssumption
<1>2. CASE Skips
  <2>1. Compared(c) = [head |-> 0, body |-> c.body, tail |-> c.tail]
    BY <1>1, <1>2 DEF Compared
  <2> QED
    BY <1>2, <2>1 DEF Sum
<1>3. CASE ~ Skips
  <2>1. Compared(c) = [head |-> c.head, body |-> c.body, tail |-> c.tail]
    BY <1>1, <1>3 DEF Compared
  <2> QED
    BY <1>3, <2>1 DEF Sum
<1> QED
  BY <1>2, <1>3

LEMMA WithoutTail ==
    ASSUME NEW c \in Content, NEW r, r = Compared(c)
    PROVE  [r EXCEPT !.tail = 0] = [head |-> IF Skips THEN 0 ELSE c.head, body |-> c.body, tail |-> 0]
<1>1. c = [head |-> c.head, body |-> c.body, tail |-> c.tail]
  BY ContentAssumption
<1>2. CASE Skips
  <2>1. r = [head |-> 0, body |-> c.body, tail |-> c.tail]
    BY <1>1, <1>2 DEF Compared
  <2> QED
    BY <1>2, <2>1
<1>3. CASE ~ Skips
  <2>1. r = [head |-> c.head, body |-> c.body, tail |-> c.tail]
    BY <1>1, <1>3 DEF Compared
  <2> QED
    BY <1>3, <2>1
<1> QED
  BY <1>2, <1>3

LEMMA BlocksIs ==
    ASSUME NEW c \in Content, NEW d \in Content
    PROVE  SameBlocks(c, d) <=> (Skips \/ c.head = d.head) /\ c.body = d.body
<1>1. PICK r, q : r = Compared(c) /\ q = Compared(d)
  OBVIOUS
<1>2. [r EXCEPT !.tail = 0] = [head |-> IF Skips THEN 0 ELSE c.head, body |-> c.body, tail |-> 0]
  BY <1>1, WithoutTail
<1>3. [q EXCEPT !.tail = 0] = [head |-> IF Skips THEN 0 ELSE d.head, body |-> d.body, tail |-> 0]
  BY <1>1, WithoutTail
<1>4. SameBlocks(c, d) <=> Size[c.body] = Size[d.body] /\ [r EXCEPT !.tail = 0] = [q EXCEPT !.tail = 0]
  BY <1>1, Zenon DEF SameBlocks
<1> QED
  BY <1>2, <1>3, <1>4

(* Same is an equivalence of contents. *)
LEMMA SameIs ==
    ASSUME NEW c \in Content \cup {NoContent}, NEW d \in Content \cup {NoContent}
    PROVE  Same(c, d) <=> /\ c \in Content /\ d \in Content
                          /\ (Skips \/ c.head = d.head) /\ c.body = d.body /\ c.tail = d.tail
<1>1. NoContent \notin Content
  BY ContentAssumption
<1>2. CASE c \in Content /\ d \in Content
  BY <1>1, <1>2, ComparedIs DEF Same
<1>3. CASE ~ (c \in Content /\ d \in Content)
  BY <1>3 DEF Same
<1> QED
  BY <1>2, <1>3

LEMMA SameTransitive ==
    ASSUME NEW b \in Content \cup {NoContent}, NEW c \in Content \cup {NoContent},
           NEW d \in Content \cup {NoContent}, Same(b, c)
    PROVE  Same(c, b) /\ (Same(c, d) <=> Same(b, d))
  BY DEF Same

LEMMA ContentsType ==
    ASSUME TypeOK, NEW f \in Name
    PROVE  /\ Contents(f) \in Content \cup {NoContent}
           /\ Present(f) <=> dir[f] \in Node
           /\ Present(f) <=> Contents(f) \in Content
           /\ Present(f) => Contents(f) = data[dir[f]]
           /\ \A c : Same(c, Contents(f)) \/ Same(Contents(f), c) => Present(f)
           /\ Present(f) <=> Same(Contents(f), Contents(f))
  BY NodesAssumption, ContentAssumption DEF TypeOK, Contents, Present, Same

(* Nothing about contents changes but the contents. *)
LEMMA SameNext ==
    ASSUME UNCHANGED opts
    PROVE  /\ Skips' = Skips /\ Forced' = Forced /\ Mode' = Mode
           /\ \A c, d : Same(c, d)' <=> Same(c, d)
           /\ \A c : Long(c)' <=> Long(c)
           /\ \A c : Sum(c)' = Sum(c)
           /\ Record' = Record
  BY DEF Skips, Forced, Mode, Same, Compared, Long, Sum, Record
-----------------------------------------------------------------------------
(* Nodes, names and the table. *)

LEMMA LeastNatural ==
    ASSUME NEW S \in SUBSET Nat, S # {}
    PROVE  Min(S) \in S /\ \A y \in S : Min(S) <= y
<1> DEFINE R == {ss \in Nat \X Nat : ss[1] < ss[2]}
<1>1. IsWellFoundedOn(R, Nat)
  BY NatLessThanWellFounded DEF OpToRel
<1>2. \A a, b \in Nat : a < b => <<a, b>> \in R
  OBVIOUS
<1> HIDE DEF R
<1>3. PICK x \in S : \A y \in S : ~ (<<y, x>> \in R)
  BY <1>1, WFMin
<1>4. \A y \in S : ~ (y < x)
  BY <1>2, <1>3
<1>5. \A y \in S : x <= y
  BY <1>4
<1> QED
  BY <1>5 DEF Min

LEMMA FreeNode ==
    ASSUME TypeOK
    PROVE  /\ Min(Unused) \in Node
           /\ \A f \in Name : dir[f] # Min(Unused)
           /\ \A k \in Entry : table[k].node # Min(Unused)
<1> DEFINE A == {dir[f] : f \in Name}
           n == Len(table)
           t == [k \in 1 .. n |-> table[k].node]
           B == {table[k].node : k \in 1 .. n}
<1>1. table \in Seq(Record) /\ n \in Nat /\ n <= Len(Visits) /\ Len(Visits) \in Nat
  BY VisitsAssumption DEF TypeOK
<1>2. IsFiniteSet(A) /\ Cardinality(A) <= Cardinality(Name)
  <2>1. dir \in Surjection(Name, A)
    BY DEF TypeOK, Surjection
  <2> HIDE DEF A
  <2> QED
    BY <2>1, NodesAssumption, FS_Surjection
<1>3. IsFiniteSet(B) /\ Cardinality(B) <= n
  <2>1. t \in Surjection(1 .. n, B)
    BY DEF Surjection
  <2> HIDE DEF B, t, n
  <2>2. IsFiniteSet(1 .. n) /\ Cardinality(1 .. n) = n
    BY <1>1, FS_Interval
  <2> QED
    BY <2>1, <2>2, FS_Surjection
<1>4. IsFiniteSet(A \cup B) /\ Cardinality(A \cup B) <= Cardinality(Name) + n
  <2> HIDE DEF A, B, n
  <2>1. /\ IsFiniteSet(A \cup B) /\ IsFiniteSet(A \cap B)
        /\ Cardinality(A \cup B) = Cardinality(A) + Cardinality(B) - Cardinality(A \cap B)
    BY <1>2, <1>3, FS_Union, FS_Intersection
  <2>2. /\ Cardinality(A) \in Nat /\ Cardinality(B) \in Nat /\ Cardinality(A \cap B) \in Nat
        /\ Cardinality(Name) \in Nat
    BY <1>2, <1>3, <2>1, NodesAssumption, FS_CardinalityType
  <2> QED
    BY <1>1, <1>2, <1>3, <2>1, <2>2
<1>5. Unused = Node \ (A \cup B)
  BY DEF Unused
<1>6. Unused # {}
  <2> HIDE DEF A, B, n
  <2> SUFFICES ASSUME Node \subseteq A \cup B PROVE FALSE
    BY <1>5
  <2>1. Cardinality(Node) <= Cardinality(A \cup B)
    BY <1>4, FS_Subset
  <2>2. /\ Cardinality(Node) \in Nat /\ Cardinality(A \cup B) \in Nat /\ Cardinality(Name) \in Nat
    BY <1>4, NodesAssumption, FS_CardinalityType
  <2> QED
    BY <1>1, <1>4, <2>1, <2>2, NodesAssumption
<1>7. Min(Unused) \in Unused
  <2>1. Unused \in SUBSET Nat
    BY NodesAssumption DEF Unused
  <2> QED
    BY <1>6, <2>1, LeastNatural
<1>8. Entry = 1 .. n
  BY <1>1 DEF Entry
<1> QED
  BY <1>5, <1>7, <1>8

LEMMA RemoveAtIs ==
    ASSUME NEW S, NEW t \in Seq(S), NEW k \in 1 .. Len(t)
    PROVE  /\ RemoveAt(t, k) \in Seq(S) /\ Len(RemoveAt(t, k)) = Len(t) - 1
           /\ \A j \in 1 .. Len(t) - 1 : RemoveAt(t, k)[j] = IF j < k THEN t[j] ELSE t[j + 1]
<1> DEFINE a == SubSeq(t, 1, k - 1)
           b == SubSeq(t, k + 1, Len(t))
<1>1. Len(t) \in Nat /\ k \in Nat /\ k >= 1 /\ k <= Len(t)
  OBVIOUS
<1>2. a \in Seq(S) /\ Len(a) = k - 1 /\ \A j \in 1 .. k - 1 : a[j] = t[j]
  BY <1>1, SubSeqProperties
<1>3. b \in Seq(S) /\ Len(b) = Len(t) - k /\ \A j \in 1 .. Len(t) - k : b[j] = t[k + j]
  BY <1>1, SubSeqProperties
<1> HIDE DEF a, b
<1>0. /\ a \o b \in Seq(S) /\ Len(a \o b) = Len(a) + Len(b)
      /\ \A j \in 1 .. Len(a) + Len(b) : (a \o b)[j] = IF j <= Len(a) THEN a[j] ELSE b[j - Len(a)]
  BY <1>2, <1>3, ConcatProperties
<1>4. /\ a \o b \in Seq(S) /\ Len(a \o b) = Len(t) - 1
      /\ \A j \in 1 .. Len(t) - 1 : (a \o b)[j] = IF j < k THEN a[j] ELSE b[j - (k - 1)]
  BY <1>0, <1>1, <1>2, <1>3
<1>5. RemoveAt(t, k) = a \o b
  BY DEF RemoveAt, a, b
<1>6. ASSUME NEW j \in 1 .. Len(t) - 1 PROVE (a \o b)[j] = IF j < k THEN t[j] ELSE t[j + 1]
  <2>1. CASE j < k
    BY <1>1, <1>2, <1>4, <2>1
  <2>2. CASE ~ (j < k)
    <3>1. j - (k - 1) \in 1 .. Len(t) - k /\ k + (j - (k - 1)) = j + 1
      BY <1>1, <2>2
    <3> QED
      BY <1>3, <1>4, <2>2, <3>1
  <2> QED
    BY <2>1, <2>2
<1> QED
  BY <1>4, <1>5, <1>6

LEMMA PrependIs ==
    ASSUME NEW S, NEW t \in Seq(S), NEW r \in S
    PROVE  /\ <<r>> \o t \in Seq(S) /\ Len(<<r>> \o t) = Len(t) + 1
           /\ (<<r>> \o t)[1] = r
           /\ \A j \in 1 .. Len(t) : (<<r>> \o t)[j + 1] = t[j]
           /\ \A j \in 2 .. Len(t) + 1 : j - 1 \in 1 .. Len(t) /\ (<<r>> \o t)[j] = t[j - 1]
<1>1. Len(t) \in Nat /\ <<r>> \in Seq(S) /\ Len(<<r>>) = 1 /\ <<r>>[1] = r
  OBVIOUS
<1>2. /\ <<r>> \o t \in Seq(S) /\ Len(<<r>> \o t) = Len(t) + 1
      /\ \A j \in 1 .. Len(t) + 1 : (<<r>> \o t)[j] = IF j <= 1 THEN <<r>>[j] ELSE t[j - 1]
  BY <1>1
<1> QED
  BY <1>1, <1>2

(* A file that has more than one link has another name. *)
LEMMA OtherLink ==
    ASSUME NEW f \in Name, Links(dir[f]) > 1
    PROVE  \E g \in Name \ {f} : dir[g] = dir[f]
<1> SUFFICES ASSUME \A g \in Name \ {f} : dir[g] # dir[f] PROVE FALSE
  OBVIOUS
<1>1. {g \in Name : dir[g] = dir[f]} = {f}
  OBVIOUS
<1>2. Cardinality({f}) = 1
  BY FS_Singleton
<1> QED
  BY <1>1, <1>2 DEF Links

LEMMA TwoLinks ==
    ASSUME NEW f \in Name, NEW g \in Name \ {f}, dir[g] = dir[f]
    PROVE  Links(dir[f]) > 1
<1> DEFINE S == {h \in Name : dir[h] = dir[f]}
<1>1. IsFiniteSet({f, g}) /\ Cardinality({f, g}) = 2
  <2>1. IsFiniteSet({f}) /\ Cardinality({f}) = 1
    BY FS_Singleton
  <2>2. {f, g} = {f} \cup {g} /\ g \notin {f}
    OBVIOUS
  <2> QED
    BY <2>1, <2>2, FS_AddElement
<1>2. IsFiniteSet(S)
  BY NodesAssumption, FS_Subset
<1>3. {f, g} \subseteq S
  OBVIOUS
<1>4. Cardinality({f, g}) <= Cardinality(S) /\ Cardinality(S) \in Nat
  <2> HIDE DEF S
  <2> QED
    BY <1>2, <1>3, FS_Subset, FS_CardinalityType
<1> QED
  BY <1>1, <1>4 DEF Links
-----------------------------------------------------------------------------
(* Types. *)

LEMMA FileIs ==
    ASSUME TypeOK, at <= Len(Visits)
    PROVE  /\ file \in Name /\ path \in Path
           /\ at + 1 \in 1 .. Len(Visits) + 1 /\ at \in 1 .. Len(Visits) /\ Len(Visits) \in Nat
<1>1. Len(Visits) \in Nat /\ at \in 1 .. Len(Visits)
  BY VisitsAssumption DEF TypeOK
<1> QED
  BY <1>1, VisitsAssumption DEF file, path, Path

LEMMA TableIs ==
    ASSUME TypeOK
    PROVE  /\ table \in Seq(Record) /\ Len(table) \in Nat /\ Entry = 1 .. Len(table)
           /\ Len(table) <= Len(Visits) /\ Len(Visits) \in Nat
           /\ \A k \in Entry : /\ table[k] \in Record /\ table[k].path \in Path /\ table[k].node \in Node
                               /\ first(k) \in Name
<1>1. table \in Seq(Record) /\ Len(table) \in Nat /\ Len(table) <= Len(Visits) /\ Len(Visits) \in Nat
  BY VisitsAssumption DEF TypeOK
<1>2. Entry = 1 .. Len(table) /\ \A k \in Entry : table[k] \in Record
  BY <1>1, ElementOfSeq DEF Entry
<1>3. \A r \in Record : r.path \in Path /\ r.node \in Node /\ At[r.path] \in Name
  BY VisitsAssumption DEF Record, Path
<1> QED
  BY <1>1, <1>2, <1>3 DEF first

LEMMA LinkFound ==
    ASSUME TypeOK, FindLink
    PROVE  \E k \in Entry : fr' = table[k] /\ table[k].node = dir[file]
<1>1. SameFile \in SUBSET Nat /\ SameFile # {}
  BY DEF FindLink, Seen, SameFile
<1>2. Min(SameFile) \in SameFile
  BY <1>1, LeastNatural
<1>3. Entry = 1 .. Len(table)
  BY TableIs
<1> QED
  BY <1>2, <1>3 DEF FindLink, SameFile

LEMMA TypeNext ==
    ASSUME TypeOK, AtWork, RecordsBefore, [Next]_vars
    PROVE  TypeOK'
<1>1. /\ table \in Seq(Record) /\ Len(table) \in Nat /\ Len(table) <= Len(Visits) /\ Entry = 1 .. Len(table)
      /\ \A k \in Entry : table[k] \in Record /\ first(k) \in Name
      /\ Len(Visits) \in Nat
  BY TableIs
<1>2. Record' = Record
  <2>1. UNCHANGED opts
    BY DEF Next, Fdf, FindLink, StartSearch, PassOver, SplitUnlink, SplitCopy, LinkDeleted, Skip, DropRecord,
           Compare, Add, EqualDeleted, EqualLinked, EqualShown, Break, Users, Stay, vars
  <2> QED
    BY <2>1, SameNext
<1>3. at <= Len(Visits) => file \in Name /\ path \in Path /\ at + 1 \in 1 .. Len(Visits) + 1
  BY FileIs
<1>4. fr \in Record => At[fr.path] \in Name
  BY VisitsAssumption DEF Record, Path
<1>u. /\ Min(Unused) \in Node /\ \A b \in BOOLEAN, n \in Node : [readonly EXCEPT ![n] = b] \in [Node -> BOOLEAN]
      /\ \A f \in Name, n \in Node \cup {NoNode} : [dir EXCEPT ![f] = n] \in [Name -> Node \cup {NoNode}]
      /\ \A c \in Content, n \in Node : [data EXCEPT ![n] = c] \in [Node -> Content]
  BY FreeNode DEF TypeOK
<1>a. CASE UNCHANGED vars
  BY <1>a, <1>2 DEF vars, disk, TypeOK
<1>b. CASE FindLink
  <2>1. fr' \in Record
    BY <1>1, <1>b, LinkFound
  <2> QED
    BY <1>b, <1>2, <2>1 DEF FindLink, Stay, disk, TypeOK
<1>c. CASE StartSearch \/ Break
  BY <1>1, <1>2, <1>c DEF StartSearch, Break, Stay, disk, TypeOK
<1>d. CASE PassOver \/ EqualShown
  BY <1>2, <1>3, <1>d DEF PassOver, EqualShown, Arrived, Leave, Stay, disk, TypeOK, AtWork
<1>e. CASE SplitUnlink
  <2>1. /\ file \in Name /\ dir[file] \in Node /\ fr \in Record /\ At[fr.path] \in Name
    BY <1>3, <1>4, <1>e, ContentsType DEF SplitUnlink, AtWork, TypeOK
  <2>2. attr' \in BOOLEAN /\ dir' \in [Name -> Node \cup {NoNode}]
    BY <1>e, <1>u, <2>1 DEF SplitUnlink, Unlink, TypeOK
  <2>3. readonly' \in [Node -> BOOLEAN]
    <3>1. [readonly EXCEPT ![dir[file]] = FALSE] \in [Node -> BOOLEAN]
      BY <1>u, <2>1
    <3>2. Present(At[fr.path]) => dir[At[fr.path]] \in Node
      BY <2>1, ContentsType
    <3> QED
      BY <1>e, <2>1, <2>2, <3>1, <3>2 DEF SplitUnlink
  <2> QED
    BY <1>2, <1>e, <2>1, <2>2, <2>3 DEF SplitUnlink, Stay, TypeOK
<1>f. CASE SplitCopy
  <2>1. file \in Name /\ fr \in Record /\ At[fr.path] \in Name /\ at + 1 \in 1 .. Len(Visits) + 1
    BY <1>3, <1>4, <1>f DEF SplitCopy, AtWork, TypeOK
  <2>2. dir' \in [Name -> Node \cup {NoNode}] /\ data' \in [Node -> Content] /\ readonly' \in [Node -> BOOLEAN]
    <3>1. CASE Present(At[fr.path])
      <4>1. Contents(At[fr.path]) \in Content /\ readonly[dir[At[fr.path]]] \in BOOLEAN
        BY <2>1, <3>1, ContentsType DEF TypeOK
      <4> QED
        BY <1>f, <1>u, <2>1, <3>1, <4>1 DEF SplitCopy
    <3>2. CASE ~ Present(At[fr.path])
      BY <1>f, <3>2 DEF SplitCopy, disk, TypeOK
    <3> QED
      BY <3>1, <3>2
  <2> QED
    BY <1>2, <1>f, <2>1, <2>2 DEF SplitCopy, Leave, Stay, TypeOK
<1>g. CASE LinkDeleted
  <2>1. /\ file \in Name /\ dir[file] \in Node /\ fr \in Record /\ At[fr.path] \in Name
        /\ at + 1 \in 1 .. Len(Visits) + 1
    BY <1>3, <1>4, <1>g, ContentsType DEF LinkDeleted, AtWork, TypeOK
  <2>2. dir' \in [Name -> Node \cup {NoNode}]
    BY <1>g, <1>u, <2>1 DEF LinkDeleted, Unlink, TypeOK
  <2>3. readonly' \in [Node -> BOOLEAN]
    <3>1. [readonly EXCEPT ![dir[file]] = FALSE] \in [Node -> BOOLEAN]
      BY <1>u, <2>1
    <3>2. Present(At[fr.path]) => dir[At[fr.path]] \in Node /\ readonly[dir[At[fr.path]]] \in BOOLEAN
      BY <2>1, ContentsType DEF TypeOK
    <3>3. readonly \in [Node -> BOOLEAN]
      BY DEF TypeOK
    <3> QED
      BY <1>g, <2>1, <3>1, <3>2, <3>3 DEF LinkDeleted
  <2> QED
    BY <1>2, <1>g, <2>1, <2>2, <2>3 DEF LinkDeleted, Leave, Stay, TypeOK
<1>h. CASE Skip
  BY <1>1, <1>2, <1>h DEF Skip, Searching, Stay, disk, TypeOK
<1>i. CASE DropRecord
  <2>1. i \in 1 .. Len(table)
    BY <1>1, <1>i DEF DropRecord, Searching, TypeOK
  <2>2. table' \in Seq(Record) /\ Len(table') = Len(table) - 1
    BY <1>1, <1>i, <2>1, RemoveAtIs DEF DropRecord
  <2> QED
    BY <1>1, <1>2, <1>i, <2>2 DEF DropRecord, Stay, disk, TypeOK
<1>j. CASE Compare
  <2>1. i \in 1 .. Len(table) /\ here \in Record /\ first(i) = At[here.path] /\ first(i) \in Name
    BY <1>1, <1>j DEF Compare, Searching, TypeOK, here, first
  <2>2. SumOf(here) \in {Sum(c) : c \in Content}
    <3>1. CASE here.sum = NoSum
      <4>1. Contents(first(i)) \in Content
        BY <1>j, <2>1, <3>1, ContentsType DEF Compare, Opens
      <4> QED
        BY <2>1, <3>1, <4>1 DEF SumOf
    <3>2. CASE here.sum # NoSum
      BY <2>1, <3>2 DEF SumOf, Record
    <3> QED
      BY <3>1, <3>2
  <2>3. \A r \in Record, s \in {Sum(c) : c \in Content} : [r EXCEPT !.sum = s] \in Record
    BY DEF Record
  <2>4. [here EXCEPT !.sum = SumOf(here)] \in Record
    BY <2>1, <2>2, <2>3
  <2>5. table' = [table EXCEPT ![i] = [here EXCEPT !.sum = SumOf(here)]]
    BY <1>j DEF Compare, here
  <2>6. table' \in Seq(Record) /\ Len(table') = Len(table)
    BY <1>1, <2>1, <2>4, <2>5
  <2>7. i' \in 1 .. Len(Visits) + 1 /\ pc' \in {"search", "equal"} /\ (pc' = "equal" => fr' = here)
    BY <1>1, <1>j, <2>1 DEF Compare, Searching
  <2> QED
    BY <1>1, <1>2, <1>j, <2>1, <2>6, <2>7 DEF Compare, Stay, disk, TypeOK
<1>k. CASE Add
  <2>1. file \in Name /\ path \in Path /\ dir[file] \in Node /\ Contents(file) \in Content
        /\ at + 1 \in 1 .. Len(Visits) + 1
    BY <1>3, <1>k, ContentsType DEF Add, AtWork, Searched
  <2>2. [path |-> path, node |-> dir[file], size |-> Size[Contents(file).body],
         sum |-> IF \E r \in Range(table) : Alike(r) THEN Sum(Contents(file)) ELSE NoSum] \in Record
    BY <2>1, ContentAssumption DEF Record
  <2>3. table' \in Seq(Record) /\ Len(table') = Len(table) + 1
    BY <1>1, <1>k, <2>2, PrependIs DEF Add
  <2>4. Len(table) + 1 <= Len(Visits)
    BY <1>1, <1>3, <1>k DEF Add, AtWork, RecordsBefore, TypeOK
  <2> QED
    BY <1>2, <1>k, <2>1, <2>3, <2>4 DEF Add, Leave, Stay, disk, TypeOK
<1>l. CASE EqualDeleted
  <2>1. file \in Name /\ dir[file] \in Node /\ at + 1 \in 1 .. Len(Visits) + 1
    BY <1>3, <1>l, ContentsType DEF EqualDeleted, AtWork, Searched
  <2>2. Cleared \in [Node -> BOOLEAN]
    BY <1>u, <2>1 DEF Cleared, TypeOK
  <2>3. dir' \in [Name -> Node \cup {NoNode}] /\ readonly' \in [Node -> BOOLEAN]
    BY <1>l, <1>u, <2>1, <2>2 DEF EqualDeleted, Unlink, TypeOK
  <2> QED
    BY <1>2, <1>l, <2>1, <2>3 DEF EqualDeleted, Leave, Stay, TypeOK
<1>m. CASE EqualLinked
  <2>1. /\ file \in Name /\ dir[file] \in Node /\ at + 1 \in 1 .. Len(Visits) + 1
        /\ At[fr.path] \in Name /\ dir[At[fr.path]] \in Node
    BY <1>3, <1>4, <1>m, ContentsType DEF EqualLinked, AtWork, Searched, TypeOK
  <2>2. Cleared \in [Node -> BOOLEAN]
    BY <1>u, <2>1 DEF Cleared, TypeOK
  <2>3. readonly' \in [Node -> BOOLEAN]
    BY <1>m, <2>2 DEF EqualLinked, TypeOK
  <2>4. dir' \in [Name -> Node \cup {NoNode}]
    BY <1>m, <1>u, <2>1 DEF EqualLinked, Link, TypeOK
  <2> QED
    BY <1>2, <1>m, <2>1, <2>3, <2>4 DEF EqualLinked, Leave, Stay, TypeOK
<1>n. CASE Users
  <2>1. /\ pc = "next" /\ steps' \in 0 .. MaxUserSteps
        /\ UNCHANGED <<opts, table, pc, at, i, fr, attr>>
        /\ was' = [f \in Name |-> IF dir'[f] = NoNode THEN NoContent ELSE data'[dir'[f]]]
    BY <1>n, BoundsAssumption DEF Users, TypeOK
  <2>2. dir' \in [Name -> Node \cup {NoNode}] /\ data' \in [Node -> Content] /\ readonly' \in [Node -> BOOLEAN]
    <3>1. ASSUME NEW n \in Node, NEW c \in Written, Write(n, c)
          PROVE  dir' \in [Name -> Node \cup {NoNode}] /\ data' \in [Node -> Content] /\
              readonly' \in [Node -> BOOLEAN]
      BY <1>u, <3>1, ContentAssumption DEF Write, TypeOK
    <3>2. ASSUME NEW f \in Name, Erase(f)
          PROVE  dir' \in [Name -> Node \cup {NoNode}] /\ data' \in [Node -> Content] /\
              readonly' \in [Node -> BOOLEAN]
      BY <1>u, <3>2 DEF Erase, Unlink, TypeOK
    <3>3. ASSUME NEW f \in Name, NEW c \in Written, Replace(f, c)
          PROVE  dir' \in [Name -> Node \cup {NoNode}] /\ data' \in [Node -> Content] /\
              readonly' \in [Node -> BOOLEAN]
      BY <1>u, <3>3, ContentAssumption DEF Replace
    <3> QED
      BY <1>n, <3>1, <3>2, <3>3 DEF Users
  <2>3. was' \in [Name -> Content \cup {NoContent}]
    BY <2>1, <2>2
  <2> QED
    BY <1>2, <2>1, <2>2, <2>3 DEF TypeOK
<1> QED
  BY <1>a, <1>b, <1>c, <1>d, <1>e, <1>f, <1>g, <1>h, <1>i, <1>j, <1>k, <1>l, <1>m, <1>n DEF Next, Fdf
-----------------------------------------------------------------------------
(* What a step does to the contents of the names. *)

LEMMA RecordIsElsewhere ==
    ASSUME TypeOK, RecordsBefore, OncePerName, at <= Len(Visits), NEW k \in Entry
    PROVE  first(k) # file /\ table[k].path # path
<1>1. PICK j \in 1 .. at - 1 : table[k].path = Visits[j]
  BY DEF RecordsBefore
<1>2. j \in 1 .. Len(Visits) /\ at \in 1 .. Len(Visits) /\ j # at
  BY FileIs
<1>3. At[Visits[j]] # At[Visits[at]]
  BY <1>2 DEF OncePerName
<1> QED
  BY <1>1, <1>3 DEF first, file, path

LEMMA FoundIsElsewhere ==
    ASSUME TypeOK, RecordsBefore, OncePerName, AtWork, pc \in {"same", "copy", "equal"}
    PROVE  At[fr.path] \in Name \ {file} /\ fr.path # path
<1>1. PICK k \in Entry : fr.path = table[k].path
  BY DEF AtWork
<1>2. at <= Len(Visits)
  BY DEF AtWork
<1> QED
  BY <1>1, <1>2, RecordIsElsewhere, TableIs DEF first

(* A name keeps its contents, or gets others that are the same. *)
Keeps(g) == Contents(g)' = Contents(g) \/ Same(Contents(g), Contents(g)')

LEMMA DirKeeps ==
    ASSUME TypeOK, NEW g \in Name, dir'[g] = dir[g], dir[g] \in Node => data'[dir[g]] = data[dir[g]]
    PROVE  Contents(g)' = Contents(g)
  BY DEF TypeOK, Contents, Present

(* One name is deleted. *)
LEMMA UnlinkKeeps ==
    ASSUME TypeOK, NEW f \in Name, Unlink(f), UNCHANGED data
    PROVE  /\ \A g \in Name \ {f} : dir'[g] = dir[g] /\ Contents(g)' = Contents(g)
           /\ dir'[f] = NoNode /\ Contents(f)' = NoContent
<1>1. \A g \in Name : dir'[g] = IF g = f THEN NoNode ELSE dir[g]
  BY DEF Unlink, TypeOK
<1> QED
  BY <1>1, DirKeeps DEF Contents, Present

LEMMA LinkKeeps ==
    ASSUME TypeOK, NEW f \in Name, NEW h \in Name, Present(f), Same(Contents(f), Contents(h)),
           Link(f, h), UNCHANGED data
    PROVE  /\ \A g \in Name : Keeps(g)
           /\ \A g \in Name : dir'[g] = IF g = h THEN dir[f] ELSE dir[g]
<1>1. \A g \in Name : dir'[g] = IF g = h THEN dir[f] ELSE dir[g]
  BY DEF Link, TypeOK
<1>2. Contents(h)' = Contents(f)
  BY <1>1 DEF Contents, Present
<1>3. Same(Contents(h), Contents(h)')
  BY <1>2, ContentsType, SameTransitive
<1>4. \A g \in Name \ {h} : Contents(g)' = Contents(g)
  BY <1>1, DirKeeps
<1> QED
  BY <1>1, <1>3, <1>4 DEF Keeps

(* A file that is seen again has another name with its contents. *)
LEMMA SeenElsewhere ==
    ASSUME TypeOK, AtWork, pc = "same"
    PROVE  \E h \in Name \ {file} : Same(Contents(file), Contents(h)) /\ Contents(h) = Contents(file)
<1>1. at <= Len(Visits) /\ Present(file) /\ Links(dir[file]) > 1
  BY DEF AtWork
<1>2. file \in Name
  BY <1>1, FileIs
<1>3. PICK h \in Name \ {file} : dir[h] = dir[file]
  BY <1>1, <1>2, OtherLink
<1>4. Contents(h) = Contents(file) /\ Same(Contents(file), Contents(file))
  BY <1>1, <1>2, <1>3, ContentsType DEF Contents, Present
<1> QED
  BY <1>3, <1>4

LEMMA SplitCopyKeeps ==
    ASSUME TypeOK, AtWork, SplitCopy, Present(At[fr.path]), NEW f, f = file
    PROVE  /\ \A g \in Name \ {f} : dir'[g] = dir[g] /\ Contents(g)' = Contents(g)
           /\ \A k \in Entry : dir'[f] # table[k].node /\ data'[table[k].node] = data[table[k].node]
           /\ dir'[f] \in Node /\ \A g \in Name : dir[g] # dir'[f]
           /\ Contents(f)' = Contents(At[fr.path])
<1>1. at <= Len(Visits) /\ pc = "copy" /\ fr \in Record
  BY DEF SplitCopy, AtWork, TypeOK
<1>2. f \in Name /\ At[fr.path] \in Name
  BY <1>1, FileIs, VisitsAssumption DEF Record, Path
<1> DEFINE n == Min(Unused)
           c == Contents(At[fr.path])
<1>3. n \in Node /\ (\A g \in Name : dir[g] # n) /\ (\A k \in Entry : table[k].node # n)
  BY FreeNode
<1>4. /\ dir' = [dir EXCEPT ![f] = n]
      /\ data' = [data EXCEPT ![n] = c]
  BY DEF SplitCopy
<1> HIDE DEF n, c
<1>5. \A g \in Name : dir'[g] = IF g = f THEN n ELSE dir[g]
  BY <1>2, <1>4 DEF TypeOK
<1>6. /\ \A m \in Node : data'[m] = IF m = n THEN c ELSE data[m]
      /\ data'[n] = c
  BY <1>3, <1>4 DEF TypeOK
<1>7. \A g \in Name \ {f} : Contents(g)' = Contents(g)
  BY <1>3, <1>5, <1>6, DirKeeps
<1>8. n # NoNode
  BY <1>3, NodesAssumption
<1>9. Contents(f)' = c
  BY <1>2, <1>5, <1>6, <1>8 DEF Contents, Present
<1>10. \A k \in Entry : table[k].node \in Node
  BY TableIs
<1> QED
  BY <1>2, <1>3, <1>5, <1>6, <1>7, <1>9, <1>10 DEF c

(* A step of fdf takes the contents of a name away only if another name has them,
   and gives the name that is split back what the record's name has. *)
LEMMA FdfKeeps ==
    ASSUME SafeInv, OncePerName, Fdf, ~ UNCHANGED <<dir, data>>, NEW f, f = file
    PROVE  /\ pc \in {"same", "copy", "equal"} /\ at <= Len(Visits) /\ f \in Name
           /\ \A g \in Name \ {f} : Keeps(g)
           /\ pc # "copy" => \/ Keeps(f)
                             \/ /\ Contents(f)' = NoContent
                                /\ \E h \in Name \ {f} : Same(Contents(f), Contents(h))
           /\ pc = "copy" => Present(At[fr.path]) /\ Contents(f)' = Contents(At[fr.path])
<1>1. TypeOK /\ AtWork /\ RecordsBefore
  BY DEF SafeInv
<1>2. SplitUnlink \/ SplitCopy \/ LinkDeleted \/ EqualDeleted \/ EqualLinked
  BY DEF Fdf, FindLink, StartSearch, PassOver, Skip, DropRecord, Compare, Add, EqualShown, Break, Stay, disk
<1>3. pc \in {"same", "copy", "equal"}
  BY <1>2 DEF SplitUnlink, SplitCopy, LinkDeleted, EqualDeleted, EqualLinked
<1>4. at <= Len(Visits) /\ f \in Name /\ At[fr.path] \in Name \ {f}
  BY <1>1, <1>3, FileIs, FoundIsElsewhere DEF AtWork
<1>u. ASSUME Unlink(f), UNCHANGED data, \E h \in Name \ {f} : Same(Contents(f), Contents(h)), pc # "copy"
      PROVE  /\ \A g \in Name \ {f} : Keeps(g)
             /\ Contents(f)' = NoContent
  BY <1>1, <1>4, <1>u, UnlinkKeeps DEF Keeps
<1>5. CASE SplitUnlink \/ LinkDeleted
  <2>1. pc = "same" /\ Unlink(f) /\ UNCHANGED data
    BY <1>5 DEF SplitUnlink, LinkDeleted, Stay
  <2>2. \E h \in Name \ {f} : Same(Contents(f), Contents(h))
    BY <1>1, <2>1, SeenElsewhere
  <2> QED
    BY <1>4, <1>u, <2>1, <2>2
<1>6. CASE SplitCopy
  <2>1. pc = "copy" /\ Present(At[fr.path])
    BY <1>6 DEF SplitCopy, disk
  <2>2. /\ \A g \in Name \ {f} : Contents(g)' = Contents(g)
        /\ Contents(f)' = Contents(At[fr.path])
    BY <1>1, <1>6, <2>1, SplitCopyKeeps
  <2> QED
    BY <1>4, <2>1, <2>2 DEF Keeps
<1>7. pc = "equal" => Present(At[fr.path]) /\ Same(Contents(At[fr.path]), Contents(f)) /\ Present(f)
  BY <1>1 DEF AtWork, Searched
<1>8. pc = "equal" => Same(Contents(f), Contents(At[fr.path]))
  BY <1>1, <1>4, <1>7, ContentsType, SameTransitive
<1>9. CASE EqualDeleted
  <2>1. pc = "equal" /\ Unlink(f) /\ UNCHANGED data
    BY <1>9 DEF EqualDeleted, Stay
  <2>2. \E h \in Name \ {f} : Same(Contents(f), Contents(h))
    BY <1>4, <1>8, <2>1
  <2> QED
    BY <1>4, <1>u, <2>1, <2>2
<1>10. CASE EqualLinked
  <2>1. pc = "equal" /\ UNCHANGED data /\ (Link(At[fr.path], f) \/ Link(f, At[fr.path]))
    BY <1>10 DEF EqualLinked, Stay
  <2> QED
    BY <1>1, <1>4, <1>7, <1>8, <2>1, LinkKeeps
<1> QED
  BY <1>2, <1>3, <1>4, <1>5, <1>6, <1>9, <1>10
-----------------------------------------------------------------------------
(* The invariant of safety, one part after another. *)

LEMMA SafeInit ==
    ASSUME Init
    PROVE  SafeInv
<1>1. Len(Visits) \in Nat
  BY VisitsAssumption
<1>2. dir \in [Name -> Node] /\ Unused = Node \ {dir[f] : f \in Name}
  BY LayoutsAssumption DEF Init, Unused
<1>3. data \in [Node -> Content]
  <2>1. PICK d \in [Range(dir) -> Content] :
            data = [n \in Node |-> IF n \in Unused THEN CHOOSE c \in Content : TRUE ELSE d[n]]
    BY DEF Init
  <2>2. (CHOOSE c \in Content : TRUE) \in Content
    BY ContentAssumption
  <2>3. \A n \in Node : n \notin Unused => n \in Range(dir)
    BY <1>2 DEF Range
  <2> QED
    BY <2>1, <2>2, <2>3
<1>4. \A f \in Name : Present(f) /\ was[f] = Contents(f) /\ was[f] \in Content
  BY <1>2, <1>3, NodesAssumption, ZenonT(90) DEF Init, Present, Contents
<1>5. was \in [Name -> Content \cup {NoContent}]
  BY <1>4 DEF Init
<1>6. readonly \in [Node -> BOOLEAN]
  <2>0. readonly \in {[n \in Node |-> n \in r] : r \in ReadOnlyFiles}
    BY DEF Init
  <2>1. PICK r \in ReadOnlyFiles : readonly = [n \in Node |-> n \in r]
    BY <2>0
  <2>2. \A n \in Node : (n \in r) = TRUE \/ (n \in r) = FALSE
    OBVIOUS
  <2> QED
    BY <2>1, <2>2
<1>7. table = <<>> /\ table \in Seq(Record) /\ Len(table) = 0 /\ Entry = {}
  BY DEF Init, Entry
<1>8. TypeOK
  <2>1. at \in 1 .. Len(Visits) + 1 /\ i \in 1 .. Len(Visits) + 1 /\ steps \in 0 .. MaxUserSteps
    BY <1>1, BoundsAssumption DEF Init
  <2>2. attr \in BOOLEAN
    BY DEF Init
  <2>4. pc = "next" /\ opts \in Options
    BY DEF Init
  <2>5. Len(table) <= Len(Visits)
    BY <1>1, <1>7
  <2>3. dir \in [Name -> Node \cup {NoNode}]
    BY <1>2
  <2> QED
    BY <1>3, <1>5, <1>6, <1>7, <2>1, <2>2, <2>3, <2>4, <2>5 DEF TypeOK
<1>9. \A f \in Name : Same(was[f], Contents(f))
  BY <1>4, <1>8, ContentsType
<1>10. pc = "next" /\ at = 1
  BY DEF Init
<1>11. RecordsBefore /\ TailsHold
  BY <1>7, <1>10 DEF RecordsBefore, TailsHold
<1>12. AtWork /\ NothingIsLost
  <2>1. AtWork
    BY <1>10 DEF AtWork
  <2>2. NothingIsLost
    BY <1>9 DEF NothingIsLost
  <2> QED
    BY <2>1, <2>2
<1> QED
  BY <1>8, <1>11, <1>12 DEF SafeInv

(* What the other programs leave of a name's contents. *)
LEMMA UsersLeave ==
    ASSUME TypeOK, Users, NEW f \in Name
    PROVE  /\ Contents(f)' \in {Contents(f), NoContent} \cup Written
           /\ was'[f] = Contents(f)'
<1>1. was'[f] = Contents(f)'
  BY DEF Users, Contents, Present
<1>2. ASSUME NEW n \in Node, NEW c \in Written, Write(n, c)
      PROVE  Contents(f)' \in {Contents(f), NoContent} \cup Written
  <2>1. dir' = dir /\ \A m \in Node : data'[m] = IF m = n THEN c ELSE data[m]
    BY <1>2 DEF Write, TypeOK
  <2>2. dir[f] \in Node \cup {NoNode}
    BY DEF TypeOK
  <2> QED
    BY <2>1, <2>2 DEF Contents, Present
<1>3. ASSUME NEW g \in Name, Erase(g)
      PROVE  Contents(f)' \in {Contents(f), NoContent} \cup Written
  <2>1. Unlink(g) /\ UNCHANGED data
    BY <1>3 DEF Erase
  <2> QED
    BY <2>1, UnlinkKeeps
<1>4. ASSUME NEW g \in Name, NEW c \in Written, Replace(g, c)
      PROVE  Contents(f)' \in {Contents(f), NoContent} \cup Written
  <2> DEFINE n == Min(Unused)
  <2>1. n \in Node /\ dir[f] # n
    BY FreeNode
  <2>2. dir' = [dir EXCEPT ![g] = n] /\ data' = [data EXCEPT ![n] = c]
    BY <1>4 DEF Replace
  <2> HIDE DEF n
  <2>3. /\ dir'[f] = IF f = g THEN n ELSE dir[f]
        /\ \A m \in Node : data'[m] = IF m = n THEN c ELSE data[m]
    BY <2>1, <2>2 DEF TypeOK
  <2>4. CASE f = g
    BY <2>1, <2>3, <2>4 DEF Contents, Present
  <2>5. CASE f # g
    <3>1. dir'[f] = dir[f] /\ (dir[f] \in Node => data'[dir[f]] = data[dir[f]])
      BY <2>1, <2>3, <2>5
    <3> QED
      BY <3>1, DirKeeps
  <2> QED
    BY <2>4, <2>5
<1> QED
  BY <1>1, <1>2, <1>3, <1>4 DEF Users

(* What becomes of the table. *)
LEMMA TableDropped ==
    ASSUME TypeOK, DropRecord
    PROVE  /\ i \in Entry /\ Len(table') = Len(table) - 1 /\ Entry' = 1 .. Len(table) - 1
           /\ \A k \in Entry' : /\ k \in Entry /\ k + 1 \in Entry
                                /\ table'[k] = IF k < i THEN table[k] ELSE table[k + 1]
<1>1. table \in Seq(Record) /\ Len(table) \in Nat /\ Entry = 1 .. Len(table)
  BY TableIs
<1>2. i \in 1 .. Len(table)
  BY <1>1 DEF DropRecord, Searching, TypeOK
<1>3. /\ table' \in Seq(Record) /\ Len(table') = Len(table) - 1
      /\ \A k \in 1 .. Len(table) - 1 : table'[k] = IF k < i THEN table[k] ELSE table[k + 1]
  BY <1>1, <1>2, RemoveAtIs DEF DropRecord
<1>4. Entry' = 1 .. Len(table) - 1
  BY <1>3 DEF Entry
<1>5. \A k \in 1 .. Len(table) - 1 : k \in Entry /\ k + 1 \in Entry
  BY <1>1
<1> QED
  BY <1>1, <1>2, <1>3, <1>4, <1>5

LEMMA TableCompared ==
    ASSUME TypeOK, Compare
    PROVE  /\ i \in Entry /\ Len(table') = Len(table) /\ Entry' = Entry
           /\ \A k \in Entry :
                /\ table'[k].path = table[k].path /\ table'[k].node = table[k].node
                /\ table'[k].size = table[k].size
                /\ table'[k].sum = IF k = i THEN SumOf(table[i]) ELSE table[k].sum
<1>1. table \in Seq(Record) /\ Len(table) \in Nat /\ Entry = 1 .. Len(table)
  BY TableIs
<1>2. i \in 1 .. Len(table)
  BY <1>1 DEF Compare, Searching, TypeOK
<1>3. PICK s : s = SumOf(table[i])
  OBVIOUS
<1>4. PICK r : r = [table[i] EXCEPT !.sum = s]
  OBVIOUS
<1>5. table' = [table EXCEPT ![i] = r]
  BY <1>3, <1>4 DEF Compare, here
<1>6. table[i] \in Record
  BY <1>1, <1>2
<1>7. r.path = table[i].path /\ r.node = table[i].node /\ r.size = table[i].size /\ r.sum = s
  BY <1>4, <1>6 DEF Record
<1>8. Len(table') = Len(table) /\ Entry' = Entry
  BY <1>1, <1>2, <1>5 DEF Entry
<1>9. \A k \in Entry : table'[k] = IF k = i THEN r ELSE table[k]
  BY <1>1, <1>2, <1>5
<1> QED
  BY <1>1, <1>2, <1>3, <1>7, <1>8, <1>9

LEMMA TableAdded ==
    ASSUME TypeOK, AtWork, Add
    PROVE  \E r \in Record :
             /\ r.path = path /\ r.node = dir[file] /\ r.size = Size[Contents(file).body]
             /\ r.sum \in {NoSum, Sum(Contents(file))}
             /\ Len(table') = Len(table) + 1 /\ Entry' = 1 .. Len(table) + 1
             /\ table'[1] = r
             /\ \A k \in Entry' \ {1} : k - 1 \in Entry /\ table'[k] = table[k - 1]
             /\ \A k \in Entry : k + 1 \in Entry' /\ table'[k + 1] = table[k]
<1>1. table \in Seq(Record) /\ Len(table) \in Nat /\ Entry = 1 .. Len(table)
  BY TableIs
<1>2. PICK r : r = [path |-> path, node |-> dir[file], size |-> Size[Contents(file).body],
                    sum |-> IF \E q \in Range(table) : Alike(q) THEN Sum(Contents(file)) ELSE NoSum]
  OBVIOUS
<1>3. r \in Record
  <2>1. at <= Len(Visits) /\ Searched
    BY DEF Add, AtWork
  <2>2. file \in Name /\ path \in Path /\ Contents(file) \in Content /\ dir[file] \in Node
    BY <2>1, FileIs, ContentsType DEF Searched
  <2> QED
    BY <1>2, <2>2, ContentAssumption DEF Record
<1>4. table' = <<r>> \o table
  BY <1>2 DEF Add
<1>5. /\ Len(table') = Len(table) + 1 /\ table' \in Seq(Record)
      /\ table'[1] = r
      /\ \A k \in 1 .. Len(table) : table'[k + 1] = table[k]
      /\ \A k \in 2 .. Len(table) + 1 : k - 1 \in 1 .. Len(table) /\ table'[k] = table[k - 1]
  BY <1>1, <1>3, <1>4, PrependIs
<1>6. Entry' = 1 .. Len(table) + 1
  BY <1>5 DEF Entry
<1>7. /\ \A k \in Entry' \ {1} : k \in 2 .. Len(table) + 1
      /\ \A k \in Entry : k + 1 \in Entry'
  BY <1>1, <1>6
<1>8. r.path = path /\ r.node = dir[file] /\ r.size = Size[Contents(file).body]
      /\ r.sum \in {NoSum, Sum(Contents(file))}
  BY <1>2
<1> QED
  BY <1>1, <1>3, <1>5, <1>6, <1>7, <1>8

LEMMA TableNext ==
    ASSUME [Next]_vars
    PROVE  \/ DropRecord \/ Compare \/ Add
           \/ UNCHANGED table /\ Entry' = Entry /\ (at' = at \/ at' = at + 1)
  BY DEF Next, Fdf, FindLink, StartSearch, PassOver, SplitUnlink, SplitCopy, LinkDeleted, Skip,
         EqualDeleted, EqualLinked, EqualShown, Break, Users, Stay, Leave, vars, Entry

LEMMA RecordsBeforeNext ==
    ASSUME TypeOK, RecordsBefore, AtWork, [Next]_vars
    PROVE  RecordsBefore'
<1>1. Len(table) \in Nat /\ Entry = 1 .. Len(table) /\ at \in Nat /\ Len(Visits) \in Nat /\ Len(table) < at
  BY TableIs DEF TypeOK, RecordsBefore
<1>2. CASE UNCHANGED table /\ Entry' = Entry /\ (at' = at \/ at' = at + 1)
  <2>1. Len(table') < at' /\ \A j \in 1 .. at - 1 : j \in 1 .. at' - 1
    BY <1>1, <1>2
  <2>2. \A k \in Entry : \E j \in 1 .. at' - 1 : table[k].path = Visits[j]
    BY <2>1 DEF RecordsBefore
  <2> QED
    BY <1>2, <2>1, <2>2 DEF RecordsBefore
<1>3. CASE DropRecord
  <2>1. at' = at
    BY <1>3 DEF DropRecord, Stay
  <2>2. \A k \in Entry' : \E j \in Entry : table'[k] = table[j]
    BY <1>3, TableDropped
  <2>3. \A k \in Entry' : \E j \in 1 .. at - 1 : table'[k].path = Visits[j]
    BY <2>2 DEF RecordsBefore
  <2>4. Len(table') = Len(table) - 1
    BY <1>3, TableDropped
  <2>5. Len(table') < at
    BY <1>1, <2>4
  <2> QED
    BY <2>1, <2>3, <2>5 DEF RecordsBefore
<1>4. CASE Compare
  <2>1. at' = at
    BY <1>4 DEF Compare, Stay
  <2>2. Len(table') = Len(table) /\ \A k \in Entry' : k \in Entry /\ table'[k].path = table[k].path
    BY <1>4, TableCompared
  <2>3. \A k \in Entry' : \E j \in 1 .. at - 1 : table'[k].path = Visits[j]
    BY <2>2 DEF RecordsBefore
  <2> QED
    BY <1>1, <2>1, <2>2, <2>3 DEF RecordsBefore
<1>5. CASE Add
  <2>1. at' = at + 1 /\ path = Visits[at]
    BY <1>5 DEF Add, Leave, path
  <2>2. Len(table') = Len(table) + 1
    BY <1>5, TableAdded
  <2>3. at \in 1 .. at /\ \A j \in 1 .. at - 1 : j \in 1 .. at
    BY <1>1
  <2>4. ASSUME NEW k \in Entry'
        PROVE  \E j \in 1 .. at : table'[k].path = Visits[j]
    <3>1. table'[k].path = Visits[at] \/ \E q \in Entry : table'[k] = table[q]
      BY <1>5, <2>1, TableAdded
    <3> QED
      BY <2>3, <3>1 DEF RecordsBefore
  <2>5. at' - 1 = at /\ Len(table') < at'
    BY <1>1, <2>1, <2>2
  <2> QED
    BY <2>4, <2>5 DEF RecordsBefore
<1> QED
  BY <1>2, <1>3, <1>4, <1>5, TableNext

LEMMA ContentsNext ==
    ASSUME TypeOK', NEW f \in Name
    PROVE  /\ Contents(f)' \in Content \cup {NoContent}
           /\ Present(f)' <=> dir'[f] \in Node
           /\ Present(f)' <=> Contents(f)' \in Content
  BY NodesAssumption, ContentAssumption DEF TypeOK, Contents, Present

LEMMA TailFixedSame ==
    ASSUME NEW c \in Content \cup {NoContent}, NEW d \in Content \cup {NoContent}, Same(c, d)
    PROVE  c.tail = d.tail /\ (TailFixed(c) => TailFixed(d))
  BY SameIs DEF TailFixed

(* The names of the records keep their contents while fdf is at work on another. *)
LEMMA RecordsKeep ==
    ASSUME SafeInv, OncePerName, Fdf, NEW k \in Entry, NEW f, f = first(k)
    PROVE  f \in Name /\ Keeps(f)
<1>1. TypeOK /\ RecordsBefore
  BY DEF SafeInv
<1>2. f \in Name
  BY <1>1, TableIs
<1>3. CASE UNCHANGED <<dir, data>>
  BY <1>1, <1>2, <1>3, DirKeeps DEF Keeps
<1>4. CASE ~ UNCHANGED <<dir, data>>
  <2>1. PICK h : h = file
    OBVIOUS
  <2>2. at <= Len(Visits) /\ \A g \in Name \ {h} : Keeps(g)
    BY <1>4, <2>1, FdfKeeps
  <2>3. f # h
    BY <1>1, <2>1, <2>2, RecordIsElsewhere
  <2> QED
    BY <1>2, <2>2, <2>3
<1> QED
  BY <1>2, <1>3, <1>4

LEMMA TailsHoldNext ==
    ASSUME SafeInv, TypeOK', OncePerName, WholeBlocks, [Next]_vars
    PROVE  TailsHold'
<1>1. TypeOK /\ RecordsBefore /\ TailsHold /\ AtWork
  BY DEF SafeInv
<1> DEFINE Hold(c, s) == c.tail = s.tail \/ TailFixed(c)
<1>2. SUFFICES ASSUME NEW k \in Entry', NEW f \in Name, NEW s, f = first(k)', s = table'[k].sum,
                      s # NoSum, Present(f)'
               PROVE  Hold(Contents(f)', s)
  <2>1. \A k \in Entry' : first(k)' \in Name
    <3>1. table' \in Seq(Record') /\ Entry' = 1 .. Len(table')
      BY DEF TypeOK, Entry
    <3>2. \A k \in Entry' : table'[k] \in Record'
      BY <3>1, ElementOfSeq
    <3>3. \A r \in Record' : At[r.path] \in Name
      BY VisitsAssumption DEF Record, Path
    <3> QED
      BY <3>2, <3>3 DEF first
  <2> QED
    BY <2>1 DEF TailsHold
<1>3. Contents(f)' \in Content /\ f = At[table'[k].path]
  BY <1>2, ContentsNext DEF first
<1>k. ASSUME NEW j \in Entry, f = first(j), s = table[j].sum, Keeps(f)
      PROVE  Hold(Contents(f)', s)
  <2>1. Contents(f) \in Content /\ Present(f)
    BY <1>1, <1>3, <1>k, ContentsType, SameIs, ContentAssumption DEF Keeps
  <2>2. Hold(Contents(f), s)
    BY <1>1, <1>2, <1>k, <2>1 DEF TailsHold
  <2>3. CASE Contents(f)' = Contents(f)
    BY <2>2, <2>3
  <2>4. CASE Same(Contents(f), Contents(f)')
    BY <1>3, <2>1, <2>2, <2>4, TailFixedSame
  <2> QED
    BY <1>k, <2>3, <2>4 DEF Keeps
<1>4. CASE UNCHANGED table /\ Entry' = Entry
  <2>1. k \in Entry /\ f = first(k) /\ s = table[k].sum
    BY <1>2, <1>3, <1>4 DEF first
  <2>2. CASE UNCHANGED vars
    BY <1>1, <1>k, <2>1, <2>2, DirKeeps DEF Keeps, vars, disk
  <2>3. CASE Fdf
    BY <1>k, <2>1, <2>3, RecordsKeep
  <2>4. CASE Users
    <3>1. Contents(f)' \in {Contents(f)} \cup Written
      BY <1>1, <1>3, <2>4, UsersLeave, ContentAssumption
    <3>2. CASE Contents(f)' = Contents(f)
      BY <1>k, <2>1, <3>2 DEF Keeps
    <3>3. CASE Contents(f)' \in Written
      BY <3>3 DEF WholeBlocks
    <3> QED
      BY <3>1, <3>2, <3>3
  <2> QED
    BY <2>2, <2>3, <2>4 DEF Next
<1>5. CASE DropRecord
  <2>1. PICK j \in Entry : table'[k] = table[j]
    BY <1>1, <1>5, TableDropped
  <2>2. f = first(j) /\ s = table[j].sum
    BY <1>2, <1>3, <2>1 DEF first
  <2>3. Fdf
    BY <1>5 DEF Fdf
  <2> QED
    BY <1>k, <2>2, <2>3, RecordsKeep
<1>6. CASE Compare
  <2>1. k \in Entry /\ f = first(k) /\ s = IF k = i THEN SumOf(table[i]) ELSE table[k].sum
    BY <1>1, <1>2, <1>3, <1>6, TableCompared DEF first
  <2>2. Fdf
    BY <1>6 DEF Fdf
  <2>3. CASE k = i /\ table[i].sum = NoSum
    <3>1. s = Sum(Contents(f))
      BY <2>1, <2>3 DEF SumOf, first
    <3>2. Contents(f)' = Contents(f)
      BY <1>1, <1>6, DirKeeps DEF Compare, Stay, disk
    <3>3. s.tail = Contents(f).tail
      BY <1>3, <3>1, <3>2, SumIs
    <3> QED
      BY <3>2, <3>3
  <2>4. CASE ~ (k = i /\ table[i].sum = NoSum)
    BY <1>k, <2>1, <2>2, <2>4, RecordsKeep DEF SumOf
  <2> QED
    BY <2>3, <2>4
<1>7. CASE Add
  <2>1. Fdf /\ Contents(f)' = Contents(f)
    BY <1>1, <1>7, DirKeeps DEF Fdf, Add, Stay, disk
  <2>2. \/ \E j \in Entry : table'[k] = table[j]
        \/ table'[k].path = path /\ table'[k].sum \in {NoSum, Sum(Contents(file))}
    BY <1>1, <1>7, TableAdded
  <2>3. CASE table'[k].path = path /\ table'[k].sum \in {NoSum, Sum(Contents(file))}
    <3>1. f = file /\ s = Sum(Contents(f))
      BY <1>2, <1>3, <2>3 DEF file
    <3>2. s.tail = Contents(f).tail
      BY <1>3, <2>1, <3>1, SumIs
    <3> QED
      BY <2>1, <3>2
  <2>4. ASSUME NEW j \in Entry, table'[k] = table[j]
        PROVE  Hold(Contents(f)', s)
    <3>1. f = first(j) /\ s = table[j].sum
      BY <1>2, <1>3, <2>4 DEF first
    <3> QED
      BY <1>k, <2>1, <3>1, RecordsKeep
  <2> QED
    BY <2>2, <2>3, <2>4
<1> QED
  BY <1>4, <1>5, <1>6, <1>7, TableNext

(* Files whose checksums and blocks are equal have the same contents. *)
LEMMA ComparedAreSame ==
    ASSUME SafeInv, Compare, pc' = "equal"
    PROVE  /\ i \in Entry /\ fr' = table[i]
           /\ Present(first(i)) /\ Same(Contents(first(i)), Contents(file))
<1>1. TypeOK /\ TailsHold /\ AtWork
  BY DEF SafeInv
<1>2. i \in Entry /\ first(i) \in Name /\ table[i] \in Record
  BY <1>1, TableCompared, TableIs
<1>3. pc = "search" /\ at <= Len(Visits) /\ Present(file)
  BY <1>1 DEF Compare, Searching, AtWork, Searched
<1>4. Contents(file) \in Content
  BY <1>1, <1>3, FileIs, ContentsType
<1>5. /\ fr' = table[i]
      /\ SumOf(table[i]) = Sum(Contents(file))
      /\ SameBlocks(Contents(first(i)), Contents(file))
  BY <1>3 DEF Compare, here, first
<1>6. table[i].sum \in {NoSum, Sum(Contents(file))}
  BY <1>5 DEF SumOf
<1>7. Present(first(i))
  BY <1>6 DEF Compare, Opens, here, first
<1>8. Contents(first(i)) \in Content
  BY <1>1, <1>2, <1>7, ContentsType
<1> DEFINE c == Contents(first(i))
           d == Contents(file)
<1>9. c \in Content /\ d \in Content
  BY <1>4, <1>8
<1>10. (Skips \/ c.head = d.head) /\ c.body = d.body
  BY <1>5, <1>9, BlocksIs
<1>11. c.tail = d.tail
  <2>1. CASE table[i].sum = NoSum
    <3>1. Sum(c) = Sum(d)
      BY <1>5, <2>1 DEF SumOf, first
    <3> QED
      BY <1>9, <3>1, SumIs
  <2>2. CASE table[i].sum # NoSum
    <3>1. table[i].sum.tail = d.tail
      BY <1>6, <1>9, <2>2, SumIs
    <3>2. c.tail = table[i].sum.tail \/ TailFixed(c)
      BY <1>1, <1>2, <1>7, <2>2 DEF TailsHold
    <3> QED
      BY <1>9, <1>10, <3>1, <3>2 DEF TailFixed
  <2> QED
    BY <2>1, <2>2
<1> QED
  BY <1>2, <1>5, <1>7, <1>9, <1>10, <1>11, SameIs

(* What a record and the file in hand are to each other does not change while the
   chain is searched. *)
LEMMA SearchedStays ==
    ASSUME TypeOK, TypeOK', Searched, UNCHANGED <<dir, data, opts, at>>,
           \A k \in Entry' : \E j \in Entry : /\ table'[k].node = table[j].node
                                             /\ table'[k].size = table[j].size
    PROVE  Searched'
<1>1. Entry = 1 .. Len(table) /\ Entry' = 1 .. Len(table')
  BY TableIs DEF TypeOK, Entry
<1>2. file' = file /\ dir' = dir /\ data' = data /\ Skips' = Skips /\ Links(dir[file])' = Links(dir[file])
      /\ Present(file)' = Present(file)
  BY DEF file, path, Skips, Links, Present
<1> DEFINE InChain(n) == Chain[n] = Chain[Size[Contents(file).body]]
<1>3. \A k \in Entry : table[k].node = dir[file] /\ InChain(table[k].size) => SameFile # {}
  BY <1>1 DEF SameFile
<1>c. Contents(file)' = Contents(file)
  BY <1>2 DEF Contents, Present
<1>4. SameFile' # {} => \E k \in Entry' : table'[k].node = dir[file] /\ InChain(table'[k].size)
  BY <1>1, <1>2, <1>c, ZenonT(90) DEF SameFile
<1>n. SameFile' # {} => SameFile # {}
  BY <1>3, <1>4
<1>5. Seen' => Seen
  BY <1>2, <1>n DEF Seen
<1> QED
  BY <1>2, <1>5 DEF Searched

LEMMA AtWorkNext ==
    ASSUME SafeInv, TypeOK', [Next]_vars
    PROVE  AtWork'
<1>1. TypeOK /\ AtWork
  BY DEF SafeInv
<1>2. UNCHANGED at => file' = file /\ path' = path
  BY DEF file, path
<1>3. UNCHANGED <<dir, data>> => \A f : Present(f)' = Present(f) /\ Contents(f)' = Contents(f)
  BY DEF Present, Contents
<1>a. CASE UNCHANGED vars
  BY <1>1, <1>a DEF AtWork, vars, disk, file, path, Links, Present, Contents, Same, Compared, Skips, Searched,
                    Seen, SameFile, Entry
<1>b. CASE FindLink
  <2>1. /\ at <= Len(Visits) /\ Present(file) /\ Links(dir[file]) > 1 /\ pc' = "same"
        /\ UNCHANGED <<dir, data, table, at, opts>>
    BY <1>b DEF FindLink, Arrived, Seen, Stay, disk
  <2>2. PICK k \in Entry : fr' = table[k] /\ table[k].node = dir[file]
    BY <1>1, <1>b, LinkFound
  <2>3. Present(file)' /\ (Links(dir[file]) > 1)' /\ Entry' = Entry /\ dir'[file'] = dir[file]
    BY <1>2, <2>1 DEF Present, Links, Entry
  <2>4. \E j \in Entry' : fr' = table'[j] /\ fr'.node = dir'[file']
    BY <2>1, <2>2, <2>3
  <2> QED
    BY <2>1, <2>3, <2>4 DEF AtWork
<1>c. CASE StartSearch
  <2>1. at <= Len(Visits) /\ Searched /\ pc' = "search" /\ UNCHANGED <<dir, data, table, at, opts>>
    BY <1>c DEF StartSearch, Arrived, Stay, disk
  <2>2. Searched'
    BY <1>1, <2>1, SearchedStays DEF Entry
  <2> QED
    BY <2>1, <2>2 DEF AtWork
<1>d. CASE SplitUnlink
  <2>1. pc = "same" /\ pc' = "copy" /\ UNCHANGED <<data, table, at, fr>> /\ Unlink(file)
    BY <1>d DEF SplitUnlink, Stay
  <2>2. PICK f : f = file
    OBVIOUS
  <2>3. at <= Len(Visits) /\ f \in Name
    BY <1>1, <2>1, <2>2, FileIs DEF AtWork
  <2>4. dir'[f] = NoNode
    BY <1>1, <2>1, <2>2, <2>3, UnlinkKeeps
  <2>5. ~ Present(file)'
    BY <1>2, <2>1, <2>2, <2>4 DEF Present
  <2>6. \E k \in Entry' : fr' = table'[k]
    BY <1>1, <2>1 DEF AtWork, Entry
  <2> QED
    BY <2>1, <2>3, <2>5, <2>6 DEF AtWork
<1>e. CASE Skip
  <2>1. pc = "search" /\ pc' = pc /\ UNCHANGED <<dir, data, table, at, opts>>
    BY <1>e DEF Skip, Searching, Stay, disk
  <2>2. at <= Len(Visits) /\ Searched
    BY <1>1, <2>1 DEF AtWork
  <2>3. Searched'
    BY <1>1, <2>1, <2>2, SearchedStays DEF Entry
  <2> QED
    BY <2>1, <2>2, <2>3 DEF AtWork
<1>f. CASE DropRecord
  <2>1. pc = "search" /\ pc' \in {"search", "crashed"} /\ UNCHANGED <<dir, data, at, opts>>
    BY <1>f DEF DropRecord, Searching, Stay, disk
  <2>2. at <= Len(Visits) /\ Searched
    BY <1>1, <2>1 DEF AtWork
  <2>3. \A k \in Entry' : \E j \in Entry : /\ table'[k].node = table[j].node
                                          /\ table'[k].size = table[j].size
    BY <1>1, <1>f, TableDropped
  <2>4. Searched'
    BY <1>1, <2>1, <2>2, <2>3, SearchedStays
  <2> QED
    BY <2>1, <2>2, <2>4 DEF AtWork
<1>g. CASE Compare
  <2>1. pc = "search" /\ pc' \in {"search", "equal"} /\ UNCHANGED <<dir, data, at, opts>>
    BY <1>g DEF Compare, Searching, Stay, disk
  <2>2. at <= Len(Visits) /\ Searched
    BY <1>1, <2>1 DEF AtWork
  <2>3. Entry' = Entry /\ \A k \in Entry : /\ table'[k].node = table[k].node /\ table'[k].path = table[k].path
                                         /\ table'[k].size = table[k].size
    BY <1>1, <1>g, TableCompared
  <2>4. Searched'
    BY <1>1, <2>1, <2>2, <2>3, SearchedStays
  <2>5. CASE pc' = "search"
    BY <2>1, <2>2, <2>4, <2>5 DEF AtWork
  <2>6. CASE pc' = "equal"
    <3>1. i \in Entry /\ fr' = table[i] /\ Present(first(i)) /\ Same(Contents(first(i)), Contents(file))
      BY <1>g, <2>6, ComparedAreSame
    <3>2. At[fr'.path] = first(i) /\ \E k \in Entry' : fr'.path = table'[k].path
      BY <2>3, <3>1 DEF first
    <3>3. PICK f, h : f = file /\ h = first(i)
      OBVIOUS
    <3>4. Present(h)' /\ Same(Contents(h), Contents(f))'
      BY <1>3, <2>1, <3>1, <3>3, SameNext
    <3>5. f = file' /\ h = At[fr'.path]
      BY <1>2, <2>1, <3>2, <3>3
    <3>6. (Present(At[fr.path]) /\ Same(Contents(At[fr.path]), Contents(file)))'
      BY <3>4, <3>5 DEF Present, Contents
    <3> QED
      BY <2>1, <2>2, <2>4, <2>6, <3>2, <3>6 DEF AtWork
  <2> QED
    BY <2>1, <2>5, <2>6
<1>h. CASE pc' \in {"next", "stopped"}
  BY <1>h DEF AtWork
<1> QED
  BY <1>a, <1>b, <1>c, <1>d, <1>e, <1>f, <1>g, <1>h
     DEF Next, Fdf, PassOver, SplitCopy, LinkDeleted, Add, EqualDeleted, EqualLinked, EqualShown, Break,
         Users, Leave

LEMMA NothingIsLostNext ==
    ASSUME SafeInv, TypeOK', OncePerName, [Next]_vars
    PROVE  NothingIsLost'
<1>1. TypeOK /\ NothingIsLost /\ AtWork
  BY DEF SafeInv
<1>2. \A f \in Name : /\ Contents(f) \in Content \cup {NoContent} /\ Contents(f)' \in Content \cup {NoContent}
                      /\ was[f] \in Content \cup {NoContent}
  BY <1>1, ContentsType, ContentsNext DEF TypeOK
<1>3. UNCHANGED opts /\ \A c, d : Same(c, d)' <=> Same(c, d)
  <2>1. UNCHANGED opts
    BY DEF Next, Fdf, FindLink, StartSearch, PassOver, SplitUnlink, SplitCopy, LinkDeleted, Skip, DropRecord,
           Compare, Add, EqualDeleted, EqualLinked, EqualShown, Break, Users, Stay, vars
  <2> QED
    BY <2>1, SameNext
<1>4. CASE Users
  <2>1. \A f \in Name : was'[f] = Contents(f)'
    BY <1>1, <1>4, UsersLeave
  <2>2. \A f \in Name : was'[f] # NoContent => Same(was'[f], Contents(f)')
    BY <1>2, <2>1, SameIs
  <2> QED
    BY <1>3, <2>2 DEF NothingIsLost
<1>5. Fdf => UNCHANGED was
  BY DEF Fdf, FindLink, StartSearch, PassOver, SplitUnlink, SplitCopy, LinkDeleted, Skip, DropRecord,
         Compare, Add, EqualDeleted, EqualLinked, EqualShown, Break, Stay
<1>6. CASE Fdf \/ UNCHANGED vars
  <2> SUFFICES ASSUME NEW f \in Name, was[f] # NoContent
               PROVE  \E g \in Name : Same(was[f], Contents(g)')
    BY <1>3, <1>6, <1>5 DEF NothingIsLost, vars
  <2>1. PICK g \in Name : Same(was[f], Contents(g))
    BY <1>1 DEF NothingIsLost
  <2>2. \A h \in Name : Keeps(h) /\ Same(was[f], Contents(h)) => Same(was[f], Contents(h)')
    BY <1>2, SameTransitive DEF Keeps
  <2>3. CASE UNCHANGED <<dir, data>>
    BY <1>1, <2>1, <2>3, DirKeeps
  <2>4. CASE Fdf /\ ~ UNCHANGED <<dir, data>>
    <3>1. PICK l : l = file
      OBVIOUS
    <3>2. /\ pc \in {"same", "copy", "equal"} /\ \A h \in Name \ {l} : Keeps(h)
          /\ pc # "copy" => \/ Keeps(l)
                            \/ \E h \in Name \ {l} : Same(Contents(l), Contents(h))
      BY <2>4, <3>1, FdfKeeps
    <3>3. CASE g # l \/ Keeps(l)
      BY <2>1, <2>2, <3>2, <3>3
    <3>4. CASE g = l /\ pc = "copy"
      <4>1. ~ Present(g)
        BY <1>1, <3>1, <3>4 DEF AtWork
      <4> QED
        BY <1>1, <2>1, <4>1, ContentsType
    <3>5. CASE g = l /\ pc # "copy" /\ ~ Keeps(l)
      <4>1. PICK h \in Name \ {l} : Same(Contents(l), Contents(h))
        BY <3>2, <3>5
      <4>2. Same(was[f], Contents(h)) /\ Keeps(h)
        BY <1>2, <2>1, <3>2, <3>5, <4>1, SameTransitive
      <4> QED
        BY <2>2, <4>2
    <3> QED
      BY <3>3, <3>4, <3>5
  <2> QED
    BY <1>6, <2>3, <2>4 DEF vars, disk
<1> QED
  BY <1>4, <1>6 DEF Next

LEMMA SafeNext ==
    ASSUME SafeInv, OncePerName, WholeBlocks, [Next]_vars
    PROVE  SafeInv'
<1>1. TypeOK'
  BY TypeNext DEF SafeInv
<1> QED
  BY <1>1, RecordsBeforeNext, TailsHoldNext, AtWorkNext, NothingIsLostNext DEF SafeInv

LEMMA SafeAlways ==
    ASSUME OncePerName, WholeBlocks
    PROVE  Spec => []SafeInv
<1>1. Init => SafeInv
  BY SafeInit
<1>2. SafeInv /\ [Next]_vars => SafeInv'
  BY SafeNext
<1> QED
  BY <1>1, <1>2, PTL DEF Spec
-----------------------------------------------------------------------------
(* If every name has one path that the search finds, and what other programs write
   differs from the contents of other files in whole blocks, the contents that a
   name had when they were last looked at are always the contents of some name. *)
THEOREM NoContentsAreLost ==
    ASSUME OncePerName, WholeBlocks
    PROVE  Spec => []NothingIsLost
<1>1. SafeInv => NothingIsLost
  BY DEF SafeInv
<1> QED
  BY <1>1, SafeAlways, PTL

(* The node of a file that was seen keeps its attribute when a link is split or
   deleted. *)
LEMMA AttributeStays ==
    ASSUME SafeInv, OncePerName, [Next]_vars, NEW f \in Name,
           pc \in {"same", "copy"}, dir[At[fr.path]] = fr.node,
           Present(f), readonly[dir[f]], dir'[f] = dir[f]
    PROVE  readonly'[dir[f]]
<1>1. TypeOK /\ AtWork /\ RecordsBefore
  BY DEF SafeInv
<1>2. PICK n : n = dir[f]
  OBVIOUS
<1>3. n \in Node /\ readonly[n] /\ readonly \in [Node -> BOOLEAN]
  BY <1>1, <1>2, ContentsType DEF TypeOK
<1>4. CASE pc = "same"
  <2>1. PICK l : l = file
    OBVIOUS
  <2>2. PICK g : g = At[fr.path]
    OBVIOUS
  <2>3. g \in Name \ {l} /\ dir[g] = dir[l] /\ dir[g] \in Node
    BY <1>1, <1>4, <2>1, <2>2, FoundIsElsewhere, FileIs, ContentsType DEF AtWork
  <2>4. Present(g)
    BY <1>1, <2>3, ContentsType
  <2>5. PICK m : m = dir[l]
    OBVIOUS
  <2>6. m \in Node /\ dir[g] = m
    BY <2>3, <2>5
  <2>7. [[readonly EXCEPT ![m] = FALSE] EXCEPT ![m] = readonly[m]] = readonly
    BY <1>3, <2>6
  <2>8. CASE SplitUnlink
    <3>1. readonly' = [[readonly EXCEPT ![m] = FALSE] EXCEPT ![m] = readonly[m]]
      BY <2>1, <2>2, <2>3, <2>4, <2>5, <2>6, <2>8 DEF SplitUnlink
    <3> QED
      BY <1>2, <1>3, <2>7, <3>1
  <2>9. CASE LinkDeleted
    <3>1. \/ readonly' = readonly
          \/ readonly' = [[readonly EXCEPT ![m] = FALSE] EXCEPT ![m] = Present(g) /\ readonly[m]]
      BY <2>1, <2>2, <2>3, <2>4, <2>5, <2>6, <2>9 DEF LinkDeleted
    <3>2. (Present(g) /\ readonly[m]) = readonly[m]
      BY <1>3, <2>4, <2>6
    <3> QED
      BY <1>2, <1>3, <2>7, <3>1, <3>2
  <2>10. CASE UNCHANGED vars
    BY <1>2, <1>3, <2>10 DEF vars, disk
  <2> QED
    BY <1>4, <2>8, <2>9, <2>10
       DEF Next, Fdf, FindLink, StartSearch, PassOver, Arrived, SplitCopy, Skip, Searching, DropRecord,
           Compare, Add,
           EqualDeleted, EqualLinked, EqualShown, Break, Users
<1>5. CASE pc = "copy"
  <2>1. CASE SplitCopy
    <3>1. Min(Unused) # n
      BY <1>1, <1>2, FreeNode
    <3>2. readonly' = readonly \/ \E v : readonly' = [readonly EXCEPT ![Min(Unused)] = v]
      BY <2>1 DEF SplitCopy, disk
    <3> QED
      BY <1>2, <1>3, <3>1, <3>2
  <2>2. CASE UNCHANGED vars
    BY <1>2, <1>3, <2>2 DEF vars, disk
  <2> QED
    BY <1>5, <2>1, <2>2
       DEF Next, Fdf, FindLink, StartSearch, PassOver, Arrived, SplitUnlink, LinkDeleted, Skip, Searching,
           DropRecord,
           Compare, Add, EqualDeleted, EqualLinked, EqualShown, Break, Users
<1> QED
  BY <1>4, <1>5

(* Deleting or splitting a hard link of a read-only file leaves its other names
   read-only, with every set of switches. *)
THEOREM AttributesAreKept ==
    ASSUME OncePerName, WholeBlocks
    PROVE  Spec => AttributesKept
<1>1. SafeInv /\ [Next]_vars =>
        [\A f \in Name :
           /\ pc \in {"same", "copy"} /\ dir[At[fr.path]] = fr.node
           /\ Present(f) /\ readonly[dir[f]]
           /\ dir'[f] = dir[f]
           => readonly'[dir[f]]]_vars
  BY AttributeStays
<1> QED
  BY <1>1, SafeAlways, PTL DEF Spec, AttributesKept
-----------------------------------------------------------------------------
(* Records and names as long as nobody else has changed a file. *)

LEMMA DataStays ==
    ASSUME SafeInv, Fdf, NEW k \in Entry
    PROVE  data'[table[k].node] = data[table[k].node]
<1>1. TypeOK /\ AtWork
  BY DEF SafeInv
<1>2. CASE SplitCopy /\ Present(At[fr.path])
  BY <1>1, <1>2, SplitCopyKeeps
<1>3. CASE ~ (SplitCopy /\ Present(At[fr.path]))
  <2>1. UNCHANGED data
    BY <1>3 DEF Fdf, FindLink, StartSearch, PassOver, SplitUnlink, SplitCopy, LinkDeleted, Skip,
        DropRecord, Compare,
                Add, EqualDeleted, EqualLinked, EqualShown, Break, Stay, disk
  <2> QED
    BY <2>1
<1> QED
  BY <1>2, <1>3

LEMMA OptsStay ==
    ASSUME [Next]_vars
    PROVE  /\ UNCHANGED opts /\ \A c, d : Same(c, d)' <=> Same(c, d)
           /\ Fdf \/ UNCHANGED vars => UNCHANGED <<steps, was>>
           /\ Users => steps' = steps + 1
<1>1. UNCHANGED opts
  BY DEF Next, Fdf, FindLink, StartSearch, PassOver, SplitUnlink, SplitCopy, LinkDeleted, Skip, DropRecord,
         Compare, Add, EqualDeleted, EqualLinked, EqualShown, Break, Users, Stay, vars
<1>2. Fdf \/ UNCHANGED vars => UNCHANGED <<steps, was>>
  BY DEF Fdf, FindLink, StartSearch, PassOver, SplitUnlink, SplitCopy, LinkDeleted, Skip, DropRecord,
         Compare, Add, EqualDeleted, EqualLinked, EqualShown, Break, Stay, vars
<1> QED
  BY <1>1, <1>2, SameNext DEF Users

(* A record was there before, with another checksum perhaps, or is of the file in hand. *)
LEMMA RecordsCome ==
    ASSUME TypeOK, AtWork, [Next]_vars, NEW k \in Entry'
    PROVE  \/ \E j \in Entry : table'[k].path = table[j].path /\ table'[k].node = table[j].node
           \/ /\ Add /\ at <= Len(Visits) /\ Searched
              /\ table'[k].path = path /\ table'[k].node = dir[file]
<1>1. Add => at <= Len(Visits) /\ Searched
  BY DEF Add, AtWork
<1> QED
  BY <1>1, TableNext, TableDropped, TableCompared, TableAdded

LEMMA RecordsHoldNext ==
    ASSUME SafeInv, RecordsHold, TypeOK', OncePerName, [Next]_vars
    PROVE  RecordsHold'
<1>1. TypeOK /\ AtWork
  BY DEF SafeInv
<1>2. \A c, d : Same(c, d)' <=> Same(c, d)
  BY OptsStay
<1> SUFFICES ASSUME steps' = 0, NEW k \in Entry'
             PROVE  Present(first(k))' /\ Same(data'[table'[k].node], Contents(first(k))')
  BY <1>2 DEF RecordsHold
<1>3. steps = 0 /\ (Fdf \/ UNCHANGED vars)
  BY <1>1, OptsStay DEF Next, TypeOK
<1>4. PICK f : f = At[table'[k].path]
  OBVIOUS
<1>5. f = first(k)'
  BY <1>4 DEF first
<1>6. SUFFICES Present(f)' /\ Same(data'[table'[k].node], Contents(f)')
  BY <1>5 DEF Present, Contents
<1>7. ASSUME NEW j \in Entry, table'[k].path = table[j].path, table'[k].node = table[j].node
      PROVE  Present(f)' /\ Same(data'[table'[k].node], Contents(f)')
  <2>1. f = first(j) /\ f \in Name /\ table[j].node \in Node
    BY <1>1, <1>4, <1>7, TableIs DEF first
  <2>2. Present(f) /\ Same(data[table[j].node], Contents(f))
    BY <1>3, <2>1 DEF RecordsHold
  <2>3. Keeps(f) /\ data'[table[j].node] = data[table[j].node]
    <3>1. CASE Fdf
      BY <2>1, <3>1, RecordsKeep, DataStays
    <3>2. CASE UNCHANGED vars
      BY <1>1, <2>1, <3>2, DirKeeps DEF Keeps, vars, disk
    <3> QED
      BY <1>3, <3>1, <3>2
  <2>4. /\ Contents(f) \in Content /\ Contents(f)' \in Content \cup {NoContent}
        /\ data[table[j].node] \in Content
    BY <1>1, <2>1, <2>2, ContentsType, ContentsNext DEF TypeOK
  <2>5. Same(data[table[j].node], Contents(f)')
    BY <2>2, <2>3, <2>4, SameTransitive DEF Keeps
  <2>6. Contents(f)' \in Content
    BY <2>4, <2>5, SameIs
  <2> QED
    BY <1>7, <2>1, <2>3, <2>5, <2>6, ContentsNext
<1>8. ASSUME Add, at <= Len(Visits), Searched, table'[k].path = path, table'[k].node = dir[file]
      PROVE  Present(f)' /\ Same(data'[table'[k].node], Contents(f)')
  <2>1. f = file /\ f \in Name
    BY <1>1, <1>4, <1>8, FileIs DEF file
  <2>2. UNCHANGED <<dir, data>>
    BY <1>8 DEF Add, Stay, disk
  <2>3. Present(f) /\ Contents(f) = data[dir[f]] /\ Same(Contents(f), Contents(f)) /\ Present(f)' = Present(f)
        /\ Contents(f)' = Contents(f)
    BY <1>1, <1>8, <2>1, <2>2, ContentsType DEF Searched, Present, Contents
  <2> QED
    BY <1>8, <2>1, <2>2, <2>3
<1> QED
  BY <1>1, <1>7, <1>8, RecordsCome

(* Without -d a step takes no contents from a name but to split it. *)
LEMMA NamesKeep ==
    ASSUME SafeInv, OncePerName, "d" \notin opts, Fdf \/ UNCHANGED vars, NEW f \in Name
    PROVE  \/ Keeps(f)
           \/ f = file /\ (SplitUnlink \/ SplitCopy)
<1>1. TypeOK
  BY DEF SafeInv
<1>2. CASE UNCHANGED <<dir, data>>
  BY <1>1, <1>2, DirKeeps DEF Keeps
<1>3. CASE ~ UNCHANGED <<dir, data>>
  <2>1. Fdf
    BY <1>3 DEF vars, disk
  <2>2. PICK l : l = file
    OBVIOUS
  <2>3. \A g \in Name \ {l} : Keeps(g)
    BY <1>3, <2>1, <2>2, FdfKeeps
  <2>4. SplitUnlink \/ SplitCopy \/ EqualLinked
    BY <1>3, <2>1
       DEF Fdf, FindLink, StartSearch, PassOver, LinkDeleted, Skip, DropRecord, Compare, Add, EqualDeleted,
           EqualShown, Break, Stay, disk
  <2>5. EqualLinked => Keeps(f)
    <3> SUFFICES ASSUME EqualLinked, f = l
                 PROVE  Keeps(f)
      BY <2>3
    <3>1. pc = "equal" /\ UNCHANGED data /\ (Link(At[fr.path], l) \/ Link(l, At[fr.path]))
      BY <1>3, <2>2 DEF EqualLinked, Stay
    <3>2. /\ At[fr.path] \in Name /\ Present(At[fr.path]) /\ Present(l)
          /\ Same(Contents(At[fr.path]), Contents(l))
      BY <2>2, <3>1, FoundIsElsewhere DEF SafeInv, AtWork, Searched
    <3>3. Same(Contents(l), Contents(At[fr.path]))
      BY <1>1, <3>2, ContentsType, SameTransitive
    <3> QED
      BY <1>1, <3>1, <3>2, <3>3, LinkKeeps
  <2> QED
    BY <2>2, <2>3, <2>4, <2>5
<1> QED
  BY <1>2, <1>3

LEMMA NamesHoldNext ==
    ASSUME NamesInv, TypeOK', OncePerName, [Next]_vars
    PROVE  NamesHold'
<1>1. SafeInv /\ TypeOK /\ AtWork /\ RecordsHold /\ NamesHold
  BY DEF NamesInv, SafeInv
<1>2. UNCHANGED opts /\ \A c, d : Same(c, d)' <=> Same(c, d)
  BY OptsStay
<1>3. \A f \in Name : /\ Contents(f) \in Content \cup {NoContent} /\ Contents(f)' \in Content \cup {NoContent}
                      /\ was[f] \in Content \cup {NoContent}
  BY <1>1, ContentsType, ContentsNext DEF TypeOK
<1>4. CASE Users
  <2>1. \A f \in Name : was'[f] = Contents(f)'
    BY <1>1, <1>4, UsersLeave
  <2>2. \A f \in Name : was'[f] # NoContent => Same(was'[f], Contents(f)')
    BY <1>3, <2>1, SameIs
  <2>3. pc' = "next"
    BY <1>4 DEF Users
  <2> QED
    BY <1>2, <2>2, <2>3 DEF NamesHold
<1>5. CASE Fdf \/ UNCHANGED vars
  <2>1. UNCHANGED <<steps, was>>
    BY <1>5, OptsStay
  <2> SUFFICES ASSUME "d" \notin opts, "c" \in opts => steps = 0
               PROVE  /\ \A f \in Name : was[f] # NoContent /\ ~ (pc' = "copy" /\ f = file') =>
                                            Same(was[f], Contents(f)')
                      /\ pc' = "copy" /\ was[file'] # NoContent => Same(was[file'], Contents(At[fr.path])')
    BY <1>2, <2>1 DEF NamesHold
  <2>2. PICK l : l = file
    OBVIOUS
  <2>3. /\ \A f \in Name : was[f] # NoContent /\ ~ (pc = "copy" /\ f = l) => Same(was[f], Contents(f))
        /\ pc = "copy" /\ was[l] # NoContent => Same(was[l], Contents(At[fr.path]))
    BY <1>1, <2>2 DEF NamesHold
  <2>4. \A f \in Name : Keeps(f) /\ Same(was[f], Contents(f)) => Same(was[f], Contents(f)')
    BY <1>3, SameTransitive DEF Keeps
  <2>k. \A f \in Name : Keeps(f) \/ (f = l /\ (SplitUnlink \/ SplitCopy))
    BY <1>1, <1>5, <2>2, NamesKeep
  <2>5. CASE SplitUnlink
    <3>1. /\ pc = "same" /\ pc' = "copy" /\ UNCHANGED <<data, at, fr>> /\ Unlink(l) /\ "c" \in opts
      BY <2>2, <2>5 DEF SplitUnlink, Stay
    <3>2. file' = l /\ l \in Name /\ At[fr.path] \in Name \ {l}
      BY <1>1, <2>2, <3>1, FileIs, FoundIsElsewhere DEF AtWork, file, path, SafeInv
    <3>3. PICK g \in Name \ {l} : g = At[fr.path]
      BY <3>2
    <3>4. Contents(g)' = Contents(g)
      BY <1>1, <3>1, <3>2, UnlinkKeeps
    <3>5. Same(Contents(l), Contents(g))
      <4>1. PICK k \in Entry : fr = table[k] /\ table[k].node = dir[l] /\ Present(l)
        BY <1>1, <2>2, <3>1 DEF AtWork
      <4>2. Same(data[dir[l]], Contents(g))
        BY <1>1, <3>1, <3>3, <4>1 DEF RecordsHold, first
      <4> QED
        BY <1>1, <3>2, <4>1, <4>2, ContentsType
    <3>6. was[l] # NoContent => Same(was[l], Contents(g)')
      <4>1. was[l] # NoContent => Same(was[l], Contents(l))
        BY <2>3, <3>1, <3>2
      <4> QED
        BY <1>3, <3>2, <3>4, <3>5, <4>1, SameTransitive
    <3>7. \A f \in Name \ {l} : Contents(f)' = Contents(f)
      BY <1>1, <3>1, <3>2, UnlinkKeeps
    <3>8. g = At[fr'.path]
      BY <3>1, <3>3
    <3>9. Contents(At[fr.path])' = Contents(g)'
      BY <3>8 DEF Contents, Present
    <3> QED
      BY <2>3, <3>1, <3>2, <3>6, <3>7, <3>9
  <2>6. CASE SplitCopy
    <3>1. pc = "copy" /\ pc' = "next" /\ "c" \in opts /\ at <= Len(Visits) /\ l \in Name
      BY <1>1, <2>2, <2>6, FileIs DEF SplitCopy, Leave, NamesInv, AtWork
    <3>2. Present(At[fr.path])
      BY <1>1, <3>1 DEF AtWork, RecordsHold, first
    <3>3. \A f \in Name \ {l} : Contents(f)' = Contents(f)
      BY <1>1, <2>2, <2>6, <3>2, SplitCopyKeeps
    <3>4. Contents(l)' = Contents(At[fr.path])
      BY <1>1, <2>2, <2>6, <3>2, SplitCopyKeeps
    <3> QED
      BY <2>3, <3>1, <3>3, <3>4
  <2>7. CASE ~ SplitUnlink /\ ~ SplitCopy
    <3>1. \A f \in Name : Keeps(f)
      BY <2>7, <2>k
    <3>2. pc' = "copy" => UNCHANGED vars
      BY <1>5, <2>7
         DEF Fdf, FindLink, StartSearch, PassOver, Leave, LinkDeleted, Skip, Searching, DropRecord,
             Compare, Add,
             EqualDeleted, EqualLinked, EqualShown, Break, Stay
    <3>3. CASE pc' = "copy"
      <4>1. UNCHANGED <<dir, data, pc, at, fr>>
        BY <3>2, <3>3 DEF vars, disk
      <4>2. file' = l /\ (\A f \in Name : Contents(f)' = Contents(f))
            /\ Contents(At[fr.path])' = Contents(At[fr.path])
        BY <2>2, <4>1 DEF file, path, Contents, Present
      <4> QED
        BY <2>3, <4>1, <4>2
    <3>4. CASE pc' # "copy"
      <4>1. pc # "copy"
        BY <1>5, <2>7, <3>4
           DEF Fdf, FindLink, StartSearch, PassOver, Arrived, LinkDeleted, Skip, Searching, DropRecord, Compare,
               Add, EqualDeleted, EqualLinked, EqualShown, Break, vars
      <4> QED
        BY <2>3, <2>4, <3>1, <3>4, <4>1
    <3> QED
      BY <3>3, <3>4
  <2> QED
    BY <2>5, <2>6, <2>7
<1> QED
  BY <1>4, <1>5 DEF Next

LEMMA NamesAlways ==
    ASSUME OncePerName, WholeBlocks
    PROVE  Spec => []NamesInv
<1>1. Init => NamesInv
  <2> SUFFICES ASSUME Init
               PROVE  NamesInv
    OBVIOUS
  <2>1. SafeInv /\ TypeOK
    BY SafeInit DEF SafeInv
  <2>2. \A f \in Name : was[f] = Contents(f) /\ Present(f)
    BY LayoutsAssumption, NodesAssumption DEF Init, Contents, Present
  <2>3. \A f \in Name : Same(was[f], Contents(f))
    BY <2>1, <2>2, ContentsType
  <2>4. pc = "next" /\ Entry = {}
    BY DEF Init, Entry
  <2> QED
    BY <2>1, <2>3, <2>4 DEF NamesInv, RecordsHold, NamesHold
<1>2. NamesInv /\ [Next]_vars => NamesInv'
  <2> SUFFICES ASSUME NamesInv, [Next]_vars
               PROVE  NamesInv'
    OBVIOUS
  <2>1. SafeInv /\ RecordsHold
    BY DEF NamesInv
  <2>2. SafeInv' /\ TypeOK'
    BY <2>1, SafeNext DEF SafeInv
  <2>3. RecordsHold' /\ NamesHold'
    BY <2>1, <2>2, RecordsHoldNext, NamesHoldNext
  <2>4. (pc = "copy" => "c" \in opts)'
    BY OptsStay DEF NamesInv, Next, Fdf, FindLink, StartSearch, PassOver, SplitUnlink, SplitCopy,
        LinkDeleted, Skip,
           Searching, DropRecord, Compare, Add, EqualDeleted, EqualLinked, EqualShown, Break, Users, Leave,
               Stay, vars
  <2> QED
    BY <2>2, <2>3, <2>4 DEF NamesInv
<1> QED
  BY <1>1, <1>2, PTL DEF Spec

(* Between two visits and without -d every name has the contents that it had when
   they were last looked at; with -c, which deletes a link and copies the file that was
   seen first, as long as nobody else has changed a file. *)
THEOREM NamesAreKept ==
    ASSUME OncePerName, WholeBlocks
    PROVE  Spec => []NamesKept
<1>1. NamesInv => NamesKept
  BY DEF NamesInv, NamesHold, NamesKept
<1> QED
  BY <1>1, NamesAlways, PTL
-----------------------------------------------------------------------------
(* What has been done so far, if nobody else has changed a file. *)

LEMMA SameSum ==
    ASSUME NEW c \in Content, NEW d \in Content, Same(c, d)
    PROVE  Sum(c) = Sum(d) /\ c.body = d.body /\ (Long(c) <=> Long(d))
<1>1. (Skips \/ c.head = d.head) /\ c.body = d.body /\ c.tail = d.tail
  BY SameIs
<1> QED
  BY <1>1, SumIs DEF Long

LEMMA FirstsKeep ==
    ASSUME DoneInv, OncePerName, steps = 0, Fdf, TypeOK', NEW k \in Entry, NEW f, f = first(k)
    PROVE  /\ f \in Name /\ Keeps(f)
           /\ Contents(f) \in Content /\ Contents(f)' \in Content
           /\ Same(Contents(f), Contents(f)')
           /\ Sum(Contents(f)) = Sum(Contents(f)') /\ Contents(f).body = Contents(f)'.body
           /\ Long(Contents(f)) <=> Long(Contents(f)')
           /\ \A c \in Content \cup {NoContent} :
                /\ Same(c, Contents(f)') <=> Same(c, Contents(f))
                /\ Same(Contents(f)', c) <=> Same(Contents(f), c)
<1>1. SafeInv /\ TypeOK /\ RecordsHold
  BY DEF DoneInv, NamesInv, SafeInv
<1>2. f \in Name /\ Keeps(f) /\ Present(f)
  BY <1>1, RecordsKeep DEF RecordsHold
<1>3. Contents(f) \in Content /\ Contents(f)' \in Content \cup {NoContent} /\ Same(Contents(f), Contents(f))
  BY <1>1, <1>2, ContentsType, ContentsNext
<1>4. Same(Contents(f), Contents(f)')
  BY <1>2, <1>3 DEF Keeps
<1>5. Contents(f)' \in Content
  BY <1>3, <1>4, SameIs
<1>6. \A c \in Content \cup {NoContent} :
        /\ Same(c, Contents(f)') <=> Same(c, Contents(f))
        /\ Same(Contents(f)', c) <=> Same(Contents(f), c)
  BY <1>3, <1>4, <1>5, SameTransitive
<1>7. PICK c, d : c = Contents(f) /\ d = Contents(f)'
  OBVIOUS
<1>8. Sum(c) = Sum(d) /\ c.body = d.body /\ (Long(c) <=> Long(d))
  BY <1>3, <1>4, <1>5, <1>7, SameSum
<1> QED
  BY <1>2, <1>3, <1>4, <1>5, <1>6, <1>7, <1>8

LEMMA NoRecordIsDropped ==
    ASSUME TypeOK, RecordsHold, steps = 0
    PROVE  ~ DropRecord
<1> SUFFICES ASSUME DropRecord
             PROVE  FALSE
  OBVIOUS
<1>1. i \in Entry /\ ~ Present(first(i))
  BY TableDropped DEF DropRecord, here, first
<1> QED
  BY <1>1 DEF RecordsHold

LEMMA TableAsBefore ==
    ASSUME TypeOK, AtWork, RecordsHold, steps = 0, Fdf, ~ Add
    PROVE  /\ Entry' = Entry
           /\ \A k \in Entry :
                /\ table'[k].path = table[k].path /\ table'[k].node = table[k].node
                /\ table'[k].size = table[k].size
                /\ table'[k].sum \in {table[k].sum, Sum(Contents(first(k)))}
<1>1. CASE Compare
  BY <1>1, TableCompared DEF SumOf, first
<1>2. CASE UNCHANGED table
  BY <1>2 DEF Entry
<1> QED
  BY <1>1, <1>2, NoRecordIsDropped, TableNext DEF Next

LEMMA VisitedNext ==
    ASSUME SafeInv, OncePerName, Fdf
    PROVE  /\ Visited \subseteq Name
           /\ at <= Len(Visits) => file \notin Visited /\ file \in Name
           /\ \/ UNCHANGED at /\ Visited' = Visited
              \/ at' = at + 1 /\ at <= Len(Visits) /\ Visited' = Visited \cup {file}
<1>1. TypeOK /\ AtWork
  BY DEF SafeInv
<1>2. at \in Nat \ {0} /\ Len(Visits) \in Nat /\ at <= Len(Visits) + 1
  BY <1>1, VisitsAssumption DEF TypeOK
<1>3. \A j \in 1 .. at - 1 : j \in 1 .. Len(Visits) /\ j # at
  BY <1>2
<1>4. Visited \subseteq Name
  BY <1>3, VisitsAssumption DEF Visited
<1>5. at <= Len(Visits) => file \notin Visited /\ file \in Name
  <2> SUFFICES ASSUME at <= Len(Visits)
               PROVE  file \notin Visited /\ file \in Name
    OBVIOUS
  <2>1. at \in 1 .. Len(Visits)
    BY <1>2
  <2>2. \A j \in 1 .. at - 1 : At[Visits[j]] # At[Visits[at]]
    BY <1>3, <2>1 DEF OncePerName
  <2> QED
    BY <2>1, <2>2, VisitsAssumption DEF Visited, file, path
<1>6. UNCHANGED at \/ (at' = at + 1 /\ at <= Len(Visits))
  BY <1>1 DEF AtWork, Fdf, FindLink, StartSearch, PassOver, Arrived, SplitUnlink, SplitCopy, LinkDeleted, Skip,
              DropRecord, Compare, Add, EqualDeleted, EqualLinked, EqualShown, Break, Stay, Leave
<1>7. UNCHANGED at => Visited' = Visited
  BY DEF Visited
<1>8. at' = at + 1 => Visited' = Visited \cup {file}
  <2> SUFFICES ASSUME at' = at + 1
               PROVE  Visited' = Visited \cup {file}
    OBVIOUS
  <2>1. 1 .. at' - 1 = (1 .. at - 1) \cup {at}
    BY <1>2
  <2> QED
    BY <2>1 DEF Visited, file, path
<1> QED
  BY <1>4, <1>5, <1>6, <1>7, <1>8

(* The visited names keep their contents. *)
LEMMA VisitedKeep ==
    ASSUME SafeInv, OncePerName, Fdf, NEW f \in Visited
    PROVE  f \in Name /\ Keeps(f)
<1>1. TypeOK /\ f \in Name
  BY VisitedNext DEF SafeInv
<1>2. CASE UNCHANGED <<dir, data>>
  BY <1>1, <1>2, DirKeeps DEF Keeps
<1>3. CASE ~ UNCHANGED <<dir, data>>
  <2>1. PICK l : l = file
    OBVIOUS
  <2>2. at <= Len(Visits) /\ \A g \in Name \ {l} : Keeps(g)
    BY <1>3, <2>1, FdfKeeps
  <2>3. f # l
    BY <2>1, <2>2, VisitedNext
  <2> QED
    BY <1>1, <2>2, <2>3
<1> QED
  BY <1>1, <1>2, <1>3

(* A file that is left is deleted, is too short, or is represented. *)
LEMMA LeftIsRepresented ==
    ASSUME DoneInv, OncePerName, steps = 0, Fdf, ~ Add, TypeOK', at' = at + 1, NEW f, f = file,
           Present(f)', Long(Contents(f)')
    PROVE  \E k \in Entry : Same(Contents(f)', Contents(first(k)))
<1>1. SafeInv /\ TypeOK /\ AtWork /\ RecordsHold
  BY DEF DoneInv, NamesInv, SafeInv
<1>2. at \in Nat /\ at <= Len(Visits) /\ f \in Name
  BY <1>1, FileIs, VisitedNext DEF TypeOK
<1>3. PassOver \/ SplitCopy \/ LinkDeleted \/ EqualDeleted \/ EqualLinked \/ EqualShown
  <2>1. FindLink \/ StartSearch \/ SplitUnlink \/ Skip \/ DropRecord \/ Compare \/ Break => at' = at
    BY DEF FindLink, StartSearch, SplitUnlink, Skip, DropRecord, Compare, Break, Stay
  <2>2. at' # at
    BY <1>2
  <2> QED
    BY <2>1, <2>2 DEF Fdf
<1>4. Contents(f)' \in Content /\ Contents(f) \in Content \cup {NoContent}
  BY <1>1, <1>2, ContentsType, ContentsNext
<1>5. ~ PassOver
  <2> SUFFICES ASSUME PassOver
               PROVE  FALSE
    OBVIOUS
  <2>1. UNCHANGED <<dir, data, opts>> /\ ~ Searched /\ ~ Seen
    BY DEF PassOver, Stay, disk
  <2>2. Present(f) /\ Contents(f)' = Contents(f) /\ Long(Contents(f))
    BY <2>1 DEF Present, Contents
  <2> QED
    BY <2>1, <2>2 DEF Searched, Long, Contents
<1>6. CASE SplitCopy
  <2>1. pc = "copy"
    BY <1>6 DEF SplitCopy
  <2>2. PICK k \in Entry : fr = table[k]
    BY <1>1, <2>1 DEF AtWork
  <2>3. Present(At[fr.path]) /\ At[fr.path] = first(k) /\ first(k) \in Name
    BY <1>1, <2>2, TableIs DEF RecordsHold, first
  <2>4. Contents(f)' = Contents(first(k))
    BY <1>1, <1>6, <2>3, SplitCopyKeeps
  <2>5. Same(Contents(first(k)), Contents(first(k)))
    BY <1>1, <2>3, ContentsType
  <2> QED
    BY <2>4, <2>5
<1>7. CASE LinkDeleted \/ EqualDeleted \/ EqualLinked \/ EqualShown
  <2>1. pc \in {"same", "equal"}
    BY <1>7 DEF LinkDeleted, EqualDeleted, EqualLinked, EqualShown
  <2>2. PICK k \in Entry : Same(Contents(f), Contents(first(k)))
    <3>1. CASE pc = "same"
      <4>1. PICK k \in Entry : table[k].node = dir[f] /\ Present(f)
        BY <1>1, <3>1 DEF AtWork
      <4>2. Same(data[dir[f]], Contents(first(k)))
        BY <1>1, <4>1 DEF RecordsHold
      <4> QED
        BY <4>1, <4>2 DEF Contents
    <3>2. CASE pc = "equal"
      <4>1. PICK k \in Entry : fr.path = table[k].path
        BY <1>1, <3>2 DEF AtWork
      <4>2. first(k) \in Name /\ Same(Contents(first(k)), Contents(f))
        BY <1>1, <3>2, <4>1, TableIs DEF AtWork, first
      <4> QED
        BY <1>1, <1>2, <4>2, ContentsType, SameTransitive
    <3> QED
      BY <2>1, <3>1, <3>2
  <2>3. Keeps(f)
    <3>1. CASE UNCHANGED <<dir, data>>
      BY <1>1, <1>2, <3>1, DirKeeps DEF Keeps
    <3>2. CASE ~ UNCHANGED <<dir, data>>
      <4>1. Keeps(f) \/ Contents(f)' = NoContent
        BY <1>1, <2>1, <3>2, FdfKeeps
      <4> QED
        BY <1>4, <4>1, ContentAssumption
    <3> QED
      BY <3>1, <3>2
  <2>4. first(k) \in Name /\ Contents(first(k)) \in Content \cup {NoContent}
    BY <1>1, TableIs, ContentsType
  <2> QED
    BY <1>4, <2>2, <2>3, <2>4, SameTransitive DEF Keeps
<1> QED
  BY <1>3, <1>5, <1>6, <1>7

(* The path of a record leads to the same name after a step. *)
LEMMA FirstNext ==
    ASSUME DoneInv, OncePerName, steps = 0, Fdf, ~ Add, TypeOK', NEW k \in Entry'
    PROVE  \E f \in Name : /\ k \in Entry /\ f = first(k) /\ f = first(k)' /\ Keeps(f)
                           /\ Present(first(k))' = Present(f)' /\ Contents(first(k))' = Contents(f)'
<1>1. TypeOK /\ AtWork /\ RecordsHold
  BY DEF DoneInv, NamesInv, SafeInv
<1>2. k \in Entry /\ table'[k].path = table[k].path
  BY <1>1, TableAsBefore
<1>3. PICK f : f = first(k)
  OBVIOUS
<1>4. f \in Name /\ Keeps(f)
  BY <1>2, <1>3, FirstsKeep
<1>5. f = first(k)'
  BY <1>2, <1>3 DEF first
<1>6. Present(first(k))' = Present(f)' /\ Contents(first(k))' = Contents(f)'
  BY <1>5 DEF Present, Contents
<1> QED
  BY <1>2, <1>3, <1>4, <1>5, <1>6

LEMMA SumsRightNext ==
    ASSUME DoneInv, OncePerName, steps = 0, Fdf, ~ Add, TypeOK'
    PROVE  SumsRight'
<1>1. TypeOK /\ AtWork /\ RecordsHold /\ SumsRight
  BY DEF DoneInv, NamesInv, SafeInv, DoneSoFar
<1>2. UNCHANGED opts
  BY OptsStay DEF Next
<1>3. ASSUME NEW k \in Entry'
      PROVE  (/\ table[k].size = Size[Contents(first(k)).body]
              /\ Long(Contents(first(k)))
              /\ table[k].sum # NoSum => table[k].sum = Sum(Contents(first(k))))'
  <2>1. PICK f \in Name : k \in Entry /\ f = first(k) /\ Contents(first(k))' = Contents(f)'
    BY FirstNext
  <2>2. /\ table'[k].size = table[k].size
        /\ table'[k].sum \in {table[k].sum, Sum(Contents(f))}
    BY <1>1, <2>1, TableAsBefore
  <2>3. /\ table[k].size = Size[Contents(f).body]
        /\ Long(Contents(f))
        /\ table[k].sum # NoSum => table[k].sum = Sum(Contents(f))
    BY <1>1, <2>1 DEF SumsRight
  <2>4. /\ Sum(Contents(f)) = Sum(Contents(f)') /\ Contents(f).body = Contents(f)'.body
        /\ Long(Contents(f)) <=> Long(Contents(f)')
    BY <2>1, FirstsKeep
  <2>5. PICK d : d = Contents(f)'
    OBVIOUS
  <2>6. Sum(d)' = Sum(d) /\ (Long(d)' <=> Long(d))
    BY <1>2, SameNext
  <2>7. Sum(Contents(first(k)))' = Sum(d)' /\ Long(Contents(first(k)))' = Long(d)'
    BY <2>1, <2>5 DEF Sum, Compared, Skips, Long
  <2>8. Size[Contents(first(k)).body]' = Size[d.body]
    BY <2>1, <2>5
  <2> QED
    BY <2>2, <2>3, <2>4, <2>5, <2>6, <2>7, <2>8
<1> QED
  BY <1>3 DEF SumsRight

LEMMA RepresentedNext ==
    ASSUME DoneInv, OncePerName, steps = 0, Fdf, ~ Add, TypeOK'
    PROVE  Represented'
<1>1. SafeInv /\ TypeOK /\ AtWork /\ RecordsHold /\ Represented
  BY DEF DoneInv, NamesInv, SafeInv, DoneSoFar
<1>2. UNCHANGED opts /\ (\A c, d : Same(c, d)' <=> Same(c, d)) /\ \A c : Long(c)' <=> Long(c)
  BY OptsStay, SameNext DEF Next
<1>3. Entry' = Entry
  BY <1>1, TableAsBefore
<1>4. ASSUME NEW f \in Visited', Present(f)', Long(Contents(f)')
      PROVE  \E k \in Entry' : Same(Contents(f)', Contents(first(k))')
  <2>1. f \in Name /\ (f \in Visited \/ (f = file /\ at' = at + 1))
    <3>1. CASE Visited' = Visited
      BY <1>1, <1>4, <3>1, VisitedNext
    <3>2. CASE at' = at + 1 /\ at <= Len(Visits) /\ Visited' = Visited \cup {file}
      BY <1>1, <1>4, <3>2, VisitedNext
    <3> QED
      BY <1>1, <3>1, <3>2, VisitedNext
  <2>2. Contents(f)' \in Content
    BY <2>1, <1>4, ContentsNext
  <2>3. PICK k \in Entry : Same(Contents(f)', Contents(first(k)))
    <3>1. CASE f \in Visited
      <4>1. Keeps(f) /\ Contents(f) \in Content \cup {NoContent}
        BY <1>1, <3>1, VisitedKeep, ContentsType
      <4>2. Same(Contents(f), Contents(f)')
        BY <2>2, <4>1, SameIs DEF Keeps
      <4>3. Contents(f) \in Content
        BY <2>2, <4>1, <4>2, SameIs
      <4>4. Long(Contents(f)) /\ Present(f)
        BY <1>1, <1>4, <2>1, <2>2, <4>2, <4>3, SameSum, ContentsType
      <4>5. PICK k \in Entry : Same(Contents(f), Contents(first(k)))
        BY <1>1, <3>1, <4>4 DEF Represented
      <4>6. Contents(first(k)) \in Content \cup {NoContent}
        BY <1>1, TableIs, ContentsType
      <4> QED
        BY <2>2, <4>2, <4>3, <4>5, <4>6, SameTransitive
    <3>2. CASE f = file /\ at' = at + 1
      BY <1>4, <3>2, LeftIsRepresented
    <3> QED
      BY <2>1, <3>1, <3>2
  <2>4. PICK h \in Name : h = first(k) /\ Contents(first(k))' = Contents(h)'
    BY <1>3, FirstNext
  <2>5. Same(Contents(f)', Contents(h)')
    BY <2>2, <2>3, <2>4, FirstsKeep
  <2> QED
    BY <1>3, <2>4, <2>5
<1>5. \A f \in Visited' : Long(Contents(f))' <=> Long(Contents(f)')
  BY <1>2
<1> QED
  BY <1>2, <1>4, <1>5 DEF Represented

LEMMA DifferentNext ==
    ASSUME DoneInv, OncePerName, steps = 0, Fdf, ~ Add, TypeOK'
    PROVE  Different'
<1>1. UNCHANGED opts /\ \A c, d : Same(c, d)' <=> Same(c, d)
  BY OptsStay DEF Next
<1>2. ASSUME NEW j \in Entry', NEW k \in Entry', Same(Contents(first(j))', Contents(first(k))')
      PROVE  j = k
  <2>1. PICK f \in Name : j \in Entry /\ f = first(j) /\ Contents(first(j))' = Contents(f)'
    BY FirstNext
  <2>2. PICK h \in Name : k \in Entry /\ h = first(k) /\ Contents(first(k))' = Contents(h)'
    BY FirstNext
  <2>3. Same(Contents(f)', Contents(h)')
    BY <1>2, <2>1, <2>2
  <2>4. Contents(f) \in Content /\ Contents(f)' \in Content /\ Contents(h) \in Content /\
          Contents(h)' \in Content
    BY <2>1, <2>2, FirstsKeep
  <2>5. Same(Contents(f), Contents(h)')
    BY <2>1, <2>3, <2>4, FirstsKeep
  <2>6. Same(Contents(f), Contents(h))
    BY <2>2, <2>4, <2>5, FirstsKeep
  <2> QED
    BY <2>1, <2>2, <2>6 DEF DoneInv, DoneSoFar, Different
<1> QED
  BY <1>1, <1>2 DEF Different

(* A record is passed over only if its file is another one. *)
LEMMA SearchedNext ==
    ASSUME DoneInv, OncePerName, steps = 0, Fdf, ~ Add, TypeOK'
    PROVE  SearchedSoFar'
<1>1. SafeInv /\ TypeOK /\ AtWork /\ RecordsHold /\ SumsRight /\ SearchedSoFar
  BY DEF DoneInv, NamesInv, SafeInv, DoneSoFar
<1>2. UNCHANGED opts /\ \A c, d : Same(c, d)' <=> Same(c, d)
  BY OptsStay DEF Next
<1> SUFFICES ASSUME pc' = "search", NEW k \in Entry', k < i'
             PROVE  ~ Same(Contents(file), Contents(first(k)))'
  BY DEF SearchedSoFar
<1>3. StartSearch \/ Skip \/ Compare
  <2>1. ~ DropRecord
    BY <1>1, NoRecordIsDropped
  <2> QED
    BY <2>1 DEF Fdf, FindLink, PassOver, SplitUnlink, SplitCopy, LinkDeleted, EqualDeleted, EqualLinked,
                EqualShown, Break, Leave
<1>4. k \in Entry /\ UNCHANGED <<dir, data, at>>
  BY <1>1, <1>3, TableAsBefore DEF StartSearch, Skip, Compare, Stay, disk
<1>5. k \in Nat /\ i \in Nat
  BY <1>1, <1>4, TableIs DEF TypeOK
<1>6. PICK f : f = file
  OBVIOUS
<1>7. PICK h \in Name : h = first(k) /\ h = first(k)' /\ Contents(first(k))' = Contents(h)'
  BY FirstNext
<1>8. Contents(h)' = Contents(h) /\ Contents(f)' = Contents(f) /\ Contents(file)' = Contents(f)'
  BY <1>4, <1>6 DEF file, path, Contents, Present
<1>9. SUFFICES ~ Same(Contents(f), Contents(h))
  BY <1>2, <1>7, <1>8
<1>10. pc = "search" => at <= Len(Visits) /\ f \in Name /\ Contents(f) \in Content
  BY <1>1, <1>6, FileIs, ContentsType DEF AtWork, Searched
<1>11. Contents(h) \in Content /\ table[k].size = Size[Contents(h).body]
       /\ (table[k].sum # NoSum => table[k].sum = Sum(Contents(h)))
  BY <1>1, <1>4, <1>7, FirstsKeep DEF SumsRight
<1>12. CASE StartSearch
  <2>1. i' = 1 /\ 1 <= k
    BY <1>1, <1>4, <1>12, TableIs DEF StartSearch
  <2> QED
    BY <1>5, <2>1
<1>13. CASE Skip \/ Compare
  <2>1. pc = "search" /\ i' = i + 1
    BY <1>13 DEF Skip, Compare, Searching
  <2>2. CASE k < i
    BY <1>1, <1>4, <1>6, <1>7, <2>1, <2>2 DEF SearchedSoFar
  <2>3. CASE k = i
    <3> SUFFICES ASSUME Same(Contents(f), Contents(h))
                 PROVE  FALSE
      OBVIOUS
    <3>1. /\ Contents(f).body = Contents(h).body /\ Sum(Contents(f)) = Sum(Contents(h))
          /\ Skips \/ Contents(f).head = Contents(h).head
      BY <1>10, <1>11, <2>1, SameSum, SameIs
    <3>2. CASE Skip
      BY <1>6, <1>11, <2>3, <3>1, <3>2 DEF Skip, Alike, here
    <3>3. CASE Compare
      <4>1. SumOf(table[k]) = Sum(Contents(f))
        BY <1>7, <1>11, <3>1 DEF SumOf, first
      <4>2. SameBlocks(Contents(h), Contents(f))
        BY <1>10, <1>11, <2>1, <3>1, BlocksIs
      <4> QED
        BY <1>6, <1>7, <2>1, <2>3, <3>3, <4>1, <4>2 DEF Compare, here, first
    <3> QED
      BY <1>13, <3>2, <3>3
  <2> QED
    BY <1>5, <2>1, <2>2, <2>3
<1> QED
  BY <1>3, <1>12, <1>13

(* As long as every name keeps its contents there are as many of the same contents. *)
LEMMA ManyNext ==
    ASSUME TypeOK, TypeOK', UNCHANGED opts, \A g \in Name : Keeps(g),
           NEW c \in Content, NEW d \in Content, Same(c, d), Many(c)
    PROVE  Many(d)'
<1>1. \A g \in Name : Same(c, Contents(g)) <=> Same(d, Contents(g)')
  <2> TAKE g \in Name
  <2>1. Contents(g) \in Content \cup {NoContent} /\ Contents(g)' \in Content \cup {NoContent}
    BY ContentsType, ContentsNext
  <2>2. Same(c, Contents(g)) <=> Same(c, Contents(g)')
    BY <2>1, SameTransitive DEF Keeps
  <2> QED
    BY <2>1, <2>2, SameTransitive
<1>2. \A g \in Name : Same(c, Contents(g)) <=> Same(d, Contents(g))'
  BY <1>1, SameNext
<1>3. {g \in Name : Same(c, Contents(g))} = {g \in Name : Same(d, Contents(g))'}
  BY <1>2
<1> QED
  BY <1>3 DEF Many

(* A new record is of a file that is unlike all visited ones. *)
LEMMA NewIsUnlike ==
    ASSUME DoneInv, OncePerName, steps = 0, Add, TypeOK', NEW f, f = file
    PROVE  /\ f \in Name /\ Contents(f) \in Content /\ Long(Contents(f)) /\ Present(f)
           /\ Visited' = Visited \cup {f} /\ Visited \subseteq Name /\ f \notin Visited
           /\ \A k \in Entry : ~ Same(Contents(f), Contents(first(k)))
           /\ \A g \in Visited' : Same(Contents(g), Contents(f)) => g = f
           /\ \A k \in Entry : \A g \in Visited' : Same(Contents(g), Contents(first(k))) => g \in Visited
           /\ \A g \in Visited' : dir[g] = dir[f] => g = f
           /\ \A k \in Entry : \A g \in Visited' : dir[g] = table[k].node => g \in Visited
<1>1. SafeInv /\ TypeOK /\ AtWork /\ RecordsHold /\ Represented /\ SearchedSoFar
  BY DEF DoneInv, NamesInv, SafeInv, DoneSoFar
<1>2. pc = "search" /\ i > Len(table) /\ at' = at + 1 /\ Fdf
  BY DEF Add, Leave, Fdf
<1>3. at <= Len(Visits) /\ Searched /\ at \in Nat
  BY <1>1, <1>2 DEF AtWork, TypeOK
<1>4. /\ f \in Name /\ Present(f) /\ Contents(f) \in Content /\ Contents(f) = data[dir[f]]
      /\ Same(Contents(f), Contents(f)) /\ Long(Contents(f))
  <2>1. f \in Name /\ Present(f)
    BY <1>1, <1>3, FileIs DEF Searched
  <2>2. Contents(f) \in Content /\ Contents(f) = data[dir[f]] /\ Same(Contents(f), Contents(f))
    BY <1>1, <2>1, ContentsType
  <2> QED
    BY <1>3, <2>1, <2>2 DEF Searched, Long
<1>5. Visited' = Visited \cup {f} /\ Visited \subseteq Name /\ f \notin Visited
  BY <1>1, <1>2, <1>3, VisitedNext
<1>6. \A k \in Entry : ~ Same(Contents(f), Contents(first(k)))
  <2>1. \A k \in Entry : k < i
    BY <1>1, <1>2, TableIs DEF TypeOK
  <2> QED
    BY <1>1, <1>2, <2>1 DEF SearchedSoFar
<1>c. \A g \in Name : Contents(g) \in Content \cup {NoContent}
  BY <1>1, ContentsType
<1>7. ASSUME NEW g \in Visited, Same(Contents(g), Contents(f))
      PROVE  FALSE
  <2>1. g \in Name /\ Contents(g) \in Content \cup {NoContent} /\ Same(Contents(f), Contents(g))
    BY <1>4, <1>5, <1>7, <1>c, SameTransitive
  <2>2. Contents(g) \in Content /\ Present(g)
    BY <1>1, <1>4, <1>7, <2>1, SameIs, ContentsType
  <2>3. Long(Contents(g))
    BY <1>4, <1>7, <2>2, SameSum
  <2>4. PICK k \in Entry : Same(Contents(g), Contents(first(k)))
    BY <1>1, <2>2, <2>3 DEF Represented
  <2>5. Contents(first(k)) \in Content \cup {NoContent}
    BY <1>1, <1>c, TableIs
  <2>6. Same(Contents(f), Contents(first(k)))
    BY <1>4, <1>7, <2>2, <2>4, <2>5, SameTransitive
  <2> QED
    BY <1>6, <2>6
<1>8. ASSUME NEW g \in Visited, dir[g] = dir[f]
      PROVE  FALSE
  <2>1. Contents(g) = Contents(f)
    BY <1>8 DEF Contents, Present
  <2> QED
    BY <1>4, <1>7, <2>1
<1>9. ASSUME NEW k \in Entry, dir[f] = table[k].node
      PROVE  FALSE
  <2>1. Same(data[dir[f]], Contents(first(k)))
    BY <1>1, <1>9 DEF RecordsHold
  <2> QED
    BY <1>4, <1>6, <2>1
<1> QED
  BY <1>4, <1>5, <1>6, <1>7, <1>8, <1>9

(* The records with a new one. *)
LEMMA FirstAdded ==
    ASSUME DoneInv, OncePerName, steps = 0, Add, TypeOK', NEW k \in Entry', NEW f, f = file
    PROVE  \E h \in Name :
             /\ h = first(k)' /\ Contents(first(k))' = Contents(h) /\ Contents(h)' = Contents(h)
             /\ \/ /\ k = 1 /\ h = f /\ table'[k].node = dir[f]
                   /\ table'[k].size = Size[Contents(f).body]
                   /\ table'[k].sum \in {NoSum, Sum(Contents(f))}
                \/ /\ k # 1 /\ k - 1 \in Entry /\ h = first(k - 1) /\ table'[k] = table[k - 1]
<1>1. TypeOK /\ AtWork
  BY DEF DoneInv, NamesInv, SafeInv
<1>2. PICK h : h = At[table'[k].path]
  OBVIOUS
<1>3. h = first(k)'
  BY <1>2 DEF first
<1>4. UNCHANGED <<dir, data>>
  BY DEF Add, Stay, disk
<1>5. Contents(first(k))' = Contents(h) /\ Contents(h)' = Contents(h)
  BY <1>3, <1>4 DEF Contents, Present
<1>6. CASE k = 1
  <2>1. table'[1].path = path /\ table'[1].node = dir[f] /\ table'[1].size = Size[Contents(f).body]
        /\ table'[1].sum \in {NoSum, Sum(Contents(f))}
    BY <1>1, TableAdded
  <2>2. h = f /\ f \in Name
    BY <1>2, <1>6, <2>1, NewIsUnlike DEF file
  <2> QED
    BY <1>3, <1>5, <1>6, <2>1, <2>2
<1>7. CASE k # 1
  <2>1. k - 1 \in Entry /\ table'[k] = table[k - 1]
    BY <1>1, <1>7, TableAdded
  <2>2. h = first(k - 1) /\ h \in Name
    BY <1>1, <1>2, <2>1, TableIs DEF first
  <2> QED
    BY <1>3, <1>5, <1>7, <2>1, <2>2
<1> QED
  BY <1>6, <1>7

LEMMA AddKeepsRecords ==
    ASSUME DoneInv, OncePerName, steps = 0, Add, TypeOK'
    PROVE  SumsRight' /\ Represented' /\ Different' /\ SearchedSoFar'
<1>1. SafeInv /\ TypeOK /\ AtWork /\ SumsRight /\ Represented /\ Different
  BY DEF DoneInv, NamesInv, SafeInv, DoneSoFar
<1>2. UNCHANGED <<dir, data, opts>> /\ pc' = "next"
  BY DEF Add, Stay, Leave, disk
<1>3. /\ \A c, d : Same(c, d)' <=> Same(c, d)
      /\ \A c : (Long(c)' <=> Long(c)) /\ Sum(c)' = Sum(c)
  BY <1>2, SameNext
<1>4. PICK f : f = file
  OBVIOUS
<1>5. \A g \in Name : Contents(g) \in Content \cup {NoContent} /\ Contents(g)' = Contents(g) /\
        Present(g)' = Present(g)
  BY <1>1, <1>2, ContentsType DEF Contents, Present
<1>6. SumsRight'
  <2>1. ASSUME NEW k \in Entry'
        PROVE  (/\ table[k].size = Size[Contents(first(k)).body]
                /\ Long(Contents(first(k)))
                /\ table[k].sum # NoSum => table[k].sum = Sum(Contents(first(k))))'
    <3>1. PICK h \in Name :
             /\ Contents(first(k))' = Contents(h)
             /\ \/ /\ h = f
                   /\ table'[k].size = Size[Contents(f).body]
                   /\ table'[k].sum \in {NoSum, Sum(Contents(f))}
                \/ /\ k - 1 \in Entry /\ h = first(k - 1) /\ table'[k] = table[k - 1]
      BY <1>4, FirstAdded
    <3>2. Long(Contents(f))
      BY <1>4, NewIsUnlike
    <3>3. /\ table'[k].size = Size[Contents(h).body]
          /\ Long(Contents(h))
          /\ table'[k].sum # NoSum => table'[k].sum = Sum(Contents(h))
      BY <1>1, <3>1, <3>2 DEF SumsRight
    <3>4. PICK d : d = Contents(h)
      OBVIOUS
    <3>5. Sum(Contents(first(k)))' = Sum(d)' /\ Long(Contents(first(k)))' = Long(d)'
      BY <3>1, <3>4 DEF Sum, Compared, Skips, Long
    <3>6. Size[Contents(first(k)).body]' = Size[d.body]
      BY <3>1, <3>4
    <3> QED
      BY <1>3, <3>3, <3>4, <3>5, <3>6
  <2> QED
    BY <2>1 DEF SumsRight
<1>7. Represented'
  <2>1. ASSUME NEW g \in Visited', Present(g), Long(Contents(g))
        PROVE  \E k \in Entry' : Same(Contents(g), Contents(first(k))')
    <3>1. CASE g = f
      <4>1. 1 \in Entry' /\ Same(Contents(f), Contents(f))
        BY <1>1, <1>4, <1>5, TableAdded, TableIs, NewIsUnlike, ContentsType
      <4>2. Contents(first(1))' = Contents(f)
        BY <1>4, <4>1, FirstAdded
      <4> QED
        BY <3>1, <4>1, <4>2
    <3>2. CASE g # f
      <4>1. g \in Visited
        BY <1>4, <2>1, <3>2, NewIsUnlike
      <4>2. PICK k \in Entry : Same(Contents(g), Contents(first(k)))
        BY <1>1, <2>1, <4>1 DEF Represented
      <4>3. k + 1 \in Entry' /\ table'[k + 1] = table[k]
        BY <1>1, TableAdded
      <4>4. PICK h : h = At[table[k].path]
        OBVIOUS
      <4>5. first(k) = h /\ first(k + 1)' = h /\ h \in Name
        BY <1>1, <4>3, <4>4, TableIs DEF first
      <4>6. Contents(first(k + 1))' = Contents(h)'
        BY <4>5 DEF Contents, Present
      <4> QED
        BY <1>5, <4>2, <4>3, <4>5, <4>6
    <3> QED
      BY <3>1, <3>2
  <2>2. \A g \in Visited' : /\ g \in Name /\ Present(g)' = Present(g) /\ Contents(g)' = Contents(g)
                            /\ Long(Contents(g))' <=> Long(Contents(g))
    <3> TAKE g \in Visited'
    <3>1. g \in Name
      BY <1>4, NewIsUnlike
    <3>2. Contents(g)' = Contents(g)
      BY <1>5, <3>1
    <3>3. Long(Contents(g))' <=> Long(Contents(g))
      BY <1>2, <3>2 DEF Long, Skips
    <3> QED
      BY <1>5, <3>1, <3>3
  <2> QED
    BY <1>3, <2>1, <2>2 DEF Represented
<1>8. Different'
  <2>1. ASSUME NEW j \in Entry', NEW k \in Entry', Same(Contents(first(j))', Contents(first(k))')
        PROVE  j = k
    <3>1. PICK g \in Name :
             /\ Contents(first(j))' = Contents(g)
             /\ \/ j = 1 /\ g = f
                \/ j # 1 /\ j - 1 \in Entry /\ g = first(j - 1)
      BY <1>4, FirstAdded
    <3>2. PICK h \in Name :
             /\ Contents(first(k))' = Contents(h)
             /\ \/ k = 1 /\ h = f
                \/ k # 1 /\ k - 1 \in Entry /\ h = first(k - 1)
      BY <1>4, FirstAdded
    <3>3. Same(Contents(g), Contents(h)) /\ Same(Contents(h), Contents(g))
      BY <1>5, <2>1, <3>1, <3>2, SameTransitive
    <3>4. j \in Int /\ k \in Int
      BY <1>1, TableAdded, TableIs
    <3>5. CASE j # 1 /\ k # 1
      <4>1. j - 1 = k - 1
        BY <1>1, <3>1, <3>2, <3>3, <3>5 DEF Different
      <4> QED
        BY <3>4, <4>1
    <3>6. CASE j = 1 \/ k = 1
      BY <1>4, <3>1, <3>2, <3>3, <3>6, NewIsUnlike
    <3> QED
      BY <3>5, <3>6
  <2> QED
    BY <1>3, <2>1 DEF Different
<1>9. SearchedSoFar'
  BY <1>2 DEF SearchedSoFar
<1> QED
  BY <1>6, <1>7, <1>8, <1>9

(* In every mode what has been done holds with the new record. *)
LEMMA AddKeepsModes ==
    ASSUME DoneInv, OncePerName, steps = 0, Add, TypeOK'
    PROVE  /\ Split => Split'
           /\ Deleted => Deleted'
           /\ Linked => Linked'
           /\ Single => Single'
<1>1. TypeOK
  BY DEF DoneInv, NamesInv, SafeInv
<1>2. UNCHANGED <<dir, data, opts>>
  BY DEF Add, Stay, disk
<1>3. PICK f : f = file
  OBVIOUS
<1>4. \A g \in Name : Keeps(g) /\ Contents(g)' = Contents(g) /\ Contents(g) \in Content \cup {NoContent}
  BY <1>1, <1>2, ContentsType DEF Contents, Present, Keeps
<1>5. Visited' \subseteq Name /\ Visited' = Visited \cup {f} /\ Contents(f) \in Content
  BY <1>3, NewIsUnlike
<1>6. \A c, d : Same(c, d)' <=> Same(c, d)
  BY <1>2, SameNext
<1>7. Split => Split'
  <2> SUFFICES ASSUME Split, NEW k \in Entry'
               PROVE  (/\ dir[first(k)] = table[k].node
                       /\ \A g \in Visited : dir[g] = table[k].node => g = first(k))'
    BY DEF Split
  <2>1. PICK h \in Name :
           /\ h = first(k)'
           /\ \/ h = f /\ table'[k].node = dir[f]
              \/ k - 1 \in Entry /\ h = first(k - 1) /\ table'[k] = table[k - 1]
    BY <1>3, FirstAdded
  <2>2. dir[h] = table'[k].node /\ \A g \in Visited' : dir[g] = table'[k].node => g = h
    <3>1. CASE h = f /\ table'[k].node = dir[f]
      BY <1>3, <3>1, NewIsUnlike
    <3>2. CASE k - 1 \in Entry /\ h = first(k - 1) /\ table'[k] = table[k - 1]
      BY <1>3, <3>2, NewIsUnlike DEF Split
    <3> QED
      BY <2>1, <3>1, <3>2
  <2> QED
    BY <1>2, <2>1, <2>2
<1>8. ASSUME NEW k \in Entry'
      PROVE  \E h \in Name :
               /\ h = first(k)' /\ Contents(h) \in Content /\ Contents(first(k))' = Contents(h)
               /\ Same(Contents(h), Contents(h))
               /\ \A g \in Visited' : Same(Contents(g), Contents(first(k)))' => Same(Contents(g), Contents(h))
               /\ \/ /\ dir[h] = table'[k].node
                     /\ \A g \in Visited' : Same(Contents(g), Contents(h)) => g = h
                  \/ \E j \in Entry :
                       /\ h = first(j) /\ table'[k] = table[j]
                       /\ \A g \in Visited' : Same(Contents(g), Contents(h)) => g \in Visited
  <2>1. PICK h \in Name :
           /\ h = first(k)' /\ Contents(first(k))' = Contents(h)
           /\ \/ h = f /\ table'[k].node = dir[f]
              \/ k - 1 \in Entry /\ h = first(k - 1) /\ table'[k] = table[k - 1]
    BY <1>3, FirstAdded
  <2>2. Contents(h) \in Content /\ Same(Contents(h), Contents(h))
    <3>1. Fdf
      BY DEF Fdf
    <3>2. Contents(h) \in Content
      BY <1>5, <2>1, <3>1, FirstsKeep
    <3> QED
      BY <1>1, <3>2, ContentsType
  <2>3. \A g \in Visited' : Same(Contents(g), Contents(first(k)))' => Same(Contents(g), Contents(h))
    BY <1>4, <1>5, <1>6, <2>1
  <2>4. \/ /\ dir[h] = table'[k].node
           /\ \A g \in Visited' : Same(Contents(g), Contents(h)) => g = h
        \/ \E j \in Entry :
             /\ h = first(j) /\ table'[k] = table[j]
             /\ \A g \in Visited' : Same(Contents(g), Contents(h)) => g \in Visited
    <3>1. CASE h = f /\ table'[k].node = dir[f]
      BY <1>3, <3>1, NewIsUnlike
    <3>2. CASE k - 1 \in Entry /\ h = first(k - 1) /\ table'[k] = table[k - 1]
      BY <1>3, <3>2, NewIsUnlike
    <3> QED
      BY <2>1, <3>1, <3>2
  <2> QED
    BY <2>1, <2>2, <2>3, <2>4
<1>9. Deleted => Deleted'
  <2> SUFFICES ASSUME Deleted, NEW k \in Entry'
               PROVE  (/\ dir[first(k)] = table[k].node
                       /\ \A g \in Visited : Same(Contents(g), Contents(first(k))) => dir[g] = dir[first(k)])'
    BY DEF Deleted
  <2>1. PICK h \in Name :
           /\ h = first(k)'
           /\ \A g \in Visited' : Same(Contents(g), Contents(first(k)))' => Same(Contents(g), Contents(h))
           /\ \/ /\ dir[h] = table'[k].node
                 /\ \A g \in Visited' : Same(Contents(g), Contents(h)) => g = h
              \/ \E j \in Entry :
                   /\ h = first(j) /\ table'[k] = table[j]
                   /\ \A g \in Visited' : Same(Contents(g), Contents(h)) => g \in Visited
    BY <1>8
  <2>2. dir[h] = table'[k].node /\ \A g \in Visited' : Same(Contents(g), Contents(h)) => dir[g] = dir[h]
    BY <2>1 DEF Deleted
  <2> QED
    BY <1>2, <2>1, <2>2
<1>10. Single => Single'
  <2> SUFFICES ASSUME Single, NEW k \in Entry'
               PROVE  (/\ dir[first(k)] = table[k].node
                       /\ \A g \in Visited : Same(Contents(g), Contents(first(k))) => g = first(k))'
    BY DEF Single
  <2>1. PICK h \in Name :
           /\ h = first(k)'
           /\ \A g \in Visited' : Same(Contents(g), Contents(first(k)))' => Same(Contents(g), Contents(h))
           /\ \/ /\ dir[h] = table'[k].node
                 /\ \A g \in Visited' : Same(Contents(g), Contents(h)) => g = h
              \/ \E j \in Entry :
                   /\ h = first(j) /\ table'[k] = table[j]
                   /\ \A g \in Visited' : Same(Contents(g), Contents(h)) => g \in Visited
    BY <1>8
  <2>2. dir[h] = table'[k].node /\ \A g \in Visited' : Same(Contents(g), Contents(h)) => g = h
    BY <2>1 DEF Single
  <2> QED
    BY <1>2, <2>1, <2>2
<1>11. Linked => Linked'
  <2> SUFFICES ASSUME Linked, NEW k \in Entry', ~ Many(Contents(first(k)))'
               PROVE  (/\ dir[first(k)] = table[k].node
                       /\ \A g \in Visited : Same(Contents(g), Contents(first(k))) => dir[g] = dir[first(k)])'
    BY DEF Linked
  <2>1. PICK h \in Name :
           /\ h = first(k)' /\ Contents(h) \in Content /\ Contents(first(k))' = Contents(h)
           /\ Same(Contents(h), Contents(h))
           /\ \A g \in Visited' : Same(Contents(g), Contents(first(k)))' => Same(Contents(g), Contents(h))
           /\ \/ /\ dir[h] = table'[k].node
                 /\ \A g \in Visited' : Same(Contents(g), Contents(h)) => g = h
              \/ \E j \in Entry :
                   /\ h = first(j) /\ table'[k] = table[j]
                   /\ \A g \in Visited' : Same(Contents(g), Contents(h)) => g \in Visited
    BY <1>8
  <2>2. PICK c : c = Contents(h)
    OBVIOUS
  <2>3. ~ Many(c)'
    BY <2>1, <2>2 DEF Many, Same, Compared, Skips
  <2>4. ~ Many(Contents(h))
    BY <1>1, <1>2, <1>4, <2>1, <2>2, <2>3, ManyNext
  <2>5. dir[h] = table'[k].node /\ \A g \in Visited' : Same(Contents(g), Contents(h)) => dir[g] = dir[h]
    BY <2>1, <2>4 DEF Linked
  <2> QED
    BY <1>2, <2>1, <2>5
<1> QED
  BY <1>7, <1>9, <1>10, <1>11

LEMMA FirstIsVisited ==
    ASSUME RecordsBefore, NEW k \in Entry
    PROVE  first(k) \in Visited
  BY DEF RecordsBefore, first, Visited

(* A file of a record that is left without being looked at would be too short. *)
LEMMA PassedIsUnlike ==
    ASSUME DoneInv, OncePerName, steps = 0, PassOver, NEW f, f = file, NEW k \in Entry,
           Same(Contents(f), Contents(first(k)))
    PROVE  FALSE
<1>1. TypeOK /\ SumsRight /\ Arrived /\ ~ Seen /\ ~ Searched
  BY DEF DoneInv, NamesInv, SafeInv, DoneSoFar, PassOver
<1>2. f \in Name /\ first(k) \in Name
  BY <1>1, FileIs, TableIs DEF Arrived
<1>3. /\ Contents(f) \in Content /\ Contents(first(k)) \in Content /\ Present(f)
      /\ Contents(f) = data[dir[f]]
  BY <1>1, <1>2, ContentsType, SameIs
<1>4. Long(Contents(f))
  BY <1>1, <1>3, SameSum DEF SumsRight
<1> QED
  BY <1>1, <1>3, <1>4 DEF Searched, Long

(* -c: a file that is split has a node of its own; no other visited name has the
   node of a record. *)
LEMMA SplitNext ==
    ASSUME DoneInv, OncePerName, steps = 0, Fdf, ~ Add, TypeOK', Mode = {"c"}, Split
    PROVE  Split'
<1>1. SafeInv /\ TypeOK /\ AtWork /\ RecordsBefore /\ RecordsHold
  BY DEF DoneInv, NamesInv, SafeInv
<1>2. "c" \in opts /\ "d" \notin opts /\ "l" \notin opts
  BY DEF Mode
<1>3. PICK f : f = file
  OBVIOUS
<1>4. \A g \in Visited : dir'[g] = dir[g] /\ g \in Name
  <2> TAKE g \in Visited
  <2>1. g \in Name
    BY <1>1, VisitedNext
  <2>2. CASE UNCHANGED dir
    BY <2>1, <2>2
  <2>3. CASE ~ UNCHANGED dir
    <3>1. SplitUnlink \/ SplitCopy
      BY <1>2, <2>3 DEF Fdf, FindLink, StartSearch, PassOver, LinkDeleted, Skip, DropRecord, Compare,
          EqualDeleted,
                        EqualLinked, EqualShown, Break, Stay, disk
    <3>2. at <= Len(Visits)
      BY <1>1, <3>1 DEF AtWork, SplitUnlink, SplitCopy
    <3>3. f \in Name /\ g # f
      BY <1>1, <1>3, <3>2, VisitedNext
    <3>4. \E n : dir' = [dir EXCEPT ![f] = n]
      BY <1>3, <2>3, <3>1 DEF SplitUnlink, Unlink, SplitCopy, disk
    <3> QED
      BY <1>1, <2>1, <3>3, <3>4 DEF TypeOK
  <2> QED
    BY <2>2, <2>3
<1>5. SUFFICES ASSUME NEW k \in Entry'
               PROVE  (/\ dir[first(k)] = table[k].node
                       /\ \A g \in Visited : dir[g] = table[k].node => g = first(k))'
  BY DEF Split
<1>6. PICK h \in Name : k \in Entry /\ h = first(k) /\ h = first(k)' /\ table'[k].node = table[k].node
  <2>1. PICK h \in Name : k \in Entry /\ h = first(k) /\ h = first(k)'
    BY FirstNext
  <2> QED
    BY <1>1, <2>1, TableAsBefore
<1>7. h \in Visited /\ dir[h] = table[k].node /\ dir'[h] = dir[h]
  BY <1>1, <1>4, <1>6, FirstIsVisited DEF Split
<1>8. ASSUME at' = at + 1, at <= Len(Visits), dir'[f] = table[k].node
      PROVE  FALSE
  <2>1. f \in Name /\ h # f /\ at \in Nat
    BY <1>1, <1>3, <1>7, <1>8, VisitedNext DEF TypeOK
  <2>2. PassOver \/ SplitCopy \/ EqualShown
    <3>1. FindLink \/ StartSearch \/ SplitUnlink \/ Skip \/ DropRecord \/ Compare \/ Break => at' = at
      BY DEF FindLink, StartSearch, SplitUnlink, Skip, DropRecord, Compare, Break, Stay
    <3>2. at' # at
      BY <1>8, <2>1
    <3> QED
      BY <1>2, <3>1, <3>2 DEF Fdf, LinkDeleted, EqualDeleted, EqualLinked
  <2>3. CASE PassOver
    <3>1. dir[f] = table[k].node /\ table[k].node \in Node
      BY <1>1, <1>6, <1>8, <2>3, TableIs DEF PassOver, Stay, disk
    <3>2. Contents(f) = data[table[k].node]
      BY <3>1, NodesAssumption DEF Contents, Present
    <3>3. Same(Contents(f), Contents(first(k)))
      BY <1>1, <1>6, <3>2 DEF RecordsHold
    <3> QED
      BY <1>3, <1>6, <2>3, <3>3, PassedIsUnlike
  <2>4. CASE SplitCopy
    <3>1. PICK j \in Entry : fr = table[j]
      BY <1>1, <2>4 DEF AtWork, SplitCopy
    <3>2. Present(At[fr.path])
      BY <1>1, <3>1 DEF RecordsHold, first
    <3> QED
      BY <1>1, <1>3, <1>6, <1>8, <2>4, <3>2, SplitCopyKeeps
  <2>5. CASE EqualShown
    <3>1. Searched /\ dir[f] = table[k].node
      BY <1>1, <1>8, <2>5 DEF EqualShown, AtWork, Stay, disk
    <3>2. dir[h] = dir[f]
      BY <1>7, <3>1
    <3>3. Links(dir[f]) > 1
      BY <2>1, <3>2, TwoLinks
    <3>4. /\ Present(f) /\ f \in Name /\ first(k) \in Name /\ table[k].node \in Node
          /\ Contents(f) = data[table[k].node]
      BY <1>1, <1>3, <1>6, <2>1, <3>1, TableIs DEF Searched, Contents
    <3>5. Same(Contents(f), Contents(first(k)))
      BY <1>1, <1>6, <3>4 DEF RecordsHold
    <3>6. table[k].size = Size[Contents(f).body]
      <4>1. SumsRight /\ Contents(f) \in Content /\ Contents(first(k)) \in Content
        BY <1>1, <3>4, <3>5, ContentsType, SameIs DEF DoneInv, DoneSoFar
      <4>2. Contents(f).body = Contents(first(k)).body
        BY <3>5, <4>1, SameIs
      <4> QED
        BY <1>6, <4>1, <4>2 DEF SumsRight
    <3>7. k \in SameFile
      BY <1>1, <1>3, <1>6, <3>1, <3>6, TableIs DEF SameFile
    <3> QED
      BY <1>3, <3>1, <3>3, <3>7 DEF Searched, Seen
  <2> QED
    BY <2>2, <2>3, <2>4, <2>5
<1>9. \A g \in Visited' : dir'[g] = table[k].node => g = h
  <2> SUFFICES ASSUME NEW g \in Visited', dir'[g] = table[k].node
               PROVE  g = h
    OBVIOUS
  <2>1. CASE g \in Visited
    BY <1>4, <1>6, <2>1 DEF Split
  <2>2. CASE g \notin Visited
    <3>1. at' = at + 1 /\ at <= Len(Visits) /\ g = f
      <4>1. Visited' # Visited
        BY <2>2
      <4> QED
        BY <1>1, <1>3, <2>2, <4>1, VisitedNext
    <3> QED
      BY <1>8, <3>1
  <2> QED
    BY <2>1, <2>2
<1> QED
  BY <1>6, <1>7, <1>9

(* A read-only file that is in the way stays there. *)
LEMMA StaysInTheWay ==
    ASSUME DoneInv, Fdf, "c" \notin opts, InTheWay
    PROVE  InTheWay'
<1>1. ~ Forced /\ pc # "copy"
  BY DEF DoneInv, NamesInv, InTheWay
<1>2. readonly' = readonly
  BY <1>1 DEF Fdf, FindLink, StartSearch, PassOver, SplitUnlink, SplitCopy, LinkDeleted, Skip, DropRecord,
      Compare,
              Add, EqualDeleted, EqualLinked, EqualShown, Break, Stay, disk, Cleared, Forced
<1>3. Forced' = Forced
  BY OptsStay, SameNext DEF Next
<1> QED
  BY <1>1, <1>2, <1>3 DEF InTheWay

(* To delete names changes nothing for the visited ones, and a file that is left has
   the node of its record, unless a read-only file is in the way. *)
LEMMA DeletingStep ==
    ASSUME DoneInv, OncePerName, steps = 0, Fdf, ~ Add, ~ EqualLinked, TypeOK',
           "c" \notin opts, opts \cap {"d", "l"} # {}
    PROVE  /\ \A g \in Visited : g \in Name /\ dir'[g] = dir[g] /\ Contents(g)' = Contents(g)
           /\ \A g \in Visited' \ Visited : \A k \in Entry :
                Same(Contents(g)', Contents(first(k))) =>
                    \/ InTheWay'
                    \/ /\ dir'[g] = dir[g] /\ dir[g] = table[k].node
                       /\ ~ {"d", "l"} \subseteq opts
<1>1. SafeInv /\ TypeOK /\ AtWork /\ RecordsBefore /\ RecordsHold /\ Different /\ pc # "copy"
  BY DEF DoneInv, NamesInv, SafeInv, DoneSoFar
<1>2. PICK f : f = file
  OBVIOUS
<1>3. UNCHANGED data /\ (UNCHANGED dir \/ (Unlink(f) /\ (LinkDeleted \/ EqualDeleted)))
  BY <1>1, <1>2 DEF Fdf, FindLink, StartSearch, PassOver, SplitUnlink, SplitCopy, LinkDeleted, Skip, DropRecord,
                    Compare, EqualDeleted, EqualShown, Break, Stay, disk
<1>4. UNCHANGED dir => \A g : Contents(g)' = Contents(g) /\ Present(g)' = Present(g)
  BY <1>3 DEF Contents, Present
<1>5. LinkDeleted \/ EqualDeleted => at <= Len(Visits) /\ f \in Name
  BY <1>1, <1>2, FileIs DEF LinkDeleted, EqualDeleted, AtWork
<1>6. ASSUME NEW g \in Visited
      PROVE  g \in Name /\ dir'[g] = dir[g] /\ Contents(g)' = Contents(g)
  <2>1. g \in Name
    BY <1>1, VisitedNext
  <2>2. CASE UNCHANGED dir
    BY <1>4, <2>1, <2>2
  <2>3. CASE Unlink(f) /\ (LinkDeleted \/ EqualDeleted)
    <3>1. g # f /\ f \in Name
      BY <1>1, <1>2, <1>5, <2>3, VisitedNext
    <3> QED
      BY <1>1, <1>3, <2>1, <2>3, <3>1, UnlinkKeeps
  <2> QED
    BY <1>3, <2>2, <2>3
<1>7. ASSUME NEW g \in Visited' \ Visited, NEW k \in Entry, Same(Contents(g)', Contents(first(k)))
      PROVE  \/ InTheWay'
             \/ /\ dir'[g] = dir[g] /\ dir[g] = table[k].node
                /\ ~ {"d", "l"} \subseteq opts
  <2>1. at' = at + 1 /\ at <= Len(Visits) /\ g = f /\ f \in Name
    <3>1. Visited' # Visited
      BY <1>7
    <3> QED
      BY <1>1, <1>2, <1>7, <3>1, VisitedNext
  <2>2. first(k) \in Name /\ Contents(first(k)) \in Content
    BY <1>1, TableIs, ContentsType DEF RecordsHold
  <2>3. Contents(f)' \in Content
    BY <1>7, <2>1, <2>2, ContentsNext, SameIs
  <2>4. UNCHANGED dir /\ Contents(f)' = Contents(f)
    <3>1. ~ Unlink(f)
      <4>1. Unlink(f) => Contents(f)' = NoContent
        BY <1>1, <1>3, <2>1, UnlinkKeeps
      <4> QED
        BY <2>3, <4>1, ContentAssumption
    <3> QED
      BY <1>3, <1>4, <3>1
  <2>5. Same(Contents(f), Contents(first(k)))
    BY <1>7, <2>1, <2>4
  <2>6. PassOver \/ LinkDeleted \/ EqualDeleted
    <3>1. FindLink \/ StartSearch \/ SplitUnlink \/ Skip \/ DropRecord \/ Compare \/ Break => at' = at
      BY DEF FindLink, StartSearch, SplitUnlink, Skip, DropRecord, Compare, Break, Stay
    <3>2. at' # at
      BY <1>1, <2>1 DEF TypeOK
    <3>3. ~ EqualShown
      BY <1>1, FoundIsElsewhere DEF EqualShown
    <3> QED
      BY <1>1, <3>1, <3>2, <3>3 DEF Fdf, SplitCopy
  <2>7. ~ PassOver
    BY <1>2, <2>5, PassedIsUnlike
  <2>8. CASE LinkDeleted
    <3>1. pc = "same"
      BY <2>8 DEF LinkDeleted
    <3>2. PICK j \in Entry : table[j].node = dir[f] /\ Present(f)
      BY <1>1, <1>2, <3>1 DEF AtWork
    <3>3. Same(Contents(f), Contents(first(j))) /\ first(j) \in Name
      BY <1>1, <3>2, TableIs DEF RecordsHold, Contents
    <3>4. Contents(first(j)) \in Content /\ Contents(f) \in Content
      BY <1>1, <2>3, <2>4, <3>3, ContentsType DEF RecordsHold
    <3>5. Same(Contents(first(j)), Contents(first(k)))
      BY <2>2, <2>5, <3>3, <3>4, SameTransitive
    <3>6. dir[f] = table[k].node
      BY <1>1, <3>2, <3>5 DEF Different
    <3>7. CASE {"d", "l"} \subseteq opts
      <4>1. readonly[dir[f]] /\ ~ Forced
        <5>1. ~ (dir' = [dir EXCEPT ![f] = NoNode])
          BY <1>1, <2>1, <2>4, <3>2, ContentsType, NodesAssumption DEF TypeOK
        <5>2. readonly[dir[f]] /\ "f" \notin opts
          BY <1>2, <2>8, <3>7, <5>1 DEF LinkDeleted, Unlink
        <5> QED
          BY <5>2 DEF Forced
      <4>2. dir[f] \in Node
        BY <1>1, <2>1, <3>2, ContentsType
      <4>3. InTheWay
        BY <4>1, <4>2 DEF InTheWay
      <4> QED
        BY <4>3, StaysInTheWay
    <3>8. CASE ~ {"d", "l"} \subseteq opts
      BY <2>1, <2>4, <3>6, <3>8
    <3> QED
      BY <3>7, <3>8
  <2>9. CASE EqualDeleted
    <3>1. Present(f)
      BY <1>1, <1>2, <2>9 DEF EqualDeleted, AtWork, Searched
    <3>2. dir[f] \in Node
      BY <1>1, <2>1, <3>1, ContentsType
    <3>3. ~ Unlink(f)
      BY <1>1, <2>1, <2>4, <3>2, NodesAssumption DEF Unlink, TypeOK
    <3>4. Cleared[dir[f]]
      BY <1>2, <2>9, <3>3 DEF EqualDeleted
    <3>5. ~ Forced /\ readonly[dir[f]]
      BY <1>1, <1>2, <3>2, <3>4 DEF Cleared, TypeOK
    <3>6. InTheWay
      BY <3>2, <3>5 DEF InTheWay
    <3> QED
      BY <3>6, StaysInTheWay
  <2> QED
    BY <2>6, <2>7, <2>8, <2>9
<1> QED
  BY <1>6, <1>7

(* What a record's name and the other visited names of its contents were to each
   other, they still are. *)
LEMMA DeletingKeeps ==
    ASSUME DoneInv, OncePerName, steps = 0, Fdf, ~ Add, ~ EqualLinked, TypeOK',
           "c" \notin opts, opts \cap {"d", "l"} # {}, ~ InTheWay', NEW k \in Entry'
    PROVE  \E h \in Name :
             /\ k \in Entry /\ h = first(k) /\ h = first(k)'
             /\ Contents(h) \in Content /\ Contents(first(k))' = Contents(h)'
             /\ dir'[h] = dir[h] /\ table'[k].node = table[k].node
             /\ \A g \in Visited' : Same(Contents(g), Contents(first(k)))' =>
                  \/ g \in Visited /\ Same(Contents(g), Contents(h)) /\ dir'[g] = dir[g]
                  \/ dir'[g] = table[k].node /\ ~ {"d", "l"} \subseteq opts
<1>1. SafeInv /\ TypeOK /\ AtWork /\ RecordsBefore /\ RecordsHold
  BY DEF DoneInv, NamesInv, SafeInv
<1>2. PICK h \in Name : k \in Entry /\ h = first(k) /\ h = first(k)' /\ Contents(first(k))' = Contents(h)'
  BY FirstNext
<1>3. table'[k].node = table[k].node
  BY <1>1, <1>2, TableAsBefore
<1>4. h \in Visited
  BY <1>1, <1>2, FirstIsVisited
<1>5. dir'[h] = dir[h] /\ Contents(h)' = Contents(h)
  BY <1>4, DeletingStep
<1>6. Contents(h) \in Content
  BY <1>2, FirstsKeep
<1>7. \A c, d : Same(c, d)' <=> Same(c, d)
  BY OptsStay DEF Next
<1>8. ASSUME NEW g \in Visited', Same(Contents(g), Contents(first(k)))'
      PROVE  \/ g \in Visited /\ Same(Contents(g), Contents(h)) /\ dir'[g] = dir[g]
             \/ dir'[g] = table[k].node /\ ~ {"d", "l"} \subseteq opts
  <2>1. Same(Contents(g)', Contents(h))
    BY <1>2, <1>5, <1>7, <1>8
  <2>2. CASE g \in Visited
    <3>1. dir'[g] = dir[g] /\ Contents(g)' = Contents(g)
      BY <2>2, DeletingStep
    <3> QED
      BY <2>1, <2>2, <3>1
  <2>3. CASE g \notin Visited
    <3>1. /\ dir'[g] = dir[g] /\ dir[g] = table[k].node
          /\ ~ {"d", "l"} \subseteq opts
      BY <1>2, <2>1, <2>3, DeletingStep
    <3> QED
      BY <3>1
  <2> QED
    BY <2>2, <2>3
<1> QED
  BY <1>2, <1>3, <1>5, <1>6, <1>8

LEMMA DeletedNext ==
    ASSUME DoneInv, OncePerName, steps = 0, Fdf, ~ Add, TypeOK', Mode = {"d"}, ~ InTheWay', Deleted
    PROVE  Deleted'
<1>1. "c" \notin opts /\ "d" \in opts /\ opts \cap {"d", "l"} # {} /\ ~ EqualLinked
  BY DEF Mode, EqualLinked
<1> SUFFICES ASSUME NEW k \in Entry'
             PROVE  (/\ dir[first(k)] = table[k].node
                     /\ \A g \in Visited : Same(Contents(g), Contents(first(k))) => dir[g] = dir[first(k)])'
  BY DEF Deleted
<1>2. PICK h \in Name :
         /\ k \in Entry /\ h = first(k) /\ h = first(k)'
         /\ dir'[h] = dir[h] /\ table'[k].node = table[k].node
         /\ \A g \in Visited' : Same(Contents(g), Contents(first(k)))' =>
              \/ g \in Visited /\ Same(Contents(g), Contents(h)) /\ dir'[g] = dir[g]
              \/ dir'[g] = table[k].node
  BY <1>1, DeletingKeeps
<1>3. /\ dir[h] = table[k].node
      /\ \A g \in Visited : Same(Contents(g), Contents(h)) => dir[g] = dir[h]
  BY <1>2 DEF Deleted
<1> QED
  BY <1>2, <1>3

LEMMA SingleNext ==
    ASSUME DoneInv, OncePerName, steps = 0, Fdf, ~ Add, TypeOK', Mode = {"d", "l"}, ~ InTheWay', Single
    PROVE  Single'
<1>1. "c" \notin opts /\ {"d", "l"} \subseteq opts /\ opts \cap {"d", "l"} # {} /\ ~ EqualLinked
  BY DEF Mode, EqualLinked
<1> SUFFICES ASSUME NEW k \in Entry'
             PROVE  (/\ dir[first(k)] = table[k].node
                     /\ \A g \in Visited : Same(Contents(g), Contents(first(k))) => g = first(k))'
  BY DEF Single
<1>2. PICK h \in Name :
         /\ k \in Entry /\ h = first(k) /\ h = first(k)'
         /\ dir'[h] = dir[h] /\ table'[k].node = table[k].node
         /\ \A g \in Visited' : Same(Contents(g), Contents(first(k)))' => g \in Visited /\
             Same(Contents(g), Contents(h))
  BY <1>1, DeletingKeeps
<1>3. /\ dir[h] = table[k].node
      /\ \A g \in Visited : Same(Contents(g), Contents(h)) => g = h
  BY <1>2 DEF Single
<1> QED
  BY <1>2, <1>3

(* Of a name that has more names with its contents than a file can have links. *)
LEMMA TooMany ==
    ASSUME TypeOK, NEW e \in Name, NEW f \in Name, Present(e), dir[e] # dir[f],
           Same(Contents(e), Contents(f)), ~ Links(dir[e]) < MaxLinks
    PROVE  Many(Contents(e))
<1> DEFINE L == {g \in Name : dir[g] = dir[e]}
           S == {g \in Name : Same(Contents(e), Contents(g))}
<1>1. Same(Contents(e), Contents(e))
  BY ContentsType
<1>2. \A g \in L : Contents(g) = Contents(e)
  BY DEF Contents, Present
<1>3. L \subseteq S /\ f \in S /\ f \notin L
  BY <1>1, <1>2
<1>4. IsFiniteSet(L) /\ IsFiniteSet(S)
  BY NodesAssumption, FS_Subset
<1>5. IsFiniteSet(L \cup {f}) /\ Cardinality(L \cup {f}) = Cardinality(L) + 1
  BY <1>3, <1>4, FS_AddElement
<1>6. Cardinality(L \cup {f}) <= Cardinality(S)
  BY <1>3, <1>4, FS_Subset
<1>7. Cardinality(L) \in Nat /\ Cardinality(S) \in Nat
  BY <1>4, FS_CardinalityType
<1>8. Cardinality(L) = Links(dir[e])
  BY DEF Links
<1>9. Cardinality(S) > MaxLinks
  <2>1. Cardinality(L) >= MaxLinks
    BY <1>7, <1>8, BoundsAssumption
  <2> HIDE DEF L, S
  <2> QED
    BY <1>5, <1>6, <1>7, <2>1, BoundsAssumption
<1> QED
  BY <1>9 DEF Many

(* A file of equal contents is linked to the first one, unless a read-only file is in
   the way or there are too many of them. *)
LEMMA LinkingStep ==
    ASSUME DoneInv, OncePerName, EqualLinked, ~ InTheWay, NEW f, f = file
    PROVE  /\ f \in Name
           /\ \E j \in Entry :
                /\ Same(Contents(first(j)), Contents(f))
                /\ \/ /\ dir'[f] = dir[first(j)]
                      /\ \A g \in Name \ {f} : dir'[g] = dir[g]
                   \/ /\ Many(Contents(first(j)))
                      /\ \A g \in Name \ {f, first(j)} : dir'[g] = dir[g]
<1>1. SafeInv /\ TypeOK /\ AtWork /\ pc = "equal"
  BY DEF DoneInv, NamesInv, SafeInv, EqualLinked
<1>2. at <= Len(Visits) /\ Present(f) /\ f \in Name /\ dir[f] \in Node
  BY <1>1, FileIs, ContentsType DEF AtWork, Searched
<1>3. PICK j \in Entry : fr.path = table[j].path
  BY <1>1 DEF AtWork
<1>4. PICK e : e = first(j)
  OBVIOUS
<1>5. e = At[fr.path] /\ e \in Name \ {f} /\ Present(e) /\ Same(Contents(e), Contents(f))
  BY <1>1, <1>3, <1>4, TableIs, FoundIsElsewhere DEF AtWork, first, SafeInv
<1>6. ~ Cleared[dir[f]]
  <2>1. CASE Forced
    <3>1. Cleared = [readonly EXCEPT ![dir[f]] = FALSE]
      BY <2>1 DEF Cleared
    <3> QED
      BY <1>1, <1>2, <3>1 DEF TypeOK
  <2>2. CASE ~ Forced
    BY <1>2, <2>2 DEF Cleared, InTheWay
  <2> QED
    BY <2>1, <2>2
<1>7. CASE Linkable(e, f, Cleared)
  <2>1. dir' = [dir EXCEPT ![f] = dir[e]]
    BY <1>5, <1>7 DEF EqualLinked, Link
  <2>2. dir'[f] = dir[e] /\ \A g \in Name \ {f} : dir'[g] = dir[g]
    BY <1>1, <1>2, <2>1 DEF TypeOK
  <2> QED
    BY <1>2, <1>4, <1>5, <2>2
<1>8. CASE ~ Linkable(e, f, Cleared)
  <2>1. ~ Links(dir[e]) < MaxLinks /\ dir[e] # dir[f]
    BY <1>5, <1>6, <1>8 DEF Linkable
  <2>2. Many(Contents(e))
    BY <1>1, <1>2, <1>5, <2>1, TooMany
  <2>3. UNCHANGED dir \/ dir' = [dir EXCEPT ![e] = dir[f]]
    BY <1>5, <1>8 DEF EqualLinked, Link
  <2>4. \A g \in Name \ {f, e} : dir'[g] = dir[g]
    BY <1>1, <2>3 DEF TypeOK
  <2> QED
    BY <1>2, <1>4, <1>5, <2>2, <2>4
<1> QED
  BY <1>7, <1>8

LEMMA LinkedNext ==
    ASSUME DoneInv, OncePerName, steps = 0, Fdf, ~ Add, TypeOK', Mode = {"l"}, ~ InTheWay', Linked
    PROVE  Linked'
<1>1. "c" \notin opts /\ "d" \notin opts /\ opts \cap {"d", "l"} # {}
  BY DEF Mode
<1>2. SafeInv /\ TypeOK /\ AtWork /\ RecordsBefore /\ RecordsHold /\ Different
  BY DEF DoneInv, NamesInv, SafeInv, DoneSoFar
<1>3. UNCHANGED opts /\ \A c, d : Same(c, d)' <=> Same(c, d)
  BY OptsStay DEF Next
<1>4. ~ SplitUnlink /\ ~ SplitCopy
  BY <1>1 DEF SplitUnlink, SplitCopy, DoneInv, NamesInv
<1>5. \A g \in Name : Keeps(g)
  BY <1>1, <1>2, <1>4, NamesKeep
<1> SUFFICES ASSUME NEW k \in Entry', ~ Many(Contents(first(k)))'
             PROVE  (/\ dir[first(k)] = table[k].node
                     /\ \A g \in Visited : Same(Contents(g), Contents(first(k))) => dir[g] = dir[first(k)])'
  BY DEF Linked
<1>6. PICK h \in Name : k \in Entry /\ h = first(k) /\ h = first(k)' /\ Contents(first(k))' = Contents(h)'
  BY FirstNext
<1>7. /\ Contents(h) \in Content /\ Contents(h)' \in Content
      /\ Same(Contents(h), Contents(h)')
      /\ \A c \in Content \cup {NoContent} : Same(c, Contents(h)') <=> Same(c, Contents(h))
  BY <1>6, FirstsKeep
<1>8. ~ Many(Contents(h))
  <2>1. PICK d : d = Contents(h)'
    OBVIOUS
  <2>2. ~ Many(d)'
    BY <1>6, <2>1 DEF Many, Same, Compared, Skips
  <2> QED
    BY <1>2, <1>3, <1>5, <1>7, <2>1, <2>2, ManyNext
<1>9. /\ dir[h] = table[k].node
      /\ \A g \in Visited : Same(Contents(g), Contents(h)) => dir[g] = dir[h]
  BY <1>6, <1>8 DEF Linked
<1>10. table'[k].node = table[k].node
  BY <1>2, <1>6, TableAsBefore
<1>11. CASE ~ EqualLinked
  <2>1. PICK e \in Name :
           /\ e = first(k) /\ dir'[e] = dir[e]
           /\ \A g \in Visited' : Same(Contents(g), Contents(first(k)))' =>
                \/ g \in Visited /\ Same(Contents(g), Contents(e)) /\ dir'[g] = dir[g]
                \/ dir'[g] = table[k].node
    BY <1>1, <1>11, DeletingKeeps
  <2> QED
    BY <1>6, <1>9, <1>10, <2>1
<1>12. CASE EqualLinked
  <2>1. ~ InTheWay
    BY <1>1, StaysInTheWay
  <2>2. PICK f : f = file
    OBVIOUS
  <2>3. PICK j \in Entry :
           /\ f \in Name
           /\ Same(Contents(first(j)), Contents(f))
           /\ \/ /\ dir'[f] = dir[first(j)]
                 /\ \A g \in Name \ {f} : dir'[g] = dir[g]
              \/ /\ Many(Contents(first(j)))
                 /\ \A g \in Name \ {f, first(j)} : dir'[g] = dir[g]
    BY <1>12, <2>1, <2>2, LinkingStep
  <2>4. PICK e \in Name : e = first(j) /\ Contents(e) \in Content
    BY <2>3, FirstsKeep
  <2>5. at <= Len(Visits) /\ h \in Visited /\ e \in Visited
    BY <1>2, <1>6, <1>12, <2>4, FirstIsVisited DEF EqualLinked, AtWork
  <2>6. h # f /\ e # f /\ f \notin Visited /\ Visited \subseteq Name
    BY <1>2, <2>2, <2>5, VisitedNext
  <2>7. \A g \in Name : Contents(g) \in Content \cup {NoContent} /\ Contents(g)' \in Content \cup {NoContent}
    BY <1>2, ContentsType, ContentsNext
  <2>8. ASSUME NEW g \in Visited', Same(Contents(g), Contents(first(k)))'
        PROVE  g \in Name /\ Same(Contents(g), Contents(h)) /\ (g \in Visited \/ g = f)
    <3>1. g \in Name /\ (g \in Visited \/ g = f)
      <4>1. Visited' = Visited \/ Visited' = Visited \cup {f}
        BY <1>2, <2>2, VisitedNext
      <4> QED
        BY <2>3, <2>6, <4>1
    <3>2. Same(Contents(g)', Contents(h)')
      BY <1>3, <1>6, <2>8
    <3>3. Same(Contents(g)', Contents(h))
      BY <1>7, <2>7, <3>1, <3>2
    <3>4. Same(Contents(g), Contents(h))
      BY <1>5, <1>7, <2>7, <3>1, <3>3, SameTransitive DEF Keeps
    <3> QED
      BY <3>1, <3>4
  <2>9. CASE k = j
    <3>1. h = e /\ dir'[f] = dir[e] /\ \A g \in Name \ {f} : dir'[g] = dir[g]
      BY <1>6, <1>8, <2>3, <2>4, <2>9
    <3>2. dir'[h] = dir[h]
      BY <2>6, <3>1
    <3>3. \A g \in Visited' : Same(Contents(g), Contents(first(k)))' => dir'[g] = dir[h]
      <4> TAKE g \in Visited'
      <4> HAVE Same(Contents(g), Contents(first(k)))'
      <4>1. g \in Name /\ Same(Contents(g), Contents(h)) /\ (g \in Visited \/ g = f)
        BY <2>8
      <4>2. CASE g = f
        BY <3>1, <4>2
      <4>3. CASE g # f
        BY <1>9, <3>1, <4>1, <4>3
      <4> QED
        BY <4>2, <4>3
    <3> QED
      BY <1>6, <1>9, <1>10, <3>2, <3>3
  <2>10. CASE k # j
    <3>1. ~ Same(Contents(e), Contents(h))
      BY <1>2, <1>6, <2>4, <2>10 DEF Different
    <3>2. ~ Same(Contents(f), Contents(h))
      BY <1>7, <2>3, <2>4, <2>7, <3>1, SameTransitive
    <3>3. h # e
      <4>1. Same(Contents(h), Contents(h))
        BY <1>2, <1>7, ContentsType
      <4> QED
        BY <3>1, <4>1
    <3>4. \A g \in Name \ {f, e} : dir'[g] = dir[g]
      BY <2>3, <2>4
    <3>5. dir'[h] = dir[h]
      BY <2>6, <3>3, <3>4
    <3>6. \A g \in Visited' : Same(Contents(g), Contents(first(k)))' => dir'[g] = dir[h]
      <4> TAKE g \in Visited'
      <4> HAVE Same(Contents(g), Contents(first(k)))'
      <4>1. g \in Name /\ Same(Contents(g), Contents(h)) /\ (g \in Visited \/ g = f)
        BY <2>8
      <4>2. g # f /\ g # e
        BY <3>1, <3>2, <4>1
      <4> QED
        BY <1>9, <3>4, <4>1, <4>2
    <3> QED
      BY <1>6, <1>9, <1>10, <3>5, <3>6
  <2> QED
    BY <2>9, <2>10
<1> QED
  BY <1>11, <1>12

LEMMA DoneStutters ==
    ASSUME DoneSoFar, UNCHANGED vars
    PROVE  DoneSoFar'
<1>1. /\ Entry' = Entry /\ Visited' = Visited /\ Mode' = Mode /\ Skips' = Skips /\ Forced' = Forced
      /\ UNCHANGED <<dir, data, readonly, opts, table, pc, at, i, steps>>
  BY DEF Entry, Visited, Mode, Skips, Forced, vars, disk
<1>2. \A k : first(k)' = first(k)
  BY <1>1 DEF first
<1>3. \A f : Present(f)' = Present(f) /\ Contents(f)' = Contents(f)
  BY <1>1 DEF Present, Contents
<1>4. \A k : Present(first(k))' = Present(first(k)) /\ Contents(first(k))' = Contents(first(k))
  BY <1>1, <1>2 DEF Present, Contents
<1>5. Contents(file)' = Contents(file)
  BY <1>1 DEF Contents, Present, file, path
<1>6. /\ \A c, d : Same(c, d)' <=> Same(c, d)
      /\ \A c : (Long(c)' <=> Long(c)) /\ Sum(c)' = Sum(c)
  BY <1>1, SameNext
<1>7. \A c : Many(c)' <=> Many(c)
  <2> TAKE c
  <2>1. {h \in Name : Same(c, Contents(h))'} = {h \in Name : Same(c, Contents(h))}
    BY <1>3, <1>6
  <2> QED
    BY <2>1 DEF Many
<1>8. SumsRight' = SumsRight
  BY <1>1, <1>4, <1>6 DEF SumsRight
<1>9. Represented' = Represented
  BY <1>1, <1>3, <1>4, <1>6 DEF Represented
<1>10. Different' = Different /\ SearchedSoFar' = SearchedSoFar
  BY <1>1, <1>4, <1>5, <1>6 DEF Different, SearchedSoFar
<1>11. Split' = Split /\ InTheWay' = InTheWay
  BY <1>1, <1>2 DEF Split, InTheWay
<1>12. Deleted' = Deleted /\ Single' = Single
  BY <1>1, <1>2, <1>3, <1>4, <1>6 DEF Deleted, Single
<1>13. Linked' = Linked
  BY <1>1, <1>2, <1>3, <1>4, <1>6, <1>7 DEF Linked
<1> QED
  BY <1>1, <1>8, <1>9, <1>10, <1>11, <1>12, <1>13 DEF DoneSoFar

LEMMA DoneNext ==
    ASSUME DoneInv, TypeOK', OncePerName, [Next]_vars
    PROVE  DoneSoFar'
<1>1. CASE UNCHANGED vars
  BY <1>1, DoneStutters DEF DoneInv
<1>2. CASE Users
  <2>1. steps' # 0
    BY <1>2, OptsStay DEF DoneInv, NamesInv, SafeInv, TypeOK
  <2> QED
    BY <2>1 DEF DoneSoFar
<1>3. CASE Fdf
  <2> SUFFICES ASSUME steps' = 0
               PROVE  DoneSoFar'
    BY DEF DoneSoFar
  <2>1. steps = 0
    BY <1>3, OptsStay
  <2>2. Mode' = Mode
    BY OptsStay DEF Mode
  <2>3. /\ Mode = {"c"} => Split
        /\ Mode = {"d"} => InTheWay \/ Deleted
        /\ Mode = {"l"} => InTheWay \/ Linked
        /\ Mode = {"d", "l"} => InTheWay \/ Single
    BY <2>1 DEF DoneInv, DoneSoFar
  <2>4. Mode \in {{"d"}, {"l"}, {"d", "l"}} /\ InTheWay => InTheWay'
    <3>1. Mode \in {{"d"}, {"l"}, {"d", "l"}} => "c" \notin opts
      BY DEF Mode
    <3> QED
      BY <1>3, <3>1, StaysInTheWay
  <2>5. CASE Add
    <3>1. SumsRight' /\ Represented' /\ Different' /\ SearchedSoFar'
      BY <2>1, <2>5, AddKeepsRecords
    <3>2. /\ Split => Split'
          /\ Deleted => Deleted'
          /\ Linked => Linked'
          /\ Single => Single'
      BY <2>1, <2>5, AddKeepsModes
    <3> QED
      BY <2>2, <2>3, <2>4, <3>1, <3>2 DEF DoneSoFar
  <2>6. CASE ~ Add
    <3>1. SumsRight' /\ Represented' /\ Different' /\ SearchedSoFar'
      BY <1>3, <2>1, <2>6, SumsRightNext, RepresentedNext, DifferentNext, SearchedNext
    <3>2. Mode = {"c"} => Split'
      BY <1>3, <2>1, <2>3, <2>6, SplitNext
    <3>3. Mode = {"d"} => InTheWay' \/ Deleted'
      BY <1>3, <2>1, <2>3, <2>4, <2>6, DeletedNext
    <3>4. Mode = {"l"} => InTheWay' \/ Linked'
      BY <1>3, <2>1, <2>3, <2>4, <2>6, LinkedNext
    <3>5. Mode = {"d", "l"} => InTheWay' \/ Single'
      BY <1>3, <2>1, <2>3, <2>4, <2>6, SingleNext
    <3> QED
      BY <2>2, <3>1, <3>2, <3>3, <3>4, <3>5 DEF DoneSoFar
  <2> QED
    BY <2>5, <2>6
<1> QED
  BY <1>1, <1>2, <1>3 DEF Next

LEMMA DoneAlways ==
    ASSUME OncePerName, WholeBlocks
    PROVE  Spec => []DoneInv
<1>1. Init => DoneSoFar
  <2> SUFFICES ASSUME Init
               PROVE  DoneSoFar
    OBVIOUS
  <2>1. pc = "next" /\ Entry = {} /\ Visited = {}
    BY DEF Init, Entry, Visited
  <2>2. SumsRight /\ Represented /\ Different /\ SearchedSoFar
    BY <2>1 DEF SumsRight, Represented, Different, SearchedSoFar
  <2>3. Split /\ Deleted /\ Linked /\ Single
    BY <2>1 DEF Split, Deleted, Linked, Single
  <2> QED
    BY <2>2, <2>3 DEF DoneSoFar
<1>2. NamesInv' => TypeOK'
  BY DEF NamesInv, SafeInv
<1>3. NamesInv /\ DoneSoFar /\ TypeOK' /\ [Next]_vars => DoneSoFar'
  BY DoneNext DEF DoneInv
<1>4. DoneInv <=> NamesInv /\ DoneSoFar
  BY DEF DoneInv
<1> QED
  BY <1>1, <1>2, <1>3, <1>4, NamesAlways, PTL DEF Spec

(* At the end of a search that finds every name, and that neither others nor a
   read-only file have disturbed, duplicates are deleted or linked and links are
   split or deleted, as the switches ask. *)
THEOREM DoneAsAsked ==
    ASSUME OncePerName, WholeBlocks, \A f \in Name : \E k \in 1 .. Len(Visits) : At[Visits[k]] = f
    PROVE  Spec => []DoneWhatWasAsked
<1>1. ASSUME DoneInv, Finished
      PROVE  CASE opts \cap {"c", "d", "l"} = {"c"} ->
                     \A k \in 1 .. Len(table) : Links(table[k].node) = 1
               [] opts \cap {"c", "d", "l"} \in {{"d"}, {"l"}} ->
                     \A f, g \in Name : Twins(f, g) =>
                         \/ dir[f] = dir[g]
                         \/ Cardinality({h \in Name : Same(Contents(f), Contents(h))}) > MaxLinks
               [] opts \cap {"c", "d", "l"} = {"d", "l"} ->
                     \A f, g \in Name : ~ Twins(f, g)
               [] OTHER -> TRUE
  <2>1. TypeOK /\ RecordsHold /\ DoneSoFar /\ steps = 0 /\ ~ InTheWay
    BY <1>1 DEF DoneInv, NamesInv, SafeInv, Finished, InTheWay
  <2>2. Represented
    BY <2>1 DEF DoneSoFar
  <2>3. Visited = Name
    <3>1. at = Len(Visits) + 1 /\ Len(Visits) \in Nat
      BY <1>1, <2>1, VisitsAssumption DEF Finished, TypeOK
    <3>2. at - 1 = Len(Visits)
      BY <3>1
    <3> QED
      BY <3>2, VisitsAssumption DEF Visited
  <2>4. Entry = 1 .. Len(table) /\ \A k \in Entry : first(k) \in Name
    BY <2>1, TableIs
  <2>5. \A f \in Name : Contents(f) \in Content \cup {NoContent}
    BY <2>1, ContentsType
  <2>6. ASSUME NEW f \in Name, NEW g \in Name, Twins(f, g)
        PROVE  \E k \in Entry : /\ Same(Contents(f), Contents(first(k))) /\
                                    Same(Contents(g), Contents(first(k)))
                                /\ Same(Contents(first(k)), Contents(f)) /\ f # g
    <3>1. f # g /\ Present(f) /\ Same(Contents(f), Contents(g)) /\ Long(Contents(f))
      BY <2>6 DEF Twins, Long
    <3>2. PICK k \in Entry : Same(Contents(f), Contents(first(k)))
      BY <2>2, <2>3, <3>1 DEF Represented
    <3> QED
      BY <2>4, <2>5, <3>1, <3>2, SameTransitive
  <2>7. CASE Mode = {"c"}
    <3>1. Split
      BY <2>1, <2>7 DEF DoneSoFar
    <3>2. ASSUME NEW k \in Entry
          PROVE  Links(table[k].node) = 1
      <4>1. {f \in Name : dir[f] = table[k].node} = {first(k)}
        BY <2>3, <2>4, <3>1 DEF Split
      <4> QED
        BY <4>1, FS_Singleton DEF Links
    <3> QED
      BY <2>4, <2>7, <3>2 DEF Mode
  <2>8. CASE Mode = {"d"}
    <3>1. Deleted
      BY <2>1, <2>8 DEF DoneSoFar
    <3>2. \A f, g \in Name : Twins(f, g) => dir[f] = dir[g]
      BY <2>3, <2>6, <3>1 DEF Deleted
    <3> QED
      BY <2>8, <3>2 DEF Mode
  <2>9. CASE Mode = {"l"}
    <3>1. Linked
      BY <2>1, <2>9 DEF DoneSoFar
    <3>2. ASSUME NEW f \in Name, NEW g \in Name, Twins(f, g), dir[f] # dir[g]
          PROVE  Cardinality({h \in Name : Same(Contents(f), Contents(h))}) > MaxLinks
      <4>1. PICK k \in Entry : /\ Same(Contents(f), Contents(first(k))) /\ Same(Contents(g), Contents(first(k)))
                               /\ Same(Contents(first(k)), Contents(f))
        BY <2>6, <3>2
      <4>2. Many(Contents(first(k)))
        BY <2>3, <3>1, <3>2, <4>1 DEF Linked
      <4>3. \A h \in Name : Same(Contents(first(k)), Contents(h)) <=> Same(Contents(f), Contents(h))
        BY <2>4, <2>5, <4>1, SameTransitive
      <4>4. {h \in Name : Same(Contents(first(k)), Contents(h))} = {h \in Name : Same(Contents(f), Contents(h))}
        BY <4>3
      <4> QED
        BY <4>2, <4>4 DEF Many
    <3> QED
      BY <2>9, <3>2 DEF Mode
  <2>10. CASE Mode = {"d", "l"}
    <3>1. Single
      BY <2>1, <2>10 DEF DoneSoFar
    <3>2. \A f, g \in Name : ~ Twins(f, g)
      BY <2>3, <2>6, <3>1 DEF Single
    <3> QED
      BY <2>10, <3>2 DEF Mode
  <2>11. CASE Mode \notin {{"c"}, {"d"}, {"l"}, {"d", "l"}}
    BY <2>11 DEF Mode
  <2> QED
    BY <2>7, <2>8, <2>9, <2>10, <2>11
<1>2. DoneInv => DoneWhatWasAsked
  BY <1>1 DEF DoneWhatWasAsked
<1> QED
  BY <1>2, DoneAlways, PTL
=============================================================================
