---------------------------- MODULE MCCopy_proofs ----------------------------
(***************************************************************************)
(* Of the programs that copy data: for files and pipes of every size, a    *)
(* copy that BackupCopyFile reports as done is complete, and cannot hang   *)
(* unless a pipe is too small; for every buffer, length and place, rawcopy *)
(* writes each word to its place; and a copy of ftpcp that ends well is    *)
(* complete, whatever the servers say.                                     *)
(***************************************************************************)
EXTENDS MCCopy, SequenceTheorems, TLAPS

(* strarc: BackupCopyFile. *)

(* No block is lost between the source and the target. *)
Conserved ==
    /\ left + pipe + got = size
    /\ reader = "write" => left > 0
    /\ ~ bSeekOnly /\ writeOK => written = got
    /\ bSeekOnly => got > 0

(* What the two threads know of each other. *)
Agreed ==
    /\ writeEnd <=> reader \in {"read", "write"}
    /\ ~ writeEnd /\ readOK => left = 0
    /\ main = "copy" => writeOK
    /\ ~ writeOK => got > 1
    /\ main \in {"join", "archive", "done"} /\ writeOK => ~ writeEnd /\ pipe = 0
    /\ main \in {"archive", "done"} => reader = "exited"

FilterFits == filterLeft + archivePipe <= Rest

IInv == TypeOK /\ Conserved /\ Agreed /\ FilterFits

LEMMA InitIInv == Init => IInv
<1> SUFFICES ASSUME Init PROVE IInv
  OBVIOUS
<1>1. /\ MaxBlocks \in Nat /\ Rest \in Nat
      /\ Capacity \in Nat /\ ArchiveCapacity \in Nat
  BY CopyAssumption
<1>2. TypeOK
  <2>1. {writeEnd, bSeekOnly, readOK, writeOK} \subseteq BOOLEAN
    BY Zenon DEF Init
  <2>2. QED
    BY <1>1, <2>1 DEF Init, TypeOK
<1>3. Conserved /\ FilterFits
  BY <1>1 DEF Init, Conserved, FilterFits
<1>4. Agreed
  BY DEF Init, Agreed
<1>5. QED
  BY <1>2, <1>3, <1>4 DEF IInv

LEMMA ReaderIInv == ASSUME IInv, Reader PROVE IInv'
<1> USE CopyAssumption DEF IInv, TypeOK, Conserved, Agreed, FilterFits, copyVars, Running
<1>1. CASE ReadBlock
  BY <1>1 DEF ReadBlock
<1>2. CASE EndOfRead
  BY <1>2 DEF EndOfRead
<1>3. CASE WriteBlock
  BY <1>3 DEF WriteBlock
<1>4. CASE ExitThread
  BY <1>4 DEF ExitThread
<1>5. QED
  BY <1>1, <1>2, <1>3, <1>4 DEF Reader

LEMMA MainIInv == ASSUME IInv, Main PROVE IInv'
<1> USE CopyAssumption DEF IInv, TypeOK, Conserved, Agreed, FilterFits, copyVars
<1>1. CASE CopyBlock
  BY <1>1 DEF CopyBlock
<1>2. CASE FirstWriteFails
  BY <1>2 DEF FirstWriteFails
<1>3. CASE LaterWriteFails
  <2>1. TypeOK' /\ FilterFits'
    <3>1. writeOK' \in BOOLEAN
      BY <1>3, Zenon DEF LaterWriteFails
    <3>2. QED
      BY <1>3, <3>1 DEF LaterWriteFails
  <2>2. Conserved'
    BY <1>3 DEF LaterWriteFails
  <2>3. Agreed'
    BY <1>3 DEF LaterWriteFails
  <2>4. QED
    BY <2>1, <2>2, <2>3, Zenon
<1>4. CASE EndOfCopy
  BY <1>4 DEF EndOfCopy
<1>5. CASE Join
  BY <1>5 DEF Join
<1>6. CASE ReadArchive
  BY <1>6 DEF ReadArchive
<1>7. QED
  BY <1>1, <1>2, <1>3, <1>4, <1>5, <1>6 DEF Main

LEMMA FilterIInv == ASSUME IInv, Filter PROVE IInv'
  BY CopyAssumption
     DEF IInv, TypeOK, Conserved, Agreed, FilterFits, copyVars, Filter

LEMMA Invariance == Spec => []IInv
<1>1. IInv /\ UNCHANGED vars => IInv'
  BY DEF IInv, TypeOK, Conserved, Agreed, FilterFits, vars, copyVars
<1>2. IInv /\ [Next]_vars => IInv'
  BY <1>1, ReaderIInv, MainIInv, FilterIInv DEF Next
<1>3. QED
  BY <1>2, InitIInv, PTL DEF Spec

(* The state is well typed, so neither pipe holds more than it can, and when
   BackupCopyFile returns true and the target has not been given up, every
   block of the source has been written to it. *)
THEOREM CopyIsComplete == Spec => [](TypeOK /\ SuccessIsComplete)
<1>1. IInv => SuccessIsComplete
  BY DEF IInv, TypeOK, Conserved, Agreed, SuccessIsComplete, Succeeded
<1>2. QED
  BY <1>1, Invariance, PTL DEF IInv

(* The two ways in which the copy can hang are the only ones: an error with a
   later block of a file that the pipe cannot hold the rest of, and a filter
   with more output than its pipe holds. *)
THEOREM CopyCannotHang ==
    ASSUME MaxBlocks <= Capacity + 2,
           Rest <= ArchiveCapacity
    PROVE  Spec => []SomebodyCanGoOn
<1>1. ASSUME IInv PROVE SomebodyCanGoOn
  <2> USE <1>1, CopyAssumption DEF IInv, TypeOK, FilterExited
  <2>1. filterLeft > 0 => archivePipe < ArchiveCapacity
    BY DEF FilterFits
  <2>2. CASE main = "copy"
    BY <2>2 DEF SomebodyCanGoOn, Agreed
  <2>3. CASE main = "join"
    <3>1. reader = "write" => pipe < Capacity
      BY <2>3 DEF Conserved, Agreed
    <3>2. QED
      BY <2>1, <2>3, <3>1 DEF SomebodyCanGoOn
  <2>4. CASE main = "archive"
    BY <2>1, <2>4 DEF SomebodyCanGoOn
  <2>5. QED
    BY <2>2, <2>3, <2>4 DEF SomebodyCanGoOn
<1>2. QED
  BY <1>1, Invariance, PTL
-----------------------------------------------------------------------------
(* rawcopy. *)

LEMMA RawFiles == Sources \cup Befores \subseteq Seq(Nat)
<1>1. \A a, b, c, d, e, f \in Nat : {<<a>>, <<a, b, c>>, <<a, b, c, d>>, <<a, b, c, d, e>>,
        <<a, b, c, d, e, f>>, <<>>} \subseteq Seq(Nat)
  OBVIOUS
<1> QED
  BY <1>1 DEF Sources, Befores

\* What a file, a buffer or a copy is, as a set of sequences.
WordSeqs == Seq(Nat)

LEMMA FunctionIsFile ==
    ASSUME NEW n \in Nat, NEW f \in [1 .. n -> Nat]
    PROVE  f \in WordSeqs /\ Len(f) = n
<1>1. f \in Seq(Nat)
  OBVIOUS
<1>2. Len(f) \in Nat /\ DOMAIN f = 1 .. Len(f)
  BY <1>1, LenProperties
<1>3. DOMAIN f = 1 .. n
  OBVIOUS
<1>4. \A m \in Nat : 1 .. m = 1 .. n => m = n
  <2> SUFFICES ASSUME NEW m \in Nat, 1 .. m = 1 .. n PROVE m = n
    OBVIOUS
  <2>1. (m \in 1 .. m <=> m >= 1) /\ (n \in 1 .. n <=> n >= 1)
    OBVIOUS
  <2>2. (m \in 1 .. n => m <= n) /\ (n \in 1 .. m => n <= m)
    OBVIOUS
  <2>3. m >= 1 \/ m = 0
    OBVIOUS
  <2>4. n >= 1 \/ n = 0
    OBVIOUS
  <2>5. m = 0 => 1 .. m = {}
    OBVIOUS
  <2>6. n = 0 => 1 .. n = {}
    OBVIOUS
  <2> QED BY <2>1, <2>2, <2>3, <2>4, <2>5, <2>6
<1> QED BY <1>1, <1>2, <1>3, <1>4 DEF WordSeqs

LEMMA Filed ==
    ASSUME NEW f \in WordSeqs
    PROVE  Len(f) \in Nat /\ DOMAIN f = 1 .. Len(f) /\ \A i \in 1 .. Len(f) : f[i] \in Nat
  BY LenProperties DEF WordSeqs

LEMMA CutOff ==
    ASSUME NEW f \in WordSeqs, NEW n \in Nat
    PROVE  /\ Raw!SetEnd(f, n) \in WordSeqs /\ Len(Raw!SetEnd(f, n)) = n
           /\ \A i \in 1 .. n : Raw!SetEnd(f, n)[i] = IF i <= Len(f) THEN f[i] ELSE 0
<1>1. Len(f) \in Nat /\ \A i \in 1 .. Len(f) : f[i] \in Nat
  BY Filed
<1>2. \A i \in 1 .. n : Raw!SetEnd(f, n)[i] = IF i <= Len(f) THEN f[i] ELSE 0
  BY DEF Raw!SetEnd
<1>3. Raw!SetEnd(f, n) \in [1 .. n -> Nat]
  <2>1. \A i \in 1 .. n : (IF i <= Len(f) THEN f[i] ELSE 0) \in Nat
    BY <1>1
  <2> QED BY <2>1 DEF Raw!SetEnd
<1> QED BY <1>2, <1>3, FunctionIsFile

\* The file is f with the first n words of d written over it after the place p.
Written(file, f, p, d, n) ==
    /\ Len(file) = IF n > 0 /\ p + n > Len(f) THEN p + n ELSE Len(f)
    /\ \A i \in 1 .. Len(file) :
          file[i] = IF i \in p + 1 .. p + n THEN d[i - p] ELSE IF i <= Len(f) THEN f[i] ELSE 0

LEMMA Overwritten ==
    ASSUME NEW f \in WordSeqs, NEW d \in WordSeqs, NEW p \in Nat
    PROVE  Raw!Over(f, p, d) \in WordSeqs /\ Written(Raw!Over(f, p, d), f, p, d, Len(d))
<1> DEFINE last == p + Len(d)
           filled == IF d # <<>> /\ last > Len(f) THEN Raw!SetEnd(f, last) ELSE f
           most == IF Len(d) > 0 /\ last > Len(f) THEN last ELSE Len(f)
<1>1. /\ Len(f) \in Nat /\ DOMAIN f = 1 .. Len(f) /\ \A i \in 1 .. Len(f) : f[i] \in Nat
      /\ Len(d) \in Nat /\ \A i \in 1 .. Len(d) : d[i] \in Nat
  BY Filed
<1>2. d # <<>> <=> Len(d) > 0
  <2>1. d \in Seq(Nat)
    BY DEF WordSeqs
  <2>2. d = <<>> <=> Len(d) = 0
    BY <2>1, EmptySeq
  <2> QED BY <1>1, <2>2
<1>3. last \in Nat /\ most \in Nat
  BY <1>1
<1>4. /\ Raw!SetEnd(f, last) \in WordSeqs /\ Len(Raw!SetEnd(f, last)) = last /\
          DOMAIN Raw!SetEnd(f, last) = 1 .. last
      /\ \A i \in 1 .. last : Raw!SetEnd(f, last)[i] = IF i <= Len(f) THEN f[i] ELSE 0
  BY <1>3, CutOff, Filed
<1>5. DOMAIN filled = 1 .. most /\ \A i \in 1 .. most : filled[i] = IF i <= Len(f) THEN f[i] ELSE 0
  <2>1. CASE Len(d) > 0 /\ last > Len(f)
    <3>1. filled = Raw!SetEnd(f, last) /\ most = last
      BY <2>1, <1>2
    <3> HIDE DEF filled, most
    <3> QED BY <3>1, <1>4
  <2>2. CASE ~ (Len(d) > 0 /\ last > Len(f))
    <3>1. filled = f /\ most = Len(f)
      BY <2>2, <1>2
    <3> HIDE DEF filled, most
    <3> QED BY <3>1, <1>1
  <2> QED BY <2>1, <2>2
<1>6. Raw!Over(f, p, d) = [i \in DOMAIN filled |-> IF i \in p + 1 .. last THEN d[i - p] ELSE filled[i]]
  BY DEF Raw!Over
<1> HIDE DEF filled
<1>7. \A i \in 1 .. most : i \in p + 1 .. last => i - p \in 1 .. Len(d)
  BY <1>1, <1>3
<1> HIDE DEF last, most
<1>8. \A i \in 1 .. most : filled[i] \in Nat
  <2>1. \A i \in 1 .. most : i <= Len(f) => i \in 1 .. Len(f)
    BY <1>1, <1>3
  <2> QED BY <1>1, <1>5, <2>1
<1>9. \A i \in 1 .. most : (IF i \in p + 1 .. last THEN d[i - p] ELSE filled[i]) \in Nat
  BY <1>1, <1>7, <1>8
<1>10. Raw!Over(f, p, d) = [i \in 1 .. most |-> IF i \in p + 1 .. last THEN d[i - p] ELSE filled[i]]
  BY <1>5, <1>6
<1>11. Raw!Over(f, p, d) \in [1 .. most -> Nat]
  BY <1>9, <1>10
<1>12. Raw!Over(f, p, d) \in WordSeqs /\ Len(Raw!Over(f, p, d)) = most
  BY <1>3, <1>11, FunctionIsFile
<1>13. \A i \in 1 .. most : Raw!Over(f, p, d)[i] = IF i \in p + 1 .. last THEN d[i - p]
        ELSE IF i <= Len(f) THEN f[i] ELSE 0
  BY <1>5, <1>10
<1> QED BY <1>12, <1>13 DEF Written, last, most

\* There is only one such file.
LEMMA WrittenIsOver ==
    ASSUME NEW file \in WordSeqs, NEW f \in WordSeqs, NEW d \in WordSeqs, NEW p \in Nat,
           Written(file, f, p, d, Len(d))
    PROVE  file = Raw!Over(f, p, d)
<1> DEFINE g == Raw!Over(f, p, d)
<1>1. g \in WordSeqs /\ Written(g, f, p, d, Len(d))
  BY Overwritten
<1> HIDE DEF g
<1>2. Len(file) = Len(g)
  BY <1>1 DEF Written
<1>3. \A i \in 1 .. Len(file) : file[i] = g[i]
  BY <1>1, <1>2 DEF Written
<1>4. file \in Seq(Nat) /\ g \in Seq(Nat)
  BY <1>1 DEF WordSeqs
<1>5. file = g
  BY <1>2, <1>3, <1>4, SeqEqual
<1> QED BY <1>5 DEF g

LEMMA WrittenNothing ==
    ASSUME NEW f \in WordSeqs, NEW p \in Nat, NEW d
    PROVE  Written(f, f, p, d, 0)
<1>1. Len(f) \in Nat
  BY Filed
<1>2. \A i \in 1 .. Len(f) : i \notin p + 1 .. p + 0 /\ i <= Len(f)
  BY <1>1
<1>3. ~ (0 > 0)
  OBVIOUS
<1> QED BY <1>2, <1>3 DEF Written

\* Only the words that are written count.
LEMMA WrittenOfLonger ==
    ASSUME NEW file, NEW f, NEW p \in Nat, NEW d, NEW n \in Nat, Written(file, f, p, d, n), Len(file) \in Nat,
           NEW c, \A i \in 1 .. n : c[i] = d[i]
    PROVE  Written(file, f, p, c, n)
<1>1. \A i \in 1 .. Len(file) : i \in p + 1 .. p + n => i - p \in 1 .. n
  OBVIOUS
<1>2. \A i \in 1 .. Len(file) : i \in p + 1 .. p + n => c[i - p] = d[i - p]
  BY <1>1
<1> QED BY <1>2 DEF Written

\* A block is written at the pointer.
LEMMA WrittenMore ==
    ASSUME NEW file \in WordSeqs, NEW f \in WordSeqs, NEW p \in Nat, NEW d \in WordSeqs, NEW n \in Nat,
           Written(file, f, p, d, n), NEW e \in WordSeqs, Len(e) > 0, Len(d) = n + Len(e),
           \A j \in 1 .. Len(e) : d[n + j] = e[j]
    PROVE  Written(Raw!Over(file, p + n, e), f, p, d, Len(d))
<1> DEFINE g == Raw!Over(file, p + n, e)
           m == Len(e)
<1>0. p + n \in Nat
  OBVIOUS
<1>1. g \in WordSeqs /\ Written(g, file, p + n, e, m)
  BY <1>0, Overwritten
<1>2. Len(file) \in Nat /\ Len(f) \in Nat /\ m \in Nat /\ Len(g) \in Nat
  BY <1>1, Filed
<1>3. m > 0 /\ Len(d) = n + m /\ \A j \in 1 .. m : d[n + j] = e[j]
  OBVIOUS
<1>4. /\ Len(file) = IF n > 0 /\ p + n > Len(f) THEN p + n ELSE Len(f)
      /\ \A i \in 1 .. Len(file) :
            file[i] = IF i \in p + 1 .. p + n THEN d[i - p] ELSE IF i <= Len(f) THEN f[i] ELSE 0
  BY DEF Written
<1>5. /\ Len(g) = IF m > 0 /\ (p + n) + m > Len(file) THEN (p + n) + m ELSE Len(file)
      /\ \A i \in 1 .. Len(g) :
            g[i] = IF i \in (p + n) + 1 .. (p + n) + m THEN e[i - (p + n)] ELSE IF i <= Len(file)
                THEN file[i] ELSE 0
  BY <1>1 DEF Written
<1> HIDE DEF g, m
<1>6. Len(g) = IF n + m > 0 /\ p + (n + m) > Len(f) THEN p + (n + m) ELSE Len(f)
  <2>1. \A a, b, c, k, h, l \in Nat : b > 0 /\ h = (IF a > 0 /\ c + a > k THEN c + a ELSE k)
              /\ l = (IF b > 0 /\ (c + a) + b > h THEN (c + a) + b ELSE h)
              => l = IF a + b > 0 /\ c + (a + b) > k THEN c + (a + b) ELSE k
    OBVIOUS
  <2> QED BY <2>1, <1>2, <1>3, <1>4, <1>5
<1>7. ASSUME NEW i \in 1 .. Len(g)
      PROVE  g[i] = IF i \in p + 1 .. p + (n + m) THEN d[i - p] ELSE IF i <= Len(f) THEN f[i] ELSE 0
  <2>1. CASE i \in (p + n) + 1 .. (p + n) + m
    <3>1. g[i] = e[i - (p + n)]
      BY <1>5, <2>1
    <3>2. i - (p + n) \in 1 .. m /\ n + (i - (p + n)) = i - p /\ i \in p + 1 .. p + (n + m)
      BY <1>2, <2>1
    <3>3. d[i - p] = e[i - (p + n)]
      BY <1>3, <3>2
    <3> QED BY <3>1, <3>2, <3>3
  <2>2. CASE i \notin (p + n) + 1 .. (p + n) + m /\ i <= Len(file)
    <3>1. g[i] = file[i] /\ i \in 1 .. Len(file)
      BY <1>2, <1>5, <2>2
    <3>2. i \in p + 1 .. p + (n + m) <=> i \in p + 1 .. p + n
      BY <1>2, <2>2
    <3>3. file[i] = IF i \in p + 1 .. p + n THEN d[i - p] ELSE IF i <= Len(f) THEN f[i] ELSE 0
      BY <1>4, <3>1
    <3> QED BY <3>1, <3>2, <3>3
  <2>3. CASE i \notin (p + n) + 1 .. (p + n) + m /\ ~ (i <= Len(file))
    <3>1. g[i] = 0
      BY <1>5, <2>3
    <3>2. Len(file) >= Len(f) /\ (n > 0 => Len(file) >= p + n)
      BY <1>2, <1>4
    <3>3. i \notin p + 1 .. p + (n + m) /\ ~ (i <= Len(f))
      BY <1>2, <2>3, <3>2
    <3> QED BY <3>1, <3>3
  <2> QED BY <2>1, <2>2, <2>3
<1>8. Written(g, f, p, d, n + m)
  BY <1>6, <1>7 DEF Written
<1> QED BY <1>8, <1>3 DEF g

\* A block of zeroes after the old data is not written, but the file gets longer.
LEMMA WrittenSparse ==
    ASSUME NEW file \in WordSeqs, NEW f \in WordSeqs, NEW p \in Nat, NEW d, NEW n \in Nat, n >= Len(f),
           Written(file, f, p, d, n), NEW m \in Nat, m > 0,
           \A j \in 1 .. m : d[n + j] = 0
    PROVE  Written(Raw!SetEnd(file, (p + n) + m), f, p, d, n + m)
<1> DEFINE g == Raw!SetEnd(file, (p + n) + m)
<1>1. Len(file) \in Nat /\ Len(f) \in Nat /\ (p + n) + m \in Nat
  BY Filed
<1>2. Len(g) = (p + n) + m /\ \A i \in 1 .. (p + n) + m : g[i] = IF i <= Len(file) THEN file[i] ELSE 0
  BY <1>1, CutOff
<1>3. /\ Len(file) = IF n > 0 /\ p + n > Len(f) THEN p + n ELSE Len(f)
      /\ \A i \in 1 .. Len(file) :
            file[i] = IF i \in p + 1 .. p + n THEN d[i - p] ELSE IF i <= Len(f) THEN f[i] ELSE 0
  BY DEF Written
<1> HIDE DEF g
<1>4. Len(g) = IF n + m > 0 /\ p + (n + m) > Len(f) THEN p + (n + m) ELSE Len(f)
  BY <1>1, <1>2
<1>5. Len(file) <= p + n /\ Len(file) >= Len(f) /\ (n > 0 => Len(file) = p + n) /\
        (n = 0 => Len(f) = 0 /\ Len(file) = 0)
  BY <1>1, <1>3
<1>6. ASSUME NEW i \in 1 .. Len(g)
      PROVE  g[i] = IF i \in p + 1 .. p + (n + m) THEN d[i - p] ELSE IF i <= Len(f) THEN f[i] ELSE 0
  <2>0. i \in 1 .. (p + n) + m
    BY <1>2
  <2>1. CASE i <= Len(file)
    <3>1. g[i] = file[i] /\ i \in 1 .. Len(file)
      BY <1>2, <2>0, <2>1
    <3>2. i \in p + 1 .. p + (n + m) <=> i \in p + 1 .. p + n
      BY <1>1, <1>5, <2>1
    <3> QED BY <1>3, <3>1, <3>2
  <2>2. CASE ~ (i <= Len(file))
    <3>1. g[i] = 0 /\ ~ (i <= Len(f))
      BY <1>1, <1>2, <1>5, <2>0, <2>2
    <3>2. i \in p + 1 .. p + (n + m) => i - (p + n) \in 1 .. m /\ n + (i - (p + n)) = i - p
      <4> SUFFICES ASSUME i \in p + 1 .. p + (n + m) PROVE i - (p + n) \in 1 .. m /\ n + (i - (p + n)) = i - p
        OBVIOUS
      <4>1. i > p + n
        BY <1>1, <1>5, <2>2
      <4> QED BY <4>1, <2>0
    <3>3. i \in p + 1 .. p + (n + m) => d[i - p] = 0
      BY <3>2
    <3> QED BY <3>1, <3>3
  <2> QED BY <2>1, <2>2
<1> QED BY <1>4, <1>6 DEF Written, g

\* A block that the file has already is not written.
LEMMA WrittenSame ==
    ASSUME NEW file \in WordSeqs, NEW f \in WordSeqs, NEW p \in Nat, NEW d, NEW n \in Nat,
           Written(file, f, p, d, n), NEW m \in Nat, (p + n) + m <= Len(file),
           \A j \in 1 .. m : d[n + j] = file[(p + n) + j]
    PROVE  Written(file, f, p, d, n + m)
<1>1. Len(file) \in Nat /\ Len(f) \in Nat
  BY Filed
<1>3. /\ Len(file) = IF n > 0 /\ p + n > Len(f) THEN p + n ELSE Len(f)
      /\ \A i \in 1 .. Len(file) :
            file[i] = IF i \in p + 1 .. p + n THEN d[i - p] ELSE IF i <= Len(f) THEN f[i] ELSE 0
  BY DEF Written
<1>4. Len(file) = IF n + m > 0 /\ p + (n + m) > Len(f) THEN p + (n + m) ELSE Len(f)
  BY <1>1, <1>3
<1>6. ASSUME NEW i \in 1 .. Len(file)
      PROVE  file[i] = IF i \in p + 1 .. p + (n + m) THEN d[i - p] ELSE IF i <= Len(f) THEN f[i] ELSE 0
  <2>1. CASE i \in (p + n) + 1 .. (p + n) + m
    <3>1. i - (p + n) \in 1 .. m /\ n + (i - (p + n)) = i - p /\ (p + n) + (i - (p + n)) = i /\
            i \in p + 1 .. p + (n + m)
      BY <2>1
    <3>2. d[n + (i - (p + n))] = file[(p + n) + (i - (p + n))]
      BY <3>1
    <3> QED BY <3>1, <3>2
  <2>2. CASE i \notin (p + n) + 1 .. (p + n) + m
    <3>1. i \in p + 1 .. p + (n + m) <=> i \in p + 1 .. p + n
      BY <2>2
    <3> QED BY <1>3, <3>1
  <2> QED BY <2>1, <2>2
<1> QED BY <1>4, <1>6 DEF Written
-----------------------------------------------------------------------------
\* The arguments.
Argued ==
    /\ opt \in Raw!Options
    /\ opt.source \in WordSeqs /\ opt.before \in WordSeqs
    /\ opt.copylength \in Nat /\ opt.skip \in Nat /\ opt.offset \in Nat /\ opt.disk \in {0, 1}
    /\ opt.retrycount \in Nat

RawTyped ==
    /\ pc \in {"read", "block", "skip", "write", "adjust"} \cup Raw!Ends
    /\ at \in Nat /\ pos \in Nat /\ readbytes \in Nat /\ writtenblocks \in Nat
    /\ out \in WordSeqs /\ buffer \in WordSeqs /\ image \in WordSeqs
    /\ Len(buffer) <= Buf
    /\ retries \in 0 .. opt.retrycount
    /\ lost \in BOOLEAN /\ refused \in BOOLEAN /\ removed \in BOOLEAN

InBlock == {"block", "skip", "write"}

(* What has been read, and how it is counted. *)
Counted ==
    /\ pc = "block" => Len(image) = readbytes + Len(buffer)
    /\ pc \in {"read", "skip", "write", "adjust", "ok"} => Len(image) = readbytes
    /\ pc \in {"read", "block"} => writtenblocks <= readbytes
    /\ pc \in {"skip", "write"} => writtenblocks + 1 <= readbytes
    /\ opt.copylength # 0 => Len(image) <= opt.copylength
    /\ pc \in InBlock => Len(buffer) > 0

(* Where it was read; the last block may have moved the pointer too far. *)
PointerFollows ==
    pc \in InBlock \cup {"read"} =>
        at = opt.skip + Len(image) \/ (opt.copylength # 0 /\ Len(image) >= opt.copylength)

\* The block is the end of what has been read.
AtEnd == pc \in InBlock =>
    /\ Len(buffer) <= Len(image)
    /\ \A j \in 1 .. Len(buffer) : image[(Len(image) - Len(buffer)) + j] = buffer[j]

(* What the output is: all that has been read but for the block is written, and a
   block that is skipped is as good as written. *)
Output ==
    ~ lost =>
        /\ pc \in {"read", "adjust"} =>
              pos = opt.offset + Len(image) /\ Written(out, opt.before, opt.offset, image, Len(image))
        /\ pc \in InBlock => pos + Len(buffer) = opt.offset + Len(image)
        /\ pc \in {"block", "write"} =>
              Written(out, opt.before, opt.offset, image, Len(image) - Len(buffer))
        /\ pc = "skip" =>
              Written(IF readbytes > Raw!existing THEN Raw!SetEnd(out, pos + Len(buffer)) ELSE out,
                      opt.before, opt.offset, image, Len(image))

Complete == pc \in {"adjust", "ok"} /\ ~ lost /\ ~ refused => Len(image) >= Raw!Asked

RawInv == Argued /\ RawTyped /\ Counted /\ PointerFollows /\ AtEnd /\ Output /\ Complete /\
    Raw!ReadInPlace /\ Raw!VolumeIsImaged

LEMMA RawInit == Raw!Init => RawInv
<1> SUFFICES ASSUME Raw!Init PROVE RawInv
  OBVIOUS
<1>1. Argued
  <2>1. opt \in Raw!Options
    BY DEF Raw!Init
  <2>2. /\ opt.source \in Sources /\ opt.before \in Befores /\ opt.copylength \in Lengths /\ opt.skip \in Skips
        /\ opt.offset \in Offsets /\ opt.disk \in {0, 1} /\ opt.retrycount \in 0 .. MaxRetries
    BY <2>1 DEF Raw!Options
  <2>3. /\ Lengths \cup Skips \cup Offsets \subseteq Nat
    BY RawNumbers DEF Raw!NumbersAssumption
  <2>4. \A n \in 0 .. MaxRetries : n \in Nat
    BY RawNumbers DEF Raw!NumbersAssumption
  <2>5. opt.source \in WordSeqs /\ opt.before \in WordSeqs
    BY <2>2, RawFiles DEF WordSeqs
  <2> QED BY <2>1, <2>2, <2>3, <2>4, <2>5 DEF Argued
<1>2. <<>> \in WordSeqs /\ Len(<<>>) = 0 /\ DOMAIN <<>> = {}
  BY DEF WordSeqs
<1>3. /\ pc = "read" /\ at = opt.skip /\ out = opt.before /\ pos = opt.offset /\ buffer = <<>> /\ image = <<>>
      /\ readbytes = 0 /\ writtenblocks = 0 /\ retries = 0
      /\ lost = FALSE /\ refused = FALSE /\ removed = FALSE
  BY DEF Raw!Init
<1>4. RawTyped
  <2>1. 0 \in 0 .. opt.retrycount /\ 0 <= Buf
    BY <1>1, RawNumbers DEF Raw!NumbersAssumption, Argued
  <2> QED BY <1>1, <1>2, <1>3, <2>1 DEF RawTyped, Argued
<1>5. Counted /\ PointerFollows /\ AtEnd /\ Complete
  <2>1. opt.copylength # 0 => 0 <= opt.copylength
    BY <1>1 DEF Argued
  <2>2. opt.skip = opt.skip + 0
    BY <1>1 DEF Argued
  <2> QED BY <1>2, <1>3, <2>1, <2>2 DEF Counted, PointerFollows, AtEnd, Complete, InBlock
<1>6. Output
  <2>1. opt.offset = opt.offset + 0
    BY <1>1 DEF Argued
  <2>2. Written(opt.before, opt.before, opt.offset, image, 0)
    BY <1>1, WrittenNothing DEF Argued
  <2> QED BY <1>2, <1>3, <2>1, <2>2 DEF Output, InBlock
<1>7. Raw!ReadInPlace /\ Raw!VolumeIsImaged
  BY <1>2, <1>3 DEF Raw!ReadInPlace, Raw!VolumeIsImaged, Raw!EndsWell
<1> QED BY <1>1, <1>4, <1>5, <1>6, <1>7 DEF RawInv

\* What is left to read, and what is asked for.
LEMMA Amounts ==
    ASSUME Argued, RawTyped
    PROVE  /\ Buf \in Nat \ {0}
           /\ opt.copylength = 0 => Raw!Wanted = Buf
           /\ opt.copylength # 0 => (Raw!Wanted <= opt.copylength - readbytes /\ Raw!Wanted <= Buf)
           /\ opt.copylength # 0 => Raw!Wanted \in {Buf, opt.copylength - readbytes}
           /\ ~ Raw!Enough => Raw!Wanted \in Nat \ {0}
           /\ \A n \in Raw!Got : ~ Raw!Enough => (n \in Nat /\ n <= Raw!Wanted /\
               (n > 0 => at + n <= Len(opt.source)))
           /\ Raw!Got = {0} /\ ~ Raw!Enough => at >= Len(opt.source)
           /\ Len(opt.source) \in Nat
<1>1. Buf \in Nat \ {0}
  BY RawNumbers DEF Raw!NumbersAssumption
<1>2. opt.copylength \in Nat /\ readbytes \in Nat /\ at \in Nat /\ Len(opt.source) \in Nat
  BY Filed DEF Argued, RawTyped
<1> DEFINE w == Raw!Wanted
           rest == IF at < Len(opt.source) THEN Len(opt.source) - at ELSE 0
<1>3. w = IF opt.copylength = 0 THEN Buf ELSE IF Buf < opt.copylength - readbytes THEN Buf
        ELSE opt.copylength - readbytes
  BY DEF Raw!Wanted, Raw!Least
<1>4. Raw!Enough <=> opt.copylength # 0 /\ readbytes >= opt.copylength
  BY DEF Raw!Enough
<1>5. ~ Raw!Enough => w \in Nat \ {0}
  BY <1>1, <1>2, <1>3, <1>4
<1>6. /\ opt.copylength = 0 => w = Buf
      /\ opt.copylength # 0 => /\ w <= opt.copylength - readbytes /\ w <= Buf /\
                                   w \in {Buf, opt.copylength - readbytes}
  BY <1>1, <1>2, <1>3
<1>7. rest \in Nat /\ (rest > 0 => at + rest = Len(opt.source)) /\ (rest = 0 => at >= Len(opt.source))
  BY <1>2
<1> DEFINE least == IF w < rest THEN w ELSE rest
<1>8. Raw!Got = IF opt.pipe /\ rest > 0 THEN 1 .. least ELSE {least}
  BY DEF Raw!Got, Raw!Least
<1> HIDE DEF w, rest
<1>9. ~ Raw!Enough => least \in Nat /\ least <= w /\ least <= rest
  BY <1>5, <1>7
<1>10. ~ Raw!Enough /\ rest > 0 => least > 0
  BY <1>5, <1>7
<1> HIDE DEF least
<1>11. ASSUME NEW n \in Raw!Got, ~ Raw!Enough PROVE n \in Nat /\ n <= w /\ (n > 0 => at + n <= Len(opt.source))
  <2>1. n \in 1 .. least \/ n = least
    BY <1>8, <1>11
  <2>2. n \in Nat /\ n <= least
    BY <2>1, <1>9, <1>11
  <2>3. n > 0 => rest > 0
    BY <2>2, <1>9, <1>7, <1>11
  <2>4. n <= w /\ n <= rest
    BY <2>2, <1>9, <1>7, <1>5, <1>11
  <2> QED BY <2>2, <2>3, <2>4, <1>2, <1>7
<1>12. Raw!Got = {0} /\ ~ Raw!Enough => rest = 0
  <2> SUFFICES ASSUME Raw!Got = {0}, ~ Raw!Enough, rest # 0 PROVE FALSE
    OBVIOUS
  <2>1. rest > 0 /\ least > 0 /\ least \in Nat
    BY <1>7, <1>9, <1>10
  <2>2. least \in Raw!Got
    BY <1>8, <2>1
  <2> QED BY <2>1, <2>2
<1> QED BY <1>1, <1>2, <1>5, <1>6, <1>7, <1>11, <1>12 DEF w

LEMMA AskedAtMost ==
    ASSUME Argued
    PROVE  /\ Raw!Asked \in Int
           /\ opt.copylength # 0 => Raw!Asked <= opt.copylength
           /\ \A n \in Nat : opt.skip + n >= Len(opt.source) => n >= Raw!Asked
<1>1. opt.copylength \in Nat /\ Len(opt.source) \in Nat /\ opt.skip \in Nat
  BY Filed DEF Argued
<1> DEFINE there == Len(opt.source) - opt.skip
<1>2. there \in Int /\ \A n \in Nat : opt.skip + n >= Len(opt.source) => n >= there
  BY <1>1
<1>3. Raw!Asked = IF opt.copylength = 0 THEN there ELSE IF opt.copylength < there THEN opt.copylength ELSE there
  BY DEF Raw!Asked, Raw!Least
<1> HIDE DEF there
<1> QED BY <1>1, <1>2, <1>3

LEMMA Grown ==
    ASSUME NEW f \in WordSeqs, NEW e \in WordSeqs
    PROVE  /\ f \o e \in WordSeqs /\ Len(f \o e) = Len(f) + Len(e)
           /\ \A i \in 1 .. Len(f) : (f \o e)[i] = f[i]
           /\ \A j \in 1 .. Len(e) : (f \o e)[Len(f) + j] = e[j]
<1>1. Len(f) \in Nat /\ Len(e) \in Nat
  BY Filed
<1>2. /\ f \o e \in Seq(Nat) /\ Len(f \o e) = Len(f) + Len(e)
      /\ \A i \in 1 .. Len(f) + Len(e) : (f \o e)[i] = IF i <= Len(f) THEN f[i] ELSE e[i - Len(f)]
  BY ConcatProperties DEF WordSeqs
<1>3. \A i \in 1 .. Len(f) : i \in 1 .. Len(f) + Len(e) /\ i <= Len(f)
  BY <1>1
<1>4. \A j \in 1 .. Len(e) : /\ Len(f) + j \in 1 .. Len(f) + Len(e) /\ ~ (Len(f) + j <= Len(f))
                             /\ (Len(f) + j) - Len(f) = j
  BY <1>1
<1> QED BY <1>2, <1>3, <1>4 DEF WordSeqs

\* Nothing but a retry, the end of the program, or that of the device.
LEMMA IdleStep ==
    ASSUME RawInv, removed' \in BOOLEAN, UNCHANGED <<opt, at, out, pos, buffer, readbytes, writtenblocks, image, holes, lost, refused>>,
           retries' \in 0 .. opt.retrycount, pc' = pc \/ pc' = "failed"
    PROVE  RawInv'
<1>0. Argued /\ RawTyped /\ Counted /\ PointerFollows /\ AtEnd /\ Output /\ Complete /\ Raw!ReadInPlace /\
        Raw!VolumeIsImaged
  BY DEF RawInv
<1>1. Argued' /\ RawTyped' /\ Raw!ReadInPlace'
  BY <1>0 DEF Argued, RawTyped, Raw!ReadInPlace, Raw!Ends
<1>2. CASE pc' = "failed"
  <2>1. Counted' /\ PointerFollows' /\ AtEnd' /\ Complete' /\ Raw!VolumeIsImaged'
    BY <1>0, <1>2 DEF Counted, PointerFollows, AtEnd, Complete, Raw!VolumeIsImaged, Raw!EndsWell, InBlock
  <2>2. Output'
    BY <1>2 DEF Output, InBlock
  <2> QED BY <1>1, <2>1, <2>2 DEF RawInv
<1>3. CASE pc' = pc
  <2>1. Counted' /\ PointerFollows' /\ AtEnd' /\ Complete' /\ Output'
    BY <1>0, <1>3 DEF Counted, PointerFollows, AtEnd, Complete, Raw!Asked, Output, Raw!existing
  <2>2. Raw!VolumeIsImaged'
    BY <1>0, <1>3 DEF Raw!VolumeIsImaged, Raw!EndsWell, Raw!disk_size, Raw!Asked
  <2> QED BY <1>1, <2>1, <2>2 DEF RawInv
<1> QED BY <1>2, <1>3

LEMMA LoopEndsStep ==
    ASSUME RawInv, Raw!LoopEnds
    PROVE  RawInv'
<1>0. Argued /\ RawTyped /\ Counted /\ PointerFollows /\ AtEnd /\ Output /\ Complete /\ Raw!ReadInPlace /\
        Raw!VolumeIsImaged
  BY DEF RawInv
<1>1. /\ pc = "read" /\ (Raw!Enough \/ Raw!Got = {0}) /\ pc' = "adjust"
      /\ UNCHANGED <<opt, removed, at, out, pos, buffer, readbytes, writtenblocks, retries, image, holes, lost, refused>>
  BY DEF Raw!LoopEnds, Raw!history, Raw!given
<1>2. Argued' /\ RawTyped' /\ Raw!ReadInPlace'
  BY <1>0, <1>1 DEF Argued, RawTyped, Raw!ReadInPlace, Raw!Ends
<1>3. Counted' /\ PointerFollows' /\ AtEnd' /\ Raw!VolumeIsImaged'
  BY <1>0, <1>1 DEF Counted, PointerFollows, AtEnd, Raw!VolumeIsImaged, Raw!EndsWell, InBlock
<1>4. Output'
  BY <1>0, <1>1 DEF Output, InBlock
<1>5. Complete'
  <2>1. Len(image) \in Nat /\ Len(image) = readbytes
    BY <1>0, <1>1, Filed DEF RawTyped, Counted
  <2>2. CASE Raw!Enough
    <3>1. opt.copylength # 0 /\ readbytes >= opt.copylength /\ opt.copylength \in Nat
      BY <1>0, <2>2 DEF Raw!Enough, Argued
    <3>2. Raw!Asked \in Int /\ Raw!Asked <= opt.copylength
      BY <1>0, <3>1, AskedAtMost
    <3>3. Len(image) >= Raw!Asked
      BY <2>1, <3>1, <3>2
    <3> QED BY <1>1, <3>3 DEF Complete, Raw!Asked
  <2>3. CASE Raw!Got = {0} /\ ~ Raw!Enough
    <3>1. at >= Len(opt.source) /\ Len(opt.source) \in Nat
      BY <1>0, <2>3, Amounts
    <3>2. at = opt.skip + Len(image)
      <4>1. ~ (opt.copylength # 0 /\ Len(image) >= opt.copylength)
        BY <2>1, <2>3 DEF Raw!Enough
      <4> QED BY <1>0, <1>1, <4>1 DEF PointerFollows
    <3>3. Len(image) >= Raw!Asked
      BY <1>0, <2>1, <3>1, <3>2, AskedAtMost
    <3> QED BY <1>1, <3>3 DEF Complete, Raw!Asked
  <2> QED BY <1>1, <2>2, <2>3
<1> QED BY <1>2, <1>3, <1>4, <1>5 DEF RawInv

\* A block comes into the buffer.
LEMMA BlockStep ==
    ASSUME RawInv, pc = "read", ~ Raw!Enough, buffer' \in WordSeqs, Len(buffer') > 0,
        Len(buffer') <= Raw!Wanted,
           image' = image \o buffer', pc' \in {"block", "failed"}, retries' = 0,
           UNCHANGED <<opt, removed, out, pos, readbytes, writtenblocks, lost, refused>>, at' \in Nat,
           at' = opt.skip + Len(image') \/ (opt.copylength # 0 /\ Len(image') >= opt.copylength),
               Raw!ReadInPlace'
    PROVE  RawInv'
<1>0. Argued /\ RawTyped /\ Counted /\ PointerFollows /\ AtEnd /\ Output /\ Complete /\ Raw!VolumeIsImaged
  BY DEF RawInv
<1>1. /\ Len(buffer') \in Nat /\ Len(image) \in Nat /\ image' \in WordSeqs /\
          Len(image') = Len(image) + Len(buffer')
      /\ \A i \in 1 .. Len(image) : image'[i] = image[i]
      /\ \A j \in 1 .. Len(buffer') : image'[Len(image) + j] = buffer'[j]
  BY <1>0, Filed, Grown DEF RawTyped
<1>2. Len(image) = readbytes /\ writtenblocks <= readbytes
  BY <1>0 DEF Counted
<1>3. /\ Buf \in Nat /\ Raw!Wanted \in Nat /\ opt.copylength \in Nat /\ readbytes \in Nat
      /\ opt.copylength # 0 => Raw!Wanted <= opt.copylength - readbytes
      /\ Raw!Wanted <= Buf
  <2>1. \A m \in Nat : m <= m
    OBVIOUS
  <2> QED BY <1>0, <2>1, Amounts DEF Argued, RawTyped
<1>4. Argued'
  BY <1>0 DEF Argued
<1>5. RawTyped'
  <2>1. Len(buffer') <= Buf
    BY <1>1, <1>3
  <2>2. 0 \in 0 .. opt.retrycount
    BY <1>0 DEF Argued
  <2> QED BY <1>0, <1>1, <2>1, <2>2 DEF RawTyped, Raw!Ends
<1>6. Counted'
  <2>1. opt.copylength # 0 => Len(image') <= opt.copylength
    BY <1>1, <1>2, <1>3
  <2> QED BY <1>1, <1>2, <2>1 DEF Counted, InBlock
<1>7. PointerFollows'
  BY DEF PointerFollows, InBlock
<1>8. AtEnd'
  <2>1. Len(buffer') <= Len(image') /\ Len(image') - Len(buffer') = Len(image)
    BY <1>1
  <2> QED BY <1>1, <2>1 DEF AtEnd
<1>9. Output'
  <2> SUFFICES ASSUME ~ lost, pc' = "block" PROVE Output'
    BY DEF Output, InBlock
  <2>1. pos = opt.offset + Len(image) /\ Written(out, opt.before, opt.offset, image, Len(image))
    BY <1>0 DEF Output
  <2>2. Written(out, opt.before, opt.offset, image', Len(image))
    <3>1. Len(out) \in Nat /\ opt.offset \in Nat
      BY <1>0, Filed DEF RawTyped, Argued
    <3> QED BY <1>1, <2>1, <3>1, WrittenOfLonger
  <2>3. pos + Len(buffer') = opt.offset + Len(image') /\ Len(image') - Len(buffer') = Len(image)
    <3>1. opt.offset \in Nat
      BY <1>0 DEF Argued
    <3> QED BY <1>1, <2>1, <3>1
  <2> QED BY <2>2, <2>3 DEF Output, InBlock
<1>10. Complete' /\ Raw!VolumeIsImaged'
  BY DEF Complete, Raw!VolumeIsImaged, Raw!EndsWell
<1> QED BY <1>4, <1>5, <1>6, <1>7, <1>8, <1>9, <1>10 DEF RawInv

\* The pointer before a read.
LEMMA AtTheEnd ==
    ASSUME RawInv, pc = "read", ~ Raw!Enough
    PROVE  /\ at = opt.skip + Len(image) /\ Len(image) \in Nat /\ opt.skip \in Nat /\ at \in Nat
           /\ Len(image) = readbytes
<1>0. Argued /\ RawTyped /\ Counted /\ PointerFollows
  BY DEF RawInv
<1>1. Len(image) \in Nat /\ Len(image) = readbytes
  BY <1>0, Filed DEF RawTyped, Counted
<1>2. ~ (opt.copylength # 0 /\ Len(image) >= opt.copylength)
  BY <1>1 DEF Raw!Enough
<1> QED BY <1>0, <1>1, <1>2 DEF PointerFollows, Argued, RawTyped

LEMMA RefusedReadStep ==
    ASSUME RawInv, Raw!RefusedRead
    PROVE  RawInv'
<1>0. Argued /\ RawTyped /\ Counted /\ PointerFollows /\ AtEnd /\ Output /\ Complete /\ Raw!ReadInPlace /\
        Raw!VolumeIsImaged
  BY DEF RawInv
<1>1. /\ pc = "read" /\ ~ Raw!Enough /\ pc' = "adjust"
      /\ refused' = (at < Len(opt.source))
      /\ UNCHANGED <<opt, removed, at, out, pos, buffer, readbytes, writtenblocks, retries, image, holes, lost>>
  BY DEF Raw!RefusedRead, Raw!history, Raw!given
<1>2. Argued' /\ RawTyped' /\ Raw!ReadInPlace'
  BY <1>0, <1>1 DEF Argued, RawTyped, Raw!ReadInPlace, Raw!Ends
<1>3. Counted' /\ PointerFollows' /\ AtEnd' /\ Raw!VolumeIsImaged'
  BY <1>0, <1>1 DEF Counted, PointerFollows, AtEnd, Raw!VolumeIsImaged, Raw!EndsWell, InBlock
<1>4. Output'
  BY <1>0, <1>1 DEF Output, InBlock
<1>5. Complete'
  <2>1. Len(image) \in Nat /\ Len(image) = readbytes
    BY <1>0, <1>1, Filed DEF RawTyped, Counted
  <2>2. CASE at < Len(opt.source)
    BY <1>1, <2>2 DEF Complete
  <2>3. CASE ~ (at < Len(opt.source))
    <3>1. at >= Len(opt.source)
      BY <1>0, <2>3, Filed DEF RawTyped, Argued
    <3>2. at = opt.skip + Len(image)
      BY <1>1, AtTheEnd
    <3>3. Len(image) >= Raw!Asked
      BY <1>0, <2>1, <3>1, <3>2, AskedAtMost
    <3> QED BY <1>1, <3>3 DEF Complete, Raw!Asked
  <2> QED BY <2>2, <2>3
<1> QED BY <1>2, <1>3, <1>4, <1>5 DEF RawInv

LEMMA ReadStep ==
    ASSUME RawInv, Raw!Read
    PROVE  RawInv'
<1>0. Argued /\ RawTyped /\ Raw!ReadInPlace
  BY DEF RawInv
<1>1. PICK n \in Raw!Got \ {0} : buffer' = SubSeq(opt.source, at + 1, at + n) /\ at' = at + n
  BY DEF Raw!Read, Raw!given
<1>2. /\ pc = "read" /\ ~ Raw!Enough /\ image' = image \o buffer' /\ retries' = 0 /\ pc' = "block"
      /\ UNCHANGED <<opt, removed, out, pos, readbytes, writtenblocks, lost, refused, holes>>
  BY DEF Raw!Read, Raw!given
<1>3. /\ n \in Nat \ {0} /\ n <= Raw!Wanted /\ at + n <= Len(opt.source) /\ Len(opt.source) \in Nat
  <2>1. \A m \in Nat \ {0} : m > 0
    OBVIOUS
  <2> QED BY <1>0, <1>2, <2>1, Amounts
<1>4. at = opt.skip + Len(image) /\ Len(image) \in Nat /\ opt.skip \in Nat /\ at \in Nat
  BY <1>2, AtTheEnd
<1>5. /\ buffer' \in WordSeqs /\ Len(buffer') = n /\ \A j \in 1 .. n : buffer'[j] = opt.source[at + j]
  <2>1. /\ \A i \in at + 1 .. at + n : opt.source[i] \in Nat
        /\ at + 1 \in Int /\ at + n \in Int
    <3>1. \A i \in 1 .. Len(opt.source) : opt.source[i] \in Nat
      BY <1>0, Filed DEF Argued
    <3>2. \A i \in at + 1 .. at + n : i \in 1 .. Len(opt.source)
      BY <1>3, <1>4
    <3> QED BY <3>1, <3>2, <1>3, <1>4
  <2> DEFINE b == SubSeq(opt.source, at + 1, at + n)
  <2>2. /\ b \in Seq(Nat) /\ Len(b) = IF at + 1 <= at + n THEN (at + n) - (at + 1) + 1 ELSE 0
        /\ \A j \in 1 .. (at + n) - (at + 1) + 1 : b[j] = opt.source[(at + 1) + j - 1]
    BY <2>1, SubSeqProperties
  <2> HIDE DEF b
  <2>3. at + 1 <= at + n /\ (at + n) - (at + 1) + 1 = n
    BY <1>3, <1>4
  <2>4. Len(b) = n /\ \A j \in 1 .. n : b[j] = opt.source[(at + 1) + j - 1]
    BY <2>2, <2>3
  <2>5. \A j \in 1 .. n : (at + 1) + j - 1 = at + j
    BY <1>3, <1>4
  <2>6. buffer' = b
    BY <1>1 DEF b
  <2> QED BY <2>2, <2>4, <2>5, <2>6 DEF WordSeqs
<1>6. /\ image' \in WordSeqs /\ Len(image') = Len(image) + n
      /\ \A i \in 1 .. Len(image) : image'[i] = image[i]
      /\ \A j \in 1 .. n : image'[Len(image) + j] = buffer'[j]
  <2>1. image \in WordSeqs
    BY <1>0 DEF RawTyped
  <2> QED BY <1>2, <1>5, <2>1, Grown
<1>7. Raw!ReadInPlace'
  <2> SUFFICES ASSUME NEW i \in DOMAIN image', i \notin holes
               PROVE  opt.skip + i \in DOMAIN opt.source /\ image'[i] = opt.source[opt.skip + i]
    BY <1>2 DEF Raw!ReadInPlace
  <2>1. i \in 1 .. Len(image) + n /\ DOMAIN image = 1 .. Len(image) /\ DOMAIN opt.source = 1 .. Len(opt.source)
    BY <1>0, <1>6, Filed DEF RawTyped, Argued
  <2>2. CASE i \in 1 .. Len(image)
    BY <1>0, <1>6, <2>1, <2>2 DEF Raw!ReadInPlace
  <2>3. CASE i \notin 1 .. Len(image)
    <3>1. i - Len(image) \in 1 .. n /\ Len(image) + (i - Len(image)) = i /\ at + (i - Len(image)) = opt.skip + i
          /\ opt.skip + i \in 1 .. Len(opt.source)
      <4>1. \A a, k, m, l, x, y \in Nat : a = k + m /\ a + y <= l /\ x \in 1 .. m + y /\ x \notin 1 .. m
               => /\ x - m \in 1 .. y /\ m + (x - m) = x /\ a + (x - m) = k + x
                  /\ k + x \in 1 .. l
        OBVIOUS
      <4>2. i \in Nat /\ n \in Nat
        BY <1>3, <1>4, <2>1
      <4>3. at = opt.skip + Len(image) /\ at + n <= Len(opt.source) /\ i \in 1 .. Len(image) + n
        BY <1>3, <1>4, <2>1
      <4> QED BY <4>1, <4>2, <4>3, <1>3, <1>4, <2>3
    <3>2. image'[i] = buffer'[i - Len(image)]
      BY <1>6, <3>1
    <3> QED BY <1>5, <2>1, <3>1, <3>2
  <2> QED BY <2>2, <2>3
<1>8. at' = opt.skip + Len(image') /\ at' \in Nat
  <2>1. \A a, k, m, y \in Nat : a = k + m => a + y = k + (m + y) /\ a + y \in Nat
    OBVIOUS
  <2>2. at + n = opt.skip + (Len(image) + n) /\ at + n \in Nat
    BY <2>1, <1>3, <1>4
  <2> QED BY <2>2, <1>1, <1>6
<1>9. Len(buffer') > 0 /\ Len(buffer') <= Raw!Wanted
  BY <1>3, <1>5
<1> QED BY <1>2, <1>5, <1>7, <1>8, <1>9, BlockStep

LEMMA IgnoreReadStep ==
    ASSUME RawInv, Raw!IgnoreRead
    PROVE  RawInv'
<1>0. Argued /\ RawTyped /\ Raw!ReadInPlace
  BY DEF RawInv
<1>2. /\ pc = "read" /\ ~ Raw!Enough /\ buffer' = Raw!Zeroes(Raw!Wanted) /\ at' = at + Buf /\
          image' = image \o buffer' /\ retries' = 0
      /\ holes' = holes \cup Len(image) + 1 .. Len(image')
      /\ pc' \in {"block", "failed"}
      /\ UNCHANGED <<opt, removed, out, pos, readbytes, writtenblocks, lost, refused>>
  BY DEF Raw!IgnoreRead, Raw!given, Raw!Failing, Raw!SkipForward
<1>3. /\ Raw!Wanted \in Nat \ {0} /\ Buf \in Nat
      /\ opt.copylength = 0 => Raw!Wanted = Buf
      /\ opt.copylength # 0 => Raw!Wanted \in {Buf, opt.copylength - readbytes}
  BY <1>0, <1>2, Amounts
<1>4. /\ at = opt.skip + Len(image) /\ Len(image) \in Nat /\ opt.skip \in Nat /\ at \in Nat
      /\ Len(image) = readbytes
  BY <1>2, AtTheEnd
<1>5. buffer' \in WordSeqs /\ Len(buffer') = Raw!Wanted
  <2>1. Raw!Zeroes(Raw!Wanted) \in [1 .. Raw!Wanted -> Nat]
    BY DEF Raw!Zeroes
  <2> QED BY <1>2, <1>3, <2>1, FunctionIsFile
<1>6. /\ image' \in WordSeqs /\ Len(image') = Len(image) + Raw!Wanted
      /\ \A i \in 1 .. Len(image) : image'[i] = image[i]
  <2>1. image \in WordSeqs
    BY <1>0 DEF RawTyped
  <2> QED BY <1>2, <1>5, <2>1, Grown
<1>7. Raw!ReadInPlace'
  <2> SUFFICES ASSUME NEW i \in DOMAIN image', i \notin holes'
               PROVE  opt.skip + i \in DOMAIN opt.source /\ image'[i] = opt.source[opt.skip + i]
    BY <1>2 DEF Raw!ReadInPlace
  <2>1. i \in 1 .. Len(image') /\ DOMAIN image = 1 .. Len(image) /\ Len(image') \in Nat
    BY <1>0, <1>6, Filed DEF RawTyped
  <2>2. i \notin holes /\ i \notin Len(image) + 1 .. Len(image')
    BY <1>2
  <2>3. i \in 1 .. Len(image)
    BY <1>4, <2>1, <2>2
  <2> QED BY <1>0, <1>6, <2>1, <2>2, <2>3 DEF Raw!ReadInPlace
<1>8. at' \in Nat /\ (at' = opt.skip + Len(image') \/ (opt.copylength # 0 /\ Len(image') >= opt.copylength))
  <2>1. at' \in Nat
    BY <1>2, <1>3, <1>4
  <2>2. CASE Raw!Wanted = Buf
    <3>1. at' = opt.skip + Len(image')
      BY <1>2, <1>3, <1>4, <1>6, <2>2
    <3> QED BY <2>1, <3>1
  <2>3. CASE opt.copylength # 0 /\ Raw!Wanted = opt.copylength - readbytes
    <3>1. Len(image') = opt.copylength /\ opt.copylength \in Nat
      BY <1>0, <1>4, <1>6, <2>3 DEF Argued
    <3>2. \A m \in Nat : m >= m
      OBVIOUS
    <3> QED BY <2>1, <2>3, <3>1, <3>2
  <2> QED BY <1>3, <2>2, <2>3
<1>9. Len(buffer') > 0 /\ Len(buffer') <= Raw!Wanted
  BY <1>3, <1>5
<1> QED BY <1>2, <1>5, <1>7, <1>8, <1>9, BlockStep

\* A block in the buffer, and where it belongs in the output.
LEMMA TheBlock ==
    ASSUME RawInv, pc \in InBlock
    PROVE  /\ Len(buffer) \in Nat \ {0} /\ Len(image) \in Nat /\ Len(buffer) <= Len(image)
           /\ Len(image) - Len(buffer) \in Nat
           /\ \A j \in 1 .. Len(buffer) : image[(Len(image) - Len(buffer)) + j] = buffer[j]
           /\ Len(opt.before) \in Nat /\ Len(out) \in Nat /\ opt.offset \in Nat /\ pos \in Nat /\
               readbytes \in Nat
           /\ ~ lost => pos = opt.offset + (Len(image) - Len(buffer))
<1>0. Argued /\ RawTyped /\ Counted /\ AtEnd /\ Output
  BY DEF RawInv
<1>1. /\ Len(buffer) \in Nat /\ Len(image) \in Nat /\ Len(opt.before) \in Nat /\ Len(out) \in Nat
      /\ opt.offset \in Nat /\ pos \in Nat /\ readbytes \in Nat
  BY <1>0, Filed DEF Argued, RawTyped
<1>2. Len(buffer) > 0
  BY <1>0 DEF Counted
<1>3. Len(buffer) <= Len(image) /\ \A j \in 1 .. Len(buffer) : image[(Len(image) - Len(buffer)) + j] = buffer[j]
  BY <1>0 DEF AtEnd
<1>4. ~ lost => pos + Len(buffer) = opt.offset + Len(image)
  BY <1>0 DEF Output
<1>5. Len(image) - Len(buffer) \in Nat /\ Len(buffer) \in Nat \ {0}
  BY <1>1, <1>2, <1>3
<1>6. ~ lost => pos = opt.offset + (Len(image) - Len(buffer))
  <2>1. \A a, b, m, n \in Nat : a + n = b + m => a = b + (m - n)
    OBVIOUS
  <2> QED BY <2>1, <1>1, <1>4
<1> QED BY <1>1, <1>3, <1>5, <1>6

\* A block that is skipped is as good as written.
LEMMA SkippedIsWritten ==
    ASSUME RawInv, pc = "block", ~ lost, Raw!Sparse \/ (Raw!Compared /\ Raw!Same),
        Raw!Compared => pos + Len(buffer) <= Len(out)
    PROVE  Written(IF readbytes + Len(buffer) > Raw!existing THEN Raw!SetEnd(out, pos + Len(buffer)) ELSE out,
                   opt.before, opt.offset, image, Len(image))
<1>0. Argued /\ RawTyped /\ Counted /\ Output
  BY DEF RawInv
<1> DEFINE m == Len(buffer)
           n == Len(image) - Len(buffer)
<1>1. /\ m \in Nat \ {0} /\ Len(image) \in Nat /\ m <= Len(image) /\ n \in Nat
      /\ \A j \in 1 .. m : image[n + j] = buffer[j]
      /\ Len(opt.before) \in Nat /\ Len(out) \in Nat /\ opt.offset \in Nat /\ pos \in Nat /\ readbytes \in Nat
      /\ pos = opt.offset + n
  BY TheBlock DEF InBlock
<1>2. Len(image) = readbytes + m
  BY <1>0 DEF Counted
<1>3. Written(out, opt.before, opt.offset, image, n)
  BY <1>0 DEF Output
<1>4. Raw!existing = Len(opt.before) /\ opt.before \in WordSeqs /\ out \in WordSeqs
  BY <1>0 DEF Raw!existing, Argued, RawTyped
<1>5. pos + m = (opt.offset + n) + m
  BY <1>1
<1>s. CASE Raw!Sparse
  <2>1. readbytes >= Len(opt.before) /\ buffer = Raw!Zeroes(m)
    BY <1>s, <1>4 DEF Raw!Sparse, Raw!BeyondData
  <2>2. \A j \in 1 .. m : buffer[j] = 0
    BY <2>1 DEF Raw!Zeroes
  <2> HIDE DEF m, n
  <2>3. n >= Len(opt.before) /\ n + m = Len(image) /\ m > 0 /\ readbytes + m > Len(opt.before)
    <3>1. n = readbytes /\ n + m = Len(image)
      BY <1>1, <1>2 DEF n, m
    <3> QED BY <1>1, <2>1, <3>1
  <2>4. \A j \in 1 .. m : image[n + j] = 0
    BY <1>1, <2>2
  <2>5. Written(Raw!SetEnd(out, (opt.offset + n) + m), opt.before, opt.offset, image, n + m)
    BY <1>1, <1>3, <1>4, <2>3, <2>4, WrittenSparse
  <2> QED BY <1>4, <1>5, <2>3, <2>5 DEF m
<1>d. CASE ~ Raw!Sparse
  <2>1. Raw!Compared /\ Raw!Same
    BY <1>d
  <2>2. pos + m <= Len(out) /\ readbytes + m <= Len(opt.before)
    BY <2>1, <1>4 DEF Raw!Compared
  <2>3. \A j \in 1 .. m : buffer[j] = out[(opt.offset + n) + j]
    <3>1. SubSeq(out, pos + 1, pos + m) = buffer
      BY <2>1 DEF Raw!Same
    <3> HIDE DEF m, n
    <3>2. pos + 1 \in Int /\ pos + m \in Int /\ (pos + m) - (pos + 1) + 1 = m
      BY <1>1
    <3>3. \A i \in pos + 1 .. pos + m : out[i] \in Nat
      <4>1. \A i \in pos + 1 .. pos + m : i \in 1 .. Len(out)
        BY <1>1, <2>2, SMTT(60)
      <4> QED BY <4>1, <1>4, Filed
    <3>4. \A j \in 1 .. (pos + m) - (pos + 1) + 1 : SubSeq(out, pos + 1, pos + m)[j] = out[(pos + 1) + j - 1]
      BY <3>2, <3>3, SubSeqProperties
    <3>5. \A j \in 1 .. m : buffer[j] = out[(pos + 1) + j - 1]
      BY <3>1, <3>2, <3>4
    <3>6. \A j \in 1 .. m : (pos + 1) + j - 1 = (opt.offset + n) + j
      BY <1>1
    <3> QED BY <3>5, <3>6
  <2> HIDE DEF m, n
  <2>4. \A j \in 1 .. m : image[n + j] = out[(opt.offset + n) + j]
    BY <1>1, <2>3
  <2>5. (opt.offset + n) + m <= Len(out) /\ n + m = Len(image) /\ ~ (readbytes + m > Len(opt.before))
    <3>1. n + m = Len(image)
      BY <1>1, <1>2 DEF n, m
    <3> QED BY <1>1, <1>5, <2>2, <3>1
  <2>6. Written(out, opt.before, opt.offset, image, n + m)
    BY <1>1, <1>3, <1>4, <2>4, <2>5, WrittenSame
  <2> QED BY <1>4, <2>5, <2>6 DEF m
<1> QED BY <1>s, <1>d

LEMMA DecideStep ==
    ASSUME RawInv, Raw!Decide
    PROVE  RawInv'
<1>0. Argued /\ RawTyped /\ Counted /\ PointerFollows /\ AtEnd /\ Output /\ Complete /\ Raw!ReadInPlace /\
        Raw!VolumeIsImaged
  BY DEF RawInv
<1>1. /\ pc = "block" /\ readbytes' = readbytes + Len(buffer)
      /\ UNCHANGED <<opt, removed, at, out, pos, buffer, writtenblocks, retries, image, holes, lost, refused>>
      /\ \/ pc' = "failed"
         \/ pc' = "write"
         \/ pc' = "skip" /\ (Raw!Sparse \/ (Raw!Compared /\ Raw!Same)) /\
             (Raw!Compared => pos + Len(buffer) <= Len(out))
  BY DEF Raw!Decide, Raw!history, Raw!given
<1>2. /\ Len(buffer) \in Nat \ {0} /\ Len(image) \in Nat /\ readbytes \in Nat /\ writtenblocks \in Nat
      /\ Len(image) = readbytes + Len(buffer) /\ writtenblocks <= readbytes /\ Len(buffer) > 0
  <2>1. \A m \in Nat \ {0} : m > 0
    OBVIOUS
  <2> QED BY <1>0, <1>1, <2>1, TheBlock DEF InBlock, Counted, RawTyped
<1>3. pc' \in {"failed", "write", "skip"}
  BY <1>1
<1>4. Argued' /\ RawTyped' /\ Raw!ReadInPlace'
  <2>1. readbytes' \in Nat
    BY <1>1, <1>2
  <2> QED BY <1>0, <1>1, <1>3, <2>1 DEF Argued, RawTyped, Raw!ReadInPlace, Raw!Ends
<1>5. Counted'
  <2>1. writtenblocks + 1 <= readbytes + Len(buffer)
    BY <1>2
  <2> QED BY <1>0, <1>1, <1>2, <1>3, <2>1 DEF Counted, InBlock
<1>6. PointerFollows' /\ AtEnd' /\ Complete' /\ Raw!VolumeIsImaged'
  BY <1>0, <1>1, <1>3 DEF PointerFollows, AtEnd, Complete, Raw!VolumeIsImaged, Raw!EndsWell, InBlock
<1>7. Output'
  <2>1. CASE pc' = "failed"
    BY <2>1 DEF Output, InBlock
  <2>2. CASE pc' = "write"
    BY <1>0, <1>1, <2>2 DEF Output, InBlock
  <2>3. CASE pc' = "skip"
    <3>1. ~ lost => Written(IF readbytes + Len(buffer) > Raw!existing
            THEN Raw!SetEnd(out, pos + Len(buffer)) ELSE out,
                            opt.before, opt.offset, image, Len(image))
      BY <1>1, <2>3, SkippedIsWritten
    <3>2. ~ lost => pos + Len(buffer) = opt.offset + Len(image)
      BY <1>0, <1>1 DEF Output, InBlock
    <3> QED BY <1>1, <2>3, <3>1, <3>2 DEF Output, InBlock, Raw!existing
  <2> QED BY <1>3, <2>1, <2>2, <2>3
<1> QED BY <1>4, <1>5, <1>6, <1>7 DEF RawInv

\* A block is done with, and the next one is read, unless they are enough.
LEMMA NextBlock ==
    ASSUME RawInv, pc \in {"skip", "write"}, Raw!Continue,
        UNCHANGED <<opt, removed, at, buffer, readbytes, image, holes, refused>>,
           pos' \in Nat, out' \in WordSeqs, lost' \in BOOLEAN, retries' \in 0 .. opt.retrycount,
           ~ lost' => /\ pos' = opt.offset + Len(image)
                      /\ Written(out', opt.before, opt.offset, image, Len(image))
    PROVE  RawInv'
<1>0. Argued /\ RawTyped /\ Counted /\ PointerFollows /\ AtEnd /\ Output /\ Complete /\ Raw!ReadInPlace /\
        Raw!VolumeIsImaged
  BY DEF RawInv
<1>1. /\ writtenblocks' = writtenblocks + 1
      /\ pc' = "read" \/ (pc' = "adjust" /\ opt.copylength # 0 /\ writtenblocks' >= opt.copylength)
  BY DEF Raw!Continue
<1>2. /\ writtenblocks \in Nat /\ writtenblocks' <= readbytes /\ writtenblocks' \in Nat
      /\ Len(image) = readbytes /\ readbytes \in Nat /\ opt.copylength \in Nat
  BY <1>0, <1>1 DEF RawTyped, Counted, Argued
<1>3. Argued' /\ RawTyped' /\ Raw!ReadInPlace'
  BY <1>0, <1>1, <1>2 DEF Argued, RawTyped, Raw!ReadInPlace, Raw!Ends
<1>4. Counted'
  BY <1>0, <1>1, <1>2 DEF Counted, InBlock
<1>5. PointerFollows' /\ AtEnd' /\ Raw!VolumeIsImaged'
  BY <1>0, <1>1 DEF PointerFollows, AtEnd, Raw!VolumeIsImaged, Raw!EndsWell, InBlock
<1>6. Output'
  BY <1>1 DEF Output, InBlock
<1>7. Complete'
  <2> SUFFICES ASSUME pc' = "adjust" PROVE Complete'
    BY <1>1 DEF Complete
  <2>1. opt.copylength # 0 /\ writtenblocks' >= opt.copylength
    BY <1>1
  <2>2. Raw!Asked \in Int /\ Raw!Asked <= opt.copylength
    BY <1>0, <2>1, AskedAtMost
  <2>3. Len(image) >= Raw!Asked
    <3>1. \A a \in Int : \A c, w, r \in Nat : a <= c /\ w >= c /\ w <= r => r >= a
      OBVIOUS
    <3> QED BY <3>1, <1>2, <2>1, <2>2
  <2> QED BY <2>3 DEF Complete, Raw!Asked
<1> QED BY <1>3, <1>4, <1>5, <1>6, <1>7 DEF RawInv

LEMMA SkipBlockStep ==
    ASSUME RawInv, Raw!SkipBlock
    PROVE  RawInv'
<1>0. Argued /\ RawTyped /\ Output
  BY DEF RawInv
<1>1. /\ pc = "skip" /\ pos' = pos + Len(buffer) /\ Raw!Continue
      /\ out' = IF readbytes > Raw!existing THEN Raw!SetEnd(out, pos + Len(buffer)) ELSE out
      /\ UNCHANGED <<opt, removed, at, buffer, readbytes, retries, image, holes, lost, refused>>
  BY DEF Raw!SkipBlock, Raw!history, Raw!given
<1>2. Len(buffer) \in Nat /\ pos \in Nat /\ pos' \in Nat
  <2>1. Len(buffer) \in Nat /\ pos \in Nat
    BY <1>0, Filed DEF RawTyped
  <2> QED BY <1>1, <2>1
<1>3. out' \in WordSeqs
  <2>1. Raw!SetEnd(out, pos') \in WordSeqs /\ out \in WordSeqs
    BY <1>0, <1>2, CutOff DEF RawTyped
  <2> QED BY <1>1, <2>1
<1>4. ~ lost => /\ pos' = opt.offset + Len(image)
                /\ Written(out', opt.before, opt.offset, image, Len(image))
  BY <1>0, <1>1 DEF Output, InBlock
<1> QED BY <1>0, <1>1, <1>2, <1>3, <1>4, NextBlock DEF RawTyped

LEMMA WriteBlockStep ==
    ASSUME RawInv, Raw!WriteBlock
    PROVE  RawInv'
<1>0. Argued /\ RawTyped /\ Output
  BY DEF RawInv
<1>1. PICK n \in 1 .. Len(buffer) : /\ out' = Raw!Over(out, pos, SubSeq(buffer, 1, n)) /\ pos' = pos + n
                                    /\ lost' = (lost \/ n < Len(buffer))
  BY DEF Raw!WriteBlock, Raw!given
<1>2. /\ pc = "write" /\ retries' = 0 /\ Raw!Continue /\ UNCHANGED <<opt, removed, at, buffer, readbytes, image, holes, refused>>
  BY DEF Raw!WriteBlock, Raw!given
<1>3. /\ Len(buffer) \in Nat \ {0} /\ Len(image) \in Nat /\ Len(buffer) <= Len(image)
      /\ Len(image) - Len(buffer) \in Nat
      /\ \A j \in 1 .. Len(buffer) : image[(Len(image) - Len(buffer)) + j] = buffer[j]
      /\ opt.offset \in Nat /\ pos \in Nat
      /\ ~ lost => pos = opt.offset + (Len(image) - Len(buffer))
  BY <1>2, TheBlock DEF InBlock
<1>4. out \in WordSeqs /\ buffer \in WordSeqs /\ image \in WordSeqs /\ opt.before \in WordSeqs
  BY <1>0 DEF RawTyped, Argued
<1>5. SubSeq(buffer, 1, n) \in WordSeqs
  <2>1. \A i \in 1 .. n : buffer[i] \in Nat
    <3>1. \A i \in 1 .. n : i \in 1 .. Len(buffer)
      BY <1>3
    <3> QED BY <3>1, <1>4, Filed
  <2>2. 1 \in Int /\ n \in Int
    BY <1>3
  <2>3. SubSeq(buffer, 1, n) \in Seq(Nat)
    BY <2>1, <2>2, SubSeqProperties
  <2> QED BY <2>3 DEF WordSeqs
<1>6. out' \in WordSeqs /\ pos' \in Nat
  <2>1. Raw!Over(out, pos, SubSeq(buffer, 1, n)) \in WordSeqs
    BY <1>3, <1>4, <1>5, Overwritten
  <2> QED BY <1>1, <1>3, <2>1
<1>7. lost' \in BOOLEAN /\ 0 \in 0 .. opt.retrycount
  BY <1>0, <1>1 DEF Argued
<1>8. ASSUME ~ lost'
      PROVE  pos' = opt.offset + Len(image) /\ Written(out', opt.before, opt.offset, image, Len(image))
  <2>1. ~ lost /\ n = Len(buffer)
    <3>1. ~ (lost \/ n < Len(buffer))
      BY <1>1, <1>8, Zenon
    <3>2. ~ (n < Len(buffer))
      BY <3>1, Zenon
    <3> QED BY <1>3, <3>1, <3>2
  <2>2. SubSeq(buffer, 1, n) = buffer
    <3>1. buffer \in Seq(Nat)
      BY <1>4 DEF WordSeqs
    <3> QED BY <2>1, <3>1, SubSeqFull
  <2>3. pos = opt.offset + (Len(image) - Len(buffer))
    BY <1>3, <2>1
  <2>4. out' = Raw!Over(out, opt.offset + (Len(image) - Len(buffer)), buffer)
    BY <1>1, <2>2, <2>3
  <2>5. Written(out, opt.before, opt.offset, image, Len(image) - Len(buffer))
    BY <1>0, <1>2, <2>1 DEF Output
  <2>6. Len(buffer) > 0 /\ Len(image) = (Len(image) - Len(buffer)) + Len(buffer)
    BY <1>3
  <2>7. Written(out', opt.before, opt.offset, image, Len(image))
    BY <1>3, <1>4, <2>4, <2>5, <2>6, WrittenMore
  <2>8. pos' = opt.offset + Len(image)
    <3>1. \A a, m, k \in Nat : k <= m => (a + (m - k)) + k = a + m
      OBVIOUS
    <3> QED BY <3>1, <1>1, <1>3, <2>1, <2>3
  <2> QED BY <2>7, <2>8
<1> QED BY <1>2, <1>6, <1>7, <1>8, NextBlock

LEMMA EndOfOutputStep ==
    ASSUME RawInv, Raw!EndOfOutput
    PROVE  RawInv'
<1>0. Argued /\ RawTyped /\ Counted /\ PointerFollows /\ AtEnd /\ Output /\ Complete /\ Raw!ReadInPlace /\
        Raw!VolumeIsImaged
  BY DEF RawInv
<1>1. /\ pc = "write" /\ pc' = "adjust" /\ retries' = 0 /\ lost' = TRUE
      /\ pos' = pos \/ pos' = pos + Len(buffer)
      /\ UNCHANGED <<opt, removed, at, out, buffer, readbytes, writtenblocks, image, holes, refused>>
  BY DEF Raw!EndOfOutput, Raw!given
<1>2. pos' \in Nat
  <2>1. Len(buffer) \in Nat /\ pos \in Nat
    BY <1>0, Filed DEF RawTyped
  <2> QED BY <1>1, <2>1
<1>3. Argued' /\ RawTyped' /\ Raw!ReadInPlace'
  <2>1. 0 \in 0 .. opt.retrycount
    BY <1>0 DEF Argued
  <2> QED BY <1>0, <1>1, <1>2, <2>1 DEF Argued, RawTyped, Raw!ReadInPlace, Raw!Ends
<1>4. Counted' /\ PointerFollows' /\ AtEnd' /\ Raw!VolumeIsImaged' /\ Output' /\ Complete'
  BY <1>0, <1>1 DEF Counted, PointerFollows, AtEnd, Raw!VolumeIsImaged, Raw!EndsWell, Output, Complete, InBlock
<1> QED BY <1>3, <1>4 DEF RawInv

LEMMA AdjustSizeStep ==
    ASSUME RawInv, Raw!AdjustSize
    PROVE  RawInv'
<1>0. Argued /\ RawTyped /\ Counted /\ PointerFollows /\ AtEnd /\ Output /\ Complete /\ Raw!ReadInPlace /\
        Raw!VolumeIsImaged
  BY DEF RawInv
<1>1. /\ pc = "adjust" /\ pc' \in {"ok", "failed"}
      /\ UNCHANGED <<opt, removed, at, pos, buffer, readbytes, writtenblocks, retries, image, holes, lost, refused>>
      /\ \/ out' = out /\ (pc' = "failed" \/ ~ opt.adjust)
         \/ out' = Raw!SetEnd(out, Raw!VolumeSize) /\ ~ (Len(out) < Raw!VolumeSize)
  BY DEF Raw!AdjustSize, Raw!history, Raw!given
<1>2. /\ Len(opt.source) \in Nat /\ opt.skip \in Nat /\ Raw!disk_size \in Nat /\ Raw!VolumeSize \in Nat
      /\ Raw!disk_size > opt.skip => Raw!VolumeSize = Raw!disk_size - opt.skip
      /\ Raw!disk_size = Len(opt.source) + opt.disk /\ opt.disk \in Nat
  <2>1. Len(opt.source) \in Nat /\ opt.skip \in Nat /\ opt.disk \in {0, 1}
    BY <1>0, Filed DEF Argued
  <2>2. Raw!disk_size = Len(opt.source) + opt.disk
    BY DEF Raw!disk_size
  <2>3. Raw!disk_size \in Nat
    BY <2>1, <2>2
  <2>4. Raw!VolumeSize = IF Raw!disk_size > opt.skip THEN Raw!disk_size - opt.skip ELSE Raw!disk_size
    BY DEF Raw!VolumeSize
  <2> QED BY <2>1, <2>2, <2>3, <2>4
<1>3. out \in WordSeqs /\ Len(out) \in Nat /\ out' \in WordSeqs
  <2>1. out \in WordSeqs /\ Len(out) \in Nat
    BY <1>0, Filed DEF RawTyped
  <2>2. Raw!SetEnd(out, Raw!VolumeSize) \in WordSeqs
    BY <1>2, <2>1, CutOff
  <2> QED BY <1>1, <2>1, <2>2
<1>4. Argued' /\ RawTyped' /\ Raw!ReadInPlace'
  BY <1>0, <1>1, <1>3 DEF Argued, RawTyped, Raw!ReadInPlace, Raw!Ends
<1>5. Counted' /\ PointerFollows' /\ AtEnd' /\ Output' /\ Complete'
  BY <1>0, <1>1 DEF Counted, PointerFollows, AtEnd, Output, Complete, InBlock, Raw!Asked
<1>6. Raw!VolumeIsImaged'
  <2> SUFFICES ASSUME pc' = "ok", opt.adjust, ~ lost, ~ refused, opt.copylength = 0, opt.offset = 0,
          Raw!disk_size > opt.skip
               PROVE  Len(out') = Raw!disk_size - opt.skip /\
                   SubSeq(out', 1, Raw!Asked) = SubSeq(image, 1, Raw!Asked)
    BY <1>1 DEF Raw!VolumeIsImaged, Raw!EndsWell, Raw!disk_size, Raw!Asked
  <2> DEFINE volume == Raw!disk_size - opt.skip
  <2>1. Raw!VolumeSize = volume /\ volume \in Nat /\ Raw!Asked = Len(opt.source) - opt.skip /\
          Raw!Asked <= volume /\ Raw!Asked \in Int
    <3>1. Raw!Asked = Len(opt.source) - opt.skip
      BY DEF Raw!Asked
    <3> QED BY <1>2, <3>1
  <2> HIDE DEF volume
  <2>2. out' = Raw!SetEnd(out, volume) /\ volume <= Len(out)
    BY <1>1, <1>2, <1>3, <2>1
  <2>3. Len(out') = volume /\ \A i \in 1 .. volume : out'[i] = out[i]
    <3>1. \A i \in 1 .. volume : i <= Len(out)
      BY <1>3, <2>1, <2>2
    <3> QED BY <1>3, <2>1, <2>2, <3>1, CutOff
  <2>4. Len(image) \in Nat /\ Len(image) >= Raw!Asked /\ image \in WordSeqs
    BY <1>0, <1>1, Filed DEF Complete, RawTyped
  <2>5. \A i \in 1 .. Raw!Asked : i \in 1 .. volume /\ i \in 1 .. Len(image) /\ i \in 1 .. Len(out)
    BY <2>1, <2>2, <2>4, <1>3
  <2>6. \A i \in 1 .. Raw!Asked : out[i] = image[i]
    <3>1. Written(out, opt.before, 0, image, Len(image))
      BY <1>0, <1>1 DEF Output
    <3>2. \A i \in 1 .. Len(image) : i \in 0 + 1 .. 0 + Len(image) /\ i - 0 = i
      BY <2>4
    <3> QED BY <2>5, <3>1, <3>2 DEF Written
  <2>7. \A i \in 1 .. Raw!Asked : out'[i] = image[i] /\ image[i] \in Nat /\ out'[i] \in Nat
    BY <2>3, <2>4, <2>5, <2>6, Filed
  <2> DEFINE s == SubSeq(out', 1, Raw!Asked)
             t == SubSeq(image, 1, Raw!Asked)
  <2>8. /\ s \in Seq(Nat) /\ Len(s) = (IF 1 <= Raw!Asked THEN Raw!Asked - 1 + 1 ELSE 0)
        /\ \A i \in 1 .. Raw!Asked - 1 + 1 : s[i] = out'[1 + i - 1]
    <3>1. 1 \in Int /\ Raw!Asked \in Int /\ \A i \in 1 .. Raw!Asked : out'[i] \in Nat
      BY <2>1, <2>7
    <3> QED BY <3>1, SubSeqProperties
  <2>9. /\ t \in Seq(Nat) /\ Len(t) = (IF 1 <= Raw!Asked THEN Raw!Asked - 1 + 1 ELSE 0)
        /\ \A i \in 1 .. Raw!Asked - 1 + 1 : t[i] = image[1 + i - 1]
    <3>1. 1 \in Int /\ Raw!Asked \in Int /\ \A i \in 1 .. Raw!Asked : image[i] \in Nat
      BY <2>1, <2>7
    <3> QED BY <3>1, SubSeqProperties
  <2> HIDE DEF s, t
  <2>10. Raw!Asked - 1 + 1 = Raw!Asked /\ \A i \in 1 .. Raw!Asked : 1 + i - 1 = i
    BY <2>1
  <2>11. \A i \in 1 .. Raw!Asked : s[i] = t[i]
    BY <2>7, <2>8, <2>9, <2>10
  <2>12. \A i \in 1 .. Len(s) : s[i] = t[i]
    <3>1. CASE 1 <= Raw!Asked
      <4>1. Len(s) = Raw!Asked
        BY <3>1, <2>8, <2>10
      <4> QED BY <4>1, <2>11
    <3>2. CASE ~ (1 <= Raw!Asked)
      <4>1. Len(s) = 0
        BY <3>2, <2>8
      <4>2. 1 .. 0 = {}
        OBVIOUS
      <4> QED BY <4>1, <4>2
    <3> QED BY <3>1, <3>2
  <2>13. s = t
    BY <2>8, <2>9, <2>12, SeqEqual
  <2> QED BY <2>3, <2>13 DEF s, t, volume
<1> QED BY <1>4, <1>5, <1>6 DEF RawInv

LEMMA RawStep == RawInv /\ [Raw!Next]_(Raw!vars) => RawInv'
<1> SUFFICES ASSUME RawInv, [Raw!Next]_(Raw!vars) PROVE RawInv'
  OBVIOUS
<1>0. Argued /\ RawTyped
  BY DEF RawInv
<1>1. CASE UNCHANGED Raw!vars
  <2>1. /\ UNCHANGED <<opt, at, out, pos, buffer, readbytes, writtenblocks, image, holes, lost, refused>>
        /\ pc' = pc /\ removed' \in BOOLEAN /\ retries' \in 0 .. opt.retrycount
    BY <1>0, <1>1 DEF Raw!vars, Raw!given, Raw!history, RawTyped
  <2> QED BY <2>1, IdleStep
<1>2. CASE Raw!RetryRead \/ Raw!AnswerRead \/ Raw!RetryWrite \/ Raw!AnswerWrite
  <2>1. /\ UNCHANGED <<opt, at, out, pos, buffer, readbytes, writtenblocks, image, holes, lost, refused>>
        /\ pc' = pc \/ pc' = "failed"
        /\ removed' \in BOOLEAN
    BY <1>0, <1>2 DEF Raw!RetryRead, Raw!AnswerRead, Raw!RetryWrite, Raw!AnswerWrite, Raw!Failing, Raw!history, Raw!given,
        RawTyped
  <2>2. retries' = 0 \/ (retries < opt.retrycount /\ retries' = retries + 1)
    BY <1>2 DEF Raw!RetryRead, Raw!AnswerRead, Raw!RetryWrite, Raw!AnswerWrite
  <2>3. retries' \in 0 .. opt.retrycount
    BY <1>0, <2>2 DEF Argued, RawTyped
  <2> QED BY <2>1, <2>3, IdleStep
<1>3. CASE Raw!DeviceGoes
  <2>1. /\ UNCHANGED <<opt, at, out, pos, buffer, readbytes, writtenblocks, image, holes, lost, refused>>
        /\ pc' = pc /\ removed' \in BOOLEAN /\ retries' \in 0 .. opt.retrycount
    BY <1>0, <1>3 DEF Raw!DeviceGoes, Raw!history, RawTyped
  <2> QED BY <2>1, IdleStep
<1> QED BY <1>1, <1>2, <1>3, LoopEndsStep, RefusedReadStep, ReadStep, IgnoreReadStep, DecideStep, SkipBlockStep, WriteBlockStep,
           EndOfOutputStep, AdjustSizeStep DEF Raw!Next, Raw!Program

LEMMA RawDone == RawInv => Raw!TypeOK /\ Raw!AsWritten /\ Raw!ReadInPlace /\ Raw!CopiedAsAsked /\
    Raw!VolumeIsImaged
<1> SUFFICES ASSUME RawInv PROVE Raw!TypeOK /\ Raw!AsWritten /\ Raw!ReadInPlace /\ Raw!CopiedAsAsked /\
        Raw!VolumeIsImaged
  OBVIOUS
<1>0. Argued /\ RawTyped /\ Counted /\ Output /\ Complete /\ Raw!ReadInPlace /\ Raw!VolumeIsImaged
  BY DEF RawInv
<1>1. Raw!TypeOK
  BY <1>0 DEF Raw!TypeOK, RawTyped, Argued
<1>2. Raw!AsWritten
  <2> SUFFICES ASSUME pc \in {"read", "adjust"}, ~ lost PROVE out = Raw!Over(opt.before, opt.offset, image)
    BY DEF Raw!AsWritten
  <2>1. Written(out, opt.before, opt.offset, image, Len(image))
    BY <1>0 DEF Output
  <2> QED BY <1>0, <2>1, WrittenIsOver DEF RawTyped, Argued
<1>3. Raw!CopiedAsAsked
  BY <1>0 DEF Raw!CopiedAsAsked, Raw!EndsWell, Complete, Counted
<1> QED BY <1>0, <1>1, <1>2, <1>3
-----------------------------------------------------------------------------
(* ftpcp. *)

Commands == {"greeting", "USER", "PASS", "TYPE_A", "TYPE_I", "PASV", "RETR", "PORT", "STOR", "transfer", "QUIT"}
CommandSeqs == Seq(Commands)

Transfers == {"RETR", "STOR"}
Replies == {"220", "331", "230", "227", "200", "150", "226", "other"}

ReplySeqs == Seq(Replies)

(* How many replies the thread is waiting for, and whether a reply has come. *)
Due(a, w) == IF w \/ a \in {"message", "tell"} THEN 1 ELSE 0
Has(r, code) == \E i \in DOMAIN r : r[i] = code
Extra(r) == IF Has(r, "150") THEN 1 ELSE 0

Untransferred(o) == \A i \in DOMAIN o : o[i] \notin Transfers

Early == {"connect", "message", "tell", "greeting", "USER", "PASS", "TYPE_A"}

(* Up to TYPE A every answer is waited for, and one with a line too many can only be
   the last one. *)
EarlyPace(a, w, o, r, g) ==
    a \in Early =>
        /\ g => Len(o) = 0
        /\ \/ Len(o) + Len(r) <= Due(a, w)
           \/ Due(a, w) = 1 /\ Len(o) = 0 /\ Len(r) = 2 /\ r[1] = "other" /\ r[2] # "other"

BinaryPace(a, w, o, r, g) ==
    a = "TYPE_I" =>
        /\ g => Len(o) = 0
        /\ Len(o) <= Due(a, w)
        /\ Len(r) > 0 /\ r[1] = "other" => Due(a, w) = 1 /\ Len(o) = 0 /\ Len(r) <= 2

LaterPace(a, w, o, r) ==
    LET most == Due(a, w) + 1 + Extra(r)
    IN  a # "end" => \/ Len(o) + Len(r) <= most
                     \/ \E i \in DOMAIN r : r[i] = "other" /\ Len(o) + i <= most

Once(a, w, o, r) ==
    /\ a \in Early \cup {"TYPE_I", "PASV", "PORT"} \/ (a \in Transfers /\ ~ w) => Untransferred(o) /\
        ~ Has(r, "150")
    /\ \A i, j \in DOMAIN o : o[i] \in Transfers /\ o[j] \in Transfers => i = j
    /\ Has(r, "150") \/ a \in {"transfer", "QUIT"} => Untransferred(o)

Pace(a, w, o, r, g) ==
    /\ w \in BOOLEAN /\ g \in BOOLEAN /\ o \in CommandSeqs /\ r \in ReplySeqs
    /\ EarlyPace(a, w, o, r, g) /\ BinaryPace(a, w, o, r, g) /\ LaterPace(a, w, o, r)
    /\ Once(a, w, o, r)
    /\ Len(o) <= 2

LEMMA Appended ==
    ASSUME NEW S, NEW q \in Seq(S), NEW e \in S
    PROVE  /\ Append(q, e) \in Seq(S) /\ Len(Append(q, e)) = Len(q) + 1 /\ Append(q, e)[Len(q) + 1] = e
           /\ \A i \in 1 .. Len(q) : Append(q, e)[i] = q[i]
           /\ Len(q) \in Nat /\ DOMAIN q = 1 .. Len(q) /\ DOMAIN Append(q, e) = 1 .. Len(q) + 1
  BY AppendProperties, LenProperties

LEMMA Tailed ==
    ASSUME NEW S, NEW q \in Seq(S), q # <<>>
    PROVE  /\ Tail(q) \in Seq(S) /\ Len(Tail(q)) = Len(q) - 1 /\ Len(q) \in Nat \ {0}
           /\ DOMAIN q = 1 .. Len(q) /\ DOMAIN Tail(q) = 1 .. Len(q) - 1
           /\ \A i \in 1 .. Len(q) - 1 : Tail(q)[i] = q[i + 1]
           /\ Head(q) = q[1] /\ q[1] \in S
<1>1. Len(q) \in Nat \ {0} /\ DOMAIN q = 1 .. Len(q)
  BY EmptySeq, LenProperties
<1>2. Tail(q) \in Seq(S) /\ Len(Tail(q)) = Len(q) - 1 /\ \A i \in 1 .. Len(Tail(q)) : Tail(q)[i] = q[i + 1]
  BY HeadTailProperties
<1>3. DOMAIN Tail(q) = 1 .. Len(Tail(q))
  BY <1>2, LenProperties
<1>4. Head(q) = q[1] /\ q[1] \in S
  BY <1>1
<1> QED BY <1>1, <1>2, <1>3, <1>4

LEMMA Lengthened ==
    ASSUME NEW S, NEW q \in Seq(S), NEW c \in S, NEW d \in S
    PROVE  /\ q \o <<c, d>> \in Seq(S) /\ Len(q \o <<c, d>>) = Len(q) + 2 /\ Len(q) \in Nat
           /\ DOMAIN q = 1 .. Len(q) /\ DOMAIN (q \o <<c, d>>) = 1 .. Len(q) + 2
           /\ (q \o <<c, d>>)[Len(q) + 1] = c /\ (q \o <<c, d>>)[Len(q) + 2] = d
           /\ \A i \in 1 .. Len(q) : (q \o <<c, d>>)[i] = q[i]
<1>1. <<c, d>> \in Seq(S) /\ Len(<<c, d>>) = 2
  OBVIOUS
<1>2. q \o <<c, d>> \in Seq(S) /\ Len(q \o <<c, d>>) = Len(q) + 2 /\ Len(q) \in Nat
  BY <1>1, ConcatProperties, LenProperties
<1>3. DOMAIN q = 1 .. Len(q) /\ DOMAIN (q \o <<c, d>>) = 1 .. Len(q) + 2
  BY <1>2, LenProperties
<1>4. \A i \in 1 .. Len(q) + 2 : (q \o <<c, d>>)[i] = IF i <= Len(q) THEN q[i] ELSE <<c, d>>[i - Len(q)]
  BY <1>1, <1>2, ConcatProperties
<1>5. Len(q) + 1 - Len(q) = 1 /\ Len(q) + 2 - Len(q) = 2
  BY <1>2
<1> QED BY <1>2, <1>3, <1>4, <1>5

LEMMA Fronted ==
    ASSUME NEW S, NEW q \in Seq(S), q # <<>>, NEW e \in S
    PROVE  /\ <<>> \o Tail(q) = Tail(q)
           /\ <<e>> \o Tail(q) \in Seq(S) /\ Len(<<e>> \o Tail(q)) = Len(q) /\ Len(q) \in Nat
           /\ DOMAIN q = 1 .. Len(q) /\ DOMAIN (<<e>> \o Tail(q)) = 1 .. Len(q)
           /\ (<<e>> \o Tail(q))[1] = e
           /\ \A i \in 2 .. Len(q) : (<<e>> \o Tail(q))[i] = q[i]
<1>1. /\ Tail(q) \in Seq(S) /\ Len(Tail(q)) = Len(q) - 1 /\ Len(q) \in Nat \ {0} /\ DOMAIN q = 1 .. Len(q)
      /\ \A i \in 1 .. Len(q) - 1 : Tail(q)[i] = q[i + 1]
  BY Tailed
<1>2. <<e>> \in Seq(S) /\ Len(<<e>>) = 1 /\ <<e>>[1] = e
  OBVIOUS
<1>3. /\ <<e>> \o Tail(q) \in Seq(S) /\ Len(<<e>> \o Tail(q)) = 1 + (Len(q) - 1)
      /\ \A i \in 1 .. 1 + (Len(q) - 1) : (<<e>> \o Tail(q))[i] = IF i <= 1 THEN <<e>>[i] ELSE Tail(q)[i - 1]
  BY <1>1, <1>2, ConcatProperties
<1>4. 1 + (Len(q) - 1) = Len(q) /\ \A i \in 2 .. Len(q) : i - 1 \in 1 .. Len(q) - 1 /\ (i - 1) + 1 = i
  BY <1>1
<1>5. DOMAIN (<<e>> \o Tail(q)) = 1 .. Len(q)
  BY <1>3, <1>4, LenProperties
<1>6. <<>> \o Tail(q) = Tail(q)
  BY <1>1, ConcatEmptySeq
<1> QED BY <1>1, <1>2, <1>3, <1>4, <1>5, <1>6

Follows(a, b) ==
    \/ a = "greeting" /\ b = "USER"
    \/ a = "USER" /\ b = "PASS"
    \/ a = "PASS" /\ b \in {"TYPE_A", "TYPE_I", "PASV", "PORT"}
    \/ a = "TYPE_A" /\ b \in {"TYPE_I", "PASV", "PORT"}
    \/ a = "TYPE_I" /\ b \in {"PASV", "PORT"}
    \/ a = "PASV" /\ b = "RETR"
    \/ a = "PORT" /\ b = "STOR"
    \/ a \in Transfers /\ b = "transfer"
    \/ a = "transfer" /\ b = "QUIT"
    \/ a = "QUIT" /\ b = "end"

LEMMA AfterFollows ==
    ASSUME NEW s \in Ftp!Side, NEW a \in Commands
    PROVE  Follows(a, Ftp!After(s, a)) /\ (s = "target" => Ftp!After(s, a) # "PASV")
<1>1. CASE a \in {"greeting", "USER"}
  BY <1>1 DEF Ftp!After, Follows
<1>2. CASE a = "PASS"
  BY <1>2 DEF Ftp!After, Follows
<1>3. CASE a \in {"TYPE_A", "TYPE_I"}
  BY <1>3 DEF Ftp!After, Follows
<1>4. CASE a \in {"PASV", "PORT"}
  BY <1>4 DEF Ftp!After, Follows
<1>5. CASE a \in {"RETR", "STOR", "transfer", "QUIT"}
  BY <1>5 DEF Ftp!After, Follows, Transfers
<1> QED BY <1>1, <1>2, <1>3, <1>4, <1>5 DEF Commands

LEMMA Codes ==
    ASSUME NEW x \in Commands
    PROVE  /\ Ftp!CodeOf(x) \in Replies /\ Ftp!CodeOf(x) # "other"
           /\ Ftp!CodeOf(x) = "150" <=> x \in Transfers
           /\ Ftp!CodeOf(x) = "226" <=> x = "transfer"
           /\ Ftp!Required(x) <=> x \notin {"TYPE_A", "TYPE_I", "QUIT"}
<1>1. DOMAIN Ftp!Code = {"greeting", "USER", "PASS", "PASV", "PORT", "RETR", "STOR", "transfer"}
  BY DEF Ftp!Code
<1>2. Ftp!CodeOf(x) = IF x \in DOMAIN Ftp!Code THEN Ftp!Code[x] ELSE "200"
  BY DEF Ftp!CodeOf
<1>3. /\ Ftp!Code["greeting"] = "220" /\ Ftp!Code["USER"] = "331" /\ Ftp!Code["PASS"] = "230" /\
          Ftp!Code["PASV"] = "227"
      /\ Ftp!Code["PORT"] = "200" /\ Ftp!Code["RETR"] = "150" /\ Ftp!Code["STOR"] = "150" /\
          Ftp!Code["transfer"] = "226"
  BY DEF Ftp!Code
<1>4. CASE x \in {"TYPE_A", "TYPE_I", "QUIT"}
  <2>1. Ftp!CodeOf(x) = "200"
    BY <1>1, <1>2, <1>4
  <2> QED BY <1>1, <1>4, <2>1 DEF Transfers, Ftp!Required, Replies
<1>5. CASE x \in {"greeting", "USER", "PASS", "PASV", "PORT"}
  <2>1. Ftp!CodeOf(x) \in {"220", "331", "230", "227", "200"}
    BY <1>1, <1>2, <1>3, <1>5
  <2> QED BY <1>1, <1>5, <2>1 DEF Transfers, Ftp!Required, Replies
<1>6. CASE x \in {"RETR", "STOR"}
  <2>1. Ftp!CodeOf(x) = "150"
    BY <1>1, <1>2, <1>3, <1>6
  <2> QED BY <1>1, <1>6, <2>1 DEF Transfers, Ftp!Required, Replies
<1>7. CASE x = "transfer"
  <2>1. Ftp!CodeOf(x) = "226"
    BY <1>1, <1>2, <1>3, <1>7
  <2> QED BY <1>1, <1>7, <2>1 DEF Transfers, Ftp!Required, Replies
<1> QED BY <1>4, <1>5, <1>6, <1>7 DEF Commands

LEMMA PaceAsk ==
    ASSUME NEW a \in Commands, NEW v, NEW w, NEW o, NEW r, NEW g, Pace(a, v, o, r, g), v = FALSE, w = TRUE,
        g = FALSE
    PROVE  Pace(a, w, Append(o, a), r, g)
<1> DEFINE q == Append(o, a)
<1>s. o \in Seq(Commands) /\ r \in Seq(Replies)
  BY DEF Pace, CommandSeqs, ReplySeqs
<1>1. Len(r) \in Nat /\ DOMAIN r = 1 .. Len(r)
  BY <1>s, LenProperties
<1>a. /\ q \in Seq(Commands) /\ Len(q) = Len(o) + 1 /\ q[Len(o) + 1] = a /\ \A i \in 1 .. Len(o) : q[i] = o[i]
      /\ Len(o) \in Nat /\ DOMAIN o = 1 .. Len(o) /\ DOMAIN q = 1 .. Len(o) + 1
  BY <1>s, Appended
<1> HIDE DEF q
<1>2. /\ Len(q) = Len(o) + 1 /\ q[Len(o) + 1] = a /\ \A i \in 1 .. Len(o) : q[i] = o[i]
      /\ Len(o) \in Nat /\ DOMAIN o = 1 .. Len(o) /\ DOMAIN q = 1 .. Len(o) + 1
  BY <1>a
<1>3. /\ EarlyPace(a, v, o, r, g) /\ BinaryPace(a, v, o, r, g)
      /\ LaterPace(a, v, o, r) /\ Once(a, v, o, r)
  BY DEF Pace
<1>4. Due(a, v) = 0 /\ Due(a, w) = 1 /\ a # "end"
  BY DEF Due, Commands, Pace
<1>5. EarlyPace(a, w, q, r, g)
  BY <1>1, <1>2, <1>3, <1>4 DEF EarlyPace
<1>6. BinaryPace(a, w, q, r, g)
  <2> SUFFICES ASSUME a = "TYPE_I" PROVE BinaryPace(a, w, q, r, g)
    BY DEF BinaryPace
  <2>1. Len(o) <= 0 /\ ~ (Len(r) > 0 /\ r[1] = "other")
    BY <1>3, <1>4 DEF BinaryPace
  <2>2. Len(q) <= 1
    BY <2>1, <1>2
  <2> QED BY <2>1, <2>2, <1>4 DEF BinaryPace
<1>h. Extra(r) \in {0, 1} /\ (Extra(r) = 1 => Len(r) >= 1)
  BY <1>1 DEF Extra, Has
<1>7. LaterPace(a, w, q, r) /\ Len(q) <= 2
  <2> DEFINE h == Extra(r)
  <2>1. Len(o) + Len(r) <= 1 + h \/ \E i \in DOMAIN r : r[i] = "other" /\ Len(o) + i <= 1 + h
    BY <1>3, <1>4, <1>h DEF LaterPace
  <2>2. Due(a, w) + 1 + Extra(r) = 2 + h /\ h \in {0, 1} /\ (h = 1 => Len(r) >= 1)
    BY <1>4, <1>h
  <2> HIDE DEF h
  <2>3. Len(q) + Len(r) <= 2 + h \/ \E i \in DOMAIN r : r[i] = "other" /\ Len(q) + i <= 2 + h
    BY <2>1, <2>2, <1>1, <1>2
  <2>4. Len(q) <= 2
    BY <2>3, <2>2, <1>1, <1>2
  <2> QED BY <2>2, <2>3, <2>4 DEF LaterPace
<1>8. Once(a, w, q, r)
  <2>1. a \notin Transfers /\ Untransferred(o) => Untransferred(q)
    BY <1>2 DEF Untransferred
  <2>2. a \in Transfers => Untransferred(o) /\ ~ Has(r, "150")
    BY <1>3 DEF Once
  <2>3. \A i, j \in DOMAIN q : q[i] \in Transfers /\ q[j] \in Transfers => i = j
    <3>1. CASE a \in Transfers
      <4>1. \A i \in DOMAIN q : i # Len(o) + 1 => q[i] \notin Transfers
        BY <1>2, <2>2, <3>1 DEF Untransferred
      <4> QED BY <4>1
    <3>2. CASE a \notin Transfers
      <4>1. \A i \in DOMAIN q : q[i] \in Transfers => i \in DOMAIN o /\ q[i] = o[i]
        BY <1>2, <3>2
      <4> QED BY <4>1, <1>3 DEF Once
    <3> QED BY <3>1, <3>2
  <2>4. a \in Early \cup {"TYPE_I", "PASV", "PORT", "transfer", "QUIT"} => a \notin Transfers
    BY DEF Early, Transfers
  <2> QED BY <1>3, <2>1, <2>2, <2>3, <2>4 DEF Once
<1> QED BY <1>s, <1>a, <1>5, <1>6, <1>7, <1>8 DEF Pace, CommandSeqs, ReplySeqs, q

\* After RETR and STOR the thread waits on.
Held(w, a) == w \in BOOLEAN /\ (w <=> a \in Transfers)

LEMMA PaceHeed ==
    ASSUME NEW a \in Commands, NEW b, Follows(a, b), NEW v, NEW w, v = TRUE, Held(w, a),
           NEW o, NEW r, NEW g, Pace(a, v, o, r, g), Len(r) > 0, Ftp!Required(a) => Head(r) = Ftp!CodeOf(a)
    PROVE  Pace(b, w, o, Tail(r), g)
<1> DEFINE t == Tail(r)
<1>s. o \in Seq(Commands) /\ r \in Seq(Replies) /\ r # <<>>
  <2>1. r = <<>> => Len(r) = 0
    OBVIOUS
  <2> QED BY <2>1 DEF Pace, CommandSeqs, ReplySeqs
<1>0. w \in BOOLEAN /\ g \in BOOLEAN /\ Len(o) <= 2
  BY DEF Pace, Held
<1>1. Len(o) \in Nat /\ DOMAIN o = 1 .. Len(o)
  BY <1>s, LenProperties
<1>a. /\ t \in Seq(Replies) /\ Len(t) = Len(r) - 1 /\ Len(r) \in Nat \ {0}
      /\ DOMAIN r = 1 .. Len(r) /\ DOMAIN t = 1 .. Len(r) - 1
      /\ \A i \in 1 .. Len(r) - 1 : t[i] = r[i + 1]
      /\ Head(r) = r[1]
  BY <1>s, Tailed
<1> HIDE DEF t
<1>2. /\ Len(t) = Len(r) - 1 /\ Len(r) \in Nat \ {0}
      /\ DOMAIN r = 1 .. Len(r) /\ DOMAIN t = 1 .. Len(r) - 1
      /\ \A i \in 1 .. Len(r) - 1 : t[i] = r[i + 1]
  BY <1>a
<1>3. /\ EarlyPace(a, v, o, r, g) /\ BinaryPace(a, v, o, r, g)
      /\ LaterPace(a, v, o, r) /\ Once(a, v, o, r)
  BY DEF Pace
<1>4. Due(a, v) = 1 /\ Due(b, w) = IF a \in Transfers THEN 1 ELSE 0
  BY DEF Due, Follows, Transfers, Held
<1>5. /\ a \in Transfers => r[1] = "150"
      /\ a \notin Transfers => r[1] # "150" \/ a = "QUIT"
      /\ a \notin {"TYPE_A", "TYPE_I", "QUIT"} => r[1] # "other"
  <2>1. ~ Ftp!Required(a) /\ a # "QUIT" => ~ Has(r, "150")
    BY <1>3, Codes DEF Once, Early
  <2>2. r[1] = "150" => Has(r, "150")
    BY <1>2 DEF Has
  <2>3. Ftp!Required(a) => r[1] = Ftp!CodeOf(a)
    BY <1>a
  <2> QED BY <2>1, <2>2, <2>3, Codes DEF Transfers
<1>h. /\ Extra(r) \in {0, 1} /\ Extra(t) \in {0, 1} /\ (Extra(r) = 1 => Has(r, "150"))
      /\ (Has(r, "150") => Extra(r) = 1) /\ (Extra(t) = 1 <=> Has(t, "150"))
      /\ (Has(t, "150") => Has(r, "150"))
      /\ (a \notin Transfers /\ a # "QUIT" => (Has(t, "150") <=> Has(r, "150")))
  <2>1. Has(t, "150") => Has(r, "150")
    BY <1>2 DEF Has
  <2>2. Has(r, "150") /\ r[1] # "150" => Has(t, "150")
    <3> SUFFICES ASSUME NEW i \in DOMAIN r, r[i] = "150", r[1] # "150" PROVE Has(t, "150")
      BY DEF Has
    <3>1. i - 1 \in DOMAIN t /\ t[i - 1] = r[i]
      BY <1>2
    <3> QED BY <3>1 DEF Has
  <2> QED BY <1>5, <2>1, <2>2 DEF Extra
<1>6. a \in Early => Len(o) = 0 /\ (Len(t) = 0 \/ (a = "TYPE_A" /\ Len(t) = 1 /\ t[1] # "other"))
  <2> SUFFICES ASSUME a \in Early PROVE Len(o) = 0 /\ (Len(t) = 0 \/
          (a = "TYPE_A" /\ Len(t) = 1 /\ t[1] # "other"))
    OBVIOUS
  <2>1. CASE Len(o) + Len(r) <= 1
    BY <2>1, <1>1, <1>2
  <2>2. CASE Len(o) = 0 /\ Len(r) = 2 /\ r[1] = "other" /\ r[2] # "other"
    <3>1. a = "TYPE_A"
      BY <1>5, <2>2 DEF Early
    <3>2. Len(t) = 1 /\ t[1] = r[2]
      BY <2>2, <1>2
    <3> QED BY <2>2, <3>1, <3>2
  <2> QED BY <2>1, <2>2, <1>3, <1>4 DEF EarlyPace
<1>7. EarlyPace(b, w, o, t, g)
  <2>1. b \in Early => a \in {"greeting", "USER", "PASS"}
    BY DEF Early, Follows, Transfers
  <2>2. b \in Early => Len(o) = 0 /\ Len(t) = 0 /\ Due(b, w) = 0
    BY <2>1, <1>4, <1>6 DEF Early, Transfers
  <2> QED BY <2>2 DEF EarlyPace
<1>8. BinaryPace(b, w, o, t, g)
  <2>1. b = "TYPE_I" => a \in {"PASS", "TYPE_A"}
    BY DEF Follows, Transfers
  <2>2. b = "TYPE_I" => Len(o) = 0 /\ (Len(t) = 0 \/ t[1] # "other") /\ Due(b, w) = 0
    BY <2>1, <1>4, <1>6 DEF Early, Transfers
  <2> QED BY <2>2 DEF BinaryPace
<1>9. LaterPace(b, w, o, t)
  <2> DEFINE most == 2 + Extra(r)
             less == Due(b, w) + 1 + Extra(t)
  <2>0. most \in Nat /\ less \in Nat /\ less >= 1
    BY <1>4, <1>h
  <2>1. CASE a \in Early
    <3>a. Len(o) = 0 /\ (Len(t) = 0 \/ Len(t) = 1)
      BY <1>6, <2>1
    <3>1. Len(o) + Len(t) <= 1
      <4>1. 0 + 0 <= 1 /\ 0 + 1 <= 1
        OBVIOUS
      <4> QED BY <3>a, <4>1
    <3> HIDE DEF less
    <3>2. Len(o) + Len(t) <= less
      BY <3>1, <2>0, <1>1, <1>2
    <3> QED BY <3>2 DEF LaterPace, less
  <2>2. CASE a = "TYPE_I" /\ r[1] = "other"
    <3>1. Len(o) = 0 /\ Len(r) <= 2
      BY <2>2, <1>3, <1>2 DEF BinaryPace
    <3> HIDE DEF less
    <3>2. Len(o) + Len(t) <= less
      BY <3>1, <2>0, <1>1, <1>2
    <3> QED BY <3>2 DEF LaterPace, less
  <2>3. CASE a = "QUIT"
    BY <2>3 DEF LaterPace, Follows, Transfers
  <2>4. CASE a \notin Early \cup {"QUIT"} /\ ~ (a = "TYPE_I" /\ r[1] = "other")
    <3>1. r[1] # "other" /\ a # "end"
      BY <2>4, <1>5 DEF Early, Commands
    <3>2. less >= most - 1
      <4>1. CASE a \in Transfers
        BY <4>1, <1>4, <1>h
      <4>2. CASE a \notin Transfers
        BY <4>2, <2>4, <1>4, <1>h
      <4> QED BY <4>1, <4>2
    <3>3. Len(o) + Len(r) <= most \/ \E i \in DOMAIN r : r[i] = "other" /\ Len(o) + i <= most
      <4>0. Extra(r) \in Nat /\ \A x \in Nat : 1 + 1 + x = 2 + x
        BY <1>h
      <4>1. Due(a, v) + 1 + Extra(r) = most
        BY <1>4, <4>0
      <4> HIDE DEF most
      <4> QED BY <4>1, <1>3, <3>1 DEF LaterPace
    <3> HIDE DEF most, less
    <3>4. CASE Len(o) + Len(r) <= most
      <4>1. Len(o) + Len(t) <= less
        BY <3>4, <3>2, <2>0, <1>1, <1>2
      <4> QED BY <4>1 DEF LaterPace, less
    <3>5. ASSUME NEW i \in DOMAIN r, r[i] = "other", Len(o) + i <= most
          PROVE  LaterPace(b, w, o, t)
      <4>1. i - 1 \in DOMAIN t /\ t[i - 1] = r[i]
        BY <3>5, <3>1, <1>2
      <4>2. Len(o) + (i - 1) <= less
        BY <3>5, <3>2, <2>0, <1>1, <1>2
      <4> QED BY <4>1, <4>2, <3>5 DEF LaterPace, less
    <3> QED BY <3>3, <3>4, <3>5
  <2> QED BY <2>1, <2>2, <2>3, <2>4
<1>10. Once(b, w, o, t)
  <2>1. a \in Transfers => Untransferred(o)
    BY <1>2, <1>3, <1>5 DEF Once, Has
  <2>2. a \notin Transfers \cup {"transfer", "QUIT"} => Untransferred(o) /\ ~ Has(r, "150")
    BY <1>3 DEF Once, Commands, Early, Transfers
  <2>3. a \in {"transfer", "QUIT"} => Untransferred(o)
    BY <1>3 DEF Once
  <2>4. Untransferred(o)
    BY <2>1, <2>2, <2>3
  <2>5. b \in Early \cup {"TYPE_I", "PASV", "PORT"} \cup Transfers => a \notin Transfers \cup
          {"transfer", "QUIT"}
    BY DEF Follows, Early, Transfers
  <2>6. b \in Early \cup {"TYPE_I", "PASV", "PORT"} \cup Transfers => ~ Has(t, "150")
    BY <2>2, <2>5, <1>h
  <2> QED BY <2>4, <2>6, <1>3 DEF Once
<1> QED BY <1>s, <1>0, <1>a, <1>7, <1>8, <1>9, <1>10 DEF Pace, CommandSeqs, ReplySeqs, t

LEMMA PaceHeedNothing ==
    ASSUME NEW a \in Commands, NEW b, Follows(a, b), NEW v, NEW w, NEW o, NEW r, NEW g,
           Pace(a, v, o, r, g), Len(r) = 0, Held(w, a), g = TRUE, ~ Ftp!Required(a)
    PROVE  Pace(b, w, o, r, g)
<1>s. o \in Seq(Commands) /\ r \in Seq(Replies)
  BY DEF Pace, CommandSeqs, ReplySeqs
<1>0. g \in BOOLEAN /\ Len(o) <= 2 /\ w \in BOOLEAN
  BY DEF Pace, Held
<1>1. a \in {"TYPE_A", "TYPE_I", "QUIT"}
  BY Codes
<1>2. a # "QUIT" => Len(o) = 0
  BY <1>1 DEF Pace, EarlyPace, BinaryPace, Early
<1>3. DOMAIN r = {} /\ ~ Has(r, "150")
  <2>1. DOMAIN r = 1 .. Len(r)
    BY <1>s, LenProperties
  <2> QED BY <2>1 DEF Has
<1>4. b \in {"TYPE_I", "PASV", "PORT", "end"} /\ (b = "end" <=> a = "QUIT") /\ a \notin Transfers
  BY <1>1 DEF Follows, Transfers
<1>5. Due(b, w) = 0
  BY <1>4 DEF Due, Held
<1>6. Untransferred(o)
  BY <1>1 DEF Pace, Once, Early
<1>7. Once(b, w, o, r)
  <2>1. \A i, j \in DOMAIN o : o[i] \in Transfers /\ o[j] \in Transfers => i = j
    BY <1>6 DEF Untransferred
  <2> QED BY <1>3, <1>6, <2>1 DEF Once
<1>8. LaterPace(b, w, o, r)
  BY <1>2, <1>3, <1>4, <1>5 DEF LaterPace, Extra
<1>9. EarlyPace(b, w, o, r, g) /\ BinaryPace(b, w, o, r, g)
  BY <1>2, <1>4, <1>5 DEF EarlyPace, BinaryPace, Early
<1> QED BY <1>s, <1>0, <1>7, <1>8, <1>9 DEF Pace, CommandSeqs, ReplySeqs

\* What an answer makes of the commands that are owed, and of the replies.
Answered(o, o2, x) ==
    /\ Len(o) \in Nat \ {0} /\ DOMAIN o = 1 .. Len(o) /\ x = o[1]
    /\ \/ /\ x \in Transfers /\ Len(o2) = Len(o) /\ DOMAIN o2 = 1 .. Len(o) /\ o2[1] = "transfer"
          /\ \A i \in 2 .. Len(o) : o2[i] = o[i]
       \/ /\ x \notin Transfers /\ Len(o2) = Len(o) - 1 /\ DOMAIN o2 = 1 .. Len(o) - 1
          /\ \A i \in 1 .. Len(o) - 1 : o2[i] = o[i + 1]
Noted(r, r2, code) ==
    /\ Len(r) \in Nat /\ DOMAIN r = 1 .. Len(r)
    /\ \A i \in 1 .. Len(r) : r2[i] = r[i]
    /\ \/ Len(r2) = Len(r) + 1 /\ DOMAIN r2 = 1 .. Len(r) + 1 /\ r2[Len(r) + 1] = code
       \/ /\ Len(r2) = Len(r) + 2 /\ DOMAIN r2 = 1 .. Len(r) + 2
          /\ r2[Len(r) + 1] = "other" /\ r2[Len(r) + 2] = code
CodeFor(x, code) == code # "other" /\ (code = "150" <=> x \in Transfers)

LEMMA PaceOfAnswer ==
    ASSUME NEW a, NEW w, NEW o, NEW r, NEW g, NEW o2, NEW r2, NEW x, NEW code,
           Pace(a, w, o, r, g), Answered(o, o2, x), Noted(r, r2, code), CodeFor(x, code)
    PROVE  /\ EarlyPace(a, w, o2, r2, g) /\ BinaryPace(a, w, o2, r2, g)
           /\ LaterPace(a, w, o2, r2) /\ Once(a, w, o2, r2) /\ Len(o2) <= 2
<1>f. "transfer" \notin Transfers
  BY DEF Transfers
<1>c. code # "other" /\ (code = "150" <=> x \in Transfers) /\ x = o[1]
  BY DEF CodeFor, Answered
<1>1. /\ Len(o) \in Nat \ {0} /\ DOMAIN o = 1 .. Len(o) /\ Len(r) \in Nat /\ DOMAIN r = 1 .. Len(r)
  BY DEF Answered, Noted
<1>2. \/ /\ x \in Transfers /\ Len(o2) = Len(o) /\ DOMAIN o2 = 1 .. Len(o) /\ o2[1] = "transfer"
         /\ \A i \in 2 .. Len(o) : o2[i] = o[i]
      \/ /\ x \notin Transfers /\ Len(o2) = Len(o) - 1 /\ DOMAIN o2 = 1 .. Len(o) - 1
         /\ \A i \in 1 .. Len(o) - 1 : o2[i] = o[i + 1]
  BY DEF Answered
<1>3. /\ \A i \in 1 .. Len(r) : r2[i] = r[i]
      /\ \/ Len(r2) = Len(r) + 1 /\ DOMAIN r2 = 1 .. Len(r) + 1 /\ r2[Len(r) + 1] = code
         \/ /\ Len(r2) = Len(r) + 2 /\ DOMAIN r2 = 1 .. Len(r) + 2
            /\ r2[Len(r) + 1] = "other" /\ r2[Len(r) + 2] = code
  BY DEF Noted
<1>m. /\ (x \in Transfers => Len(o2) = Len(o)) /\ (x \notin Transfers => Len(o2) = Len(o) - 1) /\
          DOMAIN o2 = 1 .. Len(o2)
      /\ Len(r2) \in {Len(r) + 1, Len(r) + 2} /\ DOMAIN r2 = 1 .. Len(r2)
  BY <1>2, <1>3
<1>n. /\ \A i \in DOMAIN o2 : x \notin Transfers => i \in Int /\ i + 1 \in DOMAIN o /\ o2[i] = o[i + 1]
      /\ \A i \in DOMAIN o2 : x \in Transfers => i \in DOMAIN o /\ (i # 1 => o2[i] = o[i])
      /\ x \in Transfers => o2[1] = "transfer"
  <2>1. CASE x \in Transfers
    <3>1. \A i \in DOMAIN o2 : i # 1 => i \in 2 .. Len(o)
      <4>1. DOMAIN o2 = 1 .. Len(o)
        BY <2>1, <1>m
      <4> QED BY <4>1, <1>1
    <3>2. \A i \in 2 .. Len(o) : o2[i] = o[i]
      BY <2>1, <1>2
    <3>3. DOMAIN o2 = DOMAIN o
      BY <2>1, <1>m, <1>1
    <3> QED BY <2>1, <3>1, <3>2, <3>3, <1>2
  <2>2. CASE x \notin Transfers
    <3>1. \A i \in DOMAIN o2 : i \in 1 .. Len(o) - 1 /\ i \in Int /\ i + 1 \in DOMAIN o
      <4>1. DOMAIN o2 = 1 .. Len(o) - 1
        BY <2>2, <1>m
      <4> QED BY <4>1, <1>1
    <3>2. \A i \in 1 .. Len(o) - 1 : o2[i] = o[i + 1]
      BY <2>2, <1>2
    <3> QED BY <2>2, <3>1, <3>2
  <2> QED BY <2>1, <2>2
<1>4. /\ EarlyPace(a, w, o, r, g) /\ BinaryPace(a, w, o, r, g)
      /\ LaterPace(a, w, o, r) /\ Once(a, w, o, r) /\ Len(o) <= 2 /\ w \in BOOLEAN /\ g \in BOOLEAN
  BY DEF Pace
<1>5. Due(a, w) \in {0, 1}
  BY DEF Due
<1>u. Untransferred(o) => x \notin Transfers /\ code # "150"
  BY <1>1, <1>c DEF Untransferred
<1>6. EarlyPace(a, w, o2, r2, g)
  <2> SUFFICES ASSUME a \in Early PROVE EarlyPace(a, w, o2, r2, g)
    BY DEF EarlyPace
  <2>1. x \notin Transfers
    BY <1>4, <1>u DEF Once
  <2>2. ~ g /\ Len(o) + Len(r) <= Due(a, w)
    BY <1>4, <1>1 DEF EarlyPace
  <2>3. Len(o) = 1 /\ Len(r) = 0 /\ Due(a, w) = 1 /\ Len(o2) = 0
    <3>1. Len(o2) = Len(o) - 1
      BY <2>1, <1>m
    <3> QED BY <2>2, <3>1, <1>1, <1>5
  <2>4. Len(r2) = 1 \/ (Len(r2) = 2 /\ r2[1] = "other" /\ r2[2] = code)
    BY <2>3, <1>3
  <2> QED BY <2>2, <2>3, <2>4, <1>c DEF EarlyPace
<1>7. BinaryPace(a, w, o2, r2, g)
  <2> SUFFICES ASSUME a = "TYPE_I" PROVE BinaryPace(a, w, o2, r2, g)
    BY DEF BinaryPace
  <2>1. x \notin Transfers
    BY <1>4, <1>u DEF Once
  <2>2. ~ g /\ Len(o) <= Due(a, w)
    BY <1>4, <1>1 DEF BinaryPace
  <2>3. Len(o) = 1 /\ Due(a, w) = 1 /\ Len(o2) = 0
    <3>1. Len(o2) = Len(o) - 1
      BY <2>1, <1>m
    <3> QED BY <2>2, <3>1, <1>1, <1>5
  <2>4. CASE Len(r) = 0
    <3>1. Len(r2) <= 2
      BY <2>4, <1>m
    <3> QED BY <2>2, <2>3, <3>1 DEF BinaryPace
  <2>5. CASE Len(r) > 0
    <3>1. r2[1] = r[1] /\ r[1] # "other"
      BY <2>5, <2>3, <1>4, <1>1, <1>3 DEF BinaryPace
    <3> QED BY <2>2, <2>3, <3>1 DEF BinaryPace
  <2> QED BY <2>4, <2>5, <1>1
<1>e. /\ Extra(r) \in {0, 1} /\ Extra(r2) \in {0, 1} /\ Extra(r2) >= Extra(r)
      /\ x \in Transfers => Extra(r) = 0 /\ Extra(r2) = 1
  <2>1. Has(r, "150") => Has(r2, "150")
    <3>1. \A i \in DOMAIN r : i \in DOMAIN r2 /\ r2[i] = r[i]
      BY <1>1, <1>3
    <3> QED BY <3>1 DEF Has
  <2>2. x \in Transfers => ~ Has(r, "150")
    BY <1>4, <1>u DEF Once
  <2>3. code = "150" => Has(r2, "150")
    <3>1. \E i \in DOMAIN r2 : r2[i] = code
      BY <1>1, <1>3
    <3> QED BY <3>1 DEF Has
  <2> QED BY <2>1, <2>2, <2>3, <1>c DEF Extra
<1>8. LaterPace(a, w, o2, r2)
  <2> SUFFICES ASSUME a # "end" PROVE LaterPace(a, w, o2, r2)
    BY DEF LaterPace
  <2> DEFINE most == Due(a, w) + 1 + Extra(r)
             more == Due(a, w) + 1 + Extra(r2)
  <2>0. most \in Nat /\ more \in Nat
    BY <1>5, <1>e
  <2>1. Len(o2) \in Nat /\ Len(o2) + 1 + most <= Len(o) + more
    <3>1. CASE x \in Transfers
      <4>1. Len(o2) = Len(o) /\ Extra(r) = 0 /\ Extra(r2) = 1
        BY <3>1, <1>m, <1>e
      <4> QED BY <4>1, <1>1, <1>5
    <3>2. CASE x \notin Transfers
      <4>1. Len(o2) = Len(o) - 1 /\ Extra(r2) >= Extra(r) /\ Extra(r) \in {0, 1} /\ Extra(r2) \in {0, 1}
        BY <3>2, <1>m, <1>e
      <4> QED BY <4>1, <1>1, <1>5
    <3> QED BY <3>1, <3>2
  <2>2. Len(o) + Len(r) <= most \/ \E i \in DOMAIN r : r[i] = "other" /\ Len(o) + i <= most
    BY <1>4 DEF LaterPace
  <2> HIDE DEF most, more
  <2>3. CASE Len(o) + Len(r) <= most
    <3>1. Len(o2) + (Len(r) + 1) <= more
      BY <2>0, <2>1, <2>3, <1>1
    <3>2. CASE Len(r2) = Len(r) + 1
      <4>1. Len(o2) + Len(r2) <= more
        BY <3>1, <3>2
      <4> QED BY <4>1 DEF LaterPace, more
    <3>3. CASE r2[Len(r) + 1] = "other" /\ Len(r) + 1 \in DOMAIN r2
      BY <3>1, <3>3 DEF LaterPace, more
    <3> QED BY <3>2, <3>3, <1>3, <1>1
  <2>4. ASSUME NEW i \in DOMAIN r, r[i] = "other", Len(o) + i <= most
        PROVE  LaterPace(a, w, o2, r2)
    <3>1. i \in DOMAIN r2 /\ r2[i] = "other"
      BY <2>4, <1>1, <1>3
    <3>2. Len(o2) + i <= more
      BY <2>4, <2>0, <2>1, <1>1
    <3> QED BY <3>1, <3>2 DEF LaterPace, more
  <2> QED BY <2>2, <2>3, <2>4
<1>9. Once(a, w, o2, r2) /\ Len(o2) <= 2
  <2>1. Untransferred(o) => Untransferred(o2)
    BY <1>u, <1>n DEF Untransferred
  <2>2. code # "150" /\ ~ Has(r, "150") => ~ Has(r2, "150")
    <3>1. \A i \in DOMAIN r2 : (i \in DOMAIN r /\ r2[i] = r[i]) \/ r2[i] = code \/ r2[i] = "other"
      BY <1>1, <1>3
    <3> QED BY <3>1 DEF Has
  <2>3. x \in Transfers => Untransferred(o2)
    <3> SUFFICES ASSUME x \in Transfers PROVE Untransferred(o2)
      OBVIOUS
    <3>1. \A i \in DOMAIN o : i # 1 => o[i] \notin Transfers
      BY <1>4, <1>c, <1>1 DEF Once
    <3>2. \A i \in DOMAIN o2 : i = 1 \/ (i \in DOMAIN o /\ o2[i] = o[i])
      BY <1>n
    <3> QED BY <3>1, <3>2, <1>n, <1>f DEF Untransferred
  <2>4. \A i, j \in DOMAIN o2 : o2[i] \in Transfers /\ o2[j] \in Transfers => i = j
    <3>1. CASE x \in Transfers
      BY <2>3, <3>1 DEF Untransferred
    <3>2. CASE x \notin Transfers
      <4>1. \A i \in DOMAIN o2 : i \in Int /\ i + 1 \in DOMAIN o /\ o2[i] = o[i + 1]
        BY <1>n, <3>2
      <4>2. \A i, j \in DOMAIN o2 : o2[i] \in Transfers /\ o2[j] \in Transfers => i + 1 = j + 1
        BY <4>1, <1>4 DEF Once
      <4> QED BY <4>1, <4>2
    <3> QED BY <3>1, <3>2
  <2>5. Len(o2) <= 2
    <3>1. Len(o) <= 2 /\ Len(o) \in Nat
      BY <1>1, <1>4
    <3>2. CASE x \in Transfers
      BY <3>1, <3>2, <1>m
    <3>3. CASE x \notin Transfers
      <4>1. Len(o2) = Len(o) - 1
        BY <3>3, <1>m
      <4> QED BY <3>1, <4>1
    <3> QED BY <3>2, <3>3
  <2> QED BY <2>1, <2>2, <2>3, <2>4, <2>5, <1>4, <1>u, <1>c DEF Once
<1> QED BY <1>6, <1>7, <1>8, <1>9

LEMMA PaceAnswer ==
    ASSUME NEW a, NEW w, NEW o, NEW r, NEW g, Pace(a, w, o, r, g), Len(o) > 0, NEW o2, NEW r2,
           \/ /\ Head(o) \in Transfers /\ o2 = <<"transfer">> \o Tail(o)
           \/ /\ Head(o) \notin Transfers /\ o2 = <<>> \o Tail(o),
           \/ r2 = Append(r, Ftp!CodeOf(Head(o)))
           \/ r2 = r \o <<"other", Ftp!CodeOf(Head(o))>>
    PROVE  Pace(a, w, o2, r2, g)
<1> DEFINE x == Head(o)
           code == Ftp!CodeOf(x)
<1>s. o \in Seq(Commands) /\ r \in Seq(Replies) /\ o # <<>>
  <2>1. o = <<>> => Len(o) = 0
    OBVIOUS
  <2> QED BY <2>1 DEF Pace, CommandSeqs, ReplySeqs
<1>t. /\ Tail(o) \in Seq(Commands) /\ Len(Tail(o)) = Len(o) - 1 /\ Len(o) \in Nat \ {0}
      /\ DOMAIN o = 1 .. Len(o) /\ DOMAIN Tail(o) = 1 .. Len(o) - 1
      /\ \A i \in 1 .. Len(o) - 1 : Tail(o)[i] = o[i + 1]
      /\ Head(o) = o[1] /\ o[1] \in Commands
  BY <1>s, Tailed
<1>c. /\ x \in Commands /\ x = o[1] /\ code \in Replies /\ code # "other" /\ (code = "150" <=> x \in Transfers)
  BY <1>t, Codes
<1>f. "transfer" \in Commands /\ "transfer" \notin Transfers /\ "other" \in Replies
  BY DEF Commands, Replies, Transfers
<1> HIDE DEF x, code
<1>o. /\ o2 \in Seq(Commands)
      /\ \/ /\ x \in Transfers /\ Len(o2) = Len(o) /\ DOMAIN o2 = 1 .. Len(o) /\ o2[1] = "transfer"
            /\ \A i \in 2 .. Len(o) : o2[i] = o[i]
         \/ /\ x \notin Transfers /\ Len(o2) = Len(o) - 1 /\ DOMAIN o2 = 1 .. Len(o) - 1
            /\ \A i \in 1 .. Len(o) - 1 : o2[i] = o[i + 1]
  <2>1. CASE x \in Transfers
    <3>1. o2 = <<"transfer">> \o Tail(o)
      BY <2>1 DEF x
    <3>2. \A e \in Commands : <<e>> \o Tail(o) \in Seq(Commands) /\ Len(<<e>> \o Tail(o)) = Len(o)
             /\ DOMAIN (<<e>> \o Tail(o)) = 1 .. Len(o) /\ (<<e>> \o Tail(o))[1] = e
             /\ \A i \in 2 .. Len(o) : (<<e>> \o Tail(o))[i] = o[i]
      BY <1>s, Fronted
    <3> QED BY <2>1, <3>1, <3>2, <1>f
  <2>2. CASE x \notin Transfers
    <3>1. o2 = <<>> \o Tail(o)
      BY <2>2 DEF x
    <3>2. o2 = Tail(o)
      BY <3>1, <1>s, <1>f, Fronted
    <3> QED BY <2>2, <3>2, <1>t
  <2> QED BY <2>1, <2>2
<1>r. /\ r2 \in Seq(Replies) /\ Len(r) \in Nat /\ DOMAIN r = 1 .. Len(r)
      /\ \A i \in 1 .. Len(r) : r2[i] = r[i]
      /\ \/ Len(r2) = Len(r) + 1 /\ DOMAIN r2 = 1 .. Len(r) + 1 /\ r2[Len(r) + 1] = code
         \/ /\ Len(r2) = Len(r) + 2 /\ DOMAIN r2 = 1 .. Len(r) + 2
            /\ r2[Len(r) + 1] = "other" /\ r2[Len(r) + 2] = code
  <2>1. CASE r2 = Append(r, code)
    <3>1. \A e \in Replies : /\ Append(r, e) \in Seq(Replies) /\ Len(Append(r, e)) = Len(r) + 1
             /\ Append(r, e)[Len(r) + 1] = e /\ \A i \in 1 .. Len(r) : Append(r, e)[i] = r[i]
             /\ Len(r) \in Nat /\ DOMAIN r = 1 .. Len(r) /\ DOMAIN Append(r, e) = 1 .. Len(r) + 1
      BY <1>s, Appended
    <3> QED BY <2>1, <3>1, <1>c
  <2>2. CASE r2 = r \o <<"other", code>>
    <3>1. \A c, d \in Replies : /\ r \o <<c, d>> \in Seq(Replies) /\ Len(r \o <<c, d>>) = Len(r) + 2 /\
                                    Len(r) \in Nat
             /\ DOMAIN r = 1 .. Len(r) /\ DOMAIN (r \o <<c, d>>) = 1 .. Len(r) + 2
             /\ (r \o <<c, d>>)[Len(r) + 1] = c /\ (r \o <<c, d>>)[Len(r) + 2] = d
             /\ \A i \in 1 .. Len(r) : (r \o <<c, d>>)[i] = r[i]
      BY <1>s, Lengthened
    <3> QED BY <2>2, <3>1, <1>c, <1>f
  <2> QED BY <2>1, <2>2 DEF x, code
<1>1. /\ Len(o) \in Nat \ {0} /\ DOMAIN o = 1 .. Len(o) /\ Len(r) \in Nat /\ DOMAIN r = 1 .. Len(r)
  BY <1>t, <1>r
<1>4. /\ EarlyPace(a, w, o, r, g) /\ BinaryPace(a, w, o, r, g)
      /\ LaterPace(a, w, o, r) /\ Once(a, w, o, r) /\ Len(o) <= 2 /\ w \in BOOLEAN /\ g \in BOOLEAN
  BY DEF Pace
<1>5. /\ EarlyPace(a, w, o2, r2, g) /\ BinaryPace(a, w, o2, r2, g)
      /\ LaterPace(a, w, o2, r2) /\ Once(a, w, o2, r2) /\ Len(o2) <= 2
  <2>1. Answered(o, o2, x)
    BY <1>1, <1>c, <1>o DEF Answered
  <2>2. Noted(r, r2, code)
    BY <1>r DEF Noted
  <2>3. CodeFor(x, code)
    BY <1>c DEF CodeFor
  <2> QED BY <2>1, <2>2, <2>3, PaceOfAnswer
<1> QED BY <1>o, <1>r, <1>4, <1>5 DEF Pace, CommandSeqs, ReplySeqs

LEMMA PaceRefuse ==
    ASSUME NEW a, NEW w, NEW o, NEW r, NEW g, Pace(a, w, o, r, g), Len(o) > 0, NEW r2, NEW g2,
           \/ r2 = Append(r, "other") /\ g2 = g
           \/ r2 = r /\ g2 = TRUE
    PROVE  Pace(a, w, Tail(o), r2, g2)
<1> DEFINE o2 == Tail(o)
<1>s. o \in Seq(Commands) /\ r \in Seq(Replies) /\ o # <<>>
  <2>1. o = <<>> => Len(o) = 0
    OBVIOUS
  <2> QED BY <2>1 DEF Pace, CommandSeqs, ReplySeqs
<1>t. /\ o2 \in Seq(Commands) /\ Len(o2) = Len(o) - 1 /\ Len(o) \in Nat \ {0}
      /\ DOMAIN o = 1 .. Len(o) /\ DOMAIN o2 = 1 .. Len(o) - 1
      /\ \A i \in 1 .. Len(o) - 1 : o2[i] = o[i + 1]
  BY <1>s, Tailed
<1> HIDE DEF o2
<1>f. "other" \in Replies
  BY DEF Replies
<1>r. /\ r2 \in Seq(Replies) /\ Len(r) \in Nat /\ DOMAIN r = 1 .. Len(r) /\ g2 \in BOOLEAN
      /\ \A i \in 1 .. Len(r) : r2[i] = r[i]
      /\ \/ Len(r2) = Len(r) + 1 /\ DOMAIN r2 = 1 .. Len(r) + 1 /\ r2[Len(r) + 1] = "other" /\ g2 = g
         \/ Len(r2) = Len(r) /\ DOMAIN r2 = 1 .. Len(r)
  <2>1. \A e \in Replies : /\ Append(r, e) \in Seq(Replies) /\ Len(Append(r, e)) = Len(r) + 1
           /\ Append(r, e)[Len(r) + 1] = e /\ \A i \in 1 .. Len(r) : Append(r, e)[i] = r[i]
           /\ Len(r) \in Nat /\ DOMAIN r = 1 .. Len(r) /\ DOMAIN Append(r, e) = 1 .. Len(r) + 1
    BY <1>s, Appended
  <2>2. g \in BOOLEAN
    BY DEF Pace
  <2>3. CASE r2 = Append(r, "other") /\ g2 = g
    BY <2>1, <2>2, <2>3, <1>f
  <2>4. CASE r2 = r /\ g2 = TRUE
    <3>1. Len(r) \in Nat /\ DOMAIN r = 1 .. Len(r)
      BY <2>1, <1>f
    <3> QED BY <2>4, <3>1, <1>s
  <2> QED BY <2>3, <2>4
<1>1. /\ Len(o) \in Nat \ {0} /\ DOMAIN o = 1 .. Len(o) /\ Len(r) \in Nat /\ DOMAIN r = 1 .. Len(r)
      /\ Len(o2) = Len(o) - 1 /\ DOMAIN o2 = 1 .. Len(o) - 1 /\ \A i \in 1 .. Len(o) - 1 : o2[i] = o[i + 1]
  BY <1>t, <1>r
<1>2. /\ \A i \in 1 .. Len(r) : r2[i] = r[i]
      /\ \/ Len(r2) = Len(r) + 1 /\ DOMAIN r2 = 1 .. Len(r) + 1 /\ r2[Len(r) + 1] = "other" /\ g2 = g
         \/ Len(r2) = Len(r) /\ DOMAIN r2 = 1 .. Len(r)
  BY <1>r
<1>3. /\ EarlyPace(a, w, o, r, g) /\ BinaryPace(a, w, o, r, g)
      /\ LaterPace(a, w, o, r) /\ Once(a, w, o, r) /\ Len(o) <= 2 /\ w \in BOOLEAN
  BY DEF Pace
<1>4. Due(a, w) \in {0, 1}
  BY DEF Due
<1>5. EarlyPace(a, w, o2, r2, g2)
  <2> SUFFICES ASSUME a \in Early PROVE EarlyPace(a, w, o2, r2, g2)
    BY DEF EarlyPace
  <2>1. Len(o) + Len(r) <= Due(a, w)
    BY <1>3, <1>1 DEF EarlyPace
  <2>2. Len(o2) = 0 /\ Len(o2) + Len(r2) <= Due(a, w)
    BY <2>1, <1>1, <1>2, <1>4
  <2> QED BY <2>2 DEF EarlyPace
<1>6. BinaryPace(a, w, o2, r2, g2)
  <2> SUFFICES ASSUME a = "TYPE_I" PROVE BinaryPace(a, w, o2, r2, g2)
    BY DEF BinaryPace
  <2>2. Len(o) <= Due(a, w)
    BY <1>3, <1>1 DEF BinaryPace
  <2>3. Len(o) = 1 /\ Due(a, w) = 1 /\ Len(o2) = 0
    BY <2>2, <1>1, <1>4
  <2>4. CASE Len(r) = 0
    <3>1. Len(r2) <= 2
      BY <2>4, <1>2
    <3> QED BY <2>3, <3>1 DEF BinaryPace
  <2>5. CASE Len(r) > 0
    <3>1. r2[1] = r[1] /\ r[1] # "other"
      BY <2>5, <2>3, <1>3, <1>1, <1>2 DEF BinaryPace
    <3> QED BY <2>3, <3>1 DEF BinaryPace
  <2> QED BY <2>4, <2>5, <1>1
<1>h. Has(r2, "150") <=> Has(r, "150")
  <2>1. \A i \in DOMAIN r2 : (i \in DOMAIN r /\ r2[i] = r[i]) \/ r2[i] = "other"
    BY <1>1, <1>2
  <2>2. \A i \in DOMAIN r : i \in DOMAIN r2 /\ r2[i] = r[i]
    BY <1>1, <1>2
  <2> QED BY <2>1, <2>2 DEF Has
<1>7. LaterPace(a, w, o2, r2)
  <2> SUFFICES ASSUME a # "end" PROVE LaterPace(a, w, o2, r2)
    BY DEF LaterPace
  <2> DEFINE most == Due(a, w) + 1 + Extra(r)
  <2>0. most \in Nat /\ Extra(r2) = Extra(r)
    BY <1>4, <1>h DEF Extra
  <2>2. Len(o) + Len(r) <= most \/ \E i \in DOMAIN r : r[i] = "other" /\ Len(o) + i <= most
    BY <1>3 DEF LaterPace
  <2>5. Due(a, w) + 1 + Extra(r2) = most
    BY <2>0
  <2> HIDE DEF most
  <2>3. CASE Len(o) + Len(r) <= most
    <3>1. Len(o2) + Len(r2) <= most
      BY <2>0, <2>3, <1>1, <1>2
    <3> QED BY <3>1, <2>5 DEF LaterPace
  <2>4. ASSUME NEW i \in DOMAIN r, r[i] = "other", Len(o) + i <= most
        PROVE  LaterPace(a, w, o2, r2)
    <3>1. i \in DOMAIN r2 /\ r2[i] = "other"
      BY <2>4, <1>1, <1>2
    <3>2. Len(o2) + i <= most
      BY <2>4, <2>0, <1>1
    <3> QED BY <3>1, <3>2, <2>5 DEF LaterPace
  <2> QED BY <2>2, <2>3, <2>4
<1>8. Once(a, w, o2, r2) /\ Len(o2) <= 2
  <2>1. \A i \in DOMAIN o2 : i \in Int /\ i + 1 \in DOMAIN o /\ o2[i] = o[i + 1]
    BY <1>1
  <2>2. \A i, j \in DOMAIN o2 : o2[i] \in Transfers /\ o2[j] \in Transfers => i + 1 = j + 1
    BY <2>1, <1>3 DEF Once
  <2>3. \A i, j \in DOMAIN o2 : o2[i] \in Transfers /\ o2[j] \in Transfers => i = j
    BY <2>1, <2>2
  <2>4. Untransferred(o) => Untransferred(o2)
    BY <2>1 DEF Untransferred
  <2>5. Len(o2) <= 2
    BY <1>1, <1>3
  <2> QED BY <2>3, <2>4, <2>5, <1>h, <1>3 DEF Once
<1> QED BY <1>t, <1>r, <1>3, <1>5, <1>6, <1>7, <1>8 DEF Pace, CommandSeqs, ReplySeqs, o2
-----------------------------------------------------------------------------
(* The state of both sides. *)

Words == Commands \cup {"connect", "message", "tell", "end", "open", "listen", "accept", "send", "link",
    "receive"}

FtpTyped ==
    /\ step \in [Ftp!Side -> Words]
    /\ waiting \in [Ftp!Side -> BOOLEAN] /\ gone \in [Ftp!Side -> BOOLEAN]
    /\ owed \in [Ftp!Side -> CommandSeqs] /\ replies \in [Ftp!Side -> ReplySeqs]
    /\ bVerbose \in BOOLEAN /\ listening \in BOOLEAN /\ linked \in BOOLEAN /\ closed \in BOOLEAN /\
        fault \in BOOLEAN
    /\ blocks \in Nat /\ uploaded \in Nat /\ downloaded \in Nat

(* Where the thread of a server, and that of a local file, can be. *)
AtPlaces ==
    /\ \A s \in Ftp!Side : place[s] = "server" =>
          /\ step[s] \in Commands \cup {"connect", "message", "tell", "end"}
          /\ waiting[s] => step[s] \in Commands
    /\ \A s \in Ftp!Side : place[s] = "local" => ~ waiting[s] /\ owed[s] = <<>> /\ replies[s] = <<>>
    /\ place["source"] = "local" => step["source"] \in {"open", "listen", "tell", "accept", "send", "end"}
    /\ place["target"] = "local" => step["target"] \in {"open", "link", "receive", "end"}
    /\ step["target"] # "PASV"
    /\ \A s \in Ftp!Side : step[s] = "connect" => ~ gone[s] /\ ~ waiting[s]

Paced == \A s \in Ftp!Side : place[s] = "server" => Pace(step[s], waiting[s], owed[s], replies[s], gone[s])

(* What a side knows of the data. *)
Transferred(s) == closed /\ uploaded = blocks /\ (s = "target" => downloaded = uploaded)
Knows ==
    /\ \A s \in Ftp!Side : place[s] = "server" /\ (step[s] \in {"QUIT", "end"} \/
        Has(replies[s], "226")) => Transferred(s)
    /\ place["source"] = "local" =>
          /\ closed <=> step["source"] = "end"
          /\ step["source"] = "end" => uploaded = blocks
          /\ step["source"] = "send" => linked
    /\ place["target"] = "local" /\ step["target"] = "end" => closed /\ downloaded = uploaded

(* Who has told whom. *)
Told ==
    /\ hTargetAddr /\ place["target"] = "server" => step["target"] \notin {"connect", "message", "tell"}
    /\ place["source"] = "local" /\ step["source"] \in {"open", "listen", "tell"} => hSourcePort = "none"
    /\ place["source"] = "local" /\ step["source"] = "tell" => hTargetAddr /\ inet_ntoa = "source"

FtpInv == Ftp!TypeOK /\ FtpTyped /\ AtPlaces /\ Paced /\ Knows /\ Told /\ Ftp!EndsComplete /\ Ftp!AddressIsOwn

LEMMA FtpInit == Ftp!Init => FtpInv
<1> SUFFICES ASSUME Ftp!Init PROVE FtpInv
  OBVIOUS
<1> USE DEF Ftp!Init
<1>s. <<>> \in Seq(Commands) /\ <<>> \in Seq(Replies) /\ Len(<<>>) = 0 /\ DOMAIN <<>> = {}
  OBVIOUS
<1>q. <<>> \in CommandSeqs /\ <<>> \in ReplySeqs
  BY <1>s DEF CommandSeqs, ReplySeqs
<1>a. \A s \in Ftp!Side :
        /\ place[s] \in {"server", "local"}
        /\ place[s] = "server" => step[s] = "connect"
        /\ place[s] = "local" => step[s] = "open"
        /\ ~ waiting[s] /\ owed[s] = <<>> /\ replies[s] = <<>> /\ ~ gone[s]
  OBVIOUS
<1>1. FtpTyped
  <2>1. step \in [Ftp!Side -> Words]
    BY <1>a DEF Words
  <2>2. owed \in [Ftp!Side -> CommandSeqs] /\ replies \in [Ftp!Side -> ReplySeqs]
    BY <1>q
  <2>3. blocks \in Nat
    BY FtpBounds DEF Ftp!BlocksAssumption
  <2> QED BY <2>1, <2>2, <2>3 DEF FtpTyped
<1>2. Ftp!TypeOK
  <2>1. \A s \in Ftp!Side : Len(owed[s]) <= 2
    BY <1>a, <1>s
  <2>2. blocks \in 0 .. FtpBlocks /\ 0 <= blocks
    BY FtpBounds DEF Ftp!BlocksAssumption
  <2>3. downloaded <= uploaded /\ uploaded <= blocks /\ ~ (uploaded > 0)
    BY <2>2
  <2>4. place \in [Ftp!Side -> {"server", "local"}] /\ types \subseteq {"TYPE_A", "TYPE_I"}
        /\ hTargetAddr \in BOOLEAN /\ hSourcePort \in {"none", "source", "peer"} /\
            status \in {"running", "ok", "failed"}
        /\ ~ linked
    OBVIOUS
  <2> HIDE DEF Ftp!Init
  <2> QED BY <2>1, <2>2, <2>3, <2>4 DEF Ftp!TypeOK
<1>3. AtPlaces
  BY <1>a DEF AtPlaces, Ftp!Side
<1>4. Paced
  <2>1. ASSUME NEW w, ~ w, NEW g, ~ g, w \in BOOLEAN, g \in BOOLEAN PROVE Pace("connect", w, <<>>, <<>>, g)
    <3>1. Due("connect", w) = 0 /\ ~ Has(<<>>, "150") /\ Untransferred(<<>>)
      BY <2>1, <1>s DEF Due, Has, Untransferred
    <3>2. EarlyPace("connect", w, <<>>, <<>>, g) /\ BinaryPace("connect", w, <<>>, <<>>, g)
      BY <3>1, <1>s DEF EarlyPace, BinaryPace
    <3>3. LaterPace("connect", w, <<>>, <<>>) /\ Once("connect", w, <<>>, <<>>)
      BY <3>1, <1>s DEF LaterPace, Once, Extra, Untransferred
    <3> QED BY <2>1, <3>2, <3>3, <1>q, <1>s DEF Pace
  <2> QED BY <1>a, <2>1 DEF Paced
<1>5. Knows
  BY <1>a, <1>s DEF Knows, Has, Ftp!Side
<1>6. Told /\ Ftp!EndsComplete /\ Ftp!AddressIsOwn
  BY <1>a DEF Told, Ftp!EndsComplete, Ftp!AddressIsOwn, Ftp!Side
<1> QED BY <1>1, <1>2, <1>3, <1>4, <1>5, <1>6 DEF FtpInv

(* What a step of one side leaves of the other. *)

Spared(s) ==
    /\ step'[s] = step[s] /\ waiting'[s] = waiting[s] /\ owed'[s] = owed[s] /\ replies'[s] = replies[s]
    /\ gone'[s] = gone[s]

\* A step of the thread or the server of a side with a server.
Moves(s, a, w, o, r, g) ==
    /\ step' = [step EXCEPT ![s] = a] /\ waiting' = [waiting EXCEPT ![s] = w] /\ owed' = [owed EXCEPT ![s] = o]
    /\ replies' = [replies EXCEPT ![s] = r] /\ gone' = [gone EXCEPT ![s] = g]
Fits(s, a, w, r) ==
    /\ a \in Commands \cup {"message", "tell", "end"} /\ (w => a \in Commands)
    /\ s = "target" => a # "PASV"
    /\ a \in {"QUIT", "end"} \/ Has(r, "226") => Transferred(s)'
KeepsData ==
    /\ UNCHANGED <<place, types, bVerbose, linked, blocks, uploaded, downloaded>>
    /\ closed => closed'
    /\ closed' \in BOOLEAN /\ listening' \in BOOLEAN /\ fault' \in BOOLEAN
    /\ place["source"] = "local" => closed' = closed

LEMMA ServerSide ==
    ASSUME FtpTyped, AtPlaces, Paced, Knows, NEW s \in Ftp!Side, place[s] = "server", KeepsData,
           NEW a, NEW w, NEW o, NEW r, NEW g, Moves(s, a, w, o, r, g), Pace(a, w, o, r, g), Fits(s, a, w, r)
    PROVE  FtpTyped' /\ AtPlaces' /\ Paced' /\ Knows'
<1> USE DEF Moves, Fits, KeepsData
<1>1. w \in BOOLEAN /\ g \in BOOLEAN /\ o \in CommandSeqs /\ r \in ReplySeqs
  BY DEF Pace
<1>2. a \in Words /\ a # "connect"
  BY DEF Words, Commands
<1>3. FtpTyped'
  <2>1. step' \in [Ftp!Side -> Words]
    BY <1>2 DEF FtpTyped
  <2>2. waiting' \in [Ftp!Side -> BOOLEAN] /\ gone' \in [Ftp!Side -> BOOLEAN]
    BY <1>1 DEF FtpTyped
  <2>3. owed' \in [Ftp!Side -> CommandSeqs] /\ replies' \in [Ftp!Side -> ReplySeqs]
    BY <1>1 DEF FtpTyped
  <2> QED BY <2>1, <2>2, <2>3 DEF FtpTyped
<1>4. step'[s] = a /\ waiting'[s] = w /\ owed'[s] = o /\ replies'[s] = r /\ gone'[s] = g
  BY DEF FtpTyped
<1>5. \A t \in Ftp!Side \ {s} :
        /\ step'[t] = step[t] /\ waiting'[t] = waiting[t] /\ owed'[t] = owed[t]
        /\ replies'[t] = replies[t] /\ gone'[t] = gone[t]
  BY DEF FtpTyped
<1>6. \A t \in Ftp!Side : t = s \/ t \in Ftp!Side \ {s}
  OBVIOUS
<1>7. AtPlaces'
  <2>1. \A t \in Ftp!Side : place'[t] = "server" => (/\ step'[t] \in Commands \cup
                                                         {"connect", "message", "tell", "end"}
                                                /\ waiting'[t] => step'[t] \in Commands)
    BY <1>4, <1>5, <1>6 DEF AtPlaces
  <2>2. \A t \in Ftp!Side : place'[t] = "local" => ~ waiting'[t] /\ owed'[t] = <<>> /\ replies'[t] = <<>>
    BY <1>5, <1>6 DEF AtPlaces
  <2>3. \A t \in Ftp!Side : step'[t] = "connect" => ~ gone'[t] /\ ~ waiting'[t]
    BY <1>2, <1>4, <1>5, <1>6 DEF AtPlaces
  <2>4. \A t \in Ftp!Side : place[t] = "local" => step'[t] = step[t]
    BY <1>5, <1>6
  <2>5. step'["target"] # "PASV"
    BY <1>4, <1>5, <1>6 DEF AtPlaces, Ftp!Side
  <2> QED BY <2>1, <2>2, <2>3, <2>4, <2>5 DEF AtPlaces, Ftp!Side
<1>8. Paced'
  BY <1>4, <1>5, <1>6 DEF Paced
<1>9. Knows'
  <2>1. \A t \in Ftp!Side : Transferred(t) => Transferred(t)'
    BY DEF Transferred
  <2>2. \A t \in Ftp!Side : place'[t] = "server" /\ (step'[t] \in {"QUIT", "end"} \/
          Has(replies'[t], "226")) => Transferred(t)'
    BY <1>4, <1>5, <1>6, <2>1 DEF Knows
  <2>3. \A t \in Ftp!Side : place[t] = "local" => step'[t] = step[t]
    BY <1>5, <1>6
  <2> QED BY <2>2, <2>3 DEF Knows, Ftp!Side
<1> QED BY <1>3, <1>7, <1>8, <1>9

LEMMA DataKept ==
    ASSUME Ftp!TypeOK, FtpTyped', Paced', AtPlaces', UNCHANGED <<place, types, blocks>>,
           downloaded' <= uploaded', uploaded' <= blocks, uploaded' > 0 => linked', linked' => listening',
           hTargetAddr' \in BOOLEAN, hSourcePort' \in {"none", "source"}, status' \in {"running", "failed"}
    PROVE  Ftp!TypeOK' /\ Ftp!EndsComplete' /\ Ftp!AddressIsOwn'
<1>1. \A s \in Ftp!Side : place'[s] \in {"server", "local"}
  BY DEF Ftp!TypeOK
<1>2. \A s \in Ftp!Side : Len(owed'[s]) <= 2
  <2>1. Len(<<>>) <= 2
    OBVIOUS
  <2> QED BY <1>1, <2>1 DEF Paced, AtPlaces, Pace
<1>3. Ftp!EndsComplete' /\ Ftp!AddressIsOwn'
  BY DEF Ftp!EndsComplete, Ftp!AddressIsOwn
<1> QED BY <1>2, <1>3 DEF Ftp!TypeOK

(* The threads with a server. *)

LEMMA ConnectStep ==
    ASSUME FtpInv, NEW s \in Ftp!Side, Ftp!Connect(s)
    PROVE  FtpInv'
<1>0. Ftp!TypeOK /\ FtpTyped /\ AtPlaces /\ Paced /\ Knows /\ Told /\ Ftp!EndsComplete /\ Ftp!AddressIsOwn
  BY DEF FtpInv
<1> DEFINE o == <<"greeting">>
<1>1. /\ place[s] = "server" /\ step[s] = "connect" /\ status = "running"
      /\ step' = [step EXCEPT ![s] = "message"] /\ owed' = [owed EXCEPT ![s] = o]
      /\ UNCHANGED <<place, types, bVerbose, waiting, replies, gone, hTargetAddr, hSourcePort, inet_ntoa,
          listening, linked, closed, blocks,
                     uploaded, downloaded, status, fault>>
  BY DEF Ftp!Connect, Ftp!Runs, Ftp!Goto, Ftp!args, Ftp!pipes, Ftp!data
<1>2. o \in Seq(Commands) /\ Len(o) = 1 /\ DOMAIN o = {1} /\ o[1] = "greeting"
  BY DEF Commands
<1>3. waiting' = [waiting EXCEPT ![s] = waiting[s]] /\ replies' = [replies EXCEPT ![s] = replies[s]]
      /\ gone' = [gone EXCEPT ![s] = gone[s]] /\ ~ gone[s] /\ ~ waiting[s]
  BY <1>0, <1>1 DEF FtpTyped, AtPlaces
<1>4. Pace("connect", waiting[s], owed[s], replies[s], gone[s])
  BY <1>0, <1>1 DEF Paced
<1> HIDE DEF o
<1>5. Pace("message", waiting[s], o, replies[s], gone[s])
  <2>3. replies[s] \in Seq(Replies)
    BY <1>0 DEF FtpTyped, ReplySeqs
  <2>4. Len(replies[s]) \in Nat /\ DOMAIN replies[s] = 1 .. Len(replies[s])
    BY <2>3, LenProperties
  <2>5. owed[s] \in Seq(Commands)
    BY <1>0 DEF FtpTyped, CommandSeqs
  <2>6. Len(owed[s]) \in Nat
    BY <2>5, LenProperties
  <2>7. Due("connect", waiting[s]) = 0 /\ Due("message", waiting[s]) = 1
    BY <1>3 DEF Due
  <2>a. Len(owed[s]) + Len(replies[s]) <= 0
    BY <1>4, <2>7 DEF Pace, EarlyPace, Early
  <2>8. waiting[s] \in BOOLEAN /\ gone[s] \in BOOLEAN
        /\ Once("connect", waiting[s], owed[s], replies[s])
    BY <1>4 DEF Pace
  <2>b. Len(replies[s]) = 0
    <3>1. \A m, n \in Nat : m + n <= 0 => n = 0
      OBVIOUS
    <3>2. Len(replies[s]) \in Nat
      BY <2>4
    <3> QED BY <2>6, <2>a, <3>1, <3>2
  <2>9. Len(replies[s]) = 0 /\ DOMAIN replies[s] = {}
    BY <2>4, <2>b
  <2>10. EarlyPace("message", waiting[s], o, replies[s], gone[s]) /\
          BinaryPace("message", waiting[s], o, replies[s], gone[s])
    BY <1>2, <2>7, <2>9, <1>3 DEF EarlyPace, BinaryPace
  <2>11. ~ Has(replies[s], "150") /\ Untransferred(o)
    BY <1>2, <2>9 DEF Has, Untransferred, Transfers
  <2>12. LaterPace("message", waiting[s], o, replies[s])
    BY <1>2, <2>7, <2>9, <2>11 DEF LaterPace, Extra
  <2>13. Once("message", waiting[s], o, replies[s])
    BY <1>2, <2>11 DEF Once
  <2>14. Len(o) <= 2
    BY <1>2
  <2> QED BY <1>2, <2>3, <2>8, <2>10, <2>12, <2>13, <2>14 DEF Pace, CommandSeqs, ReplySeqs
<1>6. Fits(s, "message", waiting[s], replies[s])
  <2>1. Has(replies[s], "226") => Transferred(s)'
    BY <1>0, <1>1 DEF Knows, Transferred
  <2> QED BY <1>3, <2>1 DEF Fits
<1>7. FtpTyped' /\ AtPlaces' /\ Paced' /\ Knows'
  <2>1. KeepsData
    BY <1>0, <1>1 DEF FtpTyped, KeepsData
  <2>2. Moves(s, "message", waiting[s], o, replies[s], gone[s])
    BY <1>1, <1>3 DEF Moves
  <2> QED BY <1>0, <1>1, <1>5, <1>6, <2>1, <2>2, ServerSide
<1>8. Ftp!TypeOK' /\ Ftp!EndsComplete' /\ Ftp!AddressIsOwn'
  BY <1>0, <1>1, <1>7, DataKept DEF Ftp!TypeOK, Ftp!AddressIsOwn
<1>9. Told'
  <2>1. step'["target"] = IF s = "target" THEN "message" ELSE step["target"]
    BY <1>0, <1>1 DEF FtpTyped, Ftp!Side
  <2>2. step'["source"] = IF s = "source" THEN "message" ELSE step["source"]
    BY <1>0, <1>1 DEF FtpTyped, Ftp!Side
  <2> QED BY <1>0, <1>1, <2>1, <2>2 DEF Told, Ftp!Side
<1> QED BY <1>7, <1>8, <1>9 DEF FtpInv

LEMMA PaceOnTheWay ==
    ASSUME NEW w, NEW v, NEW o, NEW r, NEW g
    PROVE  /\ Pace("message", w, o, r, g) => Pace("tell", w, o, r, g)
           /\ Pace("tell", w, o, r, g) /\ v = TRUE => Pace("greeting", v, o, r, g)
<1>1. Due("message", w) = 1 /\ Due("tell", w) = 1 /\ (v = TRUE => Due("greeting", v) = 1)
  BY DEF Due
<1>2. "message" \in Early /\ "tell" \in Early /\ "greeting" \in Early
  BY DEF Early
<1>3. /\ EarlyPace("message", w, o, r, g) => EarlyPace("tell", w, o, r, g)
      /\ EarlyPace("tell", w, o, r, g) /\ v = TRUE => EarlyPace("greeting", v, o, r, g)
  BY <1>1, <1>2 DEF EarlyPace
<1>4. /\ LaterPace("message", w, o, r) => LaterPace("tell", w, o, r)
      /\ LaterPace("tell", w, o, r) /\ v = TRUE => LaterPace("greeting", v, o, r)
  BY <1>1 DEF LaterPace
<1>5. /\ Once("message", w, o, r) => Once("tell", w, o, r)
      /\ Once("tell", w, o, r) => Once("greeting", v, o, r)
  BY <1>2 DEF Once
<1>6. BinaryPace("tell", w, o, r, g) /\ BinaryPace("greeting", v, o, r, g)
  BY DEF BinaryPace
<1>7. v = TRUE => v \in BOOLEAN
  OBVIOUS
<1> QED BY <1>3, <1>4, <1>5, <1>6, <1>7 DEF Pace

LEMMA MessageStep ==
    ASSUME FtpInv, NEW s \in Ftp!Side, Ftp!Message(s)
    PROVE  FtpInv'
<1>0. Ftp!TypeOK /\ FtpTyped /\ AtPlaces /\ Paced /\ Knows /\ Told /\ Ftp!EndsComplete /\ Ftp!AddressIsOwn
  BY DEF FtpInv
<1>1. /\ place[s] = "server" /\ step[s] = "message" /\ status = "running"
      /\ step' = [step EXCEPT ![s] = "tell"]
      /\ UNCHANGED <<place, types, bVerbose, waiting, owed, replies, gone, hTargetAddr, hSourcePort,
          listening, linked, closed,
                     blocks, uploaded, downloaded, status, fault>>
  BY DEF Ftp!Message, Ftp!Runs, Ftp!Goto, Ftp!args, Ftp!data, Ftp!control
<1>3. Moves(s, "tell", waiting[s], owed[s], replies[s], gone[s]) /\ ~ waiting[s]
  <2>1. "message" \notin Commands
    BY DEF Commands
  <2> QED BY <1>0, <1>1, <2>1 DEF FtpTyped, AtPlaces, Moves
<1>5. Pace("tell", waiting[s], owed[s], replies[s], gone[s])
  BY <1>0, <1>1, PaceOnTheWay DEF Paced
<1>6. Fits(s, "tell", waiting[s], replies[s])
  <2>1. Has(replies[s], "226") => Transferred(s)'
    BY <1>0, <1>1 DEF Knows, Transferred
  <2> QED BY <1>3, <2>1 DEF Fits
<1>7. FtpTyped' /\ AtPlaces' /\ Paced' /\ Knows'
  <2>1. KeepsData
    BY <1>0, <1>1 DEF FtpTyped, KeepsData
  <2> QED BY <1>0, <1>1, <1>3, <1>5, <1>6, <2>1, ServerSide
<1>8. Ftp!TypeOK' /\ Ftp!EndsComplete' /\ Ftp!AddressIsOwn'
  BY <1>0, <1>1, <1>7, DataKept DEF Ftp!TypeOK, Ftp!AddressIsOwn
<1>9. Told'
  <2>1. step'["target"] = IF s = "target" THEN "tell" ELSE step["target"]
    BY <1>0, <1>1 DEF FtpTyped, Ftp!Side
  <2>2. step'["source"] = IF s = "source" THEN "tell" ELSE step["source"]
    BY <1>0, <1>1 DEF FtpTyped, Ftp!Side
  <2> QED BY <1>0, <1>1, <2>1, <2>2 DEF Told, Ftp!Side
<1> QED BY <1>7, <1>8, <1>9 DEF FtpInv

LEMMA TellStep ==
    ASSUME FtpInv, NEW s \in Ftp!Side, Ftp!Tell(s)
    PROVE  FtpInv'
<1>0. Ftp!TypeOK /\ FtpTyped /\ AtPlaces /\ Paced /\ Knows /\ Told /\ Ftp!EndsComplete /\ Ftp!AddressIsOwn
  BY DEF FtpInv
<1>1. /\ place[s] = "server" /\ step[s] = "tell" /\ status = "running"
      /\ step' = [step EXCEPT ![s] = "greeting"] /\ waiting' = [waiting EXCEPT ![s] = TRUE]
      /\ hTargetAddr' = (hTargetAddr \/ s = "target")
      /\ UNCHANGED <<place, types, bVerbose, owed, replies, gone, hSourcePort, inet_ntoa, listening,
          linked, closed,
                     blocks, uploaded, downloaded, status, fault>>
  BY DEF Ftp!Tell, Ftp!Runs, Ftp!Goto, Ftp!args, Ftp!data
<1> DEFINE w == TRUE
<1>2. w = TRUE /\ "greeting" \in Commands
  BY DEF Commands
<1>3. Moves(s, "greeting", w, owed[s], replies[s], gone[s])
  BY <1>0, <1>1 DEF FtpTyped, Moves
<1> HIDE DEF w
<1>5. Pace("greeting", w, owed[s], replies[s], gone[s])
  BY <1>0, <1>1, <1>2, PaceOnTheWay DEF Paced
<1>6. Fits(s, "greeting", w, replies[s])
  <2>1. Has(replies[s], "226") => Transferred(s)'
    BY <1>0, <1>1 DEF Knows, Transferred
  <2> QED BY <1>2, <2>1 DEF Fits
<1>7. FtpTyped' /\ AtPlaces' /\ Paced' /\ Knows'
  <2>1. KeepsData
    BY <1>0, <1>1 DEF FtpTyped, KeepsData
  <2> QED BY <1>0, <1>1, <1>3, <1>5, <1>6, <2>1, ServerSide
<1>8. Ftp!TypeOK' /\ Ftp!EndsComplete' /\ Ftp!AddressIsOwn'
  <2>1. hTargetAddr' \in BOOLEAN
    BY <1>1, <1>0 DEF Ftp!TypeOK
  <2> QED BY <1>0, <1>1, <1>7, <2>1, DataKept DEF Ftp!TypeOK, Ftp!AddressIsOwn
<1>9. Told'
  <2>1. step'["target"] = IF s = "target" THEN "greeting" ELSE step["target"]
    BY <1>0, <1>1 DEF FtpTyped, Ftp!Side
  <2>2. step'["source"] = IF s = "source" THEN "greeting" ELSE step["source"]
    BY <1>0, <1>1 DEF FtpTyped, Ftp!Side
  <2>3. /\ s = "source" => (hTargetAddr' => hTargetAddr)
        /\ hTargetAddr => hTargetAddr'
    BY <1>1
  <2>4. UNCHANGED <<place, hSourcePort, inet_ntoa>>
    BY <1>1
  <2> QED BY <1>0, <1>1, <2>1, <2>2, <2>3, <2>4 DEF Told, Ftp!Side
<1> QED BY <1>7, <1>8, <1>9 DEF FtpInv

LEMMA AskStep ==
    ASSUME FtpInv, NEW s \in Ftp!Side, Ftp!Ask(s)
    PROVE  FtpInv'
<1>0. Ftp!TypeOK /\ FtpTyped /\ AtPlaces /\ Paced /\ Knows /\ Told /\ Ftp!EndsComplete /\ Ftp!AddressIsOwn
  BY DEF FtpInv
<1> DEFINE w == TRUE
           o == Append(owed[s], step[s])
<1>1. /\ place[s] = "server" /\ step[s] \in DOMAIN Ftp!Code \cup types \cup {"QUIT"} /\
          status = "running" /\ ~ waiting[s] /\ ~ gone[s]
      /\ UNCHANGED <<place, types, bVerbose, step, replies, gone, hTargetAddr, hSourcePort, inet_ntoa,
          listening, linked, closed,
                     blocks, uploaded, downloaded, status, fault>>
  BY DEF Ftp!Ask, Ftp!Asking, Ftp!Runs, Ftp!args, Ftp!data, Ftp!pipes
<1>a. waiting' = [waiting EXCEPT ![s] = w] /\ owed' = [owed EXCEPT ![s] = o]
  BY DEF Ftp!Ask
<1>2. w = TRUE /\ step[s] \in Commands
  <2>1. DOMAIN Ftp!Code \cup types \cup {"QUIT"} \subseteq Commands
    BY <1>0 DEF Ftp!Code, Commands, Ftp!TypeOK
  <2> QED BY <1>1, <2>1
<1> HIDE DEF w
<1>5. Pace(step[s], w, o, replies[s], gone[s])
  <2>1. Pace(step[s], waiting[s], owed[s], replies[s], gone[s])
    BY <1>0, <1>1 DEF Paced
  <2>2. waiting[s] = FALSE /\ gone[s] = FALSE
    BY <1>0, <1>1 DEF FtpTyped
  <2>3. Pace(step[s], w, Append(owed[s], step[s]), replies[s], gone[s])
    BY <1>2, <2>1, <2>2, PaceAsk
  <2> QED BY <2>3
<1> HIDE DEF o
<1>3. Moves(s, step[s], w, o, replies[s], gone[s])
  BY <1>0, <1>1, <1>a DEF FtpTyped, Moves
<1>6. Fits(s, step[s], w, replies[s])
  <2>1. step[s] \in {"QUIT", "end"} \/ Has(replies[s], "226") => Transferred(s)'
    BY <1>0, <1>1 DEF Knows, Transferred
  <2>2. s = "target" => step[s] # "PASV"
    BY <1>0 DEF AtPlaces
  <2> QED BY <1>2, <2>1, <2>2 DEF Fits
<1>7. FtpTyped' /\ AtPlaces' /\ Paced' /\ Knows'
  <2>1. KeepsData
    BY <1>0, <1>1 DEF FtpTyped, KeepsData
  <2> QED BY <1>0, <1>1, <1>3, <1>5, <1>6, <2>1, ServerSide
<1>8. Ftp!TypeOK' /\ Ftp!EndsComplete' /\ Ftp!AddressIsOwn'
  BY <1>0, <1>1, <1>7, DataKept DEF Ftp!TypeOK, Ftp!AddressIsOwn
<1>9. Told'
  BY <1>0, <1>1 DEF Told
<1> QED BY <1>7, <1>8, <1>9 DEF FtpInv

\* A step that leaves the control connections and the threads with a server alone.
LEMMA LocalSide ==
    ASSUME FtpTyped, AtPlaces, Paced, UNCHANGED <<place, types, bVerbose, waiting, owed, replies, gone>>,
        step' \in [Ftp!Side -> Words],
           \A t \in Ftp!Side : place[t] = "server" => step'[t] = step[t],
           place["source"] = "local" => step'["source"] \in {"open", "listen", "tell", "accept", "send", "end"},
           place["target"] = "local" => step'["target"] \in {"open", "link", "receive", "end"},
           \A t \in Ftp!Side : place[t] \in {"server", "local"},
           listening' \in BOOLEAN, linked' \in BOOLEAN, closed' \in BOOLEAN, fault' \in BOOLEAN,
           blocks' \in Nat, uploaded' \in Nat, downloaded' \in Nat
    PROVE  FtpTyped' /\ AtPlaces' /\ Paced'
<1>1. FtpTyped'
  BY DEF FtpTyped
<1>2. \A t \in Ftp!Side : place[t] = "local" => step'[t] # "connect" /\ step'[t] # "PASV"
  BY DEF Ftp!Side
<1>3. \A t \in Ftp!Side : step'[t] = "connect" => ~ gone'[t] /\ ~ waiting'[t]
  BY <1>2 DEF AtPlaces
<1>4. step'["target"] # "PASV"
  BY <1>2 DEF AtPlaces, Ftp!Side
<1>5. AtPlaces'
  BY <1>3, <1>4 DEF AtPlaces
<1>6. Paced'
  BY DEF Paced
<1> QED BY <1>1, <1>5, <1>6

\* Nothing changes but that the process ends, or nothing step all.
LEMMA StayStep ==
    ASSUME FtpInv, UNCHANGED <<Ftp!args, step, Ftp!control, Ftp!pipes, Ftp!data>>, fault' \in BOOLEAN,
           status' = status \/ status' = "failed"
    PROVE  FtpInv'
<1>0. Ftp!TypeOK /\ FtpTyped /\ AtPlaces /\ Paced /\ Knows /\ Told /\ Ftp!EndsComplete /\ Ftp!AddressIsOwn
  BY DEF FtpInv
<1> USE DEF Ftp!args, Ftp!control, Ftp!pipes, Ftp!data
<1>1. FtpTyped' /\ AtPlaces' /\ Paced' /\ Knows' /\ Told' /\ Ftp!AddressIsOwn'
  BY <1>0 DEF FtpTyped, AtPlaces, Paced, Knows, Transferred, Told, Ftp!AddressIsOwn
<1>2. Ftp!TypeOK' /\ Ftp!EndsComplete'
  BY <1>0 DEF Ftp!TypeOK, Ftp!EndsComplete
<1> QED BY <1>1, <1>2 DEF FtpInv

LEMMA HeedStep ==
    ASSUME FtpInv, NEW s \in Ftp!Side, Ftp!Heed(s)
    PROVE  FtpInv'
<1>0. Ftp!TypeOK /\ FtpTyped /\ AtPlaces /\ Paced /\ Knows /\ Told /\ Ftp!EndsComplete /\ Ftp!AddressIsOwn
  BY DEF FtpInv
<1>1. place[s] = "server" /\ status = "running" /\ waiting[s] /\ (replies[s] # <<>> \/ gone[s])
  BY DEF Ftp!Heed, Ftp!Runs
<1>2. step[s] \in Commands /\ (s = "target" => step[s] # "PASV")
  BY <1>0, <1>1 DEF AtPlaces
<1>3. CASE Ftp!Required(step[s]) /\ Ftp!Heeded(s) # Ftp!CodeOf(step[s])
  <2>1. Ftp!Exit(s)
    BY <1>3 DEF Ftp!Heed
  <2>2. status' = "failed" /\ fault' \in BOOLEAN /\ UNCHANGED <<Ftp!args, step, Ftp!control, Ftp!pipes,
          Ftp!data>>
    BY <2>1 DEF Ftp!Exit
  <2> QED BY <2>2, StayStep
<1>4. CASE ~ (Ftp!Required(step[s]) /\ Ftp!Heeded(s) # Ftp!CodeOf(step[s]))
  <2> DEFINE b == Ftp!After(s, step[s])
             w == waiting'[s]
             r == replies'[s]
  <2>1. step' = [step EXCEPT ![s] = b]
    BY <1>4 DEF Ftp!Heed, Ftp!Goto
  <2>2. waiting' = [waiting EXCEPT ![s] = step[s] \in {"RETR", "STOR"}]
    BY <1>4 DEF Ftp!Heed
  <2>3. replies' = [replies EXCEPT ![s] = IF replies[s] = <<>> THEN replies[s] ELSE Tail(replies[s])]
    BY <1>4 DEF Ftp!Heed
  <2>4. /\ hSourcePort' = IF step[s] = "PASV" THEN "source" ELSE hSourcePort
        /\ UNCHANGED <<place, types, bVerbose, owed, gone, hTargetAddr, inet_ntoa, listening, linked, closed,
                       blocks, uploaded, downloaded, status, fault>>
    BY <1>4 DEF Ftp!Heed, Ftp!args, Ftp!data
  <2>5. /\ Held(w, step[s]) /\ waiting' = [waiting EXCEPT ![s] = w]
    <3>1. w = (step[s] \in {"RETR", "STOR"})
      BY <1>0, <2>2 DEF FtpTyped
    <3>2. w <=> step[s] \in Transfers
      BY <3>1 DEF Transfers
    <3>3. w \in BOOLEAN
      BY <3>1
    <3>4. waiting' = [waiting EXCEPT ![s] = w]
      BY <2>2, <3>1
    <3> QED BY <3>2, <3>3, <3>4 DEF Held
  <2>6. /\ r = (IF replies[s] = <<>> THEN replies[s] ELSE Tail(replies[s])) /\
            replies' = [replies EXCEPT ![s] = r]
    BY <1>0, <2>3 DEF FtpTyped
  <2>7. Follows(step[s], b) /\ (s = "target" => b # "PASV")
    BY <1>2, AfterFollows
  <2> HIDE DEF b, w, r
  <2>8. Pace(step[s], waiting[s], owed[s], replies[s], gone[s]) /\ waiting[s] = TRUE /\
          gone[s] \in BOOLEAN /\ replies[s] \in Seq(Replies)
    BY <1>0, <1>1 DEF Paced, FtpTyped, ReplySeqs
  <2>9. /\ Pace(b, w, owed[s], r, gone[s])
        /\ Has(r, "226") => Has(replies[s], "226")
        /\ step[s] = "transfer" => Has(replies[s], "226")
    <3>1. CASE replies[s] = <<>>
      <4>1. gone[s] = TRUE /\ Len(replies[s]) = 0 /\ r = replies[s] /\ Ftp!Heeded(s) = "other"
        BY <1>1, <2>6, <2>8, <3>1 DEF Ftp!Heeded
      <4>2. ~ Ftp!Required(step[s])
        BY <4>1, <1>2, <1>4, Codes
      <4>3. Pace(b, w, owed[s], replies[s], gone[s])
        BY <4>1, <4>2, <1>2, <2>5, <2>7, <2>8, PaceHeedNothing
      <4>4. step[s] # "transfer"
        BY <4>2, <1>2, Codes
      <4> QED BY <4>1, <4>3, <4>4
    <3>2. CASE replies[s] # <<>>
      <4>1. r = Tail(replies[s]) /\ Ftp!Heeded(s) = Head(replies[s])
        BY <2>6, <3>2 DEF Ftp!Heeded
      <4>2. /\ Len(replies[s]) \in Nat \ {0} /\ DOMAIN replies[s] = 1 .. Len(replies[s])
            /\ DOMAIN Tail(replies[s]) = 1 .. Len(replies[s]) - 1
            /\ \A i \in 1 .. Len(replies[s]) - 1 : Tail(replies[s])[i] = replies[s][i + 1]
            /\ Head(replies[s]) = replies[s][1]
        BY <2>8, <3>2, Tailed
      <4>3. Len(replies[s]) > 0
        BY <4>2
      <4>4. Ftp!Required(step[s]) => Head(replies[s]) = Ftp!CodeOf(step[s])
        BY <4>1, <1>4
      <4>5. Pace(b, w, owed[s], Tail(replies[s]), gone[s])
        BY <4>3, <4>4, <1>2, <2>5, <2>7, <2>8, PaceHeed
      <4>6. Has(Tail(replies[s]), "226") => Has(replies[s], "226")
        <5> SUFFICES ASSUME NEW i \in DOMAIN Tail(replies[s]),
                Tail(replies[s])[i] = "226" PROVE Has(replies[s], "226")
          BY DEF Has
        <5>1. i + 1 \in DOMAIN replies[s] /\ replies[s][i + 1] = "226"
          BY <4>2
        <5> QED BY <5>1 DEF Has
      <4>7. step[s] = "transfer" => Has(replies[s], "226")
        <5>1. step[s] = "transfer" => Head(replies[s]) = "226"
          BY <4>4, <1>2, Codes
        <5>2. 1 \in DOMAIN replies[s]
          BY <4>2
        <5> QED BY <4>2, <5>1, <5>2 DEF Has
      <4> QED BY <4>1, <4>5, <4>6, <4>7
    <3> QED BY <3>1, <3>2
  <2>10. Fits(s, b, w, r)
    <3>1. b \in Commands \cup {"message", "tell", "end"} /\ (step[s] \in Transfers => b = "transfer")
      BY <2>7 DEF Follows, Commands, Transfers
    <3>2. b \in {"QUIT", "end"} => step[s] \in {"transfer", "QUIT"}
      BY <2>7 DEF Follows, Transfers
    <3>3. step[s] = "QUIT" \/ Has(replies[s], "226") => Transferred(s)'
      BY <1>0, <1>1, <2>4 DEF Knows, Transferred
    <3>4. "transfer" \in Commands
      BY DEF Commands
    <3> QED BY <2>5, <2>7, <2>9, <3>1, <3>2, <3>3, <3>4 DEF Fits, Held
  <2>11. FtpTyped' /\ AtPlaces' /\ Paced' /\ Knows'
    <3>1. KeepsData
      BY <1>0, <2>4 DEF FtpTyped, KeepsData
    <3>2. Moves(s, b, w, owed[s], r, gone[s])
      BY <1>0, <2>1, <2>4, <2>5, <2>6 DEF FtpTyped, Moves
    <3> QED BY <1>0, <1>1, <2>9, <2>10, <3>1, <3>2, ServerSide
  <2>12. Ftp!TypeOK' /\ Ftp!EndsComplete' /\ Ftp!AddressIsOwn'
    <3>1. hSourcePort' \in {"none", "source"}
      BY <1>0, <2>4 DEF Ftp!AddressIsOwn
    <3> QED BY <1>0, <1>1, <2>4, <2>11, <3>1, DataKept DEF Ftp!TypeOK
  <2>13. Told'
    <3>1. step'["target"] = IF s = "target" THEN b ELSE step["target"]
      BY <1>0, <2>1 DEF FtpTyped, Ftp!Side
    <3>2. place["source"] = "local" => step'["source"] = step["source"] /\ hSourcePort' = hSourcePort
      BY <1>0, <1>1, <1>2, <2>1, <2>4 DEF FtpTyped, Ftp!Side
    <3>3. b \notin {"connect", "message", "tell"}
      BY <2>7 DEF Follows, Transfers
    <3> QED BY <1>0, <2>4, <3>1, <3>2, <3>3 DEF Told
  <2> QED BY <2>11, <2>12, <2>13 DEF FtpInv
<1> QED BY <1>3, <1>4

LEMMA AskFailsStep ==
    ASSUME FtpInv, NEW s \in Ftp!Side, Ftp!AskFails(s)
    PROVE  FtpInv'
<1>0. Ftp!TypeOK /\ FtpTyped /\ AtPlaces /\ Paced /\ Knows /\ Told /\ Ftp!EndsComplete /\ Ftp!AddressIsOwn
  BY DEF FtpInv
<1>1. CASE step[s] # "QUIT"
  BY <1>1, StayStep DEF Ftp!AskFails, Ftp!Exit
<1>2. CASE step[s] = "QUIT"
  <2>1. /\ place[s] = "server" /\ status = "running" /\ ~ waiting[s]
        /\ step' = [step EXCEPT ![s] = "end"]
        /\ UNCHANGED <<place, types, bVerbose, waiting, owed, replies, gone, hTargetAddr, hSourcePort,
            inet_ntoa,
                       listening, linked, closed, blocks, uploaded, downloaded, status, fault>>
    BY <1>2 DEF Ftp!AskFails, Ftp!Asking, Ftp!Runs, Ftp!Goto, Ftp!args, Ftp!control, Ftp!pipes, Ftp!data
  <2>2. Pace("QUIT", waiting[s], owed[s], replies[s], gone[s])
    BY <1>0, <1>2, <2>1 DEF Paced
  <2>3. Pace("end", waiting[s], owed[s], replies[s], gone[s])
    <3>1. EarlyPace("end", waiting[s], owed[s], replies[s], gone[s]) /\
            BinaryPace("end", waiting[s], owed[s], replies[s], gone[s])
          /\ LaterPace("end", waiting[s], owed[s], replies[s])
      BY DEF EarlyPace, BinaryPace, LaterPace, Early
    <3>2. Once("QUIT", waiting[s], owed[s], replies[s]) => Once("end", waiting[s], owed[s], replies[s])
      BY DEF Once, Early, Transfers
    <3> QED BY <2>2, <3>1, <3>2 DEF Pace
  <2>4. Fits(s, "end", waiting[s], replies[s])
    BY <1>0, <1>2, <2>1 DEF Fits, Knows, Transferred
  <2>5. FtpTyped' /\ AtPlaces' /\ Paced' /\ Knows'
    <3>1. KeepsData
      BY <1>0, <2>1 DEF FtpTyped, KeepsData
    <3>2. Moves(s, "end", waiting[s], owed[s], replies[s], gone[s])
      BY <1>0, <2>1 DEF FtpTyped, Moves
    <3> QED BY <1>0, <2>1, <2>3, <2>4, <3>1, <3>2, ServerSide
  <2>6. Ftp!TypeOK' /\ Ftp!EndsComplete' /\ Ftp!AddressIsOwn'
    BY <1>0, <2>1, <2>5, DataKept DEF Ftp!TypeOK, Ftp!AddressIsOwn
  <2>7. Told'
    <3>1. step'["target"] = IF s = "target" THEN "end" ELSE step["target"]
      BY <1>0, <2>1 DEF FtpTyped, Ftp!Side
    <3>2. place["source"] = "local" => step'["source"] = step["source"]
      BY <1>0, <2>1 DEF FtpTyped, Ftp!Side
    <3> QED BY <1>0, <2>1, <3>1, <3>2 DEF Told
  <2> QED BY <2>5, <2>6, <2>7 DEF FtpInv
<1> QED BY <1>1, <1>2

LEMMA HasNoted ==
    ASSUME NEW r \in Seq(Replies), NEW code \in Replies, NEW r2,
           r2 = Append(r, code) \/ r2 = r \o <<"other", code>>
    PROVE  Has(r2, "226") => Has(r, "226") \/ code = "226"
<1>f. "other" \in Replies
  BY DEF Replies
<1>1. \A i \in DOMAIN r2 : (i \in DOMAIN r /\ r2[i] = r[i]) \/ r2[i] = code \/ r2[i] = "other"
  <2>1. CASE r2 = Append(r, code)
    <3>1. /\ Append(r, code)[Len(r) + 1] = code /\ \A i \in 1 .. Len(r) : Append(r, code)[i] = r[i]
          /\ Len(r) \in Nat /\ DOMAIN r = 1 .. Len(r) /\ DOMAIN Append(r, code) = 1 .. Len(r) + 1
      BY Appended
    <3> HIDE <2>1
    <3>2. /\ r2[Len(r) + 1] = code /\ \A i \in 1 .. Len(r) : r2[i] = r[i]
          /\ Len(r) \in Nat /\ DOMAIN r = 1 .. Len(r) /\ DOMAIN r2 = 1 .. Len(r) + 1
      BY <2>1, <3>1
    <3> QED BY <3>2
  <2>2. CASE r2 = r \o <<"other", code>>
    <3>1. /\ \A i \in 1 .. Len(r) : (r \o <<"other", code>>)[i] = r[i]
          /\ (r \o <<"other", code>>)[Len(r) + 1] = "other" /\ (r \o <<"other", code>>)[Len(r) + 2] = code
          /\ Len(r) \in Nat /\ DOMAIN r = 1 .. Len(r) /\ DOMAIN (r \o <<"other", code>>) = 1 .. Len(r) + 2
      BY <1>f, Lengthened
    <3> HIDE <2>2
    <3>2. /\ r2[Len(r) + 1] = "other" /\ r2[Len(r) + 2] = code /\ \A i \in 1 .. Len(r) : r2[i] = r[i]
          /\ Len(r) \in Nat /\ DOMAIN r = 1 .. Len(r) /\ DOMAIN r2 = 1 .. Len(r) + 2
      BY <2>2, <3>1
    <3> QED BY <3>2
  <2> QED BY <2>1, <2>2
<1> HIDE DEF Has
<1>2. \A i \in DOMAIN r2 : r2[i] = "226" => (i \in DOMAIN r /\ r[i] = "226") \/ code = "226"
  BY <1>1
<1> QED BY <1>2 DEF Has

(* The servers. *)

\* A server that owes something has been connected to.
LEMMA Connected ==
    ASSUME Ftp!TypeOK, FtpTyped, AtPlaces, Paced, NEW s \in Ftp!Side, owed[s] # <<>>
    PROVE  /\ place[s] = "server" /\ step[s] \in Commands \cup {"message", "tell", "end"}
           /\ Pace(step[s], waiting[s], owed[s], replies[s], gone[s])
           /\ owed[s] \in Seq(Commands) /\ replies[s] \in Seq(Replies)
           /\ Len(owed[s]) > 0 /\ Head(owed[s]) \in Commands
           /\ waiting' = waiting => waiting' = [waiting EXCEPT ![s] = waiting[s]]
<1>1. place[s] = "server"
  BY DEF Ftp!TypeOK, AtPlaces
<1>2. owed[s] \in Seq(Commands) /\ replies[s] \in Seq(Replies)
  BY DEF FtpTyped, CommandSeqs, ReplySeqs
<1>3. Len(owed[s]) \in Nat \ {0} /\ Head(owed[s]) = owed[s][1] /\ owed[s][1] \in Commands
  BY <1>2, Tailed
<1>4. Pace(step[s], waiting[s], owed[s], replies[s], gone[s])
  BY <1>1 DEF Paced
<1>5. step[s] # "connect"
  <2> SUFFICES ASSUME step[s] = "connect" PROVE FALSE
    OBVIOUS
  <2>1. Due(step[s], waiting[s]) = 0
    BY DEF AtPlaces, Due
  <2>2. Len(owed[s]) + Len(replies[s]) <= 0
    BY <1>4, <2>1 DEF Pace, EarlyPace, Early
  <2>3. Len(replies[s]) \in Nat
    BY <1>2, LenProperties
  <2>4. \A m, n \in Nat : m + n <= 0 => m = 0
    OBVIOUS
  <2>5. Len(owed[s]) \in Nat /\ Len(owed[s]) # 0
    BY <1>3
  <2> QED BY <2>2, <2>3, <2>4, <2>5
<1>6. step[s] \in Commands \cup {"message", "tell", "end"}
  BY <1>1, <1>5 DEF AtPlaces
<1>7. Len(owed[s]) > 0
  <2>1. \A n \in Nat \ {0} : n > 0
    OBVIOUS
  <2> QED BY <1>3, <2>1
<1>8. waiting' = waiting => waiting' = [waiting EXCEPT ![s] = waiting[s]]
  BY DEF FtpTyped
<1> QED BY <1>1, <1>2, <1>3, <1>4, <1>6, <1>7, <1>8

LEMMA AnswerStep ==
    ASSUME FtpInv, NEW s \in Ftp!Side, Ftp!Answer(s)
    PROVE  FtpInv'
<1>0. Ftp!TypeOK /\ FtpTyped /\ AtPlaces /\ Paced /\ Knows /\ Told /\ Ftp!EndsComplete /\ Ftp!AddressIsOwn
  BY DEF FtpInv
<1> DEFINE x == Head(owed[s])
           code == Ftp!CodeOf(x)
           o == owed'[s]
           r == replies'[s]
<1>1. /\ status = "running" /\ owed[s] # <<>> /\ ~ gone[s]
      /\ UNCHANGED <<place, types, bVerbose, step, waiting, gone, hTargetAddr, hSourcePort, inet_ntoa,
          linked, blocks,
                     uploaded, downloaded, status>>
  BY DEF Ftp!Answer, Ftp!Owes, Ftp!args, Ftp!pipes
<1>2. /\ closed' = closed /\ (listening' = listening \/ listening' = TRUE)
      /\ x = "transfer" => Transferred(s)
  BY DEF Ftp!Answer, Ftp!Done, Transferred
<1>3. owed' = [owed EXCEPT ![s] = (IF x \in {"RETR", "STOR"} THEN <<"transfer">> ELSE <<>>) \o Tail(owed[s])]
  BY DEF Ftp!Answer, Ftp!StillOwed
<1>4. /\ \/ replies' = [replies EXCEPT ![s] = Append(replies[s], code)]
         \/ replies' = [replies EXCEPT ![s] = replies[s] \o <<"other", code>>]
      /\ fault' = fault \/ fault' = TRUE
  BY DEF Ftp!Answer
<1>5. /\ owed' = [owed EXCEPT ![s] = o]
      /\ \/ x \in Transfers /\ o = <<"transfer">> \o Tail(owed[s])
         \/ x \notin Transfers /\ o = <<>> \o Tail(owed[s])
  BY <1>0, <1>3 DEF FtpTyped, Transfers
<1>6. /\ replies' = [replies EXCEPT ![s] = r]
      /\ r = Append(replies[s], code) \/ r = replies[s] \o <<"other", code>>
  BY <1>0, <1>4 DEF FtpTyped
<1>7. /\ place[s] = "server" /\ step[s] \in Commands \cup {"message", "tell", "end"}
      /\ Pace(step[s], waiting[s], owed[s], replies[s], gone[s])
      /\ owed[s] \in Seq(Commands) /\ replies[s] \in Seq(Replies)
      /\ Len(owed[s]) > 0 /\ x \in Commands
  BY <1>0, <1>1, Connected
<1>8. Pace(step[s], waiting[s], o, r, gone[s])
  <2> HIDE DEF o, r
  <2> QED BY <1>5, <1>6, <1>7, PaceAnswer DEF x, code
<1>9. code \in Replies /\ (code = "226" => x = "transfer")
  BY <1>7, Codes
<1> HIDE DEF o, r, x, code
<1>10. Fits(s, step[s], waiting[s], r)
  <2>1. Has(r, "226") => Has(replies[s], "226") \/ x = "transfer"
    BY <1>6, <1>7, <1>9, HasNoted
  <2>2. Transferred(s) => Transferred(s)'
    BY <1>1, <1>2 DEF Transferred
  <2>3. Has(replies[s], "226") \/ step[s] \in {"QUIT", "end"} => Transferred(s)
    BY <1>0, <1>7 DEF Knows
  <2>4. (waiting[s] => step[s] \in Commands) /\ (s = "target" => step[s] # "PASV")
    BY <1>0, <1>7 DEF AtPlaces
  <2> QED BY <1>2, <1>7, <2>1, <2>2, <2>3, <2>4 DEF Fits
<1>11. FtpTyped' /\ AtPlaces' /\ Paced' /\ Knows'
  <2>1. KeepsData
    BY <1>0, <1>1, <1>2, <1>4 DEF FtpTyped, KeepsData
  <2>2. Moves(s, step[s], waiting[s], o, r, gone[s])
    BY <1>0, <1>1, <1>5, <1>6 DEF FtpTyped, Moves
  <2> QED BY <1>0, <1>7, <1>8, <1>10, <2>1, <2>2, ServerSide
<1>12. Ftp!TypeOK' /\ Ftp!EndsComplete' /\ Ftp!AddressIsOwn'
  BY <1>0, <1>1, <1>2, <1>11, DataKept DEF Ftp!TypeOK, Ftp!AddressIsOwn
<1>13. Told'
  BY <1>0, <1>1 DEF Told
<1> QED BY <1>11, <1>12, <1>13 DEF FtpInv

LEMMA RefuseStep ==
    ASSUME FtpInv, NEW s \in Ftp!Side, Ftp!Refuse(s)
    PROVE  FtpInv'
<1>0. Ftp!TypeOK /\ FtpTyped /\ AtPlaces /\ Paced /\ Knows /\ Told /\ Ftp!EndsComplete /\ Ftp!AddressIsOwn
  BY DEF FtpInv
<1> DEFINE o == Tail(owed[s])
           r == replies'[s]
           g == gone'[s]
<1>1. /\ status = "running" /\ owed[s] # <<>> /\ ~ gone[s]
      /\ closed' = (closed \/ (Head(owed[s]) = "transfer" /\ s = "source"))
      /\ owed' = [owed EXCEPT ![s] = o]
      /\ \/ replies' = [replies EXCEPT ![s] = Append(replies[s], "other")] /\ gone' = gone
         \/ gone' = [gone EXCEPT ![s] = TRUE] /\ replies' = replies
      /\ UNCHANGED <<place, types, bVerbose, step, waiting, hTargetAddr, hSourcePort, inet_ntoa, listening,
          linked, blocks,
                     uploaded, downloaded, status>>
      /\ fault' = TRUE
  BY DEF Ftp!Refuse, Ftp!Owes, Ftp!args, Ftp!pipes
<1>2. /\ place[s] = "server" /\ step[s] \in Commands \cup {"message", "tell", "end"}
      /\ Pace(step[s], waiting[s], owed[s], replies[s], gone[s])
      /\ owed[s] \in Seq(Commands) /\ replies[s] \in Seq(Replies) /\ Len(owed[s]) > 0
  BY <1>0, <1>1, Connected
<1>3. /\ replies' = [replies EXCEPT ![s] = r] /\ gone' = [gone EXCEPT ![s] = g]
      /\ (r = Append(replies[s], "other") /\ g = gone[s]) \/ (r = replies[s] /\ g = TRUE)
  BY <1>0, <1>1 DEF FtpTyped
<1>4. Pace(step[s], waiting[s], o, r, g)
  <2> HIDE DEF r, g
  <2> QED BY <1>2, <1>3, PaceRefuse
<1> HIDE DEF o, r, g
<1>5. Has(r, "226") => Has(replies[s], "226")
  <2>1. "other" \in Replies
    BY DEF Replies
  <2>2. r = Append(replies[s], "other") => (Has(r, "226") => Has(replies[s], "226") \/ "other" = "226")
    BY <1>2, <2>1, HasNoted
  <2> QED BY <1>3, <2>2
<1>6. Fits(s, step[s], waiting[s], r)
  <2>1. Transferred(s) => Transferred(s)'
    BY <1>1 DEF Transferred
  <2>2. Has(replies[s], "226") \/ step[s] \in {"QUIT", "end"} => Transferred(s)
    BY <1>0, <1>2 DEF Knows
  <2>3. (waiting[s] => step[s] \in Commands) /\ (s = "target" => step[s] # "PASV")
    BY <1>0, <1>2 DEF AtPlaces
  <2> QED BY <1>2, <1>5, <2>1, <2>2, <2>3 DEF Fits
<1>7. FtpTyped' /\ AtPlaces' /\ Paced' /\ Knows'
  <2>1. KeepsData
    <3>1. place["source"] = "local" => s # "source"
      BY <1>2
    <3>2. closed' \in BOOLEAN /\ (closed => closed') /\ (s # "source" => closed' = closed)
      BY <1>0, <1>1 DEF FtpTyped
    <3> QED BY <1>0, <1>1, <3>1, <3>2 DEF FtpTyped, KeepsData
  <2>2. Moves(s, step[s], waiting[s], o, r, g)
    BY <1>0, <1>1, <1>3 DEF FtpTyped, Moves
  <2> QED BY <1>0, <1>2, <1>4, <1>6, <2>1, <2>2, ServerSide
<1>8. Ftp!TypeOK' /\ Ftp!EndsComplete' /\ Ftp!AddressIsOwn'
  BY <1>0, <1>1, <1>7, DataKept DEF Ftp!TypeOK, Ftp!AddressIsOwn
<1>9. Told'
  BY <1>0, <1>1 DEF Told
<1> QED BY <1>7, <1>8, <1>9 DEF FtpInv

LEMMA TransferStep ==
    ASSUME FtpInv, Ftp!Transfer
    PROVE  FtpInv'
<1>0. Ftp!TypeOK /\ FtpTyped /\ AtPlaces /\ Paced /\ Knows /\ Told /\ Ftp!EndsComplete /\ Ftp!AddressIsOwn
  BY DEF FtpInv
<1>1. PICK s \in Ftp!Side :
        /\ owed[s] # <<>>
        /\ \/ s = "target" /\ Ftp!ServerConnects
           \/ s = "source" /\ Ftp!ServerSends
           \/ s = "target" /\ Ftp!ServerReceives
  BY DEF Ftp!Transfer, Ftp!ServerConnects, Ftp!ServerSends, Ftp!ServerReceives, Ftp!Owing, Ftp!Side
<1>2. /\ UNCHANGED <<place, types, bVerbose, step, waiting, owed, replies, gone, hTargetAddr, hSourcePort,
          inet_ntoa,
                     listening, blocks, status, fault>>
      /\ linked => linked' /\ listening
      /\ linked' => listening
      /\ status = "running"
  BY <1>0, <1>1 DEF Ftp!ServerConnects, Ftp!ServerSends, Ftp!ServerReceives, Ftp!Owing, Ftp!args,
      Ftp!control, Ftp!pipes, Ftp!TypeOK
<1>3. place[s] = "server"
  BY <1>0, <1>1, Connected
<1>4. /\ linked' \in BOOLEAN /\ closed' \in BOOLEAN /\ uploaded' \in Nat /\ downloaded' \in Nat
      /\ downloaded' <= uploaded' /\ uploaded' <= blocks /\ (uploaded' > 0 => linked')
  <2>1. CASE Ftp!ServerConnects
    BY <1>0, <2>1 DEF Ftp!ServerConnects, FtpTyped, Ftp!TypeOK
  <2>2. CASE Ftp!ServerSends
    <3>1. linked' = linked /\ linked /\ downloaded' = downloaded
      BY <2>2 DEF Ftp!ServerSends
    <3>2. \/ uploaded < blocks /\ uploaded' = uploaded + 1 /\ closed' = closed
          \/ uploaded' = uploaded /\ closed' = TRUE
      BY <2>2 DEF Ftp!ServerSends
    <3>3. uploaded \in Nat /\ downloaded \in Nat /\ blocks \in Nat /\ downloaded <= uploaded /\
            uploaded <= blocks
      BY <1>0 DEF FtpTyped, Ftp!TypeOK
    <3>4. uploaded' \in Nat /\ downloaded' \in Nat /\ downloaded' <= uploaded' /\ uploaded' <= blocks
      BY <3>1, <3>2, <3>3
    <3>5. closed' \in BOOLEAN /\ linked' \in BOOLEAN
      BY <1>0, <3>1, <3>2 DEF FtpTyped
    <3> QED BY <3>1, <3>4, <3>5
  <2>3. CASE Ftp!ServerReceives
    <3>1. linked' = linked /\ uploaded' = uploaded /\ closed' = closed /\ downloaded' = downloaded + 1 /\
            downloaded < uploaded
      BY <2>3 DEF Ftp!ServerReceives
    <3>2. uploaded \in Nat /\ downloaded \in Nat /\ uploaded <= blocks
      BY <1>0 DEF FtpTyped, Ftp!TypeOK
    <3> QED BY <1>0, <3>1, <3>2 DEF FtpTyped, Ftp!TypeOK
  <2> QED BY <1>1, <2>1, <2>2, <2>3
<1>5. FtpTyped' /\ AtPlaces' /\ Paced'
  <2>1. /\ UNCHANGED <<place, types, bVerbose, waiting, owed, replies, gone>> /\ step' = step
        /\ listening' = listening /\ fault' = fault /\ blocks' = blocks
    BY <1>2
  <2>2. FtpTyped'
    BY <1>0, <1>4, <2>1 DEF FtpTyped
  <2>3. AtPlaces' /\ Paced'
    BY <1>0, <2>1 DEF AtPlaces, Paced
  <2> QED BY <2>2, <2>3
<1>6. Ftp!TypeOK' /\ Ftp!EndsComplete' /\ Ftp!AddressIsOwn'
  <2>1. hTargetAddr' \in BOOLEAN /\ hSourcePort' \in {"none", "source"} /\ status' \in {"running", "failed"}
    BY <1>0, <1>2 DEF Ftp!TypeOK, Ftp!AddressIsOwn
  <2>2. UNCHANGED <<place, types, blocks>> /\ (linked' => listening')
    BY <1>2
  <2> QED BY <1>0, <1>4, <1>5, <2>1, <2>2, DataKept
<1>7. Knows'
  <2>1. CASE Ftp!ServerConnects
    BY <1>0, <1>2, <2>1 DEF Ftp!ServerConnects, Knows, Transferred
  <2>2. CASE Ftp!ServerSends
    <3>1. ~ closed /\ UNCHANGED <<place, step, replies, linked>>
      BY <1>2, <2>2 DEF Ftp!ServerSends
    <3>2. \A t \in Ftp!Side : ~ Transferred(t)
      BY <3>1 DEF Transferred
    <3>3. place["source"] = "server"
      BY <1>0, <2>2, Connected DEF Ftp!ServerSends, Ftp!Owing, Ftp!Side
    <3> QED BY <1>0, <3>1, <3>2, <3>3 DEF Knows
  <2>3. CASE Ftp!ServerReceives
    <3>1. UNCHANGED <<place, step, replies, linked, uploaded, closed, blocks>> /\ downloaded < uploaded
      BY <1>2, <2>3 DEF Ftp!ServerReceives
    <3>2. ~ Transferred("target") /\ (Transferred("source") => Transferred("source")')
      <4>1. downloaded # uploaded
        BY <1>0, <3>1 DEF FtpTyped
      <4> QED BY <3>1, <4>1 DEF Transferred
    <3>3. place["target"] = "server"
      BY <1>0, <2>3, Connected DEF Ftp!ServerReceives, Ftp!Owing, Ftp!Side
    <3> QED BY <1>0, <3>1, <3>2, <3>3 DEF Knows, Ftp!Side
  <2> QED BY <1>1, <2>1, <2>2, <2>3
<1>8. Told'
  BY <1>0, <1>2 DEF Told
<1> QED BY <1>5, <1>6, <1>7, <1>8 DEF FtpInv

(* Local files. *)

Waits == UNCHANGED <<place, types, bVerbose, waiting, owed, replies, gone>>

LEMMA SourceStep ==
    ASSUME FtpInv, Ftp!Open \/ Ftp!Listen \/ Ftp!TellPort \/ Ftp!Accept \/ Ftp!Upload
    PROVE  FtpInv'
<1>0. Ftp!TypeOK /\ FtpTyped /\ AtPlaces /\ Paced /\ Knows /\ Told /\ Ftp!EndsComplete /\ Ftp!AddressIsOwn
  BY DEF FtpInv
<1>1. /\ place["source"] = "local" /\ status = "running" /\ status' = status /\ fault' = fault
      /\ UNCHANGED <<place, types, bVerbose, waiting, owed, replies, gone, hTargetAddr, linked, blocks,
          downloaded>>
  BY DEF Ftp!Open, Ftp!Listen, Ftp!TellPort, Ftp!Accept, Ftp!Upload, Ftp!Runs, Ftp!args, Ftp!control,
      Ftp!pipes, Ftp!data
<1>2. \/ /\ step["source"] = "open" /\ step' = [step EXCEPT !["source"] = "listen"]
         /\ UNCHANGED <<hSourcePort, inet_ntoa, listening, closed, uploaded>>
      \/ /\ step["source"] = "listen" /\ step' = [step EXCEPT !["source"] = "tell"] /\ hTargetAddr
         /\ listening' = TRUE /\ inet_ntoa' = "source"
         /\ UNCHANGED <<hSourcePort, closed, uploaded>>
      \/ /\ step["source"] = "tell" /\ step' = [step EXCEPT !["source"] = "accept"]
         /\ hSourcePort' = inet_ntoa
         /\ UNCHANGED <<inet_ntoa, listening, closed, uploaded>>
      \/ /\ step["source"] = "accept" /\ step' = [step EXCEPT !["source"] = "send"] /\ linked
         /\ UNCHANGED <<hSourcePort, listening, closed, uploaded>>
      \/ /\ step["source"] = "send" /\ step' = step /\ uploaded < blocks /\ uploaded' = uploaded + 1
         /\ UNCHANGED <<hSourcePort, inet_ntoa, listening, closed>>
      \/ /\ step["source"] = "send" /\ step' = [step EXCEPT !["source"] = "end"] /\ ~ (uploaded < blocks)
         /\ closed' = TRUE
         /\ UNCHANGED <<hSourcePort, inet_ntoa, listening, uploaded>>
  BY DEF Ftp!Open, Ftp!Listen, Ftp!TellPort, Ftp!Accept, Ftp!Upload, Ftp!Runs, Ftp!Goto, Ftp!args,
      Ftp!control, Ftp!pipes, Ftp!data
<1>3. step' \in [Ftp!Side -> Words] /\ step'["target"] = step["target"]
      /\ step'["source"] \in {"open", "listen", "tell", "accept", "send", "end"}
  BY <1>0, <1>2 DEF FtpTyped, Words, Ftp!Side
<1>4. /\ uploaded \in Nat /\ downloaded \in Nat /\ blocks \in Nat /\ downloaded <= uploaded /\
          uploaded <= blocks
      /\ (uploaded > 0 => linked) /\ (linked => listening)
      /\ (step["source"] = "send" => linked)
  BY <1>0, <1>1 DEF FtpTyped, Ftp!TypeOK, Knows
<1>5. uploaded' \in Nat /\ downloaded' <= uploaded' /\ uploaded' <= blocks /\ (uploaded' > 0 => linked)
  <2>1. CASE uploaded' = uploaded
    BY <1>1, <1>4, <2>1
  <2>2. CASE linked /\ uploaded < blocks /\ uploaded' = uploaded + 1
    BY <1>1, <1>4, <2>2
  <2>3. uploaded' = uploaded \/ (linked /\ uploaded < blocks /\ uploaded' = uploaded + 1)
    BY <1>2, <1>4
  <2> QED BY <2>1, <2>2, <2>3
<1>6. listening' \in BOOLEAN /\ closed' \in BOOLEAN /\ (listening => listening')
  BY <1>0, <1>2 DEF FtpTyped
<1>7. FtpTyped' /\ AtPlaces' /\ Paced'
  <2>1. \A t \in Ftp!Side : place[t] = "server" => step'[t] = step[t]
    BY <1>1, <1>3 DEF Ftp!Side
  <2>2. place["target"] = "local" => step'["target"] \in {"open", "link", "receive", "end"}
    BY <1>0, <1>3 DEF AtPlaces
  <2>3. \A t \in Ftp!Side : place[t] \in {"server", "local"}
    BY <1>0 DEF Ftp!TypeOK
  <2>4. linked' \in BOOLEAN /\ fault' \in BOOLEAN /\ blocks' \in Nat /\ downloaded' \in Nat
    BY <1>0, <1>1 DEF FtpTyped
  <2> QED BY <1>0, <1>1, <1>3, <1>5, <1>6, <2>1, <2>2, <2>3, <2>4, LocalSide
<1>8. hSourcePort' \in {"none", "source"}
  BY <1>0, <1>1, <1>2 DEF Told, Ftp!AddressIsOwn
<1>9. Ftp!TypeOK' /\ Ftp!EndsComplete' /\ Ftp!AddressIsOwn'
  <2>1. hTargetAddr' \in BOOLEAN /\ status' \in {"running", "failed"} /\ (linked' => listening') /\
          UNCHANGED <<place, types, blocks>>
    BY <1>0, <1>1, <1>4, <1>6 DEF Ftp!TypeOK
  <2>2. uploaded' > 0 => linked'
    BY <1>1, <1>5
  <2> QED BY <1>0, <1>5, <1>7, <1>8, <2>1, <2>2, DataKept
<1>10. Knows'
  <2>1. step["source"] # "end" /\ ~ closed
    BY <1>0, <1>1, <1>2 DEF Knows
  <2>2. \A t \in Ftp!Side : ~ Transferred(t)
    BY <2>1 DEF Transferred
  <2>3. \A t \in Ftp!Side : place[t] = "server" => step[t] \notin {"QUIT", "end"} /\
          ~ Has(replies[t], "226") /\ step'[t] = step[t]
    BY <1>0, <1>1, <1>3, <2>2 DEF Knows, Ftp!Side
  <2>4. /\ closed' <=> step'["source"] = "end"
        /\ step'["source"] = "end" => uploaded' = blocks
        /\ step'["source"] = "send" => linked
    <3>1. ~ (uploaded < blocks) => uploaded = blocks
      BY <1>4
    <3> QED BY <1>0, <1>2, <1>4, <2>1, <3>1 DEF FtpTyped, Ftp!Side
  <2>5. place["target"] = "local" => step'["target"] # "end"
    BY <1>0, <1>3, <2>1 DEF Knows
  <2> QED BY <1>1, <2>3, <2>4, <2>5 DEF Knows
<1>11. Told'
  <2>1. /\ step'["source"] \in {"open", "listen", "tell"} => hSourcePort' = "none"
        /\ step'["source"] = "tell" => hTargetAddr' /\ inet_ntoa' = "source"
    <3>1. step["source"] \in {"open", "listen", "tell"} => hSourcePort = "none"
      BY <1>0, <1>1 DEF Told
    <3>2. hTargetAddr' = hTargetAddr
      BY <1>1
    <3> QED BY <1>0, <1>2, <3>1, <3>2 DEF FtpTyped, Ftp!Side
  <2> QED BY <1>0, <1>1, <1>3, <2>1 DEF Told
<1> QED BY <1>7, <1>9, <1>10, <1>11 DEF FtpInv

LEMMA TargetStep ==
    ASSUME FtpInv, Ftp!Create \/ Ftp!Link \/ Ftp!Download
    PROVE  FtpInv'
<1>0. Ftp!TypeOK /\ FtpTyped /\ AtPlaces /\ Paced /\ Knows /\ Told /\ Ftp!EndsComplete /\ Ftp!AddressIsOwn
  BY DEF FtpInv
<1>1. /\ place["target"] = "local" /\ status = "running" /\ status' = status /\ fault' = fault
      /\ UNCHANGED <<place, types, bVerbose, waiting, owed, replies, gone, hSourcePort, listening, closed,
          blocks, uploaded>>
  BY DEF Ftp!Create, Ftp!Link, Ftp!Download, Ftp!Runs, Ftp!args, Ftp!control, Ftp!pipes, Ftp!data
<1>2. \/ /\ step["target"] = "open" /\ step' = [step EXCEPT !["target"] = "link"] /\ hTargetAddr' = TRUE
         /\ UNCHANGED <<inet_ntoa, linked, downloaded>>
      \/ /\ step["target"] = "link" /\ step' = [step EXCEPT !["target"] = "receive"] /\
             hSourcePort = "source" /\ listening
         /\ linked' = TRUE
         /\ UNCHANGED <<hTargetAddr, downloaded>>
      \/ /\ step["target"] = "receive" /\ step' = step /\ downloaded < uploaded /\ downloaded' = downloaded + 1
         /\ UNCHANGED <<hTargetAddr, inet_ntoa, linked>>
      \/ /\ step["target"] = "receive" /\ step' = [step EXCEPT !["target"] = "end"] /\
             downloaded = uploaded /\ closed
         /\ UNCHANGED <<hTargetAddr, inet_ntoa, linked, downloaded>>
  BY DEF Ftp!Create, Ftp!Link, Ftp!Download, Ftp!Runs, Ftp!Goto, Ftp!args, Ftp!control, Ftp!pipes, Ftp!data
<1>3. step' \in [Ftp!Side -> Words] /\ step'["source"] = step["source"] /\
        step'["target"] \in {"open", "link", "receive", "end"}
  BY <1>0, <1>2 DEF FtpTyped, Words, Ftp!Side
<1>4. /\ uploaded \in Nat /\ downloaded \in Nat /\ blocks \in Nat /\ downloaded <= uploaded /\
          uploaded <= blocks
      /\ (uploaded > 0 => linked) /\ (linked => listening)
  BY <1>0 DEF FtpTyped, Ftp!TypeOK
<1>5. downloaded' \in Nat /\ downloaded' <= uploaded
  <2>1. downloaded' = downloaded \/ (downloaded < uploaded /\ downloaded' = downloaded + 1)
    BY <1>2
  <2> QED BY <1>4, <2>1
<1>6. linked' \in BOOLEAN /\ (linked => linked') /\ (linked' => listening)
  <2>1. linked' = linked \/ (linked' = TRUE /\ listening)
    BY <1>2
  <2>2. linked \in BOOLEAN /\ (linked => listening)
    BY <1>0, <1>4 DEF FtpTyped
  <2>3. CASE linked' = linked
    BY <2>2, <2>3
  <2>4. CASE linked' = TRUE /\ listening
    BY <2>4
  <2> QED BY <2>1, <2>3, <2>4
<1>7. FtpTyped' /\ AtPlaces' /\ Paced'
  <2>1. \A t \in Ftp!Side : place[t] = "server" => step'[t] = step[t]
    BY <1>1, <1>3 DEF Ftp!Side
  <2>2. place["source"] = "local" => step'["source"] \in {"open", "listen", "tell", "accept", "send", "end"}
    BY <1>0, <1>3 DEF AtPlaces
  <2>3. \A t \in Ftp!Side : place[t] \in {"server", "local"}
    BY <1>0 DEF Ftp!TypeOK
  <2>4. listening' \in BOOLEAN /\ closed' \in BOOLEAN /\ fault' \in BOOLEAN /\ blocks' \in Nat /\
          uploaded' \in Nat
    BY <1>0, <1>1 DEF FtpTyped
  <2> QED BY <1>0, <1>1, <1>3, <1>5, <1>6, <2>1, <2>2, <2>3, <2>4, LocalSide
<1>8. Ftp!TypeOK' /\ Ftp!EndsComplete' /\ Ftp!AddressIsOwn'
  <2>1. hTargetAddr' \in BOOLEAN /\ hSourcePort' \in {"none", "source"} /\ status' \in {"running", "failed"}
    BY <1>0, <1>1, <1>2 DEF Ftp!TypeOK, Ftp!AddressIsOwn
  <2>2. uploaded' <= blocks /\ downloaded' <= uploaded' /\ (uploaded' > 0 => linked') /\ (linked' => listening')
    BY <1>1, <1>4, <1>5, <1>6
  <2> QED BY <1>0, <1>1, <1>7, <2>1, <2>2, DataKept
<1>9. Knows'
  <2>1. /\ Transferred("source") => Transferred("source")'
        /\ replies' = replies /\ place' = place /\ closed' = closed
    BY <1>1 DEF Transferred
  <2>2. place["source"] = "server" /\ (step'["source"] \in {"QUIT", "end"} \/
          Has(replies'["source"], "226")) => Transferred("source")'
    BY <1>0, <1>3, <2>1 DEF Knows, Ftp!Side
  <2>3. step'["target"] = "end" => closed /\ downloaded' = uploaded
    <3>1. step["target"] # "end"
      BY <1>2
    <3> QED BY <1>0, <1>2, <3>1 DEF FtpTyped, Ftp!Side
  <2>4. place["source"] = "local" =>
          (/\ closed' <=> step'["source"] = "end"
           /\ step'["source"] = "end" => uploaded' = blocks'
           /\ step'["source"] = "send" => linked')
    BY <1>0, <1>1, <1>3, <1>6 DEF Knows
  <2> QED BY <1>1, <2>2, <2>3, <2>4 DEF Knows, Ftp!Side
<1>10. Told'
  <2>1. place["source"] = "local" /\ step["source"] = "tell" => hTargetAddr' /\ inet_ntoa' = "source"
    BY <1>0, <1>2 DEF Told
  <2> QED BY <1>0, <1>1, <1>3, <2>1 DEF Told
<1> QED BY <1>7, <1>8, <1>9, <1>10 DEF FtpInv

LEMMA JoinStep ==
    ASSUME FtpInv, Ftp!Join
    PROVE  FtpInv'
<1>0. Ftp!TypeOK /\ FtpTyped /\ AtPlaces /\ Paced /\ Knows /\ Told /\ Ftp!EndsComplete /\ Ftp!AddressIsOwn
  BY DEF FtpInv
<1>1. /\ step["source"] = "end" /\ step["target"] = "end" /\ status' = "ok"
      /\ UNCHANGED <<Ftp!args, step, Ftp!control, Ftp!pipes, Ftp!data, fault>>
  BY DEF Ftp!Join, Ftp!Side
<1> USE DEF Ftp!args, Ftp!control, Ftp!pipes, Ftp!data
<1>2. FtpTyped' /\ AtPlaces' /\ Paced' /\ Knows' /\ Told' /\ Ftp!AddressIsOwn' /\ Ftp!TypeOK'
  BY <1>0, <1>1 DEF FtpTyped, AtPlaces, Paced, Knows, Transferred, Told, Ftp!AddressIsOwn, Ftp!TypeOK
<1>3. closed /\ downloaded = uploaded /\ uploaded = blocks
  <2>1. \A t \in Ftp!Side : place[t] = "server" => Transferred(t)
    BY <1>0, <1>1 DEF Knows, Ftp!Side
  <2>2. \A t \in Ftp!Side : place[t] \in {"server", "local"}
    BY <1>0 DEF Ftp!TypeOK
  <2>3. closed /\ uploaded = blocks
    <3>1. CASE place["source"] = "server"
      BY <2>1, <3>1 DEF Transferred, Ftp!Side
    <3>2. CASE place["source"] = "local"
      BY <1>0, <1>1, <3>2 DEF Knows
    <3> QED BY <2>2, <3>1, <3>2 DEF Ftp!Side
  <2>4. downloaded = uploaded
    <3>1. CASE place["target"] = "server"
      BY <2>1, <3>1 DEF Transferred, Ftp!Side
    <3>2. CASE place["target"] = "local"
      BY <1>0, <1>1, <3>2 DEF Knows
    <3> QED BY <2>2, <3>1, <3>2 DEF Ftp!Side
  <2> QED BY <2>3, <2>4
<1>4. Ftp!EndsComplete'
  BY <1>1, <1>3 DEF Ftp!EndsComplete
<1> QED BY <1>2, <1>4 DEF FtpInv

LEMMA FtpStep == FtpInv /\ [Ftp!Next]_(Ftp!vars) => FtpInv'
<1> SUFFICES ASSUME FtpInv, [Ftp!Next]_(Ftp!vars) PROVE FtpInv'
  OBVIOUS
<1>0. fault \in BOOLEAN
  BY DEF FtpInv, FtpTyped
<1>1. CASE UNCHANGED Ftp!vars
  <2>1. UNCHANGED <<Ftp!args, step, Ftp!control, Ftp!pipes, Ftp!data>> /\ fault' \in BOOLEAN /\ status' = status
    BY <1>0, <1>1 DEF Ftp!vars
  <2> QED BY <2>1, StayStep
<1>2. ASSUME NEW s \in Ftp!Side, Ftp!Connect(s) \/ Ftp!Message(s) \/ Ftp!Tell(s) \/ Ftp!Ask(s) \/
        Ftp!AskFails(s) \/ Ftp!Heed(s)
      PROVE  FtpInv'
  BY <1>2, ConnectStep, MessageStep, TellStep, AskStep, AskFailsStep, HeedStep
<1>3. ASSUME NEW s \in Ftp!Side, Ftp!Server(s) \/ Ftp!ConnectFails(s) \/ Ftp!LocalFails(s)
      PROVE  FtpInv'
  <2>1. CASE Ftp!Server(s)
    BY <2>1, AnswerStep, RefuseStep DEF Ftp!Server
  <2>2. CASE Ftp!ConnectFails(s) \/ Ftp!LocalFails(s)
    <3>1. status' = "failed" /\ fault' \in BOOLEAN /\ UNCHANGED <<Ftp!args, step, Ftp!control, Ftp!pipes,
            Ftp!data>>
      BY <2>2 DEF Ftp!ConnectFails, Ftp!LocalFails, Ftp!Exit
    <3> QED BY <3>1, StayStep
  <2> QED BY <1>3, <2>1, <2>2
<1>4. CASE Ftp!PasvThread
  BY <1>2, <1>4, SourceStep DEF Ftp!PasvThread, Ftp!Side
<1>5. CASE Ftp!PortThread
  BY <1>2, <1>5, TargetStep, JoinStep DEF Ftp!PortThread, Ftp!Side
<1>6. CASE Ftp!Transfer
  BY <1>6, TransferStep
<1> QED BY <1>1, <1>3, <1>4, <1>5, <1>6 DEF Ftp!Next
-----------------------------------------------------------------------------
(* One of the programs runs. *)

LEMMA OneRuns ==
    ASSUME [Restore(Next) \/ Copy(Raw!Next) \/ Fetch(Ftp!Next)]_mcvars
    PROVE  /\ running' = running
           /\ running = "rawcopy" => [Raw!Next]_(Raw!vars)
           /\ running = "ftpcp" => [Ftp!Next]_(Ftp!vars)
<1>1. CASE UNCHANGED mcvars
  BY <1>1 DEF mcvars, rawonly, ftponly, Raw!vars, Raw!given, Raw!history, Ftp!vars, Ftp!args, Ftp!control, Ftp!pipes,
      Ftp!data
<1> QED
  BY <1>1 DEF Restore, Copy, Fetch

(* Whatever the buffer, the arguments and the two files, and however reads and writes
   fail: without a lost block the output is what writing all that was read would have
   made of it, though blocks of zeroes and blocks that it has are not written. *)
THEOREM SkippingIsWriting == MCSpec => []AsWritten
<1> DEFINE I == running = "rawcopy" => RawInv
<1>1. MCInit => I
  BY RawInit DEF MCInit
<1>2. I /\ [Restore(Next) \/ Copy(Raw!Next) \/ Fetch(Ftp!Next)]_mcvars => I'
  BY OneRuns, RawStep
<1>3. I => AsWritten
  BY RawDone DEF AsWritten
<1> QED
  BY <1>1, <1>2, <1>3, PTL DEF MCSpec

(* Unless the system refuses a read as invalid, which the program takes for the end of
   the input, or a block is lost in writing: a copy that ends well has read all that was
   asked for and no more, and with -a the image has the size of the volume.  Every word
   that was read comes from its place in the source, also after errors that were
   ignored; those leave zeroes. *)
THEOREM AllIsCopied == MCSpec => []CopiedAsAsked
<1> DEFINE I == running = "rawcopy" => RawInv
<1>1. MCInit => I
  BY RawInit DEF MCInit
<1>2. I /\ [Restore(Next) \/ Copy(Raw!Next) \/ Fetch(Ftp!Next)]_mcvars => I'
  BY OneRuns, RawStep
<1>3. I => CopiedAsAsked
  BY RawDone DEF CopiedAsAsked
<1> QED
  BY <1>1, <1>2, <1>3, PTL DEF MCSpec

(* For a file of any length, two ends of any kind, and servers that answer, refuse,
   hang up or send a line too many at any time: ftpcp ends well only when the target
   has the whole file, and the target is told the address of the source. *)
THEOREM FtpEndsComplete == MCSpec => []FtpCopyIsRight
<1> DEFINE I == running = "ftpcp" => FtpInv
<1>1. MCInit => I
  BY FtpInit DEF MCInit
<1>2. I /\ [Restore(Next) \/ Copy(Raw!Next) \/ Fetch(Ftp!Next)]_mcvars => I'
  BY OneRuns, FtpStep
<1>3. I => FtpCopyIsRight
  BY DEF FtpInv, FtpCopyIsRight
<1> QED
  BY <1>1, <1>2, <1>3, PTL DEF MCSpec
==============================================================================
