----------------------------- MODULE TruncTail -----------------------------
(***************************************************************************)
(* trunczerotail: reads a file backwards, block by block, until it finds a *)
(* byte that is not zero, and sets the end of the file after that block.   *)
(* The file is shared: other programs may write to it meanwhile.           *)
(***************************************************************************)
EXTENDS Integers, Sequences, FiniteSetsExt

CONSTANTS
    STDBUFSIZ,     \* 512
    BIGBUFSIZ,     \* sizes that -m may ask for
    TruncSources   \* files; 1 is a byte that is not zero

VARIABLES
    contents,     \* of the file
    before,       \* the file as it was opened, or as others have written it
    bufsiz,
    capacity,     \* size of the buffer
    reads,        \* where the loop is
    existing_out_file_size, current_out_pointer,
    pointer,      \* of the file
    shared,       \* another program has written to the file
    result

sizes == <<bufsiz, capacity, existing_out_file_size>>
vars == <<contents, before, sizes, reads, current_out_pointer, pointer, shared, result>>

\* The powers of two from 2^9 to 2^31.
Power[i \in 0 .. 22] == IF i = 0 THEN STDBUFSIZ ELSE 2 * Power[i - 1]
Powers == {Power[i] : i \in DOMAIN Power}

\* The size is a DWORD.
BlocksAssumption ==
    /\ STDBUFSIZ \in Nat \ {0} /\ BIGBUFSIZ \subseteq Nat
    /\ \A n \in BIGBUFSIZ : n < 2 * Power[22]
    /\ TruncSources \subseteq Seq({0, 1})

\* -m:n rounded to blocks of 512 and then down to a power of two.
Rounded(n) == CHOOSE p \in Powers : (p <= n /\ n < 2 * p) \/ (n < p /\ p = STDBUFSIZ)

\* Defect.
Padding_Never(size, b) == 0
\* From the end of the file to the end of its last block.
Padding(size, b) == IF size % b = 0 THEN 0 ELSE b - (size % b)

Init ==
    /\ contents \in TruncSources /\ before = contents
    /\ \E m \in BIGBUFSIZ \cup {0} :
        /\ bufsiz = Rounded(m)
        /\ capacity \in {STDBUFSIZ} \cup (IF m = 0 THEN {} ELSE {bufsiz})
    /\ existing_out_file_size = Len(contents)
    /\ current_out_pointer = Len(contents) + Padding(Len(contents), bufsiz)
    /\ pointer = current_out_pointer
    /\ reads = "back" /\ shared = FALSE /\ result = "none"

TypeOK ==
    /\ reads \in {"back", "read", "decide", "end"}
    /\ pointer \in 0 .. existing_out_file_size + bufsiz
    /\ current_out_pointer \in 0 .. pointer
    /\ bufsiz \in Powers
    /\ result \in {"none", "kept", "truncated", "crashed", "failed"}

Back ==
    /\ reads = "back"
    /\ IF current_out_pointer < bufsiz
       THEN reads' = "decide" /\ UNCHANGED <<current_out_pointer, pointer>>
       ELSE /\ pointer' = pointer - bufsiz
            /\ current_out_pointer' = pointer'
            /\ reads' = "read"
    /\ UNCHANGED <<contents, before, sizes, shared, result>>

Ends(how) ==
    /\ reads' = "end" /\ result' = how
    /\ UNCHANGED <<contents, before, sizes, current_out_pointer, pointer, shared>>

AllZero(s) == \A i \in DOMAIN s : s[i] = 0
BlockRead == SubSeq(contents, pointer + 1, Min({pointer + bufsiz, Len(contents)}))

\* Defect.
AfterData_GoingBack == pointer
\* Where the pointer is after a block with data.
AfterData == pointer + Len(BlockRead)

\* Defect.
AfterZeroes_GoingOn == pointer + Len(BlockRead)
\* It goes back over a block of zeroes.
AfterZeroes == pointer

ReadBlock ==
    /\ reads = "read" /\ Len(BlockRead) \in 1 .. capacity
    /\ \/ /\ AllZero(BlockRead)
          /\ pointer' = AfterZeroes /\ current_out_pointer' = pointer'
          /\ reads' = "back"
       \/ /\ ~ AllZero(BlockRead)
          /\ pointer' = AfterData /\ UNCHANGED current_out_pointer
          /\ reads' = "decide"
    /\ UNCHANGED <<contents, before, sizes, shared, result>>

\* The size of the buffer is not reduced when the large one cannot be allocated.
Overrun == reads = "read" /\ Len(BlockRead) > capacity /\ Ends("crashed")

\* A call fails, or nothing is there to be read.
Fails == reads # "end" /\ Ends("failed")

Worthwhile == current_out_pointer + bufsiz < existing_out_file_size

SetEnd ==
    /\ reads = "decide" /\ Worthwhile
    /\ contents' = SubSeq(contents, 1, pointer)
    /\ reads' = "end" /\ result' = "truncated"
    /\ UNCHANGED <<before, sizes, current_out_pointer, pointer, shared>>

Keep == reads = "decide" /\ ~ Worthwhile /\ Ends("kept")

\* Another program writes at the end of the file.
Share ==
    /\ reads # "end" /\ ~ shared
    /\ contents' = Append(contents, 1) /\ before' = contents'
    /\ shared' = TRUE
    /\ UNCHANGED <<sizes, reads, current_out_pointer, pointer, result>>

Program == Back \/ ReadBlock \/ Overrun \/ SetEnd \/ Keep
Next == Program \/ Fails \/ Share
-----------------------------------------------------------------------------
End == LET data == {i \in DOMAIN before : before[i] # 0}
       IN  IF data = {} THEN 0 ELSE CHOOSE i \in data : \A j \in data : j <= i

(* If nobody else writes, only zeroes are cut off. *)
OnlyZeroesCut ==
    ~ shared => /\ contents = SubSeq(before, 1, Len(contents))
                /\ Len(contents) >= End

(* If nobody else writes, less than a block of zeroes is left, but for a file that is
   a single block. *)
TailIsCut ==
    (~ shared /\ result \in {"kept", "truncated"} /\ existing_out_file_size > bufsiz) =>
        Len(contents) - End < bufsiz

(* The program ends. *)
TruncEnds == <>(reads = "end")
==============================================================================
