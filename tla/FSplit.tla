------------------------------- MODULE FSplit -------------------------------
(***************************************************************************)
(* fsplitw: cuts a file into numbered parts that fit into a buffer, and    *)
(* into what is free on a disk; when a disk is full the part is cut there, *)
(* the rest of the buffer moves down and is filled up, and the user is     *)
(* asked for another disk.                                                 *)
(***************************************************************************)
EXTENDS Integers, Sequences, SequencesExt, FiniteSetsExt

CONSTANTS
    Sector,     \* 512
    Modulus,    \* 2^32
    FileSizes, BufSizes, \* of the file and of its parts; a part is whole sectors
    Frees,      \* what may be free on a disk, in whole sectors
    MaxDisks    \* bound on how often the user changes the disk or makes room

BoundsAssumption ==
    /\ {Sector, Modulus} \subseteq Nat \ {0} /\ Modulus % Sector = 0
    /\ FileSizes \subseteq Nat
    /\ \A b \in BufSizes : b < Modulus
    /\ \A n \in BufSizes \cup Frees : n \in Nat /\ n % Sector = 0

VARIABLES
    FileSize, dwBufSize,
    does,        \* where DoSplitFile is
    pos,         \* what has been read of the file, which is <<1, 2, ...>>
    lpBuffer,    \* the dwBytesRead bytes at the start of the buffer
    dwRetryLen, dwFileCounter, FilePos,
    parts,       \* contents of the parts, by number
    free, disks, \* bytes free on the disk, and how many disks there have been
    ended        \* how it has ended

file == <<FileSize, dwBufSize>>
disk == <<parts, free, disks>>
vars == <<file, does, pos, lpBuffer, dwRetryLen, dwFileCounter, FilePos, disk, ended>>

Init ==
    /\ FileSize \in FileSizes /\ dwBufSize \in BufSizes
    /\ does = "open"
    /\ pos = 0 /\ lpBuffer = <<>>
    /\ dwRetryLen = 0 /\ dwFileCounter = 0 /\ FilePos = 0
    /\ parts = <<>> /\ free \in Frees /\ disks = 1
    /\ ended = "not yet"

TypeOK ==
    /\ does \in {"open", "read", "create", "write", "prompt", "end"}
    /\ pos \in 0 .. FileSize
    /\ Len(lpBuffer) <= dwBufSize
    /\ dwRetryLen \in 0 .. Modulus - 1
    /\ dwFileCounter \in {Len(parts), Len(parts) + 1}
    /\ free \in Nat
    /\ (ended = "not yet") = (does # "end")

Bytes(from, to) == [i \in 1 .. to - from |-> from + i]
Least(a, b) == Min({a, b})

End(how) == does' = "end" /\ ended' = how

Open ==
    /\ does = "open"
    /\ IF dwBufSize = 0 THEN End("crashed") ELSE does' = "read" /\ UNCHANGED ended
    /\ UNCHANGED <<file, pos, lpBuffer, dwRetryLen, dwFileCounter, FilePos, disk>>

Read ==
    /\ does = "read" /\ pos < FileSize
    /\ pos' = Least(FileSize, pos + dwBufSize)
    /\ lpBuffer' = Bytes(pos, pos')
    /\ dwFileCounter' = dwFileCounter + 1
    /\ does' = "create"
    /\ UNCHANGED <<file, dwRetryLen, FilePos, disk, ended>>

Finish ==
    /\ does = "read" /\ pos = FileSize
    /\ End(IF FilePos = FileSize THEN "done" ELSE "not complete")
    /\ UNCHANGED <<file, pos, lpBuffer, dwRetryLen, dwFileCounter, FilePos, disk>>

Create ==
    /\ does = "create"
    /\ parts' = Append(parts, <<>>)
    /\ dwRetryLen' = Len(lpBuffer)
    /\ does' = "write"
    /\ UNCHANGED <<file, pos, lpBuffer, dwFileCounter, FilePos, free, disks, ended>>

\* The length is unsigned.
Less == (dwRetryLen - Sector) % Modulus

\* A write without enough room fails, and less is tried.
Retry ==
    /\ does = "write" /\ dwRetryLen > free
    /\ dwRetryLen' = Less
    /\ UNCHANGED <<file, does, pos, lpBuffer, dwFileCounter, FilePos, disk, ended>>

\* Defect: the bytes that are written stay at the bottom of the buffer.
Rest_FromBottom(n) == SubSeq(lpBuffer, 1, Len(lpBuffer) - n)
Rest(n) == SubSeq(lpBuffer, n + 1, Len(lpBuffer))

\* Defect: a part that has been deleted keeps its number.
Counted_Always(n) == dwFileCounter + 1
Counted(n) == IF n = 0 THEN dwFileCounter ELSE dwFileCounter + 1

\* What n bytes take on a disk.
InSectors(n) == n + ((-n) % Sector)

\* Defect: without a question if nothing has been written.
AskDisk_IfWritten(n) == IF n = 0 THEN "create" ELSE "prompt"
AskDisk(n) == "prompt"

\* n bytes have been written.  If it is less than the buffer, the disk is full: the
\* rest moves down and the buffer is filled up from the file.
Written(n) ==
    /\ free' = free - InSectors(n)
    /\ FilePos' = FilePos + n
    /\ parts' = IF n = 0 THEN Front(parts)
                ELSE Append(Front(parts), SubSeq(lpBuffer, 1, n))
    /\ IF n = Len(lpBuffer)
       THEN does' = "read" /\ UNCHANGED <<pos, lpBuffer, dwFileCounter>>
       ELSE /\ dwFileCounter' = Counted(n)
            /\ pos' = Least(FileSize, pos + n)
            /\ lpBuffer' = Rest(n) \o Bytes(pos, pos')
            /\ does' = AskDisk(n)
    /\ UNCHANGED <<file, dwRetryLen, disks, ended>>

\* A full disk is also told by a count that is too low.
Write ==
    /\ does = "write"
    /\ \/ dwRetryLen <= free /\ dwRetryLen <= Len(lpBuffer) /\ Written(dwRetryLen)
       \/ free < dwRetryLen /\ free < Len(lpBuffer) /\ Written(free)

\* More than the buffer is written, and less than nothing is left of it.
Overrun ==
    /\ does = "write" /\ dwRetryLen <= free /\ dwRetryLen > Len(lpBuffer)
    /\ End("crashed")
    /\ UNCHANGED <<file, pos, lpBuffer, dwRetryLen, dwFileCounter, FilePos, disk>>

\* The user goes on, with another disk or with this one.
Continue ==
    /\ does = "prompt"
    /\ \/ disks < MaxDisks /\ disks' = disks + 1 /\ free' \in Frees
       \/ UNCHANGED <<free, disks>>
    /\ does' = "create"
    /\ UNCHANGED <<file, pos, lpBuffer, dwRetryLen, dwFileCounter, FilePos, parts, ended>>

\* The user makes room while the program tries.
MakeRoom ==
    /\ does = "write" /\ disks < MaxDisks
    /\ disks' = disks + 1
    /\ \E f \in Frees : f > free /\ free' = f
    /\ UNCHANGED <<file, does, pos, lpBuffer, dwRetryLen, dwFileCounter, FilePos, parts, ended>>

\* The user cancels, or a call fails and the user does not want it retried.
Cancel ==
    /\ does # "end"
    /\ End("cancelled")
    /\ UNCHANGED <<file, pos, lpBuffer, dwRetryLen, dwFileCounter, FilePos, disk>>

DoSplitFile == Open \/ Read \/ Finish \/ Create \/ Retry \/ Write \/ Overrun \/ Continue
Next == DoSplitFile \/ MakeRoom \/ Cancel

Spec == Init /\ [][Next]_vars /\ WF_vars(DoSplitFile)
-----------------------------------------------------------------------------
(* The parts, one after the other, and what waits in the buffer are what has been read
   of the file: cutting a part at the end of a disk neither loses nor repeats data. *)
PartsInOrder ==
    ended \notin {"crashed", "cancelled"} =>
        FlattenSeq(parts) \o (IF does \in {"create", "write", "prompt"} THEN lpBuffer ELSE <<>>)
            = Bytes(0, pos)

(* A split that is done has the whole file in parts that are not empty, numbered
   without a gap. *)
SplitIsWhole ==
    ended = "done" =>
        /\ FlattenSeq(parts) = Bytes(0, FileSize)
        /\ dwFileCounter = Len(parts)
        /\ \A i \in DOMAIN parts : Len(parts[i]) \in 1 .. dwBufSize

(* If the file is whole sectors the program ends or comes back to ask for a disk. *)
SplitGoesOn ==
    (does = "write" /\ FileSize % Sector = 0) ~> does \in {"read", "prompt", "end"}

(* Whatever its size: the user is asked when a disk is full. *)
FullDiskAsks == does = "write" ~> does \in {"read", "prompt", "end"}
==============================================================================
