----------------------------- MODULE BackupCopy ------------------------------
(***************************************************************************)
(* Copying a file during a restore when it could not be hard linked        *)
(* (BackupCopyFile): a thread reads the source into a pipe from which the  *)
(* main thread writes the target, while an archive filter (-z) may be      *)
(* writing the rest of the archive into another pipe.                      *)
(***************************************************************************)
EXTENDS Naturals

CONSTANTS
    MaxBlocks,        \* bound on the blocks of the source file's stream
    Capacity,         \* blocks that the copy pipe holds
    Rest,             \* blocks the filter has still to write, 0 without -z
    ArchiveCapacity,  \* blocks that the pipe of the filter holds
    ReadFails, WriteFails  \* whether BackupRead and BackupWrite may fail

ASSUME CopyAssumption ==
    /\ {MaxBlocks, Rest} \subseteq Nat
    /\ {Capacity, ArchiveCapacity} \subseteq Nat \ {0}
    /\ {ReadFails, WriteFails} \subseteq BOOLEAN

VARIABLES
    size,         \* blocks of the source
    left,         \* blocks not yet in the pipe
    pipe,         \* blocks in the copy pipe
    writeEnd,     \* whether the write end of the copy pipe is open
    got, written, \* blocks the main thread has read and has written
    bSeekOnly,    \* the target is gone, the rest is read and thrown away
    reader, readOK,
    main, writeOK,
    filterLeft, archivePipe

copyVars == <<size, left, pipe, got, written>>
vars == <<copyVars, writeEnd, bSeekOnly, reader, readOK, main, writeOK,
          filterLeft, archivePipe>>

TypeOK ==
    /\ size \in 0 .. MaxBlocks
    /\ left \in 0 .. MaxBlocks
    /\ pipe \in 0 .. Capacity
    /\ got \in 0 .. MaxBlocks
    /\ written \in 0 .. MaxBlocks
    /\ writeEnd \in BOOLEAN
    /\ bSeekOnly \in BOOLEAN
    /\ readOK \in BOOLEAN
    /\ writeOK \in BOOLEAN
    /\ reader \in {"read", "write", "delete", "exited"}
    /\ main \in {"copy", "join", "archive", "done", "raised"}
    /\ filterLeft \in 0 .. Rest
    /\ archivePipe \in 0 .. ArchiveCapacity

Init ==
    /\ size \in 0 .. MaxBlocks
    /\ left = size
    /\ pipe = 0
    /\ writeEnd = TRUE
    /\ got = 0
    /\ written = 0
    /\ bSeekOnly = FALSE
    /\ reader = "read"
    /\ readOK = TRUE
    /\ main = "copy"
    /\ writeOK = TRUE
    /\ filterLeft = Rest
    /\ archivePipe = 0
-----------------------------------------------------------------------------
\* An exception ends the program with all its threads.
Running == main # "raised"

(* SourceReadThread. *)

ReadBlock ==
    /\ Running
    /\ reader = "read"
    /\ left > 0
    /\ reader' = "write"
    /\ UNCHANGED <<copyVars, writeEnd, bSeekOnly, readOK, main, writeOK,
                   filterLeft, archivePipe>>

\* Defect.
EndOfRead_KeepingEnd ==
    /\ Running
    /\ reader = "read"
    /\ \/ left = 0 /\ UNCHANGED readOK
       \/ left > 0 /\ ReadFails /\ readOK' = FALSE
    /\ reader' = "delete"
    /\ UNCHANGED <<copyVars, writeEnd, bSeekOnly, main, writeOK, filterLeft,
                   archivePipe>>

\* ReadFileStreamsToArchive returns and the session is deleted, which closes
\* its end of the pipe.
EndOfRead ==
    /\ Running
    /\ reader = "read"
    /\ \/ left = 0 /\ UNCHANGED readOK
       \/ left > 0 /\ ReadFails /\ readOK' = FALSE
    /\ reader' = "delete"
    /\ writeEnd' = FALSE
    /\ UNCHANGED <<copyVars, bSeekOnly, main, writeOK, filterLeft, archivePipe>>

WriteBlock ==
    /\ Running
    /\ reader = "write"
    /\ pipe < Capacity
    /\ pipe' = pipe + 1
    /\ left' = left - 1
    /\ reader' = "read"
    /\ UNCHANGED <<size, got, written, writeEnd, bSeekOnly, readOK, main,
                   writeOK, filterLeft, archivePipe>>

\* The destructor of the session, a copy of the restoring one with its
\* piFilter, waits for the filter too.
FilterExited == filterLeft = 0

ExitThread ==
    /\ Running
    /\ reader = "delete"
    /\ FilterExited
    /\ reader' = "exited"
    /\ UNCHANGED <<copyVars, writeEnd, bSeekOnly, readOK, main, writeOK,
                   filterLeft, archivePipe>>

Reader == ReadBlock \/ EndOfRead \/ WriteBlock \/ ExitThread
-----------------------------------------------------------------------------
(* The main thread. *)

CopyBlock ==
    /\ main = "copy"
    /\ pipe > 0
    /\ pipe' = pipe - 1
    /\ got' = got + 1
    /\ written' = IF bSeekOnly THEN written ELSE written + 1
    /\ UNCHANGED <<size, left, writeEnd, bSeekOnly, reader, readOK, main,
                   writeOK, filterLeft, archivePipe>>

\* Defect.
FirstWriteFails_WritingOn ==
    /\ WriteFails
    /\ main = "copy"
    /\ pipe > 0
    /\ got = 0
    /\ pipe' = pipe - 1
    /\ got' = 1
    /\ UNCHANGED <<size, left, written, writeEnd, bSeekOnly, reader, readOK, main,
                   writeOK, filterLeft, archivePipe>>

\* After a failure with the first block of a stream the others are read and
\* thrown away.
FirstWriteFails ==
    /\ WriteFails
    /\ main = "copy"
    /\ pipe > 0
    /\ got = 0
    /\ pipe' = pipe - 1
    /\ got' = 1
    /\ bSeekOnly' = TRUE
    /\ UNCHANGED <<size, left, written, writeEnd, reader, readOK, main, writeOK,
                   filterLeft, archivePipe>>

\* Defect.
LaterWriteFails_AnyBlock ==
    /\ WriteFails
    /\ main = "copy"
    /\ pipe > 0
    /\ ~ bSeekOnly
    /\ pipe' = pipe - 1
    /\ got' = got + 1
    /\ writeOK' = FALSE
    /\ main' = "join"
    /\ UNCHANGED <<size, left, written, writeEnd, bSeekOnly, reader, readOK,
                   filterLeft, archivePipe>>

\* After a failure with a later one nothing more is read.
LaterWriteFails ==
    /\ WriteFails
    /\ main = "copy"
    /\ pipe > 0
    /\ got > 0
    /\ ~ bSeekOnly
    /\ pipe' = pipe - 1
    /\ got' = got + 1
    /\ writeOK' = FALSE
    /\ main' = "join"
    /\ UNCHANGED <<size, left, written, writeEnd, bSeekOnly, reader, readOK,
                   filterLeft, archivePipe>>

\* The end of the pipe between two streams ends the copy, within one it raises
\* XE_ARCHIVE_TRUNC, which ends the program.
EndOfCopy ==
    /\ main = "copy"
    /\ pipe = 0
    /\ ~ writeEnd
    /\ main' = IF got \in {0, size} THEN "join" ELSE "raised"
    /\ UNCHANGED <<copyVars, writeEnd, bSeekOnly, reader, readOK, writeOK,
                   filterLeft, archivePipe>>

\* GetSourceReadThreadResult, then the destructor of the other session.
Join ==
    /\ main = "join"
    /\ reader = "exited"
    /\ FilterExited
    /\ main' = "archive"
    /\ UNCHANGED <<copyVars, writeEnd, bSeekOnly, reader, readOK, writeOK,
                   filterLeft, archivePipe>>

\* The restore goes on with the next entry.
ReadArchive ==
    /\ main = "archive"
    /\ \/ archivePipe > 0 /\ archivePipe' = archivePipe - 1 /\ UNCHANGED main
       \/ archivePipe = 0 /\ FilterExited /\ main' = "done" /\ UNCHANGED archivePipe
    /\ UNCHANGED <<copyVars, writeEnd, bSeekOnly, reader, readOK, writeOK, filterLeft>>

Main ==
    \/ CopyBlock
    \/ FirstWriteFails
    \/ LaterWriteFails
    \/ EndOfCopy
    \/ Join
    \/ ReadArchive

\* The filter utility.
Filter ==
    /\ Running
    /\ filterLeft > 0
    /\ archivePipe < ArchiveCapacity
    /\ filterLeft' = filterLeft - 1
    /\ archivePipe' = archivePipe + 1
    /\ UNCHANGED <<copyVars, writeEnd, bSeekOnly, reader, readOK, main, writeOK>>

Next == Reader \/ Main \/ Filter

Spec == Init /\ [][Next]_vars
FairSpec == Spec /\ WF_vars(Reader) /\ WF_vars(Main) /\ WF_vars(Filter)
-----------------------------------------------------------------------------
(* What BackupCopyFile returns. *)
Succeeded == main \in {"archive", "done"} /\ readOK /\ writeOK

(* A copy that is reported as done, and whose target is still there, has every
   block of the source. *)
SuccessIsComplete == Succeeded /\ ~ bSeekOnly => written = size

(* There is always a thread or the filter that can go on, until the restore is
   over. *)
SomebodyCanGoOn ==
    \/ main \in {"done", "raised"}
    \/ reader = "read"
    \/ reader = "write" /\ pipe < Capacity
    \/ reader = "delete" /\ FilterExited
    \/ main = "copy" /\ (pipe > 0 \/ ~ writeEnd)
    \/ main = "join" /\ reader = "exited" /\ FilterExited
    \/ main = "archive" /\ (archivePipe > 0 \/ FilterExited)
    \/ filterLeft > 0 /\ archivePipe < ArchiveCapacity

(* The copy and the restore around it come to an end. *)
RestoreEnds == <>(main \in {"done", "raised"})
==============================================================================
