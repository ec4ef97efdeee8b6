------------------------------- MODULE MCCopy -------------------------------
(***************************************************************************)
(* The programs that copy data block by block, of which a behaviour runs   *)
(* one: the copy of a file during a restore of strarc, rawcopy and ftpcp.  *)
(***************************************************************************)
EXTENDS BackupCopy, Sequences

CONSTANTS Buf, Lengths, Skips, Offsets, MaxRetries, MaxImage, FtpBlocks

VARIABLES
    running,
    opt, removed, pc, at, out, pos, buffer, readbytes, writtenblocks, retries, image, holes, lost, refused,
    place, types, bVerbose, step, waiting, owed, replies, gone, hTargetAddr, hSourcePort,
    inet_ntoa, listening, linked, closed, blocks, uploaded, downloaded, status, fault

\* 1 is a word of data.  A device with zeroes within, one with zeroes first, and
\* one that is shorter than the buffer.
Sources == {<<1, 0, 0, 1, 0>>, <<0, 0, 1, 1>>, <<1>>}
\* No output file, one that ends within the second block, one that is longer.
Befores == {<<>>, <<1, 1, 0>>, <<0, 0, 1, 1, 1, 0>>}

Raw == INSTANCE RawCopy

ASSUME RawNumbers == Raw!NumbersAssumption

Ftp == INSTANCE FtpCp WITH MaxBlocks <- FtpBlocks, at <- step, size <- blocks

ASSUME FtpBounds == Ftp!BlocksAssumption

rawonly ==
    <<opt, removed, pc, at, out, pos, buffer, readbytes, writtenblocks, retries, image, holes, lost, refused>>
ftponly ==
    <<place, types, bVerbose, step, waiting, owed, replies, gone, hTargetAddr, hSourcePort,
      inet_ntoa, listening, linked, closed, blocks, uploaded, downloaded, status, fault>>
mcvars == <<running, vars, rawonly, ftponly>>

\* Steps of one of the programs.
Restore(A) == running = "strarc" /\ A /\ UNCHANGED <<running, rawonly, ftponly>>
Copy(A) == running = "rawcopy" /\ A /\ UNCHANGED <<running, vars, ftponly>>
Fetch(A) == running = "ftpcp" /\ A /\ UNCHANGED <<running, vars, rawonly>>

\* rawcopy without a switch.
Plain ==
    [source |-> <<1>>, before |-> <<>>, copylength |-> 0, skip |-> 0, offset |-> 0, disk |-> 0,
     retrycount |-> 0, ignore |-> FALSE, sparse |-> FALSE, differential |-> FALSE,
     adjust |-> FALSE, pipe |-> FALSE]

MCInit ==
    /\ running \in {"strarc", "rawcopy", "ftpcp"}
    /\ Init
    /\ running # "strarc" => size = 0
    /\ IF running = "rawcopy" THEN Raw!Init ELSE Raw!Init /\ opt = Plain
    /\ Ftp!Init
    /\ running # "ftpcp" =>
        types = {} /\ ~ bVerbose /\ blocks = 0 /\ \A s \in Ftp!Side : place[s] = "local"

MCSpec ==
    /\ MCInit
    /\ [][Restore(Next) \/ Copy(Raw!Next) \/ Fetch(Ftp!Next)]_mcvars
    /\ WF_mcvars(Restore(Reader) \/ Fetch(Ftp!PasvThread))
    /\ WF_mcvars(Restore(Main) \/ Copy(Raw!Program) \/ Fetch(Ftp!PortThread))
    /\ WF_mcvars(Restore(Filter) \/ Fetch(Ftp!Transfer))
    /\ \A s \in Ftp!Side : WF_mcvars(Fetch(Ftp!Server(s)))

\* rawcopy: a block that is not written because the output has it already, or because
\* it is all zeroes, leaves the same file as one that is written.
AsWritten == running = "rawcopy" => Raw!TypeOK /\ Raw!AsWritten

\* rawcopy: a copy that ends well has read all that it was asked to copy, unless a read
\* was refused, each word to its place, also after errors that were ignored; with -a it
\* is as large as the volume.
CopiedAsAsked ==
    running = "rawcopy" => Raw!ReadInPlace /\ Raw!CopiedAsAsked /\ Raw!VolumeIsImaged

\* ftpcp: a copy that ends well is complete, whatever the servers say, and the target
\* was told the address of the source, not one that the other thread has had
\* converted to text at the same time.
FtpCopyIsRight == running = "ftpcp" => Ftp!TypeOK /\ Ftp!EndsComplete /\ Ftp!AddressIsOwn

\* Every copy comes to an end: that of strarc and the restore around it, that of
\* rawcopy with -i whatever fails, if the device stays or a length is given, and that
\* of ftpcp whose two threads wait for each other, well if nothing fails.
CopiesEnd ==
    /\ running = "strarc" => RestoreEnds
    /\ running = "rawcopy" => Raw!EndsIgnoring
    /\ running = "ftpcp" => Ftp!CopyEnds /\ Ftp!GoesWell
==============================================================================
