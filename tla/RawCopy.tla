------------------------------- MODULE RawCopy -------------------------------
(***************************************************************************)
(* rawcopy: copies a device, a file or a pipe to a file, block by block,   *)
(* with blocks that need not be written (-s, -D), retries (-f), errors     *)
(* that are ignored (-i) and an adjusted size (-a).  A value stands for an *)
(* aligned 64-bit word of data, 0 for the word of zeroes.                  *)
(***************************************************************************)
EXTENDS Naturals, Sequences

CONSTANTS
    Buf,        \* bufsiz, in words
    Sources,    \* inputs
    Befores,    \* contents of an existing output file
    Lengths,    \* values of copylength, 0 if none is given
    Skips,      \* values of skipforward
    Offsets,    \* values of -o
    MaxRetries, \* values of -f are up to this
    MaxImage    \* bound: with so many words a device that has gone is not read any more

NumbersAssumption ==
    /\ Buf \in Nat \ {0} /\ MaxRetries \in Nat /\ MaxImage \in Nat
    /\ Lengths \cup Skips \cup Offsets \subseteq Nat

VARIABLES
    opt,       \* switches, arguments and the two files as they are found
    removed,   \* the device has gone: every read of it fails
    pc,
    at,        \* input file pointer
    out,       \* contents of the output file
    pos,       \* output file pointer
    buffer,
    readbytes,
    writtenblocks,
    retries,
    image,     \* history: all that has been read, errors as zeroes
    holes,     \* history: the places of image that could not be read
    lost,      \* history: a block was written in part, or not at all
    refused    \* history: a read was refused, with data left, and taken for the end

given == <<opt, removed>>
history == <<image, holes, lost, refused>>
vars == <<given, pc, at, out, pos, buffer, readbytes, writtenblocks, retries, history>>

Ends == {"ok", "failed"}

\* Arguments with which a copy begins: the end of a pipe cannot be skipped to.
Options ==
    {o \in [source : Sources, before : Befores, copylength : Lengths, skip : Skips,
            offset : Offsets, disk : {0, 1}, retrycount : 0 .. MaxRetries, ignore : BOOLEAN,
            sparse : BOOLEAN, differential : BOOLEAN, adjust : BOOLEAN, pipe : BOOLEAN] :
        /\ o.pipe => o.skip = 0 /\ ~ o.adjust
        /\ o.adjust \/ o.disk = 0}

TypeOK ==
    /\ opt \in Options
    /\ pc \in {"read", "block", "skip", "write", "adjust"} \cup Ends
    /\ \A n \in {at, pos, readbytes, writtenblocks} : n \in Nat
    /\ Len(buffer) <= Buf
    /\ retries \in 0 .. opt.retrycount
    /\ lost \in BOOLEAN /\ refused \in BOOLEAN /\ removed \in BOOLEAN

Init ==
    /\ opt \in Options
    /\ removed = FALSE
    /\ pc = "read"
    /\ at = opt.skip
    /\ out = opt.before
    /\ pos = opt.offset
    /\ buffer = <<>>
    /\ readbytes = 0
    /\ writtenblocks = 0
    /\ retries = 0
    /\ image = <<>>
    /\ holes = {}
    /\ lost = FALSE
    /\ refused = FALSE

Least(m, n) == IF m < n THEN m ELSE n
Zeroes(n) == [i \in 1 .. n |-> 0]

\* A file cut off, or filled up with zeroes, to n words; one with data at a place.
SetEnd(file, n) == [i \in 1 .. n |-> IF i <= Len(file) THEN file[i] ELSE 0]
Over(file, place, data) ==
    LET last == place + Len(data)
        filled == IF data # <<>> /\ last > Len(file) THEN SetEnd(file, last) ELSE file
    IN  [i \in DOMAIN filled |-> IF i \in place + 1 .. last THEN data[i - place] ELSE filled[i]]

existing == Len(opt.before)
Enough == opt.copylength # 0 /\ readbytes >= opt.copylength

\* Defect.
Wanted_Whole == Buf
Wanted == IF opt.copylength = 0 THEN Buf ELSE Least(Buf, opt.copylength - readbytes)

\* What a read of a file, and of a pipe, may return.
Got ==
    LET left == IF at < Len(opt.source) THEN Len(opt.source) - at ELSE 0
    IN  IF opt.pipe /\ left > 0 THEN 1 .. Least(Wanted, left) ELSE {Least(Wanted, left)}
-----------------------------------------------------------------------------
(* Reading. *)

\* A pipe is at its end when it is broken, too.
LoopEnds ==
    /\ pc = "read"
    /\ Enough \/ (Got = {0} /\ ~ removed)
    /\ pc' = "adjust"
    /\ UNCHANGED <<given, at, out, pos, buffer, readbytes, writtenblocks, retries, history>>

\* The system refuses a read as an invalid parameter, for instance one that is no whole
\* number of sectors: the program takes it for the end of the input.
RefusedRead ==
    /\ pc = "read" /\ ~ Enough /\ ~ opt.pipe
    /\ refused' = (at < Len(opt.source))
    /\ pc' = "adjust"
    /\ UNCHANGED <<given, at, out, pos, buffer, readbytes, writtenblocks, retries, image, holes, lost>>

Read ==
    /\ pc = "read" /\ ~ Enough /\ ~ removed
    /\ \E n \in Got \ {0} :
        /\ buffer' = SubSeq(opt.source, at + 1, at + n)
        /\ at' = at + n
    /\ image' = image \o buffer'
    /\ retries' = 0
    /\ pc' = "block"
    /\ UNCHANGED <<given, out, pos, readbytes, writtenblocks, holes, lost, refused>>

\* Somebody takes the disk out of the drive; during retries is as good as before them.
DeviceGoes ==
    /\ pc = "read" /\ retries = 0 /\ ~ opt.pipe /\ ~ removed
    /\ removed' = TRUE
    /\ UNCHANGED <<opt, pc, at, out, pos, buffer, readbytes, writtenblocks, retries, history>>

\* Of a device that is there only what there is can fail to be read.
Failing == pc = "read" /\ ~ Enough /\ (removed \/ at < Len(opt.source))

RetryRead ==
    /\ Failing
    /\ retries < opt.retrycount
    /\ retries' = retries + 1
    /\ UNCHANGED <<given, pc, at, out, pos, buffer, readbytes, writtenblocks, history>>

\* Defect.
AnswerRead_OrIgnored ==
    /\ Failing
    /\ retries = opt.retrycount
    /\ retries' = 0
    /\ pc' \in {"failed", "read"}
    /\ UNCHANGED <<given, at, out, pos, buffer, readbytes, writtenblocks, history>>

\* The user presses Abort or Retry.
AnswerRead ==
    /\ Failing
    /\ retries = opt.retrycount /\ ~ opt.ignore
    /\ retries' = 0
    /\ pc' \in {"failed", "read"}
    /\ UNCHANGED <<given, at, out, pos, buffer, readbytes, writtenblocks, history>>

\* Defect.
SkipForward_NotAtAll == at

\* The input pointer moves on by a buffer, also when less was to be read.
SkipForward == at + Buf

\* The user presses Ignore, or -i is given; no pointer of a pipe can be set.
IgnoreRead ==
    /\ Failing
    /\ removed => Len(image) < MaxImage
    /\ retries = opt.retrycount
    /\ retries' = 0
    /\ buffer' = Zeroes(Wanted)
    /\ at' = SkipForward
    /\ image' = image \o buffer'
    /\ holes' = holes \cup Len(image) + 1 .. Len(image')
    /\ pc' = IF opt.pipe THEN "failed" ELSE "block"
    /\ UNCHANGED <<given, out, pos, readbytes, writtenblocks, lost, refused>>
-----------------------------------------------------------------------------
(* Blocks that are not written. *)

\* Defect.
BeyondData_OrInIt == TRUE
BeyondData == readbytes >= existing

Sparse == opt.sparse /\ BeyondData /\ buffer = Zeroes(Len(buffer))
Compared == opt.differential /\ readbytes + Len(buffer) <= existing
Same == SubSeq(out, pos + 1, pos + Len(buffer)) = buffer

\* The output file may end before the block does, because of -o, or fail.
Decide ==
    /\ pc = "block"
    /\ readbytes' = readbytes + Len(buffer)
    /\ \/ Compared /\ pc' = "failed"
       \/ /\ Compared => pos + Len(buffer) <= Len(out)
          /\ pc' = IF Sparse \/ (Compared /\ Same) THEN "skip" ELSE "write"
    /\ UNCHANGED <<given, at, out, pos, buffer, writtenblocks, retries, history>>

\* The number of blocks is compared with a number of bytes.
Continue ==
    /\ writtenblocks' = writtenblocks + 1
    /\ pc' = IF opt.copylength # 0 /\ writtenblocks' >= opt.copylength THEN "adjust" ELSE "read"

SkipBlock ==
    /\ pc = "skip"
    /\ pos' = pos + Len(buffer)
    /\ out' = IF readbytes > existing THEN SetEnd(out, pos') ELSE out
    /\ Continue
    /\ UNCHANGED <<given, at, buffer, readbytes, retries, history>>
-----------------------------------------------------------------------------
(* Writing. *)

\* All of the block, or a part of it with a warning.
WriteBlock ==
    /\ pc = "write"
    /\ \E n \in 1 .. Len(buffer) :
        /\ out' = Over(out, pos, SubSeq(buffer, 1, n))
        /\ pos' = pos + n
        /\ lost' = (lost \/ n < Len(buffer))
    /\ retries' = 0
    /\ Continue
    /\ UNCHANGED <<given, at, buffer, readbytes, image, holes, refused>>

RetryWrite ==
    /\ pc = "write"
    /\ retries < opt.retrycount
    /\ retries' = retries + 1
    /\ UNCHANGED <<given, pc, at, out, pos, buffer, readbytes, writtenblocks, history>>

AnswerWrite ==
    /\ pc = "write"
    /\ retries = opt.retrycount /\ ~ opt.ignore
    /\ retries' = 0
    /\ pc' \in {"failed", "write"}
    /\ UNCHANGED <<given, at, out, pos, buffer, readbytes, writtenblocks, history>>

\* An error that is ignored moves the pointer, but the number of bytes written is
\* 0, which is taken for the end of the output, as is a broken pipe.
EndOfOutput ==
    /\ pc = "write"
    /\ \/ retries = opt.retrycount /\ pos' = pos + Len(buffer)
       \/ pos' = pos
    /\ retries' = 0
    /\ lost' = TRUE
    /\ pc' = "adjust"
    /\ UNCHANGED <<given, at, out, buffer, readbytes, writtenblocks, image, holes, refused>>
-----------------------------------------------------------------------------
\* Size of the volume, of which the last sector may not be readable.
disk_size == Len(opt.source) + opt.disk

\* Defect.
VolumeSize_WholeBlocks == Buf * ((disk_size - opt.skip) \div Buf)
VolumeSize == IF disk_size > opt.skip THEN disk_size - opt.skip ELSE disk_size

AdjustSize ==
    /\ pc = "adjust"
    /\ IF ~ opt.adjust THEN pc' = "ok" /\ UNCHANGED out
       ELSE IF Len(out) < VolumeSize THEN pc' = "failed" /\ UNCHANGED out
       ELSE pc' = "ok" /\ out' = SetEnd(out, VolumeSize)
    /\ UNCHANGED <<given, at, pos, buffer, readbytes, writtenblocks, retries, history>>

Program ==
    \/ LoopEnds \/ RefusedRead \/ Read \/ RetryRead \/ AnswerRead \/ IgnoreRead
    \/ Decide \/ SkipBlock
    \/ WriteBlock \/ RetryWrite \/ AnswerWrite \/ EndOfOutput
    \/ AdjustSize

Next == Program \/ DeviceGoes

Spec == Init /\ [][Next]_vars /\ WF_vars(Program)
-----------------------------------------------------------------------------
(* A block that is not written because the output has it, or because it is all
   zeroes, leaves the same file as one that is written. *)
AsWritten ==
    pc \in {"read", "adjust"} /\ ~ lost => out = Over(opt.before, opt.offset, image)

(* After errors that were ignored the rest of the input still gets to its place. *)
ReadInPlace ==
    \A i \in DOMAIN image \ holes :
        opt.skip + i \in DOMAIN opt.source /\ image[i] = opt.source[opt.skip + i]

EndsWell == pc = "ok" /\ ~ lost /\ ~ refused

Asked ==
    LET there == Len(opt.source) - opt.skip
    IN  IF opt.copylength = 0 THEN there ELSE Least(opt.copylength, there)

(* A copy that ends well, without a lost block and without a read that was refused, has
   read all that it was asked to copy, and no more than that. *)
CopiedAsAsked ==
    /\ EndsWell => Len(image) >= Asked
    /\ opt.copylength # 0 => Len(image) <= opt.copylength

(* With -a, what has been read of a volume, if there is something to read, is in
   an image of its size. *)
VolumeIsImaged ==
    EndsWell /\ opt.adjust /\ opt.copylength = 0 /\ opt.offset = 0 /\ disk_size > opt.skip =>
        /\ Len(out) = disk_size - opt.skip
        /\ SubSeq(out, 1, Asked) = SubSeq(image, 1, Asked)

(* With -i the program ends, whatever fails, but for a device that has gone and a copy
   that no length was given for: it reads zeroes for ever. *)
EndsIgnoring == opt.ignore => <>(pc \in Ends \/ (removed /\ opt.copylength = 0))
==============================================================================
