# Verification of ltrdata

The repository is a collection of programs by one author: a backup program for
Windows (strarc), network servers and clients, a controller for a radio
repeater, tools for files, disks and the registry, course exercises with threads
and processes, a board game, and a few hundred small command line tools. This
directory holds TLA+ specifications of the programs in which something is
shared, saved or waited for, the TLC runs that check them and TLAPS proofs of
their main properties. `PROJECT.json` lists every component, run, mapped
definition, finding, hazard and theorem.

## Inventory

| Component | Source | State | Operations | How it interacts |
|---|---|---|---|---|
| strarc -c | `src/win32/strarc/backup.cpp`, `strarc.hpp`, `linktrack.*`, `parsecmd.cpp`, `exemain.cpp` | the walk through the tree, the link tracker, the archive, archive attributes on the volume | a session with -m, -e, -i, -s:l; Ctrl+C | reads and marks a volume that its users change; sessions append to one archive |
| strarc -x | `restore.cpp`, `strarc.hpp`, `lnk.c` | the volume restored to, the position in the archive | restore of a file, a directory, a hard link; -o, -o:a, -o:n, -o:f, -s:l | reads what -c wrote, several sessions on top of each other |
| strarc: copy instead of a link | `bfcopy.cpp`, `restore.cpp`, `strarc.cpp` | two sessions, two threads, a pipe, a filter process | read, write, join, destroy | the restore calls it when a hard link cannot be made |
| strarc -r | `regsnap.cpp`, `backup.cpp` | snapshot files beside the registry hives | create, back up, delete | before and during a backup session, while users log on and off |
| LightRepeater | `src/win32/LightRepeater/LightRepeater.cpp` | squelch, tail timer, transmitter, time of the last identification | line changes, timeouts, announcements, stop | three threads share the transmitter and two flags |
| chatsrv, lab4server in Java | `src/win32/chatsrv`, `src/java/lab4server` | connections and names | connect, take a name, talk, list, leave | one thread per client over one table |
| devredir, tcpfw | `src/posix/devredir.cpp`, `src/win32/cpp/tcpfw.cpp` | two directions of a connection | forward, end, next client | between a socket and a device, or two sockets |
| popdump | `src/posix/popdump.cpp` | files of mail, counter of messages | fetch, save, delete | with a POP server and a disk that may fill up, again and again |
| ftpcp | `src/posix/ftpcp.cpp` | two control connections, two pipes, a data connection | the dialogue of the source and of the target | two threads wait for each other, two servers send to each other |
| fdf | `src/win32/fdf` | table of files by size and checksum | visit, compare, link, delete, split | over a volume that others change |
| rawcopy | `src/win32/cpp/rawcopy.cpp` | two file pointers, a buffer, counters | read, skip, compare, write, retry, ignore | with a device, an output file and the user's answers |
| regrepl | `src/win32/regrepl/regrepl.cpp` | the recursion through keys, a static buffer, counters | enumerate, replace, cancel | with a registry any of whose calls may fail |
| fsplitw, trunczerotail | `src/win32/fsplitw`, `src/win32/cpp/trunczerotail.cpp` | a buffer and lengths that must agree | read, write, retry, cut | with disks that get full; with a file others write to |
| nyfilosof, filosof | `src/posix/nyfilosof.cpp`, `filosof.cpp` | semaphores, or pipes with tokens; philosophers | start or fork, pick up, put down | threads, or processes |
| FourInRow | `src/java/lab3` | grid, players, a click, a break | move, test for a winner, choose a move, restart | the main thread polls what the event thread notes |
| other clients, servers, tools and course material | see PROJECT.json | little or none | one question and answer, or a pass over a file | mostly with the operating system only |

What is hard in these programs, and hard to test: users who work on the volume
while it is archived; attributes read early and used late; reading that fails or
is cancelled when part of an entry is already in the archive; archives of
several sessions restored over each other; hard links, for which the order of
entries matters; threads and processes that wait for each other through pipes,
semaphores and full sockets; flags read before a delay and used after it; a lock
or an event that is looked at in one step and used in the next; writes that fail
or are short; lengths that have to agree at the end of a file, a buffer or a
disk; and connections that break in the middle of a message.

What makes each component right:

* backup: what is not archived stays marked as not archived; an archive can
  always be restored to what was on the volume; links point backwards to an entry
  of the same file record, with its streams; a session ends. Snapshots are of the session that made them.
* restore: contents, links and times come back.
* copies (strarc, rawcopy, ftpcp): reported success means a complete file with
  every block in its place; nobody waits for ever.
* repeater: nothing is left on when nobody talks, and lines that stay as they are
  end every transmission.
* chat: one client per name, every message to everybody in one order.
* forwarding: bytes once and in order, both directions served, an end is noticed.
* mail: a message is on the server or in a file.
* fdf: nothing is lost when files are deleted or replaced by links. regrepl: a
  value is replaced wholly and once. fsplitw: the parts are the file.
  trunczerotail: only zeroes are cut off.
* philosophers: neighbours never eat together, somebody can always go on,
  nobody starves. FourInRow: players alternate, winners are right, the computer
  does not miss a win, a restart is heeded.

## Modules

| Module | Models | Composes |
|---|---|---|
| `Volume` | the part of an NTFS volume that strarc sees (external) | |
| `StrArcBackup` | sessions of `strarc -c` and the user of the volume | `Volume` |
| `RestoreFile` | what `strarc -x` does with an entry and an archive | `Volume` |
| `StrArcCycle` | properties of archives and what is restored from them | `StrArcBackup`, `RestoreFile` |
| `StrArcCycle_proofs` | theorems about backup, restore and both together | `StrArcCycle` |
| `BackupCopy` | `BackupCopyFile` with both threads and the filter | |
| `RegSnap` | registry snapshots and the sessions that archive them | |
| `LightRepeater` | the repeater, announcement and main threads | |
| `ChatRoom` | abstract specification of a chat server | |
| `Sockets`, `ChatSrv`, `Lab4Server` | both servers, implementing `ChatRoom` | `Sockets`, `ChatRoom` |
| `DevRedir`, `TcpFw` | the loops of both forwarders | |
| `PopServer`, `PopDump` | popdump and the server it talks to (external) | `PopServer` |
| `FtpCp` | both threads of ftpcp and both servers | |
| `Fdf`, `Fdf_proofs` | fdf and other programs on the volume | |
| `RawCopy`, `RegRepl`, `FSplit`, `TruncTail` | the tools of these names | |
| `FourInRow`, `FourInRow_proofs` | the grid, the computer and both threads | |
| `Ring`, `Dining` | the table, and an abstract specification of the meals | |
| `NyFilosof`, `Filosof` | both programs, implementing `Dining` | `Ring`, `Dining` |
| `MCStrArc`, `MCFdf`, `MCPop`, `MCLab4` | constants for TLC | |
| `MCDining`, `MCChat`, `MCLines`, `MCCopy`, `MCTools` | runs of several programs of a kind | see Runs |
| the same with `_proofs` | theorems about those programs | |

Definitions commented "Defect." and named `Operation_WhatIsWrong` are not part
of any specification: each is what a plausible mistake in the code of
`Operation` would be, and breaks the property that PROJECT.json pairs it with.

The modules `MCDining` to `MCTools` put programs side by side: `running` says
which of them a behaviour is of, the variables of the others keep their first
values, and a property of one program is stated as `running = "program" => ...`.
The programs do not interact there, and a theorem about one of them is about the
specification of all (`OneRuns`). The type invariants of these programs are
conjuncts of the properties of these modules or of the invariants that are proved.

### strarc -c: `Volume`, `StrArcBackup`

The volume maps names to nodes (file records) and nodes to contents, last write
time and archive attribute. Contents are version numbers: every write makes a
new one. As on NTFS, a write sets the archive attribute; whether a new hard link
does is left open (`LinkArchives`). A record is free for a new file as soon as
it has no name and strarc does not hold it open.

`Start` is the part of `Main` that begins a session, `NextArgument` an iteration
of `BackupFiles`. `OpenFile` is the first half of `BackupFile` (open, query,
exclude); it is part of `NextArgument` and of `FindNext`, as the call is part of
the loops in `BackupFiles` and `BackupDirectory`. A directory pushes a frame with
the `file_info` read before the walk and the names not yet found; `EndOfDirectory`
pops it, when nothing is left or the directory cannot be read on ("unreadable"),
and goes on in the second half of the directory's own `BackupFile`:
`Skip`, `WriteLink` (an entry of a tracked file) or `WriteHeader` (with
`MatchLink`, which registers a new file), then `ReadStreams` or `StopReading`
(a read error or cancellation), and `ResetArchive`. These are separate steps
because the user's programs and the thread of `ConsoleCtrlHandler` run between
them; `file_info` is the copy in `cur` or in the frame, however old it is.

An entry is a record; `kind` says what follows its header: all contents,
nothing, part of a stream, or a link. `Interrupted` says what a read error may
leave: nothing, a part (only files larger than the buffer are torn), both, or, where
it is empty, that reading files does not fail.

The `user` actions create, write, delete, link and replace files, between
sessions or, with `UserBusy`, at any moment. `clock` counts them: it is the
version of contents and the time of the change.

### strarc -x: `RestoreFile`, `StrArcCycle`

A restore is an operator from an archive and the switches to a volume: the last
value of the recursive function `After`, which applies `RestoreEntry` to one entry
after the other. `RestoreEntry` has the tests of `RestoreFile` in their order: the
existing file (`Overwritable`), creation (`CanCreate`, `CreatedFile`), then
streams, link or copy, and the times and attributes last (`SetInfo`). Writing to
an existing file changes the node, whatever names it has. After a torn entry the
reader swallows the next one (`RestoreNext`). `StrArcCycle` restores the archive
of a state to an empty volume and compares the result with the volume backed up.

### Copies: `BackupCopy`, `RawCopy`, `FtpCp`

`BackupCopy`: the reading thread runs `ReadFileStreamsToArchive` into a pipe and
deletes its session; the main thread runs `WriteFileFromArchive` from the pipe,
joins, and goes on with the archive, which may come from the filter of -z.
`TemplateNew` copies `piFilter`, so both destructors wait for the filter
(`FilterExited`). The clones have their own `bCancel`, which Ctrl+C does not
reach: there is no cancellation here.

`RawCopy` has a step for each read, decision and write of the loop, with every
combination of -s, -D, -f, -i, -o, -a, copylength and skipforward. A word is 0 or
not, which is all that -s and -D tell apart. `DeviceGoes` makes every later read
fail, and `RefusedRead` is one that fails as an invalid parameter, which the loop
takes for the end of the input. `image` is a history of what has been
read and where, from which `AsWritten` says what the output should be.

`FtpCp`: the threads are at places named for the command they have sent; a server
owes replies in the order of commands, may refuse, reply early or in several
lines, and hang up. What the threads write into the two pipes, and the static
buffer of `inet_ntoa` that both use, are variables.

### Snapshots: `RegSnap`

`SaveKey` makes the snapshot of a loaded hive, `Visit` is what the walk does with
the file of a hive or of a snapshot: which may be opened (`Access`), which is
changed by -m, which is archived under whose name, and the deletion of the
snapshot, which `Deletable` decides. A session that is cancelled leaves snapshots.

### Servers and lines: `Sockets`, `ChatSrv`, `Lab4Server`, `DevRedir`, `TcpFw`, `LightRepeater`

A send waits for room in a buffer the client empties (`Sockets`). `ChatSrv` holds
the critical section from `Begin` to `End` of a broadcast; a step is what runs
between two points where another thread can be noticed. In `Lab4Server` the main
thread runs the constructor (`ReadName`, `CheckName`) and the thread of the
connection `PutName`: between them another client may do the same. Both map to
`ChatRoom`, where `pending` is what a broadcast has still to send.

`DevRedir` has the calls of the loop as steps: `Select`, `Recv`, `Write`, `Read`,
`Send`, and the waits around them. `TcpFw` has the overlapped reads with their
events, so that an event may be signalled between a look and a reset.
`LightRepeater` has the places between a read of a flag, a sleep and a switch of
the transmitter as states of each thread; time passes as a choice (`Timeout`, or
the end of a sound).

### Mail: `PopServer`, `PopDump`

The server numbers the mail of a session, marks and deletes at QUIT; lines are on
the wire until read, and a break loses any tail of them. `LineRecv` returns an
empty line at the end of a connection, as `iohlp.cpp` does. `Windows` chooses what
a failed write looks like to the program.

### Tools: `Fdf`, `RegRepl`, `FSplit`, `TruncTail`

`Fdf`: `StartSearch`, `Compare`, `Add` are the loop of `FindEqualOrAdd`; the
outcomes (`EqualDeleted`, `EqualLinked`, `LinkDeleted`, `SplitUnlink`,
`SplitCopy`) are those of `chkfile`. Records keep the checksum of the visit in
which it was taken, while other programs write between visits.

`RegRepl` has the stack of `DoSubKey` and computes replaced data as byte
sequences, with the buffer's limit checked where the code checks it. `FSplit` has
lengths modulo `Modulus`, as DWORDs. `TruncTail` goes back block by block as
`main` does.

### FourInRow

`Main` is the main thread between two waits: the player's turn, the strategy of
the computer (`testInsert`), the check for a winner by rays from the last marker
(`checkWinner`), the dialog. `Click` and `Restart` are the event thread.

### Philosophers: `Ring`, `Dining`, `NyFilosof`, `Filosof`

`Dining` says what a table promises: a philosopher eats when neither neighbour
does. `NyFilosof` has the start-up loop of `main`, in which philosopher i runs
before semaphore i + 1 is set, for both builds: on POSIX an unset semaphore
blocks, on Windows a wait on a NULL handle returns at once. `Filosof` has a fork
per philosopher, which may fail and leave the parent as the last one seated, and
chopsticks that are bytes in pipes. Both implement `Dining`.

## Runs

| Run | What it shows |
|---|---|
| `strarc_plain` | no hard links, all methods, cancellation and read errors of files and directories: `ClearMeansSaved` (a clear archive attribute means the present contents are archived), `ClearMeansRestorable` (and can be restored from the archive so far), `DirectoryTimesRestored` |
| `strarc_links` | hard links with full and differential sessions: `ContentsRestored`, `LinksRestored` |
| `strarc_walk` | a busy user, three files that share nodes, files not wanted, failures and Ctrl+C: `LinksResolve` (a link names an earlier entry of the same record, with its streams unless they could not be read), `SessionEnds` |
| `copy` | strarc: `SuccessIsComplete`, `SomebodyCanGoOn`; rawcopy: `AsWritten` (blocks that are skipped leave the file that writing them would have made), `CopiedAsAsked` (each word in its place, the size asked for, unless a block was lost or a read refused as invalid); ftpcp: `FtpCopyIsRight` (a copy that ends well is complete, and the target was told the source's address); all three: `CopiesEnd` (rawcopy with -i, unless its device has gone and no length was given) |
| `lines` | devredir: `DeviceUnbroken`, `RedirGoesOn`; tcpfw: `ForwardGoesOn`; LightRepeater: `OffAtRest`, `QuietTurnsOff`; popdump: `MailIsSomewhere`, `DumpEnds` |
| `tools` | regrepl: `ReplacedOnce` (wholly and once, and none missed but a binary value that is just the text); registry snapshots: `HivesAreSaved`; fsplitw: `PartsAreTheFile`; trunczerotail: `ZeroesAreCut`; and `ToolsGoOn` |
| `chat` | both servers: `ARoom` (they implement `ChatRoom`); chatsrv: `NamesDiffer`, `SectionIsLeft` |
| `fdf` | `NothingIsLost`, `NamesKept`, `DoneWhatWasAsked`, `AttributesKept` |
| `four_in_row` | `WinnerIsRight`, `Alternating`, `ComputerPlays`, `RestartIsHeeded` |
| `dining` | nyfilosof: `SomebodyCanStep`, `DiningSpec`; filosof: `SeatedDine`; both: `NobodyStarves` |
| `lab4_names` | violated: two users of the Java server have one name |
| `mail_saved` | violated: popdump, built for POSIX, deletes mail that it could not save |

The passing runs are configured around the failures listed below. strarc: no torn
entries and a quiet user except in `strarc_walk`, no incremental sessions and no
cancellation with hard links (a cancelled full session has cleared the attribute
of some names' file and not archived the others), no replaced links. The chat run
lets the clients of the Java server join one after the other (`OneByOne`,
`FollowsAssumption`), each when the others have seen it served. The mail run has
the Windows build and a user who moves files away.

Bounds.

* strarc: two files suffice for two names of one file, or a file in a directory
  and one beside it; `strarc_walk` has three, so that two
  links may name one entry, or another file lie between the names of one. Three nodes
  let a file be replaced while its old record is still held open. Three changes are too
  few for a record that is tracked, which needs two names, to be freed and used again.
  Two sessions make a full backup followed by any other, three
  (`strarc_links`) a failed one between; three changes of the user are enough to
  create, link and change or delete a file.
* Copies: a file larger than the pipe by two blocks, one in the hand of each
  thread, is the case in which everybody just gets by. rawcopy has inputs of one to
  five words with a buffer of two, so that a last block may be short, all zeroes,
  or like the output's; output files end in a block or are longer; a device
  that has gone is read to six words, one more than any input has and twice the length
  that is asked for. For ftpcp
  one block tells an empty transfer from a broken one.
* Lines: a packet of two bytes can be written in part; two buffers on the way let
  tcpfw be full in both directions; `LightRepeater` has no bounds. Three messages
  of none to two lines, two runs, and a disk with room for none of it, a
  part, or all.
* Tools: strings, lists and binary data that a replacement shrinks, keeps, or
  makes larger than the buffer, and binary data that is just the text; two hives
  and two sessions, of which the first may be cancelled; sectors of two bytes with lengths modulo eight,
  so that lengths wrap; every file of up to seven bytes with blocks of two and four.
* Chat: three clients are one that speaks, one that listens and one that comes or
  goes; two names; a socket's buffer of one line is full after one message.
* fdf: four names in all layouts of one to four files, and nine records, one more
  than names and visits can need; three links are the most a
  file can have, so that a fourth fails; one write, deletion or replacement by
  others between visits.
* FourInRow: three columns and four rows with three in a line, where there are
  wins in all directions, draws, and full columns.
* The philosophers are the five of the sources.

Deadlock is checked for the philosophers, who never stop. It is not for the
others, which may stop: sessions, changes, disks and bytes have bounds, a copy that
is over stops, clients may say no more. Where waiting for ever would be wrong a
liveness property says so.

Fairness. Weak fairness is assumed of a thread's or a program's steps where it is
scheduled by the system and not blocked by another one's choice: the session of
strarc, both threads of a copy and the filter, the threads of `LightRepeater` (its
time limits expire and its sounds end), `Process`, `Thread` and `Main` of the
forwarders and popdump, `Program`, `DoSubKey` and `DoSplitFile` of the tools. For
the philosophers and for sends of the chat servers it is strong: the system serves
the waiters of a semaphore, a pipe or a socket in turn. In FourInRow `SeesBreak` is
strongly fair, since the loop that looks at the variable is faster than a user who
keeps clicking. Of partners it is assumed only where the property speaks of them:
clients of chatsrv read or go (`SectionIsLeft` does not hold without it: a client
that stops reading stops all), peers of tcpfw read, FTP servers answer or hang up.
None is assumed of users, of lines that change, or of failures.

## Disagreements outside the runs

What the models show of the code and no run checks. With the constants named here,
and otherwise those of the run in brackets, TLC finds the property violated in the
module of the program.

strarc [`StrArcLinks.cfg`, `Interrupted = {}`, two sessions]:

* `ContentsRestored` with `Methods = {"FULL", "INC"}`, `UserOps = {"create", "link"}`:
  incremental sessions lose a new name of a file whose attribute the session has
  cleared through its other name.
* `ContentsRestored` with `UserOps = {"create", "link", "replace"}`: a differential
  restore writes through a link that no longer exists on the volume.
* `ClearMeansSaved` with `UserOps = {"create", "write"}`, `UserBusy = TRUE`,
  `Methods = {"FULL", "INC"}`: a write between the last block and the reset of the
  attribute is lost (`backup.cpp:363`).
* `ClearMeansRestorable` with `UserOps = {"create", "cancel"}`,
  `Interrupted = {"part"}`, `Methods = {"FULL", "INC"}`: the entry after a torn one
  is lost (`strarc.hpp:501`).
* With `UserOps = {"create", "link", "delete"}`, `UserBusy = TRUE`, one session and
  `MaxClock = 6` a link leads to another file: a tracked file loses both names while
  its streams are read, its record goes to a new file with two names, and the link
  tracker, which leaves out the sequence number (`linktrack.hpp:65`), takes it for the
  old one. `LinksResolve`, which compares records, holds.
* `ContentsRestored` with one session, `Methods = {"FULL"}`,
  `UserOps = {"create", "link"}` and `Opt <- OptL` (-s:l): the target of the copy is
  still open when it is opened again (`restore.cpp:155`, `247`), and an empty file
  is left; or `List <- Overlapping`: a directory and a linked file in it; the file
  is archived as a link to itself (`strarc.hpp:283`), and the restore deletes it
  (`restore.cpp:144`).
* `ContentsRestored` with `Opt <- OptON` (-o:n), `Interrupted = {"none"}`,
  `UserOps = {"create"}`: the empty file of an entry that could not be read has the
  entry's time and is not older than its contents in the next backup
  (`restore.cpp:886`).
* `RestoreEnds` of `BackupCopy` with `MaxBlocks = 4`, `Capacity = 1`, `Rest = 0`,
  `ArchiveCapacity = 1` and write errors: a late one with a large file hangs the
  restore. With `Capacity = 2`, `Rest = 3` and no failures: with -z the end of a copy
  waits for the filter (`strarc.cpp:124`), which waits for the restore to read its
  output.
* `MomentaryCopy` of `RegSnap` [`Tools.cfg`]: `strarc.txt:583` calls a snapshot "a
  momentary copy of the contents of the registry when strarc starts" that is "deleted
  automatically". `backup.cpp:238` deletes through a handle that has no right to
  (`backup.cpp:96`) and ignores the failure; a later session that does not make a
  snapshot of the hive archives the old one under the hive's name.

Others:

* `OneHolder` of `NyFilosof` with `Win32 = TRUE` [`Dining.cfg`]: two philosophers
  hold one chopstick during start-up (`nyfilosof.cpp:50`).
* `OpenIsOn` of `LightRepeater`: the announcement thread turns off a transmitter that
  the repeater has turned on since it looked at the squelch (`LightRepeater.cpp:195`).
* `WritesOn` of `DevRedir`: the rest of a short write is written again from the
  packet's start (`devredir.cpp:157`).
* `LinksAreSplit` of `Fdf` with `Options = {{"c"}}` [`Fdf.cfg`, `MaxUserSteps = 0`]: the usage
  says that -c splits hard links (`fdf.cpp:404`); links of a file that is not the first
  of its contents in the table stay.
* `NothingIsLost` of `Fdf` with `Visits <- Junction` [`Fdf.cfg`, the same]: through a junction a file
  is its own duplicate, and -d deletes it (`fdf.cpp:188`).
* `FullDiskAsks` of `FSplit`: `fsplitw.cpp:426` says that the user is asked for a disk;
  for a last part that is not whole sectors the length passes below zero
  (`fsplitw.cpp:216`) and tries go on.
* `DumpEnds` of `PopDump` with `Windows = FALSE`: after a connection has broken within a
  message and the disk is full the loop never ends. `NothingLost` with
  `TakesFiles = FALSE`: a second run overwrites the files of the first.

Not shown by a property, but part of the models, or seen while they were written:

* rawcopy: a write error that is ignored (-i) ends the copy with success
  (`rawcopy.cpp:899`); -a with -o cuts data. `lost` marks copies with the former, and
  the properties leave both out. A read that the system refuses as an invalid
  parameter, such as one of less than a sector because of copylength, is taken for the
  end of the input (`rawcopy.cpp:705`): the copy ends well with data unread, and with -a
  over an existing file what was there stays in its place. `refused` marks these. A
  device that has gone fails every read, and -i turns each into a block of zeroes
  (`rawcopy.cpp:739`): without a length the copy ends only when the output is full, and
  with -s, which writes none of them, never. `EndsIgnoring` leaves this out.
* regrepl: `regrepl.txt:22` speaks of a "replace all" command, and a binary value that
  is the text and nothing else is passed over, since data must be longer than the text
  (`regrepl.cpp:444`); it is counted nowhere. `IsTheText` names the exception.
* regrepl: for wide characters the room in the buffer is counted in characters
  and used in bytes, which may run over its end (an outcome of the model); keys
  that cannot be enumerated are counted nowhere; what another program writes
  between `RegEnumValue` and `RegSetValueEx` is lost.
* fsplitw: a part size below 512 divides by zero (`fsplitw.cpp:102`). trunczerotail: with
  little memory a buffer of 512 bytes is read into with the large size; what others
  append is cut off. Both are outcomes of the models.
* tcpfw: a local read that ends between `LookLocal` and `ResetLocal` wakes nobody
  (`tcpfw.cpp:145`), which is why `ForwardGoesOn` speaks of the local side only while
  the remote side sends. devredir: a send to a client that has gone raises SIGPIPE
  and ends the program.
* lab4server: `accept` waits for the name of each client in turn
  (`ClientManager.java:48`), and a reset while a name is read ends the loop
  (`ServerMain.java:78`).
* ftpcp: the reply to TYPE is not looked at; the local target is emptied before
  anything is known about the source.
* popman: after a refused LIST both sides wait (`popman.cpp:229`); at the end of its
  input it sends the last reply as a DELE again and again (`popman.cpp:257`).

## Theorems

Each holds for every value of the constants that meets the named ASSUMEs of the
modules and what the second column adds. All but `ChopstickExclusion`,
`EntriesAreLive` and the type invariants in the first column's theorems are
properties that a run checks on a small instance.

| Theorem | Adds | Statement |
|---|---|---|
| `LinkEntries` | | `TypeOK`, `LinksResolve`: a link entry names an earlier entry of the same file record, whose streams are in the archive unless they could not be read |
| `AttributeIsHonest` | `UserBusy = FALSE` | `ClearMeansSaved` |
| `RestorableWhenClear` | `Undisturbed` | `ClearMeansRestorable` |
| `ContentsComeBack` | `Undisturbed`, `Reached` | `ContentsRestored` |
| `TimesComeBack` | `Unbroken`, `Reached` | `DirectoryTimesRestored` |
| `LinksComeBack` | `Growing`, `Reached` | `LinksRestored`, and `ContentsRestored` with hard links |
| `CopyIsComplete` | | `TypeOK`, `SuccessIsComplete` |
| `CopyCannotHang` | `MaxBlocks <= Capacity + 2`, `Rest <= ArchiveCapacity` | `SomebodyCanGoOn` |
| `SkippingIsWriting`, `AllIsCopied` | | `AsWritten`, `CopiedAsAsked` of rawcopy, without lost blocks and, for the end, refused reads |
| `FtpEndsComplete` | | `FtpCopyIsRight` |
| `DeviceIsUnbroken` | | `DeviceUnbroken` of devredir |
| `RepeaterRests` | | `OffAtRest` |
| `NoMailIsLost` | `Windows`, `TakesFiles` | `MailIsSomewhere` |
| `SnapshotsAreSaved` | | `HivesAreSaved` |
| `PartsMakeTheFile` | | `PartsAreTheFile` of fsplitw |
| `OnlyTheTailIsCut` | | `ZeroesAreCut` |
| `TextIsReplacedOnce` | | `ReplacedOnce` of regrepl, which excepts a binary value that is just the text |
| `NicknamesDiffer`, `KeepsARoom` | | `NamesDiffer`; `ARoom`: both servers implement `ChatRoom` |
| `EntriesAreLive` | | the table of the Java server has the connections that are served |
| `NoContentsAreLost`, `NamesAreKept`, `AttributesAreKept` | `OncePerName`, `WholeBlocks` | `NothingIsLost`, `NamesKept`, `AttributesKept` of fdf |
| `DoneAsAsked` | the same, and the search finds every name | `DoneWhatWasAsked` |
| `ResultIsRight`, `PlayersAlternate`, `ComputerPlaysWell` | | `WinnerIsRight`, `Alternating`, `ComputerPlays` |
| `ChopstickExclusion`, `NoCircularWait`, `ImplementsDining` | `~ Win32` | `TypeOK` and `OneHolder`, `SomebodyCanStep`, `DiningSpec` of nyfilosof |
| `SeatedImplementDining` | | `SeatedDine`: filosof implements `Dining`, wherever a fork() fails |

What is added is what the runs are configured with, and where it fails TLC shows
why it is there (Disagreements outside the runs): `Windows` and `TakesFiles` are the build and the user
of `lines`; `OncePerName` excludes junctions, `WholeBlocks` contents that differ
only in the last bytes, which `CompareMemory` leaves out (`chkfile.c:80`): if
just those of a file are written after its checksum was taken, the last copy of
the old contents is deleted.

### Backup

`LinksResolve` is not inductive: a link is written from what the tracker holds,
so `ItemsWritten` says that, unless the session is cancelled, every tracked item has
an entry with its streams (or what a failed reading has left of them) or is the file
in hand, and `LastIsInHand` that the entry being completed is that of the file in
hand and has nothing yet. After a cancellation no link is written any more. `Typed` adds to `TypeOK` that the
frames and the file in hand belong to the right program counter. The four
conjuncts make `IInv`; each step either extends the archive, or changes the kind
and contents of its last entry, or leaves it alone, and in all three cases
(`Extends`) entries are kept by position, path and node.

`AttributeIsHonest` adds `ResetIsSaved`: between the last block and the reset,
the file in hand is archived as it is. It needs a user who is idle during
sessions.

### Restore

What can be restored is a recursive function of the archive (`After`). That such
a function exists and obeys its equation is proved by hand (`StepsExist`,
`AfterNext`), with an induction over a set of numbers (`NatInd`) in place of the
library's; so is the recursive `Above`, through the chain of parents (`LineUp`),
which `RootAssumption` says ends at the root. From these, `BackWithHeader` and
`BackWithStreams` say how the restored volume, `Back`, changes when a session
appends an entry or completes the last one, and the rest is an invariant over
two volumes: the one that is backed up and `Back`.

`RestorableWhenClear` (`ComesInv`): a file whose attribute is clear is in `Back`
with its contents, and the one about to be cleared is already (`ResetComes`).
`Undisturbed` is: a restore that replaces what it finds (-o, or -o:a if no session
is a COPY, whose entries keep the attribute), a user who is idle during sessions
and makes no hard links, and no torn entries. Deleted and replaced
files, cancelled sessions and files that could not be read are included.

`ContentsComeBack` and `TimesComeBack` need in addition that the walk comes to
everything: `Reached` says that the list is the root and that nothing that is
wanted lies below an excluded directory. `Walked(V)` says that each path is in
the set V of what is done, or in hand, or ahead: in a frame on the path from the
root, or below something that is (`InTree`). `Walked` is shown of some V in every
state of a session (`SessionWalks`); when it ends, V is everything (`AllDone`).
Over it `FilesInv` says that the wanted files of V come back, whether archived in
this session or passed over because of a clear attribute; and `TimesInv` that the
directories of V have their times. The times hold although each file that is
restored touches the directories above it, because the header of a directory is
written after everything below it: an entry for p changes times above p only
(`EntryTimes`), and what is above something in hand is not done yet.

`LinksComeBack` (`LinksInv`) is about the names of a file, which may have been
archived in different sessions and in any order. `Merged`: what is one file in
`Back` is one on the volume. Between sessions (`AtRest`) the names of a file whose
attribute is clear, or of every file after a complete session, are one file in
`Back` with its contents. Within one, `Linked(V)` says the same of the names the
session is through with (`ThroughIsRight`) and of the files it has not come to or
passes over (`ClearIsRight`), that the link tracker has the first name of each file
archived (`Tracking`), and that streams are read under the first name only, before
the attribute is cleared (`FirstName`). `Merged` is what makes this hold through an
entry: the restore writes through a name that is there, and so into every name of
that file in `Back`, which are names of the file that was archived (`EntryEffect`).
`Growing` is the configuration of `strarc_links`, any number of files and sessions
and COPY added: the restore replaces what it finds (-o), the user is idle during
sessions and creates, writes and links files in between, sessions are not cancelled
and not incremental. Deleting is left out because a name that comes to belong to
another file breaks `Merged`; for incremental sessions `ContentsRestored` itself
fails (Disagreements outside the runs).

### Copies, lines and tools

`CopyCannotHang` counts blocks: those in the pipe, written, and in the reader's
hand add up to the size of the file, so that with at most two more than the pipe
holds there is room for the reader when the writer gives up on a block that is
not the first. The second assumption lets the filter finish before its output is
read. Without either the copy hangs (Disagreements outside the runs).

rawcopy (`RawInv`): the file pointers agree with the counters (`PointerFollows`),
what has been read is accounted for (`Counted`), and `Output` says what the file
looks like between the read of a block and its write or skip; the size of the
file is adjusted last. Of the arguments only their types are used. ftpcp
(`FtpInv`): at each place of each thread, which commands and replies can still be
under way (`Paced`), who has told the other thread its address or port (`Told`),
and that a side that has come to its end, or has the reply 226 to read, knows that
all blocks have been sent (`Knows`).

devredir (`DevInv`): the bytes heard, in the socket, in the packet and in the
device are successive numbers (`Parts`); `Rounds` has what each step of a round
relies on. popdump (`PopInv`): what is on the wire follows from the place in the
dialogue, and what is in the file and on the wire is the beginning of the mail
(`Conversation`), a mail that is marked is in a file as a whole (`Saved`), and
until QUIT what is not on the server was taken before this run (`KeptBefore`).
Snapshots (`SnapInv`): a snapshot still to be visited is
as it was made, one that has been visited is in the archive. fsplitw
(`SplitInv`): parts and buffer are what has been read, with lengths that wrap.
trunczerotail (`TruncInv`): what is behind the pointer is zeroes, and where the
program stops going back the last block has the last data (`Zeroes`).

regrepl (`ReplInv`) has two halves. The first is about one value: what
`ReplaceInString` computes by its loops, with their places, limits and the static
buffer, is what `Expected` says by a recursion of its own over the bytes
(`ReplacementIsRight`). Both are recursive functions. That they exist is proved with
a `Fixpoint` lemma, from an induction over a rank (how much of the data is left), and
`LoopIsRight` relates them at every place the loop can come to: what it has written so
far, followed by what is to come of the rest, is the whole replacement. Between two
places at which the text is found nothing changes (`RestStays`), and a value in which
it is found changes (`ChangeIsNew`), which is what makes the counter right. The
second half is about the walk: `Walk(D, stack)` says that D is the set of the keys
the recursion has come to, each of which is either on the stack once or done with,
and `Past` the values it is past. `Reports` says that a value that is not past is as
it was, that each error that is counted stands for a key or a value of its own, and
that without errors and cancellation no subkey has been left out (`Full`) and the
replacement errors are the values past which should have been replaced and were not,
but for binary values that are just the text (`OnlyTheText`).
At the end the stack is empty, so that D is all keys (`WalkIsWhole`). The assumptions
are that the keys are a finite tree in which each value has one key, that the
terminators of strings and lists are at their ends and nowhere else, and that the text
searched for is not empty and neither text has a NUL.

For LightRepeater (`LrInv`), `OnIsOwned` says that a transmitter that is on has an
owner that will turn it off: an announcement, one of the two flags, or a place of
the repeater thread that ends in a switch. `FlagsAtPlaces` says what the flags are
while that thread writes them one by one, `ChangeIsKept` where a change of a line is
between its arrival and its reading, `Stopping` what `main` has suspended. The proof
shows why it is enough that the squelch flag is cleared after the tail flag is set
(`LightRepeater.cpp:975`).

### Servers

For chatsrv, `IInv` has four parts besides `NamesDiffer`. `Chain`: the chain holds
each connection between constructor and destructor once. `Named`: whoever is
served has a name, others have none. `Section`: the thread in the critical section
has still to serve a part of the chain, each connection at most once. `NamesDiffer`
is kept because the search and the setting of a name are one step for others.
`KeepsARoom` maps the chain to `inside` and the rest of a broadcast to `pending`:
nobody enters or leaves the chain while somebody is in the section, which is why
those who are inside at the beginning are those who are sent to.

For lab4server (`JInv`), `Entries` says that a served connection has the entry of
its name and no other entry exists, `InTurn` that two clients do not settle their
names at once, which is where `FollowsAssumption` is used. Without it two users
have one name (`lab4_names`).

### fdf

`SafeInv` says that records are of paths visited before, that a checksum that is
kept is right about the tail of its file unless `WholeBlocks` makes that
irrelevant (`TailsHold`), and what holds at each place of `chkfile` (`AtWork`):
contents that are found equal are equal, since they are read again. `NamesInv` adds that, as long as
nobody else has changed a file, the file of a record is there with the contents
of its node. `DoneInv` adds what has been done so far: every visited file has a
record of its contents, and records differ; counting the names of a file against
`MaxLinks` takes the theorems about finite sets.

### FourInRow

`GameInv` needs little beyond the properties themselves; the work is in the
operators. `checkWinner` counts along rays from the last marker and `testInsert`
puts a marker, looks and takes it back; lemmas relate both to lines of `Need`
equal markers anywhere in the grid (`WinningIs`, `TestInsertIs`), so that a move
makes a line only through its own place. `PlayersAlternate` counts markers.

### Philosophers

For nyfilosof the invariant (`IInv` of `MCDining_proofs`) says that a chopstick
has one holder, that a held one is taken and a taken one is held, and which
philosophers have been started; `NoCircularWait` follows from the parity of the
order in which chopsticks are taken and needs no counting of the ring. For filosof
(`PipesInv`) a byte in a pipe plays the part of the semaphore (`OneByte`), and
whoever has not been forked holds nothing (`NotForked`). That its ring of waits
breaks needs the largest philosopher who waits, which is an induction; TLC checks
it.

### Only model-checked

* Liveness, which is out of the prover's reach: `SessionEnds`, `NobodyStarves`,
  `SectionIsLeft`, `RedirGoesOn`, `ForwardGoesOn`, `QuietTurnsOff`, `DumpEnds`,
  `RestartIsHeeded`, `CopiesEnd`, `ToolsGoOn`.
* That the ring of waits of filosof breaks (`NobodyStarves` rests on it).

## Not modelled, and simplifications

* Of strarc: -n and -l, -f, short names, alternate streams and security, reparse
  points and junctions, failures to open a file that is there or to reset an
  attribute, the search for a next header in contents that look like one,
  cancellation of a restore. A restored stream replaces the contents of an
  existing file as a whole. A directory has no archive attribute and no node.
  Read errors of snapshots are left to `StrArcBackup`. A failing write to the archive,
  which ends the program (`strarc.hpp:538`) with an archive that is cut off anywhere.
* A copy whose pipe or thread cannot be created.
* In a copy whose first block cannot be written the target is deleted, the rest
  is thrown away and the copy is reported as done (`bSeekOnly`):
  `SuccessIsComplete` leaves it out, as the message has been printed.
* The link tracker compares 48 bits of the file index; nodes are these bits, and
  a node that is used again is the case of a new sequence number.
* A session cloned for a copy shares the lists of -e and -i with its template;
  what the destructors do to them is not modelled.
* LightRepeater: failures of the port, which sounds are played, statistics, the
  service; a thread that is suspended while it holds the lock of stdout.
* The servers: text of lines and commands beyond their kinds, failures to accept,
  memory. tcpfw: main, which accepts and connects. popdump and ftpcp: connecting,
  text of replies and mail; a server that is silent for ever. `BufRecv` and most of
  `sockhlp.cpp`.
* fdf: patterns, excluded strings, statistics, a full disk during a split, other
  programs within a visit, the last bytes of a file in the comparison of checksums.
* rawcopy: the command line, locks of volumes, -x, output to a device. regrepl:
  text of several bytes to a character, data that is not terminated, others who
  write, the branch for Win32s (`regrepl.cpp:397`), and a failing conversion to wide
  characters (`regrepl.cpp:170`), which leaves a value as it is and counts it nowhere.
  fsplitw: dialogs and names; fsplit32 cuts parts of a fixed size and keeps no state.
* FourInRow: painting and dialogs' layout. In an applet, which may not read the file of
  the sound (`Human.java:33`), a click on a full column plays a sound that is null
  (`Human.java:42`), and the exception ends the main thread; the model is of the
  application.
* lab4server in C++: one dialogue per thread; `strtok` keeps its position in a
  buffer that all threads share (`lab4server.cpp:163`).
* Programs marked `not_modelled` in PROJECT.json, with the reasons there: most are
  one question and one answer, one pass over a file, one call of the system,
  drawing, or the work of others (bzip2, ntdll.h, Visual Basic forms). There is
  nothing in them that happens in an order, fails half way or is shared.

## Plan

Every safety property that a passing run checks has a theorem. Models are left:

1. The restore as a state machine with cancellation and a second restore over the
   first.
2. lab4server in C++ with the shared `strtok`.
