---------------------------- MODULE StrArcBackup ----------------------------
(***************************************************************************)
(* Backup sessions of strarc -c over a volume that its user changes: the   *)
(* walk through the directory tree, the choice of files, hard links, the   *)
(* archive attribute, read errors and cancellation.  Sessions append to    *)
(* one archive (-a).                                                       *)
(***************************************************************************)
EXTENDS Volume, SequencesExt

CONSTANTS
    Methods,      \* the values of -m used, of those in AllMethods
    List,         \* the LIST argument of every session
    Excluded,     \* paths that match a -e string
    Included,     \* paths that match an -i string, or all
    bHardLinkSupport,  \* FALSE with -s:l
    UserOps,      \* what happens to the volume and the walk, of AllUserOps
    UserBusy,     \* whether files are changed during sessions too
    Interrupted,  \* what a failed BackupRead may leave in the archive
    MaxSessions, MaxClock  \* bounds on sessions and on the user's changes

AllMethods == {"COPY", "FULL", "DIFF", "INC"}
AllUserOps ==
    {"create", "write", "delete", "link", "replace", "cancel", "unreadable"}

ASSUME BackupAssumption ==
    /\ Methods \subseteq AllMethods
    /\ List \in Seq(Path)
    /\ Excluded \subseteq Path
    /\ Included \subseteq Path
    /\ {bHardLinkSupport, UserBusy} \subseteq BOOLEAN
    /\ Interrupted \subseteq {"none", "part"}
    /\ UserOps \subseteq AllUserOps
    /\ MaxSessions \in Nat
    /\ MaxClock \in Nat

VARIABLES
    vol,       \* the volume
    clock,     \* the number of changes the user has made
    archive,   \* the entries written so far
    sessions,  \* the number of sessions started
    method,    \* BackupMethod of the session
    todo,      \* arguments that BackupFiles has not come to
    frames,    \* directories being read: their file_info, names not yet found
    links,     \* LinkTrackerItems: [node, name]
    cur,       \* file_info of the file in hand
    pc,
    bCancel,
    complete   \* no file was left out of the last session or changed since

session == <<method, todo, frames, links, cur, pc, bCancel>>
vars == <<vol, clock, archive, sessions, session, complete>>

\* BY_HANDLE_FILE_INFORMATION, and the name the handle was opened by.
Info == [path : Path, node : Node \cup {NoNode}, archive : BOOLEAN,
         time : Time, linked : BOOLEAN]

NoInfo == [path |-> Root, node |-> NoNode, archive |-> FALSE,
           time |-> NoTime, linked |-> FALSE]

\* A header with the streams after it: the contents of a file, the name it is
\* a link to, a directory; nothing or a part of the announced stream if reading
\* stopped early.
Entries == [path : Path, node : Node \cup {NoNode}, archive : BOOLEAN,
            time : Time, kind : {"data", "link", "dir", "none", "part"},
            data : Data, to : Path]

TypeOK ==
    /\ vol \in Volumes
    /\ clock \in 0 .. MaxClock
    /\ archive \in Seq(Entries)
    /\ sessions \in 0 .. MaxSessions
    /\ method \in AllMethods
    /\ todo \in Seq(Path)
    /\ frames \in Seq([info : Info, left : SUBSET Path])
    /\ links \subseteq [node : Node, name : File]
    /\ cur \in Info
    /\ pc \in {"idle", "next", "scan", "opened", "stream", "reset"}
    /\ {bCancel, complete} \subseteq BOOLEAN

Init ==
    /\ vol = [node |-> [f \in File |-> NoNode],
              data |-> [n \in Node |-> 0],
              time |-> [n \in Node |-> NoTime],
              archive |-> [n \in Node |-> FALSE],
              dirtime |-> [d \in Dir |-> 1]]
    /\ clock = 0
    /\ archive = <<>>
    /\ sessions = 0
    /\ method = "COPY"
    /\ todo = <<>>
    /\ frames = <<>>
    /\ links = {}
    /\ cur = NoInfo
    /\ pc = "idle"
    /\ bCancel = FALSE
    /\ complete = FALSE
-----------------------------------------------------------------------------
(* The user. *)

OpenNodes == {cur.node} \cup {frames[i].info.node : i \in DOMAIN frames}

\* A new file gets a free record; the record of a deleted file is free
\* once strarc has closed it.
FreeNodes == Node \ (Live(vol) \cup OpenNodes)
NewNode == CHOOSE n \in FreeNodes : TRUE

Now == clock + 2  \* later than the times of the directories in Init

UserChange(op, v) ==
    /\ op \in UserOps
    /\ pc = "idle" \/ UserBusy
    /\ clock < MaxClock
    /\ clock' = clock + 1
    /\ vol' = v
    /\ complete' = FALSE
    /\ UNCHANGED <<archive, sessions, session>>

Create(f) ==
    /\ ~ Exists(vol, f)
    /\ FreeNodes # {}
    /\ UserChange("create", CreateFile(vol, f, NewNode, clock + 1, Now))

Write(f) ==
    /\ Exists(vol, f)
    /\ UserChange("write", WriteNode(vol, vol.node[f], clock + 1, Now))

Delete(f) ==
    /\ Exists(vol, f)
    /\ UserChange("delete", DeleteName(vol, f, Now))

Link(f, g) ==
    /\ Exists(vol, f)
    /\ ~ Exists(vol, g)
    /\ UserChange("link", LinkName(vol, g, vol.node[f], Now))

\* An editor that saves to a new file and renames it over the old one.
Replace(f) ==
    /\ Exists(vol, f)
    /\ FreeNodes # {}
    /\ UserChange("replace", CreateFile(vol, f, NewNode, clock + 1, Now))

User ==
    \E f \in File :
        \/ Create(f)
        \/ Write(f)
        \/ Delete(f)
        \/ \E g \in File : Link(f, g)
        \/ Replace(f)
-----------------------------------------------------------------------------
(* A session. *)

Start(m) ==
    /\ pc = "idle"
    /\ sessions < MaxSessions
    /\ sessions' = sessions + 1
    /\ method' = m
    /\ todo' = List
    /\ links' = {}
    /\ bCancel' = FALSE
    /\ complete' = TRUE
    /\ pc' = "next"
    /\ UNCHANGED <<vol, clock, archive, frames, cur>>

\* BackupFile returns to the loop in BackupFiles or BackupDirectory.
Return(fs) ==
    /\ frames' = fs
    /\ cur' = NoInfo
    /\ pc' = IF fs = <<>> THEN "next" ELSE "scan"

FileInfo(p) ==
    IF p \in Dir
    THEN [NoInfo EXCEPT !.path = p, !.time = vol.dirtime[p]]
    ELSE LET n == vol.node[p]
         IN  [path |-> p, node |-> n, archive |-> vol.archive[n],
              time |-> vol.time[n], linked |-> HardLinked(vol, n)]

\* The first half of BackupFile, up to reading the directory if it is one.
OpenFile(p, fs) ==
    \/ /\ p \in Excluded \/ (p \in File /\ ~ Exists(vol, p))
       /\ Return(fs)
    \/ /\ p \in Dir \ Excluded
       /\ frames' = Append(fs, [info |-> FileInfo(p), left |-> Children(p)])
       /\ pc' = "scan"
       /\ UNCHANGED cur
    \/ /\ p \in File \ Excluded
       /\ Exists(vol, p)
       /\ frames' = fs
       /\ cur' = FileInfo(p)
       /\ pc' = "opened"

NextArgument ==
    /\ pc = "next"
    /\ ~ bCancel
    /\ todo # <<>>
    /\ todo' = Tail(todo)
    /\ OpenFile(Head(todo), <<>>)
    /\ UNCHANGED <<vol, clock, archive, sessions, method, links, bCancel, complete>>

Finish ==
    /\ pc = "next"
    /\ bCancel \/ todo = <<>>
    /\ pc' = "idle"
    /\ UNCHANGED <<vol, clock, archive, sessions, method, todo, frames, links,
                   cur, bCancel, complete>>

\* Defect.
FindNext_FromStart ==
    /\ pc = "scan"
    /\ ~ bCancel
    /\ \E p \in Last(frames).left : OpenFile(p, frames)
    /\ UNCHANGED <<vol, clock, archive, sessions, method, todo, links, bCancel,
                   complete>>

\* Directory entries come in any order; a name is found at most once.
FindNext ==
    /\ pc = "scan"
    /\ ~ bCancel
    /\ \E p \in Last(frames).left :
         OpenFile(p, [frames EXCEPT ![Len(frames)].left = @ \ {p}])
    /\ UNCHANGED <<vol, clock, archive, sessions, method, todo, links, bCancel,
                   complete>>

\* BackupDirectory returns to the BackupFile of the directory itself, which
\* goes on whether all names have been found or the next could not be read.
EndOfDirectory ==
    /\ pc = "scan"
    /\ \/ /\ bCancel \/ Last(frames).left = {}
          /\ UNCHANGED complete
       \/ /\ "unreadable" \in UserOps
          /\ complete' = FALSE
    /\ frames' = Front(frames)
    /\ cur' = Last(frames).info
    /\ pc' = "opened"
    /\ UNCHANGED <<vol, clock, archive, sessions, method, todo, links, bCancel>>

Wanted ==
    /\ ~ bCancel
    /\ cur.path \in Included
    /\ method \in {"DIFF", "INC"} => cur.archive

\* Defect.
Skip_Tracking ==
    /\ pc = "opened"
    /\ ~ Wanted
    /\ links' = IF cur.linked
                THEN links \cup {[node |-> cur.node, name |-> cur.path]}
                ELSE links
    /\ Return(frames)
    /\ UNCHANGED <<vol, clock, archive, sessions, method, todo, bCancel, complete>>

Skip ==
    /\ pc = "opened"
    /\ ~ Wanted
    /\ Return(frames)
    /\ UNCHANGED <<vol, clock, archive, sessions, method, todo, links, bCancel,
                   complete>>

\* Defect.
Header_KeepingArchive(kind) ==
    [path |-> cur.path, node |-> cur.node, archive |-> cur.archive,
     time |-> cur.time, kind |-> kind, data |-> 0, to |-> Root]

\* The header; the archive attribute is stored by COPY only.
Header(kind) ==
    [path |-> cur.path, node |-> cur.node,
     archive |-> cur.archive /\ method = "COPY", time |-> cur.time,
     kind |-> kind, data |-> 0, to |-> Root]

Tracked == cur.linked /\ bHardLinkSupport

\* Defect.
WriteLink_ThenReset ==
    /\ pc = "opened"
    /\ Wanted
    /\ Tracked
    /\ \E l \in links :
         /\ l.node = cur.node
         /\ archive' = Append(archive, [Header("link") EXCEPT !.to = l.name])
    /\ pc' = "reset"
    /\ UNCHANGED <<vol, clock, sessions, method, todo, frames, links, cur,
                   bCancel, complete>>

WriteLink ==
    /\ pc = "opened"
    /\ Wanted
    /\ Tracked
    /\ \E l \in links :
         /\ l.node = cur.node
         /\ archive' = Append(archive, [Header("link") EXCEPT !.to = l.name])
    /\ Return(frames)
    /\ UNCHANGED <<vol, clock, sessions, method, todo, links, bCancel, complete>>

\* Defect.
WriteHeader_NotTracking ==
    /\ pc = "opened"
    /\ Wanted
    /\ archive' = Append(archive, Header("none"))
    /\ pc' = "stream"
    /\ UNCHANGED <<vol, clock, sessions, method, todo, frames, links, cur,
                   bCancel, complete>>

WriteHeader ==
    /\ pc = "opened"
    /\ Wanted
    /\ Tracked => \A l \in links : l.node # cur.node
    /\ archive' = Append(archive, Header("none"))
    /\ links' = IF Tracked
                THEN links \cup {[node |-> cur.node, name |-> cur.path]}
                ELSE links
    /\ pc' = "stream"
    /\ UNCHANGED <<vol, clock, sessions, method, todo, frames, cur, bCancel,
                   complete>>

\* The entry that is being written.
SetLast(kind, d) ==
    archive' = [archive EXCEPT ![Len(archive)] =
                   [@ EXCEPT !.kind = kind, !.data = d]]

WriteStreams ==
    IF cur.path \in Dir
    THEN SetLast("dir", 0)
    ELSE SetLast("data", vol.data[cur.node])

ReadStreams ==
    /\ pc = "stream"
    /\ ~ bCancel
    /\ WriteStreams
    /\ pc' = "reset"
    /\ UNCHANGED <<vol, clock, sessions, method, todo, frames, links, cur,
                   bCancel, complete>>

\* Defect.
StopReading_ThenReset ==
    /\ pc = "stream"
    /\ \E kind \in Interrupted \cup (IF bCancel THEN {"none"} ELSE {}) :
         SetLast(kind, 0)
    /\ pc' = "reset"
    /\ complete' = FALSE
    /\ UNCHANGED <<vol, clock, sessions, method, todo, frames, links, cur, bCancel>>

\* bCancel is looked at before every block and before the end of the file.
StopReading ==
    /\ pc = "stream"
    /\ \/ \E kind \in Interrupted \cup (IF bCancel THEN {"none"} ELSE {}) :
            SetLast(kind, 0)
       \/ bCancel /\ WriteStreams
    /\ Return(frames)
    /\ complete' = FALSE
    /\ UNCHANGED <<vol, clock, sessions, method, todo, links, bCancel>>

\* The attributes set are those read when the file was opened, without ARCHIVE.
ResetArchive ==
    /\ pc = "reset"
    /\ vol' = IF method \in {"FULL", "INC"} /\ cur.archive
              THEN [vol EXCEPT !.archive[cur.node] = FALSE]
              ELSE vol
    /\ Return(frames)
    /\ UNCHANGED <<clock, archive, sessions, method, todo, links, bCancel, complete>>

\* ConsoleCtrlHandler, on a thread of its own.
Cancel ==
    /\ "cancel" \in UserOps
    /\ pc # "idle"
    /\ ~ bCancel
    /\ bCancel' = TRUE
    /\ complete' = FALSE
    /\ UNCHANGED <<vol, clock, archive, sessions, method, todo, frames, links,
                   cur, pc>>

Session ==
    \/ NextArgument
    \/ Finish
    \/ FindNext
    \/ EndOfDirectory
    \/ Skip
    \/ WriteLink
    \/ WriteHeader
    \/ ReadStreams
    \/ StopReading
    \/ ResetArchive

Next == User \/ Session \/ Cancel \/ \E m \in Methods : Start(m)

Spec == Init /\ [][Next]_vars

FairSpec == Spec /\ WF_vars(Session)
-----------------------------------------------------------------------------
\* The contents node n has now are in the archive.
Saved(n) ==
    \E i \in DOMAIN archive :
        /\ archive[i].kind = "data"
        /\ archive[i].node = n
        /\ archive[i].data = vol.data[n]

(* A file whose archive attribute is clear, which later differential and
   incremental sessions therefore pass over, is in the archive as it is. *)
ClearMeansSaved == \A n \in Live(vol) : ~ vol.archive[n] => Saved(n)

\* What follows the header of a file whose reading was not cancelled: its
\* streams, or what a failed BackupRead has left of them.
Streams == {"data"} \cup Interrupted

(* A link entry names an earlier entry, of the same file record, whose streams
   are in the archive unless they could not be read.  Nothing links to a file
   that was passed over, or whose streams a cancellation has left out.  By the
   time of the link the record may be that of another file: the link tracker
   leaves out the sequence number (linktrack.hpp:65). *)
LinksResolve ==
    \A i \in DOMAIN archive : archive[i].kind = "link" =>
        \E j \in 1 .. i - 1 :
            /\ archive[j].path = archive[i].to
            /\ archive[j].node = archive[i].node
            /\ archive[j].kind \in Streams

(* The walk comes to an end, cancelled or not, whatever fails. *)
SessionEnds == pc # "idle" ~> pc = "idle"
=============================================================================
