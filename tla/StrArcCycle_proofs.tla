------------------------ MODULE StrArcCycle_proofs ---------------------------
(***************************************************************************)
(* For every tree of files and every list of arguments: sessions keep      *)
(* their state well typed, a link entry always refers to an entry of its   *)
(* file record whose streams were written before it or could not be read,  *)
(* and, unless files change during a session, a file with a                *)
(* clear archive attribute is in the archive as it is and is restored from *)
(* it.  After sessions nobody disturbs, the times of directories and the   *)
(* contents of files come back, and so do hard links while files are only  *)
(* created, written and linked in between.                                 *)
(***************************************************************************)
EXTENDS StrArcCycle, SequenceTheorems, WellFoundedInduction, FiniteSetTheorems, TLAPS

(* Of a directory strarc uses neither the archive attribute nor the number of
   links; a file in hand has a node. *)
HandInfo ==
    {i \in Info : IF i.path \in Dir THEN ~ i.archive /\ ~ i.linked
                                    ELSE i.node \in Node}

DirInfo == {i \in HandInfo : i.path \in Dir}
Frame == [info : DirInfo, left : SUBSET Path]

InHand ==
    /\ cur \in HandInfo
    /\ frames \in Seq(Frame)
    /\ pc = "scan" => frames # <<>>

(* An entry of this name and record has its streams, or what could be read. *)
Written(l) ==
    \E j \in DOMAIN archive :
        /\ archive[j].path = l.name
        /\ archive[j].node = l.node
        /\ archive[j].kind \in Streams

(* Every item of the link tracker is of such an entry or of the file in hand,
   except in a session that has been cancelled and makes no more links. *)
ItemsWritten ==
    \A l \in links :
        \/ bCancel
        \/ Written(l)
        \/ pc = "stream" /\ l.name = cur.path /\ l.node = cur.node

(* While streams are written the last entry is that of the file in hand. *)
LastIsInHand ==
    pc = "stream" =>
        /\ archive # <<>>
        /\ archive[Len(archive)].kind = "none"
        /\ archive[Len(archive)].path = cur.path
        /\ archive[Len(archive)].node = cur.node

Typed == TypeOK /\ InHand

IInv == Typed /\ ItemsWritten /\ LastIsInHand /\ LinksResolve

(* The attribute is reset only for what has been saved. *)
ResetIsSaved == pc = "reset" /\ cur.path \in File => Saved(cur.node)

SavedInv == ClearMeansSaved /\ ResetIsSaved
-----------------------------------------------------------------------------
(* Facts about the volume. *)

LEMMA LiveNode ==
    ASSUME NEW v \in Volumes, NEW f \in File, Exists(v, f)
    PROVE  v.node[f] \in Node /\ v.node[f] \in Live(v)
  BY DEF Volumes, Exists, Live

LEMMA TouchType ==
    ASSUME NEW v \in Volumes, NEW p, NEW t \in Time
    PROVE  Touch(v, p, t) \in [Dir -> Time]
  BY DEF Volumes, Touch

LEMMA WriteNodeType ==
    ASSUME NEW v \in Volumes, NEW n \in Node, NEW d \in Data, NEW t \in Time
    PROVE  WriteNode(v, n, d, t) \in Volumes
  BY DEF Volumes, WriteNode

LEMMA CreateFileType ==
    ASSUME NEW v \in Volumes, NEW f \in File, NEW n \in Node, NEW d \in Data,
           NEW t \in Time
    PROVE  CreateFile(v, f, n, d, t) \in Volumes
<1>1. PICK w \in Volumes : w = WriteNode(v, n, d, t)
  BY WriteNodeType
<1>2. PICK td \in [Dir -> Time] : td = Touch(v, f, t)
  BY TouchType
<1>3. [w EXCEPT !.node[f] = n, !.dirtime = td] \in Volumes
  BY DEF Volumes
<1>4. QED
  BY <1>1, <1>2, <1>3 DEF CreateFile

LEMMA DeleteNameType ==
    ASSUME NEW v \in Volumes, NEW f \in File, NEW t \in Time
    PROVE  DeleteName(v, f, t) \in Volumes
  BY TouchType DEF Volumes, DeleteName

LEMMA LinkNameType ==
    ASSUME NEW v \in Volumes, NEW f \in File, NEW n \in Node, NEW t \in Time
    PROVE  LinkName(v, f, n, t) \in Volumes
  BY TouchType, TreeAssumption DEF Volumes, LinkName

LEMMA NewNodeType == ASSUME FreeNodes # {} PROVE NewNode \in FreeNodes /\ NewNode \in Node
  BY DEF FreeNodes, NewNode

(* Nothing a user does leaves the set of volumes. *)
LEMMA UserType == ASSUME TypeOK, User PROVE vol' \in Volumes /\ clock' \in 0 .. MaxClock
<1> USE DEF TypeOK
<1>1. PICK f \in File : \/ Create(f)
                        \/ Write(f)
                        \/ Delete(f)
                        \/ \E g \in File : Link(f, g)
                        \/ Replace(f)
  BY DEF User
<1>2. Now \in Time /\ clock + 1 \in Data
  BY DEF Now, Time, Data
<1>3. CASE Create(f)
  BY <1>2, <1>3, NewNodeType, CreateFileType, BackupAssumption DEF Create, UserChange
<1>4. CASE Write(f)
  BY <1>2, <1>4, LiveNode, WriteNodeType, BackupAssumption DEF Write, UserChange
<1>5. CASE Delete(f)
  BY <1>2, <1>5, DeleteNameType, BackupAssumption DEF Delete, UserChange
<1>6. ASSUME NEW g \in File, Link(f, g) PROVE vol' \in Volumes /\ clock' \in 0 .. MaxClock
  BY <1>2, <1>6, LiveNode, LinkNameType, BackupAssumption DEF Link, UserChange
<1>7. CASE Replace(f)
  BY <1>2, <1>7, NewNodeType, CreateFileType, BackupAssumption DEF Replace, UserChange
<1>8. QED
  BY <1>1, <1>3, <1>4, <1>5, <1>6, <1>7
-----------------------------------------------------------------------------
(* Facts about the walk. *)

LEMMA HandInfoIsInfo == HandInfo \subseteq Info /\ NoInfo \in DirInfo
  BY TreeAssumption DEF HandInfo, DirInfo, NoInfo, Info, Path, Time, NoTime

LEMMA FileInfoType ==
    ASSUME vol \in Volumes, NEW p \in Path, p \in File => Exists(vol, p)
    PROVE  FileInfo(p) \in HandInfo /\ (p \in Dir => FileInfo(p) \in DirInfo)
<1>1. CASE p \in Dir
  BY <1>1, TreeAssumption
     DEF FileInfo, HandInfo, DirInfo, Info, NoInfo, Volumes, Path, Time
<1>2. CASE p \notin Dir
  <2>1. p \in File /\ vol.node[p] \in Node
    BY <1>2, LiveNode DEF Path
  <2>2. vol.archive[vol.node[p]] \in BOOLEAN /\ vol.time[vol.node[p]] \in Time
    BY <2>1 DEF Volumes
  <2>3. HardLinked(vol, vol.node[p]) \in BOOLEAN
    BY DEF HardLinked
  <2>4. QED
    BY <1>2, <2>1, <2>2, <2>3 DEF FileInfo, HandInfo, Info
<1>3. QED
  BY <1>1, <1>2

(* What holds of the place in the walk after a step to it. *)
WalkType(fs, c, place) ==
    /\ fs \in Seq(Frame)
    /\ c \in HandInfo
    /\ place \in {"next", "scan", "opened"}
    /\ place = "scan" => fs # <<>>

LEMMA ReturnType ==
    ASSUME NEW fs \in Seq(Frame), Return(fs)
    PROVE  WalkType(frames', cur', pc') /\ pc' # "opened"
  BY HandInfoIsInfo DEF Return, WalkType, DirInfo

LEMMA OpenFileType ==
    ASSUME vol \in Volumes, NEW p \in Path, NEW fs \in Seq(Frame),
           cur \in HandInfo, OpenFile(p, fs)
    PROVE  WalkType(frames', cur', pc')
<1>1. CASE Return(fs)
  BY <1>1, ReturnType
<1>2. CASE /\ p \in Dir \ Excluded
           /\ frames' = Append(fs, [info |-> FileInfo(p), left |-> Children(p)])
           /\ pc' = "scan"
           /\ UNCHANGED cur
  <2>1. [info |-> FileInfo(p), left |-> Children(p)] \in Frame
    BY <1>2, FileInfoType, TreeAssumption DEF Frame, Children
  <2>2. frames' \in Seq(Frame) /\ frames' # <<>>
    BY <1>2, <2>1
  <2>3. QED
    BY <1>2, <2>2 DEF WalkType
<1>3. CASE /\ p \in File \ Excluded
           /\ Exists(vol, p)
           /\ frames' = fs
           /\ cur' = FileInfo(p)
           /\ pc' = "opened"
  BY <1>3, FileInfoType DEF WalkType
<1>4. QED
  BY <1>1, <1>2, <1>3 DEF OpenFile

LEMMA HeaderType ==
    ASSUME TypeOK, cur \in HandInfo,
           NEW kind \in {"data", "link", "dir", "none", "part"}
    PROVE  /\ Header(kind) \in Entries
           /\ Header(kind).kind = kind
           /\ Header(kind).node = cur.node
           /\ Header(kind).path = cur.path
           /\ \A to \in Path : [Header(kind) EXCEPT !.to = to] \in Entries
<1>1. /\ cur.path \in Path /\ cur.node \in Node \cup {NoNode} /\ cur.time \in Time
      /\ (cur.archive /\ method = "COPY") \in BOOLEAN
      /\ 0 \in Data /\ Root \in Path
  BY TreeAssumption DEF HandInfo, Info, Path, Data
<1>2. Header(kind) \in Entries
  BY <1>1 DEF Header, Entries
<1>3. Header(kind).kind = kind /\ Header(kind).node = cur.node /\ Header(kind).path = cur.path
  BY DEF Header
<1>4. \A to \in Path : [Header(kind) EXCEPT !.to = to] \in Entries
  BY <1>2 DEF Entries
<1>5. QED
  BY <1>2, <1>3, <1>4

(* SetLast changes what is written after the last header, nothing else. *)
LEMMA SetLastType ==
    ASSUME archive \in Seq(Entries), archive # <<>>,
           NEW kind \in {"data", "link", "dir", "none", "part"}, NEW d \in Data,
           SetLast(kind, d)
    PROVE  /\ archive' \in Seq(Entries)
           /\ Len(archive') = Len(archive)
           /\ \A i \in 1 .. Len(archive) - 1 : archive'[i] = archive[i]
           /\ archive'[Len(archive)] =
                  [archive[Len(archive)] EXCEPT !.kind = kind, !.data = d]
<1> DEFINE last == [archive[Len(archive)] EXCEPT !.kind = kind, !.data = d]
<1>1. Len(archive) \in 1 .. Len(archive) /\ archive[Len(archive)] \in Entries
  BY EmptySeq, ElementOfSeq
<1>2. last \in Entries
  BY <1>1 DEF Entries
<1>3. archive' = [archive EXCEPT ![Len(archive)] = last]
  BY DEF SetLast
<1> HIDE DEF last
<1>4. archive' \in Seq(Entries) /\ Len(archive') = Len(archive)
  BY <1>1, <1>2, <1>3, ExceptSeq
<1>5. \A j \in 1 .. Len(archive) :
         archive'[j] = IF j = Len(archive) THEN last ELSE archive[j]
  BY <1>1, <1>2, <1>3, ExceptSeq
<1>6. QED
  BY <1>1, <1>4, <1>5 DEF last
-----------------------------------------------------------------------------
(* Types. *)

LEMMA FrameIsTyped == Seq(Frame) \subseteq Seq([info : Info, left : SUBSET Path])
<1>1. Frame \subseteq [info : Info, left : SUBSET Path]
  BY HandInfoIsInfo DEF Frame, DirInfo
<1>2. QED
  BY <1>1, SeqMonotonic

LEMMA WalkTyped ==
    ASSUME TypeOK, WalkType(frames', cur', pc'), todo' \in Seq(Path),
           archive' \in Seq(Entries), links' \subseteq [node : Node, name : File],
           vol' \in Volumes, complete' \in BOOLEAN,
           UNCHANGED <<clock, sessions, method, bCancel>>
    PROVE  Typed'
<1>1. cur' \in Info /\ frames' \in Seq([info : Info, left : SUBSET Path])
  BY HandInfoIsInfo, FrameIsTyped DEF WalkType
<1>2. pc' \in {"next", "scan", "opened"}
  BY DEF WalkType
<1>3. TypeOK'
  BY <1>1, <1>2 DEF TypeOK
<1>4. QED
  BY <1>3 DEF Typed, InHand, WalkType

LEMMA InitTyped == Init => Typed
<1> SUFFICES ASSUME Init PROVE Typed
  OBVIOUS
<1>1. vol \in Volumes
  BY TreeAssumption DEF Init, Volumes, Data, Time, NoTime
<1>2. cur \in HandInfo /\ cur \in Info
  BY HandInfoIsInfo DEF Init, DirInfo
<1>3. /\ archive \in Seq(Entries) /\ todo \in Seq(Path)
      /\ frames \in Seq([info : Info, left : SUBSET Path])
      /\ frames \in Seq(Frame)
  BY EmptySeq DEF Init
<1>4. /\ clock \in 0 .. MaxClock /\ sessions \in 0 .. MaxSessions
      /\ method \in AllMethods
  BY BackupAssumption DEF Init, AllMethods
<1>5. TypeOK
  BY <1>1, <1>2, <1>3, <1>4 DEF Init, TypeOK
<1>6. QED
  BY <1>2, <1>3, <1>5 DEF Init, Typed, InHand

LEMMA SkipWalks ==
    ASSUME Typed, Return(frames)
    PROVE  WalkType(frames', cur', pc')
  BY ReturnType DEF Typed, InHand

LEMMA NextArgumentTyped == ASSUME Typed, NextArgument PROVE Typed'
<1>1. todo # <<>> /\ todo \in Seq(Path)
  BY DEF NextArgument, Typed, TypeOK
<1>2. Head(todo) \in Path /\ todo' \in Seq(Path)
  BY <1>1, HeadTailProperties DEF NextArgument
<1>3. OpenFile(Head(todo), <<>>) /\ <<>> \in Seq(Frame)
  BY EmptySeq DEF NextArgument
<1>4. WalkType(frames', cur', pc')
  BY <1>2, <1>3, OpenFileType DEF Typed, TypeOK, InHand
<1>5. QED
  BY <1>2, <1>4, WalkTyped DEF NextArgument, Typed, TypeOK

LEMMA FindNextTyped == ASSUME Typed, FindNext PROVE Typed'
<1>1. frames \in Seq(Frame) /\ frames # <<>>
  BY DEF FindNext, Typed, InHand
<1>2. Len(frames) \in 1 .. Len(frames) /\ Last(frames) \in Frame
  BY <1>1, EmptySeq, ElementOfSeq DEF Last
<1>3. PICK p \in Last(frames).left :
        OpenFile(p, [frames EXCEPT ![Len(frames)].left = @ \ {p}])
  BY DEF FindNext
<1> DEFINE frame == [Last(frames) EXCEPT !.left = @ \ {p}]
           fs == [frames EXCEPT ![Len(frames)].left = @ \ {p}]
<1>4. p \in Path /\ frame \in Frame
  BY <1>2 DEF Frame
<1>5. fs = [frames EXCEPT ![Len(frames)] = frame]
  BY DEF Last
<1> HIDE DEF frame
<1>6. fs \in Seq(Frame)
  BY <1>1, <1>2, <1>4, <1>5, ExceptSeq
<1> HIDE DEF fs
<1>7. WalkType(frames', cur', pc')
  BY <1>3, <1>4, <1>6, OpenFileType DEF Typed, TypeOK, InHand, fs
<1>8. QED
  BY <1>7, WalkTyped DEF FindNext, Typed, TypeOK

LEMMA EndOfDirectoryTyped == ASSUME Typed, EndOfDirectory PROVE Typed'
<1>1. frames \in Seq(Frame) /\ frames # <<>>
  BY DEF EndOfDirectory, Typed, InHand
<1>2. Len(frames) \in 1 .. Len(frames) /\ Last(frames) \in Frame
  BY <1>1, EmptySeq, ElementOfSeq DEF Last
<1>3. cur' \in HandInfo
  BY <1>2 DEF EndOfDirectory, Frame, DirInfo
<1>4. Front(frames) \in Seq(Frame)
  <2>1. \A i \in 1 .. Len(frames) - 1 : frames[i] \in Frame
    BY <1>1, ElementOfSeq
  <2>2. QED
    BY <1>1, <2>1, SubSeqProperties DEF Front
<1>5. WalkType(frames', cur', pc')
  BY <1>3, <1>4 DEF EndOfDirectory, WalkType
<1>6. QED
  BY <1>5, WalkTyped DEF EndOfDirectory, Typed, TypeOK

LEMMA WriteLinkTyped == ASSUME Typed, WriteLink PROVE Typed'
<1>1. PICK l \in links :
        archive' = Append(archive, [Header("link") EXCEPT !.to = l.name])
  BY DEF WriteLink
<1>2. l.name \in Path
  BY DEF Typed, TypeOK, Path
<1>3. [Header("link") EXCEPT !.to = l.name] \in Entries
  BY <1>2, HeaderType DEF Typed, InHand
<1>4. archive' \in Seq(Entries)
  BY <1>1, <1>3 DEF Typed, TypeOK
<1>5. WalkType(frames', cur', pc')
  BY SkipWalks DEF WriteLink
<1>6. QED
  BY <1>4, <1>5, WalkTyped DEF WriteLink, Typed, TypeOK

LEMMA WriteHeaderTyped == ASSUME Typed, WriteHeader PROVE Typed'
<1>1. archive' \in Seq(Entries)
  BY HeaderType DEF WriteHeader, Typed, TypeOK, InHand
<1>2. Tracked => cur.node \in Node /\ cur.path \in File
  BY DEF Tracked, Typed, InHand, HandInfo, Info, Path
<1>3. links' \subseteq [node : Node, name : File]
  BY <1>2 DEF WriteHeader, Typed, TypeOK
<1>4. QED
  BY <1>1, <1>3 DEF WriteHeader, Typed, TypeOK, InHand

(* All that is read of a file or directory, or what there was before reading
   stopped, becomes a part of its entry. *)
LEMMA StreamsSetLast ==
    ASSUME Typed, pc = "stream", ReadStreams \/ StopReading
    PROVE  \E kind \in {"data", "dir", "none", "part"}, d \in Data : SetLast(kind, d)
<1>1. CASE WriteStreams
  <2>1. cur.path \notin Dir => vol.data[cur.node] \in Data
    BY DEF Typed, TypeOK, InHand, HandInfo, Volumes
  <2>2. QED
    BY <1>1, <2>1 DEF WriteStreams, Data
<1>2. CASE ~ WriteStreams
  BY <1>2, BackupAssumption DEF ReadStreams, StopReading, Data
<1>3. QED
  BY <1>1, <1>2

LEMMA StreamsTyped ==
    ASSUME Typed, LastIsInHand, ReadStreams \/ StopReading
    PROVE  Typed'
<1>1. archive \in Seq(Entries) /\ archive # <<>> /\ pc = "stream"
  BY DEF Typed, TypeOK, LastIsInHand, ReadStreams, StopReading
<1>2. archive' \in Seq(Entries)
  BY <1>1, StreamsSetLast, SetLastType
<1>3. CASE ReadStreams
  BY <1>2, <1>3 DEF ReadStreams, Typed, TypeOK, InHand
<1>4. CASE StopReading
  <2>1. WalkType(frames', cur', pc')
    BY <1>4, SkipWalks DEF StopReading
  <2>2. QED
    BY <1>2, <1>4, <2>1, WalkTyped DEF StopReading, Typed, TypeOK
<1>5. QED
  BY <1>3, <1>4

LEMMA ResetArchiveTyped == ASSUME Typed, ResetArchive PROVE Typed'
<1>1. vol' \in Volumes
  BY DEF ResetArchive, Typed, TypeOK, Volumes
<1>2. WalkType(frames', cur', pc')
  BY SkipWalks DEF ResetArchive
<1>3. QED
  BY <1>1, <1>2, WalkTyped DEF ResetArchive, Typed, TypeOK

LEMMA SessionTyped == ASSUME Typed, LastIsInHand, Session PROVE Typed'
<1>1. CASE Finish
  BY <1>1 DEF Finish, Typed, TypeOK, InHand
<1>2. CASE Skip
  BY <1>2, SkipWalks, WalkTyped DEF Skip, Typed, TypeOK
<1>3. QED
  BY <1>1, <1>2, NextArgumentTyped, FindNextTyped, EndOfDirectoryTyped,
     WriteLinkTyped, WriteHeaderTyped, StreamsTyped, ResetArchiveTyped DEF Session

LEMMA StepTyped == ASSUME Typed, LastIsInHand, [Next]_vars PROVE Typed'
<1>1. CASE User
  <2>1. UNCHANGED <<archive, sessions, session>> /\ complete' = FALSE
    BY <1>1 DEF User, Create, Write, Delete, Link, Replace, UserChange
  <2>2. QED
    BY <1>1, <2>1, UserType DEF session, Typed, TypeOK, InHand
<1>2. CASE Cancel
  BY <1>2 DEF Cancel, Typed, TypeOK, InHand
<1>3. ASSUME NEW m \in Methods, Start(m) PROVE Typed'
  <2>1. m \in AllMethods /\ List \in Seq(Path)
    BY BackupAssumption
  <2>2. sessions' \in 0 .. MaxSessions
    BY <1>3, BackupAssumption DEF Start, Typed, TypeOK
  <2>3. TypeOK'
    BY <1>3, <2>1, <2>2 DEF Start, Typed, TypeOK
  <2>4. QED
    BY <1>3, <2>3 DEF Start, Typed, InHand
<1>4. CASE UNCHANGED vars
  BY <1>4 DEF vars, session, Typed, TypeOK, InHand
<1>5. QED
  BY <1>1, <1>2, <1>3, <1>4, SessionTyped DEF Next
-----------------------------------------------------------------------------
(* Entries. *)

(* The archive grows; what an entry says of its file and whether it is a link
   stay as they were when its header was written, streams that have been
   written stay, and only the last entry is written to. *)
Extends ==
    /\ archive \in Seq(Entries) /\ archive' \in Seq(Entries)
    /\ Len(archive) <= Len(archive')
    /\ \A i \in 1 .. Len(archive) :
         /\ archive'[i].path = archive[i].path
         /\ archive'[i].node = archive[i].node
         /\ archive'[i].to = archive[i].to
         /\ archive'[i].kind = "link" <=> archive[i].kind = "link"
         /\ archive[i].kind = "data" \/ i # Len(archive) => archive'[i] = archive[i]

LEMMA SameExtends ==
    ASSUME Typed, UNCHANGED archive
    PROVE  Extends
  BY LenProperties DEF Extends, Typed, TypeOK

LEMMA AppendExtends ==
    ASSUME Typed, NEW e \in Entries, archive' = Append(archive, e)
    PROVE  /\ Extends
           /\ Len(archive') = Len(archive) + 1
           /\ archive'[Len(archive')] = e
           /\ \A i \in DOMAIN archive : archive'[i] = archive[i]
  BY DEF Extends, Typed, TypeOK

LEMMA SetLastExtends ==
    ASSUME Typed, LastIsInHand, pc = "stream",
           NEW kind \in {"data", "dir", "none", "part"}, NEW d \in Data,
           SetLast(kind, d)
    PROVE  /\ Extends
           /\ Len(archive') = Len(archive)
           /\ Len(archive) \in DOMAIN archive'
           /\ archive'[Len(archive)].kind = kind
           /\ archive'[Len(archive)].data = d
           /\ archive'[Len(archive)].node = cur.node
<1>1. /\ archive \in Seq(Entries) /\ archive # <<>>
      /\ archive[Len(archive)].kind = "none"
      /\ archive[Len(archive)].node = cur.node
  BY DEF Typed, TypeOK, LastIsInHand
<1>2. Len(archive) \in 1 .. Len(archive) /\ archive[Len(archive)] \in Entries
  BY <1>1, EmptySeq, ElementOfSeq
<1>3. /\ archive' \in Seq(Entries)
      /\ Len(archive') = Len(archive)
      /\ \A i \in 1 .. Len(archive) - 1 : archive'[i] = archive[i]
      /\ archive'[Len(archive)] =
             [archive[Len(archive)] EXCEPT !.kind = kind, !.data = d]
  BY <1>1, SetLastType, ZenonT(60)
<1>4. /\ archive'[Len(archive)].path = archive[Len(archive)].path
      /\ archive'[Len(archive)].node = archive[Len(archive)].node
      /\ archive'[Len(archive)].to = archive[Len(archive)].to
      /\ archive'[Len(archive)].kind = kind
      /\ archive'[Len(archive)].data = d
  BY <1>2, <1>3 DEF Entries
<1>5. \A i \in 1 .. Len(archive) : i = Len(archive) \/ i \in 1 .. Len(archive) - 1
  BY <1>2
<1>6. Extends
  <2>1. Len(archive) <= Len(archive')
    BY <1>2, <1>3
  <2>2. ASSUME NEW i \in 1 .. Len(archive)
        PROVE  /\ archive'[i].path = archive[i].path
               /\ archive'[i].node = archive[i].node
               /\ archive'[i].to = archive[i].to
               /\ archive'[i].kind = "link" <=> archive[i].kind = "link"
               /\ archive[i].kind = "data" \/ i # Len(archive) => archive'[i] = archive[i]
    <3>1. CASE i = Len(archive)
      BY <1>1, <1>4, <3>1
    <3>2. CASE i \in 1 .. Len(archive) - 1
      BY <1>3, <3>2
    <3>3. QED
      BY <1>5, <3>1, <3>2
  <2>3. QED
    BY <1>1, <1>3, <2>1, <2>2 DEF Extends
<1>7. Len(archive) \in DOMAIN archive'
  BY <1>2, <1>3, LenProperties
<1>8. QED
  BY <1>1, <1>3, <1>4, <1>6, <1>7

(* A step that writes to no entry there is, nor to the tracker, except to
   empty it, and that leaves the file in hand alone while it is read. *)
LEMMA ItemsKept ==
    ASSUME ItemsWritten, Extends,
           \A i \in DOMAIN archive : archive'[i] = archive[i],
           links' = {} \/ (links' \subseteq links /\ (bCancel => bCancel')),
           pc = "stream" => pc' = "stream" /\ UNCHANGED cur
    PROVE  ItemsWritten'
<1>1. DOMAIN archive \subseteq DOMAIN archive'
  BY LenProperties DEF Extends
<1>2. \A l : Written(l) => Written(l)'
  BY <1>1 DEF Written
<1>3. QED
  BY <1>2 DEF ItemsWritten

(* The link i names an earlier entry with streams. *)
Resolved(i) ==
    \E j \in 1 .. i - 1 :
        /\ archive[j].path = archive[i].to
        /\ archive[j].node = archive[i].node
        /\ archive[j].kind \in Streams

(* What an old link names stays as it is. *)
LEMMA LinksKept ==
    ASSUME LinksResolve, Extends,
           \A i \in DOMAIN archive' :
               i > Len(archive) /\ archive'[i].kind = "link" => Resolved(i)'
    PROVE  LinksResolve'
<1> SUFFICES ASSUME NEW i \in DOMAIN archive', archive'[i].kind = "link"
             PROVE  Resolved(i)'
  BY DEF LinksResolve, Resolved
<1>1. /\ DOMAIN archive = 1 .. Len(archive) /\ DOMAIN archive' = 1 .. Len(archive')
      /\ Len(archive) \in Nat /\ Len(archive') \in Nat
  BY LenProperties DEF Extends
<1>2. CASE i <= Len(archive)
  <2>0. i \in DOMAIN archive /\ i \in 1 .. Len(archive)
    BY <1>1, <1>2
  <2>1. archive[i].kind = "link"
    BY <2>0 DEF Extends
  <2>2. PICK j \in 1 .. i - 1 : /\ archive[j].path = archive[i].to
                                /\ archive[j].node = archive[i].node
                                /\ archive[j].kind \in Streams
    BY <2>0, <2>1 DEF LinksResolve
  <2>3. j \in 1 .. Len(archive) /\ j # Len(archive)
    <3>1. \A n \in Nat : \A k \in 1 .. n : \A m \in 1 .. k - 1 : m \in 1 .. n /\ m # n
      OBVIOUS
    <3>2. QED
      BY <1>1, <2>0, <2>2, <3>1, Zenon
  <2>4. QED
    BY <2>0, <2>2, <2>3 DEF Extends, Resolved
<1>3. QED
  BY <1>1, <1>2

(* No link is written. *)
LEMMA NoLinkAdded ==
    ASSUME LinksResolve, Extends,
           \A i \in DOMAIN archive' : i > Len(archive) => archive'[i].kind # "link"
    PROVE  LinksResolve'
  BY LinksKept

LEMMA WriteLinkEntries ==
    ASSUME IInv, WriteLink
    PROVE  Extends /\ (ItemsWritten /\ LastIsInHand /\ LinksResolve)'
<1>1. PICK l \in links :
        /\ l.node = cur.node
        /\ archive' = Append(archive, [Header("link") EXCEPT !.to = l.name])
  BY DEF WriteLink
<1> DEFINE e == [Header("link") EXCEPT !.to = l.name]
<1>2. l.name \in Path
  BY DEF IInv, Typed, TypeOK, Path
<1>3. e \in Entries /\ e.to = l.name /\ e.node = cur.node
  BY <1>2, HeaderType DEF IInv, Typed, InHand, Header
<1>4. /\ Extends
      /\ Len(archive') = Len(archive) + 1
      /\ archive'[Len(archive')] = e
      /\ \A i \in DOMAIN archive : archive'[i] = archive[i]
  BY <1>1, <1>3, AppendExtends DEF IInv
<1> HIDE DEF e
<1>5. pc = "opened" /\ ~ bCancel /\ UNCHANGED <<links, bCancel>>
  BY DEF WriteLink, Wanted
<1>6. ItemsWritten'
  BY <1>4, <1>5, ItemsKept DEF IInv
<1>7. PICK j \in DOMAIN archive : /\ archive[j].path = l.name
                                  /\ archive[j].node = l.node
                                  /\ archive[j].kind \in Streams
  BY <1>5 DEF IInv, ItemsWritten, Written
<1>8. DOMAIN archive = 1 .. Len(archive) /\ DOMAIN archive' = 1 .. Len(archive')
      /\ Len(archive) \in Nat
  BY <1>4, LenProperties DEF Extends
<1>9. \A i \in DOMAIN archive' : i > Len(archive) => i = Len(archive')
  BY <1>4, <1>8
<1>10. j \in 1 .. Len(archive') - 1
  BY <1>4, <1>7, <1>8
<1>11. Resolved(Len(archive))'
  BY <1>1, <1>3, <1>4, <1>7, <1>10 DEF Resolved
<1>12. LinksResolve'
  BY <1>4, <1>9, <1>11, LinksKept DEF IInv
<1>13. LastIsInHand'
  BY DEF WriteLink, Return, LastIsInHand
<1>14. QED
  BY <1>4, <1>6, <1>12, <1>13

LEMMA WriteHeaderEntries ==
    ASSUME IInv, WriteHeader
    PROVE  Extends /\ (ItemsWritten /\ LastIsInHand /\ LinksResolve)'
<1> DEFINE e == Header("none")
<1>1. e \in Entries /\ e.kind = "none" /\ e.node = cur.node /\ e.path = cur.path
  BY HeaderType DEF IInv, Typed, InHand
<1>2. /\ Extends
      /\ Len(archive') = Len(archive) + 1
      /\ archive'[Len(archive')] = e
      /\ \A i \in DOMAIN archive : archive'[i] = archive[i]
  BY <1>1, AppendExtends DEF IInv, WriteHeader
<1> HIDE DEF e
<1>3. /\ DOMAIN archive' = 1 .. Len(archive') /\ DOMAIN archive = 1 .. Len(archive)
      /\ Len(archive) \in Nat
  BY <1>2, LenProperties DEF Extends
<1>4. /\ pc = "opened" /\ pc' = "stream" /\ UNCHANGED <<cur, bCancel>>
      /\ \A l \in links' : l \in links \/ l = [node |-> cur.node, name |-> cur.path]
  BY DEF WriteHeader
<1>5. \A l : Written(l) => Written(l)'
  BY <1>2, <1>3 DEF Written
<1>6. ItemsWritten'
  BY <1>4, <1>5 DEF IInv, ItemsWritten
<1>7. \A i \in DOMAIN archive' : i > Len(archive) => archive'[i].kind # "link"
  BY <1>1, <1>2, <1>3
<1>8. LinksResolve'
  BY <1>2, <1>7, NoLinkAdded DEF IInv
<1>9. LastIsInHand'
  BY <1>1, <1>2, <1>3, <1>4 DEF LastIsInHand
<1>10. QED
  BY <1>2, <1>6, <1>8, <1>9

(* The streams of a file, or what has been read of them, and an item of the
   tracker that is of its record and name. *)
LEMMA StreamsAreIts ==
    ASSUME IInv, pc = "stream", ~ bCancel, ReadStreams \/ StopReading,
           NEW l \in links, l.name = cur.path, l.node = cur.node
    PROVE  Written(l)'
<1>1. cur.path \in File /\ cur.path \notin Dir
  BY TreeAssumption DEF IInv, Typed, TypeOK
<1>2. PICK kind \in Streams, d \in Data : SetLast(kind, d)
  <2>1. CASE ReadStreams
    <3>1. SetLast("data", vol.data[cur.node]) /\ vol.data[cur.node] \in Data
      BY <1>1, <2>1 DEF ReadStreams, WriteStreams, IInv, Typed, TypeOK, Volumes
    <3>2. QED
      BY <3>1 DEF Streams
  <2>2. CASE StopReading
    BY <2>2 DEF StopReading, Streams, Data
  <2>3. QED
    BY <2>1, <2>2
<1>3. archive \in Seq(Entries) /\ archive # <<>> /\ kind \in {"data", "none", "part"}
      /\ archive[Len(archive)].path = cur.path /\ archive[Len(archive)].node = cur.node
  BY <1>2, BackupAssumption DEF IInv, Typed, TypeOK, LastIsInHand, Streams
<1>4. /\ Extends
      /\ Len(archive) \in DOMAIN archive'
      /\ archive'[Len(archive)].kind = kind
  BY <1>2, <1>3, SetLastExtends DEF IInv
<1>5. Len(archive) \in 1 .. Len(archive)
  BY <1>3, EmptySeq
<1>6. QED
  BY <1>3, <1>4, <1>5 DEF Written, Extends, Streams

LEMMA StreamEntries ==
    ASSUME IInv, ReadStreams \/ StopReading
    PROVE  Extends /\ (ItemsWritten /\ LastIsInHand /\ LinksResolve)'
<1>1. pc = "stream" /\ pc' # "stream" /\ UNCHANGED <<links, bCancel>>
  BY DEF ReadStreams, StopReading, Return
<1>2. PICK kind \in {"data", "dir", "none", "part"}, d \in Data : SetLast(kind, d)
  BY <1>1, StreamsSetLast DEF IInv
<1>3. Extends /\ Len(archive') = Len(archive)
  BY <1>1, <1>2, SetLastExtends DEF IInv
<1>4. /\ DOMAIN archive' = 1 .. Len(archive) /\ DOMAIN archive = 1 .. Len(archive)
      /\ Len(archive) \in Nat
  BY <1>3, LenProperties DEF Extends
<1>5. LinksResolve'
  BY <1>3, <1>4, NoLinkAdded DEF IInv
<1>6. ASSUME NEW l \in links, ~ bCancel PROVE Written(l)'
  <2>1. CASE l.name = cur.path /\ l.node = cur.node
    BY <1>1, <1>6, <2>1, StreamsAreIts
  <2>2. CASE ~ (l.name = cur.path /\ l.node = cur.node)
    <3>1. PICK j \in DOMAIN archive : /\ archive[j].path = l.name
                                      /\ archive[j].node = l.node
                                      /\ archive[j].kind \in Streams
      BY <1>6, <2>2 DEF IInv, ItemsWritten, Written
    <3>2. j # Len(archive)
      BY <1>1, <2>2, <3>1 DEF IInv, LastIsInHand
    <3>3. QED
      BY <1>3, <1>4, <3>1, <3>2 DEF Extends, Written
  <2>3. QED
    BY <2>1, <2>2
<1>7. ItemsWritten'
  BY <1>1, <1>6 DEF ItemsWritten
<1>8. QED
  BY <1>1, <1>3, <1>5, <1>7 DEF LastIsInHand

(* Every other step writes nothing. *)
LEMMA OtherEntries ==
    ASSUME IInv, [Next]_vars, ~ WriteLink, ~ WriteHeader, ~ ReadStreams, ~ StopReading
    PROVE  Extends /\ (ItemsWritten /\ LastIsInHand /\ LinksResolve)'
<1>1. /\ UNCHANGED archive
      /\ links' = {} \/ (UNCHANGED links /\ (bCancel => bCancel'))
  BY DEF Next, Session, User, Create, Write, Delete, Link, Replace, UserChange,
         session, Start, NextArgument, Finish, FindNext, EndOfDirectory, Skip,
         ResetArchive, Cancel, vars
<1>2. pc' = "stream" <=> pc = "stream"
  BY DEF Next, Session, User, Create, Write, Delete, Link, Replace, UserChange,
         session, Start, NextArgument, Finish, FindNext, EndOfDirectory, Skip,
         ResetArchive, Cancel, vars, OpenFile, Return
<1>3. pc = "stream" => UNCHANGED cur
  BY DEF Next, Session, User, Create, Write, Delete, Link, Replace, UserChange,
         session, Start, NextArgument, Finish, FindNext, EndOfDirectory, Skip,
         ResetArchive, Cancel, vars
<1>4. Extends /\ Len(archive') = Len(archive)
  BY <1>1, SameExtends DEF IInv
<1>5. LastIsInHand'
  BY <1>1, <1>2, <1>3 DEF IInv, LastIsInHand
<1>6. ItemsWritten'
  BY <1>1, <1>2, <1>3, <1>4, ItemsKept DEF IInv
<1>7. LinksResolve'
  <2>1. \A i \in DOMAIN archive' : ~ i > Len(archive)
    BY <1>1, LenProperties DEF IInv, Typed, TypeOK
  <2>2. QED
    BY <1>4, <2>1, NoLinkAdded DEF IInv
<1>8. QED
  BY <1>4, <1>5, <1>6, <1>7

LEMMA StepIInv == ASSUME IInv, [Next]_vars PROVE Extends /\ IInv'
<1>1. Typed'
  BY StepTyped DEF IInv
<1>2. Extends /\ (ItemsWritten /\ LastIsInHand /\ LinksResolve)'
  BY WriteLinkEntries, WriteHeaderEntries, StreamEntries, OtherEntries
<1>3. QED
  BY <1>1, <1>2 DEF IInv

LEMMA InitIInv == Init => IInv
<1>1. Init => ItemsWritten /\ LastIsInHand
  BY DEF Init, ItemsWritten, LastIsInHand
<1>2. Init => LinksResolve
  BY DEF Init, LinksResolve
<1>3. QED
  BY <1>1, <1>2, InitTyped DEF IInv

(* The state of a session is well typed, and a link entry refers to an entry of
   the same file record written before it, with its streams unless they could
   not be read, although files come and go and a session may be cancelled at any
   point. *)
THEOREM LinkEntries == Spec => [](TypeOK /\ LinksResolve)
<1>1. Spec => []IInv
  BY InitIInv, StepIInv, PTL DEF Spec
<1>2. IInv => TypeOK /\ LinksResolve
  BY DEF IInv, Typed
<1>3. QED
  BY <1>1, <1>2, PTL
-----------------------------------------------------------------------------
(* The archive attribute. *)

(* What is clean in w was clean in v, and has the same contents. *)
CleanKept(v, w) ==
    \A n \in Live(w) : ~ w.archive[n] =>
        n \in Live(v) /\ ~ v.archive[n] /\ w.data[n] = v.data[n]

LEMMA LiveIsNode == ASSUME NEW v \in Volumes PROVE Live(v) \subseteq Node
  BY LiveNode DEF Live

LEMMA WriteClean ==
    ASSUME NEW v \in Volumes, NEW n \in Node, NEW d \in Data, NEW t \in Time
    PROVE  CleanKept(v, WriteNode(v, n, d, t))
<1> DEFINE w == WriteNode(v, n, d, t)
<1>1. w.node = v.node /\ Live(w) = Live(v) /\ Live(v) \subseteq Node
  BY LiveIsNode DEF WriteNode, Live, Exists, Volumes
<1>2. \A m \in Node : /\ w.archive[m] = (m = n \/ v.archive[m])
                      /\ m # n => w.data[m] = v.data[m]
  BY DEF WriteNode, Volumes
<1> HIDE DEF w
<1>3. QED
  BY <1>1, <1>2 DEF CleanKept, w

LEMMA CreateClean ==
    ASSUME NEW v \in Volumes, NEW f \in File, NEW n \in Node, NEW d \in Data,
           NEW t \in Time
    PROVE  CleanKept(v, CreateFile(v, f, n, d, t))
<1> DEFINE w == CreateFile(v, f, n, d, t)
<1>1. w \in Volumes
  BY CreateFileType
<1>2. \A g \in File : w.node[g] = IF g = f THEN n ELSE v.node[g]
  BY DEF CreateFile, WriteNode, Volumes
<1>3. \A m \in Node : /\ w.archive[m] = (m = n \/ v.archive[m])
                      /\ m # n => w.data[m] = v.data[m]
  BY DEF CreateFile, WriteNode, Volumes
<1> HIDE DEF w
<1>4. \A m \in Live(w) : m = n \/ m \in Live(v)
  BY <1>2 DEF Live, Exists
<1>5. QED
  BY <1>1, <1>3, <1>4, LiveIsNode DEF CleanKept, w

LEMMA DeleteClean ==
    ASSUME NEW v \in Volumes, NEW f \in File, NEW t \in Time
    PROVE  CleanKept(v, DeleteName(v, f, t))
<1> DEFINE w == DeleteName(v, f, t)
<1>1. /\ \A g \in File : w.node[g] = IF g = f THEN NoNode ELSE v.node[g]
      /\ w.archive = v.archive /\ w.data = v.data
  BY DEF DeleteName, Volumes
<1> HIDE DEF w
<1>2. Live(w) \subseteq Live(v)
  BY <1>1 DEF Live, Exists
<1>3. QED
  BY <1>1, <1>2 DEF CleanKept, w

LEMMA LinkClean ==
    ASSUME NEW v \in Volumes, NEW f \in File, NEW n \in Live(v), NEW t \in Time
    PROVE  CleanKept(v, LinkName(v, f, n, t))
<1> DEFINE w == LinkName(v, f, n, t)
<1>1. \A g \in File : w.node[g] = IF g = f THEN n ELSE v.node[g]
  BY DEF LinkName, Volumes
<1>2. w.data = v.data /\ \A m \in Node : ~ w.archive[m] => ~ v.archive[m]
  BY LiveIsNode DEF LinkName, Volumes
<1> HIDE DEF w
<1>3. Live(w) \subseteq Live(v)
  BY <1>1 DEF Live, Exists
<1>4. QED
  BY <1>2, <1>3, LiveIsNode DEF CleanKept, w

LEMMA UserClean == ASSUME Typed, User PROVE CleanKept(vol, vol') /\ UNCHANGED archive
<1>1. vol \in Volumes
  BY DEF Typed, TypeOK
<1>2. Now \in Time /\ clock + 1 \in Data
  BY DEF Now, Time, Data, Typed, TypeOK
<1>3. PICK f \in File : \/ Create(f)
                        \/ Write(f)
                        \/ Delete(f)
                        \/ \E g \in File : Link(f, g)
                        \/ Replace(f)
  BY DEF User
<1>4. CASE Create(f)
  BY <1>1, <1>2, <1>4, NewNodeType, CreateClean DEF Create, UserChange
<1>5. CASE Write(f)
  BY <1>1, <1>2, <1>5, LiveNode, WriteClean DEF Write, UserChange
<1>6. CASE Delete(f)
  BY <1>1, <1>2, <1>6, DeleteClean DEF Delete, UserChange
<1>7. ASSUME NEW g \in File, Link(f, g) PROVE CleanKept(vol, vol') /\ UNCHANGED archive
  BY <1>1, <1>2, <1>7, LiveNode, LinkClean DEF Link, UserChange
<1>8. CASE Replace(f)
  BY <1>1, <1>2, <1>8, NewNodeType, CreateClean DEF Replace, UserChange
<1>9. QED
  BY <1>3, <1>4, <1>5, <1>6, <1>7, <1>8

(* What is in the archive stays there. *)
LEMMA SavedKept ==
    ASSUME Extends, NEW n, Saved(n), vol'.data[n] = vol.data[n]
    PROVE  Saved(n)'
<1>1. PICK i \in DOMAIN archive : /\ archive[i].kind = "data"
                                  /\ archive[i].node = n
                                  /\ archive[i].data = vol.data[n]
  BY DEF Saved
<1>2. i \in DOMAIN archive' /\ archive'[i] = archive[i]
  BY <1>1, LenProperties DEF Extends
<1>3. QED
  BY <1>1, <1>2 DEF Saved

LEMMA CleanIsSaved ==
    ASSUME ClearMeansSaved, Extends, CleanKept(vol, vol')
    PROVE  ClearMeansSaved'
  BY SavedKept DEF ClearMeansSaved, CleanKept

LEMMA ResetSaved == ASSUME IInv, SavedInv, ResetArchive PROVE SavedInv'
<1>1. Extends
  BY SameExtends DEF IInv, ResetArchive
<1>2. vol'.data = vol.data /\ Live(vol') = Live(vol) /\ Live(vol) \subseteq Node
  BY LiveIsNode DEF ResetArchive, IInv, Typed, TypeOK, Volumes, Live, Exists
<1>3. ASSUME NEW n \in Live(vol'), ~ vol'.archive[n] PROVE Saved(n)
  <2>1. CASE ~ vol.archive[n]
    BY <1>2, <2>1 DEF SavedInv, ClearMeansSaved
  <2>2. CASE vol.archive[n]
    <3>1. n = cur.node /\ cur.archive
      BY <1>2, <1>3, <2>2 DEF ResetArchive, IInv, Typed, TypeOK, Volumes
    <3>2. cur.path \in File
      BY <3>1 DEF IInv, Typed, InHand, HandInfo, Info, Path
    <3>3. QED
      BY <3>1, <3>2 DEF SavedInv, ResetIsSaved, ResetArchive
  <2>3. QED
    BY <2>1, <2>2
<1>4. ClearMeansSaved'
  BY <1>1, <1>2, <1>3, SavedKept DEF ClearMeansSaved
<1>5. ResetIsSaved'
  BY DEF ResetArchive, Return, ResetIsSaved
<1>6. QED
  BY <1>4, <1>5 DEF SavedInv

LEMMA ReadSaved == ASSUME IInv, SavedInv, ReadStreams PROVE SavedInv'
<1>1. Extends
  BY StreamEntries
<1>2. UNCHANGED <<vol, cur>> /\ pc = "stream"
  BY DEF ReadStreams
<1>3. ClearMeansSaved'
  BY <1>1, <1>2, CleanIsSaved DEF SavedInv, CleanKept, ClearMeansSaved
<1>4. ASSUME cur.path \in File PROVE Saved(cur.node)'
  <2>1. cur.path \notin Dir /\ vol.data[cur.node] \in Data
    BY <1>4, TreeAssumption
       DEF IInv, Typed, TypeOK, InHand, HandInfo, Volumes
  <2>2. SetLast("data", vol.data[cur.node])
    BY <2>1 DEF ReadStreams, WriteStreams
  <2>3. /\ Len(archive) \in DOMAIN archive'
        /\ archive'[Len(archive)].kind = "data"
        /\ archive'[Len(archive)].data = vol.data[cur.node]
        /\ archive'[Len(archive)].node = cur.node
    BY <1>2, <2>1, <2>2, SetLastExtends DEF IInv
  <2>4. QED
    BY <1>2, <2>3 DEF Saved
<1>5. QED
  BY <1>2, <1>3, <1>4 DEF SavedInv, ResetIsSaved

LEMMA OtherSaved ==
    ASSUME IInv, SavedInv, [Next]_vars, ~ User, ~ ResetArchive, ~ ReadStreams
    PROVE  SavedInv'
<1>1. Extends
  BY StepIInv
<1>2. UNCHANGED vol
  BY DEF Next, Session, session, Start, NextArgument, Finish, FindNext,
         EndOfDirectory, Skip, WriteLink, WriteHeader, StopReading, Cancel, vars
<1>3. pc' = "reset" => pc = "reset" /\ UNCHANGED cur
  BY DEF Next, Session, session, Start, NextArgument, Finish, FindNext,
         EndOfDirectory, Skip, WriteLink, WriteHeader, StopReading, Cancel, vars,
         OpenFile, Return
<1>4. ClearMeansSaved'
  BY <1>1, <1>2, CleanIsSaved DEF SavedInv, CleanKept, ClearMeansSaved
<1>5. ResetIsSaved'
  BY <1>1, <1>2, <1>3, SavedKept DEF SavedInv, ResetIsSaved
<1>6. QED
  BY <1>4, <1>5 DEF SavedInv

LEMMA UserSaved ==
    ASSUME IInv, SavedInv, User, ~ UserBusy
    PROVE  SavedInv'
<1>1. pc = "idle" /\ UNCHANGED pc
  BY DEF User, Create, Write, Delete, Link, Replace, UserChange, session
<1>2. ClearMeansSaved'
  BY UserClean, SameExtends, CleanIsSaved DEF IInv, SavedInv
<1>3. QED
  BY <1>1, <1>2 DEF SavedInv, ResetIsSaved

LEMMA InitSaved == Init => SavedInv
<1>1. Init => Live(vol) = {}
  BY DEF Init, Live, Exists
<1>2. QED
  BY <1>1 DEF Init, SavedInv, ClearMeansSaved, ResetIsSaved

(* As long as files are not changed while a session runs, a file whose archive
   attribute is clear is in the archive with the contents it has, whatever was
   cancelled or could not be read: sessions with -m d and -m i pass over
   nothing that has not been saved. *)
THEOREM AttributeIsHonest ==
    ASSUME UserBusy = FALSE
    PROVE  Spec => []ClearMeansSaved
<1>1. IInv /\ SavedInv /\ [Next]_vars => (IInv /\ SavedInv)'
  BY StepIInv, ResetSaved, ReadSaved, OtherSaved, UserSaved
<1>2. Init => IInv /\ SavedInv
  BY InitIInv, InitSaved
<1>3. Spec => [](IInv /\ SavedInv)
  BY <1>1, <1>2, PTL DEF Spec
<1>4. IInv /\ SavedInv => ClearMeansSaved
  BY DEF SavedInv
<1>5. QED
  BY <1>3, <1>4, PTL
-----------------------------------------------------------------------------
(* The restore of the archive while a session runs. *)

(* The restore of what has been written, the entry in work left out. *)
Base == IF pc = "stream" THEN Len(archive) - 1 ELSE Len(archive)
Back == After(archive, Opt)[Base]

(* No two names are one file. *)
Single(v) == \A f, g \in File : Exists(v, f) /\ v.node[f] = v.node[g] => f = g

Sound(s) ==
    /\ s.inside = FALSE
    /\ s.vol \in Volumes
    /\ Single(s.vol)
    /\ Opt["a"] => \A n \in Node : s.vol.archive[n] = FALSE

(* The file f of v is restored in s. *)
Comes(s, v, f) == Exists(s.vol, f) /\ s.vol.data[s.vol.node[f]] = v.data[v.node[f]]

Clear(v, f) == Exists(v, f) /\ Wants(f) /\ v.archive[v.node[f]] = FALSE

ClearComes(s, v) == \A f \in File : Clear(v, f) => Comes(s, v, f)

MethodGiven == pc # "idle" => method \in Methods

(* While streams are written the last entry is the header of the file in hand. *)
HeaderIsLast == pc = "stream" => archive # <<>> /\ archive[Len(archive)] = Header("none")

(* Nobody changes a file while it is in hand. *)
HandIsFile ==
    /\ cur.linked = FALSE
    /\ pc \in {"opened", "stream", "reset"} /\ cur.path \in File =>
           Exists(vol, cur.path) /\ cur.node = vol.node[cur.path]

ResetComes == pc = "reset" /\ cur.path \in File => Comes(Back, vol, cur.path)

ComesInv ==
    /\ MethodGiven /\ HeaderIsLast /\ HandIsFile /\ ResetComes
    /\ Single(vol) /\ Sound(Back) /\ ClearComes(Back, vol)

-----------------------------------------------------------------------------
(* What the restore of an archive comes to. *)

LEMMA NatInd ==
    ASSUME NEW P \in SUBSET Nat, 0 \in P, \A n \in P : n + 1 \in P
    PROVE  P = Nat
<1> DEFINE R == {ss \in Nat \X Nat : ss[1] < ss[2]}
<1> SUFFICES ASSUME Nat \ P # {} PROVE FALSE
  OBVIOUS
<1>1. IsWellFoundedOn(R, Nat)
  BY NatLessThanWellFounded DEF OpToRel
<1>2. \A i, j \in Nat : i < j => <<i, j>> \in R
  OBVIOUS
<1> HIDE DEF R
<1>3. PICK x \in Nat \ P : \A y \in Nat \ P : ~ (<<y, x>> \in R)
  <2>1. Nat \ P \subseteq Nat
    OBVIOUS
  <2> QED
    BY <1>1, <2>1, WFMin
<1>4. x \in Nat /\ x # 0 /\ x - 1 \in Nat /\ x - 1 < x /\ (x - 1) + 1 = x
  BY <1>3
<1>5. x - 1 \notin P
  BY <1>3, <1>4
<1> QED
  BY <1>2, <1>3, <1>4, <1>5

Fresh == [vol |-> Blank, inside |-> FALSE]

(* f[i] is what has come after i entries of a, for i up to n. *)
Steps(a, opt, n, f) ==
    f = [i \in 0 .. n |-> IF i = 0 THEN Fresh ELSE RestoreNext(f[i - 1], a[i], opt)]

LEMMA StepsExist ==
    ASSUME NEW a, NEW opt, NEW m \in Nat
    PROVE  \E f : Steps(a, opt, m, f)
<1> DEFINE P == {n \in Nat : \E f : Steps(a, opt, n, f)}
<1>1. 0 \in P
  <2> DEFINE f == [i \in 0 .. 0 |-> Fresh]
  <2>1. f = [i \in 0 .. 0 |-> IF i = 0 THEN Fresh ELSE RestoreNext(f[i - 1], a[i], opt)]
    OBVIOUS
  <2> HIDE DEF f
  <2>2. Steps(a, opt, 0, f)
    BY <2>1 DEF Steps
  <2> QED
    BY <2>2
<1>2. ASSUME NEW n \in P PROVE n + 1 \in P
  <2>1. PICK f : Steps(a, opt, n, f)
    OBVIOUS
  <2> DEFINE step == RestoreNext(f[n], a[n + 1], opt)
             g == [i \in 0 .. n + 1 |-> IF i = n + 1 THEN step ELSE f[i]]
  <2> HIDE DEF step
  <2>2. \A i \in 0 .. n : g[i] = f[i]
    OBVIOUS
  <2>3. \A i \in 0 .. n : f[i] = IF i = 0 THEN Fresh ELSE RestoreNext(f[i - 1], a[i], opt)
    BY <2>1 DEF Steps
  <2>4. g[n + 1] = step /\ DOMAIN g = 0 .. n + 1
    OBVIOUS
  <2>5. g = [i \in 0 .. n + 1 |-> g[i]]
    OBVIOUS
  <2> HIDE DEF g
  <2>6. ASSUME NEW i \in 0 .. n + 1
        PROVE  g[i] = IF i = 0 THEN Fresh ELSE RestoreNext(g[i - 1], a[i], opt)
    <3>1. CASE i = n + 1
      <4>1. i # 0 /\ i - 1 = n /\ n \in 0 .. n
        BY <3>1
      <4> QED
        BY <2>2, <2>4, <3>1, <4>1 DEF step
    <3>2. CASE i # n + 1
      <4>1. i \in 0 .. n /\ (i # 0 => i - 1 \in 0 .. n)
        BY <3>2
      <4> QED
        BY <2>2, <2>3, <4>1
    <3> QED
      BY <3>1, <3>2
  <2>7. Steps(a, opt, n + 1, g)
    BY <2>5, <2>6 DEF Steps
  <2> QED
    BY <2>7
<1>3. P = Nat
  <2>1. P \in SUBSET Nat
    OBVIOUS
  <2> HIDE DEF P
  <2> QED
    BY <1>1, <1>2, <2>1, NatInd
<1> QED
  BY <1>3

LEMMA AfterSteps ==
    ASSUME NEW a, NEW opt, Len(a) \in Nat
    PROVE  Steps(a, opt, Len(a), After(a, opt))
<1> DEFINE n == Len(a)
           Is(h) == h = [i \in 0 .. n |->
                       IF i = 0 THEN [vol |-> Blank, inside |-> FALSE]
                       ELSE RestoreNext(h[i - 1], a[i], opt)]
<1>0. PICK f : Steps(a, opt, n, f)
  BY StepsExist
<1>1. \E g : Is(g)
  <2>1. Is(f)
    BY <1>0 DEF Steps, Fresh
  <2> HIDE DEF Is
  <2> QED
    BY <2>1
<1>2. After(a, opt) = CHOOSE h : Is(h)
  BY DEF After
<1>3. Is(After(a, opt))
  BY <1>1, <1>2
<1> QED
  BY <1>3 DEF Steps, Fresh

(* As long as two archives have the same entries, the same comes of them. *)
LEMMA StepsAgree ==
    ASSUME NEW a, NEW b, NEW opt, NEW m \in Nat, NEW n \in Nat, m <= n,
           NEW f, NEW g, Steps(a, opt, m, f), Steps(b, opt, n, g),
           \A i \in 1 .. m : a[i] = b[i]
    PROVE  \A i \in 0 .. m : f[i] = g[i]
<1> DEFINE P == {i \in Nat : i <= m => f[i] = g[i]}
<1>1. \A i \in 0 .. m : /\ f[i] = IF i = 0 THEN Fresh ELSE RestoreNext(f[i - 1], a[i], opt)
                        /\ g[i] = IF i = 0 THEN Fresh ELSE RestoreNext(g[i - 1], b[i], opt)
  BY DEF Steps
<1>2. 0 \in P
  BY <1>1
<1>3. ASSUME NEW i \in P PROVE i + 1 \in P
  <2> SUFFICES ASSUME i + 1 <= m PROVE f[i + 1] = g[i + 1]
    OBVIOUS
  <2>1. i + 1 \in 0 .. m /\ i + 1 \in 1 .. m /\ i + 1 # 0 /\ (i + 1) - 1 = i /\ f[i] = g[i]
    OBVIOUS
  <2> HIDE DEF P
  <2> QED
    BY <1>1, <2>1
<1>4. P = Nat
  <2>1. P \in SUBSET Nat
    OBVIOUS
  <2> HIDE DEF P
  <2> QED
    BY <1>2, <1>3, <2>1, NatInd
<1> QED
  BY <1>4


(* The entries after the first k make no difference to what comes of those. *)
LEMMA AfterAgrees ==
    ASSUME NEW a, NEW b, Len(a) \in Nat, Len(b) \in Nat,
           NEW k \in Nat, k <= Len(a), k <= Len(b), \A i \in 1 .. k : a[i] = b[i]
    PROVE  After(a, Opt)[k] = After(b, Opt)[k]
<1> DEFINE f == [i \in 0 .. k |-> After(a, Opt)[i]]
<1>1. Steps(a, Opt, Len(a), After(a, Opt)) /\ Steps(b, Opt, Len(b), After(b, Opt))
  BY AfterSteps
<1>2. Steps(a, Opt, k, f)
  <2>1. \A i \in 0 .. k : /\ i \in 0 .. Len(a)
                          /\ i # 0 => (i - 1 \in 0 .. k /\ i - 1 \in 0 .. Len(a))
    OBVIOUS
  <2>2. \A i \in 0 .. k : f[i] = After(a, Opt)[i]
    OBVIOUS
  <2>3. f = [i \in 0 .. k |-> f[i]]
    OBVIOUS
  <2> HIDE DEF f
  <2>4. \A i \in 0 .. Len(a) :
            After(a, Opt)[i] = IF i = 0 THEN Fresh ELSE RestoreNext(After(a, Opt)[i - 1], a[i], Opt)
    BY <1>1 DEF Steps
  <2>5. \A i \in 0 .. k : f[i] = IF i = 0 THEN Fresh ELSE RestoreNext(f[i - 1], a[i], Opt)
    BY <2>1, <2>2, <2>4
  <2> QED
    BY <2>3, <2>5 DEF Steps
<1>3. f[k] = After(a, Opt)[k]
  OBVIOUS
<1> HIDE DEF f
<1>4. \A i \in 0 .. k : f[i] = After(b, Opt)[i]
  BY <1>1, <1>2, StepsAgree
<1> QED
  BY <1>3, <1>4

(* One entry more. *)
LEMMA AfterNext ==
    ASSUME NEW a, Len(a) \in Nat, NEW k \in 1 .. Len(a)
    PROVE  After(a, Opt)[k] = RestoreNext(After(a, Opt)[k - 1], a[k], Opt)
<1>1. k \in 0 .. Len(a) /\ k # 0
  OBVIOUS
<1> QED
  BY <1>1, AfterSteps DEF Steps

LEMMA AfterNone ==
    ASSUME NEW a, Len(a) \in Nat
    PROVE  After(a, Opt)[0] = Fresh
<1>1. 0 \in 0 .. Len(a)
  OBVIOUS
<1> QED
  BY <1>1, AfterSteps DEF Steps
-----------------------------------------------------------------------------
(* One entry. *)

(* The volume has a record left for a name that is not used. *)
LEMMA RecordLeft ==
    ASSUME NEW v \in Volumes, NEW f \in File, ~ Exists(v, f)
    PROVE  SomeFreeNode(v) \in Node /\ SomeFreeNode(v) \notin Live(v)
<1> DEFINE used == {g \in File : Exists(v, g)}
<1>1. IsFiniteSet(used) /\ Cardinality(used) < Cardinality(File)
  <2>1. used \in SUBSET File /\ used # File
    OBVIOUS
  <2> HIDE DEF used
  <2>2. IsFiniteSet(used) /\ Cardinality(used) <= Cardinality(File)
    BY <2>1, FS_Subset, RecordsAssumption
  <2>3. Cardinality(used) # Cardinality(File)
    BY <2>1, FS_Subset, RecordsAssumption
  <2>4. Cardinality(used) \in Nat /\ Cardinality(File) \in Nat
    BY <2>2, FS_CardinalityType, RecordsAssumption
  <2> QED
    BY <2>2, <2>3, <2>4
<1> DEFINE at == [g \in used |-> v.node[g]]
<1>2. at \in Surjection(used, Live(v))
  BY DEF Live, Surjection
<1>3. IsFiniteSet(Live(v)) /\ Cardinality(Live(v)) <= Cardinality(used)
  <2> HIDE DEF at, used
  <2> QED
    BY <1>1, <1>2, FS_Surjection
<1>4. Live(v) # Node
  <2>1. Cardinality(Live(v)) \in Nat /\ Cardinality(used) \in Nat /\ Cardinality(File) \in Nat /\
          Cardinality(Node) \in Nat
    BY <1>1, <1>3, FS_CardinalityType, RecordsAssumption
  <2> HIDE DEF used
  <2> QED
    BY <1>1, <1>3, <2>1, RecordsAssumption
<1>5. Live(v) \subseteq Node
  BY LiveIsNode
<1>6. \E n \in Node : n \notin Live(v)
  BY <1>4, <1>5
<1> QED
  BY <1>6 DEF SomeFreeNode


(* The file that an entry is written to keeps its contents until then, and no other
   file is touched. *)
LEMMA CreatedFileKeeps ==
    ASSUME NEW v \in Volumes, Single(v), NEW f \in File, NEW w, w = CreatedFile(v, f)
    PROVE  /\ w \in Volumes /\ Single(w) /\ Exists(w, f) /\ w.node[f] \in Node
           /\ \A g \in File \ {f} : w.node[g] = v.node[g]
           /\ \A g \in File : Exists(v, g) => Comes([vol |-> w], v, g)
           /\ \A n \in Node \ {w.node[f]} : w.archive[n] = v.archive[n]
<1> DEFINE n == SomeFreeNode(v)
<1>1. CASE Exists(v, f)
  <2>1. w = v
    BY <1>1 DEF CreatedFile
  <2> QED
    BY <1>1, <2>1, LiveNode DEF Comes
<1>2. CASE ~ Exists(v, f)
  <2>1. n \in Node /\ n \notin Live(v)
    BY <1>2, RecordLeft
  <2> HIDE DEF n
  <2>2. w = CreateFile(v, f, n, 0, RestoreTime)
    BY <1>2 DEF CreatedFile, n
  <2>3. 0 \in Data /\ RestoreTime \in Time
    BY RestoreAssumption DEF Data
  <2>4. w \in Volumes
    BY <2>1, <2>2, <2>3, CreateFileType
  <2>5. /\ \A g \in File : w.node[g] = IF g = f THEN n ELSE v.node[g]
        /\ \A m \in Node \ {n} : w.archive[m] = v.archive[m] /\ w.data[m] = v.data[m]
    BY <2>1, <2>2 DEF CreateFile, WriteNode, Volumes
  <2>6. \A g \in File : Exists(v, g) => v.node[g] \in Node /\ v.node[g] # n /\ g # f
    BY <1>2, <2>1, LiveNode
  <2>7. n # NoNode
    BY <2>1, TreeAssumption
  <2>8. Single(w)
    BY <2>5, <2>6 DEF Single, Exists
  <2> QED
    BY <2>1, <2>4, <2>5, <2>6, <2>7, <2>8 DEF Exists, Comes
<1> QED
  BY <1>1, <1>2

LEMMA WriteNodeFields ==
    ASSUME NEW v \in Volumes, NEW n \in Node, NEW x \in Data, NEW t \in Time
    PROVE  /\ WriteNode(v, n, x, t) \in Volumes
           /\ WriteNode(v, n, x, t).node = v.node
           /\ WriteNode(v, n, x, t).data[n] = x
           /\ \A m \in Node \ {n} : /\ WriteNode(v, n, x, t).archive[m] = v.archive[m]
                                  /\ WriteNode(v, n, x, t).data[m] = v.data[m]
<1> DEFINE w == WriteNode(v, n, x, t)
<1>1. w \in Volumes
  BY WriteNodeType
<1>2. /\ w.node = v.node /\ w.data = [v.data EXCEPT ![n] = x]
      /\ w.archive = [v.archive EXCEPT ![n] = TRUE]
  BY DEF WriteNode, Volumes
<1> HIDE DEF w
<1>3. v.data \in [Node -> Data] /\ v.archive \in [Node -> BOOLEAN]
  BY DEF Volumes
<1>4. w.data[n] = x /\ \A m \in Node \ {n} : w.data[m] = v.data[m]
  BY <1>2, <1>3
<1>5. \A m \in Node \ {n} : w.archive[m] = v.archive[m]
  BY <1>2, <1>3
<1> QED
  BY <1>1, <1>2, <1>4, <1>5 DEF w

LEMMA SetInfoFields ==
    ASSUME NEW v \in Volumes, NEW n \in Node, NEW e \in Entries
    PROVE  /\ SetInfo(v, n, e) \in Volumes
           /\ SetInfo(v, n, e).node = v.node
           /\ SetInfo(v, n, e).data = v.data
           /\ \A m \in Node : SetInfo(v, n, e).archive[m] = IF m = n THEN e.archive ELSE v.archive[m]
<1>1. e.time \in Time /\ e.archive \in BOOLEAN
  BY DEF Entries
<1> HIDE DEF Time
<1> QED
  BY <1>1 DEF SetInfo, Volumes

LEMMA StreamsKeep ==
    ASSUME NEW v \in Volumes, Single(v), NEW e \in Entries, e.path \in File,
           NEW w, w = RestoreStreams(v, e)
    PROVE  /\ w \in Volumes /\ Single(w) /\ Exists(w, e.path)
           /\ e.kind # "none" => w.data[w.node[e.path]] = e.data
           /\ e.kind = "none" /\ Exists(v, e.path) => Comes([vol |-> w], v, e.path)
           /\ \A g \in File \ {e.path} : Exists(v, g) => Comes([vol |-> w], v, g)
           /\ \A n \in Node : w.archive[n] \in {v.archive[n], e.archive}
<1> DEFINE c == CreatedFile(v, e.path)
           n == c.node[e.path]
           d == IF e.kind = "none" THEN c ELSE WriteNode(c, n, e.data, RestoreTime)
<1>1. /\ c \in Volumes /\ Single(c) /\ Exists(c, e.path) /\ n \in Node
      /\ \A g \in File \ {e.path} : c.node[g] = v.node[g]
      /\ \A g \in File : Exists(v, g) => Comes([vol |-> c], v, g)
      /\ \A m \in Node \ {n} : c.archive[m] = v.archive[m]
  BY CreatedFileKeeps
<1>2. w = SetInfo(d, n, e)
  BY DEF RestoreStreams
<1> HIDE DEF c, n
<1>3. e.data \in Data /\ e.time \in Time /\ e.archive \in BOOLEAN /\ RestoreTime \in Time
  BY RestoreAssumption DEF Entries
<1>4. /\ d \in Volumes /\ d.node = c.node
      /\ \A m \in Node \ {n} : d.archive[m] = c.archive[m] /\ d.data[m] = c.data[m]
      /\ d.data[n] = IF e.kind = "none" THEN c.data[n] ELSE e.data
  <2>1. CASE e.kind = "none"
    BY <1>1, <2>1
  <2>2. CASE e.kind # "none"
    <3>1. d = WriteNode(c, n, e.data, RestoreTime)
      BY <2>2
    <3> HIDE DEF d
    <3> QED
      BY <1>1, <1>3, <2>2, <3>1, WriteNodeFields
  <2> QED
    BY <2>1, <2>2
<1> HIDE DEF d
<1>5. /\ w \in Volumes /\ w.node = c.node /\ w.data = d.data
      /\ \A m \in Node : w.archive[m] = IF m = n THEN e.archive ELSE d.archive[m]
  BY <1>1, <1>2, <1>4, SetInfoFields
<1>6. Single(w) /\ Exists(w, e.path) /\ w.node[e.path] = n
  BY <1>1, <1>5 DEF Single, Exists, n
<1>7. ASSUME NEW g \in File \ {e.path}, Exists(v, g) PROVE Comes([vol |-> w], v, g)
  <2>1. c.node[g] \in Node /\ c.node[g] # n /\ Exists(c, g)
    BY <1>1, <1>7, LiveNode DEF Single, Exists, n
  <2> QED
    BY <1>1, <1>4, <1>5, <1>7, <2>1 DEF Comes, Exists
<1>8. e.kind = "none" /\ Exists(v, e.path) => Comes([vol |-> w], v, e.path)
  BY <1>1, <1>4, <1>5 DEF Comes, Exists, n
<1>9. e.kind # "none" => w.data[w.node[e.path]] = e.data
  BY <1>4, <1>5, <1>6
<1>10. \A m \in Node : w.archive[m] \in {v.archive[m], e.archive}
  BY <1>1, <1>4, <1>5
<1> QED
  BY <1>5, <1>6, <1>7, <1>8, <1>9, <1>10

(* The switches with which later entries replace earlier ones. *)
Overwrites == Opt["o"] = TRUE /\ Opt["n"] = FALSE

LEMMA EntryKeeps ==
    ASSUME Overwrites, NEW s, Sound(s), NEW e \in Entries, e.kind \in {"data", "dir", "none"},
           Opt["a"] => e.archive = FALSE, NEW t, t = RestoreNext(s, e, Opt)
    PROVE  /\ Sound(t)
           /\ e.path \in File /\ e.kind # "none" => Exists(t.vol, e.path) /\
               t.vol.data[t.vol.node[e.path]] = e.data
           /\ e.kind = "none" /\ e.path \in File /\ Exists(s.vol, e.path) => Comes(t, s.vol, e.path)
           /\ \A g \in File \ {e.path} : Exists(s.vol, g) => Comes(t, s.vol, g)
<1>1. /\ s.inside = FALSE /\ s.vol \in Volumes /\ Single(s.vol)
      /\ Opt["a"] => \A n \in Node : s.vol.archive[n] = FALSE
  BY DEF Sound
<1>2. Opt["a"] \in BOOLEAN /\ Opt["f"] = FALSE /\ Opt["n"] = FALSE /\ Opt["o"] = TRUE
  BY OptAssumption DEF Options, Overwrites
<1>3. t.vol = RestoreEntry(s.vol, e, Opt) /\ t.inside = FALSE
  BY <1>1 DEF RestoreNext
<1>4. CanCreate(s.vol, e, Opt)
  BY <1>2 DEF CanCreate
<1>5. Overwritable(s.vol, e, Opt)
  <2>1. e.path \in File /\ Present(s.vol, e.path) => s.vol.node[e.path] \in Node
    BY <1>1, TreeAssumption, LiveNode DEF Present
  <2> QED
    BY <1>1, <1>2, <2>1 DEF Overwritable
<1>6. CASE e.path \in File
  <2>1. t.vol = RestoreStreams(s.vol, e)
    BY <1>3, <1>4, <1>5, <1>6, TreeAssumption DEF RestoreEntry
  <2>2. \A n \in Node : t.vol.archive[n] \in {s.vol.archive[n], e.archive}
    BY <1>1, <1>6, <2>1, StreamsKeep
  <2>3. /\ t.vol \in Volumes /\ Single(t.vol) /\ Exists(t.vol, e.path)
        /\ e.kind # "none" => t.vol.data[t.vol.node[e.path]] = e.data
        /\ e.kind = "none" /\ Exists(s.vol, e.path) => Comes([vol |-> t.vol], s.vol, e.path)
        /\ \A g \in File \ {e.path} : Exists(s.vol, g) => Comes([vol |-> t.vol], s.vol, g)
    BY <1>1, <1>6, <2>1, StreamsKeep
  <2>4. Sound(t)
    BY <1>1, <1>3, <2>2, <2>3 DEF Sound
  <2> QED
    BY <2>3, <2>4 DEF Comes
<1>7. CASE e.path \in Dir
  <2>1. t.vol = RestoreDirectory(s.vol, e) /\ e.path \notin File
    BY <1>3, <1>4, <1>5, <1>7, TreeAssumption DEF RestoreEntry
  <2>2. Touch(s.vol, e.path, RestoreTime) \in [Dir -> Time] /\ e.time \in Time
    BY <1>1, TouchType, RestoreAssumption DEF Entries
  <2>3. /\ t.vol \in Volumes /\ t.vol.node = s.vol.node /\ t.vol.data = s.vol.data
        /\ t.vol.archive = s.vol.archive
    BY <1>1, <2>1, <2>2 DEF RestoreDirectory, Volumes
  <2> QED
    BY <1>1, <1>3, <2>1, <2>3 DEF Sound, Single, Exists, Comes
<1> QED
  BY <1>6, <1>7 DEF Entries, Path

-----------------------------------------------------------------------------
(* A session and its user, without hard links. *)

Undisturbed ==
    /\ Overwrites
    /\ UserBusy = FALSE
    /\ "link" \notin UserOps
    /\ "part" \notin Interrupted
    /\ Opt["a"] => "COPY" \notin Methods

LEMMA LenOfArchive == ASSUME Typed PROVE archive \in Seq(Entries) /\ Len(archive) \in Nat
  BY DEF Typed, TypeOK

LEMMA BackKept ==
    ASSUME UNCHANGED archive, pc = "stream" <=> pc' = "stream"
    PROVE  Back' = Back
<1>1. Base' = Base
  BY DEF Base
<1> QED
  BY <1>1 DEF Back

LEMMA BackWithHeader ==
    ASSUME Typed, NEW e \in Entries, archive' = Append(archive, e), pc # "stream", pc' = "stream"
    PROVE  Back' = Back
<1>1. archive \in Seq(Entries) /\ archive' \in Seq(Entries) /\ Len(archive) \in Nat
  BY LenOfArchive
<1>2. Len(archive') = Len(archive) + 1 /\ \A i \in 1 .. Len(archive) : archive[i] = archive'[i]
  BY <1>1
<1>3. Len(archive') \in Nat /\ Len(archive) <= Len(archive') /\ Len(archive') - 1 = Len(archive)
  BY <1>1, <1>2
<1>4. Base = Len(archive) /\ Base' = Len(archive)
  BY <1>3 DEF Base
<1>5. After(archive, Opt)[Len(archive)] = After(archive', Opt)[Len(archive)]
  <2>1. Len(archive) <= Len(archive)
    BY <1>1
  <2> QED
    BY <1>1, <1>2, <1>3, <2>1, AfterAgrees
<1> QED
  BY <1>4, <1>5 DEF Back

LEMMA BackWithStreams ==
    ASSUME Typed, HeaderIsLast, pc = "stream", pc' # "stream",
           NEW kind \in {"data", "link", "dir", "none", "part"}, NEW d \in Data,
           SetLast(kind, d), NEW e, e = [Header("none") EXCEPT !.kind = kind, !.data = d]
    PROVE  e \in Entries /\ Back' = RestoreNext(Back, e, Opt)
<1>1. /\ archive \in Seq(Entries) /\ archive # <<>> /\ Len(archive) \in Nat
      /\ archive[Len(archive)] = Header("none")
  BY LenOfArchive DEF HeaderIsLast
<1>2. /\ archive' \in Seq(Entries) /\ Len(archive') = Len(archive)
      /\ \A i \in 1 .. Len(archive) - 1 : archive'[i] = archive[i]
      /\ archive'[Len(archive)] = e
  BY <1>1, SetLastType, ZenonT(90)
<1>3. Len(archive) \in 1 .. Len(archive)
  BY <1>1, EmptySeq
<1>4. e \in Entries
  BY <1>2, <1>3, ElementOfSeq
<1>5. Base = Len(archive) - 1 /\ Base' = Len(archive) /\ Len(archive) - 1 \in Nat /\
        Len(archive) - 1 <= Len(archive)
  BY <1>1, <1>2, <1>3 DEF Base
<1>6. After(archive', Opt)[Len(archive)] = RestoreNext(After(archive', Opt)[Len(archive) - 1],
        archive'[Len(archive)], Opt)
  BY <1>1, <1>2, <1>3, AfterNext
<1>7. After(archive', Opt)[Len(archive) - 1] = After(archive, Opt)[Len(archive) - 1]
  BY <1>1, <1>2, <1>5, AfterAgrees
<1> QED
  BY <1>2, <1>4, <1>5, <1>6, <1>7 DEF Back

(* A file that has been restored and that is in no later entry, or only without its
   contents, or with those it has, stays restored. *)
LEMMA EntryComes ==
    ASSUME Overwrites, NEW s, Sound(s), NEW e \in Entries, e.kind \in {"data", "dir", "none"},
           Opt["a"] => e.archive = FALSE, NEW t, t = RestoreNext(s, e, Opt),
           NEW v, e.path \in File /\ e.kind # "none" => e.data = v.data[v.node[e.path]]
    PROVE  /\ Sound(t)
           /\ \A f \in File : Comes(s, v, f) => Comes(t, v, f)
           /\ e.path \in File /\ e.kind # "none" => Comes(t, v, e.path)
<1>1. /\ Sound(t)
      /\ e.path \in File /\ e.kind # "none" => Comes(t, v, e.path)
  BY EntryKeeps DEF Comes
<1>2. ASSUME NEW f \in File, Comes(s, v, f) PROVE Comes(t, v, f)
  <2>1. Exists(s.vol, f)
    BY <1>2 DEF Comes
  <2>2. CASE f = e.path /\ e.kind # "none"
    BY <1>1, <2>2
  <2>3. CASE f = e.path /\ e.kind = "none"
    <3>1. Comes(t, s.vol, f)
      BY <2>1, <2>3, EntryKeeps
    <3> QED
      BY <1>2, <3>1 DEF Comes
  <2>4. CASE f # e.path
    <3>1. Comes(t, s.vol, f)
      BY <2>1, <2>4, EntryKeeps
    <3> QED
      BY <1>2, <3>1 DEF Comes
  <2> QED
    BY <2>2, <2>3, <2>4
<1> QED
  BY <1>1, <1>2

LEMMA HeaderPlain ==
    ASSUME Undisturbed, MethodGiven, pc # "idle"
    PROVE  Opt["a"] => Header("none").archive = FALSE
  BY DEF Undisturbed, MethodGiven, Header

(* Names of one file are one name. *)
LEMMA SingleIsNotLinked ==
    ASSUME Single(vol), NEW p \in File, Exists(vol, p)
    PROVE  FileInfo(p).linked = FALSE /\ FileInfo(p).node = vol.node[p]
<1>1. p \notin Dir
  BY TreeAssumption
<1>2. HardLinked(vol, vol.node[p]) = FALSE
  BY DEF HardLinked, NamesOf, Single, Exists
<1> QED
  BY <1>1, <1>2 DEF FileInfo

LEMMA OpenedIsFile ==
    ASSUME Typed, Single(vol), HandIsFile, UNCHANGED vol, NEW p \in Path, NEW fs, OpenFile(p, fs)
    PROVE  HandIsFile' /\ pc' \in {"next", "scan", "opened"}
<1>1. CASE Return(fs)
  BY <1>1 DEF Return, HandIsFile, NoInfo
<1>2. CASE pc' = "scan" /\ UNCHANGED cur
  BY <1>2 DEF HandIsFile
<1>3. CASE p \in File /\ Exists(vol, p) /\ cur' = FileInfo(p) /\ pc' = "opened"
  <2>1. cur'.path = p
    BY <1>3, TreeAssumption DEF FileInfo
  <2> QED
    BY <1>3, <2>1, SingleIsNotLinked DEF HandIsFile
<1> QED
  BY <1>1, <1>2, <1>3 DEF OpenFile

(* The parts of the walk that write nothing. *)
LEMMA WalkComes ==
    ASSUME IInv, ComesInv,
           NextArgument \/ Finish \/ FindNext \/ EndOfDirectory \/ Skip \/ Cancel \/ \E m \in Methods : Start(m)
    PROVE  ComesInv'
<1>t. Typed /\ Typed' /\ MethodGiven /\ HandIsFile /\ Single(vol)
  <2>1. Typed'
    BY StepTyped DEF Next, Session, IInv
  <2> QED
    BY <2>1 DEF IInv, ComesInv
<1>0. UNCHANGED <<vol, archive>> /\ (pc = "stream" <=> pc' = "stream") /\
        (pc' = "reset" => pc = "reset" /\ UNCHANGED cur)
      /\ (pc' = "stream" => UNCHANGED <<cur, method>>)
  BY DEF NextArgument, Finish, FindNext, EndOfDirectory, Skip, Cancel, Start, OpenFile, Return
<1>1. HandIsFile'
  <2>1. CASE NextArgument
    <3>1. Head(todo) \in Path
      BY <2>1, <1>t, HeadTailProperties DEF NextArgument, Typed, TypeOK
    <3> QED
      BY <2>1, <3>1, <1>t, <1>0, OpenedIsFile DEF NextArgument
  <2>2. CASE FindNext
    <3>1. Last(frames).left \subseteq Path
      <4>1. frames \in Seq(Frame) /\ frames # <<>>
        BY <2>2, <1>t DEF FindNext, Typed, InHand
      <4>2. Len(frames) \in 1 .. Len(frames) /\ Last(frames) \in Frame
        BY <4>1, EmptySeq, ElementOfSeq DEF Last
      <4> QED
        BY <4>2 DEF Frame
    <3>2. PICK p \in Last(frames).left : OpenFile(p, [frames EXCEPT ![Len(frames)].left = @ \ {p}])
      BY <2>2 DEF FindNext
    <3> QED
      BY <3>1, <3>2, <1>t, <1>0, OpenedIsFile
  <2>3. CASE EndOfDirectory
    <3>1. frames \in Seq(Frame) /\ frames # <<>>
      BY <2>3, <1>t DEF EndOfDirectory, Typed, InHand
    <3>2. Len(frames) \in 1 .. Len(frames) /\ Last(frames) \in Frame
      BY <3>1, EmptySeq, ElementOfSeq DEF Last
    <3>3. cur' \in DirInfo
      BY <2>3, <3>2 DEF EndOfDirectory, Frame
    <3> QED
      BY <3>3, TreeAssumption DEF HandIsFile, DirInfo, HandInfo
  <2>4. CASE Skip
    BY <2>4 DEF Skip, Return, HandIsFile, NoInfo
  <2>5. CASE Finish \/ Cancel \/ \E m \in Methods : Start(m)
    BY <2>5, <1>t DEF Finish, Cancel, Start, HandIsFile
  <2> QED
    BY <2>1, <2>2, <2>3, <2>4, <2>5
<1>2. Back' = Back
  BY <1>0, BackKept
<1>3. MethodGiven'
  BY <1>t DEF NextArgument, Finish, FindNext, EndOfDirectory, Skip, Cancel, Start, OpenFile, Return, MethodGiven
<1>4. HeaderIsLast'
  BY <1>0 DEF ComesInv, HeaderIsLast, Header
<1>5. ResetComes'
  BY <1>0, <1>2 DEF ComesInv, ResetComes
<1> QED
  BY <1>0, <1>1, <1>2, <1>3, <1>4, <1>5 DEF ComesInv


LEMMA WriteHeaderComes == ASSUME Undisturbed, IInv, ComesInv, WriteHeader PROVE ComesInv'
<1>1. Typed /\ MethodGiven /\ HandIsFile /\ cur \in HandInfo
  BY DEF IInv, ComesInv, Typed, InHand
<1>2. Header("none") \in Entries /\ archive \in Seq(Entries)
  BY <1>1, HeaderType, LenOfArchive DEF Typed, TypeOK
<1>3. /\ archive' = Append(archive, Header("none")) /\ pc = "opened" /\ pc' = "stream"
      /\ UNCHANGED <<vol, cur, method>>
  BY DEF WriteHeader
<1>4. Back' = Back
  BY <1>1, <1>2, <1>3, BackWithHeader
<1>5. archive' # <<>> /\ archive'[Len(archive')] = Header("none")
  BY <1>2, <1>3
<1>6. HeaderIsLast'
  BY <1>3, <1>5 DEF HeaderIsLast, Header
<1> QED
  BY <1>1, <1>3, <1>4, <1>6 DEF ComesInv, MethodGiven, HandIsFile, ResetComes

(* What has been read of a file becomes a part of its entry. *)
LEMMA StreamsComes ==
    ASSUME Undisturbed, IInv, ComesInv, ReadStreams \/ StopReading
    PROVE  ComesInv' /\ \A f \in File : Comes(Back, vol, f) => Comes(Back', vol, f)
<1>1. /\ Typed /\ MethodGiven /\ HandIsFile /\ cur \in HandInfo /\ HeaderIsLast
      /\ Single(vol) /\ Sound(Back) /\ ClearComes(Back, vol)
  BY DEF IInv, ComesInv, Typed, InHand
<1>2. /\ pc = "stream" /\ pc' \in {"reset", "next", "scan"} /\ UNCHANGED <<vol, method>>
      /\ pc' = "reset" => (ReadStreams /\ UNCHANGED cur)
      /\ pc' # "reset" => cur' = NoInfo
  BY DEF ReadStreams, StopReading, Return
<1>3. PICK kind \in {"data", "dir", "none"}, d \in Data :
        /\ SetLast(kind, d)
        /\ cur.path \in File /\ kind # "none" => d = vol.data[vol.node[cur.path]]
        /\ ReadStreams /\ cur.path \in File => kind = "data"
  <2>1. CASE WriteStreams /\ cur.path \in Dir
    <3>1. SetLast("dir", 0) /\ cur.path \notin File
      BY <2>1, TreeAssumption DEF WriteStreams
    <3> QED
      BY <3>1 DEF Data
  <2>2. CASE WriteStreams /\ cur.path \notin Dir
    <3>1. SetLast("data", vol.data[cur.node])
      BY <2>2 DEF WriteStreams
    <3>2. vol.data[cur.node] \in Data
      BY <1>1, <2>2 DEF Typed, TypeOK, HandInfo, Volumes
    <3>3. cur.path \in File => cur.node = vol.node[cur.path]
      BY <1>1, <1>2 DEF HandIsFile
    <3> QED
      BY <3>1, <3>2, <3>3
  <2>3. CASE ~ WriteStreams
    <3>1. ~ ReadStreams /\ SetLast("none", 0)
      BY <2>3, BackupAssumption DEF ReadStreams, StopReading, Undisturbed
    <3> QED
      BY <3>1 DEF Data
  <2> QED
    BY <2>1, <2>2, <2>3
<1>e. PICK e : e = [Header("none") EXCEPT !.kind = kind, !.data = d]
  OBVIOUS
<1>4. e \in Entries /\ Back' = RestoreNext(Back, e, Opt)
  <2>1. pc' # "stream" /\ kind \in {"data", "link", "dir", "none", "part"}
    BY <1>2
  <2> QED
    BY <1>1, <1>2, <1>3, <1>e, <2>1, BackWithStreams
<1>5. e.kind = kind /\ e.data = d /\ e.path = cur.path /\ (Opt["a"] => e.archive = FALSE)
  <2>1. Opt["a"] => Header("none").archive = FALSE
    BY <1>1, <1>2, HeaderPlain
  <2>2. e.archive = Header("none").archive
    BY <1>e DEF Header
  <2> QED
    BY <1>e, <2>1, <2>2 DEF Header
<1>6. /\ Sound(Back')
      /\ \A f \in File : Comes(Back, vol, f) => Comes(Back', vol, f)
      /\ cur.path \in File /\ kind # "none" => Comes(Back', vol, cur.path)
  BY <1>1, <1>3, <1>4, <1>5, EntryComes DEF Undisturbed
<1>7. ClearComes(Back', vol)
  BY <1>1, <1>6 DEF ClearComes
<1>8. ResetComes'
  BY <1>2, <1>3, <1>6 DEF ResetComes
<1>9. HandIsFile'
  BY <1>1, <1>2 DEF HandIsFile, NoInfo
<1> QED
  BY <1>1, <1>2, <1>6, <1>7, <1>8, <1>9 DEF ComesInv, MethodGiven, HeaderIsLast

(* The attribute is reset only for what can be restored. *)
LEMMA ResetArchiveComes == ASSUME IInv, ComesInv, ResetArchive PROVE ComesInv'
<1>1. /\ Typed /\ MethodGiven /\ HandIsFile /\ cur \in HandInfo /\ vol \in Volumes /\ ResetComes
      /\ Single(vol) /\ Sound(Back) /\ ClearComes(Back, vol)
  BY DEF IInv, ComesInv, Typed, InHand, TypeOK
<1>2. /\ pc = "reset" /\ pc' \in {"next", "scan"} /\ UNCHANGED <<archive, method>> /\ cur' = NoInfo
  BY DEF ResetArchive, Return
<1>3. Back' = Back
  BY <1>2, BackKept
<1>4. /\ vol'.node = vol.node /\ vol'.data = vol.data
      /\ \A n \in Node : vol'.archive[n] = FALSE => vol.archive[n] = FALSE \/
          (n = cur.node /\ cur.archive = TRUE)
  <2>1. cur.archive \in BOOLEAN /\ \A n \in Node : vol.archive[n] \in BOOLEAN
    BY <1>1 DEF HandInfo, Info, Volumes
  <2>2. CASE method \in {"FULL", "INC"} /\ cur.archive
    BY <1>1, <2>1, <2>2 DEF ResetArchive, Volumes
  <2>3. CASE ~ (method \in {"FULL", "INC"} /\ cur.archive)
    BY <2>3 DEF ResetArchive
  <2> QED
    BY <2>2, <2>3
<1>5. ASSUME NEW f \in File, Clear(vol', f) PROVE Comes(Back, vol', f)
  <2>1. Exists(vol, f) /\ Wants(f) /\ vol.node[f] \in Node /\ vol'.archive[vol.node[f]] = FALSE
    BY <1>1, <1>4, <1>5, LiveNode DEF Clear, Exists
  <2>2. CASE vol.archive[vol.node[f]] = FALSE
    BY <1>1, <1>4, <2>1, <2>2 DEF ClearComes, Clear, Comes
  <2>3. CASE vol.node[f] = cur.node /\ cur.archive = TRUE
    <3>1. cur.path \in File
      BY <1>1, <2>3 DEF HandInfo, Info, Path
    <3>2. f = cur.path
      BY <1>1, <1>2, <2>1, <2>3, <3>1 DEF HandIsFile, Single
    <3> QED
      BY <1>1, <1>2, <1>4, <3>1, <3>2 DEF ResetComes, Comes
  <2> QED
    BY <1>4, <2>1, <2>2, <2>3
<1>6. Single(vol')
  BY <1>1, <1>4 DEF Single, Exists
<1> QED
  BY <1>1, <1>2, <1>3, <1>5, <1>6 DEF ComesInv, MethodGiven, HeaderIsLast, HandIsFile, ResetComes,
      ClearComes, NoInfo

(* What the user has not touched stays clear, with its contents. *)
LEMMA UserKeeps ==
    ASSUME Typed, "link" \notin UserOps, Single(vol), User
    PROVE  /\ Single(vol')
           /\ \A f \in File : Exists(vol', f) /\ vol'.archive[vol'.node[f]] = FALSE =>
                  /\ Exists(vol, f) /\ vol'.node[f] = vol.node[f]
                  /\ vol.archive[vol.node[f]] = FALSE /\ vol'.data[vol.node[f]] = vol.data[vol.node[f]]
<1>1. vol \in Volumes /\ clock + 1 \in Data /\ Now \in Time
  BY DEF Typed, TypeOK, Now, Data, Time
<1>2. PICK f \in File : \/ Create(f)
                        \/ Write(f)
                        \/ Delete(f)
                        \/ \E g \in File : Link(f, g)
                        \/ Replace(f)
  BY DEF User
<1>3. CASE Create(f) \/ Replace(f)
  <2> DEFINE n == NewNode
  <2>1. n \in FreeNodes /\ n \in Node
    BY <1>3, NewNodeType DEF Create, Replace
  <2>2. vol' = CreateFile(vol, f, n, clock + 1, Now) /\ n \notin Live(vol) /\ n # NoNode
    BY <1>3, <2>1, TreeAssumption DEF Create, Replace, UserChange, FreeNodes
  <2> HIDE DEF n
  <2>3. \A g \in File : vol'.node[g] = IF g = f THEN n ELSE vol.node[g]
    BY <1>1, <2>1, <2>2 DEF CreateFile, WriteNode, Volumes
  <2>4. \A m \in Node : /\ vol'.archive[m] = IF m = n THEN TRUE ELSE vol.archive[m]
                        /\ m # n => vol'.data[m] = vol.data[m]
    BY <1>1, <2>1, <2>2 DEF CreateFile, WriteNode, Volumes
  <2>5. \A g \in File : Exists(vol, g) => vol.node[g] \in Node /\ vol.node[g] # n
    BY <1>1, <2>2, LiveNode
  <2>6. Single(vol')
    BY <2>2, <2>3, <2>5 DEF Single, Exists
  <2>7. ASSUME NEW g \in File, Exists(vol', g), vol'.archive[vol'.node[g]] = FALSE
        PROVE  /\ Exists(vol, g) /\ vol'.node[g] = vol.node[g]
               /\ vol.archive[vol.node[g]] = FALSE /\ vol'.data[vol.node[g]] = vol.data[vol.node[g]]
    <3>1. g # f
      BY <2>1, <2>3, <2>4, <2>7
    <3> QED
      BY <2>3, <2>4, <2>5, <2>7, <3>1 DEF Exists
  <2> QED
    BY <2>6, <2>7
<1>4. CASE Write(f)
  <2>1. Exists(vol, f) /\ vol.node[f] \in Node /\ vol' = WriteNode(vol, vol.node[f], clock + 1, Now)
    BY <1>1, <1>4, LiveNode DEF Write, UserChange
  <2>2. /\ vol'.node = vol.node /\ vol'.archive = [vol.archive EXCEPT ![vol.node[f]] = TRUE]
        /\ \A m \in Node \ {vol.node[f]} : vol'.data[m] = vol.data[m]
    BY <1>1, <2>1 DEF WriteNode, Volumes
  <2>3. vol.archive \in [Node -> BOOLEAN] /\ \A g \in File : Exists(vol, g) => vol.node[g] \in Node
    BY <1>1, LiveNode DEF Volumes
  <2> QED
    BY <2>1, <2>2, <2>3 DEF Single, Exists
<1>5. CASE Delete(f)
  <2>1. vol' = DeleteName(vol, f, Now)
    BY <1>5 DEF Delete, UserChange
  <2>2. /\ \A g \in File : vol'.node[g] = IF g = f THEN NoNode ELSE vol.node[g]
        /\ vol'.archive = vol.archive /\ vol'.data = vol.data
    BY <1>1, <2>1 DEF DeleteName, Volumes
  <2> QED
    BY <2>2 DEF Single, Exists
<1>6. ~ \E g \in File : Link(f, g)
  BY DEF Link, UserChange
<1> QED
  BY <1>2, <1>3, <1>4, <1>5, <1>6

LEMMA UserComes == ASSUME Undisturbed, IInv, ComesInv, User PROVE ComesInv'
<1>1. pc = "idle" /\ UNCHANGED <<pc, archive, method, cur>>
  BY DEF User, Create, Write, Delete, Link, Replace, UserChange, session, Undisturbed
<1>2. Back' = Back
  BY <1>1, BackKept
<1>3. Single(vol) /\ ClearComes(Back, vol) /\ HandIsFile /\ Typed
  BY DEF ComesInv, IInv
<1>4. /\ Single(vol')
      /\ \A f \in File : Exists(vol', f) /\ vol'.archive[vol'.node[f]] = FALSE =>
                  /\ Exists(vol, f) /\ vol'.node[f] = vol.node[f]
                  /\ vol.archive[vol.node[f]] = FALSE /\ vol'.data[vol.node[f]] = vol.data[vol.node[f]]
  BY <1>3, UserKeeps DEF Undisturbed
<1>5. ClearComes(Back, vol')
  BY <1>3, <1>4 DEF ClearComes, Clear, Comes
<1> QED
  BY <1>1, <1>2, <1>3, <1>4, <1>5 DEF ComesInv, MethodGiven, HeaderIsLast, HandIsFile, ResetComes

LEMMA StepComes == ASSUME Undisturbed, IInv, ComesInv, [Next]_vars PROVE ComesInv'
<1>1. ~ WriteLink
  BY DEF WriteLink, Tracked, ComesInv, HandIsFile
<1>2. CASE UNCHANGED vars
  <2>1. UNCHANGED <<vol, archive, method, cur, pc>>
    BY <1>2 DEF vars, session
  <2>2. Back' = Back
    BY <2>1, BackKept
  <2> QED
    BY <2>1, <2>2 DEF ComesInv, MethodGiven, HeaderIsLast, HandIsFile, ResetComes, Header
<1> QED
  BY <1>1, <1>2, WalkComes, WriteHeaderComes, StreamsComes, ResetArchiveComes, UserComes DEF Next, Session

LEMMA InitComes == ASSUME Init PROVE ComesInv
<1>1. archive = <<>> /\ Len(archive) = 0 /\ pc = "idle" /\ cur = NoInfo
  BY DEF Init
<1>2. Back = Fresh
  <2>1. Base = 0
    BY <1>1 DEF Base
  <2>2. Len(archive) \in Nat
    BY <1>1
  <2> QED
    BY <2>1, <2>2, AfterNone DEF Back
<1>3. \A f \in File : ~ Exists(vol, f) /\ ~ Exists(Blank, f)
  BY DEF Init, Exists, Blank
<1>4. Blank \in Volumes /\ \A n \in Node : Blank.archive[n] = FALSE
  BY TreeAssumption, RestoreAssumption DEF Blank, Volumes, Data, Time, NoTime
<1>5. Sound(Fresh)
  BY <1>3, <1>4 DEF Sound, Fresh, Single
<1> QED
  BY <1>1, <1>2, <1>3, <1>5 DEF ComesInv, MethodGiven, HeaderIsLast, HandIsFile, NoInfo, ResetComes,
      Single, ClearComes, Clear

(* In the middle of an entry the restore of what is in the archive is one header
   ahead. *)
LEMMA ComesRestored == ASSUME Undisturbed, IInv, ComesInv PROVE ClearMeansRestorable
<1>1. /\ Typed /\ MethodGiven /\ cur \in HandInfo /\ HeaderIsLast /\ Sound(Back) /\ ClearComes(Back, vol)
  BY DEF IInv, ComesInv, Typed, InHand
<1> DEFINE s == After(archive, Opt)[Len(archive)]
<1>2. \A f \in File : Clear(vol, f) => Comes(s, vol, f)
  <2>1. CASE pc # "stream"
    <3>1. s = Back
      BY <2>1 DEF Back, Base
    <3> QED
      BY <1>1, <3>1 DEF ClearComes
  <2>2. CASE pc = "stream"
    <3>1. archive \in Seq(Entries) /\ archive # <<>> /\ Len(archive) \in Nat /\
            archive[Len(archive)] = Header("none")
      BY <1>1, <2>2, LenOfArchive DEF HeaderIsLast
    <3>2. Len(archive) \in 1 .. Len(archive)
      BY <3>1, EmptySeq
    <3>3. s = RestoreNext(Back, Header("none"), Opt)
      BY <2>2, <3>1, <3>2, AfterNext DEF Back, Base
    <3>4. Header("none") \in Entries /\ Header("none").kind = "none"
      BY <1>1, HeaderType DEF Typed
    <3>5. Opt["a"] => Header("none").archive = FALSE
      BY <1>1, <2>2, HeaderPlain
    <3> HIDE DEF s
    <3>6. \A f \in File : Comes(Back, vol, f) => Comes(s, vol, f)
      BY <1>1, <3>3, <3>4, <3>5, EntryComes DEF Undisturbed
    <3> QED
      BY <1>1, <3>6 DEF ClearComes
  <2> QED
    BY <2>1, <2>2
<1>3. Result = s.vol
  BY DEF Result, Restored
<1> HIDE DEF s
<1>4. ASSUME NEW f \in File, Exists(vol, f), Wants(f), ~ vol.archive[vol.node[f]]
      PROVE  Exists(Result, f) /\ Result.data[Result.node[f]] = vol.data[vol.node[f]]
  BY <1>2, <1>3, <1>4 DEF Clear, Comes
<1> QED
  BY <1>4 DEF ClearMeansRestorable

(* Without hard links, with a user who leaves a running session alone, and if no
   stream breaks off in the middle: at every moment, after any number of sessions
   of any kind, cancelled or not, every wanted file whose archive attribute is clear
   is brought back with its present contents by strarc -x -o, with or without -o:a,
   from the archive as it is then.  The attribute of a file is reset only for what
   the restore of the entries before it, and of its own, would give. *)
THEOREM RestorableWhenClear ==
    ASSUME Undisturbed
    PROVE  Spec => []ClearMeansRestorable
<1>1. Init => IInv /\ ComesInv
  BY InitIInv, InitComes
<1>2. IInv /\ ComesInv /\ [Next]_vars => (IInv /\ ComesInv)'
  BY StepIInv, StepComes
<1>3. IInv /\ ComesInv => ClearMeansRestorable
  BY ComesRestored
<1> QED
  BY <1>1, <1>2, <1>3, PTL DEF Spec
-----------------------------------------------------------------------------
(* The tree. *)

(* p and the directories above it. *)
Line(p) ==
    {q \in Path : \A s \in SUBSET Path :
         p \in s /\ (\A x \in s \ {Root} : Parent[x] \in s) => q \in s}

LEMMA LineUp ==
    ASSUME NEW p \in Path \ {Root}
    PROVE  Line(p) = {p} \cup Line(Parent[p])
<1>1. Parent[p] \in Path
  BY TreeAssumption DEF Path
<1>2. ASSUME NEW q \in Line(p)
      PROVE  q \in {p} \cup Line(Parent[p])
  <2> SUFFICES ASSUME q # p, NEW s \in SUBSET Path, Parent[p] \in s,
                      \A x \in s \ {Root} : Parent[x] \in s
               PROVE  q \in s
    BY DEF Line
  <2> DEFINE t == s \cup {p}
  <2>1. t \in SUBSET Path /\ p \in t /\ \A x \in t \ {Root} : Parent[x] \in t
    OBVIOUS
  <2> HIDE DEF t
  <2>2. q \in t
    BY <2>1 DEF Line
  <2> QED
    BY <2>2 DEF t
<1>3. p \in Line(p)
  BY DEF Line
<1>4. Line(Parent[p]) \subseteq Line(p)
  BY <1>1 DEF Line
<1> QED
  BY <1>2, <1>3, <1>4

LEMMA LineOfRoot == Line(Root) = {Root}
<1>1. Root \in Path
  BY TreeAssumption DEF Path
<1>2. {Root} \in SUBSET Path
  BY <1>1
<1> QED
  BY <1>1, <1>2 DEF Line

(* The recursive definition has a solution. *)
LEMMA AboveIs ==
    ASSUME NEW p \in Path
    PROVE  Above[p] = IF p = Root THEN {} ELSE {Parent[p]} \cup Above[Parent[p]]
<1> DEFINE F(h) == h = [q \in Path |-> IF q = Root THEN {} ELSE {Parent[q]} \cup h[Parent[q]]]
           f == [q \in Path |-> IF q = Root THEN {} ELSE Line(Parent[q])]
<1>1. ASSUME NEW q \in Path
      PROVE  f[q] = IF q = Root THEN {} ELSE {Parent[q]} \cup f[Parent[q]]
  <2>1. CASE q = Root
    BY <2>1
  <2>2. CASE q # Root
    <3>1. Parent[q] \in Path /\ f[q] = Line(Parent[q])
      BY <2>2, TreeAssumption DEF Path
    <3>2. CASE Parent[q] = Root
      BY <2>2, <3>1, <3>2, LineOfRoot
    <3>3. CASE Parent[q] # Root
      BY <2>2, <3>1, <3>3, LineUp
    <3> QED
      BY <3>2, <3>3
  <2> QED
    BY <2>1, <2>2
<1>2. F(f)
  <2>1. f = [q \in Path |-> f[q]]
    OBVIOUS
  <2> HIDE DEF f
  <2> QED
    BY <1>1, <2>1
<1> HIDE DEF f
<1>3. \E h : F(h)
  BY <1>2
<1>4. Above = CHOOSE h : F(h)
  BY DEF Above
<1> HIDE DEF F
<1>5. F(Above)
  BY <1>3, <1>4
<1> QED
  BY <1>5 DEF F

LEMMA AboveUp ==
    ASSUME NEW p \in Path
    PROVE  Above[p] \subseteq Dir /\ \A x \in Above[p] \ {Root} : Parent[x] \in Above[p]
<1> DEFINE S == {q \in Path : Above[q] \subseteq Dir /\ \A x \in Above[q] \ {Root} : Parent[x] \in Above[q]}
<1>1. Root \in S
  BY TreeAssumption, AboveIs DEF Path
<1>2. ASSUME NEW q \in Path \ {Root}, Parent[q] \in S PROVE q \in S
  <2>1. Above[q] = {Parent[q]} \cup Above[Parent[q]] /\ Parent[q] \in Dir
    BY AboveIs, TreeAssumption
  <2>2. Parent[q] # Root => Above[Parent[q]] = {Parent[Parent[q]]} \cup Above[Parent[Parent[q]]]
    BY <2>1, AboveIs DEF Path
  <2> QED
    BY <1>2, <2>1, <2>2
<1>3. S = Path
  <2>1. S \in SUBSET Path
    OBVIOUS
  <2> HIDE DEF S
  <2> QED
    BY <1>1, <1>2, <2>1, RootAssumption
<1> QED
  BY <1>3

LEMMA NotAboveItself == ASSUME NEW p \in Path PROVE p \notin Above[p]
<1> DEFINE S == {q \in Path : q \notin Above[q]}
<1>1. Root \in S
  BY TreeAssumption, AboveIs DEF Path
<1>2. ASSUME NEW q \in Path \ {Root}, Parent[q] \in S PROVE q \in S
  <2>1. Above[q] = {Parent[q]} \cup Above[Parent[q]] /\ Parent[q] \in Path
    BY AboveIs, TreeAssumption DEF Path
  <2>2. q \notin Above[Parent[q]]
    BY <1>2, <2>1, AboveUp
  <2> QED
    BY <1>2, <2>1, <2>2
<1>3. S = Path
  <2>1. S \in SUBSET Path
    OBVIOUS
  <2> HIDE DEF S
  <2> QED
    BY <1>1, <1>2, <2>1, RootAssumption
<1> QED
  BY <1>3

(* Of the directories, an entry for p touches those above p. *)
LEMMA TouchesAbove ==
    ASSUME NEW v, NEW p \in Path, NEW t, NEW d \in Dir, d \notin Above[p]
    PROVE  Touch(v, p, t)[d] = v.dirtime[d]
<1>1. p # Root => d # Parent[p]
  BY AboveIs
<1>2. ASSUME NEW m \in Missing(v, p) PROVE d # m /\ d # Parent[m]
  BY AboveUp DEF Missing
<1> QED
  BY <1>1, <1>2 DEF Touch
-----------------------------------------------------------------------------
(* The times of directories while one entry is restored. *)

(* All that w has of v's directories that are not above p, nor p. *)
TimesKept(v, w, p) == \A d \in Dir \ {p} : d \notin Above[p] => w.dirtime[d] = v.dirtime[d]

LEMMA CreatedFileTimes ==
    ASSUME NEW v \in Volumes, NEW f \in File, NEW w, w = CreatedFile(v, f)
    PROVE  w \in Volumes /\ w.node[f] \in Node /\ TimesKept(v, w, f)
<1>1. CASE Exists(v, f)
  BY <1>1, LiveNode DEF CreatedFile, TimesKept
<1>2. CASE ~ Exists(v, f)
  <2> DEFINE n == SomeFreeNode(v)
  <2>1. n \in Node
    BY <1>2, RecordLeft
  <2> HIDE DEF n
  <2>2. w = CreateFile(v, f, n, 0, RestoreTime)
    BY <1>2 DEF CreatedFile, n
  <2>3. w \in Volumes
    BY <2>1, <2>2, RestoreAssumption, CreateFileType DEF Data
  <2>4. w.node[f] = n /\ w.dirtime = Touch(v, f, RestoreTime)
    BY <2>1, <2>2 DEF CreateFile, WriteNode, Volumes
  <2> QED
    BY <2>1, <2>3, <2>4, TouchesAbove DEF TimesKept, Path
<1> QED
  BY <1>1, <1>2

LEMMA StreamsTimes ==
    ASSUME NEW v \in Volumes, NEW e \in Entries, e.path \in File, NEW w, w = RestoreStreams(v, e)
    PROVE  w \in Volumes /\ TimesKept(v, w, e.path)
<1> DEFINE c == CreatedFile(v, e.path)
           n == c.node[e.path]
           d == IF e.kind = "none" THEN c ELSE WriteNode(c, n, e.data, RestoreTime)
<1>1. c \in Volumes /\ n \in Node /\ TimesKept(v, c, e.path)
  BY CreatedFileTimes
<1>2. w = SetInfo(d, n, e)
  BY DEF RestoreStreams
<1> HIDE DEF c, n
<1>3. e.data \in Data /\ RestoreTime \in Time
  BY RestoreAssumption DEF Entries
<1>4. d \in Volumes /\ d.dirtime = c.dirtime
  BY <1>1, <1>3, WriteNodeType DEF WriteNode, Volumes
<1> HIDE DEF d
<1>5. w \in Volumes /\ w.dirtime = d.dirtime
  <2>1. w \in Volumes
    BY <1>1, <1>2, <1>4, SetInfoFields
  <2>2. w.dirtime = d.dirtime
    BY <1>2, <1>4 DEF SetInfo, Volumes
  <2> QED
    BY <2>1, <2>2
<1> QED
  BY <1>1, <1>4, <1>5 DEF TimesKept

LEMMA LinkTimes ==
    ASSUME NEW v \in Volumes, NEW e \in Entries, e.path \in File, e.to \in File,
           NEW w, w = RestoreLink(v, e)
    PROVE  w \in Volumes /\ TimesKept(v, w, e.path)
<1> DEFINE c == CreatedFile(v, e.path)
           d == DeleteName(c, e.path, RestoreTime)
<1>1. c \in Volumes /\ TimesKept(v, c, e.path)
  BY CreatedFileTimes
<1>2. w = IF Exists(d, e.to) THEN LinkName(d, e.path, d.node[e.to], RestoreTime) ELSE d
  BY DEF RestoreLink
<1> HIDE DEF c
<1>3. d \in Volumes /\ d.dirtime = Touch(c, e.path, RestoreTime)
  BY <1>1, DeleteNameType, RestoreAssumption DEF DeleteName, Volumes
<1>4. TimesKept(c, d, e.path)
  BY <1>3, TouchesAbove DEF TimesKept, Path
<1> HIDE DEF d
<1>5. CASE Exists(d, e.to)
  <2>1. d.node[e.to] \in Node
    BY <1>3, <1>5, LiveNode
  <2>2. w \in Volumes /\ w.dirtime = Touch(d, e.path, RestoreTime)
    <3>1. w = LinkName(d, e.path, d.node[e.to], RestoreTime)
      BY <1>2, <1>5
    <3>2. w \in Volumes
      BY <1>3, <2>1, <3>1, LinkNameType, RestoreAssumption
    <3>3. w.dirtime = Touch(d, e.path, RestoreTime)
      BY <1>3, <3>1 DEF LinkName, Volumes
    <3> QED
      BY <3>2, <3>3
  <2>3. TimesKept(d, w, e.path)
    BY <2>2, TouchesAbove DEF TimesKept, Path
  <2> QED
    BY <1>1, <1>4, <2>2, <2>3 DEF TimesKept
<1>6. CASE ~ Exists(d, e.to)
  BY <1>1, <1>2, <1>3, <1>4, <1>6 DEF TimesKept
<1> QED
  BY <1>5, <1>6

LEMMA EntryTimes ==
    ASSUME Opt["f"] = FALSE, NEW v \in Volumes, NEW e \in Entries,
           e.kind = "link" => e.to \in File, NEW w, w = RestoreEntry(v, e, Opt)
    PROVE  /\ w \in Volumes /\ TimesKept(v, w, e.path)
           /\ e.path \in Dir => w.dirtime[e.path] = e.time
<1>1. CASE e.path \in Dir
  <2>1. e.path \notin File /\ Overwritable(v, e, Opt) /\ CanCreate(v, e, Opt)
    BY <1>1, TreeAssumption DEF Overwritable, CanCreate
  <2>2. w = RestoreDirectory(v, e)
    BY <1>1, <2>1 DEF RestoreEntry
  <2> DEFINE at == IF Present(v, e.path) THEN v.dirtime ELSE Touch(v, e.path, RestoreTime)
  <2>3. e.time \in Time /\ at \in [Dir -> Time]
    BY TouchType, RestoreAssumption DEF Entries, Volumes
  <2>4. \A d \in Dir \ {e.path} : d \notin Above[e.path] => at[d] = v.dirtime[d]
    BY TouchesAbove DEF Entries
  <2>5. w = [v EXCEPT !.dirtime = [at EXCEPT ![e.path] = e.time]]
    BY <2>2 DEF RestoreDirectory
  <2> HIDE DEF at
  <2>6. w \in Volumes /\ w.dirtime = [at EXCEPT ![e.path] = e.time]
    BY <2>3, <2>5 DEF Volumes
  <2> QED
    BY <1>1, <2>3, <2>4, <2>6 DEF TimesKept
<1>2. CASE e.path \in File
  <2>1. e.path \notin Dir
    BY <1>2, TreeAssumption
  <2>2. w \in {v, RestoreStreams(v, e), RestoreLink(v, e), RestoreCopy(v, e)}
    BY <2>1 DEF RestoreEntry
  <2>3. CASE w = RestoreLink(v, e) /\ e.kind = "link"
    BY <1>2, <2>1, <2>3, LinkTimes
  <2>4. CASE w = RestoreStreams(v, e)
    BY <1>2, <2>1, <2>4, StreamsTimes
  <2>5. CASE w = RestoreCopy(v, e)
    BY <1>2, <2>1, <2>5, CreatedFileTimes DEF RestoreCopy
  <2>6. CASE w = v
    BY <2>1, <2>6 DEF TimesKept
  <2> QED
    BY <2>1, <2>3, <2>4, <2>5, <2>6 DEF RestoreEntry
<1> QED
  BY <1>1, <1>2 DEF Entries, Path
-----------------------------------------------------------------------------
(* The walk.  V is what a session whose LIST is the tree has come to. *)

(* The directories being read, and the file or directory in hand. *)
OnPath(fs) == {fs[i].info.path : i \in DOMAIN fs}
Hand(c, place) == IF place \in {"opened", "stream", "reset"} THEN {c.path} ELSE {}

(* The names not yet found are of directories that have been come to, and nothing
   at or below them has. *)
Ahead(fs, V) ==
    \A i \in DOMAIN fs :
        /\ fs[i].info.path \in V
        /\ fs[i].left \subseteq Children(fs[i].info.path)
        /\ \A x \in fs[i].left, q \in V : x # q /\ x \notin Above[q]

(* A directory that is read later does not contain one that is read before. *)
Lower(fs) ==
    \A i, j \in DOMAIN fs : i < j =>
        /\ fs[j].info.path # fs[i].info.path
        /\ fs[j].info.path \notin Above[fs[i].info.path]

HandLower(fs, H, V) ==
    \A h \in H : h \in V /\ \A d \in OnPath(fs) : h # d /\ h \notin Above[d]

(* Nothing is left to do in what the walk has returned from. *)
Behind(fs, H, V) ==
    \A q \in V \ (OnPath(fs) \cup H), d \in OnPath(fs) \cup H : q \notin Above[d]

(* What lies in the directories of V is in W, or will be found. *)
Found(fs, V, W) ==
    \A d \in V \cap Dir : \A c \in Children(d) :
        \/ d \in Excluded
        \/ c \in W
        \/ \E i \in DOMAIN fs : fs[i].info.path = d /\ c \in fs[i].left

InTree(fs, H, V) ==
    Ahead(fs, V) /\ Lower(fs) /\ HandLower(fs, H, V) /\ Behind(fs, H, V) /\ Found(fs, V, V)

(* p is the next to come to. *)
Ready(fs, V, p) ==
    /\ OnPath(fs) \subseteq V
    /\ Ahead(fs, V \cup {p}) /\ Lower(fs)
    /\ \A q \in V : p # q /\ p \notin Above[q]
    /\ \A q \in V \ OnPath(fs), d \in OnPath(fs) \cup {p} : q \notin Above[d]
    /\ Found(fs, V, V \cup {p})

LEMMA LastFrame ==
    ASSUME NEW fs \in Seq(Frame), fs # <<>>
    PROVE  /\ Len(fs) \in Nat \ {0} /\ DOMAIN fs = 1 .. Len(fs) /\ Len(fs) \in DOMAIN fs
           /\ Last(fs) = fs[Len(fs)] /\ Last(fs) \in Frame
           /\ Last(fs).info.path \in Dir /\ Last(fs).left \subseteq Path
<1>1. Len(fs) \in Nat /\ DOMAIN fs = 1 .. Len(fs) /\ Len(fs) \in 1 .. Len(fs)
  BY EmptySeq, LenProperties
<1>2. Last(fs) = fs[Len(fs)] /\ Last(fs) \in Frame
  BY <1>1, ElementOfSeq DEF Last
<1> QED
  BY <1>1, <1>2 DEF Frame, DirInfo

(* A name less to find. *)
Less(gs, p) == [gs EXCEPT ![Len(gs)].left = @ \ {p}]

LEMMA FoundOne ==
    ASSUME NEW gs \in Seq(Frame), gs # <<>>, NEW p
    PROVE  /\ Less(gs, p) \in Seq(Frame)
           /\ DOMAIN Less(gs, p) = 1 .. Len(gs)
           /\ \A i \in 1 .. Len(gs) :
                /\ Less(gs, p)[i].info = gs[i].info
                /\ Less(gs, p)[i].left = IF i = Len(gs) THEN gs[i].left \ {p} ELSE gs[i].left
<1> DEFINE n == Len(gs)
           frame == [gs[n] EXCEPT !.left = @ \ {p}]
<1>1. n \in 1 .. n /\ DOMAIN gs = 1 .. n /\ gs[n] \in Frame
  BY LastFrame
<1>2. frame \in Frame /\ frame.info = gs[n].info /\ frame.left = gs[n].left \ {p}
  BY <1>1 DEF Frame
<1>3. Less(gs, p) = [gs EXCEPT ![n] = frame]
  BY DEF Less
<1> HIDE DEF frame
<1>4. Less(gs, p) \in Seq(Frame)
  <2> HIDE DEF n
  <2>1. n \in 1 .. Len(gs)
    BY <1>1 DEF n
  <2>2. [gs EXCEPT ![n] = frame] \in Seq(Frame)
    BY <1>2, <2>1, ExceptSeq
  <2> QED
    BY <1>3, <2>2
<1> QED
  BY <1>1, <1>2, <1>3, <1>4

LEMMA ReadyFirst == Ready(<<>>, {}, Root)
<1>1. DOMAIN <<>> = {} /\ Root \in Dir
  BY TreeAssumption
<1> QED
  BY <1>1 DEF Ready, Ahead, Lower, Found, OnPath

LEMMA ReadyNext ==
    ASSUME NEW gs \in Seq(Frame), gs # <<>>, NEW V \in SUBSET Path, InTree(gs, {}, V),
           NEW p \in Last(gs).left, NEW fs, fs = [gs EXCEPT ![Len(gs)].left = @ \ {p}]
    PROVE  fs \in Seq(Frame) /\ Ready(fs, V, p) /\ OnPath(fs) = OnPath(gs) /\ p \in Path
<1> DEFINE n == Len(gs)
           top == gs[n].info.path
<1>1. /\ n \in Nat \ {0} /\ DOMAIN gs = 1 .. n /\ n \in DOMAIN gs
      /\ gs[n] \in Frame /\ top \in Dir /\ p \in gs[n].left /\ p \in Path
  BY LastFrame
<1>2. /\ fs \in Seq(Frame) /\ DOMAIN fs = 1 .. n
      /\ \A i \in 1 .. n : /\ fs[i].info = gs[i].info
                           /\ fs[i].left = IF i = n THEN gs[i].left \ {p} ELSE gs[i].left
  <2>1. /\ Less(gs, p) \in Seq(Frame) /\ DOMAIN Less(gs, p) = 1 .. n
        /\ \A i \in 1 .. n :
             /\ Less(gs, p)[i].info = gs[i].info
             /\ Less(gs, p)[i].left = IF i = n THEN gs[i].left \ {p} ELSE gs[i].left
    BY FoundOne, Zenon
  <2>2. fs = Less(gs, p)
    BY DEF Less
  <2> QED
    BY <2>1, <2>2, Zenon
<1> HIDE DEF n
<1>3. OnPath(fs) = OnPath(gs)
  BY <1>1, <1>2 DEF OnPath
<1>4. Lower(fs)
  BY <1>1, <1>2 DEF InTree, Lower
<1>5. /\ top \in V /\ p \in Children(top) /\ Parent[p] = top /\ p # Root
      /\ \A q \in V : p # q /\ p \notin Above[q]
  BY <1>1 DEF InTree, Ahead, Children
<1>6. Above[p] = {top} \cup Above[top]
  BY <1>1, <1>5, AboveIs
<1>7. Ahead(fs, V \cup {p})
  <2> SUFFICES ASSUME NEW i \in 1 .. n
               PROVE  /\ fs[i].info.path \in V \cup {p}
                      /\ fs[i].left \subseteq Children(fs[i].info.path)
                      /\ \A x \in fs[i].left, q \in V \cup {p} : x # q /\ x \notin Above[q]
    BY <1>2 DEF Ahead
  <2>1. /\ gs[i].info.path \in V /\ gs[i].left \subseteq Children(gs[i].info.path)
        /\ \A x \in gs[i].left, q \in V : x # q /\ x \notin Above[q]
    BY <1>1 DEF InTree, Ahead
  <2>2. fs[i].left \subseteq gs[i].left /\ fs[i].info.path = gs[i].info.path
    BY <1>2
  <2>3. \A x \in fs[i].left : x \notin Above[p]
    BY <1>5, <1>6, <2>1, <2>2
  <2>4. ASSUME p \in fs[i].left PROVE FALSE
    <3>1. i # n
      BY <1>2, <2>4
    <3>2. gs[i].info.path = top
      BY <1>5, <2>1, <2>2, <2>4 DEF Children
    <3>3. i < n
      BY <1>1, <3>1
    <3> QED
      BY <1>1, <3>2, <3>3 DEF InTree, Lower
  <2> QED
    BY <2>1, <2>2, <2>3, <2>4
<1>8. \A q \in V \ OnPath(fs), d \in OnPath(fs) \cup {p} : q \notin Above[d]
  <2>1. top \in OnPath(fs)
    BY <1>1, <1>3 DEF OnPath
  <2>2. \A q \in V \ OnPath(fs), d \in OnPath(fs) : q \notin Above[d]
    BY <1>3 DEF InTree, Behind
  <2> QED
    BY <1>6, <2>1, <2>2
<1>9. ASSUME NEW d \in V \cap Dir, NEW c \in Children(d)
      PROVE  \/ d \in Excluded
             \/ c \in V \cup {p}
             \/ \E i \in DOMAIN fs : fs[i].info.path = d /\ c \in fs[i].left
  <2>1. CASE d \in Excluded \/ c \in V
    BY <2>1
  <2>2. ASSUME NEW i \in DOMAIN gs, gs[i].info.path = d, c \in gs[i].left, c # p
        PROVE  i \in DOMAIN fs /\ fs[i].info.path = d /\ c \in fs[i].left
    BY <1>1, <1>2, <2>2
  <2> QED
    BY <2>1, <2>2 DEF InTree, Found
<1>10. Found(fs, V, V \cup {p}) /\ OnPath(fs) \subseteq V
  BY <1>3, <1>9 DEF InTree, Ahead, OnPath, Found
<1> QED
  BY <1>1, <1>2, <1>3, <1>4, <1>5, <1>7, <1>8, <1>10 DEF Ready

(* What lies in p has not been come to before p. *)
LEMMA ChildrenAhead ==
    ASSUME NEW p \in Dir, NEW V \in SUBSET Path, \A q \in V : p # q /\ p \notin Above[q],
           NEW x \in Children(p), NEW q \in V \cup {p}
    PROVE  x # q /\ x \notin Above[q]
<1>1. x \in Path /\ x # Root /\ Parent[x] = p /\ p \in Path
  BY DEF Children, Path
<1>2. Above[x] = {p} \cup Above[p]
  BY <1>1, AboveIs
<1>3. q \in V => p \notin Above[q] /\ q \in Path
  OBVIOUS
<1>4. q = p => p \notin Above[q] /\ q \in Path
  BY <1>1, NotAboveItself
<1>5. p \notin Above[q] /\ q \in Path
  BY <1>3, <1>4
<1>6. x \notin Above[q]
  BY <1>1, <1>5, AboveUp
<1>7. x # q
  BY <1>2, <1>3, <1>1, NotAboveItself
<1> QED
  BY <1>6, <1>7

LEMMA OpenTree ==
    ASSUME Typed, NEW V \in SUBSET Path, NEW p \in Path, NEW fs \in Seq(Frame), Ready(fs, V, p),
           OpenFile(p, fs)
    PROVE  /\ InTree(frames', Hand(cur', pc'), V \cup {p})
           /\ \/ p \in OnPath(frames') \cup Hand(cur', pc') \cup Excluded
              \/ p \in File /\ ~ Exists(vol, p)
           /\ pc' \in {"next", "scan", "opened"}
           /\ OnPath(fs) \subseteq OnPath(frames')
           /\ OnPath(frames') \cup Hand(cur', pc') \subseteq OnPath(fs) \cup {p}
<1> DEFINE U == V \cup {p}
<1>1. Len(fs) \in Nat /\ DOMAIN fs = 1 .. Len(fs)
  BY LenProperties
<1>2. /\ Ahead(fs, U) /\ Lower(fs) /\ OnPath(fs) \subseteq V
      /\ \A q \in V : p # q /\ p \notin Above[q]
      /\ \A q \in V \ OnPath(fs), d \in OnPath(fs) \cup {p} : q \notin Above[d]
      /\ Found(fs, V, U)
  BY DEF Ready
<1>3. p \notin OnPath(fs) /\ \A d \in OnPath(fs) : p \notin Above[d]
  BY <1>2
<1>4. CASE (p \in Excluded \/ (p \in File /\ ~ Exists(vol, p))) /\ Return(fs)
  <2>1. frames' = fs /\ pc' \in {"next", "scan"} /\ Hand(cur', pc') = {}
    BY <1>4 DEF Return, Hand
  <2>2. Behind(fs, {}, U)
    BY <1>2, <1>3 DEF Behind
  <2>3. Found(fs, U, U)
    BY <1>2, <1>4, TreeAssumption DEF Found
  <2> QED
    BY <1>2, <1>4, <2>1, <2>2, <2>3 DEF InTree, HandLower
<1>5. CASE /\ p \in Dir \ Excluded
           /\ frames' = Append(fs, [info |-> FileInfo(p), left |-> Children(p)])
           /\ pc' = "scan"
           /\ UNCHANGED cur
  <2> DEFINE fr == [info |-> FileInfo(p), left |-> Children(p)]
             n == Len(fs) + 1
  <2>1. fr \in Frame /\ fr.info.path = p /\ fr.left = Children(p)
    <3>1. vol \in Volumes
      BY DEF Typed, TypeOK
    <3>2. FileInfo(p) \in DirInfo /\ Children(p) \subseteq Path
      BY <1>5, <3>1, FileInfoType, TreeAssumption DEF Children
    <3> QED
      BY <1>5, <3>2 DEF Frame, FileInfo, NoInfo
  <2> HIDE DEF fr
  <2>2. /\ n \in Nat /\ DOMAIN frames' = 1 .. n /\ frames'[n] = fr
        /\ \A i \in 1 .. Len(fs) : frames'[i] = fs[i]
    BY <1>1, <1>5, <2>1 DEF fr
  <2>3. \A i \in 1 .. n : i = n \/ i \in DOMAIN fs
    BY <1>1
  <2>4. \A i \in DOMAIN fs : i \in 1 .. n /\ i # n /\ frames'[i] = fs[i]
    BY <1>1, <2>2
  <2>5. n \in 1 .. n /\ \A i, j \in 1 .. n : i < j => i # n
    BY <1>1
  <2> HIDE DEF n
  <2>6. OnPath(frames') = OnPath(fs) \cup {p}
    BY <2>1, <2>2, <2>3, <2>4, <2>5 DEF OnPath
  <2>7. Hand(cur', pc') = {}
    BY <1>5 DEF Hand
  <2>8. Ahead(frames', U)
    <3>1. ASSUME NEW i \in DOMAIN fs
          PROVE  /\ frames'[i].info.path \in U
                 /\ frames'[i].left \subseteq Children(frames'[i].info.path)
                 /\ \A x \in frames'[i].left, q \in U : x # q /\ x \notin Above[q]
      BY <1>2, <2>4 DEF Ahead
    <3>2. \A x \in Children(p), q \in U : x # q /\ x \notin Above[q]
      BY <1>2, <1>5, ChildrenAhead
    <3> QED
      BY <2>1, <2>2, <2>3, <3>1, <3>2 DEF Ahead
  <2>9. Lower(frames')
    <3> SUFFICES ASSUME NEW i \in 1 .. n, NEW j \in 1 .. n, i < j
                 PROVE  /\ frames'[j].info.path # frames'[i].info.path
                        /\ frames'[j].info.path \notin Above[frames'[i].info.path]
      BY <2>2 DEF Lower
    <3>1. i \in DOMAIN fs /\ frames'[i] = fs[i] /\ fs[i].info.path \in OnPath(fs)
      BY <2>3, <2>4, <2>5 DEF OnPath
    <3>2. CASE j = n
      BY <1>3, <2>1, <2>2, <3>1, <3>2
    <3>3. CASE j # n
      BY <1>2, <2>3, <2>4, <3>1, <3>3 DEF Lower
    <3> QED
      BY <3>2, <3>3
  <2>10. Behind(frames', {}, U)
    BY <1>2, <2>6 DEF Behind
  <2>11. Found(frames', U, U)
    <3> SUFFICES ASSUME NEW d \in U \cap Dir, NEW c \in Children(d), d \notin Excluded, c \notin U
                 PROVE  \E i \in 1 .. n : frames'[i].info.path = d /\ c \in frames'[i].left
      BY <2>2 DEF Found
    <3>1. CASE d = p
      BY <2>1, <2>2, <2>5, <3>1
    <3>2. CASE d \in V
      <4>1. PICK i \in DOMAIN fs : fs[i].info.path = d /\ c \in fs[i].left
        BY <1>2, <3>2 DEF Found
      <4> QED
        BY <2>4, <4>1
    <3> QED
      BY <3>1, <3>2
  <2> QED
    BY <1>5, <2>6, <2>7, <2>8, <2>9, <2>10, <2>11 DEF InTree, HandLower
<1>6. CASE /\ p \in File \ Excluded
           /\ Exists(vol, p)
           /\ frames' = fs
           /\ cur' = FileInfo(p)
           /\ pc' = "opened"
  <2>1. cur'.path = p /\ Hand(cur', pc') = {p} /\ p \notin Dir
    BY <1>6, TreeAssumption DEF FileInfo, Hand
  <2>2. HandLower(fs, {p}, U) /\ Behind(fs, {p}, U)
    BY <1>2, <1>3 DEF HandLower, Behind
  <2>3. Found(fs, U, U)
    BY <1>2, <2>1 DEF Found
  <2> QED
    BY <1>2, <1>6, <2>1, <2>2, <2>3 DEF InTree
<1> QED
  BY <1>4, <1>5, <1>6 DEF OpenFile

(* The last of the directories being read is in hand again. *)
LEMMA EndTree ==
    ASSUME NEW fs \in Seq(Frame), fs # <<>>, NEW V \in SUBSET Path, InTree(fs, {}, V), Last(fs).left = {}
    PROVE  /\ InTree(Front(fs), {Last(fs).info.path}, V)
           /\ OnPath(fs) = OnPath(Front(fs)) \cup {Last(fs).info.path}
<1> DEFINE n == Len(fs)
           top == fs[n].info.path
           gs == Front(fs)
<1>1. n \in Nat \ {0} /\ DOMAIN fs = 1 .. n /\ n \in DOMAIN fs /\ Last(fs) = fs[n]
  BY LastFrame
<1>2. gs = [i \in 1 .. n - 1 |-> fs[i]]
  BY <1>1 DEF Front
<1>3. /\ DOMAIN gs = 1 .. n - 1
      /\ \A i \in DOMAIN gs : i \in DOMAIN fs /\ i # n /\ i < n /\ gs[i] = fs[i]
      /\ \A i \in DOMAIN fs : i = n \/ i \in DOMAIN gs
  BY <1>1, <1>2
<1> HIDE DEF n, gs
<1>4. OnPath(fs) = OnPath(gs) \cup {top}
  BY <1>1, <1>3 DEF OnPath
<1>5. Ahead(gs, V) /\ top \in V
  BY <1>1, <1>3 DEF InTree, Ahead
<1>6. Lower(gs)
  BY <1>3 DEF InTree, Lower
<1>7. HandLower(gs, {top}, V)
  BY <1>1, <1>3, <1>5 DEF InTree, Lower, HandLower, OnPath
<1>8. Behind(gs, {top}, V)
  BY <1>4 DEF InTree, Behind
<1>9. Found(gs, V, V)
  BY <1>1, <1>3 DEF InTree, Found
<1> QED
  BY <1>1, <1>4, <1>5, <1>6, <1>7, <1>8, <1>9 DEF InTree, n, gs

(* A file or directory in hand has been come to, and is done. *)
LEMMA DoneTree ==
    ASSUME NEW fs, NEW H, NEW V \in SUBSET Path, InTree(fs, H, V)
    PROVE  InTree(fs, {}, V)
  BY DEF InTree, HandLower, Behind
-----------------------------------------------------------------------------
(* A session over the whole tree. *)

(* LIST is the root, and of what is wanted nothing lies in an excluded directory. *)
Reached ==
    /\ List = <<Root>>
    /\ \A p \in Path : Wants(p) => Above[p] \cap Excluded = {}

Begun(V) ==
    IF pc = "next" /\ todo # <<>> THEN todo = <<Root>> /\ V = {} ELSE todo = <<>> /\ Root \in V

Walked(V) == InTree(frames, Hand(cur, pc), V) /\ Begun(V)

(* What the session is through with, but for the attribute. *)
Done(V) == {q \in V : q \notin OnPath(frames) /\ (pc \in {"opened", "stream"} => q # cur.path)}

NoFrames == pc \in {"idle", "next"} => frames = <<>>
CompleteRuns == complete => ~ bCancel

(* A step is through with at most one file or directory more. *)
Forward(V, W) ==
    /\ Done(V) \subseteq Done(W)'
    /\ \A q \in Done(W)' : \/ q \in Done(V) \cup Excluded
                           \/ q \in File /\ ~ Exists(vol, q)
                           \/ q = cur.path /\ (Skip \/ WriteLink \/ ReadStreams \/ StopReading)
    /\ WriteLink \/ ReadStreams \/ StopReading => cur.path \in Done(W)'

LEMMA FirstWalks ==
    ASSUME Typed, NEW V \in SUBSET Path, Walked(V), NextArgument
    PROVE  \E W \in SUBSET Path : Walked(W)' /\ Forward(V, W)
<1>1. /\ pc = "next" /\ todo = <<Root>> /\ V = {} /\ todo' = Tail(todo)
      /\ OpenFile(Head(todo), <<>>)
  BY DEF NextArgument, Walked, Begun
<1>2. Root \in Path /\ Head(todo) = Root /\ todo' = <<>>
  BY <1>1, TreeAssumption DEF Path
<1>3. OpenFile(Root, <<>>) /\ Ready(<<>>, V, Root)
  BY <1>1, <1>2, ReadyFirst
<1>4. <<>> \in Seq(Frame)
  OBVIOUS
<1>5. /\ InTree(frames', Hand(cur', pc'), V \cup {Root})
      /\ \/ Root \in OnPath(frames') \cup Hand(cur', pc') \cup Excluded
         \/ Root \in File /\ ~ Exists(vol, Root)
      /\ pc' \in {"next", "scan", "opened"}
  BY <1>2, <1>3, <1>4, OpenTree
<1>6. Walked({Root})'
  BY <1>1, <1>2, <1>5 DEF Walked, Begun
<1>7. Forward(V, {Root})
  BY <1>1, <1>5 DEF Forward, Done, Hand, WriteLink, ReadStreams, StopReading
<1> QED
  BY <1>2, <1>6, <1>7

LEMMA FindNextWalks ==
    ASSUME Typed, NEW V \in SUBSET Path, Walked(V), FindNext
    PROVE  \E W \in SUBSET Path : Walked(W)' /\ Forward(V, W)
<1>1. frames \in Seq(Frame) /\ frames # <<>> /\ pc = "scan" /\ UNCHANGED todo
  BY DEF Typed, InHand, FindNext
<1>2. PICK p \in Last(frames).left : OpenFile(p, [frames EXCEPT ![Len(frames)].left = @ \ {p}])
  BY DEF FindNext
<1>3. InTree(frames, {}, V) /\ todo = <<>> /\ Root \in V
  BY <1>1 DEF Walked, Begun, Hand
<1> DEFINE fs == [frames EXCEPT ![Len(frames)].left = @ \ {p}]
<1>4. fs \in Seq(Frame) /\ Ready(fs, V, p) /\ OnPath(fs) = OnPath(frames) /\ p \in Path
  BY <1>1, <1>3, ReadyNext
<1>5. OpenFile(p, fs)
  BY <1>2
<1> HIDE DEF fs
<1>6. /\ InTree(frames', Hand(cur', pc'), V \cup {p})
      /\ \/ p \in OnPath(frames') \cup Hand(cur', pc') \cup Excluded
         \/ p \in File /\ ~ Exists(vol, p)
      /\ pc' \in {"next", "scan", "opened"}
      /\ OnPath(fs) \subseteq OnPath(frames')
      /\ OnPath(frames') \cup Hand(cur', pc') \subseteq OnPath(fs) \cup {p}
  BY <1>4, <1>5, OpenTree
<1>7. Walked(V \cup {p})'
  BY <1>1, <1>3, <1>6 DEF Walked, Begun
<1>8. p \notin V
  BY <1>4 DEF Ready
<1>9. \A q \in Done(V) : q \in Done(V \cup {p})'
  BY <1>1, <1>4, <1>6, <1>8 DEF Done, Hand
<1>10. Forward(V, V \cup {p})
  BY <1>1, <1>4, <1>6, <1>9 DEF Forward, Done, Hand, WriteLink, ReadStreams, StopReading
<1> QED
  BY <1>4, <1>7, <1>10

LEMMA EndWalks ==
    ASSUME Typed, ~ bCancel, NEW V \in SUBSET Path, Walked(V), EndOfDirectory,
           complete' \/ "unreadable" \notin UserOps
    PROVE  Walked(V)' /\ Forward(V, V)
<1>1. frames \in Seq(Frame) /\ frames # <<>> /\ pc = "scan" /\ UNCHANGED todo
  BY DEF Typed, InHand, EndOfDirectory
<1>2. /\ Last(frames).left = {} /\ frames' = Front(frames) /\ cur' = Last(frames).info
      /\ pc' = "opened"
  BY DEF EndOfDirectory
<1>3. InTree(frames, {}, V) /\ todo = <<>> /\ Root \in V
  BY <1>1 DEF Walked, Begun, Hand
<1>4. /\ InTree(Front(frames), {Last(frames).info.path}, V)
      /\ OnPath(frames) = OnPath(Front(frames)) \cup {Last(frames).info.path}
  BY <1>1, <1>2, <1>3, EndTree
<1>5. Hand(cur', pc') = {Last(frames).info.path}
  BY <1>2 DEF Hand
<1> QED
  BY <1>1, <1>2, <1>3, <1>4, <1>5 DEF Walked, Begun, Forward, Done, WriteLink, ReadStreams, StopReading

LEMMA OtherWalks ==
    ASSUME Typed, NoFrames, ~ bCancel, NEW V \in SUBSET Path, Walked(V),
           Session, ~ NextArgument, ~ FindNext, ~ EndOfDirectory
    PROVE  Walked(V)' /\ Forward(V, V)
<1>1. CASE Finish
  BY <1>1 DEF Finish, Walked, Begun, Hand, Forward, Done, WriteLink, ReadStreams, StopReading
<1>2. CASE Skip \/ WriteLink \/ StopReading \/ ResetArchive
  <2>1. /\ pc \in {"opened", "stream", "reset"} /\ UNCHANGED todo /\ frames' = frames
        /\ pc' \in {"next", "scan"}
        /\ pc = "reset" \/ Skip \/ WriteLink \/ StopReading
    BY <1>2 DEF Skip, WriteLink, ResetArchive, StopReading, Return
  <2>2. InTree(frames', Hand(cur', pc'), V) /\ cur.path \in V /\ cur.path \notin OnPath(frames)
    BY <2>1, DoneTree DEF Walked, Hand, InTree, HandLower
  <2>3. Begun(V)'
    BY <2>1 DEF Walked, Begun
  <2>4. Forward(V, V)
    BY <2>1, <2>2 DEF Forward, Done
  <2> QED
    BY <2>2, <2>3, <2>4 DEF Walked
<1>3. CASE WriteHeader
  BY <1>3 DEF WriteHeader, Walked, Begun, Hand, Forward, Done, WriteLink, ReadStreams, StopReading
<1>4. CASE ReadStreams
  <2>1. cur.path \in V /\ cur.path \notin OnPath(frames)
    BY <1>4 DEF ReadStreams, Walked, Hand, InTree, HandLower
  <2>2. /\ pc = "stream" /\ pc' = "reset" /\ UNCHANGED <<frames, cur, todo>>
    BY <1>4 DEF ReadStreams
  <2>3. Walked(V)'
    BY <2>2 DEF Walked, Begun, Hand
  <2>4. Forward(V, V)
    BY <1>4, <2>1, <2>2 DEF Forward, Done
  <2> QED
    BY <2>3, <2>4
<1> QED
  BY <1>1, <1>2, <1>3, <1>4 DEF Session

LEMMA SessionWalks ==
    ASSUME Typed, NoFrames, ~ bCancel, NEW V \in SUBSET Path, Walked(V), Session,
           complete' \/ "unreadable" \notin UserOps
    PROVE  \E W \in SUBSET Path : Walked(W)' /\ Forward(V, W)
  BY FirstWalks, FindNextWalks, EndWalks, OtherWalks

LEMMA StartWalks ==
    ASSUME Reached, NoFrames, NEW m, Start(m)
    PROVE  Walked({})' /\ Done({})' = {}
<1>1. frames' = <<>> /\ pc' = "next" /\ todo' = <<Root>>
  BY DEF Start, NoFrames, Reached
<1>2. DOMAIN <<>> = {} /\ <<Root>> # <<>>
  OBVIOUS
<1>3. InTree(<<>>, {}, {})
  BY <1>2 DEF InTree, Ahead, Lower, HandLower, Behind, Found, OnPath
<1> QED
  BY <1>1, <1>2, <1>3 DEF Walked, Begun, Hand, Done

(* A session that has come to its end is through with all that is wanted. *)
LEMMA AllDone ==
    ASSUME Reached, NoFrames, pc = "idle" \/ (pc = "next" /\ todo = <<>>),
           NEW V \in SUBSET Path, Walked(V), NEW p \in Path, Wants(p)
    PROVE  p \in Done(V)
<1>1. frames = <<>> /\ DOMAIN frames = {} /\ Root \in V
  BY DEF NoFrames, Walked, Begun
<1>2. Found(frames, V, V)
  BY DEF Walked, InTree
<1> DEFINE S == {q \in Path : Above[q] \cap Excluded = {} => q \in V}
<1>3. Root \in S
  BY <1>1, TreeAssumption DEF Path
<1>4. ASSUME NEW q \in Path \ {Root}, Parent[q] \in S, Above[q] \cap Excluded = {} PROVE q \in V
  <2>1. Above[q] = {Parent[q]} \cup Above[Parent[q]] /\ Parent[q] \in Dir
    BY AboveIs, TreeAssumption
  <2>2. Parent[q] \in V /\ Parent[q] \notin Excluded /\ q \in Children(Parent[q])
    BY <1>4, <2>1 DEF Children
  <2> QED
    BY <1>1, <1>2, <2>1, <2>2 DEF Found
<1>5. S = Path
  <2>1. S \in SUBSET Path /\ \A q \in Path \ {Root} : Parent[q] \in S => q \in S
    BY <1>4
  <2> HIDE DEF S
  <2> QED
    BY <1>3, <2>1, RootAssumption
<1>6. p \in V
  BY <1>5 DEF Reached
<1> QED
  BY <1>1, <1>6 DEF Done, OnPath

(* Where the walk is. *)
LEMMA StepPlace ==
    ASSUME Typed, NoFrames, CompleteRuns, [Next]_vars
    PROVE  NoFrames' /\ CompleteRuns'
<1>1. CASE UNCHANGED vars
  BY <1>1 DEF vars, session, NoFrames, CompleteRuns
<1>2. CASE User
  BY <1>2 DEF User, Create, Write, Delete, Link, Replace, UserChange, session, NoFrames, CompleteRuns
<1>3. CASE NextArgument \/ FindNext
  <2>1. PICK p, fs : OpenFile(p, fs) /\ (NextArgument => fs = <<>>)
    BY <1>3 DEF NextArgument, FindNext
  <2>2. NoFrames'
    BY <1>3, <2>1 DEF OpenFile, Return, NoFrames
  <2> QED
    BY <1>3, <2>2 DEF NextArgument, FindNext, CompleteRuns
<1>4. CASE Session /\ ~ NextArgument /\ ~ FindNext
  BY <1>4 DEF Session, Finish, EndOfDirectory, Skip, WriteLink, WriteHeader, ReadStreams, StopReading,
      ResetArchive, Return, NoFrames, CompleteRuns
<1>5. CASE Cancel \/ \E m \in Methods : Start(m)
  BY <1>5 DEF Cancel, Start, NoFrames, CompleteRuns
<1> QED
  BY <1>1, <1>2, <1>3, <1>4, <1>5 DEF Next
-----------------------------------------------------------------------------
(* What a step of a session does to what can be restored. *)

(* Nobody writes during a session, no stream breaks off in the middle, and what is
   not there yet is restored too. *)
Unbroken == UserBusy = FALSE /\ "part" \notin Interrupted /\ Opt["f"] = FALSE

Plain(s) == s.vol \in Volumes /\ s.inside = FALSE

Position == Typed /\ NoFrames /\ CompleteRuns /\ HeaderIsLast

LEMMA StepHeader == ASSUME Typed, HeaderIsLast, [Next]_vars PROVE HeaderIsLast'
<1>1. CASE WriteHeader
  <2>1. Header("none") \in Entries /\ archive \in Seq(Entries)
    BY HeaderType, LenOfArchive DEF Typed, TypeOK, InHand
  <2>2. archive' = Append(archive, Header("none")) /\ UNCHANGED <<cur, method>>
    BY <1>1 DEF WriteHeader
  <2>3. archive' # <<>> /\ archive'[Len(archive')] = Header("none")
    BY <2>1, <2>2
  <2> QED
    BY <2>2, <2>3 DEF HeaderIsLast, Header
<1>2. CASE UNCHANGED vars \/ User \/ Cancel
  BY <1>2 DEF vars, session, User, Create, Write, Delete, Link, Replace, UserChange, Cancel, HeaderIsLast,
      Header
<1>3. CASE (Session /\ ~ WriteHeader) \/ \E m \in Methods : Start(m)
  <2>1. pc' # "stream"
    BY <1>3 DEF Session, NextArgument, Finish, FindNext, EndOfDirectory, OpenFile, Skip, WriteLink, ReadStreams,
        StopReading, ResetArchive, Return, Start
  <2> QED
    BY <2>1 DEF HeaderIsLast
<1> QED
  BY <1>1, <1>2, <1>3 DEF Next

LEMMA StepPosition == ASSUME IInv, Position, [Next]_vars PROVE Position'
<1>1. Typed'
  BY StepTyped DEF IInv
<1> QED
  BY <1>1, StepPlace, StepHeader DEF Position

LEMMA BackWithLink ==
    ASSUME Typed, NEW e \in Entries, archive' = Append(archive, e), pc # "stream", pc' # "stream"
    PROVE  Back' = RestoreNext(Back, e, Opt)
<1>1. archive \in Seq(Entries) /\ archive' \in Seq(Entries) /\ Len(archive) \in Nat
  BY LenOfArchive
<1>2. Len(archive') = Len(archive) + 1 /\ archive'[Len(archive) + 1] = e
      /\ \A i \in 1 .. Len(archive) : archive[i] = archive'[i]
  BY <1>1
<1>3. /\ Len(archive') \in Nat /\ Len(archive) <= Len(archive') /\ Len(archive') - 1 = Len(archive)
      /\ Len(archive') \in 1 .. Len(archive')
  BY <1>1, <1>2
<1>4. Base = Len(archive) /\ Base' = Len(archive')
  BY DEF Base
<1>5. After(archive, Opt)[Len(archive)] = After(archive', Opt)[Len(archive)]
  <2>1. Len(archive) <= Len(archive)
    BY <1>1
  <2> QED
    BY <1>1, <1>2, <1>3, <2>1, AfterAgrees
<1>6. After(archive', Opt)[Len(archive')] =
        RestoreNext(After(archive', Opt)[Len(archive') - 1], archive'[Len(archive')], Opt)
  BY <1>3, AfterNext
<1> QED
  BY <1>2, <1>3, <1>4, <1>5, <1>6 DEF Back

(* The entry e is complete with this step. *)
Adds(e) ==
    /\ Back' = RestoreNext(Back, e, Opt)
    /\ e.path = cur.path /\ e.time = cur.time
    /\ \/ WriteLink /\ e.kind = "link" /\ \E l \in links : l.node = cur.node /\ e.to = l.name
       \/ ReadStreams /\ cur.path \in Dir /\ e.kind = "dir"
       \/ ReadStreams /\ cur.path \notin Dir /\ e.kind = "data" /\ e.data = vol.data[cur.node]
       \/ StopReading /\ e.kind = "none"
       \/ StopReading /\ bCancel /\ e.kind \in {"dir", "data"}

LEMMA StepBack ==
    ASSUME Unbroken, Typed, HeaderIsLast, [Next]_vars
    PROVE  \/ Back' = Back /\ ~ ReadStreams /\ ~ StopReading /\ ~ WriteLink
           \/ \E e \in Entries : Adds(e)
<1>t. TypeOK /\ cur \in HandInfo /\ archive \in Seq(Entries)
  BY LenOfArchive DEF Typed, InHand
<1>1. CASE WriteHeader
  <2>1. Header("none") \in Entries
    BY <1>t, HeaderType
  <2>2. Back' = Back
    BY <1>1, <2>1, BackWithHeader DEF WriteHeader
  <2>3. pc = "opened" /\ pc' = "stream"
    BY <1>1 DEF WriteHeader
  <2> QED
    BY <2>2, <2>3 DEF ReadStreams, StopReading, WriteLink, Return
<1>2. CASE WriteLink
  <2>1. PICK l \in links :
          l.node = cur.node /\ archive' = Append(archive, [Header("link") EXCEPT !.to = l.name])
    BY <1>2 DEF WriteLink
  <2>2. PICK e : e = [Header("link") EXCEPT !.to = l.name]
    OBVIOUS
  <2>3. l.name \in File /\ l.name \in Path
    BY <1>t DEF TypeOK, Path
  <2>4. e \in Entries /\ e.kind = "link" /\ e.to = l.name /\ e.path = cur.path /\ e.time = cur.time
    <3>1. e \in Entries
      BY <1>t, <2>2, <2>3, HeaderType
    <3> QED
      BY <2>2, <3>1 DEF Header
  <2>5. pc = "opened" /\ pc' \in {"next", "scan"}
    BY <1>2 DEF WriteLink, Return
  <2> QED
    BY <1>2, <2>1, <2>2, <2>3, <2>4, <2>5, BackWithLink DEF Adds
<1>3. CASE ReadStreams \/ StopReading
  <2>1. PICK kind \in {"data", "dir", "none"}, d \in Data :
          /\ SetLast(kind, d)
          /\ \/ ReadStreams /\ cur.path \in Dir /\ kind = "dir"
             \/ ReadStreams /\ cur.path \notin Dir /\ kind = "data" /\ d = vol.data[cur.node]
             \/ StopReading /\ kind = "none"
             \/ StopReading /\ bCancel /\ kind \in {"dir", "data"}
    <3>1. CASE WriteStreams /\ cur.path \in Dir /\ (ReadStreams \/ (StopReading /\ bCancel))
      BY <3>1 DEF WriteStreams, Data
    <3>2. CASE WriteStreams /\ cur.path \notin Dir /\ (ReadStreams \/ (StopReading /\ bCancel))
      <4>1. vol.data[cur.node] \in Data
        BY <1>t, <3>2 DEF TypeOK, HandInfo, Volumes
      <4> QED
        BY <3>2, <4>1 DEF WriteStreams
    <3>3. CASE StopReading /\ ~ (bCancel /\ WriteStreams)
      <4>1. SetLast("none", 0)
        BY <3>3, BackupAssumption DEF StopReading, Unbroken
      <4> QED
        BY <3>3, <4>1 DEF Data
    <3> QED
      BY <1>3, <3>1, <3>2, <3>3 DEF ReadStreams
  <2>2. PICK e : e = [Header("none") EXCEPT !.kind = kind, !.data = d]
    OBVIOUS
  <2>3. pc = "stream" /\ pc' # "stream" /\ kind \in {"data", "link", "dir", "none", "part"}
    BY <1>3 DEF ReadStreams, StopReading, Return
  <2>4. e \in Entries /\ Back' = RestoreNext(Back, e, Opt)
    BY <2>1, <2>2, <2>3, BackWithStreams
  <2>5. e.kind = kind /\ e.path = cur.path /\ e.time = cur.time /\ e.data = d
    BY <2>2 DEF Header
  <2> QED
    BY <2>1, <2>4, <2>5 DEF Adds
<1>4. CASE UNCHANGED archive /\ (pc = "stream" <=> pc' = "stream") /\ ~ WriteLink
  BY <1>4, BackKept DEF ReadStreams, StopReading, Return
<1>5. CASE UNCHANGED vars \/ User \/ Cancel \/ \E m \in Methods : Start(m)
  <2>1. UNCHANGED archive /\ (pc = "stream" <=> pc' = "stream")
    BY <1>5 DEF vars, session, User, Create, Write, Delete, Link, Replace, UserChange, Cancel, Start
  <2> QED
    BY <1>2, <1>4, <2>1
<1>6. CASE Session /\ ~ WriteHeader /\ ~ WriteLink /\ ~ ReadStreams /\ ~ StopReading
  BY <1>4, <1>6 DEF Session, NextArgument, Finish, FindNext, EndOfDirectory, OpenFile, Skip,
      ResetArchive, Return
<1> QED
  BY <1>1, <1>2, <1>3, <1>5, <1>6 DEF Next

LEMMA AddsPlain ==
    ASSUME Unbroken, Typed, Plain(Back), NEW e \in Entries, Adds(e)
    PROVE  /\ Plain(Back') /\ TimesKept(Back.vol, Back'.vol, cur.path)
           /\ cur.path \in Dir => Back'.vol.dirtime[cur.path] = cur.time
<1>1. PICK t : t = Back'
  OBVIOUS
<1>2. /\ t = RestoreNext(Back, e, Opt) /\ e.path = cur.path /\ e.time = cur.time
      /\ e.kind # "part" /\ (e.kind = "link" => e.to \in File)
  BY <1>1 DEF Adds, Typed, TypeOK
<1>3. t.vol = RestoreEntry(Back.vol, e, Opt) /\ t.inside = FALSE
  BY <1>2 DEF RestoreNext, Plain
<1>4. PICK w : w = RestoreEntry(Back.vol, e, Opt)
  OBVIOUS
<1>5. /\ w \in Volumes /\ TimesKept(Back.vol, w, e.path)
      /\ e.path \in Dir => w.dirtime[e.path] = e.time
  BY <1>2, <1>4, EntryTimes DEF Unbroken, Plain
<1>6. Plain(t) /\ t.vol = w
  BY <1>3, <1>4, <1>5 DEF Plain
<1> QED
  BY <1>1, <1>2, <1>5, <1>6

LEMMA StepPlain ==
    ASSUME Unbroken, Typed, HeaderIsLast, Plain(Back), [Next]_vars
    PROVE  Plain(Back')
  BY StepBack, AddsPlain

LEMMA FreshPlain == ASSUME Init PROVE Back = Fresh /\ Plain(Back)
<1>1. archive = <<>> /\ Len(archive) = 0 /\ pc = "idle"
  BY DEF Init
<1>2. Back = Fresh
  BY <1>1, AfterNone DEF Back, Base
<1>3. Plain(Fresh)
  BY TreeAssumption, RestoreAssumption DEF Plain, Fresh, Blank, Volumes, Data, Time, NoTime
<1> QED
  BY <1>2, <1>3

LEMMA InitPosition == ASSUME Init PROVE Position
  BY InitTyped DEF Init, Position, NoFrames, CompleteRuns, HeaderIsLast

LEMMA ResultIsBack == ASSUME pc = "idle" PROVE Result = Back.vol
  BY DEF Result, Restored, Back, Base
-----------------------------------------------------------------------------
(* The times of the directories through a session. *)

TimesOf(fs) == \A i \in DOMAIN fs : fs[i].info.time = vol.dirtime[fs[i].info.path]

(* A directory is in hand with the time it had before. *)
TimesRead ==
    /\ TimesOf(frames)
    /\ pc \in {"opened", "stream", "reset"} /\ cur.path \in Dir => cur.time = vol.dirtime[cur.path]

TimesGood(V) ==
    method \in {"FULL", "COPY"} =>
        \A d \in Done(V) \cap Dir : Wants(d) => Back.vol.dirtime[d] = vol.dirtime[d]

TimesInv ==
    /\ Position /\ TimesRead /\ Plain(Back)
    /\ complete => \E V \in SUBSET Path : Walked(V) /\ TimesGood(V)

LEMMA OpenTimes ==
    ASSUME Typed, NEW p \in Path, NEW fs \in Seq(Frame), TimesOf(fs), OpenFile(p, fs), UNCHANGED vol
    PROVE  TimesRead'
<1>1. CASE Return(fs)
  BY <1>1 DEF Return, TimesRead, TimesOf
<1>2. CASE /\ p \in Dir \ Excluded
           /\ frames' = Append(fs, [info |-> FileInfo(p), left |-> Children(p)])
           /\ pc' = "scan"
  <2>1. FileInfo(p).path = p /\ FileInfo(p).time = vol.dirtime[p]
    BY <1>2 DEF FileInfo, NoInfo
  <2>2. Len(fs) \in Nat /\ DOMAIN fs = 1 .. Len(fs)
    BY LenProperties
  <2>3. /\ DOMAIN frames' = 1 .. Len(fs) + 1
        /\ \A i \in 1 .. Len(fs) : frames'[i] = fs[i]
        /\ frames'[Len(fs) + 1].info = FileInfo(p)
    BY <1>2
  <2>4. \A i \in 1 .. Len(fs) + 1 : i \in 1 .. Len(fs) \/ i = Len(fs) + 1
    BY <2>2
  <2> QED
    BY <1>2, <2>1, <2>2, <2>3, <2>4 DEF TimesRead, TimesOf
<1>3. CASE p \in File \ Excluded /\ frames' = fs /\ cur' = FileInfo(p) /\ pc' = "opened"
  <2>1. cur'.path = p /\ p \notin Dir
    BY <1>3, TreeAssumption DEF FileInfo
  <2> QED
    BY <1>3, <2>1 DEF TimesRead, TimesOf
<1> QED
  BY <1>1, <1>2, <1>3 DEF OpenFile

LEMMA StepTimesRead ==
    ASSUME Unbroken, Typed, NoFrames, TimesRead, [Next]_vars
    PROVE  TimesRead'
<1>1. CASE UNCHANGED vars
  BY <1>1 DEF vars, session, TimesRead, TimesOf
<1>2. CASE User
  <2>1. pc = "idle" /\ UNCHANGED <<pc, frames, cur>>
    BY <1>2 DEF User, Create, Write, Delete, Link, Replace, UserChange, session, Unbroken
  <2>2. frames' = <<>> /\ DOMAIN <<>> = {}
    BY <2>1 DEF NoFrames
  <2> QED
    BY <2>1, <2>2 DEF TimesRead, TimesOf
<1>3. CASE NextArgument
  <2>1. OpenFile(Head(todo), <<>>) /\ UNCHANGED vol /\ todo # <<>> /\ todo \in Seq(Path)
    BY <1>3 DEF NextArgument, Typed, TypeOK
  <2>2. Head(todo) \in Path /\ <<>> \in Seq(Frame) /\ DOMAIN <<>> = {}
    BY <2>1, HeadTailProperties
  <2> QED
    BY <2>1, <2>2, OpenTimes DEF TimesOf
<1>4. CASE FindNext
  <2>1. frames \in Seq(Frame) /\ frames # <<>> /\ UNCHANGED vol
    BY <1>4 DEF Typed, InHand, FindNext
  <2>2. PICK p \in Last(frames).left : OpenFile(p, [frames EXCEPT ![Len(frames)].left = @ \ {p}])
    BY <1>4 DEF FindNext
  <2>3. PICK fs : fs = Less(frames, p)
    OBVIOUS
  <2>4. OpenFile(p, fs)
    BY <2>2, <2>3 DEF Less
  <2>5. fs \in Seq(Frame) /\ DOMAIN fs = 1 .. Len(frames) /\ p \in Path
        /\ \A i \in 1 .. Len(frames) : fs[i].info = frames[i].info
    <3>1. p \in Path
      BY <2>1, <2>2, LastFrame
    <3>2. Less(frames, p) \in Seq(Frame) /\ DOMAIN Less(frames, p) = 1 .. Len(frames)
          /\ \A i \in 1 .. Len(frames) :
                /\ Less(frames, p)[i].info = frames[i].info
                /\ Less(frames, p)[i].left =
                      IF i = Len(frames) THEN frames[i].left \ {p} ELSE frames[i].left
      BY <2>1, FoundOne, Zenon
    <3> QED
      BY <2>3, <3>1, <3>2, Zenon
  <2>6. TimesOf(fs)
    BY <2>1, <2>5, LenProperties DEF TimesRead, TimesOf
  <2> QED
    BY <2>1, <2>4, <2>5, <2>6, OpenTimes
<1>5. CASE EndOfDirectory
  <2>1. frames \in Seq(Frame) /\ frames # <<>> /\ UNCHANGED vol /\ frames' = Front(frames)
        /\ cur' = Last(frames).info
    BY <1>5 DEF Typed, InHand, EndOfDirectory
  <2>2. /\ Len(frames) \in Nat \ {0} /\ DOMAIN frames = 1 .. Len(frames) /\ Len(frames) \in DOMAIN frames
        /\ Last(frames) = frames[Len(frames)]
    BY <2>1, LastFrame
  <2>3. Front(frames) = [i \in 1 .. Len(frames) - 1 |-> frames[i]]
    BY <2>2 DEF Front
  <2>4. \A i \in DOMAIN frames' : i \in DOMAIN frames /\ frames'[i] = frames[i]
    BY <2>1, <2>2, <2>3
  <2> QED
    BY <2>1, <2>2, <2>4 DEF TimesRead, TimesOf
<1>6. CASE Session /\ ~ NextArgument /\ ~ FindNext /\ ~ EndOfDirectory
  <2>1. /\ UNCHANGED frames
        /\ pc' \in {"opened", "stream", "reset"} => UNCHANGED cur /\ pc \in {"opened", "stream", "reset"}
    BY <1>6 DEF Session, Finish, Skip, WriteLink, WriteHeader, ReadStreams, StopReading, ResetArchive, Return
  <2>2. vol'.dirtime = vol.dirtime
    <3>1. CASE UNCHANGED vol
      BY <3>1
    <3>2. CASE ResetArchive
      BY <3>2 DEF ResetArchive, Typed, TypeOK, Volumes
    <3> QED
      BY <1>6, <3>1, <3>2 DEF Session, Finish, Skip, WriteLink, WriteHeader, ReadStreams, StopReading
  <2> QED
    BY <2>1, <2>2 DEF TimesRead, TimesOf
<1>7. CASE Cancel \/ \E m \in Methods : Start(m)
  BY <1>7 DEF Cancel, Start, TimesRead, TimesOf
<1> QED
  BY <1>1, <1>2, <1>3, <1>4, <1>5, <1>6, <1>7 DEF Next

LEMMA SessionTimes ==
    ASSUME Unbroken, Position, TimesRead, Plain(Back), complete', Session,
           NEW V \in SUBSET Path, Walked(V), TimesGood(V), ~ bCancel
    PROVE  \E W \in SUBSET Path : Walked(W)' /\ TimesGood(W)'
<1>1. PICK W \in SUBSET Path : Walked(W)' /\ Forward(V, W)
  BY SessionWalks DEF Position
<1>2. vol'.dirtime = vol.dirtime /\ UNCHANGED method
  <2>1. CASE ResetArchive
    BY <2>1 DEF ResetArchive, Position, Typed, TypeOK, Volumes
  <2>2. CASE ~ ResetArchive
    BY <2>2 DEF Session, NextArgument, FindNext, EndOfDirectory, Finish, Skip, WriteLink, WriteHeader,
        ReadStreams, StopReading
  <2> QED
    BY <2>1, <2>2 DEF Session, NextArgument, FindNext, EndOfDirectory, Finish, Skip, WriteLink, WriteHeader,
        ReadStreams, StopReading, ResetArchive
<1>3. SUFFICES ASSUME method \in {"FULL", "COPY"}, NEW d \in Dir, d \in Done(W)', Wants(d)
               PROVE  Back'.vol.dirtime[d] = vol.dirtime[d]
  BY <1>1, <1>2 DEF TimesGood
<1>4. d \in Done(V) \/ (d = cur.path /\ ReadStreams)
  <2>1. d \notin Excluded /\ d \notin File /\ d \in Included
    BY <1>3, TreeAssumption DEF Wants
  <2>2. d = cur.path => ~ Skip
    BY <1>3, <2>1 DEF Skip, Wanted
  <2>3. d = cur.path => ~ WriteLink /\ ~ StopReading
    BY <1>3 DEF WriteLink, StopReading, Tracked, Position, Typed, InHand, HandInfo
  <2> QED
    BY <1>1, <1>3, <2>1, <2>2, <2>3 DEF Forward
<1>5. CASE Back' = Back /\ ~ ReadStreams
  BY <1>3, <1>4, <1>5 DEF TimesGood
<1>6. ASSUME NEW e \in Entries, Adds(e) PROVE Back'.vol.dirtime[d] = vol.dirtime[d]
  <2>1. /\ TimesKept(Back.vol, Back'.vol, cur.path)
        /\ cur.path \in Dir => Back'.vol.dirtime[cur.path] = cur.time
    BY <1>6, AddsPlain DEF Position
  <2>2. pc \in {"opened", "stream"}
    BY <1>6 DEF Adds, ReadStreams, StopReading, WriteLink
  <2>3. CASE d \in Done(V)
    <3>1. d # cur.path /\ d \in V \ (OnPath(frames) \cup {cur.path})
      BY <2>2, <2>3 DEF Done
    <3>2. Hand(cur, pc) = {cur.path}
      BY <2>2 DEF Hand
    <3>3. d \notin Above[cur.path]
      BY <3>1, <3>2 DEF Walked, InTree, Behind
    <3> QED
      BY <1>3, <2>1, <2>3, <3>1, <3>3 DEF TimesKept, TimesGood
  <2>4. CASE d = cur.path
    BY <2>1, <2>2, <2>4 DEF TimesRead
  <2> QED
    BY <1>4, <2>3, <2>4
<1>7. [Next]_vars
  BY DEF Next
<1> QED
  BY <1>5, <1>6, <1>7, StepBack DEF Position

LEMMA StepTimes == ASSUME Unbroken, Reached, IInv, TimesInv, [Next]_vars PROVE TimesInv'
<1>1. Position' /\ TimesRead' /\ Plain(Back)'
  <2>1. Position' /\ TimesRead'
    BY StepPosition, StepTimesRead DEF TimesInv, Position
  <2>2. Plain(Back')
    BY StepPlain DEF TimesInv, Position
  <2> QED
    BY <2>1, <2>2
<1>2. ASSUME complete' PROVE \E W \in SUBSET Path : Walked(W)' /\ TimesGood(W)'
  <2>1. CASE UNCHANGED vars
    <3>1. UNCHANGED <<vol, archive, method, todo, frames, cur, pc, complete>>
      BY <2>1 DEF vars, session
    <3>2. Back' = Back
      BY <3>1, BackKept
    <3>3. PICK V \in SUBSET Path : Walked(V) /\ TimesGood(V)
      BY <1>2, <3>1 DEF TimesInv
    <3>4. Walked(V)' /\ TimesGood(V)'
      BY <3>1, <3>2, <3>3 DEF Walked, Begun, TimesGood, Done
    <3> QED
      BY <3>4
  <2>2. CASE Session
    <3>1. complete /\ ~ bCancel
      BY <1>2, <2>2 DEF Session, NextArgument, FindNext, EndOfDirectory, Finish, Skip, WriteLink, WriteHeader,
          ReadStreams, StopReading, ResetArchive, TimesInv, Position, CompleteRuns
    <3>2. PICK V \in SUBSET Path : Walked(V) /\ TimesGood(V)
      BY <3>1 DEF TimesInv
    <3> QED
      BY <1>2, <2>2, <3>1, <3>2, SessionTimes DEF TimesInv
  <2>3. CASE User \/ Cancel
    BY <1>2, <2>3 DEF User, Create, Write, Delete, Link, Replace, UserChange, Cancel
  <2>4. ASSUME NEW m, Start(m) PROVE \E W \in SUBSET Path : Walked(W)' /\ TimesGood(W)'
    <3>1. Walked({})' /\ Done({})' = {}
      BY <2>4, StartWalks DEF TimesInv, Position
    <3>2. TimesGood({})'
      BY <3>1 DEF TimesGood
    <3> QED
      BY <3>1, <3>2
  <2> QED
    BY <2>1, <2>2, <2>3, <2>4 DEF Next
<1> QED
  BY <1>1, <1>2 DEF TimesInv

LEMMA InitTimes == Init => TimesInv
<1> SUFFICES ASSUME Init PROVE TimesInv
  OBVIOUS
<1>1. TimesRead
  BY DEF Init, TimesRead, TimesOf
<1>2. ~ complete
  BY DEF Init
<1> QED
  BY <1>1, <1>2, InitPosition, FreshPlain DEF TimesInv

LEMMA TimesRestored == ASSUME Reached, TimesInv PROVE DirectoryTimesRestored
<1> SUFFICES ASSUME pc = "idle", complete, method \in {"FULL", "COPY"}, NEW d \in Dir, Wants(d)
             PROVE  Result.dirtime[d] = vol.dirtime[d]
  BY DEF DirectoryTimesRestored
<1>1. PICK V \in SUBSET Path : Walked(V) /\ TimesGood(V)
  BY DEF TimesInv
<1>2. d \in Done(V)
  BY <1>1, AllDone DEF TimesInv, Position, Path
<1> QED
  BY <1>1, <1>2, ResultIsBack DEF TimesGood

(* Nobody writes during a session, LIST is the root and nothing wanted lies in an
   excluded directory: after every full session or copy that nothing disturbed,
   whatever was cancelled or failed before it, strarc -x sets the time of every
   directory to what it was, with hard links or without.  The entry of a directory
   comes after those of all that lies in it, and whatever is restored after that
   leaves the directories alone that the walk has returned from. *)
THEOREM TimesComeBack ==
    ASSUME Unbroken, Reached
    PROVE  Spec => []DirectoryTimesRestored
<1>1. Init => IInv /\ TimesInv
  BY InitIInv, InitTimes
<1>2. IInv /\ TimesInv /\ [Next]_vars => (IInv /\ TimesInv)'
  BY StepIInv, StepTimes
<1>3. IInv /\ TimesInv => DirectoryTimesRestored
  BY TimesRestored
<1> QED
  BY <1>1, <1>2, <1>3, PTL DEF Spec
-----------------------------------------------------------------------------
(* The contents of the files through a session, without hard links. *)

(* A file is in hand with the attribute it has. *)
AttributeRead == pc = "opened" /\ cur.path \in File => cur.archive = vol.archive[cur.node]

FilesGood(V) ==
    \A f \in Done(V) \cap File : Wants(f) /\ Exists(vol, f) => Comes(Back, vol, f)

FilesInv ==
    /\ Position /\ AttributeRead
    /\ complete => \E V \in SUBSET Path : Walked(V) /\ FilesGood(V)

LEMMA StepAttributeRead ==
    ASSUME UserBusy = FALSE, Typed, AttributeRead, [Next]_vars
    PROVE  AttributeRead'
<1>1. CASE UNCHANGED vars \/ Cancel
  BY <1>1 DEF vars, session, Cancel, AttributeRead
<1>2. CASE NextArgument \/ FindNext
  <2>1. PICK p, fs : OpenFile(p, fs)
    BY <1>2 DEF NextArgument, FindNext
  <2>2. UNCHANGED vol
    BY <1>2 DEF NextArgument, FindNext
  <2>3. p \in File => p \notin Dir
    BY TreeAssumption
  <2> QED
    BY <2>1, <2>2, <2>3 DEF OpenFile, Return, FileInfo, AttributeRead
<1>3. CASE EndOfDirectory
  <2>1. frames \in Seq(Frame) /\ frames # <<>> /\ cur' = Last(frames).info
    BY <1>3 DEF Typed, InHand, EndOfDirectory
  <2>2. cur'.path \in Dir
    BY <2>1, LastFrame
  <2> QED
    BY <2>2, TreeAssumption DEF AttributeRead
<1>4. CASE User \/ (Session /\ ~ NextArgument /\ ~ FindNext /\ ~ EndOfDirectory) \/ \E m \in Methods : Start(m)
  <2>1. pc' # "opened"
    BY <1>4 DEF User, Create, Write, Delete, Link, Replace, UserChange, session, Session, Finish, Skip,
        WriteLink,
        WriteHeader, ReadStreams, StopReading, ResetArchive, Return, Start
  <2> QED
    BY <2>1 DEF AttributeRead
<1> QED
  BY <1>1, <1>2, <1>3, <1>4 DEF Next

LEMMA UndisturbedIsUnbroken == Undisturbed => Unbroken
  BY OptAssumption DEF Undisturbed, Overwrites, Unbroken, Options

(* What can be restored can be restored after every step of a session. *)
LEMMA SessionKeeps ==
    ASSUME Undisturbed, IInv, ComesInv, Session
    PROVE  /\ vol'.node = vol.node /\ vol'.data = vol.data
           /\ \A f \in File : Comes(Back, vol, f) => Comes(Back', vol', f)
<1>1. vol'.node = vol.node /\ vol'.data = vol.data
  <2>1. CASE ResetArchive
    BY <2>1 DEF ResetArchive, IInv, Typed, TypeOK, Volumes
  <2>2. CASE ~ ResetArchive
    BY <2>2 DEF Session, NextArgument, FindNext, EndOfDirectory, Finish, Skip, WriteLink, WriteHeader,
        ReadStreams, StopReading
  <2> QED
    BY <2>1, <2>2
<1>2. \A f \in File : Comes(Back, vol, f) => Comes(Back', vol, f)
  <2>1. CASE ReadStreams \/ StopReading
    BY <2>1, StreamsComes
  <2>2. CASE ~ ReadStreams /\ ~ StopReading
    <3>1. ~ WriteLink /\ [Next]_vars
      BY DEF WriteLink, Tracked, ComesInv, HandIsFile, Next
    <3>2. Back' = Back
      BY <2>2, <3>1, UndisturbedIsUnbroken, StepBack DEF IInv, ComesInv, Adds
    <3> QED
      BY <3>2
  <2> QED
    BY <2>1, <2>2
<1> QED
  BY <1>1, <1>2 DEF Comes

LEMMA SessionFiles ==
    ASSUME Undisturbed, IInv, ComesInv, Position, AttributeRead, complete', Session,
           NEW V \in SUBSET Path, Walked(V), FilesGood(V), ~ bCancel
    PROVE  \E W \in SUBSET Path : Walked(W)' /\ FilesGood(W)'
<1>1. PICK W \in SUBSET Path : Walked(W)' /\ Forward(V, W)
  BY SessionWalks DEF Position
<1>2. /\ vol'.node = vol.node /\ vol'.data = vol.data
      /\ \A f \in File : Comes(Back, vol, f) => Comes(Back', vol', f)
  BY SessionKeeps
<1>3. SUFFICES ASSUME NEW f \in File, f \in Done(W)', Wants(f), Exists(vol', f)
               PROVE  Comes(Back', vol', f)
  BY <1>1 DEF FilesGood
<1>4. Exists(vol, f) /\ f \notin Excluded /\ f \in Included
  BY <1>2, <1>3 DEF Exists, Wants
<1>5. CASE f \in Done(V)
  BY <1>2, <1>3, <1>4, <1>5 DEF FilesGood
<1>6. CASE f = cur.path /\ ReadStreams
  <2>1. ComesInv'
    BY <1>6, StreamsComes
  <2>2. pc' = "reset" /\ cur' = cur
    BY <1>6 DEF ReadStreams
  <2> QED
    BY <1>6, <2>1, <2>2 DEF ComesInv, ResetComes
<1>7. CASE f = cur.path /\ Skip
  <2>1. pc = "opened" /\ cur.node = vol.node[f] /\ cur.archive = vol.archive[cur.node]
    BY <1>7 DEF Skip, ComesInv, HandIsFile, AttributeRead
  <2>2. vol.archive[vol.node[f]] \in BOOLEAN
    BY <1>4, LiveNode DEF Position, Typed, TypeOK, Volumes
  <2>3. vol.archive[vol.node[f]] = FALSE
    BY <1>4, <1>7, <2>1, <2>2 DEF Skip, Wanted
  <2>4. Comes(Back, vol, f)
    BY <1>3, <1>4, <2>3 DEF ComesInv, ClearComes, Clear
  <2> QED
    BY <1>2, <2>4
<1>8. ~ WriteLink /\ ~ StopReading
  BY DEF WriteLink, StopReading, Tracked, ComesInv, HandIsFile
<1> QED
  BY <1>1, <1>3, <1>4, <1>5, <1>6, <1>7, <1>8 DEF Forward

LEMMA StepFiles ==
    ASSUME Undisturbed, Reached, IInv, ComesInv, FilesInv, [Next]_vars
    PROVE  FilesInv'
<1>1. Position' /\ AttributeRead'
  BY StepPosition, StepAttributeRead DEF FilesInv, IInv, Undisturbed
<1>2. ASSUME complete' PROVE \E W \in SUBSET Path : Walked(W)' /\ FilesGood(W)'
  <2>1. CASE UNCHANGED vars
    <3>1. UNCHANGED <<vol, archive, todo, frames, cur, pc, complete>>
      BY <2>1 DEF vars, session
    <3>2. Back' = Back
      BY <3>1, BackKept
    <3>3. PICK V \in SUBSET Path : Walked(V) /\ FilesGood(V)
      BY <1>2, <3>1 DEF FilesInv
    <3>4. Walked(V)' /\ FilesGood(V)'
      BY <3>1, <3>2, <3>3 DEF Walked, Begun, FilesGood, Done
    <3> QED
      BY <3>4
  <2>2. CASE Session
    <3>1. complete /\ ~ bCancel
      BY <1>2, <2>2 DEF Session, NextArgument, FindNext, EndOfDirectory, Finish, Skip, WriteLink, WriteHeader,
          ReadStreams, StopReading, ResetArchive, FilesInv, Position, CompleteRuns
    <3>2. PICK V \in SUBSET Path : Walked(V) /\ FilesGood(V)
      BY <3>1 DEF FilesInv
    <3> QED
      BY <1>2, <2>2, <3>1, <3>2, SessionFiles DEF FilesInv
  <2>3. CASE User \/ Cancel
    BY <1>2, <2>3 DEF User, Create, Write, Delete, Link, Replace, UserChange, Cancel
  <2>4. ASSUME NEW m, Start(m) PROVE \E W \in SUBSET Path : Walked(W)' /\ FilesGood(W)'
    <3>1. Walked({})' /\ Done({})' = {}
      BY <2>4, StartWalks DEF FilesInv, Position
    <3>2. FilesGood({})'
      BY <3>1 DEF FilesGood
    <3> QED
      BY <3>1, <3>2
  <2> QED
    BY <2>1, <2>2, <2>3, <2>4 DEF Next
<1> QED
  BY <1>1, <1>2 DEF FilesInv

LEMMA FilesRestored == ASSUME Reached, FilesInv PROVE ContentsRestored
<1> SUFFICES ASSUME pc = "idle", complete, NEW f \in File, Exists(vol, f), Wants(f)
             PROVE  Exists(Result, f) /\ Result.data[Result.node[f]] = vol.data[vol.node[f]]
  BY DEF ContentsRestored
<1>1. PICK V \in SUBSET Path : Walked(V) /\ FilesGood(V)
  BY DEF FilesInv
<1>2. f \in Done(V)
  BY <1>1, AllDone DEF FilesInv, Position, Path
<1> QED
  BY <1>1, <1>2, ResultIsBack DEF FilesGood, Comes

(* Without hard links, with a user who leaves a running session alone, LIST the root
   and nothing wanted in an excluded directory: after every session of any kind that
   nothing disturbed, all the wanted files come back with their contents, those that
   the session passed over from what earlier sessions left in the archive, cancelled
   or not, although their files may have been deleted and replaced in between. *)
THEOREM ContentsComeBack ==
    ASSUME Undisturbed, Reached
    PROVE  Spec => []ContentsRestored
<1>1. Init => IInv /\ ComesInv /\ FilesInv
  <2> SUFFICES ASSUME Init PROVE IInv /\ ComesInv /\ FilesInv
    OBVIOUS
  <2>1. ~ complete /\ pc = "idle"
    BY DEF Init
  <2> QED
    BY <2>1, InitIInv, InitComes, InitPosition DEF FilesInv, AttributeRead
<1>2. IInv /\ ComesInv /\ FilesInv /\ [Next]_vars => (IInv /\ ComesInv /\ FilesInv)'
  BY StepIInv, StepComes, StepFiles
<1>3. IInv /\ ComesInv /\ FilesInv => ContentsRestored
  BY FilesRestored
<1> QED
  BY <1>1, <1>2, <1>3, PTL DEF Spec

-----------------------------------------------------------------------------
(* Hard links.  One entry and the names and contents of the files restored. *)

(* The restore replaces what is there and makes links. *)
Relinks == Overwrites /\ Opt["a"] = FALSE /\ Opt["l"] = FALSE

(* w is r with the file p created if it was not there, and perhaps written to. *)
WrittenTo(r, w, p) ==
    /\ \A g \in File \ {p} : w.node[g] = r.node[g]
    /\ Exists(w, p)
    /\ IF Exists(r, p) THEN w.node[p] = r.node[p] ELSE w.node[p] \notin Live(r)
    /\ \A n \in Node \ {w.node[p]} : w.data[n] = r.data[n]

(* w is r with p a name of the file t. *)
LinkedTo(r, w, p, t) ==
    /\ \A g \in File \ {p} : w.node[g] = r.node[g]
    /\ w.node[p] = r.node[t]
    /\ \A n \in Live(r) : w.data[n] = r.data[n]

LEMMA CreatedFileNames ==
    ASSUME NEW v \in Volumes, NEW f \in File, NEW w, w = CreatedFile(v, f)
    PROVE  w \in Volumes /\ w.node[f] \in Node /\ WrittenTo(v, w, f) /\ (Exists(v, f) => w = v)
<1>1. CASE Exists(v, f)
  BY <1>1, LiveNode DEF CreatedFile, WrittenTo
<1>2. CASE ~ Exists(v, f)
  <2> DEFINE n == SomeFreeNode(v)
  <2>1. n \in Node /\ n \notin Live(v) /\ n # NoNode
    BY <1>2, RecordLeft, TreeAssumption
  <2> HIDE DEF n
  <2>2. w = CreateFile(v, f, n, 0, RestoreTime)
    BY <1>2 DEF CreatedFile, n
  <2>3. w \in Volumes
    BY <2>1, <2>2, RestoreAssumption, CreateFileType DEF Data
  <2>4. /\ \A g \in File : w.node[g] = IF g = f THEN n ELSE v.node[g]
        /\ \A m \in Node \ {n} : w.data[m] = v.data[m]
    BY <2>1, <2>2 DEF CreateFile, WriteNode, Volumes
  <2> QED
    BY <1>2, <2>1, <2>3, <2>4 DEF WrittenTo, Exists
<1> QED
  BY <1>1, <1>2

LEMMA StreamsNames ==
    ASSUME NEW v \in Volumes, NEW e \in Entries, e.path \in File, NEW w, w = RestoreStreams(v, e)
    PROVE  /\ WrittenTo(v, w, e.path)
           /\ e.kind # "none" => w.data[w.node[e.path]] = e.data
           /\ e.kind = "none" /\ Exists(v, e.path) => w.data[w.node[e.path]] = v.data[v.node[e.path]]
<1> DEFINE c == CreatedFile(v, e.path)
           n == c.node[e.path]
           d == IF e.kind = "none" THEN c ELSE WriteNode(c, n, e.data, RestoreTime)
<1>1. c \in Volumes /\ n \in Node /\ WrittenTo(v, c, e.path) /\ (Exists(v, e.path) => c = v)
  BY CreatedFileNames
<1>2. w = SetInfo(d, n, e)
  BY DEF RestoreStreams
<1> HIDE DEF c
<1>3. e.data \in Data /\ e.time \in Time /\ e.archive \in BOOLEAN /\ RestoreTime \in Time
  BY RestoreAssumption DEF Entries
<1>4. /\ d \in Volumes /\ d.node = c.node
      /\ \A m \in Node \ {n} : d.data[m] = c.data[m]
      /\ d.data[n] = IF e.kind = "none" THEN c.data[n] ELSE e.data
  <2>1. CASE e.kind = "none"
    BY <1>1, <2>1
  <2>2. CASE e.kind # "none"
    <3>1. d = WriteNode(c, n, e.data, RestoreTime)
      BY <2>2
    <3> HIDE DEF d, n
    <3> QED
      BY <1>1, <1>3, <2>2, <3>1, WriteNodeFields
  <2> QED
    BY <2>1, <2>2
<1> HIDE DEF d
<1>5. w.node = c.node /\ w.data = d.data
  <2> HIDE DEF n
  <2> QED
    BY <1>1, <1>2, <1>4, SetInfoFields
<1>6. WrittenTo(v, w, e.path)
  BY <1>1, <1>4, <1>5 DEF WrittenTo, Exists
<1>7. e.kind # "none" => w.data[w.node[e.path]] = e.data
  BY <1>4, <1>5
<1>8. e.kind = "none" /\ Exists(v, e.path) => w.data[w.node[e.path]] = v.data[v.node[e.path]]
  BY <1>1, <1>4, <1>5
<1> QED
  BY <1>6, <1>7, <1>8

LEMMA LinkNames ==
    ASSUME NEW v \in Volumes, NEW e \in Entries, e.path \in File, e.to \in File \ {e.path},
           Exists(v, e.to), NEW w, w = RestoreLink(v, e)
    PROVE  LinkedTo(v, w, e.path, e.to)
<1> DEFINE c == CreatedFile(v, e.path)
           d == DeleteName(c, e.path, RestoreTime)
<1>1. c \in Volumes /\ WrittenTo(v, c, e.path) /\ (Exists(v, e.path) => c = v)
  BY CreatedFileNames
<1>2. w = IF Exists(d, e.to) THEN LinkName(d, e.path, d.node[e.to], RestoreTime) ELSE d
  BY DEF RestoreLink
<1> HIDE DEF c
<1>3. d \in Volumes
  BY <1>1, DeleteNameType, RestoreAssumption
<1>4. d.data = c.data /\ \A g \in File : d.node[g] = IF g = e.path THEN NoNode ELSE c.node[g]
  BY <1>1 DEF DeleteName, Volumes
<1> HIDE DEF d
<1>5. d.node[e.to] = v.node[e.to] /\ Exists(d, e.to) /\ v.node[e.to] \in Node
  BY <1>1, <1>4, LiveNode DEF WrittenTo, Exists
<1>6. w = LinkName(d, e.path, v.node[e.to], RestoreTime)
  BY <1>2, <1>5
<1>7. w.data = d.data /\ \A g \in File : w.node[g] = IF g = e.path THEN v.node[e.to] ELSE d.node[g]
  BY <1>3, <1>5, <1>6 DEF LinkName, Volumes
<1>8. ASSUME NEW n \in Live(v) PROVE c.data[n] = v.data[n]
  <2>1. n \in Node
    BY LiveIsNode
  <2> QED
    BY <1>1, <2>1 DEF WrittenTo
<1> QED
  BY <1>1, <1>4, <1>7, <1>8 DEF WrittenTo, LinkedTo

LEMMA EntryNames ==
    ASSUME Relinks, NEW v \in Volumes, NEW e \in Entries, NEW w, w = RestoreEntry(v, e, Opt)
    PROVE  /\ e.path \in Dir => w.node = v.node /\ w.data = v.data
           /\ e.path \in File /\ e.kind # "link" =>
                /\ WrittenTo(v, w, e.path)
                /\ e.kind # "none" => w.data[w.node[e.path]] = e.data
                /\ e.kind = "none" /\ Exists(v, e.path) =>
                      w.data[w.node[e.path]] = v.data[v.node[e.path]]
           /\ e.path \in File /\ e.kind = "link" /\ e.to \in File \ {e.path} /\ Exists(v, e.to) =>
                LinkedTo(v, w, e.path, e.to)
<1>1. /\ Opt["a"] = FALSE /\ Opt["f"] = FALSE /\ Opt["n"] = FALSE /\ Opt["o"] = TRUE /\ Opt["l"] = FALSE
      /\ Overwritable(v, e, Opt) /\ CanCreate(v, e, Opt)
  BY OptAssumption DEF Options, Relinks, Overwrites, CanCreate, Overwritable
<1>2. e.path \in File => e.path \notin Dir
  BY TreeAssumption
<1>3. CASE e.path \in Dir
  <2>1. w = RestoreDirectory(v, e) /\ e.path \notin File
    BY <1>1, <1>2, <1>3 DEF RestoreEntry
  <2>2. w.node = v.node /\ w.data = v.data
    BY <2>1 DEF RestoreDirectory, Volumes
  <2> QED
    BY <1>3, <2>1, <2>2
<1>4. CASE e.path \in File /\ e.kind # "link"
  <2>1. w = RestoreStreams(v, e)
    BY <1>1, <1>2, <1>4 DEF RestoreEntry
  <2> QED
    BY <1>2, <1>4, <2>1, StreamsNames
<1>5. CASE e.path \in File /\ e.kind = "link"
  <2>1. w = RestoreLink(v, e)
    BY <1>1, <1>2, <1>5 DEF RestoreEntry
  <2> QED
    BY <1>2, <1>5, <2>1, LinkNames
<1> QED
  BY <1>3, <1>4, <1>5 DEF Entries, Path

-----------------------------------------------------------------------------
(* Hard links through sessions.  Files are created, written and linked between
   sessions, not deleted. *)

Growing ==
    /\ Relinks
    /\ UserBusy = FALSE
    /\ UserOps \subseteq {"create", "write", "link"}
    /\ "INC" \notin Methods
    /\ "part" \notin Interrupted
    /\ LinkArchives = TRUE
    /\ bHardLinkSupport = TRUE

(* The names under which the file n of the volume v is to come back. *)
NamesIn(v, n) == {f \in File : v.node[f] = n /\ Wants(f)}
Names(n) == NamesIn(vol, n)

(* On the volume r these are names of one file; it has the contents of n. *)
SameIn(r, S) == \A f, g \in S : Exists(r, f) /\ r.node[f] = r.node[g]
RightIn(r, v, S, n) == \A f \in S : r.data[r.node[f]] = v.data[n]

(* What is one file on r is one file on v. *)
Merged(r, v) ==
    \A f, g \in File : Exists(r, f) /\ Exists(r, g) /\ r.node[f] = r.node[g] =>
        Exists(v, f) /\ Exists(v, g) /\ v.node[f] = v.node[g]

(* A file is in hand with the node, the number of links and the attribute it has. *)
LinkHand ==
    pc \in {"opened", "stream", "reset"} /\ cur.path \in File =>
        /\ Exists(vol, cur.path) /\ cur.node = vol.node[cur.path]
        /\ cur.linked = HardLinked(vol, cur.node)
        /\ cur.path \notin Excluded
        /\ pc = "opened" => cur.archive = vol.archive[cur.node]
        /\ pc # "opened" => cur.path \in Included

Through(V, n) == Names(n) \cap Done(V)

(* Differential sessions pass over a file with a clear attribute under all its
   names. *)
PassedOver(n) == method = "DIFF" /\ vol.archive[n] = FALSE

(* A file with a clear attribute comes back from what earlier sessions left, until
   its first name is archived. *)
ClearIsRight(r, V) ==
    \A n \in Node : vol.archive[n] = FALSE /\ (Through(V, n) = {} \/ method = "DIFF") =>
        SameIn(r, Names(n)) /\ RightIn(r, vol, Names(n), n)

(* The names that the session is through with are one file, and a right one unless
   its attribute remains. *)
ThroughIsRight(r, V) ==
    \A n \in Node :
        /\ SameIn(r, Through(V, n))
        /\ complete \/ vol.archive[n] = FALSE => RightIn(r, vol, Through(V, n), n)

(* The link tracker has the first name of each file that others may follow of. *)
Tracking(V) ==
    /\ \A l \in links :
          /\ vol.node[l.name] = l.node /\ Wants(l.name)
          /\ l.name \in Done(V) \/ (pc = "stream" /\ l.name = cur.path)
    /\ \A n \in Node : HardLinked(vol, n) /\ Through(V, n) # {} /\ ~ PassedOver(n) =>
          \E l \in links : l.node = n

(* A file is read under its first name, and its attribute cleared when it is right. *)
FirstName(r, V) ==
    /\ pc = "stream" /\ cur.path \in File =>
          /\ Through(V, cur.node) = {} /\ ~ PassedOver(cur.node)
          /\ cur.linked => \E l \in links : l.node = cur.node
    /\ pc = "reset" /\ cur.path \in File => RightIn(r, vol, Through(V, cur.node), cur.node)

Linked(V) ==
    /\ ClearIsRight(Back.vol, V) /\ ThroughIsRight(Back.vol, V)
    /\ Tracking(V) /\ FirstName(Back.vol, V)

(* Between sessions. *)
AtRest ==
    \A n \in Node : complete \/ vol.archive[n] = FALSE =>
        SameIn(Back.vol, Names(n)) /\ RightIn(Back.vol, vol, Names(n), n)

LinksInv ==
    /\ Position /\ LinkHand /\ Plain(Back) /\ Merged(Back.vol, vol)
    /\ ~ bCancel /\ (pc # "idle" => method \in Methods)
    /\ IF pc = "idle" THEN AtRest ELSE \E V \in SUBSET Path : Walked(V) /\ Linked(V)

LEMMA InLive == ASSUME NEW v, NEW f \in File, Exists(v, f) PROVE v.node[f] \in Live(v)
  BY DEF Live, Exists

LEMMA MergedWritten ==
    ASSUME NEW r, NEW w, NEW v, NEW p \in File, Merged(r, v), Exists(v, p), WrittenTo(r, w, p)
    PROVE  Merged(w, v)
<1> SUFFICES ASSUME NEW f \in File, NEW g \in File, Exists(w, f), Exists(w, g), w.node[f] = w.node[g]
             PROVE  Exists(v, f) /\ Exists(v, g) /\ v.node[f] = v.node[g]
  BY DEF Merged
<1>1. ASSUME NEW h \in File \ {p} PROVE w.node[h] = r.node[h] /\ (Exists(w, h) => Exists(r, h))
  BY DEF WrittenTo, Exists
<1>2. CASE Exists(r, p)
  <2>1. \A h \in File : w.node[h] = r.node[h] /\ (Exists(w, h) => Exists(r, h))
    BY <1>1, <1>2 DEF WrittenTo
  <2> QED
    BY <2>1 DEF Merged
<1>3. CASE ~ Exists(r, p)
  <2>1. \A h \in File \ {p} : Exists(w, h) => w.node[h] # w.node[p]
    BY <1>1, <1>3, InLive DEF WrittenTo
  <2>2. (f = p /\ g = p) \/ (f # p /\ g # p)
    BY <2>1
  <2> QED
    BY <1>1, <2>2 DEF Merged
<1> QED
  BY <1>2, <1>3

LEMMA MergedLinked ==
    ASSUME NEW r, NEW w, NEW v, NEW p \in File, NEW t \in File \ {p}, Merged(r, v), Exists(r, t),
           Exists(v, p), v.node[p] = v.node[t], LinkedTo(r, w, p, t)
    PROVE  Merged(w, v)
<1> SUFFICES ASSUME NEW f \in File, NEW g \in File, Exists(w, f), Exists(w, g), w.node[f] = w.node[g]
             PROVE  Exists(v, f) /\ Exists(v, g) /\ v.node[f] = v.node[g]
  BY DEF Merged
<1> DEFINE of(h) == IF h = p THEN t ELSE h
<1>1. \A h \in File : of(h) \in File /\ w.node[h] = r.node[of(h)] /\ v.node[h] = v.node[of(h)]
  BY DEF LinkedTo
<1>2. \A h \in File : (Exists(w, h) => Exists(r, of(h))) /\ (Exists(v, of(h)) => Exists(v, h))
  BY <1>1 DEF Exists
<1> HIDE DEF of
<1> QED
  BY <1>1, <1>2 DEF Merged

(* An entry for p leaves other files as they were. *)
LEMMA OthersWritten ==
    ASSUME NEW r, r \in Volumes, NEW w, NEW v, NEW p \in File, WrittenTo(r, w, p), Exists(v, p), Merged(r, v),
           NEW n \in Node, v.node[p] # n, NEW S \in SUBSET File, \A f \in S : v.node[f] = n, SameIn(r, S)
    PROVE  SameIn(w, S) /\ (RightIn(r, v, S, n) => RightIn(w, v, S, n))
<1>1. ASSUME NEW f \in S PROVE f # p /\ w.node[f] = r.node[f] /\ Exists(r, f) /\ Exists(w, f)
  BY DEF WrittenTo, SameIn, Exists
<1>2. ASSUME NEW f \in S PROVE r.node[f] \in Node /\ r.node[f] # w.node[p]
  <2>1. r.node[f] \in Live(r) /\ r.node[f] \in Node
    BY <1>1, InLive, LiveNode
  <2>2. CASE Exists(r, p)
    BY <1>1, <2>1, <2>2 DEF WrittenTo, Merged
  <2>3. CASE ~ Exists(r, p)
    BY <2>1, <2>3 DEF WrittenTo
  <2> QED
    BY <2>1, <2>2, <2>3
<1>3. SameIn(w, S)
  BY <1>1 DEF SameIn
<1>4. \A f \in S : w.data[w.node[f]] = r.data[r.node[f]]
  BY <1>1, <1>2 DEF WrittenTo
<1> QED
  BY <1>3, <1>4 DEF RightIn

LEMMA OthersLinked ==
    ASSUME NEW r, NEW w, NEW v, NEW p \in File, NEW t, LinkedTo(r, w, p, t),
           NEW n, NEW S \in SUBSET File, p \notin S, SameIn(r, S)
    PROVE  SameIn(w, S) /\ (RightIn(r, v, S, n) => RightIn(w, v, S, n))
<1>1. ASSUME NEW f \in S PROVE w.node[f] = r.node[f] /\ Exists(r, f) /\ Exists(w, f)
  BY DEF LinkedTo, SameIn, Exists
<1>2. \A f \in S : w.data[w.node[f]] = r.data[r.node[f]]
  BY <1>1, InLive DEF LinkedTo
<1> QED
  BY <1>1, <1>2 DEF RightIn, SameIn

(* One name more of a file that is there. *)
LEMMA LinkAdds ==
    ASSUME NEW r, NEW w, NEW v, NEW p \in File, NEW n, NEW S \in SUBSET File, NEW t \in S, p # t,
           LinkedTo(r, w, p, t), SameIn(r, S)
    PROVE  SameIn(w, S \cup {p}) /\ (RightIn(r, v, S, n) => RightIn(w, v, S \cup {p}, n))
<1>1. Exists(r, t)
  BY DEF SameIn
<1>2. ASSUME NEW f \in S \cup {p} PROVE w.node[f] = r.node[t] /\ Exists(w, f)
  BY <1>1 DEF LinkedTo, SameIn, Exists
<1>3. \A f \in S \cup {p} : w.data[w.node[f]] = r.data[r.node[t]]
  BY <1>1, <1>2, InLive DEF LinkedTo
<1> QED
  BY <1>2, <1>3 DEF RightIn, SameIn

LEMMA SessionVolume ==
    ASSUME Typed, Session
    PROVE  /\ vol'.node = vol.node /\ vol'.data = vol.data
           /\ ~ ResetArchive => vol' = vol
           /\ UNCHANGED method
<1>1. CASE ResetArchive
  BY <1>1 DEF ResetArchive, Typed, TypeOK, Volumes
<1>2. CASE ~ ResetArchive
  BY <1>2 DEF Session, NextArgument, FindNext, EndOfDirectory, Finish, Skip, WriteLink, WriteHeader,
      ReadStreams, StopReading
<1> QED
  BY <1>1, <1>2

LEMMA StepLinkHand ==
    ASSUME UserBusy = FALSE, Typed, LinkHand, [Next]_vars
    PROVE  LinkHand'
<1>1. CASE UNCHANGED vars \/ Cancel
  <2>1. UNCHANGED <<vol, cur, pc>>
    BY <1>1 DEF vars, session, Cancel
  <2> QED
    BY <2>1 DEF LinkHand
<1>2. CASE NextArgument \/ FindNext
  <2>1. PICK p, fs : OpenFile(p, fs)
    BY <1>2 DEF NextArgument, FindNext
  <2>2. UNCHANGED vol
    BY <1>2 DEF NextArgument, FindNext
  <2>3. p \in File => p \notin Dir
    BY TreeAssumption
  <2>4. pc' = "opened" => /\ p \in File \ Excluded /\ Exists(vol, p) /\ cur'.path = p
                          /\ cur'.node = vol.node[p] /\ cur'.archive = vol.archive[vol.node[p]]
                          /\ cur'.linked = HardLinked(vol, vol.node[p])
    BY <2>1, <2>3 DEF OpenFile, Return, FileInfo
  <2>5. pc' \in {"next", "scan", "opened"}
    BY <2>1 DEF OpenFile, Return
  <2> QED
    BY <2>2, <2>4, <2>5 DEF LinkHand
<1>3. CASE EndOfDirectory
  <2>1. frames \in Seq(Frame) /\ frames # <<>> /\ cur' = Last(frames).info
    BY <1>3 DEF Typed, InHand, EndOfDirectory
  <2>2. cur'.path \in Dir
    BY <2>1, LastFrame
  <2> QED
    BY <2>2, TreeAssumption DEF LinkHand
<1>4. CASE WriteHeader \/ ReadStreams
  <2>1. UNCHANGED <<vol, cur>> /\ pc \in {"opened", "stream"} /\ pc' \in {"stream", "reset"}
        /\ (pc = "opened" => cur.path \in Included)
    BY <1>4 DEF WriteHeader, ReadStreams, Wanted
  <2> QED
    BY <2>1 DEF LinkHand
<1>5. CASE User \/ Finish \/ Skip \/ WriteLink \/ StopReading \/ ResetArchive \/ \E m \in Methods : Start(m)
  <2>1. pc' \notin {"opened", "stream", "reset"}
    BY <1>5 DEF User, Create, Write, Delete, Link, Replace, UserChange, session, Finish, Skip, WriteLink,
        StopReading, ResetArchive, Return, Start
  <2> QED
    BY <2>1 DEF LinkHand
<1> QED
  BY <1>1, <1>2, <1>3, <1>4, <1>5 DEF Next, Session

(* What a step of a session is through with under each name. *)
LEMMA SessionThrough ==
    ASSUME Typed, Session, NEW V, NEW W, Forward(V, W), NEW n \in Node
    PROVE  /\ Names(n)' = Names(n)
           /\ Through(V, n) \subseteq Through(W, n)'
           /\ \A q \in Through(W, n)' :
                \/ q \in Through(V, n)
                \/ q = cur.path /\ (Skip \/ WriteLink \/ ReadStreams \/ StopReading)
           /\ n = vol.node[cur.path] /\ cur.path \in File /\ Wants(cur.path) /\
                (WriteLink \/ ReadStreams \/ StopReading) => cur.path \in Through(W, n)'
<1>1. vol'.node = vol.node
  BY SessionVolume
<1>2. Names(n)' = Names(n)
  BY <1>1 DEF Names, NamesIn
<1>3. Through(V, n) = Names(n) \cap Done(V) /\ Through(W, n)' = Names(n) \cap Done(W)'
  BY <1>2 DEF Through
<1>4. Done(V) \subseteq Done(W)'
  BY DEF Forward
<1>5. \A q \in Done(W)' \cap Names(n) :
         \/ q \in Done(V)
         \/ q = cur.path /\ (Skip \/ WriteLink \/ ReadStreams \/ StopReading)
  BY TreeAssumption DEF Forward, Names, NamesIn, Wants, Exists
<1>6. WriteLink \/ ReadStreams \/ StopReading => cur.path \in Done(W)'
  BY DEF Forward
<1>7. n = vol.node[cur.path] /\ cur.path \in File /\ Wants(cur.path) => cur.path \in Names(n)
  BY DEF Names, NamesIn
<1> QED
  BY <1>2, <1>3, <1>4, <1>5, <1>6, <1>7

LEMMA SameThrough ==
    ASSUME Typed, Session, NEW V, NEW W, Forward(V, W), NEW n \in Node,
           \/ ~ Skip /\ ~ WriteLink /\ ~ ReadStreams /\ ~ StopReading
           \/ cur.path \notin Names(n)
    PROVE  Names(n)' = Names(n) /\ Through(W, n)' = Through(V, n)
<1>1. /\ Names(n)' = Names(n) /\ Through(V, n) \subseteq Through(W, n)'
      /\ \A q \in Through(W, n)' :
                \/ q \in Through(V, n)
                \/ q = cur.path /\ (Skip \/ WriteLink \/ ReadStreams \/ StopReading)
  BY SessionThrough
<1>2. Through(W, n)' \subseteq Names(n)
  BY <1>1 DEF Through
<1> QED
  BY <1>1, <1>2

(* The steps that go on with the walk. *)
LEMMA WalkLinked ==
    ASSUME Typed, NEW V, NEW W, Linked(V), Forward(V, W), Back' = Back,
           NextArgument \/ FindNext \/ EndOfDirectory, "unreadable" \notin UserOps
    PROVE  Linked(W)'
<1>1. /\ UNCHANGED <<vol, method, links, complete>> /\ Session
      /\ pc \notin {"stream", "reset"} /\ pc' \notin {"stream", "reset"}
      /\ ~ Skip /\ ~ WriteLink /\ ~ ReadStreams /\ ~ StopReading
  BY DEF NextArgument, FindNext, EndOfDirectory, OpenFile, Return, Session, Skip, WriteLink, ReadStreams,
      StopReading
<1>2. \A n \in Node : Names(n)' = Names(n) /\ Through(W, n)' = Through(V, n)
  BY <1>1, SameThrough
<1>3. ClearIsRight(Back.vol, W)' /\ ThroughIsRight(Back.vol, W)'
  BY <1>1, <1>2 DEF Linked, ClearIsRight, ThroughIsRight
<1>4. Tracking(W)'
  BY <1>1, <1>2 DEF Linked, Tracking, PassedOver, Forward
<1>5. FirstName(Back.vol, W)'
  BY <1>1 DEF FirstName
<1> QED
  BY <1>3, <1>4, <1>5 DEF Linked

LEMMA SkipLinked ==
    ASSUME Typed, LinkHand, ~ bCancel, method # "INC", NEW V, NEW W, Linked(V), Forward(V, W),
           Back' = Back, Skip
    PROVE  Linked(W)'
<1>1. /\ UNCHANGED <<vol, method, links, complete>> /\ Session
      /\ pc = "opened" /\ pc' \notin {"stream", "reset"} /\ ~ Wanted
  BY DEF Skip, Return, Session
<1>2. \A n \in Node : /\ Names(n)' = Names(n) /\ Through(V, n) \subseteq Through(W, n)'
                      /\ Through(W, n)' \subseteq Through(V, n) \cup {cur.path}
                      /\ Through(W, n)' \subseteq Names(n)
  BY <1>1, SessionThrough DEF Through
<1>3. ASSUME NEW n \in Node, Through(W, n)' # Through(V, n)
      PROVE  PassedOver(n) /\ SameIn(Back.vol, Names(n)) /\ RightIn(Back.vol, vol, Names(n), n)
  <2>1. cur.path \in Names(n)
    BY <1>2, <1>3
  <2>2. cur.path \in File /\ cur.path \in Included /\ vol.node[cur.path] = n
    BY <2>1 DEF Names, NamesIn, Wants
  <2>3. cur.node = n /\ cur.archive = vol.archive[n] /\ vol.archive[n] \in BOOLEAN
    BY <1>1, <2>2 DEF LinkHand, Typed, TypeOK, Volumes
  <2>4. method \in {"DIFF", "INC"} /\ vol.archive[n] = FALSE
    BY <1>1, <2>2, <2>3 DEF Wanted
  <2> QED
    BY <1>1, <2>4 DEF PassedOver, Linked, ClearIsRight
<1>4. ClearIsRight(Back.vol, W)'
  BY <1>1, <1>2 DEF Linked, ClearIsRight
<1>5. ThroughIsRight(Back.vol, W)'
  <2>1. \A n \in Node : Through(W, n)' # Through(V, n) =>
            SameIn(Back.vol, Through(W, n)') /\ RightIn(Back.vol, vol, Through(W, n)', n)
    BY <1>2, <1>3 DEF SameIn, RightIn
  <2> QED
    BY <1>1, <2>1 DEF Linked, ThroughIsRight
<1>6. Tracking(W)'
  <2>1. \A l \in links : l.name \in Done(W)'
    BY <1>1 DEF Linked, Tracking, Forward
  <2> QED
    BY <1>1, <1>3, <2>1 DEF Linked, Tracking, PassedOver
<1>7. FirstName(Back.vol, W)'
  BY <1>1 DEF FirstName
<1> QED
  BY <1>4, <1>5, <1>6, <1>7 DEF Linked

(* Nothing of the file has been archived when its header is written. *)
LEMMA HeaderLinked ==
    ASSUME Growing, Typed, LinkHand, NEW V, NEW W, Linked(V), Forward(V, W), Back' = Back, WriteHeader
    PROVE  Linked(W)'
<1>1. /\ UNCHANGED <<vol, cur, method, complete>> /\ Session
      /\ pc = "opened" /\ pc' = "stream" /\ Wanted
      /\ ~ Skip /\ ~ WriteLink /\ ~ ReadStreams /\ ~ StopReading
      /\ Tracked <=> cur.linked
  BY DEF WriteHeader, Session, Skip, WriteLink, ReadStreams, StopReading, Return, Tracked, Growing
<1>2. \A n \in Node : Names(n)' = Names(n) /\ Through(W, n)' = Through(V, n)
  BY <1>1, SameThrough
<1>3. ClearIsRight(Back.vol, W)' /\ ThroughIsRight(Back.vol, W)'
  BY <1>1, <1>2 DEF Linked, ClearIsRight, ThroughIsRight
<1> DEFINE item == [node |-> cur.node, name |-> cur.path]
<1>4. links \subseteq links' /\ links' \subseteq links \cup {item} /\ (cur.linked => item \in links')
  BY <1>1 DEF WriteHeader
<1>5. item.node = cur.node /\ item.name = cur.path
  OBVIOUS
<1> HIDE DEF item
<1>6. cur.path \in File \/ ~ cur.linked
  BY DEF Typed, InHand, HandInfo, Info, Path
<1>7. Tracking(W)'
  <2>1. \A l \in links : l.name \in Done(W)' /\ vol.node[l.name] = l.node /\ Wants(l.name)
    BY <1>1 DEF Linked, Tracking, Forward
  <2>2. cur.linked => vol.node[item.name] = item.node /\ Wants(item.name)
    BY <1>1, <1>5, <1>6 DEF LinkHand, Wanted, Wants
  <2>3. ~ cur.linked => links' = links
    BY <1>1 DEF WriteHeader
  <2>4. \A l \in links' : /\ vol.node[l.name] = l.node /\ Wants(l.name)
                          /\ l.name \in Done(W)' \/ l.name = cur.path
    BY <1>4, <1>5, <2>1, <2>2, <2>3
  <2>5. \A n \in Node : HardLinked(vol, n) /\ Through(V, n) # {} /\ ~ PassedOver(n)
            => \E l \in links' : l.node = n
    BY <1>4 DEF Linked, Tracking
  <2> QED
    BY <1>1, <1>2, <2>4, <2>5 DEF Tracking, PassedOver
<1>8. ASSUME cur.path \in File
      PROVE  /\ Through(V, cur.node) = {} /\ ~ PassedOver(cur.node)
             /\ cur.linked => \E l \in links' : l.node = cur.node
  <2>1. /\ cur.node = vol.node[cur.path] /\ cur.linked = HardLinked(vol, cur.node)
        /\ cur.archive = vol.archive[cur.node] /\ cur.node \in Node
    BY <1>1, <1>8, LiveNode DEF LinkHand, Typed, TypeOK
  <2>2. ~ PassedOver(cur.node)
    BY <1>1, <2>1 DEF Wanted, PassedOver
  <2>3. ASSUME NEW q \in Through(V, cur.node) PROVE FALSE
    <3>1. q \in File /\ vol.node[q] = cur.node /\ q # cur.path
      BY <1>1, <2>3 DEF Through, Names, NamesIn, Done
    <3>2. HardLinked(vol, cur.node)
      BY <1>8, <2>1, <3>1 DEF HardLinked, NamesOf
    <3>3. PICK l \in links : l.node = cur.node
      BY <2>1, <2>2, <2>3, <3>2 DEF Linked, Tracking
    <3> QED
      BY <1>1, <2>1, <3>2, <3>3 DEF WriteHeader
  <2> QED
    BY <1>4, <1>5, <2>2, <2>3
<1>9. FirstName(Back.vol, W)'
  <2>1. cur.path \in File => cur.node \in Node
    BY <1>1, LiveNode DEF LinkHand, Typed, TypeOK
  <2> QED
    BY <1>1, <1>2, <1>8, <2>1 DEF FirstName, PassedOver
<1> QED
  BY <1>3, <1>7, <1>9 DEF Linked

(* The entry that a step completes, and the names and contents restored. *)
LEMMA EntryEffect ==
    ASSUME Growing, Typed, Plain(Back), ~ bCancel, NEW e \in Entries, Adds(e),
           NEW r, r = Back.vol, NEW w, w = Back'.vol
    PROVE  /\ r \in Volumes
           /\ cur.path \in Dir => w.node = r.node /\ w.data = r.data
           /\ cur.path \in File /\ ~ WriteLink =>
                /\ WrittenTo(r, w, cur.path)
                /\ ReadStreams => w.data[w.node[cur.path]] = vol.data[cur.node]
                /\ StopReading /\ Exists(r, cur.path) =>
                      w.data[w.node[cur.path]] = r.data[r.node[cur.path]]
           /\ cur.path \in File /\ WriteLink => \E l \in links :
                /\ l.node = cur.node /\ l.name \in File
                /\ l.name # cur.path /\ Exists(r, l.name) => LinkedTo(r, w, cur.path, l.name)
<1>1. /\ r \in Volumes /\ Relinks /\ Back' = RestoreNext(Back, e, Opt) /\ Back.inside = FALSE
      /\ e.path = cur.path
  BY DEF Growing, Plain, Adds
<1>2. w = RestoreEntry(r, e, Opt)
  BY <1>1 DEF RestoreNext
<1>3. /\ e.path \in Dir => w.node = r.node /\ w.data = r.data
      /\ e.path \in File /\ e.kind # "link" =>
                /\ WrittenTo(r, w, e.path)
                /\ e.kind # "none" => w.data[w.node[e.path]] = e.data
                /\ e.kind = "none" /\ Exists(r, e.path) =>
                      w.data[w.node[e.path]] = r.data[r.node[e.path]]
      /\ e.path \in File /\ e.kind = "link" /\ e.to \in File \ {e.path} /\ Exists(r, e.to) =>
                LinkedTo(r, w, e.path, e.to)
  BY <1>1, <1>2, EntryNames
<1>4. cur.path \in File => cur.path \notin Dir
  BY TreeAssumption
<1>5. ASSUME cur.path \in File, ~ WriteLink
      PROVE  /\ WrittenTo(r, w, cur.path)
             /\ ReadStreams => w.data[w.node[cur.path]] = vol.data[cur.node]
             /\ StopReading /\ Exists(r, cur.path) =>
                    w.data[w.node[cur.path]] = r.data[r.node[cur.path]]
  <2>1. \/ ReadStreams /\ ~ StopReading /\ e.kind = "data" /\ e.data = vol.data[cur.node]
        \/ StopReading /\ ~ ReadStreams /\ e.kind = "none"
    BY <1>4, <1>5 DEF Adds, ReadStreams, StopReading, Return
  <2> QED
    BY <1>1, <1>3, <1>5, <2>1
<1>6. ASSUME cur.path \in File, WriteLink
      PROVE  \E l \in links :
                /\ l.node = cur.node /\ l.name \in File
                /\ l.name # cur.path /\ Exists(r, l.name) => LinkedTo(r, w, cur.path, l.name)
  <2>1. e.kind = "link" /\ \E l \in links : l.node = cur.node /\ e.to = l.name
    BY <1>6 DEF Adds, WriteLink, ReadStreams, StopReading
  <2>2. PICK l \in links : l.node = cur.node /\ e.to = l.name
    BY <2>1
  <2>3. l.name \in File
    BY DEF Typed, TypeOK
  <2> QED
    BY <1>1, <1>3, <1>6, <2>1, <2>2, <2>3
<1> QED
  BY <1>1, <1>3, <1>5, <1>6

(* The streams of a file under its first name. *)
LEMMA StreamsLinked ==
    ASSUME Growing, Typed, Plain(Back), Merged(Back.vol, vol), LinkHand, ~ bCancel,
           NEW V, NEW W, Linked(V), Forward(V, W), NEW e \in Entries, Adds(e),
           ReadStreams \/ StopReading, cur.path \in File
    PROVE  Linked(W)' /\ Merged(Back.vol, vol)'
<1>1. PICK r, w, p, m : r = Back.vol /\ w = Back'.vol /\ p = cur.path /\ m = cur.node
  OBVIOUS
<1>2. /\ UNCHANGED <<vol, method, links>> /\ Session /\ pc = "stream"
      /\ ReadStreams => pc' = "reset" /\ UNCHANGED <<cur, complete>>
      /\ ~ ReadStreams => StopReading /\ pc' \in {"next", "scan"} /\ complete' = FALSE
      /\ ~ WriteLink
  BY DEF ReadStreams, StopReading, Session, Return, WriteLink
<1>3. /\ m = vol.node[p] /\ m \in Node /\ Exists(vol, p) /\ Wants(p) /\ p \in Names(m)
      /\ cur.linked = HardLinked(vol, m)
  BY <1>1, <1>2, LiveNode DEF LinkHand, Typed, TypeOK, Wants, Names, NamesIn
<1>4. /\ r \in Volumes /\ WrittenTo(r, w, p)
      /\ ReadStreams => w.data[w.node[p]] = vol.data[m]
      /\ StopReading /\ Exists(r, p) => w.data[w.node[p]] = r.data[r.node[p]]
  BY <1>1, <1>2, EntryEffect
<1>5. Merged(r, vol) /\ Merged(w, vol)
  BY <1>1, <1>3, <1>4, MergedWritten
<1>6. \A n \in Node \ {m} : Names(n)' = Names(n) /\ Through(W, n)' = Through(V, n)
  BY <1>1, <1>2, <1>3, SameThrough DEF Names, NamesIn
<1>7. /\ Through(V, m) = {} /\ ~ PassedOver(m) /\ Names(m)' = Names(m) /\ Through(W, m)' = {p}
      /\ cur.linked => \E l \in links : l.node = m
  <2>1. Through(V, m) = {} /\ ~ PassedOver(m) /\ (cur.linked => \E l \in links : l.node = m)
    BY <1>1, <1>2 DEF Linked, FirstName
  <2>2. /\ Names(m)' = Names(m) /\ p \in Through(W, m)'
        /\ \A q \in Through(W, m)' : q \in Through(V, m) \/ q = p
    BY <1>1, <1>2, <1>3, SessionThrough
  <2> QED
    BY <1>1, <2>1, <2>2
<1>8. ASSUME NEW n \in Node \ {m}, NEW S \in SUBSET Names(n), SameIn(r, S)
      PROVE  SameIn(w, S) /\ (RightIn(r, vol, S, n) => RightIn(w, vol, S, n))
  <2>1. S \subseteq File /\ \A f \in S : vol.node[f] = n
    BY DEF Names, NamesIn
  <2> QED
    BY <1>1, <1>3, <1>4, <1>5, <1>8, <2>1, OthersWritten
<1>9. ClearIsRight(Back.vol, W)'
  <2>1. SUFFICES ASSUME NEW n \in Node, vol.archive[n] = FALSE, Through(W, n)' = {} \/ method = "DIFF"
                 PROVE  SameIn(w, Names(n)') /\ RightIn(w, vol, Names(n)', n)
    BY <1>1, <1>2 DEF ClearIsRight
  <2>2. n # m
    BY <1>7, <2>1 DEF PassedOver
  <2>3. SameIn(r, Names(n)) /\ RightIn(r, vol, Names(n), n)
    BY <1>1, <1>6, <2>1, <2>2 DEF Linked, ClearIsRight
  <2> QED
    BY <1>6, <1>8, <2>2, <2>3
<1>10. ThroughIsRight(Back.vol, W)'
  <2>1. ASSUME NEW n \in Node
        PROVE  /\ SameIn(w, Through(W, n)')
               /\ complete' \/ vol.archive[n] = FALSE => RightIn(w, vol, Through(W, n)', n)
    <3>1. CASE n # m
      <4>1. /\ SameIn(r, Through(V, n))
            /\ complete \/ vol.archive[n] = FALSE => RightIn(r, vol, Through(V, n), n)
        BY <1>1 DEF Linked, ThroughIsRight
      <4>2. Through(V, n) \in SUBSET Names(n) /\ (complete' => complete)
        BY <1>2 DEF Through
      <4> QED
        BY <1>6, <1>8, <3>1, <4>1, <4>2
    <3>2. CASE n = m
      <4>1. SameIn(w, {p})
        BY <1>1, <1>4 DEF WrittenTo, SameIn
      <4>2. ASSUME complete' \/ vol.archive[m] = FALSE PROVE w.data[w.node[p]] = vol.data[m]
        <5>1. CASE ReadStreams
          BY <1>4, <5>1
        <5>2. CASE ~ ReadStreams
          <6>1. vol.archive[m] = FALSE
            BY <1>2, <4>2, <5>2
          <6>2. SameIn(r, Names(m)) /\ RightIn(r, vol, Names(m), m)
            BY <1>1, <1>3, <1>7, <6>1 DEF Linked, ClearIsRight
          <6>3. Exists(r, p) /\ r.data[r.node[p]] = vol.data[m]
            BY <1>1, <1>3, <6>2 DEF SameIn, RightIn
          <6> QED
            BY <1>1, <1>2, <1>4, <5>2, <6>3
        <5> QED
          BY <5>1, <5>2
      <4> QED
        BY <1>1, <1>7, <3>2, <4>1, <4>2 DEF RightIn
    <3> QED
      BY <3>1, <3>2
  <2> QED
    BY <1>1, <1>2, <2>1 DEF ThroughIsRight
<1>11. Tracking(W)'
  <2>1. p \in Done(W)'
    BY <1>1, <1>7 DEF Through
  <2>2. \A l \in links : l.name \in Done(W)' /\ vol.node[l.name] = l.node /\ Wants(l.name)
    BY <1>1, <2>1 DEF Linked, Tracking, Forward
  <2>3. \A n \in Node : HardLinked(vol, n) /\ Through(W, n)' # {} /\ ~ PassedOver(n)
            => \E l \in links : l.node = n
    <3>1. \A n \in Node \ {m} :
             HardLinked(vol, n) /\ Through(V, n) # {} /\ ~ PassedOver(n) => \E l \in links : l.node = n
      BY <1>1 DEF Linked, Tracking
    <3> QED
      BY <1>1, <1>3, <1>6, <1>7, <3>1
  <2> QED
    BY <1>1, <1>2, <2>2, <2>3 DEF Tracking, PassedOver
<1>12. FirstName(Back.vol, W)'
  BY <1>1, <1>2, <1>4, <1>7 DEF FirstName, RightIn
<1> QED
  BY <1>1, <1>2, <1>5, <1>9, <1>10, <1>11, <1>12 DEF Linked

(* The entry of a directory. *)
LEMMA DirectoryLinked ==
    ASSUME Growing, Typed, Plain(Back), Merged(Back.vol, vol), ~ bCancel,
           NEW V, NEW W, Linked(V), Forward(V, W), NEW e \in Entries, Adds(e),
           ReadStreams \/ StopReading, cur.path \in Dir
    PROVE  Linked(W)' /\ Merged(Back.vol, vol)'
<1>1. PICK r, w : r = Back.vol /\ w = Back'.vol
  OBVIOUS
<1>2. /\ UNCHANGED <<vol, method, links>> /\ Session /\ pc = "stream"
      /\ pc' = "reset" => UNCHANGED cur
      /\ pc' # "stream" /\ (complete' => complete)
  BY DEF ReadStreams, StopReading, Session, Return
<1>3. w.node = r.node /\ w.data = r.data
  BY <1>1, EntryEffect
<1>4. cur.path \notin File
  BY TreeAssumption
<1>5. \A n \in Node : Names(n)' = Names(n) /\ Through(W, n)' = Through(V, n)
  BY <1>2, <1>4, SameThrough DEF Names, NamesIn
<1>6. \A S, n : (SameIn(r, S) => SameIn(w, S)) /\ (RightIn(r, vol, S, n) => RightIn(w, vol, S, n))
  BY <1>3 DEF SameIn, RightIn, Exists
<1>7. ClearIsRight(Back.vol, W)'
  BY <1>1, <1>2, <1>5, <1>6 DEF Linked, ClearIsRight
<1>8. ThroughIsRight(Back.vol, W)'
  BY <1>1, <1>2, <1>5, <1>6 DEF Linked, ThroughIsRight
<1>9. Tracking(W)'
  <2>1. \A l \in links : l.name \in File
    BY DEF Typed, TypeOK
  <2>2. \A l \in links : l.name \in Done(W)'
    BY <1>4, <2>1 DEF Linked, Tracking, Forward
  <2> QED
    BY <1>2, <1>5, <2>2 DEF Linked, Tracking, PassedOver
<1>10. FirstName(Back.vol, W)'
  BY <1>2, <1>4 DEF FirstName
<1>11. Merged(w, vol)
  BY <1>1, <1>3 DEF Merged, Exists
<1> QED
  BY <1>1, <1>2, <1>7, <1>8, <1>9, <1>10, <1>11 DEF Linked

(* Another name of a file that has been archived. *)
LEMMA LinkLinked ==
    ASSUME Growing, Typed, Plain(Back), Merged(Back.vol, vol), LinkHand, ~ bCancel,
           NEW V, NEW W, Linked(V), Forward(V, W), NEW e \in Entries, Adds(e), WriteLink
    PROVE  Linked(W)' /\ Merged(Back.vol, vol)'
<1>1. PICK r, w, p, m : r = Back.vol /\ w = Back'.vol /\ p = cur.path /\ m = cur.node
  OBVIOUS
<1>2. /\ UNCHANGED <<vol, method, links, complete>> /\ Session /\ pc = "opened" /\ Wanted
      /\ cur.linked /\ pc' \notin {"stream", "reset"}
  BY DEF WriteLink, Session, Return, Tracked
<1>3. p \in File
  BY <1>1, <1>2 DEF Typed, InHand, HandInfo, Info, Path
<1>4. /\ m = vol.node[p] /\ m \in Node /\ Exists(vol, p) /\ Wants(p) /\ p \in Names(m)
      /\ ~ PassedOver(m)
  BY <1>1, <1>2, <1>3, LiveNode DEF LinkHand, Typed, TypeOK, Wants, Names, NamesIn, Wanted, PassedOver
<1>5. PICK l \in links : /\ l.node = m /\ l.name \in File
                         /\ l.name # p /\ Exists(r, l.name) => LinkedTo(r, w, p, l.name)
  BY <1>1, <1>2, <1>3, EntryEffect
<1>6. l.name \in Through(V, m) /\ l.name # p /\ vol.node[l.name] = m
  BY <1>1, <1>2, <1>5 DEF Linked, Tracking, Through, Names, NamesIn, Done
<1>7. SameIn(r, Through(V, m)) /\ Exists(r, l.name)
  BY <1>1, <1>4, <1>6 DEF Linked, ThroughIsRight, SameIn
<1>8. LinkedTo(r, w, p, l.name)
  BY <1>5, <1>6, <1>7
<1>9. Merged(w, vol)
  BY <1>1, <1>3, <1>4, <1>5, <1>6, <1>7, <1>8, MergedLinked
<1>10. \A n \in Node \ {m} : Names(n)' = Names(n) /\ Through(W, n)' = Through(V, n) /\ p \notin Names(n)
  BY <1>1, <1>2, <1>4, SameThrough DEF Names, NamesIn
<1>11. Names(m)' = Names(m) /\ Through(W, m)' = Through(V, m) \cup {p}
  <2>1. /\ Names(m)' = Names(m) /\ Through(V, m) \subseteq Through(W, m)'
        /\ \A q \in Through(W, m)' : q \in Through(V, m) \/ q = p
        /\ p \in Through(W, m)'
    BY <1>1, <1>2, <1>3, <1>4, SessionThrough
  <2> QED
    BY <2>1
<1>12. ASSUME NEW n \in Node \ {m}, NEW S \in SUBSET Names(n), SameIn(r, S)
       PROVE  SameIn(w, S) /\ (RightIn(r, vol, S, n) => RightIn(w, vol, S, n))
  <2>1. S \subseteq File /\ p \notin S
    BY <1>10 DEF Names, NamesIn
  <2> QED
    BY <1>3, <1>8, <1>12, <2>1, OthersLinked
<1>13. ClearIsRight(Back.vol, W)'
  <2>1. SUFFICES ASSUME NEW n \in Node, vol.archive[n] = FALSE, Through(W, n)' = {} \/ method = "DIFF"
                 PROVE  SameIn(w, Names(n)') /\ RightIn(w, vol, Names(n)', n)
    BY <1>1, <1>2 DEF ClearIsRight
  <2>2. n # m
    BY <1>4, <1>11, <2>1 DEF PassedOver
  <2>3. SameIn(r, Names(n)) /\ RightIn(r, vol, Names(n), n)
    BY <1>1, <1>10, <2>1, <2>2 DEF Linked, ClearIsRight
  <2> QED
    BY <1>10, <1>12, <2>2, <2>3
<1>14. ThroughIsRight(Back.vol, W)'
  <2>1. ASSUME NEW n \in Node
        PROVE  /\ SameIn(w, Through(W, n)')
               /\ complete \/ vol.archive[n] = FALSE => RightIn(w, vol, Through(W, n)', n)
    <3>1. /\ SameIn(r, Through(V, n))
          /\ complete \/ vol.archive[n] = FALSE => RightIn(r, vol, Through(V, n), n)
      BY <1>1 DEF Linked, ThroughIsRight
    <3>2. Through(V, n) \in SUBSET Names(n) /\ Names(n) \subseteq File
      BY DEF Through, Names, NamesIn
    <3>3. CASE n # m
      BY <1>10, <1>12, <3>1, <3>2, <3>3
    <3>4. CASE n = m
      <4>1. /\ SameIn(w, Through(V, m) \cup {p})
            /\ RightIn(r, vol, Through(V, m), m) => RightIn(w, vol, Through(V, m) \cup {p}, m)
        BY <1>3, <1>6, <1>7, <1>8, <3>2, <3>4, LinkAdds
      <4> QED
        BY <1>11, <3>1, <3>4, <4>1
    <3> QED
      BY <3>3, <3>4
  <2> QED
    BY <1>1, <1>2, <2>1 DEF ThroughIsRight
<1>15. Tracking(W)'
  <2>1. \A k \in links : k.name \in Done(W)' /\ vol.node[k.name] = k.node /\ Wants(k.name)
    BY <1>2 DEF Linked, Tracking, Forward
  <2>2. \A n \in Node : HardLinked(vol, n) /\ Through(W, n)' # {} /\ ~ PassedOver(n)
            => \E k \in links : k.node = n
    <3>1. \A n \in Node \ {m} :
             HardLinked(vol, n) /\ Through(V, n) # {} /\ ~ PassedOver(n) => \E k \in links : k.node = n
      BY DEF Linked, Tracking
    <3> QED
      BY <1>5, <1>10, <3>1
  <2> QED
    BY <1>2, <2>1, <2>2 DEF Tracking, PassedOver
<1>16. FirstName(Back.vol, W)'
  BY <1>2 DEF FirstName
<1> QED
  BY <1>1, <1>2, <1>9, <1>13, <1>14, <1>15, <1>16 DEF Linked

(* The attribute is cleared when the first name comes back as it is. *)
LEMMA ResetLinked ==
    ASSUME Growing, Typed, LinkHand, method \in Methods,
           NEW V, NEW W, Walked(V), Linked(V), Forward(V, W), Back' = Back, ResetArchive
    PROVE  Linked(W)'
<1>1. PICK r, p, m : r = Back.vol /\ p = cur.path /\ m = cur.node
  OBVIOUS
<1>2. /\ UNCHANGED <<method, links, complete>> /\ Session /\ pc = "reset"
      /\ pc' \notin {"stream", "reset"}
      /\ ~ Skip /\ ~ WriteLink /\ ~ ReadStreams /\ ~ StopReading
  BY DEF ResetArchive, Session, Return, Skip, WriteLink, ReadStreams, StopReading
<1>3. vol'.node = vol.node /\ vol'.data = vol.data
  BY <1>2, SessionVolume
<1>4. \A n \in Node : Names(n)' = Names(n) /\ Through(W, n)' = Through(V, n)
  BY <1>2, SameThrough
<1>5. vol' = vol \/ (/\ method = "FULL" /\ p \in File
                     /\ \A n \in Node : vol'.archive[n] = IF n = m THEN FALSE ELSE vol.archive[n])
  <2>1. CASE method \in {"FULL", "INC"} /\ cur.archive
    <3>1. method = "FULL" /\ p \in File
      BY <1>1, <2>1 DEF Growing, Typed, InHand, HandInfo, Info, Path
    <3>2. vol' = [vol EXCEPT !.archive[m] = FALSE]
      BY <1>1, <2>1 DEF ResetArchive
    <3>3. \A n \in Node : vol'.archive[n] = IF n = m THEN FALSE ELSE vol.archive[n]
      BY <3>2 DEF Typed, TypeOK, Volumes
    <3> QED
      BY <3>1, <3>3
  <2>2. CASE ~ (method \in {"FULL", "INC"} /\ cur.archive)
    BY <2>2 DEF ResetArchive
  <2> QED
    BY <2>1, <2>2
<1>6. p \in File => /\ p \in Through(V, m) /\ RightIn(r, vol, Through(V, m), m)
  <2>1. p \in V /\ p \notin OnPath(frames)
    BY <1>1, <1>2 DEF Walked, InTree, HandLower, Hand
  <2>2. p \in File => m = vol.node[p] /\ Wants(p)
    BY <1>1, <1>2 DEF LinkHand, Wants
  <2> QED
    BY <1>1, <1>2, <2>1, <2>2 DEF Linked, FirstName, Through, Names, NamesIn, Done
<1>7. ClearIsRight(Back.vol, W)'
  <2>1. SUFFICES ASSUME NEW n \in Node, vol'.archive[n] = FALSE, Through(V, n) = {} \/ method = "DIFF"
                 PROVE  SameIn(r, Names(n)) /\ RightIn(r, vol, Names(n), n)
    BY <1>1, <1>2, <1>3, <1>4 DEF ClearIsRight, RightIn
  <2>2. vol.archive[n] = FALSE
    BY <1>5, <1>6, <2>1
  <2> QED
    BY <1>1, <2>1, <2>2 DEF Linked, ClearIsRight
<1>8. ThroughIsRight(Back.vol, W)'
  <2>1. ASSUME NEW n \in Node
        PROVE  /\ SameIn(r, Through(V, n))
               /\ complete \/ vol'.archive[n] = FALSE => RightIn(r, vol, Through(V, n), n)
    BY <1>1, <1>5, <1>6 DEF Linked, ThroughIsRight
  <2> QED
    BY <1>1, <1>2, <1>3, <1>4, <2>1 DEF ThroughIsRight, RightIn
<1>9. Tracking(W)'
  <2>1. \A l \in links : l.name \in Done(W)'
    BY <1>2 DEF Linked, Tracking, Forward
  <2>2. \A n \in Node : (HardLinked(vol, n)' <=> HardLinked(vol, n)) /\ (PassedOver(n) <=> PassedOver(n)')
    BY <1>2, <1>3, <1>5 DEF HardLinked, NamesOf, PassedOver
  <2> QED
    BY <1>2, <1>3, <1>4, <2>1, <2>2 DEF Linked, Tracking
<1>10. FirstName(Back.vol, W)'
  BY <1>2 DEF FirstName
<1> QED
  BY <1>7, <1>8, <1>9, <1>10 DEF Linked

LEMMA GrowingIsUnbroken == Growing => Unbroken
  BY OptAssumption DEF Growing, Relinks, Overwrites, Unbroken, Options

LEMMA SessionLinked ==
    ASSUME Growing, IInv, Position, LinkHand, Plain(Back), Merged(Back.vol, vol), ~ bCancel,
           method \in Methods, NEW V \in SUBSET Path, Walked(V), Linked(V), Session, ~ Finish
    PROVE  /\ Merged(Back.vol, vol)'
           /\ \E W \in SUBSET Path : Walked(W)' /\ Linked(W)'
<1>0. "unreadable" \notin UserOps
  BY DEF Growing
<1>1. PICK W \in SUBSET Path : Walked(W)' /\ Forward(V, W)
  BY <1>0, SessionWalks DEF Position
<1>t. Typed /\ HeaderIsLast /\ [Next]_vars
  BY DEF Position, Next
<1>2. \/ Back' = Back /\ ~ ReadStreams /\ ~ StopReading /\ ~ WriteLink
      \/ \E e \in Entries : Adds(e)
  BY <1>t, GrowingIsUnbroken, StepBack
<1>3. CASE ReadStreams \/ StopReading \/ WriteLink
  <2>1. PICK e \in Entries : Adds(e)
    BY <1>2, <1>3
  <2>2. cur.path \in File \cup Dir
    BY <1>t DEF Typed, InHand, HandInfo, Info, Path
  <2> QED
    BY <1>1, <1>t, <1>3, <2>1, <2>2, StreamsLinked, DirectoryLinked, LinkLinked
<1>4. CASE ~ ReadStreams /\ ~ StopReading /\ ~ WriteLink
  <2>1. Back' = Back
    BY <1>2, <1>4 DEF Adds
  <2>2. Merged(Back.vol, vol)'
    <3>1. vol'.node = vol.node
      BY <1>t, SessionVolume
    <3> QED
      BY <2>1, <3>1 DEF Merged, Exists
  <2>3. Linked(W)'
    <3>1. method # "INC"
      BY DEF Growing
    <3> QED
      BY <1>0, <1>1, <1>t, <1>4, <2>1, <3>1, WalkLinked, SkipLinked, HeaderLinked, ResetLinked DEF Session
  <2> QED
    BY <1>1, <2>2, <2>3
<1> QED
  BY <1>3, <1>4

LEMMA FinishAtRest ==
    ASSUME Reached, Position, Plain(Back), ~ bCancel, NEW V \in SUBSET Path, Walked(V), Linked(V), Finish,
           Back' = Back
    PROVE  AtRest'
<1>1. pc = "next" /\ todo = <<>> /\ UNCHANGED <<vol, complete>>
  BY DEF Finish
<1>2. \A n \in Node : Through(V, n) = Names(n)
  <2>1. \A p \in Path : Wants(p) => p \in Done(V)
    BY <1>1, AllDone DEF Position
  <2> QED
    BY <2>1 DEF Through, Names, NamesIn, Path
<1> QED
  BY <1>1, <1>2 DEF Linked, ThroughIsRight, AtRest, Names

(* A session begins with what the last one left. *)
LEMMA StartLinked ==
    ASSUME Reached, NoFrames, AtRest, NEW m, Start(m), Back' = Back
    PROVE  \E W \in SUBSET Path : Walked(W)' /\ Linked(W)'
<1>1. Walked({})' /\ Done({})' = {}
  BY StartWalks
<1>2. vol' = vol /\ links' = {} /\ pc' = "next"
  BY DEF Start
<1>3. \A n \in Node : Through({}, n)' = {} /\ Names(n)' = Names(n)
  BY <1>1, <1>2 DEF Through, Names
<1>4. ClearIsRight(Back.vol, {})'
  BY <1>2, <1>3 DEF AtRest, ClearIsRight
<1>5. ThroughIsRight(Back.vol, {})' /\ Tracking({})' /\ FirstName(Back.vol, {})'
  BY <1>2, <1>3 DEF ThroughIsRight, SameIn, RightIn, Tracking, FirstName
<1> QED
  BY <1>1, <1>4, <1>5 DEF Linked

(* What the user changes has its attribute set. *)
LEMMA UserSets ==
    ASSUME Growing, Typed, User
    PROVE  /\ \A f \in File : Exists(vol, f) => vol'.node[f] = vol.node[f]
           /\ \A n \in Node : vol'.archive[n] = FALSE =>
                /\ vol.archive[n] = FALSE /\ vol'.data[n] = vol.data[n]
                /\ \A f \in File : vol'.node[f] = n => vol.node[f] = n
<1>1. vol \in Volumes /\ clock + 1 \in Data /\ Now \in Time
  BY DEF Typed, TypeOK, Now, Data, Time
<1>2. PICK f \in File : Create(f) \/ Write(f) \/ \E g \in File : Link(f, g)
  BY DEF User, Delete, Replace, UserChange, Growing
<1>3. CASE Create(f)
  <2> DEFINE n == NewNode
  <2>1. n \in FreeNodes /\ n \in Node
    BY <1>3, NewNodeType DEF Create
  <2>2. vol' = CreateFile(vol, f, n, clock + 1, Now) /\ ~ Exists(vol, f)
    BY <1>3 DEF Create, UserChange
  <2> HIDE DEF n
  <2>3. \A g \in File : vol'.node[g] = IF g = f THEN n ELSE vol.node[g]
    BY <1>1, <2>1, <2>2 DEF CreateFile, WriteNode, Volumes
  <2>4. \A k \in Node : /\ vol'.archive[k] = IF k = n THEN TRUE ELSE vol.archive[k]
                        /\ k # n => vol'.data[k] = vol.data[k]
    BY <1>1, <2>1, <2>2 DEF CreateFile, WriteNode, Volumes
  <2> QED
    BY <2>2, <2>3, <2>4
<1>4. CASE Write(f)
  <2>1. vol.node[f] \in Node /\ vol' = WriteNode(vol, vol.node[f], clock + 1, Now)
    BY <1>1, <1>4, LiveNode DEF Write, UserChange
  <2>2. /\ vol'.node = vol.node
        /\ \A k \in Node : /\ vol'.archive[k] = IF k = vol.node[f] THEN TRUE ELSE vol.archive[k]
                           /\ k # vol.node[f] => vol'.data[k] = vol.data[k]
    BY <1>1, <2>1 DEF WriteNode, Volumes
  <2> QED
    BY <2>1, <2>2
<1>5. ASSUME NEW g \in File, Link(f, g)
      PROVE  /\ \A h \in File : Exists(vol, h) => vol'.node[h] = vol.node[h]
             /\ \A n \in Node : vol'.archive[n] = FALSE =>
                  /\ vol.archive[n] = FALSE /\ vol'.data[n] = vol.data[n]
                  /\ \A h \in File : vol'.node[h] = n => vol.node[h] = n
  <2>1. PICK m : m = vol.node[f]
    OBVIOUS
  <2>2. m \in Node /\ vol' = LinkName(vol, g, m, Now) /\ ~ Exists(vol, g)
    BY <1>1, <1>5, <2>1, LiveNode DEF Link, UserChange
  <2>3. /\ \A h \in File : vol'.node[h] = IF h = g THEN m ELSE vol.node[h]
        /\ \A k \in Node : /\ vol'.archive[k] = IF k = m THEN TRUE ELSE vol.archive[k]
                           /\ vol'.data[k] = vol.data[k]
    BY <1>1, <2>2 DEF LinkName, Volumes, Growing
  <2> QED
    BY <2>2, <2>3
<1> QED
  BY <1>2, <1>3, <1>4, <1>5

LEMMA UserLinks ==
    ASSUME Growing, LinksInv, User
    PROVE  AtRest' /\ Merged(Back.vol, vol)' /\ pc = "idle" /\ UNCHANGED pc
<1>1. pc = "idle" /\ UNCHANGED <<pc, archive>> /\ complete' = FALSE
  BY DEF User, Create, Write, Delete, Link, Replace, UserChange, session, Growing
<1>2. Back' = Back
  BY <1>1, BackKept
<1>3. /\ \A f \in File : Exists(vol, f) => vol'.node[f] = vol.node[f]
      /\ \A n \in Node : vol'.archive[n] = FALSE =>
            /\ vol.archive[n] = FALSE /\ vol'.data[n] = vol.data[n]
            /\ \A f \in File : vol'.node[f] = n => vol.node[f] = n
  BY UserSets DEF LinksInv, Position
<1>4. Merged(Back.vol, vol)'
  BY <1>2, <1>3 DEF LinksInv, Merged, Exists
<1>5. AtRest'
  <2>1. SUFFICES ASSUME NEW n \in Node, vol'.archive[n] = FALSE
                 PROVE  SameIn(Back.vol, Names(n)') /\ RightIn(Back.vol, vol', Names(n)', n)
    BY <1>1, <1>2 DEF AtRest
  <2>2. vol.archive[n] = FALSE /\ vol'.data[n] = vol.data[n] /\ n # NoNode
    BY <1>3, <2>1, TreeAssumption
  <2>3. Names(n)' = Names(n)
    BY <1>3, <2>1, <2>2 DEF Names, NamesIn, Exists
  <2>4. SameIn(Back.vol, Names(n)) /\ RightIn(Back.vol, vol, Names(n), n)
    BY <1>1, <2>2 DEF LinksInv, AtRest
  <2> QED
    BY <2>2, <2>3, <2>4 DEF RightIn
<1> QED
  BY <1>1, <1>4, <1>5

LEMMA StepLinks ==
    ASSUME Growing, Reached, IInv, LinksInv, [Next]_vars
    PROVE  LinksInv'
<1>0. Typed /\ HeaderIsLast /\ NoFrames /\ Unbroken /\ UserBusy = FALSE
  BY GrowingIsUnbroken DEF LinksInv, Position, Growing
<1>1. Position' /\ LinkHand' /\ Plain(Back)'
  BY <1>0, StepPosition, StepLinkHand, StepPlain DEF LinksInv
<1>2. ~ bCancel' /\ (pc' # "idle" => method' \in Methods)
  BY DEF LinksInv, Growing, Next, vars, session, User, Create, Write, Delete, Link, Replace, UserChange, Cancel,
      Start,
      Session, NextArgument, FindNext, EndOfDirectory, Finish, Skip, WriteLink, WriteHeader, ReadStreams,
      StopReading,
      ResetArchive
<1>3. CASE UNCHANGED vars
  <2>1. UNCHANGED <<vol, archive, method, todo, frames, links, cur, pc, complete>>
    BY <1>3 DEF vars, session
  <2>2. Back' = Back
    BY <2>1, BackKept
  <2>3. \A V : (Walked(V) <=> Walked(V)') /\ (Linked(V) <=> Linked(V)')
    BY <2>1, <2>2 DEF Walked, Begun, Linked, ClearIsRight, ThroughIsRight, Tracking, FirstName, Through, Names,
        Done, PassedOver
  <2>4. Merged(Back.vol, vol)' /\ (AtRest <=> AtRest')
    BY <2>1, <2>2 DEF LinksInv, AtRest, Names
  <2> QED
    BY <1>1, <1>2, <2>1, <2>3, <2>4 DEF LinksInv
<1>4. CASE User
  BY <1>1, <1>2, <1>4, UserLinks DEF LinksInv
<1>5. CASE Session
  <2>1. pc # "idle"
    BY <1>5 DEF Session, NextArgument, FindNext, EndOfDirectory, Finish, Skip, WriteLink, WriteHeader,
        ReadStreams,
        StopReading, ResetArchive
  <2>2. PICK V \in SUBSET Path : Walked(V) /\ Linked(V)
    BY <2>1 DEF LinksInv
  <2>3. CASE Finish
    <3>1. pc' = "idle" /\ UNCHANGED <<vol, archive>> /\ (pc = "stream" <=> pc' = "stream")
      BY <2>3 DEF Finish
    <3>2. Back' = Back
      BY <3>1, BackKept
    <3>3. AtRest'
      BY <2>2, <2>3, <3>2, FinishAtRest DEF LinksInv
    <3> QED
      BY <1>1, <1>2, <3>1, <3>2, <3>3 DEF LinksInv
  <2>4. CASE ~ Finish
    <3>1. /\ Merged(Back.vol, vol)'
          /\ \E W \in SUBSET Path : Walked(W)' /\ Linked(W)'
      BY <1>5, <2>1, <2>2, <2>4, SessionLinked DEF LinksInv
    <3>2. pc' # "idle"
      BY <1>5, <2>4 DEF Session, NextArgument, FindNext, EndOfDirectory, Skip, WriteLink, WriteHeader,
          ReadStreams,
          StopReading, ResetArchive, OpenFile, Return
    <3> QED
      BY <1>1, <1>2, <3>1, <3>2 DEF LinksInv
  <2> QED
    BY <2>3, <2>4
<1>6. CASE Cancel
  BY <1>6 DEF Cancel, Growing
<1>7. ASSUME NEW m \in Methods, Start(m) PROVE LinksInv'
  <2>1. pc = "idle" /\ pc' = "next" /\ UNCHANGED <<vol, archive>>
    BY <1>7 DEF Start
  <2>2. Back' = Back
    BY <2>1, BackKept
  <2>3. \E W \in SUBSET Path : Walked(W)' /\ Linked(W)'
    BY <1>0, <1>7, <2>1, <2>2, StartLinked DEF LinksInv
  <2> QED
    BY <1>1, <1>2, <2>1, <2>2, <2>3 DEF LinksInv
<1> QED
  BY <1>3, <1>4, <1>5, <1>6, <1>7 DEF Next

LEMMA InitLinks == ASSUME Init PROVE LinksInv
<1>1. pc = "idle" /\ ~ bCancel /\ ~ complete /\ \A n \in Node, f \in File : vol.node[f] # n
  BY TreeAssumption DEF Init
<1>2. Back = Fresh /\ Plain(Back)
  BY FreshPlain
<1>3. \A f \in File : ~ Exists(Back.vol, f)
  BY <1>2 DEF Fresh, Blank, Exists
<1>4. AtRest
  BY <1>1 DEF AtRest, Names, NamesIn, SameIn, RightIn
<1> QED
  BY <1>1, <1>2, <1>3, <1>4, InitPosition DEF LinksInv, LinkHand, Merged

LEMMA LinksAreRestored == ASSUME LinksInv PROVE LinksRestored /\ ContentsRestored
<1> SUFFICES ASSUME pc = "idle", complete PROVE LinksRestored /\ ContentsRestored
  BY DEF LinksRestored, ContentsRestored
<1>1. PICK r : r = Back.vol /\ r = Result
  BY ResultIsBack
<1>2. ASSUME NEW f \in File, Exists(vol, f), Wants(f)
      PROVE  vol.node[f] \in Node /\ f \in Names(vol.node[f])
  BY <1>2, LiveNode DEF LinksInv, Position, Typed, TypeOK, Names, NamesIn
<1>3. \A n \in Node : SameIn(r, Names(n)) /\ RightIn(r, vol, Names(n), n)
  BY <1>1 DEF LinksInv, AtRest
<1>4. Merged(r, vol)
  BY <1>1 DEF LinksInv
<1>5. \A f \in File : Exists(vol, f) /\ Wants(f) =>
         Exists(r, f) /\ r.data[r.node[f]] = vol.data[vol.node[f]]
  BY <1>2, <1>3 DEF SameIn, RightIn
<1>6. \A f, g \in File : Exists(vol, f) /\ Wants(f) /\ Exists(vol, g) /\ Wants(g) =>
         (r.node[f] = r.node[g] <=> vol.node[f] = vol.node[g])
  BY <1>2, <1>3, <1>4, <1>5 DEF SameIn, Merged
<1> QED
  BY <1>1, <1>5, <1>6 DEF LinksRestored, ContentsRestored

(* With hard links and -m full, copy and differential in any order, files that could
   not be read, and a user who creates, writes and links files between sessions:
   after every session of the whole tree in which nothing failed, all the wanted
   files come back with their contents, two names are one file if and only if they
   are one on the volume, although the names were archived in different sessions and
   in any order.  Nothing is deleted: the restore writes through a name that has
   come to belong to another file since. *)
THEOREM LinksComeBack ==
    ASSUME Growing, Reached
    PROVE  Spec => [](LinksRestored /\ ContentsRestored)
<1>1. Init => IInv /\ LinksInv
  BY InitIInv, InitLinks
<1>2. IInv /\ LinksInv /\ [Next]_vars => (IInv /\ LinksInv)'
  BY StepIInv, StepLinks
<1>3. IInv /\ LinksInv => LinksRestored /\ ContentsRestored
  BY LinksAreRestored
<1> QED
  BY <1>1, <1>2, <1>3, PTL DEF Spec

==============================================================================
