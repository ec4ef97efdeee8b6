------------------------------- MODULE RegSnap -------------------------------
(***************************************************************************)
(* strarc -c -r: before a session the hives of the registry that are       *)
(* loaded are saved to snapshot files beside them, which the walk archives *)
(* under the hives' names and then deletes.  Hives are loaded, changed and *)
(* unloaded (users log on and off) before, between and during sessions.    *)
(***************************************************************************)
EXTENDS Naturals

CONSTANTS
    Hive,
    Included,     \* sets of hives whose directories may be backed up
    Methods,      \* values of -m: subset of {"copy", "full", "diff", "inc"}
    MaxVersion,   \* bound: changes of a hive
    MaxSessions   \* bound

BoundsAssumption ==
    MaxVersion \in Nat \ {0} /\ MaxSessions \in Nat /\ Included \subseteq SUBSET Hive

VARIABLES
    hive,     \* for each hive: version, loaded, and archive attribute of its file
    snapshot, \* its snapshot file: whether there is one, version, archive attribute
    session,  \* method, -r, and the hives in directories that are backed up
    phase,
    left,     \* hives of which no snapshot has been made yet
    todo,     \* files that the walk has still to visit
    entries,  \* what the session has put into the archive
    sessions,
    made,     \* history: hives with a snapshot of this session
    began, walked \* history: versions when the session and when the walk began

vars == <<hive, snapshot, session, phase, left, todo, entries, sessions, made, began, walked>>
history == <<made, began, walked>>

Versions == [h \in Hive |-> hive[h].version]
Files == Hive \X {"hive", "snapshot"}

TypeOK ==
    /\ hive \in [Hive -> [version : 1 .. MaxVersion, loaded : BOOLEAN, archive : BOOLEAN]]
    /\ snapshot \in [Hive -> [there : BOOLEAN, version : 0 .. MaxVersion, archive : BOOLEAN]]
    /\ session \in [method : Methods \cup {"none"}, r : BOOLEAN, included : Included \cup {{}}]
    /\ phase \in {"idle", "snapshots", "walk", "done"}
    /\ left \subseteq Hive /\ todo \subseteq Files /\ made \subseteq Hive
    /\ sessions \in 0 .. MaxSessions
    /\ entries \subseteq [name : Hive, version : 0 .. MaxVersion, from : {"hive", "snapshot"}]

NoFile == [there |-> FALSE, version |-> 0, archive |-> FALSE]

Init ==
    /\ hive \in [Hive -> [version : {1}, loaded : BOOLEAN, archive : {TRUE}]]
    /\ snapshot = [h \in Hive |-> NoFile]
    /\ session = [method |-> "none", r |-> FALSE, included |-> {}]
    /\ phase = "idle"
    /\ left = {} /\ todo = {} /\ entries = {} /\ sessions = 0
    /\ made = {} /\ began = Versions /\ walked = Versions
-----------------------------------------------------------------------------
(* The users and the system. *)

System ==
    /\ \E h \in Hive :
        \/ /\ hive[h].loaded /\ hive[h].version < MaxVersion
           /\ hive' = [hive EXCEPT ![h].version = @ + 1, ![h].archive = TRUE]
        \/ hive' = [hive EXCEPT ![h].loaded = ~ @]
    /\ UNCHANGED <<snapshot, session, phase, left, todo, entries, sessions, history>>
-----------------------------------------------------------------------------
(* CreateRegistrySnapshots. *)

Start(method, r, included) ==
    /\ phase \in {"idle", "done"} /\ sessions < MaxSessions
    /\ sessions' = sessions + 1
    /\ session' = [method |-> method, r |-> r, included |-> included]
    /\ phase' = "snapshots"
    /\ left' = IF r THEN {h \in Hive : hive[h].loaded} ELSE {}
    /\ todo' = included \X {"hive", "snapshot"}
    /\ entries' = {}
    /\ made' = {} /\ began' = Versions /\ walked' = Versions
    /\ UNCHANGED <<hive, snapshot>>

\* Defects: FILE_OVERWRITE_IF would keep attributes, FILE_OPEN_IF the contents too.
Superseded_KeepingAttributes(h, v) == [there |-> TRUE, version |-> v, archive |-> ~ snapshot[h].there \/ snapshot[h].archive]
Superseded_IfThere(h, v) ==
    IF snapshot[h].there THEN snapshot[h] ELSE [there |-> TRUE, version |-> v, archive |-> TRUE]

\* FILE_SUPERSEDE: a snapshot that an earlier session left is replaced.
Superseded(h, v) == [there |-> TRUE, version |-> v, archive |-> TRUE]

\* A hive that has been unloaded since it was found can no longer be opened, and
\* the file cannot be created, or what is saved in it is not complete.
SaveKey(h) ==
    /\ phase = "snapshots" /\ h \in left
    /\ left' = left \ {h}
    /\ \/ /\ hive[h].loaded
          /\ snapshot' = [snapshot EXCEPT ![h] = Superseded(h, hive[h].version)]
          /\ made' = made \cup {h}
       \/ snapshot' = [snapshot EXCEPT ![h] = Superseded(h, 0)] /\ UNCHANGED made
       \/ UNCHANGED <<snapshot, made>>
    /\ UNCHANGED <<hive, session, phase, todo, entries, sessions, began, walked>>

\* The list of hives ends, or cannot be read on.
SnapshotsDone ==
    /\ phase = "snapshots"
    /\ phase' = "walk"
    /\ left' = {}
    /\ walked' = Versions
    /\ UNCHANGED <<hive, snapshot, session, todo, entries, sessions, made, began>>
-----------------------------------------------------------------------------
(* The walk: BackupFile for a hive and for a snapshot, in the order of names. *)

Changed(attribute) == session.method \in {"copy", "full"} \/ attribute
Reset(attribute) == session.method \in {"copy", "diff"} /\ attribute

Visit(h, kind) ==
    /\ phase = "walk"
    /\ <<h, kind>> \in todo
    /\ todo' = todo \ {<<h, kind>>}

\* The file of a hive that is loaded cannot be opened.
VisitHive(h) ==
    /\ Visit(h, "hive")
    /\ IF hive[h].loaded \/ ~ Changed(hive[h].archive) THEN UNCHANGED <<hive, entries>>
       ELSE /\ entries' = entries \cup {[name |-> h, version |-> hive[h].version, from |-> "hive"]}
            /\ hive' = [hive EXCEPT ![h].archive = Reset(@)]
    /\ UNCHANGED <<snapshot, session, phase, left, sessions, history>>

\* The rights that a file is opened with, and the right that its deletion needs.
Access == {"read"} \cup (IF session.method \in {"full", "inc"} THEN {"write attributes"} ELSE {})
Deletable == "delete" \in Access

\* Without -r a snapshot is a file like any other, under a name of its own.
VisitSnapshot(h) ==
    /\ Visit(h, "snapshot") /\ <<h, "hive">> \notin todo
    /\ IF ~ snapshot[h].there \/ ~ Changed(snapshot[h].archive) THEN UNCHANGED <<snapshot, entries>>
       ELSE /\ entries' = IF ~ session.r THEN entries
                          ELSE entries \cup {[name |-> h, version |-> snapshot[h].version, from |-> "snapshot"]}
            /\ snapshot' = [snapshot EXCEPT ![h] =
                   IF session.r /\ Deletable THEN NoFile
                   ELSE [snapshot[h] EXCEPT !.archive = Reset(snapshot[h].archive)]]
    /\ UNCHANGED <<hive, session, phase, left, sessions, history>>

\* At the end, or when it is cancelled with files left to visit.
Finish ==
    /\ phase = "walk"
    /\ phase' = IF todo = {} THEN "done" ELSE "idle"
    /\ UNCHANGED <<hive, snapshot, session, left, todo, entries, sessions, history>>

Session ==
    \/ \E h \in Hive : SaveKey(h) \/ VisitHive(h) \/ VisitSnapshot(h)
    \/ SnapshotsDone
    \/ Finish

Next ==
    \/ System
    \/ \E m \in Methods, r \in BOOLEAN, i \in Included : Start(m, r, i)
    \/ Session

Spec == Init /\ [][Next]_vars
-----------------------------------------------------------------------------
(* The snapshots of a session are of one time: none is older than the session or
   younger than the beginning of the walk. *)
OfOneTime ==
    \A e \in entries :
        e.from = "snapshot" /\ e.name \in made => e.version \in began[e.name] .. walked[e.name]

(* Every hive with a snapshot of a session that comes to its end, in a directory
   that is backed up, is in the archive, whichever method the session has. *)
HivesAreSaved ==
    phase = "done" =>
        \A h \in made \cap session.included : \E e \in entries : e.name = h /\ e.version >= began[h]

(* strarc.txt: a snapshot is "a momentary copy of the contents of the registry when
   strarc starts". *)
MomentaryCopy == \A e \in entries : e.from = "snapshot" /\ e.version # 0 => e.version >= began[e.name]
==============================================================================
