----------------------------- MODULE StrArcCycle -----------------------------
(***************************************************************************)
(* strarc -c and strarc -x together: what an archive is worth is what can  *)
(* be restored from it.                                                    *)
(***************************************************************************)
EXTENDS StrArcBackup, RestoreFile

CONSTANT Opt  \* the switches of the restore

ASSUME OptAssumption == Opt \in Options

\* The volume that is restored to has a record for every file.
ASSUME RecordsAssumption ==
    /\ IsFiniteSet(File) /\ IsFiniteSet(Node)
    /\ Cardinality(File) <= Cardinality(Node)

Result == Restored(archive, Opt)

Wants(p) == p \in Included \ Excluded

(* After a session in which nothing failed, restoring the archive to an empty
   directory brings back every file with its contents. *)
ContentsRestored ==
    pc = "idle" /\ complete =>
        LET r == Result
        IN  \A f \in File : Exists(vol, f) /\ Wants(f) =>
                /\ Exists(r, f)
                /\ r.data[r.node[f]] = vol.data[vol.node[f]]

(* Names that are one file on the volume are one file after the restore, and
   names of different files are not. *)
LinksRestored ==
    pc = "idle" /\ complete =>
        LET r == Result
            Back(f) == Exists(vol, f) /\ Wants(f)
        IN  \A f, g \in File : Back(f) /\ Back(g) =>
                (r.node[f] = r.node[g] <=> vol.node[f] = vol.node[g])

(* After a session that archives everything, the directories get back their
   times although files were restored into them. *)
DirectoryTimesRestored ==
    pc = "idle" /\ complete /\ method \in {"FULL", "COPY"} =>
        \A d \in Dir : Wants(d) => Result.dirtime[d] = vol.dirtime[d]

(* At all times: a file that later incremental sessions will pass over can be
   restored from what is in the archive. *)
ClearMeansRestorable ==
    \A f \in File : Exists(vol, f) /\ Wants(f) /\ ~ vol.archive[vol.node[f]] =>
        LET r == Result
        IN  Exists(r, f) /\ r.data[r.node[f]] = vol.data[vol.node[f]]
==============================================================================
