----------------------------- MODULE RestoreFile -----------------------------
(***************************************************************************)
(* What strarc -x does to a volume for one archive entry (RestoreFile and  *)
(* the functions it calls) and for a whole archive.  opt holds the         *)
(* switches: o for -o, a, n and f for -o:a, -o:n and -o:f, l for -s:l.     *)
(***************************************************************************)
EXTENDS Volume, SequencesExt

Options == {opt \in [{"o", "a", "n", "f", "l"} -> BOOLEAN] :
              /\ opt["f"] => opt["n"]
              /\ opt["a"] \/ opt["n"] => opt["o"]}

CONSTANT RestoreTime  \* the time of the restore, later than all others

ASSUME RestoreAssumption == RestoreTime \in Time

Present(v, p) == IF p \in Dir THEN v.dirtime[p] # NoTime ELSE Exists(v, p)

\* -o:a, -o:n and -o:f; a directory has no archive attribute, and its times do
\* not matter.
Overwritable(v, e, opt) ==
    IF Present(v, e.path)
    THEN e.path \in File =>
            /\ opt["a"] => ~ v.archive[v.node[e.path]]
            /\ opt["n"] => v.time[v.node[e.path]] < e.time
    ELSE ~ opt["f"]

\* FILE_CREATE fails on an existing file, FILE_OPEN_IF opens it.
CanCreate(v, e, opt) == e.path \in Dir \/ opt["o"] \/ ~ Present(v, e.path)

SomeFreeNode(v) == CHOOSE n \in Node : n \notin Live(v)

\* The file to write to: the existing one with whatever it contains, or a new
\* empty one.
CreatedFile(v, f) ==
    IF Exists(v, f) THEN v ELSE CreateFile(v, f, SomeFreeNode(v), 0, RestoreTime)

\* Defect.
SetInfo_TimeOnly(v, n, e) == [v EXCEPT !.time[n] = e.time]

\* The times and attributes of the entry are set last.
SetInfo(v, n, e) == [v EXCEPT !.time[n] = e.time, !.archive[n] = e.archive]

RestoreStreams(v, e) ==
    LET w == CreatedFile(v, e.path)
        n == w.node[e.path]
    IN  IF e.kind = "none"
        THEN SetInfo(w, n, e)
        ELSE SetInfo(WriteNode(w, n, e.data, RestoreTime), n, e)

\* Defect.
RestoreLink_OverExisting(v, e) == CreatedFile(v, e.path)

\* The target is deleted before the name it is to be a link to is opened.
RestoreLink(v, e) ==
    LET w == DeleteName(CreatedFile(v, e.path), e.path, RestoreTime)
    IN  IF Exists(w, e.to)
        THEN LinkName(w, e.path, w.node[e.to], RestoreTime)
        ELSE w

\* -s:l: the target is still open when it is opened again for the copy, which
\* FILE_CREATE refuses because it exists and FILE_OPEN_IF because it is shared
\* for reading only.  The file stays as it was created.
RestoreCopy(v, e) == CreatedFile(v, e.path)

\* Defect.
RestoreDirectory_NewOnly(v, e) ==
    IF Present(v, e.path) THEN v
    ELSE [v EXCEPT !.dirtime =
             [Touch(v, e.path, RestoreTime) EXCEPT ![e.path] = e.time]]

RestoreDirectory(v, e) ==
    [v EXCEPT !.dirtime =
        [IF Present(v, e.path) THEN @ ELSE Touch(v, e.path, RestoreTime)
         EXCEPT ![e.path] = e.time]]

RestoreEntry(v, e, opt) ==
    IF ~ (Overwritable(v, e, opt) /\ CanCreate(v, e, opt)) THEN v
    ELSE IF e.path \in Dir THEN RestoreDirectory(v, e)
    ELSE IF e.kind # "link" THEN RestoreStreams(v, e)
    ELSE IF opt["l"] THEN RestoreCopy(v, e)
    ELSE RestoreLink(v, e)

\* After a stream that is shorter than announced the reader takes what follows
\* for its rest and goes on at the next header it finds.
RestoreNext(acc, e, opt) ==
    IF acc.inside
    THEN [acc EXCEPT !.inside = FALSE]
    ELSE [vol |-> RestoreEntry(acc.vol, e, opt), inside |-> e.kind = "part"]

Blank ==
    [node |-> [f \in File |-> NoNode],
     data |-> [n \in Node |-> 0],
     time |-> [n \in Node |-> NoTime],
     archive |-> [n \in Node |-> FALSE],
     dirtime |-> [d \in Dir |-> IF d = Root THEN RestoreTime ELSE NoTime]]

\* What has come of an empty volume after each of the entries, and whether the
\* reader is inside a stream then.
After(archive, opt) ==
    LET after[i \in 0 .. Len(archive)] ==
            IF i = 0 THEN [vol |-> Blank, inside |-> FALSE]
            ELSE RestoreNext(after[i - 1], archive[i], opt)
    IN  after

\* The whole archive restored to an empty volume.
Restored(archive, opt) == After(archive, opt)[Len(archive)].vol
==============================================================================
