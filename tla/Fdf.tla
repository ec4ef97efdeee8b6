--------------------------------- MODULE Fdf ---------------------------------
(***************************************************************************)
(* fdf: looks for files with equal contents and deletes them (-d) or makes *)
(* them hard links of one file (-l); finds hard links and splits them into *)
(* files of their own (-c) or deletes all but one (-d -l).  A file is a    *)
(* node with one or several names, and a name has one or, with junctions,  *)
(* several paths.  Contents have a head that -n skips, a body of whole     *)
(* 64-bit blocks, and a tail of less than one.                             *)
(***************************************************************************)
EXTENDS Naturals, FiniteSets, FiniteSetsExt, SequencesExt

CONSTANTS
    Name, Node, NoNode,
    Content,       \* set of records [head, body, tail]
    Size,          \* size of a body
    Chain,         \* the chain of the records of a size
    Hash,          \* what the checksum keeps of a body
    NoContent, NoSum,
    Layouts,       \* the nodes of the names at the start
    ReadOnlyFiles, \* sets of nodes that are read-only at the start
    Options,       \* sets of switches among "c", "d", "f", "l", "n"
    Visits,        \* the paths that the search for files finds, in order
    At,            \* the name that a path leads to
    MaxLinks,      \* of one file
    UserOps,       \* what others do between visits: "write", "erase", "replace"
    Written,       \* contents that they write
    MaxUserSteps   \* bound

ASSUME VisitsAssumption ==
    /\ Visits \in Seq(Range(Visits))
    /\ \A k \in 1 .. Len(Visits) : At[Visits[k]] \in Name
ASSUME LayoutsAssumption ==
    /\ Layouts \subseteq [Name -> Node]
    /\ \A l \in Layouts, n \in Node : Cardinality({f \in Name : l[f] = n}) <= MaxLinks
ASSUME ContentAssumption ==
    /\ \A c \in Content : /\ c = [head |-> c.head, body |-> c.body, tail |-> c.tail]
                          /\ Size[c.body] \in Nat
    /\ Content # {} /\ Written \subseteq Content /\ NoContent \notin Content

\* There is room for one more file than there are names and records.
ASSUME NodesAssumption ==
    /\ Node \subseteq Nat /\ NoNode \notin Node
    /\ IsFiniteSet(Name) /\ IsFiniteSet(Node)
    /\ Cardinality(Name) + Len(Visits) < Cardinality(Node)
ASSUME BoundsAssumption == MaxLinks \in Nat /\ MaxUserSteps \in Nat
ASSUME ForceAssumption == \A o \in Options : "f" \in o => o \cap {"d", "l"} # {}

VARIABLES
    dir,       \* the node of a name
    data,      \* the contents of a node
    readonly,  \* its attribute
    opts,
    table,     \* the file records of all chains, the newest first
    pc, at, i, \* the visit and the place in the chain
    fr,        \* the record that was found
    attr,      \* dwFileAttrs
    was,       \* what the users know of a name's contents
    steps

disk == <<dir, data, readonly>>
vars == <<disk, opts, table, pc, at, i, fr, attr, was, steps>>

Path == {Visits[k] : k \in 1 .. Len(Visits)}
Skips == "n" \in opts

\* What is compared of a file's contents, and GetFileCheckSum of that.
Compared(c) == IF Skips THEN [c EXCEPT !.head = 0] ELSE c
Sum(c) == [Compared(c) EXCEPT !.body = Hash[c.body]]

Record == [path : Path, node : Node, size : Nat,
           sum : {Sum(c) : c \in Content} \cup {NoSum}]

TypeOK ==
    /\ dir \in [Name -> Node \cup {NoNode}]
    /\ data \in [Node -> Content]
    /\ readonly \in [Node -> BOOLEAN]
    /\ opts \in Options
    /\ table \in Seq(Record) /\ Len(table) <= Len(Visits)
    /\ pc \in {"next", "same", "copy", "search", "equal", "stopped", "crashed"}
    /\ at \in 1 .. Len(Visits) + 1
    /\ i \in 1 .. Len(Visits) + 1
    /\ pc \in {"same", "copy", "equal"} => fr \in Record
    /\ attr \in BOOLEAN
    /\ was \in [Name -> Content \cup {NoContent}]
    /\ steps \in 0 .. MaxUserSteps

Present(f) == dir[f] # NoNode
Links(n) == Cardinality({f \in Name : dir[f] = n})
Contents(f) == IF Present(f) THEN data[dir[f]] ELSE NoContent

Unused == Node \ ({dir[f] : f \in Name} \cup {table[k].node : k \in 1 .. Len(table)})

Init ==
    /\ dir \in Layouts
    /\ table = <<>>
    /\ \E d \in [Range(dir) -> Content] :
         data = [n \in Node |-> IF n \in Unused THEN CHOOSE c \in Content : TRUE ELSE d[n]]
    /\ readonly \in {[n \in Node |-> n \in r] : r \in ReadOnlyFiles}
    /\ opts \in Options
    /\ pc = "next" /\ at = 1 /\ i = 1
    /\ fr = NoNode
    /\ attr = FALSE
    /\ was = [f \in Name |-> data[dir[f]]]
    /\ steps = 0
-----------------------------------------------------------------------------
(* The operations of the system on one name. *)

Unlink(f) == dir' = [dir EXCEPT ![f] = NoNode]

\* CreateHardLinkToFile: g becomes a name of f's file, in the place of another
\* file unless that is read-only.
Linkable(f, g, ro) ==
    /\ Present(f)
    /\ Links(dir[f]) < MaxLinks \/ dir[f] = dir[g]
    /\ Present(g) => ~ ro[dir[g]]
Link(f, g) == dir' = [dir EXCEPT ![g] = dir[f]]
-----------------------------------------------------------------------------
(* chkfile and the table of file records. *)

path == Visits[at]
file == At[path]
Leave == pc' = "next" /\ at' = at + 1
Stay(unchanged) == UNCHANGED <<opts, was, steps, unchanged>>

\* Find: another link of this file has been seen, when it was of a size of this chain.
SameFile ==
    {k \in 1 .. Len(table) :
        /\ table[k].node = dir[file]
        /\ Chain[table[k].size] = Chain[Size[Contents(file).body]]}

Arrived == pc = "next" /\ at <= Len(Visits)
Seen == Present(file) /\ Links(dir[file]) > 1 /\ SameFile # {}
Searched == Present(file) /\ ~ Seen /\ (Skips => Size[data[dir[file]].body] > 0)

FindLink ==
    /\ Arrived /\ Seen
    /\ fr' = table[Min(SameFile)]
    /\ pc' = "same"
    /\ Stay(<<disk, table, at, i, attr>>)

StartSearch ==
    /\ Arrived /\ Searched
    /\ pc' = "search" /\ i' = 1
    /\ Stay(<<disk, table, at, fr, attr>>)

\* The file has gone, or is not longer than what -n skips.
PassOver ==
    /\ Arrived /\ ~ Seen /\ ~ Searched
    /\ Leave
    /\ Stay(<<disk, table, i, fr, attr>>)

\* Defect.
SplitUnlink_Cleared ==
    /\ pc = "same" /\ "c" \in opts
    /\ Unlink(file)
    /\ attr' = readonly[dir[file]]
    /\ readonly' = [readonly EXCEPT ![dir[file]] = FALSE]
    /\ pc' = "copy"
    /\ Stay(<<data, table, at, i, fr>>)

\* -c deletes the link and copies the file that was seen earlier.
SplitUnlink ==
    /\ pc = "same" /\ "c" \in opts
    /\ Unlink(file)
    /\ attr' = readonly[dir[file]]
    /\ LET cleared == [readonly EXCEPT ![dir[file]] = FALSE]
           first == At[fr.path]
       IN  readonly' = IF Present(first) /\ first # file
                       THEN [cleared EXCEPT ![dir[first]] = attr'] ELSE cleared
    /\ pc' = "copy"
    /\ Stay(<<data, table, at, i, fr>>)

SplitCopy ==
    /\ pc = "copy"
    /\ IF Present(At[fr.path])
       THEN LET n == Min(Unused)
            IN  /\ dir' = [dir EXCEPT ![file] = n]
                /\ data' = [data EXCEPT ![n] = Contents(At[fr.path])]
                /\ readonly' = [readonly EXCEPT ![n] = readonly[dir[At[fr.path]]]]
       ELSE UNCHANGED disk
    /\ Leave
    /\ Stay(<<table, i, fr, attr>>)

\* Defect.
LinkDeleted_WithL ==
    /\ pc = "same" /\ "c" \notin opts
    /\ IF "l" \in opts /\ (~ readonly[dir[file]] \/ "f" \in opts)
       THEN Unlink(file) ELSE UNCHANGED dir
    /\ Leave
    /\ Stay(<<data, readonly, table, i, fr, attr>>)

\* -d -l deletes the link; -f keeps the file's attribute.
LinkDeleted ==
    /\ pc = "same" /\ "c" \notin opts
    /\ IF {"d", "l"} \subseteq opts /\ (~ readonly[dir[file]] \/ "f" \in opts)
       THEN Unlink(file)
       ELSE UNCHANGED dir
    /\ readonly' =
         LET first == At[fr.path]
             kept == Present(first) /\ readonly[dir[first]]
             cleared == [readonly EXCEPT ![dir[file]] = FALSE]
         IN  IF ~ {"d", "l", "f"} \subseteq opts THEN readonly
             ELSE IF Present(first) /\ first # file
             THEN [cleared EXCEPT ![dir[first]] = kept] ELSE cleared
    /\ Leave
    /\ Stay(<<data, table, i, fr, attr>>)

\* FindEqualOrAdd: the records of the chain one after another.
here == table[i]
Searching == pc = "search" /\ i <= Len(table)

\* Defect.
Alike_AndSummed(r) == r.size = Size[Contents(file).body] /\ r.sum # NoSum

Alike(r) == r.size = Size[Contents(file).body]

\* The checksum of a record is calculated when it is first needed, and kept.
SumOf(r) == IF r.sum = NoSum THEN Sum(Contents(At[r.path])) ELSE r.sum

\* Its file is opened for that, and to be compared if the checksums are equal.
Opens(r) == r.sum \in {NoSum, Sum(Contents(file))}

Skip ==
    /\ Searching /\ ~ Alike(here)
    /\ i' = i + 1
    /\ Stay(<<disk, table, pc, at, fr, attr>>)

\* The record is deleted, and the next one looked for in the memory that was freed.
DropRecord ==
    /\ Searching /\ Alike(here)
    /\ Opens(here) /\ ~ Present(At[here.path])
    /\ table' = RemoveAt(table, i)
    /\ pc' \in {"search", "crashed"}
    /\ Stay(<<disk, at, i, fr, attr>>)

\* Defect.
SameBlocks_OnlyToLink(c, d) ==
    "d" \in opts \/ [Compared(c) EXCEPT !.tail = 0] = [Compared(d) EXCEPT !.tail = 0]

\* CompareFiles and CompareMemory, which looks at whole blocks.
SameBlocks(c, d) ==
    /\ Size[c.body] = Size[d.body]
    /\ [Compared(c) EXCEPT !.tail = 0] = [Compared(d) EXCEPT !.tail = 0]

Compare ==
    /\ Searching /\ Alike(here)
    /\ Opens(here) => Present(At[here.path])
    /\ table' = [table EXCEPT ![i].sum = SumOf(here)]
    /\ IF /\ SumOf(here) = Sum(Contents(file))
          /\ SameBlocks(Contents(At[here.path]), Contents(file))
       THEN fr' = here /\ pc' = "equal" /\ UNCHANGED i
       ELSE i' = i + 1 /\ UNCHANGED <<fr, pc>>
    /\ Stay(<<disk, at, attr>>)

\* The end of the chain: a new record, with a checksum if there was one to compare.
Add ==
    /\ pc = "search" /\ i > Len(table)
    /\ table' = <<[path |-> path, node |-> dir[file],
                   size |-> Size[Contents(file).body],
                   sum |-> IF \E r \in Range(table) : Alike(r)
                           THEN Sum(Contents(file)) ELSE NoSum]>> \o table
    /\ Leave
    /\ Stay(<<disk, i, fr, attr>>)

\* chkfile with a record of equal contents.
Forced == "f" \in opts
Cleared == IF Forced THEN [readonly EXCEPT ![dir[file]] = FALSE] ELSE readonly

EqualDeleted ==
    /\ pc = "equal" /\ fr.path # path /\ "d" \in opts
    /\ IF Cleared[dir[file]]
       THEN UNCHANGED <<dir, readonly>>
       ELSE Unlink(file) /\ readonly' = Cleared
    /\ Leave
    /\ Stay(<<data, table, i, fr, attr>>)

\* The file becomes a link of the first one, or else the first of it.
EqualLinked ==
    /\ pc = "equal" /\ fr.path # path /\ "l" \in opts /\ "d" \notin opts
    /\ LET first == At[fr.path]
           canlink == Linkable(first, file, Cleared)
           canback == Linkable(file, first, Cleared)
       IN  /\ CASE canlink -> Link(first, file)
                 [] ~ canlink /\ canback -> Link(file, first)
                 [] OTHER -> UNCHANGED dir
           /\ readonly' = IF canlink \/ canback THEN Cleared ELSE readonly
    /\ Leave
    /\ Stay(<<data, table, i, fr, attr>>)

EqualShown ==
    /\ pc = "equal"
    /\ fr.path = path \/ opts \cap {"d", "l"} = {}
    /\ Leave
    /\ Stay(<<disk, table, i, fr, attr>>)

\* Ctrl+C, which is looked at between files.
Break ==
    /\ pc = "next"
    /\ pc' = "stopped"
    /\ Stay(<<disk, table, at, i, fr, attr>>)

Fdf ==
    \/ FindLink
    \/ StartSearch
    \/ PassOver
    \/ SplitUnlink
    \/ SplitCopy
    \/ LinkDeleted
    \/ Skip
    \/ DropRecord
    \/ Compare
    \/ Add
    \/ EqualDeleted
    \/ EqualLinked
    \/ EqualShown
    \/ Break
-----------------------------------------------------------------------------
(* Other programs, between two visits. *)

Write(n, c) ==
    /\ "write" \in UserOps
    /\ Links(n) > 0
    /\ data' = [data EXCEPT ![n] = c]
    /\ UNCHANGED <<dir, readonly>>

Erase(f) ==
    /\ "erase" \in UserOps
    /\ Present(f)
    /\ Unlink(f)
    /\ UNCHANGED <<data, readonly>>

\* A program that saves a file by deleting it and writing another one.
Replace(f, c) ==
    /\ "replace" \in UserOps
    /\ Unused # {}
    /\ dir' = [dir EXCEPT ![f] = Min(Unused)]
    /\ data' = [data EXCEPT ![Min(Unused)] = c]
    /\ readonly' = [readonly EXCEPT ![Min(Unused)] = FALSE]

Users ==
    /\ pc = "next"
    /\ steps < MaxUserSteps /\ steps' = steps + 1
    /\ \/ \E n \in Node, c \in Written : Write(n, c)
       \/ \E f \in Name : Erase(f)
       \/ \E f \in Name, c \in Written : Replace(f, c)
    /\ was' = [f \in Name |-> IF dir'[f] = NoNode THEN NoContent ELSE data'[dir'[f]]]
    /\ UNCHANGED <<opts, table, pc, at, i, fr, attr>>

Next == Fdf \/ Users

Spec == Init /\ [][Next]_vars
-----------------------------------------------------------------------------
(* Properties. *)

Same(c, d) == c # NoContent /\ d # NoContent /\ Compared(c) = Compared(d)

\* Whatever is deleted or replaced by a link, the contents that a name had are
\* the contents of some name at every moment, also between the two halves of a
\* split and when another program has written in between two visits.  What is
\* written in between never differs in the last bytes only, which CompareMemory
\* (chkfile.c:80) does not look at: that loses a file (README).
NothingIsLost ==
    \A f \in Name : was[f] # NoContent =>
        \E g \in Name : Same(was[f], Contents(g))

\* Without -d every name is still there after a visit, with its contents; with -c
\* as long as nobody else deletes or replaces the file that was seen first.
NamesKept ==
    pc = "next" /\ "d" \notin opts /\ ("c" \in opts => steps = 0) =>
        \A f \in Name : was[f] # NoContent => Same(was[f], Contents(f))

\* The search has come to its end and nothing was in its way.
Finished ==
    /\ pc = "next" /\ at > Len(Visits)
    /\ steps = 0
    /\ \A n \in Node : ~ readonly[n]

Twins(f, g) ==
    /\ f # g /\ Present(f) /\ Present(g)
    /\ Same(Contents(f), Contents(g))
    /\ Skips => Size[Contents(f).body] > 0

\* At the end, of files with equal contents, -d has left one, -l has made links
\* of one file if it can have so many, -d -l has left one name, and -c has left one name of each file
\* that was the first of its contents.
DoneWhatWasAsked ==
    Finished =>
        CASE opts \cap {"c", "d", "l"} = {"c"} ->
                \A k \in 1 .. Len(table) : Links(table[k].node) = 1
          [] opts \cap {"c", "d", "l"} \in {{"d"}, {"l"}} ->
                \A f, g \in Name : Twins(f, g) =>
                    \/ dir[f] = dir[g]
                    \/ Cardinality({h \in Name : Same(Contents(f), Contents(h))}) > MaxLinks
          [] opts \cap {"c", "d", "l"} = {"d", "l"} ->
                \A f, g \in Name : ~ Twins(f, g)
          [] OTHER -> TRUE

\* "-c      Split existing hard links by copying them into separate files."
LinksAreSplit ==
    Finished /\ opts = {"c"} => \A f, g \in Name : Twins(f, g) => dir[f] # dir[g]

\* Deleting or splitting a hard link of a read-only file, for which the attribute
\* is cleared, leaves the file's other names read-only, if the path that was
\* seen first still leads to it.
AttributesKept ==
    [][\A f \in Name :
        /\ pc \in {"same", "copy"} /\ dir[At[fr.path]] = fr.node
        /\ Present(f) /\ readonly[dir[f]]
        /\ dir'[f] = dir[f]
        => readonly'[dir[f]]]_vars
=============================================================================
