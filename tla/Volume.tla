------------------------------- MODULE Volume --------------------------------
(***************************************************************************)
(* The part of an NTFS volume that strarc reads and writes: file names,    *)
(* the nodes they are hard links to, and for every node its contents, its  *)
(* last write time and its archive attribute.  A directory is known by its *)
(* path; of its attributes only the last write time matters.               *)
(***************************************************************************)
EXTENDS Integers, FiniteSets

CONSTANTS
    File,    \* paths of files
    Dir,     \* paths of directories, the root of the tree included
    Root,    \* the directory strarc is started in
    Parent,  \* the directory each other path lies in
    Node,    \* file record numbers of the volume
    NoNode,  \* a path at which there is no file
    LinkArchives  \* whether a new hard link sets the archive attribute

Path == File \cup Dir

ASSUME TreeAssumption ==
    /\ File \cap Dir = {}
    /\ Root \in Dir
    /\ Parent \in [Path \ {Root} -> Dir]
    /\ NoNode \notin Node
    /\ LinkArchives \in BOOLEAN

\* Every path lies below the root.
ASSUME RootAssumption ==
    \A below \in SUBSET Path :
        /\ Root \in below
        /\ \A p \in Path \ {Root} : Parent[p] \in below => p \in below
        => below = Path

Children(d) == {p \in Path \ {Root} : Parent[p] = d}

Data == Nat   \* versions of the contents of files; every write makes a new one
Time == Nat

Volumes ==
    [node    : [File -> Node \cup {NoNode}],
     data    : [Node -> Data],
     time    : [Node -> Time],
     archive : [Node -> BOOLEAN],
     dirtime : [Dir -> Time]]

Exists(v, f) == v.node[f] # NoNode
NamesOf(v, n) == {f \in File : v.node[f] = n}
Live(v) == {v.node[f] : f \in {g \in File : Exists(v, g)}}

\* nNumberOfLinks > 1
HardLinked(v, n) == \E f, g \in NamesOf(v, n) : f # g

\* The directories above a path.
Above[p \in Path] ==
    IF p = Root THEN {} ELSE {Parent[p]} \cup Above[Parent[p]]

\* A directory that does not exist has no time.
NoTime == 0
Missing(v, p) == {d \in Above[p] \ {Root} : v.dirtime[d] = NoTime}

\* An entry for p changes the directory it lies in; missing directories above p
\* are created.
Touch(v, p, t) ==
    [d \in Dir |-> IF \/ p # Root /\ d = Parent[p]
                      \/ \E m \in Missing(v, p) : d \in {m, Parent[m]}
                   THEN t
                   ELSE v.dirtime[d]]

\* The file system sets the archive attribute with every write to a file, and
\* on a file that gets a new name if LinkArchives.
WriteNode(v, n, d, t) ==
    [v EXCEPT !.data[n] = d, !.time[n] = t, !.archive[n] = TRUE]

CreateFile(v, f, n, d, t) ==
    [WriteNode(v, n, d, t) EXCEPT !.node[f] = n, !.dirtime = Touch(v, f, t)]

DeleteName(v, f, t) ==
    [v EXCEPT !.node[f] = NoNode, !.dirtime = Touch(v, f, t)]

LinkName(v, f, n, t) ==
    [v EXCEPT !.node[f] = n,
              !.archive[n] = @ \/ LinkArchives,
              !.dirtime = Touch(v, f, t)]
==============================================================================
