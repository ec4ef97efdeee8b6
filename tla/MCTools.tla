------------------------------- MODULE MCTools -------------------------------
(***************************************************************************)
(* Windows tools that work on the registry and on single files, of which a *)
(* behaviour runs one: regrepl, strarc with its snapshots of hives,        *)
(* fsplitw and trunczerotail.                                              *)
(***************************************************************************)
EXTENDS RegRepl, TLC

CONSTANTS
    Hive, Included, Methods, MaxVersion, MaxSessions,
    Sector, Modulus, FileSizes, BufSizes, Frees, MaxDisks,
    STDBUFSIZ, BIGBUFSIZ, TailSizes

VARIABLES
    running,
    hive, snapshot, session, phase, left, todo, entries, sessions, made, began, walked,
    FileSize, dwBufSize, does, readpos, lpBuffer, dwRetryLen, dwFileCounter, FilePos, parts,
    free, disks, ended,
    contents, before, bufsiz, capacity, reads, existing_out_file_size, current_out_pointer,
    pointer, shared, result

\* A key with two subkeys, of which the first has one; a string, a list of strings
\* and binary data.  1 and 2 are characters.
MCSub == ("r" :> <<"k", "l">>) @@ ("k" :> <<"m">>) @@ ("l" :> <<>>) @@ ("m" :> <<>>)
MCVals == ("r" :> <<"s">>) @@ ("k" :> <<"t">>) @@ ("l" :> <<"b">>) @@ ("m" :> <<>>)
MCType == ("s" :> "sz") @@ ("t" :> "multi") @@ ("b" :> "binary")
Strings == {<<1, 1, 1, 0>>, <<2, 1, 2, 1, 2, 0>>, <<2, 0>>}
Lists == {<<1, 2, 0, 2, 1, 1, 0, 0>>, <<2, 0, 1, 2, 0, 0>>, <<1, 0, 0>>}
\* Two have wide characters, one is cut short; two are as long as a text, or one of them.
Binaries ==
    {<<1, 0, 2, 0, 1, 0>>, <<0, 1, 0, 1, 2>>, <<1, 2, 1, 2, 1>>, <<1, 0, 1, 0, 1, 0, 1, 0>>,
     <<1, 2>>, <<1>>}
MCRegistries ==
    {("s" :> x) @@ ("t" :> y) @@ ("b" :> z) : x \in Strings, y \in Lists, z \in Binaries}
MCFroms == {<<1>>, <<1, 2>>, <<1, 1>>}
MCTos == {<<>>, <<2>>, <<2, 1, 1>>}

TruncSources == UNION {[1 .. n -> {0, 1}] : n \in TailSizes}

Snap == INSTANCE RegSnap

ASSUME SnapBounds == Snap!BoundsAssumption

Split == INSTANCE FSplit WITH pos <- readpos

ASSUME SplitBounds == Split!BoundsAssumption

Trunc == INSTANCE TruncTail

ASSUME TruncBlocks == Trunc!BlocksAssumption

snaponly ==
    <<hive, snapshot, session, phase, left, todo, entries, sessions, made, began, walked>>
cutonly ==
    <<FileSize, dwBufSize, does, readpos, lpBuffer, dwRetryLen, dwFileCounter, FilePos, parts,
      free, disks, ended>>
tailonly ==
    <<contents, before, bufsiz, capacity, reads, existing_out_file_size, current_out_pointer,
      pointer, shared, result>>
mcvars == <<running, vars, snaponly, cutonly, tailonly>>

\* Steps of one of the programs.
Repl(A) == running = "regrepl" /\ A /\ UNCHANGED <<running, snaponly, cutonly, tailonly>>
Arc(A) == running = "strarc" /\ A /\ UNCHANGED <<running, vars, cutonly, tailonly>>
Cut(A) == running = "fsplitw" /\ A /\ UNCHANGED <<running, vars, snaponly, tailonly>>
Shorten(A) == running = "trunczerotail" /\ A /\ UNCHANGED <<running, vars, snaponly, cutonly>>

MCInit ==
    /\ running \in {"regrepl", "strarc", "fsplitw", "trunczerotail"}
    /\ IF running = "regrepl" THEN Init
       ELSE /\ cFrom = <<1>> /\ cTo = <<2>>
            /\ reg = CHOOSE r \in MCRegistries : TRUE
            /\ Init
    /\ Snap!Init
    /\ running # "strarc" => \A h \in Hive : hive[h].loaded
    /\ Split!Init
    /\ running # "fsplitw" => FileSize = 0 /\ dwBufSize = 0 /\ free = 0
    /\ Trunc!Init
    /\ running # "trunczerotail" => contents = <<>> /\ bufsiz = STDBUFSIZ /\ capacity = STDBUFSIZ

MCSpec ==
    /\ MCInit
    /\ [][Repl(Next) \/ Arc(Snap!Next) \/ Cut(Split!Next) \/ Shorten(Trunc!Next)]_mcvars
    /\ WF_mcvars(Repl(DoSubKey) \/ Cut(Split!DoSplitFile) \/ Shorten(Trunc!Program))

\* regrepl: a value is replaced wholly and once or not at all, no value is missed but
\* binary data that is the text and nothing else, and the counters are right.
ReplacedOnce ==
    running = "regrepl" => TypeOK /\ OldOrNew /\ CountIsRight /\ AllReplaced

\* strarc: the snapshots of a session are of the time between its start and its walk,
\* and every hive with one is in the archive, with any method.
HivesAreSaved == running = "strarc" => Snap!TypeOK /\ Snap!OfOneTime /\ Snap!HivesAreSaved

\* fsplitw: cutting a part at the end of a disk neither loses nor repeats data, and
\* when the split is done the whole file is in parts numbered without a gap.
PartsAreTheFile ==
    running = "fsplitw" => Split!TypeOK /\ Split!PartsInOrder /\ Split!SplitIsWhole

\* trunczerotail: if nobody else writes to the file, only zeroes are cut off, and
\* less than a block of them is left.
ZeroesAreCut ==
    running = "trunczerotail" => Trunc!TypeOK /\ Trunc!OnlyZeroesCut /\ Trunc!TailIsCut

\* The search of regrepl and the loop of trunczerotail end; fsplitw, with a file of
\* whole sectors, finds out that a disk is full and asks for another one.
ToolsGoOn ==
    /\ running = "regrepl" => SearchEnds
    /\ Split!SplitGoesOn
    /\ running = "trunczerotail" => Trunc!TruncEnds
==============================================================================
