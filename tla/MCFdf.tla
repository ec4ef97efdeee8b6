-------------------------------- MODULE MCFdf --------------------------------
(***************************************************************************)
(* Four names and the files they may belong to; a path that leads through *)
(* a junction to the first of them.                                        *)
(***************************************************************************)
EXTENDS Fdf, TLC

Sizes == [x |-> 2, y |-> 2, z |-> 0]
Chains == [n \in {0, 2} |-> n]
Hashes == [x |-> "x", y |-> "x", z |-> "z"]
C(h, b, t) == [head |-> h, body |-> b, tail |-> t]
SomeContents == {C(1, "x", 1), C(2, "x", 1), C(1, "y", 1), C(1, "z", 0)}
Other == {C(1, "y", 1)}

\* Nodes in the order of the names, which leaves out equivalent layouts.
InOrder ==
    {l \in [1 .. 4 -> 1 .. 4] :
        /\ \A f \in 1 .. 4 : l[f] = 1 \/ \E g \in 1 .. f - 1 : l[f] <= l[g] + 1
        /\ l # <<1, 1, 1, 1>>}
Once == <<"1", "2", "3", "4">>
Junction == <<"1", "2", "3", "4", "j">>
Leads == ("1" :> 1) @@ ("2" :> 2) @@ ("3" :> 3) @@ ("4" :> 4) @@ ("j" :> 1)

SomeOptions ==
    {o \in SUBSET {"c", "d", "f", "l", "n"} :
        /\ "f" \in o => o \cap {"d", "l"} # {}
        /\ "n" \in o => o \cap {"c", "f"} = {}
        /\ "c" \in o => "d" \notin o}
==============================================================================
