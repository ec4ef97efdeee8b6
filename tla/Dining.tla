------------------------------- MODULE Dining -------------------------------
(***************************************************************************)
(* What the two programs promise: a philosopher who eats uses the          *)
(* chopstick on either side, so two neighbours never eat at the same time. *)
(***************************************************************************)
EXTENDS Ring

VARIABLE eating  \* the philosophers that are eating

Init == eating = {}

StartEating(p) ==
    /\ p \notin eating
    /\ \A q \in eating : ~ Neighbours(p, q)
    /\ eating' = eating \cup {p}

StopEating(p) ==
    /\ p \in eating
    /\ eating' = eating \ {p}

Next == \E p \in Phil : StartEating(p) \/ StopEating(p)

Spec == Init /\ [][Next]_eating
=============================================================================
