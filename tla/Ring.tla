-------------------------------- MODULE Ring --------------------------------
(***************************************************************************)
(* The table both dining-philosophers programs lay: N philosophers in a    *)
(* ring, chopstick p to the left of philosopher p and chopstick p + 1,     *)
(* modulo N, to the right.                                                 *)
(***************************************************************************)
EXTENDS Integers

CONSTANT N  \* "#define N 5"

ASSUME NAssumption == N \in Nat /\ N >= 2

Phil == 0 .. N - 1

Left(p) == p
Right(p) == IF p = N - 1 THEN 0 ELSE p + 1

Neighbours(p, q) == p # q /\ (Right(p) = q \/ Right(q) = p)
=============================================================================
