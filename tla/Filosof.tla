------------------------------ MODULE Filosof -------------------------------
(***************************************************************************)
(* posix/filosof.cpp: the philosophers are processes and a chopstick is a  *)
(* pipe with at most one byte in it; wait reads the byte, signal writes    *)
(* it.  All chopsticks are on the table before the first fork(), and the   *)
(* process that forks becomes a philosopher while its child forks on.      *)
(***************************************************************************)
EXTENDS Ring

CONSTANT ForkMayFail  \* whether fork() may return -1

VARIABLES chopstick, \* bytes in each pipe
          next,      \* index i of the process that runs main()'s loop
          pc         \* where each philosopher is

vars == <<chopstick, next, pc>>

\* Defect.
First_AlwaysLeft(p) == Left(p)

\* "if( !me )": only philosopher 0 takes the right chopstick first.
First(p) == IF p = 0 THEN Right(p) ELSE Left(p)
Second(p) == IF p = 0 THEN Left(p) ELSE Right(p)

TypeOK ==
    /\ chopstick \in [Phil -> {0, 1}]
    /\ next \in 0 .. N
    /\ pc \in [Phil -> {"unborn", "hungry", "one", "eating", "downright", "thinking"}]

Init ==
    /\ chopstick = [s \in Phil |-> 1]
    /\ next = 0
    /\ pc = [p \in Phil |-> "unborn"]

\* "if( fork() ) philosopher( &i )": the parent sits down, the child goes on
\* with i + 1.  After a failed fork() (-1) the parent sits down all the same
\* and nobody is left to seat the others.
Fork ==
    /\ next < N
    /\ pc' = [pc EXCEPT ![next] = "hungry"]
    /\ \/ next' = next + 1
       \/ ForkMayFail /\ next' = N
    /\ UNCHANGED chopstick

\* Defect.
WaitSema_WithoutReading(s) == chopstick[s] > 0 /\ UNCHANGED chopstick

WaitSema(s) == chopstick[s] > 0 /\ chopstick' = [chopstick EXCEPT ![s] = @ - 1]
Signal(s) == chopstick' = [chopstick EXCEPT ![s] = @ + 1]

PickUpFirst(p) ==
    /\ pc[p] = "hungry"
    /\ WaitSema(First(p))
    /\ pc' = [pc EXCEPT ![p] = "one"]
    /\ UNCHANGED next

\* Defect.
PickUpSecond_OrStartOver(p) ==
    /\ pc[p] = "one"
    /\ \/ /\ WaitSema(Second(p))
          /\ pc' = [pc EXCEPT ![p] = "eating"]
       \/ /\ chopstick[Second(p)] = 0
          /\ Signal(First(p))
          /\ pc' = [pc EXCEPT ![p] = "hungry"]
    /\ UNCHANGED next

PickUpSecond(p) ==
    /\ pc[p] = "one"
    /\ WaitSema(Second(p))
    /\ pc' = [pc EXCEPT ![p] = "eating"]
    /\ UNCHANGED next

PutDownLeft(p) ==
    /\ pc[p] = "eating"
    /\ Signal(Left(p))
    /\ pc' = [pc EXCEPT ![p] = "downright"]
    /\ UNCHANGED next

PutDownRight(p) ==
    /\ pc[p] = "downright"
    /\ Signal(Right(p))
    /\ pc' = [pc EXCEPT ![p] = "thinking"]
    /\ UNCHANGED next

Think(p) ==
    /\ pc[p] = "thinking"
    /\ pc' = [pc EXCEPT ![p] = "hungry"]
    /\ UNCHANGED <<chopstick, next>>

Philosopher(p) ==
    \/ PickUpFirst(p)
    \/ PickUpSecond(p)
    \/ PutDownLeft(p)
    \/ PutDownRight(p)
    \/ Think(p)

Next == Fork \/ \E p \in Phil : Philosopher(p)

Spec == Init /\ [][Next]_vars

\* sleep() returns, every runnable process runs, and readers blocked on one
\* pipe are woken in order of arrival.
FairSpec == Spec /\ WF_vars(Fork) /\ \A p \in Phil : SF_vars(Philosopher(p))
-----------------------------------------------------------------------------
Table == INSTANCE Dining WITH eating <- {p \in Phil : pc[p] = "eating"}

(* pick_up() returns only to a philosopher neither of whose neighbours is
   between pick_up() and put_down(). *)
DiningSpec == Table!Spec

CanStep(p) ==
    \/ pc[p] = "hungry" /\ chopstick[First(p)] > 0
    \/ pc[p] = "one" /\ chopstick[Second(p)] > 0
    \/ pc[p] \in {"eating", "downright", "thinking"}

(* One philosopher who starts with the right chopstick is enough to break the
   ring of waits, at every moment of the seating and for every number seated. *)
SomebodyCanStep ==
    (\E p \in Phil : pc[p] # "unborn") => \E p \in Phil : CanStep(p)

(* No seated philosopher starves, even when a fork() failed half way. *)
SeatedEat == \A p \in Phil : [](pc[p] # "unborn" => <>(pc[p] = "eating"))
=============================================================================
