------------------------------ MODULE MCDining ------------------------------
(***************************************************************************)
(* The two dining-philosophers programs, of which a behaviour runs one:    *)
(* nyfilosof in its POSIX build and filosof with fork() that may fail.     *)
(***************************************************************************)
EXTENDS NyFilosof

CONSTANT ForkMayFail

VARIABLES running, chopstick, next, place

Pipes == INSTANCE Filosof WITH pc <- place

forkonly == <<chopstick, next, place>>
mcvars == <<running, vars, forkonly>>

\* Steps of one program and of the other.
Threads(A) == running = "nyfilosof" /\ A /\ UNCHANGED <<running, forkonly>>
Processes(A) == running = "filosof" /\ A /\ UNCHANGED <<running, vars>>

MCInit == running \in {"nyfilosof", "filosof"} /\ Init /\ Pipes!Init

MCSpec ==
    /\ MCInit
    /\ [][Threads(Next) \/ Processes(Pipes!Next)]_mcvars
    /\ WF_mcvars(Threads(Main) \/ Processes(Pipes!Fork))
    /\ \A p \in Phil :
        SF_mcvars(Threads(Philosopher(p)) \/ Processes(Pipes!Philosopher(p)))

\* filosof: the program keeps the promise of the table.
SeatedDine == Pipes!DiningSpec

\* Every philosopher of nyfilosof eats again and again, and so does every one of
\* filosof that got a seat.
NobodyStarves ==
    /\ running = "nyfilosof" => EverybodyEats
    /\ running = "filosof" => Pipes!SeatedEat
=============================================================================
