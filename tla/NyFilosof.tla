----------------------------- MODULE NyFilosof ------------------------------
(***************************************************************************)
(* posix/nyfilosof.cpp: N threads share N binary semaphores (a System V    *)
(* semaphore set, or N Win32 semaphore objects).  main() makes semaphore i *)
(* usable and starts philosopher i in the same iteration of its loop, so   *)
(* early philosophers run while later semaphores do not exist yet.         *)
(***************************************************************************)
EXTENDS Ring

CONSTANT Win32  \* TRUE for the _WIN32 branches of the source

ASSUME Win32Assumption == Win32 \in BOOLEAN

VARIABLES sem,     \* value of each semaphore; NoSem before main() sets it up
          started, \* number of philosophers main() has started
          pc       \* where each philosopher is

vars == <<sem, started, pc>>

\* SETVAL has not run (the set holds 0), or the HANDLE is still NULL.
NoSem == -1

\* Defect.
First_AlwaysLeft(p) == Left(p)

\* "if( me & 1 )": odd philosophers take the right chopstick first.
First(p) == IF p % 2 = 1 THEN Right(p) ELSE Left(p)
Second(p) == IF p % 2 = 1 THEN Left(p) ELSE Right(p)

TypeOK ==
    /\ sem \in [Phil -> {NoSem, 0, 1}]
    /\ started \in 0 .. N
    /\ pc \in [Phil -> {"unborn", "hungry", "one", "eating", "downright", "thinking"}]

Init ==
    /\ sem = [s \in Phil |-> NoSem]
    /\ started = 0
    /\ pc = [p \in Phil |-> "unborn"]

\* One iteration of main()'s loop is two steps: the semaphore, the thread.
CreateSemaphore ==
    /\ started < N
    /\ sem[started] = NoSem
    /\ sem' = [sem EXCEPT ![started] = 1]
    /\ UNCHANGED <<started, pc>>

StartPhilosopher ==
    /\ started < N
    /\ sem[started] # NoSem
    /\ pc' = [pc EXCEPT ![started] = "hungry"]
    /\ started' = started + 1
    /\ UNCHANGED sem

\* semop(-1) blocks while the value is 0, also before SETVAL;
\* WaitForSingleObject(NULL, INFINITE) fails at once and is not looked at.
CanWait(s) == sem[s] = 1 \/ (Win32 /\ sem[s] = NoSem)

\* Defect.
Wait_WithoutTaking(s) == CanWait(s) /\ UNCHANGED sem

Wait(s) ==
    /\ CanWait(s)
    /\ sem' = IF sem[s] = 1 THEN [sem EXCEPT ![s] = 0] ELSE sem

\* semop(+1); ReleaseSemaphore fails on a NULL handle and beyond the
\* maximum count of 1, and the failure is not looked at.
Signal(s) ==
    sem' = IF Win32 /\ sem[s] # 0 THEN sem ELSE [sem EXCEPT ![s] = @ + 1]

PickUpFirst(p) ==
    /\ pc[p] = "hungry"
    /\ Wait(First(p))
    /\ pc' = [pc EXCEPT ![p] = "one"]
    /\ UNCHANGED started

\* Defect.
PickUpSecond_OrStartOver(p) ==
    /\ pc[p] = "one"
    /\ \/ /\ Wait(Second(p))
          /\ pc' = [pc EXCEPT ![p] = "eating"]
       \/ /\ ~ CanWait(Second(p))
          /\ Signal(First(p))
          /\ pc' = [pc EXCEPT ![p] = "hungry"]
    /\ UNCHANGED started

PickUpSecond(p) ==
    /\ pc[p] = "one"
    /\ Wait(Second(p))
    /\ pc' = [pc EXCEPT ![p] = "eating"]
    /\ UNCHANGED started

PutDownLeft(p) ==
    /\ pc[p] = "eating"
    /\ Signal(Left(p))
    /\ pc' = [pc EXCEPT ![p] = "downright"]
    /\ UNCHANGED started

PutDownRight(p) ==
    /\ pc[p] = "downright"
    /\ Signal(Right(p))
    /\ pc' = [pc EXCEPT ![p] = "thinking"]
    /\ UNCHANGED started

Think(p) ==
    /\ pc[p] = "thinking"
    /\ pc' = [pc EXCEPT ![p] = "hungry"]
    /\ UNCHANGED <<sem, started>>

Philosopher(p) ==
    \/ PickUpFirst(p)
    \/ PickUpSecond(p)
    \/ PutDownLeft(p)
    \/ PutDownRight(p)
    \/ Think(p)

Main == CreateSemaphore \/ StartPhilosopher

Next == Main \/ \E p \in Phil : Philosopher(p)

Spec == Init /\ [][Next]_vars

\* sleep() returns, the scheduler runs every runnable thread, and the kernel
\* serves the waiters of one semaphore in order of arrival.
FairSpec == Spec /\ WF_vars(Main) /\ \A p \in Phil : SF_vars(Philosopher(p))
-----------------------------------------------------------------------------
\* Whether philosopher p believes to hold chopstick s.
Holds(p, s) ==
    \/ pc[p] = "one" /\ s = First(p)
    \/ pc[p] = "eating" /\ s \in {Left(p), Right(p)}
    \/ pc[p] = "downright" /\ s = Right(p)

(* wait() is commented "try to take control of a chopstick, wait if it is
   already taken": a chopstick is never in the hands of two philosophers. *)
OneHolder ==
    \A s \in Phil : \A p, q \in Phil : Holds(p, s) /\ Holds(q, s) => p = q

\* The condition under which thread p is not blocked.
CanStep(p) ==
    \/ pc[p] = "hungry" /\ CanWait(First(p))
    \/ pc[p] = "one" /\ CanWait(Second(p))
    \/ pc[p] \in {"eating", "downright", "thinking"}

(* pick_up() breaks the ring of waits by letting every other philosopher
   start with the right chopstick: they never all wait for each other. *)
SomebodyCanStep == started = N => \E p \in Phil : CanStep(p)

(* The program keeps the promise of the table, with pick_up() returning as
   the start of a meal and the call of put_down() as its end. *)
Table == INSTANCE Dining WITH eating <- {p \in Phil : pc[p] = "eating"}
DiningSpec == Table!Spec

(* With first-come first-served semaphores no philosopher starves, although
   philosophers start eating before all semaphores exist. *)
EverybodyEats == \A p \in Phil : []<>(pc[p] = "eating")
=============================================================================
