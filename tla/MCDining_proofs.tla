--------------------------- MODULE MCDining_proofs ---------------------------
(***************************************************************************)
(* For every N >= 2 both programs implement Dining: nyfilosof in its POSIX *)
(* build, where a semaphore is free or in one hand, and filosof, wherever  *)
(* fork() fails, where a byte is in a pipe or stands for one hand.         *)
(***************************************************************************)
EXTENDS MCDining, TLAPS

(* nyfilosof. *)

(* A chopstick that is in somebody's hand has semaphore value 0. *)
HeldIsTaken == \A p, s \in Phil : Holds(p, s) => sem[s] = 0

(* A semaphore that is 0 after its SETVAL is 0 because of some holder. *)
TakenIsHeld == \A s \in Phil : sem[s] = 0 => \E p \in Phil : Holds(p, s)

(* main() starts the philosophers in order, each after its left chopstick. *)
Births ==
    \A p \in Phil : IF p < started
                      THEN pc[p] # "unborn" /\ sem[p] # NoSem
                      ELSE pc[p] = "unborn"

IInv == TypeOK /\ OneHolder /\ HeldIsTaken /\ TakenIsHeld /\ Births
-----------------------------------------------------------------------------
(* First and Second name the two sides of a philosopher, in some order. *)
LEMMA Sides ==
    ASSUME NEW p \in Phil
    PROVE  /\ Left(p) \in Phil /\ Right(p) \in Phil /\ Left(p) # Right(p)
           /\ First(p) \in Phil /\ Second(p) \in Phil /\ First(p) # Second(p)
           /\ {First(p), Second(p)} = {Left(p), Right(p)}
  BY NAssumption DEF Phil, Left, Right, First, Second

(* The order of pick_up(): a chopstick somebody takes second is taken first
   by at most one philosopher, philosopher 0, and only when N is odd. *)
LEMMA SecondThenFirst ==
    ASSUME NEW p \in Phil, NEW q \in Phil, First(q) = Second(p)
    PROVE  q = 0 /\ N > 2
  BY NAssumption DEF Phil, Left, Right, First, Second

(* Nobody takes philosopher 0's second chopstick first. *)
LEMMA ZeroSecond ==
    ASSUME NEW q \in Phil
    PROVE  First(q) # Second(0)
  BY NAssumption DEF Phil, Left, Right, First, Second

LEMMA InitIInv == Init => IInv
  BY NAssumption DEF Init, IInv, TypeOK, OneHolder, HeldIsTaken, TakenIsHeld,
                     Births, Holds, Phil, NoSem

(* main() only touches the semaphore and the thread of its loop index. *)
LEMMA MainIInv == ASSUME IInv, Main PROVE IInv'
<1>1. CASE CreateSemaphore
  BY <1>1, NAssumption
     DEF CreateSemaphore, IInv, TypeOK, OneHolder, HeldIsTaken, TakenIsHeld,
         Births, Holds, Phil, NoSem
<1>2. CASE StartPhilosopher
  BY <1>2, NAssumption
     DEF StartPhilosopher, IInv, TypeOK, OneHolder, HeldIsTaken, TakenIsHeld,
         Births, Holds, Phil, NoSem
<1>3. QED
  BY <1>1, <1>2 DEF Main

(* A thread changes its own hands and the semaphore that goes with them. *)
LEMMA PhilosopherIInv ==
    ASSUME IInv, ~ Win32, NEW p \in Phil, Philosopher(p)
    PROVE  IInv'
<1>s. \A q \in Phil :
         /\ Left(q) \in Phil /\ Right(q) \in Phil /\ Left(q) # Right(q)
         /\ First(q) \in Phil /\ Second(q) \in Phil /\ First(q) # Second(q)
         /\ {First(q), Second(q)} = {Left(q), Right(q)}
  BY Sides
<1>i. /\ TypeOK /\ OneHolder /\ HeldIsTaken /\ TakenIsHeld /\ Births
  BY DEF IInv
<1>1. CASE PickUpFirst(p)
  <2>1. /\ TypeOK' /\ Births'
    BY <1>1, <1>s, <1>i DEF PickUpFirst, Wait, CanWait, TypeOK, Births, NoSem
  <2>2. \A q, s \in Phil : Holds(q, s)' <=> Holds(q, s) \/ (q = p /\ s = First(p))
    BY <1>1, <1>i DEF PickUpFirst, TypeOK, Holds
  <2>3. sem[First(p)] = 1 /\ sem' = [sem EXCEPT ![First(p)] = 0]
    BY <1>1 DEF PickUpFirst, Wait, CanWait
  <2>4. QED
    BY <1>s, <1>i, <2>1, <2>2, <2>3 DEF IInv, TypeOK, OneHolder, HeldIsTaken, TakenIsHeld
<1>2. CASE PickUpSecond(p)
  <2>1. /\ TypeOK' /\ Births'
    BY <1>2, <1>s, <1>i DEF PickUpSecond, Wait, CanWait, TypeOK, Births, NoSem
  <2>2. \A q, s \in Phil : Holds(q, s)' <=> Holds(q, s) \/ (q = p /\ s = Second(p))
    BY <1>2, <1>s, <1>i DEF PickUpSecond, TypeOK, Holds
  <2>3. sem[Second(p)] = 1 /\ sem' = [sem EXCEPT ![Second(p)] = 0]
    BY <1>2 DEF PickUpSecond, Wait, CanWait
  <2>4. QED
    BY <1>s, <1>i, <2>1, <2>2, <2>3 DEF IInv, TypeOK, OneHolder, HeldIsTaken, TakenIsHeld
<1>3. CASE PutDownLeft(p)
  <2>1. Holds(p, Left(p)) /\ sem[Left(p)] = 0
    BY <1>3, <1>s, <1>i DEF PutDownLeft, Holds, HeldIsTaken
  <2>2. sem' = [sem EXCEPT ![Left(p)] = 1]
    BY <1>3, <1>s, <1>i, <2>1 DEF PutDownLeft, Signal, TypeOK
  <2>3. /\ TypeOK' /\ Births'
    BY <1>3, <1>s, <1>i, <2>2 DEF PutDownLeft, TypeOK, Births, NoSem
  <2>4. \A q, s \in Phil : Holds(q, s)' <=> Holds(q, s) /\ ~ (q = p /\ s = Left(p))
    BY <1>3, <1>s, <1>i DEF PutDownLeft, TypeOK, Holds
  <2>5. QED
    BY <1>s, <1>i, <2>1, <2>2, <2>3, <2>4
       DEF IInv, TypeOK, OneHolder, HeldIsTaken, TakenIsHeld
<1>4. CASE PutDownRight(p)
  <2>1. Holds(p, Right(p)) /\ sem[Right(p)] = 0
    BY <1>4, <1>s, <1>i DEF PutDownRight, Holds, HeldIsTaken
  <2>2. sem' = [sem EXCEPT ![Right(p)] = 1]
    BY <1>4, <1>s, <1>i, <2>1 DEF PutDownRight, Signal, TypeOK
  <2>3. /\ TypeOK' /\ Births'
    BY <1>4, <1>s, <1>i, <2>2 DEF PutDownRight, TypeOK, Births, NoSem
  <2>4. \A q, s \in Phil : Holds(q, s)' <=> Holds(q, s) /\ ~ (q = p /\ s = Right(p))
    BY <1>4, <1>s, <1>i DEF PutDownRight, TypeOK, Holds
  <2>5. QED
    BY <1>s, <1>i, <2>1, <2>2, <2>3, <2>4
       DEF IInv, TypeOK, OneHolder, HeldIsTaken, TakenIsHeld
<1>5. CASE Think(p)
  <2>1. \A q, s \in Phil : Holds(q, s)' <=> Holds(q, s)
    BY <1>5, <1>i DEF Think, TypeOK, Holds
  <2>2. QED
    BY <1>5, <1>i, <2>1
       DEF Think, IInv, TypeOK, OneHolder, HeldIsTaken, TakenIsHeld, Births
<1>6. QED
  BY <1>1, <1>2, <1>3, <1>4, <1>5 DEF Philosopher

LEMMA NextIInv == ASSUME ~ Win32, IInv, [Next]_vars PROVE IInv'
<1>1. CASE Main
  BY <1>1, MainIInv
<1>2. CASE \E p \in Phil : Philosopher(p)
  BY <1>2, PhilosopherIInv
<1>3. CASE UNCHANGED vars
  BY <1>3 DEF vars, IInv, TypeOK, OneHolder, HeldIsTaken, TakenIsHeld, Births, Holds
<1>4. QED
  BY <1>1, <1>2, <1>3 DEF Next

LEMMA IInvHolds == ASSUME ~ Win32 PROVE Spec => []IInv
  BY InitIInv, NextIInv, PTL DEF Spec

(* wait() and signal() keep every chopstick in at most one hand. *)
THEOREM ChopstickExclusion == ASSUME ~ Win32 PROVE Spec => [](TypeOK /\ OneHolder)
<1>1. IInv => TypeOK /\ OneHolder
  BY DEF IInv
<1>2. QED
  BY <1>1, IInvHolds, PTL

(* The picking order of pick_up() admits no circular wait, for any N. *)
THEOREM NoCircularWait == ASSUME ~ Win32 PROVE Spec => []SomebodyCanStep
<1>1. ASSUME IInv PROVE SomebodyCanStep
  <2> SUFFICES ASSUME started = N, \A p \in Phil : ~ CanStep(p) PROVE FALSE
    BY DEF SomebodyCanStep
  <2>1. \A p \in Phil : \/ pc[p] = "hungry" /\ sem[First(p)] = 0
                        \/ pc[p] = "one" /\ sem[Second(p)] = 0
    BY <1>1, Sides DEF CanStep, CanWait, IInv, TypeOK, Births, NoSem, Phil
  <2>2. \A s \in Phil : sem[s] = 0 => \E q \in Phil : pc[q] = "one" /\ First(q) = s
    BY <1>1, <2>1 DEF IInv, TakenIsHeld, Holds
  <2>3. PICK s \in Phil : sem[s] = 0
    BY <2>1, Sides, NAssumption DEF Phil
  <2>4. PICK p \in Phil : pc[p] = "one"
    BY <2>2, <2>3
  <2>5. PICK q \in Phil : pc[q] = "one" /\ First(q) = Second(p)
    BY <2>1, <2>2, <2>4, Sides
  <2>6. q = 0
    BY <2>5, SecondThenFirst
  <2>7. PICK r \in Phil : First(r) = Second(q)
    BY <2>1, <2>2, <2>5, Sides
  <2>8. QED
    BY <2>6, <2>7, ZeroSecond
<1>2. QED
  BY <1>1, IInvHolds, PTL

(* Whoever eats uses both chopsticks, so the program implements Dining. *)
THEOREM ImplementsDining == ASSUME ~ Win32 PROVE Spec => DiningSpec
<1> DEFINE E == {p \in Phil : pc[p] = "eating"}
<1>1. Init => Table!Init
  BY DEF Init, Table!Init
<1>2. ASSUME IInv, IInv', [Next]_vars PROVE [Table!Next]_E
  <2>i. TypeOK /\ OneHolder'
    BY <1>2 DEF IInv
  <2>1. ASSUME NEW p \in Phil, PickUpSecond(p) PROVE Table!StartEating(p)
    <3>1. E' = E \cup {p} /\ p \notin E
      BY <2>1, <2>i DEF PickUpSecond, TypeOK
    <3>2. ASSUME NEW q \in E, Neighbours(p, q) PROVE FALSE
      <4>1. /\ p # q /\ q \in Phil /\ pc'[q] = "eating" /\ pc'[p] = "eating"
        BY <2>1, <2>i, <3>1, <3>2 DEF PickUpSecond, TypeOK, Neighbours
      <4>2. CASE Right(p) = q
        BY <2>i, <4>1, <4>2, Sides DEF OneHolder, Holds, Left
      <4>3. CASE Right(q) = p
        BY <2>i, <4>1, <4>3, Sides DEF OneHolder, Holds, Left
      <4>4. QED
        BY <3>2, <4>2, <4>3 DEF Neighbours
    <3>3. QED
      BY <3>1, <3>2, Sides
         DEF Table!StartEating, Table!Neighbours, Table!Right, Neighbours, Right
  <2>2. ASSUME NEW p \in Phil, PutDownLeft(p) PROVE Table!StopEating(p)
    BY <2>2, <2>i DEF PutDownLeft, TypeOK, Table!StopEating
  <2>3. ASSUME NEW p \in Phil, PickUpFirst(p) \/ PutDownRight(p) \/ Think(p)
        PROVE  E' = E
    BY <2>3, <2>i DEF PickUpFirst, PutDownRight, Think, TypeOK
  <2>4. ASSUME Main PROVE E' = E
    <3>1. CASE CreateSemaphore
      BY <3>1 DEF CreateSemaphore
    <3>2. CASE StartPhilosopher
      <4>1. pc[started] # "eating" /\ pc' = [pc EXCEPT ![started] = "hungry"]
        BY <3>2, <1>2, NAssumption DEF StartPhilosopher, IInv, Births, TypeOK, Phil
      <4>2. QED
        BY <4>1, <2>i DEF TypeOK
    <3>3. QED
      BY <2>4, <3>1, <3>2 DEF Main
  <2>5. CASE UNCHANGED vars
    BY <2>5 DEF vars
  <2>6. QED
    BY <1>2, <2>1, <2>2, <2>3, <2>4, <2>5 DEF Next, Philosopher, Table!Next, Phil, Table!Phil
<1>3. QED
  BY <1>1, <1>2, IInvHolds, PTL DEF Spec, DiningSpec, Table!Spec
-----------------------------------------------------------------------------
(* filosof. *)

Grips(p, s) ==
    \/ place[p] = "one" /\ s = Pipes!First(p)
    \/ place[p] = "eating" /\ s \in {Pipes!Left(p), Pipes!Right(p)}
    \/ place[p] = "downright" /\ s = Pipes!Right(p)

(* A chopstick is in one hand at most, and then its pipe is empty. *)
OneByte ==
    \A p, s \in Pipes!Phil :
        Grips(p, s) => chopstick[s] = 0 /\ \A q \in Pipes!Phil : Grips(q, s) => q = p

(* Whoever has not been forked sits nowhere. *)
NotForked == \A p \in Pipes!Phil : p >= next => place[p] = "unborn"

PipesInv == Pipes!TypeOK /\ OneByte /\ NotForked
-----------------------------------------------------------------------------
(* First and Second name the two sides of a philosopher, in some order. *)
LEMMA PipesSides ==
    ASSUME NEW p \in Pipes!Phil
    PROVE  /\ Pipes!Left(p) \in Pipes!Phil /\ Pipes!Right(p) \in Pipes!Phil /\ Pipes!Left(p) # Pipes!Right(p)
           /\ Pipes!First(p) \in Pipes!Phil /\ Pipes!Second(p) \in Pipes!Phil /\
               Pipes!First(p) # Pipes!Second(p)
           /\ {Pipes!First(p), Pipes!Second(p)} = {Pipes!Left(p), Pipes!Right(p)}
  BY NAssumption DEF Pipes!Phil, Pipes!Left, Pipes!Right, Pipes!First, Pipes!Second

(* wait() takes the only byte. *)
LEMMA WaitTakes ==
    ASSUME Pipes!TypeOK, NEW s \in Pipes!Phil, Pipes!WaitSema(s)
    PROVE  chopstick[s] = 1 /\ chopstick' = [chopstick EXCEPT ![s] = 0]
<1>1. chopstick[s] = 1
  BY DEF Pipes!TypeOK, Pipes!WaitSema
<1>2. chopstick' = [chopstick EXCEPT ![s] = chopstick[s] - 1]
  BY DEF Pipes!WaitSema
<1> QED
  BY <1>1, <1>2

LEMMA InitPipesInv == Pipes!Init => PipesInv
  BY NAssumption DEF Pipes!Init, PipesInv, Pipes!TypeOK, OneByte, NotForked, Grips, Pipes!Phil

(* A fork adds a hungry philosopher, with nothing in his hands. *)
LEMMA ForkInv == ASSUME PipesInv, Pipes!Fork PROVE PipesInv'
<1>1. next \in Pipes!Phil /\ place[next] = "unborn" /\ next' \in 0 .. N /\ next' > next
  BY NAssumption DEF Pipes!Fork, PipesInv, Pipes!TypeOK, NotForked, Pipes!Phil
<1>2. place' = [place EXCEPT ![next] = "hungry"] /\ chopstick' = chopstick
  BY DEF Pipes!Fork
<1>3. Pipes!TypeOK'
  BY <1>1, <1>2 DEF PipesInv, Pipes!TypeOK
<1>4. \A q, s \in Pipes!Phil : Grips(q, s)' <=> Grips(q, s)
  BY <1>1, <1>2 DEF PipesInv, Pipes!TypeOK, Grips
<1>5. OneByte'
  BY <1>2, <1>4 DEF PipesInv, OneByte
<1>6. NotForked'
  BY <1>1, <1>2 DEF PipesInv, Pipes!TypeOK, NotForked, Pipes!Phil
<1> QED
  BY <1>3, <1>5, <1>6 DEF PipesInv

(* A process changes its own hands and the pipe that goes with them. *)
LEMMA SeatedInv == ASSUME PipesInv, NEW p \in Pipes!Phil, Pipes!Philosopher(p) PROVE PipesInv'
<1>s. \A q \in Pipes!Phil :
         /\ Pipes!Left(q) \in Pipes!Phil /\ Pipes!Right(q) \in Pipes!Phil /\ Pipes!Left(q) # Pipes!Right(q)
         /\ Pipes!First(q) \in Pipes!Phil /\ Pipes!Second(q) \in Pipes!Phil /\ Pipes!First(q) # Pipes!Second(q)
         /\ {Pipes!First(q), Pipes!Second(q)} = {Pipes!Left(q), Pipes!Right(q)}
  BY PipesSides
<1>i. Pipes!TypeOK /\ OneByte /\ NotForked
  BY DEF PipesInv
<1>u. place[p] # "unborn" /\ UNCHANGED next /\ \E to : place' = [place EXCEPT ![p] = to]
  BY DEF Pipes!Philosopher, Pipes!PickUpFirst, Pipes!PickUpSecond, Pipes!PutDownLeft, Pipes!PutDownRight,
      Pipes!Think
<1>0. NotForked'
  BY <1>i, <1>u DEF NotForked, Pipes!TypeOK
<1>1. CASE Pipes!PickUpFirst(p)
  <2>1. chopstick[Pipes!First(p)] = 1 /\ chopstick' = [chopstick EXCEPT ![Pipes!First(p)] = 0]
    BY <1>1, <1>s, <1>i, WaitTakes DEF Pipes!PickUpFirst
  <2>2. Pipes!TypeOK'
    BY <1>1, <1>i, <2>1 DEF Pipes!PickUpFirst, Pipes!TypeOK
  <2>3. \A q, s \in Pipes!Phil : Grips(q, s)' <=> Grips(q, s) \/ (q = p /\ s = Pipes!First(p))
    BY <1>1, <1>i DEF Pipes!PickUpFirst, Pipes!TypeOK, Grips
  <2> QED
    BY <1>s, <1>i, <1>0, <2>1, <2>2, <2>3 DEF PipesInv, Pipes!TypeOK, OneByte
<1>2. CASE Pipes!PickUpSecond(p)
  <2>1. chopstick[Pipes!Second(p)] = 1 /\ chopstick' = [chopstick EXCEPT ![Pipes!Second(p)] = 0]
    BY <1>2, <1>s, <1>i, WaitTakes DEF Pipes!PickUpSecond
  <2>2. Pipes!TypeOK'
    BY <1>2, <1>i, <2>1 DEF Pipes!PickUpSecond, Pipes!TypeOK
  <2>3. \A q, s \in Pipes!Phil : Grips(q, s)' <=> Grips(q, s) \/ (q = p /\ s = Pipes!Second(p))
    BY <1>2, <1>s, <1>i DEF Pipes!PickUpSecond, Pipes!TypeOK, Grips
  <2> QED
    BY <1>s, <1>i, <1>0, <2>1, <2>2, <2>3 DEF PipesInv, Pipes!TypeOK, OneByte
<1>3. CASE Pipes!PutDownLeft(p)
  <2>1. Grips(p, Pipes!Left(p)) /\ chopstick[Pipes!Left(p)] = 0
    BY <1>3, <1>s, <1>i DEF Pipes!PutDownLeft, Grips, OneByte
  <2>2. chopstick' = [chopstick EXCEPT ![Pipes!Left(p)] = 1]
    BY <1>3, <1>s, <1>i, <2>1 DEF Pipes!PutDownLeft, Pipes!Signal, Pipes!TypeOK
  <2>3. Pipes!TypeOK'
    BY <1>3, <1>i, <2>2 DEF Pipes!PutDownLeft, Pipes!TypeOK
  <2>4. \A q, s \in Pipes!Phil : Grips(q, s)' <=> Grips(q, s) /\ ~ (q = p /\ s = Pipes!Left(p))
    BY <1>3, <1>s, <1>i DEF Pipes!PutDownLeft, Pipes!TypeOK, Grips
  <2> QED
    BY <1>s, <1>i, <1>0, <2>1, <2>2, <2>3, <2>4 DEF PipesInv, Pipes!TypeOK, OneByte
<1>4. CASE Pipes!PutDownRight(p)
  <2>1. Grips(p, Pipes!Right(p)) /\ chopstick[Pipes!Right(p)] = 0
    BY <1>4, <1>s, <1>i DEF Pipes!PutDownRight, Grips, OneByte
  <2>2. chopstick' = [chopstick EXCEPT ![Pipes!Right(p)] = 1]
    BY <1>4, <1>s, <1>i, <2>1 DEF Pipes!PutDownRight, Pipes!Signal, Pipes!TypeOK
  <2>3. Pipes!TypeOK'
    BY <1>4, <1>i, <2>2 DEF Pipes!PutDownRight, Pipes!TypeOK
  <2>4. \A q, s \in Pipes!Phil : Grips(q, s)' <=> Grips(q, s) /\ ~ (q = p /\ s = Pipes!Right(p))
    BY <1>4, <1>s, <1>i DEF Pipes!PutDownRight, Pipes!TypeOK, Grips
  <2> QED
    BY <1>s, <1>i, <1>0, <2>1, <2>2, <2>3, <2>4 DEF PipesInv, Pipes!TypeOK, OneByte
<1>5. CASE Pipes!Think(p)
  <2>1. \A q, s \in Pipes!Phil : Grips(q, s)' <=> Grips(q, s)
    BY <1>5, <1>i DEF Pipes!Think, Pipes!TypeOK, Grips
  <2> QED
    BY <1>5, <1>i, <1>0, <2>1 DEF Pipes!Think, PipesInv, Pipes!TypeOK, OneByte
<1> QED
  BY <1>1, <1>2, <1>3, <1>4, <1>5 DEF Pipes!Philosopher

LEMMA StepPipesInv == PipesInv /\ [Pipes!Next]_(Pipes!vars) => PipesInv'
<1>1. ASSUME PipesInv, UNCHANGED Pipes!vars PROVE PipesInv'
  BY <1>1 DEF Pipes!vars, PipesInv, Pipes!TypeOK, OneByte, NotForked, Grips
<1> QED
  BY <1>1, ForkInv, SeatedInv DEF Pipes!Next

LEMMA PipesInvHolds == Pipes!Spec => []PipesInv
  BY InitPipesInv, StepPipesInv, PTL DEF Pipes!Spec

(* E stays as it is or changes as somebody sits down to eat or gets up. *)
LEMMA PipesKeepTheTable == Pipes!Spec => Pipes!DiningSpec
<1> DEFINE E == {p \in Pipes!Phil : place[p] = "eating"}
<1>1. Pipes!Init => Pipes!Table!Init
  BY DEF Pipes!Init, Pipes!Table!Init
<1>2. ASSUME PipesInv, PipesInv', [Pipes!Next]_(Pipes!vars) PROVE [Pipes!Table!Next]_E
  <2>i. Pipes!TypeOK /\ OneByte'
    BY <1>2 DEF PipesInv
  <2>1. ASSUME NEW p \in Pipes!Phil, Pipes!PickUpSecond(p) PROVE Pipes!Table!StartEating(p)
    <3>1. E' = E \cup {p} /\ p \notin E
      BY <2>1, <2>i DEF Pipes!PickUpSecond, Pipes!TypeOK
    <3>2. ASSUME NEW q \in E, Pipes!Neighbours(p, q) PROVE FALSE
      <4>1. p # q /\ q \in Pipes!Phil /\ place'[q] = "eating" /\ place'[p] = "eating"
        BY <2>1, <2>i, <3>1, <3>2 DEF Pipes!PickUpSecond, Pipes!TypeOK, Pipes!Neighbours
      <4>2. CASE Pipes!Right(p) = q
        BY <2>i, <4>1, <4>2, PipesSides DEF OneByte, Grips, Pipes!Left
      <4>3. CASE Pipes!Right(q) = p
        BY <2>i, <4>1, <4>3, PipesSides DEF OneByte, Grips, Pipes!Left
      <4> QED
        BY <3>2, <4>2, <4>3 DEF Pipes!Neighbours
    <3> QED
      BY <3>1, <3>2, PipesSides
         DEF Pipes!Table!StartEating, Pipes!Table!Neighbours, Pipes!Table!Right, Pipes!Neighbours, Pipes!Right
  <2>2. ASSUME NEW p \in Pipes!Phil, Pipes!PutDownLeft(p) PROVE Pipes!Table!StopEating(p)
    BY <2>2, <2>i DEF Pipes!PutDownLeft, Pipes!TypeOK, Pipes!Table!StopEating
  <2>3. ASSUME NEW p \in Pipes!Phil, Pipes!PickUpFirst(p) \/ Pipes!PutDownRight(p) \/ Pipes!Think(p)
        PROVE  E' = E
    BY <2>3, <2>i DEF Pipes!PickUpFirst, Pipes!PutDownRight, Pipes!Think, Pipes!TypeOK
  <2>4. CASE Pipes!Fork
    <3>1. next \in Pipes!Phil /\ place[next] = "unborn" /\ place' = [place EXCEPT ![next] = "hungry"]
      BY <2>4, <1>2, NAssumption DEF Pipes!Fork, PipesInv, NotForked, Pipes!TypeOK, Pipes!Phil
    <3> QED
      BY <3>1, <2>i DEF Pipes!TypeOK
  <2>5. CASE UNCHANGED Pipes!vars
    BY <2>5 DEF Pipes!vars
  <2> QED
    BY <1>2, <2>1, <2>2, <2>3, <2>4, <2>5
       DEF Pipes!Next, Pipes!Philosopher, Pipes!Table!Next, Pipes!Phil, Pipes!Table!Phil
<1> QED
  BY <1>1, <1>2, PipesInvHolds, PTL DEF Pipes!Spec, Pipes!DiningSpec, Pipes!Table!Spec

(* filosof takes the steps of its own specification, or it is not run. *)
LEMMA RunsPipes ==
    ASSUME [Threads(Next) \/ Processes(Pipes!Next)]_mcvars
    PROVE  [Pipes!Next]_(Pipes!vars)
  BY DEF mcvars, forkonly, Threads, Processes, Pipes!vars

(* For every number of philosophers, and with a fork() that fails at any place,
   philosopher() eats only while neither neighbour does. *)
THEOREM SeatedImplementDining == MCSpec => SeatedDine
<1>1. MCInit => Pipes!Init
  BY DEF MCInit
<1>2. MCSpec => Pipes!Spec
  BY <1>1, RunsPipes, PTL DEF MCSpec, Pipes!Spec
<1> QED
  BY <1>2, PipesKeepTheTable DEF SeatedDine
=============================================================================
