------------------------------ MODULE ChatRoom ------------------------------
(***************************************************************************)
(* What a chat server promises: nobody takes the nickname of somebody in   *)
(* the room, and everybody in the room is sent what is said after they     *)
(* entered, all in one order, without gaps or repetitions.                 *)
(***************************************************************************)
EXTENDS Naturals, Sequences

CONSTANTS Client, Name, NoName, Said, Reply

VARIABLES
    inside,    \* who is in the room
    nick,      \* nick[c]: nickname or NoName
    pending,   \* pending[c]: what c has still to hear
    open,      \* open[c]: c has not hung up
    inbox      \* inbox[c]: what has reached c and is not read

vars == <<inside, nick, pending, open, inbox>>

Init ==
    /\ inside = {}
    /\ nick = [c \in Client |-> NoName]
    /\ pending = [c \in Client |-> <<>>]
    /\ open = [c \in Client |-> TRUE]
    /\ inbox = [c \in Client |-> <<>>]

Free(n) == \A c \in inside : nick[c] # n

Enter(c, n) ==
    /\ c \notin inside
    /\ n = NoName \/ Free(n)
    /\ inside' = inside \cup {c}
    /\ nick' = [nick EXCEPT ![c] = n]
    /\ UNCHANGED <<pending, open, inbox>>

TakeName(c, n) ==
    /\ c \in inside
    /\ nick[c] = NoName
    /\ Free(n)
    /\ nick' = [nick EXCEPT ![c] = n]
    /\ UNCHANGED <<inside, pending, open, inbox>>

Say(c, what) ==
    /\ c \in inside
    /\ nick[c] # NoName
    /\ pending' = [d \in Client |->
           IF d \in inside THEN Append(pending[d], <<nick[c], what>>) ELSE pending[d]]
    /\ UNCHANGED <<inside, nick, open, inbox>>

Gets(c, line) ==
    inbox' = [inbox EXCEPT ![c] = IF open[c] THEN Append(@, line) ELSE @]

Hear(c) ==
    /\ pending[c] # <<>>
    /\ Gets(c, Head(pending[c]))
    /\ pending' = [pending EXCEPT ![c] = Tail(@)]
    /\ UNCHANGED <<inside, nick, open>>

Answer(c) ==
    /\ Gets(c, Reply)
    /\ UNCHANGED <<inside, nick, pending, open>>

Read(c) ==
    /\ inbox[c] # <<>>
    /\ inbox' = [inbox EXCEPT ![c] = Tail(@)]
    /\ UNCHANGED <<inside, nick, pending, open>>

HangUp(c) ==
    /\ open' = [open EXCEPT ![c] = FALSE]
    /\ inbox' = [inbox EXCEPT ![c] = <<>>]
    /\ UNCHANGED <<inside, nick, pending>>

\* One who leaves has heard what was said.
Leave(c) ==
    /\ c \in inside
    /\ pending[c] = <<>>
    /\ inside' = inside \ {c}
    /\ nick' = [nick EXCEPT ![c] = NoName]
    /\ open' = [open EXCEPT ![c] = FALSE]
    /\ inbox' = [inbox EXCEPT ![c] = <<>>]
    /\ UNCHANGED pending

Next ==
    \E c \in Client :
        \/ \E n \in Name \cup {NoName} : Enter(c, n)
        \/ \E n \in Name : TakeName(c, n)
        \/ \E what \in Said : Say(c, what)
        \/ Hear(c)
        \/ Answer(c)
        \/ Read(c)
        \/ HangUp(c)
        \/ Leave(c)

Spec == Init /\ [][Next]_vars
==============================================================================
