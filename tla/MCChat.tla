------------------------------- MODULE MCChat -------------------------------
(***************************************************************************)
(* Both chat servers, of which a behaviour runs one, with three clients    *)
(* and two names.                                                          *)
(***************************************************************************)
EXTENDS ChatSrv

CONSTANTS
    ann, bob, cy,
    Follows  \* as in Lab4Server

VARIABLES running, listening, table

Lines == (ann :> {"says"}) @@ (bob :> {"list", "unknown"}) @@ (cy :> {})
OneByOne == (ann :> {}) @@ (bob :> {ann}) @@ (cy :> {ann, bob})

\* Of two clients one has seen the other served before it connects.
ASSUME FollowsAssumption ==
    /\ Follows \in [Client -> SUBSET Client]
    /\ \A c, d \in Client : c # d => c \in Follows[d] \/ d \in Follows[c]

Lab4 == INSTANCE Lab4Server

mcvars == <<running, vars, listening, table>>

\* Steps of one server and of the other.
Cpp(A) == running = "chatsrv" /\ A /\ UNCHANGED <<running, listening, table>>
Java(A) == running = "lab4server" /\ A /\ UNCHANGED <<running, first>>

MCInit ==
    \/ running = "chatsrv" /\ Init /\ listening = FALSE /\ table = <<>>
    \/ running = "lab4server" /\ Lab4!Init /\ first = <<>>

MCSpec ==
    /\ MCInit
    /\ [][Cpp(Next) \/ Java(Lab4!Next)]_mcvars
    /\ \A d \in Client :
        /\ WF_mcvars(Cpp(Reads(d)) \/ Java(Lab4!Reads(d)))
        /\ SF_mcvars(Cpp(SendMsg(d)) \/ Java(Lab4!SendMsg(d)))
        /\ WF_mcvars(Cpp(End(d)) \/ Cpp(ParseCommand(d)) \/ Java(Lab4!End(d)))

\* Either server keeps a chat room.
OneRoom == INSTANCE ChatRoom WITH
    inside <- IF running = "chatsrv" THEN Inside ELSE Lab4!Inside,
    nick <- IF running = "chatsrv" THEN name ELSE Lab4!Nick,
    pending <- IF running = "chatsrv" THEN Pending ELSE Lab4!Pending
ARoom == OneRoom!Spec
==============================================================================
