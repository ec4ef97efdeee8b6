----------------------------- MODULE PopServer -----------------------------
(***************************************************************************)
(* A POP server as popdump knows it: a session numbers the mail that is    *)
(* there when it starts, marks what is to be deleted, and deletes it at    *)
(* QUIT.  The connection may break at any time.                            *)
(***************************************************************************)
EXTENDS Naturals, Sequences, FiniteSets, SequencesExt

CONSTANTS Mail, Text  \* Text[m]: the lines of a mail

\* All that is said over a connection.
AllLines == {"", "+", "-", ".", "text"} \cup UNION {ToSet(Text[m]) : m \in Mail}

\* A line that is a dot only ends a mail: the server doubles the dot of one that is not.
MailAssumption ==
    /\ IsFiniteSet(Mail)
    /\ \A m \in Mail : Text[m] \in Seq(AllLines) /\ "." \notin ToSet(Text[m])

VARIABLES
    arrived, \* mail that has come for the user
    drop,    \* mail that is on the server
    listed,  \* mail of the session, by number
    marked,  \* numbers that are to be deleted
    wire,    \* lines on their way to the client
    hungup   \* there is no connection

session == <<listed, marked>>
server == <<arrived, drop, session, wire, hungup>>

ServerInit ==
    /\ drop \in SUBSET Mail /\ arrived = drop
    /\ listed = <<>> /\ marked = {} /\ wire = <<>> /\ hungup = TRUE

ServerTypeOK ==
    /\ drop \subseteq arrived /\ arrived \subseteq Mail
    /\ ToSet(listed) \subseteq Mail /\ marked \subseteq DOMAIN listed
    /\ hungup \in BOOLEAN

Deliver ==
    /\ \E m \in Mail \ arrived : drop' = drop \cup {m} /\ arrived' = arrived \cup {m}
    /\ UNCHANGED <<session, wire, hungup>>

\* Of what was on its way the client gets the beginning.
HangUp ==
    /\ ~ hungup /\ hungup' = TRUE
    /\ \E n \in 0 .. Len(wire) : wire' = SubSeq(wire, 1, n)
    /\ UNCHANGED <<arrived, drop, session>>

\* A client has connected and is greeted.
Greet(line) ==
    /\ hungup /\ hungup' = FALSE
    /\ listed' = SetToSeq(drop) /\ marked' = {}
    /\ wire' = <<line>>
    /\ UNCHANGED <<arrived, drop>>

\* A client leaves without QUIT.
Leave == hungup' = TRUE /\ wire' = <<>> /\ UNCHANGED <<arrived, drop, session>>

\* The server carries out a command, or refuses it.
Says(lines) == wire' = wire \o lines
Refuse == Says(<<"-">>) /\ UNCHANGED <<arrived, drop, session, hungup>>
Agree(lines) == Says(lines) /\ UNCHANGED <<arrived, drop, session, hungup>>
There(n) == n \in DOMAIN listed \ marked
Retrieve(n) == There(n) /\ Agree(<<"+">> \o Text[listed[n]] \o <<".">>)
Delete(n) ==
    /\ There(n) /\ Says(<<"+">>)
    /\ marked' = marked \cup {n}
    /\ UNCHANGED <<arrived, drop, listed, hungup>>
Quit ==
    /\ Says(<<"+">>)
    /\ drop' = drop \ {listed[n] : n \in marked}
    /\ hungup' = TRUE
    /\ UNCHANGED <<arrived, session>>
==============================================================================
