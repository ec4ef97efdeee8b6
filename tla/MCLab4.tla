------------------------------- MODULE MCLab4 -------------------------------
(***************************************************************************)
(* The server in Java with clients that connect when they like.            *)
(***************************************************************************)
EXTENDS Lab4Server

Anyhow == [c \in Client |-> {}]
Says == [c \in Client |-> {"says"}]
==============================================================================
