-------------------------------- MODULE MCPop --------------------------------
(***************************************************************************)
(* popdump with three messages: one line, two lines, and none.             *)
(***************************************************************************)
EXTENDS PopDump, TLC

Texts == ("a" :> <<"text">>) @@ ("b" :> <<"", "text">>) @@ ("c" :> <<>>)
==============================================================================
