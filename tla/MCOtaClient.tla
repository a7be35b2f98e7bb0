---------------------------- MODULE MCOtaClient ----------------------------
(* Small instances of OtaClient.                                           *)
EXTENDS OtaClient

CONSTANTS v1, v2

\* one file with everything that may go wrong, and a change of files with and
\* without power losses
MishapWorlds == {[offers |-> {v1}, mishaps |-> Mishap],
                 [offers |-> {v1, v2}, mishaps |-> {}],
                 [offers |-> {v1, v2}, mishaps |-> {"crash"}]}

\* one file and a server that may stay silent
CalmWorlds == {[offers |-> {v1}, mishaps |-> {}]}
=============================================================================
