---------------------------- MODULE MC_WorkerInit ----------------------------
(* TLC instance of WorkerInit. *)
EXTENDS WorkerInit

CONSTANTS p1, o1

MCPeers == {p1}
MCOperators == {o1}

=============================================================================
