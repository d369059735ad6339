---------------------------- MODULE MC_RpcGateway ----------------------------
(* TLC instance of RpcGateway. *)
EXTENDS RpcGateway

CONSTANTS r1, r2, t1, t2

MCRequests == {r1, r2}
MCTasks == {t1, t2}

=============================================================================
