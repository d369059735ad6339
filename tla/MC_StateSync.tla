---------------------------- MODULE MC_StateSync ----------------------------
(* Instances of StateSync for TLC.                                         *)
EXTENDS StateSync, TLC

CONSTANTS a1, p1, me, none, c1, c2

\* One contract that this worker and a peer both execute.
Contended == {<<me, a1>>, <<p1, a1>>}
OnlyTwo   == (a1 :> 2)
=============================================================================
