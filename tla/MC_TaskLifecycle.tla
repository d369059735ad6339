------------------------- MODULE MC_TaskLifecycle -------------------------
(* Instances of TaskLifecycle for TLC.                                     *)
EXTENDS TaskLifecycle, TLC

CONSTANTS r1, r2, r3, d1, d2, c1

\* A deploy that arrives twice and a compute task that arrives once.
DeployTwice == (r1 :> d1) @@ (r2 :> d1) @@ (r3 :> c1)
\* Two deploys, each submitted once, alone and with a compute task.
TwoDeploysOneCompute == (r1 :> d1) @@ (r2 :> d2) @@ (r3 :> c1)
TwoDeploys == (r1 :> d1) @@ (r2 :> d2)
=============================================================================
