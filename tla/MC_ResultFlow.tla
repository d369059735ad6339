--------------------------- MODULE MC_ResultFlow ---------------------------
(* Instances of ResultFlow for TLC.                                        *)
EXTENDS ResultFlow, TLC

CONSTANTS w1, w2, d, t1, t2, sc, none

\* A contract that w1 deploys and both workers compute on.
OneContract == [t \in {d, t1, t2} |-> sc]
Selected    == (d :> w1) @@ (t1 :> w1) @@ (t2 :> w2)
\* The result of t2 reaches w1 twice, that of t1 is lost.
Repeated    == (d :> 1) @@ (t1 :> 0) @@ (t2 :> 2)
=============================================================================
