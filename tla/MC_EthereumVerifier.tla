------------------------ MODULE MC_EthereumVerifier ------------------------
(* Instances of EthereumVerifier for TLC.                                  *)
EXTENDS EthereumVerifier, TLC

CONSTANTS c1, c2, s1, s2, t1

\* Every call is about one task: what interferes is what shares an id.
OneTask == [c \in Calls |-> t1]
============================================================================
