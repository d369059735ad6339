------------------------------ MODULE Replica ------------------------------
(***************************************************************************)
(* What a worker's copy of the secret-contract states may do, said without *)
(* tips, requests, providers or streams.  The ledger (the delta hashes of  *)
(* the Enigma contract) only grows.  The replica gains deltas this worker  *)
(* computed itself or deltas the ledger holds, and nothing else; it may    *)
(* lose deltas, but never one that was on the ledger when the current      *)
(* comparison with Ethereum (frozen) began.                                *)
(***************************************************************************)
EXTENDS Naturals

CONSTANTS
    Addrs,    \* secret contracts
    Indexes,  \* delta indexes
    Authors,  \* workers: a delta is identified by the worker that computed it
    Self,     \* this worker
    None      \* no delta

VARIABLES
    ledger,   \* the confirmed delta hashes of Ethereum
    replica,  \* the deltas core keeps
    frozen    \* the cells the ledger held when the comparison began

vars == <<ledger, replica, frozen>>

Cells     == Addrs \X Indexes
Held(s)   == {x \in Cells : s[x[1]][x[2]] # None}
Store     == [Addrs -> [Indexes -> Authors \cup {None}]]
Empty     == [a \in Addrs |-> [i \in Indexes |-> None]]

Init ==
    /\ ledger = Empty
    /\ replica = Empty
    /\ frozen = {}

\* A receipt is confirmed: one cell of the ledger is filled, for ever.
Commit ==
    /\ \E a \in Addrs, i \in Indexes, n \in Authors :
          /\ ledger[a][i] = None
          /\ ledger' = [ledger EXCEPT ![a][i] = n]
    /\ UNCHANGED <<replica, frozen>>

\* This worker executes a task and keeps the delta.
Execute ==
    /\ \E a \in Addrs, i \in Indexes :
          replica' = [replica EXCEPT ![a][i] = Self]
    /\ UNCHANGED <<ledger, frozen>>

\* The replica copies cells of the ledger.
Copy ==
    /\ replica' \in Store
    /\ \A a \in Addrs, i \in Indexes :
          \/ replica'[a][i] = replica[a][i]
          \/ ledger[a][i] # None /\ replica'[a][i] = ledger[a][i]
    /\ UNCHANGED <<ledger, frozen>>

\* The replica drops deltas the comparison found to be in excess.
Drop ==
    /\ replica' \in Store
    /\ \A a \in Addrs, i \in Indexes :
          \/ replica'[a][i] = replica[a][i]
          \/ replica'[a][i] = None /\ <<a, i>> \notin frozen
    /\ UNCHANGED <<ledger, frozen>>

\* A comparison begins.
Freeze ==
    /\ frozen' = Held(ledger)
    /\ UNCHANGED <<ledger, replica>>

Next == Commit \/ Execute \/ Copy \/ Drop \/ Freeze

Spec == Init /\ [][Next]_vars
=============================================================================
