-------------------------- MODULE StateSync_proofs --------------------------
(***************************************************************************)
(* Theorems about StateSync: core never keeps a foreign delta that         *)
(* Ethereum does not have, and the pipeline with its surroundings          *)
(* implements Replica, for any workers, contracts, bounds and failures.    *)
(***************************************************************************)
EXTENDS StateSync, FiniteSetTheorems, TLAPS

Fields == {"phase", "caller", "tips", "listed", "missing", "excess", "provs",
           "cur", "attempt", "req", "wire", "short"}

\* The shape of the variables the theorems are about.  Of the pipeline's local
\* variables only the two lists matter: which fields there are, and that the
\* lists have an entry per contract.
Shape ==
    /\ chain \in [Addrs -> Row]
    /\ store \in [Workers -> [Addrs -> Row]]
    /\ run = [f \in Fields |-> run[f]]
    /\ run.missing \in [Addrs -> Row]
    /\ run.excess = [a \in Addrs |-> run.excess[a]]

\* Ethereum fills the deltas of a contract in order.
ChainIsPrefix ==
    \A a \in Addrs : \E n \in Nat : \A i \in Indexes : chain[a][i] # None <=> i < n

\* What was on the chain when the latest run began still is.
BegunOnChain == begun \subseteq Cells(chain)

\* remoteMissingStatesMap may be old, but what it says is still right.
MissingIsOnChain ==
    \A a \in Addrs, i \in Indexes : run.missing[a][i] \in {None, chain[a][i]}

\* The entry e of excessList for contract a names no delta that was on the
\* chain when the run began.
NotBegun(a, e) ==
    e.localTip > e.remoteTip => \A i \in Removed(e) : <<a, i>> \notin begun

ExcessNotBegun == \A a \in Addrs : NotBegun(a, run.excess[a])

IInv ==
    /\ Shape
    /\ ChainIsPrefix
    /\ BegunOnChain
    /\ MissingIsOnChain
    /\ ExcessNotBegun
    /\ ForeignDeltaOnChain
-----------------------------------------------------------------------------
(* Facts about constants.                                                  *)

LEMMA Constants ==
    /\ Self \in Workers
    /\ None \notin Workers
    /\ Indexes \subseteq Nat
    /\ EmptyRow \in Row
    /\ \A i \in Indexes : EmptyRow[i] = None
  BY ConstantsAssumption DEF Workers, Indexes, Row, EmptyRow

\* The length of a row without gaps is the first free index.
LEMMA LengthOfPrefix ==
    ASSUME NEW r \in Row, NEW n \in Nat,
           \A i \in Indexes : r[i] # None <=> i < n
    PROVE  /\ Length(r) \in Nat
           /\ \A i \in Indexes : r[i] # None <=> i < Length(r)
<1>. DEFINE m == IF n < MaxLen THEN n ELSE MaxLen
<1>1. m \in Nat /\ \A i \in Indexes : i < n <=> i < m
  BY ConstantsAssumption DEF Indexes
<1>2. Filled(r) = 0..(m - 1)
  BY <1>1, ConstantsAssumption DEF Filled, Indexes
<1>3. Cardinality(0..(m - 1)) = m
  <2>. HIDE DEF m
  <2>1. 0 \in Int /\ m - 1 \in Int
    BY <1>1
  <2>2. Cardinality(0..(m - 1)) = IF 0 > m - 1 THEN 0 ELSE (m - 1) - 0 + 1
    BY <2>1, FS_Interval, Zenon
  <2>. QED
    BY <1>1, <2>2
<1>. QED
  BY <1>1, <1>2, <1>3 DEF Length

\* NoExcess asks for nothing.
LEMMA NoExcessNotBegun == \A a \in Addrs : NotBegun(a, NoExcess)
  BY DEF NotBegun, NoExcess

\* The initial values of the local variables.
LEMMA IdleShape ==
    /\ Idle = [f \in Fields |-> Idle[f]]
    /\ Idle.missing = Empty
    /\ Idle.excess = [a \in Addrs |-> NoExcess]
  BY DEF Idle, Fields
-----------------------------------------------------------------------------
(* Steps that leave the deltas alone.                                      *)

\* The new local variables keep the two lists, or forget them or an entry.
KeepsLists(r) ==
    /\ r = [f \in Fields |-> r[f]]
    /\ r.missing \in {run.missing, Empty}
    /\ r.excess = [a \in Addrs |-> r.excess[a]]
    /\ \A a \in Addrs : r.excess[a] \in {run.excess[a], NoExcess}

\* What is left to show of a step that writes deltas.
LEMMA DeltasKeepIInv ==
    ASSUME IInv, KeepsLists(run'), UNCHANGED <<chain, begun>>,
           store' \in [Workers -> [Addrs -> Row]], ForeignDeltaOnChain'
    PROVE  IInv'
<1>1. Shape'
  BY Constants DEF IInv, Shape, KeepsLists, Empty
<1>2. ChainIsPrefix' /\ BegunOnChain'
  BY DEF IInv, ChainIsPrefix, BegunOnChain, Cells
<1>3. MissingIsOnChain'
  BY Constants DEF IInv, MissingIsOnChain, KeepsLists, Empty
<1>4. ExcessNotBegun'
  BY NoExcessNotBegun DEF IInv, ExcessNotBegun, KeepsLists, NotBegun
<1>. QED
  BY <1>1, <1>2, <1>3, <1>4 DEF IInv

\* A step that is invisible to the replica.
Unseen == KeepsLists(run') /\ UNCHANGED <<chain, store, begun>>

LEMMA UnseenKeepsIInv == IInv /\ Unseen => IInv'
<1>. SUFFICES ASSUME IInv, Unseen PROVE IInv'
  OBVIOUS
<1>1. store' \in [Workers -> [Addrs -> Row]] /\ ForeignDeltaOnChain'
  BY DEF Unseen, IInv, Shape, ForeignDeltaOnChain
<1>. QED
  BY <1>1, DeltasKeepIInv DEF Unseen

LEMMA EndKeepsLists == KeepsLists(Idle)
  BY IdleShape DEF KeepsLists

LEMMA StuckKeepsLists == KeepsLists([Idle EXCEPT !.phase = "stuck"])
  BY IdleShape DEF KeepsLists, Fields

LEMMA QuietPipeline ==
    ASSUME Shape,
           \/ GetAllTips \/ IdentifyMissingStates \/ FindContentProvider
           \/ \E a \in Addrs : FindProvider(a) \/ TryReceive(a)
           \/ TryReceiveAllDone \/ Dial \/ ProviderResponds \/ ReceiverRejects
           \/ StreamEnds \/ Finish
    PROVE  Unseen
<1>. USE EndKeepsLists, StuckKeepsLists DEF Unseen, envVars, Continue, GoTo, Abort, Hang
<1>0. run = [f \in Fields |-> run[f]] /\ run.excess = [a \in Addrs |-> run.excess[a]]
  BY DEF Shape
<1>1. CASE GetAllTips
  BY <1>0, <1>1 DEF GetAllTips, KeepsLists, Fields
<1>2. CASE IdentifyMissingStates
  BY <1>0, <1>2 DEF IdentifyMissingStates, KeepsLists, Fields
<1>3. CASE FindContentProvider
  BY <1>0, <1>3 DEF FindContentProvider, ProvidersErrored, KeepsLists, Fields
<1>4. ASSUME NEW a \in Addrs, FindProvider(a) PROVE Unseen
  BY <1>0, <1>4 DEF FindProvider, Found, KeepsLists, Fields
<1>5. ASSUME NEW a \in Addrs, TryReceive(a) PROVE Unseen
  BY <1>0, <1>5 DEF TryReceive, ReceiveFailed, KeepsLists, Fields
<1>6. CASE TryReceiveAllDone
  BY <1>0, <1>6 DEF TryReceiveAllDone, KeepsLists, Fields
<1>7. CASE Dial
  BY <1>0, <1>7 DEF Dial, AttemptFails, ReceiveFailed, KeepsLists, Fields
<1>8. CASE ProviderResponds
  BY <1>0, <1>8 DEF ProviderResponds, KeepsLists, Fields
<1>9. CASE ReceiverRejects
  BY <1>0, <1>9 DEF ReceiverRejects, AttemptFails, ReceiveFailed, KeepsLists, Fields
<1>10. CASE StreamEnds
  BY <1>0, <1>10 DEF StreamEnds, AttemptFails, ReceiveFailed, KeepsLists, Fields
<1>11. CASE Finish
  BY <1>0, <1>11 DEF Finish
<1>. QED
  BY <1>1, <1>2, <1>3, <1>4, <1>5, <1>6, <1>7, <1>8, <1>9, <1>10, <1>11
-----------------------------------------------------------------------------
(* Steps that renew a list.                                                *)

\* GET_ALL_SECRET_CONTRACT_ADDRESSES: a contract that is not listed has no
\* delta on the chain, so none when the run began.
LEMMA AddressesKeepIInv == IInv /\ GetAllSecretContractAddresses => IInv'
<1>. SUFFICES ASSUME IInv, GetAllSecretContractAddresses PROVE IInv'
  OBVIOUS
<1>. DEFINE remote == {a \in Addrs : Filled(chain[a]) # {}}
<1>. DEFINE excess == [a \in Addrs |-> IF a \in remote THEN NoExcess
                         ELSE [remoteTip |-> 0, localTip |-> run.tips[a]]]
<1>1. UNCHANGED <<chain, store, begun>>
  BY DEF GetAllSecretContractAddresses, envVars
<1>2. CASE Abort
  BY <1>1, <1>2, EndKeepsLists, UnseenKeepsIInv DEF Abort, Unseen
<1>3. CASE Continue([run EXCEPT !.phase = "compare", !.listed = remote, !.excess = excess])
  <2>1. /\ run' = [f \in Fields |-> run'[f]]
        /\ run'.missing = run.missing /\ run'.excess = excess
    <3>. HIDE DEF excess, remote
    <3>. QED  BY <1>3 DEF Continue, IInv, Shape, Fields
  <2>2. Shape'
    BY <1>1, <2>1 DEF IInv, Shape
  <2>3. ChainIsPrefix' /\ BegunOnChain' /\ ForeignDeltaOnChain' /\ MissingIsOnChain'
    BY <1>1, <2>1 DEF IInv, ChainIsPrefix, BegunOnChain, ForeignDeltaOnChain, Cells,
                      MissingIsOnChain
  <2>4. ASSUME NEW a \in Addrs PROVE NotBegun(a, excess[a])
    <3>1. CASE a \in remote
      BY <3>1, NoExcessNotBegun
    <3>2. CASE a \notin remote
      <4>1. \A i \in Indexes : <<a, i>> \notin begun
        BY <3>2 DEF IInv, BegunOnChain, Cells, Filled
      <4>. QED
        BY <4>1 DEF NotBegun, Removed
    <3>. QED
      BY <3>1, <3>2
  <2>5. ExcessNotBegun'
    BY <1>1, <2>1, <2>4 DEF ExcessNotBegun, NotBegun
  <2>. QED
    BY <2>2, <2>3, <2>5 DEF IInv
<1>. QED
  BY <1>2, <1>3 DEF GetAllSecretContractAddresses

\* compareLocalStateToRemote: the deltas from the remote tip on are not on the
\* chain, since the chain has no gaps.
LEMMA CompareKeepsIInv == ASSUME IInv, NEW a \in Addrs, CompareContract(a) PROVE IInv'
<1>1. UNCHANGED <<chain, store, begun>>
  BY DEF CompareContract, envVars
<1>2. CASE Abort
  BY <1>1, <1>2, EndKeepsLists, UnseenKeepsIInv DEF Abort, Unseen
<1>3. CASE Continue([run EXCEPT !.listed = @ \ {a},
                                !.missing[a] = MissingDeltas(a),
                                !.excess[a] = LeftOver(a)])
  <2>1. /\ run' = [f \in Fields |-> run'[f]]
        /\ run'.missing = [run.missing EXCEPT ![a] = MissingDeltas(a)]
        /\ run'.excess = [run.excess EXCEPT ![a] = LeftOver(a)]
    BY <1>3 DEF Continue, IInv, Shape, Fields
  <2>2. /\ MissingDeltas(a) \in Row
        /\ \A i \in Indexes : MissingDeltas(a)[i] \in {None, chain[a][i]}
    BY DEF MissingDeltas, GetContractParams, Row, IInv, Shape
  <2>3. Shape'
    BY <1>1, <2>1, <2>2 DEF IInv, Shape
  <2>4. ChainIsPrefix' /\ BegunOnChain' /\ ForeignDeltaOnChain'
    BY <1>1 DEF IInv, ChainIsPrefix, BegunOnChain, ForeignDeltaOnChain, Cells
  <2>5. MissingIsOnChain'
    BY <1>1, <2>1, <2>2 DEF IInv, Shape, MissingIsOnChain
  <2>6. NotBegun(a, LeftOver(a))
    <3>1. CASE LeftOver(a) = NoExcess
      BY <3>1, NoExcessNotBegun
    <3>2. CASE LeftOver(a) = [remoteTip |-> Length(chain[a]), localTip |-> run.tips[a]]
      <4>1. PICK n \in Nat : \A i \in Indexes : chain[a][i] # None <=> i < n
        BY DEF IInv, ChainIsPrefix
      <4>2. /\ Length(chain[a]) \in Nat
            /\ \A i \in Indexes : chain[a][i] # None <=> i < Length(chain[a])
        BY <4>1, LengthOfPrefix DEF IInv, Shape
      <4>3. \A i \in Indexes : <<a, i>> \in begun => chain[a][i] # None
        BY DEF IInv, BegunOnChain, Cells
      <4>4. \A i \in Removed(LeftOver(a)) : i \in Indexes /\ ~ (i < Length(chain[a]))
        <5>1. LeftOver(a).remoteTip = Length(chain[a])
          BY <3>2
        <5>. QED
          BY <4>2, <5>1, Constants DEF Removed
      <4>. QED
        BY <4>2, <4>3, <4>4 DEF NotBegun
    <3>. QED
      BY <3>1, <3>2 DEF LeftOver, GetContractParams
  <2>7. ExcessNotBegun'
    BY <1>1, <2>1, <2>6 DEF IInv, Shape, ExcessNotBegun, NotBegun
  <2>. QED
    BY <2>3, <2>4, <2>5, <2>7 DEF IInv
<1>. QED
  BY <1>2, <1>3 DEF CompareContract

\* execute: the lists are empty when a run begins, or nothing is seen.
LEMMA ExecuteKeepsIInv ==
    ASSUME IInv, NEW c \in Calls, SyncExecute(c)
    PROVE  /\ IInv'
           /\ UNCHANGED <<chain, store>>
           /\ begun' \in {begun, Cells(chain)}
<1>1. UNCHANGED <<chain, store>>
  BY DEF SyncExecute, envVars
<1>2. CASE Refuse(c)
  <2>1. Unseen
    BY <1>1, <1>2 DEF Refuse, Unseen, KeepsLists, IInv, Shape
  <2>. QED
    BY <1>1, <1>2, <2>1, UnseenKeepsIInv DEF Refuse
<1>3. CASE Begin(c)
  <2>1. /\ run' = [f \in Fields |-> run'[f]]
        /\ run'.missing = Empty
        /\ run'.excess = [a \in Addrs |-> NoExcess]
        /\ begun' = Cells(chain)
    BY <1>3, IdleShape DEF Begin, Fields
  <2>2. Shape'
    BY <1>1, <2>1, Constants DEF IInv, Shape, Empty
  <2>3. ChainIsPrefix' /\ ForeignDeltaOnChain' /\ BegunOnChain'
    BY <1>1, <2>1 DEF IInv, ChainIsPrefix, ForeignDeltaOnChain, BegunOnChain, Cells
  <2>4. MissingIsOnChain'
    BY <2>1, Constants DEF MissingIsOnChain, Empty
  <2>5. ExcessNotBegun'
    BY <2>1 DEF ExcessNotBegun, NotBegun, NoExcess
  <2>. QED
    BY <1>1, <2>1, <2>2, <2>3, <2>4, <2>5 DEF IInv
<1>. QED
  BY <1>2, <1>3 DEF SyncExecute
-----------------------------------------------------------------------------
(* Steps that write deltas.  Each is shown to keep the invariant and to be a *)
(* step of the replica.                                                    *)

ReplicaStep == [Replicated!Next]_(Replicated!vars)

LEMMA UnseenIsStutter == Unseen => ReplicaStep
  BY DEF Unseen, ReplicaStep, Replicated!vars

\* A row of this worker's core that is written whole is a copy, when every
\* changed delta is Ethereum's.
LEMMA CopyStep ==
    ASSUME IInv, UNCHANGED <<chain, begun>>,
           store' \in [Workers -> [Addrs -> Row]],
           \A a \in Addrs, i \in Indexes :
              \/ store'[Self][a][i] = store[Self][a][i]
              \/ chain[a][i] # None /\ store'[Self][a][i] = chain[a][i]
    PROVE  ForeignDeltaOnChain' /\ ReplicaStep
<1>1. ForeignDeltaOnChain'
  BY DEF IInv, ForeignDeltaOnChain
<1>2. store'[Self] \in Replicated!Store
  BY Constants DEF Replicated!Store, Row
<1>3. Replicated!Copy
  BY <1>2 DEF Replicated!Copy
<1>. QED
  BY <1>1, <1>3 DEF ReplicaStep, Replicated!Next

LEMMA QuietKeepsLists == ASSUME IInv, Quiet PROVE KeepsLists(run') /\ begun' = begun
  BY DEF IInv, Shape, Quiet, KeepsLists

LEMMA ExecuteStep ==
    ASSUME IInv, NEW w \in Workers, NEW a \in Addrs, Execute(w, a)
    PROVE  IInv' /\ ReplicaStep
<1>. DEFINE j == TipOf(store[w][a])
<1>1. store' = [store EXCEPT ![w][a][j] = w] /\ chain' = chain /\ Quiet
  BY DEF Execute
<1>. HIDE DEF j
<1>2. KeepsLists(run') /\ begun' = begun
  BY <1>1, QuietKeepsLists
<1>3. CASE w # Self \/ j \notin Indexes
  <2>1. store' = [store EXCEPT ![w] = [store[w] EXCEPT ![a] = [store[w][a] EXCEPT ![j] = w]]]
    BY <1>1
  <2>2. store[w][a] \in Row
    BY DEF IInv, Shape
  <2>3. /\ [store[w][a] EXCEPT ![j] = w] \in Row
        /\ j \notin Indexes => [store[w][a] EXCEPT ![j] = w] = store[w][a]
    BY <2>2 DEF Row
  <2>4. store' \in [Workers -> [Addrs -> Row]] /\ store'[Self] = store[Self]
    <3>. DEFINE row == [store[w][a] EXCEPT ![j] = w]
                rows == [store[w] EXCEPT ![a] = row]
    <3>. HIDE DEF row, rows
    <3>1. store \in [Workers -> [Addrs -> Row]] /\ store[w] \in [Addrs -> Row]
      BY DEF IInv, Shape
    <3>2. row \in Row /\ (j \notin Indexes => row = store[w][a])
      BY <2>3 DEF row
    <3>3. rows \in [Addrs -> Row] /\ (j \notin Indexes => rows = store[w])
      BY <3>1, <3>2 DEF rows
    <3>4. store' = [store EXCEPT ![w] = rows]
      BY <2>1 DEF row, rows
    <3>. QED
      BY <1>3, <3>1, <3>3, <3>4, Constants
  <2>5. \A b \in Addrs, i \in Indexes : store'[Self][b][i] = store[Self][b][i]
    BY <2>4
  <2>. QED
    BY <1>1, <1>2, <2>4, <2>5, CopyStep, DeltasKeepIInv
<1>4. CASE w = Self /\ j \in Indexes
  <2>1. store' \in [Workers -> [Addrs -> Row]]
    BY <1>1, <1>4 DEF IInv, Shape, Row
  <2>2. store'[Self] = [store[Self] EXCEPT ![a][j] = Self]
    BY <1>1, <1>4 DEF IInv, Shape
  <2>3. ForeignDeltaOnChain'
    <3>. SUFFICES ASSUME NEW b \in Addrs, NEW i \in Indexes
                  PROVE  store'[Self][b][i] \in {None, Self, chain[b][i]}
      BY <1>1 DEF ForeignDeltaOnChain
    <3>1. store'[Self][b][i] \in {Self, store[Self][b][i]}
      BY <2>2, Constants DEF IInv, Shape, Row
    <3>. QED
      BY <3>1 DEF IInv, ForeignDeltaOnChain
  <2>4. Replicated!Execute
    BY <1>1, <1>2, <1>4, <2>2 DEF Replicated!Execute
  <2>. QED
    BY <1>1, <1>2, <2>1, <2>3, <2>4, DeltasKeepIInv DEF ReplicaStep, Replicated!Next
<1>. QED
  BY <1>3, <1>4

\* The cell a commit fills is the first free one, so nothing that is known of
\* the chain becomes wrong.
LEMMA CommitStep ==
    ASSUME IInv, NEW w \in Workers, NEW a \in Addrs, Commit(w, a)
    PROVE  IInv' /\ ReplicaStep
<1>. DEFINE j == Length(chain[a])
<1>1. PICK n \in Nat : \A i \in Indexes : chain[a][i] # None <=> i < n
  BY DEF IInv, ChainIsPrefix
<1>2. j \in Nat /\ \A i \in Indexes : chain[a][i] # None <=> i < j
  BY <1>1, LengthOfPrefix DEF IInv, Shape
<1>3. /\ j \in Indexes
      /\ chain' = [chain EXCEPT ![a][j] = w]
      /\ UNCHANGED <<store, run, begun>>
  BY DEF Commit, Quiet
<1>. HIDE DEF j
<1>4. chain[a][j] = None
  BY <1>2, <1>3
<1>5. chain' \in [Addrs -> Row]
  BY <1>3 DEF IInv, Shape, Row
<1>6. \A b \in Addrs, i \in Indexes :
         chain'[b][i] = IF b = a /\ i = j THEN w ELSE chain[b][i]
  BY <1>3 DEF IInv, Shape, Row
<1>7. Shape'
  BY <1>3, <1>5 DEF IInv, Shape
<1>8. ChainIsPrefix'
  <2>. SUFFICES ASSUME NEW b \in Addrs
                PROVE  \E m \in Nat : \A i \in Indexes : chain'[b][i] # None <=> i < m
    BY DEF ChainIsPrefix
  <2>1. CASE b = a
    <3>1. j + 1 \in Nat /\ \A i \in Indexes : chain'[b][i] # None <=> i < j + 1
      BY <1>2, <1>6, <2>1, Constants
    <3>. QED
      BY <3>1
  <2>2. CASE b # a
    BY <1>6, <2>2 DEF IInv, ChainIsPrefix
  <2>. QED
    BY <2>1, <2>2
<1>9. BegunOnChain'
  BY <1>3, <1>4, <1>6, Constants DEF IInv, BegunOnChain, Cells
<1>10. MissingIsOnChain'
  BY <1>3, <1>4, <1>6 DEF IInv, MissingIsOnChain
<1>11. ExcessNotBegun'
  BY <1>3 DEF IInv, ExcessNotBegun, NotBegun
<1>12. ForeignDeltaOnChain'
  BY <1>3, <1>4, <1>6 DEF IInv, ForeignDeltaOnChain
<1>13. Replicated!Commit
  BY <1>3, <1>4 DEF Replicated!Commit
<1>. QED
  BY <1>7, <1>8, <1>9, <1>10, <1>11, <1>12, <1>13 DEF IInv, ReplicaStep, Replicated!Next

\* VerifyAndStoreResultAction writes what Ethereum has confirmed.
LEMMA StoreResultStep ==
    ASSUME IInv, NEW w \in Workers, NEW a \in Addrs, NEW j \in Indexes, StoreResult(w, a, j)
    PROVE  IInv' /\ ReplicaStep
<1>1. /\ chain[a][j] # None
      /\ store' = [store EXCEPT ![w][a][j] = chain[a][j]]
      /\ chain' = chain /\ Quiet
  BY DEF StoreResult
<1>2. KeepsLists(run') /\ begun' = begun
  BY <1>1, QuietKeepsLists
<1>3. store' \in [Workers -> [Addrs -> Row]]
  BY <1>1 DEF IInv, Shape, Row
<1>4. \A b \in Addrs, i \in Indexes :
         \/ store'[Self][b][i] = store[Self][b][i]
         \/ chain[b][i] # None /\ store'[Self][b][i] = chain[b][i]
  BY <1>1, Constants DEF IInv, Shape, Row
<1>. QED
  BY <1>1, <1>2, <1>3, <1>4, CopyStep, DeltasKeepIInv

LEMMA AnnounceStep ==
    ASSUME IInv, NEW w \in Workers, NEW ok \in SUBSET Addrs, AnnounceLocalState(w, ok)
    PROVE  IInv' /\ ReplicaStep
<1>1. Unseen
  BY QuietKeepsLists DEF AnnounceLocalState, Unseen
<1>. QED
  BY <1>1, UnseenKeepsIInv, UnseenIsStutter

\* _throughDbStream after verify: each delta written is the missing one, which
\* is Ethereum's.
LEMMA ReceiverStoresStep == IInv /\ ReceiverStores => IInv' /\ ReplicaStep
<1>. SUFFICES ASSUME IInv, ReceiverStores PROVE IInv' /\ ReplicaStep
  OBVIOUS
<1>1. UNCHANGED <<chain, begun>> /\ HasMsgType(run.wire) /\ Verify(run.wire)
  BY DEF ReceiverStores
<1>2. KeepsLists(run')
  <2>1. run = [f \in Fields |-> run[f]] /\ run.excess = [a \in Addrs |-> run.excess[a]]
    BY DEF IInv, Shape
  <2>. QED
    BY <2>1, StuckKeepsLists DEF ReceiverStores, Continue, Hang, KeepsLists, Fields
<1>3. CASE UNCHANGED store
  <2>1. Unseen
    BY <1>1, <1>2, <1>3 DEF Unseen
  <2>. QED
    BY <2>1, UnseenKeepsIInv, UnseenIsStutter
<1>4. CASE WriteDb(run.wire) /\ store' # store
  <2>. DEFINE cur == run.cur  deltas == run.wire.deltas
              row == [i \in Indexes |-> IF deltas[i] # None THEN deltas[i]
                                        ELSE store[Self][cur][i]]
  <2>1. run.wire.kind = "deltas" /\ store' = [store EXCEPT ![Self][cur] = row]
    BY <1>4 DEF WriteDb
  <2>2. cur \in Addrs
    <3>1. ASSUME cur \notin Addrs PROVE FALSE
      <4>. HIDE DEF cur, row
      <4>1. [store[Self] EXCEPT ![cur] = row] = store[Self]
        BY <3>1, Constants DEF IInv, Shape
      <4>2. store' = [store EXCEPT ![Self] = [store[Self] EXCEPT ![cur] = row]]
        BY <2>1
      <4>. QED
        BY <1>4, <4>1, <4>2, Constants DEF IInv, Shape
    <3>. QED
      BY <3>1
  <2>3. \A i \in Indexes : deltas[i] # None =>
           deltas[i] = chain[cur][i] /\ chain[cur][i] # None
    BY <1>1, <2>1, <2>2 DEF Verify, Filled, IInv, MissingIsOnChain
  <2>4. row \in Row
    BY <2>2, <2>3, Constants DEF IInv, Shape, Row
  <2>5. \A i \in Indexes : \/ row[i] = store[Self][cur][i]
                           \/ chain[cur][i] # None /\ row[i] = chain[cur][i]
    BY <2>3
  <2>. HIDE DEF row, cur, deltas
  <2>6. store' \in [Workers -> [Addrs -> Row]]
    BY <2>1, <2>2, <2>4, Constants DEF IInv, Shape
  <2>7. \A b \in Addrs, i \in Indexes :
           \/ store'[Self][b][i] = store[Self][b][i]
           \/ chain[b][i] # None /\ store'[Self][b][i] = chain[b][i]
    BY <2>1, <2>2, <2>5, Constants DEF IInv, Shape
  <2>. QED
    BY <1>1, <1>2, <2>6, <2>7, CopyStep, DeltasKeepIInv
<1>. QED
  BY <1>3, <1>4 DEF ReceiverStores

\* The revert of one contract: what it removes was not on Ethereum when the run
\* began, however old excessList is.
LEMMA RevertStep ==
    ASSUME IInv, NEW a \in Addrs, Revert(a)
    PROVE  IInv' /\ ReplicaStep
<1>1. UNCHANGED <<chain, begun>> /\ a \in ExcessAddrs
  BY DEF Revert
<1>2. KeepsLists(run')
  <2>1. run = [f \in Fields |-> run[f]] /\ run.excess = [b \in Addrs |-> run.excess[b]]
    BY DEF IInv, Shape
  <2>. QED
    BY <2>1, EndKeepsLists DEF Revert, Continue, Abort, KeepsLists, Fields
<1>3. CASE UNCHANGED store
  <2>1. Unseen
    BY <1>1, <1>2, <1>3 DEF Unseen
  <2>. QED
    BY <2>1, UnseenKeepsIInv, UnseenIsStutter
<1>4. CASE RevertDb(a)
  <2>. DEFINE cut == Removed(run.excess[a])
              row == [i \in Indexes |-> IF i \in cut THEN None ELSE store[Self][a][i]]
  <2>1. store' = [store EXCEPT ![Self][a] = row]
    BY <1>4 DEF RevertDb
  <2>2. \A i \in cut : <<a, i>> \notin begun
    BY <1>1 DEF ExcessAddrs, IInv, ExcessNotBegun, NotBegun
  <2>3. row \in Row
    BY Constants DEF IInv, Shape, Row
  <2>4. \A i \in Indexes : \/ row[i] = store[Self][a][i]
                           \/ row[i] = None /\ <<a, i>> \notin begun
    BY <2>2
  <2>. HIDE DEF row, cut
  <2>5. store' \in [Workers -> [Addrs -> Row]]
    BY <2>1, <2>3, Constants DEF IInv, Shape
  <2>6. \A b \in Addrs, i \in Indexes :
           \/ store'[Self][b][i] = store[Self][b][i]
           \/ store'[Self][b][i] = None /\ <<b, i>> \notin begun
    BY <2>1, <2>4, Constants DEF IInv, Shape
  <2>7. ForeignDeltaOnChain'
    BY <1>1, <2>6 DEF IInv, ForeignDeltaOnChain
  <2>8. store'[Self] \in Replicated!Store
    BY <2>5, Constants DEF Replicated!Store, Row
  <2>9. Replicated!Drop
    BY <1>1, <2>6, <2>8 DEF Replicated!Drop
  <2>. QED
    BY <1>1, <1>2, <2>5, <2>7, <2>9, DeltasKeepIInv DEF ReplicaStep, Replicated!Next
<1>. QED
  BY <1>3, <1>4 DEF Revert
-----------------------------------------------------------------------------
(* The theorems.                                                           *)

LEMMA InitHolds == Init => IInv /\ Replicated!Init
<1>. SUFFICES ASSUME Init PROVE IInv /\ Replicated!Init
  OBVIOUS
<1>. USE Constants, IdleShape DEF Init
<1>1. Shape
  BY DEF Shape, Empty
<1>2. ChainIsPrefix
  <2>1. \A a \in Addrs, i \in Indexes : chain[a][i] # None <=> i < 0
    BY DEF Empty
  <2>. QED
    BY <2>1 DEF ChainIsPrefix
<1>3. BegunOnChain /\ MissingIsOnChain /\ ForeignDeltaOnChain
  BY DEF BegunOnChain, MissingIsOnChain, ForeignDeltaOnChain, Empty
<1>4. ExcessNotBegun
  BY NoExcessNotBegun DEF ExcessNotBegun
<1>5. Replicated!Init
  BY DEF Replicated!Init, Replicated!Empty, Empty, EmptyRow
<1>. QED
  BY <1>1, <1>2, <1>3, <1>4, <1>5 DEF IInv

LEMMA StepHolds == IInv /\ [Next]_vars => IInv' /\ ReplicaStep
<1>. SUFFICES ASSUME IInv, [Next]_vars PROVE IInv' /\ ReplicaStep
  OBVIOUS
<1>1. CASE Environment
  BY <1>1, ExecuteStep, CommitStep, StoreResultStep, AnnounceStep DEF Environment
<1>2. ASSUME NEW c \in Calls, SyncExecute(c) PROVE IInv' /\ ReplicaStep
  <2>1. IInv' /\ UNCHANGED <<chain, store>> /\ begun' \in {begun, Cells(chain)}
    BY <1>2, ExecuteKeepsIInv
  <2>2. begun' = begun \/ Replicated!Freeze
    BY <2>1 DEF Replicated!Freeze, Replicated!Held, Replicated!Cells, Cells
  <2>. QED
    BY <2>1, <2>2 DEF ReplicaStep, Replicated!Next, Replicated!vars
<1>3. CASE Pipeline
  <2>1. CASE GetAllSecretContractAddresses
    BY <2>1, AddressesKeepIInv
       DEF GetAllSecretContractAddresses, envVars, ReplicaStep, Replicated!vars
  <2>2. ASSUME NEW a \in Addrs, CompareContract(a) PROVE IInv' /\ ReplicaStep
    BY <2>2, CompareKeepsIInv DEF CompareContract, envVars, ReplicaStep, Replicated!vars
  <2>3. ASSUME NEW a \in Addrs, Revert(a) PROVE IInv' /\ ReplicaStep
    BY <2>3, RevertStep
  <2>4. CASE ReceiverStores
    BY <2>4, ReceiverStoresStep
  <2>5. CASE \/ GetAllTips \/ IdentifyMissingStates \/ FindContentProvider
             \/ \E a \in Addrs : FindProvider(a) \/ TryReceive(a)
             \/ TryReceiveAllDone \/ Dial \/ ProviderResponds \/ ReceiverRejects
             \/ StreamEnds \/ Finish
    BY <2>5, QuietPipeline, UnseenKeepsIInv, UnseenIsStutter DEF IInv
  <2>. QED
    BY <1>3, <2>1, <2>2, <2>3, <2>4, <2>5 DEF Pipeline
<1>4. CASE UNCHANGED vars
  <2>1. Unseen
    BY <1>4 DEF vars, Unseen, KeepsLists, IInv, Shape
  <2>. QED
    BY <2>1, UnseenKeepsIInv, UnseenIsStutter
<1>. QED
  BY <1>1, <1>2, <1>3, <1>4 DEF Next

\* The inductive invariant: the chain has no gaps, what the pipeline remembers
\* of it is still right, and core's foreign deltas are on it.
THEOREM Invariance == Spec => []IInv
  BY InitHolds, StepHolds, PTL DEF Spec

\* StateSyncReqVerifier.verify protects core: a delta of another worker is, at
\* its index, the one Ethereum has, whatever providers answer and whatever
\* happens between the comparison and the write.
THEOREM ForeignDeltas == Spec => []ForeignDeltaOnChain
<1>1. IInv => ForeignDeltaOnChain
  BY DEF IInv
<1>. QED
  BY <1>1, Invariance, PTL

\* The synchronisation, and the executions and results around it, implement the
\* replica: core gains own or confirmed deltas only, and the revert at the end
\* of ReceiveAllPipelineAction removes none that was on Ethereum when it began.
THEOREM Refinement == Spec => ImplementsReplica
<1>1. IInv /\ [Next]_vars => [Replicated!Next]_(Replicated!vars)
  BY StepHolds DEF ReplicaStep
<1>2. Init => Replicated!Init
  BY InitHolds
<1>. QED
  BY <1>1, <1>2, Invariance, PTL DEF Spec, ImplementsReplica, Replicated!Spec
=============================================================================
