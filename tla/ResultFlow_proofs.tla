------------------------- MODULE ResultFlow_proofs -------------------------
(***************************************************************************)
(* Theorems about ResultFlow: what other workers keep and record of a      *)
(* result rests on a confirmed receipt, and the executor neither settles   *)
(* early nor keeps the delta of a failed commit, for any workers, tasks,   *)
(* deliveries, confirmations and failures.                                 *)
(***************************************************************************)
EXTENDS ResultFlow, FiniteSetTheorems, TLAPS

\* Before its receipt is sent a task has no transaction, and before it is
\* executed it has no result; what the contract made of a transaction agrees
\* with the result it carried.
TxInv ==
    \A t \in Tasks :
        /\ pc[t] = "idle" => t \notin published
        /\ pc[t] # "idle" => result[t].status # "none"
        /\ pc[t] \in {"idle", "publish", "send"} => tx[t].state = "none"
        /\ tx[t].state = "mined" <=> receipt[t] # "none"
        /\ receipt[t] \in {"verified", "failedETH"} => IsSuccess(t)
        /\ receipt[t] = "failed" => ~ IsSuccess(t)
        /\ t \in Deploys /\ HasDelta(t) => result[t].key = 0
        /\ t \in Deploys /\ IsSuccess(t) /\ tx[t].state # "none" => HasDelta(t)

\* Ethereum fills the deltas of a contract in order and keeps each one.
ChainInv ==
    /\ \A c \in Contracts : \E n \in 0..(MaxKey + 1) : \A k \in Keys : chain[c][k] # None <=> k < n
    /\ \A t \in Tasks : receipt[t] = "verified" /\ HasDelta(t) =>
                            chain[ContractOf[t]][result[t].key] = t

\* A handler past the verification rests on a confirmed receipt, and its
\* ethFailure says of which kind; core is only told of a verified result.
HearInv ==
    \A x \in Handlers :
        /\ hear[x].stage # "idle" => x[2] \in published
        /\ hear[x].stage \in {"idle", "tip", "verify"} => ~ hear[x].ethFailure
        /\ hear[x].stage \in {"update", "announce", "record"} =>
              Confirmed(x[2]) /\ (hear[x].ethFailure <=> receipt[x[2]] = "failedETH")
        /\ hear[x].stage = "update" => BuildIpcMsg(x[2]) /\ ~ hear[x].ethFailure

\* The handler of a commit that ended without an error has seen it confirmed.
SettleInv ==
    \A t \in Tasks :
        pc[t] \in {"revert", "announce", "done"} /\ ~ err[t] => Confirmed(t)

\* From the end of the revert on, the delta of a failed commit is gone.
RevertInv ==
    \A t \in Tasks :
        /\ pc[t] \in {"announce", "done"} /\ faults = 0
        /\ HasDelta(t) /\ receipt[t] # "verified"
        => core[ExecutorOf[t]][ContractOf[t]][result[t].key] # t

IInv ==
    /\ TypeOK
    /\ TxInv
    /\ ChainInv
    /\ HearInv
    /\ SettleInv
    /\ RevertInv
    /\ OutsideDeltaConfirmed
    /\ RecordTruth
-----------------------------------------------------------------------------
(* Facts about constants and operators.                                    *)

LEMMA HandlerParts ==
    \A x \in Handlers : /\ x[1] \in Workers
                        /\ x[2] \in Tasks
                        /\ ExecutorOf[x[2]] # x[1]
  BY DEF Handlers

LEMMA Constants ==
    /\ None \notin Tasks
    /\ Keys \subseteq Nat
    /\ \A t \in Tasks : ContractOf[t] \in Contracts /\ ExecutorOf[t] \in Workers
  BY ConstantsAssumption DEF Keys

\* The number of deltas of a row without gaps is the first free key.
LEMMA LengthOfPrefix ==
    ASSUME NEW r, NEW n \in Nat, \A k \in Keys : r[k] # None <=> k < n
    PROVE  /\ Cardinality(Filled(r)) \in Nat
           /\ \A k \in Keys : r[k] # None <=> k < Cardinality(Filled(r))
<1>. DEFINE m == IF n < MaxKey + 1 THEN n ELSE MaxKey + 1
<1>1. m \in Nat /\ \A k \in Keys : k < n <=> k < m
  BY ConstantsAssumption DEF Keys
<1>2. Filled(r) = 0..(m - 1)
  BY <1>1, ConstantsAssumption DEF Filled, Keys
<1>3. Cardinality(0..(m - 1)) = m
  <2>. HIDE DEF m
  <2>1. 0 \in Int /\ m - 1 \in Int
    BY <1>1
  <2>2. Cardinality(0..(m - 1)) = IF 0 > m - 1 THEN 0 ELSE (m - 1) - 0 + 1
    BY <2>1, FS_Interval, Zenon
  <2>. QED
    BY <1>1, <2>2
<1>. QED
  BY <1>1, <1>2, <1>3

-----------------------------------------------------------------------------
(* Type correctness, action by action.                                     *)

Stages == {"idle", "tip", "verify", "update", "announce", "record", "end",
           "lost"}
Hearing == [stage : Stages, ethFailure : BOOLEAN]
Rows == [Keys -> Tasks \cup {None}]

LEMMA FaultType == TypeOK /\ (Fault \/ UNCHANGED faults) => faults' \in 0..MaxFaults
  BY ConstantsAssumption DEF TypeOK, Fault

LEMMA StageType ==
    ASSUME TypeOK, NEW x \in Handlers, NEW s \in Stages, Stage(x, s)
    PROVE  hear' \in [Handlers -> Hearing]
<1>1. hear \in [Handlers -> Hearing]
  BY DEF TypeOK, Hearing, Stages
<1>2. [hear[x] EXCEPT !.stage = s] \in Hearing
  BY <1>1 DEF Hearing
<1>. QED
  BY <1>1, <1>2 DEF Stage

LEMMA AnnounceType ==
    ASSUME TypeOK, NEW w \in Workers, NEW c \in Contracts, AnnounceContent(w, c)
    PROVE  announced' \subseteq Workers \X Contracts /\ faults' \in 0..MaxFaults
<1>1. announced' \subseteq Workers \X Contracts
  BY DEF TypeOK, AnnounceContent
<1>2. faults' \in 0..MaxFaults
  BY FaultType DEF AnnounceContent
<1>. QED
  BY <1>1, <1>2

LEMMA TxType ==
    ASSUME TypeOK, NEW t \in Tasks, NEW s \in {"sent", "mined", "error"},
           tx' = [tx EXCEPT ![t].state = s]
    PROVE  /\ tx' \in [Tasks -> [state : {"none", "sent", "mined", "error"}, conf : 0..MinConf]]
           /\ \A u \in Tasks : /\ tx'[u].state = IF u = t THEN s ELSE tx[u].state
                               /\ tx'[u].conf = tx[u].conf
<1>. DEFINE Tx == [state : {"none", "sent", "mined", "error"}, conf : 0..MinConf]
<1>1. tx \in [Tasks -> Tx]
  BY DEF TypeOK
<1>2. [tx[t] EXCEPT !.state = s] \in Tx
  BY <1>1
<1>3. tx' = [tx EXCEPT ![t] = [tx[t] EXCEPT !.state = s]]
  OBVIOUS
<1>4. tx' \in [Tasks -> Tx]
  <2>. HIDE DEF Tx
  <2>. QED  BY <1>1, <1>2, <1>3
<1>5. ASSUME NEW u \in Tasks
      PROVE  tx'[u].state = (IF u = t THEN s ELSE tx[u].state) /\ tx'[u].conf = tx[u].conf
  BY <1>1, <1>3
<1>. QED
  BY <1>4, <1>5

\* One delta of one worker's core is written.
LEMMA CoreWrite ==
    ASSUME TypeOK, NEW w \in Workers, NEW c \in Contracts, NEW k \in Keys, NEW t \in Tasks,
           core' = [core EXCEPT ![w][c][k] = t]
    PROVE  /\ core' \in [Workers -> [Contracts -> Rows]]
           /\ \A v \in Workers, d \in Contracts, j \in Keys :
                 core'[v][d][j] = IF v = w /\ d = c /\ j = k THEN t ELSE core[v][d][j]
<1>1. core \in [Workers -> [Contracts -> Rows]]
  BY DEF TypeOK, Rows
<1>2. [core[w][c] EXCEPT ![k] = t] \in Rows
  BY <1>1 DEF Rows
<1>3. core' = [core EXCEPT ![w] = [core[w] EXCEPT ![c] = [core[w][c] EXCEPT ![k] = t]]]
  OBVIOUS
<1>4. core' \in [Workers -> [Contracts -> Rows]]
  BY <1>1, <1>2, <1>3
<1>5. ASSUME NEW v \in Workers, NEW d \in Contracts, NEW j \in Keys
      PROVE  core'[v][d][j] = IF v = w /\ d = c /\ j = k THEN t ELSE core[v][d][j]
  BY <1>1, <1>3 DEF Rows
<1>. QED
  BY <1>4, <1>5

\* One row of one worker's core is replaced.
LEMMA CoreRow ==
    ASSUME TypeOK, NEW w \in Workers, NEW c \in Contracts, NEW r \in Rows,
           core' = [core EXCEPT ![w][c] = r]
    PROVE  /\ core' \in [Workers -> [Contracts -> Rows]]
           /\ \A v \in Workers, d \in Contracts, j \in Keys :
                 core'[v][d][j] = IF v = w /\ d = c THEN r[j] ELSE core[v][d][j]
  BY DEF TypeOK, Rows

\* One delta of one contract is written on Ethereum.
LEMMA ChainWrite ==
    ASSUME TypeOK, NEW c \in Contracts, NEW k \in Keys, NEW t \in Tasks,
           chain' = [chain EXCEPT ![c][k] = t]
    PROVE  chain' \in [Contracts -> Rows]
<1>1. chain \in [Contracts -> Rows]
  BY DEF TypeOK, Rows
<1>2. [chain[c] EXCEPT ![k] = t] \in Rows
  BY <1>1 DEF Rows
<1>3. chain' = [chain EXCEPT ![c] = [chain[c] EXCEPT ![k] = t]]
  OBVIOUS
<1>. QED
  BY <1>1, <1>2, <1>3

LEMMA ExecutorTypes ==
    ASSUME TypeOK, NEW t \in Tasks,
           \/ Execute(t) \/ Publish(t) \/ CommitReceipt(t) \/ CommitResolved(t)
           \/ CommitRejected(t) \/ RevertState(t) \/ AnnounceDeployment(t)
    PROVE  TypeOK'
<1>. USE Constants DEF chainVars, hearVars
<1>1. CASE Execute(t)
  <2>1. PICK r \in Results :
          /\ result' = [result EXCEPT ![t] = r]
          /\ core' = IF r.hasDelta
                     THEN [core EXCEPT ![ExecutorOf[t]][ContractOf[t]][r.key] = t] ELSE core
    BY <1>1 DEF Execute, Outcomes
  <2>2. core' \in [Workers -> [Contracts -> Rows]]
    <3>1. r.key \in Keys
      BY DEF Results
    <3>2. CASE r.hasDelta
      BY <2>1, <3>1, <3>2, CoreWrite
    <3>3. CASE ~ r.hasDelta
      BY <2>1, <3>3 DEF TypeOK, Rows
    <3>. QED
      BY <3>2, <3>3
  <2>3. result' \in [Tasks -> Results]
    BY <2>1 DEF TypeOK
  <2>. QED
    BY <1>1, <2>2, <2>3 DEF TypeOK, Execute, Rows
<1>2. CASE Publish(t)
  BY <1>2 DEF TypeOK, Publish
<1>3. CASE CommitReceipt(t)
  <2>1. /\ tx' = [tx EXCEPT ![t].state = "sent"] \/ UNCHANGED tx
        /\ err' = [err EXCEPT ![t] = TRUE] \/ UNCHANGED err
        /\ pc' = [pc EXCEPT ![t] = "wait"] \/ pc' = [pc EXCEPT ![t] = "done"]
    BY <1>3 DEF CommitReceipt, CommitDeployTask, CommitComputeTask, DeploySecretContract,
       DeploySecretContractFailure, CommitReceiptOf, CommitTaskFailure, Send
  <2>2. tx' \in [Tasks -> [state : {"none", "sent", "mined", "error"}, conf : 0..MinConf]]
    BY <2>1, TxType DEF TypeOK
  <2>. QED
    BY <1>3, <2>1, <2>2 DEF TypeOK, CommitReceipt
<1>4. CASE CommitResolved(t)
  BY <1>4 DEF TypeOK, CommitResolved, AfterCommit
<1>5. CASE CommitRejected(t)
  <2>1. faults' \in 0..MaxFaults
    BY <1>5, FaultType DEF CommitRejected, TxRejects
  <2>. QED
    BY <1>5, <2>1 DEF TypeOK, CommitRejected
<1>6. CASE RevertState(t)
  <2>1. Reverted(t) \in Rows
    BY DEF TypeOK, Results, Reverted, Rows
  <2>2. core' \in [Workers -> [Contracts -> Rows]]
    BY <1>6, <2>1, CoreRow DEF RevertState, TypeOK, Rows
  <2>3. faults' \in 0..MaxFaults
    BY <1>6, FaultType DEF RevertState
  <2>4. /\ pc' = [pc EXCEPT ![t] = AfterCommit(t, err[t])] \/ pc' = [pc EXCEPT ![t] = "done"]
        /\ err' = [err EXCEPT ![t] = TRUE] \/ UNCHANGED err
        /\ UNCHANGED <<result, published, announced, tx, receipt, chain, hear, shared, record>>
    BY <1>6 DEF RevertState
  <2>5. pc' \in [Tasks -> {"idle", "publish", "send", "wait", "revert", "announce",
                           "done", "dead"}]
    BY <2>4 DEF TypeOK, AfterCommit
  <2>. QED
    BY <2>2, <2>3, <2>4, <2>5 DEF TypeOK, Rows
<1>7. CASE AnnounceDeployment(t)
  <2>1. announced' \subseteq Workers \X Contracts /\ faults' \in 0..MaxFaults
    BY <1>7, AnnounceType DEF AnnounceDeployment
  <2>. QED
    BY <1>7, <2>1 DEF TypeOK, AnnounceDeployment
<1>. QED
  BY <1>1, <1>2, <1>3, <1>4, <1>5, <1>6, <1>7

LEMMA EthereumTypes ==
    ASSUME TypeOK, NEW t \in Tasks, Mine(t) \/ Confirm(t)
    PROVE  TypeOK'
<1>. USE Constants DEF hearVars, execVars
<1>. DEFINE Tx == [state : {"none", "sent", "mined", "error"}, conf : 0..MinConf]
<1>1. tx \in [Tasks -> Tx]
  BY DEF TypeOK
<1>2. CASE Mine(t)
  <2>1. tx' = [tx EXCEPT ![t].state = "mined"] \/ tx' = [tx EXCEPT ![t].state = "error"]
    BY <1>2 DEF Mine, MinedAs
  <2>2. tx' \in [Tasks -> Tx]
    <3>1. CASE tx' = [tx EXCEPT ![t].state = "mined"]
      BY <3>1, TxType, Zenon
    <3>2. CASE tx' = [tx EXCEPT ![t].state = "error"]
      BY <3>2, TxType, Zenon
    <3>. QED
      BY <2>1, <3>1, <3>2
  <2>3. receipt' \in [Tasks -> {"none", "verified", "failedETH", "failed"}]
    BY <1>2 DEF Mine, MinedAs, TypeOK
  <2>4. result[t].key \in Keys
    BY DEF TypeOK, Results
  <2>5. \/ UNCHANGED chain
        \/ chain' = [chain EXCEPT ![ContractOf[t]][result[t].key] = t]
    BY <1>2 DEF Mine, MinedAs
  <2>6. chain' \in [Contracts -> Rows]
    <3>1. CASE UNCHANGED chain
      BY <3>1 DEF TypeOK, Rows
    <3>2. CASE chain' = [chain EXCEPT ![ContractOf[t]][result[t].key] = t]
      BY <2>4, <3>2, ChainWrite
    <3>. QED
      BY <2>5, <3>1, <3>2
  <2>. QED
    BY <1>2, <2>2, <2>3, <2>6 DEF TypeOK, Mine, Rows
<1>3. CASE Confirm(t)
  <2>1. tx[t].conf + 1 \in 0..MinConf
    BY <1>1, <1>3, ConstantsAssumption DEF Confirm
  <2>2. tx' \in [Tasks -> Tx]
    BY <1>1, <1>3, <2>1 DEF Confirm
  <2>. QED
    BY <1>3, <2>2 DEF TypeOK, Confirm
<1>. QED
  BY <1>2, <1>3

LEMMA HandlerTypes ==
    ASSUME TypeOK, NEW x \in Handlers,
           \/ Receive(x) \/ ReadTip(x) \/ VerifyResult(x) \/ UpdateCore(x)
           \/ AnnounceOutside(x) \/ StoreOutside(x)
    PROVE  TypeOK'
<1>. USE Constants, HandlerParts DEF chainVars, execVars
<1>. SUFFICES /\ hear' \in [Handlers -> Hearing]
              /\ shared' \subseteq Handlers
              /\ core' \in [Workers -> [Contracts -> Rows]]
              /\ record' \in [Workers -> [Tasks -> {"none", "SUCCESS", "FAILED", "undefined"}]]
              /\ announced' \subseteq Workers \X Contracts
              /\ faults' \in 0..MaxFaults
  BY DEF TypeOK, Hearing, Stages, Rows, Receive, ReadTip, VerifyResult, UpdateCore,
         AnnounceOutside, StoreOutside
<1>0. /\ core \in [Workers -> [Contracts -> Rows]]
      /\ record \in [Workers -> [Tasks -> {"none", "SUCCESS", "FAILED", "undefined"}]]
      /\ announced \subseteq Workers \X Contracts
      /\ faults \in 0..MaxFaults
      /\ hear \in [Handlers -> Hearing] /\ shared \subseteq Handlers
  BY DEF TypeOK, Rows, Hearing, Stages
<1>00. Listen(x) \/ UNCHANGED shared => shared' \subseteq Handlers
  BY <1>0 DEF Listen, Copies
<1>1. CASE Receive(x)
  <2>1. hear' \in [Handlers -> Hearing] /\ shared' \subseteq Handlers
    BY <1>1, <1>00, StageType DEF Receive, Stages
  <2>. QED
    BY <1>0, <1>1, <2>1 DEF Receive
<1>2. CASE ReadTip(x)
  <2>1. hear' \in [Handlers -> Hearing] /\ shared' \subseteq Handlers
    BY <1>2, <1>00, StageType DEF ReadTip, Stages
  <2>. QED
    BY <1>0, <1>2, <2>1, FaultType DEF ReadTip
<1>3. CASE VerifyResult(x)
  <2>1. CASE \E s \in Stages : Stage(x, s)
    BY <1>0, <1>3, <2>1, StageType DEF VerifyResult
  <2>2. CASE hear' = [hear EXCEPT ![x].stage = "record", ![x].ethFailure = TRUE]
    <3>1. [hear[x] EXCEPT !.stage = "record", !.ethFailure = TRUE] \in Hearing
      BY <1>0 DEF Hearing, Stages
    <3>2. hear' = [hear EXCEPT ![x] = [hear[x] EXCEPT !.stage = "record", !.ethFailure = TRUE]]
      BY <1>0, <2>2 DEF Hearing
    <3>. QED
      BY <1>0, <1>3, <3>1, <3>2 DEF VerifyResult
  <2>. QED
    BY <1>3, <2>1, <2>2 DEF VerifyResult, NeverAnswered, Stages
<1>4. CASE UpdateCore(x)
  <2>1. result[x[2]].key \in Keys
    BY DEF TypeOK, Results
  <2>2. core' \in [Workers -> [Contracts -> Rows]]
    BY <1>0, <1>4, <2>1, CoreWrite DEF UpdateCore
  <2>3. hear' \in [Handlers -> Hearing]
    BY <1>4, StageType DEF UpdateCore, Stages
  <2>. QED
    BY <1>0, <1>4, <2>2, <2>3, FaultType DEF UpdateCore
<1>5. CASE AnnounceOutside(x)
  <2>1. hear' \in [Handlers -> Hearing]
    BY <1>5, StageType DEF AnnounceOutside, Stages
  <2>. QED
    BY <1>0, <1>5, <2>1, AnnounceType DEF AnnounceOutside
<1>6. CASE StoreOutside(x)
  <2>1. OutsideStatus(x) \in {"none", "SUCCESS", "FAILED", "undefined"}
    BY DEF OutsideStatus, BuildTask, TypeOK, Results
  <2>2. hear' \in [Handlers -> Hearing]
    BY <1>6, StageType DEF StoreOutside, Stages
  <2>3. record' \in [Workers -> [Tasks -> {"none", "SUCCESS", "FAILED", "undefined"}]]
    <3>. DEFINE Statuses == {"none", "SUCCESS", "FAILED", "undefined"}
    <3>0. record \in [Workers -> [Tasks -> Statuses]] /\ OutsideStatus(x) \in Statuses
      BY <1>0, <2>1
    <3>. HIDE DEF Statuses
    <3>1. [record[x[1]] EXCEPT ![x[2]] = OutsideStatus(x)] \in [Tasks -> Statuses]
      BY <3>0
    <3>2. \/ UNCHANGED record
          \/ record' = [record EXCEPT ![x[1]] = [record[x[1]] EXCEPT ![x[2]] = OutsideStatus(x)]]
      BY <1>6 DEF StoreOutside
    <3>3. record' \in [Workers -> [Tasks -> Statuses]]
      BY <3>0, <3>1, <3>2
    <3>. QED
      BY <3>3 DEF Statuses
  <2>. QED
    BY <1>0, <1>6, <2>2, <2>3, FaultType DEF StoreOutside
<1>. QED
  BY <1>1, <1>2, <1>3, <1>4, <1>5, <1>6

-----------------------------------------------------------------------------
(* What each process leaves alone.                                         *)

\* A worker that hears a result moves neither its executor nor Ethereum.
LEMMA HandlerFrame ==
    ASSUME NEW x \in Handlers,
           \/ Receive(x) \/ ReadTip(x) \/ VerifyResult(x) \/ UpdateCore(x)
           \/ AnnounceOutside(x) \/ StoreOutside(x)
    PROVE  UNCHANGED <<result, pc, err, published, tx, receipt, chain>>
  BY DEF Receive, ReadTip, VerifyResult, UpdateCore, AnnounceOutside, StoreOutside,
         execVars, chainVars

\* Failures are never forgotten.
LEMMA FaultsGrow ==
    ASSUME TypeOK, Fault \/ UNCHANGED faults
    PROVE  faults' = 0 => faults = 0
  BY ConstantsAssumption DEF Fault, TypeOK

LEMMA HandlerInduction ==
    ASSUME IInv, NEW x \in Handlers,
           \/ Receive(x) \/ ReadTip(x) \/ VerifyResult(x) \/ UpdateCore(x)
           \/ AnnounceOutside(x) \/ StoreOutside(x)
    PROVE  IInv'
<1>0. /\ UNCHANGED <<result, pc, err, published, tx, receipt, chain>>
      /\ x[1] \in Workers /\ x[2] \in Tasks /\ ExecutorOf[x[2]] # x[1]
      /\ ContractOf[x[2]] \in Contracts /\ result[x[2]].key \in Keys
      /\ None \notin Tasks
  BY HandlerFrame, HandlerParts, Constants DEF IInv, TypeOK, Results
<1>1. TypeOK'
  BY HandlerTypes DEF IInv
<1>2. TxInv'
  BY <1>0 DEF IInv, TxInv, IsSuccess, HasDelta
<1>3. ChainInv'
  BY <1>0 DEF IInv, ChainInv, IsSuccess, HasDelta
<1>4. SettleInv'
  BY <1>0 DEF IInv, SettleInv, Confirmed
<1>5. /\ \A t \in Tasks : Confirmed(t)' <=> Confirmed(t)
      /\ \A t \in Tasks : BuildIpcMsg(t)' <=> BuildIpcMsg(t)
      /\ \A t \in Tasks : HasDelta(t)' <=> HasDelta(t)
  BY <1>0 DEF Confirmed, BuildIpcMsg, IsSuccess, HasDelta
<1>6. HearInv'
  <2>1. hear \in [Handlers -> Hearing]
    BY DEF IInv, TypeOK, Hearing, Stages
  <2>2. SUFFICES ASSUME NEW y \in Handlers
                 PROVE  /\ hear'[y].stage # "idle" => y[2] \in published
                        /\ hear'[y].stage \in {"idle", "tip", "verify"} => ~ hear'[y].ethFailure
                        /\ hear'[y].stage \in {"update", "announce", "record"} =>
                              /\ Confirmed(y[2])
                              /\ hear'[y].ethFailure <=> receipt[y[2]] = "failedETH"
                        /\ hear'[y].stage = "update" => BuildIpcMsg(y[2]) /\ ~ hear'[y].ethFailure
    BY <1>0, <1>5, HandlerParts DEF HearInv
  <2>3. /\ hear[y].stage # "idle" => y[2] \in published
        /\ hear[y].stage \in {"idle", "tip", "verify"} => ~ hear[y].ethFailure
        /\ hear[y].stage \in {"update", "announce", "record"} =>
              Confirmed(y[2]) /\ (hear[y].ethFailure <=> receipt[y[2]] = "failedETH")
        /\ hear[y].stage = "update" => BuildIpcMsg(y[2]) /\ ~ hear[y].ethFailure
    BY DEF IInv, HearInv
  <2>4. CASE y # x
    <3>1. hear'[y] = hear[y]
      BY <2>1, <2>4 DEF Receive, ReadTip, VerifyResult, NeverAnswered, UpdateCore,
                        AnnounceOutside, StoreOutside, Stage
    <3>. QED
      BY <2>3, <3>1
  <2>5. CASE y = x
    <3>1. ASSUME NEW s, Stage(x, s)
          PROVE  hear'[x].stage = s /\ hear'[x].ethFailure = hear[x].ethFailure
      BY <2>1, <3>1 DEF Stage, Hearing
    <3>2. CASE Receive(x)
      BY <2>3, <2>5, <3>1, <3>2 DEF Receive
    <3>3. CASE ReadTip(x)
      BY <2>3, <2>5, <3>1, <3>3 DEF ReadTip
    <3>4. CASE VerifyResult(x)
      <4>1. CASE /\ "verified" \in Verdicts(x[2])
                 /\ Stage(x, IF BuildIpcMsg(x[2]) THEN "update" ELSE "record")
        <5>1. Confirmed(x[2]) /\ receipt[x[2]] # "failedETH"
          BY <4>1 DEF Verdicts
        <5>. QED
          BY <2>3, <2>5, <3>1, <3>4, <4>1, <5>1 DEF VerifyResult
      <4>2. CASE /\ "ethFailure" \in Verdicts(x[2])
                 /\ hear' = [hear EXCEPT ![x].stage = "record", ![x].ethFailure = TRUE]
        <5>1. Confirmed(x[2]) /\ receipt[x[2]] = "failedETH"
          BY <4>2 DEF Verdicts
        <5>2. hear'[x].stage = "record" /\ hear'[x].ethFailure
          BY <2>1, <4>2 DEF Hearing
        <5>. QED
          BY <2>3, <2>5, <3>4, <5>1, <5>2 DEF VerifyResult
      <4>3. CASE Stage(x, "end") \/ Stage(x, "lost")
        BY <2>3, <2>5, <3>1, <3>4, <4>3 DEF VerifyResult
      <4>. QED
        BY <3>4, <4>1, <4>2, <4>3 DEF VerifyResult, NeverAnswered
    <3>5. CASE UpdateCore(x)
      BY <2>3, <2>5, <3>1, <3>5 DEF UpdateCore
    <3>6. CASE AnnounceOutside(x)
      BY <2>3, <2>5, <3>1, <3>6 DEF AnnounceOutside
    <3>7. CASE StoreOutside(x)
      BY <2>3, <2>5, <3>1, <3>7 DEF StoreOutside
    <3>. QED
      BY <3>2, <3>3, <3>4, <3>5, <3>6, <3>7
  <2>. QED
    BY <2>4, <2>5
\* The only delta a handler writes is that of a confirmed, verified receipt.
<1>7. \/ UNCHANGED core
      \/ /\ hear[x].stage = "update"
         /\ core' = [core EXCEPT ![x[1]][ContractOf[x[2]]][result[x[2]].key] = x[2]]
  BY DEF Receive, ReadTip, VerifyResult, UpdateCore, AnnounceOutside, StoreOutside
<1>8. faults' = 0 => faults = 0
  BY FaultsGrow DEF IInv, Receive, ReadTip, VerifyResult, UpdateCore, AnnounceOutside,
                    StoreOutside, AnnounceContent
<1>9. RevertInv' /\ OutsideDeltaConfirmed'
  <2>1. CASE UNCHANGED core
    BY <1>0, <1>5, <1>8, <2>1, Constants DEF IInv, RevertInv, OutsideDeltaConfirmed, TypeOK
  <2>2. CASE /\ hear[x].stage = "update"
             /\ core' = [core EXCEPT ![x[1]][ContractOf[x[2]]][result[x[2]].key] = x[2]]
    <3>1. \A v \in Workers, d \in Contracts, j \in Keys :
             core'[v][d][j] = IF v = x[1] /\ d = ContractOf[x[2]] /\ j = result[x[2]].key
                              THEN x[2] ELSE core[v][d][j]
      <4>1. core \in [Workers -> [Contracts -> Rows]]
        BY DEF IInv, TypeOK, Rows
      <4>2. core' = [core EXCEPT ![x[1]] = [core[x[1]] EXCEPT ![ContractOf[x[2]]] =
                       [core[x[1]][ContractOf[x[2]]] EXCEPT ![result[x[2]].key] = x[2]]]]
        BY <2>2
      <4>. QED
        BY <1>0, <4>1, <4>2 DEF Rows
    <3>2. Confirmed(x[2]) /\ receipt[x[2]] # "failedETH" /\ BuildIpcMsg(x[2])
      BY <2>2 DEF IInv, HearInv
    <3>3. receipt[x[2]] = "verified" /\ HasDelta(x[2])
      BY <1>0, <3>2 DEF IInv, TypeOK, TxInv, BuildIpcMsg, Confirmed
    <3>4. chain[ContractOf[x[2]]][result[x[2]].key] = x[2]
      BY <1>0, <3>3 DEF IInv, ChainInv
    <3>5. RevertInv'
      <4>1. ASSUME NEW t \in Tasks, pc'[t] \in {"announce", "done"}, faults' = 0,
                   HasDelta(t)', receipt'[t] # "verified"
            PROVE  core'[ExecutorOf[t]][ContractOf[t]][result'[t].key] # t
        <5>1. core[ExecutorOf[t]][ContractOf[t]][result[t].key] # t
          BY <1>0, <1>5, <1>8, <4>1 DEF IInv, RevertInv
        <5>2. /\ ExecutorOf[t] \in Workers /\ ContractOf[t] \in Contracts
              /\ result[t].key \in Keys
          BY Constants DEF IInv, TypeOK, Results
        <5>. QED
          BY <1>0, <3>1, <5>1, <5>2
      <4>. QED
        BY <4>1 DEF RevertInv
    <3>6. OutsideDeltaConfirmed'
      <4>1. ASSUME NEW w \in Workers, NEW c \in Contracts, NEW k \in Keys,
                   NEW u, u = core'[w][c][k], u # None, ExecutorOf[u] # w
            PROVE  receipt'[u] = "verified" /\ Confirmed(u)' /\ chain'[c][k] = u
        <5>1. CASE w = x[1] /\ c = ContractOf[x[2]] /\ k = result[x[2]].key
          <6>1. u = x[2]
            BY <3>1, <4>1, <5>1
          <6>. QED
            BY <1>0, <1>5, <3>2, <3>3, <3>4, <5>1, <6>1
        <5>2. CASE ~ (w = x[1] /\ c = ContractOf[x[2]] /\ k = result[x[2]].key)
          <6>1. u = core[w][c][k]
            BY <3>1, <4>1, <5>2
          <6>2. u \in Tasks
            BY <4>1, <6>1 DEF IInv, TypeOK
          <6>3. receipt[u] = "verified" /\ Confirmed(u) /\ chain[c][k] = u
            BY <4>1, <6>1 DEF IInv, OutsideDeltaConfirmed
          <6>. QED
            BY <1>0, <1>5, <6>2, <6>3
        <5>. QED
          BY <5>1, <5>2
      <4>. QED
        BY <4>1 DEF OutsideDeltaConfirmed
    <3>. QED
      BY <3>5, <3>6
  <2>. QED
    BY <1>7, <2>1, <2>2
<1>10. RecordTruth'
  <2>. DEFINE True(t, s) ==
                /\ s = "SUCCESS" => Confirmed(t) /\ receipt[t] = "verified"
                /\ s = "FAILED"  => Confirmed(t) /\ receipt[t] = "failed"
  <2>1. SUFFICES ASSUME NEW w \in Workers, NEW t \in Tasks
                 PROVE  True(t, record'[w][t])
    BY <1>0, <1>5 DEF RecordTruth
  <2>2. True(t, record[w][t])
    BY DEF IInv, RecordTruth
  <2>3. CASE UNCHANGED record
    BY <2>2, <2>3
  <2>4. CASE /\ hear[x].stage = "record"
             /\ record' = [record EXCEPT ![x[1]][x[2]] = OutsideStatus(x)]
    <3>1. record'[w][t] = IF w = x[1] /\ t = x[2] THEN OutsideStatus(x) ELSE record[w][t]
      <4>1. record' = [record EXCEPT ![x[1]] = [record[x[1]] EXCEPT ![x[2]] = OutsideStatus(x)]]
        BY <2>4
      <4>. QED
        BY <1>0, <4>1 DEF IInv, TypeOK
    <3>2. /\ Confirmed(x[2]) /\ (hear[x].ethFailure <=> receipt[x[2]] = "failedETH")
      BY <2>4 DEF IInv, HearInv
    <3>3. True(x[2], OutsideStatus(x))
      <4>1. receipt[x[2]] \in {"verified", "failedETH", "failed"}
        BY <1>0, <3>2 DEF IInv, TypeOK, TxInv, Confirmed
      <4>2. /\ receipt[x[2]] \in {"verified", "failedETH"} => result[x[2]].status = "SUCCESS"
            /\ receipt[x[2]] = "failed" => result[x[2]].status # "SUCCESS"
            /\ result[x[2]].status \in {"none", "SUCCESS", "FAILED"}
        BY <1>0 DEF IInv, TxInv, IsSuccess, TypeOK, Results
      <4>. QED
        BY <3>2, <4>1, <4>2 DEF OutsideStatus, BuildTask
    <3>. QED
      BY <2>2, <3>1, <3>3
  <2>. QED
    BY <2>3, <2>4 DEF Receive, ReadTip, VerifyResult, UpdateCore, AnnounceOutside, StoreOutside
<1>. QED
  BY <1>1, <1>2, <1>3, <1>4, <1>6, <1>9, <1>10 DEF IInv

LEMMA MineStep ==
    ASSUME IInv, NEW t \in Tasks, Mine(t)
    PROVE  /\ tx[t].state = "sent" /\ receipt[t] = "none"
           /\ \A u \in Tasks : /\ u # t => tx'[u] = tx[u] /\ receipt'[u] = receipt[u]
                               /\ tx'[u].conf = tx[u].conf
           /\ tx'[t].state \in {"mined", "error"}
           /\ tx'[t].state = "mined" <=> receipt'[t] # "none"
           /\ receipt'[t] \in {"verified", "failedETH"} => Valid(t) /\ IsSuccess(t)
           /\ receipt'[t] = "failed" => ~ IsSuccess(t)
           /\ UNCHANGED <<core, announced, faults, result, pc, err, published, hear, record>>
           /\ \A c \in Contracts, k \in Keys :
                 chain'[c][k] = IF /\ receipt'[t] = "verified" /\ HasDelta(t)
                                   /\ c = ContractOf[t] /\ k = result[t].key
                                THEN t ELSE chain[c][k]
<1>. USE DEF execVars, hearVars
<1>1. /\ tx[t].state = "sent" /\ receipt[t] = "none"
      /\ UNCHANGED <<core, announced, faults, result, pc, err, published, hear, record>>
  BY DEF Mine, IInv, TxInv
<1>2. \/ /\ tx' = [tx EXCEPT ![t].state = "mined"]
         /\ \E s \in {"verified", "failedETH", "failed"} :
               /\ receipt' = [receipt EXCEPT ![t] = s]
               /\ s = "failed" => ~ IsSuccess(t)
               /\ s # "failed" => Valid(t) /\ IsSuccess(t)
      \/ tx' = [tx EXCEPT ![t].state = "error"] /\ UNCHANGED receipt
  BY DEF Mine, MinedAs
<1>3. /\ \A u \in Tasks : /\ u # t => tx'[u] = tx[u]
                          /\ tx'[u].conf = tx[u].conf
      /\ tx'[t].state \in {"mined", "error"}
      /\ tx'[t].state = "mined" <=> tx' = [tx EXCEPT ![t].state = "mined"]
  BY <1>2 DEF IInv, TypeOK
<1>4. /\ \A u \in Tasks : u # t => receipt'[u] = receipt[u]
      /\ tx'[t].state = "mined" <=> receipt'[t] # "none"
      /\ receipt'[t] \in {"verified", "failedETH"} => Valid(t) /\ IsSuccess(t)
      /\ receipt'[t] = "failed" => ~ IsSuccess(t)
  <2>1. receipt \in [Tasks -> {"none", "verified", "failedETH", "failed"}]
    BY DEF IInv, TypeOK
  <2>2. CASE tx' = [tx EXCEPT ![t].state = "mined"]
    <3>2. tx'[t].state = "mined"
      BY <1>3, <2>2
    <3>3. tx' # [tx EXCEPT ![t].state = "error"]
      BY <3>2 DEF IInv, TypeOK
    <3>. QED
      BY <1>2, <2>1, <3>2, <3>3
  <2>3. CASE tx' # [tx EXCEPT ![t].state = "mined"]
    BY <1>1, <1>2, <1>3, <2>1, <2>3
  <2>. QED
    BY <2>2, <2>3
<1>5. \A c \in Contracts, k \in Keys :
         chain'[c][k] = IF /\ receipt'[t] = "verified" /\ HasDelta(t)
                           /\ c = ContractOf[t] /\ k = result[t].key
                        THEN t ELSE chain[c][k]
  <2>1. ContractOf[t] \in Contracts /\ result[t].key \in Keys
    BY Constants DEF IInv, TypeOK, Results
  <2>2. CASE receipt'[t] = "verified" /\ HasDelta(t)
    <3>1. chain' = [chain EXCEPT ![ContractOf[t]][result[t].key] = t]
      BY <1>1, <2>2 DEF Mine, MinedAs, IInv, TypeOK
    <3>2. chain \in [Contracts -> Rows]
      BY DEF IInv, TypeOK, Rows
    <3>3. chain' = [chain EXCEPT ![ContractOf[t]] =
                                     [chain[ContractOf[t]] EXCEPT ![result[t].key] = t]]
      BY <3>1
    <3>. QED
      BY <2>1, <2>2, <3>2, <3>3 DEF Rows
  <2>3. CASE ~ (receipt'[t] = "verified" /\ HasDelta(t))
    <3>1. UNCHANGED chain
      BY <2>3 DEF Mine, MinedAs, IInv, TypeOK
    <3>. QED
      BY <2>3, <3>1
  <2>. QED
    BY <2>2, <2>3
<1>. QED
  BY <1>1, <1>3, <1>4, <1>5

\* A contract's deltas stay a prefix of the keys: a receipt of a computation
\* is only valid for the next key, that of a deployment for the first.
LEMMA ChainPrefix ==
    ASSUME IInv, NEW t \in Tasks, HasDelta(t), Valid(t), receipt[t] = "none",
           NEW n \in 0..(MaxKey + 1),
           \A k \in Keys : chain[ContractOf[t]][k] # None <=> k < n
    PROVE  result[t].key = n
<1>1. ContractOf[t] \in Contracts /\ result[t].key \in Keys /\ Keys \subseteq Nat /\ n \in Nat
  BY Constants, ConstantsAssumption DEF IInv, TypeOK, Results
<1>2. CASE t \in Deploys
  <2>1. result[t].key = 0
    BY <1>2 DEF IInv, TxInv
  <2>2. \A k \in Keys : chain[ContractOf[t]][k] = None
    BY <1>2 DEF Valid, Deployed, Filled, HasDelta
  <2>. QED
    BY <1>1, <2>1, <2>2
<1>3. CASE t \notin Deploys
  <2>1. result[t].key = Cardinality(Filled(chain[ContractOf[t]]))
    BY <1>3 DEF Valid, HasDelta
  <2>2. \A k \in Keys : chain[ContractOf[t]][k] # None <=> k < result[t].key
    BY <1>1, <2>1, LengthOfPrefix
  <2>. QED
    BY <1>1, <2>2, ConstantsAssumption DEF Keys
<1>. QED
  BY <1>2, <1>3

LEMMA MineInduction ==
    ASSUME IInv, NEW t \in Tasks, Mine(t)
    PROVE  IInv'
<1>0. /\ tx[t].state = "sent" /\ receipt[t] = "none"
      /\ \A u \in Tasks : /\ u # t => tx'[u] = tx[u] /\ receipt'[u] = receipt[u]
                          /\ tx'[u].conf = tx[u].conf
      /\ tx'[t].state \in {"mined", "error"}
      /\ tx'[t].state = "mined" <=> receipt'[t] # "none"
      /\ receipt'[t] \in {"verified", "failedETH"} => Valid(t) /\ IsSuccess(t)
      /\ receipt'[t] = "failed" => ~ IsSuccess(t)
      /\ UNCHANGED <<core, announced, faults, result, pc, err, published, hear, record>>
  BY MineStep
<1>1. \A c \in Contracts, k \in Keys :
         chain'[c][k] = IF /\ receipt'[t] = "verified" /\ HasDelta(t)
                           /\ c = ContractOf[t] /\ k = result[t].key
                        THEN t ELSE chain[c][k]
  BY MineStep
<1>2. TypeOK'
  BY EthereumTypes DEF IInv
<1>3. \A u \in Tasks : /\ IsSuccess(u)' <=> IsSuccess(u)
                       /\ HasDelta(u)' <=> HasDelta(u)
                       /\ BuildIpcMsg(u)' <=> BuildIpcMsg(u)
                       /\ Confirmed(u) => u # t /\ Confirmed(u)'
  BY <1>0 DEF IsSuccess, HasDelta, BuildIpcMsg, Confirmed
<1>4. TxInv'
  <2>1. ASSUME NEW u \in Tasks, u # t
        PROVE  /\ tx'[u] = tx[u] /\ receipt'[u] = receipt[u]
    BY <1>0, <2>1
  <2>2. pc[t] \notin {"idle", "publish", "send"}
    BY <1>0 DEF IInv, TxInv
  <2>. QED
    BY <1>0, <1>3, <2>1, <2>2 DEF IInv, TxInv
<1>5. \A c \in Contracts, k \in Keys : chain[c][k] # None => chain'[c][k] = chain[c][k]
  <2>1. ASSUME receipt'[t] = "verified", HasDelta(t)
        PROVE  chain[ContractOf[t]][result[t].key] = None
    <3>1. /\ ContractOf[t] \in Contracts /\ result[t].key \in Keys /\ Keys \subseteq Nat
      BY Constants DEF IInv, TypeOK, Results
    <3>2. PICK n \in 0..(MaxKey + 1) : \A k \in Keys : chain[ContractOf[t]][k] # None <=> k < n
      BY <3>1 DEF IInv, ChainInv
    <3>3. result[t].key = n
      BY <1>0, <2>1, <3>2, ChainPrefix
    <3>. QED
      BY <3>1, <3>2, <3>3, ConstantsAssumption
  <2>. QED
    BY <1>1, <2>1
<1>6. ChainInv'
  <2>1. ASSUME NEW c \in Contracts
        PROVE  \E n \in 0..(MaxKey + 1) : \A k \in Keys : chain'[c][k] # None <=> k < n
    <3>1. PICK n \in 0..(MaxKey + 1) : \A k \in Keys : chain[c][k] # None <=> k < n
      BY DEF IInv, ChainInv
    <3>2. CASE receipt'[t] = "verified" /\ HasDelta(t) /\ c = ContractOf[t]
      <4>1. result[t].key = n
        BY <1>0, <3>1, <3>2, ChainPrefix
      <4>2. result[t].key \in Keys /\ t # None
        BY Constants DEF IInv, TypeOK, Results
      <4>3. n + 1 \in 0..(MaxKey + 1)
        BY <4>1, <4>2, ConstantsAssumption DEF Keys
      <4>4. \A k \in Keys : chain'[c][k] # None <=> k < n + 1
        BY <1>1, <3>1, <3>2, <4>1, <4>2, ConstantsAssumption DEF Keys
      <4>. QED
        BY <4>3, <4>4
    <3>3. CASE ~ (receipt'[t] = "verified" /\ HasDelta(t) /\ c = ContractOf[t])
      BY <1>1, <3>1, <3>3
    <3>. QED
      BY <3>2, <3>3
  <2>2. ASSUME NEW u \in Tasks, receipt'[u] = "verified", HasDelta(u)
        PROVE  chain'[ContractOf[u]][result[u].key] = u
    <3>1. /\ ContractOf[u] \in Contracts /\ result[u].key \in Keys /\ u # None
      BY Constants DEF IInv, TypeOK, Results
    <3>2. CASE u = t
      BY <1>1, <2>2, <3>1, <3>2
    <3>3. CASE u # t
      <4>1. chain[ContractOf[u]][result[u].key] = u
        BY <1>0, <2>2, <3>3 DEF IInv, ChainInv
      <4>. QED
        BY <1>5, <3>1, <4>1
    <3>. QED
      BY <3>2, <3>3
  <2>. QED
    BY <1>0, <1>3, <2>1, <2>2 DEF ChainInv
<1>7. HearInv'
  <2>1. ASSUME NEW x \in Handlers
        PROVE  /\ x[2] \in Tasks
               /\ hear[x].stage \in {"update", "announce", "record"} =>
                     /\ Confirmed(x[2])' /\ receipt'[x[2]] = receipt[x[2]]
    BY <1>0, <1>3, HandlerParts DEF IInv, HearInv
  <2>. QED
    BY <1>0, <1>3, <2>1 DEF IInv, HearInv
<1>8. SettleInv'
  BY <1>0, <1>3 DEF IInv, SettleInv
<1>9. RevertInv'
  BY <1>0, <1>3 DEF IInv, RevertInv
<1>10. OutsideDeltaConfirmed'
  <2>1. ASSUME NEW w \in Workers, NEW c \in Contracts, NEW k \in Keys,
               NEW u, u = core[w][c][k], u # None, ExecutorOf[u] # w
        PROVE  receipt'[u] = "verified" /\ Confirmed(u)' /\ chain'[c][k] = u
    <3>1. u \in Tasks
      BY <2>1 DEF IInv, TypeOK
    <3>2. receipt[u] = "verified" /\ Confirmed(u) /\ chain[c][k] = u
      BY <2>1 DEF IInv, OutsideDeltaConfirmed
    <3>. QED
      BY <1>0, <1>3, <1>5, <2>1, <3>1, <3>2
  <2>. QED
    BY <1>0, <2>1 DEF OutsideDeltaConfirmed
<1>11. RecordTruth'
  <2>1. ASSUME NEW w \in Workers, NEW u \in Tasks, record[w][u] \in {"SUCCESS", "FAILED"}
        PROVE  Confirmed(u)' /\ receipt'[u] = receipt[u]
    BY <1>0, <1>3, <2>1 DEF IInv, RecordTruth
  <2>. QED
    BY <1>0, <2>1 DEF IInv, RecordTruth
<1>. QED
  BY <1>2, <1>4, <1>6, <1>7, <1>8, <1>9, <1>10, <1>11 DEF IInv

LEMMA ConfirmInduction ==
    ASSUME IInv, NEW t \in Tasks, Confirm(t)
    PROVE  IInv'
<1>0. /\ UNCHANGED <<core, receipt, chain, announced, faults, result, pc, err, published,
                     hear, record>>
      /\ \A u \in Tasks : tx'[u].state = tx[u].state
      /\ \A u \in Tasks : Confirmed(u) => Confirmed(u)'
  <2>1. tx \in [Tasks -> [state : {"none", "sent", "mined", "error"}, conf : 0..MinConf]]
    BY DEF IInv, TypeOK
  <2>2. ASSUME NEW u \in Tasks
        PROVE  /\ tx'[u].state = tx[u].state
               /\ tx'[u].conf = IF u = t THEN tx[u].conf + 1 ELSE tx[u].conf
    BY <2>1 DEF Confirm
  <2>3. \A u \in Tasks : Confirmed(u) => Confirmed(u)'
    BY <2>1, <2>2, ConstantsAssumption DEF Confirmed
  <2>. QED
    BY <2>2, <2>3 DEF Confirm, execVars, hearVars
<1>1. TypeOK'
  BY EthereumTypes DEF IInv
<1>2. TxInv' /\ ChainInv'
  BY <1>0 DEF IInv, TxInv, ChainInv, IsSuccess, HasDelta
<1>3. HearInv'
  BY <1>0, HandlerParts DEF IInv, HearInv, BuildIpcMsg, IsSuccess, HasDelta
<1>4. SettleInv' /\ RevertInv'
  BY <1>0 DEF IInv, SettleInv, RevertInv, IsSuccess, HasDelta
<1>5. OutsideDeltaConfirmed'
  <2>1. ASSUME NEW w \in Workers, NEW c \in Contracts, NEW k \in Keys,
               NEW u, u = core[w][c][k], u # None, ExecutorOf[u] # w
        PROVE  receipt[u] = "verified" /\ Confirmed(u)' /\ chain[c][k] = u
    <3>1. u \in Tasks
      BY <2>1 DEF IInv, TypeOK
    <3>. QED
      BY <1>0, <2>1, <3>1 DEF IInv, OutsideDeltaConfirmed
  <2>. QED
    BY <1>0, <2>1 DEF OutsideDeltaConfirmed
<1>6. RecordTruth'
  BY <1>0 DEF IInv, RecordTruth
<1>. QED
  BY <1>1, <1>2, <1>3, <1>4, <1>5, <1>6 DEF IInv

LEMMA ExecuteInduction ==
    ASSUME IInv, NEW t \in Tasks, Execute(t)
    PROVE  IInv'
<1>0. /\ UNCHANGED <<err, published, announced, faults, tx, receipt, chain, hear, record>>
      /\ pc[t] = "idle"
      /\ \A u \in Tasks : pc'[u] = IF u = t THEN "publish" ELSE pc[u]
      /\ tx[t].state = "none" /\ receipt[t] = "none" /\ t \notin published
      /\ ContractOf[t] \in Contracts /\ ExecutorOf[t] \in Workers /\ t # None
  BY Constants DEF Execute, IInv, TypeOK, TxInv, chainVars, hearVars
<1>1. PICK r \in Outcomes(t) :
         /\ result' = [result EXCEPT ![t] = r]
         /\ core' = IF r.hasDelta
                    THEN [core EXCEPT ![ExecutorOf[t]][ContractOf[t]][r.key] = t] ELSE core
  BY DEF Execute
<1>2. /\ r.status # "none" /\ r.key \in Keys
      /\ t \in Deploys => r.key = 0
      /\ \A u \in Tasks : result'[u] = IF u = t THEN r ELSE result[u]
  BY <1>1 DEF Outcomes, Results, IInv, TypeOK
<1>3. \A w \in Workers, c \in Contracts, k \in Keys :
         \/ core'[w][c][k] = core[w][c][k]
         \/ core'[w][c][k] = t /\ w = ExecutorOf[t]
  <2>1. CASE r.hasDelta
    <3>1. core \in [Workers -> [Contracts -> Rows]]
      BY DEF IInv, TypeOK, Rows
    <3>2. core' = [core EXCEPT ![ExecutorOf[t]] = [core[ExecutorOf[t]] EXCEPT ![ContractOf[t]] =
                     [core[ExecutorOf[t]][ContractOf[t]] EXCEPT ![r.key] = t]]]
      BY <1>1, <2>1
    <3>. QED
      BY <1>0, <1>2, <3>1, <3>2 DEF Rows
  <2>2. CASE ~ r.hasDelta
    BY <1>1, <2>2
  <2>. QED
    BY <2>1, <2>2
<1>4. TypeOK'
  BY ExecutorTypes DEF IInv
<1>5. \A u \in Tasks : u # t => /\ IsSuccess(u)' <=> IsSuccess(u)
                                /\ HasDelta(u)' <=> HasDelta(u)
                                /\ BuildIpcMsg(u)' <=> BuildIpcMsg(u)
  BY <1>2 DEF IsSuccess, HasDelta, BuildIpcMsg
<1>6. TxInv'
  <2>1. ASSUME NEW u \in Tasks, u # t
        PROVE  pc'[u] = pc[u] /\ result'[u] = result[u]
    BY <1>0, <1>2, <2>1
  <2>2. result'[t] = r /\ pc'[t] = "publish"
    BY <1>0, <1>2
  <2>. QED
    BY <1>0, <1>2, <1>5, <2>1, <2>2 DEF IInv, TxInv
<1>7. ChainInv'
  BY <1>0, <1>2, <1>5 DEF IInv, ChainInv
<1>8. HearInv'
  <2>1. ASSUME NEW x \in Handlers
        PROVE  x[2] \in Tasks /\ (hear[x].stage # "idle" => x[2] # t)
    BY <1>0, HandlerParts DEF IInv, HearInv
  <2>2. \A u \in Tasks : Confirmed(u)' <=> Confirmed(u)
    BY <1>0 DEF Confirmed
  <2>. QED
    BY <1>0, <1>5, <2>1, <2>2 DEF IInv, HearInv
<1>9. SettleInv'
  BY <1>0 DEF IInv, SettleInv, Confirmed
<1>10. RevertInv'
  <2>1. ASSUME NEW u \in Tasks, pc'[u] \in {"announce", "done"}, faults = 0,
               HasDelta(u)', receipt[u] # "verified"
        PROVE  core'[ExecutorOf[u]][ContractOf[u]][result'[u].key] # u
    <3>1. u # t
      BY <1>0, <2>1
    <3>2. /\ ExecutorOf[u] \in Workers /\ ContractOf[u] \in Contracts
          /\ result[u].key \in Keys /\ result'[u] = result[u]
      BY <1>2, <3>1, Constants DEF IInv, TypeOK, Results
    <3>3. core[ExecutorOf[u]][ContractOf[u]][result[u].key] # u
      BY <1>0, <1>5, <2>1, <3>1 DEF IInv, RevertInv
    <3>. QED
      BY <1>3, <3>1, <3>2, <3>3
  <2>. QED
    BY <1>0, <2>1 DEF RevertInv
<1>11. OutsideDeltaConfirmed'
  <2>1. ASSUME NEW w \in Workers, NEW c \in Contracts, NEW k \in Keys,
               NEW u, u = core'[w][c][k], u # None, ExecutorOf[u] # w
        PROVE  receipt'[u] = "verified" /\ Confirmed(u)' /\ chain'[c][k] = u
    <3>1. u = core[w][c][k]
      BY <1>3, <2>1
    <3>2. receipt[u] = "verified" /\ Confirmed(u) /\ chain[c][k] = u
      BY <2>1, <3>1 DEF IInv, OutsideDeltaConfirmed
    <3>. QED
      BY <1>0, <3>2 DEF Confirmed
  <2>. QED
    BY <2>1 DEF OutsideDeltaConfirmed
<1>12. RecordTruth'
  BY <1>0 DEF IInv, RecordTruth, Confirmed
<1>. QED
  BY <1>4, <1>6, <1>7, <1>8, <1>9, <1>10, <1>11, <1>12 DEF IInv

\* The steps after the execution keep the results, Ethereum's receipts and what
\* the other workers do; only the receipt's transaction is new.
LEMMA CommitFrame ==
    ASSUME IInv, NEW t \in Tasks,
           \/ Publish(t) \/ CommitReceipt(t) \/ CommitResolved(t) \/ CommitRejected(t)
           \/ RevertState(t) \/ AnnounceDeployment(t)
    PROVE  /\ UNCHANGED <<result, receipt, chain, hear, record>>
           /\ published \subseteq published'
           /\ pc[t] # "idle" /\ \A u \in Tasks : u # t => pc'[u] = pc[u] /\ err'[u] = err[u]
           /\ \A u \in Tasks : u # t => tx'[u] = tx[u]
           /\ tx[t].state # "none" => tx'[t] = tx[t]
           /\ faults' = 0 => faults = 0
           /\ \A w \in Workers, c \in Contracts, k \in Keys :
                 core'[w][c][k] \in {None, core[w][c][k]}
<1>. USE DEF chainVars, hearVars
<1>1. TypeOK
  BY DEF IInv
<1>2. /\ UNCHANGED <<result, receipt, chain, hear, record>>
      /\ published \subseteq published' /\ pc[t] # "idle"
  BY DEF Publish, CommitReceipt, CommitResolved, CommitRejected, RevertState, AnnounceDeployment
<1>3. /\ \E s : pc' = [pc EXCEPT ![t] = s]
      /\ UNCHANGED err \/ err' = [err EXCEPT ![t] = TRUE]
  BY DEF Publish, CommitReceipt, CommitResolved, CommitRejected, RevertState, AnnounceDeployment,
         CommitDeployTask, CommitComputeTask, DeploySecretContract,
         DeploySecretContractFailure, CommitReceiptOf, CommitTaskFailure, Send
<1>4. \A u \in Tasks : u # t => pc'[u] = pc[u] /\ err'[u] = err[u]
  BY <1>1, <1>3 DEF TypeOK
<1>5. UNCHANGED tx \/ (pc[t] = "send" /\ tx' = [tx EXCEPT ![t].state = "sent"])
  BY DEF Publish, CommitReceipt, CommitResolved, CommitRejected, RevertState, AnnounceDeployment,
         CommitDeployTask, CommitComputeTask, DeploySecretContract,
         DeploySecretContractFailure, CommitReceiptOf, CommitTaskFailure, Send
<1>6. /\ \A u \in Tasks : u # t => tx'[u] = tx[u]
      /\ tx[t].state # "none" => tx'[t] = tx[t]
  BY <1>1, <1>5 DEF TypeOK, IInv, TxInv
<1>7. faults' = 0 => faults = 0
  BY <1>1, FaultsGrow DEF Publish, CommitReceipt, CommitResolved, CommitRejected, TxRejects,
     RevertState, AnnounceDeployment, AnnounceContent
<1>8. \A w \in Workers, c \in Contracts, k \in Keys : core'[w][c][k] \in {None, core[w][c][k]}
  <2>1. CASE UNCHANGED core
    BY <2>1
  <2>2. CASE core' = [core EXCEPT ![ExecutorOf[t]][ContractOf[t]] = Reverted(t)]
    <3>1. core' = [core EXCEPT ![ExecutorOf[t]] =
                      [core[ExecutorOf[t]] EXCEPT ![ContractOf[t]] = Reverted(t)]]
      BY <2>2
    <3>2. \A k \in Keys : Reverted(t)[k] \in {None, core[ExecutorOf[t]][ContractOf[t]][k]}
      BY DEF Reverted
    <3>. QED
      BY <1>1, <3>1, <3>2, Constants DEF TypeOK
  <2>. QED
    BY <2>1, <2>2 DEF Publish, CommitReceipt, CommitResolved, CommitRejected, RevertState,
                      AnnounceDeployment
<1>. QED
  BY <1>2, <1>4, <1>6, <1>7, <1>8

LEMMA CommitInduction ==
    ASSUME IInv, NEW t \in Tasks,
           \/ Publish(t) \/ CommitReceipt(t) \/ CommitResolved(t) \/ CommitRejected(t)
           \/ RevertState(t) \/ AnnounceDeployment(t)
    PROVE  IInv'
<1>. USE DEF chainVars, hearVars
<1>0. /\ UNCHANGED <<result, receipt, chain, hear, record>>
      /\ published \subseteq published'
      /\ pc[t] # "idle" /\ \A u \in Tasks : u # t => pc'[u] = pc[u] /\ err'[u] = err[u]
      /\ \A u \in Tasks : u # t => tx'[u] = tx[u]
      /\ tx[t].state # "none" => tx'[t] = tx[t]
      /\ faults' = 0 => faults = 0
      /\ \A w \in Workers, c \in Contracts, k \in Keys :
            core'[w][c][k] \in {None, core[w][c][k]}
  BY CommitFrame
<1>1. TypeOK'
  BY ExecutorTypes DEF IInv
<1>2. \A u \in Tasks : /\ IsSuccess(u)' <=> IsSuccess(u)
                       /\ HasDelta(u)' <=> HasDelta(u)
                       /\ BuildIpcMsg(u)' <=> BuildIpcMsg(u)
                       /\ Confirmed(u) => Confirmed(u)'
  BY <1>0 DEF IsSuccess, HasDelta, BuildIpcMsg, Confirmed
<1>3. /\ pc'[t] # "idle"
      /\ pc'[t] \in {"publish", "send"} => tx'[t] = tx[t] /\ tx[t].state = "none"
      /\ tx'[t].state = "mined" <=> tx[t].state = "mined"
      /\ tx'[t].state # "none" /\ t \in Deploys /\ IsSuccess(t) => HasDelta(t)
      /\ \A u \in Tasks : u # t => (u \in published' <=> u \in published)
  <2>1. CASE Publish(t)
    BY <2>1 DEF Publish, IInv, TypeOK, TxInv
  <2>2. CASE CommitReceipt(t)
    <3>1. tx[t].state = "none"
      BY <2>2 DEF CommitReceipt, IInv, TxInv
    <3>2. /\ tx' = [tx EXCEPT ![t].state = "sent"] \/ UNCHANGED tx
          /\ pc' = [pc EXCEPT ![t] = "wait"] \/ pc' = [pc EXCEPT ![t] = "done"]
          /\ UNCHANGED published
      BY <2>2 DEF CommitReceipt, CommitDeployTask, CommitComputeTask, DeploySecretContract,
         DeploySecretContractFailure, CommitReceiptOf, CommitTaskFailure, Send
    <3>3. /\ pc'[t] \in {"wait", "done"} /\ tx'[t].state \in {"none", "sent"}
          /\ tx'[t].state = "none" <=> UNCHANGED tx
      BY <3>1, <3>2 DEF IInv, TypeOK
    <3>4. ~ UNCHANGED tx /\ t \in Deploys /\ IsSuccess(t) => HasDelta(t)
      BY <2>2 DEF CommitReceipt, CommitDeployTask, CommitComputeTask, DeploySecretContract,
         DeploySecretContractFailure
    <3>. QED
      BY <3>1, <3>2, <3>3, <3>4
  <2>3. CASE CommitResolved(t) \/ CommitRejected(t) \/ RevertState(t) \/ AnnounceDeployment(t)
    <3>1. /\ \E s \in {"revert", "dead", "done", "announce"} : pc' = [pc EXCEPT ![t] = s]
          /\ UNCHANGED <<published, tx>>
      BY <2>3 DEF CommitResolved, CommitRejected, RevertState, AnnounceDeployment, AfterCommit
    <3>2. pc'[t] \in {"revert", "dead", "done", "announce"}
      BY <3>1 DEF IInv, TypeOK
    <3>. QED
      BY <3>1, <3>2 DEF IInv, TxInv
  <2>. QED
    BY <2>1, <2>2, <2>3
<1>4. TxInv'
  <2>1. ASSUME NEW u \in Tasks, u # t
        PROVE  pc'[u] = pc[u] /\ tx'[u] = tx[u] /\ (u \in published' <=> u \in published)
    BY <1>0, <1>3, <2>1
  <2>. QED
    BY <1>0, <1>2, <1>3, <2>1 DEF IInv, TxInv
<1>5. ChainInv'
  BY <1>0, <1>2 DEF IInv, ChainInv
<1>6. HearInv'
  BY <1>0, <1>2, HandlerParts DEF IInv, HearInv
<1>7. SettleInv'
  <2>1. ASSUME pc'[t] \in {"revert", "announce", "done"}, ~ err'[t]
        PROVE  Confirmed(t)
    <3>1. CASE Publish(t)
      BY <2>1, <3>1 DEF Publish, IInv, TypeOK
    <3>2. CASE CommitReceipt(t)
      <4>1. \/ pc' = [pc EXCEPT ![t] = "wait"]
            \/ err' = [err EXCEPT ![t] = TRUE]
        BY <3>2 DEF CommitReceipt, CommitDeployTask, CommitComputeTask, DeploySecretContract,
           DeploySecretContractFailure, CommitReceiptOf, CommitTaskFailure, Send
      <4>. QED
        BY <2>1, <4>1 DEF IInv, TypeOK
    <3>3. CASE CommitResolved(t)
      BY <3>3, ConstantsAssumption DEF CommitResolved, TxResolves, Confirmed, IInv, TypeOK
    <3>4. CASE CommitRejected(t)
      BY <2>1, <3>4 DEF CommitRejected, IInv, TypeOK
    <3>5. CASE RevertState(t)
      <4>1. pc[t] = "revert" /\ (UNCHANGED err \/ err' = [err EXCEPT ![t] = TRUE])
        BY <3>5 DEF RevertState
      <4>. QED
        BY <2>1, <4>1 DEF IInv, TypeOK, SettleInv
    <3>6. CASE AnnounceDeployment(t)
      BY <2>1, <3>6 DEF AnnounceDeployment, IInv, SettleInv
    <3>. QED
      BY <3>1, <3>2, <3>3, <3>4, <3>5, <3>6
  <2>. QED
    BY <1>0, <1>2, <2>1 DEF IInv, SettleInv
<1>8. RevertInv'
  <2>1. ASSUME pc'[t] \in {"announce", "done"}, faults' = 0, HasDelta(t), receipt[t] # "verified"
        PROVE  core'[ExecutorOf[t]][ContractOf[t]][result[t].key] # t
    <3>0. /\ ExecutorOf[t] \in Workers /\ ContractOf[t] \in Contracts
          /\ result[t].key \in Keys /\ t # None /\ IsSuccess(t)
      BY <2>1, Constants DEF IInv, TypeOK, Results, HasDelta
    <3>1. CASE Publish(t)
      BY <2>1, <3>1 DEF Publish, IInv, TypeOK
    <3>2. CASE CommitReceipt(t)
      <4>1. pc' = [pc EXCEPT ![t] = "wait"] \/ ~ HasDelta(t)
        BY <3>2 DEF CommitReceipt, CommitDeployTask, CommitComputeTask, DeploySecretContract,
           DeploySecretContractFailure, CommitReceiptOf, CommitTaskFailure, Send
      <4>. QED
        BY <2>1, <4>1 DEF IInv, TypeOK
    <3>3. CASE CommitResolved(t)
      <4>1. tx[t].state = "mined" /\ receipt[t] \notin {"none", "failed"}
        BY <3>0, <3>3 DEF CommitResolved, TxResolves, IInv, TxInv
      <4>2. receipt[t] = "failedETH"
        BY <2>1, <4>1 DEF IInv, TypeOK
      <4>3. pc' = [pc EXCEPT ![t] = "revert"]
        BY <2>1, <3>3, <4>2 DEF CommitResolved, PastEvents
      <4>. QED
        BY <2>1, <4>3 DEF IInv, TypeOK
    <3>4. CASE CommitRejected(t)
      BY <2>1, <3>0, <3>4 DEF CommitRejected, IInv, TypeOK
    <3>5. CASE RevertState(t)
      <4>1. core' = [core EXCEPT ![ExecutorOf[t]][ContractOf[t]] = Reverted(t)]
        BY <2>1, <3>5, ConstantsAssumption DEF RevertState, Fault, IInv, TypeOK
      <4>2. core'[ExecutorOf[t]][ContractOf[t]] = Reverted(t)
        BY <3>0, <4>1 DEF IInv, TypeOK
      <4>. QED
        BY <3>0, <4>2 DEF Reverted
    <3>6. CASE AnnounceDeployment(t)
      BY <1>0, <2>1, <3>6 DEF AnnounceDeployment, IInv, RevertInv
    <3>. QED
      BY <3>1, <3>2, <3>3, <3>4, <3>5, <3>6
  <2>2. ASSUME NEW u \in Tasks, u # t, pc[u] \in {"announce", "done"}, faults' = 0,
               HasDelta(u), receipt[u] # "verified"
        PROVE  core'[ExecutorOf[u]][ContractOf[u]][result[u].key] # u
    <3>1. /\ ExecutorOf[u] \in Workers /\ ContractOf[u] \in Contracts
          /\ result[u].key \in Keys /\ u # None
      BY Constants DEF IInv, TypeOK, Results
    <3>2. core[ExecutorOf[u]][ContractOf[u]][result[u].key] # u
      BY <1>0, <2>2 DEF IInv, RevertInv
    <3>. QED
      BY <1>0, <3>1, <3>2
  <2>. QED
    BY <1>0, <1>2, <2>1, <2>2 DEF RevertInv
<1>9. OutsideDeltaConfirmed'
  <2>1. ASSUME NEW w \in Workers, NEW c \in Contracts, NEW k \in Keys,
               NEW u, u = core'[w][c][k], u # None, ExecutorOf[u] # w
        PROVE  receipt'[u] = "verified" /\ Confirmed(u)' /\ chain'[c][k] = u
    <3>1. u = core[w][c][k]
      BY <1>0, <2>1
    <3>2. u \in Tasks
      BY <2>1, <3>1 DEF IInv, TypeOK
    <3>3. receipt[u] = "verified" /\ Confirmed(u) /\ chain[c][k] = u
      BY <2>1, <3>1 DEF IInv, OutsideDeltaConfirmed
    <3>. QED
      BY <1>0, <1>2, <3>2, <3>3
  <2>. QED
    BY <2>1 DEF OutsideDeltaConfirmed
<1>10. RecordTruth'
  BY <1>0, <1>2 DEF IInv, RecordTruth
<1>. QED
  BY <1>1, <1>4, <1>5, <1>6, <1>7, <1>8, <1>9, <1>10 DEF IInv
-----------------------------------------------------------------------------
(* The inductive invariant and what it gives.                              *)

LEMMA InitialInvariant == Init => IInv
<1>. SUFFICES ASSUME Init PROVE IInv
  OBVIOUS
<1>0. /\ None \notin Tasks /\ 0 \in Keys /\ 0 \in 0..MaxFaults /\ 0 \in 0..MinConf
      /\ 0 \in 0..(MaxKey + 1) /\ \A k \in Keys : ~ (k < 0)
  BY ConstantsAssumption DEF Keys
<1>1. TypeOK
  <2>1. core \in [Workers -> [Contracts -> [Keys -> Tasks \cup {None}]]]
    BY DEF Init, EmptyRow
  <2>2. result \in [Tasks -> Results]
    BY <1>0 DEF Init, NoResult, Results
  <2>3. hear \in [Handlers -> [stage : {"idle", "tip", "verify", "update",
                                        "announce", "record", "end", "lost"},
                               ethFailure : BOOLEAN]]
    BY DEF Init
  <2>. QED
    BY <1>0, <2>1, <2>2, <2>3 DEF Init, TypeOK, EmptyRow
<1>2. TxInv
  BY DEF Init, TxInv, IsSuccess, HasDelta, NoResult
<1>3. ChainInv
  BY <1>0 DEF Init, ChainInv, EmptyRow
<1>4. HearInv /\ SettleInv /\ RevertInv
  BY DEF Init, HearInv, SettleInv, RevertInv
<1>5. OutsideDeltaConfirmed
  BY DEF Init, EmptyRow, OutsideDeltaConfirmed
<1>6. RecordTruth
  BY DEF Init, RecordTruth
<1>. QED
  BY <1>1, <1>2, <1>3, <1>4, <1>5, <1>6 DEF IInv

LEMMA StutterInduction == IInv /\ UNCHANGED vars => IInv'
<1>. SUFFICES ASSUME IInv, UNCHANGED vars PROVE IInv'
  OBVIOUS
<1>. USE DEF vars
<1>1. TypeOK'
  BY DEF IInv, TypeOK
<1>2. \A t \in Tasks : /\ IsSuccess(t)' <=> IsSuccess(t)
                       /\ HasDelta(t)' <=> HasDelta(t)
                       /\ BuildIpcMsg(t)' <=> BuildIpcMsg(t)
                       /\ Confirmed(t)' <=> Confirmed(t)
  BY DEF IsSuccess, HasDelta, BuildIpcMsg, Confirmed
<1>3. TxInv' /\ ChainInv'
  BY <1>2 DEF IInv, TxInv, ChainInv
<1>4. HearInv'
  BY <1>2, HandlerParts DEF IInv, HearInv
<1>5. SettleInv' /\ RevertInv' /\ RecordTruth'
  BY <1>2 DEF IInv, SettleInv, RevertInv, RecordTruth
<1>6. OutsideDeltaConfirmed'
  BY DEF IInv, OutsideDeltaConfirmed, Confirmed
<1>. QED
  BY <1>1, <1>3, <1>4, <1>5, <1>6 DEF IInv

\* The invariant the others follow from: a transaction follows its result, the
\* contract's deltas are a prefix of the keys, and whoever is past the
\* verification or the commit has seen the receipt confirmed.
THEOREM Invariance == Spec => []IInv
<1>1. IInv /\ [Next]_vars => IInv'
  BY HandlerInduction, MineInduction, ConfirmInduction, ExecuteInduction, CommitInduction,
     StutterInduction DEF Next, Handling, Ethereum
<1>. QED
  BY InitialInvariant, <1>1, PTL DEF Spec

\* The state of the executors, of Ethereum and of the handlers keeps its type.
THEOREM TypeCorrect == Spec => []TypeOK
<1>1. IInv => TypeOK
  BY DEF IInv
<1>. QED
  BY Invariance, <1>1, PTL

\* VerifyAndStoreResultAction tells core of a result only after the confirmed,
\* verified receipt, so core holds the delta Ethereum holds at that key.
THEOREM OutsideConfirmed == Spec => []OutsideDeltaConfirmed
<1>1. IInv => OutsideDeltaConfirmed
  BY DEF IInv
<1>. QED
  BY Invariance, <1>1, PTL

\* A SUCCESS or FAILED that StoreOutside stores agrees with the confirmed receipt,
\* for every number and order of deliveries.
THEOREM RecordsTrue == Spec => []RecordTruth
<1>1. IInv => RecordTruth
  BY DEF IInv
<1>. QED
  BY Invariance, <1>1, PTL

\* CommitReceiptAction reverts core before it returns from a commit that
\* Ethereum did not take.
THEOREM FailureReverted == Spec => []FailedCommitReverted
<1>1. IInv => FailedCommitReverted
  BY DEF IInv, RevertInv, FailedCommitReverted
<1>. QED
  BY Invariance, <1>1, PTL

\* The writer settles a commit without an error only on the confirmation event
\* of minimumConfirmations.
THEOREM SettledConfirmed == Spec => []SettledIsConfirmed
<1>1. IInv => SettledIsConfirmed
  BY DEF IInv, SettleInv, SettledIsConfirmed
<1>. QED
  BY Invariance, <1>1, PTL
=============================================================================
