----------------------------- MODULE ResultFlow -----------------------------
(***************************************************************************)
(* From a computed result to every worker's copy of it.  The worker that   *)
(* executed a task publishes the result and then commits its receipt to    *)
(* Ethereum (PublishTaskResultAction, CommitReceiptAction, the contract    *)
(* writer), reverting core when the commit fails.  Every other worker      *)
(* hears the result, waits for Ethereum's word on it and stores it in core *)
(* and in its task database (VerifyAndStoreResultAction).                  *)
(* A delta is identified by its task.  Messages are lost, repeated and     *)
(* reordered; receipts are refused, or fail in their Ethereum callback.    *)
(***************************************************************************)
EXTENDS Naturals, FiniteSets, FiniteSetsExt

CONSTANTS
    Workers,     \* workers
    Tasks,       \* tasks
    None,        \* no task
    Deploys,     \* the tasks that deploy their contract
    Contracts,   \* secret contracts
    ContractOf,  \* the contract of each task
    ExecutorOf,  \* the worker selected for each task
    Deliveries,  \* how often each result reaches one worker, at most
    MaxKey,      \* bound on delta keys
    MinConf,     \* minimumConfirmations
    MaxFaults    \* bound on failures of core, LevelDB, the DHT and on timeouts

ASSUME ConstantsAssumption ==
    /\ None \notin Tasks
    /\ Deploys \subseteq Tasks
    /\ ContractOf \in [Tasks -> Contracts]
    /\ ExecutorOf \in [Tasks -> Workers]
    /\ Deliveries \in [Tasks -> Nat]
    /\ MaxKey \in Nat
    /\ MinConf \in Nat
    /\ MaxFaults \in Nat

VARIABLES
    core,       \* worker -> contract -> key -> task: the deltas core keeps
    result,     \* what core returned for each task
    pc,         \* the executor's handling of each task
    err,        \* the error of its commit
    tx,         \* the receipt's transaction, as the writer's emitter tells it
    receipt,    \* what the contract made of it
    chain,      \* contract -> key -> task: the contract's deltaHashes
    published,  \* results on the TASK_RESULTS topic
    hear,       \* the handling of each delivery: <<worker, task, copy>>
    shared,     \* those that wait for Ethereum and met another copy doing so
    record,     \* worker -> task: status of the stored OutsideTask
    announced,  \* content routing: <<worker, contract>>
    faults      \* failures so far

chainVars == <<tx, receipt, chain>>
execVars  == <<result, pc, err, published>>
hearVars  == <<hear, shared, record>>
vars == <<core, result, pc, err, tx, receipt, chain, published, hear, shared,
          record, announced, faults>>

Keys     == 0..MaxKey
EmptyRow == [k \in Keys |-> None]
Filled(r) == {k \in Keys : r[k] # None}

\* Result, DeployResult, ComputeResult and FailedResult: whether the task
\* succeeded, and the key of its delta when it has one.
Results == [status : {"none", "SUCCESS", "FAILED"}, hasDelta : BOOLEAN, key : Keys]
NoResult == [status |-> "none", hasDelta |-> FALSE, key |-> 0]
IsSuccess(t) == result[t].status = "SUCCESS"
HasDelta(t)  == IsSuccess(t) /\ result[t].hasDelta

Handlers == UNION {{<<w, t, n>> : w \in Workers \ {ExecutorOf[t]}, n \in 1..Deliveries[t]} :
                   t \in Tasks}

TypeOK ==
    /\ core \in [Workers -> [Contracts -> [Keys -> Tasks \cup {None}]]]
    /\ result \in [Tasks -> Results]
    /\ pc \in [Tasks -> {"idle", "publish", "send", "wait", "revert",
                         "announce", "done", "dead"}]
    /\ err \in [Tasks -> BOOLEAN]
    /\ tx \in [Tasks -> [state : {"none", "sent", "mined", "error"}, conf : 0..MinConf]]
    /\ receipt \in [Tasks -> {"none", "verified", "failedETH", "failed"}]
    /\ chain \in [Contracts -> [Keys -> Tasks \cup {None}]]
    /\ published \subseteq Tasks
    /\ hear \in [Handlers -> [stage : {"idle", "tip", "verify", "update",
                                       "announce", "record", "end", "lost"},
                              ethFailure : BOOLEAN]]
    /\ shared \subseteq Handlers
    /\ record \in [Workers -> [Tasks -> {"none", "SUCCESS", "FAILED", "undefined"}]]
    /\ announced \subseteq Workers \X Contracts
    /\ faults \in 0..MaxFaults

Init ==
    /\ core = [w \in Workers |-> [c \in Contracts |-> EmptyRow]]
    /\ result = [t \in Tasks |-> NoResult]
    /\ pc = [t \in Tasks |-> "idle"]
    /\ err = [t \in Tasks |-> FALSE]
    /\ tx = [t \in Tasks |-> [state |-> "none", conf |-> 0]]
    /\ receipt = [t \in Tasks |-> "none"]
    /\ chain = [c \in Contracts |-> EmptyRow]
    /\ published = {}
    /\ hear = [x \in Handlers |-> [stage |-> "idle", ethFailure |-> FALSE]]
    /\ shared = {}
    /\ record = [w \in Workers |-> [t \in Tasks |-> "none"]]
    /\ announced = {}
    /\ faults = 0

Fault ==
    /\ faults < MaxFaults
    /\ faults' = faults + 1
-----------------------------------------------------------------------------
(* The executor.                                                           *)

\* buildFromRaw: what core may return.  A deployment has delta 0; a
\* computation extends the state core has, or leaves it as it is, or fails.
Outcomes(t) ==
    LET state == Filled(core[ExecutorOf[t]][ContractOf[t]])
        next  == IF t \in Deploys \/ state = {} THEN 0 ELSE Max(state) + 1
    IN  {r \in Results :
           /\ r.status # "none"
           /\ r.status = "SUCCESS" => (t \in Deploys <=> state = {})
           /\ r.status = "FAILED" => ~ r.hasDelta
           /\ r.key = IF r.hasDelta THEN next ELSE 0}

\* core executes a task and keeps the delta it computed.
Execute(t) ==
    LET w == ExecutorOf[t] IN
    /\ pc[t] = "idle"
    /\ \E r \in Outcomes(t) :
          /\ result' = [result EXCEPT ![t] = r]
          /\ core' = IF r.hasDelta
                     THEN [core EXCEPT ![w][ContractOf[t]][r.key] = t] ELSE core
    /\ pc' = [pc EXCEPT ![t] = "publish"]
    /\ UNCHANGED <<err, published, announced, faults>>
    /\ UNCHANGED chainVars /\ UNCHANGED hearVars

\* PublishTaskResultAction: the result goes out before its receipt does.
Publish(t) ==
    /\ pc[t] = "publish"
    /\ published' = published \cup {t}
    /\ pc' = [pc EXCEPT ![t] = "send"]
    /\ UNCHANGED <<core, result, err, announced, faults>>
    /\ UNCHANGED chainVars /\ UNCHANGED hearVars

Send(t) ==
    /\ tx' = [tx EXCEPT ![t].state = "sent"]
    /\ pc' = [pc EXCEPT ![t] = "wait"]
    /\ UNCHANGED err

\* The four transactions of EnigmaContractWriterAPI that end a task.
DeploySecretContract(t)        == HasDelta(t) /\ Send(t)
DeploySecretContractFailure(t) == ~ IsSuccess(t) /\ Send(t)
CommitReceiptOf(t)             == IsSuccess(t) /\ Send(t)
CommitTaskFailure(t)           == ~ IsSuccess(t) /\ Send(t)

\* A deployment without a delta is an input error and nothing is sent.
CommitDeployTask(t) ==
    /\ t \in Deploys
    /\ \/ DeploySecretContract(t)
       \/ DeploySecretContractFailure(t)
       \/ /\ IsSuccess(t) /\ ~ HasDelta(t)
          /\ err' = [err EXCEPT ![t] = TRUE]
          /\ pc' = [pc EXCEPT ![t] = "done"]
          /\ UNCHANGED tx

CommitComputeTask(t) ==
    /\ t \notin Deploys
    /\ CommitReceiptOf(t) \/ CommitTaskFailure(t)

CommitReceipt(t) ==
    /\ pc[t] = "send"
    /\ CommitDeployTask(t) \/ CommitComputeTask(t)
    /\ UNCHANGED <<core, result, published, receipt, chain, announced, faults>>
    /\ UNCHANGED hearVars
-----------------------------------------------------------------------------
(* Ethereum, as the writer and the verifier use it.                        *)

Deployed(c) == Filled(chain[c]) # {}

\* A deployment's receipt is for a contract that is not deployed, any other for
\* one that is.  The signature of a computation's receipt covers the state it
\* extends: one that does not extend the contract's last delta is refused.
Valid(t) ==
    LET c == ContractOf[t] IN
    IF t \in Deploys THEN ~ Deployed(c)
    ELSE Deployed(c) /\ (HasDelta(t) => result[t].key = Cardinality(Filled(chain[c])))

MinedAs(t, status) ==
    /\ tx' = [tx EXCEPT ![t].state = "mined"]
    /\ receipt' = [receipt EXCEPT ![t] = status]
    /\ chain' = IF status = "verified" /\ HasDelta(t)
                THEN [chain EXCEPT ![ContractOf[t]][result[t].key] = t] ELSE chain

\* The transaction is mined as a success, as a success whose Ethereum callback
\* failed, or as the receipt of a failure; or it is refused.
Mine(t) ==
    /\ tx[t].state = "sent"
    /\ \/ Valid(t) /\ IsSuccess(t) /\ MinedAs(t, "verified")
       \/ Valid(t) /\ IsSuccess(t) /\ MinedAs(t, "failedETH")
       \/ Valid(t) /\ ~ IsSuccess(t) /\ MinedAs(t, "failed")
       \/ /\ tx' = [tx EXCEPT ![t].state = "error"]
          /\ UNCHANGED <<receipt, chain>>
    /\ UNCHANGED <<core, announced, faults>>
    /\ UNCHANGED execVars /\ UNCHANGED hearVars

Confirm(t) ==
    /\ tx[t].state = "mined"
    /\ tx[t].conf < MinConf
    /\ tx' = [tx EXCEPT ![t].conf = @ + 1]
    /\ UNCHANGED <<core, receipt, chain, announced, faults>>
    /\ UNCHANGED execVars /\ UNCHANGED hearVars

Confirmed(t) == tx[t].state = "mined" /\ tx[t].conf >= MinConf
-----------------------------------------------------------------------------
(* The outcome of the commit.                                              *)

\* Each writer method: RECEIPT settles the promise only without a minimum of
\* confirmations, CONFIRMATION once the minimum is reached.
TxResolves_OnReceipt(t) == tx[t].state = "mined"

TxResolves(t) ==
    /\ tx[t].state = "mined"
    /\ MinConf = 0 \/ tx[t].conf >= MinConf

AfterCommit(t, e) ==
    IF t \in Deploys /\ IsSuccess(t) /\ ~ e THEN "announce" ELSE "done"

\* _parsePastEvents: what the contract emitted for the task.
PastEvents(t) == {receipt[t]} \ {"none"}

\* resolveLogic reads the past events; only ReceiptFailedETH asks for a revert.
CommitResolved(t) ==
    /\ pc[t] = "wait"
    /\ TxResolves(t)
    /\ pc' = [pc EXCEPT ![t] = IF "failedETH" \in PastEvents(t) /\ HasDelta(t)
                               THEN "revert" ELSE AfterCommit(t, FALSE)]
    /\ UNCHANGED <<core, result, err, published, announced, faults>>
    /\ UNCHANGED chainVars /\ UNCHANGED hearVars

\* ERROR: the contract refused the transaction, or web3 stopped waiting for one
\* that is still in the pool and may yet be mined.
TxRejects(t) ==
    \/ tx[t].state = "error" /\ UNCHANGED faults
    \/ tx[t].state = "sent" /\ Fault

\* The catch blocks.  A deployment is reverted and the error kept.  For a
\* computation the log line reads the undefined variable e: the handler ends
\* there, without the revert and the resynchronisation that follow.
CommitRejected_NoRevert(t) ==
    /\ pc[t] = "wait"
    /\ TxRejects(t)
    /\ pc' = [pc EXCEPT ![t] = IF IsSuccess(t) /\ t \notin Deploys THEN "dead" ELSE "done"]
    /\ err' = [err EXCEPT ![t] = TRUE]
    /\ UNCHANGED <<core, result, published, announced>>
    /\ UNCHANGED chainVars /\ UNCHANGED hearVars

CommitRejected(t) ==
    /\ pc[t] = "wait"
    /\ TxRejects(t)
    /\ pc' = [pc EXCEPT ![t] = IF ~ IsSuccess(t) THEN "done"
                               ELSE IF t \in Deploys THEN "revert" ELSE "dead"]
    /\ err' = [err EXCEPT ![t] = TRUE]
    /\ UNCHANGED <<core, result, published, announced>>
    /\ UNCHANGED chainVars /\ UNCHANGED hearVars

\* RemoveContract, or RemoveDeltas {from: key, to: key + 1}: the range is
\* removed, whoever's deltas it holds by now.
Reverted_CutOff(t) ==
    [k \in 0..result[t].key |-> IF t \in Deploys \/ k = result[t].key
                                THEN None ELSE core[ExecutorOf[t]][ContractOf[t]][k]]

Reverted(t) ==
    [k \in Keys |-> IF t \in Deploys \/ k = result[t].key
                    THEN None ELSE core[ExecutorOf[t]][ContractOf[t]][k]]

\* _revertState: core removes; or answers with type Error, which passes for a
\* success; or refuses, which is the error of the commit unless it has one.
RevertState(t) ==
    /\ pc[t] = "revert"
    /\ \/ /\ core' = [core EXCEPT ![ExecutorOf[t]][ContractOf[t]] = Reverted(t)]
          /\ pc' = [pc EXCEPT ![t] = AfterCommit(t, err[t])]
          /\ UNCHANGED <<err, faults>>
       \/ /\ Fault
          /\ pc' = [pc EXCEPT ![t] = AfterCommit(t, err[t])]
          /\ UNCHANGED <<core, err>>
       \/ /\ Fault
          /\ pc' = [pc EXCEPT ![t] = "done"]
          /\ err' = [err EXCEPT ![t] = TRUE]
          /\ UNCHANGED core
    /\ UNCHANGED <<result, published, announced>>
    /\ UNCHANGED chainVars /\ UNCHANGED hearVars

\* AnnounceContentAction: the DHT takes the contract's id, or the failure is
\* only logged by whoever asked.
AnnounceContent(w, c) ==
    \/ announced' = announced \cup {<<w, c>>} /\ UNCHANGED faults
    \/ Fault /\ UNCHANGED announced

\* The end of PublishTaskResultAction: announce a deployment without an error.
AnnounceDeployment(t) ==
    /\ pc[t] = "announce"
    /\ pc' = [pc EXCEPT ![t] = "done"]
    /\ AnnounceContent(ExecutorOf[t], ContractOf[t])
    /\ UNCHANGED <<core, result, err, published>>
    /\ UNCHANGED chainVars /\ UNCHANGED hearVars
-----------------------------------------------------------------------------
(* The other workers: x = <<worker, task, copy>>.                          *)

Stage(x, s) == hear' = [hear EXCEPT ![x].stage = s]

\* The other copies of the same result at the same worker.
Copies(x) == {y \in Handlers \ {x} : y[1] = x[1] /\ y[2] = x[2]}

\* verifyTaskSubmission keeps one listener per task id: while two copies of a
\* result wait, the later one has replaced the listener of the earlier, and a
\* read that settles one drops the listener of the other.
Listen(x) ==
    LET others == {y \in Copies(x) : hear[y].stage = "verify"}
    IN  shared' = IF others = {} THEN shared ELSE shared \cup others \cup {x}

\* _buildTaskResult: the published record is a ComputeResult.
IsComputeResult(t) == IsSuccess(t) /\ t \notin Deploys

\* onTaskResultPublish hands over every result but the worker's own; for a
\* computation without a delta core's tip is needed first.
Receive(x) ==
    LET t == x[2] IN
    /\ hear[x].stage = "idle"
    /\ t \in published
    /\ x[3] > 1 => hear[<<x[1], t, x[3] - 1>>].stage # "idle"    \* the n-th copy
    /\ IF IsComputeResult(t) /\ ~ HasDelta(t)
       THEN Stage(x, "tip") /\ UNCHANGED shared
       ELSE Stage(x, "verify") /\ Listen(x)
    /\ UNCHANGED <<core, record, announced, faults>>
    /\ UNCHANGED execVars /\ UNCHANGED chainVars

\* GetTipsAction: the keys of the contract's deltas in core, its tip the last.
GetTips(w, c) == Filled(core[w][c])

\* GET_TIPS before the verification; no tip, or an error of core, ends it.
ReadTip(x) ==
    LET tips == GetTips(x[1], ContractOf[x[2]]) IN
    /\ hear[x].stage = "tip"
    /\ \/ tips # {} /\ Stage(x, "verify") /\ Listen(x) /\ UNCHANGED faults
       \/ tips = {} /\ Stage(x, "end") /\ UNCHANGED <<shared, faults>>
       \/ Fault /\ Stage(x, "end") /\ UNCHANGED shared
    /\ UNCHANGED <<core, record, announced>>
    /\ UNCHANGED execVars /\ UNCHANGED chainVars

\* What verifyTaskSubmission may answer (module EthereumVerifier): only a
\* confirmed receipt is good or a callback failure; an error is possible at any
\* time, since the epoch may end first and a tip read too early may not match.
Verdicts_Unconfirmed(t) ==
    {"error"} \cup (IF receipt[t] = "failedETH" THEN {"ethFailure"} ELSE {"verified"})

Verdicts(t) ==
    {"error"} \cup
    (IF Confirmed(t) THEN {IF receipt[t] = "failedETH" THEN "ethFailure" ELSE "verified"}
                     ELSE {})

\* _buildIpcMsg: what core is told of a verified result, if anything.
BuildIpcMsg(t) == IsSuccess(t) /\ (t \in Deploys \/ HasDelta(t))

\* A listener that was replaced or dropped hears nothing, not even that the
\* epoch ended.  Whoever replaced or dropped it has one, or an answer.
NeverAnswered(x) ==
    /\ x \in shared
    /\ \E y \in Copies(x) : hear[y].stage \notin {"idle", "tip", "lost"}
    /\ Stage(x, "lost")

\* _verifyResult and what follows from its answer.
VerifyResult_NoTimeout(x) ==
    LET t == x[2] IN
    /\ hear[x].stage = "verify"
    /\ \/ /\ "verified" \in Verdicts(t)
          /\ Stage(x, IF BuildIpcMsg(t) THEN "update" ELSE "record")
       \/ /\ "ethFailure" \in Verdicts(t)
          /\ hear' = [hear EXCEPT ![x].stage = "record", ![x].ethFailure = TRUE]
       \/ NeverAnswered(x)
    /\ shared' = shared \ {x}
    /\ UNCHANGED <<core, record, announced, faults>>
    /\ UNCHANGED execVars /\ UNCHANGED chainVars

VerifyResult(x) ==
    LET t == x[2] IN
    /\ hear[x].stage = "verify"
    /\ \/ /\ "verified" \in Verdicts(t)
          /\ Stage(x, IF BuildIpcMsg(t) THEN "update" ELSE "record")
       \/ /\ "ethFailure" \in Verdicts(t)
          /\ hear' = [hear EXCEPT ![x].stage = "record", ![x].ethFailure = TRUE]
       \/ Stage(x, "end")
       \/ NeverAnswered(x)
    /\ shared' = shared \ {x}
    /\ UNCHANGED <<core, record, announced, faults>>
    /\ UNCHANGED execVars /\ UNCHANGED chainVars

\* UPDATE_DB with UpdateNewContractOnDeployment or UpdateDeltas: core writes;
\* or answers with type Error, which passes for a success; or refuses, and the
\* handler returns.
UpdateCore(x) ==
    LET t == x[2]
        next == IF t \in Deploys THEN "announce" ELSE "record" IN
    /\ hear[x].stage = "update"
    /\ \/ /\ core' = [core EXCEPT ![x[1]][ContractOf[t]][result[t].key] = t]
          /\ Stage(x, next)
          /\ UNCHANGED faults
       \/ Fault /\ Stage(x, next) /\ UNCHANGED core
       \/ Fault /\ Stage(x, "end") /\ UNCHANGED core
    /\ UNCHANGED <<shared, record, announced>>
    /\ UNCHANGED execVars /\ UNCHANGED chainVars

AnnounceOutside(x) ==
    /\ hear[x].stage = "announce"
    /\ Stage(x, "record")
    /\ AnnounceContent(x[1], ContractOf[x[2]])
    /\ UNCHANGED <<core, shared, record>>
    /\ UNCHANGED execVars /\ UNCHANGED chainVars

\* OutsideTask.buildTask keeps the published status.
BuildTask(t) == result[t].status

\* The status stored: TASK_STATUS.FAILED is a string, so the status of an
\* Ethereum failure, FAILED.FAILED_ETHEREUM_CB, is undefined.
OutsideStatus_AsPublished(x) == result[x[2]].status

OutsideStatus(x) ==
    IF hear[x].ethFailure THEN "undefined" ELSE BuildTask(x[2])

StoreOutside(x) ==
    /\ hear[x].stage = "record"
    /\ Stage(x, "end")
    /\ \/ /\ record' = [record EXCEPT ![x[1]][x[2]] = OutsideStatus(x)]
          /\ UNCHANGED faults
       \/ Fault /\ UNCHANGED record
    /\ UNCHANGED <<core, shared, announced>>
    /\ UNCHANGED execVars /\ UNCHANGED chainVars
-----------------------------------------------------------------------------
Handling ==
    \/ \E t \in Tasks :
          \/ Publish(t) \/ CommitReceipt(t) \/ CommitResolved(t) \/ CommitRejected(t)
          \/ RevertState(t) \/ AnnounceDeployment(t)
    \/ \E x \in Handlers :
          \/ ReadTip(x) \/ VerifyResult(x) \/ UpdateCore(x) \/ AnnounceOutside(x)
          \/ StoreOutside(x)

Ethereum == \E t \in Tasks : Mine(t) \/ Confirm(t)

Next ==
    \/ \E t \in Tasks : Execute(t)
    \/ \E x \in Handlers : Receive(x)
    \/ Handling
    \/ Ethereum

\* The event loop runs the handlers' continuations; transactions are mined and
\* confirmed; the verifier answers, at the latest when the epoch ends, whoever
\* still has a listener.
Spec == Init /\ [][Next]_vars /\ WF_vars(Handling \/ Ethereum)
-----------------------------------------------------------------------------
(* Properties.                                                             *)

\* A delta another worker computed is in core only if its receipt is confirmed
\* on Ethereum, at that key: a result is published before it is committed, and
\* its commit may still be refused or fail (VerifyAndStoreResultAction).
OutsideDeltaConfirmed ==
    \A w \in Workers, c \in Contracts, k \in Keys :
        LET t == core[w][c][k] IN
        t # None /\ ExecutorOf[t] # w =>
            receipt[t] = "verified" /\ Confirmed(t) /\ chain[c][k] = t

\* A stored SUCCESS or FAILED of another worker's task is what Ethereum decided,
\* however often and in whatever order its result arrives: it rests on a
\* confirmed receipt of that kind, never on the published status alone
\* (VerifyAndStoreResultAction, TaskManager.addOutsideResult).
RecordTruth ==
    \A w \in Workers, t \in Tasks :
        /\ record[w][t] = "SUCCESS" => Confirmed(t) /\ receipt[t] = "verified"
        /\ record[w][t] = "FAILED"  => Confirmed(t) /\ receipt[t] = "failed"

\* "In case of the later, we update the task status to signal that the task
\* failed due to Ethereum callback": whatever is stored of a task whose callback
\* failed has the status ETHEREUMFAILURE.
EthereumFailureRecorded ==
    \A w \in Workers, t \in Tasks :
        receipt[t] = "failedETH" => record[w][t] \in {"none", "ETHEREUMFAILURE"}

\* When the handler of a task has returned and no request to core failed, core
\* does not keep a delta of the task that Ethereum did not take.  (The handler
\* that dies in its catch block is the exception.)
FailedCommitReverted ==
    \A t \in Tasks :
        pc[t] = "done" /\ faults = 0 /\ HasDelta(t) /\ receipt[t] # "verified" =>
            core[ExecutorOf[t]][ContractOf[t]][result[t].key] # t

\* The executor treats its receipt as settled only after minimumConfirmations.
SettledIsConfirmed ==
    \A t \in Tasks :
        pc[t] \in {"revert", "announce", "done"} /\ tx[t].state = "mined" /\ ~ err[t] =>
            Confirmed(t)

\* "announce as provider if its deployment and successful and no error occurred
\* in task's commit": whoever is announced as a provider of a contract, the
\* contract is deployed on Ethereum.
AnnouncedIsDeployed == \A x \in announced : Deployed(x[2])

\* The handling of a result ends at its executor (or dies in the catch block)
\* and at every worker that received it.  A copy whose verification overlapped
\* with another's may wait for ever; then another copy at that worker ended.
\* No handler starts twice, so that at times none is under way means that each
\* one ends.
HandlersSettle ==
    []<>(/\ \A t \in Tasks : pc[t] \in {"idle", "done", "dead"}
         /\ \A x \in Handlers :
              \/ hear[x].stage \in {"idle", "end"}
              \/ /\ hear[x].stage = "lost"
                 /\ \E y \in Copies(x) : hear[y].stage = "end")
=============================================================================
