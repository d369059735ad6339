# Enigma P2P worker: TLA+ specifications

The repository is the peer-to-peer node of the Enigma protocol. A *worker* takes
tasks (deployments of secret contracts and computations on them) from the
network, checks with Ethereum that it was selected for them, hands them to
`enigma-core` (an SGX enclave behind ZeroMQ), and publishes the results. This
directory models the worker's own logic. Source paths below are relative to
`src/src/`; the exact lines of every definition are in `PROJECT.json` ("map").

## 1. Inventory

JavaScript runs one callback at a time, and `NodeController` runs the action of a
notification synchronously inside the `notify` call (`NodeController.js:204-216`).
So every model uses the same rule: **one action is what runs between two
suspension points** (an await, a database call, a request to core, a timer).

| Part | State | Operations | What is hard | What makes it correct |
|---|---|---|---|---|
| `TaskManager` | `_unverifiedPool` (memory), LevelDB | addTaskUnverified, onVerifyTask, onFinishTask, addOutsideResult, queries | duplicate submissions, delete-then-put, failing calls, restarts | only confirmed tasks leave memory; a stored task is not lost; a published result is the stored one |
| Task actions | none of their own | StartTaskExecution, VerifyNewTask, HandleVerifiedTask, ExecuteTask, PublishTaskResult | each is a chain of callbacks over shared state | every verified task is tried |
| `PrincipalNode`, `GetStateKeysAction` (PTT) | `_pttInProgress`, listeners on `PTT_END` | startPTT, getStateKeys, onPTTEnd | a lock without an owner, released to a queue of listeners | one exchange at a time; every queued task gets its turn |
| `EthereumVerifier` | listeners per task id, the last epochs' worker parameters | verifyTaskCreation, verifyTaskSubmission, five event callbacks, init | a read races an event and a timeout | no event missed; positive answers rest on confirmed state; overdue calls are answered |
| `EnigmaContractReaderAPI`, `EthereumServices` | active subscriptions | confirmed reads, subscribe | each event waits for its confirmations separately, so they arrive in any order | reads and events use the same confirmations |
| `VerifyAndStoreResultAction` | core's deltas, LevelDB | verify a published result, update core, store, announce | awaits between tip, verification and update; results overtake their receipts | only confirmed results are stored, with the status Ethereum gave them |
| `CommitReceiptAction`, `EnigmaContractWriterAPI`, `PublishTaskResultAction` | core's deltas, a promise per transaction | publish, commit, wait for confirmations, revert, announce | failures after the state was changed; a transaction that is given up and mined later | a result Ethereum refused leaves no delta; a receipt counts once it is confirmed |
| Sync receiver (`ReceiveAllPipelineAction`, `TryReceiveAllAction`, `Receiver`, `ethereum/StateSync`, `LocalMissingStatesResult`, `StateSyncReqVerifier`) | `_running`, provider lists, local tips | compare with Ethereum, find providers, request, verify, write, retry, revert | partial failures, ranges, stale lists, callbacks that throw | core gains only what Ethereum has; nothing that was on Ethereum is reverted; the caller is answered |
| Sync provider (`Provider`, `ProtocolHandler`), content announcement (`AnnounceLocalStateAction`, `AnnounceContentAction`) | the DHT's records | answer state requests, declare contracts | providers that are behind, streams that end with errors | – (the receiver does not trust it) |
| Worker start (`InitWorkerAction`, `NewPeerAction`, CLI set-up and `init` command) | two flags of `NodeController` | waterfall of steps | a failing or hanging step, peers that come and go, commands typed meanwhile, restarts | one initialisation per process unless an operator asks for another, each of which ends |
| Registration (`RegisterAction`, `LoginAction`, `LogoutAction`, `UnregisterAction`) | the worker's record on Ethereum | four transactions, two of them decided by a read | reads that lag, concurrent callers, abandoned transactions | what an action answered is what the record then says |
| Gateway (`JsonRpcServer`, proxy actions) | topics, handlers, pending envelopes | blocking and non-blocking routes | shared topics, handlers that stay, lost messages | a call gets the answer to what it asked |
| `Communicator`, `MainController`, `ipc` | listeners per envelope id, a REQ socket | sendAndReceive | answers that never come | each answer reaches its request |
| libp2p wrapper, codecs, CLI options, core mock | – | I/O and formatting | – | out of scope |

Interactions. A task message makes `TaskManager` pool the task and notify
`VERIFY_NEW_TASK`; that action asks `EthereumVerifier`, whose promise is resolved
by a read, an event or a timeout; `onVerifyTask` stores the task, empties the pool
entry and notifies `TASK_VERIFIED`; `HandleVerifiedTaskAction` runs it, or queues it
on `PTT_END`; `ExecuteTaskAction` may first run an exchange, then calls core;
`onFinishTask` rewrites the record and notifies `TASK_FINISHED`, whose action
publishes and commits the result. Other workers verify it with the same verifier and
write its delta to core; whoever missed it asks the providers of the contract when it synchronises.
`NewEpoch` events start an exchange and time out old verifications. The start of a worker runs a
synchronisation, an announcement and a registration in turn; the gateway reaches the
worker over pubsub topics. The hazards of each step, with their lines, are in
`PROJECT.json` ("hazards").

## 2. Modules

| Module | Content |
|---|---|
| `TaskLifecycle` | TaskManager, the task actions and the PTT |
| `TaskLifecycle_proofs` | its theorems |
| `EthereumVerifier` | the verifier over an abstract chain |
| `EthereumVerifier_proofs` | its theorems |
| `StateSync` | the synchronisation pipeline, receiver and provider, among workers that go on |
| `Replica` | what a worker's copy of the states may do; `StateSync` implements it |
| `StateSync_proofs` | theorems about the deltas: the refinement of `Replica`, foreign deltas |
| `StateSyncRun_proofs` | theorems about one run of the pipeline: types, answers, completeness |
| `ResultFlow` | from a computed result to its receipt and to every other worker's copy |
| `ResultFlow_proofs` | its theorems |
| `WorkerInit` | start of a worker, the `init` command, registration actions |
| `WorkerInit_proofs` | its theorems |
| `RpcGateway` | the JSON-RPC gateway, the worker's own topic, the way to core |
| `RpcGateway_proofs` | its theorems |
| `MC_*` | the constants of the runs |

The modules meet at named places: `StateSync.StoreResult` is the effect of
`ResultFlow.UpdateCore`; `ResultFlow.Verdicts` is what `EthereumVerifier` guarantees of its answers (`VerifiedIsConfirmed`, a theorem) and `ResultFlow.NeverAnswered` what it leaves open (`Shared` in `OverdueIsAnswered`);
`WorkerInit.SyncEnds` and `InitHangs` are the two ends of `StateSync`'s pipeline;
`RpcGateway.OnVerifyTask`, `OnFinishTask` and `AddOutsideResult` are `TaskLifecycle` and `ResultFlow` seen from the gateway.

### TaskLifecycle

A *request* is one Task object, the arrival of one message; several requests may
carry one task id (`TaskOf`). `pc[r]` is where its handling stands:

```
idle -> verifying -> storing -> stored -> (waitPTT) -> (keys) -> core
                 \-> rejected  \-> storeFailed
core -> reading -> deleting -> restoring -> finished -> done
```

with `refused`, `aborted`, `unverifiedErr`, `finishErr` for the code's log-and-return
paths and `lost` for what a restart forgets. `pool`, `db`, `ptt`, `waiting`
correspond to `_unverifiedPool`, LevelDB, `_pttInProgress` and the `once(PTT_END)`
listeners; `read` and `result` are the closures of `onFinishTask`. `published`,
`verified` and `torn` are history for the properties: notifications sent, ids
Ethereum has confirmed, ids whose finish was cut between its delete and its put.

* Database calls (`StoreVerified`, `FinishRead`, `FinishDelete`, `FinishStore`) take effect
  or fail; callbacks that follow without suspension are part of the same action.
* `OnPTTEnd` is one step: it lowers the flag and runs all listeners, so the first queued
  deploy starts the next exchange and every later deploy finds it running.
* `PTTFailed` may end an exchange at each of its three calls; `PTTAnswered` includes
  core's answer of type `Error`, which the code treats as a success for the
  owner (`GetStateKeysAction.js:61`).
* `Crash` keeps the database only. No code resumes INPROGRESS records.
* A payload is abstracted to its outcome; statuses are the ones the worker stores.

### EthereumVerifier

A *call* is one promise of `verifyTaskCreation` or `verifyTaskSubmission`. `creates` and
`submits` are the two listener maps, `params` the epoch array, `rd` and `seen` the call's read
of the task record, `answer` what the promise resolved to. The chain (`block`,
`record`, `epochs`, `mail`) is external and modelled from what the worker reads: a task is
recorded once, gets at most one receipt, and may be cancelled after the timeout. Hashes
are reduced to a *claim* per call, what its content would have the chain confirm.
The chain has a past: it starts at `FirstBlock`, and tasks and epochs may be mined before `InitListen`.

* A read is determined when its block number is known (`ReadTask`) and acted on later
  (`ReadReturns`); it sees the chain `MinConf` blocks back, and an event is delivered when
  it has as many confirmations, in any order and as late as one likes.
* `subscribe` names no `fromBlock` (`EnigmaContractReaderAPI.js:411`): `mail` gets only what is mined after `InitListen`,
  and `since` is the last block before it. What was mined earlier is seen by reads or not at all.
* `init()` has three steps: `InitListen` subscribes and asks for the worker params, `InitRead` is the moment that
  determines what is read, `InitReady` puts the answer in place of the array. `ContractParams` is the contract's array, in which a
  new epoch takes the slot of the oldest; `SortWorkerParams` rotates it as `_sortWorkerParams` does, comparing the
  block numbers of a read as text (`TextLess` on the digits of `NumberText`).
* A faulty read (an error, or a second read that disagrees) rejects the call.
* Parameters that `init()` read and those an event brought differ in one field; selection with
  the former throws, the answer `thrown`.
* Worker selection is the constant `MyEpochs`, the epochs this worker is selected in.
* Assumptions: verification starts after `init()` (`EnvironmentBuilder.js:108-114` gives
  `NodeController` the API when it is done); the chain is not reorganised beyond the confirmations.

### StateSync and Replica

`chain` holds the confirmed delta hashes, `store` every worker's core, `announced` the DHT,
`running` is `_running`, and `run` the local variables of the pipeline: its `phase`, the local tips
read first, what is `missing` and in `excess`, the providers found, and for the stream the contract,
the attempt, the request and the message on the `wire`. A delta is identified by the worker that computed
it, and a tip is kept as the index after it, so that 0 is "no delta" (-1 in the code).

* Each await of `ReceiveAllPipelineAction` is a step. Workers execute, commit, store
  results and announce between any two of them, so tips, lists of missing deltas and of
  deltas in excess are stale when they are used, as in the code.
* `GetAllTips`, `ReceiverStores` and `Revert` distinguish the two failures of core: an error of the request
  itself, and an answer of type `Error`, which the callers take for a success without content.
* `trySyncReceive` has a first, a middle and a last job: one provider is tried twice
  (`Attempts`). A list without providers throws (`TryReceive`): in the first job the promise
  is rejected, in a later one nobody notices.
* `Hang` stands for the exceptions inside callbacks and for dialling oneself, after which `_running` stays set.
  `Self` can be among the providers because the result of `providers.filter` is dropped (`ProviderLists`).
* `ProvidersErrored` and `ReceiveFailed` behave differently for callers without `onEnd`:
  `asyncExecute` sets `params.callback`, so calling `onEnd` throws and the outer catch clears the flag.
* `AnswerDone`: `onEnd(null, ...)` is called inside the `try` (`ReceiveAllPipelineAction.js:105`). The initialisation's `onEnd` is
  a waterfall callback, which throws when it is called again; called before at line 78, it is then called a
  third time, with an error (line 109). `OneShot` are the callers with such an `onEnd`.
* `Removed` has core's exclusive upper bound: of an excess down to `remoteTip` the top delta stays.

`Replica` has a ledger that only grows, a copy that gains own deltas and the ledger's, and may drop
anything but what was on the ledger when the current comparison began. `ImplementsReplica` maps
`ledger`, `replica`, `frozen` to `chain`, `store[Self]`, `begun`.

### ResultFlow

`pc` follows the executor (publish, send, wait, revert, announce), `tx` and `receipt` are the
transaction as the writer's event emitter tells it, `hear` follows each delivery of a result at another
worker (tip, verify, update, announce, record), `record` its task database.

* `TxResolves` is the rule of the four writer methods (receipt without a minimum of confirmations, else the
  confirmation that reaches it); `TxRejects` includes web3's timeout for a transaction that is mined later.
* `CommitRejected`: for a deployment the state is reverted and the error kept; for a computation the catch
  block reads an undefined variable and the handler dies (`dead`), without revert and resynchronisation.
* `OutsideStatus`: the status of a failed Ethereum callback is `undefined`, because `TASK_STATUS.FAILED`
  is a string.
* `Listen` and `NeverAnswered`: the verifier keeps one listener per task id. When two copies of a result wait at
  one worker, the later replaces the listener of the earlier and a read that settles one drops the other's
  (`EthereumVerifier.js:286`, `143`), so one of them may wait for ever (stage `lost`); `shared` are the copies this can happen to.
* The contract accepts a deployment's receipt while the contract is not deployed, any other once it is, and a computation's delta if it
  extends the last one (`Valid`); that is how its modifiers and its signature check look from the worker.

### WorkerInit

`initialized`, `inProgress` are the controller's flags, `inits` has one entry per `InitWorkerAction` that
passed its guard, `ops` the registration actions (one per caller), `window` the worker's record in the last
`MinConf + 1` blocks, so that `getWorker` reads its oldest entry. The callback of the waterfall runs
with or without an error, and `initialized` is set in both cases, as in the code. A new peer asks `canInitWorker`;
`InitCommand`, the CLI's `init`, reaches the action directly and is stopped only once the worker is initialised
(`InitWorkerAction.js:35`), so it starts another initialisation beside one in progress. That one's synchronisation is refused while
the first one's runs (`SyncRunning`), which ends its waterfall and sets `initialized`. `commands` counts such commands. `Stop` is a crash
or any orderly end: transactions in the pool survive as `orphans`.

### RpcGateway

A call goes through the dispatcher of the gateway's node, and for keys and status over two topics: the worker's
signing key, and a target topic per request (keys) or per task (status). `subs` only grows, since no
handler is removed. `fate` records why an answer can no longer come: `lost` (a message), `refused` (a code that does not unzip, an
error of core that is only logged), `silent` (the status of an unknown or pooled task: `getTask` returns a pooled one without calling
back, and `_getTaskStatus` only logs a missing one). `pipe` is the IPC client: a REQ socket has one request out at a time.

`tasks` is the worker's record, `runs` how often the worker has taken the task and `ended` the statuses it has ended with. A task is refused
only while it is pooled (`_isOkToAdd`), so one in progress or finished is taken again (`AddTaskUnverified`, by a call or
`SubmittedElsewhere`) and its record goes back to INPROGRESS (`OnVerifyTask`); `OnFinishTask` may end a task again. The gateway's
copy of a result (`AddOutsideResult`) is unreadable after a failed Ethereum callback, and `GetResult` then finds nothing.

## 3. Runs

Bounds are constants of the specifications: `MaxEpochs`, `MaxCrashes`, `MaxBlock`,
`ParamsSize`, `MaxLen`, `Limit`, `MaxFaults`, `MaxKey`, `Deliveries`, `MaxOrphans`,
`MaxCommands`, `MaxRuns`, `FirstBlock`. Requests and calls are
finite sets. Deadlock is checked for `WorkerInit`, whose chain always goes on; in the other models a
worker with nothing to do, and a chain at its bound, may stop.

| Run | Result | What it shows |
|---|---|---|
| `task_resubmit` | holds | Three requests, two of them for one deploy whose result other workers publish too, every database failure, a crash at any point: the pool and the handlers agree, only confirmed tasks leave memory, a stored task is lost only in the finish window, what was published is on disk and final. |
| `task_queue` | holds | Two deploys, a computation and a new epoch: one exchange at a time, nobody queued without one, every queued task moves on and every exchange ends. |
| `task_attempted` | violated | Two deploys queued behind an exchange: the second is dropped, against `docs/TASKS_LIFE_CYCLE_DOCS.md:28`. |
| `verifier_create` | holds | Two verifications of one task's creation over two epochs, before and after the subscription, at blocks 8 to 12, where the order by text and the order by number differ: no event is missed, a positive answer rests on a confirmed record and on an epoch that began before the task, an overdue call is answered unless its handler died on params that `init()` read. |
| `verifier_submit` | holds | Two verifications of one task's result that share a listener, every receipt, one epoch: the same, and an overdue call is answered unless it shares its id. |
| `verifier_settles` | violated | A task of an epoch that `init()` read is never answered. |
| `sync` | holds | One contract that this worker and a peer both execute, two synchronisations (one without `onEnd`, one whose `onEnd` throws when called again), ranges of one delta, one failure anywhere: core's deltas are its own or Ethereum's, the pipeline implements `Replica`, a successful run leaves out only what lies below its local tip or what a provider lacked, each caller is answered or the pipeline is stuck, and success is the last thing a caller hears, except for the error its own throwing `onEnd` brings. |
| `sync_saves_all` | violated | "sync all the contracts/deltas" (`ReceiveAllPipelineAction.js:10`): a run reports success and leaves out a delta that was on Ethereum when it began. |
| `result_flow` | holds | A deployment and two computations of one contract by two workers, one result delivered twice and one lost, refused receipts, failed callbacks and one failure: other workers' deltas and statuses rest on confirmed receipts, a failed commit leaves no delta, every handler ends, or has lost its listener to another copy that ends. |
| `worker_init` | holds | A peer that comes and goes, an `init` command typed meanwhile, an operator beside the initialisation, an abandoned transaction, restarts: one initialisation plus one for the command, each of which ends, and flags that say so; answers of the four actions agree with the record. |
| `rpc_gateway` | holds | Two calls of any kind about two tasks: answers match requests, a status told was reached although tasks are submitted again, calls are answered unless a message is lost, core refuses or a status is asked of an unknown or pooled task. |
| `rpc_status_answered` | violated | "The worker can respond to a status check at any time." (`docs/TASKS_LIFE_CYCLE_DOCS.md:51`; `client_api/README.md:123-124` lists `null` and `UNVERIFIED`): a status call about a task the worker does not know is never answered. |

Six more configurations show disagreements between a comment and the code; each finds a trace, and
TLC reports the invariant or property as violated:

| Configuration | Shows |
|---|---|
| `MC_TaskUnverifiedErr.cfg` | "this should never happen" (`TaskManager.js:283`) happens: a task submitted again while core runs it loses its first result. |
| `MC_VerifierMinedBlock.cfg` | The mined block number is never used for the timeout (`in` on an array, `EthereumVerifier.js:416`). |
| `MC_VerifierEpochKept.cfg` | An epoch delivered while `init()` reads the parameters is overwritten (`EthereumVerifier.js:700-701`). |
| `MC_VerifierSmallest.cfg` | "first find the smallest item" (`EthereumVerifier.js:705`): compared as text, block 10 comes before block 9, and the array begins with the larger. |
| `MC_ResultEthFailure.cfg` | "we update the task status to signal that the task failed due to Ethereum callback" (`VerifyAndStoreResultAction.js:79-80`; ETHEREUMFAILURE in `constants.js:184`, `docs/TASKS_LIFE_CYCLE_DOCS.md:39-40` and `client_api/README.md:128`): the status stored is `undefined`. |
| `MC_ResultAnnounced.cfg` | A deployment whose Ethereum callback failed is reverted and announced all the same: the revert leaves no error (`PublishTaskResultAction.js:45`). |

Why the bounds are enough. The interactions of `TaskLifecycle` are between two requests of one id
(pool and record), and between an owner, a queued deploy, a later one and an epoch (PTT):
three requests and one epoch contain them. One crash suffices for each property, since after a
crash nothing but the records is left. In `EthereumVerifier` two calls on one id exercise the
shared listener, four blocks with one confirmation separate mined, confirmed and delivered, before and after the
subscription; two epochs on both sides of block 10 fill an array of two that is sorted by text, or overflow the one `init()` has read. In `StateSync` two deltas and
ranges of one give a contract that is behind by several requests, a gap below a tip and an excess
above the remote tip; a competing executor gives deltas that Ethereum refused, on both sides;
a second call meets the first at every phase. `ResultFlow` needs a deployment and
two computations that compete for one key, because a revert by key can only hurt another task's delta, and two
deliveries of one result for the shared listener.
In `WorkerInit` one confirmation separates the current from the confirmed record, and one operator
interferes with the initialisation's own registration, one command with the initialisation itself; a second peer is the same peer returning.
In `RpcGateway` two calls on one task share a topic, on two tasks they do not, and a task taken twice goes back from a final status. What the
small instances cannot show is what the proofs add: every invariant and action property of a passing run
is also a theorem, for all values of the constants.

Restrictions inside properties, each because the code really does otherwise:
`PublishedMatchesDisk` and `FinishedIsFinal` speak of tasks submitted once and not published by
others; `OverdueIsAnswered` leaves out submissions that share an id and creations that died on params `init()` read (the
finding `verifier_settles`); `NoMissedEvent` speaks of what was mined since the subscription; `DoneIsLast` allows the error that a throwing
`onEnd` brings on itself; `HandlersSettle` allows a copy of a result to lose its listener to another that ends; `OneInitialization` allows an
initialisation per command typed during one; `StatusReached` holds a task to its last status only if it was taken once; `CallsSettle` and `InitEnds` name a stuck
pipeline or a silent core as the only excuses; `FailedCommitReverted` leaves out the handler that dies and runs
with a failure of core; `LoneActionTakesEffect` speaks of actions that nothing of the worker interferes with;
`CallsAnswered` assumes that core answers and names what the code drops in silence (`Excused`), of which the status calls are the
finding `rpc_status_answered`.

### Fairness

`TaskLifecycle` assumes that database, principal and core answer the calls made to them
(weak fairness of `TaskNext` per request and of `PTTNext`). The code has no timeout of its own on
core, and LevelDB and the HTTP client always call back, the latter after a bounded number
of retries. `EthereumVerifier` assumes that reads return and confirmed events
are delivered. `StateSync` assumes that the pipeline's next callback runs (weak fairness of `Pipeline`): LevelDB,
core, the DHT and the streams answer, or fail and are counted, or are the `Hang` branch. `ResultFlow` assumes
the same of its handlers, that transactions are mined or refused, and that the verifier answers whoever still has a listener, which the
end of an epoch guarantees (`OverdueIsAnswered`). `WorkerInit` assumes callbacks and blocks that take up
transactions; `RpcGateway` callbacks, received or lost messages, and a core that answers in turn while it is up.
Nothing is assumed of submissions, of Ethereum's verdicts, of epochs, of callers, of peers, of operators or of restarts.

## 4. Proofs

Each `*_proofs` module proves its theorems for all values of the constants that satisfy the named assumption of the
module it extends, and from nothing else. The assumptions say what a constant is (a number, a function into the right set, a
name that is none of the others). Two are more than types: `GatewayAssumption` (there is a task to ask about) and a
first block in `VerifierAssumption` (`FirstBlock` is not 0), which every chain has. The theorems about specifications with
fairness use their safety part only.

All follow one plan: an inductive invariant `IInv`, which TLC checked first on the instances of the runs; one
lemma per action (or per group of actions that share an effect) that it preserves `IInv`; small lemmas that
say what is left to show of a step that leaves most of the state alone; and the properties as consequences. What follows says
where the properties were not inductive and why.

### TaskLifecycle

`TaskLifecycle_proofs` proves, for any sets of requests and tasks and any bounds, from
`ConstantsAssumption` alone:

| Theorem | Statement |
|---|---|
| `TypeCorrect` | `Spec => []TypeOK` |
| `PoolCorrect` | `Spec => []PoolMatchesHandlers` |
| `ExchangeCorrect` | `Spec => []WaitersHavePTT` |
| `OneOwner` | `Spec => []PTTHasOneOwner` |
| `VerifiedFirst` | `Spec => []OnlyVerifiedLeavesMemory` |
| `StaysOnDisk` | `Spec => []VerifiedTaskOnDisk` |
| `PublishedStays` | `Spec => []PublishedMatchesDisk` |
| `FinalResults` | `Spec => FinishedIsFinal` |

The inductive invariant `IInv` strengthens the checked properties where they are not inductive:

* `FinishHasData`: from core's answer to the notification a request holds a result, and from
  its read to its put a record; the put writes both, so even `TypeOK` needs it.
* `PTTInv`: the queue and the owner of the exchange are exactly the requests at `waitPTT` and
  `keys`. `PTT_END` moves many requests at once, and this says which.
* `VerifiedInv`: every stage past Ethereum's answer, not only the three the property names, has a
  confirmed id.
* `PoolMatchesHandlers` and `VerifiedTaskOnDisk` are inductive given the others.

Each has a lemma that a step preserves it, one case per action, with a *Quiet* lemma for
steps that do not touch what it speaks of. `OnceInv` then says, for a task submitted
once, that its record is unfinished until the put of its finish, equals core's answer from
there to the notification, and equals what was published afterwards; `FinalResults` follows because
the three actions that write a record belong to stages that `OnceInv` excludes.

### EthereumVerifier

| Theorem | Statement |
|---|---|
| `TypeCorrect` | `Spec => []TypeOK` |
| `EventsNotMissed` | `Spec => []NoMissedEvent` |
| `AnswersConfirmed` | `Spec => []VerifiedIsConfirmed` |
| `TakenWhenSelected` | `Spec => []SelectedBeforeTask` |

* `ChainInv` is what makes events reliable: a record or a receipt mined since the subscription and without its confirmations has its event still in
  the mail, and `MailInv` that an event says what the contract holds. A read that finds nothing at `MinConf` blocks back
  therefore leaves the event to come; that is the argument of `NoMissedEvent`, and it needs reads and
  events to use the same number of confirmations.
* `CallInv`: what a read found is confirmed, from the read to its use. `CreationInv` covers several calls for
  one id, which share a listener: of any two that have begun one has been answered positively, and a call whose read found
  nothing is the only one and still has the listener. `SubmissionInv` is the weaker statement for submissions, whose listeners
  do get replaced.
* `ParamsInv`: the parameters in use and the snapshot that `init()` has read are of epochs the contract has begun, or of a slot that
  was never used, which no event brings. Nothing is said of their order, which the text comparison can spoil: the
  search itself compares with the task's block (`CreationAnswers`), so whatever it finds began before the task. `SinceInv` places the
  subscription on the chain, `AnswersInv` adds the two statements about positive answers.

### StateSync

`StateSync_proofs` proves, for any workers, contracts, range limit, calls and number of failures, from the
`ConstantsAssumption` of `StateSync`:

| Theorem | Statement |
|---|---|
| `ForeignDeltas` | `Spec => []ForeignDeltaOnChain` |
| `Refinement` | `Spec => ImplementsReplica` (initial states and steps; the abstract specification has no fairness) |

Neither property is inductive: the pipeline writes and removes deltas by what it read from the chain many
steps earlier. The inductive invariant says that its memory is still right:

* `ChainIsPrefix`: a contract's deltas on the chain have no gaps, so the cell a commit fills is free and the length
  is the tip (`LengthOfPrefix`, by the cardinality of intervals).
* `MissingIsOnChain`: what `remoteMissingStatesMap` holds is what the chain holds; with `verify` before
  the write, each delta written is Ethereum's.
* `BegunOnChain`, `ExcessNotBegun`: what was on the chain when the run began still is, and no entry of
  `excessList` names such a delta, whether the whole contract is removed or the part above the remote tip.
* `Shape`: the types of `chain` and `store`, and as much of the local variables' shape as the two lists need.

Steps that leave deltas and lists alone share one lemma (`Unseen`); each of the others has a lemma that it
keeps the invariant and is a step of `Replica` or a stutter.

`StateSyncRun_proofs` continues from that invariant, with the same assumption:

| Theorem | Statement |
|---|---|
| `RunTypes` | `Spec => []TypeOK` |
| `SuccessIsLast` | `Spec => []DoneIsLast` |
| `GapsOnlyBelowTip` | `Spec => GapOnlyBelowTip` |

* `CallerInv`: a call that was not made has no answer, and the caller of the run that goes on has not heard of success;
  stuck and idle runs have no caller. `ThrownSuccess` covers the error that follows a success when `onEnd` throws.
* `ProviderInv`: after the search a contract that is listed misses deltas and has a list of workers, and the one that is
  streamed has a provider for every attempt. Without it even the type of a message on the wire is open.
* `MissingIsRange`: what is missing of a contract is an interval that begins at the local tip; so the ranges of
  `parseStateReqMsgs`, which only know its first index and its length, are the right ones (`MissingRange`,
  `BucketsCover`: rounding up loses no delta, and consecutive ranges meet).
* `GapInv`: for a run without a failure, phase by phase, which contracts are compared, which are complete, and how
  far the stream of the current one has come (`StreamInv`). A delta that is there stays there while others execute and store,
  and by `ExcessNotBegun` the reverts spare what the run must deliver.

### ResultFlow

| Theorem | Statement |
|---|---|
| `TypeCorrect` | `Spec => []TypeOK` |
| `OutsideConfirmed` | `Spec => []OutsideDeltaConfirmed` |
| `RecordsTrue` | `Spec => []RecordTruth` |
| `FailureReverted` | `Spec => []FailedCommitReverted` |
| `SettledConfirmed` | `Spec => []SettledIsConfirmed` |

* `HearInv` ties a handler past the verification to a confirmed receipt of the kind its `ethFailure` says, through all
  the awaits until core and the record are written.
* `TxInv` and `ChainInv` tie the receipt to the result it carried and to the cell of the chain; since the chain fills its
  cells in order and keeps them, a stored delta stays the chain's.
* `SettleInv` and `RevertInv` carry the two statements about the executor over the stages between the promise and the end.

### WorkerInit

| Theorem | Statement |
|---|---|
| `TypeCorrect` | `Spec => []TypeOK` |
| `InitializedOnce` | `Spec => []OneInitialization` |
| `QuietChainRead` | `Spec => []QuietChainIsRead` |
| `LoneActionEffective` | `Spec => LoneActionTakesEffect` |

* `Flags`, `Entries` and `InitWorkerStarts` count the initialisations: an entry is added by a peer only if there is none, by a
  command at most once per count of `commands`, and none is added after one has ended.
* The invariant has two halves that do not share state: the process with its flags (`NodeInv`), and the record with the
  actions on it (`RecordInv`).
* `WindowInv` reads the last blocks as a history: an entry keeps its sender as long as its action waits for
  confirmation, and over blocks without a transaction of the worker the status does not change.
* `LoneInv`: while an action has the worker to itself its read is the current record, and its mined transaction has made
  the record what the action is named for.

### RpcGateway

| Theorem | Statement |
|---|---|
| `TypeCorrect` | `Spec => []TypeOK` |
| `AnswersMatch` | `Spec => []AnswerMatchesRequest` |
| `StatusesReached` | `Spec => []StatusReached` |

* `MessageInv`: the topic of a message says what the message answers, and a status on the network has been reached;
  `SubsInv`: a handler, old ones included, listens to the topic of its own call. Together they show that a shared topic is harmless.
* `PipeInv` and `ResultInv` say the same of the requests before core and of the gateway's own results.
* `TaskInv`: a task taken once has ended with nothing but the status it has; with that, what was told of it stays true. `ReachedKept`
  and `TaskMoves` carry what was told over the steps that take a task again and end it.

### Only model-checked

The liveness properties `PTTEnds`, `QueuedTaskRuns`, `OverdueIsAnswered`, `CallsSettle`, `HandlersSettle`, `InitEnds` and
`CallsAnswered`: liveness under fairness is out of the prover's reach. The four violations and the six further
configurations are traces. The one recursive function, `NumberText`, is computed by TLC only; no proof rests on what it returns.

## 5. Not modelled, and why

Per component in `PROJECT.json`. In short:

* libp2p, LevelDB, codecs, schemas, hashing, CLI options, HTTP routing and the core mock are I/O or formatting.
  Their failures are branches of the steps that use them.
* `StoppableTask` is required by no module. `removeTask` and `asyncStopAndDropDb` are reached only from tests.
* The contract and enigma-core are external: modelled from what the worker sends and reads. Core's malformed
  answers are outside `TaskLifecycle`.
* Chain reorganisations deeper than `minimumConfirmations`; errors of `getChainId` or of the block number,
  after which the promise of a transaction never settles; validation of transaction options.
* Worker selection (`selectWorkerGroup`) is a constant.
* The status and health requests of the web server read and answer; dialling a bootstrap node ends in a connection or in nothing.
* A restart is modelled where something survives it: `TaskLifecycle.Crash` (the records) and
  `WorkerInit.Stop` (transactions). The synchronisation starts from nothing after one.
* Retries inside one call (`getStateKeys`, connection back-off) end in one answer or one failure.

## 6. Plan

The modules above cover the core logic, and every safety property of the runs is a theorem. Left:

1. `WorkerSelection`: `selectWorkerGroup` as a pure operator, checked against a reference definition; it would turn `MyEpochs` from a constant into a definition.
2. The composition of `ResultFlow` and `EthereumVerifier`: `Verdicts` as a refinement of the verifier's answers
   instead of a named place.
3. A bounded form of the liveness properties (what is enabled when a call waits) as invariants that can be proved.
