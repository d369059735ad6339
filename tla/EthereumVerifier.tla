------------------------- MODULE EthereumVerifier -------------------------
(***************************************************************************)
(* The worker's view of the Enigma contract: EthereumVerifier, fed by the  *)
(* confirmed reads of EnigmaContractReaderAPI and by the events that its   *)
(* subscribe() hands to EthereumServices once they are confirmed.          *)
(*                                                                         *)
(* A call is one promise of verifyTaskCreation or verifyTaskSubmission.  It *)
(* is answered by whichever comes first: its read of the task record, the  *)
(* event it listens for, or a NewEpoch event that finds it too old.  The   *)
(* chain is external; an action of the worker is what runs between two     *)
(* awaits.  Hashes are reduced to a claim per call: what the content the   *)
(* caller holds would have the chain confirm.                              *)
(***************************************************************************)
EXTENDS Naturals, Sequences, FiniteSets

CONSTANTS
    Creations,    \* calls of verifyTaskCreation
    Submissions,  \* calls of verifyTaskSubmission
    Tasks,        \* task ids
    TaskOf,       \* the task each call is about
    NoCall,       \* no listener
    MyEpochs,     \* the epochs in which this worker is the selected one
    MinConf,      \* minimumConfirmations
    Timeout,      \* the contract's task timeout, in blocks
    ParamsSize,   \* _workerParamArrayMaxSize, also the contract's array length
    FirstBlock,   \* height of the chain when the contract starts to be used
    MaxBlock,     \* bound on the height of the chain
    MaxEpochs     \* bound on the number of epochs

Calls == Creations \cup Submissions

ASSUME VerifierAssumption ==
    /\ Creations \cap Submissions = {}
    /\ TaskOf \in [Calls -> Tasks]
    /\ NoCall \notin Calls
    /\ MyEpochs \subseteq Nat
    /\ MinConf \in Nat /\ Timeout \in Nat /\ ParamsSize \in Nat \ {0}
    /\ MaxBlock \in Nat \ {0} /\ MaxEpochs \in Nat
    /\ FirstBlock \in 1..MaxBlock

VARIABLES
    block,     \* height of the chain
    record,    \* the contract's task records: creation block, receipt and its block
    epochs,    \* first block of every epoch set so far
    mail,      \* events emitted since the subscription and not yet delivered here
    since,     \* the last block mined before the subscription
    phase,     \* progress of init()
    snapshot,  \* the worker params init() has read
    params,    \* _workerParamArray
    creates,   \* _unverifiedCreateTasks: the listening call and its block number
    submits,   \* _unverifiedSubmitTasks
    rd,        \* progress of each call's read of its task record
    seen,      \* the status that read returned
    claim,     \* what the call's content would have the chain confirm
    answer     \* what each call's promise has resolved to

chainVars    == <<block, record, epochs>>
initVars     == <<since, phase, snapshot>>
listenerVars == <<creates, submits>>
callVars     == <<rd, seen, claim>>
vars == <<block, record, epochs, mail, since, phase, snapshot, params, creates, submits,
          rd, seen, claim, answer>>

Receipts   == {"verified", "failed", "failedEth", "cancelled"}
Statuses   == {"undefined", "created"} \cup Receipts
Blocks     == 0..MaxBlock
NoRecord   == [created |-> 0, receipt |-> "undefined", at |-> 0]
NoListener == [call |-> NoCall, block |-> 0]
Events     == [kind : {"create"} \cup Receipts, task : Tasks, at : Blocks]
              \cup [kind : {"epoch"}, epoch : 1..MaxEpochs, at : Blocks]
\* A call's content agrees with the chain's hashes as a task or a result, agrees
\* with them as a FailedResult, or disagrees.
Claims     == {"ok", "failed", "bad"}
Answers    == {"verified", "rejected", "timeout", "ethFailure"}

\* Worker params: the epoch they belong to (0 is an unused slot of the
\* contract's array) and whether a read or an event brought them.
Params == [epoch : 0..MaxEpochs, from : {"read", "event"}]
FirstBlockNumber(p) == IF p.epoch = 0 THEN 0 ELSE epochs[p.epoch]

Confirmed(b) == b + MinConf <= block

Init ==
    /\ block = FirstBlock
    /\ record = [t \in Tasks |-> NoRecord]
    /\ epochs = <<>>
    /\ mail = {}
    /\ since = FirstBlock
    /\ phase = "off"
    /\ snapshot = <<>>
    /\ params = <<>>
    /\ creates = [t \in Tasks |-> NoListener]
    /\ submits = [t \in Tasks |-> NoListener]
    /\ rd = [c \in Calls |-> "none"]
    /\ seen = [c \in Calls |-> "undefined"]
    /\ claim = [c \in Calls |-> "none"]
    /\ answer = [c \in Calls |-> "none"]
----------------------------------------------------------------------------
(* The chain                                                               *)

\* The contract's transaction on t in the new block, if any: a record is
\* created once, gets at most one receipt, and is cancelled after the timeout.
Transactions(t) ==
    LET r == record[t] IN
    IF r.created = 0 THEN {"create"}
    ELSE IF r.receipt # "undefined" THEN {}
    ELSE {"verified", "failed", "failedEth"} \cup
         (IF block + 1 - r.created > Timeout THEN {"cancelled"} ELSE {})

BlockContents == {{}} \cup {{<<t, k>>} : t \in Tasks, k \in {"create"} \cup Receipts}

\* The events the new block emits.
Emitted(ts, newEpoch) ==
    {[kind |-> x[2], task |-> x[1], at |-> block + 1] : x \in ts}
    \cup (IF newEpoch
          THEN {[kind |-> "epoch", epoch |-> Len(epochs) + 1, at |-> block + 1]}
          ELSE {})

\* A block is mined, with at most one task transaction and one new epoch.  The
\* subscriptions of EthereumServices name no fromBlock: what was emitted before
\* they were made never arrives.
NewBlock(ts, newEpoch) ==
    /\ block < MaxBlock
    /\ block' = block + 1
    /\ \A x \in ts : x[2] \in Transactions(x[1])
    /\ newEpoch => Len(epochs) < MaxEpochs
    /\ record' = [t \in Tasks |->
         IF <<t, "create">> \in ts THEN [record[t] EXCEPT !.created = block + 1]
         ELSE IF \E k \in Receipts : <<t, k>> \in ts
              THEN [record[t] EXCEPT !.receipt = CHOOSE k \in Receipts : <<t, k>> \in ts,
                                     !.at = block + 1]
              ELSE record[t]]
    /\ epochs' = IF newEpoch THEN Append(epochs, block + 1) ELSE epochs
    /\ since' = IF phase = "off" THEN block + 1 ELSE since
    /\ mail' = IF phase = "off" THEN mail ELSE mail \cup Emitted(ts, newEpoch)
    /\ UNCHANGED <<phase, snapshot, params, listenerVars, callVars, answer>>

\* getTaskParams reads the record as of block - minimumConfirmations.
ConfirmedStatus(t) ==
    LET r == record[t] IN
    IF r.receipt # "undefined" /\ Confirmed(r.at) THEN r.receipt
    ELSE IF r.created # 0 /\ Confirmed(r.created) THEN "created"
    ELSE "undefined"

\* The contract's array of worker params: epoch k is written over the oldest
\* of its ParamsSize slots.
ContractParams(n) ==
    [i \in 1..ParamsSize |->
        [epoch |-> IF n < i THEN 0 ELSE n - ((n - i) % ParamsSize), from |-> "read"]]

\* The digits of a number as web3 returns it, and how JavaScript compares two
\* such texts.
NumberText[n \in Nat] ==
    IF n < 10 THEN <<n>> ELSE Append(NumberText[n \div 10], n % 10)
TextLess(m, n) ==
    LET a == NumberText[m]
        b == NumberText[n]
    IN  \E k \in DOMAIN b :
            /\ \A j \in 1..(k - 1) : j \in DOMAIN a /\ a[j] = b[j]
            /\ k \in DOMAIN a => a[k] < b[k]

\* _sortWorkerParams: the array is rotated to begin where the block numbers,
\* compared as text, first fall.
SortWorkerParams(ps) ==
    LET Falls(i) == TextLess(FirstBlockNumber(ps[i]), FirstBlockNumber(ps[i - 1]))
        smallest == {i \in 2..ParamsSize : Falls(i) /\ \A j \in 2..(i - 1) : ~Falls(j)}
        shift    == IF smallest = {} THEN 0 ELSE (CHOOSE i \in smallest : TRUE) - 1
    IN  [i \in 1..ParamsSize |->
            ps[IF i + shift > ParamsSize THEN i + shift - ParamsSize ELSE i + shift]]

\* getWorkersParams: the contract's array as of block - minimumConfirmations.
ConfirmedParams ==
    ContractParams(Cardinality({k \in DOMAIN epochs : Confirmed(epochs[k])}))
----------------------------------------------------------------------------
(* init()                                                                  *)

\* EthereumAPI.init(): subscribe to every event, listen to NewEpoch and ask for
\* the worker params.
InitListen ==
    /\ phase = "off"
    /\ phase' = "asked"
    /\ UNCHANGED <<chainVars, mail, since, snapshot, params, listenerVars, callVars, answer>>

\* The block number of the read is known: its result is now determined.
InitRead ==
    /\ phase = "asked"
    /\ phase' = "read"
    /\ snapshot' = SortWorkerParams(ConfirmedParams)
    /\ UNCHANGED <<chainVars, mail, since, params, listenerVars, callVars, answer>>

\* _updateWorkerParamNow's answer replaces the array; then the other events
\* are listened to.
InitReady ==
    /\ phase = "read"
    /\ phase' = "ready"
    /\ params' = snapshot
    /\ snapshot' = <<>>
    /\ UNCHANGED <<chainVars, mail, since, listenerVars, callVars, answer>>
----------------------------------------------------------------------------
(* Calls                                                                   *)

\* A promise keeps its first value; "thrown" is no value, the handler died.
Resolve(c, a) == answer' = [answer EXCEPT ![c] = IF @ \in Answers THEN @ ELSE a]

\* The pool of TaskManager: a task id is verified again only after its earlier
\* verification succeeded.
CallerMayVerify(c) ==
    c \in Creations => \A d \in Creations \ {c} :
        TaskOf[d] = TaskOf[c] => rd[d] = "none" \/ answer[d] = "verified"

Listen(map, c) == [map EXCEPT ![TaskOf[c]] = [call |-> c, block |-> block]]
Drop(map, t)   == [map EXCEPT ![t] = NoListener]

\* Mutant: nothing listens while the record is being read.
Verify_NoListener(c, cl) ==
    /\ phase = "ready"
    /\ rd[c] = "none"
    /\ CallerMayVerify(c)
    /\ rd' = [rd EXCEPT ![c] = "asked"]
    /\ cl = "failed" => c \in Submissions
    /\ claim' = [claim EXCEPT ![c] = cl]
    /\ UNCHANGED <<chainVars, mail, initVars, params, seen, answer, listenerVars>>

\* verifyTaskCreation and verifyTaskSubmission: install the listener, replacing
\* the one of an earlier call for the same id, and start the read.  The caller
\* passes the block number it has just read.
Verify(c, cl) ==
    /\ phase = "ready"
    /\ rd[c] = "none"
    /\ CallerMayVerify(c)
    /\ rd' = [rd EXCEPT ![c] = "asked"]
    /\ cl = "failed" => c \in Submissions
    /\ claim' = [claim EXCEPT ![c] = cl]
    /\ creates' = IF c \in Creations THEN Listen(creates, c) ELSE creates
    /\ submits' = IF c \in Submissions THEN Listen(submits, c) ELSE submits
    /\ UNCHANGED <<chainVars, mail, initVars, params, seen, answer>>

\* The block number of the read is known: its result is now determined.
ReadTask(c) ==
    /\ rd[c] = "asked"
    /\ rd' = [rd EXCEPT ![c] = "read"]
    /\ seen' = [seen EXCEPT ![c] = ConfirmedStatus(TaskOf[c])]
    /\ UNCHANGED <<chainVars, mail, initVars, params, listenerVars, claim, answer>>

\* Mutant: the newest params, whenever their epoch began.
FindWorkerParam_Newest(n) == {params[i] : i \in {i \in DOMAIN params : i = Len(params)}}

\* _findWorkerParamForTask: the last params whose first block is before n.
FindWorkerParam(n) ==
    {params[i] : i \in {i \in DOMAIN params :
        /\ n # 0 /\ n > FirstBlockNumber(params[i])
        /\ \A j \in (i + 1)..Len(params) : n <= FirstBlockNumber(params[j])}}

\* _verifySelectedWorker and selectWorkerGroup.  Params that init() read hold the
\* field "stakes" of the contract's struct, not the "balances" the event parser
\* builds, so the selection throws on them and the promise is never resolved.
SelectWorker(p) ==
    IF p.from = "read" THEN "thrown"
    ELSE IF p.epoch \in MyEpochs THEN "verified" ELSE "rejected"

\* verifySelectedWorker: without the epoch's params the task is rejected.
VerifySelectedWorker(n) ==
    LET ps == FindWorkerParam(n)
    IN  IF ps = {} THEN "rejected" ELSE SelectWorker(CHOOSE p \in ps : TRUE)

\* Mutant: the inputs hash is not compared.
CreationAnswer_NoHash(c) == VerifySelectedWorker(record[TaskOf[c]].created)

\* What a creation call answers once the task is recorded.
CreationAnswer(c) ==
    IF claim[c] = "ok" THEN VerifySelectedWorker(record[TaskOf[c]].created) ELSE "rejected"

\* Mutant: a result is taken for what the chain says whatever its content.
SubmissionAnswer_NoHash(c, status) ==
    CASE status = "failedEth" -> "ethFailure"
      [] status = "cancelled" -> "rejected"
      [] OTHER -> "verified"

\* What a submission call answers for a receipt.  A cancelled task is seen by
\* the read only.
SubmissionAnswer(c, status) ==
    CASE status = "failedEth" -> "ethFailure"
      [] status = "cancelled" -> "rejected"
      [] status = "failed"    -> IF claim[c] = "failed" THEN "verified" ELSE "rejected"
      [] status = "verified"  -> IF claim[c] = "ok" THEN "verified" ELSE "rejected"

\* The read returns.  It settles the call, and drops whatever listener the id
\* has, unless the record is not there yet; a submission also goes on waiting
\* when the task is only created, with the block number it came with: the
\* update of that number is guarded by `taskId in <array of ids>`, which is
\* false.  A read that fails rejects the call, as does a second read (of the
\* contract's deltas) that disagrees with a local tip taken earlier.
ReadReturns(c, fault) ==
    LET waits == \/ seen[c] = "undefined"
                 \/ c \in Submissions /\ seen[c] = "created"
        t == TaskOf[c]
    IN
    /\ rd[c] = "read"
    /\ rd' = [rd EXCEPT ![c] = "done"]
    /\ IF waits /\ ~fault
       THEN UNCHANGED <<listenerVars, seen, answer>>
       ELSE /\ seen' = [seen EXCEPT ![c] = "undefined"]
            /\ creates' = IF c \in Creations THEN Drop(creates, t) ELSE creates
            /\ submits' = IF c \in Submissions THEN Drop(submits, t) ELSE submits
            /\ Resolve(c, IF fault THEN "rejected"
                          ELSE IF c \in Submissions THEN SubmissionAnswer(c, seen[c])
                          ELSE IF seen[c] = "created" THEN CreationAnswer(c)
                          ELSE "rejected")
    /\ UNCHANGED <<chainVars, mail, initVars, params, claim>>
----------------------------------------------------------------------------
(* Events                                                                  *)

\* Mutant: subscribe() passes an event on at once.
Deliverable_Unconfirmed(e) == e \in mail /\ e.at <= block

\* subscribe(): an event is passed on once it has its confirmations, in no
\* particular order: each waits in a subscription of its own.
Deliverable(e) == e \in mail /\ Confirmed(e.at)

\* _taskCreationEventCallback on TaskCreation.  Before init() is done nothing
\* listens.
TaskCreationEvent(e) ==
    /\ e.kind = "create"
    /\ Deliverable(e)
    /\ mail' = mail \ {e}
    /\ LET c == creates[e.task].call IN
       IF phase = "ready" /\ c # NoCall
       THEN /\ creates' = Drop(creates, e.task)
            /\ Resolve(c, CreationAnswer(c))
       ELSE UNCHANGED <<creates, answer>>
    /\ UNCHANGED <<chainVars, initVars, params, submits, callVars>>

\* _taskSubmissionEventCallback and _taskDeployedContractEventCallback.
TaskSubmissionEvent(e) ==
    /\ e.kind \in Receipts \ {"cancelled"}
    /\ Deliverable(e)
    /\ mail' = mail \ {e}
    /\ LET c == submits[e.task].call IN
       IF phase = "ready" /\ c # NoCall
       THEN /\ submits' = Drop(submits, e.task)
            /\ Resolve(c, SubmissionAnswer(c, e.kind))
       ELSE UNCHANGED <<submits, answer>>
    /\ UNCHANGED <<chainVars, initVars, params, creates, callVars>>

\* TaskCancelled: the TaskFeeReturned parser keeps the 0x prefix of the id, and
\* listeners are stored without it, so the event matches none.
TaskCancelledEvent(e) ==
    /\ e.kind = "cancelled"
    /\ Deliverable(e)
    /\ mail' = mail \ {e}
    /\ UNCHANGED <<chainVars, initVars, params, listenerVars, callVars, answer>>

Expired(l, first) == l.call # NoCall /\ first >= l.block + Timeout

\* Mutants: a listener is dropped without being told; only the creation
\* listeners are examined.
CheckTimeouts_Silent(first) ==
    /\ creates' = [t \in Tasks |->
                     IF Expired(creates[t], first) THEN NoListener ELSE creates[t]]
    /\ submits' = [t \in Tasks |->
                     IF Expired(submits[t], first) THEN NoListener ELSE submits[t]]
    /\ UNCHANGED answer
CheckTimeouts_CreationsOnly(first) ==
    /\ creates' = [t \in Tasks |->
                     IF Expired(creates[t], first) THEN NoListener ELSE creates[t]]
    /\ answer' = [c \in Calls |->
                     IF /\ answer[c] \notin Answers
                        /\ creates[TaskOf[c]].call = c
                        /\ Expired(creates[TaskOf[c]], first)
                     THEN "timeout" ELSE answer[c]]
    /\ UNCHANGED submits

\* _checkTimeouts: every listener that is too old is dropped and told so.
CheckTimeouts(first) ==
    /\ creates' = [t \in Tasks |->
                     IF Expired(creates[t], first) THEN NoListener ELSE creates[t]]
    /\ submits' = [t \in Tasks |->
                     IF Expired(submits[t], first) THEN NoListener ELSE submits[t]]
    /\ answer' = [c \in Calls |->
                     IF /\ answer[c] \notin Answers
                        /\ \E l \in {creates[TaskOf[c]], submits[TaskOf[c]]} :
                               l.call = c /\ Expired(l, first)
                     THEN "timeout" ELSE answer[c]]

\* Mutant: the array has no limit.
PushParams_NoLimit(p) == params' = Append(params, p)

\* A full array drops its oldest params.
PushParams(p) ==
    params' = LET q == Append(params, p)
              IN  IF Len(q) > ParamsSize THEN Tail(q) ELSE q

\* _newEpochEventCallback.
NewEpochEvent(e) ==
    /\ e.kind = "epoch"
    /\ Deliverable(e)
    /\ mail' = mail \ {e}
    /\ IF phase = "off"
       THEN UNCHANGED <<params, listenerVars, answer>>
       ELSE /\ PushParams([epoch |-> e.epoch, from |-> "event"])
            /\ CheckTimeouts(epochs[e.epoch])
    /\ UNCHANGED <<chainVars, initVars, callVars>>

DeliverNext ==
    \E e \in mail :
        \/ TaskCreationEvent(e)
        \/ TaskSubmissionEvent(e)
        \/ TaskCancelledEvent(e)
        \/ NewEpochEvent(e)

ReadNext(c) ==
    \/ ReadTask(c)
    \/ \E fault \in BOOLEAN : ReadReturns(c, fault)

Next ==
    \/ \E ts \in BlockContents, newEpoch \in BOOLEAN : NewBlock(ts, newEpoch)
    \/ InitListen
    \/ InitRead
    \/ InitReady
    \/ \E c \in Calls, cl \in Claims : Verify(c, cl)
    \/ \E c \in Calls : ReadNext(c)
    \/ DeliverNext

Spec == Init /\ [][Next]_vars

\* The node answers reads and passes on confirmed events; nothing is assumed of
\* the chain or of the callers.
Fairness ==
    /\ WF_vars(DeliverNext)
    /\ \A c \in Calls : WF_vars(ReadNext(c))

FairSpec == Spec /\ Fairness
----------------------------------------------------------------------------
TypeOK ==
    /\ block \in Blocks
    /\ record \in [Tasks -> [created : Blocks, receipt : {"undefined"} \cup Receipts,
                            at : Blocks]]
    /\ epochs \in Seq(Blocks) /\ Len(epochs) <= MaxEpochs
    /\ mail \subseteq Events
    /\ since \in Blocks
    /\ phase \in {"off", "asked", "read", "ready"}
    /\ snapshot \in Seq(Params)
    /\ params \in Seq(Params) /\ Len(params) <= ParamsSize
    /\ creates \in [Tasks -> [call : Creations \cup {NoCall}, block : Blocks]]
    /\ submits \in [Tasks -> [call : Submissions \cup {NoCall}, block : Blocks]]
    /\ rd \in [Calls -> {"none", "asked", "read", "done"}]
    /\ seen \in [Calls -> Statuses]
    /\ claim \in [Calls -> Claims \cup {"none"}]
    /\ answer \in [Calls -> Answers \cup {"none", "thrown"}]

Mailed(kinds, t) == \E e \in mail : e.kind \in kinds /\ e.task = t

\* No event is lost between the read and the listener: a creation call whose
\* read found nothing still listens, and if the task has been recorded since
\* the subscription, the event is still to come; so it is for a receipt and the
\* submission call that listens for it.  (Reads and events wait for the same
\* confirmations, and the listener is installed before the read.  What was
\* mined before the subscription has no event: a call that asks while it is
\* short of its confirmations waits for the timeout.)
NoMissedEvent ==
    /\ \A c \in Creations : rd[c] = "done" /\ answer[c] = "none" =>
           /\ creates[TaskOf[c]].call = c
           /\ record[TaskOf[c]].created > since => Mailed({"create"}, TaskOf[c])
    /\ \A t \in Tasks :
           LET c == submits[t].call IN
           /\ c # NoCall /\ rd[c] = "done"
           /\ record[t].receipt \in Receipts \ {"cancelled"}
           /\ record[t].at > since
           => Mailed({record[t].receipt}, t)

\* A positive answer rests on the chain: the content matches, and the record
\* (or the receipt of the kind claimed) has its confirmations.
VerifiedIsConfirmed ==
    \A c \in Calls : answer[c] = "verified" =>
        LET r == record[TaskOf[c]] IN
        /\ c \in Creations => /\ claim[c] = "ok"
                              /\ r.created # 0 /\ Confirmed(r.created)
        /\ c \in Submissions => /\ <<claim[c], r.receipt>> \in
                                        {<<"ok", "verified">>, <<"failed", "failed">>}
                                /\ Confirmed(r.at)

\* A task is taken only under an epoch that had begun before it and in which
\* this worker is the selected one, whatever order the array of worker params
\* has got into.
SelectedBeforeTask ==
    \A c \in Creations : answer[c] = "verified" =>
        \E k \in MyEpochs \cap DOMAIN epochs : epochs[k] < record[TaskOf[c]].created

ListenerOf(c) == IF c \in Creations THEN creates[TaskOf[c]] ELSE submits[TaskOf[c]]

\* A call that is still waiting when a confirmed epoch begins a timeout after it.
Overdue(c) ==
    /\ ListenerOf(c).call = c
    /\ \E e \in mail : /\ e.kind = "epoch"
                        /\ Confirmed(e.at)
                        /\ Expired(ListenerOf(c), epochs[e.epoch])

Shared(c) == \E d \in Submissions \ {c} : TaskOf[d] = TaskOf[c] /\ rd[d] # "none"

\* The call's handler died in selectWorkerGroup: its promise stays unresolved.
\* That can happen only while the array holds params that init() read.
Died(c) == answer[c] = "thrown" /\ \E i \in DOMAIN params : params[i].from = "read"

\* An overdue call gets an answer, its promise is resolved, with two exceptions.
\* A creation call dies on params that init() read, and on no others.  Two
\* submissions for one id share a listener: the second call replaces the first
\* one's, and the first one's read drops the second one's.
OverdueIsAnswered ==
    \A c \in Calls :
        Overdue(c) ~> \/ answer[c] \in Answers
                      \/ c \in Creations /\ Died(c)
                      \/ c \in Submissions /\ Shared(c)

\* "If the task was created already, use its mined block number instead for the
\* timeout calculations".
MinedBlockUsed ==
    \A t \in Tasks :
        LET c == submits[t].call IN
        c # NoCall /\ rd[c] = "done" /\ seen[c] = "created" =>
            submits[t].block = record[t].created

\* "first find the smallest item": the array that _sortWorkerParams returns
\* begins with the params of the smallest block number.
SmallestFirst ==
    \A i \in DOMAIN snapshot :
        FirstBlockNumber(snapshot[1]) <= FirstBlockNumber(snapshot[i])

\* "it's ok to override the array, as the data will be there already": once
\* init() is done, an epoch whose event has arrived is in the array or has been
\* pushed out of it by newer ones.
EpochKept ==
    phase = "ready" =>
        \A k \in DOMAIN epochs :
            \/ epochs[k] <= since
            \/ \E e \in mail : e.kind = "epoch" /\ e.epoch = k
            \/ \E i \in DOMAIN params : params[i].epoch = k
            \/ params[1].epoch > k

\* "@return {Promise} returning {JSON} {Boolean} isVerified": verifyTaskCreation
\* answers once the task it asks about has a confirmed record in some epoch.
CreationSettles ==
    \A c \in Creations :
        /\ rd[c] # "none"
        /\ ConfirmedStatus(TaskOf[c]) # "undefined"
        /\ \E k \in DOMAIN epochs : epochs[k] < record[TaskOf[c]].created
        ~> answer[c] \in Answers
=============================================================================
