--------------------------- MODULE TaskLifecycle ---------------------------
(***************************************************************************)
(* The life of a task inside one worker: the TaskManager (an in-memory     *)
(* pool of unverified tasks and a LevelDB of verified ones), the actions   *)
(* the NodeController runs on its notifications (VerifyNewTask,            *)
(* HandleVerifiedTask, ExecuteTask), and the PTT (principal-node key       *)
(* exchange) that gates execution.                                         *)
(*                                                                         *)
(* A request is one Task object: one arrival of a deploy or compute        *)
(* message on the worker's topic.  Several requests may carry the same     *)
(* task id.  JavaScript runs one callback at a time, so an action is what  *)
(* happens between two suspension points (an await or a database call).    *)
(***************************************************************************)
EXTENDS Naturals, Sequences, FiniteSets, Functions

CONSTANTS
    Requests,    \* arrivals of task messages (Task objects)
    TaskIds,     \* task ids
    TaskOf,      \* the task id each request carries
    Deploys,     \* the ids that are contract deployments (id = contract address)
    OutsideIds,  \* ids whose results may be published by other workers
    NoRequest,   \* no Task object
    MaxEpochs,   \* bound on NewEpoch events
    MaxCrashes   \* bound on restarts of the node

ASSUME ConstantsAssumption ==
    /\ TaskOf \in [Requests -> TaskIds]
    /\ Deploys \subseteq TaskIds
    /\ OutsideIds \subseteq TaskIds
    /\ NoRequest \notin Requests
    /\ MaxEpochs \in Nat
    /\ MaxCrashes \in Nat

VARIABLES
    pc,         \* where the handling of each request stands
    pool,       \* TaskManager._unverifiedPool: id -> Task object
    db,         \* LevelDB: id -> stored record, or Absent
    read,       \* the record onFinishTask has read, per request
    result,     \* the outcome core returned, per request
    ptt,        \* PrincipalNode._pttInProgress and who runs the exchange
    waiting,    \* once(PTT_END_EVENT) listeners, in registration order
    published,  \* <<request, status>> of every TASK_FINISHED notification
    verified,   \* ids Ethereum has confirmed to this worker
    torn,       \* ids whose finish was cut between its delete and its put
    epochs,     \* NewEpoch events so far
    crashes     \* restarts so far

tmVars   == <<pool, db, read, result, published, verified, torn>>
pttVars  == <<ptt, waiting>>
vars     == <<pc, pool, db, read, result, ptt, waiting, published, verified,
              torn, epochs, crashes>>

Finished == {"SUCCESS", "FAILED"}
Statuses == {"INPROGRESS"} \cup Finished
Absent   == [src |-> "none", status |-> "none"]
Records  == [src : {"own", "outside"}, status : Statuses] \cup {Absent}

\* Handling stages while the request is the pool's entry for its id.
Pooled   == {"verifying", "storing", "stored", "rejected", "storeFailed"}
\* Stages of onFinishTask between its suspension points.
Finishing == {"reading", "deleting", "restoring", "finished"}
\* Handling has ended; the error stages are the code's log-and-return paths.
Ended == {"refused", "aborted", "unverifiedErr", "finishErr", "done", "lost"}
Stages == {"idle", "waitPTT", "keys", "core"} \cup Pooled \cup Finishing \cup Ended

PTTPhases == {"idle", "request", "principal", "response"}
NoPTT     == [phase |-> "idle", owner |-> NoRequest]

IsDeploy(r) == TaskOf[r] \in Deploys

Init ==
    /\ pc = [r \in Requests |-> "idle"]
    /\ pool = [t \in TaskIds |-> NoRequest]
    /\ db = [t \in TaskIds |-> Absent]
    /\ read = [r \in Requests |-> Absent]
    /\ result = [r \in Requests |-> "none"]
    /\ ptt = NoPTT
    /\ waiting = <<>>
    /\ published = {}
    /\ verified = {}
    /\ torn = {}
    /\ epochs = 0
    /\ crashes = 0

Goto(r, stage) == pc' = [pc EXCEPT ![r] = stage]
----------------------------------------------------------------------------
(* Submission and verification                                             *)

\* Mutant: the pool is not consulted.
IsOkToAdd_Always(t) == t \in TaskIds

\* _isOkToAdd: only the pool is consulted, not the database.
IsOkToAdd(t) == pool[t] = NoRequest

\* StartTaskExecutionAction -> addTaskUnverified -> notify(VERIFY_NEW_TASK).
StartTaskExecution(r) ==
    /\ pc[r] = "idle"
    /\ LET t == TaskOf[r] IN
       \/ /\ IsOkToAdd(t)
          /\ pool' = [pool EXCEPT ![t] = r]
          /\ Goto(r, "verifying")
       \/ /\ ~IsOkToAdd(t)
          /\ Goto(r, "refused")
          /\ UNCHANGED pool
    /\ UNCHANGED <<db, read, result, published, verified, torn>>
    /\ UNCHANGED <<pttVars, epochs, crashes>>

\* Mutant: Ethereum's answer is ignored.
VerifyNewTask_IgnoresAnswer(r, ok) ==
    /\ pc[r] = "verifying"
    /\ Goto(r, "storing")
    /\ verified' = IF ok THEN verified \cup {TaskOf[r]} ELSE verified
    /\ UNCHANGED <<pool, db, read, result, published, torn>>
    /\ UNCHANGED <<pttVars, epochs, crashes>>

\* VerifyNewTaskAction's answer from Ethereum, then onVerifyTask(id, ok) up to
\* its put.  A task that is not verified stays in the pool: nothing removes it.
VerifyNewTask(r, ok) ==
    /\ pc[r] = "verifying"
    /\ Goto(r, IF ok THEN "storing" ELSE "rejected")
    /\ verified' = IF ok THEN verified \cup {TaskOf[r]} ELSE verified
    /\ UNCHANGED <<pool, db, read, result, published, torn>>
    /\ UNCHANGED <<pttVars, epochs, crashes>>

\* Mutant: the error of the put is ignored.
StoreVerified_IgnoresError(r, ok) ==
    /\ pc[r] = "storing"
    /\ Goto(r, "stored")
    /\ db' = IF ok THEN [db EXCEPT ![TaskOf[r]] =
                            [src |-> "own", status |-> "INPROGRESS"]]
                   ELSE db
    /\ UNCHANGED <<pool, read, result, published, verified, torn>>
    /\ UNCHANGED <<pttVars, epochs, crashes>>

\* The put of onVerifyTask takes effect, or fails and leaves the task pooled.
StoreVerified(r, ok) ==
    /\ pc[r] = "storing"
    /\ Goto(r, IF ok THEN "stored" ELSE "storeFailed")
    /\ db' = IF ok THEN [db EXCEPT ![TaskOf[r]] =
                            [src |-> "own", status |-> "INPROGRESS"]]
                   ELSE db
    /\ UNCHANGED <<pool, read, result, published, verified, torn>>
    /\ UNCHANGED <<pttVars, epochs, crashes>>
----------------------------------------------------------------------------
(* PTT: PrincipalNode and GetStateKeysAction                               *)

\* Mutant: startPTT does not look at the flag.
CanStartPTT_Always == ptt.phase \in PTTPhases

\* startPTT succeeds only when no exchange is running.
CanStartPTT == ptt.phase = "idle"

StartedBy(r) == [phase |-> "request", owner |-> r]

\* HandleVerifiedTaskAction: run now, or after PTT_END.  A deploy first runs its
\* own PTT; if startPTT refuses, ExecuteTaskAction logs and returns.
HandleVerified(r) ==
    \/ /\ ptt.phase # "idle"
       /\ waiting' = Append(waiting, r)
       /\ Goto(r, "waitPTT")
       /\ UNCHANGED ptt
    \/ /\ ptt.phase = "idle"
       /\ IsDeploy(r)
       /\ ptt' = StartedBy(r)
       /\ Goto(r, "keys")
       /\ UNCHANGED waiting
    \/ /\ ptt.phase = "idle"
       /\ ~IsDeploy(r)
       /\ Goto(r, "core")
       /\ UNCHANGED <<ptt, waiting>>

\* The callback of onVerifyTask's put: leave the pool and notify TASK_VERIFIED.
TaskVerified(r) ==
    /\ pc[r] = "stored"
    /\ pool' = [pool EXCEPT ![TaskOf[r]] = NoRequest]
    /\ HandleVerified(r)
    /\ UNCHANGED <<db, read, result, published, verified, torn>>
    /\ UNCHANGED <<epochs, crashes>>

\* The first queued deploy: its listener runs startPTT while the flag is down.
FirstDeploy(q) ==
    LET ds == {i \in DOMAIN q : IsDeploy(q[i])}
        first == {i \in ds : \A j \in ds : i <= j}
    IN  IF first = {} THEN NoRequest ELSE q[CHOOSE i \in first : TRUE]

\* What each PTT_END listener does: a compute task goes to core, the first
\* deploy starts the next exchange, every later deploy finds it running.
AfterPTT(q, r) ==
    IF ~IsDeploy(r) THEN "core"
    ELSE IF r = FirstDeploy(q) THEN "keys" ELSE "aborted"

\* Mutants: PTT_END is not emitted; the flag is not lowered.
OnPTTEnd_NoEmit(stage) ==
    /\ ptt' = NoPTT
    /\ pc' = [r \in Requests |-> IF r = ptt.owner THEN stage ELSE pc[r]]
    /\ UNCHANGED waiting
OnPTTEnd_KeepsFlag(stage) ==
    /\ pc' = [r \in Requests |-> IF r = ptt.owner THEN stage ELSE pc[r]]
    /\ UNCHANGED <<ptt, waiting>>

\* onPTTEnd: lower the flag, then emit PTT_END, which runs every listener
\* synchronously; the owner of the exchange continues at `stage` afterwards.
OnPTTEnd(stage) ==
    /\ ptt' = IF FirstDeploy(waiting) = NoRequest
              THEN NoPTT ELSE StartedBy(FirstDeploy(waiting))
    /\ waiting' = <<>>
    /\ pc' = [r \in Requests |->
                IF r \in Range(waiting) THEN AfterPTT(waiting, r)
                ELSE IF r = ptt.owner THEN stage
                ELSE pc[r]]

\* The NewEpoch listener of InitWorkerAction: GET_STATE_KEYS, dropped when an
\* exchange is running.
NewEpoch ==
    /\ epochs < MaxEpochs
    /\ epochs' = epochs + 1
    /\ ptt' = IF CanStartPTT THEN StartedBy(NoRequest) ELSE ptt
    /\ UNCHANGED <<pc, waiting, crashes>>
    /\ UNCHANGED tmVars

\* Core's answer to GetPTTRequest, and then the principal's to getStateKeys.
PTTProgress(from, to) ==
    /\ ptt.phase = from
    /\ ptt' = [ptt EXCEPT !.phase = to]
    /\ UNCHANGED <<pc, waiting, epochs, crashes>>
    /\ UNCHANGED tmVars

\* _handleError with an error: PTT_END, then the owner's promise is rejected.
PTTFailed ==
    /\ ptt.phase # "idle"
    /\ OnPTTEnd("aborted")
    /\ UNCHANGED <<epochs, crashes>>
    /\ UNCHANGED tmVars

\* Core's answer to PTTResponse.  An answer of type "Error" ends here too: it
\* reaches _handleError without an error value (GetStateKeysAction tests
\* coreResponse where it means response), so the owner's promise resolves.
PTTAnswered ==
    /\ ptt.phase = "response"
    /\ OnPTTEnd("core")
    /\ UNCHANGED <<epochs, crashes>>
    /\ UNCHANGED tmVars
----------------------------------------------------------------------------
(* Execution and finish                                                    *)

\* Mutant: a system error is kept as the task's result.
CoreAnswers_KeepsError(r, outcome) ==
    /\ pc[r] = "core"
    /\ result' = [result EXCEPT ![r] = outcome]
    /\ Goto(r, IF pool[TaskOf[r]] # NoRequest THEN "unverifiedErr" ELSE "reading")
    /\ UNCHANGED <<pool, db, read, published, verified, torn>>
    /\ UNCHANGED <<pttVars, epochs, crashes>>

\* Core's answer to the task, then onFinishTask up to its first database call.
\* A system error is logged and the stored task stays INPROGRESS.
CoreAnswers(r, outcome) ==
    /\ pc[r] = "core"
    /\ result' = [result EXCEPT ![r] =
                    IF outcome = "sysError" THEN "none" ELSE outcome]
    /\ Goto(r, IF outcome = "sysError" THEN "aborted"
               ELSE IF pool[TaskOf[r]] # NoRequest THEN "unverifiedErr"
               ELSE "reading")
    /\ UNCHANGED <<pool, db, read, published, verified, torn>>
    /\ UNCHANGED <<pttVars, epochs, crashes>>

\* _readTask fails on a missing record.
FinishRead(r, ok) ==
    /\ pc[r] = "reading"
    /\ LET rec == db[TaskOf[r]] IN
       IF ok /\ rec # Absent
       THEN /\ read' = [read EXCEPT ![r] = rec]
            /\ Goto(r, "deleting")
       ELSE /\ Goto(r, "finishErr")
            /\ UNCHANGED read
    /\ UNCHANGED <<pool, db, result, published, verified, torn>>
    /\ UNCHANGED <<pttVars, epochs, crashes>>

\* _deleteTask: from here until the put the task exists only in memory.
FinishDelete(r, ok) ==
    /\ pc[r] = "deleting"
    /\ Goto(r, IF ok THEN "restoring" ELSE "finishErr")
    /\ db' = IF ok THEN [db EXCEPT ![TaskOf[r]] = Absent] ELSE db
    /\ UNCHANGED <<pool, read, result, published, verified, torn>>
    /\ UNCHANGED <<pttVars, epochs, crashes>>

\* Mutant: the result is not attached before the put.
FinishStore_NoSetResult(r, ok) ==
    /\ pc[r] = "restoring"
    /\ Goto(r, IF ok THEN "finished" ELSE "finishErr")
    /\ db' = IF ok THEN [db EXCEPT ![TaskOf[r]] = read[r]] ELSE db
    /\ torn' = IF ok THEN torn ELSE torn \cup {TaskOf[r]}
    /\ read' = [read EXCEPT ![r] = Absent]
    /\ UNCHANGED <<pool, result, published, verified>>
    /\ UNCHANGED <<pttVars, epochs, crashes>>

\* setResult on the object that was read, and its put.
FinishStore(r, ok) ==
    /\ pc[r] = "restoring"
    /\ Goto(r, IF ok THEN "finished" ELSE "finishErr")
    /\ db' = IF ok THEN [db EXCEPT ![TaskOf[r]] =
                            [src |-> read[r].src, status |-> result[r]]]
                   ELSE db
    /\ torn' = IF ok THEN torn ELSE torn \cup {TaskOf[r]}
    /\ read' = [read EXCEPT ![r] = Absent]
    /\ UNCHANGED <<pool, result, published, verified>>
    /\ UNCHANGED <<pttVars, epochs, crashes>>

\* Mutant: the record is dropped once the result is out.
TaskFinished_Drops(r) ==
    /\ pc[r] = "finished"
    /\ Goto(r, "done")
    /\ published' = published \cup {<<r, result[r]>>}
    /\ result' = [result EXCEPT ![r] = "none"]
    /\ db' = [db EXCEPT ![TaskOf[r]] = Absent]
    /\ UNCHANGED <<pool, read, verified, torn>>
    /\ UNCHANGED <<pttVars, epochs, crashes>>

\* The put's callback: notify TASK_FINISHED, whose action publishes the result.
TaskFinished(r) ==
    /\ pc[r] = "finished"
    /\ Goto(r, "done")
    /\ published' = published \cup {<<r, result[r]>>}
    /\ result' = [result EXCEPT ![r] = "none"]
    /\ UNCHANGED <<pool, db, read, verified, torn>>
    /\ UNCHANGED <<pttVars, epochs, crashes>>

\* addOutsideResult: the put overwrites whatever is stored for the id.
AddOutsideResult(t, status) ==
    /\ t \in OutsideIds
    /\ db' = [db EXCEPT ![t] = [src |-> "outside", status |-> status]]
    /\ UNCHANGED <<pc, pool, read, result, published, verified, torn>>
    /\ UNCHANGED <<pttVars, epochs, crashes>>

\* The process dies and is started again: only the database survives, and no
\* code reads INPROGRESS records back.
Crash ==
    /\ crashes < MaxCrashes
    /\ crashes' = crashes + 1
    /\ pc' = [r \in Requests |->
                IF pc[r] \in Ended \cup {"idle"} THEN pc[r] ELSE "lost"]
    /\ torn' = torn \cup {TaskOf[r] : r \in {q \in Requests : pc[q] = "restoring"}}
    /\ pool' = [t \in TaskIds |-> NoRequest]
    /\ ptt' = NoPTT
    /\ waiting' = <<>>
    /\ read' = [r \in Requests |-> Absent]
    /\ result' = [r \in Requests |-> "none"]
    /\ UNCHANGED <<db, published, verified, epochs>>

PTTNext ==
    \/ PTTProgress("request", "principal")
    \/ PTTProgress("principal", "response")
    \/ PTTFailed
    \/ PTTAnswered

TaskNext(r) ==
    \/ \E ok \in BOOLEAN : StoreVerified(r, ok)
    \/ TaskVerified(r)
    \/ \E o \in Finished \cup {"sysError"} : CoreAnswers(r, o)
    \/ \E ok \in BOOLEAN : FinishRead(r, ok)
    \/ \E ok \in BOOLEAN : FinishDelete(r, ok)
    \/ \E ok \in BOOLEAN : FinishStore(r, ok)
    \/ TaskFinished(r)

Next ==
    \/ \E r \in Requests :
        \/ StartTaskExecution(r)
        \/ \E ok \in BOOLEAN : VerifyNewTask(r, ok)
        \/ TaskNext(r)
    \/ PTTNext
    \/ NewEpoch
    \/ \E t \in TaskIds, s \in Finished : AddOutsideResult(t, s)
    \/ Crash

Spec == Init /\ [][Next]_vars

\* The database, the principal and core answer every call (the code has no
\* timeout of its own on them): their callbacks are scheduled fairly.  Nothing
\* is assumed of submissions, verification by Ethereum, epochs or crashes.
Fairness == WF_vars(PTTNext) /\ \A r \in Requests : WF_vars(TaskNext(r))

FairSpec == Spec /\ Fairness
----------------------------------------------------------------------------
TypeOK ==
    /\ pc \in [Requests -> Stages]
    /\ pool \in [TaskIds -> Requests \cup {NoRequest}]
    /\ db \in [TaskIds -> Records]
    /\ read \in [Requests -> Records]
    /\ result \in [Requests -> Finished \cup {"none"}]
    /\ ptt \in [phase : PTTPhases, owner : Requests \cup {NoRequest}]
    /\ waiting \in Seq(Requests)
    /\ published \subseteq (Requests \X Finished)
    /\ verified \subseteq TaskIds
    /\ torn \subseteq TaskIds
    /\ epochs \in 0..MaxEpochs
    /\ crashes \in 0..MaxCrashes

\* The pool and the handlers agree: an entry belongs to a request that is still
\* before its TASK_VERIFIED, and a request that onVerifyTask is working on is
\* the entry its callback will delete (so the callback never evicts another).
PoolMatchesHandlers ==
    /\ \A t \in TaskIds : pool[t] # NoRequest =>
           TaskOf[pool[t]] = t /\ pc[pool[t]] \in Pooled
    /\ \A r \in Requests : pc[r] \in Pooled => pool[TaskOf[r]] = r

\* A task Ethereum confirmed and whose put succeeded stays on disk: its record
\* is missing only while some onFinishTask is between its delete and its put,
\* or after that window was cut by a crash or a failed put.
OnceStored == {"stored", "waitPTT", "keys", "core", "done"} \cup Finishing
Confirmed(t) == \E r \in Requests : TaskOf[r] = t /\ pc[r] \in OnceStored
VerifiedTaskOnDisk ==
    \A t \in TaskIds :
        Confirmed(t) /\ t \notin torn /\ db[t] = Absent =>
            \E r \in Requests : TaskOf[r] = t /\ pc[r] = "restoring"

\* Nobody waits for a PTT_END that is not coming: a queued task has a running
\* exchange to end it, and the queue holds exactly the tasks that wait.
WaitersHavePTT ==
    /\ waiting # <<>> => ptt.phase # "idle"
    /\ \A r \in Requests : pc[r] = "waitPTT" <=> r \in Range(waiting)

\* At most one exchange runs, and a deploy that waits for keys owns it.
PTTHasOneOwner ==
    /\ ptt.phase = "idle" => ptt.owner = NoRequest
    /\ \A r \in Requests : pc[r] = "keys" <=> ptt.owner = r

\* "The task will not be even stored on disk until it is verified": an own
\* record, a pass to core and a published result all need Ethereum's word.
OnlyVerifiedLeavesMemory ==
    /\ \A t \in TaskIds : db[t].src = "own" => t \in verified
    /\ \A r \in Requests : pc[r] \in {"waitPTT", "keys", "core"} => TaskOf[r] \in verified
    /\ \A p \in published : TaskOf[p[1]] \in verified

\* A task that arrives once and that no other worker computes.  (A resubmission
\* verified before the receipt is mined puts a finished task back in progress.)
SubmittedOnce(t) ==
    /\ t \notin OutsideIds
    /\ \A r, q \in Requests : TaskOf[r] = t /\ TaskOf[q] = t => r = q

\* What the network was told is what the worker keeps: the status published
\* for a task is the status on disk, restarts included.
PublishedMatchesDisk ==
    \A p \in published :
        SubmittedOnce(TaskOf[p[1]]) => db[TaskOf[p[1]]].status = p[2]

\* A stored result is final: no step replaces SUCCESS or FAILED.
FinishedIsFinal ==
    [][\A t \in TaskIds :
         SubmittedOnce(t) /\ db[t].status \in Finished => db'[t] = db[t]]_vars

\* Every task queued behind a PTT gets its turn once the exchange ends.
QueuedTaskRuns ==
    \A r \in Requests : pc[r] = "waitPTT" ~> pc[r] # "waitPTT"

\* Every exchange ends.
PTTEnds == ptt.phase # "idle" ~> ptt.phase = "idle"

\* onFinishTask says of its "executed without verification" branch:
\* "this should never happen".
NeverExecutedUnverified == \A r \in Requests : pc[r] # "unverifiedErr"

\* "Once a task is verified it is sent to enigma-core for execution": at least
\* its key exchange is tried.
VerifiedTaskIsAttempted ==
    \A r \in Requests : pc[r] = "stored" ~> pc[r] \in {"keys", "core"}
=============================================================================
