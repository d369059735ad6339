----------------------- MODULE TaskLifecycle_proofs -----------------------
(***************************************************************************)
(* Proofs about TaskLifecycle, for any number of requests, tasks, epochs   *)
(* and crashes.                                                            *)
(***************************************************************************)
EXTENDS TaskLifecycle, TLAPS

(***************************************************************************)
(* What onFinishTask carries from one database call to the next: it has    *)
(* core's outcome from its start to its notification, and a record from    *)
(* the read to the put.  TypeOK needs it: the put writes both.             *)
(***************************************************************************)
FinishHasData ==
    \A r \in Requests :
        /\ pc[r] \in Finishing => result[r] \in Finished
        /\ pc[r] \in {"deleting", "restoring"} => read[r] # Absent

\* The owner of the exchange waits for its keys, and the queue holds the tasks
\* that wait: what PTT_END disturbs is known.
PTTInv == WaitersHavePTT /\ PTTHasOneOwner

\* The first queued deploy is a queued deploy.
LEMMA FirstDeployQueued ==
    ASSUME NEW q \in Seq(Requests), FirstDeploy(q) # NoRequest
    PROVE  FirstDeploy(q) \in Range(q) /\ FirstDeploy(q) \in Requests
           /\ IsDeploy(FirstDeploy(q))
<1> DEFINE ds    == {i \in DOMAIN q : IsDeploy(q[i])}
           first == {i \in ds : \A j \in ds : i <= j}
           k     == CHOOSE i \in first : TRUE
<1>1. FirstDeploy(q) = IF first = {} THEN NoRequest ELSE q[k]
  BY DEF FirstDeploy
<1>2. first # {}
  BY <1>1
<1>3. k \in first
  BY <1>2
<1>4. k \in DOMAIN q /\ IsDeploy(q[k])
  BY <1>3
<1>5. q[k] \in Requests
  BY <1>4
<1>. QED
  BY <1>1, <1>2, <1>4, <1>5 DEF Range

\* Registering one more PTT_END listener adds exactly its request to the queue.
LEMMA RangeAppend ==
    ASSUME NEW q \in Seq(Requests), NEW r \in Requests
    PROVE  /\ Append(q, r) \in Seq(Requests)
           /\ Append(q, r) # <<>>
           /\ \A x : x \in Range(Append(q, r)) <=> x \in Range(q) \/ x = r
<1>1. /\ Append(q, r) \in Seq(Requests)
      /\ Append(q, r) # <<>>
      /\ Len(Append(q, r)) = Len(q) + 1
      /\ \A i \in 1..Len(q) : Append(q, r)[i] = q[i]
      /\ Append(q, r)[Len(q) + 1] = r
  OBVIOUS
<1>2. DOMAIN q = 1..Len(q) /\ DOMAIN Append(q, r) = 1..(Len(q) + 1) /\ Len(q) \in Nat
  BY <1>1
<1>3. ASSUME NEW x, x \in Range(Append(q, r))
      PROVE  x \in Range(q) \/ x = r
  <2>1. PICK i \in 1..(Len(q) + 1) : x = Append(q, r)[i]
    BY <1>2, <1>3 DEF Range
  <2>. QED
    BY <2>1, <1>1, <1>2 DEF Range
<1>4. ASSUME NEW x, x \in Range(q) \/ x = r
      PROVE  x \in Range(Append(q, r))
  <2>1. CASE x = r
    BY <2>1, <1>1, <1>2 DEF Range
  <2>2. CASE x \in Range(q)
    <3>1. PICK i \in 1..Len(q) : x = q[i]
      BY <2>2, <1>2 DEF Range
    <3>2. i \in 1..(Len(q) + 1) /\ x = Append(q, r)[i]
      BY <3>1, <1>1, <1>2
    <3>. QED
      BY <3>2, <1>2 DEF Range
  <2>. QED
    BY <1>4, <2>1, <2>2
<1>. QED
  BY <1>1, <1>3, <1>4

\* After PTT_END nobody waits.
LEMMA RangeEmpty == Range(<<>>) = {}
  BY DEF Range

\* PTT_END leaves the queue empty and the exchange with a well-formed owner.
LEMMA OnPTTEndType ==
    ASSUME ConstantsAssumption, TypeOK, NEW stage \in Stages, OnPTTEnd(stage)
    PROVE  /\ pc' \in [Requests -> Stages]
           /\ ptt' \in [phase : PTTPhases, owner : Requests \cup {NoRequest}]
           /\ waiting' \in Seq(Requests)
<1>1. waiting \in Seq(Requests)
  BY DEF TypeOK
<1>2. ptt' \in [phase : PTTPhases, owner : Requests \cup {NoRequest}]
  BY <1>1, FirstDeployQueued DEF OnPTTEnd, NoPTT, StartedBy, PTTPhases
<1>3. \A r \in Requests : AfterPTT(waiting, r) \in Stages
  BY DEF AfterPTT, Stages, Ended
<1>4. pc' \in [Requests -> Stages]
  BY <1>3 DEF OnPTTEnd, TypeOK
<1>. QED
  BY <1>2, <1>4 DEF OnPTTEnd

----------------------------------------------------------------------------
(* Type correctness                                                        *)

\* A node that has just started is well typed.
LEMMA InitType == ConstantsAssumption /\ Init => TypeOK /\ FinishHasData
  BY DEF ConstantsAssumption, Init, TypeOK, FinishHasData, NoPTT, PTTPhases, Stages,
         Records, Finishing

\* Every callback keeps the state well typed.
LEMMA StepType ==
    ASSUME ConstantsAssumption, TypeOK, FinishHasData, [Next]_vars
    PROVE  TypeOK'
<1> USE DEF Goto
<1>1. ASSUME NEW r \in Requests, StartTaskExecution(r) PROVE TypeOK'
  BY <1>1 DEF ConstantsAssumption, TypeOK, StartTaskExecution, pttVars, Stages, Pooled, Ended
<1>2. ASSUME NEW r \in Requests, NEW ok \in BOOLEAN, VerifyNewTask(r, ok) PROVE TypeOK'
  BY <1>2 DEF ConstantsAssumption, TypeOK, VerifyNewTask, pttVars, Stages, Pooled
<1>3. ASSUME NEW r \in Requests, NEW ok \in BOOLEAN, StoreVerified(r, ok) PROVE TypeOK'
  <2>1. db' \in [TaskIds -> Records]
    BY <1>3 DEF ConstantsAssumption, TypeOK, StoreVerified, Records, Statuses
  <2>. QED
    BY <1>3, <2>1 DEF TypeOK, StoreVerified, pttVars, Stages, Pooled
<1>4. ASSUME NEW r \in Requests, TaskVerified(r) PROVE TypeOK'
  <2>1. waiting' \in Seq(Requests)
    BY <1>4, RangeAppend DEF TypeOK, TaskVerified, HandleVerified
  <2>2. ptt' \in [phase : PTTPhases, owner : Requests \cup {NoRequest}]
    BY <1>4 DEF TypeOK, TaskVerified, HandleVerified, StartedBy, PTTPhases
  <2>3. pc' \in [Requests -> Stages]
    BY <1>4 DEF TypeOK, TaskVerified, HandleVerified, Stages
  <2>. QED
    BY <1>4, <2>1, <2>2, <2>3 DEF ConstantsAssumption, TypeOK, TaskVerified
<1>5. ASSUME NEW r \in Requests, NEW o \in Finished \cup {"sysError"}, CoreAnswers(r, o)
      PROVE  TypeOK'
  BY <1>5 DEF TypeOK, CoreAnswers, pttVars, Stages, Ended, Finishing
<1>6. ASSUME NEW r \in Requests, NEW ok \in BOOLEAN, FinishRead(r, ok) PROVE TypeOK'
  BY <1>6 DEF ConstantsAssumption, TypeOK, FinishRead, pttVars, Stages, Ended, Finishing
<1>7. ASSUME NEW r \in Requests, NEW ok \in BOOLEAN, FinishDelete(r, ok) PROVE TypeOK'
  BY <1>7 DEF ConstantsAssumption, TypeOK, FinishDelete, pttVars, Stages, Ended, Finishing, Records
<1>8. ASSUME NEW r \in Requests, NEW ok \in BOOLEAN, FinishStore(r, ok) PROVE TypeOK'
  <2>1. result[r] \in Finished /\ read[r] \in Records /\ read[r] # Absent
    BY <1>8 DEF TypeOK, FinishHasData, FinishStore, Finishing
  <2>2. [src |-> read[r].src, status |-> result[r]] \in Records
    BY <2>1 DEF Records, Statuses
  <2>3. db' \in [TaskIds -> Records]
    BY <1>8, <2>2 DEF ConstantsAssumption, TypeOK, FinishStore
  <2>4. read' \in [Requests -> Records] /\ pc' \in [Requests -> Stages] /\ torn' \subseteq TaskIds
    BY <1>8 DEF ConstantsAssumption, TypeOK, FinishStore, Records, Stages, Ended, Finishing
  <2>. QED
    BY <1>8, <2>3, <2>4 DEF TypeOK, FinishStore, pttVars
<1>9. ASSUME NEW r \in Requests, TaskFinished(r) PROVE TypeOK'
  <2>1. result[r] \in Finished
    BY <1>9 DEF FinishHasData, TaskFinished, Finishing
  <2>. QED
    BY <1>9, <2>1 DEF TypeOK, TaskFinished, pttVars, Stages, Ended
<1>10. ASSUME NEW t \in TaskIds, NEW s \in Finished, AddOutsideResult(t, s) PROVE TypeOK'
  <2>1. db' \in [TaskIds -> Records]
    BY <1>10 DEF TypeOK, AddOutsideResult, Records, Statuses
  <2>. QED
    BY <1>10, <2>1 DEF TypeOK, AddOutsideResult, pttVars
<1>11. CASE NewEpoch
  BY <1>11 DEF ConstantsAssumption, TypeOK, NewEpoch, tmVars, StartedBy, PTTPhases
<1>12. ASSUME NEW from \in PTTPhases, NEW to \in PTTPhases, PTTProgress(from, to) PROVE TypeOK'
  BY <1>12 DEF TypeOK, PTTProgress, tmVars
<1>13. CASE PTTFailed
  <2>1. "aborted" \in Stages
    BY DEF Stages, Ended
  <2>. QED
    BY <1>13, <2>1, OnPTTEndType DEF TypeOK, PTTFailed, tmVars
<1>14. CASE PTTAnswered
  <2>1. "core" \in Stages
    BY DEF Stages
  <2>. QED
    BY <1>14, <2>1, OnPTTEndType DEF TypeOK, PTTAnswered, tmVars
<1>15. CASE Crash
  <2>1. pc' \in [Requests -> Stages] /\ torn' \subseteq TaskIds
    BY <1>15 DEF ConstantsAssumption, TypeOK, Crash, Stages, Ended
  <2>2. /\ pool' \in [TaskIds -> Requests \cup {NoRequest}]
        /\ read' \in [Requests -> Records]
        /\ result' \in [Requests -> Finished \cup {"none"}]
        /\ ptt' \in [phase : PTTPhases, owner : Requests \cup {NoRequest}]
        /\ waiting' \in Seq(Requests)
        /\ crashes' \in 0..MaxCrashes
    BY <1>15 DEF ConstantsAssumption, TypeOK, Crash, Records, NoPTT, PTTPhases
  <2>. QED
    BY <1>15, <2>1, <2>2 DEF TypeOK, Crash
<1>16. CASE UNCHANGED vars
  BY <1>16 DEF TypeOK, vars
<1>17. CASE PTTNext
  BY <1>12, <1>13, <1>14, <1>17 DEF PTTNext, PTTPhases
<1>18. ASSUME NEW r \in Requests, TaskNext(r) PROVE TypeOK'
  BY <1>3, <1>4, <1>5, <1>6, <1>7, <1>8, <1>9, <1>18 DEF TaskNext
<1>. QED
  BY <1>1, <1>2, <1>10, <1>11, <1>15, <1>16, <1>17, <1>18 DEF Next

\* The owner of the exchange and the queued tasks are the only requests that
\* PTT_END moves, to core, to their keys or to the stage given.
LEMMA OnPTTEndMoves ==
    ASSUME ConstantsAssumption, TypeOK, PTTInv, NEW stage, OnPTTEnd(stage), NEW r \in Requests
    PROVE  \/ pc[r] \in {"waitPTT", "keys"} /\ pc'[r] \in {"core", "keys", "aborted", stage}
           \/ pc[r] \notin {"waitPTT", "keys"} /\ pc'[r] = pc[r]
<1>1. pc'[r] = IF r \in Range(waiting) THEN AfterPTT(waiting, r)
               ELSE IF r = ptt.owner THEN stage ELSE pc[r]
  BY DEF OnPTTEnd
<1>2. AfterPTT(waiting, r) \in {"core", "keys", "aborted"}
  BY DEF AfterPTT
<1>. QED
  BY <1>1, <1>2 DEF PTTInv, WaitersHavePTT, PTTHasOneOwner

\* onFinishTask keeps the result and the record it read until its put.
LEMMA StepFinishData ==
    ASSUME ConstantsAssumption, TypeOK, PTTInv, FinishHasData, [Next]_vars
    PROVE  FinishHasData'
<1> USE DEF Goto
<1>1. ASSUME NEW r \in Requests, StartTaskExecution(r) PROVE FinishHasData'
  BY <1>1 DEF TypeOK, FinishHasData, StartTaskExecution, Finishing
<1>2. ASSUME NEW r \in Requests, NEW ok \in BOOLEAN, VerifyNewTask(r, ok) PROVE FinishHasData'
  BY <1>2 DEF TypeOK, FinishHasData, VerifyNewTask, Finishing
<1>3. ASSUME NEW r \in Requests, NEW ok \in BOOLEAN, StoreVerified(r, ok) PROVE FinishHasData'
  BY <1>3 DEF TypeOK, FinishHasData, StoreVerified, Finishing
<1>4. ASSUME NEW r \in Requests, TaskVerified(r) PROVE FinishHasData'
  <2>1. PICK stage \in {"waitPTT", "keys", "core"} : pc' = [pc EXCEPT ![r] = stage]
    BY <1>4 DEF TaskVerified, HandleVerified
  <2>. QED
    BY <1>4, <2>1 DEF TypeOK, FinishHasData, TaskVerified, Finishing
<1>5. ASSUME NEW r \in Requests, NEW o \in Finished \cup {"sysError"}, CoreAnswers(r, o)
      PROVE  FinishHasData'
  <2>1. "sysError" \notin Finished
    BY DEF Finished
  <2>. QED
    BY <1>5, <2>1 DEF TypeOK, FinishHasData, CoreAnswers, Finishing
<1>6. ASSUME NEW r \in Requests, NEW ok \in BOOLEAN, FinishRead(r, ok) PROVE FinishHasData'
  BY <1>6 DEF TypeOK, FinishHasData, FinishRead, Finishing
<1>7. ASSUME NEW r \in Requests, NEW ok \in BOOLEAN, FinishDelete(r, ok) PROVE FinishHasData'
  BY <1>7 DEF TypeOK, FinishHasData, FinishDelete, Finishing
<1>8. ASSUME NEW r \in Requests, NEW ok \in BOOLEAN, FinishStore(r, ok) PROVE FinishHasData'
  BY <1>8 DEF TypeOK, FinishHasData, FinishStore, Finishing
<1>9. ASSUME NEW r \in Requests, TaskFinished(r) PROVE FinishHasData'
  BY <1>9 DEF TypeOK, FinishHasData, TaskFinished, Finishing
<1>10. ASSUME NEW t \in TaskIds, NEW s \in Finished, AddOutsideResult(t, s) PROVE FinishHasData'
  BY <1>10 DEF FinishHasData, AddOutsideResult
<1>11. CASE NewEpoch
  BY <1>11 DEF FinishHasData, NewEpoch, tmVars
<1>12. ASSUME NEW from, NEW to, PTTProgress(from, to) PROVE FinishHasData'
  BY <1>12 DEF FinishHasData, PTTProgress, tmVars
<1>13. CASE PTTFailed
  BY <1>13, OnPTTEndMoves DEF FinishHasData, PTTFailed, tmVars, Finishing
<1>14. CASE PTTAnswered
  BY <1>14, OnPTTEndMoves DEF FinishHasData, PTTAnswered, tmVars, Finishing
<1>15. CASE Crash
  BY <1>15 DEF FinishHasData, Crash, Finishing, Ended
<1>16. CASE UNCHANGED vars
  BY <1>16 DEF FinishHasData, vars
<1>17. CASE PTTNext
  BY <1>12, <1>13, <1>14, <1>17 DEF PTTNext
<1>18. ASSUME NEW r \in Requests, TaskNext(r) PROVE FinishHasData'
  BY <1>3, <1>4, <1>5, <1>6, <1>7, <1>8, <1>9, <1>18 DEF TaskNext
<1>. QED
  BY <1>1, <1>2, <1>10, <1>11, <1>15, <1>16, <1>17, <1>18 DEF Next
----------------------------------------------------------------------------
(* The key exchange                                                        *)

\* A node starts without an exchange and without queued tasks.
LEMMA InitPTT == ConstantsAssumption /\ Init => PTTInv
  BY RangeEmpty DEF ConstantsAssumption, Init, PTTInv, WaitersHavePTT, PTTHasOneOwner, NoPTT

\* A request that moves outside the exchange leaves it as it is.
LEMMA QuietPTT ==
    ASSUME TypeOK, PTTInv, NEW r \in Requests, NEW stage,
           pc[r] \notin {"waitPTT", "keys"}, stage \notin {"waitPTT", "keys"},
           pc' = [pc EXCEPT ![r] = stage], UNCHANGED pttVars
    PROVE  PTTInv'
  BY DEF TypeOK, PTTInv, WaitersHavePTT, PTTHasOneOwner, pttVars

\* onPTTEnd empties the queue and hands the exchange to at most one deploy.
LEMMA OnPTTEndInv ==
    ASSUME ConstantsAssumption, TypeOK, PTTInv, NEW stage,
           stage \notin {"waitPTT", "keys"}, OnPTTEnd(stage)
    PROVE  PTTInv'
<1> DEFINE f == FirstDeploy(waiting)
<1>1. waiting \in Seq(Requests)
  BY DEF TypeOK
<1>2. f = NoRequest \/ (f \in Range(waiting) /\ f \in Requests /\ IsDeploy(f))
  BY <1>1, FirstDeployQueued
<1>3. ptt' = (IF f = NoRequest THEN NoPTT ELSE StartedBy(f)) /\ waiting' = <<>>
  BY DEF OnPTTEnd
<1>4. ptt'.owner = f /\ (ptt'.phase = "idle" => f = NoRequest)
  BY <1>3 DEF NoPTT, StartedBy
<1>5. ASSUME NEW r \in Requests
      PROVE  pc'[r] # "waitPTT" /\ (pc'[r] = "keys" <=> r = f)
  <2>1. pc'[r] = IF r \in Range(waiting) THEN AfterPTT(waiting, r)
                 ELSE IF r = ptt.owner THEN stage ELSE pc[r]
    BY DEF OnPTTEnd
  <2>2. r # NoRequest
    BY DEF ConstantsAssumption
  <2>3. CASE r \in Range(waiting)
    BY <1>2, <2>1, <2>2, <2>3 DEF AfterPTT
  <2>4. CASE r \notin Range(waiting)
    BY <1>2, <2>1, <2>2, <2>4 DEF PTTInv, WaitersHavePTT, PTTHasOneOwner
  <2>. QED
    BY <2>3, <2>4
<1>. QED
  BY <1>3, <1>4, <1>5, RangeEmpty DEF PTTInv, WaitersHavePTT, PTTHasOneOwner

\* Every callback keeps the queue and the exchange consistent.
LEMMA StepPTT ==
    ASSUME ConstantsAssumption, TypeOK, PTTInv, [Next]_vars
    PROVE  PTTInv'
<1>1. ASSUME NEW r \in Requests, StartTaskExecution(r) PROVE PTTInv'
  BY <1>1, QuietPTT DEF StartTaskExecution, Goto, pttVars
<1>2. ASSUME NEW r \in Requests, NEW ok \in BOOLEAN, VerifyNewTask(r, ok) PROVE PTTInv'
  BY <1>2, QuietPTT DEF VerifyNewTask, Goto, pttVars
<1>3. ASSUME NEW r \in Requests, NEW ok \in BOOLEAN, StoreVerified(r, ok) PROVE PTTInv'
  BY <1>3, QuietPTT DEF StoreVerified, Goto, pttVars
<1>4. ASSUME NEW r \in Requests, TaskVerified(r) PROVE PTTInv'
  <2>1. pc[r] = "stored" /\ HandleVerified(r) /\ r # NoRequest
    BY <1>4 DEF TaskVerified, ConstantsAssumption
  <2>2. CASE /\ ptt.phase # "idle"
             /\ waiting' = Append(waiting, r)
             /\ Goto(r, "waitPTT")
             /\ UNCHANGED ptt
    <3>1. waiting \in Seq(Requests)
      BY DEF TypeOK
    <3>2. \A x : x \in Range(waiting') <=> x \in Range(waiting) \/ x = r
      BY <2>2, <3>1, RangeAppend
    <3>. QED
      BY <2>1, <2>2, <3>2 DEF TypeOK, PTTInv, WaitersHavePTT, PTTHasOneOwner, Goto
  <2>3. CASE /\ ptt.phase = "idle"
             /\ ptt' = StartedBy(r)
             /\ Goto(r, "keys")
             /\ UNCHANGED waiting
    BY <2>1, <2>3 DEF TypeOK, PTTInv, WaitersHavePTT, PTTHasOneOwner, Goto, StartedBy,
                      ConstantsAssumption
  <2>4. CASE Goto(r, "core") /\ UNCHANGED <<ptt, waiting>>
    BY <2>1, <2>4, QuietPTT DEF Goto, pttVars
  <2>. QED
    BY <2>1, <2>2, <2>3, <2>4 DEF HandleVerified
<1>5. ASSUME NEW r \in Requests, NEW o \in Finished \cup {"sysError"}, CoreAnswers(r, o)
      PROVE  PTTInv'
  BY <1>5, QuietPTT DEF CoreAnswers, Goto, pttVars
<1>6. ASSUME NEW r \in Requests, NEW ok \in BOOLEAN, FinishRead(r, ok) PROVE PTTInv'
  BY <1>6, QuietPTT DEF FinishRead, Goto, pttVars
<1>7. ASSUME NEW r \in Requests, NEW ok \in BOOLEAN, FinishDelete(r, ok) PROVE PTTInv'
  BY <1>7, QuietPTT DEF FinishDelete, Goto, pttVars
<1>8. ASSUME NEW r \in Requests, NEW ok \in BOOLEAN, FinishStore(r, ok) PROVE PTTInv'
  BY <1>8, QuietPTT DEF FinishStore, Goto, pttVars
<1>9. ASSUME NEW r \in Requests, TaskFinished(r) PROVE PTTInv'
  BY <1>9, QuietPTT DEF TaskFinished, Goto, pttVars
<1>10. ASSUME NEW t \in TaskIds, NEW s \in Finished, AddOutsideResult(t, s) PROVE PTTInv'
  BY <1>10 DEF PTTInv, WaitersHavePTT, PTTHasOneOwner, AddOutsideResult, pttVars
<1>11. CASE NewEpoch
  BY <1>11 DEF ConstantsAssumption, PTTInv, WaitersHavePTT, PTTHasOneOwner, NewEpoch,
               CanStartPTT, StartedBy
<1>12. ASSUME NEW from, NEW to, from # "idle", to # "idle", PTTProgress(from, to) PROVE PTTInv'
  <2>1. ptt'.phase = to /\ ptt'.owner = ptt.owner /\ ptt.phase # "idle"
    BY <1>12 DEF TypeOK, PTTProgress
  <2>. QED
    BY <1>12, <2>1 DEF PTTInv, WaitersHavePTT, PTTHasOneOwner, PTTProgress
<1>13. CASE PTTFailed
  BY <1>13, OnPTTEndInv DEF PTTFailed
<1>14. CASE PTTAnswered
  BY <1>14, OnPTTEndInv DEF PTTAnswered
<1>15. CASE Crash
  BY <1>15, RangeEmpty DEF ConstantsAssumption, PTTInv, WaitersHavePTT, PTTHasOneOwner,
                           Crash, NoPTT, Ended
<1>16. CASE UNCHANGED vars
  BY <1>16 DEF PTTInv, WaitersHavePTT, PTTHasOneOwner, vars
<1>17. CASE PTTNext
  BY <1>12, <1>13, <1>14, <1>17 DEF PTTNext
<1>18. ASSUME NEW r \in Requests, TaskNext(r) PROVE PTTInv'
  BY <1>3, <1>4, <1>5, <1>6, <1>7, <1>8, <1>9, <1>18 DEF TaskNext
<1>. QED
  BY <1>1, <1>2, <1>10, <1>11, <1>15, <1>16, <1>17, <1>18 DEF Next

----------------------------------------------------------------------------
(* The pool                                                                *)

\* A request that stays in the pool, or outside it, leaves the pool consistent.
LEMMA QuietPool ==
    ASSUME TypeOK, PoolMatchesHandlers, NEW r \in Requests, NEW stage,
           pc[r] \in Pooled <=> stage \in Pooled,
           pc' = [pc EXCEPT ![r] = stage], UNCHANGED pool
    PROVE  PoolMatchesHandlers'
  BY DEF TypeOK, PoolMatchesHandlers

\* Every callback keeps TaskManager's pool consistent with the handlers.
LEMMA StepPool ==
    ASSUME ConstantsAssumption, TypeOK, PTTInv, PoolMatchesHandlers, [Next]_vars
    PROVE  PoolMatchesHandlers'
<1> USE DEF Goto
<1>1. ASSUME NEW r \in Requests, StartTaskExecution(r) PROVE PoolMatchesHandlers'
  <2>1. CASE IsOkToAdd(TaskOf[r]) /\ pool' = [pool EXCEPT ![TaskOf[r]] = r] /\ Goto(r, "verifying")
    <3>1. pool[TaskOf[r]] = NoRequest /\ "verifying" \in Pooled /\ pc[r] \notin Pooled
      BY <1>1, <2>1 DEF IsOkToAdd, StartTaskExecution, Pooled
    <3>. QED
      BY <2>1, <3>1 DEF ConstantsAssumption, TypeOK, PoolMatchesHandlers
  <2>2. CASE Goto(r, "refused") /\ UNCHANGED pool
    BY <1>1, <2>2, QuietPool DEF StartTaskExecution, Pooled
  <2>. QED
    BY <1>1, <2>1, <2>2 DEF StartTaskExecution
<1>2. ASSUME NEW r \in Requests, NEW ok \in BOOLEAN, VerifyNewTask(r, ok) PROVE PoolMatchesHandlers'
  BY <1>2, QuietPool DEF VerifyNewTask, Pooled
<1>3. ASSUME NEW r \in Requests, NEW ok \in BOOLEAN, StoreVerified(r, ok) PROVE PoolMatchesHandlers'
  BY <1>3, QuietPool DEF StoreVerified, Pooled
<1>4. ASSUME NEW r \in Requests, TaskVerified(r) PROVE PoolMatchesHandlers'
  <2>1. PICK stage \in {"waitPTT", "keys", "core"} : pc' = [pc EXCEPT ![r] = stage]
    BY <1>4 DEF TaskVerified, HandleVerified
  <2>2. stage \notin Pooled /\ pc[r] \in Pooled
    BY <1>4 DEF TaskVerified, Pooled
  <2>. QED
    BY <1>4, <2>1, <2>2 DEF ConstantsAssumption, TypeOK, PoolMatchesHandlers, TaskVerified
<1>5. ASSUME NEW r \in Requests, NEW o \in Finished \cup {"sysError"}, CoreAnswers(r, o)
      PROVE  PoolMatchesHandlers'
  BY <1>5, QuietPool DEF CoreAnswers, Pooled
<1>6. ASSUME NEW r \in Requests, NEW ok \in BOOLEAN, FinishRead(r, ok) PROVE PoolMatchesHandlers'
  BY <1>6, QuietPool DEF FinishRead, Pooled
<1>7. ASSUME NEW r \in Requests, NEW ok \in BOOLEAN, FinishDelete(r, ok) PROVE PoolMatchesHandlers'
  BY <1>7, QuietPool DEF FinishDelete, Pooled
<1>8. ASSUME NEW r \in Requests, NEW ok \in BOOLEAN, FinishStore(r, ok) PROVE PoolMatchesHandlers'
  BY <1>8, QuietPool DEF FinishStore, Pooled
<1>9. ASSUME NEW r \in Requests, TaskFinished(r) PROVE PoolMatchesHandlers'
  BY <1>9, QuietPool DEF TaskFinished, Pooled
<1>10. ASSUME NEW t \in TaskIds, NEW s \in Finished, AddOutsideResult(t, s) PROVE PoolMatchesHandlers'
  BY <1>10 DEF PoolMatchesHandlers, AddOutsideResult
<1>11. CASE NewEpoch
  BY <1>11 DEF PoolMatchesHandlers, NewEpoch, tmVars
<1>12. ASSUME NEW from, NEW to, PTTProgress(from, to) PROVE PoolMatchesHandlers'
  BY <1>12 DEF PoolMatchesHandlers, PTTProgress, tmVars
<1>13. ASSUME PTTFailed \/ PTTAnswered PROVE PoolMatchesHandlers'
  <2>1. \A r \in Requests : pc'[r] \in Pooled <=> pc[r] \in Pooled
    BY <1>13, OnPTTEndMoves DEF PTTFailed, PTTAnswered, Pooled
  <2>2. UNCHANGED pool
    BY <1>13 DEF PTTFailed, PTTAnswered, tmVars
  <2>. QED
    BY <2>1, <2>2 DEF TypeOK, PoolMatchesHandlers
<1>14. CASE Crash
  BY <1>14 DEF PoolMatchesHandlers, Crash, Pooled, Ended
<1>15. CASE UNCHANGED vars
  BY <1>15 DEF PoolMatchesHandlers, vars
<1>16. CASE PTTNext
  BY <1>12, <1>13, <1>16 DEF PTTNext
<1>17. ASSUME NEW r \in Requests, TaskNext(r) PROVE PoolMatchesHandlers'
  BY <1>3, <1>4, <1>5, <1>6, <1>7, <1>8, <1>9, <1>17 DEF TaskNext
<1>. QED
  BY <1>1, <1>2, <1>10, <1>11, <1>14, <1>15, <1>16, <1>17 DEF Next
----------------------------------------------------------------------------
(* Only verified tasks leave memory                                        *)

\* The stages a request reaches only through a positive answer of Ethereum.
AfterVerification == {"storing", "stored", "waitPTT", "keys", "core"} \cup Finishing

VerifiedInv ==
    /\ OnlyVerifiedLeavesMemory
    /\ \A r \in Requests : pc[r] \in AfterVerification => TaskOf[r] \in verified

\* A request that was past verification, or is not now, keeps the invariant as
\* long as nothing is stored or published.
LEMMA QuietVerified ==
    ASSUME VerifiedInv, verified \subseteq verified', UNCHANGED <<db, published>>,
           \A q \in Requests : pc'[q] \in AfterVerification => pc[q] \in AfterVerification
    PROVE  VerifiedInv'
<1>1. {"waitPTT", "keys", "core"} \subseteq AfterVerification
  BY DEF AfterVerification
<1>. QED
  BY <1>1 DEF VerifiedInv, OnlyVerifiedLeavesMemory

\* Every callback keeps unconfirmed tasks away from disk, core and network.
LEMMA StepVerified ==
    ASSUME ConstantsAssumption, TypeOK, PTTInv, FinishHasData, VerifiedInv, [Next]_vars
    PROVE  VerifiedInv'
<1> USE DEF Goto
<1> DEFINE P == AfterVerification
<1>1. ASSUME NEW r \in Requests, StartTaskExecution(r) PROVE VerifiedInv'
  <2>1. "verifying" \notin P /\ "refused" \notin P
    BY DEF AfterVerification, Finishing
  <2>. QED
    BY <1>1, <2>1, QuietVerified DEF TypeOK, StartTaskExecution
<1>2. ASSUME NEW r \in Requests, NEW ok \in BOOLEAN, VerifyNewTask(r, ok) PROVE VerifiedInv'
  <2>1. "rejected" \notin P /\ "storing" \in P
    BY DEF AfterVerification, Finishing
  <2>2. \A q \in Requests : pc'[q] \in P => q = r \/ pc[q] \in P
    BY <1>2 DEF TypeOK, VerifyNewTask
  <2>3. pc'[r] \in P => TaskOf[r] \in verified'
    BY <1>2, <2>1 DEF TypeOK, VerifyNewTask
  <2>4. verified \subseteq verified' /\ db' = db /\ published' = published
    BY <1>2 DEF VerifyNewTask
  <2>5. {"waitPTT", "keys", "core"} \subseteq P
    BY DEF AfterVerification
  <2>. QED
    BY <2>2, <2>3, <2>4, <2>5 DEF VerifiedInv, OnlyVerifiedLeavesMemory
<1>3. ASSUME NEW r \in Requests, NEW ok \in BOOLEAN, StoreVerified(r, ok) PROVE VerifiedInv'
  <2>1. TaskOf[r] \in verified /\ TaskOf[r] \in TaskIds
    BY <1>3 DEF VerifiedInv, StoreVerified, AfterVerification, ConstantsAssumption
  <2>2. \A q \in Requests : pc'[q] \in P => pc[q] \in P
    BY <1>3 DEF TypeOK, StoreVerified, AfterVerification
  <2>3. \A t \in TaskIds : db'[t] # db[t] => t \in verified
    BY <1>3, <2>1 DEF TypeOK, StoreVerified
  <2>4. UNCHANGED <<verified, published>>
    BY <1>3 DEF StoreVerified
  <2>5. {"waitPTT", "keys", "core"} \subseteq P
    BY DEF AfterVerification
  <2>. QED
    BY <2>2, <2>3, <2>4, <2>5 DEF VerifiedInv, OnlyVerifiedLeavesMemory
<1>4. ASSUME NEW r \in Requests, TaskVerified(r) PROVE VerifiedInv'
  <2>1. PICK stage \in {"waitPTT", "keys", "core"} : pc' = [pc EXCEPT ![r] = stage]
    BY <1>4 DEF TaskVerified, HandleVerified
  <2>2. pc[r] \in P
    BY <1>4 DEF TaskVerified, AfterVerification
  <2>. QED
    BY <1>4, <2>1, <2>2, QuietVerified DEF TypeOK, TaskVerified
<1>5. ASSUME NEW r \in Requests, NEW o \in Finished \cup {"sysError"}, CoreAnswers(r, o)
      PROVE  VerifiedInv'
  <2>1. pc[r] \in P
    BY <1>5 DEF CoreAnswers, AfterVerification
  <2>. QED
    BY <1>5, <2>1, QuietVerified DEF TypeOK, CoreAnswers
<1>6. ASSUME NEW r \in Requests, NEW ok \in BOOLEAN, FinishRead(r, ok) PROVE VerifiedInv'
  <2>1. pc[r] \in P
    BY <1>6 DEF FinishRead, AfterVerification, Finishing
  <2>. QED
    BY <1>6, <2>1, QuietVerified DEF TypeOK, FinishRead
<1>7. ASSUME NEW r \in Requests, NEW ok \in BOOLEAN, FinishDelete(r, ok) PROVE VerifiedInv'
  <2>1. pc[r] \in P
    BY <1>7 DEF FinishDelete, AfterVerification, Finishing
  <2>2. \A t \in TaskIds : db'[t] = db[t] \/ db'[t] = Absent
    BY <1>7 DEF TypeOK, FinishDelete
  <2>3. \A t \in TaskIds : db'[t].src = "own" => db[t].src = "own"
    BY <2>2 DEF Absent
  <2>4. \A q \in Requests : pc'[q] \in P => pc[q] \in P
    BY <1>7, <2>1 DEF TypeOK, FinishDelete
  <2>5. {"waitPTT", "keys", "core"} \subseteq P
    BY DEF AfterVerification
  <2>6. UNCHANGED <<verified, published>>
    BY <1>7 DEF FinishDelete
  <2>. QED
    BY <2>3, <2>4, <2>5, <2>6 DEF VerifiedInv, OnlyVerifiedLeavesMemory
<1>8. ASSUME NEW r \in Requests, NEW ok \in BOOLEAN, FinishStore(r, ok) PROVE VerifiedInv'
  <2>1. pc[r] \in P /\ TaskOf[r] \in verified
    BY <1>8 DEF VerifiedInv, FinishStore, AfterVerification, Finishing
  <2>2. \A t \in TaskIds : db'[t] # db[t] => t \in verified
    BY <1>8, <2>1 DEF TypeOK, FinishStore
  <2>3. \A q \in Requests : pc'[q] \in P => pc[q] \in P
    BY <1>8, <2>1 DEF TypeOK, FinishStore
  <2>4. {"waitPTT", "keys", "core"} \subseteq P
    BY DEF AfterVerification
  <2>5. UNCHANGED <<verified, published>>
    BY <1>8 DEF FinishStore
  <2>. QED
    BY <2>2, <2>3, <2>4, <2>5 DEF VerifiedInv, OnlyVerifiedLeavesMemory
<1>9. ASSUME NEW r \in Requests, TaskFinished(r) PROVE VerifiedInv'
  <2>1. pc[r] \in P /\ TaskOf[r] \in verified
    BY <1>9 DEF VerifiedInv, TaskFinished, AfterVerification, Finishing
  <2>2. \A p \in published' : p \in published \/ p[1] = r
    BY <1>9 DEF TaskFinished
  <2>3. \A q \in Requests : pc'[q] \in P => pc[q] \in P
    BY <1>9, <2>1 DEF TypeOK, TaskFinished
  <2>4. {"waitPTT", "keys", "core"} \subseteq P
    BY DEF AfterVerification
  <2>5. UNCHANGED <<verified, db>>
    BY <1>9 DEF TaskFinished
  <2>. QED
    BY <2>1, <2>2, <2>3, <2>4, <2>5 DEF VerifiedInv, OnlyVerifiedLeavesMemory
<1>10. ASSUME NEW t \in TaskIds, NEW s \in Finished, AddOutsideResult(t, s) PROVE VerifiedInv'
  <2>1. \A u \in TaskIds : db'[u].src = "own" => db[u].src = "own"
    BY <1>10 DEF TypeOK, AddOutsideResult
  <2>. QED
    BY <1>10, <2>1 DEF VerifiedInv, OnlyVerifiedLeavesMemory, AddOutsideResult
<1>11. CASE NewEpoch
  BY <1>11, QuietVerified DEF NewEpoch, tmVars
<1>12. ASSUME NEW from, NEW to, PTTProgress(from, to) PROVE VerifiedInv'
  BY <1>12, QuietVerified DEF PTTProgress, tmVars
<1>13. ASSUME PTTFailed \/ PTTAnswered PROVE VerifiedInv'
  <2>1. \A q \in Requests : pc'[q] \in P => pc[q] \in P
    BY <1>13, OnPTTEndMoves DEF PTTFailed, PTTAnswered, AfterVerification
  <2>. QED
    BY <1>13, <2>1, QuietVerified DEF PTTFailed, PTTAnswered, tmVars
<1>14. CASE Crash
  <2>1. \A q \in Requests : pc'[q] \in P => pc[q] \in P
    BY <1>14 DEF Crash, AfterVerification, Finishing, Ended
  <2>. QED
    BY <1>14, <2>1, QuietVerified DEF Crash
<1>15. CASE UNCHANGED vars
  BY <1>15, QuietVerified DEF vars
<1>16. CASE PTTNext
  BY <1>12, <1>13, <1>16 DEF PTTNext
<1>17. ASSUME NEW r \in Requests, TaskNext(r) PROVE VerifiedInv'
  BY <1>3, <1>4, <1>5, <1>6, <1>7, <1>8, <1>9, <1>17 DEF TaskNext
<1>. QED
  BY <1>1, <1>2, <1>10, <1>11, <1>14, <1>15, <1>16, <1>17 DEF Next

----------------------------------------------------------------------------
(* Verified tasks stay on disk                                             *)

\* As long as no record disappears, no request newly counts as stored and no
\* finish leaves its window, the invariant is kept.
LEMMA QuietDisk ==
    ASSUME VerifiedTaskOnDisk, torn \subseteq torn',
           \A t \in TaskIds : db'[t] = Absent => db[t] = Absent,
           \A q \in Requests : pc'[q] \in OnceStored => pc[q] \in OnceStored,
           \A q \in Requests : pc[q] = "restoring" => pc'[q] = "restoring" \/ TaskOf[q] \in torn'
    PROVE  VerifiedTaskOnDisk'
  BY DEF VerifiedTaskOnDisk, Confirmed

\* Every callback keeps a stored task on disk, outside the finish window.
LEMMA StepDisk ==
    ASSUME ConstantsAssumption, TypeOK, PTTInv, FinishHasData, VerifiedTaskOnDisk, [Next]_vars
    PROVE  VerifiedTaskOnDisk'
<1> USE DEF Goto
<1> DEFINE S == OnceStored
<1>1. ASSUME NEW r \in Requests, StartTaskExecution(r) PROVE VerifiedTaskOnDisk'
  <2>1. "verifying" \notin S /\ "refused" \notin S
    BY DEF OnceStored, Finishing
  <2>. QED
    BY <1>1, <2>1, QuietDisk DEF TypeOK, StartTaskExecution
<1>2. ASSUME NEW r \in Requests, NEW ok \in BOOLEAN, VerifyNewTask(r, ok) PROVE VerifiedTaskOnDisk'
  <2>1. "rejected" \notin S /\ "storing" \notin S
    BY DEF OnceStored, Finishing
  <2>. QED
    BY <1>2, <2>1, QuietDisk DEF TypeOK, VerifyNewTask
<1>3. ASSUME NEW r \in Requests, NEW ok \in BOOLEAN, StoreVerified(r, ok) PROVE VerifiedTaskOnDisk'
  <2>1. CASE ~ok
    <3>1. "storeFailed" \notin S
      BY DEF OnceStored, Finishing
    <3>. QED
      BY <1>3, <2>1, <3>1, QuietDisk DEF TypeOK, StoreVerified
  <2>2. CASE ok
    <3>1. \A q \in Requests : pc'[q] = IF q = r THEN "stored" ELSE pc[q]
      BY <1>3, <2>2 DEF TypeOK, StoreVerified
    <3>2. /\ db'[TaskOf[r]] # Absent
          /\ \A t \in TaskIds : t # TaskOf[r] => db'[t] = db[t]
      BY <1>3, <2>2 DEF ConstantsAssumption, TypeOK, StoreVerified, Absent
    <3>3. pc[r] # "restoring" /\ torn' = torn
      BY <1>3 DEF StoreVerified
    <3>. QED
      BY <3>1, <3>2, <3>3 DEF VerifiedTaskOnDisk, Confirmed
  <2>. QED
    BY <2>1, <2>2
<1>4. ASSUME NEW r \in Requests, TaskVerified(r) PROVE VerifiedTaskOnDisk'
  <2>1. PICK stage \in {"waitPTT", "keys", "core"} : pc' = [pc EXCEPT ![r] = stage]
    BY <1>4 DEF TaskVerified, HandleVerified
  <2>2. pc[r] \in S
    BY <1>4 DEF TaskVerified, OnceStored
  <2>. QED
    BY <1>4, <2>1, <2>2, QuietDisk DEF TypeOK, TaskVerified
<1>5. ASSUME NEW r \in Requests, NEW o \in Finished \cup {"sysError"}, CoreAnswers(r, o)
      PROVE  VerifiedTaskOnDisk'
  <2>1. pc[r] \in S
    BY <1>5 DEF CoreAnswers, OnceStored
  <2>. QED
    BY <1>5, <2>1, QuietDisk DEF TypeOK, CoreAnswers
<1>6. ASSUME NEW r \in Requests, NEW ok \in BOOLEAN, FinishRead(r, ok) PROVE VerifiedTaskOnDisk'
  <2>1. pc[r] \in S
    BY <1>6 DEF FinishRead, OnceStored, Finishing
  <2>. QED
    BY <1>6, <2>1, QuietDisk DEF TypeOK, FinishRead
<1>7. ASSUME NEW r \in Requests, NEW ok \in BOOLEAN, FinishDelete(r, ok) PROVE VerifiedTaskOnDisk'
  <2>1. pc[r] \in S /\ "finishErr" \notin S
    BY <1>7 DEF FinishDelete, OnceStored, Finishing
  <2>2. CASE ~ok
    BY <1>7, <2>1, <2>2, QuietDisk DEF TypeOK, FinishDelete
  <2>3. CASE ok
    <3>1. \A q \in Requests : pc'[q] = IF q = r THEN "restoring" ELSE pc[q]
      BY <1>7, <2>3 DEF TypeOK, FinishDelete
    <3>2. \A t \in TaskIds : t # TaskOf[r] => db'[t] = db[t]
      BY <1>7, <2>3 DEF TypeOK, FinishDelete
    <3>3. torn' = torn
      BY <1>7 DEF FinishDelete
    <3>. QED
      BY <2>1, <3>1, <3>2, <3>3 DEF VerifiedTaskOnDisk, Confirmed
  <2>. QED
    BY <2>2, <2>3
<1>8. ASSUME NEW r \in Requests, NEW ok \in BOOLEAN, FinishStore(r, ok) PROVE VerifiedTaskOnDisk'
  <2>1. pc[r] \in S /\ "finishErr" \notin S
    BY <1>8 DEF FinishStore, OnceStored, Finishing
  <2>2. result[r] \in Finished
    BY <1>8 DEF FinishHasData, FinishStore, Finishing
  <2>3. CASE ~ok
    BY <1>8, <2>1, <2>3, QuietDisk DEF TypeOK, FinishStore
  <2>4. CASE ok
    <3>1. \A q \in Requests : pc'[q] = IF q = r THEN "finished" ELSE pc[q]
      BY <1>8, <2>4 DEF TypeOK, FinishStore
    <3>2. [src |-> read[r].src, status |-> result[r]] # Absent
      BY <2>2 DEF Absent, Finished
    <3>3. /\ db'[TaskOf[r]] # Absent
          /\ \A t \in TaskIds : t # TaskOf[r] => db'[t] = db[t]
      BY <1>8, <2>4, <3>2 DEF ConstantsAssumption, TypeOK, FinishStore
    <3>4. torn' = torn
      BY <1>8, <2>4 DEF FinishStore
    <3>. QED
      BY <2>1, <3>1, <3>3, <3>4 DEF VerifiedTaskOnDisk, Confirmed
  <2>. QED
    BY <2>3, <2>4
<1>9. ASSUME NEW r \in Requests, TaskFinished(r) PROVE VerifiedTaskOnDisk'
  <2>1. pc[r] \in S
    BY <1>9 DEF TaskFinished, OnceStored, Finishing
  <2>. QED
    BY <1>9, <2>1, QuietDisk DEF TypeOK, TaskFinished
<1>10. ASSUME NEW t \in TaskIds, NEW s \in Finished, AddOutsideResult(t, s) PROVE VerifiedTaskOnDisk'
  BY <1>10, QuietDisk DEF TypeOK, AddOutsideResult, Absent
<1>11. CASE NewEpoch
  BY <1>11, QuietDisk DEF NewEpoch, tmVars
<1>12. ASSUME NEW from, NEW to, PTTProgress(from, to) PROVE VerifiedTaskOnDisk'
  BY <1>12, QuietDisk DEF PTTProgress, tmVars
<1>13. ASSUME PTTFailed \/ PTTAnswered PROVE VerifiedTaskOnDisk'
  <2>1. {"waitPTT", "keys"} \subseteq S
    BY DEF OnceStored
  <2>2. \A q \in Requests : pc'[q] \in S => pc[q] \in S
    BY <1>13, <2>1, OnPTTEndMoves DEF PTTFailed, PTTAnswered
  <2>3. \A q \in Requests : pc[q] = "restoring" => pc'[q] = "restoring"
    BY <1>13, OnPTTEndMoves DEF PTTFailed, PTTAnswered
  <2>. QED
    BY <1>13, <2>2, <2>3, QuietDisk DEF PTTFailed, PTTAnswered, tmVars
<1>14. CASE Crash
  <2>1. \A q \in Requests : pc'[q] \in S => pc[q] \in S
    BY <1>14 DEF Crash, OnceStored, Finishing, Ended
  <2>2. \A q \in Requests : pc[q] = "restoring" => TaskOf[q] \in torn'
    BY <1>14 DEF Crash
  <2>. QED
    BY <1>14, <2>1, <2>2, QuietDisk DEF Crash
<1>15. CASE UNCHANGED vars
  BY <1>15, QuietDisk DEF vars
<1>16. CASE PTTNext
  BY <1>12, <1>13, <1>16 DEF PTTNext
<1>17. ASSUME NEW r \in Requests, TaskNext(r) PROVE VerifiedTaskOnDisk'
  BY <1>3, <1>4, <1>5, <1>6, <1>7, <1>8, <1>9, <1>17 DEF TaskNext
<1>. QED
  BY <1>1, <1>2, <1>10, <1>11, <1>14, <1>15, <1>16, <1>17 DEF Next
----------------------------------------------------------------------------
(* The invariant and what follows from it                                  *)

IInv ==
    /\ TypeOK
    /\ FinishHasData
    /\ PTTInv
    /\ PoolMatchesHandlers
    /\ VerifiedInv
    /\ VerifiedTaskOnDisk

\* The inductive invariant holds when the node starts.
LEMMA InitIInv == ConstantsAssumption /\ Init => IInv
<1> SUFFICES ASSUME ConstantsAssumption, Init PROVE IInv
  OBVIOUS
<1>1. PoolMatchesHandlers
  BY DEF Init, PoolMatchesHandlers, Pooled
<1>2. VerifiedInv
  BY DEF Init, VerifiedInv, OnlyVerifiedLeavesMemory, AfterVerification, Finishing, Absent
<1>3. VerifiedTaskOnDisk
  BY DEF Init, VerifiedTaskOnDisk, Confirmed, OnceStored, Finishing
<1>. QED
  BY <1>1, <1>2, <1>3, InitType, InitPTT DEF IInv

\* The inductive invariant is kept by every callback, epoch and restart.
LEMMA StepIInv == ConstantsAssumption /\ IInv /\ [Next]_vars => IInv'
  BY StepType, StepFinishData, StepPTT, StepPool, StepVerified, StepDisk DEF IInv

\* The inductive invariant of the task pipeline holds in every reachable state.
THEOREM Invariance == Spec => []IInv
  BY InitIInv, StepIInv, ConstantsAssumption, PTL DEF Spec

\* Every variable of the task lifecycle keeps its type, whatever the number of
\* requests, epochs and crashes.
THEOREM TypeCorrect == Spec => []TypeOK
<1>1. IInv => TypeOK
  BY DEF IInv
<1>. QED
  BY <1>1, Invariance, PTL

\* TaskManager: the pool holds exactly the requests before TASK_VERIFIED, so
\* the callback of onVerifyTask never evicts another request's entry.
THEOREM PoolCorrect == Spec => []PoolMatchesHandlers
<1>1. IInv => PoolMatchesHandlers
  BY DEF IInv
<1>. QED
  BY <1>1, Invariance, PTL

\* A task queued on PTT_END has a running exchange that will release it.
THEOREM ExchangeCorrect == Spec => []WaitersHavePTT
<1>1. IInv => WaitersHavePTT
  BY DEF IInv, PTTInv
<1>. QED
  BY <1>1, Invariance, PTL

\* At most one deploy waits for the keys of the exchange, and only while
\* _pttInProgress is set: the flag is a lock although it names no owner.
THEOREM OneOwner == Spec => []PTTHasOneOwner
<1>1. IInv => PTTHasOneOwner
  BY DEF IInv, PTTInv
<1>. QED
  BY <1>1, Invariance, PTL

\* Nothing is stored as own, run or published without Ethereum's word for it.
THEOREM VerifiedFirst == Spec => []OnlyVerifiedLeavesMemory
<1>1. IInv => OnlyVerifiedLeavesMemory
  BY DEF IInv, VerifiedInv
<1>. QED
  BY <1>1, Invariance, PTL

\* A verified task's record is missing only inside onFinishTask's window between
\* delete and put, or after that window was cut.
THEOREM StaysOnDisk == Spec => []VerifiedTaskOnDisk
<1>1. IInv => VerifiedTaskOnDisk
  BY DEF IInv
<1>. QED
  BY <1>1, Invariance, PTL

----------------------------------------------------------------------------
(* Results are final and published as stored                               *)

\* Until its finish is stored, a task that arrives once has no finished record;
\* from then on the record is what core answered, and it is published once the
\* handling is done.
Early == {"idle", "waitPTT", "keys", "core", "reading", "deleting", "restoring"} \cup Pooled

OnceInv ==
    /\ \A r \in Requests : SubmittedOnce(TaskOf[r]) =>
          /\ pc[r] \in Early => db[TaskOf[r]].status \notin Finished
          /\ pc[r] = "finished" => db[TaskOf[r]].status = result[r]
    /\ \A p \in published : pc[p[1]] = "done"
    /\ PublishedMatchesDisk

\* A step that touches no record, no result in use and no finished request.
LEMMA QuietOnce ==
    ASSUME OnceInv, TypeOK, UNCHANGED <<db, published>>,
           \A q \in Requests : pc'[q] \in Early => pc[q] \in Early,
           \A q \in Requests : pc'[q] = "finished" => pc[q] = "finished" /\ result'[q] = result[q],
           \A q \in Requests : pc[q] = "done" => pc'[q] = "done"
    PROVE  OnceInv'
<1>1. \A p \in published : p[1] \in Requests
  BY DEF TypeOK
<1>2. \A t \in TaskIds : SubmittedOnce(t)' <=> SubmittedOnce(t)
  BY DEF SubmittedOnce
<1>. QED
  BY <1>1, <1>2 DEF OnceInv, PublishedMatchesDisk, SubmittedOnce

\* A step of request r that changes at most its own record, before r is done.
LEMMA OwnRecordOnce ==
    ASSUME ConstantsAssumption, OnceInv, TypeOK, UNCHANGED published, NEW r \in Requests, NEW stage,
           pc[r] # "done",
           pc' = [pc EXCEPT ![r] = stage],
           \A t \in TaskIds : t # TaskOf[r] => db'[t] = db[t],
           \A q \in Requests : q # r => result'[q] = result[q],
           stage \in Early /\ SubmittedOnce(TaskOf[r]) => db'[TaskOf[r]].status \notin Finished,
           stage = "finished" => db'[TaskOf[r]].status = result'[r]
    PROVE  OnceInv'
<1>1. \A q \in Requests : pc'[q] = IF q = r THEN stage ELSE pc[q]
  BY DEF TypeOK
<1>2. \A q \in Requests : TaskOf[q] \in TaskIds
  BY DEF ConstantsAssumption
<1>3. \A q \in Requests : SubmittedOnce(TaskOf[q]) /\ q # r => TaskOf[q] # TaskOf[r]
  BY DEF SubmittedOnce
<1>4. \A p \in published : p[1] \in Requests /\ p[1] # r
  BY DEF TypeOK, OnceInv
<1>5. \A q \in Requests : SubmittedOnce(TaskOf[q]) =>
          /\ pc'[q] \in Early => db'[TaskOf[q]].status \notin Finished
          /\ pc'[q] = "finished" => db'[TaskOf[q]].status = result'[q]
  <2> SUFFICES ASSUME NEW q \in Requests, SubmittedOnce(TaskOf[q])
               PROVE  /\ pc'[q] \in Early => db'[TaskOf[q]].status \notin Finished
                      /\ pc'[q] = "finished" => db'[TaskOf[q]].status = result'[q]
    OBVIOUS
  <2>1. CASE q = r
    BY <1>1, <2>1
  <2>2. CASE q # r
    <3>1. pc'[q] = pc[q] /\ db'[TaskOf[q]] = db[TaskOf[q]] /\ result'[q] = result[q]
      BY <1>1, <1>2, <1>3, <2>2
    <3>. QED
      BY <3>1 DEF OnceInv
  <2>. QED
    BY <2>1, <2>2
<1>6. \A p \in published : pc'[p[1]] = "done"
  BY <1>1, <1>4 DEF OnceInv
<1>7. \A p \in published : SubmittedOnce(TaskOf[p[1]]) => db'[TaskOf[p[1]]].status = p[2]
  BY <1>2, <1>3, <1>4 DEF OnceInv, PublishedMatchesDisk
<1>. QED
  BY <1>5, <1>6, <1>7 DEF OnceInv, PublishedMatchesDisk, SubmittedOnce

\* Every callback keeps OnceInv: before its finish a task submitted once has no
\* finished record, and after it the record is the one that was published.
LEMMA StepOnce ==
    ASSUME ConstantsAssumption, TypeOK, PTTInv, FinishHasData, OnceInv, [Next]_vars
    PROVE  OnceInv'
<1> USE DEF Goto
<1>1. ASSUME NEW r \in Requests, StartTaskExecution(r) PROVE OnceInv'
  <2>1. pc[r] \in Early
    BY <1>1 DEF StartTaskExecution, Early
  <2>. QED
    BY <1>1, <2>1, QuietOnce DEF TypeOK, StartTaskExecution
<1>2. ASSUME NEW r \in Requests, NEW ok \in BOOLEAN, VerifyNewTask(r, ok) PROVE OnceInv'
  <2>1. pc[r] \in Early
    BY <1>2 DEF VerifyNewTask, Early, Pooled
  <2>. QED
    BY <1>2, <2>1, QuietOnce DEF TypeOK, VerifyNewTask
<1>3. ASSUME NEW r \in Requests, NEW ok \in BOOLEAN, StoreVerified(r, ok) PROVE OnceInv'
  <2> DEFINE stage == IF ok THEN "stored" ELSE "storeFailed"
  <2>1. pc[r] \in Early /\ pc[r] # "done" /\ stage # "finished"
    BY <1>3 DEF StoreVerified, Early, Pooled
  <2>2. pc' = [pc EXCEPT ![r] = stage] /\ UNCHANGED <<result, published>>
    BY <1>3 DEF StoreVerified
  <2>3. \A t \in TaskIds : t # TaskOf[r] => db'[t] = db[t]
    BY <1>3 DEF TypeOK, StoreVerified
  <2>4. SubmittedOnce(TaskOf[r]) => db'[TaskOf[r]].status \notin Finished
    BY <1>3, <2>1 DEF ConstantsAssumption, TypeOK, StoreVerified, OnceInv, Finished
  <2>. QED
    BY <2>1, <2>2, <2>3, <2>4, OwnRecordOnce
<1>4. ASSUME NEW r \in Requests, TaskVerified(r) PROVE OnceInv'
  <2>1. PICK stage \in {"waitPTT", "keys", "core"} : pc' = [pc EXCEPT ![r] = stage]
    BY <1>4 DEF TaskVerified, HandleVerified
  <2>2. pc[r] \in Early /\ pc[r] # "done"
    BY <1>4 DEF TaskVerified, Early, Pooled
  <2>. QED
    BY <1>4, <2>1, <2>2, QuietOnce DEF TypeOK, TaskVerified
<1>5. ASSUME NEW r \in Requests, NEW o \in Finished \cup {"sysError"}, CoreAnswers(r, o)
      PROVE  OnceInv'
  <2>1. pc[r] \in Early
    BY <1>5 DEF CoreAnswers, Early
  <2>. QED
    BY <1>5, <2>1, QuietOnce DEF TypeOK, CoreAnswers
<1>6. ASSUME NEW r \in Requests, NEW ok \in BOOLEAN, FinishRead(r, ok) PROVE OnceInv'
  <2>1. pc[r] \in Early
    BY <1>6 DEF FinishRead, Early
  <2>. QED
    BY <1>6, <2>1, QuietOnce DEF TypeOK, FinishRead
<1>7. ASSUME NEW r \in Requests, NEW ok \in BOOLEAN, FinishDelete(r, ok) PROVE OnceInv'
  <2> DEFINE stage == IF ok THEN "restoring" ELSE "finishErr"
  <2>1. pc[r] \in Early /\ pc[r] # "done" /\ stage # "finished"
    BY <1>7 DEF FinishDelete, Early
  <2>2. pc' = [pc EXCEPT ![r] = stage] /\ UNCHANGED <<result, published>>
    BY <1>7 DEF FinishDelete
  <2>3. \A t \in TaskIds : t # TaskOf[r] => db'[t] = db[t]
    BY <1>7 DEF TypeOK, FinishDelete
  <2>4. SubmittedOnce(TaskOf[r]) => db'[TaskOf[r]].status \notin Finished
    BY <1>7, <2>1 DEF ConstantsAssumption, TypeOK, FinishDelete, OnceInv, Finished, Absent
  <2>. QED
    BY <2>1, <2>2, <2>3, <2>4, OwnRecordOnce
<1>8. ASSUME NEW r \in Requests, NEW ok \in BOOLEAN, FinishStore(r, ok) PROVE OnceInv'
  <2> DEFINE stage == IF ok THEN "finished" ELSE "finishErr"
  <2>1. stage \notin Early /\ pc[r] # "done"
    BY <1>8 DEF FinishStore, Early, Pooled
  <2>2. pc' = [pc EXCEPT ![r] = stage] /\ UNCHANGED <<result, published>>
    BY <1>8 DEF FinishStore
  <2>3. \A t \in TaskIds : t # TaskOf[r] => db'[t] = db[t]
    BY <1>8 DEF TypeOK, FinishStore
  <2>4. stage = "finished" => db'[TaskOf[r]].status = result'[r]
    BY <1>8 DEF ConstantsAssumption, TypeOK, FinishStore
  <2>. QED
    BY <2>1, <2>2, <2>3, <2>4, OwnRecordOnce
<1>9. ASSUME NEW r \in Requests, TaskFinished(r) PROVE OnceInv'
  <2>1. \A q \in Requests : pc'[q] = IF q = r THEN "done" ELSE pc[q]
    BY <1>9 DEF TypeOK, TaskFinished
  <2>2. pc[r] = "finished" /\ "done" \notin Early
    BY <1>9 DEF TaskFinished, Early, Pooled
  <2>3. \A q \in Requests : q # r => result'[q] = result[q]
    BY <1>9 DEF TypeOK, TaskFinished
  <2>4. db' = db /\ published' = published \cup {<<r, result[r]>>}
    BY <1>9 DEF TaskFinished
  <2>5. \A p \in published : p[1] \in Requests
    BY DEF TypeOK
  <2>6. \A p \in published' : pc'[p[1]] = "done"
    BY <2>1, <2>4, <2>5 DEF OnceInv
  <2>7. \A p \in published' : SubmittedOnce(TaskOf[p[1]]) => db'[TaskOf[p[1]]].status = p[2]
    BY <2>2, <2>4 DEF OnceInv, PublishedMatchesDisk
  <2>8. \A q \in Requests : SubmittedOnce(TaskOf[q]) =>
          /\ pc'[q] \in Early => db'[TaskOf[q]].status \notin Finished
          /\ pc'[q] = "finished" => db'[TaskOf[q]].status = result'[q]
    BY <2>1, <2>2, <2>3, <2>4 DEF OnceInv
  <2>. QED
    BY <2>6, <2>7, <2>8 DEF OnceInv, PublishedMatchesDisk, SubmittedOnce
<1>10. ASSUME NEW t \in TaskIds, NEW s \in Finished, AddOutsideResult(t, s) PROVE OnceInv'
  <2>1. \A u \in TaskIds : SubmittedOnce(u) => db'[u] = db[u]
    BY <1>10 DEF TypeOK, AddOutsideResult, SubmittedOnce
  <2>2. UNCHANGED <<pc, result, published>>
    BY <1>10 DEF AddOutsideResult
  <2>3. \A q \in Requests : TaskOf[q] \in TaskIds
    BY DEF ConstantsAssumption
  <2>4. \A p \in published : p[1] \in Requests
    BY DEF TypeOK
  <2>. QED
    BY <2>1, <2>2, <2>3, <2>4 DEF OnceInv, PublishedMatchesDisk, SubmittedOnce
<1>11. CASE NewEpoch
  BY <1>11, QuietOnce DEF NewEpoch, tmVars
<1>12. ASSUME NEW from, NEW to, PTTProgress(from, to) PROVE OnceInv'
  BY <1>12, QuietOnce DEF PTTProgress, tmVars
<1>13. ASSUME PTTFailed \/ PTTAnswered PROVE OnceInv'
  <2>1. {"waitPTT", "keys"} \subseteq Early
    BY DEF Early
  <2>2. \A q \in Requests : /\ pc'[q] \in Early => pc[q] \in Early
                            /\ pc'[q] = "finished" => pc[q] = "finished"
                            /\ pc[q] = "done" => pc'[q] = "done"
    BY <1>13, <2>1, OnPTTEndMoves DEF PTTFailed, PTTAnswered
  <2>3. UNCHANGED <<db, published, result>>
    BY <1>13 DEF PTTFailed, PTTAnswered, tmVars
  <2>4. \A q \in Requests : pc'[q] \in Early => pc[q] \in Early
    BY <2>2
  <2>5. \A q \in Requests :
          pc'[q] = "finished" => pc[q] = "finished" /\ result'[q] = result[q]
    BY <2>2, <2>3
  <2>6. \A q \in Requests : pc[q] = "done" => pc'[q] = "done"
    BY <2>2
  <2>. QED
    BY <2>3, <2>4, <2>5, <2>6, QuietOnce
<1>14. CASE Crash
  <2>1. \A q \in Requests : /\ pc'[q] \in Early => pc[q] \in Early
                            /\ pc'[q] # "finished"
                            /\ pc[q] = "done" => pc'[q] = "done"
    BY <1>14 DEF Crash, Ended, Early, Pooled
  <2>2. UNCHANGED <<db, published>>
    BY <1>14 DEF Crash
  <2>3. \A q \in Requests : pc'[q] \in Early => pc[q] \in Early
    BY <2>1
  <2>4. \A q \in Requests :
          pc'[q] = "finished" => pc[q] = "finished" /\ result'[q] = result[q]
    BY <2>1
  <2>5. \A q \in Requests : pc[q] = "done" => pc'[q] = "done"
    BY <2>1
  <2>. QED
    BY <2>2, <2>3, <2>4, <2>5, QuietOnce
<1>15. CASE UNCHANGED vars
  BY <1>15, QuietOnce DEF vars
<1>16. CASE PTTNext
  BY <1>12, <1>13, <1>16 DEF PTTNext
<1>17. ASSUME NEW r \in Requests, TaskNext(r) PROVE OnceInv'
  BY <1>3, <1>4, <1>5, <1>6, <1>7, <1>8, <1>9, <1>17 DEF TaskNext
<1>. QED
  BY <1>1, <1>2, <1>10, <1>11, <1>14, <1>15, <1>16, <1>17 DEF Next

\* OnceInv holds in every reachable state.
LEMMA OnceInvariance == Spec => []OnceInv
<1>1. ConstantsAssumption /\ Init => OnceInv
  BY DEF ConstantsAssumption, Init, OnceInv, PublishedMatchesDisk, Absent, Finished
<1>2. ConstantsAssumption /\ IInv /\ OnceInv /\ [Next]_vars => OnceInv'
  BY StepOnce DEF IInv
<1>. QED
  BY <1>1, <1>2, Invariance, ConstantsAssumption, PTL DEF Spec

\* The status the network was told is the status on disk, restarts included.
THEOREM PublishedStays == Spec => []PublishedMatchesDisk
<1>1. OnceInv => PublishedMatchesDisk
  BY DEF OnceInv
<1>. QED
  BY <1>1, OnceInvariance, PTL

\* No step of TaskManager replaces or drops a finished result.
THEOREM FinalResults == Spec => FinishedIsFinal
<1> DEFINE Keeps == \A t \in TaskIds :
                       SubmittedOnce(t) /\ db[t].status \in Finished => db'[t] = db[t]
<1>1. ASSUME ConstantsAssumption, IInv, OnceInv, [Next]_vars PROVE [Keeps]_vars
  <2> SUFFICES ASSUME NEW t \in TaskIds, SubmittedOnce(t), db[t].status \in Finished
               PROVE  db'[t] = db[t]
    OBVIOUS
  <2>1. TypeOK
    BY <1>1 DEF IInv
  <2>2. ASSUME NEW r \in Requests, pc[r] \in Early PROVE TaskOf[r] # t
    BY <1>1, <2>2 DEF OnceInv
  <2>3. ASSUME NEW r \in Requests, NEW ok \in BOOLEAN, StoreVerified(r, ok)
        PROVE  db'[t] = db[t]
    BY <2>1, <2>2, <2>3 DEF TypeOK, StoreVerified, Early, Pooled
  <2>4. ASSUME NEW r \in Requests, NEW ok \in BOOLEAN, FinishDelete(r, ok)
        PROVE  db'[t] = db[t]
    BY <2>1, <2>2, <2>4 DEF TypeOK, FinishDelete, Early
  <2>5. ASSUME NEW r \in Requests, NEW ok \in BOOLEAN, FinishStore(r, ok)
        PROVE  db'[t] = db[t]
    BY <2>1, <2>2, <2>5 DEF TypeOK, FinishStore, Early
  <2>6. ASSUME NEW u \in TaskIds, NEW s \in Finished, AddOutsideResult(u, s)
        PROVE  db'[t] = db[t]
    BY <2>1, <2>6 DEF TypeOK, AddOutsideResult, SubmittedOnce
  <2>7. CASE UNCHANGED vars
    BY <2>7 DEF vars
  <2>8. CASE Next
    BY <2>3, <2>4, <2>5, <2>6, <2>8
       DEF Next, TaskNext, PTTNext, StartTaskExecution, VerifyNewTask, TaskVerified,
           CoreAnswers, FinishRead, TaskFinished, NewEpoch, PTTProgress, PTTFailed,
           PTTAnswered, Crash, tmVars
  <2>. QED
    BY <1>1, <2>7, <2>8
<1>. QED
  BY <1>1, Invariance, OnceInvariance, ConstantsAssumption, PTL DEF Spec, FinishedIsFinal

=============================================================================
