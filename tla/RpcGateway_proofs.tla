------------------------- MODULE RpcGateway_proofs -------------------------
(***************************************************************************)
(* Theorems about RpcGateway: a call is answered with what it asked for,   *)
(* and a status it is told is one its task has had, for any number of      *)
(* calls and tasks, however often a task is submitted again, and for every *)
(* loss and reordering of messages.                                        *)
(***************************************************************************)
EXTENDS RpcGateway, SequenceTheorems, TLAPS

USE DEF taskVars

\* What a call has asked is fixed once it is under way, and it has no answer
\* before; only a status request looks at the gateway's own results.
CallInv ==
    \A r \in Requests :
        /\ req[r].pc = "idle" => req[r].answer = NoAnswer
        /\ req[r].pc = "local" => req[r].method = "status"

\* A status that the worker's record of its task has had.
Reached(a) ==
    /\ a.value \in {"INPROGRESS"} \union ended[a.of]
    /\ runs[a.of] > 0
    /\ runs[a.of] = 1 => /\ tasks[a.of] \in {a.value} \union Final
                         /\ a.value \in Final => tasks[a.of] = a.value

\* The topic of an answer says what it is an answer to.
MessageOK(m) ==
    /\ req[m.for].pc # "idle"
    /\ \/ m.topic = WorkerTopic
       \/ m.topic = <<"key", m.for>> /\ m.body.kind = "key" /\ m.body.of = m.for
       \/ /\ m.body.of \in Tasks /\ m.topic = <<"status", m.body.of>>
          /\ m.body.kind = "status" /\ Reached(m.body)

MessageInv == \A m \in net : MessageOK(m)

\* The requests before core are for keys.
PipeInv == \A i \in DOMAIN pipe : req[pipe[i]].method = "key" /\ req[pipe[i]].pc # "idle"

\* A handler listens to the topic of its call.
SubscriptionOK(s) ==
    /\ req[s[2]].method \in {"key", "status"} /\ req[s[2]].pc # "idle"
    /\ s[1] = TargetTopic(s[2])

SubsInv == \A s \in subs : SubscriptionOK(s)

\* The gateway's results are those of the worker.
ResultInv == \A t \in Tasks : results[t] \in Final => results[t] \in ended[t]

\* A task taken once has ended with nothing but the status it has.
TaskInv ==
    \A t \in Tasks :
        /\ runs[t] = 0 => tasks[t] = "unknown" /\ ended[t] = {}
        /\ tasks[t] = "unknown" => runs[t] = 0
        /\ tasks[t] \in Final => tasks[t] \in ended[t]
        /\ runs[t] = 1 => ended[t] = {tasks[t]} \intersect Final

IInv ==
    /\ TypeOK
    /\ CallInv
    /\ MessageInv
    /\ PipeInv
    /\ SubsInv
    /\ ResultInv
    /\ TaskInv
    /\ AnswerMatchesRequest
    /\ StatusReached
-----------------------------------------------------------------------------
(* What every step keeps, and what follows from it.                        *)

Entry == [method: Methods, task: Tasks, answer: Answers, fate: Fates,
          pc: {"idle", "dispatch", "local", "subscribed", "waiting", "done"}]

\* A call under way asks what it asked.
CallsKept ==
    \A r \in Requests : req[r].pc # "idle" =>
        /\ req'[r].method = req[r].method /\ req'[r].task = req[r].task
        /\ req'[r].pc # "idle"

\* What a task has ended with is not forgotten, and one that was taken once
\* keeps its last status or ends.
TasksKept ==
    /\ TaskInv'
    /\ \A t \in Tasks :
        /\ runs[t] \in Nat /\ runs'[t] \in Nat /\ runs[t] <= runs'[t]
        /\ ended[t] \subseteq ended'[t] /\ ended[t] \subseteq Final
        /\ runs[t] = 1 /\ runs'[t] = 1 =>
              /\ tasks[t] \in Final => tasks'[t] = tasks[t]
              /\ tasks[t] = "INPROGRESS" => tasks'[t] \in {"INPROGRESS"} \union Final

\* An answer to the call r.
Fits(r, a) ==
    /\ req[r].pc # "idle"
    /\ a.kind = "key" => req[r].method = "key" /\ a.of = r
    /\ a.kind = "status" => /\ req[r].method = "status" /\ a.of = req[r].task
                            /\ Reached(a)
    /\ a.kind = "result" => req[r].method = "result" /\ a.of = req[r].task
    /\ a.kind = "sent" => req[r].method \in {"deploy", "compute"} /\ a.of = req[r].task

LEMMA ReachedKept ==
    ASSUME TasksKept, NEW a, a.of \in Tasks, Reached(a)
    PROVE  Reached(a)'
<1>. DEFINE t == a.of
<1>1. /\ runs[t] \in Nat /\ runs'[t] \in Nat /\ runs[t] <= runs'[t]
      /\ ended[t] \subseteq ended'[t] /\ ended[t] \subseteq Final
      /\ runs[t] = 1 /\ runs'[t] = 1 =>
            /\ tasks[t] \in Final => tasks'[t] = tasks[t]
            /\ tasks[t] = "INPROGRESS" => tasks'[t] \in {"INPROGRESS"} \union Final
  BY DEF TasksKept
<1>2. /\ a.value \in {"INPROGRESS"} \union ended[t]
      /\ runs[t] > 0
      /\ runs[t] = 1 => /\ tasks[t] \in {a.value} \union Final
                        /\ a.value \in Final => tasks[t] = a.value
  BY DEF Reached
<1>3. runs'[t] > 0 /\ (runs'[t] = 1 => runs[t] = 1)
  BY <1>1, <1>2
<1>4. ASSUME runs'[t] = 1
      PROVE  /\ tasks'[t] \in {a.value} \union Final
             /\ a.value \in Final => tasks'[t] = a.value
  <2>1. runs[t] = 1
    BY <1>3, <1>4
  <2>2. CASE tasks[t] \in Final
    BY <1>1, <1>2, <1>4, <2>1, <2>2
  <2>3. CASE tasks[t] \notin Final
    <3>1. tasks[t] = a.value /\ a.value \notin Final
      BY <1>2, <2>1, <2>3
    <3>2. a.value \in {"INPROGRESS"} \union ended[t]
      BY <1>2
    <3>. QED
      BY <1>1, <1>2, <1>4, <2>1, <3>1, <3>2
  <2>. QED
    BY <2>2, <2>3
<1>. QED
  BY <1>1, <1>2, <1>3, <1>4 DEF Reached

LEMMA TasksSame ==
    ASSUME IInv, UNCHANGED taskVars
    PROVE  TasksKept
<1>1. TaskInv'
  BY DEF IInv, TaskInv
<1>2. \A t \in Tasks : runs[t] \in Nat /\ ended[t] \subseteq Final
  BY DEF IInv, TypeOK
<1>. QED
  BY <1>1, <1>2 DEF TasksKept

LEMMA MessageKept ==
    ASSUME CallsKept, TasksKept, NEW m, m.for \in Requests, MessageOK(m)
    PROVE  MessageOK(m)'
<1>1. req'[m.for].pc # "idle"
  BY DEF CallsKept, MessageOK
<1>2. m.body.of \in Tasks /\ Reached(m.body) => Reached(m.body)'
  BY ReachedKept
<1>. QED
  BY <1>1, <1>2 DEF MessageOK

LEMMA SubscriptionKept ==
    ASSUME CallsKept, NEW s, s[2] \in Requests, SubscriptionOK(s)
    PROVE  SubscriptionOK(s)'
  BY DEF CallsKept, SubscriptionOK, TargetTopic

LEMMA Preserved ==
    ASSUME IInv, TypeOK', CallsKept, TasksKept,
           \A m \in net' : m \in net \/ (m.for \in Requests /\ MessageOK(m)),
           \A i \in DOMAIN pipe' : /\ pipe'[i] \in Requests
                                   /\ req[pipe'[i]].method = "key" /\ req[pipe'[i]].pc # "idle",
           \A s \in subs' : s \in subs \/ (s[2] \in Requests /\ SubscriptionOK(s)),
           \A t \in Tasks : results'[t] = results[t] \/ (results'[t] \in Final => results'[t] \in ended'[t]),
           \A r \in Requests : /\ req'[r].pc = "idle" => req'[r].answer = NoAnswer
                               /\ req'[r].pc = "local" => req'[r].method = "status"
                               /\ req'[r].answer = req[r].answer \/ Fits(r, req'[r].answer)
    PROVE  IInv'
<1>1. CallInv'
  BY DEF CallInv
<1>2. MessageInv'
  BY MessageKept DEF IInv, MessageInv, TypeOK
<1>3. PipeInv'
  BY DEF PipeInv, CallsKept
<1>4. SubsInv'
  <2>1. \A s \in subs : s[2] \in Requests
    BY DEF IInv, TypeOK
  <2>. QED
    BY <2>1, SubscriptionKept DEF IInv, SubsInv
<1>5. ResultInv'
  BY DEF IInv, TypeOK, ResultInv, TasksKept
<1>6. ASSUME NEW r \in Requests
      PROVE  LET a == req'[r].answer IN
             /\ a.kind = "key" => req'[r].method = "key" /\ a.of = r
             /\ a.kind = "status" => /\ req'[r].method = "status" /\ a.of = req'[r].task
                                     /\ a.value \in {"INPROGRESS"} \union ended'[a.of]
                                     /\ runs'[a.of] > 0
                                     /\ runs'[a.of] = 1 =>
                                          /\ tasks'[a.of] \in {a.value} \union Final
                                          /\ a.value \in Final => tasks'[a.of] = a.value
             /\ a.kind = "result" => req'[r].method = "result" /\ a.of = req'[r].task
             /\ a.kind = "sent" => req'[r].method \in {"deploy", "compute"} /\ a.of = req'[r].task
  <2>1. PICK a : a = req'[r].answer
    OBVIOUS
  <2>2. CASE req[r].pc = "idle"
    <3>1. a = NoAnswer
      BY <2>1, <2>2 DEF IInv, CallInv, Fits
    <3>. QED
      BY <2>1, <3>1 DEF NoAnswer
  <2>3. CASE req[r].pc # "idle"
    <3>1. Fits(r, a)
      BY <2>1, <2>3 DEF IInv, AnswerMatchesRequest, StatusReached, Fits, Reached
    <3>2. req'[r].method = req[r].method /\ req'[r].task = req[r].task /\ req[r].task \in Tasks
      BY <2>3 DEF CallsKept, IInv, TypeOK
    <3>3. a.kind = "status" => Reached(a)'
      BY <3>1, <3>2, ReachedKept DEF Fits
    <3>. QED
      BY <2>1, <3>1, <3>2, <3>3 DEF Fits, Reached
  <2>. QED
    BY <2>2, <2>3
<1>7. AnswerMatchesRequest'
  BY <1>6 DEF AnswerMatchesRequest
<1>8. StatusReached'
  BY <1>6 DEF StatusReached
<1>. QED
  BY <1>1, <1>2, <1>3, <1>4, <1>5, <1>7, <1>8 DEF IInv, TasksKept

-----------------------------------------------------------------------------
(* What the steps do to a call.                                            *)

LEMMA EntryTypes == TypeOK => req \in [Requests -> Entry]
  BY DEF TypeOK, Entry

\* An answer settles a call that has none.
LEMMA AnswerStep ==
    ASSUME TypeOK, NEW r \in Requests, NEW body \in Answers, Answer(r, body)
    PROVE  /\ req' \in [Requests -> Entry]
           /\ \A q \in Requests \ {r} : req'[q] = req[q]
           /\ req'[r].method = req[r].method /\ req'[r].task = req[r].task
           /\ req'[r].pc = "done"
           /\ req'[r].answer = IF req[r].pc = "done" THEN req[r].answer ELSE body
<1>1. req \in [Requests -> Entry]
  BY EntryTypes
<1>2. /\ Answered(req[r], body) \in Entry
      /\ Answered(req[r], body).method = req[r].method
      /\ Answered(req[r], body).task = req[r].task
      /\ Answered(req[r], body).pc = "done"
      /\ Answered(req[r], body).answer = IF req[r].pc = "done" THEN req[r].answer ELSE body
  BY <1>1 DEF Answered, Entry
<1>3. req' = [req EXCEPT ![r] = Answered(req[r], body)]
  BY DEF Answer
<1>. QED
  BY <1>1, <1>2, <1>3

LEMMA GotoStep ==
    ASSUME TypeOK, NEW r \in Requests, NEW s \in {"local", "subscribed", "waiting"}, Goto(r, s)
    PROVE  /\ req' \in [Requests -> Entry]
           /\ \A q \in Requests \ {r} : req'[q] = req[q]
           /\ req'[r].method = req[r].method /\ req'[r].task = req[r].task
           /\ req'[r].pc = s /\ req'[r].answer = req[r].answer
<1>1. req \in [Requests -> Entry]
  BY EntryTypes
<1>2. /\ [req[r] EXCEPT !.pc = s] \in Entry
      /\ [req[r] EXCEPT !.pc = s].method = req[r].method
      /\ [req[r] EXCEPT !.pc = s].task = req[r].task
      /\ [req[r] EXCEPT !.pc = s].answer = req[r].answer
      /\ [req[r] EXCEPT !.pc = s].pc = s
  BY <1>1 DEF Entry
<1>3. req' = [req EXCEPT ![r] = [req[r] EXCEPT !.pc = s]]
  BY DEF Goto
<1>. QED
  BY <1>1, <1>2, <1>3

\* A call that is given up is only marked.
LEMMA ForgetStep ==
    ASSUME TypeOK, NEW r \in Requests, NEW fate \in Fates, Forget(r, fate)
    PROVE  /\ req' \in [Requests -> Entry]
           /\ \A q \in Requests : /\ req'[q].method = req[q].method
                                  /\ req'[q].task = req[q].task
                                  /\ req'[q].pc = req[q].pc
                                  /\ req'[q].answer = req[q].answer
<1>1. req \in [Requests -> Entry]
  BY EntryTypes
<1>. DEFINE f == IF req[r].pc = "done" THEN req[r].fate ELSE fate
<1>2. f \in Fates
  BY <1>1 DEF Entry
<1>3. req' = [req EXCEPT ![r] = [req[r] EXCEPT !.fate = f]]
  BY DEF Forget
<1>. HIDE DEF f
<1>4. /\ [req[r] EXCEPT !.fate = f] \in Entry
      /\ [req[r] EXCEPT !.fate = f].method = req[r].method
      /\ [req[r] EXCEPT !.fate = f].task = req[r].task
      /\ [req[r] EXCEPT !.fate = f].answer = req[r].answer
      /\ [req[r] EXCEPT !.fate = f].pc = req[r].pc
  BY <1>1, <1>2 DEF Entry
<1>. QED
  BY <1>1, <1>3, <1>4

LEMMA PipeRange ==
    ASSUME IInv
    PROVE  \A i \in DOMAIN pipe : /\ pipe[i] \in Requests
                                  /\ req[pipe[i]].method = "key" /\ req[pipe[i]].pc # "idle"
<1>1. \A i \in DOMAIN pipe : pipe[i] \in Requests
  BY ElementOfSeq, LenProperties DEF IInv, TypeOK
<1>. QED
  BY <1>1 DEF IInv, PipeInv

LEMMA AnswerTypes ==
    /\ NoAnswer \in Answers /\ ServerError \in Answers
    /\ \A t \in Tasks, v \in TaskStates \union {"none", "yes", "no"}, k \in {"status", "result", "sent"} :
          [kind |-> k, of |-> t, value |-> v] \in Answers
    /\ \A r \in Requests : [kind |-> "key", of |-> r, value |-> "none"] \in Answers
  BY DEF NoAnswer, ServerError, Answers

\* What a step of one call leaves to show: the others stay as they are.
LEMMA OneCall ==
    ASSUME IInv, NEW r \in Requests, TypeOK',
           \A q \in Requests \ {r} : req'[q] = req[q],
           req[r].pc # "idle" => /\ req'[r].method = req[r].method
                                 /\ req'[r].task = req[r].task,
           req'[r].pc # "idle",
           req'[r].pc = "local" => req'[r].method = "status",
           req'[r].answer = req[r].answer \/ Fits(r, req'[r].answer),
           UNCHANGED <<pipe, taskVars, results>>,
           \A m \in net' : m \in net \/ (m.for \in Requests /\ MessageOK(m)),
           \A s \in subs' : s \in subs \/ (s[2] \in Requests /\ SubscriptionOK(s))
    PROVE  IInv'
<1>1. CallsKept
  BY DEF CallsKept
<1>2. TasksKept
  BY TasksSame
<1>3. \A q \in Requests : /\ req'[q].pc = "idle" => req'[q].answer = NoAnswer
                          /\ req'[q].pc = "local" => req'[q].method = "status"
                          /\ req'[q].answer = req[q].answer \/ Fits(q, req'[q].answer)
  BY DEF IInv, CallInv
<1>4. \A i \in DOMAIN pipe' : /\ pipe'[i] \in Requests
                              /\ req[pipe'[i]].method = "key" /\ req[pipe'[i]].pc # "idle"
  BY PipeRange
<1>. QED
  BY <1>1, <1>2, <1>3, <1>4, Preserved
-----------------------------------------------------------------------------
(* The gateway.                                                            *)

LEMMA TopicTypes ==
    ASSUME TypeOK, NEW r \in Requests
    PROVE  /\ TargetTopic(r) \in Topics
           /\ req[r].method = "key" => TargetTopic(r) = <<"key", r>>
           /\ req[r].method = "status" => TargetTopic(r) = <<"status", req[r].task>>
           /\ req[r].task \in Tasks
  BY DEF TypeOK, TargetTopic, Topics

\* A status the task has ended with has been reached, whether the worker's record
\* or the gateway's store has it.
LEMMA EndedReached ==
    ASSUME IInv, NEW a, a.of \in Tasks, a.value \in ended[a.of]
    PROVE  Reached(a)
<1>1. runs[a.of] \in Nat /\ ended[a.of] # {}
  BY DEF IInv, TypeOK
<1>2. /\ runs[a.of] = 0 => ended[a.of] = {}
      /\ runs[a.of] = 1 => ended[a.of] = {tasks[a.of]} \intersect Final
  BY DEF IInv, TaskInv
<1>3. runs[a.of] > 0
  BY <1>1, <1>2
<1>4. runs[a.of] = 1 => a.value = tasks[a.of] /\ a.value \in Final
  BY <1>2
<1>. QED
  BY <1>3, <1>4 DEF Reached

LEMMA GatewayInduction ==
    ASSUME IInv, NEW r \in Requests,
           \/ \E k \in Methods, t \in Tasks : Call(r, k, t)
           \/ GatewayStep(r) \/ GunzipFails(r)
    PROVE  IInv'
<1>0. TypeOK /\ req \in [Requests -> Entry] /\ req[r].task \in Tasks
  BY EntryTypes, TopicTypes DEF IInv
<1>1. ASSUME NEW k \in Methods, NEW t \in Tasks, Call(r, k, t)
      PROVE  IInv'
  <2>1. req' = [req EXCEPT ![r] = [req[r] EXCEPT !.method = k, !.task = t, !.pc = "dispatch"]]
    BY <1>0, <1>1 DEF Call, Proxy, Entry
  <2>2. /\ [req[r] EXCEPT !.method = k, !.task = t, !.pc = "dispatch"] \in Entry
        /\ [req[r] EXCEPT !.method = k, !.task = t, !.pc = "dispatch"].pc = "dispatch"
        /\ [req[r] EXCEPT !.method = k, !.task = t, !.pc = "dispatch"].answer = req[r].answer
    BY <1>0 DEF Entry
  <2>3. /\ req' \in [Requests -> Entry] /\ \A q \in Requests \ {r} : req'[q] = req[q]
        /\ req'[r].pc = "dispatch" /\ req'[r].answer = req[r].answer
        /\ req[r].pc = "idle"
        /\ UNCHANGED <<subs, net, self, pipe, core, taskVars, results>>
    BY <1>0, <1>1, <2>1, <2>2 DEF Call
  <2>4. TypeOK'
    BY <1>0, <2>3 DEF TypeOK, Entry
  <2>. QED
    BY <2>3, <2>4, OneCall
<1>2. CASE RouteNonBlocking(r)
  <2>1. PICK v \in {"yes", "no"} : Answer(r, [kind |-> "sent", of |-> req[r].task, value |-> v])
    BY <1>2 DEF RouteNonBlocking
  <2>2. /\ req[r].pc = "dispatch" /\ req[r].method \in {"deploy", "compute"}
        /\ net' \subseteq net \union {RoutedMsg(r)}
        /\ UNCHANGED <<subs, self, pipe, core, taskVars, results>>
    BY <1>2 DEF RouteNonBlocking, Publish
  <2>3. [kind |-> "sent", of |-> req[r].task, value |-> v] \in Answers
    BY <1>0, AnswerTypes
  <2>4. /\ req' \in [Requests -> Entry] /\ \A q \in Requests \ {r} : req'[q] = req[q]
        /\ req'[r].method = req[r].method /\ req'[r].task = req[r].task /\ req'[r].pc = "done"
        /\ req'[r].answer = [kind |-> "sent", of |-> req[r].task, value |-> v]
    BY <1>0, <2>1, <2>2, <2>3, AnswerStep
  <2>5. /\ RoutedMsg(r).for = r /\ RoutedMsg(r).topic = WorkerTopic /\ RoutedMsg(r).body \in Answers
    BY AnswerTypes DEF RoutedMsg
  <2>6. TypeOK'
    BY <1>0, <2>2, <2>4, <2>5 DEF TypeOK, Entry
  <2>7. Fits(r, req'[r].answer)
    BY <2>2, <2>4 DEF Fits
  <2>8. MessageOK(RoutedMsg(r))
    BY <2>2, <2>5 DEF MessageOK
  <2>9. \A m \in net' : m \in net \/ (m.for \in Requests /\ MessageOK(m))
    BY <2>2, <2>5, <2>8
  <2>. QED
    BY <2>2, <2>4, <2>6, <2>7, <2>9, OneCall
<1>3. CASE GunzipFails(r)
  <2>1. /\ req[r].pc = "dispatch" /\ Forget(r, "refused")
        /\ UNCHANGED <<subs, net, self, pipe, core, taskVars, results>>
    BY <1>3 DEF GunzipFails
  <2>2. /\ req' \in [Requests -> Entry]
        /\ \A q \in Requests : /\ req'[q].method = req[q].method /\ req'[q].task = req[q].task
                               /\ req'[q].pc = req[q].pc /\ req'[q].answer = req[q].answer
    BY <1>0, <2>1, ForgetStep DEF Fates
  <2>3. TypeOK'
    BY <1>0, <2>1, <2>2 DEF TypeOK, Entry
  <2>4. CallsKept /\ TasksKept
    BY <2>1, <2>2, TasksSame DEF CallsKept
  <2>5. \A q \in Requests : /\ req'[q].pc = "idle" => req'[q].answer = NoAnswer
                            /\ req'[q].pc = "local" => req'[q].method = "status"
    BY <2>2 DEF IInv, CallInv
  <2>. QED
    BY <2>1, <2>2, <2>3, <2>4, <2>5, PipeRange, Preserved
<1>4. CASE GetTaskResult(r)
  <2>. DEFINE b == [kind |-> "result", of |-> req[r].task, value |-> GetResult(req[r].task)]
  <2>1. /\ Answer(r, b) /\ req[r].pc = "dispatch" /\ req[r].method = "result"
        /\ UNCHANGED <<subs, net, self, pipe, core, taskVars, results>>
    BY <1>4 DEF GetTaskResult
  <2>2. b \in Answers /\ b.kind = "result" /\ b.of = req[r].task
    BY <1>0, AnswerTypes DEF TypeOK, GetResult, TaskStates
  <2>. HIDE DEF b
  <2>3. /\ req' \in [Requests -> Entry] /\ \A q \in Requests \ {r} : req'[q] = req[q]
        /\ req'[r].method = req[r].method /\ req'[r].task = req[r].task /\ req'[r].pc = "done"
        /\ req'[r].answer = b
    BY <1>0, <2>1, <2>2, AnswerStep
  <2>4. TypeOK'
    BY <1>0, <2>1, <2>3 DEF TypeOK, Entry
  <2>5. Fits(r, req'[r].answer)
    BY <2>1, <2>2, <2>3 DEF Fits
  <2>. QED
    BY <2>1, <2>3, <2>4, <2>5, OneCall
<1>5. CASE GetStatusProxy(r)
  <2>1. /\ req[r].pc = "dispatch" /\ req[r].method = "status"
        /\ UNCHANGED <<subs, net, self, pipe, core, taskVars, results>>
    BY <1>5 DEF GetStatusProxy
  <2>2. CASE results[req[r].task] \in Final
    <3>. DEFINE b == [kind |-> "status", of |-> req[r].task, value |-> LocalStatus(req[r].task)]
    <3>1. Answer(r, b)
      BY <1>5, <2>2 DEF GetStatusProxy, GetResult, Final
    <3>2. b.value \in Final /\ b.value \in ended[req[r].task]
      BY <1>0, <2>2 DEF TypeOK, IInv, ResultInv, LocalStatus, GetResult
    <3>3. b \in Answers /\ b.kind = "status" /\ b.of = req[r].task
      BY <1>0, <3>2, AnswerTypes DEF TaskStates
    <3>. HIDE DEF b
    <3>4. /\ req' \in [Requests -> Entry] /\ \A q \in Requests \ {r} : req'[q] = req[q]
          /\ req'[r].method = req[r].method /\ req'[r].task = req[r].task /\ req'[r].pc = "done"
          /\ req'[r].answer = b
      BY <1>0, <2>1, <3>1, <3>3, AnswerStep
    <3>5. TypeOK'
      BY <1>0, <2>1, <3>4 DEF TypeOK, Entry
    <3>6. Reached(b)
      BY <1>0, <3>2, <3>3, EndedReached
    <3>7. Fits(r, req'[r].answer)
      BY <2>1, <3>3, <3>4, <3>6 DEF Fits
    <3>. QED
      BY <2>1, <3>4, <3>5, <3>7, OneCall
  <2>3. CASE results[req[r].task] \notin Final
    <3>1. Goto(r, "local")
      BY <1>5, <2>3 DEF GetStatusProxy, GetResult
    <3>2. /\ req' \in [Requests -> Entry] /\ \A q \in Requests \ {r} : req'[q] = req[q]
          /\ req'[r].method = req[r].method /\ req'[r].task = req[r].task
          /\ req'[r].pc = "local" /\ req'[r].answer = req[r].answer
      BY <1>0, <3>1, GotoStep
    <3>3. TypeOK'
      BY <1>0, <2>1, <3>2 DEF TypeOK, Entry
    <3>. QED
      BY <2>1, <3>2, <3>3, OneCall
  <2>. QED
    BY <2>2, <2>3
<1>6. CASE RouteBlocking(r)
  <2>1. /\ req[r].pc # "idle" /\ req[r].method \in {"key", "status"} /\ req[r].pc # "done"
        /\ UNCHANGED <<net, self, pipe, core, taskVars, results>>
    BY <1>6 DEF RouteBlocking, Blocked, IInv, CallInv
  <2>2. CASE Goto(r, "subscribed") /\ Subscribe(TargetTopic(r), r)
    <3>1. /\ req' \in [Requests -> Entry] /\ \A q \in Requests \ {r} : req'[q] = req[q]
          /\ req'[r].method = req[r].method /\ req'[r].task = req[r].task
          /\ req'[r].pc = "subscribed" /\ req'[r].answer = req[r].answer
      BY <1>0, <2>2, GotoStep
    <3>2. subs' = subs \union {<<TargetTopic(r), r>>} /\ TargetTopic(r) \in Topics
      BY <1>0, <2>2, TopicTypes DEF Subscribe
    <3>3. TypeOK'
      BY <1>0, <2>1, <3>1, <3>2 DEF TypeOK, Entry
    <3>4. SubscriptionOK(<<TargetTopic(r), r>>)
      BY <2>1 DEF SubscriptionOK
    <3>. QED
      BY <2>1, <3>1, <3>2, <3>3, <3>4, OneCall
  <2>3. CASE Answer(r, ServerError) /\ UNCHANGED subs
    <3>1. /\ req' \in [Requests -> Entry] /\ \A q \in Requests \ {r} : req'[q] = req[q]
          /\ req'[r].method = req[r].method /\ req'[r].task = req[r].task
          /\ req'[r].pc = "done" /\ req'[r].answer = ServerError
      BY <1>0, <2>1, <2>3, AnswerStep, AnswerTypes
    <3>2. TypeOK'
      BY <1>0, <2>1, <2>3, <3>1 DEF TypeOK, Entry
    <3>3. Fits(r, req'[r].answer)
      BY <2>1, <3>1 DEF Fits, ServerError
    <3>. QED
      BY <2>1, <2>3, <3>1, <3>2, <3>3, OneCall
  <2>. QED
    BY <1>6, <2>2, <2>3 DEF RouteBlocking
<1>7. CASE OnSubscribed(r)
  <2>1. /\ req[r].pc = "subscribed" /\ net' = net \union {RoutedMsg(r)}
        /\ UNCHANGED <<subs, self, pipe, core, taskVars, results>>
    BY <1>7 DEF OnSubscribed, Publish
  <2>2. /\ req' \in [Requests -> Entry] /\ \A q \in Requests \ {r} : req'[q] = req[q]
        /\ req'[r].method = req[r].method /\ req'[r].task = req[r].task
        /\ req'[r].pc = "waiting" /\ req'[r].answer = req[r].answer
    BY <1>0, <1>7, GotoStep DEF OnSubscribed
  <2>3. /\ RoutedMsg(r).for = r /\ RoutedMsg(r).topic = WorkerTopic /\ RoutedMsg(r).body \in Answers
    BY AnswerTypes DEF RoutedMsg
  <2>4. TypeOK'
    BY <1>0, <2>1, <2>2, <2>3 DEF TypeOK, Entry
  <2>5. MessageOK(RoutedMsg(r))
    BY <2>1, <2>3 DEF MessageOK
  <2>6. \A m \in net' : m \in net \/ (m.for \in Requests /\ MessageOK(m))
    BY <2>1, <2>3, <2>5
  <2>. QED
    BY <2>1, <2>2, <2>4, <2>6, OneCall
<1>. QED
  BY <1>1, <1>2, <1>3, <1>4, <1>5, <1>6, <1>7 DEF GatewayStep

-----------------------------------------------------------------------------
(* The network, the worker and core.                                       *)

\* What is left to show of a step that answers no call.
LEMMA NoCallAnswered ==
    ASSUME IInv, TypeOK', TasksKept, UNCHANGED subs,
           \A q \in Requests : /\ req'[q].method = req[q].method /\ req'[q].task = req[q].task
                               /\ req'[q].pc = req[q].pc /\ req'[q].answer = req[q].answer,
           \A m \in net' : m \in net \/ (m.for \in Requests /\ MessageOK(m)),
           \A i \in DOMAIN pipe' : /\ pipe'[i] \in Requests
                                   /\ req[pipe'[i]].method = "key" /\ req[pipe'[i]].pc # "idle",
           \A t \in Tasks : results'[t] = results[t] \/ (results'[t] \in Final => results'[t] \in ended'[t])
    PROVE  IInv'
<1>1. CallsKept
  BY DEF CallsKept
<1>2. \A q \in Requests : /\ req'[q].pc = "idle" => req'[q].answer = NoAnswer
                          /\ req'[q].pc = "local" => req'[q].method = "status"
  BY DEF IInv, CallInv
<1>. QED
  BY <1>1, <1>2, Preserved

\* The handlers of a topic are of calls that its messages answer.
LEMMA HandlerFits ==
    ASSUME IInv, NEW m \in net, m.topic # WorkerTopic, NEW r \in Requests, <<m.topic, r>> \in subs
    PROVE  Fits(r, m.body)
<1>1. /\ req[r].method \in {"key", "status"} /\ req[r].pc # "idle"
      /\ m.topic = TargetTopic(r)
  <2>1. SubscriptionOK(<<m.topic, r>>)
    BY DEF IInv, SubsInv
  <2>. QED
    BY <2>1 DEF SubscriptionOK
<1>2. /\ req[r].method = "key" => TargetTopic(r) = <<"key", r>>
      /\ req[r].method = "status" => TargetTopic(r) = <<"status", req[r].task>>
  BY TopicTypes DEF IInv
<1>3. MessageOK(m)
  BY DEF IInv, MessageInv
<1>4. CASE m.topic = <<"key", m.for>> /\ m.body.kind = "key" /\ m.body.of = m.for
  <2>1. req[r].method = "key" /\ r = m.for
    BY <1>1, <1>2, <1>4
  <2>. QED
    BY <1>1, <1>4, <2>1 DEF Fits
<1>5. CASE m.topic = <<"status", m.body.of>> /\ m.body.kind = "status" /\ Reached(m.body)
  <2>1. req[r].method = "status" /\ req[r].task = m.body.of
    BY <1>1, <1>2, <1>5
  <2>. QED
    BY <1>1, <1>5, <2>1 DEF Fits
<1>. QED
  BY <1>3, <1>4, <1>5 DEF MessageOK

LEMMA PublishInduction ==
    ASSUME IInv, NEW m \in net, OnPublish(m)
    PROVE  IInv'
<1>0. TypeOK /\ req \in [Requests -> Entry] /\ m.body \in Answers
  BY EntryTypes DEF IInv, TypeOK
<1>1. /\ m.topic # WorkerTopic /\ net' = net \ {m}
      /\ UNCHANGED <<subs, self, pipe, core, taskVars, results>>
  BY DEF OnPublish
<1>2. ASSUME NEW q \in Requests
      PROVE  /\ Answered(req[q], m.body) \in Entry
             /\ Answered(req[q], m.body).method = req[q].method
             /\ Answered(req[q], m.body).task = req[q].task
             /\ Answered(req[q], m.body).pc = "done"
             /\ Answered(req[q], m.body).answer = IF req[q].pc = "done" THEN req[q].answer
                                                  ELSE m.body
  BY <1>0 DEF Answered, Entry
<1>3. req' = [q \in Requests |->
                IF <<m.topic, q>> \in subs THEN Answered(req[q], m.body) ELSE req[q]]
  BY DEF OnPublish
<1>4. req' \in [Requests -> Entry]
  BY <1>0, <1>2, <1>3
<1>5. ASSUME NEW q \in Requests
      PROVE  /\ req'[q].method = req[q].method /\ req'[q].task = req[q].task
             /\ req'[q].pc = req[q].pc \/ (req'[q].pc = "done")
             /\ \/ req'[q].answer = req[q].answer
                \/ req'[q].answer = m.body /\ <<m.topic, q>> \in subs
             /\ req[q] = req'[q] \/ req'[q].pc = "done"
  BY <1>2, <1>3
<1>6. TypeOK'
  BY <1>0, <1>1, <1>4 DEF TypeOK, Entry
<1>7. CallsKept /\ TasksKept
  BY <1>1, <1>5, TasksSame DEF CallsKept
<1>8. \A q \in Requests : /\ req'[q].pc = "idle" => req'[q].answer = NoAnswer
                          /\ req'[q].pc = "local" => req'[q].method = "status"
                          /\ req'[q].answer = req[q].answer \/ Fits(q, req'[q].answer)
  <2>. SUFFICES ASSUME NEW q \in Requests
                PROVE  /\ req'[q].pc = "idle" => req'[q].answer = NoAnswer
                       /\ req'[q].pc = "local" => req'[q].method = "status"
                       /\ req'[q].answer = req[q].answer \/ Fits(q, req'[q].answer)
    OBVIOUS
  <2>1. <<m.topic, q>> \in subs => Fits(q, m.body)
    BY <1>1, HandlerFits
  <2>2. req'[q].answer = req[q].answer \/ Fits(q, req'[q].answer)
    BY <1>5, <2>1
  <2>. QED
    BY <1>5, <2>2 DEF IInv, CallInv
<1>. QED
  BY <1>1, <1>6, <1>7, <1>8, PipeRange, Preserved

\* A task that is taken into the pool, for the first time or again.
LEMMA TaskTaken ==
    ASSUME IInv, NEW t \in Tasks, AddTaskUnverified(t)
    PROVE  /\ tasks' \in [Tasks -> TaskStates] /\ runs' \in [Tasks -> Nat]
           /\ UNCHANGED ended
           /\ TasksKept
<1>0. /\ tasks \in [Tasks -> TaskStates] /\ runs \in [Tasks -> Nat]
      /\ ended \in [Tasks -> SUBSET Final] /\ TaskInv
  BY DEF IInv, TypeOK
<1>1. CASE tasks[t] = "pooled"
  BY <1>0, <1>1, TasksSame DEF AddTaskUnverified
<1>2. CASE tasks[t] # "pooled"
  <2>1. /\ tasks' = [tasks EXCEPT ![t] = "pooled"]
        /\ runs' = [runs EXCEPT ![t] = runs[t] + 1] /\ UNCHANGED ended
    BY <1>2 DEF AddTaskUnverified
  <2>2. tasks' \in [Tasks -> TaskStates] /\ runs' \in [Tasks -> Nat]
    BY <1>0, <2>1 DEF TaskStates
  <2>3. /\ tasks'[t] = "pooled" /\ runs'[t] = runs[t] + 1
        /\ \A u \in Tasks \ {t} : tasks'[u] = tasks[u] /\ runs'[u] = runs[u]
    BY <1>0, <2>1
  <2>4. runs'[t] = 1 => ended[t] = {}
    BY <1>0, <2>3 DEF TaskInv
  <2>5. TaskInv'
    <3>1. ASSUME NEW u \in Tasks
          PROVE  /\ runs'[u] = 0 => tasks'[u] = "unknown" /\ ended[u] = {}
                 /\ tasks'[u] = "unknown" => runs'[u] = 0
                 /\ tasks'[u] \in Final => tasks'[u] \in ended[u]
                 /\ runs'[u] = 1 => ended[u] = {tasks'[u]} \intersect Final
      <4>1. CASE u = t
        BY <1>0, <2>3, <2>4, <4>1 DEF Final
      <4>2. CASE u # t
        BY <1>0, <2>3, <4>2 DEF TaskInv
      <4>. QED
        BY <4>1, <4>2
    <3>. QED
      BY <2>1, <3>1 DEF TaskInv
  <2>6. \A u \in Tasks : runs[u] <= runs'[u] /\ (runs[u] = 1 /\ runs'[u] = 1 => u # t)
    BY <1>0, <2>3
  <2>. QED
    BY <1>0, <2>1, <2>2, <2>3, <2>5, <2>6 DEF TasksKept
<1>. QED
  BY <1>1, <1>2

LEMMA WorkerInduction ==
    ASSUME IInv, NEW m \in net, WorkerReceives(m)
    PROVE  IInv'
<1>. DEFINE r == m.for
            t == req[r].task
<1>0. /\ TypeOK /\ req \in [Requests -> Entry] /\ r \in Requests /\ t \in Tasks
      /\ req[r].pc # "idle"
  <2>1. TypeOK /\ r \in Requests
    BY DEF IInv, TypeOK
  <2>. QED
    BY <2>1, EntryTypes, TopicTypes DEF IInv, MessageInv, MessageOK
<1>1. UNCHANGED <<subs, self, core, results>>
  BY DEF WorkerReceives
<1>. HIDE DEF t, r
<1>2. CASE ReceiveKeyRequest(m)
  <2>1. /\ req[r].method = "key" /\ pipe' = Append(pipe, r) /\ net' = net \ {m}
        /\ UNCHANGED <<req, taskVars>>
    BY <1>2 DEF ReceiveKeyRequest, SendToCore, r
  <2>2. /\ pipe' \in Seq(Requests)
        /\ \A i \in DOMAIN pipe' : (i \in DOMAIN pipe /\ pipe'[i] = pipe[i]) \/ pipe'[i] = r
    BY <1>0, <2>1, AppendProperties DEF TypeOK
  <2>3. TypeOK'
    BY <1>0, <1>1, <2>1, <2>2 DEF TypeOK
  <2>4. \A i \in DOMAIN pipe' : /\ pipe'[i] \in Requests
                                /\ req[pipe'[i]].method = "key" /\ req[pipe'[i]].pc # "idle"
    BY <1>0, <2>1, <2>2, PipeRange
  <2>5. TasksKept
    BY <2>1, TasksSame
  <2>. QED
    BY <1>1, <2>1, <2>3, <2>4, <2>5, NoCallAnswered
<1>3. CASE ReceiveTask(m)
  <2>1. AddTaskUnverified(t) /\ net' = net \ {m} /\ UNCHANGED <<req, pipe>>
    BY <1>3 DEF ReceiveTask, r, t
  <2>2. TypeOK'
    BY <1>0, <1>1, <2>1, TaskTaken DEF TypeOK
  <2>3. TasksKept
    BY <1>0, <2>1, TaskTaken
  <2>. QED
    BY <1>1, <2>1, <2>2, <2>3, PipeRange, NoCallAnswered
<1>4. CASE ReceiveStatusRequest(m)
  <2>1. req[r].method = "status" /\ UNCHANGED <<taskVars, pipe>>
    BY <1>4 DEF ReceiveStatusRequest, r
  <2>2. TasksKept
    BY <2>1, TasksSame
  <2>3. CASE Forget(r, "silent") /\ net' = net \ {m}
    <3>1. /\ req' \in [Requests -> Entry]
          /\ \A q \in Requests : /\ req'[q].method = req[q].method /\ req'[q].task = req[q].task
                                 /\ req'[q].pc = req[q].pc /\ req'[q].answer = req[q].answer
      BY <1>0, <2>3, ForgetStep DEF Fates
    <3>2. TypeOK'
      BY <1>0, <1>1, <2>1, <2>3, <3>1 DEF TypeOK, Entry
    <3>. QED
      BY <1>1, <2>1, <2>2, <2>3, <3>1, <3>2, PipeRange, NoCallAnswered
  <2>4. CASE GetTaskStatus(t) # "none"
    <3>. DEFINE b == [kind |-> "status", of |-> t, value |-> GetTaskStatus(t)]
                a == AnswerMsg(r, b)
    <3>1. net' = (net \ {m}) \union {a} /\ UNCHANGED req
      BY <1>4, <2>4 DEF ReceiveStatusRequest, r, t
    <3>2. GetTaskStatus(t) = tasks[t] /\ tasks[t] \in {"INPROGRESS"} \union Final
      BY <1>0, <2>4 DEF GetTaskStatus, TypeOK, TaskStates
    <3>3. b \in Answers /\ b.kind = "status" /\ b.of = t /\ b.value = tasks[t]
      BY <1>0, <3>2, AnswerTypes DEF TaskStates
    <3>. HIDE DEF b
    <3>4. a.for = r /\ a.topic = TargetTopic(r) /\ a.body = b
      BY DEF AnswerMsg
    <3>5. TargetTopic(r) = <<"status", t>> /\ TargetTopic(r) \in Topics
      BY <1>0, <2>1, TopicTypes DEF t
    <3>. HIDE DEF a
    <3>6. Reached(b)
      <4>1. CASE tasks[t] \in Final
        <5>1. b.value \in ended[t]
          BY <1>0, <3>3, <4>1 DEF IInv, TaskInv
        <5>. QED
          BY <1>0, <3>3, <5>1, EndedReached
      <4>2. CASE tasks[t] = "INPROGRESS"
        <5>1. runs[t] > 0
          BY <1>0, <4>2 DEF IInv, TaskInv, TypeOK
        <5>2. b.value \notin Final
          BY <3>3, <4>2 DEF Final
        <5>. QED
          BY <3>3, <4>2, <5>1, <5>2 DEF Reached
      <4>. QED
        BY <3>2, <4>1, <4>2
    <3>7. MessageOK(a)
      BY <1>0, <3>3, <3>4, <3>5, <3>6 DEF MessageOK
    <3>8. TypeOK'
      BY <1>0, <1>1, <2>1, <3>1, <3>3, <3>4, <3>5 DEF TypeOK
    <3>9. \A n \in net' : n \in net \/ (n.for \in Requests /\ MessageOK(n))
      BY <1>0, <3>1, <3>4, <3>7
    <3>. QED
      BY <1>1, <2>1, <2>2, <3>1, <3>8, <3>9, PipeRange, NoCallAnswered
  <2>. QED
    BY <1>4, <2>3, <2>4 DEF ReceiveStatusRequest, r, t
<1>. QED
  BY <1>2, <1>3, <1>4 DEF WorkerReceives

LEMMA LossInduction ==
    ASSUME IInv, NEW m \in net, Lose(m)
    PROVE  IInv'
<1>0. TypeOK /\ m.for \in Requests
  BY DEF IInv, TypeOK
<1>1. /\ net' = net \ {m} /\ Forget(m.for, "lost")
      /\ UNCHANGED <<subs, self, pipe, core, taskVars, results>>
  BY DEF Lose
<1>2. /\ req' \in [Requests -> Entry]
      /\ \A q \in Requests : /\ req'[q].method = req[q].method /\ req'[q].task = req[q].task
                             /\ req'[q].pc = req[q].pc /\ req'[q].answer = req[q].answer
  BY <1>0, <1>1, ForgetStep DEF Fates
<1>3. TypeOK'
  BY <1>0, <1>1, <1>2 DEF TypeOK, Entry
<1>4. TasksKept
  BY <1>1, TasksSame
<1>. QED
  BY <1>1, <1>2, <1>3, <1>4, PipeRange, NoCallAnswered

LEMMA CoreInduction ==
    ASSUME IInv, CoreAnswers \/ CoreRefuses
    PROVE  IInv'
<1>. DEFINE r == Head(pipe)
<1>1. /\ pipe # <<>> /\ pipe \in Seq(Requests) /\ pipe' = Tail(pipe)
      /\ UNCHANGED <<subs, self, core, taskVars, results>> /\ TypeOK
  BY DEF CoreAnswers, CoreRefuses, IInv, TypeOK
<1>2. /\ pipe' \in Seq(Requests) /\ Len(pipe) \in Nat \ {0} /\ Len(pipe') = Len(pipe) - 1
      /\ DOMAIN pipe = 1..Len(pipe) /\ DOMAIN pipe' = 1..Len(pipe') /\ r = pipe[1]
      /\ \A i \in 1..Len(pipe') : pipe'[i] = pipe[i + 1]
  BY <1>1, HeadTailProperties, LenProperties, EmptySeq
<1>3. /\ r \in Requests /\ req[r].method = "key" /\ req[r].pc # "idle"
      /\ \A i \in DOMAIN pipe' : /\ pipe'[i] \in Requests
                                 /\ req[pipe'[i]].method = "key" /\ req[pipe'[i]].pc # "idle"
  <2>1. 1 \in DOMAIN pipe /\ \A i \in DOMAIN pipe' : i + 1 \in DOMAIN pipe
    BY <1>2
  <2>. HIDE DEF r
  <2>. QED
    BY <1>2, <2>1, PipeRange
<1>. HIDE DEF r
<1>4. TasksKept
  BY <1>1, TasksSame
<1>5. CASE CoreAnswers
  <2>. DEFINE b == [kind |-> "key", of |-> r, value |-> "none"]
              a == AnswerMsg(r, b)
  <2>1. net' = net \union {a} /\ UNCHANGED req
    BY <1>5 DEF CoreAnswers, Publish, r
  <2>2. b \in Answers /\ b.kind = "key" /\ b.of = r
    BY <1>3, AnswerTypes
  <2>. HIDE DEF b
  <2>3. a.for = r /\ a.topic = TargetTopic(r) /\ a.body = b
    BY DEF AnswerMsg
  <2>4. TargetTopic(r) = <<"key", r>> /\ TargetTopic(r) \in Topics
    BY <1>1, <1>3, TopicTypes
  <2>. HIDE DEF a
  <2>5. MessageOK(a)
    BY <1>3, <2>2, <2>3, <2>4 DEF MessageOK
  <2>6. TypeOK'
    BY <1>1, <1>2, <1>3, <2>1, <2>2, <2>3, <2>4 DEF TypeOK
  <2>7. \A n \in net' : n \in net \/ (n.for \in Requests /\ MessageOK(n))
    BY <1>3, <2>1, <2>3, <2>5
  <2>. QED
    BY <1>1, <1>3, <1>4, <2>1, <2>6, <2>7, NoCallAnswered
<1>6. CASE CoreRefuses
  <2>1. Forget(r, "refused") /\ UNCHANGED net
    BY <1>6 DEF CoreRefuses, r
  <2>2. /\ req' \in [Requests -> Entry]
        /\ \A q \in Requests : /\ req'[q].method = req[q].method /\ req'[q].task = req[q].task
                               /\ req'[q].pc = req[q].pc /\ req'[q].answer = req[q].answer
    BY <1>1, <1>3, <2>1, ForgetStep DEF Fates
  <2>3. TypeOK'
    BY <1>1, <1>2, <2>1, <2>2 DEF TypeOK, Entry
  <2>. QED
    BY <1>1, <1>3, <1>4, <2>1, <2>2, <2>3, NoCallAnswered
<1>. QED
  BY <1>5, <1>6

\* A task whose record gets a new status.
LEMMA TaskMoves ==
    ASSUME IInv, NEW t \in Tasks, NEW s \in {"INPROGRESS"} \union Final,
           tasks' = [tasks EXCEPT ![t] = s], UNCHANGED runs, tasks[t] # "unknown",
           ended' = [ended EXCEPT ![t] = ended[t] \union ({s} \intersect Final)],
           runs[t] = 1 => tasks[t] \notin Final
    PROVE  /\ tasks' \in [Tasks -> TaskStates] /\ ended' \in [Tasks -> SUBSET Final]
           /\ TasksKept
<1>0. /\ tasks \in [Tasks -> TaskStates] /\ runs \in [Tasks -> Nat]
      /\ ended \in [Tasks -> SUBSET Final] /\ TaskInv
  BY DEF IInv, TypeOK
<1>1. tasks' \in [Tasks -> TaskStates] /\ ended' \in [Tasks -> SUBSET Final]
  BY <1>0 DEF TaskStates
<1>2. /\ tasks'[t] = s /\ ended'[t] = ended[t] \union ({s} \intersect Final)
      /\ \A u \in Tasks \ {t} : tasks'[u] = tasks[u] /\ ended'[u] = ended[u]
  BY <1>0
<1>3. runs[t] # 0 /\ s # "unknown" /\ (runs[t] = 1 => ended[t] = {})
  BY <1>0 DEF TaskInv, Final
<1>4. TaskInv'
  <2>1. ASSUME NEW u \in Tasks
        PROVE  /\ runs[u] = 0 => tasks'[u] = "unknown" /\ ended'[u] = {}
               /\ tasks'[u] = "unknown" => runs[u] = 0
               /\ tasks'[u] \in Final => tasks'[u] \in ended'[u]
               /\ runs[u] = 1 => ended'[u] = {tasks'[u]} \intersect Final
    <3>1. CASE u = t
      BY <1>2, <1>3, <3>1
    <3>2. CASE u # t
      BY <1>0, <1>2, <3>2 DEF TaskInv
    <3>. QED
      BY <3>1, <3>2
  <2>. QED
    BY <2>1 DEF TaskInv
<1>5. \A u \in Tasks : /\ runs[u] <= runs[u] /\ ended[u] \subseteq ended'[u] /\ ended[u] \subseteq Final
                       /\ runs[u] = 1 => /\ tasks[u] \in Final => tasks'[u] = tasks[u]
                                         /\ tasks[u] = "INPROGRESS" =>
                                              tasks'[u] \in {"INPROGRESS"} \union Final
  <2>1. \A u \in Tasks \ {t} : tasks'[u] = tasks[u] /\ ended'[u] = ended[u]
    BY <1>2
  <2>. QED
    BY <1>0, <1>2, <2>1
<1>. QED
  BY <1>0, <1>1, <1>4, <1>5 DEF TasksKept

LEMMA OtherInduction ==
    ASSUME IInv,
           \/ SelfKeySubscribe \/ CoreStops \/ UNCHANGED vars
           \/ \E t \in Tasks : \/ SubmittedElsewhere(t) \/ OnVerifyTask(t)
                               \/ OnFinishTask(t) \/ AddOutsideResult(t)
    PROVE  IInv'
<1>0. TypeOK /\ TaskInv
  BY DEF IInv
<1>1. CASE SelfKeySubscribe \/ CoreStops \/ UNCHANGED vars
  <2>1. UNCHANGED <<req, subs, net, pipe, taskVars, results>> /\ TypeOK'
    BY <1>0, <1>1 DEF SelfKeySubscribe, CoreStops, vars, TypeOK
  <2>. QED
    BY <2>1, TasksSame, PipeRange, NoCallAnswered
<1>2. ASSUME NEW t \in Tasks, SubmittedElsewhere(t)
      PROVE  IInv'
  <2>1. AddTaskUnverified(t) /\ UNCHANGED <<req, subs, net, self, pipe, core, results>>
    BY <1>2 DEF SubmittedElsewhere
  <2>2. TypeOK' /\ TasksKept
    BY <1>0, <2>1, TaskTaken DEF TypeOK
  <2>. QED
    BY <2>1, <2>2, PipeRange, NoCallAnswered
<1>3. ASSUME NEW t \in Tasks, OnVerifyTask(t)
      PROVE  IInv'
  <2>1. /\ tasks[t] = "pooled" /\ tasks' = [tasks EXCEPT ![t] = "INPROGRESS"]
        /\ UNCHANGED <<req, subs, net, self, pipe, core, runs, ended, results>>
    BY <1>3 DEF OnVerifyTask
  <2>2. ended' = [ended EXCEPT ![t] = ended[t] \union ({"INPROGRESS"} \intersect Final)]
    <3>1. {"INPROGRESS"} \intersect Final = {}
      BY DEF Final
    <3>. QED
      BY <1>0, <2>1, <3>1 DEF TypeOK
  <2>3. tasks[t] # "unknown" /\ tasks[t] \notin Final
    BY <2>1 DEF Final
  <2>4. TypeOK' /\ TasksKept
    BY <1>0, <2>1, <2>2, <2>3, TaskMoves DEF TypeOK
  <2>. QED
    BY <2>1, <2>4, PipeRange, NoCallAnswered
<1>4. ASSUME NEW t \in Tasks, OnFinishTask(t)
      PROVE  IInv'
  <2>1. PICK s \in Final : /\ tasks' = [tasks EXCEPT ![t] = s]
                           /\ ended' = [ended EXCEPT ![t] = ended[t] \union {s}]
    BY <1>4 DEF OnFinishTask
  <2>2. /\ tasks[t] = "INPROGRESS" \/ (tasks[t] \in Final /\ runs[t] > 1)
        /\ UNCHANGED <<req, subs, net, self, pipe, core, runs, results>>
    BY <1>4 DEF OnFinishTask
  <2>3. /\ {s} \intersect Final = {s}
        /\ tasks[t] # "unknown" /\ (runs[t] = 1 => tasks[t] \notin Final)
    <3>1. runs[t] > 1 => runs[t] # 1
      BY <1>0 DEF TypeOK
    <3>. QED
      BY <2>2, <3>1 DEF Final
  <2>4. TypeOK' /\ TasksKept
    BY <1>0, <2>1, <2>2, <2>3, TaskMoves DEF TypeOK
  <2>. QED
    BY <2>2, <2>4, PipeRange, NoCallAnswered
<1>5. ASSUME NEW t \in Tasks, AddOutsideResult(t)
      PROVE  IInv'
  <2>1. PICK s \in ended[t] :
          \E stored \in {s, "unreadable"} : results' = [results EXCEPT ![t] = stored]
    BY <1>5 DEF AddOutsideResult
  <2>2. UNCHANGED <<req, subs, net, self, pipe, core, taskVars>>
    BY <1>5 DEF AddOutsideResult
  <2>3. s \in Final
    BY <1>0 DEF TypeOK
  <2>4. TypeOK'
    BY <1>0, <2>1, <2>2, <2>3 DEF TypeOK
  <2>5. \A u \in Tasks : results'[u] = results[u] \/ (results'[u] \in Final => results'[u] \in ended'[u])
    BY <1>0, <2>1, <2>2 DEF TypeOK, Final
  <2>. QED
    BY <2>2, <2>4, <2>5, TasksSame, PipeRange, NoCallAnswered
<1>. QED
  BY <1>1, <1>2, <1>3, <1>4, <1>5

LEMMA InitialInvariant == Init => IInv
<1>. SUFFICES ASSUME Init PROVE IInv
  OBVIOUS
<1>1. (CHOOSE t \in Tasks : TRUE) \in Tasks
  BY GatewayAssumption
<1>2. /\ req \in [Requests -> Entry]
      /\ \A r \in Requests : req[r].answer = NoAnswer /\ req[r].pc = "idle"
  BY <1>1, AnswerTypes DEF Init, Entry, Methods, Fates
<1>3. TypeOK
  <2>1. /\ pipe \in Seq(Requests) /\ subs \subseteq Topics \X Requests
        /\ tasks \in [Tasks -> TaskStates]
        /\ results \in [Tasks -> Final \union {"none", "unreadable"}]
        /\ runs \in [Tasks -> Nat] /\ ended \in [Tasks -> SUBSET Final]
    BY DEF Init, TaskStates
  <2>. QED
    BY <1>2, <2>1 DEF Init, TypeOK, Entry
<1>4. CallInv /\ AnswerMatchesRequest /\ StatusReached
  BY <1>2 DEF CallInv, AnswerMatchesRequest, StatusReached, NoAnswer
<1>5. MessageInv /\ PipeInv /\ SubsInv
  BY DEF Init, MessageInv, PipeInv, SubsInv
<1>6. ResultInv /\ TaskInv
  BY DEF Init, ResultInv, TaskInv, Final
<1>. QED
  BY <1>3, <1>4, <1>5, <1>6 DEF IInv

\* The inductive invariant: topics say what their messages answer, and a
\* status under way has been reached.
THEOREM Invariance == Spec => []IInv
<1>1. IInv /\ [Next]_vars => IInv'
  <2>. SUFFICES ASSUME IInv, [Next]_vars PROVE IInv'
    OBVIOUS
  <2>1. ASSUME NEW r \in Requests,
               \/ \E k \in Methods, t \in Tasks : Call(r, k, t)
               \/ GatewayStep(r) \/ GunzipFails(r)
        PROVE  IInv'
    BY <2>1, GatewayInduction
  <2>2. ASSUME NEW m \in net, OnPublish(m) \/ WorkerReceives(m) \/ Lose(m)
        PROVE  IInv'
    BY <2>2, PublishInduction, WorkerInduction, LossInduction
  <2>3. CASE CoreAnswers \/ CoreRefuses
    BY <2>3, CoreInduction
  <2>4. CASE \/ SelfKeySubscribe \/ CoreStops \/ UNCHANGED vars
             \/ \E t \in Tasks : \/ SubmittedElsewhere(t) \/ OnVerifyTask(t)
                                 \/ OnFinishTask(t) \/ AddOutsideResult(t)
    BY <2>4, OtherInduction
  <2>. QED
    BY <2>1, <2>2, <2>3, <2>4 DEF Next, Receive
<1>. QED
  BY <1>1, InitialInvariant, PTL DEF Spec

\* Every variable keeps the shape the code gives it.
THEOREM TypeCorrect == Spec => []TypeOK
<1>1. IInv => TypeOK
  BY DEF IInv
<1>. QED
  BY <1>1, Invariance, PTL

\* A call of JsonRpcServer is answered with what it asked for: handlers of
\* RouteRpcBlockingAction that nobody removes and late messages included.
THEOREM AnswersMatch == Spec => []AnswerMatchesRequest
<1>1. IInv => AnswerMatchesRequest
  BY DEF IInv
<1>. QED
  BY <1>1, Invariance, PTL

\* A status a client is told (GetStatusProxyAction, TaskManager.getTaskStatus) is
\* one the worker's record of the task has had, however often the task is taken
\* again (TaskManager._isOkToAdd), and of a task taken once a final one is its
\* last.
THEOREM StatusesReached == Spec => []StatusReached
<1>1. IInv => StatusReached
  BY DEF IInv
<1>. QED
  BY <1>1, Invariance, PTL
=============================================================================
