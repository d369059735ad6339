----------------------------- MODULE RpcGateway -----------------------------
(***************************************************************************)
(* The JSON-RPC gateway and the worker it routes to: the server's methods, *)
(* the proxy actions of the gateway's node, the pubsub topics between the  *)
(* two nodes, the worker's own topic, and its way to core (envelopes, the  *)
(* IPC client and its REQ socket).                                         *)
(*                                                                         *)
(* A request is a call of a client; its number is the random id of its     *)
(* envelope, and the user key of a key request is its own.  One worker is  *)
(* addressed, the one selected for the tasks, so a worker address is left  *)
(* out of the topics.                                                      *)
(***************************************************************************)
EXTENDS Naturals, Sequences

CONSTANTS
    Requests,   \* calls of clients of one gateway
    Tasks,      \* tasks they are about
    MaxRuns     \* other gateways submit while every task ran less often

ASSUME GatewayAssumption == Tasks # {} /\ MaxRuns \in Nat

VARIABLES
    req,        \* what each call asks, how far it is and its answer
    subs,       \* topic handlers of the gateway: <<topic, request>>
    net,        \* published messages on their way
    self,       \* the worker is subscribed to its own signing key
    pipe,       \* requests in the worker's IPC client, oldest first
    core,       \* enigma-core answers
    tasks,      \* the worker's record of a task
    runs,       \* how often the worker has taken the task into its pool
    ended,      \* the statuses the task has ended with, and was published with
    results     \* the gateway's stored results of other workers

taskVars == <<tasks, runs, ended>>
vars == <<req, subs, net, self, pipe, core, taskVars, results>>

-----------------------------------------------------------------------------
Methods == {"key", "status", "deploy", "compute", "result"}
Final == {"SUCCESS", "FAILED"}
TaskStates == {"unknown", "pooled", "INPROGRESS"} \union Final
Fates == {"live", "lost", "refused", "silent"}
NoAnswer == [kind |-> "none", of |-> "none", value |-> "none"]
ServerError == [kind |-> "error", of |-> "none", value |-> "none"]

WorkerTopic == <<"worker">>    \* the signing key the worker subscribed to

(* The topic an answer comes back on. *)
TargetTopic_NoSequence(r) ==
    CASE req[r].method = "key" -> <<"key">>
      [] OTHER -> <<"status", req[r].task>>

TargetTopic_AnyTask(r) ==
    CASE req[r].method = "key" -> <<"key", r>>
      [] OTHER -> <<"status">>

TargetTopic(r) ==
    CASE req[r].method = "key" -> <<"key", r>>
      [] OTHER -> <<"status", req[r].task>>

Topics == {<<"key", r>> : r \in Requests} \union {<<"status", t>> : t \in Tasks}

Answers == [kind: {"none", "error", "key", "status", "result", "sent"},
            of: Requests \union Tasks \union {"none"},
            value: TaskStates \union {"none", "yes", "no"}]

(* A routed request, or an answer of the worker, published for a call. *)
RoutedMsg(r) == [for |-> r, topic |-> WorkerTopic, body |-> NoAnswer]
AnswerMsg(r, body) == [for |-> r, topic |-> TargetTopic(r), body |-> body]

TypeOK ==
    /\ req \in [Requests -> [method: Methods, task: Tasks, answer: Answers, fate: Fates,
                             pc: {"idle", "dispatch", "local", "subscribed", "waiting", "done"}]]
    /\ subs \subseteq Topics \X Requests
    /\ \A m \in net : m.for \in Requests /\ m.topic \in Topics \union {WorkerTopic} /\ m.body \in Answers
    /\ self \in BOOLEAN
    /\ pipe \in Seq(Requests)
    /\ core \in BOOLEAN
    /\ tasks \in [Tasks -> TaskStates]
    /\ runs \in [Tasks -> Nat]
    /\ ended \in [Tasks -> SUBSET Final]
    /\ results \in [Tasks -> Final \union {"none", "unreadable"}]

Init ==
    /\ req \in [Requests -> [method: {"key"}, task: {CHOOSE t \in Tasks : TRUE},
                             answer: {NoAnswer}, fate: {"live"}, pc: {"idle"}]]
    /\ subs = {} /\ net = {}
    /\ self = FALSE /\ pipe = <<>> /\ core = TRUE
    /\ tasks = [t \in Tasks |-> "unknown"]
    /\ runs = [t \in Tasks |-> 0]
    /\ ended = [t \in Tasks |-> {}]
    /\ results = [t \in Tasks |-> "none"]

-----------------------------------------------------------------------------
(* The first answer settles the promise of sendAndReceive; later ones find    *)
(* their listener still there and change nothing.                             *)
Answered(q, body) ==
    IF q.pc = "done" THEN q ELSE [q EXCEPT !.pc = "done", !.answer = body]

Answer(r, body) == req' = [req EXCEPT ![r] = Answered(@, body)]
Goto(r, pc) == req' = [req EXCEPT ![r].pc = pc]
Forget(r, fate) == req' = [req EXCEPT ![r].fate = IF req[r].pc = "done" THEN @ ELSE fate]

(* pubsub: every subscription adds a handler; publishing waits for nobody. *)
Subscribe(topic, r) == subs' = subs \union {<<topic, r>>}
Publish(m) == net' = net \union {m}

(* ProxyAction: the envelope goes to the node's runtime, which dispatches it. *)
Proxy(r, method, task) ==
    req' = [req EXCEPT ![r].method = method, ![r].task = task, ![r].pc = "dispatch"]

(* JsonRpcServer, for calls with valid parameters (others are refused at once). *)
Call(r, method, task) ==
    /\ req[r].pc = "idle"
    /\ method = "key" => task = req[r].task    \* a key is for no task in particular
    /\ Proxy(r, method, task)
    /\ UNCHANGED <<subs, net, self, pipe, core, taskVars, results>>

(* ProxyDispatcherAction, then RouteRpcNonBlockingAction: published, not received. *)
RouteNonBlocking(r) ==
    /\ req[r].pc = "dispatch" /\ req[r].method \in {"deploy", "compute"}
    /\ \/ /\ Answer(r, [kind |-> "sent", of |-> req[r].task, value |-> "yes"])
          /\ Publish(RoutedMsg(r))
       \/ /\ Answer(r, [kind |-> "sent", of |-> req[r].task, value |-> "no"])    \* not encodable
          /\ UNCHANGED net
    /\ UNCHANGED <<subs, self, pipe, core, taskVars, results>>

(* A code that does not unzip ends the dispatch without an answer. *)
GunzipFails(r) ==
    /\ req[r].pc = "dispatch" /\ req[r].method = "deploy" /\ req[r].fate = "live"
    /\ Forget(r, "refused")
    /\ UNCHANGED <<subs, net, self, pipe, core, taskVars, results>>

(* GetResultAction: the result in this node's own task database.  A record     *)
(* without a status is not read back (OutsideTask.fromDbJson).                 *)
GetResult(t) == IF results[t] \in Final THEN results[t] ELSE "none"

GetTaskResult(r) ==
    /\ req[r].pc = "dispatch" /\ req[r].method = "result"
    /\ Answer(r, [kind |-> "result", of |-> req[r].task, value |-> GetResult(req[r].task)])
    /\ UNCHANGED <<subs, net, self, pipe, core, taskVars, results>>

(* GetStatusProxyAction: a result stored by this node answers at once. *)
LocalStatus_ByPresence(t) == "SUCCESS"
LocalStatus(t) == GetResult(t)

GetStatusProxy(r) ==
    /\ req[r].pc = "dispatch" /\ req[r].method = "status"
    /\ IF GetResult(req[r].task) # "none"
         THEN Answer(r, [kind |-> "status", of |-> req[r].task, value |-> LocalStatus(req[r].task)])
         ELSE Goto(r, "local")
    /\ UNCHANGED <<subs, net, self, pipe, core, taskVars, results>>

(* RouteRpcBlockingAction: subscribe to the target topic, publish when subscribed. *)
Blocked(r) ==
    \/ req[r].pc = "dispatch" /\ req[r].method = "key"
    \/ req[r].pc = "local"

RouteBlocking_ReusesTopic(r) ==
    /\ Blocked(r)
    /\ Goto(r, "subscribed")
    /\ subs' = IF \E q \in Requests : <<TargetTopic(r), q>> \in subs
                 THEN subs ELSE subs \union {<<TargetTopic(r), r>>}
    /\ UNCHANGED <<net, self, pipe, core, taskVars, results>>

RouteBlocking(r) ==
    /\ Blocked(r)
    /\ \/ /\ Goto(r, "subscribed")
          /\ Subscribe(TargetTopic(r), r)
       \/ Answer(r, ServerError) /\ UNCHANGED subs    \* not encodable
    /\ UNCHANGED <<net, self, pipe, core, taskVars, results>>

OnSubscribed(r) ==
    /\ req[r].pc = "subscribed"
    /\ Goto(r, "waiting")
    /\ Publish(RoutedMsg(r))
    /\ UNCHANGED <<subs, self, pipe, core, taskVars, results>>

(* Every handler of the topic runs, the ones of answered calls included. *)
OnPublish(m) ==
    /\ m \in net /\ m.topic # WorkerTopic
    /\ net' = net \ {m}
    /\ req' = [r \in Requests |->
                 IF <<m.topic, r>> \in subs THEN Answered(req[r], m.body) ELSE req[r]]
    /\ UNCHANGED <<subs, self, pipe, core, taskVars, results>>

-----------------------------------------------------------------------------
(* The worker.  SubscribeSelfSignKeyTopicPipelineAction asks core for the key. *)
SelfKeySubscribe ==
    /\ ~self /\ core
    /\ self' = TRUE
    /\ UNCHANGED <<req, subs, net, pipe, core, taskVars, results>>

(* The envelope passes the main controller to core's runtime and its IPC client. *)
SendToCore(r) == pipe' = Append(pipe, r)

ReceiveKeyRequest(m) ==
    /\ req[m.for].method = "key"
    /\ SendToCore(m.for)
    /\ net' = net \ {m}
    /\ UNCHANGED <<req, taskVars>>

(* START_TASK_EXEC: TaskManager._isOkToAdd refuses only a task that is in the  *)
(* pool, so one that runs or has ended is taken again.                         *)
AddTaskUnverified(t) ==
    /\ IF tasks[t] = "pooled"
         THEN UNCHANGED <<tasks, runs>>
         ELSE /\ tasks' = [tasks EXCEPT ![t] = "pooled"]
              /\ runs' = [runs EXCEPT ![t] = @ + 1]
    /\ UNCHANGED ended

ReceiveTask(m) ==
    /\ req[m.for].method \in {"deploy", "compute"}
    /\ AddTaskUnverified(req[m.for].task)
    /\ net' = net \ {m}
    /\ UNCHANGED <<req, pipe>>

(* getTask returns a pooled task without calling back, and a task that is not *)
(* in the database ends in callback(null): neither is answered.               *)
GetTaskStatus(t) == IF tasks[t] \in {"unknown", "pooled"} THEN "none" ELSE tasks[t]

ReceiveStatusRequest(m) ==
    LET t == req[m.for].task IN
    /\ req[m.for].method = "status"
    /\ IF GetTaskStatus(t) = "none"
         THEN Forget(m.for, "silent") /\ net' = net \ {m}
         ELSE /\ net' = (net \ {m}) \union
                          {AnswerMsg(m.for, [kind |-> "status", of |-> t,
                                              value |-> GetTaskStatus(t)])}
              /\ UNCHANGED req
    /\ UNCHANGED <<taskVars, pipe>>

WorkerReceives(m) ==
    /\ m \in net /\ m.topic = WorkerTopic /\ self
    /\ ReceiveKeyRequest(m) \/ ReceiveTask(m) \/ ReceiveStatusRequest(m)
    /\ UNCHANGED <<subs, self, core, results>>

(* pubsub (external) may lose a message; nobody hears a topic nobody is on. *)
Lose(m) ==
    /\ m \in net
    /\ net' = net \ {m}
    /\ Forget(m.for, "lost")
    /\ UNCHANGED <<subs, self, pipe, core, taskVars, results>>

(* The REQ socket has one request out at a time; the IPC client finds the     *)
(* callback by the id of the answer.                                          *)
CoreAnswers ==
    /\ pipe # <<>> /\ core
    /\ pipe' = Tail(pipe)
    /\ Publish(AnswerMsg(Head(pipe), [kind |-> "key", of |-> Head(pipe), value |-> "none"]))
    /\ UNCHANGED <<req, subs, self, core, taskVars, results>>

(* An answer of type Error, or a request core's schema refuses: only logged. *)
CoreRefuses ==
    /\ pipe # <<>> /\ core
    /\ pipe' = Tail(pipe)
    /\ Forget(Head(pipe), "refused")
    /\ UNCHANGED <<subs, net, self, core, taskVars, results>>

(* No timeout: with core away every later request waits behind the first. *)
CoreStops ==
    /\ core
    /\ core' = FALSE
    /\ UNCHANGED <<req, subs, net, self, pipe, taskVars, results>>

(* The task pipeline (TaskLifecycle): tasks that another gateway sent, the     *)
(* verification, which writes the record anew, and the end of an execution,    *)
(* with the broadcast of its result.  Executions of a task that was taken      *)
(* again may end in any order.                                                 *)
SubmittedElsewhere(t) ==
    /\ tasks[t] # "pooled" /\ \A u \in Tasks : runs[u] < MaxRuns
    /\ AddTaskUnverified(t)
    /\ UNCHANGED <<req, subs, net, self, pipe, core, results>>

OnVerifyTask(t) ==
    /\ tasks[t] = "pooled"
    /\ tasks' = [tasks EXCEPT ![t] = "INPROGRESS"]
    /\ UNCHANGED <<req, subs, net, self, pipe, core, runs, ended, results>>

OnFinishTask(t) ==
    /\ tasks[t] = "INPROGRESS" \/ (tasks[t] \in Final /\ runs[t] > 1)
    /\ \E s \in Final :
         /\ tasks' = [tasks EXCEPT ![t] = s]
         /\ ended' = [ended EXCEPT ![t] = @ \union {s}]
    /\ UNCHANGED <<req, subs, net, self, pipe, core, runs, results>>

(* A published result arrives (ResultFlow) and replaces the stored one; after  *)
(* a failed callback in Ethereum it is stored without a status.                *)
AddOutsideResult(t) ==
    /\ \E s \in ended[t] :
         \E stored \in {s, "unreadable"} : results' = [results EXCEPT ![t] = stored]
    /\ UNCHANGED <<req, subs, net, self, pipe, core, taskVars>>

-----------------------------------------------------------------------------
GatewayStep(r) ==
    \/ RouteNonBlocking(r)
    \/ GetTaskResult(r)
    \/ GetStatusProxy(r)
    \/ RouteBlocking(r)
    \/ OnSubscribed(r)

Receive == \E m \in net : OnPublish(m) \/ WorkerReceives(m)

Next ==
    \/ \E r \in Requests, k \in Methods, t \in Tasks : Call(r, k, t)
    \/ \E r \in Requests : GatewayStep(r) \/ GunzipFails(r)
    \/ Receive
    \/ \E m \in net : Lose(m)
    \/ SelfKeySubscribe
    \/ CoreAnswers
    \/ CoreRefuses
    \/ CoreStops
    \/ \E t \in Tasks : \/ SubmittedElsewhere(t)
                        \/ OnVerifyTask(t)
                        \/ OnFinishTask(t)
                        \/ AddOutsideResult(t)

(* Callbacks run, what is published is received or lost, a running core       *)
(* answers in turn.  Nothing makes a worker subscribe or a task progress.     *)
Fairness ==
    /\ \A r \in Requests : WF_vars(GatewayStep(r))
    /\ WF_vars(Receive)
    /\ WF_vars(CoreAnswers)

Spec == Init /\ [][Next]_vars /\ Fairness

-----------------------------------------------------------------------------
(* A call is answered with what it asked for: a key made for its own request  *)
(* (a client that encrypts with the key of another one cannot decrypt), the   *)
(* status or the result of its own task.  Answers come back on a topic, over  *)
(* handlers that are never removed (RouteRpcBlockingAction.js:38-62).         *)
AnswerMatchesRequest ==
    \A r \in Requests :
      LET a == req[r].answer IN
      /\ a.kind = "key" => req[r].method = "key" /\ a.of = r
      /\ a.kind = "status" => req[r].method = "status" /\ a.of = req[r].task
      /\ a.kind = "result" => req[r].method = "result" /\ a.of = req[r].task
      /\ a.kind = "sent" => req[r].method \in {"deploy", "compute"} /\ a.of = req[r].task

(* A status told to a client, from the worker or from the gateway's own store *)
(* of results, is one the worker's record of its task has had: INPROGRESS, or *)
(* a status it has ended with, however late the message arrives and however   *)
(* often the task is taken again.  A task that was taken once has not gone    *)
(* back behind what a client was told, and a final one is the one it ended    *)
(* in (TaskManager.js:345-347, 469-471, GetStatusProxyAction.js:18-27).       *)
StatusReached ==
    \A r \in Requests :
      LET a == req[r].answer IN
      a.kind = "status" =>
        /\ a.value \in {"INPROGRESS"} \union ended[a.of]
        /\ runs[a.of] > 0
        /\ runs[a.of] = 1 => /\ tasks[a.of] \in {a.value} \union Final
                             /\ a.value \in Final => tasks[a.of] = a.value

(* Why a call may stay without an answer.                                     *)
Excused(r) ==
    \/ req[r].fate = "lost"
    \/ req[r].fate = "refused" /\ req[r].method \in {"key", "deploy"}
    \/ req[r].fate = "silent" /\ req[r].method = "status"

(* While core answers and the worker listens, a call is answered unless       *)
(* pubsub loses its message, its code does not unzip or core refuses its key  *)
(* (deploy and key calls), or it asks for the status of a task that the       *)
(* worker does not know or has in its pool.  The gateway is subscribed before *)
(* it asks, so an answer is never missed.                                     *)
CallsAnswered ==
    []core /\ <>self =>
      \A r \in Requests :
        (req[r].pc \notin {"idle", "done"}) ~> (req[r].pc = "done" \/ Excused(r))

(* "The worker can respond to a status check at any time."                    *)
(* (docs/TASKS_LIFE_CYCLE_DOCS.md:51), with null for a task it does not know  *)
(* and UNVERIFIED for one in its pool (src/client_api/README.md:123-124): a   *)
(* status call whose messages are not lost is answered.                       *)
StatusAnswered ==
    []core /\ <>self =>
      \A r \in Requests :
        (req[r].method = "status" /\ req[r].pc # "idle")
          ~> (req[r].pc = "done" \/ req[r].fate = "lost")

=============================================================================
