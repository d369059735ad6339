----------------------------- MODULE StateSync -----------------------------
(***************************************************************************)
(* State synchronisation: one worker compares the deltas core keeps with   *)
(* the delta hashes on Ethereum, fetches what is missing from peers that   *)
(* announced the contract, verifies each delta against its hash, writes it *)
(* to core and reverts what Ethereum does not know                         *)
(* (ReceiveAllPipelineAction and everything it runs), while workers go on  *)
(* executing and committing tasks.  A delta is identified by the worker    *)
(* that computed it; its hash is equal to another's only if the deltas are.*)
(***************************************************************************)
EXTENDS Naturals, Sequences, FiniteSets, FiniteSetsExt

CONSTANTS
    Addrs,       \* secret contracts
    Peers,       \* the other workers
    Self,        \* this worker
    None,        \* no delta, no address
    Executes,    \* <<worker, address>>: who is selected for whose tasks
    MaxLen,      \* bound on the deltas of a contract
    Limit,       \* the bound of each contract
    RangeLimit,  \* CONTENT_ROUTING.RANGE_LIMIT
    Calls,       \* executions of the pipeline
    Callbacks,   \* the calls that pass onEnd (the others use asyncExecCmd)
    OneShot,     \* those whose onEnd throws when it is called again
    MaxFaults    \* bound on failures of core, the network and the DHT

ASSUME ConstantsAssumption ==
    /\ Self \notin Peers
    /\ None \notin Addrs \cup Peers \cup {Self}
    /\ Executes \subseteq (Peers \cup {Self}) \X Addrs
    /\ MaxLen \in Nat \ {0}
    /\ Limit \in [Addrs -> 1..MaxLen]
    /\ RangeLimit \in Nat \ {0}
    /\ None \notin Calls
    /\ Callbacks \subseteq Calls
    /\ OneShot \subseteq Callbacks
    /\ MaxFaults \in Nat

VARIABLES
    chain,      \* confirmed delta hashes: address -> index -> author
    store,      \* every worker's core: worker -> address -> index -> author
    code,       \* the contracts whose bytecode this worker's core keeps
    announced,  \* content routing: <<worker, address>>
    called,     \* the calls made so far
    answers,    \* what onEnd has been called with, per call
    running,    \* ReceiveAllPipelineAction._running
    run,        \* the local variables of the pipeline that runs
    begun,      \* cells on the chain when the latest pipeline began
    faults      \* failures so far

envVars == <<chain, store, code, announced>>
vars == <<chain, store, code, announced, called, answers, running, run, begun,
          faults>>

Workers  == Peers \cup {Self}
Indexes  == 0..(MaxLen - 1)
Row      == [Indexes -> Workers \cup {None}]
EmptyRow == [i \in Indexes |-> None]
Empty    == [a \in Addrs |-> EmptyRow]
NoExcess == [remoteTip |-> 0, localTip |-> 0]
NoMsg    == [kind |-> "none", deltas |-> EmptyRow]
Errored  == <<None>>    \* a lookup that ended in FindProviderResult._errored

Filled(r) == {i \in Indexes : r[i] # None}
Length(r) == Cardinality(Filled(r))
\* Tips are kept shifted by one, as the index after them: 0 is "no delta".
TipOf(r)  == IF Filled(r) = {} THEN 0 ELSE Max(Filled(r)) + 1
Cells(s)  == {x \in Addrs \X Indexes : s[x[1]][x[2]] # None}

Phases == {"idle", "tips", "list", "compare", "find", "next", "dial",
           "stream", "revert", "stuck"}

Runs == [phase   : Phases,
         caller  : Calls \cup {None},
         tips    : [Addrs -> 0..MaxLen],    \* localTips
         listed  : SUBSET Addrs,            \* addresses still to be worked on
         missing : [Addrs -> Row],          \* remoteMissingStatesMap
         excess  : [Addrs -> [remoteTip : 0..MaxLen, localTip : 0..MaxLen]],
         provs   : [Addrs -> Seq(Workers \cup {None})],
         cur     : Addrs \cup {None},       \* trySyncReceive: the address,
         attempt : Nat,                     \* its job number
         req     : Nat,                     \* and the request it is at
         wire    : [kind : {"none", "deltas", "code", "error"}, deltas : Row],
         short   : BOOLEAN]  \* a provider lacked a delta it was asked for

Idle == [phase   |-> "idle",
         caller  |-> None,
         tips    |-> [a \in Addrs |-> 0],
         listed  |-> {},
         missing |-> Empty,
         excess  |-> [a \in Addrs |-> NoExcess],
         provs   |-> [a \in Addrs |-> <<>>],
         cur     |-> None,
         attempt |-> 0,
         req     |-> 0,
         wire    |-> NoMsg,
         short   |-> FALSE]

TypeOK ==
    /\ chain \in [Addrs -> Row]
    /\ store \in [Workers -> [Addrs -> Row]]
    /\ code \subseteq Addrs
    /\ announced \subseteq Workers \X Addrs
    /\ called \subseteq Calls
    /\ answers \in [Calls -> Seq({"err", "done"})]
    /\ running \in BOOLEAN
    /\ run \in Runs
    /\ begun \subseteq Addrs \X Indexes
    /\ faults \in 0..MaxFaults

Init ==
    /\ chain = Empty
    /\ store = [w \in Workers |-> Empty]
    /\ code = {}
    /\ announced = {}
    /\ called = {}
    /\ answers = [c \in Calls |-> <<>>]
    /\ running = FALSE
    /\ run = Idle
    /\ begun = {}
    /\ faults = 0
-----------------------------------------------------------------------------
(* The workers around the pipeline.                                        *)

Quiet == UNCHANGED <<called, answers, running, run, begun, faults>>

\* A worker's core executes a task on the state it has and keeps the delta.
Execute(w, a) ==
    LET i == TipOf(store[w][a]) IN
    /\ <<w, a>> \in Executes
    /\ i < Limit[a]
    /\ store' = [store EXCEPT ![w][a][i] = w]
    /\ code' = IF w = Self /\ i = 0 THEN code \cup {a} ELSE code
    /\ UNCHANGED <<chain, announced>> /\ Quiet

\* The receipt of a worker's delta is confirmed on Ethereum.
Commit(w, a) ==
    LET i == Length(chain[a]) IN
    /\ i \in Indexes
    /\ store[w][a][i] = w
    /\ chain' = [chain EXCEPT ![a][i] = w]
    /\ UNCHANGED <<store, code, announced>> /\ Quiet

\* A worker stores a published result that Ethereum confirms
\* (VerifyAndStoreResultAction).  Results get lost, so indexes are skipped.
StoreResult(w, a, i) ==
    /\ chain[a][i] \notin {None, store[w][a][i]}
    /\ store' = [store EXCEPT ![w][a][i] = chain[a][i]]
    /\ code' = IF w = Self /\ i = 0 THEN code \cup {a} ELSE code
    /\ UNCHANGED <<chain, announced>> /\ Quiet

\* provideContentsBatch: every id is declared to the DHT by a job of its own;
\* the ids whose job failed (all but ok) are only reported.
Provide(w, ids, ok) == announced' = announced \cup ({w} \X (ids \cap ok))

\* The contracts a worker's core lists.
GetAllAddrs(w) == {a \in Addrs : Filled(store[w][a]) # {}}

\* AnnounceLocalStateAction: a worker declares every contract core lists.
AnnounceLocalState(w, ok) ==
    /\ ~ ({w} \X (GetAllAddrs(w) \cap ok) \subseteq announced)
    /\ Provide(w, GetAllAddrs(w), ok)
    /\ UNCHANGED <<chain, store, code>> /\ Quiet
-----------------------------------------------------------------------------
(* Answers, failures and the start of the pipeline.                        *)

\* onEnd(err, results).  asyncExecute sets params.callback instead, so there
\* onEnd is not a function: the call throws and nobody is answered.
Answer(c, x) ==
    IF c \in Callbacks THEN [answers EXCEPT ![c] = Append(@, x)] ELSE answers

\* A failure of core, of the network or of the DHT.
Fault ==
    /\ faults < MaxFaults
    /\ faults' = faults + 1

\* The pipeline goes on with local variables r.
Continue(r) ==
    /\ run' = r
    /\ UNCHANGED <<answers, running>>

GoTo(p) == Continue([run EXCEPT !.phase = p])

\* The outer catch: _running is cleared and the caller gets the error.
Abort ==
    /\ run' = Idle
    /\ running' = FALSE
    /\ answers' = Answer(run.caller, "err")

\* An exception inside a callback, or a callback that never comes: nobody
\* continues the pipeline, and _running stays set.
Hang == Continue([Idle EXCEPT !.phase = "stuck"])

Refuse(c) ==
    /\ running
    /\ answers' = Answer(c, "err")
    /\ UNCHANGED <<running, run, begun>>

Begin(c) ==
    /\ ~ running
    /\ running' = TRUE
    /\ run' = [Idle EXCEPT !.phase = "tips", !.caller = c]
    /\ begun' = Cells(chain)
    /\ UNCHANGED answers

SyncExecute_Restarts(c) ==
    /\ c \notin called
    /\ called' = called \cup {c}
    /\ running' = TRUE
    /\ run' = [Idle EXCEPT !.phase = "tips", !.caller = c]
    /\ begun' = Cells(chain)
    /\ UNCHANGED answers
    /\ UNCHANGED faults /\ UNCHANGED envVars

\* execute: one pipeline at a time; a second caller is refused at once.
SyncExecute(c) ==
    /\ c \notin called
    /\ called' = called \cup {c}
    /\ Refuse(c) \/ Begin(c)
    /\ UNCHANGED faults /\ UNCHANGED envVars
-----------------------------------------------------------------------------
(* Identify what is missing and what is in excess.                         *)

\* GetAllTipsAction: core's tips.  An answer of type Error carries no result
\* and counts as "no tips"; an error of the request itself is passed on.
GetAllTips ==
    /\ run.phase = "tips"
    /\ \/ /\ Continue([run EXCEPT !.phase = "list",
                                  !.tips = [a \in Addrs |-> TipOf(store[Self][a])]])
          /\ UNCHANGED faults
       \/ Fault /\ GoTo("list")
       \/ Fault /\ Abort
    /\ UNCHANGED <<called, begun>> /\ UNCHANGED envVars

\* The addresses on Ethereum.  A contract that only core knows is in excess as
\* a whole (remoteTip -1, here 0).
GetAllSecretContractAddresses ==
    LET remote == {a \in Addrs : Filled(chain[a]) # {}} IN
    /\ run.phase = "list"
    /\ \/ /\ Continue([run EXCEPT
                !.phase = "compare",
                !.listed = remote,
                !.excess = [a \in Addrs |->
                    IF a \in remote THEN NoExcess
                    ELSE [remoteTip |-> 0, localTip |-> run.tips[a]]]])
          /\ UNCHANGED faults
       \/ Fault /\ Abort
    /\ UNCHANGED <<called, begun>> /\ UNCHANGED envVars

\* The hashes a read of the contract's record returns.
GetContractParams(a) == chain[a]

MissingDeltas(a) ==
    [i \in Indexes |-> IF i >= run.tips[a] THEN GetContractParams(a)[i] ELSE None]

LeftOver(a) ==
    LET remoteTip == Length(GetContractParams(a))
    IN  IF run.tips[a] > remoteTip
        THEN [remoteTip |-> remoteTip, localTip |-> run.tips[a]]
        ELSE NoExcess

\* One turn of the loop of compareLocalStateToRemote: getContractParams is
\* awaited per contract, the local tip is the one read before the loop.
CompareContract(a) ==
    /\ run.phase = "compare"
    /\ a \in run.listed
    /\ \/ /\ Continue([run EXCEPT !.listed = @ \ {a},
                                  !.missing[a] = MissingDeltas(a),
                                  !.excess[a] = LeftOver(a)])
          /\ UNCHANGED faults
       \/ Fault /\ Abort
    /\ UNCHANGED <<called, begun>> /\ UNCHANGED envVars

MissingAddrs == {a \in Addrs : Filled(run.missing[a]) # {}}

IdentifyMissingStates ==
    /\ run.phase = "compare"
    /\ run.listed = {}
    /\ Continue([run EXCEPT !.phase = "find", !.listed = MissingAddrs])
    /\ UNCHANGED <<called, begun, faults>> /\ UNCHANGED envVars
-----------------------------------------------------------------------------
(* The requests of one contract: buckets of deltas, then the bytecode.     *)

FirstMissing(a)   == Min(Filled(run.missing[a]))
TotalMissing(a)   == Cardinality(Filled(run.missing[a]))
IsBCodeRequest(a) == FirstMissing(a) = 0
BucketsNum(a)     == (TotalMissing(a) + RangeLimit - 1) \div RangeLimit

\* parseStateReqMsgs: the indexes of the k-th request (toIndex is excluded).
Bucket_LastIndexLost(a, k) ==
    LET begin == (k - 1) * RangeLimit
        end   == Min({begin + RangeLimit, TotalMissing(a)})
    IN  {i \in Indexes : FirstMissing(a) + begin <= i /\ i + 1 < FirstMissing(a) + end}

Bucket(a, k) ==
    LET begin == (k - 1) * RangeLimit
        end   == Min({begin + RangeLimit, TotalMissing(a)})
    IN  {i \in Indexes : FirstMissing(a) + begin <= i /\ i < FirstMissing(a) + end}

\* buildMissingStatesResult appends the bytecode request after the buckets.
RequestsNum(a) == BucketsNum(a) + (IF IsBCodeRequest(a) THEN 1 ELSE 0)
-----------------------------------------------------------------------------
(* Find providers.                                                         *)

\* What content routing may return: some of the workers that announced the
\* contract, in some order.  Self is not filtered out: _findProvider drops the
\* result of providers.filter.
ProviderLists(a) ==
    LET ann == {w \in Workers : <<w, a>> \in announced}
    IN  UNION {{q \in [1..n -> ann] : \A i, j \in 1..n : q[i] = q[j] => i = j} :
               n \in 0..Cardinality(ann)}

Found_NoList(a, q) == [run EXCEPT !.provs[a] = None, !.listed = @ \ {a}]

Found(a, q) == [run EXCEPT !.provs[a] = q, !.listed = @ \ {a}]

\* _findProvider: an error that comes without a list makes the callback throw.
FindProvider(a) ==
    /\ run.phase = "find"
    /\ a \in run.listed
    /\ \/ /\ \E q \in ProviderLists(a) : Continue(Found(a, q))
          /\ UNCHANGED faults
       \/ Fault /\ Continue(Found(a, Errored))
       \/ Fault /\ Hang
    /\ UNCHANGED <<called, begun>> /\ UNCHANGED envVars

\* The early return on isErrors(): the caller is answered and _running is not
\* cleared; when onEnd is not a function the throw reaches the catch.
ProvidersErrored ==
    IF run.caller \in Callbacks
    THEN /\ run' = [Idle EXCEPT !.phase = "stuck"]
         /\ answers' = Answer(run.caller, "err")
         /\ UNCHANGED running
    ELSE Abort

FindContentProvider ==
    /\ run.phase = "find"
    /\ run.listed = {}
    /\ IF \E a \in MissingAddrs : run.provs[a] = Errored
       THEN ProvidersErrored
       ELSE Continue([run EXCEPT !.phase = "next", !.listed = MissingAddrs])
    /\ UNCHANGED <<called, begun, faults>> /\ UNCHANGED envVars
-----------------------------------------------------------------------------
(* Receive: one contract after the other, one provider after the other.    *)

\* trySyncReceive: first, middle and last job, so one provider is tried twice.
Attempts(a)      == Max({2, Len(run.provs[a])})
ProviderOf(a, j) == run.provs[a][Min({j, Len(run.provs[a])})]

\* TRY_RECEIVE_ALL rejected: the caller hears the error and the pipeline goes
\* on to revert; when onEnd is not a function the throw reaches the catch.
ReceiveFailed ==
    IF run.caller \in Callbacks
    THEN /\ run' = [run EXCEPT !.phase = "revert", !.wire = NoMsg]
         /\ answers' = Answer(run.caller, "err")
         /\ UNCHANGED running
    ELSE Abort

\* TryReceiveAllAction: the next job of the waterfall.  An empty provider list
\* makes providersList[0] undefined: the throw rejects the promise in the first
\* job (attempt 0), and is lost in the callback that starts a later one.
TryReceive(a) ==
    /\ run.phase = "next"
    /\ a \in run.listed
    /\ \/ /\ run.provs[a] # <<>>
          /\ Continue([run EXCEPT !.phase = "dial", !.listed = @ \ {a},
                                  !.cur = a, !.attempt = 1])
       \/ run.provs[a] = <<>> /\ run.attempt = 0 /\ ReceiveFailed
       \/ run.provs[a] = <<>> /\ run.attempt > 0 /\ Hang
    /\ UNCHANGED <<called, begun, faults>> /\ UNCHANGED envVars

TryReceiveAllDone_AnswersFirst ==
    /\ run.phase = "next"
    /\ run.listed = {}
    /\ run' = [run EXCEPT !.phase = "revert"]
    /\ answers' = Answer(run.caller, "done")
    /\ UNCHANGED <<running, called, begun, faults>> /\ UNCHANGED envVars

TryReceiveAllDone ==
    /\ run.phase = "next"
    /\ run.listed = {}
    /\ GoTo("revert")
    /\ UNCHANGED <<called, begun, faults>> /\ UNCHANGED envVars

\* The job's callback got an error: the next provider, or the end.
AttemptFails ==
    IF run.attempt < Attempts(run.cur)
    THEN Continue([run EXCEPT !.phase = "dial", !.attempt = @ + 1, !.wire = NoMsg])
    ELSE ReceiveFailed

\* startStateSyncRequest and dialProtocol: dialling oneself only logs.
Dial ==
    LET p == ProviderOf(run.cur, run.attempt) IN
    /\ run.phase = "dial"
    /\ \/ p = Self /\ Hang /\ UNCHANGED faults
       \/ p # Self /\ Continue([run EXCEPT !.phase = "stream", !.req = 1]) /\ UNCHANGED faults
       \/ p # Self /\ Fault /\ AttemptFails
    /\ UNCHANGED <<called, begun>> /\ UNCHANGED envVars

\* The request messages of a contract: its ranges, then its bytecode.
RequestType(a, k) == IF k <= BucketsNum(a) THEN "deltas" ELSE "code"

\* GetDeltasAction on the provider's core: what it has of the range.
GetDeltas(w, a, range) ==
    [i \in Indexes |-> IF i \in range THEN store[w][a][i] ELSE None]

\* GetContractCodeAction: the bytecode, which is always the deployed one.
GetContractCode == EmptyRow

\* _fromDbStream: the query of core that request k stands for.
DbRequest(w, a, k) ==
    IF RequestType(a, k) = "deltas" THEN GetDeltas(w, a, Bucket(a, k)) ELSE GetContractCode

\* _toNetworkParse: the answer to request k; one of core's of type Error gets
\* no msgType.
Response(w, a, k) == [kind |-> RequestType(a, k), deltas |-> DbRequest(w, a, k)]

Lacks(w, a, k) ==
    RequestType(a, k) = "deltas" /\ \E i \in Bucket(a, k) : store[w][a][i] = None

\* startStateSyncResponse: read a request, query core, send the answer.
ProviderResponds ==
    LET p == ProviderOf(run.cur, run.attempt) IN
    /\ run.phase = "stream"
    /\ run.wire = NoMsg
    /\ run.req <= RequestsNum(run.cur)
    /\ \/ /\ Continue([run EXCEPT !.wire = Response(p, run.cur, run.req),
                                  !.short = @ \/ Lacks(p, run.cur, run.req)])
          /\ UNCHANGED faults
       \/ Fault /\ Continue([run EXCEPT !.wire = [NoMsg EXCEPT !.kind = "error"]])
    /\ UNCHANGED <<called, begun>> /\ UNCHANGED envVars

HasMsgType(msg) == msg.kind \in {"deltas", "code"}

\* StateSyncReqVerifier.verify: every delta received is a missing one and has
\* its hash; nothing asks whether all of the range came.
Verify_AnyHash(msg) ==
    IF msg.kind = "deltas"
    THEN Filled(msg.deltas) \subseteq Filled(run.missing[run.cur])
    ELSE run.tips[run.cur] = 0

Verify(msg) ==
    IF msg.kind = "deltas"
    THEN \A i \in Filled(msg.deltas) : msg.deltas[i] = run.missing[run.cur][i]
    ELSE run.tips[run.cur] = 0

\* UpdateDeltas and UpdateNewContract in core: a write replaces what is there.
WriteDb(msg) ==
    IF msg.kind = "deltas"
    THEN /\ store' = [store EXCEPT ![Self][run.cur] =
               [i \in Indexes |-> IF msg.deltas[i] # None THEN msg.deltas[i] ELSE @[i]]]
         /\ UNCHANGED code
    ELSE /\ code' = code \cup {run.cur}
         /\ UNCHANGED store

\* _verificationStream: a message without msgType ends the stream as if it
\* were complete; a failed verification is the error of the attempt.
ReceiverRejects ==
    /\ run.phase = "stream"
    /\ \/ run.wire.kind = "error" /\ Continue([run EXCEPT !.phase = "next", !.wire = NoMsg])
       \/ HasMsgType(run.wire) /\ ~ Verify(run.wire) /\ AttemptFails
    /\ UNCHANGED <<called, begun, faults>> /\ UNCHANGED envVars

\* _throughDbStream: core writes; or answers with type Error, whose missing
\* status passes for a success; or refuses, and the callback throws.
ReceiverStores ==
    LET next == [run EXCEPT !.wire = NoMsg, !.req = @ + 1] IN
    /\ run.phase = "stream"
    /\ HasMsgType(run.wire)
    /\ Verify(run.wire)
    /\ \/ WriteDb(run.wire) /\ Continue(next) /\ UNCHANGED faults
       \/ Fault /\ Continue(next) /\ UNCHANGED <<store, code>>
       \/ Fault /\ Hang /\ UNCHANGED <<store, code>>
    /\ UNCHANGED <<chain, announced, called, begun>>

\* pull.collect ends: after the last answer, or with a broken connection.
StreamEnds ==
    /\ run.phase = "stream"
    /\ run.wire = NoMsg
    /\ \/ run.req > RequestsNum(run.cur) /\ GoTo("next") /\ UNCHANGED faults
       \/ run.req <= RequestsNum(run.cur) /\ Fault /\ AttemptFails
    /\ UNCHANGED <<called, begun>> /\ UNCHANGED envVars
-----------------------------------------------------------------------------
(* Revert what Ethereum does not know, and finish.                         *)

ExcessAddrs == {a \in Addrs : run.excess[a].localTip > run.excess[a].remoteTip}

\* RemoveContract, or RemoveDeltas {from: remoteTip + 1, to: localTip} with `to`
\* excluded as in every other range: the top delta stays.
Removed_FromRemoteTip(e) ==
    {i \in Indexes : e.remoteTip = 0 \/ (e.remoteTip <= i + 1 /\ i + 1 < e.localTip)}

Removed(e) ==
    {i \in Indexes : e.remoteTip = 0 \/ (e.remoteTip <= i /\ i + 1 < e.localTip)}

RevertDb(a) ==
    /\ store' = [store EXCEPT ![Self][a] =
          [i \in Indexes |-> IF i \in Removed(run.excess[a]) THEN None ELSE @[i]]]
    /\ code' = IF run.excess[a].remoteTip = 0 THEN code \ {a} ELSE code

Revert(a) ==
    LET next == [run EXCEPT !.excess[a] = NoExcess] IN
    /\ run.phase = "revert"
    /\ a \in ExcessAddrs
    /\ \/ RevertDb(a) /\ Continue(next) /\ UNCHANGED faults
       \/ Fault /\ Continue(next) /\ UNCHANGED <<store, code>>
       \/ Fault /\ Abort /\ UNCHANGED <<store, code>>
    /\ UNCHANGED <<chain, announced, called, begun>>

\* onEnd(null, results) is called inside the try.  The initialisation's onEnd is
\* a waterfall callback, which throws when it is called again, after the error
\* of ReceiveFailed: the catch then calls it a third time, with that error.
AnswerDone(c) ==
    IF c \in OneShot /\ answers[c] # <<>>
    THEN [answers EXCEPT ![c] = Append(Append(@, "done"), "err")]
    ELSE Answer(c, "done")

Finish ==
    /\ run.phase = "revert"
    /\ ExcessAddrs = {}
    /\ run' = Idle
    /\ running' = FALSE
    /\ answers' = AnswerDone(run.caller)
    /\ UNCHANGED <<called, begun, faults>> /\ UNCHANGED envVars
-----------------------------------------------------------------------------
Environment ==
    \/ \E w \in Workers, a \in Addrs : Execute(w, a) \/ Commit(w, a)
    \/ \E w \in Workers, a \in Addrs, i \in Indexes : StoreResult(w, a, i)
    \/ \E w \in Workers, ok \in SUBSET Addrs : AnnounceLocalState(w, ok)

Pipeline ==
    \/ GetAllTips
    \/ GetAllSecretContractAddresses
    \/ \E a \in Addrs : CompareContract(a)
    \/ IdentifyMissingStates
    \/ \E a \in Addrs : FindProvider(a)
    \/ FindContentProvider
    \/ \E a \in Addrs : TryReceive(a)
    \/ TryReceiveAllDone
    \/ Dial
    \/ ProviderResponds
    \/ ReceiverRejects
    \/ ReceiverStores
    \/ StreamEnds
    \/ \E a \in Addrs : Revert(a)
    \/ Finish

Next ==
    \/ Environment
    \/ \E c \in Calls : SyncExecute(c)
    \/ Pipeline

\* The event loop runs the callbacks of the pipeline; core, the DHT and the
\* provider answer (or are counted in faults).
Spec == Init /\ [][Next]_vars /\ WF_vars(Pipeline)
-----------------------------------------------------------------------------
(* Properties.                                                             *)

\* Every delta in this worker's core that it did not compute itself is, at its
\* index, the one Ethereum has: no provider, however far behind or ahead, and
\* no interleaving with executions, results and reverts puts another one there
\* (StateSyncReqVerifier.verify before UPDATE_DB).
ForeignDeltaOnChain ==
    \A a \in Addrs, i \in Indexes :
        store[Self][a][i] \in {None, Self, chain[a][i]}

\* The abstract replica: what core's deltas may become, step by step.
Replicated == INSTANCE Replica WITH
    Authors <- Workers, ledger <- chain, replica <- store[Self], frozen <- begun

\* The pipeline and its surroundings implement the replica: deltas come from
\* this worker or from Ethereum, and a revert never removes a delta that was
\* on Ethereum when its run began (excessList is older than the revert).
ImplementsReplica == Replicated!Spec

\* The run ends with done, and its caller has heard nothing else.
Succeeds ==
    /\ run.phase = "revert" /\ run'.phase = "idle"
    /\ run.caller \in Callbacks
    /\ answers'[run.caller] = <<"done">>

\* A run that ends in success without any failure on its way leaves a delta of
\* Ethereum or a bytecode out only for one of two reasons: a provider answered
\* a range without it, or it lies below the local tip the run started from.
GapOnlyBelowTip ==
    [][Succeeds /\ faults = 0 /\ ~ run.short =>
         \A x \in begun :
            \/ x[2] < run.tips[x[1]]
            \/ /\ store'[Self][x[1]][x[2]] # None
               /\ run.tips[x[1]] = 0 => x[1] \in code']_vars

\* "sync all the contracts/deltas from identifying what's missing to saving it
\* back to db": after a run that reports success core has a delta for every
\* one Ethereum had when it began.
SyncSavesAll ==
    [][Succeeds => \A x \in begun : store'[Self][x[1]][x[2]] # None]_vars

\* Every caller that passes onEnd is answered, unless the run it started (or
\* the one that was going on) is stuck in one of the ways Hang stands for.
CallsSettle ==
    \A c \in Callbacks :
        (c \in called) ~> (Len(answers[c]) > 0 \/ run.phase = "stuck")

\* Success is the last thing a caller hears, and it hears it once.  Only a
\* caller whose onEnd throws on a second call hears an error after it, and it
\* had been told of an error before (onEnd at lines 78, 105 and 109 of
\* ReceiveAllPipelineAction).
DoneIsLast ==
    \A c \in Calls : \A i \in DOMAIN answers[c] :
        answers[c][i] = "done" =>
            \/ i = Len(answers[c])
            \/ /\ c \in OneShot /\ i > 1
               /\ i + 1 = Len(answers[c]) /\ answers[c][i + 1] = "err"
=============================================================================
