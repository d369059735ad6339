----------------------------- MODULE WorkerInit -----------------------------
(***************************************************************************)
(* Start of a worker: the peers it connects to, InitWorkerAction and the   *)
(* two flags of NodeController, and the registration actions (register,    *)
(* login, logout, unregister) that the management server, the CLI and the  *)
(* initialisation run against the worker's record in the Enigma contract.  *)
(*                                                                         *)
(* The synchronisation and the announcement are the steps SyncEnds and     *)
(* AnnounceEnds; StateSync.tla has their detail.  The node has an Ethereum *)
(* API, as every worker started with --ethereum-* options.                 *)
(***************************************************************************)
EXTENDS Integers, Sequences

CONSTANTS
    Peers,        \* nodes this one may be connected to
    Operators,    \* concurrent requests to the management server
    MinConf,      \* minimumConfirmations of EnigmaContractWriterAPI
    MaxOrphans,   \* bound on transactions in the pool nobody waits for
    MaxCommands   \* bound on init commands typed during an initialisation

MaxInits == MaxCommands + 1
Self(i)  == i     \* the register that the i-th initialisation issues
Nobody   == 0     \* a block without a transaction of this worker
Orphan   == -1    \* a block with a transaction nobody waits for

ASSUME WorkerInitAssumption ==
    /\ MinConf \in Nat
    /\ MaxOrphans \in Nat
    /\ MaxCommands \in Nat
    /\ Operators \intersect (Orphan..MaxInits) = {}

VARIABLES
    up,           \* the process is running
    auto,         \* extraConfig.init: --auto-init
    peers,        \* connectionManager._peerValues
    initialized,  \* _workerInitialzied
    inProgress,   \* _workerInitInProgress
    inits,        \* one entry per InitWorkerAction that passed its guard
    commands,     \* init commands typed while an initialisation was in progress
    listening,    \* NewEpoch handlers of the controller, each with a self topic
    ops,          \* registration actions, one slot per caller
    orphans,      \* transactions sent by a caller that no longer waits
    window        \* the worker's record in the last MinConf + 1 blocks

nodeVars  == <<up, auto, peers>>
initVars  == <<initialized, inProgress, inits, commands, listening>>
chainVars == <<orphans, window>>
vars == <<nodeVars, initVars, ops, chainVars>>

-----------------------------------------------------------------------------
Callers == Operators \union (1..MaxInits)
Kinds == {"register", "login", "logout", "unregister"}
WorkerStatus == {"Unregistered", "LoggedIn", "LoggedOut"}

InitSteps == {"sync", "announce", "params", "decide", "register", "end", "stuck",
              "hung"}
OpSteps == {"idle", "keys", "read", "decide", "send", "pool", "mined",
            "hung", "ok", "err"}
IdleOp == [kind |-> "login", pc |-> "idle", seen |-> "Unregistered", alone |-> FALSE]

Running(c) == ops[c].pc \notin {"idle", "ok", "err"}
Current == window[1].status
(* getWorker and getSelfWorker read the state MinConf blocks back. *)
Confirmed == window[MinConf + 1].status

TypeOK ==
    /\ up \in BOOLEAN /\ auto \in BOOLEAN
    /\ peers \subseteq Peers
    /\ initialized \in BOOLEAN /\ inProgress \in BOOLEAN
    /\ inits \in Seq(InitSteps)
    /\ commands \in 0..MaxCommands
    /\ listening \in Nat
    /\ ops \in [Callers -> [kind: Kinds, pc: OpSteps, seen: WorkerStatus, alone: BOOLEAN]]
    /\ orphans \in Seq(Kinds) /\ Len(orphans) <= MaxOrphans
    /\ window \in Seq([status: WorkerStatus, by: Callers \union {Nobody, Orphan}])
    /\ Len(window) = MinConf + 1

Init ==
    /\ up = FALSE /\ auto = FALSE
    /\ peers = {}
    /\ initialized = FALSE /\ inProgress = FALSE
    /\ inits = <<>> /\ commands = 0 /\ listening = 0
    /\ ops = [c \in Callers |-> IdleOp]
    /\ orphans = <<>>
    /\ \E s \in WorkerStatus :
         window = [i \in 1..(MinConf + 1) |-> [status |-> s, by |-> Nobody]]

-----------------------------------------------------------------------------
(* The controller's flags and InitWorkerAction.execute. *)
CanInitWorker_Busy == ~initialized
CanInitWorker == ~initialized /\ ~inProgress

(* ReceiveAllPipelineAction._running, as far as an initialisation set it. *)
SyncRunning == \E i \in DOMAIN inits : inits[i] \in {"sync", "stuck"}

(* Only an initialised worker skips it.  Beside a synchronisation that runs,   *)
(* the new one is refused at once, and the refusal ends the waterfall, which   *)
(* calls initWorkerDone whether a step failed or not.                          *)
InitWorker ==
    /\ IF initialized
         THEN UNCHANGED <<initialized, inProgress, inits>>
       ELSE IF SyncRunning
         THEN /\ inits' = Append(inits, "end")
              /\ initialized' = TRUE
              /\ inProgress' = FALSE
         ELSE /\ inits' = Append(inits, "sync")
              /\ inProgress' = TRUE
              /\ UNCHANGED initialized
    /\ UNCHANGED listening

InitWorkerDone(i) ==
    /\ inits' = [inits EXCEPT ![i] = "end"]
    /\ initialized' = TRUE
    /\ inProgress' = FALSE

(* CLI._setup: a lonely node does not wait for a peer. *)
Setup(lonely) ==
    IF lonely THEN InitWorker /\ UNCHANGED commands ELSE UNCHANGED initVars

(* The CLI's init command, at any time: unlike a new peer it does not ask      *)
(* canInitWorker.                                                              *)
InitCommand ==
    /\ up /\ (inProgress => commands < MaxCommands)
    /\ InitWorker
    /\ commands' = IF inProgress THEN commands + 1 ELSE commands
    /\ UNCHANGED <<nodeVars, ops, chainVars>>

(* EnvironmentBuilder.build, followed by _setup in the same turn. *)
Build ==
    /\ ~up
    /\ up' = TRUE
    /\ \E init, lonely \in BOOLEAN :
         /\ auto' = init
         /\ Setup(init /\ lonely)
    /\ UNCHANGED <<peers, ops, chainVars>>

(* A dial of ours or of the peer succeeded: onPeerConnect, NewPeerAction. *)
Connected(p) ==
    /\ up /\ p \notin peers
    /\ peers' = peers \union {p}
    /\ IF auto /\ CanInitWorker
         THEN InitWorker /\ UNCHANGED commands
         ELSE UNCHANGED initVars
    /\ UNCHANGED <<up, auto, ops, chainVars>>

Disconnected(p) ==
    /\ p \in peers
    /\ peers' = peers \ {p}
    /\ UNCHANGED <<up, auto, initVars, ops, chainVars>>

-----------------------------------------------------------------------------
(* The waterfall: syncState, announceState, backgroundServices, registerWorker. *)
SyncEnds(i) ==
    /\ inits[i] = "sync"
    /\ \/ /\ inits' = [inits EXCEPT ![i] = "announce"]
          /\ UNCHANGED <<initialized, inProgress>>
       \/ InitWorkerDone(i)
    /\ UNCHANGED <<nodeVars, commands, listening, ops, chainVars>>

(* AnnounceLocalStateAction answers without an error, whatever was declared; the *)
(* background services start in the same turn.                                  *)
AnnounceEnds(i) ==
    /\ inits[i] = "announce"
    /\ inits' = [inits EXCEPT ![i] = "params"]
    /\ listening' = listening + 1
    /\ UNCHANGED <<nodeVars, initialized, inProgress, commands, ops, chainVars>>

(* A synchronisation whose peer never answers does not end (StateSync!Hang), and *)
(* an answer of core without addresses throws in the callback of GET_ALL_ADDRS.  *)
InitHangs(i) ==
    /\ \/ inits[i] = "sync" /\ inits' = [inits EXCEPT ![i] = "stuck"]
       \/ inits[i] = "announce" /\ inits' = [inits EXCEPT ![i] = "hung"]
    /\ UNCHANGED <<nodeVars, initialized, inProgress, commands, listening, ops, chainVars>>

(* Actions started while an operation waits make its outcome a shared one. *)
Started(c, kind, pc) ==
    [d \in Callers |->
       IF d = c
         THEN [kind |-> kind, pc |-> pc, seen |-> "Unregistered",
               alone |-> /\ \A e \in Callers \ {c} : ~Running(e)
                         /\ orphans = <<>>
                         /\ \A j \in DOMAIN window : window[j].by # Orphan]
         ELSE [ops[d] EXCEPT !.alone = FALSE]]

(* The first thing each action waits for: core's registration parameters, the  *)
(* transaction, or the worker's record.                                       *)
RegisterAction(c)   == ops' = Started(c, "register", "keys")
LoginAction(c)      == ops' = Started(c, "login", "send")
LogoutAction(c)     == ops' = Started(c, "logout", "read")
UnregisterAction(c) == ops' = Started(c, "unregister", "read")

GetWorkerParams(i) ==
    /\ inits[i] = "params"
    /\ \/ InitWorkerDone(i)    \* the read failed, or the worker is registered
       \/ /\ Confirmed = "Unregistered"
          /\ inits' = [inits EXCEPT ![i] = "decide"]
          /\ UNCHANGED <<initialized, inProgress>>
    /\ UNCHANGED <<nodeVars, commands, listening, ops, chainVars>>

RegisterWorker(i) ==
    /\ inits[i] = "decide" /\ ~Running(Self(i))
    /\ RegisterAction(Self(i))
    /\ inits' = [inits EXCEPT ![i] = "register"]
    /\ UNCHANGED <<nodeVars, initialized, inProgress, commands, listening, chainVars>>

(* The failure of the registration is only logged. *)
WorkerRegistered_ErrorKept(i) ==
    /\ inits[i] = "register" /\ ops[Self(i)].pc = "ok"
    /\ InitWorkerDone(i)
    /\ ops' = [ops EXCEPT ![Self(i)] = IdleOp]
    /\ UNCHANGED <<nodeVars, commands, listening, chainVars>>

WorkerRegistered(i) ==
    /\ inits[i] = "register" /\ ops[Self(i)].pc \in {"ok", "err"}
    /\ InitWorkerDone(i)
    /\ ops' = [ops EXCEPT ![Self(i)] = IdleOp]
    /\ UNCHANGED <<nodeVars, commands, listening, chainVars>>

-----------------------------------------------------------------------------
(* Registration actions.  Set(c, pc) moves the action of c on; what it did is *)
(* forgotten with its answer.                                                 *)
Set(c, pc) ==
    ops' = IF pc \in {"ok", "err", "hung"}
             THEN [ops EXCEPT ![c] = [IdleOp EXCEPT !.pc = pc]]
             ELSE [ops EXCEPT ![c].pc = pc]

PerformAction(c) ==
    /\ up /\ ~Running(c)
    /\ RegisterAction(c) \/ LoginAction(c) \/ LogoutAction(c) \/ UnregisterAction(c)
    /\ UNCHANGED <<nodeVars, initVars, chainVars>>

(* RegisterAction: an answer of core without a result throws in the callback. *)
RegistrationParams(c) ==
    /\ ops[c].pc = "keys"
    /\ Set(c, "send") \/ Set(c, "hung")
    /\ UNCHANGED <<nodeVars, initVars, chainVars>>

(* The status is parsed from the string the contract call returns. *)
GetWorker_Unparsed(c) ==
    /\ ops[c].pc = "read"
    /\ ops' = [ops EXCEPT ![c].pc = "decide", ![c].seen = "raw"]
    /\ UNCHANGED <<nodeVars, initVars, chainVars>>

GetWorker(c) ==
    /\ ops[c].pc = "read"
    /\ \/ ops' = [ops EXCEPT ![c].pc = "decide", ![c].seen = Confirmed]
       \/ Set(c, "err")
    /\ UNCHANGED <<nodeVars, initVars, chainVars>>

(* What LogoutAction and UnregisterAction take for already done. *)
AlreadyDone_NotLoggedIn(kind, status) ==
    \/ kind = "logout" /\ status # "LoggedIn"
    \/ kind = "unregister" /\ status = "Unregistered"

AlreadyDone(kind, status) ==
    \/ kind = "logout" /\ status = "LoggedOut"
    \/ kind = "unregister" /\ status = "Unregistered"

DecideToSend(c) ==
    /\ ops[c].pc = "decide"
    /\ IF AlreadyDone(ops[c].kind, ops[c].seen)
         THEN Set(c, "ok")
         ELSE ops' = [ops EXCEPT ![c].pc = "send", ![c].seen = "Unregistered"]
    /\ UNCHANGED <<nodeVars, initVars, chainVars>>

(* EnigmaContractWriterAPI: sign and send; a refused transaction rejects. *)
SendTransaction(c) ==
    /\ ops[c].pc = "send"
    /\ Set(c, "pool") \/ Set(c, "err")
    /\ UNCHANGED <<nodeVars, initVars, chainVars>>

Register(c)   == ops[c].kind = "register" /\ SendTransaction(c)
Login(c)      == ops[c].kind = "login" /\ SendTransaction(c)
Logout(c)     == ops[c].kind = "logout" /\ SendTransaction(c)
Unregister(c) == ops[c].kind = "unregister" /\ SendTransaction(c)

(* The confirmation event number MinConf, or the receipt when MinConf is 0. *)
TxConfirmed_OnReceipt(c) ==
    /\ ops[c].pc = "mined"
    /\ Set(c, "ok")
    /\ UNCHANGED <<nodeVars, initVars, chainVars>>

TxConfirmed(c) ==
    /\ ops[c].pc = "mined"
    /\ \A j \in 1..MinConf : window[j].by # c
    /\ Set(c, "ok")
    /\ UNCHANGED <<nodeVars, initVars, chainVars>>

(* web3 gives up on a transaction, which may still be mined (or dropped). *)
LeaveToPool(kinds) ==
    LET all == orphans \o kinds
    IN  orphans' = SubSeq(all, 1, IF Len(all) > MaxOrphans THEN MaxOrphans ELSE Len(all))

TxTimeout(c) ==
    /\ ops[c].pc = "pool" /\ Len(orphans) < MaxOrphans
    /\ Set(c, "err")
    /\ LeaveToPool(<<ops[c].kind>>)
    /\ UNCHANGED <<nodeVars, initVars, window>>

-----------------------------------------------------------------------------
(* The contract (external): what a call does to the worker's record. *)
Accepts(kind, s) ==
    CASE kind = "register" -> s = "Unregistered"
      [] kind = "login" -> s = "LoggedOut"
      [] kind = "logout" -> s = "LoggedIn"
      [] kind = "unregister" -> s # "Unregistered"

Target(kind) ==
    CASE kind = "login" -> "LoggedIn"
      [] kind = "unregister" -> "Unregistered"
      [] OTHER -> "LoggedOut"

NewBlock(status, by) ==
    window' = [j \in 1..(MinConf + 1) |->
                 CASE j = 1 -> [status |-> status, by |-> IF MinConf = 0 THEN Nobody ELSE by]
                   [] j \in 2..MinConf -> window[j - 1]
                   [] OTHER -> [window[j - 1] EXCEPT !.by = Nobody]]

EmptyBlock ==
    /\ NewBlock(Current, Nobody)
    /\ UNCHANGED <<nodeVars, initVars, ops, orphans>>

(* At most one transaction of the worker in a block; a call may revert for    *)
(* reasons outside the record (stake, gas, a signing key already used), which  *)
(* is the error event of its promise.                                         *)
MineTransaction(c) ==
    /\ ops[c].pc = "pool"
    /\ \/ /\ Accepts(ops[c].kind, Current)
          /\ Set(c, "mined") /\ NewBlock(Target(ops[c].kind), c)
       \/ Set(c, "err") /\ NewBlock(Current, Nobody)
    /\ UNCHANGED <<nodeVars, initVars, orphans>>

MineOrphan ==
    /\ orphans # <<>>
    /\ orphans' = Tail(orphans)
    /\ \/ /\ Accepts(Head(orphans), Current)
          /\ NewBlock(Target(Head(orphans)), Orphan)
       \/ NewBlock(Current, Nobody)
    /\ UNCHANGED <<nodeVars, initVars, ops>>

-----------------------------------------------------------------------------
(* SIGTERM, an uncaught exception, --logout-and-exit, or a crash. *)
InPool == {<<ops[c].kind>> : c \in {d \in Callers : ops[d].pc = "pool"}}

Stop ==
    /\ up
    /\ up' = FALSE /\ auto' = FALSE /\ peers' = {}
    /\ initialized' = FALSE /\ inProgress' = FALSE
    /\ inits' = <<>> /\ commands' = 0 /\ listening' = 0
    /\ ops' = [c \in Callers |-> IdleOp]
    /\ \E kinds \in InPool \union {<<>>} : LeaveToPool(kinds)
    /\ window' = [j \in DOMAIN window |->
                    IF window[j].by \in Callers THEN [window[j] EXCEPT !.by = Orphan]
                    ELSE window[j]]

-----------------------------------------------------------------------------
InitStep ==
    \E i \in DOMAIN inits : \/ SyncEnds(i)
                            \/ InitHangs(i)
                            \/ AnnounceEnds(i)
                            \/ GetWorkerParams(i)
                            \/ RegisterWorker(i)
                            \/ WorkerRegistered(i)

OpStep(c) ==
    \/ RegistrationParams(c)
    \/ GetWorker(c)
    \/ DecideToSend(c)
    \/ Register(c) \/ Login(c) \/ Logout(c) \/ Unregister(c)
    \/ TxConfirmed(c)

Next ==
    \/ Build
    \/ InitCommand
    \/ \E p \in Peers : Connected(p) \/ Disconnected(p)
    \/ InitStep
    \/ \E c \in Operators : PerformAction(c)
    \/ \E c \in Callers : OpStep(c) \/ TxTimeout(c) \/ MineTransaction(c)
    \/ EmptyBlock
    \/ MineOrphan
    \/ Stop

(* Pending callbacks are run, blocks are produced and take up transactions.   *)
(* Nothing makes a peer connect, an operator act or the process stop.         *)
Fairness ==
    /\ WF_vars(InitStep)
    /\ \A c \in Callers : WF_vars(OpStep(c) \/ MineTransaction(c))
    /\ WF_vars(EmptyBlock)

Spec == Init /\ [][Next]_vars /\ Fairness

-----------------------------------------------------------------------------
(* One initialisation per life of the process, however many peers connect    *)
(* while it runs or after it, plus one for each init command typed while one  *)
(* is in progress and none once the worker is initialised.  Each listens to   *)
(* the epochs and to the worker's own topic at most once                      *)
(* (InitWorkerAction.js:72-95).  The two flags of NodeController say whether  *)
(* one of them has ended, failed steps included.                              *)
OneInitialization ==
    /\ inits # <<>> => Len(inits) = 1 + commands
    /\ listening <= Len(inits)
    /\ initialized = (\E i \in DOMAIN inits : inits[i] = "end")
    /\ inProgress = (inits # <<>> /\ ~initialized)

(* When every action has been answered, the status read MinConf blocks back   *)
(* (getSelfWorker) is the one the contract has now: an answer of register,    *)
(* login, logout or unregister waits until the reads of this worker see it.   *)
QuietChainIsRead ==
    /\ \A c \in Callers : ops[c].pc # "mined"
    /\ \A j \in DOMAIN window : window[j].by # Orphan
    => Confirmed = Current

(* An action that had the worker to itself and answers success leaves the     *)
(* record in the state it is named for, also when it found nothing to do      *)
(* (LogoutAction, UnregisterAction) from a read that lags MinConf blocks.     *)
LoneActionTakesEffect ==
    [][\A c \in Callers :
         /\ ops[c].pc \in {"decide", "mined"}
         /\ ops'[c].pc = "ok"
         /\ ops[c].alone
         => Current = Target(ops[c].kind)]_vars

(* An initialisation ends, with or without error, unless the synchronisation  *)
(* or core left it without an answer or the process stops.                    *)
InitEnds ==
    [](inProgress => <>(\/ ~inProgress
                        \/ \E i \in DOMAIN inits :
                             \/ inits[i] \in {"stuck", "hung"}
                             \/ ops[Self(i)].pc = "hung"))

=============================================================================
