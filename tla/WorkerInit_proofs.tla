------------------------- MODULE WorkerInit_proofs -------------------------
(***************************************************************************)
(* Theorems about WorkerInit: one initialisation per life of the process,  *)
(* and what a registration action that answers has done to the worker's    *)
(* record, for any peers, operators and number of confirmations.           *)
(***************************************************************************)
EXTENDS WorkerInit, SequenceTheorems, FiniteSetTheorems, TLAPS

\* An initialisation that has not reached its background services.
Quiet == {"sync", "announce", "stuck", "hung"}
Loud(seq) == {i \in DOMAIN seq : seq[i] \notin Quiet}

\* A stopped process runs no initialisation, and only the ones past their
\* announcement listen.
LifeInv ==
    /\ ~up => inits = <<>>
    /\ inits = <<>> => commands = 0
    /\ listening <= Cardinality(Loud(inits))

\* A block keeps its sender only while the action waits for its confirmation,
\* and over blocks without a transaction of the worker the record stays.
WindowInv ==
    /\ \A j \in 1..(MinConf + 1) : window[j].by \in Callers => ops[window[j].by].pc = "mined"
    /\ window[MinConf + 1].by = Nobody
    /\ \A i, j \in 1..(MinConf + 1) :
          /\ i <= j
          /\ \A k \in 1..MinConf : i <= k /\ k < j => window[k].by = Nobody
          => window[i].status = window[j].status

\* While an action is alone nobody else can change the record.
LoneInv ==
    \A c \in Callers : ops[c].alone =>
        /\ Running(c) /\ \A d \in Callers \ {c} : ~Running(d)
        /\ orphans = <<>> /\ \A j \in 1..(MinConf + 1) : window[j].by # Orphan
        /\ ops[c].pc = "decide" => ops[c].seen = Current
        /\ ops[c].pc = "mined" => Current = Target(ops[c].kind)

\* The two halves of the state: the process and its initialisation, and the
\* actions on the worker's record.
NodeTypes ==
    /\ up \in BOOLEAN /\ auto \in BOOLEAN
    /\ peers \subseteq Peers
    /\ initialized \in BOOLEAN /\ inProgress \in BOOLEAN
    /\ inits \in Seq(InitSteps) /\ commands \in 0..MaxCommands /\ listening \in Nat

NodeInv ==
    /\ NodeTypes
    /\ OneInitialization
    /\ LifeInv

RecordTypes ==
    /\ ops \in [Callers -> [kind: Kinds, pc: OpSteps, seen: WorkerStatus, alone: BOOLEAN]]
    /\ orphans \in Seq(Kinds) /\ Len(orphans) <= MaxOrphans
    /\ window \in Seq([status: WorkerStatus, by: Callers \union {Nobody, Orphan}])
    /\ Len(window) = MinConf + 1

RecordInv ==
    /\ RecordTypes
    /\ WindowInv
    /\ LoneInv

IInv == NodeInv /\ RecordInv
-----------------------------------------------------------------------------
(* Facts about constants and operators.                                    *)

Op    == [kind: Kinds, pc: OpSteps, seen: WorkerStatus, alone: BOOLEAN]
Block == [status: WorkerStatus, by: Callers \union {Nobody, Orphan}]
Depth == MinConf + 1

LEMMA Names ==
    /\ \A i \in 1..MaxInits : Self(i) \in Callers
    /\ Nobody \notin Callers /\ Orphan \notin Callers /\ Nobody # Orphan
    /\ Operators \subseteq Callers
<1>1. Nobody \in Orphan..MaxInits /\ Orphan \in Orphan..MaxInits /\ Nobody # Orphan
  BY WorkerInitAssumption DEF Nobody, Orphan, MaxInits
<1>2. Nobody \notin 1..MaxInits /\ Orphan \notin 1..MaxInits
  BY WorkerInitAssumption DEF Nobody, Orphan, MaxInits
<1>3. Nobody \notin Operators /\ Orphan \notin Operators
  BY <1>1, WorkerInitAssumption
<1>. QED
  BY <1>1, <1>2, <1>3 DEF Callers, Self

LEMMA DepthIsNat == Depth \in Nat /\ 1 \in 1..Depth /\ Depth \in 1..Depth /\ MinConf \in Nat
  BY WorkerInitAssumption DEF Depth

LEMMA WindowRange ==
    ASSUME RecordTypes
    PROVE  DOMAIN window = 1..Depth /\ window \in [1..Depth -> Block]
<1>1. window \in Seq(Block) /\ Len(window) = Depth
  BY DEF RecordTypes, Depth, Block
<1>. QED
  BY <1>1, LenProperties

\* An action that moves on keeps what it did; one that answers forgets it.
LEMMA SetStep ==
    ASSUME RecordTypes, NEW c \in Callers, NEW s \in OpSteps, Set(c, s)
    PROVE  /\ ops' \in [Callers -> Op]
           /\ \A d \in Callers \ {c} : ops'[d] = ops[d]
           /\ ops'[c].pc = s
           /\ s \in {"ok", "err", "hung"} => ~ops'[c].alone
           /\ s \notin {"ok", "err", "hung"} =>
                 /\ ops'[c].kind = ops[c].kind
                 /\ ops'[c].seen = ops[c].seen
                 /\ ops'[c].alone = ops[c].alone
<1>1. ops \in [Callers -> Op]
  BY DEF RecordTypes, Op
<1>2. CASE s \in {"ok", "err", "hung"}
  <2>1. ops' = [ops EXCEPT ![c] = [IdleOp EXCEPT !.pc = s]]
    BY <1>2 DEF Set
  <2>2. /\ [IdleOp EXCEPT !.pc = s] \in Op
        /\ [IdleOp EXCEPT !.pc = s].pc = s /\ ~[IdleOp EXCEPT !.pc = s].alone
    BY DEF IdleOp, Op, Kinds, WorkerStatus
  <2>. QED
    BY <1>1, <1>2, <2>1, <2>2
<1>3. CASE s \notin {"ok", "err", "hung"}
  <2>1. ops' = [ops EXCEPT ![c] = [ops[c] EXCEPT !.pc = s]]
    BY <1>3 DEF Set
  <2>2. /\ [ops[c] EXCEPT !.pc = s] \in Op
        /\ [ops[c] EXCEPT !.pc = s].pc = s
        /\ [ops[c] EXCEPT !.pc = s].kind = ops[c].kind
        /\ [ops[c] EXCEPT !.pc = s].seen = ops[c].seen
        /\ [ops[c] EXCEPT !.pc = s].alone = ops[c].alone
    BY <1>1 DEF Op
  <2>. QED
    BY <1>1, <1>3, <2>1, <2>2
<1>. QED
  BY <1>2, <1>3

\* An action that starts is alone only where nothing of the worker is under way.
LEMMA StartStep ==
    ASSUME RecordTypes, NEW c \in Callers, NEW k \in Kinds, NEW s \in {"keys", "send", "read"},
           ops' = Started(c, k, s)
    PROVE  /\ ops' \in [Callers -> Op]
           /\ \A d \in Callers \ {c} : ops'[d].pc = ops[d].pc /\ ~ops'[d].alone
           /\ ops'[c].pc = s
           /\ ops'[c].alone => /\ \A e \in Callers \ {c} : ~Running(e)
                               /\ orphans = <<>>
                               /\ \A j \in DOMAIN window : window[j].by # Orphan
<1>1. ops \in [Callers -> Op]
  BY DEF RecordTypes, Op
<1>2. ops'[c] = [kind |-> k, pc |-> s, seen |-> "Unregistered",
                 alone |-> /\ \A e \in Callers \ {c} : ~Running(e)
                           /\ orphans = <<>>
                           /\ \A j \in DOMAIN window : window[j].by # Orphan]
  BY DEF Started
<1>3. ops'[c] \in Op
  BY <1>2 DEF Op, OpSteps, WorkerStatus
<1>4. ASSUME NEW d \in Callers \ {c}
      PROVE  ops'[d] \in Op /\ ops'[d].pc = ops[d].pc /\ ~ops'[d].alone
  <2>1. ops'[d] = [ops[d] EXCEPT !.alone = FALSE]
    BY <1>4 DEF Started
  <2>. QED
    BY <1>1, <2>1 DEF Op
<1>5. ops' = [d \in Callers |-> ops'[d]]
  BY DEF Started
<1>6. ops' \in [Callers -> Op]
  BY <1>3, <1>4, <1>5
<1>. QED
  BY <1>2, <1>4, <1>6

\* A block pushes the record of the worker one block back.
LEMMA BlockStep ==
    ASSUME RecordTypes, NEW s \in WorkerStatus, NEW b \in Callers \union {Nobody, Orphan},
           NewBlock(s, b)
    PROVE  /\ window' \in [1..Depth -> Block]
           /\ window' \in Seq(Block) /\ Len(window') = Depth /\ DOMAIN window' = 1..Depth
           /\ window'[1].status = s
           /\ window'[1].by = IF MinConf = 0 THEN Nobody ELSE b
           /\ \A j \in 2..Depth :
                 /\ window'[j].status = window[j - 1].status
                 /\ window'[j].by = IF j = Depth THEN Nobody ELSE window[j - 1].by
<1>. USE WorkerInitAssumption DEF Depth
<1>1. window \in [1..Depth -> Block]
  BY WindowRange
<1>2. window' = [j \in 1..Depth |-> window'[j]]
  BY DEF NewBlock
<1>3. window'[1] = [status |-> s, by |-> IF MinConf = 0 THEN Nobody ELSE b]
  BY DEF NewBlock
<1>4. ASSUME NEW j \in 2..Depth
      PROVE  /\ window'[j] \in Block
             /\ window'[j].status = window[j - 1].status
             /\ window'[j].by = IF j = Depth THEN Nobody ELSE window[j - 1].by
  <2>1. window[j - 1] \in Block /\ j \in 1..Depth /\ j # 1
    BY <1>1
  <2>2. CASE j \in 2..MinConf
    BY <2>1, <2>2 DEF NewBlock
  <2>3. CASE j \notin 2..MinConf
    <3>1. j = Depth
      BY <2>3
    <3>2. window'[j] = [window[j - 1] EXCEPT !.by = Nobody]
      BY <2>1, <2>3 DEF NewBlock
    <3>. QED
      BY <2>1, <3>1, <3>2 DEF Block
  <2>. QED
    BY <2>2, <2>3
<1>5. window'[1] \in Block
  BY <1>3 DEF Block
<1>6. \A j \in 1..Depth : j = 1 \/ j \in 2..Depth
  OBVIOUS
<1>7. window' \in [1..Depth -> Block]
  BY <1>2, <1>4, <1>5, <1>6
<1>8. window' \in Seq(Block) /\ Len(window') = Depth /\ DOMAIN window' = 1..Depth
  BY <1>7
<1>. QED
  BY <1>3, <1>4, <1>7, <1>8

-----------------------------------------------------------------------------
(* The process and its initialisation.                                     *)

\* The entries of inits are numbered from 1, and there is one for every command
\* typed in progress besides the first.
LEMMA Entries ==
    ASSUME NodeInv
    PROVE  /\ DOMAIN inits = 1..Len(inits) /\ Len(inits) \in Nat /\ inits \in Seq(InitSteps)
           /\ \A i \in DOMAIN inits : inits[i] \in InitSteps
           /\ inits # <<>> => Len(inits) = 1 + commands
           /\ inits = <<>> <=> Len(inits) = 0
           /\ Len(inits) <= MaxInits
<1>1. inits \in Seq(InitSteps) /\ commands \in 0..MaxCommands
  BY DEF NodeInv, NodeTypes
<1>2. /\ DOMAIN inits = 1..Len(inits) /\ Len(inits) \in Nat
      /\ \A i \in DOMAIN inits : inits[i] \in InitSteps
      /\ inits = <<>> <=> Len(inits) = 0
  BY <1>1, LenProperties, ElementOfSeq, EmptySeq
<1>3. inits # <<>> => Len(inits) = 1 + commands
  BY DEF NodeInv, OneInitialization
<1>4. Len(inits) <= MaxInits
  <2>1. MaxCommands \in Nat
    BY WorkerInitAssumption
  <2>2. CASE inits = <<>>
    BY <1>2, <2>1, <2>2 DEF MaxInits
  <2>3. CASE inits # <<>>
    BY <1>1, <1>3, <2>1, <2>3 DEF MaxInits
  <2>. QED
    BY <2>2, <2>3
<1>. QED
  BY <1>1, <1>2, <1>3, <1>4

LEMMA Flags ==
    ASSUME NEW seq, NEW done \in BOOLEAN, NEW progress \in BOOLEAN,
           done <=> \E i \in DOMAIN seq : seq[i] = "end",
           progress <=> seq # <<>> /\ ~done
    PROVE  /\ done = (\E i \in DOMAIN seq : seq[i] = "end")
           /\ progress = (seq # <<>> /\ ~done)
<1>1. CASE done
  BY <1>1, Zenon
<1>2. CASE ~done
  <2>1. CASE seq = <<>>
    BY <1>2, <2>1, Zenon
  <2>2. CASE seq # <<>>
    BY <1>2, <2>2, Zenon
  <2>. QED
    BY <2>1, <2>2
<1>. QED
  BY <1>1, <1>2

LEMMA FlagsMean ==
    ASSUME NodeInv
    PROVE  /\ initialized <=> \E i \in DOMAIN inits : inits[i] = "end"
           /\ inProgress <=> inits # <<>> /\ ~initialized
  BY Zenon DEF NodeInv, OneInitialization

\* A longer list of initialisations, or one that moved on, has as many that listen.
LEMMA MoreLoud ==
    ASSUME NEW s \in Seq(InitSteps), NEW t \in Seq(InitSteps), Loud(s) \subseteq Loud(t)
    PROVE  /\ IsFiniteSet(Loud(s)) /\ IsFiniteSet(Loud(t))
           /\ Cardinality(Loud(s)) \in Nat /\ Cardinality(Loud(t)) \in Nat
           /\ Cardinality(Loud(s)) <= Cardinality(Loud(t))
           /\ Cardinality(Loud(t)) <= Len(t)
           /\ \A i \in Loud(t) \ Loud(s) : Cardinality(Loud(s)) + 1 <= Cardinality(Loud(t))
<1>1. DOMAIN t = 1..Len(t) /\ Len(t) \in Nat
  BY LenProperties
<1>2. IsFiniteSet(1..Len(t)) /\ Cardinality(1..Len(t)) = Len(t)
  <2>1. 1 \in Int /\ Len(t) \in Int
    BY <1>1
  <2>2. IsFiniteSet(1..Len(t))
    BY <2>1, FS_Interval
  <2>3. Cardinality(1..Len(t)) = IF 1 > Len(t) THEN 0 ELSE Len(t) - 1 + 1
    BY <2>1, FS_Interval
  <2>. QED
    BY <1>1, <2>2, <2>3
<1>3. Loud(t) \subseteq 1..Len(t)
  BY <1>1 DEF Loud
<1>4. IsFiniteSet(Loud(t)) /\ Cardinality(Loud(t)) <= Len(t)
  BY <1>2, <1>3, FS_Subset
<1>5. IsFiniteSet(Loud(s)) /\ Cardinality(Loud(s)) <= Cardinality(Loud(t))
  BY <1>4, FS_Subset
<1>6. Cardinality(Loud(s)) \in Nat /\ Cardinality(Loud(t)) \in Nat
  BY <1>4, <1>5, FS_CardinalityType
<1>7. ASSUME NEW i \in Loud(t) \ Loud(s)
      PROVE  Cardinality(Loud(s)) + 1 <= Cardinality(Loud(t))
  <2>1. Cardinality(Loud(s) \union {i}) = Cardinality(Loud(s)) + 1
    BY <1>5, FS_AddElement
  <2>2. Loud(s) \union {i} \subseteq Loud(t)
    OBVIOUS
  <2>3. Cardinality(Loud(s) \union {i}) <= Cardinality(Loud(t))
    BY <1>4, <2>2, FS_Subset
  <2>. QED
    BY <2>1, <2>3
<1>. QED
  BY <1>4, <1>5, <1>6, <1>7

\* What keeps the invariant, whether an initialisation starts or moves on.
LEMMA Assemble ==
    ASSUME NodeInv, up' \in BOOLEAN, auto' \in BOOLEAN, peers' \subseteq Peers, up',
           initialized' \in BOOLEAN, inProgress' \in BOOLEAN,
           inits' \in Seq(InitSteps), inits' # <<>>,
           commands' \in 0..MaxCommands, Len(inits') = 1 + commands',
           initialized' <=> \E i \in DOMAIN inits' : inits'[i] = "end",
           inProgress' <=> ~initialized',
           Loud(inits) \subseteq Loud(inits'), listening' \in Nat,
           \/ listening' = listening
           \/ listening' = listening + 1 /\ \E i \in Loud(inits') : i \notin Loud(inits)
    PROVE  NodeInv'
<1>1. NodeTypes'
  BY DEF NodeTypes
<1>2. inits \in Seq(InitSteps) /\ listening \in Nat /\ listening <= Cardinality(Loud(inits))
  BY DEF NodeInv, NodeTypes, LifeInv
<1>3. listening' <= Cardinality(Loud(inits')) /\ Cardinality(Loud(inits')) <= Len(inits')
      /\ Cardinality(Loud(inits')) \in Nat
  <2>1. /\ Cardinality(Loud(inits)) \in Nat /\ Cardinality(Loud(inits')) \in Nat
        /\ Cardinality(Loud(inits)) <= Cardinality(Loud(inits'))
        /\ Cardinality(Loud(inits')) <= Len(inits')
        /\ \A i \in Loud(inits') \ Loud(inits) : Cardinality(Loud(inits)) + 1 <= Cardinality(Loud(inits'))
    BY <1>2, MoreLoud
  <2>2. CASE listening' = listening
    BY <1>2, <2>1, <2>2
  <2>3. CASE listening' = listening + 1 /\ \E i \in Loud(inits') : i \notin Loud(inits)
    BY <1>2, <2>1, <2>3
  <2>. QED
    BY <2>1, <2>2, <2>3
<1>4. OneInitialization'
  <2>1. /\ initialized' = (\E i \in DOMAIN inits' : inits'[i] = "end")
        /\ inProgress' = (inits' # <<>> /\ ~initialized')
    BY Flags
  <2>2. listening' <= Len(inits')
    <3>1. Len(inits') \in Nat
      BY LenProperties
    <3>2. \A l, m, n \in Nat : l <= m /\ m <= n => l <= n
      OBVIOUS
    <3>. QED
      BY <1>3, <3>1, <3>2, Zenon
  <2>. QED
    BY <2>1, <2>2, Zenon DEF OneInitialization
<1>5. LifeInv'
  BY <1>3 DEF LifeInv
<1>. QED
  BY <1>1, <1>4, <1>5 DEF NodeInv

\* InitWorker, where it starts an initialisation: the first, or one beside others.
LEMMA InitWorkerStarts ==
    ASSUME NodeInv, ~initialized, InitWorker, up', up' \in BOOLEAN, auto' \in BOOLEAN,
           peers' \subseteq Peers, commands' \in 0..MaxCommands,
           commands' = Len(inits)
    PROVE  NodeInv'
<1>1. /\ DOMAIN inits = 1..Len(inits) /\ Len(inits) \in Nat /\ inits \in Seq(InitSteps)
  BY Entries
<1>2. PICK s \in {"sync", "end"} :
         /\ inits' = Append(inits, s) /\ UNCHANGED listening
         /\ initialized' \in BOOLEAN /\ inProgress' \in BOOLEAN
         /\ (initialized' <=> s = "end") /\ (inProgress' <=> ~initialized')
  <2>1. CASE SyncRunning
    BY <2>1 DEF InitWorker, NodeInv, NodeTypes
  <2>2. CASE ~SyncRunning
    BY <2>2 DEF InitWorker, NodeInv, NodeTypes
  <2>. QED
    BY <2>1, <2>2
<1>3. /\ inits' \in Seq(InitSteps) /\ Len(inits') = Len(inits) + 1
      /\ \A i \in 1..Len(inits) : inits'[i] = inits[i]
      /\ inits'[Len(inits) + 1] = s
  BY <1>1, <1>2, AppendProperties DEF InitSteps
<1>4. DOMAIN inits' = 1..(Len(inits) + 1) /\ inits' # <<>>
  BY <1>1, <1>3, LenProperties, EmptySeq
<1>5. initialized' <=> \E i \in DOMAIN inits' : inits'[i] = "end"
  <2>1. ASSUME NEW i \in DOMAIN inits', inits'[i] = "end" PROVE s = "end"
    <3>1. i \in DOMAIN inits \/ i = Len(inits) + 1
      BY <1>1, <1>4
    <3>2. \A j \in DOMAIN inits : inits[j] # "end"
      BY FlagsMean
    <3>. QED
      BY <1>1, <1>3, <2>1, <3>1, <3>2
  <2>2. Len(inits) + 1 \in DOMAIN inits'
    BY <1>1, <1>4
  <2>. QED
    BY <1>2, <1>3, <2>1, <2>2
<1>6. Loud(inits) \subseteq Loud(inits')
  BY <1>1, <1>3, <1>4 DEF Loud
<1>7. Len(inits') = 1 + commands' /\ listening' \in Nat
  BY <1>1, <1>2, <1>3 DEF NodeInv, NodeTypes
<1>. QED
  BY <1>2, <1>3, <1>4, <1>5, <1>6, <1>7, Assemble

\* A step of the waterfall.
LEMMA MoveOn ==
    ASSUME NodeInv, NEW i \in DOMAIN inits, NEW s \in InitSteps, inits[i] # "end",
           inits' = [inits EXCEPT ![i] = s],
           UNCHANGED <<up, auto, peers, commands>>,
           initialized' \in BOOLEAN, inProgress' \in BOOLEAN,
           initialized' <=> (initialized \/ s = "end"), inProgress' <=> ~initialized',
           s \in Quiet => inits[i] \in Quiet,
           \/ listening' = listening
           \/ listening' = listening + 1 /\ inits[i] \in Quiet /\ s \notin Quiet
    PROVE  NodeInv'
<1>1. /\ DOMAIN inits = 1..Len(inits) /\ Len(inits) \in Nat /\ inits \in Seq(InitSteps)
      /\ inits # <<>> => Len(inits) = 1 + commands
      /\ inits = <<>> <=> Len(inits) = 0
  BY Entries
<1>2. /\ inits' \in Seq(InitSteps) /\ Len(inits') = Len(inits)
      /\ \A j \in 1..Len(inits) : inits'[j] = IF j = i THEN s ELSE inits[j]
  BY <1>1, ExceptSeq
<1>3. DOMAIN inits' = DOMAIN inits /\ inits' # <<>> /\ inits # <<>>
  BY <1>1, <1>2, LenProperties, EmptySeq
<1>4. initialized' <=> \E j \in DOMAIN inits' : inits'[j] = "end"
  <2>1. initialized <=> \E j \in DOMAIN inits : inits[j] = "end"
    BY FlagsMean
  <2>. QED
    BY <1>1, <1>2, <1>3, <2>1
<1>5. Loud(inits) \subseteq Loud(inits')
  BY <1>1, <1>2, <1>3 DEF Loud
<1>6. \/ listening' = listening
      \/ listening' = listening + 1 /\ \E j \in Loud(inits') : j \notin Loud(inits)
  <2>1. inits[i] \in Quiet /\ s \notin Quiet => i \in Loud(inits') /\ i \notin Loud(inits)
    BY <1>1, <1>2, <1>3 DEF Loud
  <2>. QED
    BY <2>1
<1>7. /\ up' \in BOOLEAN /\ auto' \in BOOLEAN /\ peers' \subseteq Peers /\ up'
      /\ commands' \in 0..MaxCommands /\ listening' \in Nat /\ Len(inits') = 1 + commands'
  BY <1>1, <1>2, <1>3 DEF NodeInv, NodeTypes, LifeInv
<1>. QED
  BY <1>2, <1>3, <1>4, <1>5, <1>6, <1>7, Assemble

LEMMA NodeFrame ==
    ASSUME NodeInv, UNCHANGED initVars, up' \in BOOLEAN, auto' \in BOOLEAN,
           peers' \subseteq Peers, up => up'
    PROVE  NodeInv'
  BY DEF NodeInv, NodeTypes, initVars, OneInitialization, LifeInv

LEMMA NothingRuns ==
    ASSUME NEW s, s = <<>>
    PROVE  DOMAIN s = {} /\ Len(s) = 0 /\ s \in Seq(InitSteps) /\ Cardinality(Loud(s)) = 0
<1>1. DOMAIN s = {} /\ Len(s) = 0 /\ s \in Seq(InitSteps)
  OBVIOUS
<1>2. Loud(s) = {}
  BY <1>1 DEF Loud
<1>. QED
  BY <1>1, <1>2, FS_EmptySet

LEMMA ProcessInduction ==
    ASSUME NodeInv,
           Build \/ Stop \/ InitCommand \/ \E p \in Peers : Connected(p) \/ Disconnected(p)
    PROVE  NodeInv'
<1>. USE DEF nodeVars
<1>0. NodeTypes
  BY DEF NodeInv
<1>1. CASE Build
  <2>1. PICK init \in BOOLEAN, lonely \in BOOLEAN : auto' = init /\ Setup(init /\ lonely)
    BY <1>1 DEF Build
  <2>2. ~up /\ up' = TRUE /\ UNCHANGED peers
    BY <1>1 DEF Build
  <2>3. inits = <<>> /\ commands = 0 /\ Len(inits) = 0 /\ ~initialized
    <3>1. inits = <<>> /\ commands = 0
      BY <2>2 DEF NodeInv, LifeInv
    <3>. QED
      BY <3>1, FlagsMean, NothingRuns
  <2>4. CASE init /\ lonely
    <3>1. InitWorker /\ UNCHANGED commands
      BY <2>1, <2>4 DEF Setup
    <3>. QED
      BY <1>0, <2>1, <2>2, <2>3, <3>1, InitWorkerStarts DEF NodeTypes
  <2>5. CASE ~(init /\ lonely)
    <3>1. UNCHANGED initVars
      BY <2>1, <2>5 DEF Setup
    <3>. QED
      BY <1>0, <2>1, <2>2, <3>1, NodeFrame DEF NodeTypes
  <2>. QED
    BY <2>4, <2>5
<1>2. CASE Stop
  <2>1. /\ inits' = <<>> /\ commands' = 0 /\ listening' = 0
        /\ initialized' = FALSE /\ inProgress' = FALSE
        /\ up' = FALSE /\ auto' = FALSE /\ peers' = {}
    BY <1>2 DEF Stop
  <2>2. /\ DOMAIN inits' = {} /\ Len(inits') = 0 /\ inits' \in Seq(InitSteps)
        /\ Cardinality(Loud(inits')) = 0
    BY <2>1, NothingRuns
  <2>3. OneInitialization'
    <3>1. /\ initialized' = (\E i \in DOMAIN inits' : inits'[i] = "end")
          /\ inProgress' = (inits' # <<>> /\ ~initialized')
      BY <2>1, <2>2, Flags
    <3>2. listening' <= Len(inits')
      BY <2>1, <2>2
    <3>. QED
      BY <2>1, <3>1, <3>2, Zenon DEF OneInitialization
  <2>4. 0 \in 0..MaxCommands /\ 0 \in Nat /\ 0 <= 0
    BY WorkerInitAssumption
  <2>5. NodeTypes'
    BY <2>1, <2>2, <2>4 DEF NodeTypes
  <2>6. LifeInv'
    BY <2>1, <2>2, <2>4, Zenon DEF LifeInv
  <2>. QED
    BY <2>3, <2>5, <2>6 DEF NodeInv
<1>3. ASSUME NEW p \in Peers, Disconnected(p)
      PROVE  NodeInv'
  BY <1>0, <1>3, NodeFrame DEF Disconnected, NodeTypes
<1>4. ASSUME NEW p \in Peers, Connected(p)
      PROVE  NodeInv'
  <2>1. /\ up /\ UNCHANGED <<up, auto>> /\ peers' \subseteq Peers
    BY <1>0, <1>4 DEF Connected, NodeTypes
  <2>2. CASE auto /\ CanInitWorker
    <3>1. InitWorker /\ UNCHANGED commands /\ ~initialized /\ ~inProgress
      BY <1>4, <2>2 DEF Connected, CanInitWorker
    <3>2. inits = <<>>
      BY <3>1, FlagsMean
    <3>3. commands = 0 /\ Len(inits) = 0
      BY <3>2, NothingRuns DEF NodeInv, LifeInv
    <3>. QED
      BY <1>0, <2>1, <3>1, <3>3, InitWorkerStarts DEF NodeTypes
  <2>3. CASE ~(auto /\ CanInitWorker)
    <3>1. UNCHANGED initVars
      BY <1>4, <2>3 DEF Connected
    <3>. QED
      BY <1>0, <2>1, <3>1, NodeFrame DEF NodeTypes
  <2>. QED
    BY <2>2, <2>3
<1>5. CASE InitCommand
  <2>1. /\ up /\ UNCHANGED <<up, auto, peers>> /\ InitWorker
        /\ inProgress => commands < MaxCommands
        /\ commands' = IF inProgress THEN commands + 1 ELSE commands
    BY <1>5 DEF InitCommand
  <2>2. CASE initialized
    <3>1. ~inProgress
      BY <2>2, FlagsMean
    <3>2. UNCHANGED initVars
      BY <2>1, <2>2, <3>1 DEF InitWorker, initVars
    <3>. QED
      BY <1>0, <2>1, <3>2, NodeFrame DEF NodeTypes
  <2>3. CASE ~initialized
    <3>1. commands' \in 0..MaxCommands
      BY <1>0, <2>1, WorkerInitAssumption DEF NodeTypes
    <3>2. commands' = Len(inits)
      <4>1. CASE inits = <<>>
        BY <2>1, <4>1, FlagsMean, NothingRuns DEF NodeInv, LifeInv
      <4>2. CASE inits # <<>>
        <5>1. inProgress
          BY <2>3, <4>2, FlagsMean
        <5>2. Len(inits) = 1 + commands /\ commands \in Nat
          <6>1. commands \in 0..MaxCommands
            BY <1>0 DEF NodeTypes
          <6>2. Len(inits) = 1 + commands
            BY <4>2, Entries
          <6>. QED
            BY <6>1, <6>2
        <5>. QED
          BY <2>1, <5>1, <5>2
      <4>. QED
        BY <4>1, <4>2
    <3>. QED
      BY <1>0, <2>1, <2>3, <3>1, <3>2, InitWorkerStarts DEF NodeTypes
  <2>. QED
    BY <2>2, <2>3
<1>. QED
  BY <1>1, <1>2, <1>3, <1>4, <1>5

LEMMA InitInduction ==
    ASSUME NodeInv, InitStep
    PROVE  NodeInv'
<1>. USE DEF nodeVars
<1>1. PICK i \in DOMAIN inits : \/ SyncEnds(i) \/ InitHangs(i) \/ AnnounceEnds(i)
                                \/ GetWorkerParams(i) \/ RegisterWorker(i) \/ WorkerRegistered(i)
  BY DEF InitStep
<1>2. /\ initialized \in BOOLEAN /\ inProgress \in BOOLEAN
      /\ inits # <<>> /\ (inProgress <=> ~initialized)
  BY FlagsMean, Entries DEF NodeInv, NodeTypes
<1>3. ASSUME InitWorkerDone(i), inits[i] # "end", UNCHANGED <<up, auto, peers, commands, listening>>
      PROVE  NodeInv'
  <2>1. /\ inits' = [inits EXCEPT ![i] = "end"] /\ initialized' = TRUE /\ inProgress' = FALSE
    BY <1>3 DEF InitWorkerDone
  <2>. QED
    BY <1>3, <2>1, MoveOn DEF InitSteps, Quiet
<1>4. ASSUME NEW s \in InitSteps \ {"end"}, inits' = [inits EXCEPT ![i] = s],
             inits[i] # "end", s \in Quiet => inits[i] \in Quiet,
             UNCHANGED <<up, auto, peers, commands, initialized, inProgress>>,
             \/ listening' = listening
             \/ listening' = listening + 1 /\ inits[i] \in Quiet /\ s \notin Quiet
      PROVE  NodeInv'
  <2>1. /\ initialized' \in BOOLEAN /\ inProgress' \in BOOLEAN
        /\ (initialized' <=> (initialized \/ s = "end")) /\ (inProgress' <=> ~initialized')
    BY <1>2, <1>4
  <2>. QED
    BY <1>4, <2>1, MoveOn
<1>5. CASE SyncEnds(i)
  BY <1>3, <1>4, <1>5 DEF SyncEnds, InitSteps, Quiet
<1>6. CASE InitHangs(i)
  BY <1>4, <1>6 DEF InitHangs, InitSteps, Quiet
<1>7. CASE AnnounceEnds(i)
  BY <1>4, <1>7 DEF AnnounceEnds, InitSteps, Quiet
<1>8. CASE GetWorkerParams(i)
  BY <1>3, <1>4, <1>8 DEF GetWorkerParams, InitSteps, Quiet
<1>9. CASE RegisterWorker(i)
  BY <1>4, <1>9 DEF RegisterWorker, InitSteps, Quiet
<1>10. CASE WorkerRegistered(i)
  BY <1>3, <1>10 DEF WorkerRegistered
<1>. QED
  BY <1>1, <1>5, <1>6, <1>7, <1>8, <1>9, <1>10

-----------------------------------------------------------------------------
(* The actions on the worker's record.                                     *)

\* A step that leaves Ethereum alone and moves one action on, to a step from
\* which it has not yet learned anything of the record.
LEMMA OneMoves ==
    ASSUME RecordInv, NEW c \in Callers, Running(c), UNCHANGED chainVars,
           ops' \in [Callers -> Op], \A d \in Callers \ {c} : ops'[d] = ops[d],
           ops'[c].pc \notin {"decide", "mined"},
           ops'[c].alone => ops[c].alone /\ ops'[c].pc \notin {"idle", "ok", "err"},
           ops[c].pc # "mined" \/ \A j \in 1..MinConf : window[j].by # c
    PROVE  RecordInv'
<1>. USE DEF chainVars
<1>1. RecordTypes'
  BY DEF RecordInv, RecordTypes, Op
<1>2. WindowInv'
  <2>1. ASSUME NEW j \in 1..(MinConf + 1), window[j].by \in Callers
        PROVE  ops'[window[j].by].pc = "mined"
    <3>1. ops[window[j].by].pc = "mined" /\ window[MinConf + 1].by = Nobody
      BY <2>1 DEF RecordInv, WindowInv
    <3>2. j # MinConf + 1
      BY <2>1, <3>1, Names
    <3>3. j \in 1..MinConf
      BY <3>2, WorkerInitAssumption
    <3>4. window[j].by # c
      BY <3>1, <3>3
    <3>. QED
      BY <2>1, <3>1, <3>4
  <2>. QED
    BY <2>1 DEF RecordInv, WindowInv
<1>3. LoneInv'
  <2>1. SUFFICES ASSUME NEW d \in Callers, ops'[d].alone
                 PROVE  /\ Running(d)' /\ \A e \in Callers \ {d} : ~Running(e)'
                        /\ orphans = <<>> /\ \A j \in 1..(MinConf + 1) : window[j].by # Orphan
                        /\ ops'[d].pc = "decide" => ops'[d].seen = window[1].status
                        /\ ops'[d].pc = "mined" => window[1].status = Target(ops'[d].kind)
    BY DEF LoneInv, Current
  <2>2. ops[d].alone
    BY <2>1
  <2>3. /\ Running(d) /\ \A e \in Callers \ {d} : ~Running(e)
        /\ orphans = <<>> /\ \A j \in 1..(MinConf + 1) : window[j].by # Orphan
        /\ ops[d].pc = "decide" => ops[d].seen = window[1].status
        /\ ops[d].pc = "mined" => window[1].status = Target(ops[d].kind)
    BY <2>2 DEF RecordInv, LoneInv, Current
  <2>4. CASE d = c
    BY <2>1, <2>3, <2>4 DEF Running
  <2>5. CASE d # c
    BY <2>3, <2>5
  <2>. QED
    BY <2>4, <2>5
<1>. QED
  BY <1>1, <1>2, <1>3 DEF RecordInv

\* The answer that the initialisation was waiting for is forgotten.
LEMMA ForgetInduction ==
    ASSUME RecordInv, NEW c \in Callers, ~Running(c), UNCHANGED chainVars,
           ops' = [ops EXCEPT ![c] = IdleOp]
    PROVE  RecordInv'
<1>. USE DEF chainVars
<1>0. ops \in [Callers -> Op] /\ IdleOp \in Op /\ ~IdleOp.alone /\ IdleOp.pc = "idle"
  BY DEF RecordInv, RecordTypes, IdleOp, Op, Kinds, OpSteps, WorkerStatus
<1>1. /\ ops' \in [Callers -> Op] /\ \A d \in Callers \ {c} : ops'[d] = ops[d]
      /\ ops'[c].pc = "idle" /\ ~ops'[c].alone
  BY <1>0
<1>2. RecordTypes'
  BY <1>1 DEF RecordInv, RecordTypes, Op
<1>3. WindowInv'
  <2>1. \A d \in Callers : ops[d].pc = "mined" => d # c /\ ops'[d].pc = "mined"
    BY <1>1 DEF Running
  <2>. QED
    BY <2>1 DEF RecordInv, WindowInv
<1>4. LoneInv'
  <2>1. SUFFICES ASSUME NEW d \in Callers, ops'[d].alone
                 PROVE  /\ Running(d)' /\ \A e \in Callers \ {d} : ~Running(e)'
                        /\ orphans = <<>> /\ \A j \in 1..(MinConf + 1) : window[j].by # Orphan
                        /\ ops'[d].pc = "decide" => ops'[d].seen = window[1].status
                        /\ ops'[d].pc = "mined" => window[1].status = Target(ops'[d].kind)
    BY DEF LoneInv, Current
  <2>2. d # c /\ ops'[d] = ops[d]
    BY <1>1, <2>1
  <2>3. /\ Running(d) /\ \A e \in Callers \ {d} : ~Running(e)
        /\ orphans = <<>> /\ \A j \in 1..(MinConf + 1) : window[j].by # Orphan
        /\ ops[d].pc = "decide" => ops[d].seen = window[1].status
        /\ ops[d].pc = "mined" => window[1].status = Target(ops[d].kind)
    BY <2>1, <2>2 DEF RecordInv, LoneInv, Current
  <2>4. \A e \in Callers \ {d} : ~Running(e)'
    <3>1. ~Running(c)'
      BY <1>1 DEF Running
    <3>2. \A e \in Callers \ {c, d} : ~Running(e)'
      BY <1>1, <2>3 DEF Running
    <3>. QED
      BY <3>1, <3>2
  <2>. QED
    BY <2>2, <2>3, <2>4 DEF Running
<1>. QED
  BY <1>2, <1>3, <1>4 DEF RecordInv

\* Without an action that waits for its block and without an orphan, the record
\* is the same in the whole window.
LEMMA QuietWindow ==
    ASSUME RecordInv, \A c \in Callers : ops[c].pc # "mined",
           \A j \in 1..(MinConf + 1) : window[j].by # Orphan
    PROVE  Confirmed = Current
<1>1. \A k \in 1..MinConf : window[k].by = Nobody
  <2>1. ASSUME NEW k \in 1..MinConf PROVE window[k].by = Nobody
    <3>1. k \in 1..(MinConf + 1)
      BY WorkerInitAssumption
    <3>2. window[k].by \in Callers \union {Nobody, Orphan}
      BY <3>1, WindowRange DEF RecordInv, Block, Depth
    <3>. QED
      BY <3>1, <3>2 DEF RecordInv, WindowInv
  <2>. QED
    BY <2>1
<1>2. 1 \in 1..(MinConf + 1) /\ MinConf + 1 \in 1..(MinConf + 1) /\ 1 <= MinConf + 1
  BY WorkerInitAssumption
<1>. QED
  BY <1>1, <1>2 DEF RecordInv, WindowInv, Confirmed, Current

LEMMA StartInduction ==
    ASSUME RecordInv, NEW c \in Callers, ~Running(c), UNCHANGED chainVars,
           RegisterAction(c) \/ LoginAction(c) \/ LogoutAction(c) \/ UnregisterAction(c)
    PROVE  RecordInv'
<1>. USE DEF chainVars
<1>1. PICK k \in Kinds, s \in {"keys", "send", "read"} : ops' = Started(c, k, s)
  BY DEF RegisterAction, LoginAction, LogoutAction, UnregisterAction, Kinds
<1>2. /\ ops' \in [Callers -> Op]
      /\ \A d \in Callers \ {c} : ops'[d].pc = ops[d].pc /\ ~ops'[d].alone
      /\ ops'[c].pc = s
      /\ ops'[c].alone => /\ \A e \in Callers \ {c} : ~Running(e)
                          /\ orphans = <<>>
                          /\ \A j \in DOMAIN window : window[j].by # Orphan
  BY <1>1, StartStep DEF RecordInv
<1>3. RecordTypes'
  BY <1>2 DEF RecordInv, RecordTypes, Op
<1>4. WindowInv'
  <2>1. \A d \in Callers : ops[d].pc = "mined" => d # c /\ ops'[d].pc = "mined"
    BY <1>2 DEF Running
  <2>. QED
    BY <2>1 DEF RecordInv, WindowInv
<1>5. LoneInv'
  <2>1. SUFFICES ASSUME NEW d \in Callers, ops'[d].alone
                 PROVE  /\ Running(d)' /\ \A e \in Callers \ {d} : ~Running(e)'
                        /\ orphans = <<>> /\ \A j \in 1..(MinConf + 1) : window[j].by # Orphan
                        /\ ops'[d].pc \notin {"decide", "mined"}
    BY DEF LoneInv
  <2>2. d = c
    BY <1>2, <2>1
  <2>3. DOMAIN window = 1..(MinConf + 1)
    BY WindowRange DEF RecordInv, Depth
  <2>. QED
    BY <1>2, <2>1, <2>2, <2>3 DEF Running
<1>. QED
  BY <1>3, <1>4, <1>5 DEF RecordInv

LEMMA OpInduction ==
    ASSUME RecordInv, NEW c \in Callers, OpStep(c)
    PROVE  RecordInv'
<1>. USE DEF chainVars
<1>0. RecordTypes /\ UNCHANGED chainVars
  BY DEF RecordInv, OpStep, RegistrationParams, GetWorker, DecideToSend, Register, Login, Logout,
         Unregister, SendTransaction, TxConfirmed
<1>1. ASSUME NEW s \in OpSteps \ {"decide", "mined", "idle"}, Set(c, s), Running(c),
             ops[c].pc # "mined" \/ \A j \in 1..MinConf : window[j].by # c
      PROVE  RecordInv'
  <2>1. /\ ops' \in [Callers -> Op]
        /\ \A d \in Callers \ {c} : ops'[d] = ops[d]
        /\ ops'[c].pc = s
        /\ s \in {"ok", "err", "hung"} => ~ops'[c].alone
        /\ s \notin {"ok", "err", "hung"} => ops'[c].alone = ops[c].alone
    BY <1>0, <1>1, SetStep
  <2>. QED
    BY <1>0, <1>1, <2>1, OneMoves
<1>2. CASE RegistrationParams(c)
  BY <1>1, <1>2 DEF RegistrationParams, Running, OpSteps
<1>3. CASE GetWorker(c)
  <2>1. CASE Set(c, "err")
    BY <1>1, <1>3, <2>1 DEF GetWorker, Running, OpSteps
  <2>2. CASE ops' = [ops EXCEPT ![c].pc = "decide", ![c].seen = Confirmed]
    <3>1. ops \in [Callers -> Op] /\ ops[c].pc = "read" /\ Confirmed \in WorkerStatus
      BY <1>0, <1>3, WindowRange, WorkerInitAssumption DEF RecordTypes, Op, GetWorker, Confirmed,
         Block, Depth
    <3>2. ops' = [ops EXCEPT ![c] = [ops[c] EXCEPT !.pc = "decide", !.seen = Confirmed]]
      BY <2>2, <3>1 DEF Op
    <3>3. /\ [ops[c] EXCEPT !.pc = "decide", !.seen = Confirmed] \in Op
          /\ [ops[c] EXCEPT !.pc = "decide", !.seen = Confirmed].alone = ops[c].alone
          /\ [ops[c] EXCEPT !.pc = "decide", !.seen = Confirmed].pc = "decide"
          /\ [ops[c] EXCEPT !.pc = "decide", !.seen = Confirmed].seen = Confirmed
      BY <3>1 DEF Op, OpSteps
    <3>4. /\ ops' \in [Callers -> Op] /\ \A d \in Callers \ {c} : ops'[d] = ops[d]
          /\ ops'[c].pc = "decide" /\ ops'[c].seen = Confirmed /\ ops'[c].alone = ops[c].alone
      BY <3>1, <3>2, <3>3
    <3>5. RecordTypes'
      BY <1>0, <3>4 DEF RecordTypes, Op
    <3>6. WindowInv'
      <4>1. \A d \in Callers : ops[d].pc = "mined" => ops'[d].pc = "mined"
        BY <3>1, <3>4
      <4>. QED
        BY <1>0, <4>1 DEF RecordInv, WindowInv
    <3>7. LoneInv'
      <4>1. SUFFICES ASSUME NEW d \in Callers, ops'[d].alone
                     PROVE  /\ Running(d)' /\ \A e \in Callers \ {d} : ~Running(e)'
                            /\ orphans = <<>>
                            /\ \A j \in 1..(MinConf + 1) : window[j].by # Orphan
                            /\ ops'[d].pc = "decide" => ops'[d].seen = Current
                            /\ ops'[d].pc = "mined" => Current = Target(ops'[d].kind)
        BY <1>0 DEF LoneInv, Current
      <4>2. ops[d].alone
        BY <3>4, <4>1
      <4>3. /\ \A e \in Callers \ {d} : ~Running(e)
            /\ orphans = <<>> /\ \A j \in 1..(MinConf + 1) : window[j].by # Orphan
        BY <4>2 DEF RecordInv, LoneInv
      <4>4. d = c
        BY <3>1, <4>3 DEF Running
      <4>5. \A e \in Callers : ops[e].pc # "mined"
        BY <3>1, <4>3, <4>4 DEF Running
      <4>6. Confirmed = Current
        BY <4>3, <4>5, QuietWindow
      <4>. QED
        BY <3>4, <4>3, <4>4, <4>6 DEF Running
    <3>. QED
      BY <3>5, <3>6, <3>7 DEF RecordInv
  <2>. QED
    BY <1>3, <2>1, <2>2 DEF GetWorker
<1>4. CASE DecideToSend(c)
  <2>1. CASE Set(c, "ok")
    BY <1>1, <1>4, <2>1 DEF DecideToSend, Running, OpSteps
  <2>2. CASE ops' = [ops EXCEPT ![c].pc = "send", ![c].seen = "Unregistered"]
    <3>1. ops \in [Callers -> Op] /\ Running(c) /\ ops[c].pc # "mined"
      BY <1>0, <1>4 DEF RecordTypes, Op, DecideToSend, Running
    <3>2. ops' = [ops EXCEPT ![c] = [ops[c] EXCEPT !.pc = "send", !.seen = "Unregistered"]]
      BY <2>2, <3>1 DEF Op
    <3>3. /\ [ops[c] EXCEPT !.pc = "send", !.seen = "Unregistered"] \in Op
          /\ [ops[c] EXCEPT !.pc = "send", !.seen = "Unregistered"].alone = ops[c].alone
          /\ [ops[c] EXCEPT !.pc = "send", !.seen = "Unregistered"].pc = "send"
      BY <3>1 DEF Op, OpSteps, WorkerStatus
    <3>4. /\ ops' \in [Callers -> Op] /\ \A d \in Callers \ {c} : ops'[d] = ops[d]
          /\ ops'[c].pc = "send" /\ ops'[c].alone = ops[c].alone
      BY <3>1, <3>2, <3>3
    <3>. QED
      BY <1>0, <3>1, <3>4, OneMoves
  <2>. QED
    BY <1>4, <2>1, <2>2 DEF DecideToSend
<1>5. CASE SendTransaction(c)
  BY <1>1, <1>5 DEF SendTransaction, Running, OpSteps
<1>6. CASE TxConfirmed(c)
  BY <1>1, <1>6 DEF TxConfirmed, Running, OpSteps
<1>. QED
  BY <1>2, <1>3, <1>4, <1>5, <1>6 DEF OpStep, Register, Login, Logout, Unregister

LEMMA PoolTypes ==
    ASSUME RecordTypes, NEW kinds \in Seq(Kinds), LeaveToPool(kinds)
    PROVE  orphans' \in Seq(Kinds) /\ Len(orphans') <= MaxOrphans
<1>. DEFINE all == orphans \o kinds
            n == IF Len(all) > MaxOrphans THEN MaxOrphans ELSE Len(all)
<1>1. all \in Seq(Kinds)
  BY ConcatProperties DEF RecordTypes
<1>2. Len(all) \in Nat /\ \A i \in 1..Len(all) : all[i] \in Kinds
  BY <1>1, LenProperties, ElementOfSeq
<1>3. n \in Nat /\ n <= MaxOrphans /\ n <= Len(all)
  BY <1>2, WorkerInitAssumption
<1>4. orphans' = SubSeq(all, 1, n)
  BY DEF LeaveToPool
<1>. HIDE DEF all, n
<1>5. \A i \in 1..n : all[i] \in Kinds
  BY <1>2, <1>3
<1>6. 1 \in Int /\ n \in Int
  BY <1>3
<1>7. SubSeq(all, 1, n) \in Seq(Kinds) /\ Len(SubSeq(all, 1, n)) = IF 1 <= n THEN n - 1 + 1 ELSE 0
  BY <1>5, <1>6, SubSeqProperties
<1>. QED
  BY <1>3, <1>4, <1>7, WorkerInitAssumption

LEMMA TimeoutInduction ==
    ASSUME RecordInv, NEW c \in Callers, TxTimeout(c)
    PROVE  RecordInv'
<1>1. RecordTypes /\ Running(c) /\ ops[c].pc = "pool" /\ UNCHANGED window
  BY DEF RecordInv, TxTimeout, Running
<1>2. /\ ops' \in [Callers -> Op]
      /\ \A d \in Callers \ {c} : ops'[d] = ops[d]
      /\ ops'[c].pc = "err" /\ ~ops'[c].alone
  BY <1>1, SetStep DEF TxTimeout, OpSteps
<1>3. <<ops[c].kind>> \in Seq(Kinds) /\ LeaveToPool(<<ops[c].kind>>)
  BY <1>1 DEF RecordTypes, TxTimeout
<1>4. orphans' \in Seq(Kinds) /\ Len(orphans') <= MaxOrphans
  BY <1>1, <1>3, PoolTypes
<1>5. RecordTypes'
  BY <1>1, <1>2, <1>4 DEF RecordTypes, Op
<1>6. WindowInv'
  <2>1. \A d \in Callers : ops[d].pc = "mined" => ops'[d].pc = "mined"
    BY <1>1, <1>2
  <2>. QED
    BY <1>1, <2>1 DEF RecordInv, WindowInv
<1>7. \A d \in Callers : ~ops'[d].alone
  BY <1>1, <1>2 DEF RecordInv, LoneInv
<1>. QED
  BY <1>5, <1>6, <1>7 DEF RecordInv, LoneInv

\* A block with a transaction names who waits for it; one without keeps the record.
LEMMA BlockInduction ==
    ASSUME RecordInv, NEW s \in WorkerStatus, NEW b \in Callers \union {Nobody, Orphan},
           NewBlock(s, b), b = Nobody => s = Current, b \in Callers => ops'[b].pc = "mined",
           \A d \in Callers : ops[d].pc = "mined" => ops'[d].pc = "mined"
    PROVE  WindowInv'
<1>. USE WorkerInitAssumption DEF Depth
<1>0. RecordTypes
  BY DEF RecordInv
<1>1. /\ window'[1].status = s
      /\ window'[1].by = IF MinConf = 0 THEN Nobody ELSE b
      /\ \A j \in 2..Depth :
            /\ window'[j].status = window[j - 1].status
            /\ window'[j].by = IF j = Depth THEN Nobody ELSE window[j - 1].by
  BY <1>0, BlockStep
<1>2. \A j \in 1..Depth : j = 1 \/ (j \in 2..Depth /\ j - 1 \in 1..Depth)
  OBVIOUS
<1>3. \A j \in 1..Depth : window'[j].by \in Callers => ops'[window'[j].by].pc = "mined"
  BY <1>1, <1>2, Names DEF RecordInv, WindowInv
<1>4. window'[Depth].by = Nobody
  BY <1>1
<1>5. ASSUME NEW i \in 1..Depth, NEW j \in 1..Depth, i <= j,
             \A k \in 1..MinConf : i <= k /\ k < j => window'[k].by = Nobody
      PROVE  window'[i].status = window'[j].status
  <2>1. \A k \in 1..MinConf : i - 1 <= k /\ k < j - 1 => window[k].by = Nobody
    <3>1. ASSUME NEW k \in 1..MinConf, i - 1 <= k, k < j - 1
          PROVE  window[k].by = Nobody
      <4>1. k + 1 \in 1..MinConf /\ i <= k + 1 /\ k + 1 < j /\ k + 1 \in 2..Depth
            /\ k + 1 # Depth /\ (k + 1) - 1 = k
        BY <3>1
      <4>2. window'[k + 1].by = window[k].by
        BY <1>1, <4>1
      <4>. QED
        BY <1>5, <4>1, <4>2
    <3>. QED
      BY <3>1
  <2>2. CASE i = j
    BY <2>2
  <2>3. CASE i # j /\ i # 1
    <3>1. i - 1 \in 1..Depth /\ j - 1 \in 1..Depth /\ i - 1 <= j - 1
      BY <1>5, <2>3
    <3>2. window[i - 1].status = window[j - 1].status
      BY <2>1, <3>1 DEF RecordInv, WindowInv
    <3>3. i \in 2..Depth /\ j \in 2..Depth
      BY <1>5, <2>3
    <3>. QED
      BY <1>1, <3>2, <3>3
  <2>4. CASE i # j /\ i = 1
    <3>1. j \in 2..Depth /\ 1 \in 1..MinConf /\ 1 < j /\ 1 <= j - 1 /\ j - 1 \in 1..Depth
          /\ MinConf # 0 /\ 1 \in 1..Depth
      BY <1>5, <2>4
    <3>2. window'[1].by = Nobody
      BY <1>5, <2>4, <3>1
    <3>3. b = Nobody /\ window'[1].status = window[1].status
      BY <1>1, <3>1, <3>2 DEF Current
    <3>4. \A k \in 1..MinConf : 1 <= k /\ k < j - 1 => window[k].by = Nobody
      BY <2>1, <2>4
    <3>5. window[1].status = window[j - 1].status
      BY <3>1, <3>4 DEF RecordInv, WindowInv
    <3>. QED
      BY <1>1, <2>4, <3>1, <3>3, <3>5
  <2>. QED
    BY <2>2, <2>3, <2>4
<1>. QED
  BY <1>3, <1>4, <1>5 DEF WindowInv

LEMMA StatusTypes ==
    ASSUME RecordTypes
    PROVE  /\ Current \in WorkerStatus
           /\ \A k \in Kinds : Target(k) \in WorkerStatus
<1>1. Current \in WorkerStatus
  BY WindowRange, DepthIsNat DEF Current, Block
<1>. QED
  BY <1>1 DEF Target, WorkerStatus

LEMMA MineInduction ==
    ASSUME RecordInv,
           EmptyBlock \/ MineOrphan \/ \E c \in Callers : MineTransaction(c)
    PROVE  RecordInv'
<1>. USE WorkerInitAssumption, Names, StatusTypes DEF Depth
<1>0. RecordTypes
  BY DEF RecordInv
<1>1. CASE EmptyBlock
  <2>1. NewBlock(Current, Nobody) /\ UNCHANGED <<ops, orphans>>
    BY <1>1 DEF EmptyBlock
  <2>2. WindowInv'
    BY <1>0, <2>1, BlockInduction
  <2>3. /\ window' \in Seq(Block) /\ Len(window') = Depth /\ window'[1].status = Current
        /\ window'[1].by = Nobody
        /\ \A j \in 2..Depth : window'[j].by = IF j = Depth THEN Nobody ELSE window[j - 1].by
    BY <1>0, <2>1, BlockStep
  <2>4. RecordTypes'
    BY <1>0, <2>1, <2>3 DEF RecordTypes, Block
  <2>5. LoneInv'
    <3>1. ASSUME \A j \in 1..Depth : window[j].by # Orphan
          PROVE  \A j \in 1..Depth : window'[j].by # Orphan
      <4>1. \A j \in 1..Depth : j = 1 \/ (j \in 2..Depth /\ j - 1 \in 1..Depth)
        OBVIOUS
      <4>. QED
        BY <2>3, <3>1, <4>1
    <3>. QED
      BY <2>1, <2>3, <3>1 DEF RecordInv, LoneInv, Running, Current
  <2>. QED
    BY <2>2, <2>4, <2>5 DEF RecordInv
<1>2. CASE MineOrphan
  <2>1. /\ orphans \in Seq(Kinds) /\ orphans # <<>> /\ orphans' = Tail(orphans) /\ UNCHANGED ops
    BY <1>0, <1>2 DEF MineOrphan, RecordTypes
  <2>2. PICK s \in WorkerStatus, b \in {Nobody, Orphan} : NewBlock(s, b) /\ (b = Nobody => s = Current)
    <3>1. Head(orphans) \in Kinds
      BY <2>1, HeadTailProperties
    <3>. QED
      BY <1>0, <1>2, <3>1 DEF MineOrphan
  <2>3. WindowInv'
    BY <1>0, <2>1, <2>2, BlockInduction
  <2>4. orphans' \in Seq(Kinds) /\ Len(orphans') = Len(orphans) - 1 /\ Len(orphans) \in Nat
    BY <2>1, HeadTailProperties, LenProperties
  <2>5. window' \in Seq(Block) /\ Len(window') = Depth
    BY <1>0, <2>2, BlockStep
  <2>6. Len(orphans') <= MaxOrphans
    BY <1>0, <2>4 DEF RecordTypes
  <2>7. RecordTypes'
    BY <1>0, <2>1, <2>4, <2>5, <2>6 DEF RecordTypes, Block
  <2>8. LoneInv'
    BY <2>1 DEF RecordInv, LoneInv
  <2>. QED
    BY <2>3, <2>7, <2>8 DEF RecordInv
<1>3. ASSUME NEW c \in Callers, MineTransaction(c)
      PROVE  RecordInv'
  <2>1. /\ ops[c].pc = "pool" /\ Running(c) /\ UNCHANGED orphans /\ ops[c].kind \in Kinds
    BY <1>0, <1>3 DEF MineTransaction, Running, RecordTypes
  <2>2. PICK p \in {"mined", "err"}, s \in WorkerStatus, b \in {Nobody, c} :
           /\ Set(c, p) /\ NewBlock(s, b) /\ (b = Nobody => s = Current)
           /\ (b = c => p = "mined") /\ (p = "mined" => s = Target(ops[c].kind))
    BY <1>0, <1>3, <2>1 DEF MineTransaction
  <2>3. /\ ops' \in [Callers -> Op]
        /\ \A d \in Callers \ {c} : ops'[d] = ops[d]
        /\ ops'[c].pc = p
        /\ p = "mined" => ops'[c].kind = ops[c].kind /\ ops'[c].alone = ops[c].alone
        /\ p = "err" => ~ops'[c].alone
    BY <1>0, <2>2, SetStep DEF OpSteps
  <2>4. WindowInv'
    <3>1. \A d \in Callers : ops[d].pc = "mined" => ops'[d].pc = "mined"
      BY <2>1, <2>3
    <3>. QED
      BY <1>0, <2>2, <2>3, <3>1, BlockInduction
  <2>5. /\ window' \in Seq(Block) /\ Len(window') = Depth /\ window'[1].status = s
        /\ window'[1].by \in {Nobody, c}
        /\ \A j \in 2..Depth : window'[j].by = IF j = Depth THEN Nobody ELSE window[j - 1].by
    BY <1>0, <2>2, BlockStep
  <2>6. RecordTypes'
    BY <1>0, <2>1, <2>3, <2>5 DEF RecordTypes, Block, Op
  <2>7. LoneInv'
    <3>1. SUFFICES ASSUME NEW d \in Callers, ops'[d].alone
                   PROVE  /\ Running(d)' /\ \A e \in Callers \ {d} : ~Running(e)'
                          /\ orphans = <<>>
                          /\ \A j \in 1..Depth : window'[j].by # Orphan
                          /\ ops'[d].pc # "decide"
                          /\ ops'[d].pc = "mined" => s = Target(ops'[d].kind)
      BY <2>1, <2>5 DEF LoneInv, Current
    <3>2. ops[d].alone /\ (d = c => p = "mined")
      BY <2>3, <3>1
    <3>3. /\ \A e \in Callers \ {d} : ~Running(e)
          /\ orphans = <<>> /\ \A j \in 1..Depth : window[j].by # Orphan
      BY <3>2 DEF RecordInv, LoneInv
    <3>4. d = c
      BY <2>1, <3>3
    <3>5. \A j \in 1..Depth : window'[j].by # Orphan
      <4>1. \A j \in 1..Depth : j = 1 \/ (j \in 2..Depth /\ j - 1 \in 1..Depth)
        OBVIOUS
      <4>. QED
        BY <2>5, <3>3, <4>1
    <3>6. Running(d)' /\ \A e \in Callers \ {d} : ~Running(e)'
      BY <2>3, <3>2, <3>3, <3>4 DEF Running
    <3>. QED
      BY <2>2, <2>3, <3>2, <3>3, <3>4, <3>5, <3>6
  <2>. QED
    BY <2>4, <2>6, <2>7 DEF RecordInv
<1>. QED
  BY <1>1, <1>2, <1>3

LEMMA StopInduction ==
    ASSUME RecordInv, Stop
    PROVE  RecordInv'
<1>. USE WorkerInitAssumption, Names DEF Depth
<1>0. RecordTypes
  BY DEF RecordInv
<1>1. window \in [1..Depth -> Block] /\ DOMAIN window = 1..Depth
  BY <1>0, WindowRange
<1>2. window' = [j \in 1..Depth |-> IF window[j].by \in Callers
                                    THEN [window[j] EXCEPT !.by = Orphan] ELSE window[j]]
  BY <1>1 DEF Stop
<1>3. \A j \in 1..Depth : /\ window'[j] \in Block
                          /\ window'[j].by \notin Callers
                          /\ window'[j].status = window[j].status
                          /\ window[j].by \notin Callers => window'[j].by = window[j].by
                          /\ window'[j].by = Nobody => window[j].by = Nobody
  <2>1. ASSUME NEW j \in 1..Depth, window[j].by \in Callers
        PROVE  /\ window'[j] \in Block /\ window'[j].by = Orphan
               /\ window'[j].status = window[j].status
    BY <1>1, <1>2, <2>1 DEF Block
  <2>2. ASSUME NEW j \in 1..Depth, window[j].by \notin Callers
        PROVE  window'[j] = window[j]
    BY <1>2, <2>2
  <2>. QED
    BY <1>1, <2>1, <2>2
<1>4. window' \in Seq(Block) /\ Len(window') = Depth
  <2>1. window' \in [1..Depth -> Block]
    BY <1>2, <1>3
  <2>. QED
    BY <2>1
<1>5. ops' = [c \in Callers |-> IdleOp] /\ IdleOp \in Op /\ ~IdleOp.alone
  BY DEF Stop, IdleOp, Op, Kinds, OpSteps, WorkerStatus
<1>6. orphans' \in Seq(Kinds) /\ Len(orphans') <= MaxOrphans
  <2>1. PICK kinds \in InPool \union {<<>>} : LeaveToPool(kinds)
    BY DEF Stop
  <2>2. kinds \in Seq(Kinds)
    <3>1. CASE kinds = <<>>
      BY <3>1
    <3>2. CASE kinds # <<>>
      <4>1. PICK c \in Callers : kinds = <<ops[c].kind>>
        BY <2>1, <3>2 DEF InPool
      <4>2. ops[c].kind \in Kinds
        BY <1>0 DEF RecordTypes
      <4>. QED
        BY <4>1, <4>2
    <3>. QED
      BY <3>1, <3>2
  <2>. QED
    BY <1>0, <2>1, <2>2, PoolTypes
<1>7. RecordTypes'
  BY <1>4, <1>5, <1>6 DEF RecordTypes, Block, Op
<1>8. WindowInv'
  <2>1. window'[Depth].by = Nobody
    BY <1>3 DEF RecordInv, WindowInv
  <2>2. ASSUME NEW i \in 1..Depth, NEW j \in 1..Depth, i <= j,
               \A k \in 1..MinConf : i <= k /\ k < j => window'[k].by = Nobody
        PROVE  window'[i].status = window'[j].status
    <3>1. \A k \in 1..MinConf : i <= k /\ k < j => window[k].by = Nobody
      BY <1>3, <2>2
    <3>2. window[i].status = window[j].status
      BY <2>2, <3>1 DEF RecordInv, WindowInv
    <3>. QED
      BY <1>3, <3>2
  <2>. QED
    BY <1>3, <2>1, <2>2 DEF WindowInv
<1>9. LoneInv'
  BY <1>5 DEF LoneInv
<1>. QED
  BY <1>7, <1>8, <1>9 DEF RecordInv

-----------------------------------------------------------------------------
(* The inductive invariant and what it gives.                              *)

LEMMA RecordFrame == RecordInv /\ UNCHANGED <<ops, chainVars>> => RecordInv'
<1>. SUFFICES ASSUME RecordInv, UNCHANGED <<ops, chainVars>> PROVE RecordInv'
  OBVIOUS
<1>1. UNCHANGED <<ops, orphans, window>>
  BY DEF chainVars
<1>2. RecordTypes' /\ WindowInv'
  BY <1>1 DEF RecordInv, RecordTypes, WindowInv
<1>3. LoneInv'
  BY <1>1 DEF RecordInv, LoneInv, Running, Current
<1>. QED
  BY <1>2, <1>3 DEF RecordInv

LEMMA InitialInvariant == Init => IInv
<1>. SUFFICES ASSUME Init PROVE IInv
  OBVIOUS
<1>. USE WorkerInitAssumption DEF Depth
<1>1. NodeInv
  <2>1. /\ inits = <<>> /\ commands = 0 /\ listening = 0
        /\ initialized = FALSE /\ inProgress = FALSE
    BY DEF Init
  <2>2. /\ DOMAIN inits = {} /\ Len(inits) = 0 /\ inits \in Seq(InitSteps)
        /\ Cardinality(Loud(inits)) = 0
    BY <2>1, NothingRuns
  <2>3. OneInitialization
    <3>1. /\ initialized = (\E i \in DOMAIN inits : inits[i] = "end")
          /\ inProgress = (inits # <<>> /\ ~initialized)
      BY <2>1, <2>2, Flags
    <3>2. listening <= Len(inits)
      BY <2>1, <2>2
    <3>. QED
      BY <2>1, <3>1, <3>2, Zenon DEF OneInitialization
  <2>4. 0 \in 0..MaxCommands /\ 0 \in Nat /\ 0 <= 0
    OBVIOUS
  <2>5. NodeTypes
    BY <2>1, <2>2, <2>4 DEF Init, NodeTypes
  <2>6. LifeInv
    BY <2>1, <2>2, <2>4, Zenon DEF LifeInv
  <2>. QED
    BY <2>3, <2>5, <2>6 DEF NodeInv
<1>2. ops \in [Callers -> Op] /\ \A c \in Callers : ~ops[c].alone
  BY DEF Init, IdleOp, Op, Kinds, OpSteps, WorkerStatus
<1>3. PICK s \in WorkerStatus :
         window = [i \in 1..(MinConf + 1) |-> [status |-> s, by |-> Nobody]]
  BY DEF Init
<1>4. window \in Seq(Block) /\ Len(window) = Depth
  <2>1. window \in [1..Depth -> Block]
    BY <1>3 DEF Block
  <2>. QED
    BY <2>1
<1>5. RecordTypes
  BY <1>2, <1>4 DEF Init, RecordTypes, Block, Op
<1>6. WindowInv
  BY <1>3, Names DEF WindowInv
<1>7. LoneInv
  BY <1>2 DEF LoneInv
<1>. QED
  BY <1>1, <1>5, <1>6, <1>7 DEF IInv, RecordInv

LEMMA NodeInduction ==
    ASSUME NodeInv, [Next]_vars
    PROVE  NodeInv'
<1>. USE DEF nodeVars, initVars
<1>1. CASE Build \/ Stop \/ InitCommand \/ \E p \in Peers : Connected(p) \/ Disconnected(p)
  BY <1>1, ProcessInduction
<1>2. CASE InitStep
  BY <1>2, InitInduction
<1>3. CASE \/ \E c \in Operators : PerformAction(c)
           \/ \E c \in Callers : OpStep(c) \/ TxTimeout(c) \/ MineTransaction(c)
           \/ EmptyBlock \/ MineOrphan \/ UNCHANGED vars
  <2>1. UNCHANGED <<nodeVars, initVars>>
    BY <1>3 DEF PerformAction, OpStep, RegistrationParams, GetWorker, DecideToSend, Register, Login,
       Logout, Unregister, SendTransaction, TxConfirmed, TxTimeout, MineTransaction,
       EmptyBlock, MineOrphan, vars
  <2>. QED
    BY <2>1, NodeFrame DEF NodeInv, NodeTypes
<1>. QED
  BY <1>1, <1>2, <1>3 DEF Next

LEMMA RecordInduction ==
    ASSUME NodeInv, RecordInv, [Next]_vars
    PROVE  RecordInv'
<1>1. CASE \E c \in Operators : PerformAction(c)
  BY <1>1, StartInduction, Names DEF PerformAction
<1>2. CASE \E i \in DOMAIN inits : RegisterWorker(i) \/ WorkerRegistered(i)
  <2>1. PICK i \in DOMAIN inits : RegisterWorker(i) \/ WorkerRegistered(i)
    BY <1>2
  <2>2. Self(i) \in Callers
    <3>1. i \in 1..MaxInits
      BY Entries, WorkerInitAssumption DEF MaxInits
    <3>. QED
      BY <3>1, Names
  <2>3. CASE RegisterWorker(i)
    BY <2>2, <2>3, StartInduction DEF RegisterWorker
  <2>4. CASE WorkerRegistered(i)
    BY <2>2, <2>4, ForgetInduction DEF WorkerRegistered, Running
  <2>. QED
    BY <2>1, <2>3, <2>4
<1>3. CASE \E c \in Callers : OpStep(c) \/ TxTimeout(c) \/ MineTransaction(c)
  BY <1>3, OpInduction, TimeoutInduction, MineInduction
<1>4. CASE EmptyBlock \/ MineOrphan
  BY <1>4, MineInduction
<1>5. CASE Stop
  BY <1>5, StopInduction
<1>6. CASE \/ Build \/ InitCommand
           \/ \E p \in Peers : Connected(p) \/ Disconnected(p)
           \/ \E i \in DOMAIN inits : \/ SyncEnds(i) \/ InitHangs(i) \/ AnnounceEnds(i)
                                      \/ GetWorkerParams(i)
           \/ UNCHANGED vars
  <2>1. UNCHANGED <<ops, chainVars>>
    BY <1>6 DEF Build, InitCommand, Connected, Disconnected, SyncEnds, InitHangs,
       AnnounceEnds, GetWorkerParams, vars
  <2>. QED
    BY <2>1, RecordFrame
<1>. QED
  BY <1>1, <1>2, <1>3, <1>4, <1>5, <1>6 DEF Next, InitStep

\* The invariant the others follow from: the flags follow the entries of
\* inits, blocks name who waits for them, and nobody else can move the record
\* while an action is alone.
THEOREM Invariance == Spec => []IInv
<1>1. IInv /\ [Next]_vars => IInv'
  BY NodeInduction, RecordInduction DEF IInv
<1>. QED
  BY InitialInvariant, <1>1, PTL DEF Spec

\* The state of the process, of its initialisation and of the registration
\* actions keeps its type, the pool of abandoned transactions its bound.
THEOREM TypeCorrect == Spec => []TypeOK
<1>1. IInv => TypeOK
  BY DEF IInv, NodeInv, NodeTypes, RecordInv, RecordTypes, TypeOK
<1>. QED
  BY Invariance, <1>1, PTL

\* InitWorkerAction passes its guard once per life of the process, whatever
\* connects, and once more for each init command typed in progress; each run
\* listens at most once, and _workerInitialzied and _workerInitInProgress say
\* whether one of them has ended.
THEOREM InitializedOnce == Spec => []OneInitialization
<1>1. IInv => OneInitialization
  BY DEF IInv, NodeInv
<1>. QED
  BY Invariance, <1>1, PTL

\* With every action answered and no abandoned transaction in sight, the state
\* that getWorker reads minimumConfirmations back is the contract's.
THEOREM QuietChainRead == Spec => []QuietChainIsRead
<1>1. ASSUME IInv PROVE QuietChainIsRead
  <2>1. DOMAIN window = 1..(MinConf + 1)
    BY <1>1, WindowRange DEF IInv, RecordInv, Depth
  <2>. QED
    BY <1>1, <2>1, QuietWindow DEF IInv, QuietChainIsRead
<1>. QED
  BY Invariance, <1>1, PTL

\* A register, login, logout or unregister that had the worker to itself and
\* answers success has left the record in the state it is named for.
THEOREM LoneActionEffective == Spec => LoneActionTakesEffect
<1>. DEFINE Effect == \A c \in Callers : /\ ops[c].pc \in {"decide", "mined"}
                                         /\ ops'[c].pc = "ok"
                                         /\ ops[c].alone
                                         => Current = Target(ops[c].kind)
<1>1. ASSUME IInv, [Next]_vars PROVE [Effect]_vars
  <2>1. SUFFICES ASSUME NEW c \in Callers, ops[c].pc \in {"decide", "mined"},
                        ops'[c].pc = "ok", ops[c].alone
                 PROVE  Current = Target(ops[c].kind)
    OBVIOUS
  <2>2. /\ Running(c) /\ \A d \in Callers \ {c} : ~Running(d)
        /\ ops[c].pc = "decide" => ops[c].seen = Current
        /\ ops[c].pc = "mined" => Current = Target(ops[c].kind)
    BY <1>1, <2>1 DEF IInv, RecordInv, LoneInv
  <2>3. CASE ops[c].pc = "mined"
    BY <2>2, <2>3
  <2>4. CASE ops[c].pc = "decide"
    <3>1. DecideToSend(c)
      <4>0. RecordTypes
        BY <1>1 DEF IInv, RecordInv
      <4>1. ASSUME UNCHANGED ops PROVE FALSE
        BY <2>1, <2>4, <4>1
      <4>2. ASSUME NEW d \in Callers, ~Running(d),
                   RegisterAction(d) \/ LoginAction(d) \/ LogoutAction(d) \/ UnregisterAction(d)
            PROVE  FALSE
        <5>1. PICK k \in Kinds, s \in {"keys", "send", "read"} : ops' = Started(d, k, s)
          BY <4>2 DEF RegisterAction, LoginAction, LogoutAction, UnregisterAction, Kinds
        <5>2. ops'[c].pc = ops[c].pc
          BY <2>2, <4>0, <4>2, <5>1, StartStep
        <5>. QED
          BY <2>1, <2>4, <5>2
      <4>3. ASSUME NEW d \in Callers, OpStep(d) \/ TxTimeout(d) \/ MineTransaction(d)
            PROVE  DecideToSend(c)
        <5>1. Running(d)
          BY <4>3 DEF Running, OpStep, RegistrationParams, GetWorker, DecideToSend, Register, Login,
             Logout, Unregister, SendTransaction, TxConfirmed, TxTimeout, MineTransaction
        <5>2. d = c
          BY <2>2, <5>1
        <5>. QED
          BY <2>4, <4>3, <5>2 DEF OpStep, RegistrationParams, GetWorker, Register, Login,
             Logout, Unregister, SendTransaction, TxConfirmed, TxTimeout, MineTransaction
      <4>4. CASE Stop
        <5>1. ops'[c].pc = "idle"
          BY <4>4 DEF Stop, IdleOp
        <5>. QED
          BY <2>1, <5>1
      <4>5. CASE \/ Build \/ InitCommand
                 \/ \E p \in Peers : Connected(p) \/ Disconnected(p)
                 \/ \E i \in DOMAIN inits : \/ SyncEnds(i) \/ InitHangs(i) \/ AnnounceEnds(i)
                                            \/ GetWorkerParams(i)
                 \/ EmptyBlock \/ MineOrphan \/ UNCHANGED vars
        <5>1. UNCHANGED ops
          BY <4>5 DEF Build, InitCommand, Connected, Disconnected, SyncEnds, InitHangs,
             AnnounceEnds, GetWorkerParams, EmptyBlock, MineOrphan, vars
        <5>. QED
          BY <4>1, <5>1
      <4>6. CASE \E d \in Operators : PerformAction(d)
        BY <4>2, <4>6, Names DEF PerformAction
      <4>7. ASSUME NEW i \in DOMAIN inits, RegisterWorker(i) \/ WorkerRegistered(i)
            PROVE  FALSE
        <5>1. Self(i) \in Callers
          <6>1. i \in 1..MaxInits
            BY <1>1, Entries, WorkerInitAssumption DEF MaxInits, IInv
          <6>. QED
            BY <6>1, Names
        <5>2. CASE RegisterWorker(i)
          BY <4>2, <5>1, <5>2 DEF RegisterWorker
        <5>3. CASE WorkerRegistered(i)
          <6>1. ops' = [ops EXCEPT ![Self(i)] = IdleOp]
            BY <5>3 DEF WorkerRegistered
          <6>2. ops'[c] = IdleOp \/ ops'[c] = ops[c]
            BY <4>0, <5>1, <6>1 DEF RecordTypes
          <6>. QED
            BY <2>1, <2>4, <6>2 DEF IdleOp
        <5>. QED
          BY <4>7, <5>2, <5>3
      <4>. QED
        BY <1>1, <4>3, <4>4, <4>5, <4>6, <4>7 DEF Next, InitStep
    <3>2. AlreadyDone(ops[c].kind, ops[c].seen)
      <4>1. ops \in [Callers -> Op]
        BY <1>1 DEF IInv, RecordInv, RecordTypes, Op
      <4>2. ASSUME ops' = [ops EXCEPT ![c].pc = "send", ![c].seen = "Unregistered"]
            PROVE  FALSE
        <5>1. ops'[c].pc = "send"
          BY <4>1, <4>2 DEF Op
        <5>. QED
          BY <2>1, <5>1
      <4>. QED
        BY <3>1, <4>2 DEF DecideToSend
    <3>. QED
      BY <2>2, <2>4, <3>2 DEF AlreadyDone, Target
  <2>. QED
    BY <2>1, <2>3, <2>4
<1>. QED
  BY Invariance, <1>1, PTL DEF Spec, LoneActionTakesEffect
=============================================================================
