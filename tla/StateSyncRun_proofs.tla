------------------------ MODULE StateSyncRun_proofs ------------------------
(***************************************************************************)
(* Theorems about one run of the pipeline of StateSync: its local variables *)
(* keep their types, success is the last thing a caller hears, and a run    *)
(* that succeeds without a failure leaves out only what lies below its      *)
(* local tip or what a provider lacked.                                     *)
(***************************************************************************)
EXTENDS StateSync_proofs, SequenceTheorems, WellFoundedInduction

\* Who is answered: calls that were made, by runs that have not yet reported
\* success.
CallerInv ==
    /\ \A c \in Calls \ called : answers[c] = <<>>
    /\ run.caller \in called \cup {None}
    /\ run.phase \in {"idle", "stuck"} => run.caller = None
    /\ run.caller # None =>
        \A i \in DOMAIN answers[run.caller] : answers[run.caller][i] # "done"

\* The search ends with lists of workers; the stream works on a contract that
\* misses deltas and has a provider.
ProviderInv ==
    /\ \A a \in Addrs : run.provs[a] \in Seq(Workers) \cup {Errored}
    /\ run.phase \in {"next", "dial", "stream"} =>
        \A a \in run.listed : a \in MissingAddrs /\ run.provs[a] \in Seq(Workers)
    /\ run.phase \in {"dial", "stream"} =>
        /\ run.cur \in MissingAddrs
        /\ run.provs[run.cur] \in Seq(Workers) /\ run.provs[run.cur] # <<>>
        /\ run.attempt >= 1
    /\ run.phase = "stream" => run.req >= 1
    /\ run.phase # "stream" => run.wire = NoMsg

\* What is missing is a range that begins at the local tip.
MissingIsRange ==
    /\ run.phase = "tips" => run.missing = Empty
    /\ \A a \in Addrs : \E n \in Nat : \A i \in Indexes :
        run.missing[a][i] # None <=> run.tips[a] <= i /\ i < n

\* The list of missing deltas has every one the run must fetch for contract a.
Listed(a) ==
    \A i \in Indexes : <<a, i>> \in begun /\ run.tips[a] <= i => run.missing[a][i] # None

\* Contract a is complete above the local tip.
Complete(a) ==
    \A i \in Indexes : <<a, i>> \in begun /\ run.tips[a] <= i =>
        /\ store[Self][a][i] # None
        /\ run.tips[a] = 0 => a \in code

\* A run nothing has gone wrong with.
Clean ==
    /\ faults = 0 /\ ~ run.short
    /\ run.caller \in Callbacks /\ answers[run.caller] = <<>>

\* Requests are answered in order: what lies before the current one is stored.
StreamInv ==
    /\ \A i \in Indexes :
        run.missing[run.cur][i] # None /\ i < run.tips[run.cur] + (run.req - 1) * RangeLimit
        => store[Self][run.cur][i] # None
    /\ run.req > BucketsNum(run.cur) + 1 => run.cur \in code
    /\ run.wire # NoMsg =>
        /\ run.wire.kind = RequestType(run.cur, run.req)
        /\ run.wire.kind = "deltas" =>
            \A i \in Bucket(run.cur, run.req) : run.wire.deltas[i] # None

GapInv ==
    Clean =>
    /\ run.phase = "compare" => \A a \in Addrs \ run.listed : Listed(a)
    /\ run.phase \in {"find", "next", "dial", "stream"} => \A a \in Addrs : Listed(a)
    /\ run.phase = "next" => \A a \in Addrs \ run.listed : Complete(a)
    /\ run.phase \in {"dial", "stream"} =>
        \A a \in Addrs \ (run.listed \cup {run.cur}) : Complete(a)
    /\ run.phase = "stream" => StreamInv
    /\ run.phase = "revert" => \A a \in Addrs : Complete(a)

RunInv ==
    /\ TypeOK
    /\ CallerInv
    /\ DoneIsLast
    /\ ProviderInv
    /\ MissingIsRange
    /\ GapInv
-----------------------------------------------------------------------------
(* Facts about the operators.                                              *)

\* A nonempty set of indexes has a largest and a smallest element.
LEMMA Extremes ==
    ASSUME NEW n \in Nat, NEW S \in SUBSET (0..n), S # {}
    PROVE  /\ Max(S) \in S /\ \A y \in S : y <= Max(S)
           /\ Min(S) \in S /\ \A y \in S : Min(S) <= y
<1>. DEFINE R == OpToRel(<, Nat)
            T == {n - x : x \in S}
<1>1. \A x, y \in Nat : <<x, y>> \in R <=> x < y
  BY DEF OpToRel
<1>2. IsWellFoundedOn(R, Nat)
  BY NatLessThanWellFounded, Zenon
<1>. HIDE DEF R
<1>3. \E x \in S : \A y \in S : x <= y
  <2>1. S \subseteq Nat
    OBVIOUS
  <2>2. PICK x \in S : \A y \in S : ~ (<<y, x>> \in R)
    BY <1>2, <2>1, WFMin, Zenon
  <2>3. ASSUME NEW y \in S PROVE x <= y
    <3>1. x \in Nat /\ y \in Nat /\ ~ (y < x)
      BY <1>1, <2>1, <2>2
    <3>. QED
      BY <3>1
  <2>. QED
    BY <2>3
<1>4. \E x \in S : \A y \in S : x >= y
  <2>0. \A x \in S : n - x \in Nat
    OBVIOUS
  <2>1. T \subseteq Nat /\ T # {}
    BY <2>0, Zenon
  <2>2. PICK z \in T : \A y \in T : ~ (<<y, z>> \in R)
    <3>. HIDE DEF T
    <3>. QED  BY <1>2, <2>1, WFMin, Zenon
  <2>3. PICK x \in S : z = n - x
    BY <2>2
  <2>4. ASSUME NEW y \in S PROVE x >= y
    <3>1. n - y \in T
      OBVIOUS
    <3>2. ~ (n - y < z)
      BY <1>1, <2>1, <2>2, <3>1
    <3>. QED
      BY <2>3, <3>2
  <2>. QED
    BY <2>4
<1>5. Min(S) \in S /\ \A y \in S : Min(S) <= y
  BY <1>3, Zenon DEF Min
<1>6. Max(S) \in S /\ \A y \in S : Max(S) >= y
  BY <1>4, Zenon DEF Max
<1>. QED
  BY <1>5, <1>6

\* Tips and lengths are bounded by the number of indexes.
LEMMA RowBounds ==
    ASSUME NEW r \in Row
    PROVE  /\ Filled(r) \subseteq Indexes
           /\ IsFiniteSet(Filled(r))
           /\ TipOf(r) \in 0..MaxLen
           /\ Length(r) \in 0..MaxLen
<1>. DEFINE n == MaxLen - 1
<1>0. n \in Nat /\ n + 1 = MaxLen /\ Indexes = 0..n /\ n \in Int /\ 0 \in Int
  BY ConstantsAssumption DEF Indexes
<1>1. Filled(r) \subseteq 0..n /\ Filled(r) \subseteq Indexes
  BY <1>0 DEF Filled
<1>. HIDE DEF n
<1>2. TipOf(r) \in 0..MaxLen
  <2>1. CASE Filled(r) = {}
    BY <1>0, <2>1 DEF TipOf
  <2>2. CASE Filled(r) # {}
    <3>1. Max(Filled(r)) \in 0..n
      BY <1>0, <1>1, <2>2, Extremes
    <3>. QED
      BY <1>0, <2>2, <3>1 DEF TipOf
  <2>. QED
    BY <2>1, <2>2
<1>3. IsFiniteSet(0..n) /\ Cardinality(0..n) = IF 0 > n THEN 0 ELSE n - 0 + 1
  BY <1>0, FS_Interval, Zenon
<1>4. /\ IsFiniteSet(Filled(r)) /\ Cardinality(Filled(r)) <= Cardinality(0..n)
  BY <1>1, <1>3, FS_Subset, Zenon
<1>5. Cardinality(Filled(r)) \in Nat
  BY <1>4, FS_CardinalityType, Zenon
<1>. QED
  BY <1>0, <1>1, <1>2, <1>3, <1>4, <1>5 DEF Length

\* The smaller of two numbers.
LEMMA MinOfTwo ==
    ASSUME NEW x \in Nat, NEW y \in Nat
    PROVE  Min({x, y}) = IF x <= y THEN x ELSE y
<1>1. \E z \in {x, y} : \A u \in {x, y} : z =< u
  OBVIOUS
<1>2. Min({x, y}) \in {x, y} /\ \A u \in {x, y} : Min({x, y}) =< u
  BY <1>1, Zenon DEF Min
<1>. QED
  BY <1>2

\* A job of a contract with providers has a worker to dial.
LEMMA ProviderIsWorker ==
    ASSUME TypeOK, ProviderInv, run.phase \in {"dial", "stream"}
    PROVE  ProviderOf(run.cur, run.attempt) \in Workers
<1>. DEFINE q == run.provs[run.cur]
<1>1. q \in Seq(Workers) /\ q # <<>> /\ run.attempt >= 1
  BY DEF ProviderInv
<1>2. run.attempt \in Nat
  BY DEF TypeOK, Runs
<1>3. Len(q) \in Nat \ {0} /\ \A j \in 1..Len(q) : q[j] \in Workers
  <2>. HIDE DEF q
  <2>. QED  BY <1>1, EmptySeq, ElementOfSeq
<1>4. Min({run.attempt, Len(q)}) \in 1..Len(q)
  <2>. HIDE DEF q
  <2>1. Min({run.attempt, Len(q)}) = IF run.attempt <= Len(q) THEN run.attempt ELSE Len(q)
    BY <1>2, <1>3, MinOfTwo
  <2>. QED
    BY <1>1, <1>2, <1>3, <2>1
<1>. QED
  BY <1>3, <1>4 DEF ProviderOf
-----------------------------------------------------------------------------
(* Types of the local variables, one set per field.                        *)

TipsSet    == [Addrs -> 0..MaxLen]
MissingSet == [Addrs -> Row]
ExcessSet  == [Addrs -> [remoteTip : 0..MaxLen, localTip : 0..MaxLen]]
ProvsSet   == [Addrs -> Seq(Workers \cup {None})]
WireSet    == [kind : {"none", "deltas", "code", "error"}, deltas : Row]

LEMMA RunFields ==
    Runs = [phase : Phases, caller : Calls \cup {None}, tips : TipsSet,
            listed : SUBSET Addrs, missing : MissingSet, excess : ExcessSet,
            provs : ProvsSet, cur : Addrs \cup {None}, attempt : Nat, req : Nat,
            wire : WireSet, short : BOOLEAN]
  BY DEF Runs, TipsSet, MissingSet, ExcessSet, ProvsSet, WireSet

LEMMA IdleTypes == Idle \in Runs /\ [Idle EXCEPT !.phase = "stuck"] \in Runs /\ NoMsg \in WireSet
<1>0. EmptyRow \in Row /\ 0 \in 0..MaxLen
  BY Constants, ConstantsAssumption
<1>1. [a \in Addrs |-> 0] \in TipsSet
  BY <1>0 DEF TipsSet
<1>2. Empty \in MissingSet
  BY <1>0 DEF MissingSet, Empty
<1>3. [a \in Addrs |-> NoExcess] \in ExcessSet
  BY <1>0 DEF ExcessSet, NoExcess
<1>4. [a \in Addrs |-> <<>>] \in ProvsSet
  BY EmptySeq DEF ProvsSet
<1>5. NoMsg \in WireSet
  BY <1>0 DEF WireSet, NoMsg
<1>6. Idle \in Runs
  BY <1>1, <1>2, <1>3, <1>4, <1>5, RunFields DEF Idle, Phases
<1>. QED
  BY <1>5, <1>6, RunFields DEF Phases

-----------------------------------------------------------------------------
(* What is left to show of a step.                                         *)

\* onEnd is called for the run's own caller, and not after success.
CallStep ==
    /\ called' = called
    /\ \/ run'.caller = None
       \/ run'.caller = run.caller /\ run'.phase \notin {"idle", "stuck"}
    /\ \/ answers' = answers
       \/ answers' = Answer(run.caller, "err")
       \/ answers' = AnswerDone(run.caller) /\ run'.caller = None

LEMMA AnswerAppends ==
    ASSUME TypeOK, NEW c \in Calls \cup {None}, NEW x \in {"err", "done"}, NEW h,
           h = Answer(c, x)
    PROVE  /\ h \in [Calls -> Seq({"err", "done"})]
           /\ \A d \in Calls : d # c => h[d] = answers[d]
           /\ c \notin Callbacks => h = answers
           /\ c \in Callbacks =>
                /\ Len(h[c]) = Len(answers[c]) + 1
                /\ Len(answers[c]) \in Nat
                /\ DOMAIN answers[c] = 1..Len(answers[c]) /\ DOMAIN h[c] = 1..Len(h[c])
                /\ \A i \in DOMAIN answers[c] : h[c][i] = answers[c][i]
                /\ h[c][Len(h[c])] = x
<1>. DEFINE X == {"err", "done"}
<1>1. answers \in [Calls -> Seq(X)]
  BY DEF TypeOK
<1>2. CASE c \notin Callbacks
  BY <1>1, <1>2 DEF Answer
<1>3. CASE c \in Callbacks
  <2>. HIDE DEF X
  <2>1. c \in Calls /\ x \in X /\ answers[c] \in Seq(X)
    BY <1>1, <1>3, ConstantsAssumption DEF X
  <2>2. h = [answers EXCEPT ![c] = Append(answers[c], x)]
    BY <1>3 DEF Answer
  <2>3. /\ h \in [Calls -> Seq(X)] /\ h[c] = Append(answers[c], x)
        /\ \A d \in Calls : d # c => h[d] = answers[d]
    BY <1>1, <2>1, <2>2, AppendProperties
  <2>4. /\ Len(answers[c]) \in Nat /\ Len(h[c]) = Len(answers[c]) + 1
        /\ DOMAIN answers[c] = 1..Len(answers[c]) /\ DOMAIN h[c] = 1..Len(h[c])
        /\ \A i \in 1..Len(answers[c]) : h[c][i] = answers[c][i]
        /\ h[c][Len(answers[c]) + 1] = x
    BY <2>1, <2>3, AppendProperties, LenProperties
  <2>. QED
    BY <1>3, <2>3, <2>4 DEF X
<1>. QED
  BY <1>2, <1>3

\* What a caller hears whose onEnd throws at the success.
LEMMA ThrownSuccess ==
    ASSUME TypeOK, NEW c \in OneShot, answers[c] # <<>>, NEW h, h = AnswerDone(c)
    PROVE  /\ h \in [Calls -> Seq({"err", "done"})]
           /\ \A d \in Calls : d # c => h[d] = answers[d]
           /\ Len(answers[c]) \in Nat \ {0} /\ Len(h[c]) = Len(answers[c]) + 2
           /\ DOMAIN answers[c] = 1..Len(answers[c]) /\ DOMAIN h[c] = 1..Len(h[c])
           /\ \A i \in DOMAIN answers[c] : h[c][i] = answers[c][i]
           /\ h[c][Len(answers[c]) + 1] = "done" /\ h[c][Len(answers[c]) + 2] = "err"
<1>. DEFINE X == {"err", "done"}
            s == answers[c]
            t == Append(s, "done")
            u == Append(t, "err")
<1>1. answers \in [Calls -> Seq(X)] /\ c \in Calls /\ "done" \in X /\ "err" \in X
  BY ConstantsAssumption DEF TypeOK
<1>2. h = [answers EXCEPT ![c] = u]
  BY DEF AnswerDone
<1>. HIDE DEF X
<1>3. /\ s \in Seq(X) /\ Len(s) \in Nat \ {0} /\ DOMAIN s = 1..Len(s)
  BY <1>1, LenProperties, EmptySeq
<1>. HIDE DEF s
<1>4. /\ t \in Seq(X) /\ Len(t) = Len(s) + 1 /\ \A i \in 1..Len(s) : t[i] = s[i]
      /\ t[Len(s) + 1] = "done"
  BY <1>1, <1>3, AppendProperties
<1>. HIDE DEF t
<1>5. /\ u \in Seq(X) /\ Len(u) = Len(t) + 1 /\ \A i \in 1..Len(t) : u[i] = t[i]
      /\ u[Len(t) + 1] = "err" /\ DOMAIN u = 1..Len(u)
  BY <1>1, <1>4, AppendProperties, LenProperties
<1>. HIDE DEF u
<1>6. /\ Len(u) = Len(s) + 2 /\ \A i \in 1..Len(s) : u[i] = s[i]
      /\ u[Len(s) + 1] = "done" /\ u[Len(s) + 2] = "err"
  BY <1>3, <1>4, <1>5
<1>7. h[c] = u /\ \A d \in Calls : d # c => h[d] = answers[d]
  BY <1>1, <1>2
<1>8. h \in [Calls -> Seq(X)]
  BY <1>1, <1>2, <1>5
<1>. QED
  BY <1>3, <1>5, <1>6, <1>7, <1>8 DEF s, X

LEMMA CallInduction ==
    ASSUME TypeOK, CallerInv, DoneIsLast, CallStep
    PROVE  answers' \in [Calls -> Seq({"err", "done"})] /\ CallerInv' /\ DoneIsLast'
<1>0. run.caller \in Calls \cup {None} /\ None \notin Calls /\ called \subseteq Calls
  BY ConstantsAssumption DEF TypeOK, Runs
<1>1. CASE answers' = answers
  <2>1. answers' \in [Calls -> Seq({"err", "done"})] /\ DoneIsLast'
    BY <1>1 DEF TypeOK, DoneIsLast
  <2>2. CallerInv'
    BY <1>1 DEF CallStep, CallerInv
  <2>. QED
    BY <2>1, <2>2
<1>2. ASSUME NEW x \in {"err", "done"}, answers' = Answer(run.caller, x),
             x = "done" => run'.caller = None
      PROVE  answers' \in [Calls -> Seq({"err", "done"})] /\ CallerInv' /\ DoneIsLast'
  <2>1. CASE run.caller \notin Callbacks
    BY <1>0, <1>1, <1>2, <2>1, AnswerAppends
  <2>2. CASE run.caller \in Callbacks
    <3>. DEFINE c == run.caller
    <3>0. c \in Calls /\ c # None /\ c \in called
      BY <1>0, <2>2, ConstantsAssumption DEF CallerInv
    <3>1. /\ answers' \in [Calls -> Seq({"err", "done"})]
          /\ \A d \in Calls : d # c => answers'[d] = answers[d]
          /\ Len(answers'[c]) = Len(answers[c]) + 1 /\ Len(answers[c]) \in Nat
          /\ DOMAIN answers[c] = 1..Len(answers[c]) /\ DOMAIN answers'[c] = 1..Len(answers'[c])
          /\ \A i \in DOMAIN answers[c] : answers'[c][i] = answers[c][i]
          /\ answers'[c][Len(answers'[c])] = x
      BY <1>0, <1>2, <2>2, AnswerAppends
    <3>2. \A i \in DOMAIN answers[c] : answers[c][i] # "done"
      BY <3>0 DEF CallerInv
    <3>3. \A i \in DOMAIN answers'[c] : i \in DOMAIN answers[c] \/ i = Len(answers'[c])
      BY <3>1
    <3>4. DoneIsLast'
      BY <3>1, <3>2, <3>3 DEF DoneIsLast
    <3>5. x # "done" => \A i \in DOMAIN answers'[c] : answers'[c][i] # "done"
      BY <3>1, <3>2, <3>3
    <3>6. \A d \in Calls \ called' : answers'[d] = <<>>
      BY <3>0, <3>1 DEF CallerInv, CallStep
    <3>7. CallerInv'
      BY <1>2, <3>0, <3>5, <3>6 DEF CallerInv, CallStep
    <3>. QED
      BY <3>1, <3>4, <3>7
  <2>. QED
    BY <2>1, <2>2
<1>3. ASSUME run.caller \in OneShot, answers[run.caller] # <<>>,
             answers' = AnswerDone(run.caller), run'.caller = None
      PROVE  answers' \in [Calls -> Seq({"err", "done"})] /\ CallerInv' /\ DoneIsLast'
  <2>. DEFINE c == run.caller
              n == Len(answers[c])
  <2>0. c \in Calls /\ c # None /\ c \in called
    BY <1>0, <1>3, ConstantsAssumption DEF CallerInv
  <2>1. /\ answers' \in [Calls -> Seq({"err", "done"})]
        /\ \A d \in Calls : d # c => answers'[d] = answers[d]
        /\ n \in Nat \ {0} /\ Len(answers'[c]) = n + 2
        /\ DOMAIN answers[c] = 1..n /\ DOMAIN answers'[c] = 1..(n + 2)
        /\ \A i \in 1..n : answers'[c][i] = answers[c][i]
        /\ answers'[c][n + 2] = "err"
    <3>1. c \in OneShot /\ answers[c] # <<>> /\ answers' = AnswerDone(c)
      BY <1>3
    <3>. HIDE DEF c
    <3>. QED
      BY <3>1, ThrownSuccess
  <2>2. \A i \in 1..n : answers[c][i] # "done"
    BY <2>0, <2>1 DEF CallerInv
  <2>. HIDE DEF n
  <2>3. ASSUME NEW i \in 1..(n + 2), answers'[c][i] = "done"
        PROVE  i > 1 /\ i + 1 = n + 2
    <3>1. ~ (i \in 1..n) /\ i # n + 2
      BY <2>1, <2>2, <2>3
    <3>. QED
      BY <2>1, <3>1
  <2>4. DoneIsLast'
    BY <1>3, <2>1, <2>3 DEF DoneIsLast
  <2>5. CallerInv'
    BY <1>3, <2>0, <2>1 DEF CallerInv, CallStep
  <2>. QED
    BY <2>1, <2>4, <2>5
<1>. QED
  BY <1>1, <1>2, <1>3 DEF CallStep, AnswerDone

LEMMA StepInduction ==
    ASSUME RunInv, IInv', CallStep, run' \in Runs, code' \subseteq Addrs,
           announced' \subseteq Workers \X Addrs, running' \in BOOLEAN,
           faults' \in 0..MaxFaults, ProviderInv', MissingIsRange', GapInv'
    PROVE  RunInv'
<1>1. answers' \in [Calls -> Seq({"err", "done"})] /\ CallerInv' /\ DoneIsLast'
  BY CallInduction DEF RunInv
<1>2. /\ chain' \in [Addrs -> Row] /\ store' \in [Workers -> [Addrs -> Row]]
      /\ begun' \subseteq Addrs \X Indexes
  BY DEF IInv, Shape, BegunOnChain, Cells
<1>3. called' \subseteq Calls
  BY DEF RunInv, TypeOK, CallStep
<1>4. TypeOK'
  BY <1>1, <1>2, <1>3 DEF TypeOK
<1>. QED
  BY <1>1, <1>4 DEF RunInv

\* A run that is over, or that nobody continues, has nothing to show.
Ends == run' = Idle \/ run' = [Idle EXCEPT !.phase = "stuck"]

LEMMA EndInduction ==
    ASSUME RunInv, IInv', Ends, called' = called,
           \/ answers' = answers
           \/ answers' = Answer(run.caller, "err")
           \/ answers' = AnswerDone(run.caller),
           code' \subseteq Addrs, announced' \subseteq Workers \X Addrs,
           running' \in BOOLEAN, faults' \in 0..MaxFaults
    PROVE  RunInv'
<1>0. run' \in Runs
  BY IdleTypes DEF Ends
<1>1. /\ run'.caller = None /\ run'.phase \in {"idle", "stuck"}
      /\ run'.provs = [a \in Addrs |-> <<>>] /\ run'.wire = NoMsg
      /\ run'.tips = [a \in Addrs |-> 0] /\ run'.missing = Empty
  BY DEF Ends, Idle
<1>2. CallStep
  BY <1>1 DEF CallStep
<1>3. ProviderInv'
  BY <1>1, EmptySeq DEF ProviderInv
<1>4. MissingIsRange'
  <2>1. \A a \in Addrs, i \in Indexes : run'.missing[a][i] # None <=> i < 0
    BY <1>1, Constants DEF Empty
  <2>2. \A a \in Addrs, i \in Indexes :
            run'.missing[a][i] # None <=> run'.tips[a] <= i /\ i < 0
    BY <1>1, <2>1, Constants
  <2>. QED
    BY <1>1, <2>2 DEF MissingIsRange
<1>5. GapInv'
  BY <1>1, ConstantsAssumption DEF GapInv, Clean
<1>. QED
  BY <1>0, <1>1, <1>2, <1>3, <1>4, <1>5, StepInduction

\* The steps of other processes: core only gains deltas and bytecodes.
LEMMA QuietInduction ==
    ASSUME RunInv, IInv', Quiet, code \subseteq code', code' \subseteq Addrs,
           announced' \subseteq Workers \X Addrs,
           \A a \in Addrs, i \in Indexes :
               store[Self][a][i] # None => store'[Self][a][i] # None
    PROVE  RunInv'
<1>1. UNCHANGED <<called, answers, running, run, begun, faults>>
  BY DEF Quiet
<1>2. /\ run \in Runs /\ running \in BOOLEAN /\ faults \in 0..MaxFaults
      /\ run.caller = None \/ run.phase \notin {"idle", "stuck"}
  BY DEF RunInv, TypeOK, CallerInv
<1>3. CallStep
  BY <1>1, <1>2 DEF CallStep
<1>4. ProviderInv' /\ MissingIsRange'
  BY <1>1 DEF RunInv, ProviderInv, MissingIsRange, MissingAddrs
<1>5. \A a \in Addrs : (Listed(a) => Listed(a)') /\ (Complete(a) => Complete(a)')
  BY <1>1 DEF Listed, Complete
<1>6. ASSUME run.phase = "stream", StreamInv PROVE StreamInv'
  <2>1. run.cur \in Addrs
    BY <1>6 DEF RunInv, ProviderInv, MissingAddrs
  <2>. QED
    BY <1>1, <1>6, <2>1 DEF StreamInv, BucketsNum, TotalMissing, RequestType, Bucket, FirstMissing
<1>7. GapInv'
  BY <1>1, <1>5, <1>6 DEF RunInv, GapInv, Clean
<1>. QED
  BY <1>1, <1>2, <1>3, <1>4, <1>7, StepInduction

LEMMA EnvironmentInduction ==
    ASSUME RunInv, IInv, IInv', Environment
    PROVE  RunInv'
<1>0. /\ store \in [Workers -> [Addrs -> Row]] /\ code \subseteq Addrs
      /\ announced \subseteq Workers \X Addrs /\ Self \in Workers /\ None \notin Workers
  BY Constants DEF RunInv, TypeOK
<1>1. ASSUME NEW w \in Workers, NEW a \in Addrs, NEW i, NEW d,
             d # None, store' = [store EXCEPT ![w][a][i] = d]
      PROVE  \A b \in Addrs, j \in Indexes :
                 store[Self][b][j] # None => store'[Self][b][j] # None
  <2>. SUFFICES ASSUME NEW b \in Addrs, NEW j \in Indexes, store[Self][b][j] # None
               PROVE  store'[Self][b][j] # None
    OBVIOUS
  <2>1. store[w] \in [Addrs -> Row] /\ store[w][a] \in [Indexes -> Workers \cup {None}]
    BY <1>0 DEF Row
  <2>2. store' = [store EXCEPT ![w] = [store[w] EXCEPT ![a] = [store[w][a] EXCEPT ![i] = d]]]
    BY <1>1
  <2>3. CASE Self = w /\ a = b
    BY <1>0, <1>1, <2>1, <2>2, <2>3
  <2>4. CASE ~ (Self = w /\ a = b)
    BY <1>0, <1>1, <2>1, <2>2, <2>4
  <2>. QED
    BY <2>3, <2>4
<1>2. ASSUME NEW w \in Workers, NEW a \in Addrs, Execute(w, a) PROVE RunInv'
  <2>1. /\ store' = [store EXCEPT ![w][a][TipOf(store[w][a])] = w] /\ w # None
        /\ code \subseteq code' /\ code' \subseteq Addrs /\ announced' = announced /\ Quiet
    BY <1>0, <1>2 DEF Execute
  <2>. QED
    BY <1>0, <1>1, <2>1, QuietInduction
<1>3. ASSUME NEW w \in Workers, NEW a \in Addrs, Commit(w, a) PROVE RunInv'
  BY <1>0, <1>3, QuietInduction DEF Commit
<1>4. ASSUME NEW w \in Workers, NEW a \in Addrs, NEW i \in Indexes, StoreResult(w, a, i)
      PROVE  RunInv'
  <2>1. /\ store' = [store EXCEPT ![w][a][i] = chain[a][i]] /\ chain[a][i] # None
        /\ code \subseteq code' /\ code' \subseteq Addrs /\ announced' = announced /\ Quiet
    BY <1>0, <1>4 DEF StoreResult
  <2>. QED
    BY <1>0, <1>1, <2>1, QuietInduction
<1>5. ASSUME NEW w \in Workers, NEW ok \in SUBSET Addrs, AnnounceLocalState(w, ok)
      PROVE  RunInv'
  <2>1. UNCHANGED <<chain, store, code>> /\ Quiet
    BY <1>5 DEF AnnounceLocalState
  <2>2. announced' \subseteq Workers \X Addrs
    BY <1>0, <1>5 DEF AnnounceLocalState, Provide
  <2>. QED
    BY <1>0, <2>1, <2>2, QuietInduction
<1>. QED
  BY <1>2, <1>3, <1>4, <1>5 DEF Environment

\* A new call is refused, or starts with nothing listed and nothing answered.
LEMMA ExecuteInduction ==
    ASSUME RunInv, IInv', NEW c \in Calls, SyncExecute(c)
    PROVE  RunInv'
<1>0. /\ c \notin called /\ called' = called \cup {c} /\ UNCHANGED <<store, code, announced, faults>>
      /\ answers[c] = <<>> /\ c # None /\ run.caller # c /\ None \notin Calls
  BY ConstantsAssumption DEF SyncExecute, envVars, RunInv, CallerInv
<1>1. /\ chain' \in [Addrs -> Row] /\ store' \in [Workers -> [Addrs -> Row]]
      /\ begun' \subseteq Addrs \X Indexes
  BY DEF IInv, Shape, BegunOnChain, Cells
<1>2. CASE Refuse(c)
  <2>1. UNCHANGED <<running, run, begun>> /\ answers' = Answer(c, "err")
    BY <1>2 DEF Refuse
  <2>2. /\ answers' \in [Calls -> Seq({"err", "done"})]
        /\ \A d \in Calls : d # c => answers'[d] = answers[d]
        /\ \A i \in DOMAIN answers'[c] : answers'[c][i] # "done"
    <3>1. /\ answers' \in [Calls -> Seq({"err", "done"})]
          /\ \A d \in Calls : d # c => answers'[d] = answers[d]
          /\ c \notin Callbacks => answers' = answers
          /\ c \in Callbacks =>
               /\ Len(answers'[c]) = Len(answers[c]) + 1 /\ Len(answers[c]) \in Nat
               /\ DOMAIN answers'[c] = 1..Len(answers'[c])
               /\ answers'[c][Len(answers'[c])] = "err"
      BY <2>1, AnswerAppends DEF RunInv
    <3>2. Len(answers[c]) = 0 /\ DOMAIN answers[c] = {}
      BY <1>0
    <3>. QED
      BY <3>1, <3>2
  <2>3. TypeOK'
    BY <1>0, <1>1, <2>1, <2>2 DEF RunInv, TypeOK
  <2>4. DoneIsLast'
    BY <1>0, <2>2 DEF RunInv, DoneIsLast
  <2>5. CallerInv'
    BY <1>0, <2>1, <2>2 DEF RunInv, CallerInv, TypeOK
  <2>6. ProviderInv' /\ MissingIsRange'
    BY <2>1 DEF RunInv, ProviderInv, MissingIsRange, MissingAddrs
  <2>7. Clean' => Clean
    BY <1>0, <2>1, <2>2, ConstantsAssumption DEF Clean
  <2>8. \A a \in Addrs : (Listed(a) => Listed(a)') /\ (Complete(a) => Complete(a)')
    BY <1>0, <2>1 DEF Listed, Complete
  <2>9. StreamInv => StreamInv'
    BY <1>0, <2>1 DEF StreamInv, BucketsNum, TotalMissing, RequestType, Bucket, FirstMissing
  <2>10. GapInv'
    BY <2>1, <2>7, <2>8, <2>9 DEF RunInv, GapInv
  <2>. QED
    BY <2>3, <2>4, <2>5, <2>6, <2>10 DEF RunInv
<1>3. CASE Begin(c)
  <2>1. /\ run' = [Idle EXCEPT !.phase = "tips", !.caller = c]
        /\ answers' = answers /\ running' = TRUE
    BY <1>3 DEF Begin
  <2>2. /\ run'.phase = "tips" /\ run'.caller = c /\ run'.provs = [a \in Addrs |-> <<>>] /\ run'.wire = NoMsg
        /\ run'.tips = [a \in Addrs |-> 0] /\ run'.missing = Empty
    BY <2>1 DEF Idle
  <2>3. run' \in Runs
    BY <2>1, IdleTypes, RunFields DEF Phases
  <2>4. TypeOK'
    BY <1>0, <1>1, <2>1, <2>3 DEF RunInv, TypeOK
  <2>5. DoneIsLast' /\ CallerInv'
    BY <1>0, <2>1, <2>2 DEF RunInv, DoneIsLast, CallerInv
  <2>6. ProviderInv'
    BY <2>2, EmptySeq DEF ProviderInv
  <2>7. MissingIsRange'
    <3>1. \A a \in Addrs, i \in Indexes :
              run'.missing[a][i] # None <=> run'.tips[a] <= i /\ i < 0
      BY <2>2, Constants DEF Empty
    <3>. QED
      BY <2>2, <3>1 DEF MissingIsRange
  <2>8. GapInv'
    BY <2>2 DEF GapInv
  <2>. QED
    BY <2>4, <2>5, <2>6, <2>7, <2>8 DEF RunInv
<1>. QED
  BY <1>2, <1>3 DEF SyncExecute

-----------------------------------------------------------------------------
(* The pipeline: steps that only change its local variables.               *)

\* A failure is counted, so a run that is clean afterwards had none.
LEMMA FaultCounts ==
    ASSUME TypeOK, Fault \/ UNCHANGED faults
    PROVE  faults' \in 0..MaxFaults /\ (faults' = 0 => faults = 0 /\ ~ Fault)
  BY ConstantsAssumption DEF TypeOK, Fault

\* What a step that keeps core and the two lists keeps of every contract.
LEMMA ContractsKept ==
    ASSUME run'.tips = run.tips, run'.missing = run.missing, UNCHANGED <<store, code, begun>>
    PROVE  /\ \A a \in Addrs : (Listed(a) => Listed(a)') /\ (Complete(a) => Complete(a)')
           /\ MissingAddrs' = MissingAddrs
  BY DEF Listed, Complete, MissingAddrs

\* A run that goes on, in the form StepInduction needs it.
LEMMA GoesOn ==
    ASSUME RunInv, IInv', run' \in Runs, run'.caller = run.caller,
           run'.phase \notin {"idle", "stuck", "tips"},
           run'.tips = run.tips, run'.missing = run.missing,
           UNCHANGED <<called, answers, running, code, announced>>,
           Fault \/ UNCHANGED faults,
           ProviderInv', GapInv'
    PROVE  RunInv'
<1>1. /\ code' \subseteq Addrs /\ announced' \subseteq Workers \X Addrs /\ running' \in BOOLEAN
      /\ faults' \in 0..MaxFaults
  BY FaultCounts DEF RunInv, TypeOK
<1>2. MissingIsRange'
  BY DEF RunInv, MissingIsRange
<1>3. CallStep
  BY DEF CallStep
<1>. QED
  BY <1>1, <1>2, <1>3, StepInduction

\* The outer catch and the callbacks that nobody hears.
LEMMA StopInduction ==
    ASSUME RunInv, IInv', Abort \/ Hang \/ ProvidersErrored,
           UNCHANGED <<called, code, announced>>, Fault \/ UNCHANGED faults
    PROVE  RunInv'
<1>1. /\ code' \subseteq Addrs /\ announced' \subseteq Workers \X Addrs
      /\ faults' \in 0..MaxFaults
  BY FaultCounts DEF RunInv, TypeOK
<1>2. running' \in BOOLEAN
  BY DEF RunInv, TypeOK, Abort, Hang, ProvidersErrored, Continue
<1>3. Ends /\ (answers' = answers \/ answers' = Answer(run.caller, "err"))
  BY DEF Ends, Abort, Hang, ProvidersErrored, Continue
<1>. QED
  BY <1>1, <1>2, <1>3, EndInduction

LEMMA TipsInduction == ASSUME RunInv, IInv, IInv', GetAllTips PROVE RunInv'
<1>. DEFINE T == [a \in Addrs |-> TipOf(store[Self][a])]
<1>0. /\ run.phase = "tips" /\ run \in Runs /\ run.missing = Empty
      /\ UNCHANGED <<called, code, announced, store, begun>>
  BY DEF GetAllTips, envVars, RunInv, TypeOK, MissingIsRange
<1>1. T \in TipsSet
  BY RowBounds, Constants DEF TipsSet, IInv, Shape
<1>. HIDE DEF T
<1>2. CASE Fault /\ Abort
  BY <1>0, <1>2, StopInduction
<1>3. ASSUME NEW t \in TipsSet, run' = [run EXCEPT !.phase = "list", !.tips = t],
             UNCHANGED <<answers, running>>, Fault \/ UNCHANGED faults
      PROVE  RunInv'
  <2>1. run' \in Runs
    BY <1>0, <1>3, RunFields DEF Phases
  <2>2. /\ run'.phase = "list" /\ run'.caller = run.caller /\ run'.provs = run.provs /\ run'.wire = run.wire
        /\ run'.missing = Empty /\ run'.tips = t
    BY <1>0, <1>3, RunFields
  <2>3. MissingIsRange'
    <3>0. \A a \in Addrs, i \in Indexes : run'.missing[a][i] = None /\ ~ (i < 0)
      <4>1. \A i \in Indexes : EmptyRow[i] = None /\ i \in Nat
        BY Constants
      <4>. QED
        BY <2>2, <4>1 DEF Empty
    <3>1. \A a \in Addrs, i \in Indexes :
              run'.missing[a][i] # None <=> run'.tips[a] <= i /\ i < 0
      BY <3>0, Zenon
    <3>. QED
      BY <2>2, <3>1 DEF MissingIsRange
  <2>4. ProviderInv'
    BY <1>0, <2>2 DEF RunInv, ProviderInv
  <2>5. GapInv'
    BY <2>2 DEF GapInv
  <2>6. /\ code' \subseteq Addrs /\ announced' \subseteq Workers \X Addrs /\ running' \in BOOLEAN
        /\ faults' \in 0..MaxFaults
    BY <1>0, <1>3, FaultCounts DEF RunInv, TypeOK
  <2>7. CallStep
    BY <1>0, <1>3, <2>2 DEF CallStep
  <2>. QED
    BY <2>1, <2>3, <2>4, <2>5, <2>6, <2>7, StepInduction
<1>4. CASE Continue([run EXCEPT !.phase = "list", !.tips = T]) /\ UNCHANGED faults
  BY <1>1, <1>3, <1>4 DEF Continue
<1>5. CASE Fault /\ GoTo("list")
  <2>1. run.tips \in TipsSet /\ run' = [run EXCEPT !.phase = "list", !.tips = run.tips]
    BY <1>0, <1>5, RunFields DEF GoTo, Continue
  <2>. QED
    BY <1>3, <1>5, <2>1 DEF GoTo, Continue
<1>. QED
  BY <1>2, <1>4, <1>5 DEF GetAllTips, T

LEMMA AddressesInduction ==
    ASSUME RunInv, IInv, IInv', GetAllSecretContractAddresses PROVE RunInv'
<1>. DEFINE remote == {a \in Addrs : Filled(chain[a]) # {}}
            e == [a \in Addrs |-> IF a \in remote THEN NoExcess
                                  ELSE [remoteTip |-> 0, localTip |-> run.tips[a]]]
<1>0. /\ run.phase = "list" /\ run \in Runs
      /\ UNCHANGED <<called, code, announced, store, begun, chain>>
  BY DEF GetAllSecretContractAddresses, envVars, RunInv, TypeOK
<1>1. remote \in SUBSET Addrs /\ e \in ExcessSet
  <2>1. 0 \in 0..MaxLen /\ \A a \in Addrs : run.tips[a] \in 0..MaxLen
    BY <1>0, ConstantsAssumption, RunFields DEF TipsSet
  <2>. QED
    BY <2>1 DEF ExcessSet, NoExcess
<1>2. \A a \in Addrs \ remote : \A i \in Indexes : <<a, i>> \notin begun
  BY DEF IInv, BegunOnChain, Cells, Filled
<1>. HIDE DEF remote, e
<1>3. CASE Fault /\ Abort
  BY <1>0, <1>3, StopInduction
<1>4. CASE /\ Continue([run EXCEPT !.phase = "compare", !.listed = remote, !.excess = e])
           /\ UNCHANGED faults
  <2>1. /\ run' \in Runs /\ run'.phase = "compare" /\ run'.listed = remote
        /\ run'.caller = run.caller /\ run'.provs = run.provs /\ run'.wire = run.wire
        /\ run'.missing = run.missing /\ run'.tips = run.tips
        /\ UNCHANGED <<answers, running>>
    BY <1>0, <1>1, <1>4, RunFields DEF Continue, Phases
  <2>2. ProviderInv'
    BY <1>0, <2>1 DEF RunInv, ProviderInv
  <2>3. \A a \in Addrs \ remote : Listed(a)'
    BY <1>0, <1>2 DEF Listed
  <2>4. GapInv'
    BY <2>1, <2>3 DEF GapInv
  <2>. QED
    BY <1>0, <1>4, <2>1, <2>2, <2>4, GoesOn
<1>. QED
  BY <1>3, <1>4 DEF GetAllSecretContractAddresses, remote, e

\* compareLocalStateToRemote: what the chain has from the local tip on.
LEMMA CompareInduction ==
    ASSUME RunInv, IInv, IInv', NEW a \in Addrs, CompareContract(a) PROVE RunInv'
<1>. DEFINE M == [run.missing EXCEPT ![a] = MissingDeltas(a)]
            E == [run.excess EXCEPT ![a] = LeftOver(a)]
<1>0. /\ run.phase = "compare" /\ a \in run.listed /\ run \in Runs
      /\ UNCHANGED <<called, code, announced, store, begun, chain>>
  BY DEF CompareContract, envVars, RunInv, TypeOK
<1>1. /\ run.missing \in MissingSet /\ run.excess \in ExcessSet /\ run.tips \in TipsSet
      /\ run.listed \subseteq Addrs /\ chain[a] \in Row
  BY <1>0, RunFields DEF IInv, Shape
<1>2. /\ MissingDeltas(a) \in Row
      /\ \A i \in Indexes : run.tips[a] <= i => MissingDeltas(a)[i] = chain[a][i]
      /\ \A i \in Indexes : ~ (run.tips[a] <= i) => MissingDeltas(a)[i] = None
  <2>1. run.tips[a] \in Nat /\ Indexes \subseteq Nat
    BY <1>1, Constants DEF TipsSet
  <2>. QED
    BY <1>1, <2>1 DEF MissingDeltas, GetContractParams, Row
<1>3. LeftOver(a) \in [remoteTip : 0..MaxLen, localTip : 0..MaxLen]
  <2>1. Length(chain[a]) \in 0..MaxLen /\ run.tips[a] \in 0..MaxLen /\ 0 \in 0..MaxLen
    BY <1>1, RowBounds, ConstantsAssumption DEF TipsSet
  <2>. QED
    BY <2>1 DEF LeftOver, GetContractParams, NoExcess
<1>4. M \in MissingSet /\ E \in ExcessSet
  BY <1>1, <1>2, <1>3 DEF MissingSet, ExcessSet
<1>5. CASE Fault /\ Abort
  BY <1>0, <1>5, StopInduction
<1>6. CASE /\ Continue([run EXCEPT !.listed = @ \ {a}, !.missing[a] = MissingDeltas(a),
                                   !.excess[a] = LeftOver(a)])
           /\ UNCHANGED faults
  <2>1. /\ run' = [run EXCEPT !.listed = run.listed \ {a}, !.missing = M, !.excess = E]
        /\ UNCHANGED <<answers, running>>
    BY <1>6 DEF Continue
  <2>2. /\ run' \in Runs /\ run'.phase = "compare" /\ run'.listed = run.listed \ {a}
        /\ run'.caller = run.caller /\ run'.provs = run.provs /\ run'.wire = run.wire
        /\ run'.missing = M /\ run'.tips = run.tips /\ run'.short = run.short
    <3>. HIDE DEF M, E
    <3>. QED  BY <1>0, <1>1, <1>4, <2>1, RunFields
  <2>3. M[a] = MissingDeltas(a) /\ \A b \in Addrs : b # a => M[b] = run.missing[b]
    BY <1>1 DEF MissingSet
  <2>. HIDE DEF M, E
  <2>4. MissingIsRange'
    <3>1. PICK n \in Nat : \A i \in Indexes : chain[a][i] # None <=> i < n
      BY DEF IInv, ChainIsPrefix
    <3>2. \A i \in Indexes : M[a][i] # None <=> run.tips[a] <= i /\ i < n
      BY <1>2, <2>3, <3>1
    <3>. QED
      BY <2>2, <2>3, <3>2 DEF RunInv, MissingIsRange
  <2>5. ProviderInv'
    BY <1>0, <2>2 DEF RunInv, ProviderInv
  <2>6. Listed(a)'
    <3>1. \A i \in Indexes : <<a, i>> \in begun => chain[a][i] # None
      BY DEF IInv, BegunOnChain, Cells
    <3>. QED
      BY <1>0, <1>2, <2>2, <2>3, <3>1 DEF Listed
  <2>7. \A b \in Addrs : b # a /\ Listed(b) => Listed(b)'
    BY <1>0, <2>2, <2>3 DEF Listed
  <2>8. Clean' => Clean
    BY <1>6, <2>1, <2>2 DEF Clean
  <2>9. GapInv'
    BY <1>0, <2>2, <2>6, <2>7, <2>8 DEF RunInv, GapInv
  <2>10. CallStep
    BY <1>0, <2>1, <2>2 DEF CallStep
  <2>11. /\ code' \subseteq Addrs /\ announced' \subseteq Workers \X Addrs
         /\ running' \in BOOLEAN /\ faults' \in 0..MaxFaults
    BY <1>0, <1>6, <2>1 DEF RunInv, TypeOK
  <2>. QED
    BY <2>2, <2>4, <2>5, <2>9, <2>10, <2>11, StepInduction
<1>. QED
  BY <1>5, <1>6 DEF CompareContract

LEMMA IdentifyInduction ==
    ASSUME RunInv, IInv', IdentifyMissingStates PROVE RunInv'
<1>0. /\ run.phase = "compare" /\ run.listed = {} /\ run \in Runs
      /\ UNCHANGED <<called, code, announced, store, begun, chain, answers, running, faults>>
      /\ run' = [run EXCEPT !.phase = "find", !.listed = MissingAddrs]
  BY DEF IdentifyMissingStates, envVars, RunInv, TypeOK, Continue
<1>1. MissingAddrs \subseteq Addrs
  BY DEF MissingAddrs
<1>2. /\ run' \in Runs /\ run'.phase = "find" /\ run'.caller = run.caller
      /\ run'.provs = run.provs /\ run'.wire = run.wire /\ run'.missing = run.missing /\ run'.tips = run.tips
      /\ run'.short = run.short
  BY <1>0, <1>1, RunFields DEF Phases
<1>3. ProviderInv'
  BY <1>0, <1>2 DEF RunInv, ProviderInv
<1>4. Clean' => Clean
  BY <1>0, <1>2 DEF Clean
<1>5. GapInv'
  BY <1>0, <1>2, <1>4, ContractsKept DEF RunInv, GapInv
<1>. QED
  BY <1>0, <1>2, <1>3, <1>5, GoesOn

\* FIND_CONTENT_PROVIDER: a list of workers, or the mark of an error.
LEMMA FindInduction ==
    ASSUME RunInv, IInv', NEW a \in Addrs, FindProvider(a) PROVE RunInv'
<1>0. /\ run.phase = "find" /\ a \in run.listed /\ run \in Runs
      /\ UNCHANGED <<called, code, announced, store, begun, chain>>
  BY DEF FindProvider, envVars, RunInv, TypeOK
<1>1. ASSUME NEW q \in Seq(Workers) \cup {Errored}, Continue(Found(a, q)),
             Fault \/ UNCHANGED faults
      PROVE  RunInv'
  <2>. DEFINE P == [run.provs EXCEPT ![a] = q]
  <2>0. /\ run' = [run EXCEPT !.provs = P, !.listed = run.listed \ {a}]
        /\ UNCHANGED <<answers, running>> /\ run.provs \in ProvsSet /\ run.listed \subseteq Addrs
    BY <1>0, <1>1, RunFields DEF Continue, Found
  <2>1. q \in Seq(Workers \cup {None})
    <3>1. CASE q = Errored
      <4>2. <<None>> \in Seq(Workers \cup {None})
        OBVIOUS
      <4>. QED
        BY <3>1, <4>2 DEF Errored
    <3>2. CASE q \in Seq(Workers)
      BY <3>2, SeqMonotonic
    <3>. QED
      BY <3>1, <3>2
  <2>2. P \in ProvsSet /\ P[a] = q /\ \A b \in Addrs : b # a => P[b] = run.provs[b]
    BY <2>0, <2>1 DEF ProvsSet
  <2>. HIDE DEF P
  <2>3. /\ run' \in Runs /\ run'.phase = "find" /\ run'.caller = run.caller
        /\ run'.provs = P /\ run'.wire = run.wire /\ run'.missing = run.missing /\ run'.tips = run.tips
        /\ run'.short = run.short
    BY <1>0, <2>0, <2>2, RunFields
  <2>4. ProviderInv'
    BY <1>0, <2>2, <2>3 DEF RunInv, ProviderInv
  <2>5. Clean' => Clean
    BY <1>1, <2>0, <2>3, FaultCounts DEF Clean, RunInv
  <2>6. GapInv'
    BY <1>0, <2>3, <2>5, ContractsKept DEF RunInv, GapInv
  <2>. QED
    BY <1>0, <1>1, <2>0, <2>3, <2>4, <2>6, GoesOn
<1>2. ASSUME NEW q \in ProviderLists(a) PROVE q \in Seq(Workers)
  <2>. DEFINE ann == {w \in Workers : <<w, a>> \in announced}
  <2>1. PICK n \in 0..Cardinality(ann) : q \in [1..n -> ann]
    BY <1>2 DEF ProviderLists
  <2>2. n \in Nat
    BY <2>1
  <2>3. q \in [1..n -> Workers]
    BY <2>1
  <2>. QED
    BY <2>2, <2>3
<1>3. CASE Fault /\ Hang
  BY <1>0, <1>3, StopInduction
<1>4. CASE (\E q \in ProviderLists(a) : Continue(Found(a, q))) /\ UNCHANGED faults
  BY <1>1, <1>2, <1>4
<1>5. CASE Fault /\ Continue(Found(a, Errored))
  BY <1>1, <1>5
<1>. QED
  BY <1>3, <1>4, <1>5 DEF FindProvider

\* The receivers start with contracts that have a list.
LEMMA FoundInduction ==
    ASSUME RunInv, IInv', FindContentProvider PROVE RunInv'
<1>0. /\ run.phase = "find" /\ run.listed = {} /\ run \in Runs
      /\ UNCHANGED <<called, code, announced, store, begun, chain, faults>>
  BY DEF FindContentProvider, envVars, RunInv, TypeOK
<1>1. CASE ProvidersErrored
  BY <1>0, <1>1, StopInduction
<1>2. CASE /\ \A a \in MissingAddrs : run.provs[a] # Errored
           /\ Continue([run EXCEPT !.phase = "next", !.listed = MissingAddrs])
  <2>0. MissingAddrs \subseteq Addrs
    BY DEF MissingAddrs
  <2>1. /\ run' \in Runs /\ run'.phase = "next" /\ run'.listed = MissingAddrs
        /\ run'.caller = run.caller /\ run'.short = run.short
        /\ run'.provs = run.provs /\ run'.wire = run.wire /\ run'.missing = run.missing /\ run'.tips = run.tips
        /\ UNCHANGED <<answers, running>>
    BY <1>0, <1>2, <2>0, RunFields DEF Continue, Phases
  <2>2. MissingAddrs' = MissingAddrs
    BY <1>0, <2>1, ContractsKept
  <2>3. ProviderInv'
    BY <1>0, <1>2, <2>0, <2>1, <2>2 DEF RunInv, ProviderInv
  <2>4. Clean' => Clean
    BY <1>0, <2>1 DEF Clean
  <2>5. \A a \in Addrs \ MissingAddrs : Listed(a) => Complete(a)
    BY DEF Listed, Complete, MissingAddrs, Filled
  <2>6. GapInv'
    BY <1>0, <2>1, <2>4, <2>5, ContractsKept DEF RunInv, GapInv
  <2>. QED
    BY <1>0, <2>1, <2>3, <2>6, GoesOn
<1>. QED
  BY <1>1, <1>2 DEF FindContentProvider

-----------------------------------------------------------------------------
(* Receiving: one contract after the other.                                *)

LEMMA WireReset == ASSUME run \in Runs PROVE NoMsg \in WireSet /\ run.attempt \in Nat
  BY IdleTypes, RunFields

\* The caller has heard an error: the run is no longer clean.
LEMMA FailedInduction ==
    ASSUME RunInv, IInv', ReceiveFailed, run.phase \in {"next", "dial", "stream"},
           UNCHANGED <<called, code, announced>>, Fault \/ UNCHANGED faults
    PROVE  RunInv'
<1>1. CASE Abort
  BY <1>1, StopInduction
<1>2. CASE /\ run.caller \in Callbacks
           /\ run' = [run EXCEPT !.phase = "revert", !.wire = NoMsg]
           /\ answers' = Answer(run.caller, "err")
           /\ UNCHANGED running
  <2>0. run \in Runs
    BY DEF RunInv, TypeOK
  <2>1. /\ run' \in Runs /\ run'.phase = "revert" /\ run'.caller = run.caller
        /\ run'.provs = run.provs /\ run'.wire = NoMsg
        /\ run'.missing = run.missing /\ run'.tips = run.tips
    BY <1>2, <2>0, WireReset, RunFields DEF Phases
  <2>2. ProviderInv' /\ MissingIsRange'
    BY <2>1 DEF RunInv, ProviderInv, MissingIsRange
  <2>3. answers'[run.caller] # <<>>
    <3>1. Len(answers'[run.caller]) = Len(answers[run.caller]) + 1
          /\ Len(answers[run.caller]) \in Nat
      BY <1>2, ConstantsAssumption, AnswerAppends DEF RunInv
    <3>. QED
      BY <3>1
  <2>4. GapInv'
    BY <2>1, <2>3 DEF GapInv, Clean
  <2>5. CallStep
    BY <1>2, <2>1 DEF CallStep
  <2>6. /\ code' \subseteq Addrs /\ announced' \subseteq Workers \X Addrs
        /\ running' \in BOOLEAN /\ faults' \in 0..MaxFaults
    BY <1>2, FaultCounts DEF RunInv, TypeOK
  <2>. QED
    BY <2>1, <2>2, <2>4, <2>5, <2>6, StepInduction
<1>. QED
  BY <1>1, <1>2 DEF ReceiveFailed

\* The next job dials again.
LEMMA AttemptInduction ==
    ASSUME RunInv, IInv', AttemptFails, run.phase \in {"dial", "stream"},
           UNCHANGED <<called, code, announced, store, begun>>, Fault \/ UNCHANGED faults
    PROVE  RunInv'
<1>1. CASE ReceiveFailed
  BY <1>1, FailedInduction
<1>2. CASE Continue([run EXCEPT !.phase = "dial", !.attempt = @ + 1, !.wire = NoMsg])
  <2>0. run \in Runs
    BY DEF RunInv, TypeOK
  <2>. DEFINE n == run.attempt + 1
  <2>1. n \in Nat /\ NoMsg \in WireSet
    BY <2>0, WireReset
  <2>2. run' = [run EXCEPT !.phase = "dial", !.attempt = n, !.wire = NoMsg]
        /\ UNCHANGED <<answers, running>>
    BY <1>2 DEF Continue
  <2>. HIDE DEF n
  <2>3. /\ run' \in Runs /\ run'.phase = "dial" /\ run'.caller = run.caller
        /\ run'.provs = run.provs /\ run'.wire = NoMsg /\ run'.cur = run.cur
        /\ run'.attempt = n /\ run'.listed = run.listed
        /\ run'.missing = run.missing /\ run'.tips = run.tips /\ run'.short = run.short
    BY <2>0, <2>1, <2>2, RunFields DEF Phases
  <2>4. MissingAddrs' = MissingAddrs /\ run.attempt \in Nat
    BY <2>0, <2>3, ContractsKept, WireReset
  <2>5. ProviderInv'
    BY <2>3, <2>4 DEF RunInv, ProviderInv, n
  <2>6. Clean' => Clean
    BY <2>3, <2>2, FaultCounts DEF Clean, RunInv
  <2>7. GapInv'
    BY <2>3, <2>6, ContractsKept DEF RunInv, GapInv
  <2>. QED
    BY <2>3, <2>2, <2>5, <2>7, GoesOn
<1>. QED
  BY <1>1, <1>2 DEF AttemptFails

LEMMA TryInduction ==
    ASSUME RunInv, IInv', NEW a \in Addrs, TryReceive(a) PROVE RunInv'
<1>0. /\ run.phase = "next" /\ a \in run.listed /\ run \in Runs
      /\ UNCHANGED <<called, code, announced, store, begun, chain, faults>>
  BY DEF TryReceive, envVars, RunInv, TypeOK
<1>1. CASE ReceiveFailed
  BY <1>0, <1>1, FailedInduction
<1>2. CASE Hang
  BY <1>0, <1>2, StopInduction
<1>3. CASE /\ run.provs[a] # <<>>
           /\ Continue([run EXCEPT !.phase = "dial", !.listed = @ \ {a},
                                   !.cur = a, !.attempt = 1])
  <2>1. /\ run' \in Runs /\ run'.phase = "dial" /\ run'.caller = run.caller
        /\ run'.provs = run.provs /\ run'.wire = run.wire /\ run'.cur = a
        /\ run'.attempt = 1 /\ run'.listed = run.listed \ {a}
        /\ run'.missing = run.missing /\ run'.tips = run.tips /\ run'.short = run.short
        /\ UNCHANGED <<answers, running>>
    BY <1>0, <1>3, RunFields DEF Continue, Phases
  <2>2. MissingAddrs' = MissingAddrs
    BY <1>0, <2>1, ContractsKept
  <2>3. ProviderInv'
    BY <1>0, <1>3, <2>1, <2>2 DEF RunInv, ProviderInv
  <2>4. Clean' => Clean
    BY <1>0, <2>1 DEF Clean
  <2>5. GapInv'
    BY <1>0, <2>1, <2>4, ContractsKept DEF RunInv, GapInv
  <2>. QED
    BY <1>0, <2>1, <2>3, <2>5, GoesOn
<1>. QED
  BY <1>1, <1>2, <1>3 DEF TryReceive

\* A run that goes from one contract to the next, or to the reverts.
LEMMA MoveInduction ==
    ASSUME RunInv, IInv', NEW p \in {"next", "revert"}, GoTo(p),
           run.phase \in {"next", "stream"}, run.wire = NoMsg,
           UNCHANGED <<called, code, announced, store, begun, faults>>,
           p = "revert" => run.listed = {},
           run.phase = "next" \/ (Clean => Complete(run.cur)),
           p = "revert" => run.phase = "next"
    PROVE  RunInv'
<1>0. run \in Runs
  BY DEF RunInv, TypeOK
<1>1. /\ run' \in Runs /\ run'.phase = p /\ run'.caller = run.caller
      /\ run'.provs = run.provs /\ run'.wire = run.wire /\ run'.listed = run.listed
      /\ run'.missing = run.missing /\ run'.tips = run.tips /\ run'.short = run.short
      /\ UNCHANGED <<answers, running>>
  BY <1>0, RunFields DEF GoTo, Continue, Phases
<1>2. MissingAddrs' = MissingAddrs
  BY <1>1, ContractsKept
<1>3. ProviderInv'
  BY <1>1, <1>2 DEF RunInv, ProviderInv
<1>4. Clean' => Clean
  BY <1>1 DEF Clean
<1>5. GapInv'
  BY <1>1, <1>4, ContractsKept DEF RunInv, GapInv
<1>. QED
  BY <1>1, <1>3, <1>5, GoesOn

LEMMA AllDoneInduction ==
    ASSUME RunInv, IInv', TryReceiveAllDone PROVE RunInv'
<1>1. /\ run.phase = "next" /\ run.listed = {} /\ GoTo("revert")
      /\ UNCHANGED <<called, code, announced, store, begun, faults>>
  BY DEF TryReceiveAllDone, envVars
<1>2. run.wire = NoMsg
  BY <1>1 DEF RunInv, ProviderInv
<1>. QED
  BY <1>1, <1>2, MoveInduction

\* Nothing that was on the chain when the run began is reverted.
LEMMA RevertInduction ==
    ASSUME RunInv, IInv, IInv', NEW a \in Addrs, Revert(a) PROVE RunInv'
<1>. DEFINE E == [run.excess EXCEPT ![a] = NoExcess]
<1>0. /\ run.phase = "revert" /\ a \in ExcessAddrs /\ run \in Runs
      /\ UNCHANGED <<called, announced, begun, chain>> /\ code \subseteq Addrs
  BY DEF Revert, RunInv, TypeOK
<1>1. E \in ExcessSet
  <2>1. run.excess \in ExcessSet /\ 0 \in 0..MaxLen
    BY <1>0, RunFields, ConstantsAssumption
  <2>. QED
    BY <2>1 DEF ExcessSet, NoExcess
<1>2. CASE Fault /\ Abort /\ UNCHANGED <<store, code>>
  BY <1>0, <1>2, StopInduction
<1>3. ASSUME Continue([run EXCEPT !.excess[a] = NoExcess]), Fault \/ UNCHANGED faults,
             code' \subseteq Addrs, \A b \in Addrs : Complete(b) => Complete(b)'
      PROVE  RunInv'
  <2>1. run' = [run EXCEPT !.excess = E] /\ UNCHANGED <<answers, running>>
    BY <1>3 DEF Continue
  <2>. HIDE DEF E
  <2>2. /\ run' \in Runs /\ run'.phase = "revert" /\ run'.caller = run.caller
        /\ run'.provs = run.provs /\ run'.wire = run.wire
        /\ run'.missing = run.missing /\ run'.tips = run.tips /\ run'.short = run.short
    BY <1>0, <1>1, <2>1, RunFields
  <2>3. ProviderInv' /\ MissingIsRange'
    BY <1>0, <2>2 DEF RunInv, ProviderInv, MissingIsRange
  <2>4. Clean' => Clean
    BY <1>3, <2>1, <2>2, FaultCounts DEF Clean, RunInv
  <2>5. GapInv'
    BY <1>0, <1>3, <2>2, <2>4 DEF RunInv, GapInv
  <2>6. CallStep
    BY <1>0, <2>1, <2>2 DEF CallStep
  <2>7. /\ announced' \subseteq Workers \X Addrs /\ running' \in BOOLEAN
        /\ faults' \in 0..MaxFaults
    BY <1>0, <1>3, <2>1, FaultCounts DEF RunInv, TypeOK
  <2>. QED
    BY <1>3, <2>2, <2>3, <2>5, <2>6, <2>7, StepInduction
<1>4. run'.tips = run.tips \/ ~ Continue([run EXCEPT !.excess[a] = NoExcess])
  BY <1>0, RunFields DEF Continue
<1>5. CASE Fault /\ Continue([run EXCEPT !.excess[a] = NoExcess]) /\ UNCHANGED <<store, code>>
  <2>1. \A b \in Addrs : Complete(b) => Complete(b)'
    BY <1>0, <1>4, <1>5 DEF Complete
  <2>. QED
    BY <1>0, <1>3, <1>5, <2>1
<1>6. CASE RevertDb(a) /\ Continue([run EXCEPT !.excess[a] = NoExcess]) /\ UNCHANGED faults
  <2>. DEFINE R == [i \in Indexes |-> IF i \in Removed(run.excess[a]) THEN None
                                      ELSE store[Self][a][i]]
  <2>1. /\ store' = [store EXCEPT ![Self] = [store[Self] EXCEPT ![a] = R]]
        /\ code' = IF run.excess[a].remoteTip = 0 THEN code \ {a} ELSE code
        /\ run'.tips = run.tips
    BY <1>4, <1>6 DEF RevertDb
  <2>2. \A i \in Removed(run.excess[a]) : <<a, i>> \notin begun
    BY <1>0 DEF IInv, ExcessNotBegun, NotBegun, ExcessAddrs
  <2>3. \A i \in Indexes : <<a, i>> \in begun => R[i] = store[Self][a][i]
    BY <2>2
  <2>4. run.excess[a].remoteTip = 0 => \A i \in Indexes : <<a, i>> \notin begun
    BY <2>2 DEF Removed
  <2>. HIDE DEF R
  <2>5. store'[Self][a] = R /\ \A b \in Addrs : b # a => store'[Self][b] = store[Self][b]
    <3>1. store \in [Workers -> [Addrs -> Row]] /\ Self \in Workers
      BY Constants DEF RunInv, TypeOK
    <3>. QED
      BY <2>1, <3>1
  <2>6. Complete(a) => Complete(a)'
    BY <1>0, <2>1, <2>3, <2>4, <2>5 DEF Complete
  <2>7. \A b \in Addrs : b # a /\ Complete(b) => Complete(b)'
    BY <1>0, <2>1, <2>5 DEF Complete
  <2>. QED
    BY <1>0, <1>3, <1>6, <2>1, <2>6, <2>7
<1>. QED
  BY <1>2, <1>5, <1>6 DEF Revert

LEMMA FinishInduction ==
    ASSUME RunInv, IInv', Finish PROVE RunInv'
<1>1. /\ Ends /\ called' = called /\ answers' = AnswerDone(run.caller)
      /\ running' \in BOOLEAN /\ UNCHANGED <<code, announced, faults>>
  BY DEF Finish, Ends, envVars
<1>. QED
  BY <1>1, EndInduction DEF RunInv, TypeOK

-----------------------------------------------------------------------------
(* The requests cover what is missing.                                     *)

LEMMA MissingRange ==
    ASSUME RunInv, NEW a \in MissingAddrs
    PROVE  /\ FirstMissing(a) = run.tips[a] /\ run.tips[a] \in Nat /\ TotalMissing(a) \in Nat
           /\ \A i \in Indexes :
                run.missing[a][i] # None <=>
                    run.tips[a] <= i /\ i < run.tips[a] + TotalMissing(a)
<1>. DEFINE F == Filled(run.missing[a])
            t == run.tips[a]
<1>0. a \in Addrs /\ F # {} /\ t \in Nat /\ F \subseteq Indexes
  <2>1. a \in Addrs /\ F # {} /\ run.tips \in TipsSet
    BY RunFields DEF MissingAddrs, RunInv, TypeOK
  <2>. QED
    BY <2>1 DEF TipsSet, Filled
<1>1. PICK n \in Nat : \A i \in Indexes : run.missing[a][i] # None <=> t <= i /\ i < n
  BY <1>0 DEF RunInv, MissingIsRange
<1>. DEFINE m == IF n < MaxLen THEN n ELSE MaxLen
<1>2. m \in Nat /\ \A i \in Indexes : i \in Nat /\ (i < n <=> i < m)
  BY ConstantsAssumption DEF Indexes
<1>3. \A j \in Nat : j < m => j \in Indexes
  BY ConstantsAssumption DEF Indexes
<1>. HIDE DEF m
<1>4. \A i : i \in F <=> i \in Indexes /\ t <= i /\ i < m
  BY <1>0, <1>1, <1>2 DEF Filled
<1>5. F = t..(m - 1)
  <2>. HIDE DEF F, t
  <2>1. \A i \in F : i \in t..(m - 1)
    BY <1>0, <1>2, <1>4
  <2>2. \A i \in t..(m - 1) : i \in F
    BY <1>0, <1>2, <1>3, <1>4
  <2>. QED
    BY <2>1, <2>2, Zenon
<1>6. t < m
  BY <1>0, <1>2, <1>4
<1>7. Min(F) = t
  <2>1. MaxLen - 1 \in Nat /\ F \subseteq 0..(MaxLen - 1)
    BY <1>0, ConstantsAssumption DEF Indexes
  <2>2. Min(F) \in F /\ \A y \in F : Min(F) <= y
    <3>. HIDE DEF F
    <3>. QED  BY <1>0, <2>1, Extremes
  <2>3. t \in F /\ \A y \in F : y \in Nat /\ t <= y
    BY <1>0, <1>2, <1>3, <1>4, <1>6
  <2>. HIDE DEF F
  <2>. QED
    BY <1>0, <2>2, <2>3
<1>8. Cardinality(F) = m - t
  <2>. HIDE DEF F, t
  <2>1. t \in Int /\ m - 1 \in Int
    BY <1>0, <1>2
  <2>2. Cardinality(t..(m - 1)) = IF t > m - 1 THEN 0 ELSE (m - 1) - t + 1
    BY <2>1, FS_Interval, Zenon
  <2>. QED
    BY <1>0, <1>2, <1>5, <1>6, <2>2
<1>9. FirstMissing(a) = t /\ TotalMissing(a) = m - t
  BY <1>7, <1>8 DEF FirstMissing, TotalMissing
<1>. QED
  BY <1>0, <1>1, <1>2, <1>6, <1>9

\* Rounding up loses no delta.
LEMMA RoundedUp ==
    ASSUME NEW T \in Nat, NEW R \in Nat \ {0}
    PROVE  (T + R - 1) \div R \in Nat /\ T <= ((T + R - 1) \div R) * R
<1>. DEFINE x == T + R - 1
            b == x \div R
<1>1. x \in Nat
  OBVIOUS
<1>. HIDE DEF x
<1>2. b \in Nat /\ x < (b * R) + R /\ b * R \in Nat
  BY <1>1
<1>. HIDE DEF b
<1>3. T <= b * R
  BY <1>2 DEF x
<1>. QED
  BY <1>2, <1>3 DEF b, x

\* Requests are counted from one: request k + 1 begins where request k ends.
LEMMA Products ==
    ASSUME NEW R \in Nat \ {0}, NEW k \in Nat
    PROVE  /\ k * R \in Nat /\ (k + 1) * R = k * R + R
           /\ \A b \in Nat : b <= k => b * R <= k * R
  OBVIOUS

LEMMA BucketsCover ==
    ASSUME RunInv, NEW a \in MissingAddrs
    PROVE  /\ BucketsNum(a) \in Nat
           /\ \A k \in Nat : BucketsNum(a) <= k => TotalMissing(a) <= k * RangeLimit
           /\ \A k \in Nat, i \in Indexes :
                /\ run.missing[a][i] # None
                /\ run.tips[a] + k * RangeLimit <= i
                /\ i < run.tips[a] + (k + 1) * RangeLimit
                => i \in Bucket(a, k + 1)
<1>. DEFINE T == TotalMissing(a)
            t == run.tips[a]
            B == BucketsNum(a)
<1>0. /\ RangeLimit \in Nat \ {0} /\ FirstMissing(a) = t /\ t \in Nat /\ T \in Nat
      /\ \A i \in Indexes : run.missing[a][i] # None <=> t <= i /\ i < t + T
  BY MissingRange, ConstantsAssumption
<1>1. B = (T + RangeLimit - 1) \div RangeLimit
  BY DEF BucketsNum
<1>. HIDE DEF T, t, B
<1>2. B \in Nat /\ T <= B * RangeLimit
  BY <1>0, <1>1, RoundedUp
<1>3. ASSUME NEW k \in Nat, B <= k PROVE T <= k * RangeLimit
  <2>1. k * RangeLimit \in Nat /\ B * RangeLimit \in Nat /\ B * RangeLimit <= k * RangeLimit
    BY <1>0, <1>2, <1>3, Products
  <2>. QED
    BY <1>0, <1>2, <2>1
<1>4. ASSUME NEW k \in Nat, NEW i \in Indexes, run.missing[a][i] # None,
             t + k * RangeLimit <= i, i < t + (k + 1) * RangeLimit
      PROVE  i \in Bucket(a, k + 1)
  <2>. DEFINE p == k * RangeLimit
              e == Min({p + RangeLimit, T})
  <2>1. p \in Nat /\ (k + 1) * RangeLimit = p + RangeLimit /\ ((k + 1) - 1) * RangeLimit = p
    BY <1>0, Products
  <2>2. i \in Nat /\ t + p <= i /\ i < t + (p + RangeLimit) /\ i < t + T
    BY <1>0, <1>4, <2>1, Constants
  <2>3. Bucket(a, k + 1) = {j \in Indexes : t + p <= j /\ j < t + e}
    BY <1>0, <2>1 DEF Bucket, T
  <2>. HIDE DEF p
  <2>4. e = IF p + RangeLimit <= T THEN p + RangeLimit ELSE T
    BY <1>0, <2>1, MinOfTwo
  <2>. QED
    BY <1>0, <2>1, <2>2, <2>3, <2>4
<1>. QED
  BY <1>2, <1>3, <1>4 DEF T, t, B

-----------------------------------------------------------------------------
(* The stream of one contract.                                             *)

\* The local variables of a stream.
LEMMA StreamFacts ==
    ASSUME RunInv, run.phase \in {"dial", "stream"}
    PROVE  /\ run \in Runs /\ run.cur \in MissingAddrs /\ run.cur \in Addrs
           /\ run.req \in Nat /\ run.wire \in WireSet
           /\ ProviderOf(run.cur, run.attempt) \in Workers
           /\ run.phase = "stream" => run.req - 1 \in Nat
<1>1. run \in Runs /\ run.cur \in MissingAddrs /\ run.cur \in Addrs
  BY DEF RunInv, TypeOK, ProviderInv, MissingAddrs
<1>2. run.req \in Nat /\ run.wire \in WireSet
  BY <1>1, RunFields
<1>3. run.phase = "stream" => run.req - 1 \in Nat
  BY <1>2 DEF RunInv, ProviderInv
<1>. QED
  BY <1>1, <1>2, <1>3, ProviderIsWorker DEF RunInv

\* The requests depend on the contract and on what is missing only.
LEMMA RequestsKept ==
    ASSUME run'.cur = run.cur, run'.missing = run.missing
    PROVE  /\ BucketsNum(run.cur)' = BucketsNum(run.cur)
           /\ run'.req = run.req =>
                /\ RequestType(run.cur, run.req)' = RequestType(run.cur, run.req)
                /\ Bucket(run.cur, run.req)' = Bucket(run.cur, run.req)
  BY DEF BucketsNum, TotalMissing, FirstMissing, RequestType, Bucket

LEMMA DialInduction ==
    ASSUME RunInv, IInv', Dial PROVE RunInv'
<1>0. /\ run.phase = "dial" /\ UNCHANGED <<called, code, announced, store, begun, chain>>
  BY DEF Dial, envVars
<1>1. CASE Hang /\ UNCHANGED faults
  BY <1>0, <1>1, StopInduction
<1>2. CASE Fault /\ AttemptFails
  BY <1>0, <1>2, AttemptInduction
<1>3. CASE Continue([run EXCEPT !.phase = "stream", !.req = 1]) /\ UNCHANGED faults
  <2>0. run \in Runs /\ run.cur \in MissingAddrs
    BY <1>0, StreamFacts
  <2>1. /\ run' \in Runs /\ run'.phase = "stream" /\ run'.caller = run.caller
        /\ run'.provs = run.provs /\ run'.wire = run.wire /\ run'.cur = run.cur
        /\ run'.attempt = run.attempt /\ run'.listed = run.listed /\ run'.req = 1
        /\ run'.missing = run.missing /\ run'.tips = run.tips /\ run'.short = run.short
        /\ UNCHANGED <<answers, running>>
    BY <1>3, <2>0, RunFields DEF Continue, Phases
  <2>2. MissingAddrs' = MissingAddrs
    BY <1>0, <2>1, ContractsKept
  <2>3. ProviderInv'
    BY <1>0, <2>1, <2>2 DEF RunInv, ProviderInv
  <2>4. Clean' => Clean
    BY <1>3, <2>1 DEF Clean
  <2>5. StreamInv'
    <3>1. run.wire = NoMsg
      BY <1>0 DEF RunInv, ProviderInv
    <3>2. BucketsNum(run.cur) \in Nat
      BY <2>0, BucketsCover
    <3>3. /\ run.tips[run.cur] \in Nat /\ (1 - 1) * RangeLimit = 0
          /\ \A i \in Indexes : run.missing[run.cur][i] # None => run.tips[run.cur] <= i
      BY <2>0, MissingRange, ConstantsAssumption
    <3>4. \A i \in Indexes : i \in Nat
      BY Constants
    <3>5. ASSUME NEW i \in Indexes, run.missing[run.cur][i] # None
          PROVE  ~ (i < run.tips[run.cur] + (1 - 1) * RangeLimit)
      BY <3>3, <3>4, <3>5
    <3>. QED
      BY <2>1, <3>1, <3>2, <3>5, RequestsKept DEF StreamInv
  <2>6. GapInv'
    BY <1>0, <2>1, <2>4, <2>5, ContractsKept DEF RunInv, GapInv
  <2>. QED
    BY <1>0, <1>3, <2>1, <2>3, <2>6, GoesOn
<1>. QED
  BY <1>1, <1>2, <1>3 DEF Dial

\* A range that the provider has in full arrives in full.
LEMMA RespondInduction ==
    ASSUME RunInv, IInv', ProviderResponds PROVE RunInv'
<1>. DEFINE p == ProviderOf(run.cur, run.attempt)
            m == Response(p, run.cur, run.req)
            l == Lacks(p, run.cur, run.req)
<1>0. /\ run.phase = "stream" /\ run.wire = NoMsg
      /\ UNCHANGED <<called, code, announced, store, begun, chain>>
  BY DEF ProviderResponds, envVars
<1>1. run \in Runs /\ run.cur \in MissingAddrs /\ p \in Workers /\ run.cur \in Addrs
  BY <1>0, StreamFacts
<1>. HIDE DEF p
<1>2. /\ m.kind = RequestType(run.cur, run.req) /\ m \in WireSet
      /\ m.kind = "deltas" => \A i \in Bucket(run.cur, run.req) :
                                  m.deltas[i] = store[p][run.cur][i]
  <2>1. store[p][run.cur] \in Row /\ EmptyRow \in Row
    BY <1>1, Constants DEF RunInv, TypeOK
  <2>2. DbRequest(p, run.cur, run.req) \in Row
    BY <2>1 DEF DbRequest, GetDeltas, GetContractCode, Row
  <2>3. RequestType(run.cur, run.req) \in {"none", "deltas", "code", "error"}
    BY DEF RequestType
  <2>4. Bucket(run.cur, run.req) \subseteq Indexes
    BY DEF Bucket
  <2>5. /\ m.kind = RequestType(run.cur, run.req) /\ m \in WireSet
        /\ m.deltas = DbRequest(p, run.cur, run.req)
    BY <2>2, <2>3 DEF Response, WireSet
  <2>. QED
    BY <2>4, <2>5 DEF DbRequest, GetDeltas
<1>3. l \in BOOLEAN /\ (~ l /\ RequestType(run.cur, run.req) = "deltas" =>
                            \A i \in Bucket(run.cur, run.req) : store[p][run.cur][i] # None)
  BY DEF Lacks
<1>. HIDE DEF m, l
<1>4. ASSUME NEW w \in WireSet, NEW s \in BOOLEAN, Fault \/ UNCHANGED faults,
             Continue([run EXCEPT !.wire = w, !.short = s]),
             Clean' => Clean,
             Clean' => /\ w.kind = RequestType(run.cur, run.req)
                       /\ w.kind = "deltas" =>
                            \A i \in Bucket(run.cur, run.req) : w.deltas[i] # None
      PROVE  RunInv'
  <2>1. /\ run' \in Runs /\ run'.phase = "stream" /\ run'.caller = run.caller
        /\ run'.provs = run.provs /\ run'.wire = w /\ run'.cur = run.cur
        /\ run'.attempt = run.attempt /\ run'.listed = run.listed /\ run'.req = run.req
        /\ run'.missing = run.missing /\ run'.tips = run.tips
        /\ UNCHANGED <<answers, running>>
    BY <1>0, <1>1, <1>4, RunFields DEF Continue
  <2>2. MissingAddrs' = MissingAddrs
    BY <1>0, <2>1, ContractsKept
  <2>3. ProviderInv'
    BY <1>0, <2>1, <2>2 DEF RunInv, ProviderInv
  <2>4. ASSUME Clean' PROVE StreamInv'
    <3>1. StreamInv
      BY <1>0, <1>4, <2>4 DEF RunInv, GapInv
    <3>. QED
      BY <1>0, <1>4, <2>1, <2>4, <3>1, RequestsKept DEF StreamInv
  <2>5. GapInv'
    BY <1>0, <1>4, <2>1, <2>4, ContractsKept DEF RunInv, GapInv
  <2>. QED
    BY <1>0, <1>4, <2>1, <2>3, <2>5, GoesOn
<1>5. CASE Continue([run EXCEPT !.wire = m, !.short = @ \/ l]) /\ UNCHANGED faults
  <2>. DEFINE s == run.short \/ l
  <2>1. s \in BOOLEAN
    OBVIOUS
  <2>2. run' = [run EXCEPT !.wire = m, !.short = s] /\ UNCHANGED <<answers, running>>
    BY <1>5 DEF Continue
  <2>. HIDE DEF s
  <2>3. run'.caller = run.caller /\ run'.short = s
    BY <1>1, <2>2, RunFields
  <2>4. Clean' => Clean /\ ~ l
    BY <1>5, <2>2, <2>3 DEF Clean, s
  <2>. QED
    BY <1>2, <1>3, <1>4, <1>5, <2>1, <2>2, <2>4 DEF Continue
<1>6. CASE Fault /\ Continue([run EXCEPT !.wire = [NoMsg EXCEPT !.kind = "error"]])
  <2>. DEFINE w == [NoMsg EXCEPT !.kind = "error"]
  <2>1. w \in WireSet
    BY IdleTypes DEF WireSet
  <2>. HIDE DEF w
  <2>2. run.short \in BOOLEAN
    BY <1>1, RunFields
  <2>3. run' = [run EXCEPT !.wire = w, !.short = run.short] /\ UNCHANGED <<answers, running>>
    BY <1>1, <1>6, RunFields DEF Continue, w
  <2>4. ~ Clean'
    BY <1>6, FaultCounts DEF Clean, RunInv
  <2>. QED
    BY <1>4, <1>6, <2>1, <2>2, <2>3, <2>4 DEF Continue
<1>. QED
  BY <1>5, <1>6 DEF ProviderResponds, p, m, l

\* A clean run has no message without msgType, and a refused one dials again.
LEMMA RejectInduction ==
    ASSUME RunInv, IInv', ReceiverRejects PROVE RunInv'
<1>0. /\ run.phase = "stream"
      /\ UNCHANGED <<called, code, announced, store, begun, chain, faults>>
  BY DEF ReceiverRejects, envVars
<1>1. CASE AttemptFails
  BY <1>0, <1>1, AttemptInduction
<1>2. CASE run.wire.kind = "error" /\ Continue([run EXCEPT !.phase = "next", !.wire = NoMsg])
  <2>0. run \in Runs
    BY <1>0, StreamFacts
  <2>1. /\ run' \in Runs /\ run'.phase = "next" /\ run'.caller = run.caller
        /\ run'.provs = run.provs /\ run'.wire = NoMsg /\ run'.listed = run.listed
        /\ run'.missing = run.missing /\ run'.tips = run.tips /\ run'.short = run.short
        /\ UNCHANGED <<answers, running>>
    BY <1>2, <2>0, WireReset, RunFields DEF Continue, Phases
  <2>2. MissingAddrs' = MissingAddrs
    BY <1>0, <2>1, ContractsKept
  <2>3. ProviderInv'
    BY <1>0, <2>1, <2>2 DEF RunInv, ProviderInv
  <2>4. ~ Clean
    <3>1. Clean => StreamInv
      BY <1>0 DEF RunInv, GapInv
    <3>2. run.wire # NoMsg
      BY <1>2 DEF NoMsg
    <3>. QED
      BY <1>2, <3>1, <3>2 DEF StreamInv, RequestType
  <2>5. GapInv'
    BY <1>0, <2>1, <2>4 DEF GapInv, Clean
  <2>. QED
    BY <1>0, <2>1, <2>3, <2>5, GoesOn
<1>. QED
  BY <1>1, <1>2 DEF ReceiverRejects

\* A request is answered and stored: the next one begins where it ended.
LEMMA StoreInduction ==
    ASSUME RunInv, IInv', ReceiverStores PROVE RunInv'
<1>. DEFINE a == run.cur
            k == run.req - 1
            n == run.req + 1
<1>0. /\ run.phase = "stream" /\ HasMsgType(run.wire)
      /\ UNCHANGED <<called, announced, begun, chain>>
  BY DEF ReceiverStores
<1>1. /\ run \in Runs /\ a \in MissingAddrs /\ a \in Addrs /\ k \in Nat /\ n \in Nat
      /\ run.req = k + 1 /\ n = (k + 1) + 1 /\ run.wire \in WireSet
  BY <1>0, StreamFacts
<1>. HIDE DEF k, n
<1>2. CASE Fault /\ Hang /\ UNCHANGED <<store, code>>
  BY <1>0, <1>2, StopInduction
<1>3. ASSUME Continue([run EXCEPT !.wire = NoMsg, !.req = @ + 1]), Fault \/ UNCHANGED faults,
             code' \subseteq Addrs, code \subseteq code',
             \A b \in Addrs, i \in Indexes :
                 store[Self][b][i] # None => store'[Self][b][i] # None,
             faults' = faults /\ Clean =>
                 /\ \A i \in Indexes :
                     run.missing[a][i] # None /\ i < run.tips[a] + (k + 1) * RangeLimit
                     => store'[Self][a][i] # None
                 /\ k + 1 > BucketsNum(a) => a \in code'
      PROVE  RunInv'
  <2>0. run' = [run EXCEPT !.wire = NoMsg, !.req = n] /\ UNCHANGED <<answers, running>>
    BY <1>3 DEF Continue, n
  <2>1. /\ run' \in Runs /\ run'.phase = "stream" /\ run'.caller = run.caller
        /\ run'.provs = run.provs /\ run'.wire = NoMsg /\ run'.cur = a
        /\ run'.attempt = run.attempt /\ run'.listed = run.listed /\ run'.req = n
        /\ run'.missing = run.missing /\ run'.tips = run.tips /\ run'.short = run.short
    BY <1>0, <1>1, <2>0, WireReset, RunFields
  <2>2. MissingAddrs' = MissingAddrs
    BY <2>1 DEF MissingAddrs
  <2>3. ProviderInv'
    BY <1>0, <1>1, <2>1, <2>2 DEF RunInv, ProviderInv
  <2>4. MissingIsRange'
    BY <2>1 DEF RunInv, MissingIsRange
  <2>5. Clean' => Clean /\ faults' = faults
    BY <1>3, <2>0, <2>1, FaultCounts DEF Clean, RunInv
  <2>6. \A b \in Addrs : (Listed(b) => Listed(b)') /\ (Complete(b) => Complete(b)')
    BY <1>0, <1>3, <2>1 DEF Listed, Complete
  <2>7. ASSUME Clean' PROVE StreamInv'
    <3>1. BucketsNum(a)' = BucketsNum(a) /\ BucketsNum(a) \in Nat
      BY <1>1, <2>1, RequestsKept, BucketsCover
    <3>2. n - 1 = k + 1 /\ (n > BucketsNum(a) + 1 => k + 1 > BucketsNum(a))
      BY <1>1, <3>1
    <3>. QED
      BY <1>3, <2>1, <2>5, <2>7, <3>1, <3>2 DEF StreamInv
  <2>8. GapInv'
    BY <1>0, <2>1, <2>5, <2>6, <2>7 DEF RunInv, GapInv
  <2>9. CallStep
    BY <1>0, <2>0, <2>1 DEF CallStep
  <2>10. /\ announced' \subseteq Workers \X Addrs /\ running' \in BOOLEAN
         /\ faults' \in 0..MaxFaults
    BY <1>0, <1>3, <2>0, FaultCounts DEF RunInv, TypeOK
  <2>. QED
    BY <1>3, <2>1, <2>3, <2>4, <2>8, <2>9, <2>10, StepInduction
<1>4. CASE /\ Fault /\ Continue([run EXCEPT !.wire = NoMsg, !.req = @ + 1])
           /\ UNCHANGED <<store, code>>
  <2>1. faults' # faults /\ code \subseteq Addrs
    BY <1>4 DEF Fault, RunInv, TypeOK
  <2>. QED
    BY <1>3, <1>4, <2>1
<1>5. CASE /\ WriteDb(run.wire) /\ Continue([run EXCEPT !.wire = NoMsg, !.req = @ + 1])
           /\ UNCHANGED faults
  <2>0. /\ store \in [Workers -> [Addrs -> Row]] /\ Self \in Workers /\ code \subseteq Addrs
    BY Constants DEF RunInv, TypeOK
  <2>1. ASSUME Clean
        PROVE  /\ run.wire.kind = RequestType(a, k + 1)
               /\ run.wire.kind = "deltas" =>
                    \A i \in Bucket(a, k + 1) : run.wire.deltas[i] # None
               /\ \A i \in Indexes : run.missing[a][i] # None /\ i < run.tips[a] + k * RangeLimit
                    => store[Self][a][i] # None
    <3>1. StreamInv
      BY <1>0, <2>1 DEF RunInv, GapInv
    <3>2. run.wire # NoMsg
      BY <1>0 DEF HasMsgType, NoMsg
    <3>. QED
      BY <1>1, <3>1, <3>2 DEF StreamInv, k
  <2>2. /\ BucketsNum(a) \in Nat /\ run.tips[a] \in Nat /\ k * RangeLimit \in Nat
        /\ Indexes \subseteq Nat /\ TotalMissing(a) \in Nat
    BY <1>1, BucketsCover, MissingRange, Products, Constants, ConstantsAssumption
  <2>3. CASE run.wire.kind = "deltas"
    <3>. DEFINE d == run.wire.deltas
                R == [i \in Indexes |-> IF d[i] # None THEN d[i] ELSE store[Self][a][i]]
    <3>1. store' = [store EXCEPT ![Self] = [store[Self] EXCEPT ![a] = R]] /\ code' = code
      BY <1>5, <2>3 DEF WriteDb
    <3>2. \A i \in Indexes : (d[i] # None \/ store[Self][a][i] # None) => R[i] # None
      OBVIOUS
    <3>. HIDE DEF R
    <3>3. store'[Self][a] = R /\ \A b \in Addrs : b # a => store'[Self][b] = store[Self][b]
      BY <1>1, <2>0, <3>1
    <3>4. \A b \in Addrs, i \in Indexes :
              store[Self][b][i] # None => store'[Self][b][i] # None
      BY <3>2, <3>3
    <3>5. ASSUME Clean, NEW i \in Indexes, run.missing[a][i] # None,
                 i < run.tips[a] + (k + 1) * RangeLimit
          PROVE  store'[Self][a][i] # None
      <4>1. CASE i < run.tips[a] + k * RangeLimit
        BY <1>1, <2>1, <3>4, <3>5, <4>1
      <4>2. CASE ~ (i < run.tips[a] + k * RangeLimit)
        <5>1. run.tips[a] + k * RangeLimit <= i
          BY <2>2, <4>2
        <5>2. i \in Bucket(a, k + 1)
          BY <1>1, <3>5, <5>1, BucketsCover
        <5>. QED
          BY <2>1, <2>3, <3>2, <3>3, <3>5, <5>2
      <4>. QED
        BY <4>1, <4>2
    <3>6. Clean => ~ (k + 1 > BucketsNum(a))
      BY <1>1, <2>1, <2>2, <2>3 DEF RequestType
    <3>. QED
      BY <1>3, <1>5, <2>0, <3>1, <3>4, <3>5, <3>6
  <2>4. CASE run.wire.kind # "deltas"
    <3>1. store' = store /\ code' = code \cup {a}
      BY <1>5, <2>4 DEF WriteDb
    <3>2. ASSUME Clean, NEW i \in Indexes, run.missing[a][i] # None
          PROVE  store'[Self][a][i] # None
      <4>1. BucketsNum(a) <= k
        BY <1>1, <2>1, <2>2, <2>4, <3>2 DEF RequestType
      <4>2. TotalMissing(a) <= k * RangeLimit
        BY <1>1, <4>1, BucketsCover
      <4>3. i < run.tips[a] + TotalMissing(a) /\ i \in Nat
        BY <1>1, <2>2, <3>2, MissingRange
      <4>4. i < run.tips[a] + k * RangeLimit
        BY <2>2, <4>2, <4>3
      <4>. QED
        BY <2>1, <3>1, <3>2, <4>4
    <3>. QED
      BY <1>1, <1>3, <1>5, <2>0, <3>1, <3>2
  <2>. QED
    BY <2>3, <2>4
<1>. QED
  BY <1>2, <1>4, <1>5 DEF ReceiverStores

\* After the last request nothing that is missing is left.
LEMMA StreamEndInduction ==
    ASSUME RunInv, IInv', StreamEnds PROVE RunInv'
<1>. DEFINE a == run.cur
            k == run.req - 1
<1>0. /\ run.phase = "stream" /\ run.wire = NoMsg
      /\ UNCHANGED <<called, code, announced, store, begun, chain>>
  BY DEF StreamEnds, envVars
<1>1. CASE Fault /\ AttemptFails
  BY <1>0, <1>1, AttemptInduction
<1>2. CASE run.req > RequestsNum(a) /\ GoTo("next") /\ UNCHANGED faults
  <2>1. /\ a \in MissingAddrs /\ a \in Addrs /\ k \in Nat /\ run.req \in Nat
    BY <1>0, StreamFacts
  <2>2. /\ BucketsNum(a) \in Nat /\ run.tips[a] \in Nat /\ TotalMissing(a) \in Nat
        /\ FirstMissing(a) = run.tips[a] /\ Indexes \subseteq Nat /\ k * RangeLimit \in Nat
    BY <2>1, BucketsCover, MissingRange, Products, Constants, ConstantsAssumption
  <2>3. BucketsNum(a) <= k /\ (run.tips[a] = 0 => run.req > BucketsNum(a) + 1)
    BY <1>2, <2>1, <2>2 DEF RequestsNum, IsBCodeRequest
  <2>4. ASSUME Clean PROVE Complete(a)
    <3>1. Listed(a) /\ StreamInv
      BY <1>0, <2>1, <2>4 DEF RunInv, GapInv
    <3>. SUFFICES ASSUME NEW i \in Indexes, <<a, i>> \in begun, run.tips[a] <= i
                 PROVE  store[Self][a][i] # None /\ (run.tips[a] = 0 => a \in code)
      BY DEF Complete
    <3>2. run.missing[a][i] # None
      BY <3>1 DEF Listed
    <3>3. i < run.tips[a] + TotalMissing(a) /\ i \in Nat
      BY <2>1, <2>2, <3>2, MissingRange
    <3>4. TotalMissing(a) <= k * RangeLimit
      BY <2>1, <2>3, BucketsCover
    <3>5. i < run.tips[a] + k * RangeLimit
      BY <2>2, <3>3, <3>4
    <3>. QED
      BY <2>3, <3>1, <3>2, <3>5 DEF StreamInv
  <2>. QED
    BY <1>0, <1>2, <2>4, MoveInduction
<1>. QED
  BY <1>1, <1>2 DEF StreamEnds

-----------------------------------------------------------------------------
(* The theorems.                                                           *)

LEMMA InitialRun == Init => RunInv
<1>. SUFFICES ASSUME Init PROVE RunInv
  OBVIOUS
<1>1. /\ run = Idle /\ run.caller = None /\ run.phase = "idle" /\ run.wire = NoMsg
      /\ run.provs = [a \in Addrs |-> <<>>] /\ run.tips = [a \in Addrs |-> 0]
      /\ run.missing = Empty
  BY DEF Init, Idle
<1>2. TypeOK
  <2>1. Empty \in [Addrs -> Row]
    BY Constants DEF Empty
  <2>2. [c \in Calls |-> <<>>] \in [Calls -> Seq({"err", "done"})]
    BY EmptySeq
  <2>3. run \in Runs
    BY <1>1, IdleTypes
  <2>4. chain \in [Addrs -> Row] /\ store \in [Workers -> [Addrs -> Row]]
    BY <2>1 DEF Init
  <2>5. /\ code \subseteq Addrs /\ announced \subseteq Workers \X Addrs /\ called \subseteq Calls
        /\ begun \subseteq Addrs \X Indexes
    BY DEF Init
  <2>6. answers \in [Calls -> Seq({"err", "done"})] /\ running \in BOOLEAN
    BY <2>2, Zenon DEF Init
  <2>7. faults \in 0..MaxFaults
    BY ConstantsAssumption DEF Init
  <2>. QED
    BY <2>3, <2>4, <2>5, <2>6, <2>7 DEF TypeOK
<1>3. CallerInv /\ DoneIsLast
  BY <1>1 DEF Init, CallerInv, DoneIsLast
<1>4. ProviderInv
  BY <1>1, EmptySeq DEF ProviderInv
<1>5. MissingIsRange
  <2>1. \A a \in Addrs, i \in Indexes : run.missing[a][i] = None /\ ~ (i < 0)
    BY <1>1, Constants DEF Empty
  <2>2. \A a \in Addrs, i \in Indexes : run.missing[a][i] # None <=> run.tips[a] <= i /\ i < 0
    BY <2>1, Zenon
  <2>. QED
    BY <1>1, <2>2 DEF MissingIsRange
<1>6. GapInv
  BY <1>1 DEF GapInv
<1>. QED
  BY <1>2, <1>3, <1>4, <1>5, <1>6 DEF RunInv

LEMMA RunStutters ==
    ASSUME RunInv, IInv', UNCHANGED vars PROVE RunInv'
<1>1. Quiet /\ UNCHANGED <<store, code, announced>>
  BY DEF vars, Quiet
<1>. QED
  BY <1>1, QuietInduction DEF RunInv, TypeOK

LEMMA RunStep == IInv /\ IInv' /\ RunInv /\ [Next]_vars => RunInv'
<1>. SUFFICES ASSUME IInv, IInv', RunInv, [Next]_vars PROVE RunInv'
  OBVIOUS
<1>1. CASE UNCHANGED vars
  BY <1>1, RunStutters
<1>2. CASE Environment
  BY <1>2, EnvironmentInduction
<1>3. CASE \E c \in Calls : SyncExecute(c)
  BY <1>3, ExecuteInduction
<1>4. CASE Pipeline
  <2>1. CASE GetAllTips \/ GetAllSecretContractAddresses \/ IdentifyMissingStates
    BY <2>1, TipsInduction, AddressesInduction, IdentifyInduction
  <2>2. CASE \E a \in Addrs : CompareContract(a) \/ FindProvider(a) \/ TryReceive(a) \/ Revert(a)
    BY <2>2, CompareInduction, FindInduction, TryInduction, RevertInduction
  <2>3. CASE FindContentProvider \/ TryReceiveAllDone \/ Dial \/ ProviderResponds
    BY <2>3, FoundInduction, AllDoneInduction, DialInduction, RespondInduction
  <2>4. CASE ReceiverRejects \/ ReceiverStores \/ StreamEnds \/ Finish
    BY <2>4, RejectInduction, StoreInduction, StreamEndInduction, FinishInduction
  <2>. QED
    BY <1>4, <2>1, <2>2, <2>3, <2>4 DEF Pipeline
<1>. QED
  BY <1>1, <1>2, <1>3, <1>4 DEF Next

\* The inductive invariant of a run.
THEOREM RunInvariance == Spec => [](IInv /\ RunInv)
<1>1. Init => IInv /\ RunInv
  BY InitHolds, InitialRun
<1>2. IInv /\ RunInv /\ [Next]_vars => (IInv /\ RunInv)'
  BY StepHolds, RunStep
<1>. QED
  BY <1>1, <1>2, PTL DEF Spec

\* Every variable keeps its type: in particular a tip is within the bounds
\* although the deltas core has may have gaps, and a message on the wire comes
\* from a worker although a list of providers may be empty or an error.
THEOREM RunTypes == Spec => []TypeOK
<1>1. RunInv => TypeOK
  BY DEF RunInv
<1>. QED
  BY <1>1, RunInvariance, PTL

\* Every caller is told of success at most once, and nothing after it unless its
\* onEnd throws on a second call, for any number of overlapping calls and
\* failures.
THEOREM SuccessIsLast == Spec => []DoneIsLast
<1>1. RunInv => DoneIsLast
  BY DEF RunInv
<1>. QED
  BY <1>1, RunInvariance, PTL

\* A run that reports success is a clean one at the end of its reverts.
LEMMA SuccessIsFinish ==
    ASSUME RunInv, [Next]_vars, Succeeds
    PROVE  /\ answers[run.caller] = <<>>
           /\ UNCHANGED <<store, code>>
<1>. DEFINE c == run.caller
<1>0. /\ run.phase = "revert" /\ run'.phase = "idle" /\ c \in Callbacks /\ c \in Calls
      /\ answers'[c] = <<"done">> /\ run \in Runs
  BY ConstantsAssumption DEF Succeeds, RunInv, TypeOK
<1>1. ~ (answers' = Answer(c, "err"))
  <2>. SUFFICES ASSUME answers' = Answer(c, "err") PROVE FALSE
    OBVIOUS
  <2>1. answers'[c][Len(answers'[c])] = "err"
    BY <1>0, AnswerAppends DEF RunInv
  <2>2. Len(<<"done">>) = 1 /\ <<"done">>[1] = "done"
    OBVIOUS
  <2>3. <<"done">>[Len(<<"done">>)] = "err"
    BY <1>0, <2>1
  <2>. QED
    BY <2>2, <2>3
<1>2. Finish
  <2>1. ~ UNCHANGED vars /\ ~ Environment
    BY <1>0 DEF vars, Environment, Execute, Commit, StoreResult, AnnounceLocalState, Quiet
  <2>2. ~ \E d \in Calls : SyncExecute(d)
    BY <1>0 DEF SyncExecute, Refuse, Begin, Idle
  <2>3. ASSUME NEW a \in Addrs, Revert(a) PROVE FALSE
    <3>1. Abort \/ Continue([run EXCEPT !.excess[a] = NoExcess])
      BY <2>3 DEF Revert
    <3>. QED
      BY <1>0, <1>1, <3>1, RunFields DEF Abort, Continue
  <2>4. Pipeline
    BY <2>1, <2>2 DEF Next
  <2>. QED
    BY <1>0, <2>3, <2>4 DEF Pipeline, GetAllTips, GetAllSecretContractAddresses,
       CompareContract, IdentifyMissingStates, FindProvider, FindContentProvider,
       TryReceive, TryReceiveAllDone, Dial, ProviderResponds, ReceiverRejects,
       ReceiverStores, StreamEnds
<1>3. answers' = Answer(c, "done") /\ UNCHANGED <<store, code>>
  <2>1. answers' = AnswerDone(c) /\ UNCHANGED <<store, code>>
    BY <1>2 DEF Finish, envVars
  <2>2. ~ (c \in OneShot /\ answers[c] # <<>>)
    <3>. SUFFICES ASSUME c \in OneShot, answers[c] # <<>> PROVE FALSE
      OBVIOUS
    <3>1. Len(answers'[c]) = Len(answers[c]) + 2 /\ Len(answers[c]) \in Nat
      BY <2>1, ThrownSuccess DEF RunInv
    <3>. QED
      BY <1>0, <3>1
  <2>. QED
    BY <2>1, <2>2 DEF AnswerDone
<1>4. Len(answers[c]) = 0 /\ answers[c] \in Seq({"err", "done"})
  <2>1. Len(answers'[c]) = Len(answers[c]) + 1 /\ Len(answers[c]) \in Nat
    BY <1>0, <1>3, AnswerAppends DEF RunInv
  <2>. QED
    BY <1>0, <2>1 DEF RunInv, TypeOK
<1>. QED
  BY <1>3, <1>4, EmptySeq

\* A run that succeeds without any failure leaves out only deltas below the
\* local tip it started from, or ranges a provider answered without them: for
\* any number of contracts, any range limit, and executions, commits and results
\* that go on between any two of its steps.
THEOREM GapsOnlyBelowTip == Spec => GapOnlyBelowTip
<1>. DEFINE A == Succeeds /\ faults = 0 /\ ~ run.short =>
                   \A x \in begun :
                      \/ x[2] < run.tips[x[1]]
                      \/ /\ store'[Self][x[1]][x[2]] # None
                         /\ run.tips[x[1]] = 0 => x[1] \in code'
<1>1. IInv /\ RunInv /\ [Next]_vars => A
  <2>. SUFFICES ASSUME IInv, RunInv, [Next]_vars, Succeeds, faults = 0, ~ run.short,
                       NEW x \in begun, ~ (x[2] < run.tips[x[1]])
               PROVE  store'[Self][x[1]][x[2]] # None /\ (run.tips[x[1]] = 0 => x[1] \in code')
    OBVIOUS
  <2>1. answers[run.caller] = <<>> /\ UNCHANGED <<store, code>>
    BY SuccessIsFinish
  <2>2. Clean /\ run.phase = "revert"
    BY <2>1 DEF Clean, Succeeds
  <2>3. x[1] \in Addrs /\ x[2] \in Indexes /\ x = <<x[1], x[2]>>
    BY DEF RunInv, TypeOK
  <2>4. Complete(x[1])
    BY <2>2, <2>3 DEF RunInv, GapInv
  <2>5. run.tips[x[1]] <= x[2]
    <3>1. run.tips \in TipsSet /\ x[2] \in Nat
      BY <2>3, Constants, RunFields DEF RunInv, TypeOK
    <3>2. run.tips[x[1]] \in Nat
      BY <2>3, <3>1 DEF TipsSet
    <3>. QED
      BY <3>1, <3>2
  <2>. QED
    BY <2>1, <2>3, <2>4, <2>5 DEF Complete
<1>2. Spec => [][A]_vars
  <2>. HIDE DEF A
  <2>. QED
    BY <1>1, RunInvariance, PTL DEF Spec
<1>. QED
  BY <1>2 DEF GapOnlyBelowTip
=============================================================================
