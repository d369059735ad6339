---------------------- MODULE EthereumVerifier_proofs ----------------------
(***************************************************************************)
(* Theorems about EthereumVerifier: between the read of a task record and  *)
(* the listener for its event nothing is missed, a positive answer rests   *)
(* on confirmed chain state, and a task is taken only under an epoch that  *)
(* began before it, for any number of calls, tasks, blocks, confirmations. *)
(***************************************************************************)
EXTENDS EthereumVerifier, SequenceTheorems, FiniteSetTheorems, TLAPS

\* An event on its way says what the contract holds.
EventOK(e) ==
    /\ e.kind = "create" => record[e.task].created = e.at /\ e.at # 0
    /\ e.kind \in Receipts => record[e.task].receipt = e.kind /\ record[e.task].at = e.at
    /\ e.kind = "epoch" => e.epoch \in 1..Len(epochs)

MailInv == \A e \in mail : EventOK(e)

\* What block b brought is heard of: it was mined after the subscription.
Heard(b) == b > since

\* What has no confirmations yet has its event still on the way, if it is heard
\* of at all.
RecordOK(t) ==
    /\ Heard(record[t].created) /\ ~Confirmed(record[t].created) => Mailed({"create"}, t)
    /\ /\ record[t].receipt # "undefined"
       /\ Heard(record[t].at) /\ ~Confirmed(record[t].at)
       => Mailed({record[t].receipt}, t)

ChainInv == \A t \in Tasks : RecordOK(t)

\* A listener is of a call under way about its task.
ListenerOK(t) ==
    /\ creates[t].call # NoCall => TaskOf[creates[t].call] = t /\ rd[creates[t].call] # "none"
    /\ submits[t].call # NoCall => TaskOf[submits[t].call] = t /\ rd[submits[t].call] # "none"

ListenInv == \A t \in Tasks : ListenerOK(t)

\* What a read found is confirmed; a call whose read has returned was left
\* waiting, or its finding has been used.
CallOK(c) ==
    /\ rd[c] = "none" => answer[c] = "none"
    /\ rd[c] # "none" => phase = "ready"
    /\ rd[c] = "read" => seen[c] = "undefined" \/
          LET r == record[TaskOf[c]] IN
          IF seen[c] = "created" THEN r.created # 0 /\ Confirmed(r.created)
          ELSE r.receipt = seen[c] /\ Confirmed(r.at)
    /\ rd[c] = "done" => seen[c] \in {"undefined", "created"}

CallInv == \A c \in Calls : CallOK(c)

\* The task's record is confirmed.
Recorded(t) == record[t].created # 0 /\ Confirmed(record[t].created)

\* A creation call that has no answer: no other call for its id is waiting, it
\* listens unless the record is confirmed, and if its read found nothing it is
\* alone, listens, and the event is still to come.
CreationOK(c) ==
    rd[c] # "none" =>
    /\ \A d \in Creations : d # c /\ TaskOf[d] = TaskOf[c] /\ rd[d] # "none" =>
           answer[c] = "verified" \/ answer[d] = "verified"
    /\ answer[c] = "none" =>
       /\ creates[TaskOf[c]].call = c \/ Recorded(TaskOf[c])
       /\ rd[c] = "done" => seen[c] = "undefined"
       /\ rd[c] \in {"read", "done"} /\ seen[c] = "undefined" =>
            /\ creates[TaskOf[c]].call = c
            /\ Heard(record[TaskOf[c]].created) => Mailed({"create"}, TaskOf[c])
            /\ \A d \in Creations : d # c /\ TaskOf[d] = TaskOf[c] => rd[d] = "none"

CreationInv == \A c \in Creations : CreationOK(c)

\* The submission call that listens: a receipt its read has not found is still
\* to come.
SubmissionOK(t) ==
    LET c == submits[t].call IN
    /\ c # NoCall /\ rd[c] \in {"read", "done"} /\ seen[c] \in {"undefined", "created"}
    /\ record[t].receipt \in Receipts \ {"cancelled"} /\ Heard(record[t].at)
    => Mailed({record[t].receipt}, t)

SubmissionInv == \A t \in Tasks : SubmissionOK(t)

\* Worker params are of epochs that have begun.
ParamsOK(s) ==
    \A i \in DOMAIN s : /\ s[i].epoch <= Len(epochs)
                        /\ s[i].from = "event" => s[i].epoch # 0

ParamsInv ==
    /\ ParamsOK(params)
    /\ ParamsOK(snapshot)
    /\ phase = "read" => Len(snapshot) = ParamsSize

SinceInv == since <= block

AnswersInv == VerifiedIsConfirmed /\ SelectedBeforeTask

IInv ==
    /\ TypeOK
    /\ MailInv
    /\ ChainInv
    /\ ListenInv
    /\ CallInv
    /\ CreationInv
    /\ SubmissionInv
    /\ ParamsInv
    /\ SinceInv
    /\ AnswersInv

-----------------------------------------------------------------------------
(* The chain only grows.                                                   *)

Record == [created : Blocks, receipt : {"undefined"} \cup Receipts, at : Blocks]

\* A record is created once and gets one receipt; an epoch stays.
ChainKept ==
    /\ block' \in Blocks /\ block' >= block
    /\ \A k \in DOMAIN epochs : k \in DOMAIN epochs' /\ epochs'[k] = epochs[k]
    /\ \A t \in Tasks :
        /\ record[t].created # 0 => record'[t].created = record[t].created
        /\ record[t].receipt # "undefined" => /\ record'[t].receipt = record[t].receipt
                                              /\ record'[t].at = record[t].at

LEMMA ConfirmedKept ==
    ASSUME TypeOK, ChainKept, NEW b \in Blocks, Confirmed(b)
    PROVE  b + MinConf <= block'
  BY VerifierAssumption DEF TypeOK, ChainKept, Confirmed, Blocks

LEMMA RecordTypes ==
    ASSUME TypeOK, NEW t \in Tasks
    PROVE  /\ record[t].created \in Blocks /\ record[t].at \in Blocks
           /\ record[t].receipt \in {"undefined"} \cup Receipts
           /\ record[t] \in Record /\ record \in [Tasks -> Record]
  BY DEF TypeOK, Record

LEMMA CallTypes == /\ \A c \in Calls : TaskOf[c] \in Tasks /\ c # NoCall
                   /\ Creations \subseteq Calls /\ Submissions \subseteq Calls
                   /\ \A c \in Creations : c \notin Submissions
  BY VerifierAssumption DEF Calls

LEMMA RecordedKept ==
    ASSUME TypeOK, ChainKept, NEW t \in Tasks, Recorded(t)
    PROVE  Recorded(t)'
  BY RecordTypes, ConfirmedKept DEF Recorded, ChainKept, Confirmed

LEMMA ReceiptKept ==
    ASSUME TypeOK, ChainKept, NEW t \in Tasks, record[t].receipt # "undefined",
           Confirmed(record[t].at)
    PROVE  /\ record'[t].receipt = record[t].receipt
           /\ Confirmed(record[t].at)'
  BY RecordTypes, ConfirmedKept DEF ChainKept, Confirmed

\* This worker is selected in an epoch that had begun when t was recorded.
Selected(t) == \E k \in MyEpochs \cap DOMAIN epochs : epochs[k] < record[t].created

LEMMA SelectedKept ==
    ASSUME ChainKept, NEW t \in Tasks, Recorded(t), Selected(t)
    PROVE  Selected(t)'
  BY DEF ChainKept, Recorded, Selected

\* What the chain says for a positive answer.
Supported(c) ==
    /\ c \in Creations => claim[c] = "ok" /\ Recorded(TaskOf[c]) /\ Selected(TaskOf[c])
    /\ c \in Submissions => /\ <<claim[c], record[TaskOf[c]].receipt>> \in
                                   {<<"ok", "verified">>, <<"failed", "failed">>}
                            /\ Confirmed(record[TaskOf[c]].at)

LEMMA SupportedIsConfirmed ==
    AnswersInv <=> \A c \in Calls : answer[c] = "verified" => Supported(c)
<1>1. VerifiedIsConfirmed <=>
          \A c \in Calls : answer[c] = "verified" =>
              /\ c \in Creations => claim[c] = "ok" /\ Recorded(TaskOf[c])
              /\ c \in Submissions => /\ <<claim[c], record[TaskOf[c]].receipt>> \in
                                             {<<"ok", "verified">>, <<"failed", "failed">>}
                                      /\ Confirmed(record[TaskOf[c]].at)
  BY DEF VerifiedIsConfirmed, Recorded
<1>2. SelectedBeforeTask <=>
          \A c \in Creations : answer[c] = "verified" => Selected(TaskOf[c])
  BY DEF SelectedBeforeTask, Selected
<1>. QED
  BY <1>1, <1>2, CallTypes DEF AnswersInv, Supported

LEMMA VerifiedKept ==
    ASSUME IInv, ChainKept,
           \A c \in Calls : answer'[c] = "verified" => /\ claim'[c] = claim[c]
                                                       /\ answer[c] = "verified" \/ Supported(c)
    PROVE  AnswersInv'
<1>1. ASSUME NEW c \in Calls, answer'[c] = "verified"
      PROVE  Supported(c)'
  <2>1. Supported(c) /\ claim'[c] = claim[c] /\ TypeOK /\ TaskOf[c] \in Tasks
    BY <1>1, SupportedIsConfirmed, CallTypes DEF IInv
  <2>2. c \in Creations => Recorded(TaskOf[c])' /\ Selected(TaskOf[c])'
    BY <2>1, RecordedKept, SelectedKept DEF Supported
  <2>3. c \in Submissions => /\ record'[TaskOf[c]].receipt = record[TaskOf[c]].receipt
                             /\ record'[TaskOf[c]].at = record[TaskOf[c]].at
                             /\ Confirmed(record[TaskOf[c]].at)'
    BY <2>1, ReceiptKept DEF Supported, ChainKept
  <2>. QED
    BY <2>1, <2>2, <2>3 DEF Supported, Confirmed
<1>2. \A c \in Calls : answer'[c] = "verified" =>
              /\ c \in Creations => claim'[c] = "ok" /\ Recorded(TaskOf[c])'
              /\ c \in Submissions => /\ <<claim'[c], record'[TaskOf[c]].receipt>> \in
                                             {<<"ok", "verified">>, <<"failed", "failed">>}
                                      /\ Confirmed(record[TaskOf[c]].at)'
  BY <1>1 DEF Supported
<1>3. \A c \in Creations : answer'[c] = "verified" => Selected(TaskOf[c])'
  BY <1>1, CallTypes DEF Supported
<1>4. VerifiedIsConfirmed'
  BY <1>2 DEF VerifiedIsConfirmed, Recorded
<1>5. SelectedBeforeTask'
  BY <1>3 DEF SelectedBeforeTask, Selected
<1>. QED
  BY <1>4, <1>5 DEF AnswersInv

-----------------------------------------------------------------------------
(* A block is mined.                                                       *)

LEMMA BlockBound ==
    ASSUME TypeOK, NEW ts, NEW newEpoch, NewBlock(ts, newEpoch)
    PROVE  /\ block \in Nat /\ block \in Blocks
           /\ block' = block + 1 /\ block + 1 \in Blocks
<1>1. block < MaxBlock /\ block' = block + 1
  BY DEF NewBlock
<1>2. block \in 0..MaxBlock /\ MaxBlock \in Nat
  BY VerifierAssumption DEF TypeOK, Blocks
<1>. QED
  BY <1>1, <1>2 DEF Blocks

\* What a block does to the records and to the mail.
LEMMA BlockEffect ==
    ASSUME TypeOK, NEW ts \in BlockContents, NEW newEpoch \in BOOLEAN, NewBlock(ts, newEpoch)
    PROVE  /\ record' \in [Tasks -> Record]
           /\ \A t \in Tasks :
                \/ record'[t] = record[t] /\ \A x \in ts : x[1] # t
                \/ /\ record[t].created = 0 /\ record'[t].created = block + 1
                   /\ record'[t].receipt = record[t].receipt /\ record'[t].at = record[t].at
                   /\ ts = {<<t, "create">>}
                \/ /\ record[t].receipt = "undefined" /\ record'[t].receipt \in Receipts
                   /\ record'[t].created = record[t].created /\ record'[t].at = block + 1
                   /\ ts = {<<t, record'[t].receipt>>}
<1>0. record \in [Tasks -> Record] /\ block + 1 \in Blocks
  BY BlockBound DEF TypeOK, Record
<1>1. CASE ts = {}
  <2>1. record' = [t \in Tasks |-> record[t]]
    BY <1>1 DEF NewBlock
  <2>. QED
    BY <1>0, <1>1, <2>1
<1>2. ASSUME NEW u \in Tasks, ts = {<<u, "create">>}
      PROVE  /\ record' \in [Tasks -> Record]
             /\ \A t \in Tasks \ {u} : record'[t] = record[t]
             /\ record[u].created = 0 /\ record'[u].created = block + 1
             /\ record'[u].receipt = record[u].receipt /\ record'[u].at = record[u].at
  <2>1. \A t \in Tasks, k \in Receipts : <<t, k>> \notin ts
    BY <1>2 DEF Receipts
  <2>2. \A t \in Tasks : <<t, "create">> \in ts <=> t = u
    BY <1>2
  <2>3. record' = [t \in Tasks |-> IF t = u THEN [record[t] EXCEPT !.created = block + 1]
                                   ELSE record[t]]
    BY <2>1, <2>2 DEF NewBlock
  <2>4. "create" \in Transactions(u)
    BY <1>2 DEF NewBlock
  <2>5. record[u].created = 0
    BY <2>4 DEF Transactions
  <2>6. /\ [record[u] EXCEPT !.created = block + 1] \in Record
        /\ [record[u] EXCEPT !.created = block + 1].created = block + 1
        /\ [record[u] EXCEPT !.created = block + 1].receipt = record[u].receipt
        /\ [record[u] EXCEPT !.created = block + 1].at = record[u].at
    BY <1>0 DEF Record
  <2>. QED
    BY <1>0, <2>3, <2>5, <2>6
<1>3. ASSUME NEW u \in Tasks, NEW k \in Receipts, ts = {<<u, k>>}
      PROVE  /\ record' \in [Tasks -> Record]
             /\ \A t \in Tasks \ {u} : record'[t] = record[t]
             /\ record[u].receipt = "undefined" /\ record'[u].receipt = k
             /\ record'[u].created = record[u].created /\ record'[u].at = block + 1
  <2>1. \A t \in Tasks : <<t, "create">> \notin ts
    BY <1>3 DEF Receipts
  <2>2. \A t \in Tasks : (\E j \in Receipts : <<t, j>> \in ts) <=> t = u
    BY <1>3
  <2>3. (CHOOSE j \in Receipts : <<u, j>> \in ts) = k
    BY <1>3
  <2>4. record' = [t \in Tasks |-> IF t = u THEN [record[t] EXCEPT !.receipt = k, !.at = block + 1]
                                   ELSE record[t]]
    BY <2>1, <2>2, <2>3 DEF NewBlock
  <2>5. k \in Transactions(u)
    BY <1>3 DEF NewBlock
  <2>6. record[u].receipt = "undefined"
    BY <2>5 DEF Transactions, Receipts
  <2>7. /\ [record[u] EXCEPT !.receipt = k, !.at = block + 1] \in Record
        /\ [record[u] EXCEPT !.receipt = k, !.at = block + 1].receipt = k
        /\ [record[u] EXCEPT !.receipt = k, !.at = block + 1].created = record[u].created
        /\ [record[u] EXCEPT !.receipt = k, !.at = block + 1].at = block + 1
    BY <1>0 DEF Record
  <2>. QED
    BY <1>0, <2>4, <2>6, <2>7
<1>4. ts = {} \/ \E u \in Tasks, k \in {"create"} \cup Receipts : ts = {<<u, k>>}
  BY DEF BlockContents
<1>. QED
  BY <1>1, <1>2, <1>3, <1>4

LEMMA BlockTypes ==
    ASSUME IInv, NEW ts \in BlockContents, NEW newEpoch \in BOOLEAN, NewBlock(ts, newEpoch)
    PROVE  TypeOK' /\ ChainKept
<1>1. TypeOK
  BY DEF IInv
<1>2. /\ record' \in [Tasks -> Record] /\ block' = block + 1 /\ block \in Nat
      /\ block' \in Blocks
  <2>1. record' \in [Tasks -> Record]
    BY <1>1, BlockEffect
  <2>. QED
    BY <1>1, <2>1, BlockBound
<1>3. /\ epochs' \in Seq(Blocks) /\ Len(epochs') <= MaxEpochs
      /\ newEpoch => Len(epochs) + 1 \in 1..MaxEpochs
  <2>1. /\ newEpoch => epochs' = Append(epochs, block + 1) /\ Len(epochs) < MaxEpochs
        /\ ~newEpoch => epochs' = epochs
    BY DEF NewBlock
  <2>2. epochs \in Seq(Blocks) /\ Len(epochs) <= MaxEpochs /\ Len(epochs) \in Nat
    BY <1>1, LenProperties DEF TypeOK
  <2>3. /\ Append(epochs, block + 1) \in Seq(Blocks)
        /\ Len(Append(epochs, block + 1)) = Len(epochs) + 1
    BY <1>2, <2>2, AppendProperties
  <2>. QED
    BY <2>1, <2>2, <2>3, VerifierAssumption
<1>4. mail' \subseteq Events
  <2>1. \A x \in ts : [kind |-> x[2], task |-> x[1], at |-> block + 1] \in Events
    BY <1>2 DEF BlockContents, Events
  <2>2. newEpoch => [kind |-> "epoch", epoch |-> Len(epochs) + 1, at |-> block + 1] \in Events
    BY <1>2, <1>3 DEF Events
  <2>3. mail' = mail \/ mail' = mail \cup Emitted(ts, newEpoch)
    BY DEF NewBlock
  <2>4. mail \subseteq Events
    BY <1>1 DEF TypeOK
  <2>. QED
    BY <2>1, <2>2, <2>3, <2>4 DEF Emitted
<1>5. UNCHANGED <<phase, snapshot, params, creates, submits, rd, seen, claim, answer>>
  BY DEF NewBlock, listenerVars, callVars
<1>6. since' \in Blocks
  BY <1>1, <1>2 DEF NewBlock, TypeOK
<1>7. TypeOK'
  BY <1>1, <1>2, <1>3, <1>4, <1>5, <1>6 DEF TypeOK, Record
<1>8. ChainKept
  <2>1. block' >= block
    BY <1>2
  <2>2. ASSUME NEW t \in Tasks
        PROVE  /\ record[t].created # 0 => record'[t].created = record[t].created
               /\ record[t].receipt # "undefined" => /\ record'[t].receipt = record[t].receipt
                                                     /\ record'[t].at = record[t].at
    BY <1>1, BlockEffect
  <2>3. \A k \in DOMAIN epochs : k \in DOMAIN epochs' /\ epochs'[k] = epochs[k]
    <3>1. epochs' = Append(epochs, block + 1) \/ epochs' = epochs
      BY DEF NewBlock
    <3>2. epochs \in Seq(Blocks) /\ block + 1 \in Blocks
      BY <1>1, <1>2 DEF TypeOK
    <3>. QED
      BY <3>1, <3>2, AppendProperties, LenProperties
  <2>. QED
    BY <1>2, <2>1, <2>2, <2>3 DEF ChainKept
<1>. QED
  BY <1>7, <1>8

LEMMA EventTypes ==
    ASSUME TypeOK, NEW e \in mail
    PROVE  /\ e.kind \in {"create", "epoch"} \cup Receipts
           /\ e.kind # "epoch" => e.task \in Tasks
           /\ e.at \in Blocks
  BY DEF TypeOK, Events

ReceiptMailed(t) == Mailed({record[t].receipt}, t)

\* A block sends an event for everything it writes.
LEMMA BlockMail ==
    ASSUME IInv, NEW ts \in BlockContents, NEW newEpoch \in BOOLEAN, NewBlock(ts, newEpoch)
    PROVE  /\ MailInv' /\ mail \subseteq mail'
           /\ \A t \in Tasks :
                /\ record'[t].created # record[t].created /\ phase # "off"
                      => Mailed({"create"}, t)'
                /\ record'[t].created # record[t].created => record'[t].created = block + 1
                /\ record'[t].receipt # record[t].receipt \/ record'[t].at # record[t].at
                      => record'[t].at = block + 1 /\ (phase # "off" => ReceiptMailed(t)')
<1>1. TypeOK /\ ChainKept /\ block \in Nat /\ MailInv
  BY BlockBound, BlockTypes DEF IInv
<1>2. mail' = IF phase = "off" THEN mail
              ELSE mail \cup {[kind |-> x[2], task |-> x[1], at |-> block + 1] : x \in ts}
                        \cup (IF newEpoch
                              THEN {[kind |-> "epoch", epoch |-> Len(epochs) + 1,
                                     at |-> block + 1]}
                              ELSE {})
  BY DEF NewBlock, Emitted
<1>3. ASSUME NEW t \in Tasks
      PROVE  \/ record'[t] = record[t] /\ \A x \in ts : x[1] # t
             \/ /\ record'[t].created = block + 1
                /\ record'[t].receipt = record[t].receipt /\ record'[t].at = record[t].at
                /\ ts = {<<t, "create">>}
             \/ /\ record'[t].receipt \in Receipts
                /\ record'[t].created = record[t].created /\ record'[t].at = block + 1
                /\ ts = {<<t, record'[t].receipt>>}
  BY <1>1, BlockEffect
<1>4. ASSUME NEW t \in Tasks, NEW k, ts = {<<t, k>>}, phase # "off"
      PROVE  \E e \in mail' : e.kind = k /\ e.task = t /\ e.at = block + 1
  <2>1. [kind |-> k, task |-> t, at |-> block + 1] \in mail'
    BY <1>2, <1>4
  <2>. QED
    BY <2>1
<1>5. ASSUME NEW t \in Tasks
      PROVE  /\ record'[t].created # record[t].created /\ phase # "off"
                   => Mailed({"create"}, t)'
             /\ record'[t].created # record[t].created => record'[t].created = block + 1
             /\ record'[t].receipt # record[t].receipt \/ record'[t].at # record[t].at
                   => record'[t].at = block + 1 /\ (phase # "off" => ReceiptMailed(t)')
  <2>1. ts = {<<t, "create">>} /\ phase # "off" => \E e \in mail' : e.kind \in {"create"} /\ e.task = t
    BY <1>4
  <2>2. ts = {<<t, record'[t].receipt>>} /\ phase # "off" =>
            \E e \in mail' : e.kind \in {record'[t].receipt} /\ e.task = t
    BY <1>4
  <2>. QED
    BY <1>3, <2>1, <2>2 DEF Mailed, ReceiptMailed
<1>6. ASSUME NEW e \in mail
      PROVE  EventOK(e)'
  <2>1. EventOK(e) /\ e.at \in Blocks /\ e.kind \in {"create", "epoch"} \cup Receipts
    BY <1>1, EventTypes DEF MailInv
  <2>2. CASE e.kind = "epoch"
    <3>1. Len(epochs') \in Nat /\ Len(epochs) \in Nat /\ Len(epochs') >= Len(epochs)
      <4>1. epochs' = Append(epochs, block + 1) \/ epochs' = epochs
        BY DEF NewBlock
      <4>. QED
        BY <1>1, <4>1, BlockBound, AppendProperties, LenProperties DEF TypeOK
    <3>2. e.epoch \in 1..Len(epochs) => e.epoch \in 1..Len(epochs')
      BY <3>1
    <3>. QED
      BY <2>1, <2>2, <3>2 DEF EventOK, Receipts
  <2>3. CASE e.kind # "epoch"
    <3>1. e.task \in Tasks
      BY <1>1, <2>3, EventTypes
    <3>. QED
      BY <1>1, <2>1, <2>3, <3>1 DEF EventOK, ChainKept, Receipts
  <2>. QED
    BY <2>2, <2>3
<1>7. ASSUME NEW x \in ts, NEW e, e = [kind |-> x[2], task |-> x[1], at |-> block + 1]
      PROVE  EventOK(e)'
  <2>1. PICK t \in Tasks, k \in {"create"} \cup Receipts : x = <<t, k>>
    BY DEF BlockContents
  <2>2. \/ k = "create" /\ record'[t].created = block + 1
        \/ k \in Receipts /\ record'[t].receipt = k /\ record'[t].at = block + 1
    BY <1>3, <2>1
  <2>3. block + 1 # 0
    BY <1>1
  <2>. QED
    BY <1>7, <2>1, <2>2, <2>3 DEF EventOK, Receipts
<1>8. ASSUME newEpoch,
             NEW e, e = [kind |-> "epoch", epoch |-> Len(epochs) + 1, at |-> block + 1]
      PROVE  EventOK(e)'
  <2>1. epochs' = Append(epochs, block + 1)
    BY <1>8 DEF NewBlock
  <2>2. Len(Append(epochs, block + 1)) = Len(epochs) + 1 /\ Len(epochs) \in Nat
    BY <1>1, BlockBound, AppendProperties, LenProperties DEF TypeOK
  <2>. QED
    BY <1>8, <2>1, <2>2 DEF EventOK, Receipts
<1>9. \A e \in mail' : EventOK(e)'
  BY <1>2, <1>6, <1>7, <1>8
<1>. QED
  BY <1>2, <1>5, <1>9 DEF MailInv

LEMMA BlockInduction ==
    ASSUME IInv, NEW ts \in BlockContents, NEW newEpoch \in BOOLEAN, NewBlock(ts, newEpoch)
    PROVE  IInv'
<1>1. /\ TypeOK /\ TypeOK' /\ ChainKept /\ MailInv' /\ mail \subseteq mail'
      /\ UNCHANGED <<phase, snapshot, params, creates, submits, rd, seen, claim, answer>>
  BY BlockTypes, BlockMail DEF IInv, NewBlock, listenerVars, callVars
<1>0. /\ since <= since' /\ since' <= block' /\ since \in Nat /\ since' \in Nat
      /\ phase = "off" => since' = block + 1
  <2>1. since \in Nat /\ block \in Nat /\ block' = block + 1 /\ since <= block
    BY <1>1, BlockBound DEF TypeOK, Blocks, IInv, SinceInv
  <2>2. since' = IF phase = "off" THEN block + 1 ELSE since
    BY DEF NewBlock
  <2>. QED
    BY <2>1, <2>2
\* What is new in this block and heard of is in the mail.
<1>10. /\ \A b \in Nat : b > since' => b > since
       /\ block + 1 > since' => phase # "off"
  <2>1. block \in Nat /\ \A b \in Nat : b > since' => b > since
    BY <1>0, <1>1, BlockBound
  <2>2. phase = "off" => ~(block + 1 > since')
    BY <1>0, <2>1
  <2>. QED
    BY <2>1, <2>2
<1>2. \A k : \A t \in Tasks : Mailed({k}, t) => Mailed({k}, t)'
  BY <1>1 DEF Mailed
<1>3. ChainInv'
  <2>. SUFFICES ASSUME NEW t \in Tasks PROVE RecordOK(t)'
    BY DEF ChainInv
  <2>1. RecordOK(t)
    BY DEF IInv, ChainInv
  <2>2. Heard(record[t].created)' /\ ~Confirmed(record[t].created)' => Mailed({"create"}, t)'
    <3>1. CASE record'[t].created # record[t].created
      BY <1>10, <3>1, BlockMail DEF Heard
    <3>2. CASE record'[t].created = record[t].created
      <4>1. Confirmed(record[t].created) => Confirmed(record[t].created)'
        BY <1>1, <3>2, ConfirmedKept, RecordTypes DEF Confirmed
      <4>2. Heard(record[t].created)' => Heard(record[t].created)
        <5>1. record[t].created \in Nat
          BY <1>1, RecordTypes DEF Blocks
        <5>. QED
          BY <1>10, <3>2, <5>1 DEF Heard
      <4>. QED
        BY <1>2, <2>1, <3>2, <4>1, <4>2 DEF RecordOK
    <3>. QED
      BY <3>1, <3>2
  <2>3. record'[t].receipt # "undefined" /\ Heard(record[t].at)' /\ ~Confirmed(record[t].at)'
           => ReceiptMailed(t)'
    <3>1. CASE record'[t].receipt # record[t].receipt \/ record'[t].at # record[t].at
      BY <1>10, <3>1, BlockMail DEF Heard
    <3>2. CASE record'[t].receipt = record[t].receipt /\ record'[t].at = record[t].at
      <4>1. Confirmed(record[t].at) => Confirmed(record[t].at)'
        BY <1>1, <3>2, ConfirmedKept, RecordTypes DEF Confirmed
      <4>2. Heard(record[t].at)' => Heard(record[t].at)
        <5>1. record[t].at \in Nat
          BY <1>1, RecordTypes DEF Blocks
        <5>. QED
          BY <1>10, <3>2, <5>1 DEF Heard
      <4>. QED
        BY <1>2, <2>1, <3>2, <4>1, <4>2 DEF RecordOK, ReceiptMailed
    <3>. QED
      BY <3>1, <3>2
  <2>4. QED
    BY <2>2, <2>3 DEF RecordOK, ReceiptMailed
<1>4. ListenInv'
  BY <1>1 DEF IInv, ListenInv, ListenerOK
<1>5. CallInv'
  <2>. SUFFICES ASSUME NEW c \in Calls PROVE CallOK(c)'
    BY DEF CallInv
  <2>1. CallOK(c) /\ TaskOf[c] \in Tasks
    BY CallTypes DEF IInv, CallInv
  <2>2. seen[c] \in Statuses
    BY <1>1 DEF TypeOK
  <2>3. Recorded(TaskOf[c]) => Recorded(TaskOf[c])'
    BY <1>1, <2>1, RecordedKept
  <2>4. record[TaskOf[c]].receipt # "undefined" /\ Confirmed(record[TaskOf[c]].at)
          => /\ record'[TaskOf[c]].receipt = record[TaskOf[c]].receipt
             /\ Confirmed(record[TaskOf[c]].at)'
    BY <1>1, <2>1, ReceiptKept
  <2>. QED
    BY <1>1, <2>1, <2>2, <2>3, <2>4 DEF CallOK, Recorded, Statuses
<1>6. CreationInv'
  <2>. SUFFICES ASSUME NEW c \in Creations PROVE CreationOK(c)'
    BY DEF CreationInv
  <2>. DEFINE t == TaskOf[c]
  <2>1. CreationOK(c) /\ t \in Tasks
    BY CallTypes DEF IInv, CreationInv
  <2>2. Recorded(t) => Recorded(t)'
    BY <1>1, <2>1, RecordedKept
  <2>3. (Heard(record[t].created) => Mailed({"create"}, t))
          => (Heard(record[t].created)' => Mailed({"create"}, t)')
    <3>1. CASE record'[t].created # record[t].created
      BY <1>10, <2>1, <3>1, BlockMail DEF Heard
    <3>2. CASE record'[t].created = record[t].created
      <4>1. record[t].created \in Nat
        BY <1>1, <2>1, RecordTypes DEF Blocks
      <4>2. Heard(record[t].created)' => Heard(record[t].created)
        BY <1>10, <3>2, <4>1 DEF Heard
      <4>. QED
        BY <1>2, <2>1, <4>2
    <3>. QED
      BY <3>1, <3>2
  <2>. QED
    BY <1>1, <2>1, <2>2, <2>3 DEF CreationOK
<1>7. SubmissionInv'
  <2>. SUFFICES ASSUME NEW t \in Tasks PROVE SubmissionOK(t)'
    BY DEF SubmissionInv
  <2>1. SubmissionOK(t)
    BY DEF IInv, SubmissionInv
  <2>2. (record[t].receipt \in Receipts \ {"cancelled"} /\ Heard(record[t].at)
             => ReceiptMailed(t))
          => (record'[t].receipt \in Receipts \ {"cancelled"} /\ Heard(record[t].at)'
                => ReceiptMailed(t)')
    <3>1. CASE record'[t].receipt # record[t].receipt \/ record'[t].at # record[t].at
      BY <1>10, <3>1, BlockMail DEF Heard
    <3>2. CASE record'[t].receipt = record[t].receipt /\ record'[t].at = record[t].at
      <4>1. record[t].at \in Nat
        BY <1>1, RecordTypes DEF Blocks
      <4>2. Heard(record[t].at)' => Heard(record[t].at)
        BY <1>10, <3>2, <4>1 DEF Heard
      <4>. QED
        BY <1>2, <3>2, <4>2 DEF ReceiptMailed
    <3>. QED
      BY <3>1, <3>2
  <2>. QED
    BY <1>1, <2>1, <2>2 DEF SubmissionOK, ReceiptMailed
<1>8. ParamsInv' /\ SinceInv'
  <2>1. Len(epochs') >= Len(epochs) /\ Len(epochs) \in Nat /\ Len(epochs') \in Nat
    <3>1. epochs' = Append(epochs, block + 1) \/ epochs' = epochs
      BY DEF NewBlock
    <3>2. /\ Len(Append(epochs, block + 1)) = Len(epochs) + 1
          /\ Len(epochs) \in Nat
      BY <1>1, BlockBound, AppendProperties, LenProperties DEF TypeOK
    <3>. QED
      BY <3>1, <3>2
  <2>2. \A s : s \in Seq(Params) /\ ParamsOK(s) => ParamsOK(s)'
    <3>. SUFFICES ASSUME NEW s \in Seq(Params), ParamsOK(s) PROVE ParamsOK(s)'
      OBVIOUS
    <3>1. \A i \in DOMAIN s : s[i].epoch \in Nat
      <4>1. \A i \in DOMAIN s : s[i] \in Params
        BY ElementOfSeq, LenProperties
      <4>. QED
        BY <4>1, VerifierAssumption DEF Params
    <3>. QED
      BY <2>1, <3>1 DEF ParamsOK
  <2>3. ParamsInv /\ params \in Seq(Params) /\ snapshot \in Seq(Params)
    BY <1>1 DEF IInv, TypeOK
  <2>. QED
    BY <1>0, <1>1, <2>2, <2>3 DEF ParamsInv, SinceInv
<1>9. AnswersInv'
  BY <1>1, VerifiedKept
<1>. QED
  BY <1>1, <1>3, <1>4, <1>5, <1>6, <1>7, <1>8, <1>9 DEF IInv

-----------------------------------------------------------------------------
(* init() reads the worker params.                                         *)

\* The epochs with confirmations are at most the epochs.
LEMMA ConfirmedEpochs ==
    ASSUME TypeOK
    PROVE  LET n == Cardinality({k \in DOMAIN epochs : Confirmed(epochs[k])})
           IN  n \in Nat /\ n <= Len(epochs) /\ Len(epochs) \in Nat
<1>. DEFINE m == Len(epochs)
            K == {k \in DOMAIN epochs : Confirmed(epochs[k])}
<1>1. m \in Nat /\ K \in SUBSET (1..m)
  BY LenProperties DEF TypeOK
<1>. HIDE DEF m, K
<1>2. 1 \in Int /\ m \in Int
  BY <1>1
<1>3. IsFiniteSet(1..m) /\ Cardinality(1..m) = IF 1 > m THEN 0 ELSE m - 1 + 1
  BY <1>2, FS_Interval, Zenon
<1>4. IsFiniteSet(K) /\ Cardinality(K) <= Cardinality(1..m)
  BY <1>1, <1>3, FS_Subset, Zenon
<1>5. Cardinality(K) \in Nat
  BY <1>4, FS_CardinalityType, Zenon
<1>6. Cardinality(1..m) = m
  BY <1>1, <1>3
<1>. QED
  BY <1>1, <1>4, <1>5, <1>6 DEF m, K

\* What getWorkersParams reads, and how it is rotated, is an array of full
\* length of epochs that have begun.
LEMMA ReadParams ==
    ASSUME TypeOK
    PROVE  LET ps == SortWorkerParams(ConfirmedParams)
           IN  ps \in Seq(Params) /\ Len(ps) = ParamsSize /\ ParamsOK(ps)
<1>. DEFINE n == Cardinality({k \in DOMAIN epochs : Confirmed(epochs[k])})
            f(i) == IF n < i THEN 0 ELSE n - ((n - i) % ParamsSize)
            c == ConfirmedParams
            ps == SortWorkerParams(c)
<1>1. n \in Nat /\ n <= Len(epochs) /\ Len(epochs) \in Nat
  BY ConfirmedEpochs
<1>2. c = [i \in 1..ParamsSize |-> [epoch |-> f(i), from |-> "read"]]
  BY DEF ConfirmedParams, ContractParams
<1>. HIDE DEF n
<1>3. /\ ParamsSize \in Nat \ {0} /\ MaxEpochs \in Nat /\ n <= MaxEpochs
      /\ \A i \in 1..ParamsSize : f(i) \in 0..n
  <2>1. ParamsSize \in Nat \ {0} /\ MaxEpochs \in Nat /\ n <= MaxEpochs
    BY <1>1, VerifierAssumption DEF TypeOK
  <2>2. ASSUME NEW i \in 1..ParamsSize, ~(n < i) PROVE (n - i) % ParamsSize \in 0..n
    <3>1. /\ n - i \in Nat /\ (n - i) % ParamsSize \in 0..(ParamsSize - 1)
          /\ (n - i) = ParamsSize * ((n - i) \div ParamsSize) + ((n - i) % ParamsSize)
      BY <1>1, <2>1, <2>2
    <3>. QED
      BY <1>1, <2>1, <2>2, <3>1
  <2>. QED
    BY <1>1, <2>1, <2>2
<1>. HIDE DEF f
<1>4. \A i \in 1..ParamsSize : /\ c[i] \in Params /\ c[i].epoch <= Len(epochs)
                               /\ c[i].from = "read"
  BY <1>1, <1>2, <1>3 DEF Params
<1>. HIDE DEF c
<1>5. PICK g \in [1..ParamsSize -> 1..ParamsSize] : ps = [i \in 1..ParamsSize |-> c[g[i]]]
  <2>. DEFINE Falls(i) == TextLess(FirstBlockNumber(c[i]), FirstBlockNumber(c[i - 1]))
              smallest == {i \in 2..ParamsSize : Falls(i) /\ \A j \in 2..(i - 1) : ~Falls(j)}
              shift == IF smallest = {} THEN 0 ELSE (CHOOSE i \in smallest : TRUE) - 1
              h == [i \in 1..ParamsSize |->
                      IF i + shift > ParamsSize THEN i + shift - ParamsSize ELSE i + shift]
  <2>1. ps = [i \in 1..ParamsSize |-> c[h[i]]]
    BY DEF SortWorkerParams
  <2>2. smallest \subseteq 2..ParamsSize
    OBVIOUS
  <2>. HIDE DEF smallest
  <2>3. shift \in 0..(ParamsSize - 1)
    <3>1. CASE smallest = {}
      BY <1>3, <3>1
    <3>2. CASE smallest # {}
      <4>1. (CHOOSE i \in smallest : TRUE) \in 2..ParamsSize
        BY <2>2, <3>2
      <4>. QED
        BY <1>3, <3>2, <4>1
    <3>. QED
      BY <3>1, <3>2
  <2>. HIDE DEF shift
  <2>4. h \in [1..ParamsSize -> 1..ParamsSize]
    BY <1>3, <2>3
  <2>. HIDE DEF h, ps
  <2>. QED
    BY <2>1, <2>4
<1>. HIDE DEF ps
<1>6. ps \in Seq(Params) /\ Len(ps) = ParamsSize /\ DOMAIN ps = 1..ParamsSize
  <2>1. \A i \in 1..ParamsSize : c[g[i]] \in Params
    BY <1>4, <1>5
  <2>. QED
    BY <1>3, <1>5, <2>1
<1>7. \A i \in 1..ParamsSize : ps[i].epoch <= Len(epochs) /\ ps[i].from = "read"
  BY <1>4, <1>5
<1>8. ParamsOK(ps)
  BY <1>6, <1>7 DEF ParamsOK
<1>. QED
  BY <1>6, <1>8 DEF ps, c

\* A step that leaves the chain and the mail alone.
LEMMA QuietStep ==
    ASSUME IInv, UNCHANGED <<chainVars, mail, since>>
    PROVE  /\ MailInv' /\ ChainInv' /\ ChainKept
           /\ \A t, k : Mailed({k}, t)' <=> Mailed({k}, t)
           /\ \A t : Recorded(t)' <=> Recorded(t)
           /\ \A s : ParamsOK(s)' <=> ParamsOK(s)
<1>1. UNCHANGED <<block, record, epochs, mail, since>>
  BY DEF chainVars
<1>2. block \in Blocks
  BY DEF IInv, TypeOK
<1>3. ChainKept
  BY <1>1, <1>2 DEF ChainKept, Blocks
<1>4. /\ \A t, k : Mailed({k}, t)' <=> Mailed({k}, t)
      /\ \A t : Recorded(t)' <=> Recorded(t)
      /\ \A s : ParamsOK(s)' <=> ParamsOK(s)
  BY <1>1 DEF Mailed, Recorded, Confirmed, ParamsOK
<1>5. MailInv'
  BY <1>1 DEF IInv, MailInv, EventOK
<1>6. ChainInv'
  BY <1>1, <1>4 DEF IInv, ChainInv, RecordOK, Heard, Confirmed
<1>. QED
  BY <1>3, <1>4, <1>5, <1>6

LEMMA InitInduction ==
    ASSUME IInv, InitListen \/ InitRead \/ InitReady
    PROVE  IInv'
<1>1. /\ UNCHANGED <<chainVars, mail, since, creates, submits, rd, seen, claim, answer>>
      /\ UNCHANGED <<block, record, epochs>>
      /\ TypeOK
  BY DEF InitListen, InitRead, InitReady, listenerVars, callVars, chainVars, IInv
<1>2. /\ MailInv' /\ ChainInv' /\ ChainKept
      /\ \A t, k : Mailed({k}, t)' <=> Mailed({k}, t)
      /\ \A t : Recorded(t)' <=> Recorded(t)
      /\ \A s : ParamsOK(s)' <=> ParamsOK(s)
  BY <1>1, QuietStep
<1>3. /\ phase # "ready" /\ phase' \in {"asked", "read", "ready"}
      /\ snapshot' \in Seq(Params) /\ params' \in Seq(Params) /\ Len(params') <= ParamsSize
      /\ ParamsOK(snapshot') /\ ParamsOK(params')
      /\ phase' = "read" => Len(snapshot') = ParamsSize
  <2>1. CASE InitListen
    <3>1. phase = "off" /\ phase' = "asked" /\ snapshot' = snapshot /\ params' = params
      BY <2>1 DEF InitListen
    <3>. QED
      BY <1>1, <3>1 DEF IInv, ParamsInv, TypeOK
  <2>2. CASE InitRead
    <3>1. /\ phase = "asked" /\ phase' = "read" /\ params' = params
          /\ snapshot' = SortWorkerParams(ConfirmedParams)
      BY <2>2 DEF InitRead
    <3>. QED
      BY <1>1, <3>1, ReadParams DEF IInv, ParamsInv, TypeOK
  <2>3. CASE InitReady
    <3>1. phase = "read" /\ phase' = "ready" /\ snapshot' = <<>> /\ params' = snapshot
      BY <2>3 DEF InitReady
    <3>2. <<>> \in Seq(Params) /\ ParamsOK(<<>>)
      BY EmptySeq DEF ParamsOK
    <3>. QED
      BY <1>1, <3>1, <3>2, VerifierAssumption DEF IInv, ParamsInv, TypeOK
  <2>. QED
    BY <2>1, <2>2, <2>3
<1>4. TypeOK'
  BY <1>1, <1>3 DEF TypeOK
<1>5. ListenInv' /\ CreationInv' /\ SubmissionInv'
  BY <1>1, <1>2 DEF IInv, ListenInv, ListenerOK, CreationInv, CreationOK, SubmissionInv, SubmissionOK, Heard
<1>6. CallInv'
  BY <1>1, <1>3 DEF IInv, CallInv, CallOK
<1>7. ParamsInv' /\ SinceInv'
  BY <1>1, <1>3 DEF IInv, ParamsInv, ParamsOK, SinceInv
<1>8. AnswersInv'
  BY <1>1, <1>2, VerifiedKept
<1>. QED
  BY <1>2, <1>4, <1>5, <1>6, <1>7, <1>8 DEF IInv

-----------------------------------------------------------------------------
(* A call begins.                                                          *)

CreateListeners == [call : Creations \cup {NoCall}, block : Blocks]
SubmitListeners == [call : Submissions \cup {NoCall}, block : Blocks]

LEMMA ListenerTypes ==
    ASSUME TypeOK
    PROVE  /\ creates \in [Tasks -> CreateListeners] /\ submits \in [Tasks -> SubmitListeners]
           /\ NoListener \in CreateListeners /\ NoListener \in SubmitListeners
           /\ NoListener.call = NoCall
<1>1. 0 \in Blocks
  BY VerifierAssumption DEF Blocks
<1>. QED
  BY <1>1 DEF TypeOK, CreateListeners, SubmitListeners, NoListener

\* What verifyTaskCreation and verifyTaskSubmission change.
LEMMA VerifyEffect ==
    ASSUME TypeOK, NEW c \in Calls, NEW cl \in Claims, Verify(c, cl)
    PROVE  /\ creates' \in [Tasks -> CreateListeners] /\ submits' \in [Tasks -> SubmitListeners]
           /\ c \in Creations => creates'[TaskOf[c]].call = c
           /\ c \in Submissions => submits'[TaskOf[c]].call = c
           /\ \A t \in Tasks : c \notin Creations \/ t # TaskOf[c] => creates'[t] = creates[t]
           /\ \A t \in Tasks : c \notin Submissions \/ t # TaskOf[c] => submits'[t] = submits[t]
<1>. DEFINE l == [call |-> c, block |-> block]
<1>1. /\ creates \in [Tasks -> CreateListeners] /\ submits \in [Tasks -> SubmitListeners]
      /\ TaskOf[c] \in Tasks
  BY ListenerTypes, CallTypes
<1>2. /\ c \in Creations => l \in CreateListeners
      /\ c \in Submissions => l \in SubmitListeners
      /\ l.call = c
  BY DEF TypeOK, CreateListeners, SubmitListeners
<1>3. /\ creates' = IF c \in Creations THEN [creates EXCEPT ![TaskOf[c]] = l] ELSE creates
      /\ submits' = IF c \in Submissions THEN [submits EXCEPT ![TaskOf[c]] = l] ELSE submits
  BY DEF Verify, Listen
<1>. HIDE DEF l
<1>. QED
  BY <1>1, <1>2, <1>3

LEMMA VerifyInduction ==
    ASSUME IInv, NEW c \in Calls, NEW cl \in Claims, Verify(c, cl)
    PROVE  IInv'
<1>1. /\ UNCHANGED <<chainVars, mail, since>> /\ UNCHANGED <<block, record, epochs>>
      /\ UNCHANGED <<since, phase, snapshot, params, seen, answer>>
      /\ phase = "ready" /\ rd[c] = "none" /\ CallerMayVerify(c)
      /\ rd' = [rd EXCEPT ![c] = "asked"] /\ claim' = [claim EXCEPT ![c] = cl]
      /\ TypeOK /\ TaskOf[c] \in Tasks /\ answer[c] = "none"
  BY CallTypes DEF Verify, initVars, chainVars, IInv, CallInv, CallOK
<1>2. /\ MailInv' /\ ChainInv' /\ ChainKept
      /\ \A t, k : Mailed({k}, t)' <=> Mailed({k}, t)
      /\ \A t : Recorded(t)' <=> Recorded(t)
  BY <1>1, QuietStep
<1>3. /\ creates' \in [Tasks -> CreateListeners] /\ submits' \in [Tasks -> SubmitListeners]
      /\ c \in Creations => creates'[TaskOf[c]].call = c
      /\ c \in Submissions => submits'[TaskOf[c]].call = c
      /\ \A t \in Tasks : c \notin Creations \/ t # TaskOf[c] => creates'[t] = creates[t]
      /\ \A t \in Tasks : c \notin Submissions \/ t # TaskOf[c] => submits'[t] = submits[t]
  BY <1>1, VerifyEffect
<1>4. /\ rd' \in [Calls -> {"none", "asked", "read", "done"}]
      /\ claim' \in [Calls -> Claims \cup {"none"}]
      /\ rd'[c] = "asked" /\ \A d \in Calls \ {c} : rd'[d] = rd[d] /\ claim'[d] = claim[d]
  BY <1>1 DEF TypeOK
<1>5. TypeOK'
  BY <1>1, <1>3, <1>4 DEF TypeOK, CreateListeners, SubmitListeners
<1>6. \A d \in Calls : rd[d] # "none" => d # c /\ rd'[d] = rd[d]
  BY <1>1, <1>4
<1>7. ListenInv'
  <2>. SUFFICES ASSUME NEW t \in Tasks PROVE ListenerOK(t)'
    BY DEF ListenInv
  <2>1. /\ creates'[t] = creates[t] \/ (creates'[t].call = c /\ TaskOf[c] = t)
        /\ submits'[t] = submits[t] \/ (submits'[t].call = c /\ TaskOf[c] = t)
    BY <1>3
  <2>2. ListenerOK(t) /\ creates[t].call \in Calls \cup {NoCall} /\ submits[t].call \in Calls \cup {NoCall}
    BY <1>1 DEF IInv, ListenInv, TypeOK, Calls
  <2>. QED
    BY <1>4, <1>6, <2>1, <2>2 DEF ListenerOK
<1>8. CallInv'
  <2>. SUFFICES ASSUME NEW d \in Calls PROVE CallOK(d)'
    BY DEF CallInv
  <2>1. CallOK(d)
    BY DEF IInv, CallInv
  <2>2. CASE d = c
    BY <1>1, <1>4, <2>2 DEF CallOK
  <2>3. CASE d # c
    BY <1>1, <1>4, <2>1, <2>3 DEF CallOK, Confirmed
  <2>. QED
    BY <2>2, <2>3
<1>9. CreationInv'
  <2>. SUFFICES ASSUME NEW d \in Creations PROVE CreationOK(d)'
    BY DEF CreationInv
  <2>0. /\ CreationOK(d) /\ TaskOf[d] \in Tasks /\ Creations \subseteq Calls
    BY CallTypes DEF IInv, CreationInv
  <2>1. CASE d = c
    <3>1. \A b \in Creations : b # c /\ TaskOf[b] = TaskOf[c] /\ rd'[b] # "none" => answer'[b] = "verified"
      BY <1>1, <1>4, <2>0, <2>1 DEF CallerMayVerify
    <3>. QED
      BY <1>3, <1>4, <2>1, <3>1 DEF CreationOK, Heard
  <2>2. CASE d # c /\ c \in Creations /\ TaskOf[c] = TaskOf[d]
    <3>1. rd'[d] = rd[d] /\ (rd[d] # "none" => answer'[d] = "verified")
      BY <1>1, <1>4, <2>0, <2>2 DEF CallerMayVerify
    <3>. QED
      BY <3>1 DEF CreationOK, Heard
  <2>3. CASE d # c /\ ~(c \in Creations /\ TaskOf[c] = TaskOf[d])
    <3>1. /\ creates'[TaskOf[d]] = creates[TaskOf[d]] /\ rd'[d] = rd[d]
          /\ \A b \in Creations : TaskOf[b] = TaskOf[d] => rd'[b] = rd[b]
      BY <1>3, <1>4, <2>0, <2>3
    <3>. QED
      BY <1>1, <1>2, <2>0, <3>1 DEF CreationOK, Heard
  <2>. QED
    BY <2>1, <2>2, <2>3
<1>10. SubmissionInv'
  <2>. SUFFICES ASSUME NEW t \in Tasks PROVE SubmissionOK(t)'
    BY DEF SubmissionInv
  <2>1. CASE submits'[t].call = c
    BY <1>4, <2>1 DEF SubmissionOK, Heard
  <2>2. CASE submits'[t].call # c
    <3>1. submits'[t] = submits[t]
      BY <1>3, <2>2, CallTypes DEF Calls
    <3>2. submits[t].call \in Calls \cup {NoCall}
      BY <1>1 DEF TypeOK, Calls
    <3>3. SubmissionOK(t)
      BY DEF IInv, SubmissionInv
    <3>. QED
      BY <1>1, <1>2, <1>4, <2>2, <3>1, <3>2, <3>3 DEF SubmissionOK, Heard
  <2>. QED
    BY <2>1, <2>2
<1>11. ParamsInv' /\ SinceInv'
  BY <1>1 DEF IInv, ParamsInv, ParamsOK, SinceInv
<1>12. AnswersInv'
  <2>1. \A d \in Calls : answer'[d] = "verified" => claim'[d] = claim[d] /\ answer[d] = "verified"
    BY <1>1, <1>4
  <2>. QED
    BY <1>2, <2>1, VerifiedKept
<1>. QED
  BY <1>2, <1>5, <1>7, <1>8, <1>9, <1>10, <1>11, <1>12 DEF IInv

-----------------------------------------------------------------------------
(* A call reads the record of its task.                                    *)

\* What a status says of the record.
LEMMA StatusMeaning ==
    ASSUME TypeOK, NEW t \in Tasks
    PROVE  /\ ConfirmedStatus(t) \in Statuses
           /\ ConfirmedStatus(t) = "undefined" => ~Recorded(t)
           /\ ConfirmedStatus(t) = "created" => Recorded(t)
           /\ ConfirmedStatus(t) \in {"undefined", "created"} =>
                 record[t].receipt = "undefined" \/ ~Confirmed(record[t].at)
           /\ ConfirmedStatus(t) \notin {"undefined", "created"} =>
                 record[t].receipt = ConfirmedStatus(t) /\ Confirmed(record[t].at)
<1>1. record[t].receipt \in {"undefined"} \cup Receipts
  BY RecordTypes
<1>. QED
  BY <1>1 DEF ConfirmedStatus, Statuses, Receipts, Recorded

LEMMA ReadInduction ==
    ASSUME IInv, NEW c \in Calls, ReadTask(c)
    PROVE  IInv'
<1>1. /\ UNCHANGED <<chainVars, mail, since>> /\ UNCHANGED <<block, record, epochs>>
      /\ UNCHANGED <<since, phase, snapshot, params, creates, submits, claim, answer>>
      /\ rd[c] = "asked" /\ rd' = [rd EXCEPT ![c] = "read"]
      /\ seen' = [seen EXCEPT ![c] = ConfirmedStatus(TaskOf[c])]
      /\ TypeOK /\ TaskOf[c] \in Tasks
  BY CallTypes DEF ReadTask, initVars, chainVars, listenerVars, IInv
<1>2. /\ MailInv' /\ ChainInv' /\ ChainKept
      /\ \A t, k : Mailed({k}, t)' <=> Mailed({k}, t)
      /\ \A t : Recorded(t)' <=> Recorded(t)
  BY <1>1, QuietStep
<1>3. ConfirmedStatus(TaskOf[c]) \in Statuses
  BY <1>1, StatusMeaning
<1>4. /\ rd' \in [Calls -> {"none", "asked", "read", "done"}]
      /\ seen' \in [Calls -> Statuses]
      /\ rd'[c] = "read" /\ seen'[c] = ConfirmedStatus(TaskOf[c])
      /\ \A d \in Calls \ {c} : rd'[d] = rd[d] /\ seen'[d] = seen[d]
      /\ \A d \in Calls : rd'[d] = "none" <=> rd[d] = "none"
  BY <1>1, <1>3 DEF TypeOK
<1>5. TypeOK'
  BY <1>1, <1>4 DEF TypeOK
<1>6. ListenInv'
  <2>. SUFFICES ASSUME NEW t \in Tasks PROVE ListenerOK(t)'
    BY DEF ListenInv
  <2>1. ListenerOK(t) /\ creates[t].call \in Calls \cup {NoCall} /\ submits[t].call \in Calls \cup {NoCall}
    BY <1>1 DEF IInv, ListenInv, TypeOK, Calls
  <2>. QED
    BY <1>1, <1>4, <2>1 DEF ListenerOK
<1>7. CallInv'
  <2>. SUFFICES ASSUME NEW d \in Calls PROVE CallOK(d)'
    BY DEF CallInv
  <2>1. CallOK(d)
    BY DEF IInv, CallInv
  <2>2. CASE d = c
    BY <1>1, <1>4, <2>1, <2>2, StatusMeaning DEF CallOK, Confirmed, Recorded
  <2>3. CASE d # c
    BY <1>1, <1>4, <2>1, <2>3 DEF CallOK, Confirmed
  <2>. QED
    BY <2>2, <2>3
<1>8. CreationInv'
  <2>. SUFFICES ASSUME NEW d \in Creations PROVE CreationOK(d)'
    BY DEF CreationInv
  <2>0. CreationOK(d) /\ TaskOf[d] \in Tasks /\ Creations \subseteq Calls
    BY CallTypes DEF IInv, CreationInv
  <2>1. CASE d = c
    <3>. DEFINE t == TaskOf[c]
    <3>1. ASSUME answer[c] = "none", seen'[c] = "undefined"
          PROVE  /\ creates[t].call = c
                 /\ Heard(record[t].created) => Mailed({"create"}, t)
                 /\ \A b \in Creations : b # c /\ TaskOf[b] = t => rd[b] = "none"
      <4>1. ~Recorded(t)
        BY <1>1, <1>4, <3>1, StatusMeaning
      <4>2. creates[t].call = c
        BY <1>1, <2>0, <2>1, <3>1, <4>1 DEF CreationOK, Heard
      <4>3. Heard(record[t].created) => Mailed({"create"}, t)
        <5>1. record[t].created \in Nat /\ since \in Nat /\ RecordOK(t)
          BY <1>1, RecordTypes DEF IInv, ChainInv, TypeOK, Blocks
        <5>2. Heard(record[t].created) => record[t].created # 0
          BY <5>1 DEF Heard
        <5>. QED
          BY <4>1, <5>1, <5>2 DEF RecordOK, Recorded
      <4>4. ASSUME NEW b \in Creations, b # c, TaskOf[b] = t, rd[b] # "none"
            PROVE  FALSE
        <5>1. answer[b] = "verified"
          BY <1>1, <2>0, <2>1, <3>1, <4>4 DEF CreationOK, Heard
        <5>2. Supported(b)
          BY <2>0, <5>1, SupportedIsConfirmed DEF IInv
        <5>. QED
          BY <4>1, <4>4, <5>2 DEF Supported
      <4>. QED
        BY <4>2, <4>3, <4>4
    <3>. QED
      BY <1>1, <1>2, <1>4, <2>0, <2>1, <3>1 DEF CreationOK, Heard
  <2>2. CASE d # c
    BY <1>1, <1>2, <1>4, <2>0, <2>2 DEF CreationOK, Heard
  <2>. QED
    BY <2>1, <2>2
<1>9. SubmissionInv'
  <2>. SUFFICES ASSUME NEW t \in Tasks PROVE SubmissionOK(t)'
    BY DEF SubmissionInv
  <2>1. CASE submits[t].call = c
    <3>1. TaskOf[c] = t
      BY <2>1, CallTypes DEF IInv, ListenInv, ListenerOK
    <3>2. seen'[c] \in {"undefined", "created"} =>
             record[t].receipt = "undefined" \/ ~Confirmed(record[t].at)
      BY <1>1, <1>4, <3>1, StatusMeaning
    <3>3. /\ seen'[c] \in {"undefined", "created"} /\ record[t].receipt # "undefined"
          /\ Heard(record[t].at)
          => Mailed({record[t].receipt}, t)
      BY <3>2 DEF IInv, ChainInv, RecordOK, Heard
    <3>. QED
      BY <1>1, <1>2, <2>1, <3>3 DEF SubmissionOK, Heard, Receipts
  <2>2. CASE submits[t].call # c
    <3>1. submits[t].call \in Calls \cup {NoCall}
      BY <1>1 DEF TypeOK, Calls
    <3>2. SubmissionOK(t)
      BY DEF IInv, SubmissionInv
    <3>. QED
      BY <1>1, <1>2, <1>4, <2>2, <3>1, <3>2 DEF SubmissionOK, Heard
  <2>. QED
    BY <2>1, <2>2
<1>10. ParamsInv' /\ SinceInv'
  BY <1>1 DEF IInv, ParamsInv, ParamsOK, SinceInv
<1>11. AnswersInv'
  BY <1>1, <1>2, VerifiedKept
<1>. QED
  BY <1>2, <1>5, <1>6, <1>7, <1>8, <1>9, <1>10, <1>11 DEF IInv

-----------------------------------------------------------------------------
(* A call is answered.                                                     *)

\* A promise keeps its first value.
LEMMA ResolveEffect ==
    ASSUME TypeOK, NEW c \in Calls, NEW a \in Answers \cup {"thrown"}, Resolve(c, a)
    PROVE  /\ answer' \in [Calls -> Answers \cup {"none", "thrown"}]
           /\ answer'[c] # "none"
           /\ \A d \in Calls \ {c} : answer'[d] = answer[d]
           /\ answer[c] = "verified" => answer'[c] = "verified"
           /\ answer'[c] = "verified" => answer[c] = "verified" \/ a = "verified"
<1>1. answer' = [answer EXCEPT ![c] = IF answer[c] \in Answers THEN answer[c] ELSE a]
  BY DEF Resolve
<1>. QED
  BY <1>1 DEF TypeOK, Answers

LEMMA CreationAnswers ==
    ASSUME IInv, NEW c \in Calls
    PROVE  /\ CreationAnswer(c) \in Answers \cup {"thrown"}
           /\ CreationAnswer(c) = "verified" => claim[c] = "ok" /\ Selected(TaskOf[c])
<1>. DEFINE n == record[TaskOf[c]].created
            ps == FindWorkerParam(n)
            p == CHOOSE q \in ps : TRUE
<1>1. VerifySelectedWorker(n) \in Answers \cup {"thrown"}
  BY DEF VerifySelectedWorker, SelectWorker, Answers
<1>2. VerifySelectedWorker(n) = IF ps = {} THEN "rejected" ELSE SelectWorker(p)
  BY DEF VerifySelectedWorker
<1>3. \A q \in ps : \E i \in DOMAIN params : q = params[i] /\ n > FirstBlockNumber(params[i])
  BY DEF FindWorkerParam
<1>. HIDE DEF ps
<1>4. ASSUME VerifySelectedWorker(n) = "verified" PROVE Selected(TaskOf[c])
  <2>1. ps # {} /\ SelectWorker(p) = "verified"
    BY <1>2, <1>4
  <2>2. p \in ps
    BY <2>1
  <2>. HIDE DEF p
  <2>3. PICK i \in DOMAIN params : p = params[i] /\ n > FirstBlockNumber(params[i])
    BY <1>3, <2>2
  <2>4. p.from # "read" /\ p.epoch \in MyEpochs
    BY <2>1 DEF SelectWorker
  <2>5. /\ p \in Params /\ p.epoch <= Len(epochs) /\ (p.from = "event" => p.epoch # 0)
        /\ epochs \in Seq(Blocks)
    <3>1. params \in Seq(Params) /\ epochs \in Seq(Blocks) /\ ParamsOK(params)
      BY DEF IInv, TypeOK, ParamsInv
    <3>2. params[i] \in Params
      BY <3>1, ElementOfSeq, LenProperties
    <3>. QED
      BY <2>3, <3>1, <3>2 DEF ParamsOK
  <2>6. p.epoch \in DOMAIN epochs /\ p.epoch # 0
    <3>1. p.epoch \in Nat /\ p.epoch # 0 /\ Len(epochs) \in Nat /\ DOMAIN epochs = 1..Len(epochs)
      BY <2>4, <2>5, LenProperties, VerifierAssumption DEF Params
    <3>. QED
      BY <2>5, <3>1
  <2>7. FirstBlockNumber(p) = epochs[p.epoch] /\ n > epochs[p.epoch]
    BY <2>3, <2>6 DEF FirstBlockNumber
  <2>8. epochs[p.epoch] \in Nat
    <3>1. epochs[p.epoch] \in Blocks
      BY <2>5, <2>6, ElementOfSeq, LenProperties
    <3>. QED
      BY <3>1 DEF Blocks
  <2>9. n \in Nat
    BY CallTypes, RecordTypes DEF IInv, Blocks
  <2>10. epochs[p.epoch] < n
    BY <2>7, <2>8, <2>9
  <2>. QED
    BY <2>4, <2>6, <2>10 DEF Selected
<1>. QED
  BY <1>1, <1>4 DEF CreationAnswer, Answers

LEMMA SubmissionAnswers ==
    ASSUME NEW c \in Calls, NEW s \in Receipts
    PROVE  /\ SubmissionAnswer(c, s) \in Answers \cup {"thrown"}
           /\ SubmissionAnswer(c, s) = "verified" =>
                 <<claim[c], s>> \in {<<"ok", "verified">>, <<"failed", "failed">>}
<1>1. CASE s = "failedEth"
  BY <1>1 DEF SubmissionAnswer, Answers
<1>2. CASE s = "cancelled"
  BY <1>2 DEF SubmissionAnswer, Answers
<1>3. CASE s = "failed"
  BY <1>3 DEF SubmissionAnswer, Answers
<1>4. CASE s = "verified"
  BY <1>4 DEF SubmissionAnswer, Answers
<1>. QED
  BY <1>1, <1>2, <1>3, <1>4 DEF Receipts

\* Dropping a listener leaves the others.
LEMMA DropEffect ==
    ASSUME TypeOK, NEW t \in Tasks
    PROVE  /\ Drop(creates, t) \in [Tasks -> CreateListeners]
           /\ Drop(submits, t) \in [Tasks -> SubmitListeners]
           /\ Drop(creates, t)[t].call = NoCall /\ Drop(submits, t)[t].call = NoCall
           /\ \A u \in Tasks \ {t} : /\ Drop(creates, t)[u] = creates[u]
                                     /\ Drop(submits, t)[u] = submits[u]
<1>1. /\ creates \in [Tasks -> CreateListeners] /\ submits \in [Tasks -> SubmitListeners]
      /\ NoListener \in CreateListeners /\ NoListener \in SubmitListeners
      /\ NoListener.call = NoCall
  BY ListenerTypes
<1>. QED
  BY <1>1 DEF Drop

\* The read of a call that goes on waiting.
LEMMA WaitInduction ==
    ASSUME IInv, NEW c \in Calls, rd[c] = "read", rd' = [rd EXCEPT ![c] = "done"],
           seen[c] = "undefined" \/ (c \in Submissions /\ seen[c] = "created"),
           UNCHANGED <<listenerVars, seen, answer, chainVars, mail, initVars, params, claim>>
    PROVE  IInv'
<1>1. /\ UNCHANGED <<chainVars, mail, since>> /\ UNCHANGED <<block, record, epochs>>
      /\ UNCHANGED <<since, phase, snapshot, params, creates, submits, claim, answer, seen>>
      /\ TypeOK
  BY DEF initVars, chainVars, listenerVars, IInv
<1>2. /\ MailInv' /\ ChainInv' /\ ChainKept
      /\ \A t, k : Mailed({k}, t)' <=> Mailed({k}, t)
      /\ \A t : Recorded(t)' <=> Recorded(t)
  BY <1>1, QuietStep
<1>3. /\ rd' \in [Calls -> {"none", "asked", "read", "done"}]
      /\ rd'[c] = "done" /\ \A d \in Calls \ {c} : rd'[d] = rd[d]
      /\ \A d \in Calls : rd'[d] = "none" <=> rd[d] = "none"
      /\ \A d \in Calls : rd'[d] \in {"read", "done"} <=> rd[d] \in {"read", "done"}
  BY <1>1 DEF TypeOK
<1>4. TypeOK'
  BY <1>1, <1>3 DEF TypeOK
<1>5. ListenInv' /\ SubmissionInv'
  <2>. SUFFICES ASSUME NEW t \in Tasks PROVE ListenerOK(t)' /\ SubmissionOK(t)'
    BY DEF ListenInv, SubmissionInv
  <2>1. ListenerOK(t) /\ creates[t].call \in Calls \cup {NoCall} /\ submits[t].call \in Calls \cup {NoCall}
    BY <1>1 DEF IInv, ListenInv, TypeOK, Calls
  <2>2. SubmissionOK(t)
    BY DEF IInv, SubmissionInv
  <2>3. ListenerOK(t)'
    BY <1>1, <1>3, <2>1 DEF ListenerOK
  <2>4. SubmissionOK(t)'
    BY <1>1, <1>2, <1>3, <2>1, <2>2 DEF SubmissionOK, Heard
  <2>. QED
    BY <2>3, <2>4
<1>6. CallInv'
  <2>. SUFFICES ASSUME NEW d \in Calls PROVE CallOK(d)'
    BY DEF CallInv
  <2>1. CallOK(d)
    BY DEF IInv, CallInv
  <2>2. CASE d = c
    BY <1>1, <1>3, <2>1, <2>2 DEF CallOK
  <2>3. CASE d # c
    BY <1>1, <1>3, <2>1, <2>3 DEF CallOK, Confirmed
  <2>. QED
    BY <2>2, <2>3
<1>7. CreationInv'
  <2>. SUFFICES ASSUME NEW d \in Creations PROVE CreationOK(d)'
    BY DEF CreationInv
  <2>1. CreationOK(d) /\ d \notin Submissions /\ Creations \subseteq Calls
    BY CallTypes DEF IInv, CreationInv
  <2>2. rd'[d] = "done" => rd[d] = "done" \/ seen[d] = "undefined"
    BY <1>3, <2>1
  <2>. QED
    BY <1>1, <1>2, <1>3, <2>1, <2>2 DEF CreationOK, Heard
<1>8. ParamsInv' /\ SinceInv'
  BY <1>1 DEF IInv, ParamsInv, ParamsOK, SinceInv
<1>9. AnswersInv'
  BY <1>1, <1>2, VerifiedKept
<1>. QED
  BY <1>2, <1>4, <1>5, <1>6, <1>7, <1>8, <1>9 DEF IInv

\* The read of a call that it settles: the listener of the id goes, whichever
\* call it is of.
LEMMA SettleInduction ==
    ASSUME IInv, NEW c \in Calls, rd[c] = "read", rd' = [rd EXCEPT ![c] = "done"],
           seen' = [seen EXCEPT ![c] = "undefined"],
           creates' = IF c \in Creations THEN Drop(creates, TaskOf[c]) ELSE creates,
           submits' = IF c \in Submissions THEN Drop(submits, TaskOf[c]) ELSE submits,
           NEW a \in Answers \cup {"thrown"}, Resolve(c, a), a = "verified" => Supported(c),
           UNCHANGED <<chainVars, mail, initVars, params, claim>>
    PROVE  IInv'
<1>1. /\ UNCHANGED <<chainVars, mail, since>> /\ UNCHANGED <<block, record, epochs>>
      /\ UNCHANGED <<since, phase, snapshot, params, claim>>
      /\ TypeOK /\ TaskOf[c] \in Tasks
  BY CallTypes DEF initVars, chainVars, IInv
<1>2. /\ MailInv' /\ ChainInv' /\ ChainKept
      /\ \A t, k : Mailed({k}, t)' <=> Mailed({k}, t)
      /\ \A t : Recorded(t)' <=> Recorded(t)
  BY <1>1, QuietStep
<1>3. /\ rd' \in [Calls -> {"none", "asked", "read", "done"}]
      /\ seen' \in [Calls -> Statuses]
      /\ rd'[c] = "done" /\ seen'[c] = "undefined"
      /\ \A d \in Calls \ {c} : rd'[d] = rd[d] /\ seen'[d] = seen[d]
      /\ \A d \in Calls : rd'[d] = "none" <=> rd[d] = "none"
  BY <1>1 DEF TypeOK, Statuses
<1>4. /\ answer' \in [Calls -> Answers \cup {"none", "thrown"}]
      /\ answer'[c] # "none" /\ \A d \in Calls \ {c} : answer'[d] = answer[d]
      /\ \A d \in Calls : answer[d] = "verified" => answer'[d] = "verified"
      /\ answer'[c] = "verified" => answer[c] = "verified" \/ a = "verified"
  BY <1>1, ResolveEffect
<1>5. /\ creates' \in [Tasks -> CreateListeners] /\ submits' \in [Tasks -> SubmitListeners]
      /\ \A t \in Tasks : creates'[t] = creates[t] \/ creates'[t].call = NoCall
      /\ \A t \in Tasks : submits'[t] = submits[t] \/ submits'[t].call = NoCall
      /\ \A t \in Tasks : c \notin Creations \/ t # TaskOf[c] => creates'[t] = creates[t]
      /\ c \in Submissions => submits'[TaskOf[c]].call = NoCall
  BY <1>1, DropEffect, ListenerTypes
<1>6. TypeOK'
  BY <1>1, <1>3, <1>4, <1>5 DEF TypeOK, CreateListeners, SubmitListeners
<1>7. ListenInv'
  <2>. SUFFICES ASSUME NEW t \in Tasks PROVE ListenerOK(t)'
    BY DEF ListenInv
  <2>1. ListenerOK(t) /\ creates[t].call \in Calls \cup {NoCall} /\ submits[t].call \in Calls \cup {NoCall}
    BY <1>1 DEF IInv, ListenInv, TypeOK, Calls
  <2>2. /\ creates'[t] = creates[t] \/ creates'[t].call = NoCall
        /\ submits'[t] = submits[t] \/ submits'[t].call = NoCall
    BY <1>5
  <2>. QED
    BY <1>3, <2>1, <2>2 DEF ListenerOK
<1>8. CallInv'
  <2>. SUFFICES ASSUME NEW d \in Calls PROVE CallOK(d)'
    BY DEF CallInv
  <2>1. CallOK(d)
    BY DEF IInv, CallInv
  <2>2. CASE d = c
    BY <1>1, <1>3, <2>1, <2>2 DEF CallOK
  <2>3. CASE d # c
    BY <1>1, <1>3, <1>4, <2>1, <2>3 DEF CallOK, Confirmed
  <2>. QED
    BY <2>2, <2>3
<1>9. CreationInv'
  <2>. SUFFICES ASSUME NEW d \in Creations, rd[d] # "none" PROVE CreationOK(d)'
    BY <1>3, CallTypes DEF CreationInv, CreationOK, Heard
  <2>. DEFINE t == TaskOf[d]
  <2>1. CreationOK(d) /\ t \in Tasks /\ Creations \subseteq Calls
    BY CallTypes DEF IInv, CreationInv
  <2>2. \A b \in Creations : b # d /\ TaskOf[b] = t /\ rd'[b] # "none" =>
            answer'[d] = "verified" \/ answer'[b] = "verified"
    BY <1>3, <1>4, <2>1 DEF CreationOK, Heard
  <2>3. CASE d = c
    BY <1>4, <2>2, <2>3 DEF CreationOK, Heard
  <2>4. CASE d # c /\ c \in Creations /\ TaskOf[c] = t /\ answer[d] = "none"
    <3>1. answer[c] = "verified"
      BY <2>1, <2>4 DEF CreationOK, Heard
    <3>2. Recorded(t)'
      BY <1>2, <2>4, <3>1, SupportedIsConfirmed DEF IInv, Supported
    <3>3. ~(rd[d] \in {"read", "done"} /\ seen[d] = "undefined")
      BY <2>1, <2>4 DEF CreationOK, Heard
    <3>4. rd[d] # "done"
      BY <2>1, <2>4, <3>3 DEF CreationOK, Heard
    <3>5. rd'[d] = rd[d] /\ seen'[d] = seen[d]
      BY <1>3, <2>1, <2>4
    <3>. QED
      BY <2>2, <3>2, <3>3, <3>4, <3>5 DEF CreationOK, Heard
  <2>5. CASE d # c /\ answer[d] # "none"
    <3>1. answer'[d] # "none"
      BY <1>4, <2>1, <2>5
    <3>. QED
      BY <2>2, <3>1 DEF CreationOK, Heard
  <2>6. CASE d # c /\ ~(c \in Creations /\ TaskOf[c] = t)
    <3>1. /\ creates'[t] = creates[t] /\ rd'[d] = rd[d] /\ seen'[d] = seen[d]
          /\ answer'[d] = answer[d]
      BY <1>3, <1>4, <1>5, <2>1, <2>6
    <3>. QED
      BY <1>1, <1>2, <1>3, <2>1, <2>2, <3>1 DEF CreationOK, Heard
  <2>. QED
    BY <2>3, <2>4, <2>5, <2>6
<1>10. SubmissionInv'
  <2>. SUFFICES ASSUME NEW t \in Tasks PROVE SubmissionOK(t)'
    BY DEF SubmissionInv
  <2>1. CASE submits'[t].call = NoCall
    BY <2>1 DEF SubmissionOK, Heard
  <2>2. CASE submits'[t].call # NoCall
    <3>1. submits'[t] = submits[t] /\ submits[t].call \in Submissions /\ submits[t].call \in Calls
      BY <1>1, <1>5, <2>2, CallTypes DEF TypeOK
    <3>2. submits[t].call # c
      BY <1>5, <2>2, <3>1 DEF IInv, ListenInv, ListenerOK
    <3>3. SubmissionOK(t)
      BY DEF IInv, SubmissionInv
    <3>. QED
      BY <1>1, <1>2, <1>3, <3>1, <3>2, <3>3 DEF SubmissionOK, Heard
  <2>. QED
    BY <2>1, <2>2
<1>11. ParamsInv' /\ SinceInv'
  BY <1>1 DEF IInv, ParamsInv, ParamsOK, SinceInv
<1>12. AnswersInv'
  <2>1. \A d \in Calls : answer'[d] = "verified" =>
            claim'[d] = claim[d] /\ (answer[d] = "verified" \/ Supported(d))
    BY <1>1, <1>4
  <2>. QED
    BY <1>2, <2>1, VerifiedKept
<1>. QED
  BY <1>2, <1>6, <1>7, <1>8, <1>9, <1>10, <1>11, <1>12 DEF IInv

LEMMA ReturnInduction ==
    ASSUME IInv, NEW c \in Calls, NEW fault \in BOOLEAN, ReadReturns(c, fault)
    PROVE  IInv'
<1>. DEFINE waits == seen[c] = "undefined" \/ (c \in Submissions /\ seen[c] = "created")
            a == IF fault THEN "rejected"
                 ELSE IF c \in Submissions THEN SubmissionAnswer(c, seen[c])
                 ELSE IF seen[c] = "created" THEN CreationAnswer(c)
                 ELSE "rejected"
<1>1. /\ rd[c] = "read" /\ rd' = [rd EXCEPT ![c] = "done"]
      /\ UNCHANGED <<chainVars, mail, initVars, params, claim>>
  BY DEF ReadReturns
<1>2. CASE waits /\ ~fault
  <2>1. UNCHANGED <<listenerVars, seen, answer>>
    BY <1>2 DEF ReadReturns
  <2>. QED
    BY <1>1, <1>2, <2>1, WaitInduction
<1>3. CASE ~(waits /\ ~fault)
  <2>1. /\ seen' = [seen EXCEPT ![c] = "undefined"]
        /\ creates' = IF c \in Creations THEN Drop(creates, TaskOf[c]) ELSE creates
        /\ submits' = IF c \in Submissions THEN Drop(submits, TaskOf[c]) ELSE submits
        /\ Resolve(c, a)
    BY <1>3 DEF ReadReturns
  <2>2. /\ seen[c] \in Statuses /\ CallOK(c)
        /\ (c \in Creations <=> c \notin Submissions)
    BY CallTypes DEF IInv, TypeOK, CallInv, Calls
  <2>3. a \in Answers \cup {"thrown"} /\ (a = "verified" => Supported(c))
    <3>1. CASE fault
      BY <3>1 DEF Answers
    <3>2. CASE ~fault /\ c \in Submissions
      <4>1. seen[c] \in Receipts
        BY <1>3, <2>2, <3>2 DEF Statuses
      <4>2. record[TaskOf[c]].receipt = seen[c] /\ Confirmed(record[TaskOf[c]].at)
        BY <1>1, <2>2, <4>1 DEF CallOK, Receipts
      <4>. QED
        BY <2>2, <3>2, <4>1, <4>2, SubmissionAnswers DEF Supported
    <3>3. CASE ~fault /\ c \in Creations
      <4>1. seen[c] = "created" => Recorded(TaskOf[c])
        BY <1>1, <2>2 DEF CallOK, Recorded
      <4>. QED
        BY <2>2, <3>3, <4>1, CreationAnswers DEF Supported, Answers
    <3>. QED
      BY <2>2, <3>1, <3>2, <3>3
  <2>. HIDE DEF a
  <2>. QED
    BY <1>1, <2>1, <2>3, SettleInduction
<1>. QED
  BY <1>2, <1>3

-----------------------------------------------------------------------------
(* Events.                                                                 *)

\* An event that is handed over leaves the mail; what it says is confirmed.
LEMMA DeliveryEffect ==
    ASSUME IInv, NEW e \in mail, Confirmed(e.at), mail' = mail \ {e},
           UNCHANGED <<chainVars, since>>
    PROVE  /\ MailInv' /\ ChainInv' /\ ChainKept
           /\ \A t, k : Mailed({k}, t) => Mailed({k}, t)' \/ (e.kind = k /\ e.task = t)
           /\ \A t : Recorded(t)' <=> Recorded(t)
<1>1. UNCHANGED <<block, record, epochs, since>> /\ block \in Blocks /\ EventOK(e)
  BY DEF chainVars, IInv, TypeOK, MailInv
<1>2. ChainKept
  BY <1>1 DEF ChainKept, Blocks
<1>3. \A t : Recorded(t)' <=> Recorded(t)
  BY <1>1 DEF Recorded, Confirmed
<1>4. \A t, k : Mailed({k}, t) => Mailed({k}, t)' \/ (e.kind = k /\ e.task = t)
  BY DEF Mailed
<1>5. MailInv'
  BY <1>1 DEF IInv, MailInv, EventOK
<1>6. ChainInv'
  <2>. SUFFICES ASSUME NEW t \in Tasks PROVE RecordOK(t)'
    BY DEF ChainInv
  <2>1. RecordOK(t) /\ record[t].receipt \in {"undefined"} \cup Receipts
    BY RecordTypes DEF IInv, ChainInv
  <2>2. e.kind = "create" /\ e.task = t => Confirmed(record[t].created)
    BY <1>1 DEF EventOK
  <2>3. e.kind = record[t].receipt /\ e.task = t /\ e.kind # "undefined"
          => Confirmed(record[t].at)
    BY <1>1, <2>1 DEF EventOK
  <2>. QED
    BY <1>1, <1>4, <2>1, <2>2, <2>3 DEF RecordOK, Heard, Confirmed
<1>. QED
  BY <1>2, <1>3, <1>4, <1>5, <1>6

\* What is left to show of an event: it answers the calls whose listeners it
\* takes away.
LEMMA EventInduction ==
    ASSUME IInv, TypeOK', NEW e \in mail, Confirmed(e.at), mail' = mail \ {e},
           UNCHANGED <<chainVars, initVars, callVars>>, ParamsOK(params'),
           \A c \in Calls : answer[c] = "verified" => answer'[c] = "verified",
           \A c \in Calls : answer'[c] = "verified" => answer[c] = "verified" \/ Supported(c),
           \A c \in Calls : answer'[c] = "none" => answer[c] = "none",
           \A c \in Calls : rd[c] = "none" => answer'[c] = answer[c],
           \A t \in Tasks : creates'[t] = creates[t] \/ creates'[t].call = NoCall,
           \A t \in Tasks : submits'[t] = submits[t] \/ submits'[t].call = NoCall,
           \A c \in Creations :
               rd[c] # "none" /\ answer'[c] = "none" /\ creates[TaskOf[c]].call = c =>
                  /\ creates'[TaskOf[c]].call = c
                  /\ ~(e.kind = "create" /\ e.task = TaskOf[c]),
           \A t \in Tasks : submits'[t].call # NoCall =>
               ~(e.kind \in Receipts \ {"cancelled"} /\ e.task = t)
    PROVE  IInv'
<1>1. /\ UNCHANGED <<block, record, epochs, since, phase, snapshot, rd, seen, claim>> /\ TypeOK
  BY DEF chainVars, initVars, callVars, IInv
<1>2. /\ MailInv' /\ ChainInv' /\ ChainKept
      /\ \A t, k : Mailed({k}, t) => Mailed({k}, t)' \/ (e.kind = k /\ e.task = t)
      /\ \A t : Recorded(t)' <=> Recorded(t)
  BY <1>1, DeliveryEffect
<1>3. ListenInv'
  <2>. SUFFICES ASSUME NEW t \in Tasks PROVE ListenerOK(t)'
    BY DEF ListenInv
  <2>1. ListenerOK(t)
    BY DEF IInv, ListenInv
  <2>2. /\ creates'[t] = creates[t] \/ creates'[t].call = NoCall
        /\ submits'[t] = submits[t] \/ submits'[t].call = NoCall
    OBVIOUS
  <2>. QED
    BY <1>1, <2>1, <2>2 DEF ListenerOK
<1>4. CallInv'
  <2>. SUFFICES ASSUME NEW d \in Calls PROVE CallOK(d)'
    BY DEF CallInv
  <2>1. CallOK(d) /\ (rd[d] = "none" => answer'[d] = answer[d])
    BY DEF IInv, CallInv
  <2>. QED
    BY <1>1, <2>1 DEF CallOK, Confirmed
<1>5. CreationInv'
  <2>. SUFFICES ASSUME NEW d \in Creations PROVE CreationOK(d)'
    BY DEF CreationInv
  <2>. DEFINE t == TaskOf[d]
  <2>1. CreationOK(d) /\ Creations \subseteq Calls
    BY CallTypes DEF IInv, CreationInv
  <2>2. rd[d] # "none" => \A b \in Creations : b # d /\ TaskOf[b] = t /\ rd[b] # "none" =>
            answer'[d] = "verified" \/ answer'[b] = "verified"
    BY <2>1 DEF CreationOK, Heard
  <2>3. answer'[d] = "none" => answer[d] = "none"
    BY <2>1
  <2>4. rd[d] # "none" /\ answer'[d] = "none" /\ creates[t].call = d =>
          /\ creates'[t].call = d
          /\ ~(e.kind = "create" /\ e.task = t)
    OBVIOUS
  <2>5. Mailed({"create"}, t) => Mailed({"create"}, t)' \/ (e.kind = "create" /\ e.task = t)
    BY <1>2
  <2>6. Recorded(t)' <=> Recorded(t)
    BY <1>2
  <2>. QED
    BY <1>1, <2>1, <2>2, <2>3, <2>4, <2>5, <2>6 DEF CreationOK, Heard
<1>6. SubmissionInv'
  <2>. SUFFICES ASSUME NEW t \in Tasks PROVE SubmissionOK(t)'
    BY DEF SubmissionInv
  <2>1. SubmissionOK(t)
    BY DEF IInv, SubmissionInv
  <2>2. /\ submits'[t] = submits[t] \/ submits'[t].call = NoCall
        /\ submits'[t].call # NoCall => ~(e.kind \in Receipts \ {"cancelled"} /\ e.task = t)
    OBVIOUS
  <2>3. \A k : Mailed({k}, t) => Mailed({k}, t)' \/ (e.kind = k /\ e.task = t)
    BY <1>2
  <2>. QED
    BY <1>1, <2>1, <2>2, <2>3 DEF SubmissionOK, Heard
<1>7. ParamsInv' /\ SinceInv'
  BY <1>1 DEF IInv, ParamsInv, ParamsOK, SinceInv
<1>8. AnswersInv'
  BY <1>1, <1>2, VerifiedKept
<1>. QED
  BY <1>2, <1>3, <1>4, <1>5, <1>6, <1>7, <1>8 DEF IInv

LEMMA CreationEventInduction ==
    ASSUME IInv, NEW e \in mail, TaskCreationEvent(e)
    PROVE  IInv'
<1>. DEFINE t == e.task
            c == creates[t].call
<1>1. /\ e.kind = "create" /\ Confirmed(e.at) /\ mail' = mail \ {e}
      /\ UNCHANGED <<chainVars, initVars, callVars, params, submits>>
      /\ UNCHANGED <<block, record, epochs, since, phase, snapshot, rd, seen, claim>>
      /\ TypeOK /\ t \in Tasks /\ EventOK(e) /\ "create" \notin Receipts
      /\ ParamsOK(params)
  BY EventTypes DEF TaskCreationEvent, Deliverable, chainVars, initVars, callVars, IInv, MailInv,
     Receipts, ParamsInv
<1>2. mail' \subseteq Events
  BY <1>1 DEF TypeOK
<1>3. CASE phase = "ready" /\ c # NoCall
  <2>1. creates' = Drop(creates, t) /\ Resolve(c, CreationAnswer(c))
    BY <1>3 DEF TaskCreationEvent
  <2>2. c \in Creations /\ c \in Calls /\ TaskOf[c] = t /\ rd[c] # "none"
    BY <1>1, <1>3, CallTypes DEF TypeOK, IInv, ListenInv, ListenerOK
  <2>. HIDE DEF c
  <2>3. /\ CreationAnswer(c) \in Answers \cup {"thrown"}
        /\ CreationAnswer(c) = "verified" => Supported(c)
    <3>1. Recorded(t)
      BY <1>1 DEF EventOK, Recorded
    <3>. QED
      BY <2>2, <3>1, CreationAnswers, CallTypes DEF Supported
  <2>4. /\ answer' \in [Calls -> Answers \cup {"none", "thrown"}]
        /\ answer'[c] # "none"
        /\ \A d \in Calls \ {c} : answer'[d] = answer[d]
        /\ answer[c] = "verified" => answer'[c] = "verified"
        /\ answer'[c] = "verified" => answer[c] = "verified" \/ CreationAnswer(c) = "verified"
    BY <1>1, <2>1, <2>2, <2>3, ResolveEffect
  <2>5. /\ creates' \in [Tasks -> CreateListeners] /\ creates'[t].call = NoCall
        /\ \A u \in Tasks \ {t} : creates'[u] = creates[u]
    BY <1>1, <2>1, DropEffect
  <2>6. TypeOK'
    BY <1>1, <1>2, <2>4, <2>5 DEF TypeOK, CreateListeners
  <2>7. \A d \in Creations : answer'[d] = "none" /\ creates[TaskOf[d]].call = d =>
            creates'[TaskOf[d]].call = d /\ t # TaskOf[d]
    BY <2>4, <2>5, CallTypes DEF c
  <2>. QED
    BY <1>1, <2>2, <2>3, <2>4, <2>5, <2>6, <2>7, EventInduction
<1>4. CASE ~(phase = "ready" /\ c # NoCall)
  <2>1. UNCHANGED <<creates, answer>>
    BY <1>4 DEF TaskCreationEvent
  <2>2. TypeOK'
    BY <1>1, <1>2, <2>1 DEF TypeOK
  <2>3. \A d \in Creations : rd[d] # "none" /\ creates[TaskOf[d]].call = d => t # TaskOf[d]
    BY <1>4, CallTypes DEF IInv, CallInv, CallOK
  <2>. QED
    BY <1>1, <2>1, <2>2, <2>3, EventInduction
<1>. QED
  BY <1>3, <1>4

LEMMA SubmissionEventInduction ==
    ASSUME IInv, NEW e \in mail, TaskSubmissionEvent(e)
    PROVE  IInv'
<1>. DEFINE t == e.task
            c == submits[t].call
<1>1. /\ e.kind \in Receipts /\ Confirmed(e.at) /\ mail' = mail \ {e}
      /\ UNCHANGED <<chainVars, initVars, callVars, params, creates>>
      /\ UNCHANGED <<block, record, epochs, since, phase, snapshot, rd, seen, claim>>
      /\ TypeOK /\ t \in Tasks /\ EventOK(e) /\ e.kind # "create"
      /\ ParamsOK(params)
  BY EventTypes DEF TaskSubmissionEvent, Deliverable, chainVars, initVars, callVars, IInv, MailInv,
     Receipts, ParamsInv
<1>2. mail' \subseteq Events
  BY <1>1 DEF TypeOK
<1>3. CASE phase = "ready" /\ c # NoCall
  <2>1. submits' = Drop(submits, t) /\ Resolve(c, SubmissionAnswer(c, e.kind))
    BY <1>3 DEF TaskSubmissionEvent
  <2>2. c \in Submissions /\ c \in Calls /\ TaskOf[c] = t /\ rd[c] # "none"
    BY <1>1, <1>3, CallTypes DEF TypeOK, IInv, ListenInv, ListenerOK
  <2>. HIDE DEF c
  <2>3. /\ SubmissionAnswer(c, e.kind) \in Answers \cup {"thrown"}
        /\ SubmissionAnswer(c, e.kind) = "verified" => Supported(c)
    <3>1. record[t].receipt = e.kind /\ Confirmed(record[t].at)
      BY <1>1 DEF EventOK
    <3>. QED
      BY <1>1, <2>2, <3>1, SubmissionAnswers, CallTypes DEF Supported
  <2>4. /\ answer' \in [Calls -> Answers \cup {"none", "thrown"}]
        /\ answer'[c] # "none"
        /\ \A d \in Calls \ {c} : answer'[d] = answer[d]
        /\ answer[c] = "verified" => answer'[c] = "verified"
        /\ answer'[c] = "verified" =>
              answer[c] = "verified" \/ SubmissionAnswer(c, e.kind) = "verified"
    BY <1>1, <2>1, <2>2, <2>3, ResolveEffect
  <2>5. /\ submits' \in [Tasks -> SubmitListeners] /\ submits'[t].call = NoCall
        /\ \A u \in Tasks \ {t} : submits'[u] = submits[u]
    BY <1>1, <2>1, DropEffect
  <2>6. TypeOK'
    BY <1>1, <1>2, <2>4, <2>5 DEF TypeOK, SubmitListeners
  <2>. QED
    BY <1>1, <2>2, <2>3, <2>4, <2>5, <2>6, EventInduction
<1>4. CASE ~(phase = "ready" /\ c # NoCall)
  <2>1. UNCHANGED <<submits, answer>>
    BY <1>4 DEF TaskSubmissionEvent
  <2>2. TypeOK'
    BY <1>1, <1>2, <2>1 DEF TypeOK
  <2>3. submits[t].call = NoCall
    <3>1. c # NoCall => c \in Calls /\ rd[c] # "none"
      BY <1>1, CallTypes DEF TypeOK, IInv, ListenInv, ListenerOK
    <3>. QED
      BY <1>4, <3>1 DEF IInv, CallInv, CallOK
  <2>. QED
    BY <1>1, <2>1, <2>2, <2>3, EventInduction
<1>. QED
  BY <1>3, <1>4

LEMMA CancelledEventInduction ==
    ASSUME IInv, NEW e \in mail, TaskCancelledEvent(e)
    PROVE  IInv'
<1>1. /\ e.kind = "cancelled" /\ Confirmed(e.at) /\ mail' = mail \ {e}
      /\ UNCHANGED <<chainVars, initVars, callVars, params, creates, submits, answer>>
      /\ UNCHANGED <<block, record, epochs, since, phase, snapshot, rd, seen, claim>>
      /\ TypeOK /\ ParamsOK(params)
  BY DEF TaskCancelledEvent, Deliverable, chainVars, initVars, callVars, listenerVars, IInv, ParamsInv
<1>2. TypeOK'
  BY <1>1 DEF TypeOK
<1>. QED
  BY <1>1, <1>2, EventInduction

\* The params of an event go last; the first ones make room.
LEMMA PushEffect ==
    ASSUME TypeOK, ParamsOK(params), NEW n \in 1..MaxEpochs, n <= Len(epochs),
           PushParams([epoch |-> n, from |-> "event"])
    PROVE  params' \in Seq(Params) /\ Len(params') <= ParamsSize /\ ParamsOK(params')
<1>. DEFINE p == [epoch |-> n, from |-> "event"]
            q == Append(params, p)
<1>1. params' = IF Len(q) > ParamsSize THEN Tail(q) ELSE q
  BY DEF PushParams
<1>2. p \in Params /\ p.epoch = n /\ n # 0 /\ ParamsSize \in Nat
  BY VerifierAssumption DEF Params
<1>. HIDE DEF p
<1>3. /\ params \in Seq(Params) /\ Len(params) \in Nat /\ Len(params) <= ParamsSize
      /\ DOMAIN params = 1..Len(params)
  BY LenProperties DEF TypeOK
<1>4. /\ q \in Seq(Params) /\ q # <<>> /\ Len(q) = Len(params) + 1
      /\ \A i \in 1..Len(params) : q[i] = params[i]
      /\ q[Len(params) + 1] = p
  BY <1>2, <1>3, AppendProperties
<1>. HIDE DEF q
<1>5. DOMAIN q = 1..Len(q)
  BY <1>4, LenProperties
<1>6. ParamsOK(q)
  <2>1. \A i \in 1..Len(q) : i \in 1..Len(params) \/ i = Len(params) + 1
    BY <1>3, <1>4
  <2>2. \A i \in 1..Len(q) : (i \in 1..Len(params) /\ q[i] = params[i]) \/ q[i] = p
    BY <1>4, <2>1
  <2>. QED
    BY <1>2, <1>3, <1>5, <2>2 DEF ParamsOK
<1>7. CASE Len(q) > ParamsSize
  <2>1. params' = Tail(q)
    BY <1>1, <1>7
  <2>2. /\ Tail(q) \in Seq(Params) /\ Len(Tail(q)) = Len(q) - 1
        /\ \A i \in 1..Len(Tail(q)) : Tail(q)[i] = q[i + 1]
    BY <1>4, HeadTailProperties
  <2>3. DOMAIN Tail(q) = 1..Len(Tail(q))
    BY <2>2, LenProperties
  <2>4. ParamsOK(Tail(q))
    <3>1. \A i \in 1..Len(Tail(q)) : i + 1 \in 1..Len(q)
      BY <1>3, <1>4, <2>2
    <3>. QED
      BY <1>5, <1>6, <2>2, <2>3, <3>1 DEF ParamsOK
  <2>. QED
    BY <1>2, <1>3, <1>4, <2>1, <2>2, <2>4
<1>8. CASE ~(Len(q) > ParamsSize)
  BY <1>1, <1>2, <1>3, <1>4, <1>6, <1>8
<1>. QED
  BY <1>7, <1>8

\* A listener that is too old is told; the others stay.
LEMMA TimeoutEffect ==
    ASSUME TypeOK, NEW first, CheckTimeouts(first)
    PROVE  /\ creates' \in [Tasks -> CreateListeners] /\ submits' \in [Tasks -> SubmitListeners]
           /\ answer' \in [Calls -> Answers \cup {"none", "thrown"}]
           /\ \A t \in Tasks : creates'[t] = creates[t] \/ creates'[t].call = NoCall
           /\ \A t \in Tasks : submits'[t] = submits[t] \/ submits'[t].call = NoCall
           /\ \A c \in Calls : \/ answer'[c] = answer[c]
                               \/ /\ answer'[c] = "timeout" /\ answer[c] # "verified"
                                  /\ \/ creates[TaskOf[c]].call = c
                                     \/ submits[TaskOf[c]].call = c
           /\ \A c \in Calls : answer'[c] = "none" /\ creates[TaskOf[c]].call = c =>
                  creates'[TaskOf[c]] = creates[TaskOf[c]]
<1>1. /\ creates \in [Tasks -> CreateListeners] /\ submits \in [Tasks -> SubmitListeners]
      /\ NoListener \in CreateListeners /\ NoListener \in SubmitListeners
      /\ NoListener.call = NoCall /\ \A c \in Calls : TaskOf[c] \in Tasks
  BY ListenerTypes, CallTypes
<1>2. /\ creates' = [t \in Tasks |->
                       IF Expired(creates[t], first) THEN NoListener ELSE creates[t]]
      /\ submits' = [t \in Tasks |->
                       IF Expired(submits[t], first) THEN NoListener ELSE submits[t]]
      /\ answer' = [c \in Calls |->
                     IF /\ answer[c] \notin Answers
                        /\ \E l \in {creates[TaskOf[c]], submits[TaskOf[c]]} :
                               l.call = c /\ Expired(l, first)
                     THEN "timeout" ELSE answer[c]]
  BY DEF CheckTimeouts
<1>3. /\ creates' \in [Tasks -> CreateListeners] /\ submits' \in [Tasks -> SubmitListeners]
      /\ \A t \in Tasks : creates'[t] = creates[t] \/ creates'[t].call = NoCall
      /\ \A t \in Tasks : submits'[t] = submits[t] \/ submits'[t].call = NoCall
  BY <1>1, <1>2
<1>4. answer' \in [Calls -> Answers \cup {"none", "thrown"}]
  BY <1>2 DEF TypeOK, Answers
<1>5. ASSUME NEW c \in Calls
      PROVE  /\ \/ answer'[c] = answer[c]
                \/ /\ answer'[c] = "timeout" /\ answer[c] # "verified"
                   /\ creates[TaskOf[c]].call = c \/ submits[TaskOf[c]].call = c
             /\ answer'[c] = "none" /\ creates[TaskOf[c]].call = c =>
                  creates'[TaskOf[c]] = creates[TaskOf[c]]
  BY <1>1, <1>2 DEF Answers
<1>. QED
  BY <1>3, <1>4, <1>5

LEMMA EpochEventInduction ==
    ASSUME IInv, NEW e \in mail, NewEpochEvent(e)
    PROVE  IInv'
<1>1. /\ e.kind = "epoch" /\ Confirmed(e.at) /\ mail' = mail \ {e}
      /\ UNCHANGED <<chainVars, initVars, callVars>>
      /\ UNCHANGED <<block, record, epochs, since, phase, snapshot, rd, seen, claim>>
      /\ TypeOK /\ ParamsOK(params) /\ e.kind # "create" /\ e.kind \notin Receipts
      /\ e.epoch \in 1..Len(epochs)
  BY DEF NewEpochEvent, Deliverable, chainVars, initVars, callVars, IInv, ParamsInv, MailInv, EventOK,
     Receipts
<1>2. mail' \subseteq Events
  BY <1>1 DEF TypeOK
<1>3. CASE phase = "off"
  <2>1. UNCHANGED <<params, creates, submits, answer>>
    BY <1>3 DEF NewEpochEvent, listenerVars
  <2>2. TypeOK'
    BY <1>1, <1>2, <2>1 DEF TypeOK
  <2>. QED
    BY <1>1, <2>1, <2>2, EventInduction
<1>4. CASE phase # "off"
  <2>1. PushParams([epoch |-> e.epoch, from |-> "event"]) /\ CheckTimeouts(epochs[e.epoch])
    BY <1>4 DEF NewEpochEvent
  <2>2. params' \in Seq(Params) /\ Len(params') <= ParamsSize /\ ParamsOK(params')
    <3>1. e.epoch \in 1..MaxEpochs /\ e.epoch <= Len(epochs)
      BY <1>1, LenProperties, VerifierAssumption DEF TypeOK
    <3>. QED
      BY <1>1, <2>1, <3>1, PushEffect
  <2>3. PICK first : CheckTimeouts(first)
    BY <2>1
  <2>4. /\ creates' \in [Tasks -> CreateListeners] /\ submits' \in [Tasks -> SubmitListeners]
        /\ answer' \in [Calls -> Answers \cup {"none", "thrown"}]
        /\ \A t \in Tasks : creates'[t] = creates[t] \/ creates'[t].call = NoCall
        /\ \A t \in Tasks : submits'[t] = submits[t] \/ submits'[t].call = NoCall
        /\ \A c \in Calls : \/ answer'[c] = answer[c]
                            \/ /\ answer'[c] = "timeout" /\ answer[c] # "verified"
                               /\ \/ creates[TaskOf[c]].call = c
                                  \/ submits[TaskOf[c]].call = c
        /\ \A c \in Calls : answer'[c] = "none" /\ creates[TaskOf[c]].call = c =>
               creates'[TaskOf[c]] = creates[TaskOf[c]]
    BY <1>1, <2>3, TimeoutEffect
  <2>5. TypeOK'
    BY <1>1, <1>2, <2>2, <2>4 DEF TypeOK, CreateListeners, SubmitListeners
  <2>6. \A c \in Calls : rd[c] = "none" => answer'[c] = answer[c]
    <3>. SUFFICES ASSUME NEW c \in Calls, rd[c] = "none" PROVE answer'[c] = answer[c]
      OBVIOUS
    <3>1. creates[TaskOf[c]].call # c /\ submits[TaskOf[c]].call # c
      BY CallTypes DEF IInv, ListenInv, ListenerOK
    <3>. QED
      BY <2>4, <3>1
  <2>7. \A c \in Calls : /\ answer[c] = "verified" => answer'[c] = "verified"
                         /\ answer'[c] = "verified" => answer[c] = "verified"
                         /\ answer'[c] = "none" => answer[c] = "none"
    BY <2>4
  <2>8. \A c \in Creations : answer'[c] = "none" /\ creates[TaskOf[c]].call = c =>
               creates'[TaskOf[c]].call = c
    BY <2>4, CallTypes
  <2>. QED
    BY <1>1, <2>2, <2>4, <2>5, <2>6, <2>7, <2>8, EventInduction
<1>. QED
  BY <1>3, <1>4
-----------------------------------------------------------------------------
(* The theorems.                                                           *)

LEMMA InitialInvariant == Init => IInv
<1>. SUFFICES ASSUME Init PROVE IInv
  OBVIOUS
<1>1. /\ 0 \in Blocks /\ FirstBlock \in Blocks /\ FirstBlock \in Nat
      /\ \A c \in Calls : TaskOf[c] \in Tasks /\ c # NoCall
  BY VerifierAssumption, CallTypes DEF Blocks
<1>2. TypeOK
  <2>1. /\ NoRecord \in Record
        /\ NoListener \in CreateListeners /\ NoListener \in SubmitListeners
    BY <1>1 DEF NoRecord, Record, NoListener, CreateListeners, SubmitListeners
  <2>2. /\ record \in [Tasks -> Record] /\ creates \in [Tasks -> CreateListeners]
        /\ submits \in [Tasks -> SubmitListeners]
    BY <2>1 DEF Init
  <2>3. /\ epochs \in Seq(Blocks) /\ Len(epochs) = 0
        /\ snapshot \in Seq(Params) /\ params \in Seq(Params) /\ Len(params) = 0
    BY EmptySeq DEF Init
  <2>4. 0 <= MaxEpochs /\ 0 <= ParamsSize
    BY VerifierAssumption
  <2>. QED
    BY <1>1, <2>2, <2>3, <2>4
       DEF Init, TypeOK, Record, CreateListeners, SubmitListeners, Statuses
<1>3. MailInv /\ ChainInv
  <2>1. \A t \in Tasks : ~Heard(record[t].created) /\ record[t].receipt = "undefined"
    BY <1>1 DEF Init, NoRecord, Heard
  <2>. QED
    BY <2>1 DEF Init, MailInv, ChainInv, RecordOK
<1>4. ListenInv /\ SubmissionInv
  BY DEF Init, ListenInv, ListenerOK, SubmissionInv, SubmissionOK, Heard, NoListener
<1>5. CallInv /\ AnswersInv
  BY CallTypes DEF Init, CallInv, CallOK, AnswersInv, VerifiedIsConfirmed, SelectedBeforeTask
<1>6. CreationInv
  BY CallTypes DEF Init, CreationInv, CreationOK, Heard
<1>7. ParamsInv /\ SinceInv
  BY <1>1 DEF Init, ParamsInv, ParamsOK, SinceInv
<1>. QED
  BY <1>2, <1>3, <1>4, <1>5, <1>6, <1>7 DEF IInv

LEMMA Stuttering == IInv /\ UNCHANGED vars => IInv'
<1>. SUFFICES ASSUME IInv, UNCHANGED vars PROVE IInv'
  OBVIOUS
<1>1. /\ UNCHANGED <<block, record, epochs, mail, since, phase, snapshot, params, creates, submits>>
      /\ UNCHANGED <<rd, seen, claim, answer>> /\ UNCHANGED <<chainVars, mail, since>>
  BY DEF vars, chainVars
<1>2. /\ MailInv' /\ ChainInv'
      /\ \A t, k : Mailed({k}, t)' <=> Mailed({k}, t)
      /\ \A t : Recorded(t)' <=> Recorded(t)
  BY <1>1, QuietStep
<1>3. TypeOK'
  BY <1>1 DEF IInv, TypeOK
<1>4. ListenInv' /\ CallInv' /\ ParamsInv' /\ SinceInv'
  BY <1>1 DEF IInv, ListenInv, ListenerOK, CallInv, CallOK, ParamsInv, ParamsOK, SinceInv, Confirmed
<1>5. CreationInv' /\ SubmissionInv'
  BY <1>1, <1>2 DEF IInv, CreationInv, CreationOK, SubmissionInv, SubmissionOK, Heard
<1>6. AnswersInv'
  BY <1>1 DEF IInv, AnswersInv, VerifiedIsConfirmed, SelectedBeforeTask, Confirmed
<1>. QED
  BY <1>2, <1>3, <1>4, <1>5, <1>6 DEF IInv

\* The inductive invariant: events agree with the records, what is not yet
\* confirmed has its event on the way, and a call waits with its listener.
THEOREM Invariance == Spec => []IInv
<1>1. IInv /\ [Next]_vars => IInv'
  <2>. SUFFICES ASSUME IInv, [Next]_vars PROVE IInv'
    OBVIOUS
  <2>1. ASSUME NEW ts \in BlockContents, NEW newEpoch \in BOOLEAN, NewBlock(ts, newEpoch)
        PROVE  IInv'
    BY <2>1, BlockInduction
  <2>2. CASE InitListen \/ InitRead \/ InitReady
    BY <2>2, InitInduction
  <2>3. ASSUME NEW c \in Calls, NEW cl \in Claims, Verify(c, cl)
        PROVE  IInv'
    BY <2>3, VerifyInduction
  <2>4. ASSUME NEW c \in Calls, ReadNext(c)
        PROVE  IInv'
    BY <2>4, ReadInduction, ReturnInduction DEF ReadNext
  <2>5. CASE DeliverNext
    BY <2>5, CreationEventInduction, SubmissionEventInduction, CancelledEventInduction,
       EpochEventInduction DEF DeliverNext
  <2>6. CASE UNCHANGED vars
    BY <2>6, Stuttering
  <2>. QED
    BY <2>1, <2>2, <2>3, <2>4, <2>5, <2>6 DEF Next
<1>. QED
  BY <1>1, InitialInvariant, PTL DEF Spec

\* Every variable keeps the shape the code gives it; in particular the worker
\* params never exceed _workerParamArrayMaxSize (EthereumVerifier.js:627).
THEOREM TypeCorrect == Spec => []TypeOK
<1>1. IInv => TypeOK
  BY DEF IInv
<1>. QED
  BY <1>1, Invariance, PTL

\* The listener is installed before the read starts (verifyTaskCreation,
\* verifyTaskSubmission), so a call that the read leaves waiting hears the event
\* of whatever is mined after the subscription.
THEOREM EventsNotMissed == Spec => []NoMissedEvent
<1>1. IInv => NoMissedEvent
  <2>. SUFFICES ASSUME IInv PROVE NoMissedEvent
    OBVIOUS
  <2>1. ASSUME NEW c \in Creations, rd[c] = "done", answer[c] = "none"
        PROVE  /\ creates[TaskOf[c]].call = c
               /\ record[TaskOf[c]].created > since => Mailed({"create"}, TaskOf[c])
    BY <2>1 DEF IInv, CreationInv, CreationOK, Heard
  <2>2. ASSUME NEW t \in Tasks, submits[t].call # NoCall, rd[submits[t].call] = "done",
               record[t].receipt \in Receipts \ {"cancelled"}, record[t].at > since
        PROVE  Mailed({record[t].receipt}, t)
    <3>1. submits[t].call \in Calls
      BY <2>2, CallTypes DEF IInv, TypeOK
    <3>2. seen[submits[t].call] \in {"undefined", "created"}
      BY <2>2, <3>1 DEF IInv, CallInv, CallOK
    <3>. QED
      BY <2>2, <3>2 DEF IInv, SubmissionInv, SubmissionOK, Heard
  <2>. QED
    BY <2>1, <2>2 DEF NoMissedEvent
<1>. QED
  BY <1>1, Invariance, PTL

\* A call resolves with isVerified only on chain state that has its
\* confirmations and on content whose hashes match, whether the read or the
\* event came first.
THEOREM AnswersConfirmed == Spec => []VerifiedIsConfirmed
<1>1. IInv => VerifiedIsConfirmed
  BY DEF IInv, AnswersInv
<1>. QED
  BY <1>1, Invariance, PTL

\* _findWorkerParamForTask never finds an epoch that began after the task, so a
\* task is taken only if this worker was selected in an epoch before it: with
\* epoch events in any order, an array that init() overwrote, and a rotation
\* that compares text.
THEOREM TakenWhenSelected == Spec => []SelectedBeforeTask
<1>1. IInv => SelectedBeforeTask
  BY DEF IInv, AnswersInv
<1>. QED
  BY <1>1, Invariance, PTL
=============================================================================
