----------------------- MODULE CardActivation_proofs ------------------------
(***************************************************************************)
(* Proofs about CardActivation for every set of cards, devices and         *)
(* workers: types, waiting, and the seats of a card, how far activations   *)
(* that overlap can exceed its limit, why the unique index is never hit,   *)
(* and what a first activation leaves for good.                            *)
(***************************************************************************)
EXTENDS CardActivation, FiniteSetTheorems, TLAPS

-----------------------------------------------------------------------------
(***************************************************************************)
(* The types of what the handlers compute.                                 *)
(***************************************************************************)
LEMMA ComputeExpiryType ==
  ASSUME NEW type \in Types, NEW t \in Time
  PROVE  ComputeExpiry(type, t) \in Time \cup {None}
BY DEF ComputeExpiry, Days, Types, Time

LEMMA ReplyTypes ==
  ASSUME NEW c \in Cards, NEW d \in Devices, NEW v \in Verdicts,
         NEW op \in {"activate", "validate"}, NEW e \in Time \cup {None}
  PROVE  Attempt(c, d, v) \in LogRow /\ Answer(op, c, d, v, e) \in Reply
BY DEF Attempt, Answer, LogRow, Reply

LEMMA VerdictTypes ==
  ASSUME NEW c, NEW row \in CardRow, NEW d, NEW bound
  PROVE  /\ CardVerdict(c, row, d) \in Verdicts
         /\ BindVerdict(c, bound) \in Verdicts
         /\ ValidVerdict(row) \in Verdicts
BY DEF CardVerdict, BindVerdict, ValidVerdict, Verdicts, CardRow

LEMMA RowTypes ==
  ASSUME NEW row \in CardRow, NEW c \in Cards, NEW d \in Devices, NEW t \in Time
  PROVE  /\ Activated(c, row, d, t) \in CardRow
         /\ [row EXCEPT !.status = "DISABLED"] \in CardRow
         /\ [row EXCEPT !.status = "ACTIVE"] \in CardRow
         /\ [row EXCEPT !.status = "ACTIVE", !.expiresAt = ComputeExpiry(Type[c], t)] \in CardRow
<1>1. ComputeExpiry(Type[c], t) \in Time \cup {None}
  BY ComputeExpiryType, CardsAssumption
<1> QED BY <1>1 DEF Activated, CardRow

(***************************************************************************)
(* The types of transactions.                                              *)
(***************************************************************************)
TxOK == tx \in [Workers -> OpenTx \cup {Idle}]

LEMMA OpenTxType ==
  ASSUME TxOK, NEW w \in Workers, tx[w].pc # "idle"
  PROVE  tx[w] \in OpenTx
BY DEF TxOK, Idle

LEMMA OpenType ==
  ASSUME TypeOK, NEW w \in Workers, NEW step \in Steps, NEW op \in {"activate", "validate"},
         NEW c \in Cards, NEW d \in Devices, Open(w, step, op, c, d)
  PROVE  TxOK'
<1> DEFINE t == [pc |-> step, op |-> op, card |-> c, device |-> d,
                 row |-> card[c], fresh |-> FALSE, stamp |-> None]
<1>1. t \in OpenTx
  BY DEF TypeOK, OpenTx
<1>2. tx' = [tx EXCEPT ![w] = t]
  BY DEF Open
<1> HIDE DEF t
<1> QED BY <1>1, <1>2 DEF TypeOK, TxOK

LEMMA GotoType ==
  ASSUME TxOK, NEW w \in Workers, tx[w].pc # "idle", NEW s \in Steps, Goto(w, s)
  PROVE  TxOK'
<1>1. tx[w] \in OpenTx
  BY OpenTxType
<1>2. [tx[w] EXCEPT !.pc = s] \in OpenTx
  BY <1>1 DEF OpenTx
<1> QED BY <1>2 DEF TxOK, Goto

LEMMA CloseType ==
  ASSUME TxOK, NEW w \in Workers, Close(w)
  PROVE  TxOK'
BY DEF TxOK, Close

LEMMA AfterBindingType == ASSUME NEW w PROVE AfterBinding(w) \in Steps
BY DEF AfterBinding, Steps
-----------------------------------------------------------------------------
(***************************************************************************)
(* Type correctness.                                                       *)
(***************************************************************************)
LEMMA TypeOKInit == Init => TypeOK
BY CardsAssumption DEF Init, TypeOK, CardRow, NewCard, Time

LEMMA ActivateFindType ==
  ASSUME TypeOK, NEW w \in Workers, NEW c \in Cards, NEW d \in Devices, ActivateFind(w, c, d)
  PROVE  TypeOK'
<1>1. CardVerdict(c, card[c], d) \in Verdicts
  BY VerdictTypes DEF TypeOK
<1>2. CASE CardVerdict(c, card[c], d) # "OK"
  <2>1. Refuse(w, c, d, CardVerdict(c, card[c], d)) /\ UNCHANGED now
    BY <1>2 DEF ActivateFind
  <2>2. reply' \in Reply
    BY <1>1, <2>1, ReplyTypes DEF Refuse
  <2>3. TxOK'
    BY <2>1, CloseType DEF Refuse, TypeOK, TxOK
  <2> QED BY <2>1, <2>2, <2>3 DEF Refuse, TypeOK, TxOK
<1>3. CASE CardVerdict(c, card[c], d) = "OK"
  <2>1. Open(w, "upsert", "activate", c, d) /\ UNCHANGED <<card, devices, bindings, now>> /\ Silent
    BY <1>3 DEF ActivateFind
  <2>2. TxOK'
    BY <2>1, OpenType DEF Steps
  <2> QED BY <2>1, <2>2 DEF Silent, TypeOK, TxOK
<1> QED BY <1>2, <1>3

LEMMA ConcludeType ==
  ASSUME TypeOK, NEW w \in Workers, NEW c \in Cards, NEW d \in Devices, NEW v \in Verdicts,
         NEW row \in CardRow, Conclude(w, c, d, v, row), devices' \subseteq Devices
  PROVE  TypeOK'
<1>1. log' \in LogRow /\ reply' \in Reply
  BY ReplyTypes DEF Conclude, CardRow
<1>2. TxOK'
  BY CloseType DEF Conclude, TypeOK, TxOK
<1> QED BY <1>1, <1>2 DEF Conclude, TypeOK, TxOK

LEMMA ValidateFindType ==
  ASSUME TypeOK, NEW w \in Workers, NEW c \in Cards, NEW d \in Devices, ValidateFind(w, c, d)
  PROVE  TypeOK'
<1>1. ValidVerdict(card[c]) \in Verdicts /\ card[c] \in CardRow
  BY VerdictTypes DEF TypeOK
<1>2. CASE ValidVerdict(card[c]) = "CARD_NOT_FOUND"
  <2>1. /\ reply' = Answer("validate", c, d, "CARD_NOT_FOUND", None)
        /\ log' = None
        /\ UNCHANGED <<card, devices, bindings, tx, now>>
    BY <1>2 DEF ValidateFind
  <2> QED BY <1>1, <1>2, <2>1, ReplyTypes DEF TypeOK
<1>3. CASE ValidVerdict(card[c]) \notin {"OK", "CARD_NOT_FOUND"}
  <2>1. Conclude(w, c, d, ValidVerdict(card[c]), card[c]) /\ UNCHANGED devices
    BY <1>3 DEF ValidateFind
  <2> QED BY <1>1, <2>1, ConcludeType DEF TypeOK
<1>4. CASE ValidVerdict(card[c]) = "OK"
  <2> DEFINE s == IF Strategy[c] = "NONE" THEN "touch" ELSE "check"
  <2>1. Open(w, s, "validate", c, d) /\ UNCHANGED <<card, devices, bindings, now>> /\ Silent
    BY <1>4 DEF ValidateFind
  <2>2. s \in Steps
    BY DEF Steps
  <2>3. TxOK'
    BY <2>1, <2>2, OpenType
  <2> QED BY <2>1, <2>3 DEF Silent, TypeOK, TxOK
<1> QED BY <1>2, <1>3, <1>4

\* A statement that only moves its transaction on.
LEMMA QuietType ==
  ASSUME TypeOK, TxOK', UNCHANGED <<card, devices, bindings, now>>, Silent
  PROVE  TypeOK'
BY DEF TypeOK, TxOK, Silent

LEMMA ActivateBindingsType ==
  ASSUME TypeOK, NEW w \in Workers, ActivateBindings(w)
  PROVE  TypeOK'
<1> DEFINE c == tx[w].card
           d == tx[w].device
           v == BindVerdict(c, bindings[c])
<1>0. tx[w].pc # "idle" /\ tx[w] \in OpenTx /\ TxOK
  BY OpenTxType DEF ActivateBindings, TypeOK, TxOK
<1>1. CASE d \in bindings[c]
  BY <1>0, <1>1, GotoType, AfterBindingType, QuietType DEF ActivateBindings
<1>2. CASE d \notin bindings[c] /\ v = "OK"
  <2>1. tx' = [tx EXCEPT ![w].pc = "insert", ![w].fresh = TRUE]
    BY <1>2 DEF ActivateBindings
  <2>2. [tx[w] EXCEPT !.pc = "insert", !.fresh = TRUE] \in OpenTx
    BY <1>0 DEF OpenTx, Steps
  <2>3. TxOK'
    BY <1>0, <2>1, <2>2 DEF TxOK
  <2> QED BY <1>2, <2>3, QuietType DEF ActivateBindings
<1>3. CASE d \notin bindings[c] /\ v # "OK"
  <2>1. Refuse(w, c, d, v) /\ UNCHANGED now
    BY <1>3 DEF ActivateBindings
  <2>2. c \in Cards /\ d \in Devices
    BY <1>0 DEF OpenTx
  <2>3. v \in Verdicts
    BY DEF BindVerdict, Verdicts
  <2>4. reply' \in Reply
    BY <2>1, <2>2, <2>3, ReplyTypes DEF Refuse
  <2>5. TxOK'
    BY <1>0, <2>1, CloseType DEF Refuse
  <2> QED BY <2>1, <2>4, <2>5 DEF Refuse, TypeOK, TxOK
<1> QED BY <1>1, <1>2, <1>3

LEMMA ActivateStampType ==
  ASSUME TypeOK, NEW w \in Workers, ActivateStamp(w)
  PROVE  TypeOK'
<1>1. tx[w] \in OpenTx /\ TxOK
  BY OpenTxType DEF ActivateStamp, TypeOK, TxOK
<1>2. tx' = [tx EXCEPT ![w].pc = "update", ![w].stamp = now]
  BY DEF ActivateStamp
<1>3. [tx[w] EXCEPT !.pc = "update", !.stamp = now] \in OpenTx
  BY <1>1 DEF OpenTx, Steps, TypeOK
<1>4. TxOK'
  BY <1>1, <1>2, <1>3 DEF TxOK
<1> QED BY <1>4, QuietType DEF ActivateStamp

LEMMA ActivateCommitType ==
  ASSUME TypeOK, NEW w \in Workers, ActivateCommit(w)
  PROVE  TypeOK'
<1> DEFINE c == tx[w].card
           d == tx[w].device
           t == tx[w].stamp
<1>1. tx[w] \in OpenTx /\ TxOK
  BY OpenTxType DEF ActivateCommit, TypeOK, TxOK
<1>2. c \in Cards /\ d \in Devices /\ t \in Time \cup {None}
  BY <1>1 DEF OpenTx
<1>3. card' \in [Cards -> CardRow]
  <2>1. t # None => Activated(c, card[c], d, t) \in CardRow
    BY <1>2, RowTypes DEF TypeOK
  <2>2. card' = [card EXCEPT ![c] = IF t # None THEN Activated(c, card[c], d, t) ELSE card[c]]
    BY DEF ActivateCommit
  <2> QED BY <2>1, <2>2 DEF TypeOK
<1>4. devices' \subseteq Devices /\ bindings' \in [Cards -> SUBSET Devices]
  BY <1>2 DEF ActivateCommit, TypeOK
<1>5. log' \in LogRow
  BY <1>2, ReplyTypes DEF ActivateCommit, Verdicts
<1>6. reply' \in Reply
  <2> DEFINE e == IF t # None THEN ComputeExpiry(Type[c], t) ELSE tx[w].row.expiresAt
  <2>1. t # None => ComputeExpiry(Type[c], t) \in Time \cup {None}
    BY <1>2, ComputeExpiryType, CardsAssumption
  <2>2. tx[w].row.expiresAt \in Time \cup {None}
    BY <1>1 DEF OpenTx, CardRow
  <2>3. e \in Time \cup {None}
    BY <2>1, <2>2
  <2>4. reply' = Answer("activate", c, d, "OK", e)
    BY DEF ActivateCommit
  <2> HIDE DEF e
  <2> QED BY <1>2, <2>3, <2>4, ReplyTypes DEF Verdicts
<1>7. TxOK'
  BY <1>1, CloseType DEF ActivateCommit
<1> QED BY <1>3, <1>4, <1>5, <1>6, <1>7 DEF ActivateCommit, TypeOK, TxOK

LEMMA ValidateType ==
  ASSUME TypeOK, NEW w \in Workers, ValidateCheck(w) \/ ValidateTouch(w)
  PROVE  TypeOK'
<1>1. tx[w].pc # "idle" /\ tx[w] \in OpenTx /\ TxOK
  BY OpenTxType DEF ValidateCheck, ValidateTouch, TypeOK, TxOK
<1>2. tx[w].card \in Cards /\ tx[w].device \in Devices /\ tx[w].row \in CardRow
  BY <1>1 DEF OpenTx
<1>3. ASSUME NEW v \in Verdicts, Conclude(w, tx[w].card, tx[w].device, v, tx[w].row),
             devices' \subseteq Devices
      PROVE  TypeOK'
  BY <1>2, <1>3, ConcludeType
<1>4. CASE ValidateTouch(w)
  BY <1>2, <1>3, <1>4 DEF ValidateTouch, Verdicts, TypeOK
<1>5. CASE ValidateCheck(w)
  <2>1. CASE Goto(w, "touch") /\ UNCHANGED <<card, devices, bindings, now>> /\ Silent
    BY <1>1, <2>1, GotoType, QuietType DEF Steps
  <2>2. ASSUME NEW v \in {"OK", "DEVICE_NOT_BOUND"},
               Conclude(w, tx[w].card, tx[w].device, v, tx[w].row), UNCHANGED devices
        PROVE  TypeOK'
    BY <1>3, <2>2 DEF Verdicts, TypeOK
  <2> QED BY <1>5, <2>1, <2>2 DEF ValidateCheck
<1> QED BY <1>4, <1>5

LEMMA StatementType ==
  ASSUME TypeOK, NEW w \in Workers, Statement(w)
  PROVE  TypeOK'
<1>1. TxOK
  BY DEF TypeOK, TxOK
<1>2. CASE ActivateUpsert(w)
  BY <1>1, <1>2, GotoType, QuietType DEF ActivateUpsert, Steps
<1>3. CASE ActivateInsert(w)
  BY <1>1, <1>3, GotoType, AfterBindingType, QuietType DEF ActivateInsert
<1>4. CASE ActivateUpdate(w)
  BY <1>1, <1>4, GotoType, QuietType DEF ActivateUpdate, Steps
<1> QED
  BY <1>2, <1>3, <1>4, ActivateBindingsType, ActivateStampType, ActivateCommitType, ValidateType
  DEF Statement

LEMMA ConsoleType ==
  ASSUME TypeOK, Console
  PROVE  TypeOK'
<1>1. ASSUME NEW c \in Cards, Generate(c) \/ Disable(c) \/ Enable(c)
      PROVE  TypeOK'
  <2>1. ComputeExpiry(Type[c], now) \in Time \cup {None}
    BY ComputeExpiryType, CardsAssumption DEF TypeOK
  <2>2. card'[c] \in CardRow /\ card' = [card EXCEPT ![c] = card'[c]]
    BY <1>1, <2>1 DEF Generate, Disable, Enable, TypeOK, CardRow
  <2> QED BY <1>1, <2>2 DEF Generate, Disable, Enable, Silent, TypeOK
<1>2. ASSUME NEW c \in Cards, NEW d \in Devices, UnbindDevice(c, d)
      PROVE  TypeOK'
  BY <1>2 DEF UnbindDevice, Silent, TypeOK
<1>3. ASSUME NEW d \in Devices, UnbindAll(d)
      PROVE  TypeOK'
  BY <1>3 DEF UnbindAll, Silent, TypeOK
<1> QED BY <1>1, <1>2, <1>3 DEF Console

LEMMA TypeOKStep == TypeOK /\ [Next]_vars => TypeOK'
<1> SUFFICES ASSUME TypeOK, [Next]_vars PROVE TypeOK'
  OBVIOUS
<1>1. ASSUME NEW w \in Workers, Abort(w) PROVE TypeOK'
  BY <1>1, CloseType, QuietType DEF Abort, TypeOK, TxOK
<1>2. ASSUME NEW op \in {"activate", "validate"}, NEW c \in Cards, NEW d \in Devices,
             RejectFormat(op, c, d)
      PROVE  TypeOK'
  BY <1>2, ReplyTypes DEF RejectFormat, Verdicts, TypeOK
<1>3. CASE Tick
  BY <1>3 DEF Tick, Silent, TypeOK, Time
<1>4. CASE UNCHANGED vars
  BY <1>4 DEF vars, TypeOK
<1> QED
  BY <1>1, <1>2, <1>3, <1>4, ActivateFindType, ValidateFindType, StatementType, ConsoleType
  DEF Next

\* Every variable keeps its type: rows, transactions, log rows and answers are
\* what the handlers of SdkService build them to be.
THEOREM TypeCorrect == Spec => []TypeOK
BY TypeOKInit, TypeOKStep, PTL DEF Spec
-----------------------------------------------------------------------------

\* Whatever transactions are open together, no set of them waits for each other's
\* rows for ever: one that waits for a card's row waits for a transaction about to
\* commit, and one that waits for a device's row holds none.
THEOREM NobodyWaitsInACircle == Spec => []NoDeadlock
<1>1. NoDeadlock
  <2> SUFFICES ASSUME NEW S \in SUBSET Workers, S # {}
               PROVE  \E w \in S : \A v \in S : ~WaitsFor(w, v)
    BY DEF NoDeadlock
  <2>1. CASE \E w \in S : tx[w].pc \notin {"upsert", "touch", "update"}
    BY <2>1 DEF WaitsFor
  <2>2. CASE \E w \in S : tx[w].pc = "update" /\ \A v \in S : tx[v].pc \in {"upsert", "touch", "update"}
    BY <2>2 DEF WaitsFor, HoldsCard
  <2>3. CASE \A v \in S : tx[v].pc \in {"upsert", "touch"}
    BY <2>3 DEF WaitsFor, HoldsDevice
  <2> QED BY <2>1, <2>2, <2>3
<1> QED BY <1>1, PTL

-----------------------------------------------------------------------------
(***************************************************************************)
(* The course of one transaction.                                          *)
(***************************************************************************)
\* From step 5 on an activation holds its device's row.
Holding == {"bindings", "insert", "stamp", "update", "commit"}
\* From step 8 on its device is bound, as far as it knows.
Settled == {"stamp", "update", "commit"}

\* What a transaction t has done, told from where it is: only one that read an
\* unactivated row writes the card, and a binding is new from step 6 on.
Sound(t) ==
  /\ t.fresh => t.pc \in Holding \ {"bindings"}
  /\ t.pc = "insert" => t.fresh
  /\ t.pc \in {"stamp", "update"} => t.row.activatedAt = None
  /\ t.pc = "update" => t.stamp # None
  /\ t.stamp # None => t.row.activatedAt = None
  /\ t.pc = "commit" /\ t.stamp = None => t.row.activatedAt # None

TxSound == \A w \in Workers : tx[w].pc # "idle" => Sound(tx[w])

\* Worker w opens transaction t.
Opens(w, t) ==
  /\ tx[w] = Idle
  /\ t \in OpenTx /\ t.pc \notin Holding /\ ~t.fresh /\ Sound(t)
  /\ t.row = card[t.card] /\ t.row.status # "NEW"

\* Worker w goes on to state t of the transaction it has open.
Advances(w, t) ==
  /\ tx[w].pc # "idle" /\ tx[w] \in OpenTx
  /\ t \in OpenTx /\ Sound(t)
  /\ t.card = tx[w].card /\ t.device = tx[w].device /\ t.row = tx[w].row
  /\ t.pc \in Holding /\ tx[w].pc \notin Holding => DeviceRowFree(w, t.device)
  /\ tx[w].fresh => t.fresh
  /\ t.fresh /\ ~tx[w].fresh =>
       /\ tx[w].pc \in Holding
       /\ t.device \notin bindings[t.card]
       /\ BindVerdict(t.card, bindings[t.card]) = "OK"
  /\ t.pc \in Settled /\ ~t.fresh => tx[w].pc \in Settled \/ t.device \in bindings[t.card]

\* A step as a transaction sees it: nothing happens to it, it ends, or it is
\* opened or advanced by a statement that commits nothing.
Course ==
  \/ UNCHANGED tx
  \/ \E w \in Workers : tx' = [tx EXCEPT ![w] = Idle]
  \/ \E w \in Workers, t \in OpenTx :
       /\ tx' = [tx EXCEPT ![w] = t]
       /\ Opens(w, t) \/ Advances(w, t)
       /\ UNCHANGED <<card, bindings>>

LEMMA OpenCourse ==
  ASSUME TypeOK, NEW w \in Workers, tx[w] = Idle, NEW step \in {"upsert", "check", "touch"},
         NEW op \in {"activate", "validate"}, NEW c \in Cards, NEW d \in Devices,
         card[c].status # "NEW", Open(w, step, op, c, d), UNCHANGED <<card, bindings>>
  PROVE  Course
<1> DEFINE t == [pc |-> step, op |-> op, card |-> c, device |-> d,
                 row |-> card[c], fresh |-> FALSE, stamp |-> None]
<1>1. t \in OpenTx
  BY DEF TypeOK, OpenTx, Steps
<1>2. Sound(t)
  BY DEF Sound
<1>3. t.pc \notin Holding /\ ~t.fresh /\ t.row = card[t.card] /\ t.row.status # "NEW"
  BY DEF Holding
<1>4. tx' = [tx EXCEPT ![w] = t]
  BY DEF Open
<1> HIDE DEF t
<1> QED BY <1>1, <1>2, <1>3, <1>4 DEF Course, Opens

LEMMA FindCourse ==
  ASSUME TypeOK, NEW w \in Workers, NEW c \in Cards, NEW d \in Devices,
         ActivateFind(w, c, d) \/ ValidateFind(w, c, d)
  PROVE  Course
<1>1. CASE ActivateFind(w, c, d)
  <2>1. CASE CardVerdict(c, card[c], d) # "OK"
    BY <1>1, <2>1 DEF ActivateFind, Refuse, Close, Course
  <2>2. CASE CardVerdict(c, card[c], d) = "OK"
    <3>1. card[c].status # "NEW"
      BY <2>2 DEF CardVerdict
    <3> QED BY <1>1, <2>2, <3>1, OpenCourse DEF ActivateFind
  <2> QED BY <2>1, <2>2
<1>2. CASE ValidateFind(w, c, d)
  <2>1. CASE ValidVerdict(card[c]) # "OK"
    BY <1>2, <2>1 DEF ValidateFind, Conclude, Close, Course
  <2>2. CASE ValidVerdict(card[c]) = "OK"
    <3>1. card[c].status # "NEW"
      BY <2>2 DEF ValidVerdict
    <3>2. Open(w, IF Strategy[c] = "NONE" THEN "touch" ELSE "check", "validate", c, d)
      BY <1>2, <2>2 DEF ValidateFind
    <3> QED BY <1>2, <2>2, <3>1, <3>2, OpenCourse DEF ValidateFind
  <2> QED BY <2>1, <2>2
<1> QED BY <1>1, <1>2

\* The statements of one transaction that commit nothing.
LEMMA AdvanceCourse ==
  ASSUME TypeOK, NEW w \in Workers, NEW t,
         tx' = [tx EXCEPT ![w] = t], Advances(w, t), UNCHANGED <<card, bindings>>
  PROVE  Course
BY DEF Course, Advances

LEMMA GotoAdvances ==
  ASSUME TypeOK, NEW w \in Workers, tx[w].pc # "idle", NEW s \in Steps, Goto(w, s),
         Sound([tx[w] EXCEPT !.pc = s]), UNCHANGED <<card, bindings>>,
         s \in Holding /\ tx[w].pc \notin Holding => DeviceRowFree(w, tx[w].device),
         s \in Settled /\ ~tx[w].fresh =>
           tx[w].pc \in Settled \/ tx[w].device \in bindings[tx[w].card]
  PROVE  Course
<1> DEFINE t == [tx[w] EXCEPT !.pc = s]
<1>1. tx[w] \in OpenTx
  BY OpenTxType DEF TypeOK, TxOK
<1>2. /\ t \in OpenTx /\ t.card = tx[w].card /\ t.device = tx[w].device
      /\ t.row = tx[w].row /\ t.fresh = tx[w].fresh /\ t.pc = s
  BY <1>1 DEF OpenTx
<1>3. tx' = [tx EXCEPT ![w] = t]
  BY DEF Goto
<1> HIDE DEF t
<1>4. Advances(w, t)
  BY <1>1, <1>2 DEF Advances, t
<1> QED BY <1>3, <1>4, AdvanceCourse

LEMMA StatementCourse ==
  ASSUME TypeOK, TxSound, NEW w \in Workers, Statement(w)
  PROVE  Course
<1>1. tx[w].pc # "idle" /\ tx[w] \in OpenTx /\ Sound(tx[w])
  BY OpenTxType DEF Statement, ActivateUpsert, ActivateBindings, ActivateInsert, ActivateStamp,
     ActivateUpdate, ActivateCommit, ValidateCheck, ValidateTouch, TypeOK, TxOK, TxSound
<1>2. CASE ActivateUpsert(w)
  <2>1. Sound([tx[w] EXCEPT !.pc = "bindings"])
    BY <1>1, <1>2 DEF ActivateUpsert, Sound, OpenTx, Holding
  <2> QED BY <1>1, <1>2, <2>1, GotoAdvances DEF ActivateUpsert, Steps, Settled
<1>3. CASE ActivateBindings(w)
  <2> DEFINE c == tx[w].card
             d == tx[w].device
             v == BindVerdict(c, bindings[c])
  <2>1. CASE d \in bindings[c]
    <3>1. Sound([tx[w] EXCEPT !.pc = AfterBinding(w)])
      BY <1>1, <1>3 DEF ActivateBindings, AfterBinding, Sound, OpenTx, Holding
    <3> QED BY <1>1, <1>3, <2>1, <3>1, GotoAdvances, AfterBindingType
            DEF ActivateBindings, Holding
  <2>2. CASE d \notin bindings[c] /\ v # "OK"
    BY <1>3, <2>2 DEF ActivateBindings, Refuse, Close, Course
  <2>3. CASE d \notin bindings[c] /\ v = "OK"
    <3> DEFINE t == [tx[w] EXCEPT !.pc = "insert", !.fresh = TRUE]
    <3>1. tx' = [tx EXCEPT ![w] = t] /\ UNCHANGED <<card, bindings>>
      BY <1>3, <2>3 DEF ActivateBindings
    <3>2. t \in OpenTx /\ t.card = c /\ t.device = d /\ t.row = tx[w].row /\ t.fresh
      BY <1>1 DEF OpenTx, Steps
    <3>3. Sound(t)
      BY <1>1, <1>3 DEF ActivateBindings, Sound, OpenTx, Holding
    <3>4. tx[w].pc \in Holding
      BY <1>3 DEF ActivateBindings, Holding
    <3> HIDE DEF t
    <3>5. Advances(w, t)
      BY <1>1, <2>3, <3>2, <3>3, <3>4 DEF Advances
    <3> QED BY <3>1, <3>5, AdvanceCourse
  <2> QED BY <2>1, <2>2, <2>3
<1>4. CASE ActivateInsert(w)
  <2>1. Sound([tx[w] EXCEPT !.pc = AfterBinding(w)])
    BY <1>1, <1>4 DEF ActivateInsert, AfterBinding, Sound, OpenTx, Holding
  <2>2. tx[w].fresh
    BY <1>1, <1>4 DEF ActivateInsert, Sound
  <2> QED BY <1>1, <1>4, <2>1, <2>2, GotoAdvances, AfterBindingType DEF ActivateInsert, Holding
<1>5. CASE ActivateStamp(w)
  <2> DEFINE t == [tx[w] EXCEPT !.pc = "update", !.stamp = now]
  <2>1. tx' = [tx EXCEPT ![w] = t] /\ UNCHANGED <<card, bindings>>
    BY <1>5 DEF ActivateStamp
  <2>2. /\ t \in OpenTx /\ t.card = tx[w].card /\ t.device = tx[w].device
        /\ t.row = tx[w].row /\ t.fresh = tx[w].fresh
    BY <1>1 DEF OpenTx, Steps, TypeOK
  <2>3. now # None
    BY NoneAssumption DEF TypeOK, Time
  <2>4. Sound(t)
    BY <1>1, <1>5, <2>3 DEF ActivateStamp, Sound, OpenTx, Holding
  <2>5. tx[w].pc \in Holding /\ tx[w].pc \in Settled
    BY <1>5 DEF ActivateStamp, Holding, Settled
  <2> HIDE DEF t
  <2>6. Advances(w, t)
    BY <1>1, <2>2, <2>4, <2>5 DEF Advances
  <2> QED BY <2>1, <2>6, AdvanceCourse
<1>6. CASE ActivateUpdate(w)
  <2>1. Sound([tx[w] EXCEPT !.pc = "commit"])
    BY <1>1, <1>6 DEF ActivateUpdate, Sound, OpenTx, Holding
  <2> QED BY <1>1, <1>6, <2>1, GotoAdvances DEF ActivateUpdate, Steps, Holding, Settled
<1>7. CASE ActivateCommit(w)
  BY <1>7 DEF ActivateCommit, Close, Course
<1>8. CASE ValidateTouch(w)
  BY <1>8 DEF ValidateTouch, Conclude, Close, Course
<1>9. CASE ValidateCheck(w)
  <2>1. CASE Goto(w, "touch") /\ UNCHANGED <<card, bindings>>
    <3>1. Sound([tx[w] EXCEPT !.pc = "touch"])
      BY <1>1, <1>9 DEF ValidateCheck, Sound, OpenTx, Holding
    <3> QED BY <1>1, <2>1, <3>1, GotoAdvances DEF Steps, Holding, Settled
  <2>2. CASE Close(w)
    BY <2>2 DEF Close, Course
  <2> QED BY <1>9, <2>1, <2>2 DEF ValidateCheck, Conclude
<1> QED BY <1>2, <1>3, <1>4, <1>5, <1>6, <1>7, <1>8, <1>9 DEF Statement

LEMMA EveryCourse ==
  ASSUME TypeOK, TxSound, [Next]_vars
  PROVE  Course
<1>1. ASSUME NEW w \in Workers, Abort(w) PROVE Course
  BY <1>1 DEF Abort, Close, Course
<1>2. ASSUME NEW op \in {"activate", "validate"}, NEW c \in Cards, NEW d \in Devices,
             RejectFormat(op, c, d)
      PROVE  Course
  BY <1>2 DEF RejectFormat, Course
<1>3. CASE Console \/ Tick \/ UNCHANGED vars
  BY <1>3 DEF Console, Generate, Disable, Enable, UnbindDevice, UnbindAll, Tick, vars, Course
<1> QED BY <1>1, <1>2, <1>3, FindCourse, StatementCourse DEF Next

LEMMA TxSoundInit == Init => TxSound
BY DEF Init, TxSound, Idle

LEMMA TxSoundStep ==
  ASSUME TypeOK, TxSound, [Next]_vars
  PROVE  TxSound'
BY EveryCourse DEF Course, Opens, Advances, TxSound, TypeOK, Idle
-----------------------------------------------------------------------------
(***************************************************************************)
(* What happens to the bindings: a commit of an activation adds one,       *)
(* everything else keeps or removes some.                                  *)
(***************************************************************************)
Shrinks == \A c \in Cards : bindings'[c] \subseteq bindings[c]

LEMMA BindingsChange ==
  ASSUME TypeOK, [Next]_vars
  PROVE  Shrinks \/ \E w \in Workers : ActivateCommit(w)
<1>1. CASE UNCHANGED bindings
  BY <1>1 DEF Shrinks
<1>2. ASSUME NEW w \in Workers, NEW c \in Cards, NEW d \in Devices,
             ActivateFind(w, c, d) \/ ValidateFind(w, c, d)
      PROVE  UNCHANGED bindings
  BY <1>2 DEF ActivateFind, ValidateFind, Refuse, Conclude
<1>3. ASSUME NEW w \in Workers, Statement(w), ~ActivateCommit(w)
      PROVE  UNCHANGED bindings
  BY <1>3 DEF Statement, ActivateUpsert, ActivateBindings, ActivateInsert, ActivateStamp,
     ActivateUpdate, ValidateCheck, ValidateTouch, Refuse, Conclude
<1>4. CASE Console
  <2>1. ASSUME NEW c \in Cards, Generate(c) \/ Disable(c) \/ Enable(c) PROVE Shrinks
    BY <2>1 DEF Generate, Disable, Enable, Shrinks
  <2>2. ASSUME NEW c \in Cards, NEW d \in Devices, UnbindDevice(c, d) PROVE Shrinks
    BY <2>2 DEF UnbindDevice, Shrinks, TypeOK
  <2>3. ASSUME NEW d \in Devices, UnbindAll(d) PROVE Shrinks
    BY <2>3 DEF UnbindAll, Shrinks
  <2> QED BY <1>4, <2>1, <2>2, <2>3 DEF Console
<1> QED BY <1>1, <1>2, <1>3, <1>4 DEF Next, Abort, RejectFormat, Tick, vars

-----------------------------------------------------------------------------
(***************************************************************************)
(* The unique index.                                                       *)
(***************************************************************************)
\* A device's row has one holder.
Exclusive ==
  \A w, v \in Workers, d \in Devices : HoldsDevice(w, d) /\ HoldsDevice(v, d) => w = v

IndexInv == TypeOK /\ TxSound /\ Exclusive /\ UniqueIndexNeverHit

LEMMA ExclusiveStep ==
  ASSUME TypeOK, TxSound, Exclusive, [Next]_vars
  PROVE  Exclusive'
<1> SUFFICES ASSUME NEW w \in Workers, NEW v \in Workers, NEW d \in Devices,
                    HoldsDevice(w, d)', HoldsDevice(v, d)', w # v
             PROVE  FALSE
  BY DEF Exclusive
<1>1. CASE UNCHANGED tx
  BY <1>1 DEF Exclusive, HoldsDevice
<1>2. ASSUME NEW u \in Workers, tx' = [tx EXCEPT ![u] = Idle] PROVE FALSE
  BY <1>2 DEF Exclusive, HoldsDevice, TypeOK, Idle
<1>3. ASSUME NEW u \in Workers, NEW t \in OpenTx, tx' = [tx EXCEPT ![u] = t],
             Opens(u, t) \/ Advances(u, t)
      PROVE  FALSE
  <2>1. tx'[u] = t /\ \A x \in Workers \ {u} : tx'[x] = tx[x]
    BY <1>3 DEF TypeOK
  <2>2. u = w \/ u = v
    BY <2>1 DEF Exclusive, HoldsDevice
  <2>3. PICK x \in Workers \ {u} : {u, x} = {w, v}
    BY <2>2
  <2>4. t.pc \in Holding /\ t.device = d /\ HoldsDevice(x, d)
    BY <2>1, <2>3 DEF HoldsDevice, Holding
  <2>5. Advances(u, t)
    BY <1>3, <2>4 DEF Opens
  <2>6. CASE tx[u].pc \in Holding
    BY <2>3, <2>4, <2>5, <2>6 DEF Advances, Exclusive, HoldsDevice, Holding
  <2>7. CASE tx[u].pc \notin Holding
    BY <2>3, <2>4, <2>5, <2>7 DEF Advances, DeviceRowFree
  <2> QED BY <2>6, <2>7
<1> QED BY <1>1, <1>2, <1>3, EveryCourse DEF Course

LEMMA IndexStep ==
  ASSUME IndexInv, [Next]_vars
  PROVE  UniqueIndexNeverHit'
<1> SUFFICES ASSUME NEW w \in Workers, tx'[w].pc # "idle", tx'[w].fresh
             PROVE  tx'[w].device \notin bindings'[tx'[w].card]
  BY DEF UniqueIndexNeverHit
<1>1. ASSUME NEW v \in Workers, ActivateCommit(v)
      PROVE  tx'[w].device \notin bindings'[tx'[w].card]
  <2>1. w # v /\ tx'[w] = tx[w]
    BY <1>1 DEF ActivateCommit, Close, Idle, IndexInv, TypeOK
  <2>2. tx[w].device \notin bindings[tx[w].card] /\ HoldsDevice(w, tx[w].device)
    BY <2>1 DEF IndexInv, UniqueIndexNeverHit, TxSound, Sound, HoldsDevice, Holding
  <2>3. tx[w] \in OpenTx /\ tx[w].device \in Devices /\ tx[w].card \in Cards
    BY <2>1, OpenTxType DEF IndexInv, TypeOK, TxOK, OpenTx
  <2>4. HoldsDevice(v, tx[v].device)
    BY <1>1 DEF ActivateCommit, HoldsDevice
  <2>5. tx[w].device # tx[v].device
    BY <2>1, <2>2, <2>3, <2>4 DEF IndexInv, Exclusive
  <2>6. bindings'[tx[w].card] \subseteq bindings[tx[w].card] \cup {tx[v].device}
    BY <1>1, <2>3 DEF ActivateCommit, IndexInv, TypeOK
  <2> QED BY <2>1, <2>2, <2>5, <2>6
<1>2. CASE Shrinks
  <2>1. CASE UNCHANGED tx
    <3>1. tx[w] \in OpenTx /\ tx[w].card \in Cards
      BY <2>1, OpenTxType DEF IndexInv, TypeOK, TxOK, OpenTx
    <3> QED BY <1>2, <2>1, <3>1 DEF IndexInv, UniqueIndexNeverHit, Shrinks
  <2>2. ASSUME NEW u \in Workers, tx' = [tx EXCEPT ![u] = Idle]
        PROVE  tx'[w].device \notin bindings'[tx'[w].card]
    <3>1. tx'[w] = tx[w]
      BY <2>2 DEF Idle, IndexInv, TypeOK
    <3>2. tx[w] \in OpenTx /\ tx[w].card \in Cards
      BY <3>1, OpenTxType DEF IndexInv, TypeOK, TxOK, OpenTx
    <3> QED BY <1>2, <3>1, <3>2 DEF IndexInv, UniqueIndexNeverHit, Shrinks
  <2>3. ASSUME NEW u \in Workers, NEW t \in OpenTx, tx' = [tx EXCEPT ![u] = t],
               Opens(u, t) \/ Advances(u, t), UNCHANGED bindings
        PROVE  tx'[w].device \notin bindings'[tx'[w].card]
    <3>1. CASE w # u
      BY <2>3, <3>1 DEF IndexInv, UniqueIndexNeverHit, TypeOK
    <3>2. CASE w = u
      <4>1. tx'[w] = t /\ Advances(u, t)
        BY <2>3, <3>2 DEF Opens, IndexInv, TypeOK
      <4> QED BY <2>3, <3>2, <4>1 DEF Advances, IndexInv, UniqueIndexNeverHit
    <3> QED BY <3>1, <3>2
  <2> QED BY <2>1, <2>2, <2>3, EveryCourse DEF IndexInv, Course
<1> QED BY <1>1, <1>2, BindingsChange DEF IndexInv

\* The unique index on (cardKeyId, deviceId) is never hit, for any number of
\* requests: whoever is about to insert a binding holds the row of its device,
\* which has one holder, so no other activation commits that binding.
THEOREM IndexNeverHit == Spec => []UniqueIndexNeverHit
<1>1. Init => IndexInv
  <2>1. Init => Exclusive /\ UniqueIndexNeverHit
    BY DEF Init, Exclusive, UniqueIndexNeverHit, HoldsDevice, Idle
  <2> QED BY <2>1, TypeOKInit, TxSoundInit DEF IndexInv
<1>2. IndexInv /\ [Next]_vars => IndexInv'
  BY TypeOKStep, TxSoundStep, ExclusiveStep, IndexStep DEF IndexInv
<1>3. IndexInv => UniqueIndexNeverHit
  BY DEF IndexInv
<1> QED BY <1>1, <1>2, <1>3, PTL DEF Spec
-----------------------------------------------------------------------------
(***************************************************************************)
(* The seats.                                                              *)
(***************************************************************************)
\* The open activations that are to bind, or have bound, a new device to c.
Fresh(c) == {w \in Workers : tx[w].pc # "idle" /\ tx[w].card = c /\ tx[w].fresh}

\* An activation that is open counts like the seat it will take: one of them
\* saw a free seat, and beside it all other workers may have seen the same one.
SeatsCounted ==
  \A c \in Cards : Strategy[c] # "NONE" =>
    Cardinality(bindings[c]) + Cardinality(Fresh(c)) <= Limit(c) + Cardinality(Workers) - 1

SeatInv == TypeOK /\ TxSound /\ SeatsCounted

LEMMA Counts ==
  ASSUME TypeOK, NEW c \in Cards
  PROVE  /\ IsFiniteSet(bindings[c]) /\ Cardinality(bindings[c]) \in Nat
         /\ IsFiniteSet(Fresh(c)) /\ Cardinality(Fresh(c)) \in Nat
         /\ Cardinality(Fresh(c)) <= Cardinality(Workers) /\ Cardinality(Workers) \in Nat
         /\ Limit(c) \in Nat \ {0}
<1>1. bindings[c] \subseteq Devices /\ Fresh(c) \subseteq Workers
  BY DEF TypeOK, Fresh
<1>2. Limit(c) \in Nat \ {0}
  BY CardsAssumption DEF Limit
<1> QED BY <1>1, <1>2, FiniteAssumption, FS_Subset, FS_CardinalityType

LEMMA SeatsCountedInit == Init => SeatsCounted
<1> SUFFICES ASSUME Init, NEW c \in Cards
             PROVE  Cardinality(bindings[c]) + Cardinality(Fresh(c))
                      <= Limit(c) + Cardinality(Workers) - 1
  BY DEF SeatsCounted
<1>1. bindings[c] = {} /\ Fresh(c) = {}
  BY DEF Init, Fresh, Idle
<1> QED BY <1>1, Counts, TypeOKInit, FS_EmptySet

\* Neither a binding nor an activation about to bind is added.
LEMMA SeatsShrink ==
  ASSUME TypeOK, TypeOK', SeatsCounted, Shrinks,
         \A c \in Cards : Fresh(c)' \subseteq Fresh(c)
  PROVE  SeatsCounted'
<1> SUFFICES ASSUME NEW c \in Cards, Strategy[c] # "NONE"
             PROVE  Cardinality(bindings'[c]) + Cardinality(Fresh(c)')
                      <= Limit(c) + Cardinality(Workers) - 1
  BY DEF SeatsCounted, Limit
<1>1. /\ Cardinality(bindings'[c]) <= Cardinality(bindings[c])
      /\ Cardinality(Fresh(c)') <= Cardinality(Fresh(c))
      /\ Cardinality(bindings'[c]) \in Nat /\ Cardinality(Fresh(c)') \in Nat
  BY Counts, FS_Subset, FS_CardinalityType DEF Shrinks
<1>2. Cardinality(bindings[c]) + Cardinality(Fresh(c)) <= Limit(c) + Cardinality(Workers) - 1
  BY DEF SeatsCounted
<1> QED BY <1>1, <1>2, Counts

LEMMA CommitSeats ==
  ASSUME SeatInv, TypeOK', NEW w \in Workers, ActivateCommit(w)
  PROVE  SeatsCounted'
<1>0. tx[w] \in OpenTx /\ tx[w].pc # "idle" /\ tx' = [tx EXCEPT ![w] = Idle]
  BY OpenTxType DEF ActivateCommit, Close, SeatInv, TypeOK, TxOK
<1>1. \A c \in Cards : Fresh(c)' = Fresh(c) \ {w}
  BY <1>0 DEF Fresh, Idle, SeatInv, TypeOK
<1>2. CASE ~tx[w].fresh
  <2>1. Shrinks
    BY <1>2 DEF ActivateCommit, Shrinks, SeatInv, TypeOK
  <2> QED BY <1>1, <2>1, SeatsShrink DEF SeatInv
<1>3. CASE tx[w].fresh
  <2> SUFFICES ASSUME NEW c \in Cards, Strategy[c] # "NONE"
               PROVE  Cardinality(bindings'[c]) + Cardinality(Fresh(c)')
                        <= Limit(c) + Cardinality(Workers) - 1
    BY DEF SeatsCounted, Limit
  <2>1. Cardinality(bindings[c]) + Cardinality(Fresh(c)) <= Limit(c) + Cardinality(Workers) - 1
    BY DEF SeatInv, SeatsCounted
  <2>2. CASE c # tx[w].card
    <3>1. bindings'[c] = bindings[c] /\ Fresh(c)' = Fresh(c)
      BY <1>0, <1>1, <2>2 DEF ActivateCommit, Fresh, SeatInv, TypeOK
    <3> QED BY <2>1, <3>1
  <2>3. CASE c = tx[w].card
    <3>1. bindings'[c] = bindings[c] \cup {tx[w].device} /\ w \in Fresh(c)
      BY <1>0, <1>3, <2>3 DEF ActivateCommit, Fresh, SeatInv, TypeOK
    <3>2. Cardinality(bindings'[c]) <= Cardinality(bindings[c]) + 1
      <4>1. IsFiniteSet(bindings[c]) /\ Cardinality(bindings[c]) \in Nat
        BY Counts DEF SeatInv
      <4>2. Cardinality(bindings[c] \cup {tx[w].device}) <= Cardinality(bindings[c]) + 1
        <5> DEFINE b == bindings[c]
                   x == tx[w].device
        <5>1. IsFiniteSet(b) /\ Cardinality(b) \in Nat
          BY <4>1
        <5> HIDE DEF b, x
        <5>2. Cardinality(b \cup {x}) = IF x \in b THEN Cardinality(b) ELSE Cardinality(b) + 1
          BY <5>1, FS_AddElement
        <5>3. Cardinality(b \cup {x}) <= Cardinality(b) + 1
          BY <5>1, <5>2
        <5> QED BY <5>3 DEF b, x
      <4> QED BY <3>1, <4>2
    <3>3. Cardinality(Fresh(c)') = Cardinality(Fresh(c)) - 1
      BY <1>1, <3>1, Counts, FS_RemoveElement DEF SeatInv
    <3>4. Cardinality(bindings'[c]) \in Nat
      BY <3>1, Counts, FS_AddElement, FS_CardinalityType DEF SeatInv
    <3> QED BY <2>1, <3>2, <3>3, <3>4, Counts DEF SeatInv
  <2> QED BY <2>2, <2>3
<1> QED BY <1>2, <1>3

\* Whoever is let in saw fewer devices than the limit.
LEMMA LetIn ==
  ASSUME NEW c \in Cards, NEW bound, IsFiniteSet(bound),
         Strategy[c] # "NONE", BindVerdict(c, bound) = "OK"
  PROVE  Cardinality(bound) < Limit(c)
<1>1. Cardinality(bound) \in Nat /\ Cardinality({}) = 0
  BY FS_CardinalityType, FS_EmptySet
<1> QED BY <1>1, CardsAssumption DEF BindVerdict, Limit, Strategies

LEMMA AdvanceSeats ==
  ASSUME SeatInv, TypeOK', NEW w \in Workers, NEW t \in OpenTx, tx' = [tx EXCEPT ![w] = t],
         Opens(w, t) \/ Advances(w, t), UNCHANGED bindings
  PROVE  SeatsCounted'
<1> SUFFICES ASSUME NEW c \in Cards, Strategy[c] # "NONE"
             PROVE  Cardinality(bindings'[c]) + Cardinality(Fresh(c)')
                      <= Limit(c) + Cardinality(Workers) - 1
  BY DEF SeatsCounted, Limit
<1>1. Cardinality(bindings[c]) + Cardinality(Fresh(c)) <= Limit(c) + Cardinality(Workers) - 1
  BY DEF SeatInv, SeatsCounted
<1>2. IsFiniteSet(Fresh(c)') /\ Cardinality(Fresh(c)') \in Nat
      /\ Cardinality(Fresh(c)') <= Cardinality(Workers)
  <2>1. Fresh(c)' \subseteq Workers
    BY DEF Fresh
  <2> QED BY <2>1, FiniteAssumption, FS_Subset, FS_CardinalityType
<1>3. CASE Fresh(c)' \subseteq Fresh(c)
  <2>1. Cardinality(Fresh(c)') <= Cardinality(Fresh(c))
    BY <1>3, Counts, FS_Subset DEF SeatInv
  <2> QED BY <1>1, <1>2, <2>1, Counts DEF SeatInv
<1>4. CASE ~(Fresh(c)' \subseteq Fresh(c))
  <2>1. PICK v \in Fresh(c)' : v \notin Fresh(c)
    BY <1>4
  <2>2. v = w /\ tx'[w] = t /\ t.fresh /\ t.card = c
    BY <2>1 DEF Fresh, SeatInv, TypeOK
  <2>3. Advances(w, t) /\ ~tx[w].fresh
    BY <2>1, <2>2 DEF Opens, Advances, Fresh
  <2>4. BindVerdict(c, bindings[c]) = "OK"
    BY <2>2, <2>3 DEF Advances
  <2>5. Cardinality(bindings[c]) < Limit(c)
    BY <2>4, LetIn, Counts DEF SeatInv
  <2> QED BY <1>2, <2>5, Counts DEF SeatInv
<1> QED BY <1>3, <1>4

LEMMA SeatInvStep ==
  ASSUME SeatInv, [Next]_vars
  PROVE  SeatInv'
<1>0. TypeOK' /\ TxSound' /\ Course
  BY TypeOKStep, TxSoundStep, EveryCourse DEF SeatInv
<1>1. ASSUME NEW w \in Workers, ActivateCommit(w) PROVE SeatsCounted'
  BY <1>0, <1>1, CommitSeats
<1>2. ASSUME Shrinks PROVE SeatsCounted'
  <2>1. CASE UNCHANGED tx
    BY <1>0, <1>2, <2>1, SeatsShrink DEF Fresh, SeatInv
  <2>2. ASSUME NEW w \in Workers, tx' = [tx EXCEPT ![w] = Idle] PROVE SeatsCounted'
    BY <1>0, <1>2, <2>2, SeatsShrink DEF Fresh, Idle, SeatInv, TypeOK
  <2>3. ASSUME NEW w \in Workers, NEW t \in OpenTx, tx' = [tx EXCEPT ![w] = t],
               Opens(w, t) \/ Advances(w, t), UNCHANGED bindings
        PROVE  SeatsCounted'
    BY <1>0, <2>3, AdvanceSeats
  <2> QED BY <1>0, <2>1, <2>2, <2>3 DEF Course
<1>3. SeatsCounted'
  BY <1>1, <1>2, BindingsChange DEF SeatInv
<1> QED BY <1>0, <1>3 DEF SeatInv

\* A card that binds has at most as many devices as its limit and the workers
\* beside one: every activation that is let in saw a free seat, and at most one
\* binding for each worker is between that look and its commit.
THEOREM SeatsBounded == Spec => []SeatBound
<1>1. Init => SeatInv
  BY TypeOKInit, TxSoundInit, SeatsCountedInit DEF SeatInv
<1>2. SeatInv => SeatBound
  <2> SUFFICES ASSUME SeatInv, NEW c \in Cards, Strategy[c] # "NONE"
               PROVE  Cardinality(bindings[c]) <= Limit(c) + Cardinality(Workers) - 1
    BY DEF SeatBound
  <2>1. Cardinality(bindings[c]) + Cardinality(Fresh(c)) <= Limit(c) + Cardinality(Workers) - 1
    BY DEF SeatInv, SeatsCounted
  <2> QED BY <2>1, Counts DEF SeatInv
<1>3. SeatInv /\ [Next]_vars => SeatInv'
  BY SeatInvStep
<1> QED BY <1>1, <1>2, <1>3, PTL DEF Spec

\* With one worker the limit is kept, as BindingStrategy promises it: what the
\* code lacks is only what keeps activations apart.
THEOREM OneWorkerKeepsLimit ==
  ASSUME Cardinality(Workers) = 1
  PROVE  Spec => []SeatLimit
<1>1. TypeOK /\ SeatBound => SeatLimit
  <2> SUFFICES ASSUME TypeOK, SeatBound, NEW c \in Cards, Strategy[c] # "NONE"
               PROVE  Cardinality(bindings[c]) <= Limit(c)
    BY DEF SeatLimit
  <2>1. Cardinality(bindings[c]) <= Limit(c) + Cardinality(Workers) - 1
    BY DEF SeatBound
  <2> QED BY <2>1, Counts
<1> QED BY <1>1, TypeCorrect, SeatsBounded, PTL
-----------------------------------------------------------------------------
(***************************************************************************)
(* The card's row: only the commit of an activation writes activatedAt and *)
(* trialDevice, and only it rewrites expiresAt of a card that exists.      *)
(***************************************************************************)
RowsKept ==
  \A c \in Cards :
    /\ card'[c].activatedAt = card[c].activatedAt
    /\ card'[c].trialDevice = card[c].trialDevice
    /\ card[c].status # "NEW" =>
         card'[c].status # "NEW" /\ card'[c].expiresAt = card[c].expiresAt

LEMMA RowsChange ==
  ASSUME TypeOK, [Next]_vars
  PROVE  RowsKept \/ \E w \in Workers : ActivateCommit(w)
<1>1. CASE UNCHANGED card
  BY <1>1 DEF RowsKept
<1>2. ASSUME NEW w \in Workers, NEW c \in Cards, NEW d \in Devices,
             ActivateFind(w, c, d) \/ ValidateFind(w, c, d)
      PROVE  UNCHANGED card
  BY <1>2 DEF ActivateFind, ValidateFind, Refuse, Conclude
<1>3. ASSUME NEW w \in Workers, Statement(w), ~ActivateCommit(w)
      PROVE  UNCHANGED card
  BY <1>3 DEF Statement, ActivateUpsert, ActivateBindings, ActivateInsert, ActivateStamp,
     ActivateUpdate, ValidateCheck, ValidateTouch, Refuse, Conclude
<1>4. CASE Console
  <2>1. ASSUME NEW c \in Cards, Generate(c) \/ Disable(c) \/ Enable(c) PROVE RowsKept
    BY <2>1 DEF Generate, Disable, Enable, RowsKept, TypeOK, CardRow
  <2> QED BY <1>1, <1>4, <2>1 DEF Console, UnbindDevice, UnbindAll
<1> QED BY <1>1, <1>2, <1>3, <1>4 DEF Next, Abort, RejectFormat, Tick, vars

LEMMA DevicesKept ==
  ASSUME TypeOK, [Next]_vars
  PROVE  devices \subseteq devices'
<1>1. ASSUME NEW w \in Workers, NEW c \in Cards, NEW d \in Devices,
             ActivateFind(w, c, d) \/ ValidateFind(w, c, d)
      PROVE  UNCHANGED devices
  BY <1>1 DEF ActivateFind, ValidateFind, Refuse, Conclude
<1>2. ASSUME NEW w \in Workers, Statement(w)
      PROVE  devices \subseteq devices'
  BY <1>2 DEF Statement, ActivateUpsert, ActivateBindings, ActivateInsert, ActivateStamp,
     ActivateUpdate, ActivateCommit, ValidateCheck, ValidateTouch, Refuse, Conclude
<1>3. CASE Console
  BY <1>3 DEF Console, Generate, Disable, Enable, UnbindDevice, UnbindAll
<1> QED BY <1>1, <1>2, <1>3 DEF Next, Abort, RejectFormat, Tick, vars

\* What a row says of itself, and what the bindings say of it.
CardSound(c) ==
  /\ bindings[c] \subseteq devices
  /\ bindings[c] # {} => card[c].activatedAt # None
  /\ Type[c] # "TRIAL" => card[c].trialDevice = None
  /\ card[c].activatedAt # None =>
       /\ card[c].status # "NEW"
       /\ card[c].expiresAt = ComputeExpiry(Type[c], card[c].activatedAt)
       /\ Type[c] = "TRIAL" => card[c].trialDevice # None

\* What an open transaction has read stays true of the row: it exists, and an
\* activation is not taken back.
ReadSound(w) ==
  tx[w].pc # "idle" =>
    /\ card[tx[w].card].status # "NEW"
    /\ tx[w].row.activatedAt # None => card[tx[w].card].activatedAt # None
    /\ tx[w].pc \in Settled /\ ~tx[w].fresh => card[tx[w].card].activatedAt # None

CardInv ==
  /\ TypeOK /\ TxSound
  /\ \A c \in Cards : CardSound(c)
  /\ \A w \in Workers : ReadSound(w)

LEMMA CommitRow ==
  ASSUME CardInv, NEW w \in Workers, ActivateCommit(w)
  PROVE  \A c \in Cards :
           /\ card'[c].activatedAt # None \/ c # tx[w].card
           /\ card'[c] = card[c] \/ (c = tx[w].card /\ tx[w].stamp # None)
           /\ card[c].status # "NEW" => card'[c].status # "NEW"
           /\ CardSound(c)'
<1>1. tx[w] \in OpenTx /\ Sound(tx[w]) /\ ReadSound(w) /\ tx[w].pc = "commit"
  BY OpenTxType DEF ActivateCommit, CardInv, TypeOK, TxOK, TxSound
<1> DEFINE k == tx[w].card
           d == tx[w].device
           t == tx[w].stamp
<1>2. k \in Cards /\ d \in Devices /\ t \in Time \cup {None} /\ d # None
  BY <1>1, NoneAssumption DEF OpenTx
<1>3. card' = [card EXCEPT ![k] = IF t # None THEN Activated(k, card[k], d, t) ELSE card[k]]
  BY DEF ActivateCommit
<1>4. devices' = devices \cup {d} /\ bindings'[k] \subseteq bindings[k] \cup {d}
      /\ \A c \in Cards \ {k} : bindings'[c] = bindings[c]
  BY <1>2 DEF ActivateCommit, CardInv, TypeOK
<1>5. t = None => card[k].activatedAt # None
  BY <1>1 DEF Sound, ReadSound
<1>6. card[k].status # "NEW" /\ card[k] \in CardRow
  BY <1>1, <1>2 DEF ReadSound, CardInv, TypeOK
<1>7. \A c \in Cards \ {k} : card'[c] = card[c]
  BY <1>3 DEF CardInv, TypeOK
<1>8. CASE t = None
  <2>1. \A c \in Cards : card'[c] = card[c]
    BY <1>3, <1>7, <1>8 DEF CardInv, TypeOK
  <2> QED BY <1>2, <1>4, <1>5, <1>6, <1>8, <2>1 DEF CardSound, CardInv
<1>9. CASE t # None
  <2>1. /\ card'[k].activatedAt = t /\ card'[k].status = card[k].status
        /\ card'[k].expiresAt = ComputeExpiry(Type[k], t)
        /\ card'[k].trialDevice = IF Type[k] = "TRIAL" THEN d ELSE card[k].trialDevice
    BY <1>2, <1>3, <1>6, <1>9 DEF Activated, CardRow, CardInv, TypeOK
  <2>2. ASSUME NEW c \in Cards, c = k PROVE CardSound(c)'
    <3>1. CardSound(c) /\ bindings'[c] \subseteq devices'
      BY <1>4, <2>2 DEF CardSound, CardInv
    <3>2. card'[c].activatedAt # None /\ card'[c].status # "NEW"
      BY <1>6, <1>9, <2>1, <2>2
    <3>3. card'[c].expiresAt = ComputeExpiry(Type[c], card'[c].activatedAt)
      BY <2>1, <2>2
    <3>4. (Type[c] = "TRIAL") <=> (card'[c].trialDevice # None)
      BY <1>2, <2>1, <2>2, <3>1 DEF CardSound
    <3> QED BY <3>1, <3>2, <3>3, <3>4 DEF CardSound
  <2>3. \A c \in Cards \ {k} : CardSound(c)'
    BY <1>4, <1>7 DEF CardSound, CardInv
  <2> QED BY <1>2, <1>6, <1>7, <1>9, <2>1, <2>2, <2>3
<1> QED BY <1>8, <1>9

LEMMA CardSoundStep ==
  ASSUME CardInv, [Next]_vars
  PROVE  \A c \in Cards : CardSound(c)'
<1>1. CASE Shrinks /\ RowsKept
  BY <1>1, DevicesKept DEF CardInv, CardSound, Shrinks, RowsKept
<1> QED BY <1>1, CommitRow, BindingsChange, RowsChange DEF CardInv

\* Rows are never taken back, whatever the step.
LEMMA RowsGrow ==
  ASSUME CardInv, [Next]_vars, NEW c \in Cards
  PROVE  /\ card[c].status # "NEW" => card'[c].status # "NEW"
         /\ card[c].activatedAt # None => card'[c].activatedAt # None
<1>1. CASE RowsKept
  BY <1>1 DEF RowsKept
<1>2. ASSUME NEW w \in Workers, ActivateCommit(w)
      PROVE  /\ card[c].status # "NEW" => card'[c].status # "NEW"
             /\ card[c].activatedAt # None => card'[c].activatedAt # None
  BY <1>2, CommitRow
<1> QED BY <1>1, <1>2, RowsChange DEF CardInv

LEMMA ReadSoundStep ==
  ASSUME CardInv, [Next]_vars, NEW w \in Workers
  PROVE  ReadSound(w)'
<1> SUFFICES ASSUME tx'[w].pc # "idle" PROVE ReadSound(w)'
  BY DEF ReadSound
<1>1. CASE tx'[w] = tx[w]
  <2>1. tx[w].card \in Cards
    BY <1>1, OpenTxType DEF CardInv, TypeOK, TxOK, OpenTx
  <2> QED BY <1>1, <2>1, RowsGrow DEF CardInv, ReadSound
<1>2. ASSUME NEW t \in OpenTx, tx' = [tx EXCEPT ![w] = t],
             Opens(w, t) \/ Advances(w, t), UNCHANGED <<card, bindings>>
      PROVE  ReadSound(w)'
  <2>1. tx'[w] = t /\ card' = card /\ t.card \in Cards
    BY <1>2 DEF CardInv, TypeOK, OpenTx
  <2>2. CASE Opens(w, t)
    BY <2>1, <2>2 DEF Opens, ReadSound, Holding, Settled
  <2>3. CASE Advances(w, t)
    BY <2>1, <2>3 DEF Advances, ReadSound, CardInv, CardSound
  <2> QED BY <1>2, <2>2, <2>3
<1>3. ASSUME NEW u \in Workers, tx' = [tx EXCEPT ![u] = Idle] PROVE tx'[w] = tx[w]
  BY <1>3 DEF CardInv, TypeOK, Idle
<1>4. ASSUME NEW u \in Workers \ {w}, NEW t, tx' = [tx EXCEPT ![u] = t] PROVE tx'[w] = tx[w]
  BY <1>4 DEF CardInv, TypeOK
<1>5. Course
  BY EveryCourse DEF CardInv
<1> QED BY <1>1, <1>2, <1>3, <1>4, <1>5 DEF Course

LEMMA CardInvInit == Init => CardInv
<1>1. Init => \A c \in Cards : CardSound(c)
  BY DEF Init, CardSound, NewCard
<1>2. Init => \A w \in Workers : ReadSound(w)
  BY DEF Init, ReadSound, Idle
<1> QED BY <1>1, <1>2, TypeOKInit, TxSoundInit DEF CardInv

LEMMA CardInvStep == CardInv /\ [Next]_vars => CardInv'
<1> SUFFICES ASSUME CardInv, [Next]_vars PROVE CardInv'
  OBVIOUS
<1>1. TypeOK' /\ TxSound'
  BY TypeOKStep, TxSoundStep DEF CardInv
<1>2. (\A c \in Cards : CardSound(c)') /\ (\A w \in Workers : ReadSound(w)')
  BY CardSoundStep, ReadSoundStep
<1> QED BY <1>1, <1>2 DEF CardInv

\* A binding, its device's row and the activation of its card are committed
\* together and stay together, the expiry is the activation's own, and no
\* activation inserts a binding that is there already.
THEOREM ActivationIsWhole == Spec => []RowsAgree
<1>1. CardInv => BoundIsActivated /\ ExpiryFollowsActivation
  BY DEF CardInv, CardSound, BoundIsActivated, ExpiryFollowsActivation
<1>2. Spec => []CardInv
  BY CardInvInit, CardInvStep, PTL DEF Spec
<1>3. BoundIsActivated /\ ExpiryFollowsActivation /\ UniqueIndexNeverHit => RowsAgree
  BY DEF RowsAgree
<1> QED BY <1>1, <1>2, <1>3, IndexNeverHit, PTL

\* What a first activation wrote changes only by the commit of an activation
\* that holds the card's row and had read it unactivated.
THEOREM FirstActivationStays == Spec => FirstActivationKept
<1> DEFINE Kept == \A c \in Cards :
             card[c].activatedAt # None
               /\ (\/ card'[c].activatedAt # card[c].activatedAt
                   \/ card'[c].expiresAt # card[c].expiresAt
                   \/ card'[c].trialDevice # card[c].trialDevice)
             => \E w \in Workers : /\ HoldsCard(w, c) /\ tx[w].row.activatedAt = None
                                   /\ tx'[w] = Idle
<1>1. CardInv /\ [Next]_vars => Kept
  <2> SUFFICES ASSUME CardInv, [Next]_vars PROVE Kept
    OBVIOUS
  <2>1. CASE RowsKept
    BY <2>1 DEF RowsKept, CardInv, CardSound
  <2>2. ASSUME NEW w \in Workers, ActivateCommit(w) PROVE Kept
    <3>1. tx[w].pc = "commit" /\ Sound(tx[w]) /\ tx'[w] = Idle
      BY <2>2 DEF ActivateCommit, Close, CardInv, TypeOK, TxSound
    <3>2. \A c \in Cards : card'[c] # card[c] => HoldsCard(w, c) /\ tx[w].row.activatedAt = None
      BY <2>2, <3>1, CommitRow DEF HoldsCard, Sound
    <3> QED BY <3>1, <3>2
  <2> QED BY <2>1, <2>2, RowsChange DEF CardInv
<1>2. CardInv /\ [Next]_vars => [Kept]_vars
  BY <1>1
<1> QED BY <1>2, CardInvInit, CardInvStep, PTL DEF Spec, FirstActivationKept

-----------------------------------------------------------------------------
(***************************************************************************)
(* The detailed specification implements LicenceSeats.                     *)
(***************************************************************************)
ActivatedCards == {c \in Cards : card[c].activatedAt # None}

AllInv == CardInv /\ IndexInv /\ SeatInv

\* Only the commit of a new binding takes a seat, and a free one.
LEMMA CommitClaims ==
  ASSUME AllInv, NEW w \in Workers, ActivateCommit(w), tx[w].fresh
  PROVE  \E c \in Cards, d \in Devices : Seats!Claim(c, d)
<1>1. tx[w] \in OpenTx /\ ReadSound(w) /\ Sound(tx[w]) /\ tx[w].pc = "commit"
  BY OpenTxType DEF ActivateCommit, AllInv, CardInv, TypeOK, TxOK, TxSound
<1>2. PICK k \in Cards, d \in Devices : k = tx[w].card /\ d = tx[w].device
  BY <1>1 DEF OpenTx
<1>3. d \notin bindings[k] /\ bindings' = [bindings EXCEPT ![k] = @ \cup {d}]
  BY <1>1, <1>2 DEF ActivateCommit, AllInv, IndexInv, UniqueIndexNeverHit
<1>4. ActivatedCards' = ActivatedCards \cup {k}
  BY <1>2, CommitRow DEF AllInv, ActivatedCards
<1>5. IsFiniteSet(bindings[k]) /\ Cardinality(bindings[k]) \in Nat
  BY <1>2, Counts DEF AllInv, CardInv
<1>6. Cardinality(bindings[k]) < Capacity[k]
  <2>1. CASE Strategy[k] = "NONE"
    <3>1. bindings[k] \subseteq Devices /\ bindings[k] # Devices
      BY <1>2, <1>3 DEF AllInv, CardInv, TypeOK
    <3>2. Cardinality(bindings[k]) < Cardinality(Devices)
      BY <1>5, <3>1, FiniteAssumption, FS_Subset, FS_CardinalityType
    <3> QED BY <1>2, <2>1, <3>2 DEF Capacity
  <2>2. CASE Strategy[k] # "NONE"
    <3>1. w \in Fresh(k)
      BY <1>1, <1>2 DEF Fresh
    <3>2. Cardinality(Fresh(k)) >= 1
      BY <1>2, <3>1, Counts, FS_EmptySet DEF AllInv, CardInv
    <3>3. Cardinality(bindings[k]) + Cardinality(Fresh(k))
            <= Limit(k) + Cardinality(Workers) - 1
      BY <1>2, <2>2 DEF AllInv, SeatInv, SeatsCounted
    <3>4. Capacity[k] = Limit(k) + Cardinality(Workers) - 1
      BY <1>2, <2>2 DEF Capacity
    <3> QED BY <1>2, <1>5, <3>2, <3>3, <3>4, Counts DEF AllInv, CardInv
  <2> QED BY <2>1, <2>2
<1>7. Seats!Claim(k, d)
  <2>1. {c \in Cards : card[c].activatedAt # None}'
          = {c \in Cards : card[c].activatedAt # None} \cup {k}
    BY <1>4 DEF ActivatedCards
  <2>2. Seats!Cardinality(bindings[k]) = Cardinality(bindings[k])
    BY DEF Seats!Cardinality, Cardinality
  <2> QED BY <1>3, <1>6, <2>1, <2>2 DEF Seats!Claim
<1> QED BY <1>2, <1>7

LEMMA RefinementStep ==
  ASSUME AllInv, [Next]_vars
  PROVE  [Seats!Next]_(Seats!vars)
<1>1. ASSUME NEW w \in Workers, ActivateCommit(w)
      PROVE  [Seats!Next]_(Seats!vars)
  <2>1. CASE tx[w].fresh
    BY <1>1, <2>1, CommitClaims DEF Seats!Next
  <2>2. CASE ~tx[w].fresh
    <3>1. tx[w] \in OpenTx /\ ReadSound(w) /\ tx[w].pc = "commit" /\ tx[w].card \in Cards
      BY <1>1, OpenTxType DEF ActivateCommit, AllInv, CardInv, TypeOK, TxOK, OpenTx
    <3>2. bindings' = bindings
      BY <1>1, <2>2 DEF ActivateCommit, AllInv, CardInv, TypeOK
    <3>3. card[tx[w].card].activatedAt # None
      BY <2>2, <3>1 DEF ReadSound, Settled
    <3>4. ActivatedCards' = ActivatedCards
      BY <1>1, <3>3, CommitRow DEF AllInv, ActivatedCards
    <3> QED BY <3>2, <3>4 DEF Seats!vars, ActivatedCards
  <2> QED BY <2>1, <2>2
<1>2. CASE RowsKept
  <2>1. ActivatedCards' = ActivatedCards
    BY <1>2 DEF RowsKept, ActivatedCards
  <2>2. CASE UNCHANGED bindings
    BY <2>1, <2>2 DEF Seats!vars, ActivatedCards
  <2>3. ASSUME NEW d \in Devices, NEW C \in SUBSET Cards,
               bindings' = [c \in Cards |-> IF c \in C THEN bindings[c] \ {d} ELSE bindings[c]]
        PROVE  [Seats!Next]_(Seats!vars)
    BY <2>1, <2>3 DEF Seats!Next, Seats!Release, ActivatedCards
  <2>4. ASSUME NEW c \in Cards, NEW d \in Devices, UnbindDevice(c, d)
        PROVE  [Seats!Next]_(Seats!vars)
    <3>1. bindings' = [k \in Cards |-> IF k \in {c} THEN bindings[k] \ {d} ELSE bindings[k]]
      BY <2>4 DEF UnbindDevice, AllInv, CardInv, TypeOK
    <3>2. {c} \in SUBSET Cards
      OBVIOUS
    <3> QED BY <2>3, <3>1, <3>2
  <2>5. ASSUME NEW d \in Devices, UnbindAll(d)
        PROVE  [Seats!Next]_(Seats!vars)
    <3>1. bindings' = [k \in Cards |-> IF k \in Cards THEN bindings[k] \ {d} ELSE bindings[k]]
      BY <2>5 DEF UnbindAll
    <3>2. Cards \in SUBSET Cards
      OBVIOUS
    <3> QED BY <2>3, <3>1, <3>2
  <2>6. \/ UNCHANGED bindings
        \/ \E c \in Cards, d \in Devices : UnbindDevice(c, d)
        \/ \E d \in Devices : UnbindAll(d)
        \/ \E w \in Workers : ActivateCommit(w)
    <3>1. ASSUME NEW w \in Workers, NEW c \in Cards, NEW d \in Devices,
                 ActivateFind(w, c, d) \/ ValidateFind(w, c, d)
          PROVE  UNCHANGED bindings
      BY <3>1 DEF ActivateFind, ValidateFind, Refuse, Conclude
    <3>2. ASSUME NEW w \in Workers, Statement(w), ~ActivateCommit(w)
          PROVE  UNCHANGED bindings
      BY <3>2 DEF Statement, ActivateUpsert, ActivateBindings, ActivateInsert, ActivateStamp,
         ActivateUpdate, ValidateCheck, ValidateTouch, Refuse, Conclude
    <3>3. ASSUME NEW c \in Cards, Generate(c) \/ Disable(c) \/ Enable(c)
          PROVE  UNCHANGED bindings
      BY <3>3 DEF Generate, Disable, Enable
    <3> QED BY <3>1, <3>2, <3>3 DEF Next, Console, Abort, RejectFormat, Tick, vars
  <2> QED BY <1>1, <2>2, <2>3, <2>4, <2>5, <2>6
<1> QED BY <1>1, <1>2, RowsChange DEF AllInv, CardInv

\* Every behaviour of the transactions is one of a card that has seats: a seat
\* is taken by one device at a time, from the free ones, the first one
\* activates the card for good, and only the console frees one.
THEOREM TransactionsImplementSeats == Spec => ImplementsSeats
<1>1. Init => Seats!Init
  BY DEF Init, NewCard, Seats!Init
<1>2. Init => AllInv
  <2>1. Init => Exclusive /\ UniqueIndexNeverHit
    BY DEF Init, Exclusive, UniqueIndexNeverHit, HoldsDevice, Idle
  <2> QED BY <2>1, CardInvInit, SeatsCountedInit DEF AllInv, CardInv, IndexInv, SeatInv
<1>3. AllInv /\ [Next]_vars => AllInv'
  BY CardInvStep, TypeOKStep, TxSoundStep, ExclusiveStep, IndexStep, SeatInvStep
     DEF AllInv, IndexInv
<1>4. AllInv /\ [Next]_vars => [Seats!Next]_(Seats!vars)
  BY RefinementStep
<1> QED BY <1>1, <1>2, <1>3, <1>4, PTL DEF Spec, ImplementsSeats, Seats!Spec
=============================================================================
