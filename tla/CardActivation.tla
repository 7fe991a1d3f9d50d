--------------------------- MODULE CardActivation ---------------------------
(***************************************************************************)
(* Card keys of one application: what the SDK endpoints activate and       *)
(* validate (SdkService) and the developer's console (CardKeyService,      *)
(* DeviceService) do to the card_key, device and device_binding tables     *)
(* when several requests are served at once.                               *)
(*                                                                         *)
(* A request runs in one interactive transaction of PostgreSQL at its      *)
(* default isolation, READ COMMITTED (TenantPrismaService.tx opens it      *)
(* without an isolation level): a SELECT sees what is committed when that  *)
(* statement runs and takes no lock, an UPDATE or an upsert waits for the  *)
(* row's lock and keeps it to the end of the transaction, and nothing a    *)
(* transaction writes is seen by another one before its COMMIT.  Workers   *)
(* are the transactions that can be open at the same time; each of their   *)
(* steps is one statement.                                                 *)
(***************************************************************************)
EXTENDS Naturals, FiniteSets

CONSTANTS
  Cards,       \* the card keys of the application
  Devices,     \* machine ids of the end users' devices
  Workers,     \* request handlers: transactions that may be open together
  Type,        \* Type[c]: the CardKeyType of card c
  Strategy,    \* Strategy[c]: its BindingStrategy
  MaxDevices,  \* MaxDevices[c]: its maxDevices column
  MaxTime,     \* bound on the clock, in days
  None         \* SQL NULL

Types == {"DAY", "WEEK", "MONTH", "PERMANENT", "TRIAL"}
Strategies == {"NONE", "FIRST_BIND", "N_DEVICES"}

ASSUME CardsAssumption ==
  /\ Type \in [Cards -> Types]
  /\ Strategy \in [Cards -> Strategies]
  /\ MaxDevices \in [Cards -> Nat \ {0}]
  /\ \A c \in Cards : Type[c] = "TRIAL" => MaxDevices[c] = 1
ASSUME NoneAssumption == None \notin Nat /\ None \notin Devices /\ None \notin Cards
ASSUME FiniteAssumption == IsFiniteSet(Devices) /\ IsFiniteSet(Workers)
ASSUME TimeAssumption == MaxTime \in Nat

VARIABLES
  card,      \* card[c]: the committed row of card_key
  devices,   \* machine ids with a committed row in device
  bindings,  \* bindings[c]: devices with a committed device_binding to c
  log,       \* the row of validation_log the last step committed, if any
  reply,     \* the answer the last step sent a client, if any
  tx,        \* tx[w]: the transaction worker w has open
  now        \* the clock

vars == <<card, devices, bindings, log, reply, tx, now>>

(***************************************************************************)
(* Rows and transactions.                                                  *)
(***************************************************************************)
Time == Nat
CardRow == [status : {"NEW", "ACTIVE", "DISABLED"},  \* "NEW": no row yet
            activatedAt : Time \cup {None},
            expiresAt : Time \cup {None},
            trialDevice : Devices \cup {None}]

Steps == {"upsert", "bindings", "insert", "stamp", "update", "commit",
          "check", "touch"}
Verdicts == {"OK", "INVALID_FORMAT", "CARD_NOT_FOUND", "CARD_DISABLED", "CARD_EXPIRED",
             "TRIAL_ALREADY_CLAIMED", "ALREADY_BOUND_OTHER_DEVICE",
             "MAX_DEVICES_REACHED", "DEVICE_NOT_BOUND"}

OpenTx == [pc : Steps, op : {"activate", "validate"}, card : Cards, device : Devices,
           row : CardRow,                \* the card as the first SELECT saw it
           fresh : BOOLEAN,              \* a new device_binding is to be inserted
           stamp : Time \cup {None}]     \* the `now` of a first activation
Idle == [pc |-> "idle"]

LogRow == [card : Cards, device : Devices, verdict : Verdicts]
Reply == [op : {"activate", "validate"}, card : Cards, device : Devices,
          verdict : Verdicts, expiresAt : Time \cup {None}]

Attempt(c, d, v) == [card |-> c, device |-> d, verdict |-> v]
Answer(op, c, d, v, e) == [op |-> op, card |-> c, device |-> d, verdict |-> v, expiresAt |-> e]

NewCard == [status |-> "NEW", activatedAt |-> None, expiresAt |-> None, trialDevice |-> None]

Init ==
  /\ card = [c \in Cards |-> NewCard]
  /\ devices = {}
  /\ bindings = [c \in Cards |-> {}]
  /\ log = None
  /\ reply = None
  /\ tx = [w \in Workers |-> Idle]
  /\ now = 0

(***************************************************************************)
(* Row locks.  The upsert of device locks the device's row (or, for a new  *)
(* one, its key in the unique index), the UPDATE of a first activation     *)
(* locks the card's row; COMMIT and ROLLBACK release them.                 *)
(***************************************************************************)
HoldsDevice(w, d) ==
  /\ tx[w].pc \in {"bindings", "insert", "stamp", "update", "commit"}
  /\ tx[w].device = d

MutHoldsCard(w, c) ==
  /\ tx[w].pc \in {"update", "commit"}
  /\ tx[w].card = c
  /\ tx[w].stamp # None
HoldsCard(w, c) ==
  /\ tx[w].pc = "commit"
  /\ tx[w].card = c
  /\ tx[w].stamp # None

DeviceRowFree(w, d) == \A v \in Workers \ {w} : ~HoldsDevice(v, d)
CardRowFree(c) == \A v \in Workers : ~HoldsCard(v, c)

(***************************************************************************)
(* What the handlers decide from the values they have read.                *)
(***************************************************************************)
Days == [DAY |-> 1, WEEK |-> 7, MONTH |-> 30]

ComputeExpiry(type, t) == IF type \in DOMAIN Days THEN t + Days[type] ELSE None

\* activate, steps 2 to 4: what the card's row alone decides.
CardVerdict(c, row, d) ==
  CASE row.status = "NEW" -> "CARD_NOT_FOUND"
    [] row.status = "DISABLED" -> "CARD_DISABLED"
    [] row.status = "ACTIVE" /\ Type[c] = "TRIAL" /\ row.trialDevice \notin {None, d}
         -> "TRIAL_ALREADY_CLAIMED"
    [] OTHER -> "OK"

\* activate, step 6: what the bindings read decide for a device not among them.
MutBindVerdict(c, bound) ==
  CASE Strategy[c] = "FIRST_BIND" /\ bound # {} -> "ALREADY_BOUND_OTHER_DEVICE"
    [] Strategy[c] = "N_DEVICES" /\ Cardinality(bound) > MaxDevices[c] -> "MAX_DEVICES_REACHED"
    [] OTHER -> "OK"
BindVerdict(c, bound) ==
  CASE Strategy[c] = "FIRST_BIND" /\ bound # {} -> "ALREADY_BOUND_OTHER_DEVICE"
    [] Strategy[c] = "N_DEVICES" /\ Cardinality(bound) >= MaxDevices[c] -> "MAX_DEVICES_REACHED"
    [] OTHER -> "OK"

\* validate: status and expiry.
ValidVerdict(row) ==
  CASE row.status = "NEW" -> "CARD_NOT_FOUND"
    [] row.status = "DISABLED" -> "CARD_DISABLED"
    [] row.status = "ACTIVE" /\ row.expiresAt # None /\ row.expiresAt < now -> "CARD_EXPIRED"
    [] OTHER -> "OK"

-----------------------------------------------------------------------------
(***************************************************************************)
(* SdkService.activate.                                                    *)
(***************************************************************************)
Open(w, step, op, c, d) ==
  tx' = [tx EXCEPT ![w] = [pc |-> step, op |-> op, card |-> c, device |-> d,
                           row |-> card[c], fresh |-> FALSE, stamp |-> None]]
Goto(w, step) == tx' = [tx EXCEPT ![w].pc = step]
Close(w) == tx' = [tx EXCEPT ![w] = Idle]
Silent == log' = None /\ reply' = None

\* A refusal inserts its validation_log row and then throws: the rollback
\* takes the row, the upserted device and the locks with it, and only the
\* answer is left.
Refuse(w, c, d, v) ==
  /\ reply' = Answer("activate", c, d, v, None)
  /\ Close(w)
  /\ log' = None
  /\ UNCHANGED <<card, devices, bindings>>

\* Either endpoint: a malformed key is logged in a transaction of its own,
\* then refused.
RejectFormat(op, c, d) ==
  /\ log' = Attempt(c, d, "INVALID_FORMAT")
  /\ reply' = Answer(op, c, d, "INVALID_FORMAT", None)
  /\ UNCHANGED <<card, devices, bindings, tx, now>>

\* Steps 2 to 4: the card's row is read, and judged as it was read.
ActivateFind(w, c, d) ==
  /\ tx[w] = Idle
  /\ LET v == CardVerdict(c, card[c], d)
     IN  \/ /\ v # "OK"
            /\ Refuse(w, c, d, v)
         \/ /\ v = "OK"
            /\ Open(w, "upsert", "activate", c, d)
            /\ UNCHANGED <<card, devices, bindings>> /\ Silent
  /\ UNCHANGED now

\* Step 5: the device's row is upserted, once its lock is free.
ActivateUpsert(w) ==
  /\ tx[w].pc = "upsert"
  /\ DeviceRowFree(w, tx[w].device)
  /\ Goto(w, "bindings")
  /\ UNCHANGED <<card, devices, bindings, now>> /\ Silent

\* Where a transaction goes once its device is bound: only the activation that
\* read an unactivated row writes the card.
MutAfterBinding(w) == "stamp"
AfterBinding(w) == IF tx[w].row.activatedAt = None THEN "stamp" ELSE "commit"

\* Step 6: the card's bindings are read and the strategy is applied to them.
ActivateBindings(w) ==
  /\ tx[w].pc = "bindings"
  /\ LET c == tx[w].card
         d == tx[w].device
         v == BindVerdict(c, bindings[c])
     IN  \/ /\ d \in bindings[c]
            /\ Goto(w, AfterBinding(w))
            /\ UNCHANGED <<card, devices, bindings>> /\ Silent
         \/ /\ d \notin bindings[c]
            /\ v = "OK"
            /\ tx' = [tx EXCEPT ![w].pc = "insert", ![w].fresh = TRUE]
            /\ UNCHANGED <<card, devices, bindings>> /\ Silent
         \/ /\ d \notin bindings[c]
            /\ v # "OK"
            /\ Refuse(w, c, d, v)
  /\ UNCHANGED now

\* Step 7: the binding is inserted, seen by nobody before the commit.
ActivateInsert(w) ==
  /\ tx[w].pc = "insert"
  /\ Goto(w, AfterBinding(w))
  /\ UNCHANGED <<card, devices, bindings, now>> /\ Silent

\* Step 8, in the process: the clock is read, then the UPDATE is sent.
ActivateStamp(w) ==
  /\ tx[w].pc = "stamp"
  /\ tx' = [tx EXCEPT ![w].pc = "update", ![w].stamp = now]
  /\ UNCHANGED <<card, devices, bindings, now>> /\ Silent

\* Step 8, in the database: the UPDATE waits for the card's row, and then
\* applies to its newest version whatever it holds.
ActivateUpdate(w) ==
  /\ tx[w].pc = "update"
  /\ CardRowFree(tx[w].card)
  /\ Goto(w, "commit")
  /\ UNCHANGED <<card, devices, bindings, now>> /\ Silent

\* The columns a first activation by device d at time t sets.
MutActivatedKeepsExpiry(c, row, d, t) ==
  [row EXCEPT !.activatedAt = t, !.trialDevice = IF Type[c] = "TRIAL" THEN d ELSE @]
Activated(c, row, d, t) ==
  [row EXCEPT !.activatedAt = t,
              !.expiresAt = ComputeExpiry(Type[c], t),
              !.trialDevice = IF Type[c] = "TRIAL" THEN d ELSE @]

\* Steps 9 and 10: the log row, and the commit that publishes all of it.
ActivateCommit(w) ==
  /\ tx[w].pc = "commit"
  /\ LET c == tx[w].card
         d == tx[w].device
         t == tx[w].stamp
     IN  /\ devices' = devices \cup {d}
         /\ bindings' = [bindings EXCEPT ![c] = IF tx[w].fresh THEN @ \cup {d} ELSE @]
         /\ card' = [card EXCEPT ![c] = IF t # None THEN Activated(c, @, d, t) ELSE @]
         /\ log' = Attempt(c, d, "OK")
         /\ reply' = Answer("activate", c, d, "OK",
                            IF t # None THEN ComputeExpiry(Type[c], t) ELSE tx[w].row.expiresAt)
  /\ Close(w)
  /\ UNCHANGED now

-----------------------------------------------------------------------------
(***************************************************************************)
(* SdkService.validate.  It refuses by its answer, not by throwing, so all *)
(* but the unknown card commit their log row.                              *)
(***************************************************************************)
Conclude(w, c, d, v, row) ==
  /\ log' = Attempt(c, d, v)
  /\ reply' = Answer("validate", c, d, v, row.expiresAt)
  /\ Close(w)
  /\ UNCHANGED <<card, bindings, now>>

ValidateFind(w, c, d) ==
  /\ tx[w] = Idle
  /\ LET v == ValidVerdict(card[c])
     IN  \/ /\ v = "CARD_NOT_FOUND"
            /\ reply' = Answer("validate", c, d, v, None)
            /\ log' = None
            /\ UNCHANGED <<card, devices, bindings, tx, now>>
         \/ /\ v \notin {"OK", "CARD_NOT_FOUND"}
            /\ Conclude(w, c, d, v, card[c])
            /\ UNCHANGED devices
         \/ /\ v = "OK"
            /\ Open(w, IF Strategy[c] = "NONE" THEN "touch" ELSE "check", "validate", c, d)
            /\ UNCHANGED <<card, devices, bindings, now>> /\ Silent

\* The device and its binding: a device never seen passes on a card that was
\* not activated when it was read.
ValidateCheck(w) ==
  /\ tx[w].pc = "check"
  /\ LET c == tx[w].card
         d == tx[w].device
     IN  \/ /\ d \in devices /\ d \in bindings[c]
            /\ Goto(w, "touch")
            /\ UNCHANGED <<card, devices, bindings, now>> /\ Silent
         \/ /\ d \notin devices /\ tx[w].row.activatedAt = None
            /\ Conclude(w, c, d, "OK", tx[w].row)
            /\ UNCHANGED devices
         \/ /\ \/ d \in devices /\ d \notin bindings[c]
               \/ d \notin devices /\ tx[w].row.activatedAt # None
            /\ Conclude(w, c, d, "DEVICE_NOT_BOUND", tx[w].row)
            /\ UNCHANGED devices

\* lastSeenAt: an update of the device's row, an upsert for an unbound strategy.
ValidateTouch(w) ==
  /\ tx[w].pc = "touch"
  /\ DeviceRowFree(w, tx[w].device)
  /\ devices' = devices \cup {tx[w].device}
  /\ Conclude(w, tx[w].card, tx[w].device, "OK", tx[w].row)

\* A statement fails, the transaction times out or the process dies: ROLLBACK,
\* and no answer that says more than that.
Abort(w) ==
  /\ tx[w] # Idle
  /\ Close(w)
  /\ UNCHANGED <<card, devices, bindings, now>> /\ Silent

-----------------------------------------------------------------------------
(***************************************************************************)
(* The developer's console.  Its transactions read a row and write the     *)
(* same row by id, and the write decides alone, so each is one action that *)
(* waits for the row it writes.                                            *)
(***************************************************************************)
Generate(c) ==
  /\ card[c].status = "NEW"
  /\ card' = [card EXCEPT ![c].status = "ACTIVE",
                          ![c].expiresAt = ComputeExpiry(Type[c], now)]
  /\ UNCHANGED <<devices, bindings, tx, now>> /\ Silent

Disable(c) ==
  /\ card[c].status # "NEW"
  /\ CardRowFree(c)
  /\ card' = [card EXCEPT ![c].status = "DISABLED"]
  /\ UNCHANGED <<devices, bindings, tx, now>> /\ Silent

Enable(c) ==
  /\ card[c].status = "DISABLED"
  /\ CardRowFree(c)
  /\ card' = [card EXCEPT ![c].status = "ACTIVE"]
  /\ UNCHANGED <<devices, bindings, tx, now>> /\ Silent

UnbindDevice(c, d) ==
  /\ d \in bindings[c]
  /\ bindings' = [bindings EXCEPT ![c] = @ \ {d}]
  /\ UNCHANGED <<card, devices, tx, now>> /\ Silent

UnbindAll(d) ==
  /\ d \in devices
  /\ bindings' = [c \in Cards |-> bindings[c] \ {d}]
  /\ UNCHANGED <<card, devices, tx, now>> /\ Silent

Tick ==
  /\ now < MaxTime
  /\ now' = now + 1
  /\ UNCHANGED <<card, devices, bindings, tx>> /\ Silent

Statement(w) ==
  \/ ActivateUpsert(w) \/ ActivateBindings(w) \/ ActivateInsert(w)
  \/ ActivateStamp(w) \/ ActivateUpdate(w) \/ ActivateCommit(w)
  \/ ValidateCheck(w) \/ ValidateTouch(w)

Console ==
  \/ \E c \in Cards : Generate(c) \/ Disable(c) \/ Enable(c)
  \/ \E c \in Cards, d \in Devices : UnbindDevice(c, d)
  \/ \E d \in Devices : UnbindAll(d)

Next ==
  \/ \E w \in Workers, c \in Cards, d \in Devices : ActivateFind(w, c, d) \/ ValidateFind(w, c, d)
  \/ \E w \in Workers : Statement(w) \/ Abort(w)
  \/ \E op \in {"activate", "validate"}, c \in Cards, d \in Devices : RejectFormat(op, c, d)
  \/ Console
  \/ Tick

Spec == Init /\ [][Next]_vars

-----------------------------------------------------------------------------
(***************************************************************************)
(* Properties.                                                             *)
(***************************************************************************)
TypeOK ==
  /\ card \in [Cards -> CardRow]
  /\ devices \subseteq Devices
  /\ bindings \in [Cards -> SUBSET Devices]
  /\ log \in LogRow \cup {None}
  /\ reply \in Reply \cup {None}
  /\ tx \in [Workers -> OpenTx \cup {Idle}]
  /\ now \in Time

Limit(c) == IF Strategy[c] = "FIRST_BIND" THEN 1 ELSE MaxDevices[c]

\* The promise of BindingStrategy, as far as the code keeps it: a card that
\* binds never has more devices than its limit plus the activations that can
\* be open beside the last one it lets in.  With one worker that is the limit
\* itself; the check of step 6 and the insert of step 7 are two statements,
\* so with more it is not.
SeatBound ==
  \A c \in Cards : Strategy[c] # "NONE" =>
    Cardinality(bindings[c]) <= Limit(c) + Cardinality(Workers) - 1

\* A binding, the device it names and the activation of its card are committed
\* together: no console operation, failure or concurrent activation leaves a
\* bound device without its row, a bound card unactivated, or an activated
\* trial card without the device that claimed it.
BoundIsActivated ==
  \A c \in Cards :
    /\ bindings[c] \subseteq devices
    /\ bindings[c] # {} => card[c].activatedAt # None
    /\ card[c].activatedAt # None =>
         /\ card[c].status # "NEW"
         /\ Type[c] = "TRIAL" <=> card[c].trialDevice # None

\* The expiry of an activated card is its own activation plus the days of its
\* type, also when two first activations overwrite each other: the two columns
\* come from one reading of the clock.
ExpiryFollowsActivation ==
  \A c \in Cards : card[c].activatedAt # None =>
    card[c].expiresAt = ComputeExpiry(Type[c], card[c].activatedAt)

\* The unique index on (cardKeyId, deviceId) is never hit: while an activation
\* is about to insert a binding, or has inserted it, no other one has committed
\* the same binding.  The row lock the device's upsert takes is what keeps
\* two activations by one device apart.
UniqueIndexNeverHit ==
  \A w \in Workers :
    tx[w].pc # "idle" /\ tx[w].fresh => tx[w].device \notin bindings[tx[w].card]

\* The rows of a card, its bindings and the devices agree with one another and
\* with the transactions under way.
RowsAgree == BoundIsActivated /\ ExpiryFollowsActivation /\ UniqueIndexNeverHit

\* What a first activation wrote (activatedAt, expiresAt, the claiming device)
\* changes only by the commit of another activation that was open beside it and
\* had read the card before: a repeated activation, a validation or the console
\* never resets it.
FirstActivationKept ==
  [][\A c \in Cards :
       card[c].activatedAt # None
         /\ (\/ card'[c].activatedAt # card[c].activatedAt
             \/ card'[c].expiresAt # card[c].expiresAt
             \/ card'[c].trialDevice # card[c].trialDevice)
       => \E w \in Workers : /\ HoldsCard(w, c) /\ tx[w].row.activatedAt = None
                             /\ tx'[w] = Idle]_vars

\* No set of transactions waits for each other's rows: each locks a device's row
\* before a card's, so among any that wait one waits for none of the others.
WaitsFor(w, v) ==
  /\ w # v
  /\ \/ tx[w].pc \in {"upsert", "touch"} /\ HoldsDevice(v, tx[w].device)
     \/ tx[w].pc = "update" /\ HoldsCard(v, tx[w].card)
NoDeadlock ==
  \A S \in SUBSET Workers : S # {} => \E w \in S : \A v \in S : ~WaitsFor(w, v)

\* The detailed specification implements the seats of LicenceSeats, each card
\* that binds having the capacity of SeatBound.
Capacity ==
  [c \in Cards |-> IF Strategy[c] = "NONE" THEN Cardinality(Devices)
                  ELSE Limit(c) + Cardinality(Workers) - 1]

Seats == INSTANCE LicenceSeats
           WITH seats <- bindings,
                activated <- {c \in Cards : card[c].activatedAt # None}

ImplementsSeats == Seats!Spec

(***************************************************************************)
(* What the documentation says and the code does not keep.                 *)
(***************************************************************************)
\* ADR 0015: the activation of device N+1 is refused, and a FIRST_BIND card is
\* locked to the device that used it first.
SeatLimit ==
  \A c \in Cards : Strategy[c] # "NONE" => Cardinality(bindings[c]) <= Limit(c)

=============================================================================
