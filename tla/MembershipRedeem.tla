-------------------------- MODULE MembershipRedeem --------------------------
(***************************************************************************)
(* Membership codes and the membership they buy (MembershipService).       *)
(*                                                                         *)
(* redeem opens a transaction of the developer, but reads and claims the   *)
(* code outside of it, through the service's own connection: those two     *)
(* statements commit by themselves.  Only the developer's row is read and  *)
(* written in the transaction, at READ COMMITTED.                          *)
(***************************************************************************)
EXTENDS Integers, FiniteSetsExt

CONSTANTS
  Codes,       \* membership codes
  Developers,
  Workers,     \* redeem requests that may run together
  Admins,      \* disable requests that may run together
  Days,        \* Days[c]: durationDays of code c, a century for PERMANENT
  MaxTime,     \* bound on the clock, in days
  None

ASSUME CodesAssumption == IsFiniteSet(Codes)
ASSUME DaysAssumption == Days \in [Codes -> Nat \ {0}]
ASSUME TimeAssumption == MaxTime \in Nat
ASSUME NoneAssumption == None \notin Developers /\ None \notin Codes

VARIABLES
  code,     \* code[c]: the row of membership_code
  expires,  \* expires[d]: vipExpiresAt, 0 when there is none
  redeem,   \* redeem[w]: the redeem request worker w is handling
  disable,  \* disable[a]: the code a disable request has read and may write
  now

redeemVars == <<code, expires, redeem, disable, now>>

CodeRow ==
  [status : {"UNUSED", "USED", "DISABLED"}, redeemedBy : Developers \cup {None}, redeemedAt : Nat]
\* A request: base and since are vipExpiresAt and the clock as it has read them.
Busy == [pc : {"claim", "read", "update"}, code : Codes, developer : Developers,
         base : Nat, since : Nat]
Idle == [pc |-> "idle"]

RedeemInit ==
  /\ code = [c \in Codes |-> [status |-> "UNUSED", redeemedBy |-> None, redeemedAt |-> 0]]
  /\ expires = [d \in Developers |-> 0]
  /\ redeem = [w \in Workers |-> Idle]
  /\ disable = [a \in Admins |-> None]
  /\ now = 0

-----------------------------------------------------------------------------
\* The code is looked for among the unused ones.
Find(w, d, c) ==
  /\ redeem[w] = Idle
  /\ code[c].status = "UNUSED"
  /\ redeem' = [redeem EXCEPT ![w] = [pc |-> "claim", code |-> c, developer |-> d,
                                      base |-> 0, since |-> 0]]
  /\ UNCHANGED <<code, expires, disable, now>>

\* It is claimed by an update that applies only to an unused row; a request that
\* comes too late is refused.
MutClaimable(c) == code[c].status # "DISABLED"
Claimable(c) == code[c].status = "UNUSED"

Claimed(d) == [status |-> "USED", redeemedBy |-> d, redeemedAt |-> now]

Claim(w) ==
  /\ redeem[w].pc = "claim"
  /\ \/ /\ Claimable(redeem[w].code)
        /\ code' = [code EXCEPT ![redeem[w].code] = Claimed(redeem[w].developer)]
        /\ redeem' = [redeem EXCEPT ![w].pc = "read"]
     \/ /\ ~Claimable(redeem[w].code)
        /\ redeem' = [redeem EXCEPT ![w] = Idle]
        /\ UNCHANGED code
  /\ UNCHANGED <<expires, disable, now>>

\* The developer's row and the clock are read.
ReadDeveloper(w) ==
  /\ redeem[w].pc = "read"
  /\ redeem' = [redeem EXCEPT ![w].pc = "update",
       ![w].base = expires[redeem[w].developer], ![w].since = now]
  /\ UNCHANGED <<code, expires, disable, now>>

\* The new end of the membership: a running one is extended, otherwise one begins.
MutExtended(base, since, days) == since + days
Extended(base, since, days) == (IF base > since THEN base ELSE since) + days

\* The end is written, as it follows from what was read, and the transaction
\* committed.
UpdateDeveloper(w) ==
  /\ redeem[w].pc = "update"
  /\ expires' = [expires EXCEPT ![redeem[w].developer] =
                   Extended(redeem[w].base, redeem[w].since, Days[redeem[w].code])]
  /\ redeem' = [redeem EXCEPT ![w] = Idle]
  /\ UNCHANGED <<code, disable, now>>

\* The transaction is rolled back, or the process dies; the claim stays.
Abort(w) ==
  /\ redeem[w] # Idle
  /\ redeem' = [redeem EXCEPT ![w] = Idle]
  /\ UNCHANGED <<code, expires, disable, now>>

\* An administrator disables a code that was not used when it was read.
DisableRead(a, c) ==
  /\ disable[a] = None
  /\ code[c].status # "USED"
  /\ disable' = [disable EXCEPT ![a] = c]
  /\ UNCHANGED <<code, expires, redeem, now>>

DisableWrite(a) ==
  /\ disable[a] # None
  /\ code' = [code EXCEPT ![disable[a]].status = "DISABLED"]
  /\ disable' = [disable EXCEPT ![a] = None]
  /\ UNCHANGED <<expires, redeem, now>>

Tick ==
  /\ now < MaxTime
  /\ now' = now + 1
  /\ UNCHANGED <<code, expires, redeem, disable>>

RedeemNext ==
  \/ \E w \in Workers, d \in Developers, c \in Codes : Find(w, d, c)
  \/ \E w \in Workers : Claim(w) \/ ReadDeveloper(w) \/ UpdateDeveloper(w) \/ Abort(w)
  \/ \E a \in Admins : DisableWrite(a) \/ \E c \in Codes : DisableRead(a, c)
  \/ Tick

RedeemSpec == RedeemInit /\ [][RedeemNext]_redeemVars

-----------------------------------------------------------------------------
(***************************************************************************)
(* Properties.                                                             *)
(***************************************************************************)
Crediting(w) == redeem[w].pc \in {"read", "update"}

\* The variables have their types, a used code names its redeemer and an unused
\* one names nobody (the columns status and redeemedBy of membership_code).
RedeemTypeOK ==
  /\ code \in [Codes -> CodeRow]
  /\ expires \in [Developers -> Nat]
  /\ redeem \in [Workers -> Busy \cup {Idle}]
  /\ disable \in [Admins -> Codes \cup {None}]
  /\ now \in Nat
  /\ \A c \in Codes : /\ code[c].status = "USED" => code[c].redeemedBy # None
                      /\ code[c].status = "UNUSED" => code[c].redeemedBy = None

\* A code is credited by the request that claimed it and by no other, whatever
\* requests look for it at once: no two requests have claimed one code, and a
\* request that has is the one the row names.
OneRedeemer ==
  /\ \A v, w \in Workers : Crediting(v) /\ Crediting(w) /\ redeem[v].code = redeem[w].code => v = w
  /\ \A w \in Workers : Crediting(w) => code[redeem[w].code].redeemedBy = redeem[w].developer

\* Whoever has redeemed a code stays the one who has, also when it is disabled.
RedeemedOnce ==
  [][\A c \in Codes : code[c].redeemedBy # None =>
       code'[c].redeemedBy = code[c].redeemedBy /\ code'[c].redeemedAt = code[c].redeemedAt]_redeemVars

\* A membership lasts no longer than the codes its developer has redeemed buy,
\* counted from today: whatever requests find one code at once, no term is
\* credited twice.
Bought(d) == MapThenSumSet(LAMBDA c : Days[c], {c \in Codes : code[c].redeemedBy = d})
TermIsPaid == \A d \in Developers : expires[d] <= now + Bought(d)

\* A redemption adds the whole term of its code to the membership, to what is
\* left of a running one and to the time of the redemption when it is over, as
\* long as no other request has changed the membership since it was read.
Adds(w) ==
  LET d == redeem[w].developer  c == redeem[w].code
  IN  /\ expires'[d] >= expires[d] + Days[c]
      /\ expires'[d] >= code[c].redeemedAt + Days[c]
TermIsAdded ==
  [][\A w \in Workers :
       UpdateDeveloper(w) /\ expires[redeem[w].developer] = redeem[w].base => Adds(w)]_redeemVars

\* redeem's comment says that a running membership is extended from its end.  (Of
\* two requests of one developer at once the later write drops the term of the
\* other.)
NoTermIsLost == [][\A w \in Workers : UpdateDeveloper(w) => Adds(w)]_redeemVars

=============================================================================
