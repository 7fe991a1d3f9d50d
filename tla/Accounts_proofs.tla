--------------------------- MODULE Accounts_proofs ---------------------------
(***************************************************************************)
(* Proofs about the two components that an account of the console has:     *)
(* MembershipRedeem, its membership, for every number of codes, developers *)
(* and requests (types, that a code is redeemed once, that a redemption    *)
(* adds its term, and that no term is credited twice); and WebSession, its *)
(* session in the browser, for every number of tabs, requests and logins   *)
(* (the pair the pages keep is one the server takes, a request is not sent *)
(* again with the pair that was exchanged for it, and the interceptors     *)
(* bring every request nearer to its end).                                 *)
(***************************************************************************)
EXTENDS MembershipRedeem, WebSession, FiniteSetTheorems, TLAPS

-----------------------------------------------------------------------------
(***************************************************************************)
(* MembershipRedeem: the claim is conditional, and what was claimed is no  *)
(* longer unused.                                                          *)
(***************************************************************************)
Types ==
  /\ code \in [Codes -> CodeRow]
  /\ expires \in [Developers -> Nat]
  /\ redeem \in [Workers -> Busy \cup {Idle}]
  /\ disable \in [Admins -> Codes \cup {None}]
  /\ now \in Nat

RowsNameRedeemer ==
  \A c \in Codes : /\ code[c].status = "USED" => code[c].redeemedBy # None
                   /\ code[c].status = "UNUSED" => code[c].redeemedBy = None

\* What a request has claimed is no longer unused, so that nobody claims it again.
ClaimedIsNotUnused ==
  \A w \in Workers : Crediting(w) => code[redeem[w].code].status # "UNUSED"

Inv == Types /\ RowsNameRedeemer /\ ClaimedIsNotUnused /\ OneRedeemer

LEMMA PcOf == ASSUME NEW r \in Busy \cup {Idle}, r.pc # "idle" PROVE r \in Busy
  BY DEF Busy, Idle

LEMMA BusyParts ==
  ASSUME NEW r \in Busy
  PROVE  /\ r.code \in Codes /\ r.developer \in Developers /\ r.base \in Nat /\ r.since \in Nat
         /\ r.pc \in {"claim", "read", "update"} /\ r # Idle
  BY DEF Busy, Idle

LEMMA InitInv == RedeemInit => Inv
  BY NoneAssumption DEF RedeemInit, Inv, Types, RowsNameRedeemer, ClaimedIsNotUnused, OneRedeemer,
     Crediting, CodeRow, Busy, Idle

LEMMA FindInv ==
  ASSUME Inv, NEW w \in Workers, NEW d \in Developers, NEW c \in Codes, Find(w, d, c)
  PROVE  Inv'
<1>1. [pc |-> "claim", code |-> c, developer |-> d, base |-> 0, since |-> 0] \in Busy
  BY DEF Busy
<1>2. Types'
  BY <1>1 DEF Inv, Types, Find
<1>3. \A v \in Workers : Crediting(v)' => Crediting(v) /\ redeem'[v] = redeem[v]
  BY DEF Inv, Types, Find, Crediting
<1>4. QED
  BY <1>2, <1>3 DEF Inv, RowsNameRedeemer, ClaimedIsNotUnused, OneRedeemer, Find

LEMMA ClaimInv ==
  ASSUME Inv, NEW w \in Workers, Claim(w)
  PROVE  Inv'
<1>1. redeem[w] \in Busy /\ redeem[w].code \in Codes /\ redeem[w].developer \in Developers
  BY PcOf, BusyParts DEF Inv, Types, Claim
<1>2. CASE ~Claimable(redeem[w].code)
  <2>1. redeem' = [redeem EXCEPT ![w] = Idle] /\ UNCHANGED <<code, expires, disable, now>>
    BY <1>2 DEF Claim
  <2>2. Types'
    BY <2>1 DEF Inv, Types
  <2>3. \A v \in Workers : Crediting(v)' => Crediting(v) /\ redeem'[v] = redeem[v]
    BY <2>1 DEF Inv, Types, Crediting, Idle
  <2>4. QED
    BY <2>1, <2>2, <2>3 DEF Inv, RowsNameRedeemer, ClaimedIsNotUnused, OneRedeemer
<1>3. CASE Claimable(redeem[w].code)
  <2> DEFINE k == redeem[w].code
  <2>1. /\ code' = [code EXCEPT ![k] = Claimed(redeem[w].developer)]
        /\ redeem' = [redeem EXCEPT ![w].pc = "read"]
        /\ UNCHANGED <<expires, disable, now>>
    BY <1>3 DEF Claim
  <2>2. Claimed(redeem[w].developer) \in CodeRow
    BY <1>1 DEF Claimed, CodeRow, Inv, Types
  <2>3. [redeem[w] EXCEPT !.pc = "read"] \in Busy
    BY <1>1 DEF Busy
  <2>4. Types'
    BY <1>1, <2>1, <2>2, <2>3 DEF Inv, Types
  <2>5. /\ code'[k].status = "USED" /\ code'[k].redeemedBy = redeem[w].developer
        /\ redeem[w].developer # None
    BY <1>1, <2>1, NoneAssumption DEF Claimed, Inv, Types
  <2>6. \A c \in Codes : c # k => code'[c] = code[c]
    BY <1>1, <2>1 DEF Inv, Types
  <2>7. \A v \in Workers : v # w /\ Crediting(v)' => Crediting(v) /\ redeem'[v] = redeem[v] /\ redeem[v].code # k
    BY <1>3, <2>1 DEF Inv, Types, Crediting, ClaimedIsNotUnused, Claimable
  <2>8. redeem'[w].code = k /\ redeem'[w].developer = redeem[w].developer
    BY <1>1, <2>1 DEF Inv, Types, Busy
  <2>9. \A v \in Workers : Crediting(v) => redeem[v].code \in Codes
    BY PcOf, BusyParts DEF Inv, Types, Crediting
  <2>10. RowsNameRedeemer'
    BY <2>5, <2>6 DEF Inv, RowsNameRedeemer
  <2>11. ClaimedIsNotUnused'
    BY <2>5, <2>6, <2>7, <2>8, <2>9 DEF Inv, ClaimedIsNotUnused
  <2>12. OneRedeemer'
    BY <2>5, <2>6, <2>7, <2>8, <2>9 DEF Inv, OneRedeemer
  <2>13. QED
    BY <2>4, <2>10, <2>11, <2>12 DEF Inv
<1>4. QED
  BY <1>2, <1>3

\* The two steps on the developer's row touch neither the codes nor what is claimed.
LEMMA ExtendedNat ==
  ASSUME NEW b \in Nat, NEW t \in Nat, NEW n \in Nat
  PROVE  Extended(b, t, n) \in Nat
  BY DEF Extended

LEMMA ReadDeveloperInv ==
  ASSUME Inv, NEW w \in Workers, ReadDeveloper(w)
  PROVE  Inv'
<1>1. redeem[w] \in Busy /\ redeem[w].developer \in Developers
  BY PcOf, BusyParts DEF Inv, Types, ReadDeveloper
<1>2. expires[redeem[w].developer] \in Nat /\ now \in Nat
  BY <1>1 DEF Inv, Types
<1>3. /\ redeem' = [redeem EXCEPT ![w].pc = "update",
           ![w].base = expires[redeem[w].developer], ![w].since = now]
      /\ UNCHANGED <<code, expires, disable, now>>
  BY DEF ReadDeveloper
<1>4. /\ redeem'[w] \in Busy /\ redeem'[w].code = redeem[w].code
      /\ redeem'[w].developer = redeem[w].developer
  BY <1>1, <1>2, <1>3 DEF Inv, Types, Busy
<1>5. \A v \in Workers : v # w => redeem'[v] = redeem[v]
  BY <1>3 DEF Inv, Types
<1>6. redeem' \in [Workers -> Busy \cup {Idle}]
  BY <1>3, <1>4, <1>5 DEF Inv, Types
<1>7. Types'
  BY <1>3, <1>6 DEF Inv, Types
<1>8. \A v \in Workers : /\ Crediting(v)' => Crediting(v)
                        /\ redeem'[v].code = redeem[v].code
                        /\ redeem'[v].developer = redeem[v].developer
  BY <1>4, <1>5 DEF ReadDeveloper, Crediting
<1>9. UNCHANGED code
  BY <1>3
<1>10. RowsNameRedeemer' /\ ClaimedIsNotUnused'
  BY <1>8, <1>9 DEF Inv, RowsNameRedeemer, ClaimedIsNotUnused
<1>11. OneRedeemer'
  BY <1>8, <1>9 DEF Inv, OneRedeemer
<1>12. QED
  BY <1>7, <1>10, <1>11 DEF Inv

LEMMA UpdateDeveloperInv ==
  ASSUME Inv, NEW w \in Workers, UpdateDeveloper(w)
  PROVE  Inv'
<1> DEFINE e == Extended(redeem[w].base, redeem[w].since, Days[redeem[w].code])
<1>1. e \in Nat /\ redeem[w].developer \in Developers
  BY PcOf, BusyParts, ExtendedNat, DaysAssumption DEF Inv, Types, UpdateDeveloper
<1>2. Types'
  <2>1. /\ expires' = [expires EXCEPT ![redeem[w].developer] = e]
        /\ redeem' = [redeem EXCEPT ![w] = Idle] /\ UNCHANGED <<code, disable, now>>
    BY DEF UpdateDeveloper
  <2> HIDE DEF e
  <2>2. QED
    BY <1>1, <2>1 DEF Inv, Types
<1>3. \A v \in Workers : Crediting(v)' => Crediting(v) /\ redeem'[v] = redeem[v]
  BY DEF Inv, Types, UpdateDeveloper, Crediting, Idle
<1>4. QED
  BY <1>2, <1>3 DEF Inv, RowsNameRedeemer, ClaimedIsNotUnused, OneRedeemer, UpdateDeveloper

LEMMA AbortInv ==
  ASSUME Inv, NEW w \in Workers, Abort(w)
  PROVE  Inv'
<1>1. Types'
  BY DEF Inv, Types, Abort
<1>2. \A v \in Workers : Crediting(v)' => Crediting(v) /\ redeem'[v] = redeem[v]
  BY DEF Inv, Types, Abort, Crediting, Idle
<1>3. QED
  BY <1>1, <1>2 DEF Inv, RowsNameRedeemer, ClaimedIsNotUnused, OneRedeemer, Abort

LEMMA DisableReadInv ==
  ASSUME Inv, NEW a \in Admins, NEW c \in Codes, DisableRead(a, c)
  PROVE  Inv'
<1>1. Types'
  BY DEF Inv, Types, DisableRead
<1>2. QED
  BY <1>1 DEF Inv, RowsNameRedeemer, ClaimedIsNotUnused, OneRedeemer, Crediting, DisableRead

LEMMA DisableWriteInv ==
  ASSUME Inv, NEW a \in Admins, DisableWrite(a)
  PROVE  Inv'
<1> DEFINE k == disable[a]
<1>1. k \in Codes
  BY DEF Inv, Types, DisableWrite
<1>2. /\ code' = [code EXCEPT ![k].status = "DISABLED"]
      /\ disable' = [disable EXCEPT ![a] = None]
      /\ UNCHANGED <<expires, redeem, now>>
  BY DEF DisableWrite
<1>3. [code[k] EXCEPT !.status = "DISABLED"] \in CodeRow
  BY <1>1 DEF Inv, Types, CodeRow
<1>4. Types'
  BY <1>1, <1>2, <1>3 DEF Inv, Types
<1>5. code'[k].status = "DISABLED" /\ code'[k].redeemedBy = code[k].redeemedBy
  BY <1>1, <1>2 DEF Inv, Types, CodeRow
<1>6. \A c \in Codes : c # k => code'[c] = code[c]
  BY <1>1, <1>2 DEF Inv, Types
<1>7. \A v \in Workers : Crediting(v) => redeem[v].code \in Codes
  BY PcOf, BusyParts DEF Inv, Types, Crediting
<1>8. QED
  BY <1>2, <1>4, <1>5, <1>6, <1>7
  DEF Inv, RowsNameRedeemer, ClaimedIsNotUnused, OneRedeemer, Crediting

LEMMA TickInv == ASSUME Inv, Tick PROVE Inv'
<1>1. Types'
  BY DEF Inv, Types, Tick
<1>2. QED
  BY <1>1 DEF Inv, RowsNameRedeemer, ClaimedIsNotUnused, OneRedeemer, Crediting, Tick

LEMMA StutterInv == ASSUME Inv, UNCHANGED redeemVars PROVE Inv'
  BY DEF Inv, Types, RowsNameRedeemer, ClaimedIsNotUnused, OneRedeemer, Crediting, redeemVars

\* The inductive invariant: the types, that rows name their redeemer, and that
\* what a request has claimed is no longer unused.
THEOREM InvHolds == RedeemSpec => []Inv
<1>1. Inv /\ [RedeemNext]_redeemVars => Inv'
  <2> SUFFICES ASSUME Inv, [RedeemNext]_redeemVars PROVE Inv'
    OBVIOUS
  <2>1. ASSUME NEW w \in Workers, NEW d \in Developers, NEW c \in Codes, Find(w, d, c) PROVE Inv'
    BY <2>1, FindInv
  <2>2. ASSUME NEW w \in Workers, Claim(w) PROVE Inv'
    BY <2>2, ClaimInv
  <2>3. ASSUME NEW w \in Workers, ReadDeveloper(w) PROVE Inv'
    BY <2>3, ReadDeveloperInv
  <2>4. ASSUME NEW w \in Workers, UpdateDeveloper(w) PROVE Inv'
    BY <2>4, UpdateDeveloperInv
  <2>5. ASSUME NEW w \in Workers, Abort(w) PROVE Inv'
    BY <2>5, AbortInv
  <2>6. ASSUME NEW a \in Admins, NEW c \in Codes, DisableRead(a, c) PROVE Inv'
    BY <2>6, DisableReadInv
  <2>7. ASSUME NEW a \in Admins, DisableWrite(a) PROVE Inv'
    BY <2>7, DisableWriteInv
  <2>8. CASE Tick
    BY <2>8, TickInv
  <2>9. CASE UNCHANGED redeemVars
    BY <2>9, StutterInv
  <2>10. QED
    BY <2>1, <2>2, <2>3, <2>4, <2>5, <2>6, <2>7, <2>8, <2>9 DEF RedeemNext
<1>2. QED
  BY InitInv, <1>1, PTL DEF RedeemSpec

\* The variables keep their types, a used code names its redeemer and an unused
\* one nobody.
THEOREM TypeCorrect == RedeemSpec => []RedeemTypeOK
<1>1. Inv => RedeemTypeOK
  BY DEF Inv, Types, RowsNameRedeemer, RedeemTypeOK
<1>2. QED
  BY InvHolds, <1>1, PTL

\* However many requests look for a code at once, one of them claims it.
THEOREM CodeHasOneRedeemer == RedeemSpec => []OneRedeemer
<1>1. Inv => OneRedeemer
  BY DEF Inv
<1>2. QED
  BY InvHolds, <1>1, PTL

\* Whoever redeemed a code stays its redeemer, whatever is redeemed or disabled
\* afterwards.
THEOREM CodeIsRedeemedOnce == RedeemSpec => RedeemedOnce
<1> DEFINE Kept == \A c \in Codes : code[c].redeemedBy # None =>
                     code'[c].redeemedBy = code[c].redeemedBy /\ code'[c].redeemedAt = code[c].redeemedAt
<1>1. Inv /\ [RedeemNext]_redeemVars => [Kept]_redeemVars
  <2> SUFFICES ASSUME Inv, RedeemNext PROVE Kept
    OBVIOUS
  <2>1. ASSUME NEW w \in Workers, Claim(w) PROVE Kept
    <3>1. redeem[w].code \in Codes
      BY <2>1, PcOf, BusyParts DEF Inv, Types, Claim
    <3>2. CASE UNCHANGED code
      BY <3>2
    <3>3. CASE /\ Claimable(redeem[w].code)
               /\ code' = [code EXCEPT ![redeem[w].code] = Claimed(redeem[w].developer)]
      <4>1. code[redeem[w].code].redeemedBy = None
        BY <3>1, <3>3 DEF Inv, RowsNameRedeemer, Claimable
      <4>2. QED
        BY <3>1, <3>3, <4>1 DEF Inv, Types
    <3>4. QED
      BY <2>1, <3>2, <3>3 DEF Claim
  <2>2. ASSUME NEW a \in Admins, DisableWrite(a) PROVE Kept
    <3>1. disable[a] \in Codes /\ code' = [code EXCEPT ![disable[a]].status = "DISABLED"]
      BY <2>2 DEF Inv, Types, DisableWrite
    <3>2. QED
      BY <3>1 DEF Inv, Types, CodeRow
  <2>3. CASE UNCHANGED code
    BY <2>3
  <2>4. QED
    BY <2>1, <2>2, <2>3 DEF RedeemNext, Find, ReadDeveloper, UpdateDeveloper, Abort, DisableRead, Tick
<1>2. QED
  BY InvHolds, <1>1, PTL DEF RedeemSpec, RedeemedOnce

-----------------------------------------------------------------------------
(***************************************************************************)
(* What a redemption adds to the membership.                               *)
(***************************************************************************)
\* The clock that a request reads for the membership is past the claim of its
\* code, and nobody claims that code again meanwhile.
ClaimedBefore ==
  \A w \in Workers : Crediting(w) =>
    /\ code[redeem[w].code].redeemedAt <= now
    /\ redeem[w].pc = "update" => code[redeem[w].code].redeemedAt <= redeem[w].since

LEMMA ClaimedBeforeInit == RedeemInit => ClaimedBefore
  BY DEF RedeemInit, ClaimedBefore, Crediting, Idle

\* A step in which a request changes neither its code nor what it has read.
LEMMA ClaimedBeforeKept ==
  ASSUME Inv, ClaimedBefore, now' >= now, now' \in Nat,
         \A w \in Workers : Crediting(w)' =>
           /\ Crediting(w) /\ redeem'[w] = redeem[w]
           /\ code'[redeem[w].code].redeemedAt = code[redeem[w].code].redeemedAt
  PROVE  ClaimedBefore'
<1> SUFFICES ASSUME NEW w \in Workers, Crediting(w)'
    PROVE  /\ code'[redeem'[w].code].redeemedAt <= now'
           /\ redeem'[w].pc = "update" => code'[redeem'[w].code].redeemedAt <= redeem'[w].since
  BY DEF ClaimedBefore
<1>1. redeem[w] \in Busy /\ redeem[w].code \in Codes /\ Crediting(w)
  BY PcOf, BusyParts DEF Inv, Types, Crediting
<1>2. code[redeem[w].code].redeemedAt \in Nat /\ now \in Nat
  BY <1>1 DEF Inv, Types, CodeRow
<1> QED
  BY <1>1, <1>2 DEF ClaimedBefore

LEMMA ClaimedBeforeClaim ==
  ASSUME Inv, ClaimedBefore, NEW w \in Workers, Claim(w)
  PROVE  ClaimedBefore'
<1> DEFINE k == redeem[w].code
<1>1. redeem[w] \in Busy /\ k \in Codes /\ now \in Nat /\ UNCHANGED now
  BY PcOf, BusyParts DEF Inv, Types, Claim
<1>2. CASE ~Claimable(k)
  <2>1. \A v \in Workers : Crediting(v)' => Crediting(v) /\ redeem'[v] = redeem[v]
    BY <1>2 DEF Claim, Inv, Types, Crediting, Idle
  <2> QED BY <1>1, <1>2, <2>1, ClaimedBeforeKept DEF Claim
<1>3. CASE Claimable(k)
  <2>1. /\ code'[k].redeemedAt = now
        /\ \A c \in Codes \ {k} : code'[c] = code[c]
    BY <1>1, <1>3 DEF Claim, Claimed, Inv, Types
  <2>2. /\ redeem'[w] = [redeem[w] EXCEPT !.pc = "read"]
        /\ \A v \in Workers \ {w} : redeem'[v] = redeem[v]
    BY <1>3 DEF Claim, Inv, Types
  <2>3. redeem'[w].pc = "read" /\ redeem'[w].code = k
    BY <1>1, <2>2 DEF Busy
  <2>4. ASSUME NEW v \in Workers \ {w}, Crediting(v)'
        PROVE  /\ code'[redeem'[v].code].redeemedAt <= now'
               /\ redeem'[v].pc = "update" => code'[redeem'[v].code].redeemedAt <= redeem'[v].since
    <3>1. Crediting(v) /\ redeem'[v] = redeem[v] /\ redeem[v].code \in Codes
      BY <2>2, <2>4, PcOf, BusyParts DEF Crediting, Inv, Types
    <3>2. redeem[v].code # k
      BY <1>3, <3>1 DEF Inv, ClaimedIsNotUnused, Claimable
    <3> QED BY <1>1, <2>1, <3>1, <3>2 DEF ClaimedBefore
  <2> QED BY <1>1, <2>1, <2>3, <2>4 DEF ClaimedBefore
<1> QED BY <1>2, <1>3

LEMMA ClaimedBeforeRead ==
  ASSUME Inv, ClaimedBefore, NEW w \in Workers, ReadDeveloper(w)
  PROVE  ClaimedBefore'
<1>1. redeem[w] \in Busy /\ Crediting(w) /\ UNCHANGED <<code, now>>
  BY PcOf DEF Inv, Types, ReadDeveloper, Crediting
<1>2. /\ redeem'[w] = [redeem[w] EXCEPT !.pc = "update",
                         !.base = expires[redeem[w].developer], !.since = now]
      /\ \A v \in Workers \ {w} : redeem'[v] = redeem[v]
  BY DEF ReadDeveloper, Inv, Types
<1>3. redeem'[w].code = redeem[w].code /\ redeem'[w].since = now
  BY <1>1, <1>2 DEF Busy
<1> QED BY <1>1, <1>2, <1>3 DEF ClaimedBefore, Crediting

LEMMA ClaimedBeforeStep == Inv /\ ClaimedBefore /\ [RedeemNext]_redeemVars => ClaimedBefore'
<1> SUFFICES ASSUME Inv, ClaimedBefore, [RedeemNext]_redeemVars PROVE ClaimedBefore'
  OBVIOUS
<1>1. \A w \in Workers : Crediting(w) => redeem[w].code \in Codes
  BY PcOf, BusyParts DEF Inv, Types, Crediting
<1>2. now \in Nat
  BY DEF Inv, Types
<1>3. ASSUME NEW w \in Workers, UpdateDeveloper(w) \/ Abort(w) PROVE ClaimedBefore'
  <2>1. \A v \in Workers : Crediting(v)' => Crediting(v) /\ redeem'[v] = redeem[v]
    BY <1>3 DEF UpdateDeveloper, Abort, Inv, Types, Crediting, Idle
  <2> QED BY <1>2, <1>3, <2>1, ClaimedBeforeKept DEF UpdateDeveloper, Abort
<1>4. ASSUME NEW w \in Workers, NEW d \in Developers, NEW c \in Codes, Find(w, d, c)
      PROVE  ClaimedBefore'
  <2>1. \A v \in Workers : Crediting(v)' => Crediting(v) /\ redeem'[v] = redeem[v]
    BY <1>4 DEF Find, Inv, Types, Crediting
  <2> QED BY <1>2, <1>4, <2>1, ClaimedBeforeKept DEF Find
<1>5. ASSUME NEW a \in Admins, DisableWrite(a) PROVE ClaimedBefore'
  <2>1. disable[a] \in Codes /\ code' = [code EXCEPT ![disable[a]].status = "DISABLED"]
    BY <1>5 DEF Inv, Types, DisableWrite
  <2>2. \A c \in Codes : code'[c].redeemedAt = code[c].redeemedAt
    BY <2>1 DEF Inv, Types, CodeRow
  <2>3. UNCHANGED <<redeem, now>>
    BY <1>5 DEF DisableWrite
  <2> QED BY <1>1, <1>2, <2>2, <2>3, ClaimedBeforeKept DEF Crediting
<1>6. ASSUME NEW a \in Admins, NEW c \in Codes, DisableRead(a, c) PROVE ClaimedBefore'
  BY <1>2, <1>6, ClaimedBeforeKept DEF DisableRead, Crediting
<1>7. CASE Tick
  <2>1. now' = now + 1 /\ UNCHANGED <<code, redeem>>
    BY <1>7 DEF Tick
  <2>2. now' >= now /\ now' \in Nat
    BY <1>2, <2>1
  <2> QED BY <2>1, <2>2, ClaimedBeforeKept DEF Crediting
<1>8. CASE UNCHANGED redeemVars
  BY <1>2, <1>8, ClaimedBeforeKept DEF redeemVars, Crediting
<1> QED
  BY <1>3, <1>4, <1>5, <1>6, <1>7, <1>8, ClaimedBeforeClaim, ClaimedBeforeRead DEF RedeemNext

\* A redemption adds the whole term of its code, to what is left of a running
\* membership and to the time of the redemption otherwise, unless another request
\* has changed the membership meanwhile.
THEOREM RedemptionAddsItsTerm == RedeemSpec => TermIsAdded
<1>1. ASSUME Inv, ClaimedBefore, NEW w \in Workers, UpdateDeveloper(w),
             expires[redeem[w].developer] = redeem[w].base
      PROVE  Adds(w)
  <2>1. /\ redeem[w] \in Busy /\ Crediting(w)
        /\ redeem[w].code \in Codes /\ redeem[w].developer \in Developers
        /\ redeem[w].base \in Nat /\ redeem[w].since \in Nat
    BY <1>1, PcOf, BusyParts DEF Inv, Types, UpdateDeveloper, Crediting
  <2>2. /\ Days[redeem[w].code] \in Nat /\ code[redeem[w].code].redeemedAt \in Nat
    BY <1>1, <2>1, DaysAssumption DEF Inv, Types, CodeRow
  <2>3. code[redeem[w].code].redeemedAt <= redeem[w].since
    BY <1>1, <2>1 DEF ClaimedBefore, UpdateDeveloper
  <2>4. expires'[redeem[w].developer]
          = (IF redeem[w].base > redeem[w].since THEN redeem[w].base ELSE redeem[w].since)
              + Days[redeem[w].code]
    BY <1>1, <2>1 DEF UpdateDeveloper, Extended, Inv, Types
  <2> QED BY <1>1, <2>1, <2>2, <2>3, <2>4 DEF Adds
<1>2. Inv /\ ClaimedBefore /\ [RedeemNext]_redeemVars =>
        [\A w \in Workers : UpdateDeveloper(w) /\ expires[redeem[w].developer] = redeem[w].base
                              => Adds(w)]_redeemVars
  BY <1>1
<1>3. QED
  BY <1>2, InvHolds, ClaimedBeforeInit, ClaimedBeforeStep, PTL DEF RedeemSpec, TermIsAdded

-----------------------------------------------------------------------------
(***************************************************************************)
(* Sums over finite sets.  MapThenSumSet takes the elements in the order in*)
(* which CHOOSE names them; that it computes the sum, whatever that order, *)
(* is shown by well-founded induction over the subsets of a finite set.    *)
(***************************************************************************)
Pick(s) == CHOOSE x \in s : TRUE
Total(f, S) == MapThenSumSet(LAMBDA c : f[c], S)
\* g is the function that MapThenSumSet computes its result with.
IsSum(g, f, S) == g = [s \in SUBSET S |-> IF s = {} THEN 0 ELSE f[Pick(s)] + g[s \ {Pick(s)}]]

LEMMA TotalIsSum ==
  ASSUME NEW f, NEW S
  PROVE  Total(f, S) = (CHOOSE g : IsSum(g, f, S))[S]
  BY DEF Total, MapThenSumSet, MapThenFoldSet, IsSum, Pick

\* What holds of a set as soon as it holds of its strict subsets holds of every
\* subset of a finite set.
LEMMA SubsetInduction ==
  ASSUME NEW S, IsFiniteSet(S), NEW G \in SUBSET (SUBSET S),
         \A s \in SUBSET S : (\A t \in SUBSET s : t # s => t \in G) => s \in G
  PROVE  G = SUBSET S
<1> SUFFICES ASSUME (SUBSET S) \ G # {} PROVE FALSE
  OBVIOUS
<1>1. IsWellFoundedOn(StrictSubsetOrdering(S), SUBSET S)
  <2>1. FiniteSubsetsOf(S) = SUBSET S
    BY FS_FiniteSubsetsOfFinite
  <2>2. IsWellFoundedOn(StrictSubsetOrdering(S), FiniteSubsetsOf(S))
    BY FS_StrictSubsetOrderingWellFounded
  <2> QED BY <2>1, <2>2
<1>2. PICK s \in (SUBSET S) \ G : \A t \in (SUBSET S) \ G : <<t, s>> \notin StrictSubsetOrdering(S)
  <2> DEFINE B == (SUBSET S) \ G
             R == StrictSubsetOrdering(S)
             D == SUBSET S
  <2>1. IsWellFoundedOn(R, D) /\ B \subseteq D /\ B # {}
    BY <1>1
  <2> HIDE DEF B, R, D
  <2>2. \E s \in B : \A t \in B : ~ (<<t, s>> \in R)
    BY <2>1, WFMin
  <2> QED BY <2>2 DEF B, R
<1>3. \A t \in SUBSET s : t # s => t \in G
  BY <1>2 DEF StrictSubsetOrdering
<1> QED BY <1>2, <1>3

LEMMA PickIn ==
  ASSUME NEW s, s # {}
  PROVE  Pick(s) \in s
  BY DEF Pick

LEMMA SumUnique ==
  ASSUME NEW f, NEW S, NEW T, IsFiniteSet(S), NEW g, NEW h, IsSum(g, f, S), IsSum(h, f, T)
  PROVE  \A s \in SUBSET (S \cap T) : g[s] = h[s]
<1> DEFINE G == {s \in SUBSET (S \cap T) : g[s] = h[s]}
<1>1. IsFiniteSet(S \cap T)
  BY FS_Subset
<1>2. ASSUME NEW s \in SUBSET (S \cap T), \A t \in SUBSET s : t # s => t \in G
      PROVE  s \in G
  <2>1. CASE s = {}
    BY <2>1 DEF IsSum
  <2>2. CASE s # {}
    <3>1. s \ {Pick(s)} \in SUBSET s /\ s \ {Pick(s)} # s
      BY <2>2, PickIn
    <3>2. g[s \ {Pick(s)}] = h[s \ {Pick(s)}]
      BY <1>2, <3>1
    <3>3. g[s] = f[Pick(s)] + g[s \ {Pick(s)}] /\ h[s] = f[Pick(s)] + h[s \ {Pick(s)}]
      BY <2>2 DEF IsSum
    <3> QED BY <3>2, <3>3
  <2> QED BY <2>1, <2>2
<1>3. G = SUBSET (S \cap T)
  <2> HIDE DEF G
  <2>1. G \in SUBSET (SUBSET (S \cap T))
    BY DEF G
  <2> QED BY <1>1, <1>2, <2>1, SubsetInduction
<1> QED BY <1>3

LEMMA SumExists ==
  ASSUME NEW f, NEW S, IsFiniteSet(S)
  PROVE  \E g : IsSum(g, f, S)
<1> DEFINE G == {s \in SUBSET S : \E g : IsSum(g, f, s)}
<1>1. ASSUME NEW s \in SUBSET S, \A t \in SUBSET s : t # s => t \in G
      PROVE  s \in G
  <2> DEFINE sol(t) == CHOOSE g : IsSum(g, f, t)
             g == [t \in SUBSET s |-> IF t = {} THEN 0
                     ELSE f[Pick(t)] + sol(t \ {Pick(t)})[t \ {Pick(t)}]]
  <2>1. ASSUME NEW t \in SUBSET s, t # s PROVE IsSum(sol(t), f, t) /\ IsFiniteSet(t)
    <3>1. \E h : IsSum(h, f, t)
      BY <1>1, <2>1
    <3>2. IsFiniteSet(t)
      BY FS_Subset
    <3> QED BY <3>1, <3>2
  <2> HIDE DEF sol
  <2>2. ASSUME NEW u \in SUBSET s, u # s PROVE g[u] = sol(u)[u]
    <3>1. CASE u = {}
      BY <2>1, <2>2, <3>1 DEF IsSum
    <3>2. CASE u # {}
      <4> DEFINE v == u \ {Pick(u)}
      <4>1. v \in SUBSET u /\ v \in SUBSET s /\ v # s
        BY <2>2, <3>2, PickIn
      <4>2. sol(u)[v] = sol(v)[v]
        <5>1. IsSum(sol(u), f, u) /\ IsSum(sol(v), f, v) /\ IsFiniteSet(u)
          BY <2>1, <2>2, <4>1
        <5>2. v \in SUBSET (u \cap v)
          OBVIOUS
        <5> HIDE DEF v
        <5> QED BY <5>1, <5>2, SumUnique
      <4>3. sol(u)[u] = f[Pick(u)] + sol(u)[v]
        BY <2>1, <2>2, <3>2 DEF IsSum
      <4> QED BY <3>2, <4>2, <4>3
    <3> QED BY <3>1, <3>2
  <2>3. g = [t \in SUBSET s |-> IF t = {} THEN 0 ELSE f[Pick(t)] + g[t \ {Pick(t)}]]
    <3>1. \A t \in SUBSET s : t # {} => g[t \ {Pick(t)}] = sol(t \ {Pick(t)})[t \ {Pick(t)}]
      <4> SUFFICES ASSUME NEW t \in SUBSET s, t # {}
          PROVE  g[t \ {Pick(t)}] = sol(t \ {Pick(t)})[t \ {Pick(t)}]
        OBVIOUS
      <4>1. t \ {Pick(t)} \in SUBSET s /\ t \ {Pick(t)} # s
        BY PickIn
      <4> HIDE DEF g
      <4> QED BY <2>2, <4>1
    <3> QED BY <3>1
  <2> QED BY <2>3 DEF IsSum
<1>2. G = SUBSET S
  <2> HIDE DEF G
  <2>1. G \in SUBSET (SUBSET S)
    BY DEF G
  <2> QED BY <1>1, <2>1, SubsetInduction
<1> QED BY <1>2

LEMMA TotalStep ==
  ASSUME NEW f, NEW S, IsFiniteSet(S)
  PROVE  Total(f, S) = IF S = {} THEN 0 ELSE f[Pick(S)] + Total(f, S \ {Pick(S)})
<1> DEFINE sol(T) == CHOOSE g : IsSum(g, f, T)
           R == S \ {Pick(S)}
<1>1. IsSum(sol(S), f, S)
  BY SumExists
<1>2. IsFiniteSet(R) /\ R \in SUBSET S
  BY FS_Subset
<1>3. IsSum(sol(R), f, R)
  <2> HIDE DEF R
  <2> QED BY <1>2, SumExists
<1>4. Total(f, S) = sol(S)[S] /\ Total(f, R) = sol(R)[R]
  BY TotalIsSum
<1> HIDE DEF sol
<1>5. sol(S)[S] = IF S = {} THEN 0 ELSE f[Pick(S)] + sol(S)[R]
  BY <1>1 DEF IsSum
<1>6. sol(S)[R] = sol(R)[R]
  <2>1. R \in SUBSET (S \cap R)
    OBVIOUS
  <2> HIDE DEF R
  <2> QED BY <1>1, <1>3, <2>1, SumUnique
<1> QED BY <1>4, <1>5, <1>6

LEMMA TotalEmpty ==
  ASSUME NEW f
  PROVE  Total(f, {}) = 0
  BY TotalStep, FS_EmptySet

LEMMA TotalNat ==
  ASSUME NEW D, NEW f \in [D -> Nat], NEW S \in SUBSET D, IsFiniteSet(S)
  PROVE  Total(f, S) \in Nat
<1> DEFINE G == {s \in SUBSET S : Total(f, s) \in Nat}
<1>1. ASSUME NEW s \in SUBSET S, \A t \in SUBSET s : t # s => t \in G
      PROVE  s \in G
  <2>1. IsFiniteSet(s)
    BY FS_Subset
  <2>2. s # {} => f[Pick(s)] \in Nat /\ Total(f, s \ {Pick(s)}) \in Nat
    BY <1>1, PickIn
  <2>3. Total(f, s) = IF s = {} THEN 0 ELSE f[Pick(s)] + Total(f, s \ {Pick(s)})
    BY <2>1, TotalStep
  <2>4. Total(f, s) \in Nat
    BY <2>2, <2>3
  <2> QED BY <2>4
<1>2. G = SUBSET S
  <2> HIDE DEF G
  <2>1. G \in SUBSET (SUBSET S)
    BY DEF G
  <2> QED BY <1>1, <2>1, SubsetInduction
<1> QED BY <1>2

\* The order in which the elements are taken does not matter.
LEMMA TotalWithout ==
  ASSUME NEW D, NEW f \in [D -> Nat], NEW S \in SUBSET D, IsFiniteSet(S), NEW x \in S
  PROVE  Total(f, S) = f[x] + Total(f, S \ {x})
<1> DEFINE G == {s \in SUBSET S : \A e \in s : Total(f, s) = f[e] + Total(f, s \ {e})}
<1>1. ASSUME NEW s \in SUBSET S, \A t \in SUBSET s : t # s => t \in G
      PROVE  s \in G
  <2> SUFFICES ASSUME NEW e \in s PROVE Total(f, s) = f[e] + Total(f, s \ {e})
    OBVIOUS
  <2> DEFINE p == Pick(s)
  <2>1. IsFiniteSet(s) /\ p \in s /\ IsFiniteSet(s \ {e, p})
    BY FS_Subset, PickIn
  <2>2. Total(f, s) = f[p] + Total(f, s \ {p})
    BY <2>1, TotalStep
  <2>3. CASE e = p
    BY <2>2, <2>3
  <2>4. CASE e # p
    <3>1. Total(f, s \ {p}) = f[e] + Total(f, (s \ {p}) \ {e})
      BY <1>1, <2>1, <2>4
    <3>2. Total(f, s \ {e}) = f[p] + Total(f, (s \ {e}) \ {p})
      BY <1>1, <2>1, <2>4
    <3>3. (s \ {p}) \ {e} = s \ {e, p} /\ (s \ {e}) \ {p} = s \ {e, p}
      OBVIOUS
    <3>4. f[e] \in Nat /\ f[p] \in Nat /\ Total(f, s \ {e, p}) \in Nat
      BY <2>1, TotalNat
    <3> HIDE DEF p
    <3> QED BY <2>2, <3>1, <3>2, <3>3, <3>4
  <2> QED BY <2>3, <2>4
<1>2. G = SUBSET S
  <2> HIDE DEF G
  <2>1. G \in SUBSET (SUBSET S)
    BY DEF G
  <2> QED BY <1>1, <2>1, SubsetInduction
<1> QED BY <1>2

LEMMA TotalMonotone ==
  ASSUME NEW D, NEW f \in [D -> Nat], NEW S \in SUBSET D, IsFiniteSet(S), NEW T \in SUBSET S
  PROVE  Total(f, T) <= Total(f, S)
<1> DEFINE G == {s \in SUBSET S : \A t \in SUBSET s : Total(f, t) <= Total(f, s)}
<1>1. ASSUME NEW s \in SUBSET S, \A t \in SUBSET s : t # s => t \in G
      PROVE  s \in G
  <2> SUFFICES ASSUME NEW t \in SUBSET s PROVE Total(f, t) <= Total(f, s)
    OBVIOUS
  <2>1. IsFiniteSet(s) /\ IsFiniteSet(t)
    BY FS_Subset
  <2>2. Total(f, s) \in Nat /\ Total(f, t) \in Nat
    BY <2>1, TotalNat
  <2>3. CASE t = s
    BY <2>2, <2>3
  <2>4. CASE t # s
    <3>1. PICK e \in s : e \notin t
      BY <2>4
    <3>2. Total(f, s) = f[e] + Total(f, s \ {e})
      BY <2>1, TotalWithout
    <3>3. Total(f, t) <= Total(f, s \ {e})
      BY <1>1, <3>1
    <3>4. Total(f, s \ {e}) \in Nat /\ f[e] \in Nat
      <4>1. IsFiniteSet(s \ {e})
        BY <2>1, FS_Subset
      <4> QED BY <4>1, TotalNat
    <3> QED BY <2>2, <3>2, <3>3, <3>4
  <2> QED BY <2>3, <2>4
<1>2. G = SUBSET S
  <2> HIDE DEF G
  <2>1. G \in SUBSET (SUBSET S)
    BY DEF G
  <2> QED BY <1>1, <2>1, SubsetInduction
<1> QED BY <1>2

-----------------------------------------------------------------------------
(***************************************************************************)
(* No term is credited twice.                                              *)
(***************************************************************************)
\* The codes of a developer that no request is crediting any more.
Settled(d) ==
  {c \in Codes : code[c].redeemedBy = d /\ \A w \in Workers : Crediting(w) => redeem[w].code # c}

\* They pay for the membership as it is, and for the one a request has read.
SettledIsPaid ==
  /\ \A d \in Developers : expires[d] <= now + Total(Days, Settled(d))
  /\ \A w \in Workers : redeem[w].pc = "update" =>
       /\ redeem[w].since <= now
       /\ redeem[w].base <= redeem[w].since + Total(Days, Settled(redeem[w].developer))

LEMMA CodesSum ==
  ASSUME NEW S \in SUBSET Codes
  PROVE  /\ IsFiniteSet(S) /\ Total(Days, S) \in Nat
         /\ \A T \in SUBSET S : Total(Days, T) <= Total(Days, S)
<1>1. IsFiniteSet(S)
  BY CodesAssumption, FS_Subset
<1>2. Days \in [Codes -> Nat]
  BY DaysAssumption
<1> QED BY <1>1, <1>2, TotalNat, TotalMonotone

LEMMA SettledInit == RedeemInit => SettledIsPaid
<1> SUFFICES ASSUME RedeemInit PROVE SettledIsPaid
  OBVIOUS
<1>1. \A d \in Developers : Total(Days, Settled(d)) \in Nat
  BY CodesSum DEF Settled
<1> QED BY <1>1 DEF RedeemInit, SettledIsPaid, Idle

\* Settled codes only become more.
LEMMA SettledKept ==
  ASSUME Inv, SettledIsPaid, now' \in Nat, now' >= now, UNCHANGED expires,
         \A d \in Developers : Settled(d) \subseteq Settled(d)',
         \A w \in Workers : redeem'[w].pc = "update" => redeem'[w] = redeem[w]
  PROVE  SettledIsPaid'
<1>1. \A d \in Developers : /\ Total(Days, Settled(d)) \in Nat /\ Total(Days, Settled(d)') \in Nat
                           /\ Total(Days, Settled(d)) <= Total(Days, Settled(d)')
  <2>1. \A d \in Developers : Settled(d) \in SUBSET Codes /\ Settled(d)' \in SUBSET Codes
    BY DEF Settled
  <2> QED BY <2>1, CodesSum
<1>2. now \in Nat /\ \A d \in Developers : expires[d] \in Nat
  BY DEF Inv, Types
<1>3. \A d \in Developers : expires'[d] <= now' + Total(Days, Settled(d)')
  BY <1>1, <1>2 DEF SettledIsPaid
<1>4. ASSUME NEW w \in Workers, redeem'[w].pc = "update"
      PROVE  /\ redeem'[w].since <= now'
             /\ redeem'[w].base <= redeem'[w].since + Total(Days, Settled(redeem[w].developer)')
  <2>1. redeem'[w] = redeem[w] /\ redeem[w].pc = "update"
    BY <1>4
  <2>2. redeem[w].developer \in Developers /\ redeem[w].base \in Nat /\ redeem[w].since \in Nat
    BY <2>1, PcOf, BusyParts DEF Inv, Types
  <2>3. /\ redeem[w].since <= now
        /\ redeem[w].base <= redeem[w].since + Total(Days, Settled(redeem[w].developer))
    BY <2>1 DEF SettledIsPaid
  <2>4. PICK d \in Developers : d = redeem[w].developer /\ d = redeem'[w].developer
    BY <2>1, <2>2
  <2>5. Settled(redeem[w].developer)' = Settled(d)'
    BY <2>4 DEF Settled
  <2> QED BY <1>1, <1>2, <2>1, <2>2, <2>3, <2>4, <2>5
<1> QED BY <1>3, <1>4 DEF SettledIsPaid

LEMMA SettledRead ==
  ASSUME Inv, SettledIsPaid, NEW w \in Workers, ReadDeveloper(w)
  PROVE  SettledIsPaid'
<1>1. redeem[w] \in Busy /\ redeem[w].developer \in Developers /\ Crediting(w)
  BY PcOf, BusyParts DEF Inv, Types, ReadDeveloper, Crediting
<1>2. /\ redeem'[w] = [redeem[w] EXCEPT !.pc = "update",
                         !.base = expires[redeem[w].developer], !.since = now]
      /\ \A v \in Workers \ {w} : redeem'[v] = redeem[v]
      /\ UNCHANGED <<code, expires, now>>
  BY DEF ReadDeveloper, Inv, Types
<1>3. /\ redeem'[w].pc = "update" /\ redeem'[w].code = redeem[w].code
      /\ redeem'[w].developer = redeem[w].developer
      /\ redeem'[w].base = expires[redeem[w].developer] /\ redeem'[w].since = now
  BY <1>1, <1>2 DEF Busy
<1>4. \A d \in Developers : Settled(d)' = Settled(d)
  <2>1. \A v \in Workers : (Crediting(v)' <=> Crediting(v)) /\ redeem'[v].code = redeem[v].code
    <3>1. Crediting(w)' /\ redeem'[w].code = redeem[w].code
      BY <1>3 DEF Crediting
    <3>2. \A v \in Workers \ {w} : (Crediting(v)' <=> Crediting(v)) /\ redeem'[v].code = redeem[v].code
      BY <1>2 DEF Crediting
    <3> QED BY <1>1, <3>1, <3>2
  <2> QED BY <1>2, <2>1 DEF Settled
<1>5. now \in Nat
  BY DEF Inv, Types
<1>6. ASSUME NEW v \in Workers, redeem'[v].pc = "update"
      PROVE  /\ redeem'[v].since <= now'
             /\ redeem'[v].base <= redeem'[v].since + Total(Days, Settled(redeem[v].developer)')
  <2>1. PICK d \in Developers : d = redeem[v].developer /\ d = redeem'[v].developer
    <3>1. redeem'[v].developer = redeem[v].developer
      BY <1>2, <1>3
    <3>2. redeem[v].developer \in Developers
      BY <1>1, <1>2, <1>6, PcOf, BusyParts DEF Inv, Types
    <3> QED BY <3>1, <3>2
  <2>2. Settled(redeem[v].developer)' = Settled(d)
    BY <1>4, <2>1 DEF Settled
  <2>3. CASE v = w
    <3>1. redeem'[v].base = expires[d] /\ redeem'[v].since = now /\ now' = now
      BY <1>2, <1>3, <2>1, <2>3
    <3>2. expires[d] <= now + Total(Days, Settled(d))
      BY DEF SettledIsPaid
    <3>3. Total(Days, Settled(redeem[v].developer)') = Total(Days, Settled(d))
      BY <2>2
    <3> QED BY <1>5, <3>1, <3>2, <3>3
  <2>4. CASE v # w
    BY <1>2, <1>6, <2>1, <2>2, <2>4 DEF SettledIsPaid
  <2> QED BY <2>3, <2>4
<1>7. \A d \in Developers : expires'[d] <= now' + Total(Days, Settled(d)')
  BY <1>2, <1>4 DEF SettledIsPaid
<1> QED BY <1>6, <1>7 DEF SettledIsPaid

\* The request's code becomes a settled one in the step that credits its term.
LEMMA SettledUpdate ==
  ASSUME Inv, SettledIsPaid, NEW w \in Workers, UpdateDeveloper(w)
  PROVE  SettledIsPaid'
<1> DEFINE k == redeem[w].code
           e == redeem[w].developer
<1>1. /\ redeem[w] \in Busy /\ k \in Codes /\ e \in Developers /\ Crediting(w)
      /\ redeem[w].base \in Nat /\ redeem[w].since \in Nat /\ Days[k] \in Nat
  BY PcOf, BusyParts, DaysAssumption DEF Inv, Types, UpdateDeveloper, Crediting
<1>2. /\ expires'[e] = Extended(redeem[w].base, redeem[w].since, Days[k])
      /\ \A d \in Developers \ {e} : expires'[d] = expires[d]
      /\ redeem'[w] = Idle /\ \A v \in Workers \ {w} : redeem'[v] = redeem[v]
      /\ UNCHANGED <<code, now>>
  BY <1>1 DEF UpdateDeveloper, Inv, Types
<1>3. now \in Nat /\ \A d \in Developers : expires[d] \in Nat
  BY DEF Inv, Types
<1>4. \A v \in Workers : Crediting(v)' => v # w /\ Crediting(v) /\ redeem'[v] = redeem[v]
  BY <1>2 DEF Crediting, Idle
<1>5. \A d \in Developers : Settled(d) \subseteq Settled(d)' /\ Settled(d)' \in SUBSET Codes
  BY <1>2, <1>4 DEF Settled
<1>6. /\ k \notin Settled(e) /\ Settled(e) \in SUBSET Codes
      /\ code'[k].redeemedBy = e /\ \A v \in Workers : Crediting(v)' => redeem'[v].code # k
  BY <1>1, <1>2, <1>4 DEF Settled, Inv, OneRedeemer
<1>7. PICK d \in Developers : d = e
  BY <1>1
<1>8. k \in Settled(d)' /\ k \notin Settled(d) /\ Settled(d) \in SUBSET Codes
  BY <1>1, <1>6, <1>7 DEF Settled
<1>9. expires'[d] <= now' + Total(Days, Settled(d)')
  <2>1. PICK c \in Codes : c = k
    BY <1>1
  <2>2. PICK S \in SUBSET Codes : S = Settled(d)'
    BY <1>5
  <2>3. c \in S /\ Settled(d) \in SUBSET (S \ {c})
    BY <1>5, <1>8, <2>1, <2>2
  <2>4. Total(Days, S) = Days[c] + Total(Days, S \ {c})
    BY <2>3, CodesSum, TotalWithout, DaysAssumption
  <2>5. /\ Total(Days, Settled(d)) <= Total(Days, S \ {c})
        /\ Total(Days, Settled(d)) \in Nat /\ Total(Days, S \ {c}) \in Nat
    <3>1. S \ {c} \in SUBSET Codes
      BY <2>2
    <3> QED BY <1>8, <2>3, <3>1, CodesSum
  <2>6. redeem[w].since <= now /\ redeem[w].base <= redeem[w].since + Total(Days, Settled(d))
    BY <1>7 DEF SettledIsPaid, UpdateDeveloper
  <2>7. expires'[d] = (IF redeem[w].base > redeem[w].since THEN redeem[w].base ELSE redeem[w].since)
                        + Days[c]
    BY <1>2, <1>7, <2>1 DEF Extended
  <2> QED BY <1>1, <1>2, <1>3, <2>1, <2>2, <2>4, <2>5, <2>6, <2>7
<1>10. \A x \in Developers : /\ Total(Days, Settled(x)) \in Nat /\ Total(Days, Settled(x)') \in Nat
                            /\ Total(Days, Settled(x)) <= Total(Days, Settled(x)')
  <2>1. \A x \in Developers : Settled(x) \in SUBSET Codes
    BY DEF Settled
  <2> QED BY <1>5, <2>1, CodesSum
<1>11. ASSUME NEW x \in Developers, x # d PROVE expires'[x] <= now' + Total(Days, Settled(x)')
  BY <1>2, <1>3, <1>7, <1>10, <1>11 DEF SettledIsPaid
<1>12. ASSUME NEW v \in Workers, redeem'[v].pc = "update"
       PROVE  /\ redeem'[v].since <= now'
              /\ redeem'[v].base <= redeem'[v].since + Total(Days, Settled(redeem[v].developer)')
  <2>1. redeem'[v] = redeem[v] /\ redeem[v].pc = "update"
    BY <1>2, <1>12 DEF Idle
  <2>2. redeem[v].developer \in Developers /\ redeem[v].base \in Nat /\ redeem[v].since \in Nat
    BY <2>1, PcOf, BusyParts DEF Inv, Types
  <2>3. PICK x \in Developers : x = redeem[v].developer /\ x = redeem'[v].developer
    BY <2>1, <2>2
  <2>4. Settled(redeem[v].developer)' = Settled(x)'
    BY <2>3 DEF Settled
  <2>5. redeem[v].since <= now /\ redeem[v].base <= redeem[v].since + Total(Days, Settled(x))
    BY <2>1, <2>3 DEF SettledIsPaid
  <2> QED BY <1>2, <1>10, <2>1, <2>2, <2>3, <2>4, <2>5
<1> QED BY <1>9, <1>11, <1>12 DEF SettledIsPaid

LEMMA SettledStep == Inv /\ SettledIsPaid /\ [RedeemNext]_redeemVars => SettledIsPaid'
<1> SUFFICES ASSUME Inv, SettledIsPaid, [RedeemNext]_redeemVars PROVE SettledIsPaid'
  OBVIOUS
<1>1. now \in Nat
  BY DEF Inv, Types
<1>2. ASSUME NEW w \in Workers, NEW d \in Developers, NEW c \in Codes, Find(w, d, c)
      PROVE  SettledIsPaid'
  <2>1. \A v \in Workers : (Crediting(v)' => Crediting(v) /\ redeem'[v] = redeem[v])
                           /\ (redeem'[v].pc = "update" => redeem'[v] = redeem[v])
    BY <1>2 DEF Find, Inv, Types, Crediting
  <2> QED BY <1>1, <1>2, <2>1, SettledKept DEF Find, Settled
<1>3. ASSUME NEW w \in Workers, Abort(w) PROVE SettledIsPaid'
  <2>1. \A v \in Workers : (Crediting(v)' => Crediting(v) /\ redeem'[v] = redeem[v])
                           /\ (redeem'[v].pc = "update" => redeem'[v] = redeem[v])
    BY <1>3 DEF Abort, Inv, Types, Crediting, Idle
  <2> QED BY <1>1, <1>3, <2>1, SettledKept DEF Abort, Settled
<1>4. ASSUME NEW w \in Workers, Claim(w) PROVE SettledIsPaid'
  <2> DEFINE k == redeem[w].code
  <2>1. redeem[w] \in Busy /\ k \in Codes
    BY <1>4, PcOf, BusyParts DEF Inv, Types, Claim
  <2>2. \A v \in Workers : redeem'[v].pc = "update" => redeem'[v] = redeem[v]
    <3>1. redeem' = [redeem EXCEPT ![w] = [redeem[w] EXCEPT !.pc = "read"]]
          \/ redeem' = [redeem EXCEPT ![w] = Idle]
      BY <1>4 DEF Claim
    <3>2. redeem'[w].pc # "update" /\ \A v \in Workers \ {w} : redeem'[v] = redeem[v]
      BY <2>1, <3>1 DEF Inv, Types, Idle, Busy
    <3> QED BY <3>2
  <2>3. CASE ~Claimable(k)
    <3>1. \A v \in Workers : Crediting(v)' => Crediting(v) /\ redeem'[v] = redeem[v]
      BY <1>4, <2>3 DEF Claim, Inv, Types, Crediting, Idle
    <3>2. UNCHANGED code
      BY <1>4, <2>3 DEF Claim
    <3> QED BY <1>1, <1>4, <2>2, <3>1, <3>2, SettledKept DEF Claim, Settled
  <2>4. CASE Claimable(k)
    \* The code was nobody's, so that it was not settled.
    <3>1. code[k].redeemedBy = None /\ None \notin Developers
      BY <2>1, <2>4, NoneAssumption DEF Claimable, Inv, RowsNameRedeemer
    <3>2. \A c \in Codes \ {k} : code'[c] = code[c]
      BY <1>4, <2>1, <2>4 DEF Claim, Inv, Types
    <3>3. redeem'[w].code = k /\ \A v \in Workers \ {w} : redeem'[v] = redeem[v]
      BY <1>4, <2>1, <2>4 DEF Claim, Inv, Types, Busy
    <3>4. \A d \in Developers : Settled(d) \subseteq Settled(d)'
      BY <3>1, <3>2, <3>3 DEF Settled, Crediting
    <3> QED BY <1>1, <1>4, <2>2, <3>4, SettledKept DEF Claim
  <2> QED BY <2>3, <2>4
<1>5. ASSUME NEW a \in Admins, DisableWrite(a) PROVE SettledIsPaid'
  <2>1. disable[a] \in Codes /\ code' = [code EXCEPT ![disable[a]].status = "DISABLED"]
    BY <1>5 DEF Inv, Types, DisableWrite
  <2>2. \A c \in Codes : code'[c].redeemedBy = code[c].redeemedBy
    BY <2>1 DEF Inv, Types, CodeRow
  <2>3. \A d \in Developers : Settled(d) \subseteq Settled(d)'
    BY <1>5, <2>2 DEF DisableWrite, Settled, Crediting
  <2> QED BY <1>1, <1>5, <2>3, SettledKept DEF DisableWrite
<1>6. ASSUME NEW a \in Admins, NEW c \in Codes, DisableRead(a, c) PROVE SettledIsPaid'
  BY <1>1, <1>6, SettledKept DEF DisableRead, Settled, Crediting
<1>7. CASE Tick
  <2>1. now' = now + 1 /\ UNCHANGED <<code, expires, redeem>>
    BY <1>7 DEF Tick
  <2>2. now' >= now /\ now' \in Nat
    BY <1>1, <2>1
  <2> QED BY <2>1, <2>2, SettledKept DEF Settled, Crediting
<1>8. CASE UNCHANGED redeemVars
  BY <1>1, <1>8, SettledKept DEF redeemVars, Settled, Crediting
<1> QED
  BY <1>2, <1>3, <1>4, <1>5, <1>6, <1>7, <1>8, SettledRead, SettledUpdate DEF RedeemNext

\* A membership lasts no longer than the codes of its developer pay for, counted
\* from today, for every number of codes redeemed at once, with terms of any length.
THEOREM EveryTermIsPaid == RedeemSpec => []TermIsPaid
<1>1. Inv /\ SettledIsPaid => TermIsPaid
  <2> SUFFICES ASSUME Inv, SettledIsPaid, NEW d \in Developers PROVE expires[d] <= now + Bought(d)
    BY DEF TermIsPaid
  <2> DEFINE S == {c \in Codes : code[c].redeemedBy = d}
  <2>1. Bought(d) = Total(Days, S)
    BY DEF Bought, Total
  <2>2. S \in SUBSET Codes /\ Settled(d) \in SUBSET S /\ Settled(d) \in SUBSET Codes
    BY DEF Settled
  <2> HIDE DEF S
  <2>3. /\ Total(Days, Settled(d)) <= Total(Days, S)
        /\ Total(Days, Settled(d)) \in Nat /\ Total(Days, S) \in Nat
    BY <2>2, CodesSum
  <2>4. expires[d] <= now + Total(Days, Settled(d)) /\ now \in Nat /\ expires[d] \in Nat
    BY DEF SettledIsPaid, Inv, Types
  <2> QED BY <2>1, <2>3, <2>4
<1> QED
  BY <1>1, InvHolds, SettledInit, SettledStep, PTL DEF RedeemSpec

-----------------------------------------------------------------------------
(***************************************************************************)
(* The inductive invariant.  What the browser stores changes under the     *)
(* feet of the handlers: the argument is that a pair is named by nobody    *)
(* before it is stored, and stored only once, so that an exchange that is  *)
(* still on its way can only be of what is stored now or was stored before.*)
(***************************************************************************)
\* Pairs that no page has stored yet: of a login to come, or of a request that
\* has not been answered with a new pair and may still be.
Coming(p) ==
  IF p \in Logins THEN session[p] = "none"
  ELSE \/ request[p].pc \in {"idle", "refresh"}
       \/ request[p].pc = "sent" /\ ~request[p].retried

Mentioned(p) ==
  \/ storage = p \/ p \in cut
  \/ \E r \in Requests : request[r].presented = p \/ handler[r].pair = p
  \/ \E t \in Tabs : logout[t].presented = p

\* Nobody names a pair before it has been stored.
StoredFirst == \A p \in Pairs : Coming(p) => ~Mentioned(p)

\* A request that waits for a refresh waits for the exchange of the pair it
\* presented; one that is about to be sent again has left that pair behind, and
\* so has the storage.
Exchanges ==
  \A r \in Requests :
    /\ request[r].pc = "idle" => request[r] = NewRequest
    /\ request[r].pc = "refresh" =>
         request[r].retried /\ request[r].presented \in Pairs
           /\ handler[r].pair = request[r].presented
    /\ request[r].pc = "again" =>
         /\ request[r].retried /\ request[r].presented \in Pairs
         /\ request[r].access \in Pairs \ {request[r].presented}
         /\ storage # request[r].presented

\* The server exchanges a pair that is stored only for a page that still waits
\* for it, or that was left.
StoredIsSettled ==
  \A r \in Requests :
    handler[r].pc # "none" /\ storage = handler[r].pair =>
      request[r].pc = "refresh" \/ storage \in cut

\* A pair that has been granted, and not yet stored, is good.
GrantedIsGood ==
  \A r \in Requests :
    request[r].pc = "refresh" /\ handler[r].pc = "granted" => session[r] \in {"live", "expired"}

PairsInv ==
  /\ TypeOK
  /\ StoredIsAccepted /\ RetryIsNew
  /\ StoredFirst /\ Exchanges /\ StoredIsSettled /\ GrantedIsGood

-----------------------------------------------------------------------------
(***************************************************************************)
(* Types.                                                                  *)
(***************************************************************************)
LEMMA PairsNotNone == \A p \in Pairs : p # NoPair
BY PairsAssumption

\* What each record is made of.
LEMMA RequestTypes ==
  ASSUME TypeOK, NEW r \in Requests
  PROVE  /\ request[r] \in Request
         /\ request[r].pc \in Phases /\ request[r].access \in Pairs \cup {NoPair}
         /\ request[r].presented \in Pairs \cup {NoPair}
         /\ request[r].retried \in BOOLEAN /\ request[r].refused \in BOOLEAN
         /\ handler[r] \in Handler
         /\ handler[r].pc \in {"none", "get", "del", "issue", "granted", "denied"}
         /\ handler[r].pc = "none" => handler[r] = NoHandler
         /\ handler[r].pc # "none" => handler[r].pair \in Pairs
<1>1. request[r] \in Request /\ handler[r] \in Handler
  BY DEF TypeOK
<1>2. handler[r] = NoHandler \/ handler[r] \in [pc : {"get", "del", "issue", "granted", "denied"}, pair : Pairs]
  BY <1>1 DEF Handler
<1> QED BY <1>1, <1>2 DEF Request, NoHandler

LEMMA LogoutTypes ==
  ASSUME TypeOK, NEW t \in Tabs
  PROVE  /\ logout[t] \in Logout
         /\ logout[t].pc \in {"idle", "revoke", "clear"}
         /\ logout[t].pc = "idle" => logout[t] = NoLogout
         /\ logout[t].pc # "idle" => logout[t].presented \in Pairs
<1>1. logout[t] \in Logout
  BY DEF TypeOK
<1>2. logout[t] = NoLogout \/ logout[t] \in [pc : {"revoke", "clear"}, presented : Pairs]
  BY <1>1 DEF Logout
<1> QED BY <1>1, <1>2 DEF NoLogout

LEMMA EndedTypes == Ended \in Request /\ NewRequest \in Request /\ Ended.pc = "ended"
                    /\ Ended.presented = NoPair /\ Ended.retried = FALSE
BY DEF Ended, NewRequest, Request, Phases

LEMMA InitTypes == Init => TypeOK
<1> SUFFICES ASSUME Init PROVE TypeOK
  OBVIOUS
<1>1. NoHandler \in Handler /\ NoLogout \in Logout
  BY DEF Handler, Logout
<1>2. 0 \in 0 .. MaxLapses /\ 0 \in 0 .. MaxFaults
  BY BoundsAssumption
<1> QED BY <1>1, <1>2, EndedTypes DEF Init, TypeOK, Statuses

LEMMA FaultTypes == TypeOK /\ Fault => faults' \in 0 .. MaxFaults /\ lapses' \in 0 .. MaxLapses
BY BoundsAssumption DEF TypeOK, Fault

LEMMA IssueTypes ==
  ASSUME TypeOK, NEW p \in Pairs, Issue(p)
  PROVE  session' \in [Pairs -> Statuses] /\ fresh' \subseteq Pairs
BY DEF TypeOK, Issue, Statuses

LEMMA DeletedTypes ==
  ASSUME TypeOK, NEW p \in Pairs, NEW s \in Statuses, Deleted(p, s)
  PROVE  session' \in [Pairs -> Statuses]
BY DEF TypeOK, Deleted

LEMMA ToLoginTypes ==
  ASSUME TypeOK, NEW r \in Requests, ToLogin(r)
  PROVE  /\ storage' \in Pairs \cup {NoPair} /\ request' \in [Requests -> Request]
         /\ leaving' \subseteq Tabs
BY EndedTypes, TabAssumption DEF TypeOK, ToLogin

LEMMA ReplyTypes ==
  ASSUME TypeOK, NEW r \in Requests, NEW a \in {"granted", "denied"}, Reply(r, a),
         handler[r].pc # "none"
  PROVE  handler' \in [Requests -> Handler]
<1>1. handler[r].pair \in Pairs /\ handler[r] \in Handler
  BY RequestTypes
<1>2. handler[r] \in [pc : {"get", "del", "issue", "granted", "denied"}, pair : Pairs]
  BY <1>1 DEF Handler, NoHandler
<1>3. [handler[r] EXCEPT !.pc = a] \in Handler
  BY <1>2 DEF Handler
<1> QED BY <1>3 DEF TypeOK, Reply, Handler

\* The variables keep their types.
LEMMA StepTypes == TypeOK /\ Exchanges /\ [Next]_vars => TypeOK'
<1> SUFFICES ASSUME TypeOK, Exchanges, [Next]_vars PROVE TypeOK'
  OBVIOUS
<1> USE DEF browser, server, bounds
<1>1. ASSUME NEW l \in Logins, Login(l) PROVE TypeOK'
  <2>1. l \in Pairs
    BY DEF Pairs
  <2> QED BY <1>1, <2>1, IssueTypes DEF Login, TypeOK
<1>2. ASSUME NEW r \in Requests, NEW refused \in BOOLEAN, Begin(r, refused) PROVE TypeOK'
  <2>1. request' \in [Requests -> Request]
    <3>1. PICK a \in Pairs \cup {NoPair} :
            request' = [request EXCEPT ![r].pc = "sent", ![r].access = a, ![r].refused = refused]
      BY <1>2 DEF Begin, TypeOK
    <3>2. [request[r] EXCEPT !.pc = "sent", !.access = a, !.refused = refused] \in Request
      BY RequestTypes DEF Request, Phases
    <3>3. request' = [request EXCEPT ![r] = [request[r] EXCEPT !.pc = "sent", !.access = a,
                                                               !.refused = refused]]
      BY <3>1 DEF TypeOK
    <3> QED BY <3>2, <3>3 DEF TypeOK
  <2> QED BY <1>2, <2>1 DEF Begin, TypeOK
<1>3. ASSUME NEW r \in Requests, Answered(r) PROVE TypeOK'
  BY <1>3, EndedTypes DEF Answered, TypeOK
<1>4. ASSUME NEW r \in Requests, Unanswered(r) PROVE TypeOK'
  BY <1>4, EndedTypes, FaultTypes DEF Unanswered, TypeOK
<1>5. ASSUME NEW r \in Requests, Unauthorized(r) PROVE TypeOK'
  <2>1. CASE ~MayRefresh(r)
    BY <1>5, <2>1, ToLoginTypes DEF Unauthorized, TypeOK
  <2>2. CASE MayRefresh(r)
    <3>1. storage \in Pairs
      BY <2>2 DEF TypeOK, MayRefresh
    <3>2. request' \in [Requests -> Request]
      BY <1>5, <2>2, <3>1 DEF Unauthorized, TypeOK, Request, Phases
    <3>3. [pc |-> "get", pair |-> storage] \in Handler
      BY <3>1 DEF Handler
    <3>4. handler' \in [Requests -> Handler]
      BY <1>5, <2>2, <3>3 DEF Unauthorized, TypeOK
    <3> QED BY <1>5, <2>2, <3>2, <3>4 DEF Unauthorized, TypeOK
  <2> QED BY <2>1, <2>2
<1>6. ASSUME NEW r \in Requests, Adopt(r) PROVE TypeOK'
  <2>1. r \in Pairs /\ NoHandler \in Handler
    BY DEF Pairs, Handler
  <2>2. request' \in [Requests -> Request]
    <3>1. request' = [request EXCEPT ![r].pc = "again", ![r].access = r]
      BY <1>6 DEF Adopt
    <3>2. [request[r] EXCEPT !.pc = "again", !.access = r] \in Request
      BY <2>1, RequestTypes DEF Request, Phases
    <3>3. request' = [request EXCEPT ![r] = [request[r] EXCEPT !.pc = "again", !.access = r]]
      BY <3>1 DEF TypeOK
    <3> QED BY <3>2, <3>3 DEF TypeOK
  <2> QED BY <1>6, <2>1, <2>2 DEF Adopt, Adopted, TypeOK
<1>7. ASSUME NEW r \in Requests, Resend(r) PROVE TypeOK'
  <2>1. request' \in [Requests -> Request]
    <3>1. PICK a \in Pairs \cup {NoPair} :
            request' = [request EXCEPT ![r].pc = "sent", ![r].access = a]
      BY <1>7, RequestTypes DEF Resend, TypeOK
    <3>2. [request[r] EXCEPT !.pc = "sent", !.access = a] \in Request
      BY RequestTypes DEF Request, Phases
    <3>3. request' = [request EXCEPT ![r] = [request[r] EXCEPT !.pc = "sent", !.access = a]]
      BY <3>1 DEF TypeOK
    <3> QED BY <3>2, <3>3 DEF TypeOK
  <2> QED BY <1>7, <2>1 DEF Resend, TypeOK
<1>8. ASSUME NEW r \in Requests, Denied(r) PROVE TypeOK'
  <2>1. NoHandler \in Handler
    BY DEF Handler
  <2> QED BY <1>8, <2>1, ToLoginTypes DEF Denied, TypeOK
<1>9. ASSUME NEW r \in Requests, Disconnected(r) PROVE TypeOK'
  <2>1. NoHandler \in Handler
    BY DEF Handler
  <2> QED BY <1>9, <2>1, ToLoginTypes, FaultTypes DEF Disconnected, TypeOK
<1>10. ASSUME NEW r \in Requests, RefreshGet(r) PROVE TypeOK'
  <2>1. handler[r] \in [pc : {"get", "del", "issue", "granted", "denied"}, pair : Pairs]
    BY <1>10 DEF RefreshGet, TypeOK, Handler, NoHandler
  <2>2. [handler[r] EXCEPT !.pc = "del"] \in Handler
    BY <2>1 DEF Handler
  <2>3. handler' \in [Requests -> Handler]
    BY <1>10, <2>2, ReplyTypes DEF RefreshGet, TypeOK
  <2> QED BY <1>10, <2>3 DEF RefreshGet, TypeOK
<1>11. ASSUME NEW r \in Requests, RefreshDel(r) PROVE TypeOK'
  <2>1. handler[r] \in [pc : {"get", "del", "issue", "granted", "denied"}, pair : Pairs]
    BY <1>11 DEF RefreshDel, TypeOK, Handler, NoHandler
  <2>2. [handler[r] EXCEPT !.pc = "issue"] \in Handler /\ handler[r].pair \in Pairs
    BY <2>1 DEF Handler
  <2>3. session' \in [Pairs -> Statuses]
    BY <1>11, <2>2, DeletedTypes DEF RefreshDel, Statuses
  <2> QED BY <1>11, <2>2, <2>3 DEF RefreshDel, TypeOK
<1>12. ASSUME NEW r \in Requests, RefreshIssue(r) PROVE TypeOK'
  <2>1. r \in Pairs
    BY DEF Pairs
  <2> QED BY <1>12, <2>1, IssueTypes, ReplyTypes DEF RefreshIssue, TypeOK
<1>13. ASSUME NEW r \in Requests, RefreshFails(r) PROVE TypeOK'
  BY <1>13, ReplyTypes, FaultTypes DEF RefreshFails, TypeOK
<1>14. ASSUME NEW t \in Tabs, LogoutBegin(t) PROVE TypeOK'
  <2>1. [pc |-> "revoke", presented |-> storage] \in Logout
    BY <1>14 DEF LogoutBegin, TypeOK, Logout
  <2> QED BY <1>14, <2>1 DEF LogoutBegin, TypeOK
<1>15. ASSUME NEW t \in Tabs, LogoutRevoke(t) \/ LogoutFails(t) PROVE TypeOK'
  <2>1. logout[t] \in [pc : {"revoke", "clear"}, presented : Pairs]
    BY <1>15 DEF LogoutRevoke, LogoutFails, TypeOK, Logout, NoLogout
  <2>2. [logout[t] EXCEPT !.pc = "clear"] \in Logout /\ logout[t].presented \in Pairs
    BY <2>1 DEF Logout
  <2>3. CASE LogoutRevoke(t)
    <3>1. session' \in [Pairs -> Statuses]
      BY <2>3, <2>2, DeletedTypes DEF LogoutRevoke, Statuses
    <3> QED BY <2>3, <2>2, <3>1 DEF LogoutRevoke, TypeOK
  <2>4. CASE LogoutFails(t)
    BY <2>4, <2>2, FaultTypes DEF LogoutFails, TypeOK
  <2> QED BY <1>15, <2>3, <2>4
<1>16. ASSUME NEW t \in Tabs, LogoutClear(t) PROVE TypeOK'
  BY <1>16 DEF LogoutClear, TypeOK, Logout
<1>17. ASSUME NEW t \in Tabs, Leave(t) PROVE TypeOK'
  <2>1. request' \in [Requests -> Request]
    BY <1>17, EndedTypes DEF Leave, TypeOK
  <2>2. cut' \subseteq Pairs
    <3>1. \A r \in Requests : request[r].pc = "refresh" => request[r].presented \in Pairs
      BY DEF Exchanges
    <3>2. logout[t].pc # "idle" => logout[t].presented \in Pairs
      BY LogoutTypes
    <3> QED BY <1>17, <3>1, <3>2 DEF Leave, TypeOK
  <2>3. faults' \in 0 .. MaxFaults /\ lapses' \in 0 .. MaxLapses
    BY <1>17, FaultTypes DEF Leave, TypeOK
  <2>4. NoLogout \in Logout
    BY DEF Logout
  <2> QED BY <1>17, <2>1, <2>2, <2>3, <2>4 DEF Leave, TypeOK
<1>18. ASSUME NEW p \in Pairs, Expire(p) PROVE TypeOK'
  <2>1. session' \in [Pairs -> Statuses]
    BY <1>18, DeletedTypes DEF Expire, Statuses
  <2> QED BY <1>18, <2>1, FaultTypes DEF Expire, TypeOK
<1>19. CASE RouterClears
  BY <1>19 DEF RouterClears, TypeOK
<1>20. CASE Lapse
  BY <1>20, BoundsAssumption DEF Lapse, TypeOK
<1>21. CASE UNCHANGED vars
  BY <1>21 DEF vars, TypeOK
<1> QED BY <1>1, <1>2, <1>3, <1>4, <1>5, <1>6, <1>7, <1>8, <1>9, <1>10, <1>11, <1>12, <1>13, <1>14,
           <1>15, <1>16, <1>17, <1>18, <1>19, <1>20, <1>21
        DEF Next, Interceptors, Refreshing, Failing

-----------------------------------------------------------------------------
(***************************************************************************)
(* What each action does to the request, the handler and the pairs it is   *)
(* about.                                                                  *)
(***************************************************************************)
OthersStay(r) == \A q \in Requests \ {r} : request'[q] = request[q] /\ handler'[q] = handler[q]
\* The fields of a request that the exchange of its pair is remembered by.
KeepsExchange(r) ==
  request'[r].presented = request[r].presented /\ request'[r].retried = request[r].retried

LEMMA Nothing ==
  /\ NoHandler.pc = "none" /\ NoHandler.pair = NoPair
  /\ NoLogout.pc = "idle" /\ NoLogout.presented = NoPair
  /\ Ended.pc = "ended" /\ Ended.presented = NoPair /\ Ended.retried = FALSE
  /\ NewRequest.pc = "idle" /\ NewRequest.presented = NoPair /\ NewRequest.retried = FALSE
BY DEF NoHandler, NoLogout, Ended, NewRequest

LEMMA LoginEffect ==
  ASSUME TypeOK, NEW l \in Logins, Login(l)
  PROVE  /\ l \in Pairs /\ session[l] = "none" /\ storage' = l
         /\ session'[l] = "live" /\ \A p \in Pairs \ {l} : session'[p] = session[p]
         /\ request' = request /\ handler' = handler /\ logout' = logout /\ cut' = cut
BY DEF TypeOK, Login, Issue, Pairs

LEMMA BeginEffect ==
  ASSUME TypeOK, NEW r \in Requests, NEW refused \in BOOLEAN, Begin(r, refused)
  PROVE  /\ request[r].pc = "idle" /\ request'[r].pc = "sent" /\ KeepsExchange(r) /\ OthersStay(r)
         /\ request'[r] # request[r]
         /\ storage' = storage /\ session' = session /\ handler' = handler /\ logout' = logout
         /\ cut' = cut
<1>1. request' = [request EXCEPT ![r] = [request[r] EXCEPT !.pc = "sent", !.access = storage,
                                                          !.refused = refused]]
  BY DEF TypeOK, Begin
<1>2. request[r] \in Request /\ request'[r] = [request[r] EXCEPT !.pc = "sent", !.access = storage,
                                                          !.refused = refused]
  BY <1>1 DEF TypeOK
<1> QED BY <1>1, <1>2 DEF Begin, Request, KeepsExchange, OthersStay, TypeOK, server

LEMMA AnsweredEffect ==
  ASSUME TypeOK, NEW r \in Requests, Answered(r) \/ Unanswered(r)
  PROVE  /\ request[r].pc = "sent" /\ request'[r] = Ended /\ OthersStay(r)
         /\ storage' = storage /\ session' = session /\ handler' = handler /\ logout' = logout
         /\ cut' = cut
BY DEF TypeOK, Answered, Unanswered, OthersStay, server

LEMMA UnauthorizedEffect ==
  ASSUME TypeOK, NEW r \in Requests, Unauthorized(r)
  PROVE  /\ request[r].pc = "sent" /\ OthersStay(r)
         /\ session' = session /\ logout' = logout /\ cut' = cut
         /\ \/ /\ storage \in Pairs /\ storage' = storage /\ ~request[r].retried
               /\ request'[r].pc = "refresh" /\ request'[r].presented = storage
               /\ request'[r].retried
               /\ handler'[r].pc = "get" /\ handler'[r].pair = storage
            \/ storage' = NoPair /\ request'[r] = Ended /\ handler' = handler
<1>1. CASE MayRefresh(r)
  <2>1. request' = [request EXCEPT ![r] = [request[r] EXCEPT !.pc = "refresh",
                                             !.presented = storage, !.retried = TRUE]]
    BY <1>1 DEF TypeOK, Unauthorized
  <2>2. request[r] \in Request
    BY DEF TypeOK
  <2>3. /\ request'[r].pc = "refresh" /\ request'[r].presented = storage /\ request'[r].retried
        /\ \A q \in Requests \ {r} : request'[q] = request[q]
    BY <2>1, <2>2 DEF TypeOK, Request
  <2> QED BY <1>1, <2>3 DEF Unauthorized, MayRefresh, OthersStay, TypeOK
<1>2. CASE ~MayRefresh(r)
  BY <1>2 DEF Unauthorized, ToLogin, OthersStay, TypeOK
<1> QED BY <1>1, <1>2

LEMMA AdoptEffect ==
  ASSUME TypeOK, NEW r \in Requests, Adopt(r)
  PROVE  /\ r \in Pairs /\ request[r].pc = "refresh" /\ handler[r].pc = "granted"
         /\ storage' = r /\ request'[r].pc = "again" /\ request'[r].access = r
         /\ KeepsExchange(r) /\ OthersStay(r) /\ handler'[r] = NoHandler
         /\ session' = session /\ logout' = logout /\ cut' = cut
<1>1. request' = [request EXCEPT ![r] = [request[r] EXCEPT !.pc = "again", !.access = r]]
  BY DEF TypeOK, Adopt
<1>2. request[r] \in Request
  BY DEF TypeOK
<1> QED BY <1>1, <1>2 DEF Adopt, Adopted, Request, KeepsExchange, OthersStay, TypeOK, Pairs

LEMMA ResendEffect ==
  ASSUME TypeOK, NEW r \in Requests, Resend(r)
  PROVE  /\ request[r].pc = "again" /\ request'[r].pc = "sent"
         /\ request'[r].access = IF storage # NoPair THEN storage ELSE request[r].access
         /\ KeepsExchange(r) /\ OthersStay(r)
         /\ storage' = storage /\ session' = session /\ handler' = handler /\ logout' = logout
         /\ cut' = cut
<1> DEFINE a == IF storage # NoPair THEN storage ELSE request[r].access
<1>1. request' = [request EXCEPT ![r] = [request[r] EXCEPT !.pc = "sent", !.access = a]]
  BY DEF TypeOK, Resend
<1>2. request[r] \in Request
  BY DEF TypeOK
<1>3. request'[r] = [request[r] EXCEPT !.pc = "sent", !.access = a]
      /\ \A q \in Requests \ {r} : request'[q] = request[q]
  BY <1>1 DEF TypeOK
<1>4. request'[r].access = a
  <2> HIDE DEF a
  <2> QED BY <1>2, <1>3 DEF Request
<1> QED BY <1>2, <1>3, <1>4 DEF Resend, Request, KeepsExchange, OthersStay, TypeOK, server

\* The page goes to /login; its handler may go on without it.
LEMMA LoginPageEffect ==
  ASSUME TypeOK, NEW r \in Requests, Denied(r) \/ Disconnected(r)
  PROVE  /\ request[r].pc = "refresh" /\ request'[r] = Ended /\ storage' = NoPair /\ OthersStay(r)
         /\ handler'[r] \in {NoHandler, handler[r]}
         /\ session' = session /\ logout' = logout /\ cut' = cut
BY DEF TypeOK, Denied, Disconnected, ToLogin, OthersStay

\* A step of the server, which the page does not see.
ServerStep(r) ==
  /\ handler[r].pc # "none" /\ OthersStay(r)
  /\ \/ handler'[r] = NoHandler /\ request[r].pc # "refresh"
     \/ handler'[r].pc # "none" /\ handler'[r].pair = handler[r].pair
  /\ request' = request /\ storage' = storage /\ logout' = logout /\ cut' = cut

LEMMA ReplyEffect ==
  ASSUME TypeOK, NEW r \in Requests, NEW a \in {"granted", "denied"}, Reply(r, a),
         handler[r].pc # "none"
  PROVE  /\ \A q \in Requests \ {r} : handler'[q] = handler[q]
         /\ \/ handler'[r] = NoHandler /\ request[r].pc # "refresh"
            \/ handler'[r].pc = a /\ handler'[r].pair = handler[r].pair
<1>1. handler[r] \in [pc : {"get", "del", "issue", "granted", "denied"}, pair : Pairs]
  BY DEF TypeOK, Handler, NoHandler
<1>2. [handler[r] EXCEPT !.pc = a].pc = a /\ [handler[r] EXCEPT !.pc = a].pair = handler[r].pair
  BY <1>1
<1>3. handler' = [handler EXCEPT ![r] = IF request[r].pc = "refresh"
                                        THEN [handler[r] EXCEPT !.pc = a] ELSE NoHandler]
  BY DEF Reply
<1> QED BY <1>2, <1>3 DEF TypeOK

LEMMA MovedEffect ==
  ASSUME TypeOK, NEW r \in Requests, NEW a \in {"del", "issue"}, handler[r].pc # "none",
         handler' = [handler EXCEPT ![r].pc = a]
  PROVE  /\ \A q \in Requests \ {r} : handler'[q] = handler[q]
         /\ handler'[r].pc = a /\ handler'[r].pair = handler[r].pair
<1>1. handler[r] \in [pc : {"get", "del", "issue", "granted", "denied"}, pair : Pairs]
  BY DEF TypeOK, Handler, NoHandler
<1> QED BY <1>1 DEF TypeOK

LEMMA GetEffect ==
  ASSUME TypeOK, NEW r \in Requests, RefreshGet(r) \/ RefreshFails(r)
  PROVE  ServerStep(r) /\ handler[r].pc \in {"get", "del", "issue"} /\ session' = session
         /\ (request[r].pc = "refresh" =>
               handler'[r].pc = "denied" \/ (handler[r].pc = "get" /\ handler'[r].pc = "del"))
<1>1. CASE RefreshGet(r) /\ session[handler[r].pair] = "live"
  <2>1. handler' = [handler EXCEPT ![r].pc = "del"]
    BY <1>1 DEF RefreshGet, Reply
  <2> QED BY <1>1, <2>1, MovedEffect DEF RefreshGet, ServerStep, OthersStay, browser
<1>2. CASE (RefreshGet(r) /\ session[handler[r].pair] # "live") \/ RefreshFails(r)
  <2>1. Reply(r, "denied") /\ handler[r].pc \in {"get", "del", "issue"}
    BY <1>2 DEF RefreshGet, RefreshFails
  <2>2. UNCHANGED <<session, browser>>
    BY <1>2 DEF RefreshGet, RefreshFails
  <2> QED BY <2>1, <2>2, ReplyEffect DEF ServerStep, OthersStay, browser
<1> QED BY <1>1, <1>2

LEMMA DelEffect ==
  ASSUME TypeOK, NEW r \in Requests, RefreshDel(r)
  PROVE  /\ ServerStep(r) /\ handler[r].pc = "del" /\ handler'[r].pc = "issue"
         /\ handler[r].pair \in Pairs
         /\ \A p \in Pairs \ {handler[r].pair} : session'[p] = session[p]
         /\ session'[handler[r].pair] = "none" => session[handler[r].pair] = "none"
<1>1. handler[r].pc = "del" /\ handler[r].pair \in Pairs
  BY RequestTypes DEF RefreshDel
<1>2. /\ \A p \in Pairs \ {handler[r].pair} : session'[p] = session[p]
      /\ session'[handler[r].pair] = "none" => session[handler[r].pair] = "none"
  BY <1>1 DEF RefreshDel, Deleted, TypeOK
<1> QED BY <1>1, <1>2, MovedEffect DEF RefreshDel, ServerStep, OthersStay, browser

LEMMA IssueEffect ==
  ASSUME TypeOK, NEW r \in Requests, RefreshIssue(r)
  PROVE  /\ ServerStep(r) /\ r \in Pairs /\ session'[r] = "live" /\ handler[r].pc = "issue"
         /\ \A p \in Pairs \ {r} : session'[p] = session[p]
         /\ request[r].pc = "refresh" => handler'[r].pc = "granted"
BY ReplyEffect DEF RefreshIssue, Issue, ServerStep, OthersStay, browser, TypeOK, Pairs

LEMMA LogoutBeginEffect ==
  ASSUME TypeOK, NEW t \in Tabs, LogoutBegin(t)
  PROVE  /\ storage \in Pairs /\ logout[t].pc = "idle"
         /\ logout'[t].pc = "revoke" /\ logout'[t].presented = storage
         /\ \A u \in Tabs \ {t} : logout'[u] = logout[u]
         /\ storage' = storage /\ session' = session /\ request' = request /\ handler' = handler
         /\ cut' = cut
BY DEF LogoutBegin, TypeOK, server

LEMMA RevokeEffect ==
  ASSUME TypeOK, NEW t \in Tabs, LogoutRevoke(t) \/ LogoutFails(t)
  PROVE  /\ logout[t].presented \in Pairs /\ logout[t].pc = "revoke"
         /\ logout'[t].pc = "clear" /\ logout'[t].presented = logout[t].presented
         /\ \A u \in Tabs \ {t} : logout'[u] = logout[u]
         /\ \A p \in Pairs \ {logout[t].presented} : session'[p] = session[p]
         /\ session'[logout[t].presented] = "none" => session[logout[t].presented] = "none"
         /\ storage' = storage /\ request' = request /\ handler' = handler /\ cut' = cut
<1>1. logout[t] \in [pc : {"revoke", "clear"}, presented : Pairs]
  BY DEF TypeOK, Logout, NoLogout, LogoutRevoke, LogoutFails
<1>2. logout' = [logout EXCEPT ![t].pc = "clear"]
  BY DEF LogoutRevoke, LogoutFails
<1>3. logout'[t].pc = "clear" /\ logout'[t].presented = logout[t].presented
      /\ \A u \in Tabs \ {t} : logout'[u] = logout[u]
  BY <1>1, <1>2 DEF TypeOK
<1>4. /\ \A p \in Pairs \ {logout[t].presented} : session'[p] = session[p]
      /\ session'[logout[t].presented] = "none" => session[logout[t].presented] = "none"
  BY <1>1 DEF LogoutRevoke, LogoutFails, Deleted, TypeOK, server
<1> QED BY <1>1, <1>3, <1>4 DEF LogoutRevoke, LogoutFails, server

LEMMA LogoutClearEffect ==
  ASSUME TypeOK, NEW t \in Tabs, LogoutClear(t)
  PROVE  /\ storage' = NoPair /\ logout'[t] = NoLogout /\ \A u \in Tabs \ {t} : logout'[u] = logout[u]
         /\ session' = session /\ request' = request /\ handler' = handler /\ cut' = cut
BY DEF LogoutClear, TypeOK, server

LEMMA LeaveEffect ==
  ASSUME TypeOK, NEW t \in Tabs, Leave(t)
  PROVE  /\ \A q \in Requests : \/ request'[q] = request[q]
                                \/ request[q].pc \in Running /\ request'[q] = Ended
         /\ \A q \in Requests : request[q].pc = "refresh" /\ request'[q] # request[q] =>
              request[q].presented \in cut'
         /\ logout[t].pc # "idle" => logout[t].presented \in cut'
         /\ cut \subseteq cut'
         /\ \A p \in cut' : Mentioned(p)
         /\ logout'[t] = NoLogout /\ \A u \in Tabs \ {t} : logout'[u] = logout[u]
         /\ storage' = storage /\ session' = session /\ handler' = handler
<1> DEFINE mine == {r \in Requests : Tab[r] = t /\ request[r].pc \in Running}
<1>1. \A r \in Requests : request'[r] = IF r \in mine THEN Ended ELSE request[r]
  BY DEF Leave
<1>2. cut' = cut \cup {request[r].presented : r \in {q \in mine : request[q].pc = "refresh"}}
                       \cup (IF logout[t].pc # "idle" THEN {logout[t].presented} ELSE {})
  BY DEF Leave
<1>3. \A p \in cut' : Mentioned(p)
  BY <1>2 DEF Mentioned
<1>4. logout'[t] = NoLogout /\ \A u \in Tabs \ {t} : logout'[u] = logout[u]
  BY DEF Leave, TypeOK
<1> QED BY <1>1, <1>2, <1>3, <1>4 DEF Leave, server

LEMMA ExpireEffect ==
  ASSUME TypeOK, NEW p \in Pairs, Expire(p)
  PROVE  /\ session'[p] = "expired" /\ session[p] = "live"
         /\ \A q \in Pairs \ {p} : session'[q] = session[q]
         /\ storage' = storage /\ request' = request /\ handler' = handler /\ logout' = logout
         /\ cut' = cut
BY DEF Expire, Deleted, TypeOK, browser

LEMMA QuietEffect ==
  ASSUME RouterClears \/ Lapse \/ UNCHANGED vars
  PROVE  /\ storage' \in {storage, NoPair} /\ session' = session /\ request' = request
         /\ handler' = handler /\ logout' = logout /\ cut' = cut
BY DEF RouterClears, Lapse, vars, browser, server

-----------------------------------------------------------------------------
(***************************************************************************)
(* The invariant is kept.                                                  *)
(***************************************************************************)
LEMMA Unnamed ==
  ASSUME StoredFirst, NEW p \in Pairs, Coming(p)
  PROVE  /\ storage # p /\ p \notin cut
         /\ \A r \in Requests : request[r].presented # p /\ handler[r].pair # p
         /\ \A t \in Tabs : logout[t].presented # p
BY DEF StoredFirst, Mentioned

LEMMA StepStoredFirst == PairsInv /\ TypeOK' /\ [Next]_vars => StoredFirst'
<1> SUFFICES ASSUME PairsInv, TypeOK', [Next]_vars, NEW p \in Pairs, Coming(p)'
             PROVE  ~Mentioned(p)'
  BY DEF StoredFirst
<1> USE PairsNotNone, Nothing, Unnamed DEF PairsInv, OthersStay, KeepsExchange, ServerStep
<1>0. (p \in Logins /\ p \notin Requests) \/ (p \in Requests /\ p \notin Logins)
  BY PairsAssumption DEF Pairs
<1>1. ASSUME NEW l \in Logins, Login(l) PROVE ~Mentioned(p)'
  <2>1. Coming(p) /\ p # l
    BY <1>1, LoginEffect DEF Coming
  <2> QED BY <1>1, <2>1, LoginEffect DEF Mentioned
<1>2. ASSUME NEW r \in Requests, NEW refused \in BOOLEAN, Begin(r, refused) PROVE ~Mentioned(p)'
  <2>1. Coming(p)
    BY <1>0, <1>2, BeginEffect DEF Coming
  <2> QED BY <1>0, <1>2, <2>1, BeginEffect DEF Mentioned
<1>3. ASSUME NEW r \in Requests, Answered(r) \/ Unanswered(r) PROVE ~Mentioned(p)'
  <2>1. Coming(p)
    BY <1>0, <1>3, AnsweredEffect DEF Coming
  <2> QED BY <1>0, <1>3, <2>1, AnsweredEffect DEF Mentioned
<1>4. ASSUME NEW r \in Requests, Unauthorized(r) PROVE ~Mentioned(p)'
  <2>1. Coming(p)
    BY <1>0, <1>4, UnauthorizedEffect DEF Coming
  <2>2. CASE storage' = NoPair
    BY <1>4, <2>1, <2>2, UnauthorizedEffect DEF Mentioned
  <2> QED BY <1>4, <2>1, <2>2, UnauthorizedEffect DEF Mentioned
<1>5. ASSUME NEW r \in Requests, Adopt(r) PROVE ~Mentioned(p)'
  <2>1. Coming(p) /\ p # r
    BY <1>0, <1>5, AdoptEffect DEF Coming
  <2> QED BY <1>5, <2>1, AdoptEffect DEF Mentioned
<1>6. ASSUME NEW r \in Requests, Resend(r) PROVE ~Mentioned(p)'
  <2>1. Coming(p)
    BY <1>0, <1>6, ResendEffect, RequestTypes DEF Coming, Exchanges
  <2> QED BY <1>0, <1>6, <2>1, ResendEffect DEF Mentioned
<1>7. ASSUME NEW r \in Requests, Denied(r) \/ Disconnected(r) PROVE ~Mentioned(p)'
  <2>1. Coming(p)
    BY <1>0, <1>7, LoginPageEffect DEF Coming
  <2> QED BY <1>0, <1>7, <2>1, LoginPageEffect DEF Mentioned
<1>8. ASSUME NEW r \in Requests, RefreshGet(r) \/ RefreshFails(r) PROVE ~Mentioned(p)'
  BY <1>8, GetEffect DEF StoredFirst, Coming, Mentioned
<1>9. ASSUME NEW r \in Requests, RefreshDel(r) PROVE ~Mentioned(p)'
  <2>1. Coming(p)
    BY <1>0, <1>9, DelEffect DEF Coming
  <2> QED BY <1>0, <1>9, <2>1, DelEffect DEF Mentioned
<1>10. ASSUME NEW r \in Requests, RefreshIssue(r) PROVE ~Mentioned(p)'
  BY <1>10, IssueEffect DEF StoredFirst, Coming, Mentioned
<1>11. ASSUME NEW t \in Tabs, LogoutBegin(t) PROVE ~Mentioned(p)'
  BY <1>11, LogoutBeginEffect DEF StoredFirst, Coming, Mentioned
<1>12. ASSUME NEW t \in Tabs, LogoutRevoke(t) \/ LogoutFails(t) PROVE ~Mentioned(p)'
  BY <1>12, RevokeEffect DEF StoredFirst, Coming, Mentioned
<1>13. ASSUME NEW t \in Tabs, LogoutClear(t) PROVE ~Mentioned(p)'
  BY <1>13, LogoutClearEffect DEF StoredFirst, Coming, Mentioned
<1>14. ASSUME NEW t \in Tabs, Leave(t) PROVE ~Mentioned(p)'
  <2>1. Coming(p)
    BY <1>0, <1>14, LeaveEffect DEF Coming
  <2> QED BY <1>0, <1>14, <2>1, LeaveEffect DEF Mentioned
<1>15. ASSUME NEW o \in Pairs, Expire(o) PROVE ~Mentioned(p)'
  BY <1>15, ExpireEffect DEF StoredFirst, Coming, Mentioned
<1>16. CASE RouterClears \/ Lapse \/ UNCHANGED vars
  BY <1>16, QuietEffect DEF StoredFirst, Coming, Mentioned
<1> QED BY <1>1, <1>2, <1>3, <1>4, <1>5, <1>6, <1>7, <1>8, <1>9, <1>10, <1>11, <1>12, <1>13, <1>14, <1>15, <1>16
       DEF Next, Interceptors, Refreshing, Failing

LEMMA StepExchanges == PairsInv /\ TypeOK' /\ [Next]_vars => Exchanges'
<1> SUFFICES ASSUME PairsInv, TypeOK', [Next]_vars PROVE Exchanges'
  OBVIOUS
<1> USE PairsNotNone, Nothing, Unnamed DEF PairsInv, OthersStay, KeepsExchange, ServerStep
<1>1. ASSUME NEW l \in Logins, Login(l) PROVE Exchanges'
  <2>1. Coming(l)
    BY <1>1, LoginEffect DEF Coming
  <2> QED BY <1>1, <2>1, LoginEffect, RequestTypes DEF Exchanges
<1>2. ASSUME NEW r \in Requests, NEW refused \in BOOLEAN, Begin(r, refused) PROVE Exchanges'
  BY <1>2, BeginEffect DEF Exchanges
<1>3. ASSUME NEW r \in Requests, Answered(r) \/ Unanswered(r) PROVE Exchanges'
  BY <1>3, AnsweredEffect DEF Exchanges
<1>4. ASSUME NEW r \in Requests, Unauthorized(r) PROVE Exchanges'
  BY <1>4, UnauthorizedEffect DEF Exchanges
<1>5. ASSUME NEW r \in Requests, Adopt(r) PROVE Exchanges'
  <2>1. Coming(r)
    BY <1>5, AdoptEffect, PairsAssumption DEF Coming
  <2> QED BY <1>5, <2>1, AdoptEffect, RequestTypes DEF Exchanges
<1>6. ASSUME NEW r \in Requests, Resend(r) PROVE Exchanges'
  BY <1>6, ResendEffect DEF Exchanges
<1>7. ASSUME NEW r \in Requests, Denied(r) \/ Disconnected(r) PROVE Exchanges'
  BY <1>7, LoginPageEffect DEF Exchanges
<1>8. ASSUME NEW r \in Requests, RefreshGet(r) \/ RefreshFails(r) PROVE Exchanges'
  BY <1>8, GetEffect DEF Exchanges
<1>9. ASSUME NEW r \in Requests, RefreshDel(r) PROVE Exchanges'
  BY <1>9, DelEffect DEF Exchanges
<1>10. ASSUME NEW r \in Requests, RefreshIssue(r) PROVE Exchanges'
  BY <1>10, IssueEffect DEF Exchanges
<1>11. ASSUME NEW t \in Tabs, LogoutBegin(t) PROVE Exchanges'
  BY <1>11, LogoutBeginEffect DEF Exchanges
<1>12. ASSUME NEW t \in Tabs, LogoutRevoke(t) \/ LogoutFails(t) PROVE Exchanges'
  BY <1>12, RevokeEffect DEF Exchanges
<1>13. ASSUME NEW t \in Tabs, LogoutClear(t) PROVE Exchanges'
  BY <1>13, LogoutClearEffect DEF Exchanges
<1>14. ASSUME NEW t \in Tabs, Leave(t) PROVE Exchanges'
  BY <1>14, LeaveEffect DEF Exchanges
<1>15. ASSUME NEW o \in Pairs, Expire(o) PROVE Exchanges'
  BY <1>15, ExpireEffect DEF Exchanges
<1>16. CASE RouterClears \/ Lapse \/ UNCHANGED vars
  BY <1>16, QuietEffect DEF Exchanges
<1> QED BY <1>1, <1>2, <1>3, <1>4, <1>5, <1>6, <1>7, <1>8, <1>9, <1>10, <1>11, <1>12, <1>13, <1>14, <1>15, <1>16
       DEF Next, Interceptors, Refreshing, Failing

LEMMA StepStoredIsSettled == PairsInv /\ TypeOK' /\ [Next]_vars => StoredIsSettled'
<1> SUFFICES ASSUME PairsInv, TypeOK', [Next]_vars PROVE StoredIsSettled'
  OBVIOUS
<1> USE PairsNotNone, Nothing, Unnamed DEF PairsInv, OthersStay, KeepsExchange, ServerStep
<1>1. ASSUME NEW l \in Logins, Login(l) PROVE StoredIsSettled'
  <2>1. Coming(l)
    BY <1>1, LoginEffect DEF Coming
  <2> QED BY <1>1, <2>1, LoginEffect, RequestTypes DEF StoredIsSettled
<1>2. ASSUME NEW r \in Requests, NEW refused \in BOOLEAN, Begin(r, refused) PROVE StoredIsSettled'
  BY <1>2, BeginEffect DEF StoredIsSettled
<1>3. ASSUME NEW r \in Requests, Answered(r) \/ Unanswered(r) PROVE StoredIsSettled'
  BY <1>3, AnsweredEffect DEF StoredIsSettled
<1>4. ASSUME NEW r \in Requests, Unauthorized(r) PROVE StoredIsSettled'
  BY <1>4, UnauthorizedEffect, RequestTypes DEF StoredIsSettled, Exchanges, Running
<1>5. ASSUME NEW r \in Requests, Adopt(r) PROVE StoredIsSettled'
  <2>1. Coming(r)
    BY <1>5, AdoptEffect, PairsAssumption DEF Coming
  <2> QED BY <1>5, <2>1, AdoptEffect, RequestTypes DEF StoredIsSettled
<1>6. ASSUME NEW r \in Requests, Resend(r) PROVE StoredIsSettled'
  BY <1>6, ResendEffect DEF StoredIsSettled
<1>7. ASSUME NEW r \in Requests, Denied(r) \/ Disconnected(r) PROVE StoredIsSettled'
  BY <1>7, LoginPageEffect, RequestTypes DEF StoredIsSettled, Exchanges, Running
<1>8. ASSUME NEW r \in Requests, RefreshGet(r) \/ RefreshFails(r) PROVE StoredIsSettled'
  BY <1>8, GetEffect DEF StoredIsSettled
<1>9. ASSUME NEW r \in Requests, RefreshDel(r) PROVE StoredIsSettled'
  BY <1>9, DelEffect DEF StoredIsSettled
<1>10. ASSUME NEW r \in Requests, RefreshIssue(r) PROVE StoredIsSettled'
  BY <1>10, IssueEffect DEF StoredIsSettled
<1>11. ASSUME NEW t \in Tabs, LogoutBegin(t) PROVE StoredIsSettled'
  BY <1>11, LogoutBeginEffect DEF StoredIsSettled
<1>12. ASSUME NEW t \in Tabs, LogoutRevoke(t) \/ LogoutFails(t) PROVE StoredIsSettled'
  BY <1>12, RevokeEffect DEF StoredIsSettled
<1>13. ASSUME NEW t \in Tabs, LogoutClear(t) PROVE StoredIsSettled'
  BY <1>13, LogoutClearEffect, RequestTypes DEF StoredIsSettled, Exchanges, Running
<1>14. ASSUME NEW t \in Tabs, Leave(t) PROVE StoredIsSettled'
  BY <1>14, LeaveEffect, RequestTypes DEF StoredIsSettled, Exchanges, Running
<1>15. ASSUME NEW o \in Pairs, Expire(o) PROVE StoredIsSettled'
  BY <1>15, ExpireEffect DEF StoredIsSettled
<1>16. CASE RouterClears \/ Lapse \/ UNCHANGED vars
  BY <1>16, QuietEffect, RequestTypes DEF StoredIsSettled, Exchanges, Running
<1> QED BY <1>1, <1>2, <1>3, <1>4, <1>5, <1>6, <1>7, <1>8, <1>9, <1>10, <1>11, <1>12, <1>13, <1>14, <1>15, <1>16
       DEF Next, Interceptors, Refreshing, Failing

LEMMA StepGrantedIsGood == PairsInv /\ TypeOK' /\ [Next]_vars => GrantedIsGood'
<1> SUFFICES ASSUME PairsInv, TypeOK', [Next]_vars PROVE GrantedIsGood'
  OBVIOUS
<1> USE PairsNotNone, Nothing, Unnamed DEF PairsInv, OthersStay, KeepsExchange, ServerStep
<1>1. ASSUME NEW l \in Logins, Login(l) PROVE GrantedIsGood'
  BY <1>1, LoginEffect, PairsAssumption DEF GrantedIsGood, Pairs
<1>2. ASSUME NEW r \in Requests, NEW refused \in BOOLEAN, Begin(r, refused) PROVE GrantedIsGood'
  BY <1>2, BeginEffect DEF GrantedIsGood
<1>3. ASSUME NEW r \in Requests, Answered(r) \/ Unanswered(r) PROVE GrantedIsGood'
  BY <1>3, AnsweredEffect DEF GrantedIsGood
<1>4. ASSUME NEW r \in Requests, Unauthorized(r) PROVE GrantedIsGood'
  BY <1>4, UnauthorizedEffect DEF GrantedIsGood
<1>5. ASSUME NEW r \in Requests, Adopt(r) PROVE GrantedIsGood'
  BY <1>5, AdoptEffect DEF GrantedIsGood
<1>6. ASSUME NEW r \in Requests, Resend(r) PROVE GrantedIsGood'
  BY <1>6, ResendEffect DEF GrantedIsGood
<1>7. ASSUME NEW r \in Requests, Denied(r) \/ Disconnected(r) PROVE GrantedIsGood'
  BY <1>7, LoginPageEffect DEF GrantedIsGood
<1>8. ASSUME NEW r \in Requests, RefreshGet(r) \/ RefreshFails(r) PROVE GrantedIsGood'
  BY <1>8, GetEffect DEF GrantedIsGood
<1>9. ASSUME NEW r \in Requests, RefreshDel(r) PROVE GrantedIsGood'
  <2>1. ASSUME NEW q \in Requests, request[q].pc = "refresh"
        PROVE  q \in Pairs /\ q # handler[r].pair
    <3>1. Coming(q) /\ q \in Pairs
      BY <2>1, PairsAssumption DEF Coming, Pairs
    <3> QED BY <3>1
  <2> QED BY <1>9, <2>1, DelEffect DEF GrantedIsGood
<1>10. ASSUME NEW r \in Requests, RefreshIssue(r) PROVE GrantedIsGood'
  BY <1>10, IssueEffect DEF GrantedIsGood, Pairs
<1>11. ASSUME NEW t \in Tabs, LogoutBegin(t) PROVE GrantedIsGood'
  BY <1>11, LogoutBeginEffect DEF GrantedIsGood
<1>12. ASSUME NEW t \in Tabs, LogoutRevoke(t) \/ LogoutFails(t) PROVE GrantedIsGood'
  <2>1. ASSUME NEW q \in Requests, request[q].pc = "refresh"
        PROVE  q \in Pairs /\ q # logout[t].presented
    <3>1. Coming(q) /\ q \in Pairs
      BY <2>1, PairsAssumption DEF Coming, Pairs
    <3> QED BY <3>1
  <2> QED BY <1>12, <2>1, RevokeEffect DEF GrantedIsGood
<1>13. ASSUME NEW t \in Tabs, LogoutClear(t) PROVE GrantedIsGood'
  BY <1>13, LogoutClearEffect DEF GrantedIsGood
<1>14. ASSUME NEW t \in Tabs, Leave(t) PROVE GrantedIsGood'
  BY <1>14, LeaveEffect DEF GrantedIsGood
<1>15. ASSUME NEW o \in Pairs, Expire(o) PROVE GrantedIsGood'
  BY <1>15, ExpireEffect DEF GrantedIsGood, Pairs
<1>16. CASE RouterClears \/ Lapse \/ UNCHANGED vars
  BY <1>16, QuietEffect DEF GrantedIsGood
<1> QED BY <1>1, <1>2, <1>3, <1>4, <1>5, <1>6, <1>7, <1>8, <1>9, <1>10, <1>11, <1>12, <1>13, <1>14, <1>15, <1>16
       DEF Next, Interceptors, Refreshing, Failing

LEMMA StepStoredIsAccepted == PairsInv /\ TypeOK' /\ [Next]_vars => StoredIsAccepted'
<1> SUFFICES ASSUME PairsInv, TypeOK', [Next]_vars PROVE StoredIsAccepted'
  OBVIOUS
<1> USE PairsNotNone, Nothing, Unnamed DEF PairsInv, OthersStay, KeepsExchange, ServerStep
<1>1. ASSUME NEW l \in Logins, Login(l) PROVE StoredIsAccepted'
  BY <1>1, LoginEffect DEF StoredIsAccepted, Settling
<1>2. ASSUME NEW r \in Requests, NEW refused \in BOOLEAN, Begin(r, refused) PROVE StoredIsAccepted'
  BY <1>2, BeginEffect DEF StoredIsAccepted, Settling
<1>3. ASSUME NEW r \in Requests, Answered(r) \/ Unanswered(r) PROVE StoredIsAccepted'
  BY <1>3, AnsweredEffect DEF StoredIsAccepted, Settling
<1>4. ASSUME NEW r \in Requests, Unauthorized(r) PROVE StoredIsAccepted'
  BY <1>4, UnauthorizedEffect DEF StoredIsAccepted, Settling
<1>5. ASSUME NEW r \in Requests, Adopt(r) PROVE StoredIsAccepted'
  BY <1>5, AdoptEffect DEF StoredIsAccepted, GrantedIsGood
<1>6. ASSUME NEW r \in Requests, Resend(r) PROVE StoredIsAccepted'
  BY <1>6, ResendEffect DEF StoredIsAccepted, Settling
<1>7. ASSUME NEW r \in Requests, Denied(r) \/ Disconnected(r) PROVE StoredIsAccepted'
  BY <1>7, LoginPageEffect DEF StoredIsAccepted, Settling
<1>8. ASSUME NEW r \in Requests, RefreshGet(r) \/ RefreshFails(r) PROVE StoredIsAccepted'
  BY <1>8, GetEffect DEF StoredIsAccepted, Settling
<1>9. ASSUME NEW r \in Requests, RefreshDel(r) PROVE StoredIsAccepted'
  <2>1. storage' = handler[r].pair => (Settling(storage) \/ storage \in cut)'
    BY <1>9, DelEffect DEF StoredIsSettled, Exchanges, Settling
  <2> QED BY <1>9, <2>1, DelEffect DEF StoredIsAccepted, Settling, TypeOK
<1>10. ASSUME NEW r \in Requests, RefreshIssue(r) PROVE StoredIsAccepted'
  BY <1>10, IssueEffect DEF StoredIsAccepted, Settling, TypeOK
<1>11. ASSUME NEW t \in Tabs, LogoutBegin(t) PROVE StoredIsAccepted'
  BY <1>11, LogoutBeginEffect DEF StoredIsAccepted, Settling
<1>12. ASSUME NEW t \in Tabs, LogoutRevoke(t) \/ LogoutFails(t) PROVE StoredIsAccepted'
  <2>1. storage' = logout[t].presented => Settling(storage)'
    BY <1>12, RevokeEffect DEF Settling
  <2> QED BY <1>12, <2>1, RevokeEffect DEF StoredIsAccepted, Settling, TypeOK
<1>13. ASSUME NEW t \in Tabs, LogoutClear(t) PROVE StoredIsAccepted'
  BY <1>13, LogoutClearEffect DEF StoredIsAccepted, Settling
<1>14. ASSUME NEW t \in Tabs, Leave(t) PROVE StoredIsAccepted'
  BY <1>14, LeaveEffect DEF StoredIsAccepted, Settling
<1>15. ASSUME NEW o \in Pairs, Expire(o) PROVE StoredIsAccepted'
  <2>1. Settling(storage)' <=> Settling(storage)
    BY <1>15, ExpireEffect DEF Settling
  <2> QED BY <1>15, <2>1, ExpireEffect DEF StoredIsAccepted, TypeOK
<1>16. CASE RouterClears \/ Lapse \/ UNCHANGED vars
  BY <1>16, QuietEffect DEF StoredIsAccepted, Settling
<1> QED BY <1>1, <1>2, <1>3, <1>4, <1>5, <1>6, <1>7, <1>8, <1>9, <1>10, <1>11, <1>12, <1>13, <1>14, <1>15, <1>16
       DEF Next, Interceptors, Refreshing, Failing

LEMMA StepRetryIsNew == PairsInv /\ TypeOK' /\ [Next]_vars => RetryIsNew'
<1> SUFFICES ASSUME PairsInv, TypeOK', [Next]_vars PROVE RetryIsNew'
  OBVIOUS
<1> USE PairsNotNone, Nothing, Unnamed DEF PairsInv, OthersStay, KeepsExchange, ServerStep
<1>1. ASSUME NEW l \in Logins, Login(l) PROVE RetryIsNew'
  BY <1>1, LoginEffect DEF RetryIsNew
<1>2. ASSUME NEW r \in Requests, NEW refused \in BOOLEAN, Begin(r, refused) PROVE RetryIsNew'
  BY <1>2, BeginEffect DEF RetryIsNew, Exchanges
<1>3. ASSUME NEW r \in Requests, Answered(r) \/ Unanswered(r) PROVE RetryIsNew'
  BY <1>3, AnsweredEffect DEF RetryIsNew
<1>4. ASSUME NEW r \in Requests, Unauthorized(r) PROVE RetryIsNew'
  BY <1>4, UnauthorizedEffect DEF RetryIsNew
<1>5. ASSUME NEW r \in Requests, Adopt(r) PROVE RetryIsNew'
  BY <1>5, AdoptEffect DEF RetryIsNew
<1>6. ASSUME NEW r \in Requests, Resend(r) PROVE RetryIsNew'
  BY <1>6, ResendEffect DEF RetryIsNew, Exchanges, TypeOK
<1>7. ASSUME NEW r \in Requests, Denied(r) \/ Disconnected(r) PROVE RetryIsNew'
  BY <1>7, LoginPageEffect DEF RetryIsNew
<1>8. ASSUME NEW r \in Requests, RefreshGet(r) \/ RefreshFails(r) PROVE RetryIsNew'
  BY <1>8, GetEffect DEF RetryIsNew
<1>9. ASSUME NEW r \in Requests, RefreshDel(r) PROVE RetryIsNew'
  BY <1>9, DelEffect DEF RetryIsNew
<1>10. ASSUME NEW r \in Requests, RefreshIssue(r) PROVE RetryIsNew'
  BY <1>10, IssueEffect DEF RetryIsNew
<1>11. ASSUME NEW t \in Tabs, LogoutBegin(t) PROVE RetryIsNew'
  BY <1>11, LogoutBeginEffect DEF RetryIsNew
<1>12. ASSUME NEW t \in Tabs, LogoutRevoke(t) \/ LogoutFails(t) PROVE RetryIsNew'
  BY <1>12, RevokeEffect DEF RetryIsNew
<1>13. ASSUME NEW t \in Tabs, LogoutClear(t) PROVE RetryIsNew'
  BY <1>13, LogoutClearEffect DEF RetryIsNew
<1>14. ASSUME NEW t \in Tabs, Leave(t) PROVE RetryIsNew'
  BY <1>14, LeaveEffect DEF RetryIsNew
<1>15. ASSUME NEW o \in Pairs, Expire(o) PROVE RetryIsNew'
  BY <1>15, ExpireEffect DEF RetryIsNew
<1>16. CASE RouterClears \/ Lapse \/ UNCHANGED vars
  BY <1>16, QuietEffect DEF RetryIsNew
<1> QED BY <1>1, <1>2, <1>3, <1>4, <1>5, <1>6, <1>7, <1>8, <1>9, <1>10, <1>11, <1>12, <1>13, <1>14, <1>15, <1>16
       DEF Next, Interceptors, Refreshing, Failing

LEMMA InitPairs == Init => PairsInv
<1> SUFFICES ASSUME Init PROVE PairsInv
  OBVIOUS
<1>1. TypeOK
  BY InitTypes
<1>2. \A p \in Pairs : ~Mentioned(p)
  BY PairsNotNone, Nothing DEF Init, Mentioned
<1> QED BY <1>1, <1>2, Nothing
        DEF Init, PairsInv, StoredIsAccepted, RetryIsNew, StoredFirst, Exchanges, StoredIsSettled, GrantedIsGood

LEMMA StepPairs == PairsInv /\ [Next]_vars => PairsInv'
<1> SUFFICES ASSUME PairsInv, [Next]_vars PROVE PairsInv'
  OBVIOUS
<1>1. TypeOK'
  BY StepTypes DEF PairsInv
<1> QED BY <1>1, StepStoredFirst, StepExchanges, StepStoredIsSettled, StepGrantedIsGood,
           StepStoredIsAccepted, StepRetryIsNew
        DEF PairsInv

LEMMA PairsInvariant == Spec => []PairsInv
<1>1. Init => PairsInv
  BY InitPairs
<1>2. PairsInv /\ [Next]_vars => PairsInv'
  BY StepPairs
<1> QED BY <1>1, <1>2, PTL DEF Spec

\* For any number of tabs, requests, logins and failures: what the browser keeps
\* is a pair the server takes, unless a request or a logout is about to replace it
\* or was cut off with its page; and a request goes out again with another pair than
\* the one the interceptor exchanged for it.
THEOREM PagesKeepUsablePairs == Spec => []PairsAreUsable
<1>1. PairsInv => PairsAreUsable
  BY DEF PairsInv, PairsAreUsable
<1> QED BY <1>1, PairsInvariant, PTL

-----------------------------------------------------------------------------
(***************************************************************************)
(* The interceptors come to an end: StepsLeft is the variant, and what a   *)
(* step of a request or of its refresh makes of it follows from the states *)
(* it leads from and to.                                                   *)
(***************************************************************************)
ServerSteps(pc) ==
  CASE pc \in {"none", "granted", "denied"} -> 0
    [] pc = "issue" -> 1
    [] pc = "del" -> 2
    [] pc = "get" -> 3

StepsOf(req, pc) ==
  CASE req.pc = "idle" -> 8
    [] req.pc = "sent" -> IF req.retried THEN 1 ELSE 7
    [] req.pc = "refresh" -> 3 + ServerSteps(pc)
    [] req.pc = "again" -> 2
    [] req.pc = "ended" -> 0

LEMMA StepsLeftIs ==
  ASSUME TypeOK, NEW r \in Requests
  PROVE  StepsLeft(r) = StepsOf(request[r], handler[r].pc)
<1> DEFINE server_steps == [none |-> 0, granted |-> 0, denied |-> 0, issue |-> 1, del |-> 2, get |-> 3]
<1>1. handler[r].pc \in {"none", "get", "del", "issue", "granted", "denied"} /\ request[r].pc \in Phases
  BY RequestTypes
<1>2. server_steps[handler[r].pc] = ServerSteps(handler[r].pc)
  BY <1>1 DEF ServerSteps
<1> QED BY <1>1, <1>2 DEF StepsLeft, StepsOf, Phases

LEMMA StepsOfValues ==
  /\ \A req, pc : req.pc = "idle" => StepsOf(req, pc) = 8
  /\ \A req, pc : req.pc = "sent" => StepsOf(req, pc) = IF req.retried THEN 1 ELSE 7
  /\ \A req, pc : req.pc = "refresh" => StepsOf(req, pc) = 3 + ServerSteps(pc)
  /\ \A req, pc : req.pc = "again" => StepsOf(req, pc) = 2
  /\ \A req, pc : req.pc = "ended" => StepsOf(req, pc) = 0
  /\ \A pc \in {"none", "granted", "denied"} : ServerSteps(pc) = 0
  /\ ServerSteps("issue") = 1 /\ ServerSteps("del") = 2 /\ ServerSteps("get") = 3
BY DEF StepsOf, ServerSteps

\* Every way on lowers the number of steps that are left.
WayOn(r) ==
  request'[r] # request[r] \/ (request[r].pc = "refresh" /\ handler'[r] # handler[r])
    => StepsOf(request'[r], handler'[r].pc) < StepsOf(request[r], handler[r].pc)

LEMMA StepAdvances ==
  ASSUME PairsInv, TypeOK', [Next]_vars, NEW q \in Requests
  PROVE  WayOn(q)
<1> USE Nothing, StepsOfValues DEF OthersStay, KeepsExchange, WayOn, PairsInv
<1>0. /\ request[q].pc \in Phases /\ request[q].retried \in BOOLEAN
      /\ handler[q].pc \in {"none", "get", "del", "issue", "granted", "denied"}
  BY RequestTypes
<1>1. ASSUME NEW l \in Logins, Login(l) PROVE WayOn(q)
  BY <1>1, LoginEffect
<1>2. ASSUME NEW r \in Requests, NEW refused \in BOOLEAN, Begin(r, refused) PROVE WayOn(q)
  BY <1>2, BeginEffect DEF Exchanges
<1>3. ASSUME NEW r \in Requests, Answered(r) \/ Unanswered(r) PROVE WayOn(q)
  BY <1>3, AnsweredEffect
<1>4. ASSUME NEW r \in Requests, Unauthorized(r) PROVE WayOn(q)
  BY <1>0, <1>4, UnauthorizedEffect
<1>5. ASSUME NEW r \in Requests, Adopt(r) PROVE WayOn(q)
  BY <1>5, AdoptEffect
<1>6. ASSUME NEW r \in Requests, Resend(r) PROVE WayOn(q)
  BY <1>6, ResendEffect DEF Exchanges
<1>7. ASSUME NEW r \in Requests, Denied(r) \/ Disconnected(r) PROVE WayOn(q)
  BY <1>0, <1>7, LoginPageEffect
<1>8. ASSUME NEW r \in Requests, RefreshGet(r) \/ RefreshFails(r) PROVE WayOn(q)
  BY <1>8, GetEffect DEF ServerStep
<1>9. ASSUME NEW r \in Requests, RefreshDel(r) PROVE WayOn(q)
  BY <1>9, DelEffect DEF ServerStep
<1>10. ASSUME NEW r \in Requests, RefreshIssue(r) PROVE WayOn(q)
  BY <1>10, IssueEffect DEF ServerStep
<1>11. ASSUME NEW t \in Tabs, LogoutBegin(t) PROVE WayOn(q)
  BY <1>11, LogoutBeginEffect
<1>12. ASSUME NEW t \in Tabs, LogoutRevoke(t) \/ LogoutFails(t) PROVE WayOn(q)
  BY <1>12, RevokeEffect
<1>13. ASSUME NEW t \in Tabs, LogoutClear(t) PROVE WayOn(q)
  BY <1>13, LogoutClearEffect
<1>14. ASSUME NEW t \in Tabs, Leave(t) PROVE WayOn(q)
  BY <1>0, <1>14, LeaveEffect DEF Running
<1>15. ASSUME NEW o \in Pairs, Expire(o) PROVE WayOn(q)
  BY <1>15, ExpireEffect
<1>16. CASE RouterClears \/ Lapse \/ UNCHANGED vars
  BY <1>16, QuietEffect
<1> QED BY <1>1, <1>2, <1>3, <1>4, <1>5, <1>6, <1>7, <1>8, <1>9, <1>10, <1>11, <1>12, <1>13, <1>14,
           <1>15, <1>16
        DEF Next, Interceptors, Refreshing, Failing

\* Each step a request or its refresh takes brings the request nearer to its answer,
\* an error or the login page, whatever the other tabs store in between: at most
\* eight steps, one exchange and one repetition for each request.
THEOREM InterceptorsEnd == Spec => RequestAdvances
<1> DEFINE Advances ==
      \A r \in Requests :
        request'[r] # request[r] \/ (request[r].pc = "refresh" /\ handler'[r] # handler[r])
          => StepsLeft(r)' < StepsLeft(r)
<1>1. PairsInv /\ PairsInv' /\ [Next]_vars => [Advances]_vars
  <2> SUFFICES ASSUME PairsInv, PairsInv', [Next]_vars, NEW r \in Requests
               PROVE  request'[r] # request[r] \/ (request[r].pc = "refresh" /\ handler'[r] # handler[r])
                        => StepsLeft(r)' < StepsLeft(r)
    OBVIOUS
  <2>1. TypeOK /\ TypeOK'
    BY DEF PairsInv
  <2>2. StepsLeft(r) = StepsOf(request[r], handler[r].pc)
    BY <2>1, StepsLeftIs
  <2>3. StepsLeft(r)' = StepsOf(request'[r], handler'[r].pc)
    <3>1. TypeOK => StepsLeft(r) = StepsOf(request[r], handler[r].pc)
      BY StepsLeftIs
    <3>2. (TypeOK => StepsLeft(r) = StepsOf(request[r], handler[r].pc))'
      BY StepsLeftIs, PTL
    <3> QED BY <2>1, <3>2
  <2> QED BY <2>1, <2>2, <2>3, StepAdvances DEF WayOn
<1>2. Spec => [][Advances]_vars
  BY <1>1, PairsInvariant, PTL DEF Spec
<1> QED BY <1>2 DEF RequestAdvances
=============================================================================
