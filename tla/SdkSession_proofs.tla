-------------------------- MODULE SdkSession_proofs --------------------------
(***************************************************************************)
(* The guard of SdkSession accepts no request twice, a key is not rotated  *)
(* sooner than its interval allows, every answer can be read, for every    *)
(* set of requests, handlers and sessions and all times that satisfy       *)
(* NonceAssumption; and where the client's key and the server's part.      *)
(***************************************************************************)
EXTENDS SdkSession, TLAPS

\* What AcceptedOnce rests on: the nonce of a request that was accepted is
\* remembered until its timestamp is out of range, and a handler that is about
\* to set the nonce has seen the timestamp in range a moment ago.
NonceKept ==
  \A n \in Calls :
    /\ nonces[n] # None => call[n] # None /\ nonces[n] >= call[n].ts - Skew + NonceTTL
    /\ accepted[n] > 0 => nonces[n] # None
    /\ accepted[n] <= 1

CheckedLately ==
  \A w \in Workers : handler[w].pc # "idle" =>
    /\ call[handler[w].call] # None
    /\ handler[w].pc = "nonce" =>
         /\ handler[w].checkedAt - call[handler[w].call].ts <= Skew
         /\ call[handler[w].call].ts - handler[w].checkedAt <= Skew
         /\ handler[w].checkedAt <= now /\ now <= handler[w].checkedAt + Stall

Inv == TypeOK /\ NonceKept /\ CheckedLately

-----------------------------------------------------------------------------
(***************************************************************************)
(* Types.                                                                  *)
(***************************************************************************)
LEMMA BusyType ==
  ASSUME TypeOK, NEW w \in Workers, handler[w].pc # "idle"
  PROVE  handler[w] \in Busy
BY DEF TypeOK, Idle

LEMMA MadeType ==
  ASSUME TypeOK, NEW n \in Calls, call[n] # None
  PROVE  call[n] \in Made
BY DEF TypeOK

LEMMA RefusedType ==
  ASSUME NEW n \in Calls, NEW result \in Results
  PROVE  Refused(n, result) \in Answer
BY DEF Refused, Answer

LEMMA SuccessType ==
  ASSUME TypeOK, NEW w \in Workers, handler[w].pc # "idle", NEW k \in Keys \cup {None}
  PROVE  Success(w, k) \in Answer
<1>1. handler[w].call \in Calls /\ handler[w].key \in Keys
  BY BusyType DEF Busy
<1> QED BY <1>1 DEF Success, Answer, Results

LEMMA FinishType ==
  ASSUME TypeOK, NEW w \in Workers, NEW r \in Answer, Finish(w, r)
  PROVE  handler' \in [Workers -> Busy \cup {Idle}] /\ replies' \subseteq Answer
BY DEF TypeOK, Finish

LEMMA ContinueType ==
  ASSUME TypeOK, NEW w \in Workers, handler[w].pc # "idle",
         NEW pc \in {"nonce", "get", "expire", "set"}, Continue(w, pc)
  PROVE  handler' \in [Workers -> Busy \cup {Idle}] /\ replies' \subseteq Answer
<1>1. [handler[w] EXCEPT !.pc = pc] \in Busy
  BY BusyType DEF Busy
<1> QED BY <1>1 DEF TypeOK, Continue

LEMMA TypeOKInit == Init => TypeOK
BY DEF Init, TypeOK

LEMMA ClientType ==
  ASSUME TypeOK,
         \/ \E s \in Sessions : Handshake(s)
         \/ HandshakeDone
         \/ \E n \in Calls, op \in Ops, offset \in Offsets, copies \in 1 .. MaxCopies :
              Request(n, op, offset, copies)
         \/ \E n \in Calls : GiveUp(n)
         \/ \E r \in replies : Receive(r)
         \/ Restart
  PROVE  TypeOK'
<1>1. ASSUME NEW s \in Sessions, Handshake(s) PROVE TypeOK'
  <2>1. [key |-> s, rotatedAt |-> now, expires |-> now + SessionTTL] \in Row
    BY TimesAssumption DEF TypeOK, Row, Keys
  <2> QED BY <1>1, <2>1 DEF Handshake, TypeOK
<1>2. CASE HandshakeDone
  <2>1. greeting \in Sessions
    BY <1>2 DEF HandshakeDone, TypeOK
  <2>2. [id |-> greeting, key |-> greeting, form |-> "hex"] \in ClientSession
    BY <2>1 DEF ClientSession, Keys
  <2> QED BY <1>2, <2>2 DEF HandshakeDone, TypeOK
<1>3. ASSUME NEW n \in Calls, NEW op \in Ops, NEW offset \in Offsets, NEW copies \in 1 .. MaxCopies,
             Request(n, op, offset, copies)
      PROVE  TypeOK'
  <2> DEFINE m == [op |-> op, sid |-> session.id, key |-> session.key, ts |-> now + offset,
                   copies |-> copies, result |-> "PENDING"]
  <2>1. session \in ClientSession
    BY <1>3 DEF Request, TypeOK
  <2>2. m \in Made
    BY <2>1, SetsAssumption, TimesAssumption DEF ClientSession, Made, TypeOK
  <2>3. call' = [call EXCEPT ![n] = m]
    BY <1>3 DEF Request
  <2> HIDE DEF m
  <2> QED BY <1>3, <2>2, <2>3 DEF Request, TypeOK
<1>4. ASSUME NEW n \in Calls, GiveUp(n) PROVE TypeOK'
  <2>1. [call[n] EXCEPT !.result = "NETWORK_ERROR"] \in Made
    BY <1>4, MadeType DEF GiveUp, Made
  <2> QED BY <1>4, <2>1 DEF GiveUp, TypeOK
<1>5. ASSUME NEW r \in replies, Receive(r) PROVE TypeOK'
  <2>1. r \in Answer
    BY DEF TypeOK
  <2>2. r.call \in Calls /\ r.result \in Results /\ r.newKey \in Keys \cup {None}
    BY <2>1 DEF Answer
  <2>3. call[r.call] \in Made
    BY <1>5, <2>2, MadeType DEF Receive
  <2>4. call' \in [Calls -> Made \cup {None}]
    <3>1. [call[r.call] EXCEPT !.result = r.result] \in Made
      BY <2>2, <2>3 DEF Made
    <3> QED BY <1>5, <3>1, <2>2 DEF Receive, TypeOK
  <2>5. session' \in ClientSession \cup {None}
    BY <1>5, <2>2, <2>3 DEF Receive, Adopt, ClientSession, Made, TypeOK
  <2> QED BY <1>5, <2>4, <2>5 DEF Receive, TypeOK
<1>6. CASE Restart
  <2>1. \A n \in Calls : call[n] # None => [call[n] EXCEPT !.result = "NETWORK_ERROR"] \in Made
    BY MadeType DEF Made
  <2>2. call' \in [Calls -> Made \cup {None}]
    BY <1>6, <2>1 DEF Restart, TypeOK
  <2> QED BY <1>6, <2>2 DEF Restart, TypeOK
<1> QED BY <1>1, <1>2, <1>3, <1>4, <1>5, <1>6

LEMMA ArriveType ==
  ASSUME TypeOK, NEW w \in Workers, NEW n \in Calls, Arrive(w, n)
  PROVE  TypeOK'
<1> DEFINE b == [pc |-> "nonce", call |-> n, key |-> store[call[n].sid].key, checkedAt |-> now,
                 row |-> None, rotatedAt |-> 0]
<1>1. call[n] \in Made
  BY MadeType DEF Arrive
<1>2. [call[n] EXCEPT !.copies = @ - 1] \in Made
  BY <1>1, TimesAssumption DEF Arrive, Made
<1>3. call' \in [Calls -> Made \cup {None}]
  BY <1>2 DEF Arrive, TypeOK
<1>4. handler' \in [Workers -> Busy \cup {Idle}] /\ replies' \subseteq Answer
  <2>1. CASE Finish(w, Refused(n, "SESSION_EXPIRED_OR_INVALID"))
    BY <2>1, RefusedType, FinishType DEF Results
  <2>2. CASE Finish(w, Refused(n, "TIMESTAMP_SKEW_EXCEEDED"))
    BY <2>2, RefusedType, FinishType DEF Results
  <2>3. CASE Live(call[n].sid) /\ handler' = [handler EXCEPT ![w] = b] /\ UNCHANGED replies
    <3>1. store[call[n].sid] \in Row
      BY <1>1, <2>3 DEF Live, Made, TypeOK
    <3>2. b \in Busy
      BY <3>1 DEF Busy, Row, TypeOK
    <3> HIDE DEF b
    <3> QED BY <2>3, <3>2 DEF TypeOK
  <2> QED BY <2>1, <2>2, <2>3 DEF Arrive
<1> QED BY <1>3, <1>4 DEF Arrive, TypeOK

LEMMA CheckNonceType ==
  ASSUME TypeOK, NEW w \in Workers, CheckNonce(w)
  PROVE  TypeOK'
<1> DEFINE n == handler[w].call
<1>1. handler[w].pc # "idle" /\ n \in Calls
  BY BusyType DEF CheckNonce, Busy
<1>2. NonceExpiry \in Int
  BY TimesAssumption DEF NonceExpiry, TypeOK
<1>3. nonces' \in [Calls -> Int \cup {None}] /\ accepted' \in [Calls -> Nat]
  BY <1>1, <1>2 DEF CheckNonce, TypeOK
<1>4. handler' \in [Workers -> Busy \cup {Idle}] /\ replies' \subseteq Answer
  <2>1. CASE Finish(w, Refused(n, "NONCE_ALREADY_USED"))
    BY <1>1, <2>1, RefusedType, FinishType DEF Results
  <2>2. CASE Finish(w, Refused(n, "INVALID_SIGNATURE"))
    BY <1>1, <2>2, RefusedType, FinishType DEF Results
  <2>3. CASE Finish(w, Success(w, None))
    BY <1>1, <2>3, SuccessType, FinishType
  <2>4. CASE Continue(w, "get")
    BY <1>1, <2>4, ContinueType
  <2> QED BY <2>1, <2>2, <2>3, <2>4 DEF CheckNonce
<1> QED BY <1>3, <1>4 DEF CheckNonce, TypeOK

LEMMA RefreshType ==
  ASSUME TypeOK, CheckedLately, NEW w \in Workers,
         RefreshGet(w) \/ RefreshExpire(w) \/ RefreshSet(w)
  PROVE  TypeOK'
<1> DEFINE n == handler[w].call
           s == SidOf(w)
<1>1. handler[w].pc # "idle" /\ handler[w] \in Busy /\ n \in Calls /\ n \in Keys
  BY BusyType DEF RefreshGet, RefreshExpire, RefreshSet, Busy, Keys
<1>2. s \in Sessions
  BY <1>1, MadeType DEF CheckedLately, SidOf, Made
<1>3. CASE RefreshGet(w)
  <2>1. CASE Finish(w, Refused(n, "SESSION_EXPIRED"))
    BY <1>1, <1>3, <2>1, RefusedType, FinishType DEF RefreshGet, Results, TypeOK, redis, client
  <2>2. CASE /\ Live(s)
             /\ handler' = [handler EXCEPT ![w].pc = "expire", ![w].row = store[s]]
             /\ UNCHANGED replies
    <3>1. [handler[w] EXCEPT !.pc = "expire", !.row = store[s]] \in Busy
      BY <1>1, <1>2, <2>2 DEF Busy, Live, TypeOK
    <3>2. handler' \in [Workers -> Busy \cup {Idle}]
      BY <2>2, <3>1 DEF TypeOK
    <3> QED BY <1>3, <2>2, <3>2 DEF RefreshGet, TypeOK, redis, client
  <2> QED BY <1>3, <2>1, <2>2 DEF RefreshGet
<1>4. CASE RefreshExpire(w)
  <2>1. store' \in [Sessions -> Row \cup {None}]
    <3>1. Live(s) => [store[s] EXCEPT !.expires = now + SessionTTL] \in Row
      BY <1>2, TimesAssumption DEF Live, Row, TypeOK
    <3> QED BY <1>2, <1>4, <3>1 DEF RefreshExpire, TypeOK
  <2>2. CASE Finish(w, Success(w, None))
    BY <1>1, <1>4, <2>1, <2>2, SuccessType, FinishType DEF RefreshExpire, TypeOK, client
  <2>3. CASE /\ handler' = [handler EXCEPT ![w].pc = "set", ![w].rotatedAt = now]
             /\ UNCHANGED replies
    <3>1. [handler[w] EXCEPT !.pc = "set", !.rotatedAt = now] \in Busy
      BY <1>1 DEF Busy, TypeOK
    <3>2. handler' \in [Workers -> Busy \cup {Idle}]
      BY <2>3, <3>1 DEF TypeOK
    <3> QED BY <1>4, <2>1, <2>3, <3>2 DEF RefreshExpire, TypeOK, client
  <2> QED BY <1>4, <2>2, <2>3 DEF RefreshExpire
<1>5. CASE RefreshSet(w)
  <2> DEFINE row == [key |-> n, rotatedAt |-> handler[w].rotatedAt, expires |-> now + SessionTTL]
  <2>1. row \in Row
    BY <1>1, TimesAssumption DEF Row, Busy, TypeOK
  <2>2. store' = [store EXCEPT ![s] = row]
    BY <1>5 DEF RefreshSet
  <2>3. Finish(w, Success(w, n))
    BY <1>5 DEF RefreshSet
  <2>4. handler' \in [Workers -> Busy \cup {Idle}] /\ replies' \subseteq Answer
    BY <1>1, <2>3, SuccessType, FinishType
  <2> HIDE DEF row
  <2> QED BY <1>5, <2>1, <2>2, <2>4 DEF RefreshSet, TypeOK, client
<1> QED BY <1>3, <1>4, <1>5

LEMMA TypeOKStep ==
  ASSUME TypeOK, CheckedLately, [Next]_vars
  PROVE  TypeOK'
<1>1. ASSUME NEW r \in replies, LoseReply(r) PROVE TypeOK'
  BY <1>1 DEF LoseReply, TypeOK, redis, client
<1>2. CASE Tick
  BY <1>2 DEF Tick, TypeOK, redis, client
<1>3. CASE UNCHANGED vars
  BY <1>3 DEF vars, TypeOK
<1>4. ASSUME NEW r \in replies, Receive(r) PROVE TypeOK'
  BY <1>4, ClientType
<1> QED BY <1>1, <1>2, <1>3, <1>4, ClientType, ArriveType, CheckNonceType, RefreshType DEF Next

-----------------------------------------------------------------------------
(***************************************************************************)
(* No request is accepted twice.                                           *)
(***************************************************************************)
LEMMA InvInit == Init => Inv
BY TypeOKInit DEF Init, Inv, NonceKept, CheckedLately, Idle

\* Whatever the client does, a request keeps its timestamp.
LEMMA ClientKeeps ==
  ASSUME Inv, UNCHANGED <<nonces, handler, accepted, now>>,
         \A n \in Calls : call[n] # None => call'[n] # None /\ call'[n].ts = call[n].ts
  PROVE  NonceKept' /\ CheckedLately'
<1>1. NonceKept'
  BY DEF Inv, NonceKept
<1>2. CheckedLately'
  BY BusyType DEF Inv, CheckedLately, Busy
<1> QED BY <1>1, <1>2

LEMMA ClientStep ==
  ASSUME Inv,
         \/ \E s \in Sessions : Handshake(s)
         \/ HandshakeDone
         \/ \E n \in Calls, op \in Ops, offset \in Offsets, copies \in 1 .. MaxCopies :
              Request(n, op, offset, copies)
         \/ \E n \in Calls : GiveUp(n)
         \/ \E r \in replies : Receive(r) \/ LoseReply(r)
         \/ Restart
  PROVE  NonceKept' /\ CheckedLately'
<1>1. UNCHANGED <<nonces, handler, accepted, now>>
  BY DEF Handshake, HandshakeDone, Request, GiveUp, Receive, LoseReply, Restart, redis, client
<1>2. \A m \in Calls : call[m] # None => call'[m] # None /\ call'[m].ts = call[m].ts
  <2> SUFFICES ASSUME NEW m \in Calls, call[m] # None
               PROVE  call'[m] # None /\ call'[m].ts = call[m].ts
    OBVIOUS
  <2>1. call[m] \in Made /\ call \in [Calls -> Made \cup {None}]
    BY MadeType DEF Inv, TypeOK
  <2>2. ASSUME NEW v \in Results \cup {"PENDING", "NETWORK_ERROR"},
               call'[m] = call[m] \/ call'[m] = [call[m] EXCEPT !.result = v]
        PROVE  call'[m] # None /\ call'[m].ts = call[m].ts
    BY <2>1, <2>2, NoneAssumption DEF Made
  <2>3. CASE UNCHANGED call
    BY <2>2, <2>3
  <2>4. ASSUME NEW n \in Calls, NEW op \in Ops, NEW offset \in Offsets, NEW copies \in 1 .. MaxCopies,
               Request(n, op, offset, copies)
        PROVE  call'[m] # None /\ call'[m].ts = call[m].ts
    <3>1. call'[m] = call[m]
      BY <2>1, <2>4 DEF Request
    <3> QED BY <2>2, <3>1
  <2>5. ASSUME NEW n \in Calls, GiveUp(n)
        PROVE  call'[m] # None /\ call'[m].ts = call[m].ts
    <3>1. call'[m] = call[m] \/ call'[m] = [call[m] EXCEPT !.result = "NETWORK_ERROR"]
      BY <2>1, <2>5 DEF GiveUp
    <3> QED BY <2>2, <3>1
  <2>6. ASSUME NEW r \in replies, Receive(r)
        PROVE  call'[m] # None /\ call'[m].ts = call[m].ts
    <3>1. r.call \in Calls /\ r.result \in Results
      BY DEF Inv, TypeOK, Answer
    <3>2. call'[m] = call[m] \/ call'[m] = [call[m] EXCEPT !.result = r.result]
      BY <2>1, <2>6, <3>1 DEF Receive
    <3> QED BY <2>2, <3>1, <3>2
  <2>7. CASE Restart
    <3>1. call'[m] = call[m] \/ call'[m] = [call[m] EXCEPT !.result = "NETWORK_ERROR"]
      BY <2>1, <2>7 DEF Restart
    <3> QED BY <2>2, <3>1
  <2> QED
    BY <2>3, <2>4, <2>5, <2>6, <2>7 DEF Handshake, HandshakeDone, LoseReply, client
<1> QED BY <1>1, <1>2, ClientKeeps

LEMMA ArriveStep ==
  ASSUME Inv, NEW w \in Workers, NEW n \in Calls, Arrive(w, n)
  PROVE  NonceKept' /\ CheckedLately'
<1>1. call[n] \in Made /\ call \in [Calls -> Made \cup {None}]
  BY MadeType DEF Arrive, Inv, TypeOK
<1>2. [call[n] EXCEPT !.copies = @ - 1] \in Made
  BY <1>1, TimesAssumption DEF Arrive, Made
<1>3. \A m \in Calls : call[m] # None => call'[m] # None /\ call'[m].ts = call[m].ts
  <2>1. call'[n] # None /\ call'[n].ts = call[n].ts
    BY <1>1, <1>2, NoneAssumption DEF Arrive, Made
  <2>2. \A m \in Calls \ {n} : call'[m] = call[m]
    BY <1>1 DEF Arrive
  <2> QED BY <2>1, <2>2
<1>4. NonceKept'
  BY <1>3 DEF Arrive, Inv, NonceKept
<1>5. ASSUME NEW v \in Workers, handler'[v].pc # "idle"
      PROVE  /\ call'[handler'[v].call] # None
             /\ handler'[v].pc = "nonce" =>
                  /\ handler'[v].checkedAt - call'[handler'[v].call].ts <= Skew
                  /\ call'[handler'[v].call].ts - handler'[v].checkedAt <= Skew
                  /\ handler'[v].checkedAt <= now' /\ now' <= handler'[v].checkedAt + Stall
  <2>1. CASE handler'[v] = handler[v]
    <3>1. handler[v].call \in Calls
      BY <1>5, <2>1, BusyType DEF Inv, Busy
    <3> QED BY <1>3, <1>5, <2>1, <3>1 DEF Inv, CheckedLately, Arrive
  <2>2. CASE /\ handler'[v] = [pc |-> "nonce", call |-> n, key |-> store[call[n].sid].key,
                               checkedAt |-> now, row |-> None, rotatedAt |-> 0]
             /\ InTime(call[n].ts)
    <3>1. now - call'[n].ts <= Skew /\ call'[n].ts - now <= Skew /\ call'[n] # None
      BY <1>3, <2>2 DEF InTime, Arrive
    <3>2. now \in Int /\ now' = now /\ Stall \in Nat
      BY TimesAssumption DEF Inv, TypeOK, Arrive
    <3> QED BY <2>2, <3>1, <3>2
  <2>3. handler'[v] = handler[v] \/ handler'[v] = Idle
        \/ /\ handler'[v] = [pc |-> "nonce", call |-> n, key |-> store[call[n].sid].key,
                              checkedAt |-> now, row |-> None, rotatedAt |-> 0]
           /\ InTime(call[n].ts)
    BY DEF Arrive, Finish, Inv, TypeOK
  <2> QED BY <1>5, <2>1, <2>2, <2>3 DEF Idle
<1>6. CheckedLately'
  BY <1>5 DEF CheckedLately
<1> QED BY <1>4, <1>6

\* A handler past its SETNX, and the ones it leaves alone.
LEMMA PastNonce ==
  ASSUME Inv, NEW w \in Workers, handler[w].pc # "idle", UNCHANGED <<call, now>>,
         \A v \in Workers \ {w} : handler'[v] = handler[v],
         \/ handler'[w] = Idle
         \/ handler'[w].pc # "nonce" /\ handler'[w].call = handler[w].call
  PROVE  CheckedLately'
BY DEF Inv, CheckedLately, Idle

\* What the handler of a step becomes.
LEMMA HandlerStep ==
  ASSUME TypeOK, NEW w \in Workers, handler[w].pc # "idle",
         \/ \E r : Finish(w, r)
         \/ Continue(w, "get")
         \/ \E row : handler' = [handler EXCEPT ![w].pc = "expire", ![w].row = row]
         \/ handler' = [handler EXCEPT ![w].pc = "set", ![w].rotatedAt = now]
  PROVE  /\ \A v \in Workers \ {w} : handler'[v] = handler[v]
         /\ \/ handler'[w] = Idle
            \/ handler'[w].pc # "nonce" /\ handler'[w].call = handler[w].call
<1>1. handler[w] \in Busy
  BY BusyType
<1>2. CASE \E r : Finish(w, r)
  BY <1>2 DEF Finish, TypeOK
<1>3. CASE Continue(w, "get")
  BY <1>1, <1>3 DEF Continue, TypeOK, Busy
<1>4. CASE \E row : handler' = [handler EXCEPT ![w].pc = "expire", ![w].row = row]
  BY <1>1, <1>4, ZenonT(30) DEF TypeOK, Busy
<1>5. CASE handler' = [handler EXCEPT ![w].pc = "set", ![w].rotatedAt = now]
  BY <1>1, <1>5 DEF TypeOK, Busy
<1> QED BY <1>2, <1>3, <1>4, <1>5

LEMMA CheckNonceStep ==
  ASSUME Inv, NEW w \in Workers, CheckNonce(w)
  PROVE  NonceKept' /\ CheckedLately'
<1> DEFINE n == handler[w].call
<1>1. /\ handler[w].pc = "nonce" /\ handler[w] \in Busy /\ n \in Calls
      /\ call[n] # None /\ call[n] \in Made
  BY BusyType, MadeType DEF CheckNonce, Inv, CheckedLately, Busy
<1>2. /\ now \in Int /\ call[n].ts \in Int /\ handler[w].checkedAt \in Int
      /\ handler[w].checkedAt - call[n].ts <= Skew /\ call[n].ts - handler[w].checkedAt <= Skew
      /\ handler[w].checkedAt <= now /\ now <= handler[w].checkedAt + Stall
  BY <1>1 DEF Inv, TypeOK, CheckedLately, Made, Busy
<1>3. CheckedLately'
  <2>1. UNCHANGED <<call, now>>
    BY DEF CheckNonce
  <2>2. (\E r : Finish(w, r)) \/ Continue(w, "get")
    BY DEF CheckNonce
  <2> QED BY <1>1, <2>1, <2>2, HandlerStep, PastNonce DEF Inv
<1>4. NonceKept'
  <2>1. CASE UNCHANGED <<nonces, accepted>>
    BY <2>1 DEF CheckNonce, Inv, NonceKept
  <2>2. CASE /\ NonceFree(n)
             /\ nonces' = [nonces EXCEPT ![n] = NonceExpiry]
             /\ accepted' = [accepted EXCEPT ![n] = @ + 1] \/ UNCHANGED accepted
    \* The nonce cannot have been set and forgotten again: its timestamp would be
    \* out of range by now.
    <3>1. nonces[n] = None
      <4>1. SUFFICES ASSUME nonces[n] # None PROVE FALSE
        OBVIOUS
      <4>2. nonces[n] \in Int /\ nonces[n] >= call[n].ts - Skew + NonceTTL /\ now >= nonces[n]
        BY <1>1, <2>2, <4>1 DEF Inv, NonceKept, NonceFree, TypeOK
      <4> QED BY <1>2, <4>2, NonceAssumption, TimesAssumption
    <3>2. accepted[n] = 0
      BY <1>1, <3>1 DEF Inv, NonceKept, TypeOK
    <3>3. nonces'[n] = now + NonceTTL /\ nonces'[n] # None /\ accepted'[n] <= 1
      BY <1>1, <1>2, <2>2, <3>2, SetsAssumption, TimesAssumption
      DEF Inv, TypeOK, NonceExpiry
    <3>4. nonces'[n] >= call[n].ts - Skew + NonceTTL
      BY <1>2, <3>3, TimesAssumption
    <3>5. \A m \in Calls \ {n} : nonces'[m] = nonces[m] /\ accepted'[m] = accepted[m]
      BY <2>2 DEF Inv, TypeOK
    <3>6. call' = call
      BY DEF CheckNonce
    <3> QED BY <1>1, <3>3, <3>4, <3>5, <3>6 DEF Inv, NonceKept
  <2> QED BY <2>1, <2>2 DEF CheckNonce
<1> QED BY <1>3, <1>4

LEMMA RefreshStep ==
  ASSUME Inv, NEW w \in Workers, RefreshGet(w) \/ RefreshExpire(w) \/ RefreshSet(w)
  PROVE  NonceKept' /\ CheckedLately'
<1>1. handler[w].pc # "idle" /\ UNCHANGED <<nonces, call, accepted, now>>
  BY DEF RefreshGet, RefreshExpire, RefreshSet, redis, client
<1>2. NonceKept'
  BY <1>1 DEF Inv, NonceKept
<1>3. \/ \E r : Finish(w, r)
      \/ \E row : handler' = [handler EXCEPT ![w].pc = "expire", ![w].row = row]
      \/ handler' = [handler EXCEPT ![w].pc = "set", ![w].rotatedAt = now]
  BY DEF RefreshGet, RefreshExpire, RefreshSet
<1>4. CheckedLately'
  BY <1>1, <1>3, HandlerStep, PastNonce DEF Inv
<1> QED BY <1>2, <1>4

LEMMA TickStep ==
  ASSUME Inv, Tick
  PROVE  NonceKept' /\ CheckedLately'
<1>1. NonceKept'
  BY DEF Tick, Inv, NonceKept, redis, client
<1>2. ASSUME NEW w \in Workers, handler[w].pc = "nonce"
      PROVE  handler[w].checkedAt <= now + 1 /\ now + 1 <= handler[w].checkedAt + Stall
  <2>1. handler[w].checkedAt \in Int /\ now \in Int
    BY <1>2, BusyType DEF Inv, TypeOK, Busy
  <2>2. handler[w].checkedAt <= now /\ now < handler[w].checkedAt + Stall
    BY <1>2 DEF Tick, Inv, CheckedLately
  <2> QED BY <2>1, <2>2, TimesAssumption
<1>3. CheckedLately'
  BY <1>2 DEF Tick, Inv, CheckedLately, redis, client
<1> QED BY <1>1, <1>3

LEMMA InvStep == Inv /\ [Next]_vars => Inv'
<1> SUFFICES ASSUME Inv, [Next]_vars PROVE Inv'
  OBVIOUS
<1>1. TypeOK'
  BY TypeOKStep DEF Inv
<1>2. NonceKept' /\ CheckedLately'
  <2>1. CASE UNCHANGED vars
    BY <2>1 DEF vars, Inv, NonceKept, CheckedLately
  <2> QED BY <2>1, ClientStep, ArriveStep, CheckNonceStep, RefreshStep, TickStep DEF Next
<1> QED BY <1>1, <1>2 DEF Inv

\* Every variable of the session keeps its type.
THEOREM TypeCorrect == Spec => []TypeOK
<1>1. Inv => TypeOK
  BY DEF Inv
<1> QED BY <1>1, InvInit, InvStep, PTL DEF Spec

\* SdkSignatureGuard lets no signed request through twice, for every number of
\* copies the network makes of it and of handlers that work on them.
THEOREM NoReplay == Spec => []AcceptedOnce
<1>1. Inv => AcceptedOnce
  BY DEF Inv, NonceKept, AcceptedOnce
<1> QED BY <1>1, InvInit, InvStep, PTL DEF Spec

-----------------------------------------------------------------------------
(***************************************************************************)
(* Rotations are spaced, and answers can be read.                          *)
(***************************************************************************)
\* The keys of calls that rows name are those of accepted calls.
KeysAccepted ==
  \A s \in Sessions : store[s] # None /\ store[s].key \in Calls => accepted[store[s].key] > 0

\* A handler past the nonce signs for a call of its own, whose key no row names yet.
Past(w) == handler[w].pc \in {"get", "expire", "set"}
HoldsRow(w) == handler[w].pc \in {"expire", "set"}

PastIsOwn ==
  \A w \in Workers : Past(w) =>
    /\ accepted[handler[w].call] > 0
    /\ handler[w].key = call[handler[w].call].key
    /\ \A s \in Sessions : store[s] # None => store[s].key # handler[w].call
    /\ \A v \in Workers \ {w} : Past(v) => handler[v].call # handler[w].call
    /\ \A v \in Workers : HoldsRow(v) => handler[v].row.key # handler[w].call

\* A row that a handler has read differs from the one stored by now in its key,
\* or has the time of its rotation.
RowIsRead ==
  \A w \in Workers : HoldsRow(w) =>
    /\ handler[w].row \in Row
    /\ handler[w].row.key \in Calls => accepted[handler[w].row.key] > 0
    /\ store[SidOf(w)] # None
    /\ handler[w].row.key = store[SidOf(w)].key =>
         handler[w].row.rotatedAt = store[SidOf(w)].rotatedAt
    /\ handler[w].pc = "set" => handler[w].rotatedAt - handler[w].row.rotatedAt >= Rotation

AnswersKnown == \A r \in replies : call[r.call] # None

RotationInv == KeysAccepted /\ PastIsOwn /\ RowIsRead /\ AnswersKnown /\ ReadableAnswers

-----------------------------------------------------------------------------
\* A request stays what it was made as; only its copies are delivered and its
\* result is told.
LEMMA CallStays ==
  ASSUME Inv, [Next]_vars, NEW m \in Calls, call[m] # None
  PROVE  /\ call'[m] # None /\ call'[m] \in Made
         /\ call'[m].op = call[m].op /\ call'[m].sid = call[m].sid
         /\ call'[m].key = call[m].key
         /\ call'[m].copies <= call[m].copies
         /\ call'[m].result = "PENDING" => call[m].result = "PENDING"
         /\ call[m].result # "PENDING" => call'[m].result = call[m].result
<1> DEFINE Stays == /\ call'[m] # None /\ call'[m] \in Made
                    /\ call'[m].op = call[m].op /\ call'[m].sid = call[m].sid
                    /\ call'[m].key = call[m].key
                    /\ call'[m].copies <= call[m].copies
                    /\ call'[m].result = "PENDING" => call[m].result = "PENDING"
                    /\ call[m].result # "PENDING" => call'[m].result = call[m].result
<1>1. call[m] \in Made /\ call \in [Calls -> Made \cup {None}] /\ call[m].copies \in Int
  BY MadeType, TimesAssumption DEF Inv, TypeOK, Made
<1>2. ASSUME call'[m] = call[m] PROVE Stays
  BY <1>1, <1>2
<1>3. ASSUME NEW v \in Results \cup {"NETWORK_ERROR"}, call[m].result = "PENDING",
             call'[m] = [call[m] EXCEPT !.result = v]
      PROVE  Stays
  <2>1. v # "PENDING" /\ [call[m] EXCEPT !.result = v] \in Made
    BY <1>1 DEF Made, Results
  <2> QED BY <1>1, <1>3, <2>1, NoneAssumption DEF Made
<1>4. ASSUME NEW w \in Workers, Arrive(w, m) PROVE Stays
  <2>1. /\ call'[m] = [call[m] EXCEPT !.copies = @ - 1]
        /\ [call[m] EXCEPT !.copies = @ - 1] \in Made
    BY <1>1, <1>4, TimesAssumption DEF Arrive, Made
  <2> QED BY <1>1, <2>1, NoneAssumption DEF Made
<1>5. CASE UNCHANGED call
  BY <1>2, <1>5
<1>6. ASSUME NEW n \in Calls, NEW op \in Ops, NEW offset \in Offsets, NEW copies \in 1 .. MaxCopies,
             Request(n, op, offset, copies)
      PROVE  Stays
  <2>1. call'[m] = call[m]
    BY <1>1, <1>6 DEF Request
  <2> QED BY <1>2, <2>1
<1>7. ASSUME NEW n \in Calls, GiveUp(n) PROVE Stays
  <2>1. call'[m] = call[m] \/ (call[m].result = "PENDING"
                                 /\ call'[m] = [call[m] EXCEPT !.result = "NETWORK_ERROR"])
    BY <1>1, <1>7 DEF GiveUp
  <2> QED BY <1>2, <1>3, <2>1
<1>8. ASSUME NEW r \in replies, Receive(r) PROVE Stays
  <2>1. r.call \in Calls /\ r.result \in Results
    BY DEF Inv, TypeOK, Answer
  <2>2. call'[m] = call[m] \/ (call[m].result = "PENDING"
                                 /\ call'[m] = [call[m] EXCEPT !.result = r.result])
    BY <1>1, <1>8, <2>1 DEF Receive
  <2> QED BY <1>2, <1>3, <2>1, <2>2
<1>9. CASE Restart
  <2>1. call'[m] = call[m] \/ (call[m].result = "PENDING"
                                 /\ call'[m] = [call[m] EXCEPT !.result = "NETWORK_ERROR"])
    BY <1>1, <1>9 DEF Restart
  <2> QED BY <1>2, <1>3, <2>1
<1>10. ASSUME NEW w \in Workers, NEW n \in Calls, Arrive(w, n) PROVE Stays
  <2>1. n # m => call'[m] = call[m]
    BY <1>1, <1>10 DEF Arrive
  <2> QED BY <1>2, <1>4, <1>10, <2>1
<1>11. \/ UNCHANGED call \/ Restart
       \/ \E n \in Calls, op \in Ops, offset \in Offsets, copies \in 1 .. MaxCopies :
            Request(n, op, offset, copies)
       \/ \E n \in Calls : GiveUp(n)
       \/ \E r \in replies : Receive(r)
       \/ \E w \in Workers, n \in Calls : Arrive(w, n)
  BY DEF Next, vars, Handshake, HandshakeDone, LoseReply, CheckNonce, RefreshGet, RefreshExpire,
         RefreshSet, Tick, client, redis
<1>12. CASE \E n \in Calls, op \in Ops, offset \in Offsets, copies \in 1 .. MaxCopies :
             Request(n, op, offset, copies)
  BY <1>6, <1>12
<1>13. CASE \E w \in Workers, n \in Calls : Arrive(w, n)
  BY <1>10, <1>13
<1>14. Stays
  BY <1>5, <1>7, <1>8, <1>9, <1>11, <1>12, <1>13
<1> QED BY <1>14 DEF Stays

\* What a handler may become in a step that neither accepts nor rotates.
Kept(v) ==
  \/ ~Past(v)'
  \/ /\ Past(v) /\ handler'[v].call = handler[v].call /\ handler'[v].key = handler[v].key
     /\ HoldsRow(v)' =>
          \/ HoldsRow(v) /\ handler'[v].row = handler[v].row
          \/ store[SidOf(v)] # None /\ handler'[v].row = store[SidOf(v)]
     /\ handler'[v].pc = "set" => handler'[v].rotatedAt - handler'[v].row.rotatedAt >= Rotation

\* What an answer must be that is added.
Fitting(r) == /\ r.call \in Calls /\ call[r.call] # None
              /\ r.result = "OK" => r.under = call[r.call].key

RowsKept ==
  \A s \in Sessions :
    /\ store[s] # None => /\ store'[s] # None /\ store'[s].key = store[s].key
                          /\ store'[s].rotatedAt = store[s].rotatedAt
    /\ store[s] = None /\ store'[s] # None => store'[s].key = s

LEMMA AnswersStay ==
  ASSUME Inv, [Next]_vars, AnswersKnown, ReadableAnswers,
         \A r \in replies' : r \in replies \/ Fitting(r)
  PROVE  AnswersKnown' /\ ReadableAnswers'
<1> SUFFICES ASSUME NEW r \in replies'
             PROVE  call'[r.call] # None /\ (r.result = "OK" => r.under = call'[r.call].key)
  BY DEF AnswersKnown, ReadableAnswers
<1>1. r.call \in Calls /\ call[r.call] # None /\ (r.result = "OK" => r.under = call[r.call].key)
  BY DEF Fitting, AnswersKnown, ReadableAnswers, Inv, TypeOK, Answer
<1> QED BY <1>1, CallStays

\* The call and the session of a handler past the nonce.
LEMMA PastFacts ==
  ASSUME Inv, [Next]_vars, NEW v \in Workers, Past(v)
  PROVE  /\ handler[v] \in Busy /\ handler[v].call \in Calls /\ handler[v].call \in Keys
         /\ call[handler[v].call] # None
         /\ SidOf(v) \in Sessions
         /\ call'[handler[v].call].key = call[handler[v].call].key
         /\ handler'[v].call = handler[v].call => SidOf(v)' = SidOf(v)
<1>1. handler[v].pc # "idle"
  BY DEF Past
<1>2. handler[v] \in Busy /\ handler[v].call \in Calls /\ call[handler[v].call] # None
  BY <1>1, BusyType DEF Inv, CheckedLately, Busy
<1>3. call[handler[v].call] \in Made
  BY <1>2, MadeType DEF Inv
<1> QED BY <1>2, <1>3, CallStays DEF SidOf, Made, Keys

LEMMA RotationKept ==
  ASSUME Inv, RotationInv, [Next]_vars, RowsKept,
         \A n \in Calls : accepted'[n] >= accepted[n],
         \A v \in Workers : Kept(v),
         \A r \in replies' : r \in replies \/ Fitting(r)
  PROVE  RotationInv'
<1>1. \A n \in Calls : accepted[n] > 0 => accepted'[n] > 0
  <2>1. \A n \in Calls : accepted[n] \in Nat /\ accepted'[n] \in Nat
    BY InvStep DEF Inv, TypeOK
  <2> QED BY <2>1
<1>2. KeysAccepted'
  <2>1. ASSUME NEW s \in Sessions, store'[s] # None, store'[s].key \in Calls
        PROVE  accepted'[store'[s].key] > 0
    <3>1. store[s] # None
      BY <2>1, SetsAssumption DEF RowsKept
    <3>2. store'[s].key = store[s].key
      BY <3>1 DEF RowsKept
    <3> QED BY <1>1, <2>1, <3>1, <3>2 DEF RotationInv, KeysAccepted
  <2> QED BY <2>1 DEF KeysAccepted
<1>3. ASSUME NEW v \in Workers, Past(v)'
      PROVE  /\ Past(v) /\ handler'[v].call = handler[v].call /\ handler'[v].key = handler[v].key
             /\ handler[v].call \in Calls /\ SidOf(v) \in Sessions /\ SidOf(v)' = SidOf(v)
             /\ call'[handler[v].call].key = call[handler[v].call].key
  BY <1>3, PastFacts DEF Kept
<1>4. ASSUME NEW v \in Workers, HoldsRow(v)'
      PROVE  /\ Past(v)'
             /\ \/ HoldsRow(v) /\ handler'[v].row = handler[v].row
                \/ store[SidOf(v)] # None /\ handler'[v].row = store[SidOf(v)]
  BY <1>4 DEF HoldsRow, Past, Kept
<1>5. PastIsOwn'
  <2> SUFFICES ASSUME NEW w \in Workers, Past(w)'
      PROVE /\ accepted'[handler'[w].call] > 0
            /\ handler'[w].key = call'[handler'[w].call].key
            /\ \A s \in Sessions : store'[s] # None => store'[s].key # handler'[w].call
            /\ \A v \in Workers \ {w} : Past(v)' => handler'[v].call # handler'[w].call
            /\ \A v \in Workers : HoldsRow(v)' => handler'[v].row.key # handler'[w].call
    BY DEF PastIsOwn
  <2>1. /\ Past(w) /\ handler'[w].call = handler[w].call /\ handler'[w].key = handler[w].key
        /\ handler[w].call \in Calls
        /\ call'[handler[w].call].key = call[handler[w].call].key
    BY <1>3
  <2>2. /\ accepted[handler[w].call] > 0
        /\ handler[w].key = call[handler[w].call].key
        /\ \A s \in Sessions : store[s] # None => store[s].key # handler[w].call
        /\ \A v \in Workers \ {w} : Past(v) => handler[v].call # handler[w].call
        /\ \A v \in Workers : HoldsRow(v) => handler[v].row.key # handler[w].call
    BY <2>1 DEF RotationInv, PastIsOwn
  <2>3. \A s \in Sessions : store'[s] # None => store'[s].key # handler'[w].call
    BY <2>1, <2>2, SetsAssumption DEF RowsKept
  <2>4. \A v \in Workers \ {w} : Past(v)' => handler'[v].call # handler'[w].call
    BY <1>3, <2>1, <2>2
  <2>5. ASSUME NEW v \in Workers, HoldsRow(v)' PROVE handler'[v].row.key # handler'[w].call
    <3>1. SidOf(v) \in Sessions
      BY <1>3, <1>4, <2>5
    <3> QED BY <1>4, <2>1, <2>2, <2>5, <3>1
  <2> QED BY <1>1, <2>1, <2>2, <2>3, <2>4, <2>5
<1>6. RowIsRead'
  <2> SUFFICES ASSUME NEW w \in Workers, HoldsRow(w)'
      PROVE /\ handler'[w].row \in Row
            /\ handler'[w].row.key \in Calls => accepted'[handler'[w].row.key] > 0
            /\ store'[SidOf(w)'] # None
            /\ handler'[w].row.key = store'[SidOf(w)'].key =>
                 handler'[w].row.rotatedAt = store'[SidOf(w)'].rotatedAt
            /\ handler'[w].pc = "set" => handler'[w].rotatedAt - handler'[w].row.rotatedAt >= Rotation
    BY DEF RowIsRead
  <2>1. Past(w)' /\ SidOf(w) \in Sessions /\ SidOf(w)' = SidOf(w)
    BY <1>3, <1>4
  <2>2. handler'[w].pc = "set" => handler'[w].rotatedAt - handler'[w].row.rotatedAt >= Rotation
    BY <2>1 DEF Kept
  <2>3. /\ handler'[w].row \in Row
        /\ handler'[w].row.key \in Calls => accepted[handler'[w].row.key] > 0
        /\ store[SidOf(w)] # None
        /\ handler'[w].row.key = store[SidOf(w)].key =>
             handler'[w].row.rotatedAt = store[SidOf(w)].rotatedAt
    <3>1. CASE HoldsRow(w) /\ handler'[w].row = handler[w].row
      BY <3>1 DEF RotationInv, RowIsRead
    <3>2. CASE store[SidOf(w)] # None /\ handler'[w].row = store[SidOf(w)]
      BY <2>1, <3>2 DEF RotationInv, KeysAccepted, Inv, TypeOK
    <3> QED BY <1>4, <3>1, <3>2
  <2>4. /\ store'[SidOf(w)] # None /\ store'[SidOf(w)].key = store[SidOf(w)].key
        /\ store'[SidOf(w)].rotatedAt = store[SidOf(w)].rotatedAt
    BY <2>1, <2>3 DEF RowsKept
  <2> QED BY <1>1, <2>1, <2>2, <2>3, <2>4
<1>7. AnswersKnown' /\ ReadableAnswers'
  BY AnswersStay DEF RotationInv
<1> QED BY <1>2, <1>5, <1>6, <1>7 DEF RotationInv

-----------------------------------------------------------------------------
\* The row of a session changes its key at the SET of a rotation only.
LEMMA StoreStep ==
  ASSUME Inv, [Next]_vars, ~ \E w \in Workers : RefreshSet(w)
  PROVE  RowsKept
<1>1. CASE UNCHANGED store
  BY <1>1 DEF RowsKept
<1>2. ASSUME NEW s \in Sessions, Handshake(s) PROVE RowsKept
  BY <1>2 DEF Handshake, RowsKept, Inv, TypeOK
<1>3. ASSUME NEW w \in Workers, RefreshExpire(w) PROVE RowsKept
  <2>1. \A s \in Sessions : store'[s] = store[s]
          \/ (store[s] # None /\ store'[s] = [store[s] EXCEPT !.expires = now + SessionTTL])
    BY <1>3 DEF RefreshExpire, Live, Inv, TypeOK
  <2>2. ASSUME NEW s \in Sessions, store[s] # None,
               store'[s] = [store[s] EXCEPT !.expires = now + SessionTTL]
        PROVE  /\ store'[s] # None /\ store'[s].key = store[s].key
               /\ store'[s].rotatedAt = store[s].rotatedAt
    <3>1. store[s] \in Row /\ now + SessionTTL \in Int
      BY <2>2, TimesAssumption DEF Inv, TypeOK
    <3>2. [store[s] EXCEPT !.expires = now + SessionTTL] \in Row
      BY <3>1 DEF Row
    <3> QED BY <2>2, <3>1, <3>2, NoneAssumption DEF Row
  <2> QED BY <2>1, <2>2 DEF RowsKept
<1> QED
  BY <1>1, <1>2, <1>3
  DEF Next, vars, HandshakeDone, Request, GiveUp, Receive, LoseReply, Restart, Arrive,
      CheckNonce, RefreshGet, Tick, client, redis

LEMMA SameKept ==
  ASSUME RotationInv, NEW v \in Workers, handler'[v] = handler[v]
  PROVE  Kept(v)
<1>1. Past(v)' => Past(v)
  BY DEF Past
<1>2. HoldsRow(v)' => HoldsRow(v)
  BY DEF HoldsRow
<1>3. handler'[v].pc = "set" => handler'[v].rotatedAt - handler'[v].row.rotatedAt >= Rotation
  BY DEF RotationInv, RowIsRead, HoldsRow
<1> QED BY <1>1, <1>2, <1>3 DEF Kept

LEMMA IdleKept ==
  ASSUME NEW v \in Workers, handler'[v].pc \in {"idle", "nonce"}
  PROVE  Kept(v)
BY DEF Kept, Past

LEMMA RotationInit == Init => RotationInv
BY DEF Init, RotationInv, KeysAccepted, PastIsOwn, RowIsRead, AnswersKnown, ReadableAnswers,
       Past, HoldsRow, Idle

\* Steps that leave the handlers alone.
LEMMA RotationClient ==
  ASSUME Inv, RotationInv, [Next]_vars, UNCHANGED <<handler, accepted>>, replies' \subseteq replies
  PROVE  RotationInv'
<1>1. ~ \E w \in Workers : RefreshSet(w)
  BY DEF RefreshSet, Finish, Idle, Inv, TypeOK
<1>2. RowsKept
  BY <1>1, StoreStep
<1>3. \A v \in Workers : Kept(v)
  BY SameKept
<1>4. \A n \in Calls : accepted'[n] >= accepted[n]
  BY DEF Inv, TypeOK
<1> QED BY <1>2, <1>3, <1>4, RotationKept

\* Steps of a handler that neither accept nor rotate.
LEMMA RotationHandler ==
  ASSUME Inv, RotationInv, [Next]_vars, NEW w \in Workers, handler[w].pc # "set",
         \A v \in Workers \ {w} : handler'[v] = handler[v],
         UNCHANGED accepted, Kept(w),
         \A r \in replies' : r \in replies \/ Fitting(r)
  PROVE  RotationInv'
<1>1. ~ \E v \in Workers : RefreshSet(v)
  BY DEF RefreshSet, Finish, Idle, Inv, TypeOK
<1>2. RowsKept
  BY <1>1, StoreStep
<1>3. \A v \in Workers : Kept(v)
  BY SameKept
<1>4. \A n \in Calls : accepted'[n] >= accepted[n]
  BY DEF Inv, TypeOK
<1> QED BY <1>2, <1>3, <1>4, RotationKept

\* An answer that refuses can be read by anybody.
LEMMA RefusedFits ==
  ASSUME NEW n \in Calls, call[n] # None, NEW result, result # "OK"
  PROVE  Fitting(Refused(n, result))
BY DEF Fitting, Refused

LEMMA SuccessFits ==
  ASSUME Inv, NEW w \in Workers, handler[w].pc # "idle", NEW k,
         handler[w].key = call[handler[w].call].key
  PROVE  Fitting(Success(w, k))
<1>1. handler[w].call \in Calls /\ call[handler[w].call] # None
  BY BusyType DEF Inv, CheckedLately, Busy
<1> QED BY <1>1 DEF Fitting, Success

LEMMA RotationArrive ==
  ASSUME Inv, RotationInv, [Next]_vars, NEW w \in Workers, NEW n \in Calls, Arrive(w, n)
  PROVE  RotationInv'
<1>1. handler[w].pc # "set" /\ call[n] # None
  BY DEF Arrive, Idle
<1>2. /\ \A v \in Workers \ {w} : handler'[v] = handler[v]
      /\ handler'[w].pc \in {"idle", "nonce"}
  BY DEF Arrive, Finish, Idle, Inv, TypeOK
<1>3. \A r \in replies' : r \in replies \/ Fitting(r)
  BY <1>1, RefusedFits DEF Arrive, Finish
<1>4. UNCHANGED accepted
  BY DEF Arrive
<1> QED BY <1>1, <1>2, <1>3, <1>4, IdleKept, RotationHandler

LEMMA RotationRefresh ==
  ASSUME Inv, RotationInv, [Next]_vars, NEW w \in Workers, RefreshGet(w) \/ RefreshExpire(w)
  PROVE  RotationInv'
<1>1. /\ handler[w].pc \in {"get", "expire"} /\ Past(w) /\ handler[w] \in Busy
      /\ handler[w].call \in Calls /\ call[handler[w].call] # None
      /\ handler[w].key = call[handler[w].call].key
  <2>1. handler[w].pc \in {"get", "expire"} /\ Past(w)
    BY DEF RefreshGet, RefreshExpire, Past
  <2> QED BY <2>1, PastFacts DEF RotationInv, PastIsOwn
<1>2. UNCHANGED accepted
  BY DEF RefreshGet, RefreshExpire
<1>3. \A v \in Workers \ {w} : handler'[v] = handler[v]
  BY DEF RefreshGet, RefreshExpire, Finish, Inv, TypeOK
<1>4. \A r \in replies' : r \in replies \/ Fitting(r)
  BY <1>1, RefusedFits, SuccessFits DEF RefreshGet, RefreshExpire, Finish
<1>5. Kept(w)
  <2>1. CASE handler'[w] = Idle
    BY <2>1, IdleKept DEF Idle
  <2>2. CASE Live(SidOf(w)) /\ handler' = [handler EXCEPT ![w].pc = "expire", ![w].row = store[SidOf(w)]]
    <3>1. handler'[w] = [handler[w] EXCEPT !.pc = "expire", !.row = store[SidOf(w)]]
      BY <2>2 DEF Inv, TypeOK
    <3>2. /\ handler'[w].pc = "expire" /\ handler'[w].call = handler[w].call
          /\ handler'[w].key = handler[w].key /\ handler'[w].row = store[SidOf(w)]
      BY <1>1, <3>1 DEF Busy
    <3> QED BY <1>1, <2>2, <3>2 DEF Kept, Live
  <2>3. CASE /\ handler[w].pc = "expire" /\ Due(handler[w].row)
             /\ handler' = [handler EXCEPT ![w].pc = "set", ![w].rotatedAt = now]
    <3>1. handler'[w] = [handler[w] EXCEPT !.pc = "set", !.rotatedAt = now]
      BY <2>3 DEF Inv, TypeOK
    <3>2. /\ handler'[w].pc = "set" /\ handler'[w].call = handler[w].call
          /\ handler'[w].key = handler[w].key /\ handler'[w].row = handler[w].row
          /\ handler'[w].rotatedAt = now
      BY <1>1, <3>1 DEF Busy
    <3>3. handler'[w].rotatedAt - handler'[w].row.rotatedAt >= Rotation
      BY <2>3, <3>2 DEF Due
    <3>4. HoldsRow(w)
      BY <2>3 DEF HoldsRow
    <3> QED BY <1>1, <3>2, <3>3, <3>4 DEF Kept
  <2> QED BY <2>1, <2>2, <2>3 DEF RefreshGet, RefreshExpire, Finish, Inv, TypeOK
<1> QED BY <1>1, <1>2, <1>3, <1>4, <1>5, RotationHandler

LEMMA RotationNonce ==
  ASSUME Inv, RotationInv, [Next]_vars, NEW w \in Workers, CheckNonce(w)
  PROVE  RotationInv'
<1> DEFINE n == handler[w].call
<1>1. /\ handler[w].pc = "nonce" /\ handler[w] \in Busy /\ n \in Calls /\ call[n] # None
      /\ \A v \in Workers \ {w} : handler'[v] = handler[v]
      /\ UNCHANGED <<store, call>>
  <2>1. handler[w].pc = "nonce" /\ UNCHANGED <<store, call>>
    BY DEF CheckNonce
  <2>2. \A v \in Workers \ {w} : handler'[v] = handler[v]
    BY DEF CheckNonce, Finish, Continue, Inv, TypeOK
  <2> QED BY <2>1, <2>2, BusyType DEF Inv, CheckedLately, Busy
<1>2. CASE UNCHANGED accepted /\ \E result : result # "OK" /\ Finish(w, Refused(n, result))
  <2>1. handler'[w].pc \in {"idle", "nonce"}
    BY <1>2 DEF Finish, Idle, Inv, TypeOK
  <2>2. \A r \in replies' : r \in replies \/ Fitting(r)
    BY <1>1, <1>2, RefusedFits DEF Finish
  <2> QED BY <1>1, <1>2, <2>1, <2>2, IdleKept, RotationHandler
<1>3. CASE /\ handler[w].key = call[n].key
           /\ accepted' = [accepted EXCEPT ![n] = @ + 1]
           /\ Finish(w, Success(w, None)) \/ Continue(w, "get")
  \* It is accepted for the first time, so that nobody has heard of its key.
  <2>1. accepted[n] = 0 /\ accepted'[n] > 0 /\ \A m \in Calls : accepted'[m] >= accepted[m]
    <3>1. accepted'[n] <= 1
      BY <1>1, InvStep DEF Inv, NonceKept
    <3> QED BY <1>1, <1>3, <3>1 DEF Inv, TypeOK
  <2>2. \A m \in Calls : accepted[m] > 0 => accepted'[m] > 0 /\ m # n
    <3>1. \A m \in Calls : accepted[m] \in Nat /\ accepted'[m] \in Nat
      BY InvStep DEF Inv, TypeOK
    <3> QED BY <2>1, <3>1
  <2>3. handler'[w] = Idle \/ handler'[w] = [handler[w] EXCEPT !.pc = "get"]
    BY <1>3 DEF Finish, Continue, Inv, TypeOK
  <2>4. /\ ~HoldsRow(w)'
        /\ Past(w)' => handler'[w].call = n /\ handler'[w].key = handler[w].key
    BY <1>1, <2>3 DEF HoldsRow, Past, Idle, Busy
  <2>5. \A v \in Workers : Past(v) => handler[v].call \in Calls
    BY PastFacts
  <2>6. \A v \in Workers \ {w} : (Past(v)' => Past(v)) /\ (HoldsRow(v)' => HoldsRow(v)) /\ SidOf(v)' = SidOf(v)
    BY <1>1 DEF Past, HoldsRow, SidOf
  <2>7. KeysAccepted'
    BY <1>1, <2>2 DEF RotationInv, KeysAccepted
  <2>8. PastIsOwn'
    <3> SUFFICES ASSUME NEW v \in Workers, Past(v)'
        PROVE /\ accepted'[handler'[v].call] > 0
              /\ handler'[v].key = call'[handler'[v].call].key
              /\ \A s \in Sessions : store'[s] # None => store'[s].key # handler'[v].call
              /\ \A x \in Workers \ {v} : Past(x)' => handler'[x].call # handler'[v].call
              /\ \A x \in Workers : HoldsRow(x)' => handler'[x].row.key # handler'[v].call
      BY DEF PastIsOwn
    <3>1. CASE v = w
      <4>1. handler'[v].call = n /\ handler'[v].key = call'[n].key
        BY <1>1, <1>3, <2>4, <3>1
      <4>2. \A s \in Sessions : store'[s] # None => store'[s].key # n
        BY <1>1, <2>2 DEF RotationInv, KeysAccepted
      <4>3. \A x \in Workers \ {v} : Past(x)' => handler'[x].call # n
        BY <1>1, <2>2, <2>5, <2>6, <3>1 DEF RotationInv, PastIsOwn
      <4>4. \A x \in Workers : HoldsRow(x)' => handler'[x].row.key # n
        BY <1>1, <2>2, <2>4, <2>6 DEF RotationInv, RowIsRead
      <4> QED BY <2>1, <4>1, <4>2, <4>3, <4>4
    <3>2. CASE v # w
      <4>1. Past(v) /\ handler'[v] = handler[v] /\ handler[v].call \in Calls
        BY <1>1, <2>5, <2>6, <3>2
      <4>2. /\ accepted[handler[v].call] > 0
            /\ handler[v].key = call[handler[v].call].key
            /\ \A s \in Sessions : store[s] # None => store[s].key # handler[v].call
            /\ \A x \in Workers \ {v} : Past(x) => handler[x].call # handler[v].call
            /\ \A x \in Workers : HoldsRow(x) => handler[x].row.key # handler[v].call
        BY <4>1 DEF RotationInv, PastIsOwn
      <4>3. accepted'[handler[v].call] > 0 /\ handler[v].call # n
        BY <2>2, <4>1, <4>2
      <4>4. \A x \in Workers \ {v} : Past(x)' => handler'[x].call # handler[v].call
        BY <1>1, <2>4, <2>6, <4>2, <4>3
      <4>5. \A x \in Workers : HoldsRow(x)' => handler'[x].row.key # handler[v].call
        BY <1>1, <2>4, <2>6, <4>2
      <4> QED BY <1>1, <4>1, <4>2, <4>3, <4>4, <4>5
    <3> QED BY <3>1, <3>2
  <2>9. RowIsRead'
    <3> SUFFICES ASSUME NEW v \in Workers, HoldsRow(v)'
        PROVE /\ handler'[v].row \in Row
              /\ handler'[v].row.key \in Calls => accepted'[handler'[v].row.key] > 0
              /\ store'[SidOf(v)'] # None
              /\ handler'[v].row.key = store'[SidOf(v)'].key =>
                   handler'[v].row.rotatedAt = store'[SidOf(v)'].rotatedAt
              /\ handler'[v].pc = "set" => handler'[v].rotatedAt - handler'[v].row.rotatedAt >= Rotation
      BY DEF RowIsRead
    <3>1. v # w /\ HoldsRow(v) /\ handler'[v] = handler[v] /\ SidOf(v)' = SidOf(v)
      BY <1>1, <2>4, <2>6
    <3> QED BY <1>1, <2>2, <3>1 DEF RotationInv, RowIsRead
  <2>10. \A r \in replies' : r \in replies \/ Fitting(r)
    BY <1>1, <1>3, SuccessFits DEF Finish, Continue
  <2> QED BY <2>7, <2>8, <2>9, <2>10, AnswersStay DEF RotationInv
<1> QED BY <1>2, <1>3 DEF CheckNonce

\* A rotation stores the key of its own request, which no other handler has read.
LEMMA RotationSet ==
  ASSUME Inv, RotationInv, [Next]_vars, NEW w \in Workers, RefreshSet(w)
  PROVE  RotationInv'
<1> DEFINE n == handler[w].call
           s == SidOf(w)
<1>1. /\ handler[w].pc = "set" /\ Past(w) /\ handler[w] \in Busy /\ n \in Calls
      /\ call[n] # None /\ s \in Sessions
  <2>1. handler[w].pc = "set" /\ Past(w)
    BY DEF RefreshSet, Past
  <2> QED BY <2>1, PastFacts
<1>2. /\ accepted[n] > 0 /\ handler[w].key = call[n].key
      /\ \A v \in Workers \ {w} : Past(v) => handler[v].call # n
      /\ \A v \in Workers : HoldsRow(v) => handler[v].row.key # n
  BY <1>1 DEF RotationInv, PastIsOwn
<1>3. /\ UNCHANGED <<call, accepted>>
      /\ handler'[w] = Idle /\ \A v \in Workers \ {w} : handler'[v] = handler[v]
  BY DEF RefreshSet, Finish, Inv, TypeOK, client
<1>4. /\ store'[s].key = n /\ store'[s] # None
      /\ \A x \in Sessions \ {s} : store'[x] = store[x]
  <2> DEFINE row == [key |-> n, rotatedAt |-> handler[w].rotatedAt, expires |-> now + SessionTTL]
  <2>1. store' = [store EXCEPT ![s] = row]
    BY DEF RefreshSet
  <2>2. store'[s] = row /\ \A x \in Sessions \ {s} : store'[x] = store[x]
    BY <1>1, <2>1 DEF Inv, TypeOK
  <2>3. row \in Row
    BY <1>1, TimesAssumption DEF Row, Keys, Busy, Inv, TypeOK
  <2> QED BY <2>2, <2>3, NoneAssumption
<1>5. ASSUME NEW v \in Workers, Past(v)' \/ HoldsRow(v)'
      PROVE  /\ v # w /\ Past(v) /\ (HoldsRow(v)' => HoldsRow(v)) /\ handler'[v] = handler[v]
             /\ handler[v].call \in Calls /\ SidOf(v) \in Sessions /\ SidOf(v)' = SidOf(v)
  <2>1. v # w /\ handler'[v] = handler[v]
    BY <1>3, <1>5 DEF Past, HoldsRow, Idle
  <2>2. Past(v) /\ (HoldsRow(v)' => HoldsRow(v))
    BY <1>5, <2>1 DEF Past, HoldsRow
  <2> QED BY <2>1, <2>2, PastFacts
<1>6. KeysAccepted'
  BY <1>2, <1>3, <1>4 DEF RotationInv, KeysAccepted
<1>7. PastIsOwn'
  <2> SUFFICES ASSUME NEW v \in Workers, Past(v)'
      PROVE /\ accepted'[handler'[v].call] > 0
            /\ handler'[v].key = call'[handler'[v].call].key
            /\ \A x \in Sessions : store'[x] # None => store'[x].key # handler'[v].call
            /\ \A x \in Workers \ {v} : Past(x)' => handler'[x].call # handler'[v].call
            /\ \A x \in Workers : HoldsRow(x)' => handler'[x].row.key # handler'[v].call
    BY DEF PastIsOwn
  <2>1. v # w /\ Past(v) /\ handler'[v] = handler[v]
    BY <1>5
  <2>2. /\ accepted[handler[v].call] > 0
        /\ handler[v].key = call[handler[v].call].key
        /\ \A x \in Sessions : store[x] # None => store[x].key # handler[v].call
        /\ \A x \in Workers \ {v} : Past(x) => handler[x].call # handler[v].call
        /\ \A x \in Workers : HoldsRow(x) => handler[x].row.key # handler[v].call
    BY <2>1 DEF RotationInv, PastIsOwn
  <2>3. handler[v].call # n
    BY <1>2, <2>1
  <2> QED BY <1>3, <1>4, <1>5, <2>1, <2>2, <2>3
<1>8. RowIsRead'
  <2> SUFFICES ASSUME NEW v \in Workers, HoldsRow(v)'
      PROVE /\ handler'[v].row \in Row
            /\ handler'[v].row.key \in Calls => accepted'[handler'[v].row.key] > 0
            /\ store'[SidOf(v)'] # None
            /\ handler'[v].row.key = store'[SidOf(v)'].key =>
                 handler'[v].row.rotatedAt = store'[SidOf(v)'].rotatedAt
            /\ handler'[v].pc = "set" => handler'[v].rotatedAt - handler'[v].row.rotatedAt >= Rotation
    BY DEF RowIsRead
  <2>1. /\ v # w /\ HoldsRow(v) /\ handler'[v] = handler[v]
        /\ SidOf(v) \in Sessions /\ SidOf(v)' = SidOf(v)
    BY <1>5
  <2>2. handler[v].row.key # n
    BY <1>2, <2>1
  <2>3. /\ handler[v].row \in Row
        /\ handler[v].row.key \in Calls => accepted[handler[v].row.key] > 0
        /\ store[SidOf(v)] # None
        /\ handler[v].row.key = store[SidOf(v)].key =>
             handler[v].row.rotatedAt = store[SidOf(v)].rotatedAt
        /\ handler[v].pc = "set" => handler[v].rotatedAt - handler[v].row.rotatedAt >= Rotation
    BY <2>1 DEF RotationInv, RowIsRead
  <2> QED BY <1>3, <1>4, <2>1, <2>2, <2>3
<1>9. \A r \in replies' : r \in replies \/ Fitting(r)
  BY <1>1, <1>2, SuccessFits DEF RefreshSet, Finish
<1> QED BY <1>6, <1>7, <1>8, <1>9, AnswersStay DEF RotationInv

LEMMA RotationStep == Inv /\ RotationInv /\ [Next]_vars => RotationInv'
<1> SUFFICES ASSUME Inv, RotationInv, [Next]_vars PROVE RotationInv'
  OBVIOUS
<1>1. ASSUME NEW r \in replies, Receive(r) \/ LoseReply(r) PROVE RotationInv'
  <2>1. UNCHANGED <<handler, accepted>> /\ replies' \subseteq replies
    BY <1>1 DEF Receive, LoseReply
  <2> QED BY <2>1, RotationClient
<1>2. CASE \/ \E s \in Sessions : Handshake(s)
           \/ HandshakeDone
           \/ \E n \in Calls, op \in Ops, offset \in Offsets, copies \in 1 .. MaxCopies :
                Request(n, op, offset, copies)
           \/ \E n \in Calls : GiveUp(n)
           \/ Restart
           \/ Tick
           \/ UNCHANGED vars
  <2>1. UNCHANGED <<handler, accepted>> /\ replies' \subseteq replies
    BY <1>2 DEF Handshake, HandshakeDone, Request, GiveUp, Restart, Tick, vars, redis, client
  <2> QED BY <2>1, RotationClient
<1> QED
  BY <1>1, <1>2, RotationArrive, RotationNonce, RotationRefresh, RotationSet DEF Next

\* Every answer that grants a request can be read by the client that made it,
\* though the session's key may have been rotated while it was handled.
THEOREM AnswersCanBeRead == Spec => []ReadableAnswers
<1>1. Inv /\ RotationInv => ReadableAnswers
  BY DEF RotationInv
<1> QED BY <1>1, InvInit, InvStep, RotationInit, RotationStep, PTL DEF Spec

\* A heartbeat rotates a key that is due; only one that has read the row before
\* another heartbeat's rotation may rotate again at once.
THEOREM RotationsAreSpaced == Spec => RotationSpaced
<1> DEFINE Spaced(s) ==
      store[s] # None /\ store'[s].key # store[s].key =>
        \/ store'[s].rotatedAt - store[s].rotatedAt >= Rotation
        \/ \E w \in Workers : /\ handler[w].pc = "set" /\ SidOf(w) = s
                              /\ handler[w].row.key # store[s].key
<1>1. ASSUME Inv, RotationInv, [Next]_vars PROVE \A s \in Sessions : Spaced(s)
  <2>1. CASE ~ \E w \in Workers : RefreshSet(w)
    BY <1>1, <2>1, StoreStep DEF RowsKept
  <2>2. ASSUME NEW w \in Workers, RefreshSet(w) PROVE \A s \in Sessions : Spaced(s)
    <3>1. ASSUME NEW s \in Sessions, s # SidOf(w) PROVE store'[s] = store[s]
      BY <1>1, <2>2, <3>1 DEF RefreshSet, Inv, TypeOK
    <3>2. ASSUME SidOf(w) \in Sessions PROVE Spaced(SidOf(w))
      <4>1. store'[SidOf(w)].rotatedAt = handler[w].rotatedAt
        BY <1>1, <2>2, <3>2 DEF RefreshSet, Inv, TypeOK
      <4>2. /\ handler[w].pc = "set"
            /\ handler[w].row.key = store[SidOf(w)].key =>
                 handler[w].row.rotatedAt = store[SidOf(w)].rotatedAt
            /\ handler[w].rotatedAt - handler[w].row.rotatedAt >= Rotation
        BY <1>1, <2>2 DEF RefreshSet, RotationInv, RowIsRead, HoldsRow
      <4> QED BY <4>1, <4>2
    <3> QED BY <3>1, <3>2
  <2> QED BY <2>1, <2>2
<1>2. Inv /\ RotationInv /\ [Next]_vars => [\A s \in Sessions : Spaced(s)]_vars
  BY <1>1
<1> QED BY <1>2, InvInit, InvStep, RotationInit, RotationStep, PTL DEF Spec, RotationSpaced

-----------------------------------------------------------------------------
(***************************************************************************)
(* One handler and no duplicates: where the client's key and the server's  *)
(* part.                                                                   *)
(***************************************************************************)
\* One handler, and no request that reaches the server twice.
OneByOne == MaxCopies = 1 /\ \A v, w \in Workers : v = w

Untold(n) == call[n].result \in {"PENDING", "NETWORK_ERROR"}
Busied(w, n) == handler[w].pc # "idle" /\ handler[w].call = n

\* Requests are signed with the key of a handshake.
SignedByHandshake ==
  \A n \in Calls : call[n] # None =>
    /\ call[n].key = call[n].sid /\ store[call[n].sid] # None /\ call[n].copies <= 1
    /\ call[n].result = "PENDING" => session # None /\ session.id = call[n].sid

\* A request is still to arrive, in a handler, or answered, and its result open
\* till then.
OneAnswer ==
  /\ \A n \in Calls : call[n] # None /\ call[n].copies = 1 =>
       Untold(n) /\ (\A w \in Workers : ~Busied(w, n)) /\ (\A r \in replies : r.call # n)
  /\ \A w \in Workers : handler[w].pc # "idle" =>
       /\ Untold(handler[w].call)
       /\ \A r \in replies : r.call # handler[w].call
       /\ handler[w].pc = "nonce" => handler[w].key = store[SidOf(w)].key
       /\ Past(w) => /\ call[handler[w].call].op = "heartbeat"
                     /\ store[SidOf(w)].key = SidOf(w)
  /\ \A r \in replies : Untold(r.call)
  /\ \A q, r \in replies : q.call = r.call => q = r

\* The key of a row is the one of its handshake, or of a heartbeat that has been
\* answered with it.
KeyIsAnswered ==
  /\ \A s \in Sessions : store[s] # None =>
       \/ store[s].key = s
       \/ /\ store[s].key \in Calls
          /\ call[store[s].key] # None
          /\ call[store[s].key].sid = s
          /\ call[store[s].key].op = "heartbeat"
          /\ call[store[s].key].copies = 0
          /\ \A w \in Workers : ~Busied(w, store[s].key)
          /\ \A r \in replies : r.call = store[s].key => r.newKey = r.call
  /\ \A r \in replies : r.newKey # None =>
       r.newKey = r.call /\ store[call[r.call].sid].key = r.call

\* The client's session has the key of its handshake or the one the row has, and
\* that one unless it has not been told.
ClientKey ==
  /\ session # None =>
       /\ store[session.id] # None
       /\ session.form = "hex" => session.key = session.id
       /\ session.form = "base64" => session.key \in Calls /\ store[session.id].key = session.key
       /\ \/ store[session.id].key = session.key
          \/ store[session.id].key \in Calls /\ Untold(store[session.id].key)
  /\ greeting # None =>
       /\ session = None
       /\ store[greeting] # None /\ store[greeting].key = greeting
       /\ \A n \in Calls : call[n] # None => call[n].sid # greeting

AgreeInv == SignedByHandshake /\ OneAnswer /\ KeyIsAnswered /\ ClientKey

\* What the variables of AgreeInv range over.
LEMMA AgreeTypes ==
  ASSUME Inv, RotationInv
  PROVE  /\ \A n \in Calls : call[n] # None =>
              /\ call[n] \in Made /\ call[n].sid \in Sessions /\ call[n].copies \in Int
         /\ \A w \in Workers : handler[w].pc # "idle" =>
              /\ handler[w] \in Busy /\ handler[w].call \in Calls /\ call[handler[w].call] # None
              /\ SidOf(w) = call[handler[w].call].sid /\ SidOf(w) \in Sessions
         /\ \A r \in replies : /\ r.call \in Calls /\ call[r.call] # None
                               /\ r.result \in Results /\ r.newKey \in Keys \cup {None}
         /\ session # None => session.id \in Sessions
         /\ greeting # None => greeting \in Sessions
         /\ \A n \in Calls : n \notin Sessions /\ n # None
         /\ None \notin Sessions
<1>1. \A n \in Calls : call[n] # None =>
        call[n] \in Made /\ call[n].sid \in Sessions /\ call[n].copies \in Int
  BY MadeType, TimesAssumption DEF Inv, Made
<1>2. \A w \in Workers : handler[w].pc # "idle" =>
        /\ handler[w] \in Busy /\ handler[w].call \in Calls /\ call[handler[w].call] # None
        /\ SidOf(w) = call[handler[w].call].sid /\ SidOf(w) \in Sessions
  <2>1. ASSUME NEW w \in Workers, handler[w].pc # "idle"
        PROVE  handler[w] \in Busy /\ handler[w].call \in Calls /\ call[handler[w].call] # None
    BY <2>1, BusyType DEF Inv, CheckedLately, Busy
  <2> QED BY <1>1, <2>1 DEF SidOf
<1>3. \A r \in replies : /\ r.call \in Calls /\ call[r.call] # None
                         /\ r.result \in Results /\ r.newKey \in Keys \cup {None}
  BY DEF RotationInv, AnswersKnown, Inv, TypeOK, Answer
<1>4. (session # None => session.id \in Sessions) /\ (greeting # None => greeting \in Sessions)
  BY DEF Inv, TypeOK, ClientSession
<1> QED BY <1>1, <1>2, <1>3, <1>4, SetsAssumption

LEMMA AgreeInit == Init => AgreeInv
BY DEF Init, AgreeInv, SignedByHandshake, OneAnswer, KeyIsAnswered, ClientKey, Idle

\* The handler answers its request, without a new key.
LEMMA AgreeAnswered ==
  ASSUME OneByOne, Inv, RotationInv, AgreeInv, RowsKept, NEW w \in Workers, NEW r,
         handler[w].pc # "idle", handler'[w] = Idle,
         r.call = handler[w].call, r.newKey = None, replies' = replies \cup {r},
         UNCHANGED <<call, session, greeting>>
  PROVE  AgreeInv'
<1> DEFINE n == handler[w].call
<1>1. /\ n \in Calls /\ call[n] # None /\ Untold(n) /\ call[n].copies # 1
      /\ \A q \in replies : q.call # n
      /\ \A s \in Sessions : store[s] # None => store[s].key # n
  <2>1. Busied(w, n)
    BY DEF Busied
  <2>2. n \in Calls /\ call[n] # None /\ n \notin Sessions
    BY AgreeTypes
  <2>3. call[n].copies # 1 /\ Untold(n) /\ \A q \in replies : q.call # n
    BY <2>1, <2>2 DEF AgreeInv, OneAnswer
  <2>4. \A s \in Sessions : store[s] # None => store[s].key # n
    BY <2>1, <2>2 DEF AgreeInv, KeyIsAnswered
  <2> QED BY <2>2, <2>3, <2>4
<1>2. \A v \in Workers : v = w /\ handler'[v].pc = "idle"
  BY DEF OneByOne, Idle
<1>3. SignedByHandshake'
  BY AgreeTypes DEF AgreeInv, SignedByHandshake, RowsKept
<1>4. OneAnswer'
  <2>1. \A m \in Calls : Untold(m)' = Untold(m)
    BY DEF Untold
  <2>2. \A v \in Workers, m \in Calls : ~Busied(v, m)'
    BY <1>2 DEF Busied
  <2>3. \A m \in Calls : call'[m] # None /\ call'[m].copies = 1 =>
          Untold(m)' /\ (\A v \in Workers : ~Busied(v, m)') /\ (\A q \in replies' : q.call # m)
    BY <1>1, <2>1, <2>2 DEF AgreeInv, OneAnswer
  <2>4. \A q \in replies' : Untold(q.call)'
    BY <1>1, <2>1, AgreeTypes DEF AgreeInv, OneAnswer
  <2>5. \A p, q \in replies' : q.call = p.call => p = q
    BY <1>1 DEF AgreeInv, OneAnswer
  <2> QED BY <1>2, <2>3, <2>4, <2>5 DEF OneAnswer
<1>5. KeyIsAnswered'
  <2>1. \A v \in Workers, m \in Calls : ~Busied(v, m)'
    BY <1>2 DEF Busied
  <2>2. ASSUME NEW s \in Sessions, store'[s] # None
        PROVE  \/ store'[s].key = s
               \/ /\ store'[s].key \in Calls
                  /\ call'[store'[s].key] # None
                  /\ call'[store'[s].key].sid = s
                  /\ call'[store'[s].key].op = "heartbeat"
                  /\ call'[store'[s].key].copies = 0
                  /\ \A v \in Workers : ~Busied(v, store[s].key)'
                  /\ \A q \in replies' : q.call = store'[s].key => q.newKey = q.call
    <3>1. CASE store[s] = None
      BY <2>2, <3>1 DEF RowsKept
    <3>2. CASE store[s] # None
      <4>1. store'[s].key = store[s].key /\ store[s].key # n
        BY <1>1, <3>2 DEF RowsKept
      <4> QED BY <2>1, <3>2, <4>1 DEF AgreeInv, KeyIsAnswered
    <3> QED BY <3>1, <3>2
  <2>3. ASSUME NEW q \in replies', q.newKey # None
        PROVE  q.newKey = q.call /\ store'[call'[q.call].sid].key = q.call
    <3>1. q \in replies
      BY <2>3
    <3>2. call[q.call].sid \in Sessions /\ store[call[q.call].sid] # None
      BY <3>1, AgreeTypes DEF AgreeInv, SignedByHandshake
    <3> QED BY <2>3, <3>1, <3>2 DEF AgreeInv, KeyIsAnswered, RowsKept
  <2> QED BY <1>2, <2>2, <2>3 DEF KeyIsAnswered, Busied
<1>6. ClientKey'
  BY AgreeTypes DEF AgreeInv, ClientKey, RowsKept, Untold
<1> QED BY <1>3, <1>4, <1>5, <1>6 DEF AgreeInv

\* The handler goes on with its request.
LEMMA AgreeContinued ==
  ASSUME OneByOne, Inv, RotationInv, AgreeInv, RowsKept, NEW w \in Workers,
         handler[w].pc # "idle", handler'[w].call = handler[w].call,
         handler'[w].pc \in {"get", "expire", "set"},
         call[handler[w].call].op = "heartbeat", store[SidOf(w)].key = SidOf(w),
         UNCHANGED <<call, session, greeting, replies>>
  PROVE  AgreeInv'
<1>1. \A v \in Workers : v = w
  BY DEF OneByOne
<1>2. /\ handler[w].call \in Calls /\ call[handler[w].call] # None /\ SidOf(w) \in Sessions
      /\ SidOf(w)' = SidOf(w) /\ store[SidOf(w)] # None /\ SidOf(w) = call[handler[w].call].sid
  <2>1. /\ handler[w].call \in Calls /\ call[handler[w].call] # None /\ SidOf(w) \in Sessions
        /\ SidOf(w) = call[handler[w].call].sid
    BY AgreeTypes
  <2>2. store[SidOf(w)] # None
    BY <2>1 DEF AgreeInv, SignedByHandshake
  <2> QED BY <2>1, <2>2 DEF SidOf
<1>3. \A m \in Calls : Busied(w, m)' = Busied(w, m) /\ Untold(m)' = Untold(m)
  BY DEF Busied, Untold
<1>4. SignedByHandshake'
  BY AgreeTypes DEF AgreeInv, SignedByHandshake, RowsKept
<1>5. OneAnswer'
  <2>1. \A m \in Calls : call'[m] # None /\ call'[m].copies = 1 =>
          Untold(m)' /\ (\A v \in Workers : ~Busied(v, m)') /\ (\A q \in replies' : q.call # m)
    BY <1>1, <1>3 DEF AgreeInv, OneAnswer
  <2>2. /\ Untold(handler[w].call)'
        /\ \A q \in replies' : q.call # handler'[w].call
        /\ call'[handler'[w].call].op = "heartbeat"
        /\ store'[SidOf(w)'].key = SidOf(w)'
    BY <1>2, <1>3 DEF AgreeInv, OneAnswer, RowsKept
  <2>3. \A q \in replies' : Untold(q.call)'
    BY <1>3, AgreeTypes DEF AgreeInv, OneAnswer
  <2>4. \A p, q \in replies' : q.call = p.call => p = q
    BY DEF AgreeInv, OneAnswer
  <2> QED BY <1>1, <2>1, <2>2, <2>3, <2>4 DEF OneAnswer
<1>6. KeyIsAnswered'
  <2>1. ASSUME NEW s \in Sessions, store'[s] # None
        PROVE  \/ store'[s].key = s
               \/ /\ store'[s].key \in Calls
                  /\ call'[store'[s].key] # None
                  /\ call'[store'[s].key].sid = s
                  /\ call'[store'[s].key].op = "heartbeat"
                  /\ call'[store'[s].key].copies = 0
                  /\ ~Busied(w, store[s].key)'
                  /\ \A q \in replies' : q.call = store'[s].key => q.newKey = q.call
    <3>1. CASE store[s] = None
      BY <2>1, <3>1 DEF RowsKept
    <3>2. CASE store[s] # None
      <4>1. store'[s].key = store[s].key
        BY <3>2 DEF RowsKept
      <4> QED BY <1>3, <3>2, <4>1 DEF AgreeInv, KeyIsAnswered
    <3> QED BY <3>1, <3>2
  <2>2. ASSUME NEW q \in replies', q.newKey # None
        PROVE  q.newKey = q.call /\ store'[call'[q.call].sid].key = q.call
    <3>1. call[q.call].sid \in Sessions /\ store[call[q.call].sid] # None
      BY AgreeTypes DEF AgreeInv, SignedByHandshake
    <3> QED BY <2>2, <3>1 DEF AgreeInv, KeyIsAnswered, RowsKept
  <2> QED BY <1>1, <2>1, <2>2 DEF KeyIsAnswered
<1>7. ClientKey'
  BY AgreeTypes DEF AgreeInv, ClientKey, RowsKept, Untold
<1> QED BY <1>4, <1>5, <1>6, <1>7 DEF AgreeInv

\* A request arrives: it is in the handler now or has its answer.
LEMMA AgreeArrive ==
  ASSUME OneByOne, Inv, RotationInv, AgreeInv, [Next]_vars,
         NEW w \in Workers, NEW n \in Calls, Arrive(w, n)
  PROVE  AgreeInv'
<1>1. /\ call[n] # None /\ call[n] \in Made /\ call[n].copies = 1 /\ call[n].sid \in Sessions
      /\ UNCHANGED <<store, session, greeting>>
      /\ handler[w] = Idle /\ \A v \in Workers : v = w
  <2>1. call[n] # None /\ call[n].copies > 0 /\ call[n].copies <= 1
    BY DEF Arrive, AgreeInv, SignedByHandshake
  <2> QED BY <2>1, AgreeTypes DEF Arrive, OneByOne
<1>2. /\ Untold(n) /\ \A q \in replies : q.call # n
      /\ \A s \in Sessions : store[s] # None => store[s].key # n
  <2>1. Untold(n) /\ \A q \in replies : q.call # n
    BY <1>1 DEF AgreeInv, OneAnswer
  <2> QED BY <1>1, <2>1, AgreeTypes DEF AgreeInv, KeyIsAnswered
<1>3. /\ \A m \in Calls : call[m] # None =>
           /\ call'[m] # None /\ call'[m].op = call[m].op /\ call'[m].sid = call[m].sid
           /\ call'[m].key = call[m].key
      /\ \A m \in Calls : call'[m] # None => call[m] # None /\ call'[m].copies <= call[m].copies
      /\ call'[n].copies = 0
      /\ \A m \in Calls \ {n} : call'[m] = call[m]
      /\ \A m \in Calls : call[m] # None => call'[m].result = call[m].result
  <2>1. call'[n] = [call[n] EXCEPT !.copies = @ - 1] /\ \A m \in Calls \ {n} : call'[m] = call[m]
    BY DEF Arrive, Inv, TypeOK
  <2>2. /\ call'[n].copies = 0 /\ call'[n].result = call[n].result
        /\ call'[n].op = call[n].op /\ call'[n].sid = call[n].sid /\ call'[n].key = call[n].key
    BY <1>1, <2>1 DEF Made
  <2> QED BY <1>1, <2>1, <2>2, AgreeTypes, CallStays
<1>4. \A m \in Calls : call[m] # None => Untold(m)' = Untold(m)
  BY <1>3 DEF Untold
<1>5. /\ \/ handler'[w] = Idle
         \/ /\ handler'[w].pc = "nonce" /\ handler'[w].call = n
            /\ handler'[w].key = store[call[n].sid].key /\ replies' = replies
      /\ \A q \in replies' : q \in replies \/ (q.call = n /\ q.newKey = None)
      /\ \A p, q \in replies' : p.call = n /\ q.call = n => p = q
  BY <1>1, <1>2 DEF Arrive, Finish, Refused, Inv, TypeOK
<1>6. /\ \A v \in Workers, m \in Calls : m # n => ~Busied(v, m)'
      /\ handler'[w].pc # "idle" => SidOf(w)' = call[n].sid
  BY <1>1, <1>3, <1>5 DEF Busied, Idle, SidOf
<1>7. SignedByHandshake'
  BY <1>1, <1>3, AgreeTypes DEF AgreeInv, SignedByHandshake
<1>8. OneAnswer'
  <2>1. \A m \in Calls : call'[m] # None /\ call'[m].copies = 1 =>
          Untold(m)' /\ (\A v \in Workers : ~Busied(v, m)') /\ (\A q \in replies' : q.call # m)
    BY <1>3, <1>4, <1>5, <1>6 DEF AgreeInv, OneAnswer
  <2>2. ASSUME handler'[w].pc # "idle"
        PROVE  /\ Untold(handler[w].call)'
               /\ \A q \in replies' : q.call # handler'[w].call
               /\ handler'[w].pc = "nonce" => handler'[w].key = store'[SidOf(w)'].key
               /\ ~Past(w)'
    <3>1. /\ handler'[w].pc = "nonce" /\ handler'[w].call = n
          /\ handler'[w].key = store[call[n].sid].key /\ replies' = replies
      BY <1>5, <2>2 DEF Idle
    <3>2. Untold(n)'
      BY <1>1, <1>2, <1>4
    <3> QED BY <1>1, <1>2, <1>6, <2>2, <3>1, <3>2 DEF Past, Untold
  <2>3. \A q \in replies' : Untold(q.call)'
    BY <1>1, <1>2, <1>4, <1>5, AgreeTypes DEF AgreeInv, OneAnswer
  <2>4. \A p, q \in replies' : q.call = p.call => p = q
    BY <1>2, <1>5 DEF AgreeInv, OneAnswer
  <2> QED BY <1>1, <2>1, <2>2, <2>3, <2>4 DEF OneAnswer
<1>9. KeyIsAnswered'
  <2>1. ASSUME NEW s \in Sessions, store'[s] # None
        PROVE  \/ store'[s].key = s
               \/ /\ store'[s].key \in Calls
                  /\ call'[store'[s].key] # None
                  /\ call'[store'[s].key].sid = s
                  /\ call'[store'[s].key].op = "heartbeat"
                  /\ call'[store'[s].key].copies = 0
                  /\ \A v \in Workers : ~Busied(v, store[s].key)'
                  /\ \A q \in replies' : q.call = store'[s].key => q.newKey = q.call
    <3>1. store[s].key # n /\ store'[s] = store[s]
      BY <1>1, <1>2, <2>1
    <3> QED BY <1>3, <1>5, <1>6, <2>1, <3>1 DEF AgreeInv, KeyIsAnswered, Busied
  <2>2. ASSUME NEW q \in replies', q.newKey # None
        PROVE  q.newKey = q.call /\ store'[call'[q.call].sid].key = q.call
    <3>1. q \in replies /\ q.call # n /\ q.call \in Calls
      BY <1>2, <1>5, <2>2, AgreeTypes
    <3> QED BY <1>1, <1>3, <2>2, <3>1 DEF AgreeInv, KeyIsAnswered
  <2> QED BY <1>1, <2>1, <2>2 DEF KeyIsAnswered, Busied
<1>10. ClientKey'
  <2>1. session # None /\ store[session.id].key \in Calls => call[store[session.id].key] # None
    BY AgreeTypes DEF AgreeInv, ClientKey, KeyIsAnswered
  <2>2. session # None /\ store[session.id].key \in Calls /\ Untold(store[session.id].key)
          => Untold(store[session.id].key)'
    BY <1>1, <1>4, <2>1 DEF Untold
  <2> QED BY <1>1, <1>3, <2>2 DEF AgreeInv, ClientKey, Untold
<1> QED BY <1>7, <1>8, <1>9, <1>10 DEF AgreeInv

\* The guard's verdict, and the steps of a heartbeat before its rotation.
LEMMA AgreeHandler ==
  ASSUME OneByOne, Inv, RotationInv, AgreeInv, [Next]_vars, NEW w \in Workers,
         CheckNonce(w) \/ RefreshGet(w) \/ RefreshExpire(w)
  PROVE  AgreeInv'
<1>1. /\ handler[w].pc \in {"nonce", "get", "expire"} /\ handler[w] \in Busy
      /\ handler[w].call \in Calls /\ call[handler[w].call] # None
      /\ call[handler[w].call].key = SidOf(w)
      /\ \A v \in Workers : v = w
  <2>1. handler[w].pc \in {"nonce", "get", "expire"}
    BY DEF CheckNonce, RefreshGet, RefreshExpire
  <2> QED BY <2>1, AgreeTypes DEF AgreeInv, SignedByHandshake, OneByOne
<1>2. UNCHANGED <<call, session, greeting>>
  BY DEF CheckNonce, RefreshGet, RefreshExpire, client
<1>3. RowsKept
  <2>1. ~ \E v \in Workers : RefreshSet(v)
    BY <1>1 DEF RefreshSet
  <2> QED BY <2>1, StoreStep
<1>4. ASSUME NEW r, Finish(w, r), r.call = handler[w].call, r.newKey = None
      PROVE  AgreeInv'
  <2>1. handler'[w] = Idle /\ replies' = replies \cup {r}
    BY <1>4 DEF Finish, Inv, TypeOK
  <2> QED BY <1>1, <1>2, <1>3, <1>4, <2>1, AgreeAnswered
<1>5. ASSUME handler'[w].call = handler[w].call, handler'[w].pc \in {"get", "expire", "set"},
             UNCHANGED replies,
             call[handler[w].call].op = "heartbeat", store[SidOf(w)].key = SidOf(w)
      PROVE  AgreeInv'
  BY <1>1, <1>2, <1>3, <1>5, AgreeContinued
<1>6. CASE CheckNonce(w)
  <2>1. ASSUME NEW result, Finish(w, Refused(handler[w].call, result)) PROVE AgreeInv'
    BY <1>4, <2>1 DEF Refused
  <2>2. CASE Finish(w, Success(w, None))
    BY <1>4, <2>2 DEF Success
  <2>3. CASE /\ handler[w].key = call[handler[w].call].key
             /\ call[handler[w].call].op = "heartbeat" /\ Continue(w, "get")
    <3>1. handler'[w].call = handler[w].call /\ handler'[w].pc = "get" /\ UNCHANGED replies
      BY <1>1, <2>3 DEF Continue, Inv, TypeOK, Busy
    <3>2. store[SidOf(w)].key = SidOf(w)
      BY <1>1, <1>6, <2>3 DEF CheckNonce, AgreeInv, OneAnswer
    <3> QED BY <1>5, <2>3, <3>1, <3>2
  <2> QED BY <1>6, <2>1, <2>2, <2>3 DEF CheckNonce
<1>7. CASE RefreshGet(w) \/ RefreshExpire(w)
  <2>1. call[handler[w].call].op = "heartbeat" /\ store[SidOf(w)].key = SidOf(w)
    BY <1>1, <1>7 DEF RefreshGet, RefreshExpire, AgreeInv, OneAnswer, Past
  <2>2. ASSUME NEW result, Finish(w, Refused(handler[w].call, result)) PROVE AgreeInv'
    BY <1>4, <2>2 DEF Refused
  <2>3. CASE Finish(w, Success(w, None))
    BY <1>4, <2>3 DEF Success
  <2>4. CASE /\ handler' = [handler EXCEPT ![w].pc = "expire", ![w].row = store[SidOf(w)]]
             /\ UNCHANGED replies
    <3>1. handler'[w].call = handler[w].call /\ handler'[w].pc = "expire"
      BY <1>1, <2>4 DEF Inv, TypeOK, Busy
    <3> QED BY <1>5, <2>1, <2>4, <3>1
  <2>5. CASE /\ handler' = [handler EXCEPT ![w].pc = "set", ![w].rotatedAt = now]
             /\ UNCHANGED replies
    <3>1. handler'[w].call = handler[w].call /\ handler'[w].pc = "set"
      BY <1>1, <2>5 DEF Inv, TypeOK, Busy
    <3> QED BY <1>5, <2>1, <2>5, <3>1
  <2> QED BY <1>7, <2>2, <2>3, <2>4, <2>5 DEF RefreshGet, RefreshExpire
<1> QED BY <1>6, <1>7

\* The SET of a rotation: from here to the arrival of its answer the client has
\* the key of the handshake, the server that of the heartbeat.
LEMMA AgreeSet ==
  ASSUME OneByOne, Inv, RotationInv, AgreeInv, NEW w \in Workers, RefreshSet(w)
  PROVE  AgreeInv'
<1> DEFINE n == handler[w].call
           s == SidOf(w)
           r == Success(w, n)
<1>1. /\ handler[w].pc = "set" /\ Past(w) /\ handler[w] \in Busy /\ n \in Calls /\ n # None
      /\ call[n] # None /\ call[n] \in Made /\ s \in Sessions /\ s = call[n].sid
      /\ \A v \in Workers : v = w
      /\ UNCHANGED <<call, session, greeting>>
  <2>1. handler[w].pc = "set" /\ Past(w) /\ UNCHANGED <<call, session, greeting>>
    BY DEF RefreshSet, Past, client
  <2> QED BY <2>1, AgreeTypes DEF OneByOne
<1>2. /\ Untold(n) /\ call[n].copies = 0 /\ call[n].op = "heartbeat"
      /\ \A q \in replies : q.call # n
      /\ store[s] # None /\ store[s].key = s
  <2>1. Busied(w, n)
    BY <1>1 DEF Busied
  <2>2. Untold(n) /\ call[n].op = "heartbeat" /\ store[s].key = s /\ \A q \in replies : q.call # n
    BY <1>1 DEF AgreeInv, OneAnswer
  <2>3. call[n].copies # 1 /\ call[n].copies <= 1 /\ store[s] # None
    BY <1>1, <2>1 DEF AgreeInv, OneAnswer, SignedByHandshake
  <2>4. call[n].copies \in 0 .. MaxCopies
    BY <1>1 DEF Made
  <2> QED BY <2>2, <2>3, <2>4, TimesAssumption
<1>3. /\ r.call = n /\ r.newKey = n /\ replies' = replies \cup {r} /\ handler'[w] = Idle
  BY <1>1 DEF RefreshSet, Finish, Success, Inv, TypeOK
<1>4. /\ store'[s].key = n /\ store'[s] # None
      /\ \A x \in Sessions \ {s} : store'[x] = store[x]
  <2> DEFINE row == [key |-> n, rotatedAt |-> handler[w].rotatedAt, expires |-> now + SessionTTL]
  <2>1. store'[s] = row /\ \A x \in Sessions \ {s} : store'[x] = store[x]
    BY <1>1 DEF RefreshSet, Inv, TypeOK
  <2>2. row \in Row
    BY <1>1, TimesAssumption DEF Row, Keys, Busy, Inv, TypeOK
  <2> QED BY <2>1, <2>2, NoneAssumption
<1> HIDE DEF r
<1>5. /\ \A m \in Calls : Untold(m)' = Untold(m)
      /\ \A v \in Workers : handler'[v].pc = "idle"
      /\ \A v \in Workers, m \in Calls : ~Busied(v, m)'
  BY <1>1, <1>3 DEF Untold, Idle, Busied
<1>6. SignedByHandshake'
  BY <1>1, <1>4, AgreeTypes DEF AgreeInv, SignedByHandshake
<1>7. OneAnswer'
  <2>1. \A m \in Calls : call'[m] # None /\ call'[m].copies = 1 =>
          Untold(m)' /\ (\A v \in Workers : ~Busied(v, m)') /\ (\A q \in replies' : q.call # m)
    BY <1>1, <1>2, <1>3, <1>5 DEF AgreeInv, OneAnswer
  <2>2. \A q \in replies' : Untold(q.call)'
    BY <1>1, <1>2, <1>3, <1>5, AgreeTypes DEF AgreeInv, OneAnswer
  <2>3. \A p, q \in replies' : q.call = p.call => p = q
    BY <1>2, <1>3 DEF AgreeInv, OneAnswer
  <2> QED BY <1>5, <2>1, <2>2, <2>3 DEF OneAnswer
<1>8. KeyIsAnswered'
  <2>1. ASSUME NEW x \in Sessions, store'[x] # None
        PROVE  \/ store'[x].key = x
               \/ /\ store'[x].key \in Calls
                  /\ call'[store'[x].key] # None
                  /\ call'[store'[x].key].sid = x
                  /\ call'[store'[x].key].op = "heartbeat"
                  /\ call'[store'[x].key].copies = 0
                  /\ \A q \in replies' : q.call = store'[x].key => q.newKey = q.call
    <3>1. CASE x = s
      BY <1>1, <1>2, <1>3, <1>4, <3>1
    <3>2. CASE x # s
      <4>1. store'[x] = store[x] /\ store[x] # None
        BY <1>4, <2>1, <3>2
      <4> QED BY <1>1, <1>3, <4>1 DEF AgreeInv, KeyIsAnswered
    <3> QED BY <3>1, <3>2
  <2>2. ASSUME NEW q \in replies', q.newKey # None
        PROVE  q.newKey = q.call /\ store'[call'[q.call].sid].key = q.call
    <3>1. CASE q = r
      BY <1>1, <1>3, <1>4, <3>1
    <3>2. CASE q \in replies
      <4>1. q.call \in Calls /\ call[q.call].sid \in Sessions /\ q.call # s
        BY <1>1, <3>2, AgreeTypes
      <4>2. q.newKey = q.call /\ store[call[q.call].sid].key = q.call
        BY <2>2, <3>2 DEF AgreeInv, KeyIsAnswered
      <4> QED BY <1>1, <1>2, <1>4, <4>1, <4>2
    <3> QED BY <1>3, <3>1, <3>2
  <2>3. \A x \in Sessions : store'[x] # None => \A v \in Workers : ~Busied(v, store[x].key)'
    BY <1>5, <1>1 DEF Busied
  <2> QED BY <1>5, <2>1, <2>2 DEF KeyIsAnswered, Busied
<1>9. ClientKey'
  <2>1. greeting # None => greeting # s
    BY <1>1 DEF AgreeInv, ClientKey
  <2>2. session # None /\ session.id = s =>
          session.form # "base64" /\ session.id \in Sessions
    BY <1>1, <1>2, AgreeTypes DEF AgreeInv, ClientKey
  <2>3. session # None => session.id \in Sessions
    BY AgreeTypes
  <2>4. greeting # None => greeting \in Sessions
    BY AgreeTypes
  <2>5. call'[n].result \in {"PENDING", "NETWORK_ERROR"}
    BY <1>1, <1>2 DEF Untold
  <2>6. session # None =>
          /\ store'[session.id] # None
          /\ session.form = "hex" => session.key = session.id
          /\ session.form = "base64" => session.key \in Calls /\ store'[session.id].key = session.key
          /\ \/ store'[session.id].key = session.key
             \/ /\ store'[session.id].key \in Calls
                /\ call'[store'[session.id].key].result \in {"PENDING", "NETWORK_ERROR"}
    <3>1. CASE session.id = s
      BY <1>1, <1>4, <2>2, <2>5, <3>1 DEF AgreeInv, ClientKey, Untold
    <3>2. CASE session.id # s
      BY <1>1, <1>4, <2>3, <3>2 DEF AgreeInv, ClientKey, Untold
    <3> QED BY <3>1, <3>2
  <2>7. greeting # None =>
          /\ session = None
          /\ store'[greeting] # None /\ store'[greeting].key = greeting
          /\ \A m \in Calls : call[m] # None => call[m].sid # greeting
    BY <1>4, <2>1, <2>4 DEF AgreeInv, ClientKey
  <2> QED BY <1>1, <2>6, <2>7 DEF ClientKey, Untold
<1> QED BY <1>6, <1>7, <1>8, <1>9 DEF AgreeInv

\* An answer arrives: a new key is the one the row has, and a row whose key the
\* client is told of now is the row of the client's session.
LEMMA AgreeReceive ==
  ASSUME Inv, RotationInv, AgreeInv, [Next]_vars, NEW r \in replies, Receive(r)
  PROVE  AgreeInv'
<1> DEFINE n == r.call
<1>1. /\ n \in Calls /\ call[n] # None /\ call[n] \in Made /\ call[n].sid \in Sessions
      /\ call[n].result = "PENDING" /\ r.newKey \in Keys \cup {None} /\ r.result \in Results
      /\ UNCHANGED <<store, handler, greeting>> /\ replies' = replies \ {r}
  BY AgreeTypes DEF Receive
<1>2. /\ session # None /\ session.id = call[n].sid /\ greeting = None
      /\ call[n].copies # 1 /\ \A w \in Workers : ~Busied(w, n)
      /\ \A q \in replies' : q.call # n
  <2>1. session # None /\ session.id = call[n].sid
    BY <1>1 DEF AgreeInv, SignedByHandshake
  <2>2. greeting = None
    BY <2>1 DEF AgreeInv, ClientKey
  <2>3. call[n].copies # 1 /\ \A w \in Workers : ~Busied(w, n)
    BY <1>1 DEF AgreeInv, OneAnswer, Busied
  <2>4. \A q \in replies' : q.call # n
    BY <1>1 DEF AgreeInv, OneAnswer
  <2> QED BY <2>1, <2>2, <2>3, <2>4
<1>3. \A m \in Calls : /\ call[m] # None =>
                            /\ call'[m] # None /\ call'[m].op = call[m].op /\ call'[m].sid = call[m].sid
                            /\ call'[m].key = call[m].key
                       /\ call'[m] # None => call[m] # None /\ call'[m].copies = call[m].copies
                       /\ m # n => call'[m] = call[m]
      /\ call'[n].result # "PENDING"
  <2>1. call'[n] = [call[n] EXCEPT !.result = r.result] /\ \A m \in Calls \ {n} : call'[m] = call[m]
    BY <1>1 DEF Receive, Inv, TypeOK
  <2>2. /\ call'[n].copies = call[n].copies /\ call'[n].op = call[n].op
        /\ call'[n].sid = call[n].sid /\ call'[n].key = call[n].key /\ call'[n].result = r.result
    BY <1>1, <2>1 DEF Made
  <2> QED BY <1>1, <2>1, <2>2, CallStays DEF Results
<1>4. \A m \in Calls : m # n => Untold(m)' = Untold(m)
  BY <1>3 DEF Untold
<1>5. \/ call[n].op = "heartbeat" /\ r.newKey # None
         /\ session' = [id |-> call[n].sid, key |-> r.newKey, form |-> "base64"]
      \/ (call[n].op # "heartbeat" \/ r.newKey = None) /\ session' = session
  BY DEF Receive, Adopt
<1>6. session' # None /\ session'.id = session.id
  <2>1. [id |-> call[n].sid, key |-> r.newKey, form |-> "base64"] \in ClientSession
        \/ r.newKey = None
    BY <1>1 DEF ClientSession
  <2> QED BY <1>2, <1>5, <2>1, NoneAssumption
<1>7. SignedByHandshake'
  BY <1>1, <1>2, <1>3, <1>6, AgreeTypes DEF AgreeInv, SignedByHandshake
<1>8. OneAnswer'
  <2>1. \A m \in Calls : call'[m] # None /\ call'[m].copies = 1 =>
          Untold(m)' /\ (\A w \in Workers : ~Busied(w, m)') /\ (\A q \in replies' : q.call # m)
    BY <1>1, <1>2, <1>3, <1>4 DEF AgreeInv, OneAnswer, Busied
  <2>2. ASSUME NEW w \in Workers, handler'[w].pc # "idle"
        PROVE  /\ Untold(handler[w].call)'
               /\ \A q \in replies' : q.call # handler'[w].call
               /\ handler'[w].pc = "nonce" => handler'[w].key = store'[SidOf(w)'].key
               /\ Past(w)' => /\ call'[handler'[w].call].op = "heartbeat"
                              /\ store'[SidOf(w)'].key = SidOf(w)'
    <3>1. /\ handler[w].pc # "idle" /\ handler[w].call \in Calls /\ handler[w].call # n
          /\ call[handler[w].call] # None
      BY <1>1, <1>2, <2>2, AgreeTypes DEF Busied
    <3>2. SidOf(w)' = SidOf(w) /\ Past(w)' = Past(w)
      BY <1>1, <1>3, <3>1 DEF SidOf, Past
    <3>3. Untold(handler[w].call)'
      BY <1>1, <1>4, <3>1 DEF AgreeInv, OneAnswer, Untold
    <3> QED BY <1>1, <1>3, <3>1, <3>2, <3>3 DEF AgreeInv, OneAnswer
  <2>3. \A q \in replies' : Untold(q.call)'
    BY <1>1, <1>2, <1>4, AgreeTypes DEF AgreeInv, OneAnswer
  <2>4. \A p, q \in replies' : q.call = p.call => p = q
    BY <1>1 DEF AgreeInv, OneAnswer
  <2> QED BY <2>1, <2>2, <2>3, <2>4 DEF OneAnswer
<1>9. KeyIsAnswered'
  <2>1. ASSUME NEW q \in replies', q.newKey # None
        PROVE  q.newKey = q.call /\ store'[call'[q.call].sid].key = q.call
    BY <1>1, <1>3, <2>1, AgreeTypes DEF AgreeInv, KeyIsAnswered
  <2>2. \A w \in Workers, m \in Calls : Busied(w, m)' = Busied(w, m)
    BY <1>1 DEF Busied
  <2> QED BY <1>1, <1>3, <2>1, <2>2 DEF AgreeInv, KeyIsAnswered, Busied
<1>10. ClientKey'
  <2>1. CASE call[n].op = "heartbeat" /\ r.newKey # None
    <3>1. session' = [id |-> call[n].sid, key |-> r.newKey, form |-> "base64"]
      BY <1>5, <2>1
    <3>2. r.newKey = n /\ store[call[n].sid].key = n
      BY <2>1 DEF AgreeInv, KeyIsAnswered
    <3>3. store[call[n].sid] # None
      BY <1>1 DEF AgreeInv, SignedByHandshake
    <3> QED BY <1>1, <1>2, <3>1, <3>2, <3>3 DEF ClientKey
  <2>2. CASE call[n].op # "heartbeat" \/ r.newKey = None
    <3>1. session' = session
      BY <1>5, <2>2
    <3>2. session.id \in Sessions /\ store[session.id] # None
      BY <1>2, AgreeTypes DEF AgreeInv, ClientKey
    <3>3. store[session.id].key # n
      BY <1>1, <2>2, <3>2, AgreeTypes DEF AgreeInv, KeyIsAnswered
    <3> QED BY <1>1, <1>2, <1>4, <3>1, <3>3 DEF AgreeInv, ClientKey, Untold
  <2> QED BY <2>1, <2>2
<1> QED BY <1>7, <1>8, <1>9, <1>10 DEF AgreeInv

\* The client's other steps.
LEMMA AgreeHandshake ==
  ASSUME Inv, RotationInv, AgreeInv, RowsKept, NEW s \in Sessions, Handshake(s)
  PROVE  AgreeInv'
<1>1. /\ session = None /\ store[s] = None /\ greeting' = s
      /\ UNCHANGED <<handler, session, call, replies>>
  BY DEF Handshake
<1>2. store'[s].key = s /\ store'[s] # None
  <2> DEFINE row == [key |-> s, rotatedAt |-> now, expires |-> now + SessionTTL]
  <2>1. store'[s] = row
    BY DEF Handshake, Inv, TypeOK
  <2>2. row \in Row
    BY TimesAssumption DEF Row, Keys, Inv, TypeOK
  <2> QED BY <2>1, <2>2, NoneAssumption
<1>3. \A n \in Calls : call[n] # None => call[n].sid # s
  BY <1>1 DEF AgreeInv, SignedByHandshake
<1>4. SignedByHandshake'
  BY <1>1, AgreeTypes DEF AgreeInv, SignedByHandshake, RowsKept
<1>5. /\ \A w \in Workers, m \in Calls : Busied(w, m)' = Busied(w, m)
      /\ \A m \in Calls : Untold(m)' = Untold(m)
      /\ \A w \in Workers : Past(w)' = Past(w) /\ SidOf(w)' = SidOf(w)
  BY <1>1 DEF Busied, Untold, Past, SidOf
<1>6. OneAnswer'
  <2>1. ASSUME NEW w \in Workers, handler[w].pc # "idle"
        PROVE  store'[SidOf(w)].key = store[SidOf(w)].key
    <3>1. SidOf(w) \in Sessions /\ store[SidOf(w)] # None
      BY <2>1, AgreeTypes DEF AgreeInv, SignedByHandshake
    <3> QED BY <3>1 DEF RowsKept
  <2> QED BY <1>1, <1>5, <2>1, AgreeTypes DEF AgreeInv, OneAnswer, Untold
<1>7. KeyIsAnswered'
  <2>1. ASSUME NEW q \in replies, q.newKey # None
        PROVE  q.newKey = q.call /\ store'[call[q.call].sid].key = q.call
    <3>1. call[q.call].sid \in Sessions /\ store[call[q.call].sid] # None
      BY AgreeTypes DEF AgreeInv, SignedByHandshake
    <3> QED BY <2>1, <3>1 DEF AgreeInv, KeyIsAnswered, RowsKept
  <2> QED BY <1>1, <2>1 DEF AgreeInv, KeyIsAnswered, RowsKept, Busied
<1>8. ClientKey'
  BY <1>1, <1>2, <1>3 DEF ClientKey
<1> QED BY <1>4, <1>6, <1>7, <1>8 DEF AgreeInv

LEMMA AgreeGreeted ==
  ASSUME Inv, RotationInv, AgreeInv, HandshakeDone
  PROVE  AgreeInv'
<1>1. /\ greeting # None /\ session = None /\ greeting' = None
      /\ store[greeting] # None /\ store[greeting].key = greeting
      /\ UNCHANGED <<store, handler, call, replies>>
  BY DEF HandshakeDone, AgreeInv, ClientKey
<1>2. \A n \in Calls : call[n] # None => call[n].result # "PENDING"
  BY <1>1 DEF AgreeInv, SignedByHandshake
<1>3. SignedByHandshake'
  BY <1>1, <1>2 DEF AgreeInv, SignedByHandshake
<1>4. OneAnswer' /\ KeyIsAnswered'
  BY <1>1 DEF AgreeInv, OneAnswer, KeyIsAnswered, Untold, Busied, Past, SidOf
<1>5. ClientKey'
  BY <1>1 DEF HandshakeDone, ClientKey
<1> QED BY <1>3, <1>4, <1>5 DEF AgreeInv

LEMMA AgreeRequest ==
  ASSUME OneByOne, Inv, RotationInv, AgreeInv, [Next]_vars,
         NEW n \in Calls, NEW op \in Ops, NEW offset \in Offsets,
         NEW copies \in 1 .. MaxCopies, Request(n, op, offset, copies)
  PROVE  AgreeInv'
<1>1. /\ call[n] = None /\ session # None /\ session.form = "hex" /\ greeting = None
      /\ session.key = session.id /\ store[session.id] # None
      /\ UNCHANGED <<store, handler, session, greeting, replies>>
  BY DEF Request, AgreeInv, ClientKey
<1>2. /\ call'[n].sid = session.id /\ call'[n].key = session.id /\ call'[n].copies = 1
      /\ call'[n].result = "PENDING"
      /\ \A m \in Calls \ {n} : call'[m] = call[m]
  BY <1>1 DEF Request, Inv, TypeOK, OneByOne
<1>3. /\ \A w \in Workers : ~Busied(w, n)
      /\ \A q \in replies : q.call # n
      /\ \A s \in Sessions : store[s] # None => store[s].key # n
  BY <1>1, AgreeTypes DEF Busied, AgreeInv, KeyIsAnswered
<1>4. /\ \A w \in Workers, m \in Calls : Busied(w, m)' = Busied(w, m)
      /\ \A m \in Calls \ {n} : Untold(m)' = Untold(m)
      /\ \A w \in Workers : Past(w)' = Past(w)
      /\ \A w \in Workers : handler[w].pc # "idle" =>
           handler[w].call \in Calls \ {n} /\ SidOf(w)' = SidOf(w)
  BY <1>1, <1>2, AgreeTypes DEF Busied, Untold, Past, SidOf
<1>5. SignedByHandshake'
  BY <1>1, <1>2 DEF AgreeInv, SignedByHandshake
<1>6. OneAnswer'
  <2>1. \A m \in Calls : call'[m] # None /\ call'[m].copies = 1 =>
          Untold(m)' /\ (\A w \in Workers : ~Busied(w, m)') /\ (\A q \in replies' : q.call # m)
    BY <1>1, <1>2, <1>3, <1>4 DEF AgreeInv, OneAnswer, Untold
  <2>2. ASSUME NEW w \in Workers, handler'[w].pc # "idle"
        PROVE  /\ Untold(handler[w].call)'
               /\ \A q \in replies' : q.call # handler'[w].call
               /\ handler'[w].pc = "nonce" => handler'[w].key = store'[SidOf(w)'].key
               /\ Past(w)' => /\ call'[handler'[w].call].op = "heartbeat"
                              /\ store'[SidOf(w)'].key = SidOf(w)'
    BY <1>1, <1>2, <1>4, <2>2 DEF AgreeInv, OneAnswer, Untold
  <2>3. \A q \in replies' : Untold(q.call)'
    BY <1>1, <1>3, <1>4, AgreeTypes DEF AgreeInv, OneAnswer
  <2>4. \A p, q \in replies' : q.call = p.call => p = q
    BY <1>1 DEF AgreeInv, OneAnswer
  <2> QED BY <2>1, <2>2, <2>3, <2>4 DEF OneAnswer
<1>7. KeyIsAnswered'
  BY <1>1, <1>2, <1>3, AgreeTypes DEF AgreeInv, KeyIsAnswered, Busied
<1>8. ClientKey'
  <2>1. store[session.id].key # n
    BY <1>1, <1>3, AgreeTypes
  <2> QED BY <1>1, <1>2, <2>1 DEF AgreeInv, ClientKey, Untold
<1> QED BY <1>5, <1>6, <1>7, <1>8 DEF AgreeInv

\* Requests whose answers nobody waits for any more, with or without a session.
LEMMA AgreeForgets ==
  ASSUME Inv, RotationInv, AgreeInv, [Next]_vars, UNCHANGED <<store, handler>>,
         replies' \subseteq replies,
         \A m \in Calls : call[m] # None =>
           call'[m] = call[m] \/ (call[m].result = "PENDING"
                                   /\ call'[m] = [call[m] EXCEPT !.result = "NETWORK_ERROR"]),
         \A m \in Calls : call[m] = None => call'[m] = None,
         \/ UNCHANGED <<session, greeting>>
         \/ session' = None /\ greeting' = None /\ \A m \in Calls : call'[m] # None => call'[m].result # "PENDING"
  PROVE  AgreeInv'
<1>1. \A m \in Calls :
        /\ call[m] # None =>
             /\ call'[m] # None /\ call'[m].op = call[m].op /\ call'[m].sid = call[m].sid
             /\ call'[m].key = call[m].key /\ call'[m].copies = call[m].copies
             /\ Untold(m)' = Untold(m)
             /\ call'[m].result = "PENDING" => call[m].result = "PENDING"
        /\ call'[m] # None => call[m] # None
  <2> SUFFICES ASSUME NEW m \in Calls, call[m] # None
      PROVE  /\ call'[m] # None /\ call'[m].op = call[m].op /\ call'[m].sid = call[m].sid
             /\ call'[m].key = call[m].key /\ call'[m].copies = call[m].copies
             /\ Untold(m)' = Untold(m)
             /\ call'[m].result = "PENDING" => call[m].result = "PENDING"
    BY DEF Untold
  <2>1. CASE call'[m] = call[m]
    BY <2>1 DEF Untold
  <2>2. CASE /\ call[m].result = "PENDING"
             /\ call'[m] = [call[m] EXCEPT !.result = "NETWORK_ERROR"]
    <3>1. call[m] \in Made
      BY AgreeTypes
    <3>2. /\ call'[m].copies = call[m].copies /\ call'[m].result = "NETWORK_ERROR"
          /\ call'[m].op = call[m].op /\ call'[m].sid = call[m].sid /\ call'[m].key = call[m].key
      BY <2>2, <3>1 DEF Made
    <3> QED BY <2>2, <3>2, CallStays DEF Untold
  <2> QED BY <2>1, <2>2
<1>2. /\ \A w \in Workers, m \in Calls : Busied(w, m)' = Busied(w, m)
      /\ \A w \in Workers : Past(w)' = Past(w)
      /\ \A w \in Workers : handler[w].pc # "idle" =>
           handler[w].call \in Calls /\ SidOf(w)' = SidOf(w) /\ call[handler[w].call] # None
  BY <1>1, AgreeTypes DEF Busied, Past, SidOf
<1>3. SignedByHandshake'
  BY <1>1 DEF AgreeInv, SignedByHandshake
<1>4. OneAnswer'
  <2>1. \A m \in Calls : call'[m] # None /\ call'[m].copies = 1 =>
          Untold(m)' /\ (\A w \in Workers : ~Busied(w, m)') /\ (\A q \in replies' : q.call # m)
    BY <1>1, <1>2 DEF AgreeInv, OneAnswer
  <2>2. ASSUME NEW w \in Workers, handler'[w].pc # "idle"
        PROVE  /\ Untold(handler[w].call)'
               /\ \A q \in replies' : q.call # handler'[w].call
               /\ handler'[w].pc = "nonce" => handler'[w].key = store'[SidOf(w)'].key
               /\ Past(w)' => /\ call'[handler'[w].call].op = "heartbeat"
                              /\ store'[SidOf(w)'].key = SidOf(w)'
    BY <1>1, <1>2, <2>2 DEF AgreeInv, OneAnswer, Untold
  <2>3. \A q \in replies' : Untold(q.call)'
    BY <1>1, AgreeTypes DEF AgreeInv, OneAnswer
  <2>4. \A p, q \in replies' : q.call = p.call => p = q
    BY DEF AgreeInv, OneAnswer
  <2> QED BY <2>1, <2>2, <2>3, <2>4 DEF OneAnswer
<1>5. KeyIsAnswered'
  BY <1>1, AgreeTypes DEF AgreeInv, KeyIsAnswered, Busied
<1>6. ClientKey'
  <2>1. CASE UNCHANGED <<session, greeting>>
    <3>1. session # None /\ store[session.id].key \in Calls => call[store[session.id].key] # None
      BY AgreeTypes DEF AgreeInv, ClientKey, KeyIsAnswered
    <3> QED BY <1>1, <2>1, <3>1 DEF AgreeInv, ClientKey, Untold
  <2>2. CASE session' = None /\ greeting' = None
    BY <2>2 DEF ClientKey
  <2> QED BY <2>1, <2>2
<1> QED BY <1>3, <1>4, <1>5, <1>6 DEF AgreeInv

LEMMA AgreeStep ==
  ASSUME OneByOne
  PROVE  Inv /\ RotationInv /\ AgreeInv /\ [Next]_vars => AgreeInv'
<1> SUFFICES ASSUME Inv, RotationInv, AgreeInv, [Next]_vars PROVE AgreeInv'
  OBVIOUS
<1>1. ASSUME NEW s \in Sessions, Handshake(s) PROVE AgreeInv'
  <2>1. ~ \E w \in Workers : RefreshSet(w)
    <3>1. UNCHANGED handler
      BY <1>1 DEF Handshake
    <3> QED BY <3>1 DEF RefreshSet, Finish, Idle, Inv, TypeOK
  <2> QED BY <1>1, <2>1, StoreStep, AgreeHandshake
<1>2. ASSUME NEW n \in Calls, GiveUp(n) PROVE AgreeInv'
  <2>1. \A m \in Calls : call'[m] = IF m = n THEN [call[n] EXCEPT !.result = "NETWORK_ERROR"]
                                    ELSE call[m]
    BY <1>2 DEF GiveUp, Inv, TypeOK
  <2> QED BY <1>2, <2>1, AgreeForgets DEF GiveUp
<1>3. CASE Restart
  <2>1. \A m \in Calls : call'[m] = IF call[m] # None /\ call[m].result = "PENDING"
                                    THEN [call[m] EXCEPT !.result = "NETWORK_ERROR"] ELSE call[m]
    BY <1>3 DEF Restart
  <2>2. \A m \in Calls : call'[m] # None => call'[m].result # "PENDING"
    BY <2>1, AgreeTypes DEF Made
  <2> QED BY <1>3, <2>1, <2>2, AgreeForgets DEF Restart
<1>4. CASE (\E r \in replies : LoseReply(r)) \/ Tick \/ UNCHANGED vars
  <2>1. UNCHANGED <<store, handler, call, session, greeting>> /\ replies' \subseteq replies
    BY <1>4 DEF LoseReply, Tick, vars, redis, client
  <2> QED BY <2>1, AgreeForgets
<1>5. ASSUME NEW n \in Calls, NEW op \in Ops, NEW offset \in Offsets, NEW copies \in 1 .. MaxCopies,
             Request(n, op, offset, copies)
      PROVE  AgreeInv'
  BY <1>5, AgreeRequest
<1> QED
  BY <1>1, <1>2, <1>3, <1>4, <1>5, AgreeGreeted, AgreeReceive, AgreeArrive, AgreeHandler, AgreeSet
  DEF Next

\* With one handler and requests that reach the server at most once, however many
\* answers are lost and applications restarted: the server's key is the one the
\* client signs with, or that of a heartbeat whose answer is still awaited or was
\* lost.
THEOREM KeysPartByLossOnly ==
  ASSUME OneByOne
  PROVE  Spec => []KeysAgree
<1>1. AgreeInv => KeysAgree
  BY DEF AgreeInv, ClientKey, KeysAgree, Live, Untold
<1> QED
  BY <1>1, InvInit, InvStep, RotationInit, RotationStep, AgreeInit, AgreeStep, PTL DEF Spec
=============================================================================
