----------------------------- MODULE SdkSession -----------------------------
(***************************************************************************)
(* The encrypted session between one application process (XiaochengjianSDK)*)
(* and the server: the handshake that agrees on an AES key, the guard every*)
(* signed request passes (SdkSignatureGuard), and the heartbeat that keeps *)
(* the session alive and rotates its key (HandshakeService).               *)
(*                                                                         *)
(* The session and the nonces are keys of Redis with a time to live; each  *)
(* Redis command is a step of its own, and a handler keeps what it read in *)
(* local variables between two of them.  The network loses, delays and     *)
(* duplicates requests and loses and reorders answers.                     *)
(***************************************************************************)
EXTENDS Integers

CONSTANTS
  Calls,         \* the signed requests the application makes; each has its own nonce
  Ops,           \* what they ask for: "heartbeat", or "other" (activate, validate)
  Sessions,      \* session ids
  Workers,       \* request handlers that may run together
  Offsets,       \* how far the device's clock may be from the server's
  Skew,          \* MAX_TIMESTAMP_SKEW
  NonceTTL,      \* NONCE_TTL
  SessionTTL,    \* SESSION_TTL
  Rotation,      \* ROTATION_INTERVAL
  Stall,         \* longest time between the guard's clock check and its SETNX
  MaxCopies,     \* bound on how often one request reaches the server
  MaxTime,       \* bound on the server's clock
  Lossy,         \* TRUE: answers may be lost
  None

ASSUME SetsAssumption ==
  /\ Calls \cap Sessions = {}
  /\ None \notin Calls \cup Sessions /\ None \notin Int
  /\ Ops \subseteq {"heartbeat", "other"}
  /\ Offsets \subseteq Int
  /\ Lossy \in BOOLEAN
ASSUME TimesAssumption ==
  /\ Skew \in Nat /\ NonceTTL \in Nat /\ SessionTTL \in Nat /\ Rotation \in Nat
  /\ Stall \in Nat /\ MaxCopies \in Nat /\ MaxTime \in Nat
\* A nonce is remembered for longer than a request with one timestamp can pass
\* the clock check, 300 s against 2 * 60 s, plus the time a handler may lie
\* between that check and the SETNX.
ASSUME NonceAssumption == NonceTTL > 2 * Skew + Stall

\* A key is named for where it was made: the handshake of a session (by the
\* client) or a heartbeat (by the server).
Keys == Sessions \cup Calls

VARIABLES
  store,      \* store[s]: the Redis key sdk_session:s, with its time of expiry
  nonces,     \* nonces[n]: when the Redis key sdk_nonce:n expires
  handler,    \* handler[w]: the request worker w is handling
  session,    \* the SDK's `session` field
  greeting,   \* the handshake in flight, which holds the SDK's sessionMutex
  call,       \* call[n]: the request n as the SDK made it
  replies,    \* answers on their way
  accepted,   \* accepted[n]: how often request n has passed the guard
  now         \* the server's clock

client == <<session, greeting, call>>
redis == <<store, nonces>>
vars == <<store, nonces, handler, session, greeting, call, replies, accepted, now>>

Row == [key : Keys, rotatedAt : Int, expires : Int]
\* The client keeps its key as text: the hexadecimal of the handshake, or the
\* base64 a heartbeat answers with.
ClientSession == [id : Sessions, key : Keys, form : {"hex", "base64"}]
Results == {"OK", "SESSION_EXPIRED_OR_INVALID", "TIMESTAMP_SKEW_EXCEEDED",
            "NONCE_ALREADY_USED", "INVALID_SIGNATURE", "SESSION_EXPIRED"}
Made == [op : Ops, sid : Sessions, key : Keys, ts : Int, copies : 0 .. MaxCopies,
         result : Results \cup {"PENDING", "NETWORK_ERROR"}]
ASSUME NoneAssumption == None \notin Made \cup Row \cup ClientSession
Answer == [call : Calls, result : Results, under : Keys \cup {None}, newKey : Keys \cup {None}]
Busy == [pc : {"nonce", "get", "expire", "set"}, call : Calls,
         key : Keys,           \* the session's key as the guard read it
         checkedAt : Int,      \* when the guard read the clock
         row : Row \cup {None},        \* the session as refreshSession read it
         rotatedAt : Int]              \* the `now` of a rotation
Idle == [pc |-> "idle"]

Init ==
  /\ store = [s \in Sessions |-> None]
  /\ nonces = [n \in Calls |-> None]
  /\ handler = [w \in Workers |-> Idle]
  /\ session = None
  /\ greeting = None
  /\ call = [n \in Calls |-> None]
  /\ replies = {}
  /\ accepted = [n \in Calls |-> 0]
  /\ now = 0

\* A key of Redis is there until its time to live is over.
Live(s) == store[s] # None /\ now < store[s].expires
NonceFree(n) == nonces[n] # None => now >= nonces[n]

-----------------------------------------------------------------------------
(***************************************************************************)
(* The SDK.                                                                *)
(***************************************************************************)
\* A call finds no session and shakes hands, holding sessionMutex; the server
\* stores the key under a new id.
Handshake(s) ==
  /\ session = None /\ greeting = None
  /\ store[s] = None
  /\ store' = [store EXCEPT ![s] = [key |-> s, rotatedAt |-> now, expires |-> now + SessionTTL]]
  /\ greeting' = s
  /\ UNCHANGED <<nonces, handler, session, call, replies, accepted, now>>

HandshakeDone ==
  /\ greeting # None
  /\ \/ session' = [id |-> greeting, key |-> greeting, form |-> "hex"]
     \/ Lossy /\ UNCHANGED session
  /\ greeting' = None
  /\ UNCHANGED <<store, nonces, handler, call, replies, accepted, now>>

\* doSignedRequest: encrypt and sign with the session's key, which the native
\* library takes in hexadecimal only, and send.  The network delivers the
\* request once or, when a connection breaks and it is sent again, more often.
Request(n, op, offset, copies) ==
  /\ session # None /\ greeting = None
  /\ call[n] = None
  /\ session.form = "hex"
  /\ call' = [call EXCEPT ![n] = [op |-> op, sid |-> session.id, key |-> session.key,
                                  ts |-> now + offset, copies |-> copies, result |-> "PENDING"]]
  /\ UNCHANGED <<store, nonces, handler, session, greeting, replies, accepted, now>>

\* An answer arrives; a heartbeat's may carry a new key, which replaces the one
\* of the session the heartbeat was made with.
MutAdopt(n, newKey) ==
  IF call[n].op = "heartbeat" /\ newKey # None
  THEN [id |-> call[n].sid, key |-> call[n].key, form |-> "base64"] ELSE session
Adopt(n, newKey) ==
  IF call[n].op = "heartbeat" /\ newKey # None
  THEN [id |-> call[n].sid, key |-> newKey, form |-> "base64"] ELSE session

Receive(r) ==
  /\ call[r.call] # None /\ call[r.call].result = "PENDING"
  /\ call' = [call EXCEPT ![r.call].result = r.result]
  /\ session' = Adopt(r.call, r.newKey)
  /\ replies' = replies \ {r}
  /\ UNCHANGED <<store, nonces, handler, greeting, accepted, now>>

\* No answer within the read timeout.
GiveUp(n) ==
  /\ Lossy
  /\ call[n] # None /\ call[n].result = "PENDING"
  /\ call' = [call EXCEPT ![n].result = "NETWORK_ERROR"]
  /\ UNCHANGED <<store, nonces, handler, session, greeting, replies, accepted, now>>

\* The process dies with its session; nobody waits for its answers any more.
Restart ==
  /\ session # None \/ greeting # None
  /\ session' = None /\ greeting' = None
  /\ call' = [n \in Calls |-> IF call[n] # None /\ call[n].result = "PENDING"
                              THEN [call[n] EXCEPT !.result = "NETWORK_ERROR"] ELSE call[n]]
  /\ UNCHANGED <<store, nonces, handler, replies, accepted, now>>

-----------------------------------------------------------------------------
(***************************************************************************)
(* The server: SdkSignatureGuard, then HandshakeService.refreshSession for *)
(* a heartbeat.                                                            *)
(***************************************************************************)
Refused(n, result) == [call |-> n, result |-> result, under |-> None, newKey |-> None]
\* An answer is encrypted under the key the guard read.
MutSuccess(w, newKey) ==
  [call |-> handler[w].call, result |-> "OK",
   under |-> IF newKey = None THEN handler[w].key ELSE newKey, newKey |-> newKey]
Success(w, newKey) ==
  [call |-> handler[w].call, result |-> "OK", under |-> handler[w].key, newKey |-> newKey]

Finish(w, r) ==
  /\ replies' = replies \cup {r}
  /\ handler' = [handler EXCEPT ![w] = Idle]
Continue(w, pc) == handler' = [handler EXCEPT ![w].pc = pc] /\ UNCHANGED replies

InTime(ts) == now - ts <= Skew /\ ts - now <= Skew

\* Steps 1 and 2 of the guard: the session is read, then the clock.
Arrive(w, n) ==
  /\ handler[w] = Idle
  /\ call[n] # None /\ call[n].copies > 0
  /\ call' = [call EXCEPT ![n].copies = @ - 1]
  /\ \/ /\ ~Live(call[n].sid)
        /\ Finish(w, Refused(n, "SESSION_EXPIRED_OR_INVALID"))
     \/ /\ Live(call[n].sid) /\ ~InTime(call[n].ts)
        /\ Finish(w, Refused(n, "TIMESTAMP_SKEW_EXCEEDED"))
     \/ /\ Live(call[n].sid) /\ InTime(call[n].ts)
        /\ handler' = [handler EXCEPT ![w] =
             [pc |-> "nonce", call |-> n, key |-> store[call[n].sid].key, checkedAt |-> now,
              row |-> None, rotatedAt |-> 0]]
        /\ UNCHANGED replies
  /\ UNCHANGED <<store, nonces, session, greeting, accepted, now>>

\* Steps 3 to 6: SET NX of the nonce, which a bad signature uses up as well.
MutNonceExpiry == now + Skew
NonceExpiry == now + NonceTTL

CheckNonce(w) ==
  LET n == handler[w].call
  IN  /\ handler[w].pc = "nonce"
      /\ \/ /\ ~NonceFree(n)
            /\ Finish(w, Refused(n, "NONCE_ALREADY_USED"))
            /\ UNCHANGED <<nonces, accepted>>
         \/ /\ NonceFree(n) /\ handler[w].key # call[n].key
            /\ nonces' = [nonces EXCEPT ![n] = NonceExpiry]
            /\ Finish(w, Refused(n, "INVALID_SIGNATURE"))
            /\ UNCHANGED accepted
         \/ /\ NonceFree(n) /\ handler[w].key = call[n].key
            /\ nonces' = [nonces EXCEPT ![n] = NonceExpiry]
            /\ accepted' = [accepted EXCEPT ![n] = @ + 1]
            /\ \/ call[n].op = "other" /\ Finish(w, Success(w, None))
               \/ call[n].op = "heartbeat" /\ Continue(w, "get")
      /\ UNCHANGED <<store, session, greeting, call, now>>

SidOf(w) == call[handler[w].call].sid

\* refreshSession: GET.
RefreshGet(w) ==
  /\ handler[w].pc = "get"
  /\ \/ /\ ~Live(SidOf(w))
        /\ Finish(w, Refused(handler[w].call, "SESSION_EXPIRED"))
     \/ /\ Live(SidOf(w))
        /\ handler' = [handler EXCEPT ![w].pc = "expire", ![w].row = store[SidOf(w)]]
        /\ UNCHANGED replies
  /\ UNCHANGED <<redis, client, accepted, now>>

\* EXPIRE, which does nothing to a key that is gone; then the clock decides
\* whether the key, as it was read, is due.
MutDue(row) == now - row.rotatedAt > 0
Due(row) == now - row.rotatedAt >= Rotation

RefreshExpire(w) ==
  /\ handler[w].pc = "expire"
  /\ store' = IF Live(SidOf(w)) THEN [store EXCEPT ![SidOf(w)].expires = now + SessionTTL] ELSE store
  /\ \/ /\ ~Due(handler[w].row)
        /\ Finish(w, Success(w, None))
     \/ /\ Due(handler[w].row)
        /\ handler' = [handler EXCEPT ![w].pc = "set", ![w].rotatedAt = now]
        /\ UNCHANGED replies
  /\ UNCHANGED <<nonces, client, accepted, now>>

\* SET of the session with the new key, whatever the store holds by now.
RefreshSet(w) ==
  /\ handler[w].pc = "set"
  /\ store' = [store EXCEPT ![SidOf(w)] =
                 [key |-> handler[w].call, rotatedAt |-> handler[w].rotatedAt,
                  expires |-> now + SessionTTL]]
  /\ Finish(w, Success(w, handler[w].call))
  /\ UNCHANGED <<nonces, client, accepted, now>>

LoseReply(r) ==
  /\ Lossy \/ call[r.call].result # "PENDING"
  /\ replies' = replies \ {r}
  /\ UNCHANGED <<redis, handler, client, accepted, now>>

Tick ==
  /\ now < MaxTime
  /\ \A w \in Workers : handler[w].pc = "nonce" => now < handler[w].checkedAt + Stall
  /\ now' = now + 1
  /\ UNCHANGED <<redis, handler, client, replies, accepted>>

Next ==
  \/ \E s \in Sessions : Handshake(s)
  \/ HandshakeDone
  \/ \E n \in Calls, op \in Ops, offset \in Offsets, copies \in 1 .. MaxCopies :
       Request(n, op, offset, copies)
  \/ \E n \in Calls : GiveUp(n)
  \/ \E r \in replies : Receive(r) \/ LoseReply(r)
  \/ Restart
  \/ \E w \in Workers, n \in Calls : Arrive(w, n)
  \/ \E w \in Workers : CheckNonce(w) \/ RefreshGet(w) \/ RefreshExpire(w) \/ RefreshSet(w)
  \/ Tick

Spec == Init /\ [][Next]_vars

-----------------------------------------------------------------------------
(***************************************************************************)
(* Properties.                                                             *)
(***************************************************************************)
TypeOK ==
  /\ store \in [Sessions -> Row \cup {None}]
  /\ nonces \in [Calls -> Int \cup {None}]
  /\ handler \in [Workers -> Busy \cup {Idle}]
  /\ session \in ClientSession \cup {None}
  /\ greeting \in Sessions \cup {None}
  /\ call \in [Calls -> Made \cup {None}]
  /\ replies \subseteq Answer
  /\ accepted \in [Calls -> Nat]
  /\ now \in Int

\* A request passes the guard at most once, however often and however late the
\* network delivers it and however many handlers work on its copies: by the
\* time its nonce is forgotten, its timestamp is out of range.
AcceptedOnce == \A n \in Calls : accepted[n] <= 1

\* The client can read every answer that grants its request: it is encrypted
\* under the key the request was signed with, also when the session's key has
\* been rotated meanwhile, by this request or by another.
ReadableAnswers == \A r \in replies : r.result = "OK" => r.under = call[r.call].key

\* While one handler works at a time, the server's key is the client's unless the
\* answer that carries it is still awaited or was never received: a rotation
\* leaves the client behind in no other way.
KeysAgree ==
  session # None /\ Live(session.id) =>
    LET key == store[session.id].key
    IN  \/ key = session.key
        \/ key \in Calls /\ call[key].result \in {"PENDING", "NETWORK_ERROR"}

\* A key is rotated no sooner than ROTATION_INTERVAL after the last rotation,
\* but by a handler that had read the session before that rotation.
RotationSpaced ==
  [][\A s \in Sessions :
       store[s] # None /\ store'[s].key # store[s].key =>
         \/ store'[s].rotatedAt - store[s].rotatedAt >= Rotation
         \/ \E w \in Workers : /\ handler[w].pc = "set" /\ SidOf(w) = s
                               /\ handler[w].row.key # store[s].key]_vars

(***************************************************************************)
(* What the documentation says and the code does not keep.                 *)
(***************************************************************************)
\* ADR 0060: the client sends its later requests with the new key.
KeyIsUsable == session # None => session.form = "hex"

=============================================================================
