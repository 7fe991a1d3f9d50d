----------------------------- MODULE WebSession -----------------------------
(***************************************************************************)
(* The sign-in of a developer in the administration pages: the token pair  *)
(* in localStorage, which all tabs of the browser share, the interceptors  *)
(* of the two axios clients that exchange it when a request is answered    *)
(* 401, the router's guard, and AuthService on the server, which keeps     *)
(* refresh tokens in Redis.                                                *)
(*                                                                         *)
(* A pair of an access and a refresh token is named for what it was issued *)
(* to: a login, or the request whose 401 made the client refresh.  Both    *)
(* are stored and removed together.                                        *)
(***************************************************************************)
EXTENDS Naturals, FiniteSets

CONSTANTS
  Requests,     \* requests the pages make, through client or longTimeoutClient
  Logins,       \* logins of the developer
  Tabs,         \* open pages of the browser
  Tab,          \* Tab[r]: the page that makes request r
  Coded,        \* requests that carry a code or a password, which may be wrong
  MaxLapses,    \* bound on how often all access tokens expire
  MaxFaults,    \* bound on what goes wrong: failures of the network and Redis, refresh tokens
                \* that expire, pages closed or reloaded by the user
  NoPair

Pairs == Logins \cup Requests

ASSUME PairsAssumption == Logins \cap Requests = {} /\ NoPair \notin Pairs
ASSUME TabAssumption == Tab \in [Requests -> Tabs] /\ Coded \subseteq Requests
ASSUME BoundsAssumption == MaxLapses \in Nat /\ MaxFaults \in Nat

VARIABLES
  storage,    \* the pair in localStorage
  session,    \* session[p]: what became of the refresh token of p
  fresh,      \* the pairs whose access token has not expired
  request,    \* request[r]: request r as its client's interceptors see it
  handler,    \* handler[r]: POST /auth/refresh for r, on the server
  logout,     \* logout[t]: the logout in progress in page t
  leaving,    \* pages on their way to /login by window.location
  cut,        \* pairs a page was exchanging or revoking when it was left
  lapses, faults

browser == <<storage, request, logout, leaving, cut>>
server == <<session, fresh, handler>>
bounds == <<lapses, faults>>
vars == <<browser, server, bounds>>

Statuses == {"none", "live", "used", "revoked", "expired"}
Phases == {"idle", "sent", "refresh", "again", "ended"}
Running == {"sent", "refresh", "again"}
Request == [pc : Phases,
            access : Pairs \cup {NoPair},       \* its Authorization header
            presented : Pairs \cup {NoPair},    \* the refresh token it exchanges
            retried : BOOLEAN,                \* config._retried
            refused : BOOLEAN]                \* the endpoint answers 401 by itself
NewRequest == [pc |-> "idle", access |-> NoPair, presented |-> NoPair,
               retried |-> FALSE, refused |-> FALSE]
\* A request at its end: answered, failed, refused or lost with its page.
Ended == [NewRequest EXCEPT !.pc = "ended"]
NoHandler == [pc |-> "none", pair |-> NoPair]
Handler == {NoHandler} \cup [pc : {"get", "del", "issue", "granted", "denied"}, pair : Pairs]
NoLogout == [pc |-> "idle", presented |-> NoPair]
Logout == {NoLogout} \cup [pc : {"revoke", "clear"}, presented : Pairs]

Init ==
  /\ storage = NoPair
  /\ session = [p \in Pairs |-> "none"]
  /\ fresh = {}
  /\ request = [r \in Requests |-> NewRequest]
  /\ handler = [r \in Requests |-> NoHandler]
  /\ logout = [t \in Tabs |-> NoLogout]
  /\ leaving = {} /\ cut = {}
  /\ lapses = 0 /\ faults = 0

Fault == faults < MaxFaults /\ faults' = faults + 1 /\ UNCHANGED lapses

-----------------------------------------------------------------------------
(***************************************************************************)
(* A request and its interceptors.                                         *)
(***************************************************************************)
\* issueTokens: the refresh token goes to Redis, the access token is signed.
Issue(p) ==
  /\ session' = [session EXCEPT ![p] = "live"]
  /\ fresh' = fresh \cup {p}

Login(l) ==
  /\ session[l] = "none"
  /\ Issue(l)
  /\ storage' = l
  /\ UNCHANGED <<request, handler, logout, leaving, cut, bounds>>

\* A page makes a request; a wrong code or password is refused with the same
\* 401 as an expired token.
Begin(r, refused) ==
  /\ request[r].pc = "idle"
  /\ refused => r \in Coded
  /\ request' = [request EXCEPT ![r].pc = "sent", ![r].access = storage, ![r].refused = refused]
  /\ UNCHANGED <<storage, logout, leaving, cut, server, bounds>>

Authorized(r) == request[r].access \in fresh /\ ~request[r].refused

Answered(r) ==
  /\ request[r].pc = "sent" /\ Authorized(r)
  /\ request' = [request EXCEPT ![r] = Ended]
  /\ UNCHANGED <<storage, logout, leaving, cut, server, bounds>>

\* No answer: the promise is rejected and the tokens stay.
Unanswered(r) ==
  /\ request[r].pc = "sent"
  /\ request' = [request EXCEPT ![r] = Ended]
  /\ Fault
  /\ UNCHANGED <<storage, logout, leaving, cut, server>>

\* clearTokens, and the page begins to leave for /login.
ToLogin(r) ==
  /\ storage' = NoPair
  /\ request' = [request EXCEPT ![r] = Ended]
  /\ leaving' = leaving \cup {Tab[r]}

\* A 401 is answered with a refresh, once for each request.
MutMayRefresh(r) == storage # NoPair
MayRefresh(r) == storage # NoPair /\ ~request[r].retried

Unauthorized(r) ==
  /\ request[r].pc = "sent" /\ ~Authorized(r)
  /\ \/ /\ MayRefresh(r)
        /\ request' = [request EXCEPT ![r].pc = "refresh", ![r].presented = storage,
                                      ![r].retried = TRUE]
        /\ handler' = [handler EXCEPT ![r] = [pc |-> "get", pair |-> storage]]
        /\ UNCHANGED <<storage, leaving>>
     \/ /\ ~MayRefresh(r)
        /\ ToLogin(r)
        /\ UNCHANGED handler
  /\ UNCHANGED <<session, fresh, logout, cut, bounds>>

\* The new pair is stored, whatever has been stored since.
Adopted(r) == r
Adopt(r) ==
  /\ request[r].pc = "refresh" /\ handler[r].pc = "granted"
  /\ storage' = Adopted(r)
  /\ request' = [request EXCEPT ![r].pc = "again", ![r].access = r]
  /\ handler' = [handler EXCEPT ![r] = NoHandler]
  /\ UNCHANGED <<session, fresh, logout, leaving, cut, bounds>>

\* The request interceptor runs again and prefers what is stored by then.
Resend(r) ==
  /\ request[r].pc = "again"
  /\ request' = [request EXCEPT ![r].pc = "sent",
                                ![r].access = IF storage # NoPair THEN storage ELSE @]
  /\ UNCHANGED <<storage, logout, leaving, cut, server, bounds>>

\* The refresh is refused, or fails on its way while the server goes on.
Denied(r) ==
  /\ request[r].pc = "refresh" /\ handler[r].pc = "denied"
  /\ ToLogin(r)
  /\ handler' = [handler EXCEPT ![r] = NoHandler]
  /\ UNCHANGED <<session, fresh, logout, cut, bounds>>

Disconnected(r) ==
  /\ request[r].pc = "refresh"
  /\ ToLogin(r)
  /\ handler' = [handler EXCEPT ![r] = IF @.pc \in {"granted", "denied"} THEN NoHandler ELSE @]
  /\ Fault
  /\ UNCHANGED <<session, fresh, logout, cut>>

-----------------------------------------------------------------------------
(***************************************************************************)
(* AuthService.refresh: three commands of Redis.                           *)
(***************************************************************************)
\* The answer; a page that has gone does not hear it.
Reply(r, answer) ==
  handler' = [handler EXCEPT ![r] = IF request[r].pc = "refresh" THEN [@ EXCEPT !.pc = answer]
                                                                 ELSE NoHandler]

RefreshGet(r) ==
  /\ handler[r].pc = "get"
  /\ \/ /\ session[handler[r].pair] = "live"
        /\ handler' = [handler EXCEPT ![r].pc = "del"]
     \/ /\ session[handler[r].pair] # "live"
        /\ Reply(r, "denied")
  /\ UNCHANGED <<session, fresh, browser, bounds>>

Deleted(p, status) ==
  session' = [session EXCEPT ![p] = IF @ = "live" THEN status ELSE @]

RefreshDel(r) ==
  /\ handler[r].pc = "del"
  /\ Deleted(handler[r].pair, "used")
  /\ handler' = [handler EXCEPT ![r].pc = "issue"]
  /\ UNCHANGED <<fresh, browser, bounds>>

RefreshIssue(r) ==
  /\ handler[r].pc = "issue"
  /\ Issue(r)
  /\ Reply(r, "granted")
  /\ UNCHANGED <<browser, bounds>>

\* A command of Redis or the query of the developer fails.
RefreshFails(r) ==
  /\ handler[r].pc \in {"get", "del", "issue"}
  /\ Reply(r, "denied")
  /\ Fault
  /\ UNCHANGED <<session, fresh, browser>>

-----------------------------------------------------------------------------
(***************************************************************************)
(* Logging out, and what ends tokens and pages from outside.               *)
(***************************************************************************)
LogoutBegin(t) ==
  /\ logout[t].pc = "idle" /\ storage # NoPair
  /\ logout' = [logout EXCEPT ![t] = [pc |-> "revoke", presented |-> storage]]
  /\ UNCHANGED <<storage, request, leaving, cut, server, bounds>>

LogoutRevoke(t) ==
  /\ logout[t].pc = "revoke"
  /\ Deleted(logout[t].presented, "revoked")
  /\ logout' = [logout EXCEPT ![t].pc = "clear"]
  /\ UNCHANGED <<storage, request, leaving, cut, fresh, handler, bounds>>

\* A failure is ignored: the browser forgets what the server still knows.
LogoutFails(t) ==
  /\ logout[t].pc = "revoke"
  /\ logout' = [logout EXCEPT ![t].pc = "clear"]
  /\ Fault
  /\ UNCHANGED <<storage, request, leaving, cut, server>>

MutLogoutClear(t) ==
  /\ logout[t].pc = "clear"
  /\ logout' = [logout EXCEPT ![t] = NoLogout]
  /\ UNCHANGED <<storage, request, leaving, cut, server, bounds>>
LogoutClear(t) ==
  /\ logout[t].pc = "clear"
  /\ storage' = NoPair
  /\ logout' = [logout EXCEPT ![t] = NoLogout]
  /\ UNCHANGED <<request, leaving, cut, server, bounds>>

\* The router's guard removes a pair whose access token has expired, before
\* any request could exchange it.
RouterClears ==
  /\ storage # NoPair /\ storage \notin fresh
  /\ storage' = NoPair
  /\ UNCHANGED <<request, logout, leaving, cut, server, bounds>>

\* A page goes away with what it was waiting for: to /login, or by the user.
Leave(t) ==
  /\ \/ t \in leaving /\ UNCHANGED bounds
     \/ t \notin leaving /\ Fault
  /\ leaving' = leaving \ {t}
  /\ LET mine == {r \in Requests : Tab[r] = t /\ request[r].pc \in Running}
     IN  /\ request' = [r \in Requests |-> IF r \in mine THEN Ended
                                                         ELSE request[r]]
         /\ cut' = cut \cup {request[r].presented : r \in {q \in mine : request[q].pc = "refresh"}}
                       \cup (IF logout[t].pc # "idle" THEN {logout[t].presented} ELSE {})
  /\ logout' = [logout EXCEPT ![t] = NoLogout]
  /\ UNCHANGED <<storage, server>>

\* Fifteen minutes pass; seven days pass for one refresh token.
Lapse ==
  /\ lapses < MaxLapses
  /\ lapses' = lapses + 1
  /\ fresh' = {}
  /\ UNCHANGED <<session, handler, browser, faults>>

Expire(p) ==
  /\ session[p] = "live"
  /\ Deleted(p, "expired")
  /\ Fault
  /\ UNCHANGED <<fresh, handler, browser>>

Interceptors(r) == Answered(r) \/ Unauthorized(r) \/ Adopt(r) \/ Resend(r) \/ Denied(r)
Refreshing(r) == RefreshGet(r) \/ RefreshDel(r) \/ RefreshIssue(r)
Failing(r) == Unanswered(r) \/ Disconnected(r) \/ RefreshFails(r)

Next ==
  \/ \E l \in Logins : Login(l)
  \/ \E r \in Requests, refused \in BOOLEAN : Begin(r, refused)
  \/ \E r \in Requests : Interceptors(r) \/ Refreshing(r) \/ Failing(r)
  \/ \E t \in Tabs : LogoutBegin(t) \/ LogoutRevoke(t) \/ LogoutFails(t) \/ LogoutClear(t) \/ Leave(t)
  \/ \E p \in Pairs : Expire(p)
  \/ RouterClears \/ Lapse

Spec == Init /\ [][Next]_vars

-----------------------------------------------------------------------------
(***************************************************************************)
(* Properties.                                                             *)
(***************************************************************************)
TypeOK ==
  /\ storage \in Pairs \cup {NoPair}
  /\ session \in [Pairs -> Statuses]
  /\ fresh \subseteq Pairs
  /\ request \in [Requests -> Request]
  /\ handler \in [Requests -> Handler]
  /\ logout \in [Tabs -> Logout]
  /\ leaving \subseteq Tabs
  /\ cut \subseteq Pairs
  /\ lapses \in 0 .. MaxLapses /\ faults \in 0 .. MaxFaults

\* Somebody in the browser is exchanging or revoking p and will replace or
\* remove it when the answer comes.
Settling(p) ==
  \/ \E r \in Requests : request[r].pc = "refresh" /\ request[r].presented = p
  \/ \E t \in Tabs : logout[t].pc # "idle" /\ logout[t].presented = p

\* What the browser keeps is what the server accepts: a stored refresh token has
\* been used or revoked only while the request that did it has yet to store its
\* successor or remove it, or was cut off by its page being left.  Answers
\* that arrive out of order, several tabs and failures do not leave a dead one.
\* (They may remove a live one: the slower of two tabs clears what the other stored.)
StoredIsAccepted ==
  storage # NoPair =>
    session[storage] \in {"live", "expired"} \/ Settling(storage) \/ storage \in cut

\* A request is sent again with another pair than the one that was exchanged
\* for it, although the interceptor takes whatever is stored by then.
RetryIsNew ==
  \A r \in Requests :
    request[r].retried /\ request[r].pc = "sent" =>
      request[r].access \in Pairs \ {request[r].presented}

\* The pairs that are stored, and that requests carry, are ones the server takes.
PairsAreUsable == TypeOK /\ StoredIsAccepted /\ RetryIsNew

\* How far request r is from its end: the steps its page and the server have
\* left at most.
StepsLeft(r) ==
  LET server_steps == [none |-> 0, granted |-> 0, denied |-> 0, issue |-> 1, del |-> 2, get |-> 3]
  IN  CASE request[r].pc = "idle" -> 8
        [] request[r].pc = "sent" -> IF request[r].retried THEN 1 ELSE 7
        [] request[r].pc = "refresh" -> 3 + server_steps[handler[r].pc]
        [] request[r].pc = "again" -> 2
        [] request[r].pc = "ended" -> 0

\* The interceptors do not go on for ever: whatever the server answers, and with
\* whichever pair another tab has stored in between, each step of a request
\* brings it nearer to its answer, an error or the login page.
RequestAdvances ==
  [][\A r \in Requests :
       request'[r] # request[r] \/ (request[r].pc = "refresh" /\ handler'[r] # handler[r])
         => StepsLeft(r)' < StepsLeft(r)]_vars
=============================================================================
