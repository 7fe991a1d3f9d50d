------------------------------ MODULE X4Engine ------------------------------
(***************************************************************************)
(* The X4 response engine of libxcj_defender: a daemon thread that wakes   *)
(* at random intervals and runs a round of detection for every registered  *)
(* check, the score that the weak signals accumulate, the chain that       *)
(* answers a round, the automatic rollback, and the inotify thread of      *)
(* x4_anti_dump.c whose flag is one of the signals.                        *)
(*                                                                         *)
(* The process is what one app runs; its start is Init.  What a round sees *)
(* of /proc is chosen anew for each round (X4Signals).                     *)
(***************************************************************************)
EXTENDS X4Signals

CONSTANTS
  Configs,      \* what x4_config_load may leave in g_x4_config
  Procs,        \* the states of /proc that a round or x4_init may meet
  MaxInits      \* bound on the calls of x4Init by the application

\* score_weights.h, locked at build time.
Kill == 70
Warn == 40
ZeroRounds == 5
Alert == 10
MaxChecks == 8

Policies == {"kill", "warn", "none"}
Config == [enabled : BOOLEAN, onViolation : Policies, dryRun : BOOLEAN, debugBuild : BOOLEAN,
           soft : BOOLEAN, hard : BOOLEAN, strong : SUBSET Switches]

ASSUME ConfigsAssumption == Configs \subseteq Config
ASSUME ProcsAssumption == \A p \in Procs : p.memfds \in Nat /\ DalvikKb(p) \in Nat
ASSUME MaxInitsAssumption == MaxInits \in 1 .. MaxChecks

VARIABLES
  config,       \* g_x4_config with strong_enabled
  downgraded,   \* g_session_downgraded
  engine,       \* the statics of score_engine.c
  response,     \* how the last round was answered, and why
  process,      \* "up", "dying" in trigger_kill's sleep, or "dead"
  registered,   \* g_count of x4_daemon.c
  slot,         \* the next check of the round under way
  inotify,      \* the thread of x4_anti_dump.c, and g_inotify_triggered
  base,         \* the baselines of weak_detector.c and x4_anti_dump.c
  weakHits      \* effective hits since the score was last 0, counted up to 2

vars == <<config, downgraded, engine, response, process, registered, slot, inotify,
          base, weakHits>>

\* g_last_max_round_hit and g_floor_decay_counter are left out: the one is only
\* reported, the other never read.
Engine == [score : Nat, presence : 0 .. Alert, quiet : 0 .. ZeroRounds, strong : BOOLEAN]
NewEngine == [score |-> 0, presence |-> 0, quiet |-> 0, strong |-> FALSE]
Response == {"none", "exempt", "dry", "clean", "presence", "warned", "ignored",
             "kill_strong", "kill_score"}
Baselines == [dump : Nat \cup {-1}, memfd : Nat, dalvik : Nat]

Min2(a, b) == IF a < b THEN a ELSE b

Init ==
  /\ config \in Configs
  /\ downgraded = FALSE
  /\ engine = NewEngine
  /\ response = "none"
  /\ process = "up"
  /\ registered = 0 /\ slot = 0
  /\ inotify = "off"
  /\ base = [dump |-> -1, memfd |-> 0, dalvik |-> 0]
  /\ weakHits = 0

-----------------------------------------------------------------------------
(***************************************************************************)
(* x4_engine_round: the score, the presence and the quiet rounds.          *)
(***************************************************************************)
One(signal, hits) == IF signal \in hits THEN 1 ELSE 0
EffectiveHits(hits) ==
  One("inotify", hits) + One("rwx", hits) + One("slow", hits) + One("creator_sys", hits)
NoiseHits(hits) ==
  One("memfd", hits) + One("dalvik", hits) + One("substr", hits) + One("zygisk", hits)

MutRoundScore(hits) ==
  50 * One("inotify", hits) + 40 * (EffectiveHits(hits) - One("inotify", hits))
    + 30 * NoiseHits(hits)
RoundScore(hits) ==
  50 * One("inotify", hits) + 40 * (EffectiveHits(hits) - One("inotify", hits))
MaxRound == 50 + 3 * 40

Decayed(score) == (score * 7) \div 10

ResetSoft(e) == [NewEngine EXCEPT !.strong = e.strong]

Hit(e, hits) ==
  [e EXCEPT !.score = RoundScore(hits) + Decayed(@),
            !.presence = Min2(@ + EffectiveHits(hits) + NoiseHits(hits), Alert),
            !.quiet = 0]

\* Only whether the quiet rounds have reached ZeroRounds matters, and whether the
\* presence has reached Alert; they are counted that far.
MutNoHit(e) == [e EXCEPT !.quiet = Min2(@ + 1, ZeroRounds)]
NoHit(e) ==
  [e EXCEPT !.score = Decayed(@), !.quiet = Min2(@ + 1, ZeroRounds)]

Rounded(e, p, hits) ==
  LET next == IF EffectiveHits(hits) + NoiseHits(hits) > 0 THEN Hit(e, hits) ELSE NoHit(e)
  IN  [next EXCEPT !.strong = StrongEvidence(p, config.strong)]

-----------------------------------------------------------------------------
(***************************************************************************)
(* The rollback and the chain of answers.                                  *)
(***************************************************************************)
\* Lone strong evidence in the round before downgrades the session, once.  The
\* other two conditions count kills, and x4_rollback_note_kill has no caller.
LoneStrongEvidence == engine.strong /\ engine.score = 0
Rolled(c) == IF LoneStrongEvidence /\ ~downgraded THEN [c EXCEPT !.onViolation = "warn"] ELSE c

DryRun(c) == c.dryRun \/ c.debugBuild

ScoreAnswer(e, c) ==
  IF e.score >= Kill
  THEN CASE c.onViolation = "kill" -> "kill_score"
         [] c.onViolation = "warn" -> "warned"
         [] c.onViolation = "none" -> "ignored"
  ELSE IF e.score >= Warn THEN IF c.onViolation # "none" THEN "warned" ELSE "ignored"
  ELSE IF e.presence >= Alert THEN "presence" ELSE "clean"

\* x4_response_evaluate: the dry run first, then the strong evidence whatever the policy.
MutAnswer(e, c) ==
  IF e.strong THEN "kill_strong" ELSE IF DryRun(c) THEN "dry" ELSE ScoreAnswer(e, c)
Answer(e, c) ==
  IF DryRun(c) THEN "dry" ELSE IF e.strong THEN "kill_strong" ELSE ScoreAnswer(e, c)

\* A hard exemption and the main switch end the round before it has looked.
Bypassed(c) == c.hard \/ ~c.enabled
Started(c) == IF c.soft /\ ~c.hard THEN ResetSoft(engine) ELSE engine

Bypass ==
  /\ process = "up" /\ slot < registered
  /\ Bypassed(config)
  /\ slot' = slot + 1
  /\ config' = Rolled(config)
  /\ downgraded' = (downgraded \/ LoneStrongEvidence)
  /\ engine' = Started(config)
  /\ response' = "exempt"
  /\ UNCHANGED <<process, registered, inotify, base, weakHits>>

Round(p) ==
  LET hits == Hits(p, base, inotify)
      before == Started(config)
  IN
  /\ process = "up" /\ slot < registered
  /\ ~Bypassed(config)
  /\ slot' = slot + 1
  /\ config' = Rolled(config)
  /\ downgraded' = (downgraded \/ LoneStrongEvidence)
  /\ engine' = Rounded(before, p, hits)
  /\ response' = Answer(engine', config')
  /\ process' = IF response' \in {"kill_strong", "kill_score"} THEN "dying" ELSE "up"
  /\ weakHits' = IF engine'.score = 0 THEN 0
                 ELSE Min2((IF before.score = 0 THEN 0 ELSE weakHits) + EffectiveHits(hits), 2)
  /\ UNCHANGED <<registered, inotify, base>>

\* The delay of trigger_kill ends in SIGABRT.
Abort ==
  /\ process = "dying"
  /\ process' = "dead"
  /\ UNCHANGED <<config, downgraded, engine, response, registered, slot, inotify, base,
                 weakHits>>

-----------------------------------------------------------------------------
(***************************************************************************)
(* Starting: x4_init, the daemon and the inotify thread.                   *)
(***************************************************************************)
\* x4Init takes the baselines and registers one more check; the daemon is started once.
X4Init(p) ==
  /\ process # "dead" /\ registered < MaxInits
  /\ base' = [base EXCEPT !.memfd = MoreMemfds(p, base.dump), !.dalvik = DalvikKb(p)]
  /\ registered' = registered + 1
  /\ UNCHANGED <<config, downgraded, engine, response, process, slot, inotify, weakHits>>

\* The daemon has slept and begins with the first check again.
Wake ==
  /\ process = "up" /\ registered > 0 /\ slot >= registered
  /\ slot' = 0
  /\ UNCHANGED <<config, downgraded, engine, response, process, registered, inotify, base,
                 weakHits>>

\* antiDumpInit is called once by the application (X3LifecycleGuard).
AntiDumpInit(p) ==
  /\ process # "dead" /\ inotify = "off"
  /\ base' = [base EXCEPT !.dump = p.memfds]
  /\ inotify' = "watching"
  /\ UNCHANGED <<config, downgraded, engine, response, process, registered, slot, weakHits>>

\* The thread ends with its first event, or after 30 s without one.
InotifyEnds ==
  /\ process # "dead" /\ inotify = "watching"
  /\ inotify' \in {"triggered", "ended"}
  /\ UNCHANGED <<config, downgraded, engine, response, process, registered, slot, base,
                 weakHits>>

Next ==
  \/ Wake \/ Bypass \/ Abort \/ InotifyEnds
  \/ \E p \in Procs : Round(p) \/ X4Init(p) \/ AntiDumpInit(p)

Spec == Init /\ [][Next]_vars

-----------------------------------------------------------------------------
(***************************************************************************)
(* Properties.                                                             *)
(***************************************************************************)
TypeOK ==
  /\ config \in Config
  /\ downgraded \in BOOLEAN
  /\ engine \in Engine
  /\ response \in Response
  /\ process \in {"up", "dying", "dead"}
  /\ registered \in 0 .. MaxInits /\ slot \in 0 .. MaxInits
  /\ inotify \in {"off", "watching", "triggered", "ended"}
  /\ base \in Baselines
  /\ weakHits \in 0 .. 2

\* The score forgets what it was fed: however long the process is probed it stays
\* below ten thirds of what one round can add, and each quiet round in a row, up
\* to ZeroRounds, takes three tenths off that bound, the rounding included.
Sevenths == <<1, 7, 49, 343, 2401, 16807>>
Tenths == <<1, 10, 100, 1000, 10000, 100000>>
ScoreForgets ==
  3 * engine.score * Tenths[engine.quiet + 1] <= 10 * MaxRound * Sevenths[engine.quiet + 1]

\* A kill by the score has the policy behind it and at least two hits of
\* effective signals that the score has not yet forgotten: neither one weak hit
\* nor any number of noise signals, in any order with quiet rounds, exemptions
\* and repeated starts, ends the process.
ScoreKillIsEarned ==
  response = "kill_score" => config.onViolation = "kill" /\ weakHits = 2

\* A dry run answers nothing, whatever was found and whatever the rollback did.
DryRunIsSilent ==
  DryRun(config) => process = "up" /\ response \in {"none", "exempt", "dry"}

\* What the documentation says and the code does not keep: that lone strong
\* evidence only downgrades the session to a warning (auto_rollback.h:6,
\* auto_rollback.c:52, and after three rounds ADR 0093:103).  The rollback is
\* looked at in the next round, and the round that sees the evidence has ended
\* the process by then, whatever the policy.
LoneEvidenceWarns == LoneStrongEvidence => process = "up"

\* The search in chunks finds a pattern exactly when the text holds it, wherever
\* the reads cut the text, for patterns no longer than the overlap (evaluated where
\* the daemon has not been started).
CONSTANTS Letters, MaxText
Words(n) == [1 .. n -> Letters]
Cuts(n) == {c \in UNION {[1 .. k -> 1 .. n] : k \in 1 .. n} :
              c[Len(c)] = n /\ \A i \in 1 .. Len(c) - 1 : c[i] < c[i + 1]}
SearchIsComplete ==
  process = "up" /\ registered = 0 /\ engine = NewEngine =>
    \A n \in 1 .. MaxText : \A text \in Words(n), k \in 1 .. Overlap :
      \A pattern \in Words(k), ends \in Cuts(n) :
        SearchIn(pattern, text, ends) <=> Occurs(pattern, text)
=============================================================================
