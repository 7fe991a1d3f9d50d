---------------------------- MODULE Native_proofs ----------------------------
(***************************************************************************)
(* Theorems about the two native parts of the SDK that TLC runs apart:     *)
(* X4Engine, for every state of /proc, every configuration and every       *)
(* number of rounds, and SoLoader with its linker, for every APK and every *)
(* library that is linked as WellLinked says.                              *)
(***************************************************************************)
EXTENDS X4Engine, SoLoader, SequenceTheorems, WellFoundedInduction, TLAPS

-----------------------------------------------------------------------------
(***************************************************************************)
(* The response engine                                                     *)
(***************************************************************************)

(***************************************************************************)
(* What the arithmetic of a round yields.                                  *)
(***************************************************************************)
LEMMA HitsCounted ==
  ASSUME NEW hits
  PROVE  /\ EffectiveHits(hits) \in 0 .. 4 /\ NoiseHits(hits) \in 0 .. 4
         /\ RoundScore(hits) \in 0 .. MaxRound
         /\ EffectiveHits(hits) = 0 => RoundScore(hits) = 0
         /\ EffectiveHits(hits) = 1 => RoundScore(hits) <= 50
  BY DEF EffectiveHits, NoiseHits, RoundScore, One, MaxRound

LEMMA Decay ==
  ASSUME NEW score \in Nat
  PROVE  Decayed(score) \in Nat /\ 10 * Decayed(score) <= 7 * score
  BY DEF Decayed

LEMMA StartedType ==
  ASSUME TypeOK, NEW c \in Config
  PROVE  /\ Started(c) \in Engine
         /\ Started(c) = engine \/ (Started(c).score = 0 /\ Started(c).quiet = 0)
         /\ Started(c).strong = engine.strong
  BY DEF TypeOK, Started, ResetSoft, NewEngine, Engine, ZeroRounds, Alert

LEMMA RolledType ==
  ASSUME NEW c \in Config
  PROVE  Rolled(c) \in Config /\ DryRun(Rolled(c)) = DryRun(c)
  BY DEF Rolled, Config, Policies, DryRun

LEMMA EvidenceType ==
  ASSUME NEW p, NEW on
  PROVE  StrongEvidence(p, on) \in BOOLEAN
  BY DEF StrongEvidence

LEMMA HitType ==
  ASSUME NEW e \in Engine, NEW hits
  PROVE  Hit(e, hits) \in Engine /\ NoHit(e) \in Engine
<1>0. e.score \in Nat
  BY DEF Engine
<1>a. Decayed(e.score) \in Nat
  BY <1>0, Decay
<1>b. RoundScore(hits) \in Nat
  BY HitsCounted DEF MaxRound
<1>1. /\ RoundScore(hits) + Decayed(e.score) \in Nat
      /\ Decayed(e.score) \in Nat
  BY <1>a, <1>b
<1>2. /\ Min2(e.presence + EffectiveHits(hits) + NoiseHits(hits), Alert) \in 0 .. Alert
      /\ Min2(e.quiet + 1, ZeroRounds) \in 0 .. ZeroRounds
  BY HitsCounted DEF Engine, Min2, Alert, ZeroRounds
<1>3. 0 \in 0 .. ZeroRounds
  BY DEF ZeroRounds
<1> QED
  BY <1>1, <1>2, <1>3 DEF Hit, NoHit, Engine

LEMMA AnswerType ==
  ASSUME NEW e \in Engine, NEW c \in Config
  PROVE  /\ Answer(e, c) \in Response
         /\ Answer(e, c) = "kill_score" => e.score >= 70 /\ c.onViolation = "kill"
<1>1. e.score \in Nat /\ c.onViolation \in {"kill", "warn", "none"}
  BY DEF Engine, Config, Policies
<1>2. /\ ScoreAnswer(e, c) \in Response
      /\ ScoreAnswer(e, c) = "kill_score" => e.score >= 70 /\ c.onViolation = "kill"
  <2>1. CASE e.score >= Kill /\ c.onViolation = "kill"
    BY <1>1, <2>1 DEF ScoreAnswer, Kill, Response
  <2>2. CASE e.score >= Kill /\ c.onViolation = "warn"
    BY <1>1, <2>2 DEF ScoreAnswer, Response
  <2>3. CASE e.score >= Kill /\ c.onViolation = "none"
    BY <1>1, <2>3 DEF ScoreAnswer, Response
  <2>4. CASE ~(e.score >= Kill)
    BY <1>1, <2>4 DEF ScoreAnswer, Response
  <2> QED
    BY <1>1, <2>1, <2>2, <2>3, <2>4
<1> QED
  BY <1>2 DEF Answer, Response

LEMMA RoundedType ==
  ASSUME NEW e \in Engine, NEW p, NEW hits
  PROVE  /\ Rounded(e, p, hits) \in Engine
         /\ \/ Rounded(e, p, hits).score = RoundScore(hits) + Decayed(e.score)
                 /\ Rounded(e, p, hits).quiet = 0
            \/ /\ Rounded(e, p, hits).score = Decayed(e.score)
               /\ Rounded(e, p, hits).quiet = Min2(e.quiet + 1, ZeroRounds)
               /\ EffectiveHits(hits) = 0
<1> DEFINE next == IF EffectiveHits(hits) + NoiseHits(hits) > 0 THEN Hit(e, hits) ELSE NoHit(e)
<1>1. next \in Engine
  BY HitType
<1>2. /\ Rounded(e, p, hits) = [next EXCEPT !.strong = StrongEvidence(p, config.strong)]
      /\ StrongEvidence(p, config.strong) \in BOOLEAN
  BY EvidenceType DEF Rounded
<1>3. \/ next.score = RoundScore(hits) + Decayed(e.score) /\ next.quiet = 0
      \/ /\ next.score = Decayed(e.score) /\ next.quiet = Min2(e.quiet + 1, ZeroRounds)
         /\ EffectiveHits(hits) = 0
  BY HitsCounted DEF Hit, NoHit, Engine
<1> HIDE DEF next
<1> QED
  BY <1>1, <1>2, <1>3 DEF Engine

-----------------------------------------------------------------------------
(***************************************************************************)
(* The invariant.  A score below the first effective hit is 0, and one hit *)
(* leaves at most what an inotify event scores.                            *)
(***************************************************************************)
HitsBoundScore ==
  /\ weakHits = 0 => engine.score = 0
  /\ weakHits = 1 => engine.score <= 50

Inv ==
  TypeOK /\ ScoreForgets /\ HitsBoundScore /\ ScoreKillIsEarned /\ DryRunIsSilent

LEMMA TypeInit == Init => TypeOK
<1> SUFFICES ASSUME Init PROVE TypeOK
  OBVIOUS
<1>1. config \in Config
  BY ConfigsAssumption DEF Init
<1>2. engine \in Engine
  BY DEF Init, Engine, NewEngine, ZeroRounds, Alert
<1>3. base \in Baselines
  BY DEF Init, Baselines
<1>4. registered \in 0 .. MaxInits /\ slot \in 0 .. MaxInits
  BY MaxInitsAssumption DEF Init
<1>5. downgraded \in BOOLEAN /\ response \in Response
  BY DEF Init, Response
<1>6. weakHits \in 0 .. 2
  BY DEF Init
<1>7. process \in {"up", "dying", "dead"} /\ inotify \in {"off", "watching", "triggered", "ended"}
  BY DEF Init
<1> QED
  BY <1>1, <1>2, <1>3, <1>4, <1>5, <1>6, <1>7 DEF TypeOK

LEMMA InitInv == Init => Inv
<1> SUFFICES ASSUME Init PROVE Inv
  OBVIOUS
<1>1. TypeOK
  BY TypeInit
<1>2. ScoreForgets
  BY DEF Init, ScoreForgets, NewEngine, Sevenths, Tenths, MaxRound
<1>3. HitsBoundScore /\ ScoreKillIsEarned
  BY DEF Init, HitsBoundScore, ScoreKillIsEarned, NewEngine
<1>4. DryRunIsSilent
  BY DEF Init, DryRunIsSilent
<1> QED
  BY <1>1, <1>2, <1>3, <1>4 DEF Inv

\* The bound of the score is written out for each number of quiet rounds, so that
\* it is linear in the score.
LEMMA BoundOfEngine ==
  ASSUME NEW e \in Engine
  PROVE  3 * e.score * Tenths[e.quiet + 1] <= 10 * MaxRound * Sevenths[e.quiet + 1] <=>
           /\ e.quiet = 0 => 3 * e.score <= 1700
           /\ e.quiet = 1 => 30 * e.score <= 11900
           /\ e.quiet = 2 => 300 * e.score <= 83300
           /\ e.quiet = 3 => 3000 * e.score <= 583100
           /\ e.quiet = 4 => 30000 * e.score <= 4081700
           /\ e.quiet = 5 => 300000 * e.score <= 28571900
<1>1. e.score \in Nat /\ e.quiet \in 0 .. 5
  BY DEF Engine, ZeroRounds
<1>2. CASE e.quiet = 0 BY <1>1, <1>2 DEF Sevenths, Tenths, MaxRound
<1>3. CASE e.quiet = 1 BY <1>1, <1>3 DEF Sevenths, Tenths, MaxRound
<1>4. CASE e.quiet = 2 BY <1>1, <1>4 DEF Sevenths, Tenths, MaxRound
<1>5. CASE e.quiet = 3 BY <1>1, <1>5 DEF Sevenths, Tenths, MaxRound
<1>6. CASE e.quiet = 4 BY <1>1, <1>6 DEF Sevenths, Tenths, MaxRound
<1>7. CASE e.quiet = 5 BY <1>1, <1>7 DEF Sevenths, Tenths, MaxRound
<1> QED
  BY <1>1, <1>2, <1>3, <1>4, <1>5, <1>6, <1>7

\* A round keeps the bound.
LEMMA RoundBound ==
  ASSUME NEW e \in Engine, NEW f \in Engine, NEW hits,
         3 * e.score * Tenths[e.quiet + 1] <= 10 * MaxRound * Sevenths[e.quiet + 1],
         \/ f.score = RoundScore(hits) + Decayed(e.score) /\ f.quiet = 0
         \/ f.score = Decayed(e.score) /\ f.quiet = Min2(e.quiet + 1, ZeroRounds)
  PROVE  3 * f.score * Tenths[f.quiet + 1] <= 10 * MaxRound * Sevenths[f.quiet + 1]
<1>1. /\ e.score \in Nat /\ e.quiet \in 0 .. 5 /\ f.score \in Nat /\ f.quiet \in 0 .. 5
  BY DEF Engine, ZeroRounds
<1>2. 10 * Decayed(e.score) <= 7 * e.score /\ Decayed(e.score) \in Nat
  BY <1>1, Decay
<1>3. /\ e.quiet = 0 => 3 * e.score <= 1700
      /\ e.quiet = 1 => 30 * e.score <= 11900
      /\ e.quiet = 2 => 300 * e.score <= 83300
      /\ e.quiet = 3 => 3000 * e.score <= 583100
      /\ e.quiet = 4 => 30000 * e.score <= 4081700
      /\ e.quiet = 5 => 300000 * e.score <= 28571900
  BY BoundOfEngine
<1>4. RoundScore(hits) \in 0 .. 170
  BY HitsCounted DEF MaxRound
<1>5. /\ f.quiet = 0 => 3 * f.score <= 1700
      /\ f.quiet = 1 => 30 * f.score <= 11900
      /\ f.quiet = 2 => 300 * f.score <= 83300
      /\ f.quiet = 3 => 3000 * f.score <= 583100
      /\ f.quiet = 4 => 30000 * f.score <= 4081700
      /\ f.quiet = 5 => 300000 * f.score <= 28571900
  <2>1. CASE f.score = RoundScore(hits) + Decayed(e.score) /\ f.quiet = 0
    <3>1. 3 * e.score <= 1700
      BY <1>1, <1>3
    <3> QED
      BY <1>1, <1>2, <1>4, <2>1, <3>1
  <2>2. CASE f.score = Decayed(e.score) /\ f.quiet = Min2(e.quiet + 1, ZeroRounds)
    BY <1>1, <1>2, <1>3, <2>2 DEF Min2, ZeroRounds
  <2> QED
    BY <2>1, <2>2
<1> QED
  BY <1>5, BoundOfEngine

-----------------------------------------------------------------------------
(***************************************************************************)
(* The actions.                                                            *)
(***************************************************************************)
LEMMA BypassInv ==
  ASSUME Inv, Bypass
  PROVE  Inv'
<1>1. /\ config \in Config /\ Started(config) \in Engine
      /\ Started(config) = engine \/ (Started(config).score = 0 /\ Started(config).quiet = 0)
      /\ Started(config).strong = engine.strong
      /\ Rolled(config) \in Config /\ DryRun(Rolled(config)) = DryRun(config)
  BY StartedType, RolledType DEF Inv, TypeOK
<1>2. /\ process = "up" /\ process' = process /\ config' = Rolled(config)
      /\ downgraded' = (downgraded \/ LoneStrongEvidence) /\ engine' = Started(config)
      /\ response' = "exempt" /\ slot' = slot + 1 /\ slot < registered
      /\ UNCHANGED <<registered, inotify, base, weakHits>>
  BY DEF Bypass
<1>3. TypeOK'
  <2>1. slot' \in 0 .. MaxInits
    BY <1>2, MaxInitsAssumption DEF Inv, TypeOK
  <2>2. downgraded' \in BOOLEAN
    BY <1>2 DEF Inv, TypeOK, LoneStrongEvidence
  <2> QED
    BY <1>1, <1>2, <2>1, <2>2 DEF Inv, TypeOK, Response
<1>4. ScoreForgets'
  <2>1. CASE engine' = engine
    BY <2>1 DEF Inv, ScoreForgets
  <2>2. CASE engine'.score = 0 /\ engine'.quiet = 0
    BY <2>2 DEF ScoreForgets, Tenths, Sevenths, MaxRound
  <2> QED
    BY <1>1, <1>2, <2>1, <2>2
<1>5. HitsBoundScore'
  BY <1>1, <1>2 DEF Inv, HitsBoundScore
<1>6. ScoreKillIsEarned'
  BY <1>2 DEF ScoreKillIsEarned
<1>7. DryRunIsSilent'
  BY <1>2 DEF DryRunIsSilent
<1> QED
  BY <1>3, <1>4, <1>5, <1>6, <1>7 DEF Inv

LEMMA RoundInv ==
  ASSUME Inv, NEW p \in Procs, Round(p)
  PROVE  Inv'
<1> DEFINE hits == Hits(p, base, inotify)
           before == Started(config)
<1>1. /\ config \in Config /\ before \in Engine
      /\ before = engine \/ (before.score = 0 /\ before.quiet = 0)
      /\ Rolled(config) \in Config /\ DryRun(Rolled(config)) = DryRun(config)
  BY StartedType, RolledType DEF Inv, TypeOK
<1>2. /\ process = "up" /\ slot < registered /\ slot' = slot + 1 /\ config' = Rolled(config)
      /\ downgraded' = (downgraded \/ LoneStrongEvidence)
      /\ engine' = Rounded(before, p, hits)
      /\ response' = Answer(engine', config')
      /\ process' = IF response' \in {"kill_strong", "kill_score"} THEN "dying" ELSE "up"
      /\ weakHits' = IF engine'.score = 0 THEN 0
                     ELSE Min2((IF before.score = 0 THEN 0 ELSE weakHits) + EffectiveHits(hits), 2)
      /\ UNCHANGED <<registered, inotify, base>>
  BY DEF Round
<1>3. /\ engine' \in Engine
      /\ \/ engine'.score = RoundScore(hits) + Decayed(before.score) /\ engine'.quiet = 0
         \/ /\ engine'.score = Decayed(before.score)
            /\ engine'.quiet = Min2(before.quiet + 1, ZeroRounds)
            /\ EffectiveHits(hits) = 0
  <2> HIDE DEF hits, before
  <2> QED
    BY <1>1, <1>2, RoundedType
<1>4. /\ EffectiveHits(hits) \in 0 .. 4 /\ RoundScore(hits) \in 0 .. MaxRound
      /\ EffectiveHits(hits) = 0 => RoundScore(hits) = 0
      /\ EffectiveHits(hits) = 1 => RoundScore(hits) <= 50
  <2> HIDE DEF hits
  <2> QED
    BY HitsCounted
<1>5. config' \in Config /\ DryRun(config)' = DryRun(config)
  BY <1>1, <1>2 DEF DryRun
<1>6. engine.score \in Nat /\ engine'.score \in Nat /\ before.score \in Nat /\ weakHits \in 0 .. 2
  BY <1>1, <1>3 DEF Inv, TypeOK, Engine
<1>7. ScoreForgets'
  <2>1. 3 * before.score * Tenths[before.quiet + 1] <= 10 * MaxRound * Sevenths[before.quiet + 1]
    <3>1. CASE before = engine
      BY <3>1 DEF Inv, ScoreForgets
    <3>2. CASE before.score = 0 /\ before.quiet = 0
      BY <3>2 DEF Tenths, Sevenths, MaxRound
    <3> QED
      BY <1>1, <3>1, <3>2
  <2> HIDE DEF hits, before
  <2>2. 3 * engine'.score * Tenths[engine'.quiet + 1] <= 10 * MaxRound * Sevenths[engine'.quiet + 1]
    BY <1>1, <1>3, <2>1, RoundBound
  <2> QED
    BY <2>2 DEF ScoreForgets
<1>8. HitsBoundScore' /\ weakHits' \in 0 .. 2
  <2>1. /\ Decayed(before.score) \in Nat /\ 10 * Decayed(before.score) <= 7 * before.score
    BY <1>6, Decay
  <2>2. before.score = 0 \/ (weakHits # 0 /\ (weakHits = 1 => before.score <= 50))
    BY <1>1, <1>6 DEF Inv, HitsBoundScore
  <2> HIDE DEF hits, before
  <2>3. CASE before.score = 0
    BY <1>2, <1>3, <1>4, <1>6, <2>1, <2>3 DEF HitsBoundScore, Min2, MaxRound
  <2>4. CASE before.score # 0
    BY <1>2, <1>3, <1>4, <1>6, <2>1, <2>2, <2>4 DEF HitsBoundScore, Min2, MaxRound
  <2> QED
    BY <2>3, <2>4
<1>9. response' \in Response
  <2> HIDE DEF hits, before
  <2> QED
    BY <1>2, <1>3, <1>5, AnswerType
<1>10. TypeOK'
  <2>1. slot' \in 0 .. MaxInits /\ registered' \in 0 .. MaxInits
    BY <1>2, MaxInitsAssumption DEF Inv, TypeOK
  <2>2. downgraded' \in BOOLEAN
    BY <1>2 DEF Inv, TypeOK, LoneStrongEvidence
  <2>3. process' \in {"up", "dying", "dead"} /\ inotify' = inotify /\ base' = base
    BY <1>2
  <2> HIDE DEF hits, before
  <2> QED
    BY <1>3, <1>5, <1>8, <1>9, <2>1, <2>2, <2>3 DEF Inv, TypeOK
<1>11. ScoreKillIsEarned'
  <2> HIDE DEF hits, before
  <2>1. response' = "kill_score" => engine'.score >= 70 /\ config'.onViolation = "kill"
    BY <1>2, <1>3, <1>5, AnswerType
  <2> QED
    BY <1>6, <1>8, <2>1 DEF ScoreKillIsEarned, HitsBoundScore
<1>12. DryRunIsSilent'
  BY <1>2 DEF DryRunIsSilent, Answer
<1> QED
  BY <1>7, <1>8, <1>10, <1>11, <1>12 DEF Inv

\* The other actions leave the engine, the configuration and the answer alone.
LEMMA OtherInv ==
  ASSUME Inv, TypeOK',
         UNCHANGED <<config, downgraded, engine, response, weakHits>>,
         process' = process \/ (process = "dying" /\ process' = "dead")
  PROVE  Inv'
<1>1. DryRun(config)' = DryRun(config)
  BY DEF DryRun
<1>2. ScoreForgets' /\ HitsBoundScore' /\ ScoreKillIsEarned'
  BY DEF Inv, ScoreForgets, HitsBoundScore, ScoreKillIsEarned
<1>3. DryRunIsSilent'
  BY <1>1 DEF Inv, DryRunIsSilent
<1> QED
  BY <1>2, <1>3 DEF Inv

LEMMA StartInv ==
  ASSUME Inv, NEW p \in Procs, X4Init(p) \/ AntiDumpInit(p)
  PROVE  Inv'
<1>1. /\ p.memfds \in Nat /\ DalvikKb(p) \in Nat /\ base \in Baselines
      /\ MoreMemfds(p, base.dump) \in Nat
  BY ProcsAssumption DEF Inv, TypeOK, Baselines, MoreMemfds
<1>2. CASE X4Init(p)
  <2>1. base' \in Baselines
    BY <1>1, <1>2 DEF X4Init, Baselines
  <2>2. registered' \in 0 .. MaxInits
    BY <1>2, MaxInitsAssumption DEF Inv, TypeOK, X4Init
  <2>3. TypeOK'
    BY <1>2, <2>1, <2>2 DEF Inv, TypeOK, X4Init
  <2> QED
    BY <1>2, <2>3, OtherInv DEF X4Init
<1>3. CASE AntiDumpInit(p)
  <2>1. base' \in Baselines
    BY <1>1, <1>3 DEF AntiDumpInit, Baselines
  <2>2. TypeOK'
    BY <1>3, <2>1 DEF Inv, TypeOK, AntiDumpInit
  <2> QED
    BY <1>3, <2>2, OtherInv DEF AntiDumpInit
<1> QED
  BY <1>2, <1>3

LEMMA ThreadInv ==
  ASSUME Inv, Wake \/ Abort \/ InotifyEnds
  PROVE  Inv'
<1>1. CASE Wake
  <2>1. TypeOK'
    BY <1>1, MaxInitsAssumption DEF Inv, TypeOK, Wake
  <2> QED
    BY <1>1, <2>1, OtherInv DEF Wake
<1>2. CASE Abort
  <2>1. TypeOK'
    BY <1>2 DEF Inv, TypeOK, Abort
  <2> QED
    BY <1>2, <2>1, OtherInv DEF Abort
<1>3. CASE InotifyEnds
  <2>1. TypeOK'
    BY <1>3 DEF Inv, TypeOK, InotifyEnds
  <2> QED
    BY <1>3, <2>1, OtherInv DEF InotifyEnds
<1> QED
  BY <1>1, <1>2, <1>3

LEMMA StutterInv ==
  ASSUME Inv, UNCHANGED vars
  PROVE  Inv'
<1>1. TypeOK'
  BY DEF Inv, TypeOK, vars
<1> QED
  BY <1>1, OtherInv DEF vars

\* The invariant of the engine.
LEMMA Invariant == Spec => []Inv
<1>1. Inv /\ [Next]_vars => Inv'
  <2> SUFFICES ASSUME Inv, [Next]_vars PROVE Inv'
    OBVIOUS
  <2> QED
    BY BypassInv, RoundInv, StartInv, ThreadInv, StutterInv DEF Next
<1> QED
  BY <1>1, InitInv, PTL DEF Spec

-----------------------------------------------------------------------------
(***************************************************************************)
(* The search through a file that is read in chunks.  What x4_search_maps  *)
(* has before it after a read is a window of the text, which begins        *)
(* Overlap characters before the end of the read before.                   *)
(***************************************************************************)
LEMMA LeastExists ==
  ASSUME NEW S \in SUBSET Nat, S # {}
  PROVE  \E m \in S : \A n \in S : m <= n
<1> DEFINE R == {ss \in Nat \X Nat : ss[1] < ss[2]}
<1>1. IsWellFoundedOn(R, Nat)
  BY NatLessThanWellFounded DEF OpToRel
<1> HIDE DEF R
<1>2. PICK m \in S : \A n \in S : <<n, m>> \notin R
  BY <1>1, WFMin
<1>3. \A n \in S : ~(n < m)
  BY <1>2 DEF R
<1> QED BY <1>3

\* The pattern stands in the text at one of these places.
StandsIn(pattern, text, first, last) ==
  \E i \in first .. last : SubSeq(text, i, i + Len(pattern) - 1) = pattern

\* A pattern occurs in a window of the text where it occurs in the text.
LEMMA OccursInWindow ==
  ASSUME NEW text \in Seq(Letters), NEW a \in 1 .. Len(text), NEW b \in a .. Len(text),
         NEW k \in Nat \ {0}, NEW pattern \in Seq(Letters), Len(pattern) = k
  PROVE  Occurs(pattern, SubSeq(text, a, b)) <=> StandsIn(pattern, text, a, b - k + 1)
<1> DEFINE w == SubSeq(text, a, b)
<1>0. a \in Nat /\ b \in Nat /\ Len(text) \in Nat /\ 1 <= a /\ a <= b /\ b <= Len(text)
  BY LenProperties
<1>1. w \in Seq(Letters) /\ Len(w) = b - a + 1
  <2>1. \A i \in a .. b : text[i] \in Letters
    BY <1>0, ElementOfSeq
  <2> QED BY <1>0, <2>1, SubSeqProperties
<1>2. ASSUME NEW i \in 1 .. Len(w) - k + 1
      PROVE  SubSeq(w, i, i + k - 1) = SubSeq(text, a + i - 1, a + i - 1 + k - 1)
  <2>1. i \in 1 .. b - a + 1 /\ i + k - 1 \in 1 .. b - a + 1
    BY <1>0, <1>1
  <2>2. SubSeq(SubSeq(text, a, b), i, i + k - 1) = SubSeq(text, a + i - 1, a + (i + k - 1) - 1)
    BY <1>0, <1>1, <2>1, SubSeqOfSubSeq
  <2>3. a + (i + k - 1) - 1 = a + i - 1 + k - 1
    BY <1>0, <2>1
  <2> QED BY <2>2, <2>3
<1> HIDE DEF w
<1>3. ASSUME NEW i \in 1 .. Len(w) - k + 1, SubSeq(w, i, i + k - 1) = pattern
      PROVE  \E j \in a .. b - k + 1 : SubSeq(text, j, j + k - 1) = pattern
  <2>1. a + i - 1 \in a .. b - k + 1
    BY <1>0, <1>1
  <2> QED BY <1>2, <1>3, <2>1
<1>4. ASSUME NEW j \in a .. b - k + 1, SubSeq(text, j, j + k - 1) = pattern
      PROVE  \E i \in 1 .. Len(w) - k + 1 : SubSeq(w, i, i + k - 1) = pattern
  <2>1. j - a + 1 \in 1 .. Len(w) - k + 1 /\ a + (j - a + 1) - 1 = j
    BY <1>0, <1>1
  <2> QED BY <1>2, <1>4, <2>1
<1> QED BY <1>3, <1>4 DEF Occurs, StandsIn, w

\* Where the window begins that the n-th read completes.
From(ends, n) == IF n = 1 \/ ends[n - 1] <= Overlap THEN 1 ELSE ends[n - 1] - Overlap + 1
Window(text, ends, n) == SubSeq(text, From(ends, n), ends[n])

\* The ends of reads, each of which returned something, of a text.
Reads(text, ends) ==
  /\ Len(ends) \in Nat \ {0} /\ ends \in [1 .. Len(ends) -> 1 .. Len(text)]
  /\ ends[Len(ends)] = Len(text)
  /\ \A i \in 1 .. Len(ends) - 1 : ends[i] < ends[i + 1]

LEMMA WindowLies ==
  ASSUME NEW text \in Seq(Letters), NEW ends, Reads(text, ends), Overlap >= 1,
         NEW n \in 1 .. Len(ends)
  PROVE  /\ ends[n] \in 1 .. Len(text) /\ From(ends, n) \in 1 .. ends[n]
         /\ n > 1 => /\ n - 1 \in 1 .. Len(ends) /\ ends[n - 1] \in 1 .. Len(text)
                     /\ ends[n - 1] < ends[n] /\ From(ends, n) <= ends[n - 1]
<1>0. Len(text) \in Nat /\ Len(ends) \in Nat \ {0} /\ ends[n] \in 1 .. Len(text)
  BY LenProperties DEF Reads
<1>1. CASE n = 1
  BY <1>0, <1>1 DEF From
<1>2. CASE n > 1
  <2>1. n - 1 \in 1 .. Len(ends) - 1 /\ n - 1 \in 1 .. Len(ends) /\ (n - 1) + 1 = n
    BY <1>0, <1>2
  <2>2. ends[n - 1] \in 1 .. Len(text) /\ ends[n - 1] < ends[n]
    BY <2>1 DEF Reads
  <2> QED BY <1>0, <1>2, <2>1, <2>2, OverlapAssumption DEF From
<1> QED BY <1>0, <1>1, <1>2

\* One more read: what is carried over, and what is read, are the next window.
LEMMA NextWindow ==
  ASSUME NEW text \in Seq(Letters), NEW ends, Reads(text, ends), Overlap >= 1,
         NEW n \in 1 .. Len(ends)
  PROVE  (IF n = 1 THEN <<>> ELSE Carry(Window(text, ends, n - 1)))
            \o SubSeq(text, (IF n - 1 = 0 THEN 0 ELSE ends[n - 1]) + 1, IF n = 0 THEN 0 ELSE ends[n])
           = Window(text, ends, n)
<1> DEFINE f == From(ends, n)
           e == ends[n]
<1>0. /\ Len(text) \in Nat /\ n \in Nat /\ n >= 1 /\ e \in 1 .. Len(text) /\ f \in 1 .. e
  <2>1. Len(text) \in Nat /\ n \in Nat /\ n >= 1
    BY LenProperties DEF Reads
  <2> QED BY <2>1, WindowLies
<1>1. \A i \in 1 .. Len(text) : text[i] \in Letters
  BY ElementOfSeq
<1>2. CASE n = 1
  <2>1. f = 1
    BY <1>2 DEF From
  <2>2. SubSeq(text, 1, e) \in Seq(Letters)
    BY <1>0, <1>1, SubSeqProperties
  <2>3. <<>> \o SubSeq(text, 1, e) = SubSeq(text, 1, e)
    BY <2>2, ConcatEmptySeq
  <2>4. (IF n - 1 = 0 THEN 0 ELSE ends[n - 1]) + 1 = 1 /\ (IF n = 0 THEN 0 ELSE ends[n]) = e
    BY <1>2
  <2> QED BY <1>2, <2>1, <2>3, <2>4 DEF Window
<1>3. CASE n > 1
  <2> DEFINE f0 == From(ends, n - 1)
             e0 == ends[n - 1]
             w == SubSeq(text, f0, e0)
  <2>1. /\ n - 1 \in 1 .. Len(ends) /\ e0 \in 1 .. Len(text) /\ e0 < e /\ f <= e0
        /\ f0 \in 1 .. e0
    BY <1>3, WindowLies
  <2>2. w \in Seq(Letters) /\ Len(w) = e0 - f0 + 1
    <3>1. \A i \in f0 .. e0 : text[i] \in Letters
      BY <1>0, <1>1, <2>1
    <3>2. f0 \in Int /\ e0 \in Int /\ f0 <= e0
      BY <2>1
    <3> HIDE DEF f0, e0
    <3> QED BY <3>1, <3>2, SubSeqProperties
  <2>3. f = IF e0 <= Overlap THEN 1 ELSE e0 - Overlap + 1
    BY <1>3 DEF From
  <2>4. f0 = 1 \/ f0 + Overlap <= e0
    <3>1. CASE n - 1 = 1
      BY <3>1 DEF From
    <3>2. CASE n - 1 > 1
      <4>1. ends[(n - 1) - 1] < e0 /\ ends[(n - 1) - 1] \in Nat
        BY <1>0, <2>1, <3>2, WindowLies
      <4> QED BY <2>1, <4>1, OverlapAssumption DEF From
    <3> QED BY <1>0, <1>3, <3>1, <3>2
  <2> HIDE DEF f, e, f0, e0, w
  <2>5. Carry(w) = SubSeq(text, f, e0)
    <3>1. CASE Len(w) > Overlap
      <4>1. f = e0 - Overlap + 1
        BY <1>0, <2>1, <2>2, <2>3, <3>1, OverlapAssumption
      <4>2. Len(w) - Overlap + 1 \in 1 .. e0 - f0 + 1 /\ Len(w) \in 1 .. e0 - f0 + 1
        BY <1>0, <2>1, <2>2, <3>1, OverlapAssumption
      <4>3. f0 \in 1 .. Len(text) /\ e0 \in 1 .. Len(text)
        BY <1>0, <2>1
      <4>4. SubSeq(SubSeq(text, f0, e0), Len(w) - Overlap + 1, Len(w))
              = SubSeq(text, f0 + (Len(w) - Overlap + 1) - 1, f0 + Len(w) - 1)
        <5> DEFINE p == Len(w) - Overlap + 1
                   q == Len(w)
        <5>1. p \in 1 .. e0 - f0 + 1 /\ q \in 1 .. e0 - f0 + 1
          BY <4>2
        <5> HIDE DEF p, q
        <5>2. SubSeq(SubSeq(text, f0, e0), p, q) = SubSeq(text, f0 + p - 1, f0 + q - 1)
          BY <4>3, <5>1, SubSeqOfSubSeq
        <5> QED BY <5>2 DEF p, q
      <4>5. f0 + (Len(w) - Overlap + 1) - 1 = f /\ f0 + Len(w) - 1 = e0
        BY <1>0, <2>1, <2>2, <4>1, OverlapAssumption
      <4> QED BY <3>1, <4>4, <4>5 DEF Carry, w
    <3>2. CASE ~(Len(w) > Overlap)
      <4>1. f0 = 1 /\ f = 1
        BY <1>0, <2>1, <2>2, <2>3, <2>4, <3>2, OverlapAssumption
      <4> QED BY <3>2, <4>1 DEF Carry, w
    <3> QED BY <3>1, <3>2
  <2>6. SubSeq(text, f, e0) \o SubSeq(text, e0 + 1, e) = SubSeq(text, f, e)
    <3>1. f \in 1 .. Len(text) + 1 /\ e0 \in f - 1 .. Len(text) /\ e \in e0 .. Len(text)
      BY <1>0, <2>1
    <3> QED BY <3>1, ConcatAdjacentSubSeq
  <2>7. (IF n - 1 = 0 THEN 0 ELSE ends[n - 1]) + 1 = e0 + 1 /\ (IF n = 0 THEN 0 ELSE ends[n]) = e
    BY <1>0, <1>3 DEF e, e0
  <2>8. Window(text, ends, n - 1) = w /\ Window(text, ends, n) = SubSeq(text, f, e)
    BY DEF Window, w, f, e, f0, e0
  <2>9. n # 1
    BY <1>0, <1>3
  <2> QED BY <2>5, <2>6, <2>7, <2>8, <2>9
<1>4. n = 1 \/ n > 1
  BY <1>0
<1> QED BY <1>2, <1>3, <1>4

\* The search looks at one window after the other.
LEMMA SearchSeesWindows ==
  ASSUME NEW text \in Seq(Letters), NEW ends, Reads(text, ends), Overlap >= 1, NEW pattern
  PROVE  SearchIn(pattern, text, ends)
           <=> \E n \in 1 .. Len(ends) : Occurs(pattern, Window(text, ends, n))
<1> DEFINE end(n) == IF n = 0 THEN 0 ELSE ends[n]
           F(g, n) == (IF n = 1 THEN <<>> ELSE Carry(g[n - 1])) \o SubSeq(text, end(n - 1) + 1, end(n))
           buf[n \in 1 .. Len(ends)] ==
             (IF n = 1 THEN <<>> ELSE Carry(buf[n - 1])) \o SubSeq(text, end(n - 1) + 1, end(n))
           N == Len(ends)
<1>0. N \in Nat \ {0}
  BY DEF Reads
<1>1. \A n \in 1 .. N : (IF n = 1 THEN <<>> ELSE Carry(Window(text, ends, n - 1)))
                           \o SubSeq(text, end(n - 1) + 1, end(n)) = Window(text, ends, n)
  BY NextWindow
<1>2. \E g : g = [n \in 1 .. N |-> F(g, n)]
  <2> DEFINE g == [n \in 1 .. N |-> Window(text, ends, n)]
  <2>1. ASSUME NEW n \in 1 .. N
        PROVE  F(g, n) = Window(text, ends, n)
    <3>1. CASE n = 1
      BY <1>1, <3>1
    <3>2. CASE n # 1
      <4>1. n - 1 \in 1 .. N
        BY <1>0, <3>2
      <4>2. g[n - 1] = Window(text, ends, n - 1)
        BY <4>1
      <4>3. Carry(g[n - 1]) = Carry(Window(text, ends, n - 1))
        BY <4>2
      <4> HIDE DEF g, end
      <4> QED BY <1>1, <3>2, <4>3
    <3> QED BY <3>1, <3>2
  <2>2. g = [n \in 1 .. N |-> F(g, n)]
    BY <2>1
  <2> QED BY <2>2
<1>3. buf = [n \in 1 .. N |-> F(buf, n)]
  BY <1>2
<1>4. SearchIn(pattern, text, ends) <=> \E n \in 1 .. N : Occurs(pattern, buf[n])
  BY DEF SearchIn
<1> HIDE DEF buf
<1>5. \A n \in 1 .. N : buf[n] = F(buf, n)
  BY <1>3
<1>6. \A n \in 1 .. N : buf[n] = Window(text, ends, n)
  <2> SUFFICES ASSUME {n \in 1 .. N : buf[n] # Window(text, ends, n)} # {}
               PROVE  FALSE
    OBVIOUS
  <2> DEFINE Bad == {n \in 1 .. N : buf[n] # Window(text, ends, n)}
  <2>1. Bad \in SUBSET Nat
    OBVIOUS
  <2>2. PICK m \in Bad : \A n \in Bad : m <= n
    BY <2>1, LeastExists
  <2>3. CASE m = 1
    BY <1>1, <1>5, <2>3
  <2>4. CASE m # 1
    <3>1. m - 1 \in 1 .. N /\ ~(m <= m - 1)
      BY <1>0, <2>4
    <3>2. buf[m - 1] = Window(text, ends, m - 1)
      BY <2>2, <3>1
    <3> QED BY <1>1, <1>5, <2>4, <3>2
  <2> QED BY <2>3, <2>4
<1> QED BY <1>4, <1>6

\* x4_search_maps finds a pattern that is no longer than the overlap exactly when
\* the file holds it, wherever the reads cut it.
LEMMA SearchFinds ==
  ASSUME NEW text \in Seq(Letters), NEW ends, Reads(text, ends),
         NEW k \in 1 .. Overlap, NEW pattern \in Seq(Letters), Len(pattern) = k
  PROVE  SearchIn(pattern, text, ends) <=> Occurs(pattern, text)
<1>0. /\ Overlap \in Nat /\ Overlap >= 1 /\ k \in Nat \ {0} /\ k <= Overlap
      /\ Len(text) \in Nat /\ Len(ends) \in Nat \ {0}
  BY OverlapAssumption, LenProperties DEF Reads
<1> DEFINE N == Len(ends)
           Found(i) == SubSeq(text, i, i + k - 1) = pattern
<1>1. \A n \in 1 .. N : Occurs(pattern, Window(text, ends, n))
                          <=> \E i \in From(ends, n) .. ends[n] - k + 1 : Found(i)
  <2> TAKE n \in 1 .. N
  <2>1. ends[n] \in 1 .. Len(text) /\ From(ends, n) \in 1 .. ends[n]
    BY <1>0, WindowLies
  <2>2. From(ends, n) \in 1 .. Len(text) /\ ends[n] \in From(ends, n) .. Len(text)
    BY <1>0, <2>1
  <2>3. Occurs(pattern, SubSeq(text, From(ends, n), ends[n]))
          <=> StandsIn(pattern, text, From(ends, n), ends[n] - k + 1)
    BY <1>0, <2>2, OccursInWindow
  <2> QED BY <2>3 DEF Window, StandsIn
<1>2. Occurs(pattern, text) <=> \E i \in 1 .. Len(text) - k + 1 : Found(i)
  BY DEF Occurs
<1>3. SearchIn(pattern, text, ends) <=> \E n \in 1 .. N : Occurs(pattern, Window(text, ends, n))
  BY <1>0, SearchSeesWindows
<1> HIDE DEF Found
<1>4. ASSUME NEW n \in 1 .. N, NEW i \in From(ends, n) .. ends[n] - k + 1, Found(i)
      PROVE  \E j \in 1 .. Len(text) - k + 1 : Found(j)
  <2>1. ends[n] \in 1 .. Len(text) /\ From(ends, n) \in 1 .. ends[n]
    BY <1>0, WindowLies
  <2>2. i \in 1 .. Len(text) - k + 1
    BY <1>0, <2>1
  <2> QED BY <1>4, <2>2
<1>5. ASSUME NEW i \in 1 .. Len(text) - k + 1, Found(i)
      PROVE  \E n \in 1 .. N : \E j \in From(ends, n) .. ends[n] - k + 1 : Found(j)
  <2> DEFINE S == {n \in 1 .. N : i + k - 1 <= ends[n]}
  <2>1. N \in S
    BY <1>0 DEF Reads
  <2>2. S \in SUBSET Nat /\ S # {}
    BY <2>1
  <2>3. PICK n \in S : \A m \in S : n <= m
    BY <2>2, LeastExists
  <2>4. n \in 1 .. N /\ i + k - 1 <= ends[n] /\ ends[n] \in 1 .. Len(text)
    BY <1>0, WindowLies
  <2>5. From(ends, n) <= i /\ From(ends, n) \in Nat
    <3>1. CASE n = 1
      BY <3>1 DEF From
    <3>2. CASE n # 1
      <4>1. n - 1 \in 1 .. N /\ ~(n <= n - 1)
        BY <1>0, <2>4, <3>2
      <4>2. ~(i + k - 1 <= ends[n - 1]) /\ ends[n - 1] \in Nat
        BY <1>0, <2>3, <2>4, <3>2, <4>1, WindowLies
      <4> QED BY <1>0, <3>2, <4>2 DEF From
    <3> QED BY <3>1, <3>2
  <2>6. i \in From(ends, n) .. ends[n] - k + 1
    BY <1>0, <2>4, <2>5
  <2> QED BY <1>5, <2>4, <2>6
<1> QED BY <1>1, <1>2, <1>3, <1>4, <1>5

\* Every text of n letters, and every way to cut it into reads, is one that
\* SearchFinds speaks of.
LEMMA WordsAndCuts ==
  ASSUME NEW n \in Nat \ {0}, NEW text \in Words(n)
  PROVE  /\ text \in Seq(Letters) /\ Len(text) = n
         /\ \A ends \in Cuts(n) : Reads(text, ends)
<1>1. text \in Seq(Letters) /\ Len(text) = n
  <2>1. text \in [1 .. n -> Letters]
    BY DEF Words
  <2>2. text \in Seq(Letters)
    BY <2>1, SeqDef
  <2>3. DOMAIN text = 1 .. n
    BY <2>1
  <2> QED BY <2>2, <2>3, LenProperties, SMT
<1>2. ASSUME NEW ends \in Cuts(n)
      PROVE  Reads(text, ends)
  <2>1. PICK k \in 1 .. n : ends \in [1 .. k -> 1 .. n]
    BY <1>2 DEF Cuts
  <2>2. ends \in Seq(1 .. n) /\ DOMAIN ends = 1 .. k
    BY <2>1, SeqDef
  <2>3. Len(ends) = k
    BY <2>1, <2>2, LenProperties, SMT
  <2>4. ends[Len(ends)] = n /\ \A i \in 1 .. Len(ends) - 1 : ends[i] < ends[i + 1]
    BY <1>2 DEF Cuts
  <2> QED BY <1>1, <2>1, <2>3, <2>4 DEF Reads
<1> QED BY <1>1, <1>2

LEMMA SearchCompletes == SearchIsComplete
<1> SUFFICES ASSUME NEW n \in 1 .. MaxText, NEW text \in Words(n), NEW k \in 1 .. Overlap,
                    NEW pattern \in Words(k), NEW ends \in Cuts(n)
             PROVE  SearchIn(pattern, text, ends) <=> Occurs(pattern, text)
  BY DEF SearchIsComplete
<1>1. n \in Nat \ {0} /\ k \in Nat \ {0}
  BY OverlapAssumption
<1>2. text \in Seq(Letters) /\ Reads(text, ends)
  BY <1>1, WordsAndCuts
<1>3. pattern \in Seq(Letters) /\ Len(pattern) = k
  BY <1>1, WordsAndCuts
<1> QED BY <1>2, <1>3, SearchFinds

-----------------------------------------------------------------------------
\* Every variable of the engine keeps its type, however often x4Init is called.
THEOREM TypeCorrect == Spec => []TypeOK
<1>1. Inv => TypeOK
  BY DEF Inv
<1> QED
  BY <1>1, Invariant, PTL

\* The integer decay of score_engine.c: the score stays below ten thirds of what a
\* round can add, and quiet rounds take it down by three tenths each.
THEOREM ScoreIsBounded == Spec => []ScoreForgets
<1>1. Inv => ScoreForgets
  BY DEF Inv
<1> QED
  BY <1>1, Invariant, PTL

\* The score ends the process only under the policy "kill" and after two effective
\* hits that it has not forgotten.
THEOREM OneHitDoesNotKill == Spec => []ScoreKillIsEarned
<1>1. Inv => ScoreKillIsEarned
  BY DEF Inv
<1> QED
  BY <1>1, Invariant, PTL

\* A dry run never ends the process or answers.
THEOREM DryRunAnswersNothing == Spec => []DryRunIsSilent
<1>1. Inv => DryRunIsSilent
  BY DEF Inv
<1> QED
  BY <1>1, Invariant, PTL

\* x4_search_maps keeps the last Overlap characters between two reads: it finds a
\* pattern that is no longer than that exactly when the file holds it, for every
\* alphabet, every length of the text and every way the reads cut it.
THEOREM SearchFindsPatterns == Spec => []SearchIsComplete
<1>1. SearchIsComplete
  BY SearchCompletes
<1> QED
  BY <1>1, PTL

-----------------------------------------------------------------------------
(***************************************************************************)
(* The linker and the loader                                               *)
(***************************************************************************)

(* Words and pages *)

\* Words of one page are that page's only.
LEMMA ProductGrows ==
  ASSUME NEW c \in Nat, NEW a \in Int, NEW b \in Int, a <= b
  PROVE  c * a <= c * b
  OBVIOUS

LEMMA OnePage ==
  ASSUME NEW p \in Int, NEW q \in Int, NEW w \in Int,
         PageSize * p <= w, w <= PageSize * (p + 1) - 1, PageSize * q <= w, w <= PageSize * (q + 1) - 1
  PROVE  p = q
<1>1. PageSize \in Nat \ {0}
  BY LinkerAssumption
<1>2. CASE p < q
  <2>1. p + 1 <= q
    BY <1>2
  <2>2. PageSize * (p + 1) <= PageSize * q
    BY <1>1, <2>1, ProductGrows
  <2> QED
    BY <1>1, <2>2
<1>3. CASE q < p
  <2>1. q + 1 <= p
    BY <1>3
  <2>2. PageSize * (q + 1) <= PageSize * p
    BY <1>1, <2>1, ProductGrows
  <2> QED
    BY <1>1, <2>2
<1> QED
  BY <1>2, <1>3

LEMMA PageHolds ==
  ASSUME NEW w \in Int
  PROVE  /\ PageOf(w) \in Int
         /\ PageSize * PageOf(w) <= w
         /\ w <= PageSize * (PageOf(w) + 1) - 1
<1>1. PageSize \in Nat \ {0}
  BY LinkerAssumption
<1> QED
  BY <1>1 DEF PageOf

LEMMA WordsHavePages ==
  ASSUME NEW P \in SUBSET Int, NEW w
  PROVE  w \in WordsOf(P) <=> w \in Int /\ PageOf(w) \in P
<1>1. PageSize \in Nat \ {0}
  BY LinkerAssumption
<1>2. ASSUME w \in WordsOf(P)
      PROVE  w \in Int /\ PageOf(w) \in P
  <2>1. PICK p \in P : w \in PageSize * p .. PageSize * (p + 1) - 1
    BY <1>2 DEF WordsOf
  <2>2. w \in Int /\ p \in Int
    BY <1>1, <2>1
  <2>3. PageOf(w) = p
    BY <2>1, <2>2, PageHolds, OnePage
  <2> QED
    BY <2>1, <2>2, <2>3
<1>3. ASSUME w \in Int, PageOf(w) \in P
      PROVE  w \in WordsOf(P)
  <2>1. w \in PageSize * PageOf(w) .. PageSize * (PageOf(w) + 1) - 1
    BY <1>1, <1>3, PageHolds
  <2> QED
    BY <1>3, <2>1 DEF WordsOf
<1> QED
  BY <1>2, <1>3

\* A word in the file part of a segment lies on one of its pages.
LEMMA FilePartIsMapped ==
  ASSUME NEW s \in Segments, s.filesz <= s.memsz, NEW w \in Int,
         s.vaddr <= w, w < s.vaddr + s.filesz
  PROVE  PageOf(w) \in PagesOf(s)
<1>1. PageSize \in Nat \ {0} /\ s.vaddr \in Nat /\ s.memsz \in Nat /\ s.filesz \in Nat
  BY LinkerAssumption DEF Segments
<1> DEFINE e == s.vaddr + s.memsz + PageSize - 1
<1>2. e \in Int /\ w + PageSize <= e
  BY <1>1
<1> HIDE DEF e
<1>3. PageOf(s.vaddr) <= PageOf(w)
  <2>1. CASE PageOf(w) < PageOf(s.vaddr)
    <3>1. PageOf(w) + 1 <= PageOf(s.vaddr)
      BY <2>1, <1>1, PageHolds
    <3>2. PageSize * (PageOf(w) + 1) <= PageSize * PageOf(s.vaddr)
      BY <3>1, <1>1, PageHolds, ProductGrows
    <3> QED
      BY <3>2, <1>1, PageHolds
  <2> QED
    BY <2>1, <1>1, PageHolds
<1>4. PageOf(w) + 1 <= PageOf(e)
  <2>1. CASE PageOf(e) < PageOf(w) + 1
    <3>1. PageOf(e) + 1 <= PageOf(w) + 1
      BY <2>1, <1>2, PageHolds
    <3>2. PageSize * (PageOf(e) + 1) <= PageSize * (PageOf(w) + 1)
      BY <3>1, <1>1, <1>2, PageHolds, ProductGrows
    <3>3. PageSize * (PageOf(w) + 1) = PageSize * PageOf(w) + PageSize
      BY <1>1, PageHolds
    <3> QED
      BY <3>2, <3>3, <1>1, <1>2, PageHolds
  <2> QED
    BY <2>1, <1>2, PageHolds
<1>5. PagesOf(s) = PageOf(s.vaddr) .. PageOf(e) - 1
  BY DEF PagesOf, e
<1> QED
  BY <1>1, <1>2, <1>3, <1>4, <1>5, PageHolds

LEMMA PagesAreInts ==
  ASSUME NEW s \in Segments
  PROVE  PagesOf(s) \in SUBSET Int
<1>1. s.vaddr \in Int /\ s.vaddr + s.memsz + PageSize - 1 \in Int
  BY LinkerAssumption DEF Segments
<1> QED
  BY <1>1, PageHolds DEF PagesOf

LEMMA LoadSegments ==
  ASSUME NEW img, IsImage(img), NEW i \in LoadsOf(img)
  PROVE  i \in Nat /\ img.ph[i] \in Segments /\ PagesOf(img.ph[i]) \in SUBSET Int
         /\ i <= Len(img.ph)
BY PagesAreInts DEF LoadsOf, IsImage

LEMMA ImagePagesAreInts ==
  ASSUME NEW img, IsImage(img)
  PROVE  ImagePages(img) \in SUBSET Int
BY LoadSegments DEF ImagePages

\* Two segments of a library the build links share no word.
LEMMA WordsApart ==
  ASSUME NEW img, IsImage(img), WellLinked(img, Called),
         NEW i \in LoadsOf(img), NEW j \in LoadsOf(img), NEW w,
         w \in WordsOf(PagesOf(img.ph[i])), w \in WordsOf(PagesOf(img.ph[j]))
  PROVE  i = j
<1>1. PageOf(w) \in PagesOf(img.ph[i]) \cap PagesOf(img.ph[j])
  BY LoadSegments, WordsHavePages
<1> QED
  BY <1>1 DEF WellLinked

\* What cl_load_segments copies is what the object asks for before relocation.
LEMMA SegmentIsPlain ==
  ASSUME NEW img, IsImage(img), WellLinked(img, Called),
         NEW i \in LoadsOf(img), NEW w \in WordsOf(PagesOf(img.ph[i]))
  PROVE  Segment(img, img.ph[i])[w] = PlainAt(img, w)
<1> DEFINE s == img.ph[i]
           Own == {k \in LoadsOf(img) : w >= img.ph[k].vaddr /\ w < img.ph[k].vaddr + img.ph[k].filesz}
<1>1. s \in Segments /\ w \in Int
  BY LoadSegments, WordsHavePages
<1>2. ASSUME NEW k \in Own
      PROVE  k = i
  <2>1. img.ph[k] \in Segments /\ img.ph[k].filesz <= img.ph[k].memsz
    BY LoadSegments DEF WellLinked
  <2>2. PageOf(w) \in PagesOf(img.ph[k])
    BY <1>1, <2>1, FilePartIsMapped
  <2>3. w \in WordsOf(PagesOf(img.ph[k]))
    BY <1>1, <2>2, LoadSegments, WordsHavePages
  <2> QED
    BY <2>3, WordsApart
<1>3. CASE w >= s.vaddr /\ w < s.vaddr + s.filesz
  <2>1. i \in Own
    BY <1>3
  <2>2. (CHOOSE k \in Own : TRUE) = i
    BY <1>2, <2>1
  <2> QED
    BY <1>3, <2>1, <2>2 DEF Segment, PlainAt
<1>4. CASE ~(w >= s.vaddr /\ w < s.vaddr + s.filesz)
  <2>1. Own = {}
    BY <1>2, <1>4
  <2> QED
    BY <1>4, <2>1 DEF Segment, PlainAt
<1> QED
  BY <1>3, <1>4

-----------------------------------------------------------------------------
(* What cl_dlopen_mem has done to the image when it comes to a step *)

\* The segments before the n-th header are mapped and copied.
LoadedTo(img, n, ar, mem) ==
  \A i \in LoadsOf(img) : i < n =>
    /\ PagesOf(img.ph[i]) \subseteq DOMAIN ar
    /\ \A w \in WordsOf(PagesOf(img.ph[i])) : w \in DOMAIN mem /\ mem[w] = PlainAt(img, w)

\* A relocation before the n-th entry names the word.
Reached(img, w, n) ==
  \E k \in DOMAIN (img.rela \o img.plt) :
    k < n /\ (img.rela \o img.plt)[k].at = w /\ (img.rela \o img.plt)[k].type \in Known

\* The relocations before the n-th entry are done, and none besides.
RelocatedTo(img, n, ar, mem) ==
  /\ ImagePages(img) \subseteq DOMAIN ar
  /\ \A w \in ImageWords(img) :
       /\ w \in DOMAIN mem
       /\ Reached(img, w, n) => mem[w] = WantedAt(img, w)
       /\ ~Reached(img, w, n) => mem[w] = PlainAt(img, w)

\* The image is as the object asks, but for the head that is erased later and
\* for the protections when one was refused.
OpenAs(img, ar, mem, ref) ==
  /\ \A i \in LoadsOf(img) : \A p \in PagesOf(img.ph[i]) :
       p \in DOMAIN ar /\ (ref \/ ar[p] = img.ph[i].flags)
  /\ \A w \in ImageWords(img) : w \in DOMAIN mem /\ (mem[w] = WantedAt(img, w) \/ (w = 0 /\ mem[w] = Erased))

LEMMA ImageShape ==
  ASSUME NEW img \in Images
  PROVE  IsImage(img) /\ WellLinked(img, Called)
BY LoaderAssumption, LinkedAssumption

LEMMA FrontWins ==
  ASSUME NEW f, NEW g
  PROVE  /\ DOMAIN Over(f, g) = DOMAIN f \cup DOMAIN g
         /\ \A x \in DOMAIN f : Over(f, g)[x] = f[x]
         /\ \A x \in DOMAIN g : x \notin DOMAIN f => Over(f, g)[x] = g[x]
BY DEF Over

LEMMA LoadOne ==
  ASSUME NEW img \in Images, NEW n \in LoadsOf(img), NEW ar, NEW mem, LoadedTo(img, n, ar, mem),
         NEW front, DOMAIN front = PagesOf(img.ph[n])
  PROVE  LoadedTo(img, n + 1, Over(front, ar), Over(Segment(img, img.ph[n]), mem))
<1> DEFINE s == img.ph[n]
<1>1. IsImage(img) /\ WellLinked(img, Called)
  BY ImageShape
<1>2. DOMAIN Segment(img, s) = WordsOf(PagesOf(s)) /\ DOMAIN front = PagesOf(s)
  BY DEF Segment
<1> SUFFICES ASSUME NEW i \in LoadsOf(img), i < n + 1
             PROVE  /\ PagesOf(img.ph[i]) \subseteq DOMAIN Over(front, ar)
                    /\ \A w \in WordsOf(PagesOf(img.ph[i])) :
                         w \in DOMAIN Over(Segment(img, s), mem) /\ Over(Segment(img, s), mem)[w] = PlainAt(img, w)
  BY DEF LoadedTo
<1>3. CASE i = n
  <2>1. PagesOf(img.ph[i]) \subseteq DOMAIN Over(front, ar)
    BY <1>2, <1>3, FrontWins
  <2>2. ASSUME NEW w \in WordsOf(PagesOf(img.ph[i]))
        PROVE  w \in DOMAIN Over(Segment(img, s), mem) /\ Over(Segment(img, s), mem)[w] = PlainAt(img, w)
    <3>1. w \in DOMAIN Segment(img, s) /\ Segment(img, s)[w] = PlainAt(img, w)
      BY <1>1, <1>2, <1>3, SegmentIsPlain
    <3> QED
      BY <3>1, <1>2 DEF Over
  <2> QED
    BY <2>1, <2>2
<1>4. CASE i # n
  <2>1. i < n
    BY <1>1, <1>4, LoadSegments
  <2>2. /\ PagesOf(img.ph[i]) \subseteq DOMAIN ar
        /\ \A w \in WordsOf(PagesOf(img.ph[i])) : w \in DOMAIN mem /\ mem[w] = PlainAt(img, w)
    BY <2>1 DEF LoadedTo
  <2>3. PagesOf(img.ph[i]) \subseteq DOMAIN Over(front, ar)
    BY <2>2, FrontWins
  <2>4. ASSUME NEW w \in WordsOf(PagesOf(img.ph[i]))
        PROVE  w \in DOMAIN Over(Segment(img, s), mem) /\ Over(Segment(img, s), mem)[w] = PlainAt(img, w)
    <3>1. w \notin DOMAIN Segment(img, s)
      BY <1>1, <1>2, <1>4, WordsApart
    <3> QED
      BY <2>2, <3>1, <1>2, FrontWins DEF Over
  <2> QED
    BY <2>3, <2>4
<1> QED
  BY <1>3, <1>4

LEMMA SkipOne ==
  ASSUME NEW img \in Images, NEW n \in Nat, n \notin LoadsOf(img), NEW ar, NEW mem, LoadedTo(img, n, ar, mem)
  PROVE  LoadedTo(img, n + 1, ar, mem)
<1>1. \A i \in LoadsOf(img) : i \in Nat
  BY ImageShape, LoadSegments
<1>2. \A i \in LoadsOf(img) : i < n + 1 => i < n
  BY <1>1
<1> QED
  BY <1>2 DEF LoadedTo

LEMMA WordsAreOfSegments ==
  ASSUME NEW img \in Images, NEW w \in ImageWords(img)
  PROVE  \E i \in LoadsOf(img) : w \in WordsOf(PagesOf(img.ph[i]))
<1>1. IsImage(img)
  BY ImageShape
<1>2. w \in Int /\ PageOf(w) \in ImagePages(img)
  BY <1>1, ImagePagesAreInts, WordsHavePages DEF ImageWords
<1>3. PICK i \in LoadsOf(img) : PageOf(w) \in PagesOf(img.ph[i])
  BY <1>2 DEF ImagePages
<1> QED
  BY <1>1, <1>2, <1>3, LoadSegments, WordsHavePages

\* When every header was seen the image is ready to be relocated.
LEMMA AllLoaded ==
  ASSUME NEW img \in Images, NEW n \in Nat, n > Len(img.ph), NEW ar, NEW mem, LoadedTo(img, n, ar, mem)
  PROVE  RelocatedTo(img, 1, ar, mem)
<1>1. \A i \in LoadsOf(img) : i < n
  BY ImageShape, LoadSegments DEF IsImage
<1>2. ImagePages(img) \subseteq DOMAIN ar
  BY <1>1 DEF LoadedTo, ImagePages
<1>3. ASSUME NEW w \in ImageWords(img)
      PROVE  w \in DOMAIN mem /\ mem[w] = PlainAt(img, w)
  BY <1>1, WordsAreOfSegments DEF LoadedTo
<1>4. \A w : ~Reached(img, w, 1)
  <2>1. img.rela \o img.plt \in Seq(Relocations)
    BY ImageShape, ConcatProperties DEF IsImage
  <2>2. \A k \in DOMAIN (img.rela \o img.plt) : k \in Nat /\ ~(k < 1)
    BY <2>1
  <2> QED
    BY <2>2 DEF Reached
<1> QED
  BY <1>2, <1>3, <1>4 DEF RelocatedTo

LEMMA ConcatIndex ==
  ASSUME NEW S, NEW s \in Seq(S), NEW u \in Seq(S), NEW k \in DOMAIN (s \o u)
  PROVE  (s \o u)[k] \in Range(s) \cup Range(u)
<1>1. k \in 1 .. Len(s) + Len(u) /\ Len(s) \in Nat /\ Len(u) \in Nat
  BY ConcatProperties
<1>2. CASE k <= Len(s)
  <2>1. (s \o u)[k] = s[k] /\ k \in DOMAIN s
    BY <1>1, <1>2, ConcatProperties
  <2> QED
    BY <2>1 DEF Range
<1>3. CASE ~(k <= Len(s))
  <2>1. (s \o u)[k] = u[k - Len(s)] /\ k - Len(s) \in DOMAIN u
    BY <1>1, <1>3, ConcatProperties
  <2> QED
    BY <2>1 DEF Range
<1> QED
  BY <1>2, <1>3

LEMMA ConcatHas ==
  ASSUME NEW S, NEW s \in Seq(S), NEW u \in Seq(S), NEW x \in Range(s) \cup Range(u)
  PROVE  \E k \in DOMAIN (s \o u) : (s \o u)[k] = x
<1>1. Len(s) \in Nat /\ Len(u) \in Nat /\ DOMAIN (s \o u) = 1 .. Len(s) + Len(u)
  BY ConcatProperties
<1>2. CASE x \in Range(s)
  <2>1. PICK i \in DOMAIN s : s[i] = x
    BY <1>2 DEF Range
  <2>2. i \in DOMAIN (s \o u) /\ (s \o u)[i] = x
    BY <1>1, <2>1, ConcatProperties
  <2> QED
    BY <2>2
<1>3. CASE x \in Range(u)
  <2>1. PICK i \in DOMAIN u : u[i] = x
    BY <1>3 DEF Range
  <2>2. i \in 1 .. Len(u)
    BY <2>1
  <2>3. Len(s) + i \in DOMAIN (s \o u) /\ (s \o u)[Len(s) + i] = u[i]
    BY <1>1, <2>2, ConcatProperties
  <2> QED
    BY <2>1, <2>3
<1> QED
  BY <1>2, <1>3

\* The entries cl_relocate goes through, seen as a set.
LEMMA ConcatRange ==
  ASSUME NEW S, NEW s \in Seq(S), NEW u \in Seq(S)
  PROVE  /\ Len(s \o u) \in Nat /\ DOMAIN (s \o u) = 1 .. Len(s \o u)
         /\ \A k \in DOMAIN (s \o u) :
              k \in Nat \ {0} /\ (s \o u)[k] \in S /\ (s \o u)[k] \in Range(s) \cup Range(u)
         /\ \A x \in Range(s) \cup Range(u) : \E k \in DOMAIN (s \o u) : (s \o u)[k] = x
<1>1. s \o u \in Seq(S)
  BY ConcatProperties
<1>2. \A k \in DOMAIN (s \o u) : (s \o u)[k] \in Range(s) \cup Range(u)
  BY ConcatIndex
<1>3. \A x \in Range(s) \cup Range(u) : \E k \in DOMAIN (s \o u) : (s \o u)[k] = x
  BY ConcatHas
<1>4. Len(s \o u) \in Nat /\ DOMAIN (s \o u) = 1 .. Len(s \o u)
  BY <1>1, LenProperties
<1>5. \A k \in DOMAIN (s \o u) : k \in Nat \ {0} /\ (s \o u)[k] \in S
  BY <1>1, <1>4
<1> QED
  BY <1>2, <1>3, <1>4, <1>5

LEMMA EntriesAreTables ==
  ASSUME NEW lib, image[lib] \in Images, info[lib] = Parsed(image[lib])
  PROVE  /\ Entries(lib) = image[lib].rela \o image[lib].plt
         /\ DOMAIN Entries(lib) \subseteq Nat \ {0}
         /\ DOMAIN Entries(lib) = 1 .. Len(Entries(lib)) /\ Len(Entries(lib)) \in Nat
         /\ \A k \in DOMAIN Entries(lib) : Entries(lib)[k] \in Tables(image[lib]) /\ Entries(lib)[k] \in Relocations
         /\ \A r \in Tables(image[lib]) : \E k \in DOMAIN Entries(lib) : Entries(lib)[k] = r
<1> DEFINE E == Entries(lib)
           s == image[lib].rela
           u == image[lib].plt
<1>1. s \in Seq(Relocations) /\ u \in Seq(Relocations)
  BY ImageShape DEF IsImage
<1>2. info[lib].rela = s /\ info[lib].plt = u
  BY ImageShape DEF WellLinked
<1>3. E = s \o u
  BY <1>2 DEF Entries
<1>4. Tables(image[lib]) = Range(s) \cup Range(u)
  BY DEF Tables
<1> HIDE DEF E, s, u
<1>5. /\ Len(s \o u) \in Nat /\ DOMAIN (s \o u) = 1 .. Len(s \o u)
      /\ \A k \in DOMAIN (s \o u) :
           k \in Nat \ {0} /\ (s \o u)[k] \in Relocations /\ (s \o u)[k] \in Range(s) \cup Range(u)
      /\ \A x \in Range(s) \cup Range(u) : \E k \in DOMAIN (s \o u) : (s \o u)[k] = x
  BY <1>1, ConcatRange
<1>6. /\ Len(E) \in Nat /\ DOMAIN E = 1 .. Len(E)
      /\ \A k \in DOMAIN E : k \in Nat \ {0} /\ E[k] \in Relocations /\ E[k] \in Range(s) \cup Range(u)
      /\ \A x \in Range(s) \cup Range(u) : \E k \in DOMAIN E : E[k] = x
  BY <1>3, <1>5
<1> QED
  BY <1>3, <1>4, <1>6 DEF E, s, u

\* The word a relocation names is its own.
LEMMA WantedByOne ==
  ASSUME NEW img \in Images, NEW r \in Tables(img), r.type \in Known
  PROVE  WantedAt(img, r.at) = IF r.type \in Symbolic THEN BoundTo(img, r)
                               ELSE <<"image", IF img.wide THEN r.addend ELSE PlainAt(img, r.at)[2]>>
<1> DEFINE At == {x \in Tables(img) : x.at = r.at /\ x.type \in Known}
<1>1. r \in At
  OBVIOUS
<1>2. \A x \in At : x = r
  <2>1. WellLinked(img, Called)
    BY ImageShape
  <2>2. \A x \in Tables(img) : {r.type, x.type} \subseteq Known /\ r.at = x.at => r = x
    BY <2>1 DEF WellLinked
  <2> QED
    BY <2>2
<1>3. (CHOOSE x \in At : TRUE) = r /\ At # {}
  BY <1>1, <1>2
<1> QED
  BY <1>3 DEF WantedAt

LEMMA WantedPlain ==
  ASSUME NEW img, NEW w, \A r \in Tables(img) : r.at = w => r.type \notin Known
  PROVE  WantedAt(img, w) = PlainAt(img, w)
<1>1. {r \in Tables(img) : r.at = w /\ r.type \in Known} = {}
  OBVIOUS
<1> QED
  BY <1>1 DEF WantedAt

LEMMA HomeIsFirst ==
  ASSUME NEW name, Homes(name) # {}
  PROVE  HomeOf(name) = SysNames[CHOOSE i \in 1 .. 4 : name \in SysLibs[i]
                                    /\ \A j \in 1 .. i - 1 : name \notin SysLibs[j]]
<1> DEFINE First(i) == name \in SysLibs[i] /\ \A j \in 1 .. i - 1 : name \notin SysLibs[j]
<1>1. \A i : i \in Homes(name) <=> i \in {1, 2, 3, 4} /\ name \in SysLibs[i]
  BY DEF Homes
<1>2. PICK n \in Homes(name) : \A j \in Homes(name) : n <= j
  BY <1>1
<1>3. n \in 1 .. 4 /\ First(n)
  BY <1>1, <1>2
<1>4. \A i \in 1 .. 4 : First(i) => i = n
  BY <1>1, <1>2
<1>5. \A i \in Homes(name) : (\A j \in Homes(name) : i <= j) => i = n
  BY <1>1, <1>2
<1>6. (CHOOSE i \in Homes(name) : \A j \in Homes(name) : i <= j) = n
  BY <1>2, <1>5
<1> HIDE DEF First
<1>7. (CHOOSE i \in 1 .. 4 : First(i)) = n
  BY <1>3, <1>4
<1> QED
  BY <1>6, <1>7 DEF HomeOf, First

\* cl_resolve_sym finds what the object asks for, when it finds anything.
LEMMA ResolveIsBound ==
  ASSUME NEW lib, image[lib] \in Images, info[lib] = Parsed(image[lib]),
         NEW r \in Tables(image[lib]), r.type \in Symbolic, Resolve(lib, r.sym) # NotFound, NEW old
  PROVE  Relocated(lib, r, old) = BoundTo(image[lib], r)
<1> DEFINE img == image[lib]
           s == img.syms[r.sym]
           name == img.strtab[s.st_name]
           home == CASE name \in Default -> <<"default", name>>
                     [] name \notin Default /\ s.value # 0 -> <<"image", s.value>>
                     [] OTHER -> <<SysNames[CHOOSE i \in 1 .. 4 : name \in SysLibs[i]
                                     /\ \A j \in 1 .. i - 1 : name \notin SysLibs[j]], name>>
<1>1. NameOf(lib, s) = name
  BY ImageShape DEF WellLinked, NameOf
<1>2. ~img.wide => r.addend = 0
  BY ImageShape DEF WellLinked
<1>3. Resolve(lib, r.sym) = home
  <2>1. CASE name \in Default
    BY <1>1, <2>1 DEF Resolve
  <2>2. CASE name \notin Default
    <3>1. img.wide
      <4>1. img.wide \in BOOLEAN
        BY ImageShape DEF IsImage
      <4> QED
        BY <1>1, <2>2, <4>1 DEF Resolve
    <3>2. CASE s.value # 0
      BY <1>1, <2>2, <3>1, <3>2 DEF Resolve
    <3>3. CASE s.value = 0
      <4>1. Resolve(lib, r.sym) = IF Homes(name) = {} THEN NotFound ELSE <<HomeOf(name), name>>
        BY <1>1, <2>2, <3>1, <3>3 DEF Resolve
      <4>2. Homes(name) # {}
        BY <4>1
      <4> QED
        BY <2>2, <3>3, <4>1, <4>2, HomeIsFirst
    <3> QED
      BY <3>2, <3>3
  <2> QED
    BY <2>1, <2>2
<1>4. BoundTo(img, r) = IF r.type = "abs" THEN Plus(home, r.addend) ELSE home
  BY DEF BoundTo
<1> HIDE DEF home
<1>5. Relocated(lib, r, old) = IF r.type = "abs" THEN Plus(home, r.addend) ELSE home
  <2>1. CASE r.type = "abs"
    BY <1>2, <1>3, <2>1 DEF Relocated, Symbolic
  <2>2. CASE r.type # "abs"
    BY <1>3, <2>2 DEF Relocated, Symbolic
  <2> QED
    BY <2>1, <2>2
<1> QED
  BY <1>4, <1>5

LEMMA ReachedNext ==
  ASSUME NEW lib, image[lib] \in Images, info[lib] = Parsed(image[lib]),
         NEW n \in DOMAIN Entries(lib), NEW w
  PROVE  Reached(image[lib], w, n + 1)
           <=> Reached(image[lib], w, n) \/ (Entries(lib)[n].at = w /\ Entries(lib)[n].type \in Known)
<1> DEFINE E == Entries(lib)
           Names(k) == E[k].at = w /\ E[k].type \in Known
<1>1. E = image[lib].rela \o image[lib].plt /\ DOMAIN E \subseteq Nat
  BY EntriesAreTables
<1> HIDE DEF E
<1>2. \A m : Reached(image[lib], w, m) <=> \E k \in DOMAIN E : k < m /\ Names(k)
  BY <1>1 DEF Reached
<1> HIDE DEF Names
<1>3. n \in DOMAIN E
  BY DEF E
<1>4. \A k \in DOMAIN E : k < n + 1 <=> k < n \/ k = n
  BY <1>1, <1>3
<1>5. Reached(image[lib], w, n + 1) <=> Reached(image[lib], w, n) \/ Names(n)
  BY <1>2, <1>3, <1>4
<1> QED
  BY <1>5 DEF Names, E

\* cl_relocate, one entry.
LEMMA RelocateOneKeeps ==
  ASSUME NEW lib, image[lib] \in Images, info[lib] = Parsed(image[lib]),
         NEW n \in DOMAIN Entries(lib), NEW ar, NEW mem, RelocatedTo(image[lib], n, ar, mem),
         Entries(lib)[n].type \in Symbolic => Resolve(lib, Entries(lib)[n].sym) # NotFound
  PROVE  RelocatedTo(image[lib], n + 1, ar,
           [mem EXCEPT ![Entries(lib)[n].at] = Relocated(lib, Entries(lib)[n], mem[Entries(lib)[n].at])])
<1> DEFINE img == image[lib]
           r == Entries(lib)[n]
           new == [mem EXCEPT ![r.at] = Relocated(lib, r, mem[r.at])]
<1>1. r \in Tables(img)
  BY EntriesAreTables
<1>2. DOMAIN new = DOMAIN mem
  OBVIOUS
<1>3. ASSUME NEW w \in ImageWords(img)
      PROVE  /\ w \in DOMAIN new
             /\ Reached(img, w, n + 1) => new[w] = WantedAt(img, w)
             /\ ~Reached(img, w, n + 1) => new[w] = PlainAt(img, w)
  <2>1. /\ w \in DOMAIN mem
        /\ Reached(img, w, n) => mem[w] = WantedAt(img, w)
        /\ ~Reached(img, w, n) => mem[w] = PlainAt(img, w)
    BY DEF RelocatedTo
  <2>2. CASE r.at # w
    <3>1. new[w] = mem[w]
      BY <2>1, <2>2
    <3>2. Reached(img, w, n + 1) <=> Reached(img, w, n)
      BY <2>2, ReachedNext
    <3> QED
      BY <2>1, <3>1, <3>2
  <2>3. CASE r.at = w /\ r.type \notin Known
    <3>1. Relocated(lib, r, mem[w]) = mem[w]
      BY <2>3 DEF Relocated, Known, Symbolic
    <3>2. new[w] = mem[w]
      BY <2>1, <2>3, <3>1
    <3>3. Reached(img, w, n + 1) <=> Reached(img, w, n)
      BY <2>3, ReachedNext
    <3> QED
      BY <2>1, <3>2, <3>3
  <2>4. CASE r.at = w /\ r.type \in Symbolic
    <3>1. new[w] = BoundTo(img, r)
      BY <1>1, <2>1, <2>4, ResolveIsBound
    <3>2. WantedAt(img, w) = BoundTo(img, r)
      BY <1>1, <2>4, WantedByOne DEF Known
    <3>3. Reached(img, w, n + 1)
      BY <2>4, ReachedNext DEF Known
    <3> QED
      BY <2>1, <3>1, <3>2, <3>3, <1>2
  <2>5. CASE r.at = w /\ r.type \in Known /\ r.type \notin Symbolic
    <3>1. WantedAt(img, w) = <<"image", IF img.wide THEN r.addend ELSE PlainAt(img, w)[2]>>
      BY <1>1, <2>5, WantedByOne
    <3>2. Relocated(lib, r, mem[w]) = <<"image", IF img.wide THEN r.addend ELSE mem[w][2]>>
      BY <2>5 DEF Relocated, Known
    <3>3. ~img.wide => mem[w][2] = PlainAt(img, w)[2]
      BY <2>1, <3>1
    <3>4. new[w] = WantedAt(img, w)
      BY <2>1, <2>5, <3>1, <3>2, <3>3
    <3>5. Reached(img, w, n + 1)
      BY <2>5, ReachedNext
    <3> QED
      BY <2>1, <3>4, <3>5, <1>2
  <2> QED
    BY <2>2, <2>3, <2>4, <2>5
<1> HIDE DEF new
<1>4. RelocatedTo(img, n + 1, ar, new)
  BY <1>3 DEF RelocatedTo
<1> QED
  BY <1>4 DEF new

\* After the last entry every word is as the object asks.
LEMMA AllRelocated ==
  ASSUME NEW lib, image[lib] \in Images, info[lib] = Parsed(image[lib]),
         NEW n \in Nat, n > Len(Entries(lib)), NEW ar, NEW mem, RelocatedTo(image[lib], n, ar, mem),
         NEW w \in ImageWords(image[lib])
  PROVE  w \in DOMAIN mem /\ mem[w] = WantedAt(image[lib], w)
<1> DEFINE img == image[lib]
           E == Entries(lib)
<1>1. img.rela \in Seq(Relocations) /\ img.plt \in Seq(Relocations)
  BY ImageShape DEF IsImage
<1>2. CASE Reached(img, w, n)
  BY <1>2 DEF RelocatedTo
<1>3. CASE ~Reached(img, w, n)
  <2>1. DOMAIN E = 1 .. Len(E) /\ Len(E) \in Nat
    BY EntriesAreTables
  <2>2. ASSUME NEW r \in Tables(img), r.at = w, r.type \in Known
        PROVE  FALSE
    <3>1. PICK k \in DOMAIN E : E[k] = r
      BY EntriesAreTables
    <3>2. k < n
      BY <2>1, <3>1
    <3>3. E = img.rela \o img.plt
      BY EntriesAreTables
    <3> HIDE DEF E
    <3> QED
      BY <1>3, <2>2, <3>1, <3>2, <3>3 DEF Reached
  <2>4. WantedAt(img, w) = PlainAt(img, w)
    BY <2>2, WantedPlain
  <2> QED
    BY <1>3, <2>4 DEF RelocatedTo
<1> QED
  BY <1>2, <1>3

-----------------------------------------------------------------------------
(* Protection, symbols, constructors *)

\* cl_protect_segments: no page belongs to two segments, so no order matters.
LEMMA ProtectedAs ==
  ASSUME NEW lib, image[lib] \in Images, NEW p \in DOMAIN area[lib], NEW kept
  PROVE  /\ \A i \in LoadsOf(image[lib]) \ kept :
                p \in PagesOf(image[lib].ph[i]) => Protected(lib, kept)[p] = image[lib].ph[i].flags
         /\ (\A i \in LoadsOf(image[lib]) \ kept : p \notin PagesOf(image[lib].ph[i]))
              => Protected(lib, kept)[p] = area[lib][p]
<1> DEFINE img == image[lib]
           Holders == {i \in LoadsOf(img) \ kept : p \in PagesOf(img.ph[i])}
<1>1. Protected(lib, kept)[p] = IF Holders = {} THEN area[lib][p]
                          ELSE img.ph[CHOOSE i \in Holders : \A j \in Holders : i >= j].flags
  BY DEF Protected
<1>2. ASSUME NEW i \in LoadsOf(img) \ kept, p \in PagesOf(img.ph[i])
      PROVE  Protected(lib, kept)[p] = img.ph[i].flags
  <2>1. i \in Holders /\ i \in Nat
    BY <1>2, ImageShape, LoadSegments
  <2>2. \A j \in Holders : j = i
    <3>1. \A j \in Holders : j # i => PagesOf(img.ph[i]) \cap PagesOf(img.ph[j]) = {}
      BY ImageShape DEF WellLinked
    <3> QED
      BY <1>2, <3>1
  <2> HIDE DEF Holders
  <2>3. (CHOOSE j \in Holders : \A k \in Holders : j >= k) = i
    <3>1. \A k \in Holders : i >= k
      BY <2>1, <2>2
    <3>2. \E j \in Holders : \A k \in Holders : j >= k
      BY <2>1, <3>1
    <3>3. (CHOOSE j \in Holders : \A k \in Holders : j >= k) \in Holders
      BY <3>2
    <3> QED
      BY <2>2, <3>3
  <2> QED
    BY <1>1, <2>1, <2>3
<1>3. ASSUME \A i \in LoadsOf(img) \ kept : p \notin PagesOf(img.ph[i])
      PROVE  Protected(lib, kept)[p] = area[lib][p]
  <2>1. Holders = {}
    BY <1>3
  <2> QED
    BY <1>1, <2>1
<1> QED
  BY <1>2, <1>3

\* cl_dlsym gives an address in the code of the image.
LEMMA DlSymLands ==
  ASSUME NEW lib, image[lib] \in Images, info[lib] = Parsed(image[lib]),
         NEW name \in Called, DlSym(lib, name) # NotFound
  PROVE  Lands(image[lib], DlSym(lib, name))
<1> DEFINE img == image[lib]
           syms == img.syms
           Looked == {i \in DOMAIN syms : i <= MaxSymbols
                      /\ \A j \in 1 .. i - 1 : syms[j].st_name < info[lib].strsz}
           Matching == {i \in Looked : syms[i].st_name # 0 /\ syms[i].defined /\ NameOf(lib, syms[i]) = name}
<1>1. IsImage(img) /\ WellLinked(img, Called)
  BY ImageShape
<1>2. syms \in Seq(Symbols)
  BY <1>1 DEF IsImage
<1>3. /\ {"symtab", "strtab"} \subseteq info[lib].tags /\ Matching # {}
      /\ DlSym(lib, name) = <<"image", syms[CHOOSE i \in Matching : \A j \in Matching : i <= j].value>>
  BY DEF DlSym
<1>4. Matching \in SUBSET Nat
  BY <1>2
<1> DEFINE i == CHOOSE k \in Matching : \A j \in Matching : k <= j
<1>5. i \in Matching
  <2> HIDE DEF Matching
  <2>1. \E k \in Matching : \A j \in Matching : k <= j
    BY <1>3, <1>4, LeastExists
  <2> QED
    BY <2>1
<1> HIDE DEF i
<1>6. /\ syms[i] \in Range(syms) /\ syms[i] \in Symbols /\ syms[i].st_name # 0
      /\ syms[i].defined /\ NameOf(lib, syms[i]) = name
  BY <1>2, <1>5 DEF Range
<1>7. name # ""
  BY DEF Called, InnerNames
<1>8. syms[i].st_name < info[lib].strsz /\ img.strtab[syms[i].st_name] = name
  BY <1>6, <1>7 DEF NameOf
<1>9. info[lib].strsz \in Nat
  <2>1. \A t \in DOMAIN Dynamic(img) : Dynamic(img)[t] \in Nat
    BY <1>1 DEF IsImage
  <2>2. info[lib].strsz = IF "strsz" \in DOMAIN Dynamic(img) THEN Dynamic(img)["strsz"] ELSE 0
    BY DEF Parsed
  <2> QED
    BY <2>1, <2>2
<1>10. DOMAIN img.strtab = 1 .. info[lib].strsz - 1
  BY <1>1, <1>3 DEF WellLinked
<1>11. syms[i].st_name \in DOMAIN img.strtab
  BY <1>6, <1>8, <1>9, <1>10 DEF Symbols
<1>12. Lands(img, <<"image", syms[i].value>>)
  BY <1>1, <1>6, <1>8, <1>11 DEF WellLinked
<1> QED
  BY <1>3, <1>12 DEF i

-----------------------------------------------------------------------------
(***************************************************************************)
(* The linker keeps each image sound.  All that cl_dlopen_mem knows of one *)
(* image is seven values; what is to hold of them depends on how far it got. *)
(***************************************************************************)
Sound(img, at, n, ar, mem, inf, ref) ==
  /\ at \in Phases /\ n \in Nat
  /\ ar \in [DOMAIN ar -> SUBSET {"r", "w", "x"}] /\ DOMAIN mem \subseteq WordsOf(DOMAIN ar)
  /\ at \in {"none", "failed", "closed"} => ar = NoArea
  /\ at # "none" => img \in Images
  /\ \A p \in DOMAIN ar : {"w", "x"} \subseteq ar[p] =>
       \E i \in LoadsOf(img) : p \in PagesOf(img.ph[i]) /\ img.ph[i].flags = ar[p]
  /\ at \in {"parse", "relocate", "open"} => inf = Parsed(img)
  /\ ref \in BOOLEAN
  /\ at = "load" => n > 0 /\ (ar # NoArea => LoadedTo(img, n, ar, mem))
                          /\ (ar = NoArea => ref /\ \A i \in LoadsOf(img) : n <= i)
  /\ at = "parse" => RelocatedTo(img, 1, ar, mem)
  /\ at = "relocate" => n > 0 /\ RelocatedTo(img, n, ar, mem)
                              /\ (~ref => \A p \in DOMAIN ar : "w" \in ar[p])
  /\ at = "open" => OpenAs(img, ar, mem, ref)

IsSound(lib) == Sound(image[lib], phase[lib], pos[lib], area[lib], memory[lib], info[lib], refused[lib])

LinkerInv ==
  /\ DOMAIN image = Libs /\ DOMAIN phase = Libs /\ DOMAIN pos = Libs
  /\ DOMAIN area = Libs /\ DOMAIN memory = Libs /\ DOMAIN info = Libs
  /\ phase \in [Libs -> Phases] /\ pos \in [Libs -> Nat] /\ refused \in [Libs -> BOOLEAN]
  /\ \A lib \in Libs : IsSound(lib)

LEMMA Nothing ==
  /\ NoArea \in [DOMAIN NoArea -> SUBSET {"r", "w", "x"}] /\ DOMAIN NoArea = {}
  BY DEF NoArea

\* A page of nothing is sound in each phase that has no image.
LEMMA NothingIsSound ==
  ASSUME NEW img, NEW at \in {"none", "failed", "closed"}, NEW n \in Nat, NEW inf,
         NEW ref \in BOOLEAN, at # "none" => img \in Images
  PROVE  Sound(img, at, n, NoArea, NoArea, inf, ref)
BY Nothing DEF Sound, Phases

\* What one call of the linker leaves alone.
Elsewhere(lib) ==
  \A l \in Libs : l # lib => /\ image'[l] = image[l] /\ phase'[l] = phase[l] /\ pos'[l] = pos[l]
                            /\ area'[l] = area[l] /\ memory'[l] = memory[l] /\ info'[l] = info[l]
                            /\ refused'[l] = refused[l]
SameDomains ==
  /\ DOMAIN image' = DOMAIN image /\ DOMAIN phase' = DOMAIN phase /\ DOMAIN pos' = DOMAIN pos
  /\ DOMAIN area' = DOMAIN area /\ DOMAIN memory' = DOMAIN memory /\ DOMAIN info' = DOMAIN info
  /\ phase' \in [Libs -> Phases] /\ pos' \in [Libs -> Nat] /\ refused' \in [Libs -> BOOLEAN]

LEMMA OneAtATime ==
  ASSUME LinkerInv, NEW lib \in Libs, Elsewhere(lib), SameDomains, IsSound(lib)'
  PROVE  LinkerInv'
<1>1. ASSUME NEW l \in Libs
      PROVE  IsSound(l)'
  BY DEF LinkerInv, Elsewhere, IsSound
<1> QED
  BY <1>1 DEF LinkerInv, SameDomains

LEMMA EmptyIsNoArea ==
  ASSUME NEW f, f = [p \in DOMAIN f |-> f[p]], DOMAIN f = {}
  PROVE  f = NoArea
<1>1. NoArea = [p \in {} |-> NoArea[p]]
  BY DEF NoArea
<1>2. f = [p \in {} |-> f[p]]
  OBVIOUS
<1> QED
  BY <1>1, <1>2

LEMMA GiveUpKeeps ==
  ASSUME LinkerInv, NEW lib \in Libs, phase[lib] # "none", GiveUp(lib)
  PROVE  LinkerInv' /\ Elsewhere(lib) /\ phase'[lib] = "failed"
<1>1. Elsewhere(lib) /\ SameDomains /\ phase'[lib] = "failed"
  BY DEF GiveUp, LinkerInv, Elsewhere, SameDomains, Phases
<1>2. image[lib] \in Images /\ pos[lib] \in Nat /\ refused[lib] \in BOOLEAN
  BY DEF LinkerInv, IsSound, Sound
<1>3. IsSound(lib)'
  <2>1. /\ image'[lib] = image[lib] /\ pos'[lib] = pos[lib] /\ refused'[lib] = refused[lib]
        /\ area'[lib] = NoArea /\ memory'[lib] = NoArea
    BY DEF GiveUp, LinkerInv
  <2> QED
    BY <1>1, <1>2, <2>1, NothingIsSound DEF IsSound
<1> QED
  BY <1>1, <1>3, OneAtATime

LEMMA DlOpenKeeps ==
  ASSUME LinkerInv, NEW lib \in Libs, NEW img \in Images, DlOpen(lib, img)
  PROVE  LinkerInv' /\ Elsewhere(lib) /\ image'[lib] = img /\ phase'[lib] \in {"failed", "load"}
<1>1. /\ Elsewhere(lib) /\ SameDomains /\ image'[lib] = img /\ phase'[lib] \in {"failed", "load"}
      /\ pos'[lib] = 1 /\ memory'[lib] = NoArea
      /\ \/ phase'[lib] = "failed" /\ area'[lib] = NoArea /\ refused'[lib] = FALSE
         \/ /\ phase'[lib] = "load" /\ Reserved(img) # {}
            /\ area'[lib] = [p \in Reserved(img) |-> {}] /\ refused'[lib] = FALSE
         \/ phase'[lib] = "load" /\ area'[lib] = NoArea /\ refused'[lib] = TRUE
  <2>1. \/ /\ phase' = [phase EXCEPT ![lib] = "failed"] /\ area' = [area EXCEPT ![lib] = NoArea]
           /\ refused' = [refused EXCEPT ![lib] = FALSE]
        \/ /\ phase' = [phase EXCEPT ![lib] = "load"] /\ Reserved(img) # {}
           /\ area' = [area EXCEPT ![lib] = [p \in Reserved(img) |-> {}]]
           /\ refused' = [refused EXCEPT ![lib] = FALSE]
        \/ /\ phase' = [phase EXCEPT ![lib] = "load"] /\ area' = [area EXCEPT ![lib] = NoArea]
           /\ refused' = [refused EXCEPT ![lib] = TRUE]
    BY DEF DlOpen
  <2>2. /\ image' = [image EXCEPT ![lib] = img] /\ pos' = [pos EXCEPT ![lib] = 1]
        /\ info' = [info EXCEPT ![lib] = NoInfo] /\ memory' = [memory EXCEPT ![lib] = NoArea]
    BY DEF DlOpen
  <2>3. image'[lib] = img /\ pos'[lib] = 1 /\ memory'[lib] = NoArea
    BY <2>2 DEF LinkerInv
  <2>4. ASSUME NEW at \in {"failed", "load"}, NEW ar, NEW ref \in BOOLEAN,
               phase' = [phase EXCEPT ![lib] = at], area' = [area EXCEPT ![lib] = ar],
               refused' = [refused EXCEPT ![lib] = ref]
        PROVE  /\ Elsewhere(lib) /\ SameDomains
               /\ phase'[lib] = at /\ area'[lib] = ar /\ refused'[lib] = ref
    BY <2>2, <2>4 DEF LinkerInv, Elsewhere, SameDomains, Phases
  <2>5. CASE /\ phase' = [phase EXCEPT ![lib] = "failed"] /\ area' = [area EXCEPT ![lib] = NoArea]
             /\ refused' = [refused EXCEPT ![lib] = FALSE]
    BY <2>3, <2>4, <2>5
  <2>6. CASE /\ phase' = [phase EXCEPT ![lib] = "load"] /\ Reserved(img) # {}
             /\ area' = [area EXCEPT ![lib] = [p \in Reserved(img) |-> {}]]
             /\ refused' = [refused EXCEPT ![lib] = FALSE]
    BY <2>3, <2>4, <2>6
  <2>7. CASE /\ phase' = [phase EXCEPT ![lib] = "load"] /\ area' = [area EXCEPT ![lib] = NoArea]
             /\ refused' = [refused EXCEPT ![lib] = TRUE]
    BY <2>3, <2>4, <2>7
  <2> QED
    BY <2>1, <2>5, <2>6, <2>7
<1>2. CASE phase'[lib] = "failed" /\ area'[lib] = NoArea /\ refused'[lib] = FALSE
  <2>1. IsSound(lib)'
    BY <1>1, <1>2, NothingIsSound DEF IsSound
  <2> QED
    BY <1>1, <2>1, OneAtATime
<1>3. CASE /\ phase'[lib] = "load" /\ Reserved(img) # {}
           /\ area'[lib] = [p \in Reserved(img) |-> {}] /\ refused'[lib] = FALSE
  <2>1. LoadedTo(img, 1, area'[lib], memory'[lib])
    BY ImageShape, LoadSegments DEF LoadedTo, LoadsOf, IsImage
  <2>2. /\ area'[lib] \in [DOMAIN area'[lib] -> SUBSET {"r", "w", "x"}]
        /\ \A p \in DOMAIN area'[lib] : ~({"w", "x"} \subseteq area'[lib][p])
    BY <1>3
  <2>3. area'[lib] # NoArea
    <3>1. DOMAIN area'[lib] # {}
      BY <1>3
    <3> QED
      BY <3>1, Nothing
  <2>4. Sound(img, "load", 1, area'[lib], NoArea, info'[lib], FALSE)
    BY <1>1, <2>1, <2>2, <2>3, Nothing DEF Sound, Phases
  <2>5. IsSound(lib)'
    BY <1>1, <1>3, <2>4 DEF IsSound
  <2> QED
    BY <1>1, <2>5, OneAtATime
<1>4. CASE phase'[lib] = "load" /\ area'[lib] = NoArea /\ refused'[lib] = TRUE
  <2>1. \A i \in LoadsOf(img) : 1 <= i
    BY ImageShape, LoadSegments DEF LoadsOf, IsImage
  <2>2. Sound(img, "load", 1, NoArea, NoArea, info'[lib], TRUE)
    BY <2>1, Nothing DEF Sound, Phases
  <2>3. IsSound(lib)'
    BY <1>1, <1>4, <2>2 DEF IsSound
  <2> QED
    BY <1>1, <2>3, OneAtATime
<1> QED
  BY <1>1, <1>2, <1>3, <1>4

LEMMA DlCloseKeeps ==
  ASSUME LinkerInv, NEW lib \in Libs, phase[lib] # "none", DlClose(lib)
  PROVE  LinkerInv' /\ Elsewhere(lib) /\ image'[lib] = image[lib] /\ phase'[lib] = "closed"
<1>1. Elsewhere(lib) /\ SameDomains /\ image'[lib] = image[lib] /\ phase'[lib] = "closed"
  BY DEF DlClose, LinkerInv, Elsewhere, SameDomains, Phases
<1>2. image[lib] \in Images /\ pos[lib] \in Nat /\ refused[lib] \in BOOLEAN
  BY DEF LinkerInv, IsSound, Sound
<1>3. IsSound(lib)'
  <2>1. /\ pos'[lib] = pos[lib] /\ refused'[lib] = refused[lib]
        /\ area'[lib] = NoArea /\ memory'[lib] = NoArea
    BY DEF DlClose, LinkerInv
  <2> QED
    BY <1>1, <1>2, <2>1, NothingIsSound DEF IsSound
<1> QED
  BY <1>1, <1>3, OneAtATime

LEMMA MoreWords ==
  ASSUME NEW P, NEW Q
  PROVE  WordsOf(P) \cup WordsOf(Q) \subseteq WordsOf(P \cup Q)
  BY DEF WordsOf

\* A segment is entered with pages of one protection, its own or one that is
\* not both writable and executable.
LEMMA SegmentEntered ==
  ASSUME LinkerInv, NEW lib \in Libs, phase[lib] = "load", area[lib] # NoArea,
         pos[lib] \in LoadsOf(image[lib]),
         NEW flags \in SUBSET {"r", "w", "x"}, NEW ref \in BOOLEAN,
         flags = image[lib].ph[pos[lib]].flags \/ ~({"w", "x"} \subseteq flags)
  PROVE  Sound(image[lib], "load", pos[lib] + 1,
               Over([p \in PagesOf(image[lib].ph[pos[lib]]) |-> flags], area[lib]),
               Over(Segment(image[lib], image[lib].ph[pos[lib]]), memory[lib]), info[lib], ref)
<1> DEFINE img == image[lib]
           n == pos[lib]
           s == img.ph[n]
           front == [p \in PagesOf(s) |-> flags]
           ar == Over(front, area[lib])
           mem == Over(Segment(img, s), memory[lib])
<1>1. /\ img \in Images /\ n \in Nat /\ n > 0 /\ LoadedTo(img, n, area[lib], memory[lib])
      /\ area[lib] \in [DOMAIN area[lib] -> SUBSET {"r", "w", "x"}]
      /\ DOMAIN memory[lib] \subseteq WordsOf(DOMAIN area[lib])
      /\ \A p \in DOMAIN area[lib] : {"w", "x"} \subseteq area[lib][p] =>
           \E i \in LoadsOf(img) : p \in PagesOf(img.ph[i]) /\ img.ph[i].flags = area[lib][p]
  BY DEF LinkerInv, IsSound, Sound
<1>2. DOMAIN front = PagesOf(s)
  OBVIOUS
<1>3. LoadedTo(img, n + 1, ar, mem)
  <2> HIDE DEF front
  <2> QED
    BY <1>1, <1>2, LoadOne
<1>4. /\ DOMAIN ar = PagesOf(s) \cup DOMAIN area[lib]
      /\ \A p \in PagesOf(s) : ar[p] = flags
      /\ \A p \in DOMAIN area[lib] : p \notin PagesOf(s) => ar[p] = area[lib][p]
      /\ ar = [p \in DOMAIN ar |-> ar[p]]
  BY DEF Over
<1>5. DOMAIN mem = WordsOf(PagesOf(s)) \cup DOMAIN memory[lib]
  BY DEF Over, Segment
<1> HIDE DEF ar, mem
<1>6. ar \in [DOMAIN ar -> SUBSET {"r", "w", "x"}]
  <2>1. \A p \in DOMAIN ar : ar[p] \in SUBSET {"r", "w", "x"}
    BY <1>1, <1>4
  <2> QED
    BY <1>4, <2>1
<1>7. DOMAIN mem \subseteq WordsOf(DOMAIN ar)
  BY <1>1, <1>4, <1>5, MoreWords
<1>8. \A p \in DOMAIN ar : {"w", "x"} \subseteq ar[p] =>
        \E i \in LoadsOf(img) : p \in PagesOf(img.ph[i]) /\ img.ph[i].flags = ar[p]
  BY <1>1, <1>4
<1>9. ar # NoArea
  <2>1. DOMAIN area[lib] # {}
    <3>1. area[lib] = [p \in DOMAIN area[lib] |-> area[lib][p]]
      BY <1>1
    <3>2. CASE DOMAIN area[lib] = {}
      BY <3>1, <3>2, EmptyIsNoArea
    <3> QED
      BY <3>2
  <2>2. DOMAIN ar # {}
    BY <1>4, <2>1
  <2> QED
    BY <2>2, Nothing
<1>10. Sound(img, "load", n + 1, ar, mem, info[lib], ref)
  BY <1>1, <1>3, <1>6, <1>7, <1>8, <1>9 DEF Sound, Phases
<1> QED
  BY <1>10 DEF ar, mem

LEMMA LoadSegmentKeeps ==
  ASSUME LinkerInv, NEW lib \in Libs, LoadSegment(lib)
  PROVE  LinkerInv' /\ Elsewhere(lib) /\ image' = image /\ phase[lib] = "load" /\ phase'[lib] \in {"load", "failed"}
<1> DEFINE img == image[lib]
           n == pos[lib]
           s == img.ph[n]
           Goal == LinkerInv' /\ Elsewhere(lib) /\ image' = image /\ phase'[lib] \in {"load", "failed"}
<1>1. /\ phase[lib] = "load" /\ n \in DOMAIN img.ph
      /\ img \in Images /\ n \in Nat /\ n > 0
      /\ area[lib] # NoArea => LoadedTo(img, n, area[lib], memory[lib])
      /\ area[lib] = NoArea => refused[lib] /\ \A i \in LoadsOf(img) : n <= i
      /\ refused[lib] \in BOOLEAN
  BY DEF LinkerInv, IsSound, Sound, LoadSegment
<1>2. s \in Segments /\ s.flags \in SUBSET {"r", "w", "x"}
  <2>1. s \in Segments
    BY <1>1, ImageShape DEF IsImage
  <2> QED
    BY <2>1 DEF Segments
<1>3. ASSUME s.type = "load", GiveUp(lib)
      PROVE  Goal
  BY <1>1, <1>3, GiveUpKeeps DEF GiveUp
<1>4. ASSUME s.type # "load", pos' = [pos EXCEPT ![lib] = @ + 1],
             UNCHANGED <<image, phase, area, memory, info, refused>>
      PROVE  Goal
  <2>1. Elsewhere(lib) /\ SameDomains /\ pos'[lib] = n + 1
    BY <1>4 DEF LinkerInv, Elsewhere, SameDomains, Phases
  <2>2. n \notin LoadsOf(img)
    BY <1>4 DEF LoadsOf
  <2>3. area[lib] # NoArea => LoadedTo(img, n + 1, area[lib], memory[lib])
    BY <1>1, <2>2, SkipOne
  <2>4. area[lib] = NoArea => \A i \in LoadsOf(img) : n + 1 <= i
    <3>1. \A i \in LoadsOf(img) : i \in Nat
      BY <1>1, ImageShape, LoadSegments
    <3> QED
      BY <1>1, <2>2, <3>1
  <2>5. Sound(img, "load", n + 1, area[lib], memory[lib], info[lib], refused[lib])
    BY <1>1, <2>3, <2>4 DEF LinkerInv, IsSound, Sound
  <2>6. IsSound(lib)'
    BY <1>1, <1>4, <2>1, <2>5 DEF IsSound
  <2> QED
    BY <1>1, <1>4, <2>1, <2>6, OneAtATime
<1>5. ASSUME NEW flags \in SUBSET {"r", "w", "x"}, NEW no \in BOOLEAN,
             flags = s.flags \/ ~({"w", "x"} \subseteq flags),
             s.type = "load", area[lib] # NoArea,
             memory' = [memory EXCEPT ![lib] = Over(Segment(img, s), @)],
             area' = [area EXCEPT ![lib] = Over([p \in PagesOf(s) |-> flags], @)],
             Unless(no, lib),
             pos' = [pos EXCEPT ![lib] = @ + 1], UNCHANGED <<image, phase, info>>
      PROVE  Goal
  <2> DEFINE ar == Over([p \in PagesOf(s) |-> flags], area[lib])
             mem == Over(Segment(img, s), memory[lib])
             ref == refused[lib] \/ no
  <2>1. Elsewhere(lib) /\ SameDomains /\ pos'[lib] = n + 1 /\ area'[lib] = ar /\ memory'[lib] = mem
    BY <1>5 DEF LinkerInv, Elsewhere, SameDomains, Phases, Unless
  <2>2. n \in LoadsOf(img)
    BY <1>1, <1>5 DEF LoadsOf
  <2>3. refused'[lib] = ref /\ ref \in BOOLEAN
    BY <1>1, <1>5 DEF Unless, LinkerInv
  <2> HIDE DEF ref
  <2>4. Sound(img, "load", n + 1, ar, mem, info[lib], ref)
    BY <1>1, <1>5, <2>2, <2>3, SegmentEntered
  <2> HIDE DEF ar, mem
  <2>5. IsSound(lib)'
    BY <1>1, <1>5, <2>1, <2>3, <2>4 DEF IsSound
  <2> QED
    BY <1>1, <1>5, <2>1, <2>5, OneAtATime
<1>6. ASSUME s.type = "load", MapSegment(lib, s)
      PROVE  Goal
  <2>1. PICK kept \in BOOLEAN :
          /\ area' = [area EXCEPT ![lib] = Over([p \in PagesOf(s) |-> IF kept THEN {"r", "w"} ELSE s.flags], @)]
          /\ Unless(kept, lib)
    BY <1>6 DEF MapSegment
  <2>2. /\ area[lib] # NoArea
        /\ memory' = [memory EXCEPT ![lib] = Over(Segment(img, s), @)]
        /\ pos' = [pos EXCEPT ![lib] = @ + 1] /\ UNCHANGED <<image, phase, info>>
    BY <1>6 DEF MapSegment
  <2> DEFINE flags == IF kept THEN {"r", "w"} ELSE s.flags
  <2>3. flags \in SUBSET {"r", "w", "x"} /\ (flags = s.flags \/ ~({"w", "x"} \subseteq flags))
    BY <1>2
  <2>4. area' = [area EXCEPT ![lib] = Over([p \in PagesOf(s) |-> flags], @)]
    BY <2>1
  <2> HIDE DEF flags
  <2> QED
    BY <1>5, <1>6, <2>1, <2>2, <2>3, <2>4
<1>7. ASSUME s.type = "load", MissSegment(lib, s)
      PROVE  Goal
  <2>1. Unless(TRUE, lib)
    BY <1>7 DEF MissSegment
  <2>2. CASE UNCHANGED <<image, phase, pos, area, memory, info>>
    <3>1. Elsewhere(lib) /\ SameDomains /\ refused'[lib] = TRUE
      BY <2>1, <2>2 DEF LinkerInv, Elsewhere, SameDomains, Unless
    <3>2. Sound(img, "load", n, area[lib], memory[lib], info[lib], TRUE)
      BY <1>1 DEF LinkerInv, IsSound, Sound
    <3>3. IsSound(lib)'
      BY <1>1, <2>2, <3>1, <3>2 DEF IsSound
    <3> QED
      BY <1>1, <2>2, <3>1, <3>3, OneAtATime
  <2>3. CASE \E flags \in {{}, s.flags} :
               /\ area' = [area EXCEPT ![lib] = Over([p \in PagesOf(s) |-> flags], @)]
               /\ area[lib] # NoArea /\ memory' = [memory EXCEPT ![lib] = Over(Segment(img, s), @)]
               /\ pos' = [pos EXCEPT ![lib] = @ + 1] /\ UNCHANGED <<image, phase, info>>
    BY <1>2, <1>5, <1>7, <2>1, <2>3
  <2> QED
    BY <1>7, <2>2, <2>3 DEF MissSegment, Fault
<1> QED
  BY <1>1, <1>3, <1>4, <1>6, <1>7 DEF LoadSegment

LEMMA ParseDynamicKeeps ==
  ASSUME LinkerInv, NEW lib \in Libs, ParseDynamic(lib)
  PROVE  LinkerInv' /\ Elsewhere(lib) /\ image' = image /\ phase[lib] = "load" /\ phase'[lib] = "parse"
<1> DEFINE img == image[lib]
<1>1. /\ Elsewhere(lib) /\ SameDomains /\ image' = image /\ phase[lib] = "load" /\ phase'[lib] = "parse"
      /\ info'[lib] = Parsed(img) /\ pos' = pos /\ area' = area /\ memory' = memory /\ refused' = refused
      /\ pos[lib] > Len(img.ph)
  BY DEF ParseDynamic, LinkerInv, Elsewhere, SameDomains, Phases
<1>2. img \in Images /\ pos[lib] \in Nat /\ LoadedTo(img, pos[lib], area[lib], memory[lib])
  <2>1. /\ img \in Images /\ pos[lib] \in Nat
        /\ area[lib] # NoArea => LoadedTo(img, pos[lib], area[lib], memory[lib])
        /\ area[lib] = NoArea => \A i \in LoadsOf(img) : pos[lib] <= i
    BY <1>1 DEF LinkerInv, IsSound, Sound
  <2>2. PICK i \in LoadsOf(img) : 0 \in PagesOf(img.ph[i])
    BY <2>1, ImageShape DEF WellLinked
  <2>3. i \in Nat /\ i <= Len(img.ph) /\ Len(img.ph) \in Nat
    BY <2>1, ImageShape, LoadSegments DEF IsImage
  <2>4. ~(pos[lib] <= i)
    BY <1>1, <2>1, <2>3
  <2> QED
    BY <2>1, <2>2, <2>4
<1>3. RelocatedTo(img, 1, area[lib], memory[lib])
  BY <1>1, <1>2, AllLoaded
<1>4. Sound(img, "parse", pos[lib], area[lib], memory[lib], Parsed(img), refused[lib])
  BY <1>1, <1>2, <1>3 DEF LinkerInv, IsSound, Sound, Phases
<1>5. IsSound(lib)'
  BY <1>1, <1>4 DEF IsSound
<1> QED
  BY <1>1, <1>5, OneAtATime

LEMMA OpenAreaKeeps ==
  ASSUME LinkerInv, NEW lib \in Libs, OpenArea(lib)
  PROVE  LinkerInv' /\ Elsewhere(lib) /\ image' = image /\ phase[lib] = "parse" /\ phase'[lib] = "relocate"
<1> DEFINE img == image[lib]
<1>1. PICK kept : /\ area' = [area EXCEPT ![lib] = [p \in DOMAIN @ |-> IF p \in kept THEN @[p] ELSE {"r", "w"}]]
                  /\ Unless(kept # {}, lib)
  BY DEF OpenArea
<1> DEFINE ar == [p \in DOMAIN area[lib] |-> IF p \in kept THEN area[lib][p] ELSE {"r", "w"}]
           ref == refused[lib] \/ kept # {}
<1>2. /\ Elsewhere(lib) /\ SameDomains /\ image' = image /\ phase[lib] = "parse" /\ phase'[lib] = "relocate"
      /\ info' = info /\ pos'[lib] = 1 /\ area'[lib] = ar /\ memory' = memory /\ refused'[lib] = ref
  <2>1. /\ area' = [area EXCEPT ![lib] = ar] /\ refused' = [refused EXCEPT ![lib] = ref]
        /\ phase' = [phase EXCEPT ![lib] = "relocate"] /\ pos' = [pos EXCEPT ![lib] = 1]
        /\ phase[lib] = "parse" /\ UNCHANGED <<image, memory, info>>
    BY <1>1 DEF OpenArea, Unless
  <2>2. ref \in BOOLEAN
    BY DEF LinkerInv
  <2> HIDE DEF ar, ref
  <2> QED
    BY <2>1, <2>2 DEF LinkerInv, Elsewhere, SameDomains, Phases
<1>3. /\ img \in Images /\ RelocatedTo(img, 1, area[lib], memory[lib]) /\ info[lib] = Parsed(img)
      /\ area[lib] \in [DOMAIN area[lib] -> SUBSET {"r", "w", "x"}] /\ refused[lib] \in BOOLEAN
      /\ \A p \in DOMAIN area[lib] : {"w", "x"} \subseteq area[lib][p] =>
           \E i \in LoadsOf(img) : p \in PagesOf(img.ph[i]) /\ img.ph[i].flags = area[lib][p]
  BY <1>2 DEF LinkerInv, IsSound, Sound
<1>4. /\ DOMAIN ar = DOMAIN area[lib] /\ ar \in [DOMAIN ar -> SUBSET {"r", "w", "x"}]
      /\ \A p \in DOMAIN ar : ar[p] = area[lib][p] \/ "x" \notin ar[p]
      /\ ~ref => \A p \in DOMAIN ar : "w" \in ar[p]
  BY <1>3
<1>5. ref \in BOOLEAN
  BY <1>3
<1> HIDE DEF ar, ref
<1>6. RelocatedTo(img, 1, ar, memory[lib])
  BY <1>3, <1>4 DEF RelocatedTo
<1>7. DOMAIN memory[lib] \subseteq WordsOf(DOMAIN ar)
  BY <1>4 DEF LinkerInv, IsSound, Sound
<1>8. \A p \in DOMAIN ar : {"w", "x"} \subseteq ar[p] =>
        \E i \in LoadsOf(img) : p \in PagesOf(img.ph[i]) /\ img.ph[i].flags = ar[p]
  BY <1>3, <1>4
<1>9. Sound(img, "relocate", 1, ar, memory[lib], info[lib], ref)
  BY <1>3, <1>4, <1>5, <1>6, <1>7, <1>8 DEF Sound, Phases
<1>10. IsSound(lib)'
  BY <1>2, <1>9 DEF IsSound
<1> QED
  BY <1>2, <1>10, OneAtATime

LEMMA RelocateOneSound ==
  ASSUME LinkerInv, NEW lib \in Libs, RelocateOne(lib)
  PROVE  LinkerInv' /\ Elsewhere(lib) /\ image' = image /\ phase[lib] = "relocate"
         /\ phase'[lib] \in {"relocate", "failed"}
<1> DEFINE img == image[lib]
           n == pos[lib]
           r == Entries(lib)[n]
<1>1. /\ phase[lib] = "relocate" /\ n \in DOMAIN Entries(lib) /\ n \in Nat /\ n > 0
      /\ img \in Images /\ info[lib] = Parsed(img)
      /\ RelocatedTo(img, n, area[lib], memory[lib])
  BY DEF LinkerInv, IsSound, Sound, RelocateOne
<1>2. ASSUME GiveUp(lib)
      PROVE  LinkerInv' /\ Elsewhere(lib) /\ image' = image /\ phase'[lib] \in {"relocate", "failed"}
  BY <1>1, <1>2, GiveUpKeeps DEF GiveUp
<1>3. ASSUME r.type \in Symbolic => Resolve(lib, r.sym) # NotFound,
             memory' = [memory EXCEPT ![lib] = [@ EXCEPT ![r.at] = Relocated(lib, r, memory[lib][r.at])]],
             pos' = [pos EXCEPT ![lib] = @ + 1], UNCHANGED <<image, phase, area, info, refused>>
      PROVE  LinkerInv' /\ Elsewhere(lib) /\ image' = image /\ phase'[lib] \in {"relocate", "failed"}
  <2> DEFINE mem == [memory[lib] EXCEPT ![r.at] = Relocated(lib, r, memory[lib][r.at])]
  <2>1. Elsewhere(lib) /\ SameDomains /\ pos'[lib] = n + 1 /\ memory'[lib] = mem
    <3> HIDE DEF mem
    <3>1. memory' = [memory EXCEPT ![lib] = mem]
      BY <1>3 DEF mem
    <3>2. /\ DOMAIN pos = Libs /\ DOMAIN memory = Libs /\ phase \in [Libs -> Phases] /\ pos \in [Libs -> Nat]
          /\ refused \in [Libs -> BOOLEAN]
      BY DEF LinkerInv
    <3>3. memory'[lib] = mem /\ (\A l \in Libs : l # lib => memory'[l] = memory[l]) /\ DOMAIN memory' = DOMAIN memory
      BY <3>1, <3>2
    <3>4. pos'[lib] = n + 1 /\ (\A l \in Libs : l # lib => pos'[l] = pos[l]) /\ DOMAIN pos' = DOMAIN pos
          /\ pos' \in [Libs -> Nat]
      BY <1>3, <3>2
    <3>5. image' = image /\ phase' = phase /\ area' = area /\ info' = info /\ refused' = refused
      BY <1>3
    <3> QED
      BY <3>2, <3>3, <3>4, <3>5 DEF Elsewhere, SameDomains, Phases
  <2>2. RelocatedTo(img, n + 1, area[lib], mem)
    BY <1>1, <1>3, RelocateOneKeeps
  <2>3. DOMAIN mem = DOMAIN memory[lib]
    OBVIOUS
  <2> HIDE DEF mem
  <2>4. Sound(img, "relocate", n + 1, area[lib], mem, info[lib], refused[lib])
    BY <1>1, <2>2, <2>3 DEF LinkerInv, IsSound, Sound
  <2>5. IsSound(lib)'
    BY <1>1, <1>3, <2>1, <2>4 DEF IsSound
  <2> QED
    BY <1>1, <1>3, <2>1, <2>5, OneAtATime
<1>4. ASSUME UNCHANGED imageVars
      PROVE  LinkerInv' /\ Elsewhere(lib) /\ image' = image /\ phase'[lib] \in {"relocate", "failed"}
  BY <1>1, <1>4 DEF imageVars, LinkerInv, IsSound, Elsewhere
<1> QED
  BY <1>1, <1>2, <1>3, <1>4 DEF RelocateOne, Fault, imageVars

LEMMA ProtectSegmentsKeeps ==
  ASSUME LinkerInv, NEW lib \in Libs, ProtectSegments(lib)
  PROVE  LinkerInv' /\ Elsewhere(lib) /\ image' = image /\ phase[lib] = "relocate" /\ phase'[lib] = "open"
<1> DEFINE img == image[lib]
<1>1. PICK kept \in SUBSET LoadsOf(img) : area' = [area EXCEPT ![lib] = Protected(lib, kept)] /\ Unless(kept # {}, lib)
  BY DEF ProtectSegments
<1> DEFINE ar == Protected(lib, kept)
           ref == refused[lib] \/ kept # {}
<1>2. /\ Elsewhere(lib) /\ SameDomains /\ image' = image /\ phase[lib] = "relocate" /\ phase'[lib] = "open"
      /\ info' = info /\ pos' = pos /\ area'[lib] = ar /\ memory' = memory /\ refused'[lib] = ref
      /\ pos[lib] > Len(Entries(lib))
  <2>1. /\ area' = [area EXCEPT ![lib] = ar] /\ refused' = [refused EXCEPT ![lib] = ref]
        /\ phase' = [phase EXCEPT ![lib] = "open"] /\ phase[lib] = "relocate"
        /\ UNCHANGED <<image, pos, memory, info>> /\ pos[lib] > Len(Entries(lib))
    BY <1>1 DEF ProtectSegments, Unless
  <2>2. ref \in BOOLEAN
    BY DEF LinkerInv
  <2> HIDE DEF ar, ref
  <2> QED
    BY <2>1, <2>2 DEF LinkerInv, Elsewhere, SameDomains, Phases
<1>3. /\ img \in Images /\ info[lib] = Parsed(img) /\ pos[lib] \in Nat /\ refused[lib] \in BOOLEAN
      /\ RelocatedTo(img, pos[lib], area[lib], memory[lib])
      /\ area[lib] \in [DOMAIN area[lib] -> SUBSET {"r", "w", "x"}]
      /\ DOMAIN memory[lib] \subseteq WordsOf(DOMAIN area[lib])
      /\ \A p \in DOMAIN area[lib] : {"w", "x"} \subseteq area[lib][p] =>
           \E i \in LoadsOf(img) : p \in PagesOf(img.ph[i]) /\ img.ph[i].flags = area[lib][p]
  BY <1>2 DEF LinkerInv, IsSound, Sound
<1>4. DOMAIN ar = DOMAIN area[lib] /\ ar = [p \in DOMAIN ar |-> ar[p]]
  BY DEF Protected
<1>5. \A p \in DOMAIN area[lib] :
        /\ \A i \in LoadsOf(img) \ kept : p \in PagesOf(img.ph[i]) => ar[p] = img.ph[i].flags
        /\ (\A i \in LoadsOf(img) \ kept : p \notin PagesOf(img.ph[i])) => ar[p] = area[lib][p]
  BY <1>3, ProtectedAs
<1>6. \A i \in LoadsOf(img) : img.ph[i].flags \in SUBSET {"r", "w", "x"}
  BY <1>3, ImageShape, LoadSegments DEF Segments
<1>7. \A i \in LoadsOf(img) : PagesOf(img.ph[i]) \subseteq DOMAIN area[lib]
  BY <1>3 DEF RelocatedTo, ImagePages
<1>8. ref \in BOOLEAN /\ (~ref => kept = {})
  BY <1>3
<1> HIDE DEF ar, ref
<1>9. ar \in [DOMAIN ar -> SUBSET {"r", "w", "x"}]
  <2>1. \A p \in DOMAIN ar : ar[p] \in SUBSET {"r", "w", "x"}
    BY <1>3, <1>4, <1>5, <1>6
  <2> QED
    BY <1>4, <2>1
<1>10. \A p \in DOMAIN ar : {"w", "x"} \subseteq ar[p] =>
         \E i \in LoadsOf(img) : p \in PagesOf(img.ph[i]) /\ img.ph[i].flags = ar[p]
  BY <1>3, <1>4, <1>5
<1>11. OpenAs(img, ar, memory[lib], ref)
  <2>1. \A i \in LoadsOf(img) : \A p \in PagesOf(img.ph[i]) : p \in DOMAIN ar /\ (ref \/ ar[p] = img.ph[i].flags)
    BY <1>4, <1>5, <1>7, <1>8
  <2>2. ASSUME NEW w \in ImageWords(img)
        PROVE  w \in DOMAIN memory[lib] /\ memory[lib][w] = WantedAt(img, w)
    <3> DEFINE n == pos[lib]
               was == area[lib]
               mem == memory[lib]
    <3>1. n \in Nat /\ n > Len(Entries(lib)) /\ RelocatedTo(image[lib], n, was, mem)
      BY <1>2, <1>3
    <3>2. image[lib] \in Images /\ info[lib] = Parsed(image[lib]) /\ w \in ImageWords(image[lib])
      BY <1>3
    <3> HIDE DEF n, was, mem
    <3>3. w \in DOMAIN mem /\ mem[w] = WantedAt(image[lib], w)
      BY <3>1, <3>2, AllRelocated
    <3> QED
      BY <3>3 DEF mem
  <2> QED
    BY <2>1, <2>2 DEF OpenAs
<1>12. Sound(img, "open", pos[lib], ar, memory[lib], info[lib], ref)
  BY <1>3, <1>4, <1>8, <1>9, <1>10, <1>11 DEF Sound, Phases
<1>13. IsSound(lib)'
  BY <1>2, <1>12 DEF IsSound
<1> QED
  BY <1>2, <1>13, OneAtATime

\* A step of the linker works at one image, keeps it sound, and leaves it either
\* unmapped or a step further.
LEMMA LinkerStepKeeps ==
  ASSUME LinkerInv, NEW lib \in Libs, LinkerStep(lib)
  PROVE  /\ LinkerInv' /\ Elsewhere(lib) /\ image' = image
         /\ phase[lib] \in {"load", "parse", "relocate"}
         /\ phase'[lib] \in {"load", "parse", "relocate", "open", "failed"}
BY LoadSegmentKeeps, ParseDynamicKeeps, OpenAreaKeeps, RelocateOneSound, ProtectSegmentsKeeps DEF LinkerStep

\* A write of the linker faults only in an image a call of which was refused.
LEMMA LinkerFaults ==
  ASSUME LinkerInv, ~faulted, NEW lib \in Libs, LinkerStep(lib), faulted'
  PROVE  refused'[lib]
<1>1. CASE LoadSegment(lib)
  <2>1. MissSegment(lib, image[lib].ph[pos[lib]])
    BY <1>1 DEF LoadSegment, GiveUp, MapSegment
  <2> QED
    BY <2>1 DEF MissSegment, Unless, LinkerInv
<1>2. CASE RelocateOne(lib)
  <2> DEFINE r == Entries(lib)[pos[lib]]
  <2>1. /\ r.type \in Known /\ ~Writable(lib, r.at) /\ refused' = refused
        /\ phase[lib] = "relocate" /\ pos[lib] \in DOMAIN Entries(lib)
    BY <1>2 DEF RelocateOne, GiveUp
  <2>2. /\ image[lib] \in Images /\ info[lib] = Parsed(image[lib])
        /\ ImagePages(image[lib]) \subseteq DOMAIN area[lib]
        /\ refused[lib] \in BOOLEAN /\ (~refused[lib] => \A p \in DOMAIN area[lib] : "w" \in area[lib][p])
    BY <2>1 DEF LinkerInv, IsSound, Sound, RelocatedTo
  <2>3. r \in Tables(image[lib])
    BY <2>1, <2>2, EntriesAreTables
  <2>4. r.at \in ImageWords(image[lib])
    BY <2>1, <2>2, <2>3, ImageShape DEF WellLinked
  <2>5. PageOf(r.at) \in DOMAIN area[lib]
    BY <2>2, <2>4, ImageShape, ImagePagesAreInts, WordsHavePages DEF ImageWords
  <2> QED
    BY <2>1, <2>2, <2>5 DEF Writable
<1>3. CASE ParseDynamic(lib) \/ OpenArea(lib) \/ ProtectSegments(lib)
  BY <1>3 DEF ParseDynamic, OpenArea, ProtectSegments
<1> QED
  BY <1>1, <1>2, <1>3 DEF LinkerStep

-----------------------------------------------------------------------------
(***************************************************************************)
(* The loader.  Each clause says what the steps to come rely on: an image  *)
(* that is called is open, an entry that waits is a function of its image, *)
(* a pointer that may be used was looked up in the image that is mapped.   *)
(***************************************************************************)
Ctors(img) ==
  NoFunction \cup
  {f \in {<<"image", Parsed(img).init>>} \cup {WantedAt(img, w) : w \in ImageWords(img)} : Lands(img, f)}

LoaderTypes ==
  /\ apk \in Apks /\ enc \in Inners
  /\ step \in Steps /\ scan \in 1 .. Len(apk) + 1 /\ found \in 0 .. Len(Objects)
  /\ plain \subseteq {"so", "inner"} /\ handle \in BOOLEAN
  /\ inner \in {"none", "decrypt", "link", "ctors", "bound", "failed"}
  /\ via \in {"none", "cl", "memfd"} /\ DOMAIN ptr = InnerNames /\ DOMAIN queue = Libs

\* Who works when: the inner library is loaded by a constructor of the payload.
TurnsInv ==
  /\ InnerBusy => step \in {"ctors", "system"}
  /\ inner = "ctors" => phase["inner"] = "open"
  /\ step = "link" => phase["payload"] # "none"
  /\ step = "ctors" => phase["payload"] = "open"
  /\ step \in {"run", "erase"} /\ via = "cl" => phase["payload"] = "open"

QueueInv ==
  /\ step = "ctors" => queue["payload"] \in Seq(Ctors(image["payload"]))
  /\ inner = "ctors" => queue["inner"] \in Seq(Ctors(image["inner"]))

PointersInv ==
  /\ step = "run" /\ via = "cl" => DlSym("payload", "JNI_OnLoad") # NotFound
  /\ handle /\ inner \notin {"link", "ctors"} =>
       phase["inner"] = "open" /\ \A n \in InnerNames : ptr[n] = DlSym("inner", n)

PlainInv ==
  /\ "so" \in plain => step \in {"link", "ctors", "memfd", "system", "run"}
  /\ "inner" \in plain => inner \in {"link", "ctors"}

ScanInv ==
  /\ step = "idle" => scan = 1
  /\ PackedIsFound

LoaderInv == LinkerInv /\ LoaderTypes /\ TurnsInv /\ QueueInv /\ PointersInv /\ PlainInv /\ ScanInv

\* The frame's length cuts an object, it does not lengthen it.
LEMMA CutIsImage ==
  ASSUME NEW o \in DOMAIN Objects, NEW len \in Nat
  PROVE  Cut(o, len) \in Images /\ (len = Objects[o].len => Cut(o, len).len = len)
<1> DEFINE n == IF Objects[o].len < len THEN Objects[o].len ELSE len
<1>1. Objects[o].len \in Nat /\ "len" \in DOMAIN Objects[o]
  BY LoaderAssumption
<1>2. n \in 0 .. Objects[o].len /\ ~(Objects[o].len < n)
  BY <1>1
<1>3. Cut(o, n) = Cut(o, len)
  BY <1>2 DEF Cut
<1>4. Cut(o, n) \in Images
  <2> HIDE DEF n
  <2>1. Cut(o, n) \in {Cut(o, m) : m \in 0 .. Objects[o].len}
    BY <1>2
  <2>2. {Cut(o, m) : m \in 0 .. Objects[o].len} \subseteq
          UNION {{Cut(u, m) : m \in 0 .. Objects[u].len} : u \in DOMAIN Objects}
    OBVIOUS
  <2> QED
    BY <2>1, <2>2 DEF Images
<1>5. len = Objects[o].len => Cut(o, len).len = len
  BY <1>1 DEF Cut
<1> QED
  BY <1>3, <1>4, <1>5

\* A function of an open image lies in a page that is mapped, to be executed
\* unless a protection was refused.
LandsIn(lib, f) ==
  /\ f[1] = "image" /\ PageOf(f[2]) \in DOMAIN area[lib]
  /\ refused[lib] \/ "x" \in area[lib][PageOf(f[2])]

LEMMA OpenImage ==
  ASSUME LinkerInv, NEW lib \in Libs, phase[lib] = "open"
  PROVE  /\ image[lib] \in Images /\ info[lib] = Parsed(image[lib])
         /\ OpenAs(image[lib], area[lib], memory[lib], refused[lib])
BY DEF LinkerInv, IsSound, Sound

LEMMA LandsIsMapped ==
  ASSUME LinkerInv, NEW lib \in Libs, phase[lib] = "open", NEW f, Lands(image[lib], f)
  PROVE  LandsIn(lib, f)
BY OpenImage DEF OpenAs, Lands, LandsIn

LEMMA DlSymIsMapped ==
  ASSUME LinkerInv, NEW lib \in Libs, phase[lib] = "open", NEW name \in Called, DlSym(lib, name) # NotFound
  PROVE  LandsIn(lib, DlSym(lib, name))
BY OpenImage, DlSymLands, LandsIsMapped

\* What cl_dlsym answers depends on the image and its tables only.
LEMMA DlSymStays ==
  ASSUME NEW lib, image'[lib] = image[lib], info'[lib] = info[lib], NEW name
  PROVE  DlSym(lib, name)' = DlSym(lib, name)
BY DEF DlSym, NameOf

LEMMA ConstructorsAreFunctions ==
  ASSUME LinkerInv, NEW lib \in Libs, phase[lib] = "open"
  PROVE  Constructors(lib) \in Seq(Ctors(image[lib]))
<1> DEFINE img == image[lib]
           d == Parsed(img)
           first == IF d.init # 0 THEN <<(<<"image", d.init>>)>> ELSE <<>>
           array == [k \in 1 .. d.count |-> memory[lib][d.array + k - 1]]
<1>1. img \in Images /\ info[lib] = d /\ OpenAs(img, area[lib], memory[lib], refused[lib])
  BY OpenImage
<1>2. IsImage(img) /\ WellLinked(img, Called)
  BY <1>1, ImageShape
<1>3. d.count \in Nat /\ d.array \in Nat
  <2>1. \A t \in DOMAIN Dynamic(img) : Dynamic(img)[t] \in Nat
    BY <1>2 DEF IsImage
  <2>2. /\ d.count = IF "init_arraysz" \in DOMAIN Dynamic(img) THEN Dynamic(img)["init_arraysz"] ELSE 0
        /\ d.array = IF "init_array" \in DOMAIN Dynamic(img) THEN Dynamic(img)["init_array"] ELSE 0
    BY DEF Parsed
  <2> QED
    BY <2>1, <2>2
<1>4. Constructors(lib) = first \o array
  BY <1>1 DEF Constructors
<1>5. /\ d.init # 0 => Lands(img, <<"image", d.init>>)
      /\ \A w \in d.array .. d.array + d.count - 1 :
           w \in ImageWords(img) \ {0} /\ (WantedAt(img, w) \in NoFunction \/ Lands(img, WantedAt(img, w)))
  BY <1>2 DEF WellLinked
<1>6. first \in Seq(Ctors(img))
  <2>1. d.init # 0 => <<"image", d.init>> \in Ctors(img)
    BY <1>5 DEF Ctors
  <2> DEFINE f == <<"image", d.init>>
  <2> HIDE DEF d, f
  <2>2. d.init # 0 => <<f>> \in Seq(Ctors(img))
    BY <2>1 DEF f
  <2>3. <<>> \in Seq(Ctors(img))
    OBVIOUS
  <2> QED
    BY <2>2, <2>3 DEF f
<1>7. array \in Seq(Ctors(img))
  <2>1. ASSUME NEW w \in d.array .. d.array + d.count - 1
        PROVE  memory[lib][w] \in Ctors(img)
    <3>1. memory[lib][w] = WantedAt(img, w) /\ w \in ImageWords(img)
      BY <1>1, <1>5 DEF OpenAs
    <3>2. WantedAt(img, w) \in NoFunction \/ Lands(img, WantedAt(img, w))
      BY <1>5
    <3> QED
      BY <3>1, <3>2 DEF Ctors
  <2> HIDE DEF d
  <2>2. \A k \in 1 .. d.count : d.array + k - 1 \in d.array .. d.array + d.count - 1
    BY <1>3
  <2>3. array \in [1 .. d.count -> Ctors(img)]
    BY <2>1, <2>2
  <2> HIDE DEF array
  <2>4. \E n \in Nat : array \in [1 .. n -> Ctors(img)]
    BY <1>3, <2>3
  <2> QED
    BY <2>4, SeqDef
<1> QED
  <2> HIDE DEF first, array
  <2> QED
    BY <1>4, <1>6, <1>7, ConcatProperties

-----------------------------------------------------------------------------
(* The calls into the images *)

LEMMA InItsRange ==
  ASSUME NEW S, NEW s \in Seq(S)
  PROVE  s \in Seq(Range(s))
<1>1. s \in [1 .. Len(s) -> Range(s)] /\ Len(s) \in Nat
  BY DEF Range
<1> QED
  BY <1>1, SeqDef

\* What is appended to the calls is what there is to check.
LEMMA MoreCalls ==
  ASSUME NEW s, s \in Seq(Range(s)), NEW S, NEW u \in Seq(S), NEW t, t = s \o u
  PROVE  /\ t \in Seq(Range(t))
         /\ \A i \in Len(s) + 1 .. Len(t) : t[i] \in Range(u)
<1> DEFINE T == Range(s) \cup S
<1>1. s \in Seq(T) /\ u \in Seq(T)
  <2>1. Range(s) \subseteq T /\ S \subseteq T
    OBVIOUS
  <2> HIDE DEF T
  <2> QED
    BY <2>1, SeqMonotonic
<1> HIDE DEF T
<1>2. t \in Seq(T) /\ Len(t) = Len(s) + Len(u) /\ Len(s) \in Nat /\ Len(u) \in Nat
      /\ \A i \in 1 .. Len(t) : t[i] = IF i <= Len(s) THEN s[i] ELSE u[i - Len(s)]
  BY <1>1, ConcatProperties
<1>3. ASSUME NEW i \in Len(s) + 1 .. Len(t)
      PROVE  t[i] \in Range(u)
  <2>1. i \in 1 .. Len(t) /\ ~(i <= Len(s)) /\ i - Len(s) \in 1 .. Len(u)
    BY <1>2
  <2>2. 1 .. Len(u) = DOMAIN u
    BY <1>1
  <2> QED
    BY <1>2, <2>1, <2>2 DEF Range
<1> QED
  BY <1>2, <1>3, InItsRange

-----------------------------------------------------------------------------
(* Each action of the loader keeps LoaderInv *)

LEMMA LoaderInitInv == LoaderInit => LoaderInv
<1> SUFFICES ASSUME LoaderInit
             PROVE  LoaderInv
  OBVIOUS
<1>1. LinkerInv
  <2>1. /\ image = [l \in Libs |-> NoImage] /\ phase = [l \in Libs |-> "none"] /\ pos = [l \in Libs |-> 0]
        /\ area = [l \in Libs |-> NoArea] /\ memory = [l \in Libs |-> NoArea] /\ info = [l \in Libs |-> NoInfo]
        /\ refused = [l \in Libs |-> FALSE]
    BY DEF LoaderInit, LinkerInit
  <2>2. ASSUME NEW l \in Libs
        PROVE  IsSound(l)
    BY <2>1, NothingIsSound DEF IsSound
  <2> QED
    BY <2>1, <2>2 DEF LinkerInv, Phases
<1>2. LoaderTypes
  <2>1. apk \in Seq([obj : 0 .. Len(Objects), at : Nat, magic : Nat])
    BY LoaderAssumption DEF LoaderInit
  <2>2. Len(Objects) \in Nat /\ Len(apk) \in Nat
    BY <2>1, LoaderAssumption
  <2>3. scan \in 1 .. Len(apk) + 1 /\ found \in 0 .. Len(Objects)
    BY <2>2 DEF LoaderInit
  <2>4. DOMAIN ptr = InnerNames /\ DOMAIN queue = Libs
    BY DEF LoaderInit
  <2> QED
    BY <2>3, <2>4 DEF LoaderInit, LoaderTypes, Steps
<1>3. TurnsInv /\ QueueInv /\ PointersInv /\ PlainInv
  BY DEF LoaderInit, TurnsInv, QueueInv, PointersInv, PlainInv, InnerBusy
<1>4. ScanInv
  BY DEF LoaderInit, ScanInv, PackedIsFound
<1> QED
  BY <1>1, <1>2, <1>3, <1>4 DEF LoaderInv

LEMMA LinkerStays ==
  ASSUME LinkerInv, UNCHANGED imageVars
  PROVE  LinkerInv' /\ \A lib : Elsewhere(lib)
BY DEF LinkerInv, IsSound, imageVars, Elsewhere

LEMMA LibsAre == Libs = {"payload", "inner"}
  BY LoaderAssumption

\* The search is over, or goes on where it was.
LEMMA FoundStays ==
  ASSUME PackedIsFound, apk' = apk,
         step' \notin {"idle", "scan", "done"} =>
           step \notin {"idle", "scan", "done"} /\ found' = found /\ image'["payload"] = image["payload"],
         step' = "scan" => step = "scan" /\ scan' = scan
  PROVE  PackedIsFound'
BY DEF PackedIsFound, Frame, LeadsToElf

\* The pointers stay good with the image they were looked up in.
LEMMA PointersStay ==
  ASSUME image'["inner"] = image["inner"], info'["inner"] = info["inner"],
         phase'["inner"] = phase["inner"], ptr' = ptr,
         handle /\ inner \notin {"link", "ctors"} =>
           phase["inner"] = "open" /\ \A n \in InnerNames : ptr[n] = DlSym("inner", n),
         handle' /\ inner' \notin {"link", "ctors"} => handle /\ inner \notin {"link", "ctors"}
  PROVE  handle' /\ inner' \notin {"link", "ctors"} =>
           phase'["inner"] = "open" /\ \A n \in InnerNames : ptr'[n] = DlSym("inner", n)'
BY DlSymStays

LEMMA OnLoadStays ==
  ASSUME image'["payload"] = image["payload"], info'["payload"] = info["payload"],
         step = "run" /\ via = "cl" => DlSym("payload", "JNI_OnLoad") # NotFound,
         step' = "run" /\ via' = "cl" => step = "run" /\ via = "cl"
  PROVE  step' = "run" /\ via' = "cl" => DlSym("payload", "JNI_OnLoad")' # NotFound
BY DlSymStays

LEMMA Cells ==
  ASSUME apk \in Apks, NEW i \in DOMAIN apk
  PROVE  /\ i \in 1 .. Len(apk) /\ Len(apk) \in Nat
         /\ apk[i].obj \in 0 .. Len(Objects) /\ apk[i].at \in Nat /\ apk[i].magic \in Nat
<1> DEFINE Cell == [obj : 0 .. Len(Objects), at : Nat, magic : Nat]
<1>1. apk \in Seq(Cell)
  BY LoaderAssumption
<1>2. /\ i \in 1 .. Len(apk) /\ Len(apk) \in Nat /\ apk[i] \in Cell
  <2> HIDE DEF Cell
  <2> QED
    BY <1>1
<1> QED
  BY <1>2

\* A trailer that is taken leads to the first word of a library.
LEMMA TakenLeads ==
  ASSUME apk \in Apks, NEW i \in DOMAIN apk, Plausible(i), IsElf(i)
  PROVE  Extract(i) \in DOMAIN Objects /\ Objects[Extract(i)].elf /\ LeadsToElf(i)
<1>1. i - apk[i].magic \in DOMAIN apk
  BY Cells DEF Plausible
<1>2. apk[i - apk[i].magic].obj \in 0 .. Len(Objects) /\ Len(Objects) \in Nat
  <2>1. \A k \in DOMAIN apk : apk[k].obj \in 0 .. Len(Objects)
    BY Cells
  <2>2. Len(Objects) \in Nat
    BY LoaderAssumption
  <2> QED
    BY <1>1, <2>1, <2>2
<1>3. Extract(i) \in 1 .. Len(Objects) /\ apk[i - apk[i].magic].at = 1
      /\ apk[i - apk[i].magic].obj = Extract(i) /\ Objects[Extract(i)].elf
  BY <1>2 DEF IsElf, Extract
<1>4. DOMAIN Objects = 1 .. Len(Objects)
  BY LoaderAssumption
<1>5. apk[i].magic \in Nat /\ i > apk[i].magic /\ apk[i].magic > 0
  BY Cells DEF Plausible
<1> QED
  BY <1>3, <1>4, <1>5 DEF LeadsToElf

\* The trailer of a packed library is taken.
LEMMA FrameIsTaken ==
  ASSUME apk \in Apks, NEW i \in DOMAIN apk, NEW o \in DOMAIN Objects, Frame(i, o), Objects[o].elf
  PROVE  Plausible(i) /\ IsElf(i) /\ Extract(i) = o
<1>1. apk[i].magic \in Nat \ {0} /\ o # 0 /\ i \in 1 .. Len(apk) /\ Len(apk) \in Nat /\ i > apk[i].magic
  BY Cells, LoaderAssumption DEF Frame
<1>2. 1 \in 1 .. apk[i].magic /\ i - apk[i].magic + 1 - 1 = i - apk[i].magic
  BY <1>1
<1>3. apk[i - apk[i].magic].obj = o /\ apk[i - apk[i].magic].at = 1
  BY <1>2 DEF Frame
<1> QED
  BY <1>1, <1>3 DEF Plausible, IsElf, Extract

LEMMA BootstrapKeeps == LoaderInv /\ Bootstrap => LoaderInv'
<1> SUFFICES ASSUME LoaderInv, Bootstrap
             PROVE  LoaderInv'
  OBVIOUS
<1>1. LinkerInv' /\ UNCHANGED <<imageVars, apk, enc, scan, found, plain, queue, inner, handle, ptr, via, calls>>
  BY LinkerStays DEF LoaderInv, Bootstrap, linkerVars
<1>2. LoaderTypes' /\ TurnsInv' /\ QueueInv' /\ PlainInv'
  BY <1>1 DEF LoaderInv, Bootstrap, LoaderTypes, Steps, TurnsInv, InnerBusy, QueueInv, PlainInv, linkerVars, imageVars
<1>3. PointersInv'
  BY <1>1, PointersStay, OnLoadStays DEF LoaderInv, Bootstrap, PointersInv, linkerVars, imageVars
<1>4. ScanInv'
  <2>1. scan' = 1 /\ step' \in {"scan", "done"} /\ apk' = apk
    BY <1>1 DEF LoaderInv, ScanInv, Bootstrap
  <2>2. \A i \in DOMAIN apk : i \in Nat /\ 1 <= i
    BY Cells DEF LoaderInv, LoaderTypes
  <2> QED
    BY <2>1, <2>2 DEF ScanInv, PackedIsFound
<1> QED
  BY <1>1, <1>2, <1>3, <1>4 DEF LoaderInv

LEMMA ScanOnKeeps == LoaderInv /\ ScanOn => LoaderInv'
<1> SUFFICES ASSUME LoaderInv, ScanOn
             PROVE  LoaderInv'
  OBVIOUS
<1>1. LinkerInv' /\ UNCHANGED <<imageVars, apk, enc, step, found, plain, queue, inner, handle, ptr, via, calls>>
  BY LinkerStays DEF LoaderInv, ScanOn, linkerVars
<1>2. LoaderTypes' /\ TurnsInv' /\ QueueInv' /\ PlainInv'
  <2>1. scan' \in 1 .. Len(apk) + 1
    BY Cells DEF ScanOn, NextPos, LoaderInv, LoaderTypes
  <2> QED
    BY <1>1, <2>1 DEF LoaderInv, ScanOn, LoaderTypes, Steps, TurnsInv, InnerBusy, QueueInv, PlainInv, linkerVars, imageVars
<1>3. PointersInv'
  BY <1>1, PointersStay, OnLoadStays DEF LoaderInv, ScanOn, PointersInv, linkerVars, imageVars
<1>4. ScanInv'
  <2>1. step = "scan" /\ step' = "scan" /\ apk' = apk /\ scan \in DOMAIN apk /\ scan' = scan + 1
    BY <1>1 DEF ScanOn, NextPos
  <2>2. ASSUME NEW i \in DOMAIN apk, NEW o \in DOMAIN Objects, Frame(i, o), Objects[o].elf,
               \A j \in DOMAIN apk : LeadsToElf(j) => j = i
        PROVE  scan' <= i
    <3>1. scan <= i
      BY <2>1, <2>2 DEF LoaderInv, ScanInv, PackedIsFound
    <3>2. scan # i
      BY <2>2, FrameIsTaken DEF ScanOn, LoaderInv, LoaderTypes
    <3>3. scan \in Nat /\ i \in Nat
      BY <2>1, Cells DEF LoaderInv, LoaderTypes
    <3> QED
      BY <2>1, <3>1, <3>2, <3>3
  <2> QED
    BY <2>1, <2>2 DEF ScanInv, PackedIsFound, Frame, LeadsToElf
<1> QED
  BY <1>1, <1>2, <1>3, <1>4 DEF LoaderInv

LEMMA ScanHitKeeps == LoaderInv /\ ScanHit => LoaderInv'
<1> SUFFICES ASSUME LoaderInv, ScanHit
             PROVE  LoaderInv'
  OBVIOUS
<1> DEFINE o == Extract(scan)
           img == Cut(o, apk[scan].magic)
<1>1. /\ o \in DOMAIN Objects /\ Objects[o].elf /\ LeadsToElf(scan) /\ apk[scan].magic \in Nat
      /\ scan \in DOMAIN apk /\ found' = o
      /\ step = "scan" /\ step' = "link" /\ plain' = plain \cup {"so"}
      /\ UNCHANGED <<apk, enc, scan, queue, inner, handle, ptr, via, calls>>
  BY TakenLeads, Cells DEF ScanHit, LoaderInv, LoaderTypes
<1>2. img \in Images /\ (apk[scan].magic = Objects[o].len => img.len = Objects[o].len)
  BY <1>1, CutIsImage
<1>3. /\ LinkerInv' /\ Elsewhere("payload") /\ image'["payload"] = img
      /\ phase'["payload"] \in {"failed", "load"}
  BY <1>2, DlOpenKeeps, LibsAre DEF ScanHit, LoaderInv
<1>4. /\ image'["inner"] = image["inner"] /\ phase'["inner"] = phase["inner"] /\ info'["inner"] = info["inner"]
  BY <1>3, LibsAre DEF Elsewhere
<1> HIDE DEF o, img
<1>5. LoaderTypes'
  <2>1. found' \in 0 .. Len(Objects)
    BY <1>1, LoaderAssumption
  <2> QED
    BY <1>1, <2>1 DEF LoaderInv, LoaderTypes, Steps
<1>6. TurnsInv' /\ QueueInv' /\ PlainInv'
  BY <1>1, <1>3, <1>4 DEF LoaderInv, TurnsInv, InnerBusy, QueueInv, PlainInv
<1>7. PointersInv'
  BY <1>1, <1>4, PointersStay DEF LoaderInv, PointersInv
<1>8. ScanInv'
  <2>1. ASSUME NEW i \in DOMAIN apk, NEW u \in DOMAIN Objects, Frame(i, u), Objects[u].elf,
               \A j \in DOMAIN apk : LeadsToElf(j) => j = i
        PROVE  found' = u /\ image'["payload"].len = Objects[u].len
    <3>1. scan = i
      BY <1>1, <2>1
    <3>2. o = u
      BY <2>1, <3>1, FrameIsTaken DEF o, LoaderInv, LoaderTypes
    <3> QED
      BY <1>1, <1>2, <1>3, <2>1, <3>1, <3>2 DEF Frame
  <2> QED
    BY <1>1, <2>1 DEF ScanInv, PackedIsFound, Frame, LeadsToElf
<1> QED
  BY <1>3, <1>5, <1>6, <1>7, <1>8 DEF LoaderInv

LEMMA ScanEndKeeps == LoaderInv /\ ScanEnd => LoaderInv'
<1> SUFFICES ASSUME LoaderInv, ScanEnd
             PROVE  LoaderInv'
  OBVIOUS
<1>1. LinkerInv' /\ UNCHANGED <<imageVars, apk, enc, scan, found, plain, queue, inner, handle, ptr, via, calls>>
  BY LinkerStays DEF LoaderInv, ScanEnd, linkerVars
<1>2. LoaderTypes' /\ TurnsInv' /\ QueueInv' /\ PlainInv'
  BY <1>1 DEF LoaderInv, ScanEnd, LoaderTypes, Steps, TurnsInv, InnerBusy, QueueInv, PlainInv, linkerVars, imageVars
<1>3. PointersInv'
  BY <1>1, PointersStay, OnLoadStays DEF LoaderInv, ScanEnd, PointersInv, linkerVars, imageVars
<1>4. ScanInv'
  BY <1>1, FoundStays DEF LoaderInv, ScanEnd, ScanInv
<1> QED
  BY <1>1, <1>2, <1>3, <1>4 DEF LoaderInv

LEMMA LinkPayloadKeeps == LoaderInv /\ LinkPayload => LoaderInv'
<1> SUFFICES ASSUME LoaderInv, LinkPayload
             PROVE  LoaderInv'
  OBVIOUS
<1>1. /\ LinkerInv' /\ Elsewhere("payload") /\ image' = image /\ UNCHANGED loaderVars
      /\ phase'["payload"] \in {"load", "parse", "relocate", "open", "failed"} /\ step = "link"
  BY LinkerStepKeeps, LibsAre DEF LinkPayload, LoaderInv
<1>2. /\ image'["inner"] = image["inner"] /\ phase'["inner"] = phase["inner"] /\ info'["inner"] = info["inner"]
  BY <1>1, LibsAre DEF Elsewhere
<1>3. LoaderTypes' /\ TurnsInv' /\ QueueInv' /\ PlainInv'
  BY <1>1, <1>2 DEF LoaderInv, LoaderTypes, Steps, TurnsInv, InnerBusy, QueueInv, PlainInv, loaderVars
<1>4. PointersInv'
  BY <1>1, <1>2, PointersStay DEF LoaderInv, PointersInv, loaderVars
<1>5. ScanInv'
  BY <1>1, FoundStays DEF LoaderInv, ScanInv, loaderVars
<1> QED
  BY <1>1, <1>3, <1>4, <1>5 DEF LoaderInv

LEMMA LinkFailedKeeps == LoaderInv /\ LinkFailed => LoaderInv'
<1> SUFFICES ASSUME LoaderInv, LinkFailed
             PROVE  LoaderInv'
  OBVIOUS
<1>1. LinkerInv' /\ UNCHANGED <<imageVars, apk, enc, scan, found, plain, queue, inner, handle, ptr, via, calls>>
  BY LinkerStays DEF LoaderInv, LinkFailed, linkerVars
<1>2. LoaderTypes' /\ TurnsInv' /\ QueueInv' /\ PlainInv'
  BY <1>1 DEF LoaderInv, LinkFailed, LoaderTypes, Steps, TurnsInv, InnerBusy, QueueInv, PlainInv, linkerVars, imageVars
<1>3. PointersInv'
  BY <1>1, PointersStay DEF LoaderInv, LinkFailed, PointersInv, linkerVars, imageVars
<1>4. ScanInv'
  BY <1>1, FoundStays DEF LoaderInv, LinkFailed, ScanInv, linkerVars, imageVars
<1> QED
  BY <1>1, <1>2, <1>3, <1>4 DEF LoaderInv

LEMMA StartConstructorsKeeps == LoaderInv /\ StartConstructors => LoaderInv'
<1> SUFFICES ASSUME LoaderInv, StartConstructors
             PROVE  LoaderInv'
  OBVIOUS
<1>1. /\ LinkerInv' /\ UNCHANGED <<imageVars, apk, enc, scan, found, plain, inner, handle, ptr, via, calls>>
      /\ step = "link" /\ step' = "ctors" /\ phase["payload"] = "open"
      /\ queue' = [queue EXCEPT !["payload"] = Constructors("payload")]
  BY LinkerStays DEF LoaderInv, StartConstructors, linkerVars
<1>2. LoaderTypes' /\ TurnsInv' /\ PlainInv'
  BY <1>1 DEF LoaderInv, LoaderTypes, Steps, TurnsInv, InnerBusy, PlainInv, linkerVars, imageVars
<1>3. QueueInv'
  <2>1. Constructors("payload") \in Seq(Ctors(image["payload"]))
    BY <1>1, ConstructorsAreFunctions, LibsAre DEF LoaderInv
  <2>2. queue'["payload"] = Constructors("payload") /\ queue'["inner"] = queue["inner"]
    BY <1>1, LibsAre DEF LoaderInv, LoaderTypes
  <2> QED
    BY <1>1, <2>1, <2>2 DEF LoaderInv, QueueInv, linkerVars, imageVars
<1>4. PointersInv'
  BY <1>1, PointersStay DEF LoaderInv, PointersInv, linkerVars, imageVars
<1>5. ScanInv'
  BY <1>1, FoundStays DEF LoaderInv, ScanInv, linkerVars, imageVars
<1> QED
  BY <1>1, <1>2, <1>3, <1>4, <1>5 DEF LoaderInv

LEMMA RunConstructorKeeps == LoaderInv /\ RunConstructor => LoaderInv'
<1> SUFFICES ASSUME LoaderInv, RunConstructor
             PROVE  LoaderInv'
  OBVIOUS
<1>1. /\ LinkerInv' /\ UNCHANGED <<imageVars, apk, enc, step, scan, found, plain, handle, ptr, via>>
      /\ step = "ctors" /\ inner' \in {inner, "decrypt"} /\ ~InnerBusy
      /\ queue["payload"] # <<>> /\ queue' = [queue EXCEPT !["payload"] = Tail(@)]
  BY LinkerStays DEF LoaderInv, RunConstructor
<1>2. LoaderTypes' /\ TurnsInv' /\ PlainInv'
  BY <1>1 DEF LoaderInv, LoaderTypes, Steps, TurnsInv, InnerBusy, PlainInv, linkerVars, imageVars
<1>3. QueueInv'
  <2> DEFINE Q == Ctors(image["payload"])
             q == queue["payload"]
  <2>1. q \in Seq(Q)
    BY <1>1 DEF LoaderInv, QueueInv
  <2>2. Tail(q) \in Seq(Q)
    <3> HIDE DEF Q, q
    <3>1. q # <<>>
      BY <1>1 DEF q
    <3> QED
      BY <2>1, <3>1, HeadTailProperties
  <2>3. queue'["payload"] = Tail(q) /\ queue'["inner"] = queue["inner"]
    BY <1>1, LibsAre DEF LoaderInv, LoaderTypes
  <2>4. inner' # "ctors"
    BY <1>1 DEF InnerBusy
  <2> QED
    BY <1>1, <2>2, <2>3, <2>4 DEF QueueInv, linkerVars, imageVars
<1>4. PointersInv'
  BY <1>1, PointersStay DEF LoaderInv, PointersInv, InnerBusy, linkerVars, imageVars
<1>5. ScanInv'
  BY <1>1, FoundStays DEF LoaderInv, ScanInv, linkerVars, imageVars
<1> QED
  BY <1>1, <1>2, <1>3, <1>4, <1>5 DEF LoaderInv

LEMMA AfterConstructorsKeeps == LoaderInv /\ AfterConstructors => LoaderInv'
<1> SUFFICES ASSUME LoaderInv, AfterConstructors
             PROVE  LoaderInv'
  OBVIOUS
<1>1. /\ UNCHANGED <<apk, enc, scan, found, plain, queue, inner, handle, ptr>>
      /\ step = "ctors" /\ ~InnerBusy /\ phase["payload"] = "open"
  BY DEF AfterConstructors, LoaderInv, TurnsInv
<1>2. \/ /\ step' = "run" /\ via' = "cl" /\ phase'["payload"] = "open" /\ info'["payload"] = info["payload"]
         /\ DlSym("payload", "JNI_OnLoad") # NotFound
      \/ step' = "memfd" /\ via' = via
  BY <1>1 DEF AfterConstructors, linkerVars, imageVars
<1>3. LinkerInv' /\ Elsewhere("payload") /\ image'["payload"] = image["payload"]
  <2>1. \/ UNCHANGED imageVars
        \/ DlClose("payload")
    BY DEF AfterConstructors
  <2> QED
    BY <1>1, <2>1, LinkerStays, DlCloseKeeps, LibsAre DEF LoaderInv, linkerVars, imageVars
<1>4. /\ image'["inner"] = image["inner"] /\ phase'["inner"] = phase["inner"] /\ info'["inner"] = info["inner"]
  BY <1>3, LibsAre DEF Elsewhere
<1>5. LoaderTypes' /\ TurnsInv' /\ QueueInv' /\ PlainInv'
  BY <1>1, <1>2, <1>3, <1>4 DEF LoaderInv, LoaderTypes, Steps, TurnsInv, InnerBusy, QueueInv, PlainInv
<1>6. PointersInv'
  <2>1. step' = "run" /\ via' = "cl" => DlSym("payload", "JNI_OnLoad")' # NotFound
    BY <1>2, <1>3, DlSymStays
  <2> QED
    BY <1>1, <1>4, <2>1, PointersStay DEF LoaderInv, PointersInv
<1>7. ScanInv'
  BY <1>1, <1>2, <1>3, FoundStays DEF LoaderInv, ScanInv
<1> QED
  BY <1>3, <1>5, <1>6, <1>7 DEF LoaderInv

\* What a second copy of the payload loads has an image of its own.
LEMMA LoadSoFromMemKeeps == LoaderInv /\ LoadSoFromMem => LoaderInv'
<1> SUFFICES ASSUME LoaderInv, LoadSoFromMem
             PROVE  LoaderInv'
  OBVIOUS
<1>1. UNCHANGED <<apk, enc, scan, found, queue, via, calls>> /\ step = "memfd"
  BY DEF LoadSoFromMem
<1>2. CASE step' = "done" /\ plain' = plain \ {"so"} /\ UNCHANGED <<imageVars, inner, handle, ptr>>
  <2>1. LinkerInv'
    BY <1>2, LinkerStays DEF LoaderInv
  <2>2. LoaderTypes' /\ TurnsInv' /\ QueueInv' /\ PlainInv'
    BY <1>1, <1>2 DEF LoaderInv, LoaderTypes, Steps, TurnsInv, InnerBusy, QueueInv, PlainInv, linkerVars, imageVars
  <2>3. PointersInv'
    BY <1>1, <1>2, PointersStay DEF LoaderInv, PointersInv, linkerVars, imageVars
  <2>4. ScanInv'
    BY <1>1, <1>2, FoundStays DEF LoaderInv, ScanInv, linkerVars, imageVars
  <2> QED
    BY <2>1, <2>2, <2>3, <2>4 DEF LoaderInv
<1>3. CASE /\ step' = "system" /\ inner' = "decrypt" /\ handle' = FALSE
           /\ ptr' = [n \in InnerNames |-> NotFound]
           /\ phase' = [phase EXCEPT !["inner"] = "none"]
           /\ area' = [area EXCEPT !["inner"] = NoArea]
           /\ memory' = [memory EXCEPT !["inner"] = NoArea]
           /\ UNCHANGED <<plain, image, pos, info, refused>>
  <2>1. /\ Elsewhere("inner") /\ SameDomains /\ pos'["inner"] \in Nat
        /\ phase'["inner"] = "none" /\ area'["inner"] = NoArea /\ memory'["inner"] = NoArea
    BY <1>3, LibsAre DEF LoaderInv, LinkerInv, Elsewhere, SameDomains, Phases
  <2>2. IsSound("inner")'
    <3>1. refused'["inner"] \in BOOLEAN
      BY <1>3, LibsAre DEF LoaderInv, LinkerInv
    <3> QED
      BY <2>1, <3>1, NothingIsSound DEF IsSound
  <2>3. LinkerInv'
    BY <2>1, <2>2, OneAtATime, LibsAre DEF LoaderInv
  <2>4. LoaderTypes' /\ TurnsInv' /\ QueueInv' /\ PlainInv'
    BY <1>1, <1>3 DEF LoaderInv, LoaderTypes, Steps, TurnsInv, InnerBusy, QueueInv, PlainInv
  <2>5. PointersInv'
    BY <1>3 DEF PointersInv
  <2>6. ScanInv'
    BY <1>1, <1>3, FoundStays DEF LoaderInv, ScanInv
  <2> QED
    BY <2>3, <2>4, <2>5, <2>6 DEF LoaderInv
<1> QED
  BY <1>2, <1>3 DEF LoadSoFromMem, linkerVars

LEMMA AfterSystemKeeps == LoaderInv /\ AfterSystem => LoaderInv'
<1> SUFFICES ASSUME LoaderInv, AfterSystem
             PROVE  LoaderInv'
  OBVIOUS
<1>1. /\ LinkerInv' /\ UNCHANGED <<imageVars, apk, enc, scan, found, queue, inner, handle, ptr, calls>>
      /\ step = "system" /\ ~InnerBusy
      /\ \/ step' = "run" /\ via' = "memfd" /\ plain' = plain
         \/ step' = "done" /\ via' = via /\ plain' = plain \ {"so"}
  BY LinkerStays DEF LoaderInv, AfterSystem, linkerVars
<1>2. LoaderTypes' /\ TurnsInv' /\ QueueInv' /\ PlainInv'
  BY <1>1 DEF LoaderInv, LoaderTypes, Steps, TurnsInv, InnerBusy, QueueInv, PlainInv, linkerVars, imageVars
<1>3. PointersInv'
  BY <1>1, PointersStay DEF LoaderInv, PointersInv, linkerVars, imageVars
<1>4. ScanInv'
  BY <1>1, FoundStays DEF LoaderInv, ScanInv, linkerVars, imageVars
<1> QED
  BY <1>1, <1>2, <1>3, <1>4 DEF LoaderInv

LEMMA RunOnLoadKeeps == LoaderInv /\ RunOnLoad => LoaderInv'
<1> SUFFICES ASSUME LoaderInv, RunOnLoad
             PROVE  LoaderInv'
  OBVIOUS
<1>1. /\ LinkerInv' /\ UNCHANGED <<imageVars, apk, enc, scan, found, queue, inner, handle, ptr, via>>
      /\ step = "run" /\ step' = "erase" /\ plain' = plain \ {"so"}
  BY LinkerStays DEF LoaderInv, RunOnLoad
<1>2. LoaderTypes' /\ TurnsInv' /\ QueueInv' /\ PlainInv'
  BY <1>1 DEF LoaderInv, LoaderTypes, Steps, TurnsInv, InnerBusy, QueueInv, PlainInv, linkerVars, imageVars
<1>3. PointersInv'
  BY <1>1, PointersStay DEF LoaderInv, PointersInv, linkerVars, imageVars
<1>4. ScanInv'
  BY <1>1, FoundStays DEF LoaderInv, ScanInv, linkerVars, imageVars
<1> QED
  BY <1>1, <1>2, <1>3, <1>4 DEF LoaderInv

\* The head of an image holds nothing that is called: it is read only, and
\* whatever is refused its page gets no right that it did not ask for.
LEMMA ErasedIsSound ==
  ASSUME NEW img, NEW n, NEW ar, NEW mem, NEW inf, NEW ref, Sound(img, "open", n, ar, mem, inf, ref),
         NEW prot \in SUBSET {"r", "w", "x"}, NEW ref2 \in BOOLEAN, ref => ref2, ~ref2 => prot = {"r"},
         {"w", "x"} \subseteq prot => prot = ar[0]
  PROVE  Sound(img, "open", n, [ar EXCEPT ![0] = prot], [mem EXCEPT ![0] = Erased], inf, ref2)
<1> DEFINE ar2 == [ar EXCEPT ![0] = prot]
           mem2 == [mem EXCEPT ![0] = Erased]
<1>1. /\ ar \in [DOMAIN ar -> SUBSET {"r", "w", "x"}] /\ DOMAIN mem \subseteq WordsOf(DOMAIN ar)
      /\ img \in Images /\ OpenAs(img, ar, mem, ref) /\ n \in Nat /\ inf = Parsed(img)
      /\ \A p \in DOMAIN ar : {"w", "x"} \subseteq ar[p] =>
           \E i \in LoadsOf(img) : p \in PagesOf(img.ph[i]) /\ img.ph[i].flags = ar[p]
  BY DEF Sound
<1>2. /\ DOMAIN ar2 = DOMAIN ar /\ DOMAIN mem2 = DOMAIN mem
      /\ \A p \in DOMAIN ar : ar2[p] = IF p = 0 THEN prot ELSE ar[p]
      /\ \A w \in DOMAIN mem : mem2[w] = IF w = 0 THEN Erased ELSE mem[w]
  OBVIOUS
<1>3. ar2 \in [DOMAIN ar2 -> SUBSET {"r", "w", "x"}]
  BY <1>1
<1>4. \A i \in LoadsOf(img) : 0 \in PagesOf(img.ph[i]) => img.ph[i].flags = {"r"}
  BY <1>1, ImageShape DEF WellLinked
<1> HIDE DEF ar2, mem2
<1>5. OpenAs(img, ar2, mem2, ref2)
  BY <1>1, <1>2, <1>4 DEF OpenAs
<1>6. \A p \in DOMAIN ar2 : {"w", "x"} \subseteq ar2[p] =>
        \E i \in LoadsOf(img) : p \in PagesOf(img.ph[i]) /\ img.ph[i].flags = ar2[p]
  BY <1>1, <1>2
<1>7. Sound(img, "open", n, ar2, mem2, inf, ref2)
  BY <1>1, <1>2, <1>3, <1>5, <1>6 DEF Sound, Phases
<1> QED
  BY <1>7 DEF ar2, mem2

\* A fault leaves the image as it is.
LEMMA RefusedIsSound ==
  ASSUME NEW img, NEW n, NEW ar, NEW mem, NEW inf, NEW ref, Sound(img, "open", n, ar, mem, inf, ref),
         NEW ref2 \in BOOLEAN, ref => ref2
  PROVE  Sound(img, "open", n, ar, mem, inf, ref2)
BY DEF Sound, OpenAs

\* The head is mapped as long as the image is open.
LEMMA HeadIsMapped ==
  ASSUME LinkerInv, NEW lib \in Libs, phase[lib] = "open"
  PROVE  0 \in DOMAIN area[lib] /\ area[lib][0] \in SUBSET {"r", "w", "x"}
<1>1. \E i \in LoadsOf(image[lib]) : 0 \in PagesOf(image[lib].ph[i])
  BY OpenImage, ImageShape DEF WellLinked
<1>2. area[lib] \in [DOMAIN area[lib] -> SUBSET {"r", "w", "x"}]
  BY DEF LinkerInv, IsSound, Sound
<1> QED
  BY <1>1, <1>2, OpenImage DEF OpenAs

LEMMA EraseHeaderKeeps == LoaderInv /\ EraseHeader => LoaderInv'
<1> SUFFICES ASSUME LoaderInv, EraseHeader
             PROVE  LoaderInv'
  OBVIOUS
<1>1. /\ UNCHANGED <<apk, enc, scan, found, plain, queue, inner, handle, ptr, via, calls>>
      /\ step = "erase" /\ step' = "done"
  BY DEF EraseHeader
<1>2. LinkerInv' /\ UNCHANGED <<image, phase, pos, info>>
  <2>1. CASE via = "cl"
    <3> DEFINE ar == area["payload"]
               mem == memory["payload"]
    <3>1. PICK kept \in SUBSET {"open", "close"} :
            LET opened == IF "open" \in kept THEN ar[0] ELSE {"r", "w"}
            IN  /\ Unless(kept # {}, "payload")
                /\ IF "w" \in opened
                   THEN
                     /\ memory' = [memory EXCEPT !["payload"] = [@ EXCEPT ![0] = Erased]]
                     /\ area' = [area EXCEPT !["payload"] =
                                   [@ EXCEPT ![0] = IF "close" \in kept THEN opened ELSE {"r"}]]
                     /\ UNCHANGED <<image, phase, pos, info, faulted>>
                   ELSE Fault
      BY <2>1 DEF EraseHeader
    <3> DEFINE opened == IF "open" \in kept THEN ar[0] ELSE {"r", "w"}
               prot == IF "close" \in kept THEN opened ELSE {"r"}
    <3>2. DOMAIN memory = Libs /\ DOMAIN area = Libs /\ refused \in [Libs -> BOOLEAN] /\ "payload" \in Libs
      BY LibsAre DEF LoaderInv, LinkerInv
    <3>3. refused' = [refused EXCEPT !["payload"] = @ \/ kept # {}]
      BY <3>1 DEF Unless
    <3>4. /\ refused'["payload"] \in BOOLEAN /\ (refused["payload"] => refused'["payload"])
          /\ (~refused'["payload"] => kept = {})
      BY <3>2, <3>3
    <3>5. Sound(image["payload"], "open", pos["payload"], ar, mem, info["payload"], refused["payload"])
          /\ phase["payload"] = "open"
      BY <1>1, <2>1, <3>2 DEF LoaderInv, TurnsInv, LinkerInv, IsSound
    <3>6. ar[0] \in SUBSET {"r", "w", "x"}
      BY <3>2, <3>5, HeadIsMapped DEF LoaderInv
    <3>7. UNCHANGED <<image, phase, pos, info>> /\ Elsewhere("payload") /\ SameDomains
      BY <3>1, <3>2, <3>3 DEF Elsewhere, SameDomains, LoaderInv, LinkerInv, Fault
    <3>8. CASE "w" \in opened
      <4>1. /\ memory' = [memory EXCEPT !["payload"] = [@ EXCEPT ![0] = Erased]]
            /\ area' = [area EXCEPT !["payload"] = [@ EXCEPT ![0] = prot]]
        BY <3>1, <3>8
      <4>2. memory'["payload"] = [mem EXCEPT ![0] = Erased]
        BY <3>2, <4>1
      <4>3. area'["payload"] = [ar EXCEPT ![0] = prot]
        BY <3>2, <4>1
      <4>4. /\ prot \in SUBSET {"r", "w", "x"} /\ (kept = {} => prot = {"r"})
            /\ ({"w", "x"} \subseteq prot => prot = ar[0])
        BY <3>6
      <4> HIDE DEF ar, mem, prot
      <4> QED
        BY <3>4, <3>5, <3>7, <4>2, <4>3, <4>4, ErasedIsSound, OneAtATime, LibsAre DEF IsSound, LoaderInv
    <3>9. CASE "w" \notin opened
      <4>1. UNCHANGED <<memory, area>>
        BY <3>1, <3>9 DEF Fault
      <4> QED
        BY <3>4, <3>5, <3>7, <4>1, RefusedIsSound, OneAtATime, LibsAre DEF IsSound, LoaderInv
    <3> QED
      BY <3>8, <3>9
  <2>2. CASE via # "cl"
    BY <2>2, LinkerStays DEF EraseHeader, LoaderInv, linkerVars, imageVars
  <2> QED
    BY <2>1, <2>2
<1>3. LoaderTypes' /\ TurnsInv' /\ QueueInv' /\ PlainInv'
  BY <1>1, <1>2 DEF LoaderInv, LoaderTypes, Steps, TurnsInv, InnerBusy, QueueInv, PlainInv
<1>4. PointersInv'
  BY <1>1, <1>2, PointersStay DEF LoaderInv, PointersInv
<1>5. ScanInv'
  BY <1>1, FoundStays DEF LoaderInv, ScanInv
<1> QED
  BY <1>2, <1>3, <1>4, <1>5 DEF LoaderInv

LEMMA InnerDecryptKeeps == LoaderInv /\ InnerDecrypt => LoaderInv'
<1> SUFFICES ASSUME LoaderInv, InnerDecrypt
             PROVE  LoaderInv'
  OBVIOUS
<1>1. /\ UNCHANGED <<apk, enc, step, scan, found, queue, handle, ptr, via, calls>>
      /\ inner = "decrypt"
  BY DEF InnerDecrypt
<1>2. CASE inner' = "failed" /\ UNCHANGED <<imageVars, plain>>
  <2>1. LinkerInv'
    BY <1>2, LinkerStays DEF LoaderInv
  <2>2. LoaderTypes' /\ TurnsInv' /\ QueueInv' /\ PlainInv'
    BY <1>1, <1>2 DEF LoaderInv, LoaderTypes, Steps, TurnsInv, InnerBusy, QueueInv, PlainInv, linkerVars, imageVars
  <2>3. PointersInv'
    BY <1>1, <1>2, PointersStay, OnLoadStays DEF LoaderInv, PointersInv, linkerVars, imageVars
  <2>4. ScanInv'
    BY <1>1, <1>2, FoundStays DEF LoaderInv, ScanInv, linkerVars, imageVars
  <2> QED
    BY <2>1, <2>2, <2>3, <2>4 DEF LoaderInv
<1>3. CASE plain' = plain \cup {"inner"} /\ inner' = "link" /\ DlOpen("inner", enc)
  <2>1. enc \in Images
    <3>1. enc \in Inners
      BY DEF LoaderInv, LoaderTypes
    <3> QED
      BY <3>1 DEF Images
  <2>2. LinkerInv' /\ Elsewhere("inner")
    BY <1>3, <2>1, DlOpenKeeps, LibsAre DEF LoaderInv
  <2>3. /\ image'["payload"] = image["payload"] /\ phase'["payload"] = phase["payload"]
        /\ info'["payload"] = info["payload"]
    BY <2>2, LibsAre DEF Elsewhere
  <2>4. LoaderTypes' /\ TurnsInv' /\ QueueInv' /\ PlainInv'
    BY <1>1, <1>3, <2>3 DEF LoaderInv, LoaderTypes, Steps, TurnsInv, InnerBusy, QueueInv, PlainInv
  <2>5. PointersInv'
    BY <1>1, <1>3, <2>3, OnLoadStays DEF LoaderInv, PointersInv
  <2>6. ScanInv'
    BY <1>1, <2>3, FoundStays DEF LoaderInv, ScanInv
  <2> QED
    BY <2>2, <2>4, <2>5, <2>6 DEF LoaderInv
<1> QED
  BY <1>2, <1>3 DEF InnerDecrypt, linkerVars

LEMMA LinkInnerKeeps == LoaderInv /\ LinkInner => LoaderInv'
<1> SUFFICES ASSUME LoaderInv, LinkInner
             PROVE  LoaderInv'
  OBVIOUS
<1>1. LinkerInv' /\ Elsewhere("inner") /\ image' = image /\ UNCHANGED loaderVars /\ inner = "link"
  BY LinkerStepKeeps, LibsAre DEF LinkInner, LoaderInv
<1>2. /\ image'["payload"] = image["payload"] /\ phase'["payload"] = phase["payload"]
      /\ info'["payload"] = info["payload"]
  BY <1>1, LibsAre DEF Elsewhere
<1>3. LoaderTypes' /\ TurnsInv' /\ QueueInv' /\ PlainInv'
  BY <1>1, <1>2 DEF LoaderInv, LoaderTypes, Steps, TurnsInv, InnerBusy, QueueInv, PlainInv, loaderVars
<1>4. PointersInv'
  BY <1>1, <1>2, OnLoadStays DEF LoaderInv, PointersInv, loaderVars
<1>5. ScanInv'
  BY <1>1, FoundStays DEF LoaderInv, ScanInv, loaderVars
<1> QED
  BY <1>1, <1>3, <1>4, <1>5 DEF LoaderInv

LEMMA InnerFailedKeeps == LoaderInv /\ InnerFailed => LoaderInv'
<1> SUFFICES ASSUME LoaderInv, InnerFailed
             PROVE  LoaderInv'
  OBVIOUS
<1>1. /\ LinkerInv' /\ UNCHANGED <<imageVars, apk, enc, step, scan, found, queue, ptr, via, calls>>
      /\ inner' = "failed" /\ handle' = FALSE /\ plain' = plain \ {"inner"}
  BY LinkerStays DEF LoaderInv, InnerFailed, linkerVars
<1>2. LoaderTypes' /\ TurnsInv' /\ QueueInv' /\ PlainInv'
  BY <1>1 DEF LoaderInv, LoaderTypes, Steps, TurnsInv, InnerBusy, QueueInv, PlainInv, linkerVars, imageVars
<1>3. PointersInv'
  BY <1>1, OnLoadStays DEF LoaderInv, PointersInv, linkerVars, imageVars
<1>4. ScanInv'
  BY <1>1, FoundStays DEF LoaderInv, ScanInv, linkerVars, imageVars
<1> QED
  BY <1>1, <1>2, <1>3, <1>4 DEF LoaderInv

LEMMA InnerConstructorsKeeps == LoaderInv /\ InnerConstructors => LoaderInv'
<1> SUFFICES ASSUME LoaderInv, InnerConstructors
             PROVE  LoaderInv'
  OBVIOUS
<1>1. /\ LinkerInv' /\ UNCHANGED <<imageVars, apk, enc, step, scan, found, plain, ptr, via, calls>>
      /\ inner = "link" /\ inner' = "ctors" /\ handle' = TRUE /\ phase["inner"] = "open"
      /\ queue' = [queue EXCEPT !["inner"] = Constructors("inner")]
  BY LinkerStays DEF LoaderInv, InnerConstructors, linkerVars
<1>2. LoaderTypes' /\ TurnsInv' /\ PlainInv'
  BY <1>1 DEF LoaderInv, LoaderTypes, Steps, TurnsInv, InnerBusy, PlainInv, linkerVars, imageVars
<1>3. QueueInv'
  <2>1. Constructors("inner") \in Seq(Ctors(image["inner"]))
    BY <1>1, ConstructorsAreFunctions, LibsAre DEF LoaderInv
  <2>2. queue'["inner"] = Constructors("inner") /\ queue'["payload"] = queue["payload"]
    BY <1>1, LibsAre DEF LoaderInv, LoaderTypes
  <2> QED
    BY <1>1, <2>1, <2>2 DEF LoaderInv, QueueInv, linkerVars, imageVars
<1>4. PointersInv'
  BY <1>1, OnLoadStays DEF LoaderInv, PointersInv, linkerVars, imageVars
<1>5. ScanInv'
  BY <1>1, FoundStays DEF LoaderInv, ScanInv, linkerVars, imageVars
<1> QED
  BY <1>1, <1>2, <1>3, <1>4, <1>5 DEF LoaderInv

LEMMA RunInnerConstructorKeeps == LoaderInv /\ RunInnerConstructor => LoaderInv'
<1> SUFFICES ASSUME LoaderInv, RunInnerConstructor
             PROVE  LoaderInv'
  OBVIOUS
<1>1. /\ LinkerInv' /\ UNCHANGED <<imageVars, apk, enc, step, scan, found, plain, inner, handle, ptr, via>>
      /\ inner = "ctors" /\ queue["inner"] # <<>> /\ queue' = [queue EXCEPT !["inner"] = Tail(@)]
  BY LinkerStays DEF LoaderInv, RunInnerConstructor
<1>2. LoaderTypes' /\ TurnsInv' /\ PlainInv'
  BY <1>1 DEF LoaderInv, LoaderTypes, Steps, TurnsInv, InnerBusy, PlainInv, linkerVars, imageVars
<1>3. QueueInv'
  <2> DEFINE Q == Ctors(image["inner"])
             q == queue["inner"]
  <2>1. q \in Seq(Q)
    BY <1>1 DEF LoaderInv, QueueInv
  <2>2. Tail(q) \in Seq(Q)
    <3> HIDE DEF Q, q
    <3>1. q # <<>>
      BY <1>1 DEF q
    <3> QED
      BY <2>1, <3>1, HeadTailProperties
  <2>3. queue'["inner"] = Tail(q) /\ queue'["payload"] = queue["payload"]
    BY <1>1, LibsAre DEF LoaderInv, LoaderTypes
  <2> QED
    BY <1>1, <2>2, <2>3 DEF LoaderInv, QueueInv, linkerVars, imageVars
<1>4. PointersInv'
  BY <1>1, PointersStay, OnLoadStays DEF LoaderInv, PointersInv, linkerVars, imageVars
<1>5. ScanInv'
  BY <1>1, FoundStays DEF LoaderInv, ScanInv, linkerVars, imageVars
<1> QED
  BY <1>1, <1>2, <1>3, <1>4, <1>5 DEF LoaderInv

LEMMA InnerBindKeeps == LoaderInv /\ InnerBind => LoaderInv'
<1> SUFFICES ASSUME LoaderInv, InnerBind
             PROVE  LoaderInv'
  OBVIOUS
<1>1. /\ UNCHANGED <<apk, enc, step, scan, found, queue, via>>
      /\ inner = "ctors" /\ phase["inner"] = "open" /\ plain' = plain \ {"inner"}
      /\ ptr' = [n \in InnerNames |-> DlSym("inner", n)]
  BY DEF InnerBind, LoaderInv, TurnsInv
<1>2. \/ inner' = "bound" /\ handle' = TRUE /\ UNCHANGED imageVars
      \/ inner' = "failed" /\ handle' = FALSE /\ DlClose("inner")
  BY DEF InnerBind
<1>3. LinkerInv' /\ Elsewhere("inner") /\ image'["inner"] = image["inner"]
  BY <1>1, <1>2, LinkerStays, DlCloseKeeps, LibsAre DEF LoaderInv, linkerVars, imageVars
<1>4. /\ image'["payload"] = image["payload"] /\ phase'["payload"] = phase["payload"]
      /\ info'["payload"] = info["payload"]
  BY <1>3, LibsAre DEF Elsewhere
<1>5. LoaderTypes' /\ TurnsInv' /\ QueueInv' /\ PlainInv'
  <2>1. DOMAIN ptr' = InnerNames
    BY <1>1
  <2> QED
    BY <1>1, <1>2, <1>4, <2>1 DEF LoaderInv, LoaderTypes, Steps, TurnsInv, InnerBusy, QueueInv, PlainInv
<1>6. PointersInv'
  <2>1. step' = "run" /\ via' = "cl" => DlSym("payload", "JNI_OnLoad")' # NotFound
    BY <1>1, <1>4, OnLoadStays DEF LoaderInv, PointersInv
  <2>2. handle' => phase'["inner"] = "open" /\ \A n \in InnerNames : ptr'[n] = DlSym("inner", n)'
    BY <1>1, <1>2, DlSymStays DEF linkerVars, imageVars
  <2> QED
    BY <2>1, <2>2 DEF PointersInv
<1>7. ScanInv'
  BY <1>1, <1>4, FoundStays DEF LoaderInv, ScanInv
<1> QED
  BY <1>3, <1>5, <1>6, <1>7 DEF LoaderInv

LEMMA UseInnerKeeps == LoaderInv /\ UseInner => LoaderInv'
<1> SUFFICES ASSUME LoaderInv, UseInner
             PROVE  LoaderInv'
  OBVIOUS
<1>1. LinkerInv' /\ UNCHANGED <<imageVars, apk, enc, step, scan, found, plain, queue, inner, handle, ptr, via>>
  BY LinkerStays DEF LoaderInv, UseInner
<1>2. LoaderTypes' /\ TurnsInv' /\ QueueInv' /\ PlainInv'
  BY <1>1 DEF LoaderInv, LoaderTypes, Steps, TurnsInv, InnerBusy, QueueInv, PlainInv, linkerVars, imageVars
<1>3. PointersInv'
  BY <1>1, PointersStay, OnLoadStays DEF LoaderInv, PointersInv, linkerVars, imageVars
<1>4. ScanInv'
  BY <1>1, FoundStays DEF LoaderInv, ScanInv, linkerVars, imageVars
<1> QED
  BY <1>1, <1>2, <1>3, <1>4 DEF LoaderInv

LEMMA StutterKeeps == LoaderInv /\ UNCHANGED nativeVars => LoaderInv'
<1> SUFFICES ASSUME LoaderInv, UNCHANGED nativeVars
             PROVE  LoaderInv'
  OBVIOUS
<1>1. LinkerInv' /\ UNCHANGED <<imageVars, apk, enc, step, scan, found, plain, queue, inner, handle, ptr, via>>
  BY LinkerStays DEF LoaderInv, nativeVars, loaderVars, linkerVars
<1>2. LoaderTypes' /\ TurnsInv' /\ QueueInv' /\ PlainInv'
  BY <1>1 DEF LoaderInv, LoaderTypes, Steps, TurnsInv, InnerBusy, QueueInv, PlainInv, linkerVars, imageVars
<1>3. PointersInv'
  BY <1>1, PointersStay, OnLoadStays DEF LoaderInv, PointersInv, linkerVars, imageVars
<1>4. ScanInv'
  BY <1>1, FoundStays DEF LoaderInv, ScanInv, linkerVars, imageVars
<1> QED
  BY <1>1, <1>2, <1>3, <1>4 DEF LoaderInv

LEMMA NextKeeps == LoaderInv /\ [LoaderNext]_nativeVars => LoaderInv'
<1> SUFFICES ASSUME LoaderInv, [LoaderNext]_nativeVars
             PROVE  LoaderInv'
  OBVIOUS
<1>1. CASE Bootstrap \/ ScanOn \/ ScanHit \/ ScanEnd
  BY <1>1, BootstrapKeeps, ScanOnKeeps, ScanHitKeeps, ScanEndKeeps
<1>2. CASE LinkPayload \/ LinkFailed \/ StartConstructors \/ RunConstructor \/ AfterConstructors
  BY <1>2, LinkPayloadKeeps, LinkFailedKeeps, StartConstructorsKeeps, RunConstructorKeeps, AfterConstructorsKeeps
<1>3. CASE LoadSoFromMem \/ AfterSystem \/ RunOnLoad \/ EraseHeader
  BY <1>3, LoadSoFromMemKeeps, AfterSystemKeeps, RunOnLoadKeeps, EraseHeaderKeeps
<1>4. CASE InnerDecrypt \/ LinkInner \/ InnerFailed \/ InnerConstructors \/ RunInnerConstructor \/ InnerBind
  BY <1>4, InnerDecryptKeeps, LinkInnerKeeps, InnerFailedKeeps, InnerConstructorsKeeps,
     RunInnerConstructorKeeps, InnerBindKeeps
<1>5. CASE UseInner
  BY <1>5, UseInnerKeeps
<1>6. CASE Done \/ UNCHANGED nativeVars
  BY <1>6, StutterKeeps DEF Done
<1> QED
  BY <1>1, <1>2, <1>3, <1>4, <1>5, <1>6 DEF LoaderNext, LoaderStep

\* A call, unless the entry is no function.
LEMMA OneCall ==
  ASSUME NEW lib, NEW f, NEW none, f \notin none => LandsIn(lib, f)
  PROVE  /\ CallOf(lib, f, none) \in Seq({<<lib, f>>})
         /\ \A c \in Range(CallOf(lib, f, none)) : c[1] = lib /\ LandsIn(c[1], c[2])
<1>1. CASE f \in none
  BY <1>1 DEF CallOf, Range
<1>2. CASE f \notin none
  <2>1. CallOf(lib, f, none) = <<(<<lib, f>>)>>
    BY <1>2 DEF CallOf
  <2> QED
    BY <1>2, <2>1 DEF Range
<1> QED
  BY <1>1, <1>2

LEMMA QueuedLands ==
  ASSUME LinkerInv, NEW lib \in Libs, phase[lib] = "open", NEW q \in Seq(Ctors(image[lib])), q # <<>>,
         Head(q) \notin NoFunction
  PROVE  LandsIn(lib, Head(q))
<1>1. Head(q) \in Ctors(image[lib])
  BY HeadTailProperties
<1> QED
  BY <1>1, LandsIsMapped DEF Ctors

Calling == RunConstructor \/ RunInnerConstructor \/ AfterConstructors \/ RunOnLoad \/ InnerBind \/ UseInner

\* What a step calls is of an image that is mapped.
Landing(cs) == \A c \in Range(cs) : c[1] \in Libs /\ LandsIn(c[1], c[2])

LEMMA OneLands ==
  ASSUME NEW lib \in Libs, NEW f, NEW none, f \notin none => LandsIn(lib, f), MakeCalls(CallOf(lib, f, none))
  PROVE  \E S : \E cs \in Seq(S) : MakeCalls(cs) /\ Landing(cs)
<1>1. CallOf(lib, f, none) \in Seq({<<lib, f>>}) /\ Landing(CallOf(lib, f, none))
  BY OneCall DEF Landing
<1> QED
  BY <1>1

LEMMA CallsOfStep ==
  ASSUME LoaderInv, Calling
  PROVE  (\E S : \E cs \in Seq(S) : MakeCalls(cs) /\ Landing(cs)) /\ refused' = refused
<1>1. CASE RunConstructor
  <2>1. Head(queue["payload"]) \notin NoFunction => LandsIn("payload", Head(queue["payload"]))
    BY <1>1, QueuedLands, LibsAre DEF RunConstructor, LoaderInv, TurnsInv, QueueInv
  <2>2. MakeCalls(CallOf("payload", Head(queue["payload"]), NoFunction)) /\ refused' = refused
    BY <1>1 DEF RunConstructor, imageVars
  <2> QED
    BY <2>1, <2>2, OneLands, LibsAre
<1>2. CASE RunInnerConstructor
  <2>1. Head(queue["inner"]) \notin NoFunction => LandsIn("inner", Head(queue["inner"]))
    BY <1>2, QueuedLands, LibsAre DEF RunInnerConstructor, LoaderInv, TurnsInv, QueueInv
  <2>2. MakeCalls(CallOf("inner", Head(queue["inner"]), NoFunction)) /\ refused' = refused
    BY <1>2 DEF RunInnerConstructor, imageVars
  <2> QED
    BY <2>1, <2>2, OneLands, LibsAre
<1>3. CASE AfterConstructors
  <2> DEFINE f == DlSym("payload", "self_integrity_set_cl_info")
             g == DlSym("payload", "self_verify_set_cl_info")
             u == CallOf("payload", f, {NotFound})
             v == CallOf("payload", g, {NotFound})
             S == {<<"payload", f>>, <<"payload", g>>}
  <2>1. phase["payload"] = "open" /\ MakeCalls(u \o v) /\ refused' = refused
    BY <1>3 DEF AfterConstructors, LoaderInv, TurnsInv, imageVars, DlClose
  <2>2. (f # NotFound => LandsIn("payload", f)) /\ (g # NotFound => LandsIn("payload", g))
    BY <2>1, DlSymIsMapped, LibsAre DEF LoaderInv, Called
  <2>3. /\ u \in Seq({<<"payload", f>>}) /\ v \in Seq({<<"payload", g>>})
        /\ \A c \in Range(u) \cup Range(v) : c[1] = "payload" /\ LandsIn(c[1], c[2])
    BY <2>2, OneCall
  <2>4. u \in Seq(S) /\ v \in Seq(S)
    <3>1. {<<"payload", f>>} \subseteq S /\ {<<"payload", g>>} \subseteq S
      OBVIOUS
    <3> HIDE DEF S, f, g, u, v
    <3> QED
      BY <2>3, <3>1, SeqMonotonic
  <2> HIDE DEF f, g, u, v, S
  <2>5. u \o v \in Seq(S) /\ Range(u \o v) \subseteq Range(u) \cup Range(v)
    BY <2>4, ConcatProperties, ConcatRange DEF Range
  <2> QED
    BY <2>1, <2>3, <2>5, LibsAre DEF Landing
<1>4. CASE RunOnLoad
  <2> DEFINE f == IF via = "cl" THEN DlSym("payload", "JNI_OnLoad") ELSE NotFound
  <2>1. f \notin {NotFound} => LandsIn("payload", f)
    BY <1>4, DlSymIsMapped, LibsAre DEF RunOnLoad, LoaderInv, TurnsInv, PointersInv, Called
  <2>2. MakeCalls(CallOf("payload", f, {NotFound})) /\ refused' = refused
    BY <1>4 DEF RunOnLoad, imageVars
  <2> HIDE DEF f
  <2> QED
    BY <2>1, <2>2, OneLands, LibsAre
<1>5. CASE InnerBind
  <2> DEFINE got == [n \in InnerNames |-> DlSym("inner", n)]
             whole == got["inner_get_version"] # NotFound /\ got["inner_verify_hash"] # NotFound
             f == IF whole THEN got["inner_get_version"] ELSE NotFound
  <2>1. phase["inner"] = "open" /\ MakeCalls(CallOf("inner", f, {NotFound})) /\ refused' = refused
    BY <1>5 DEF InnerBind, LoaderInv, TurnsInv, imageVars, DlClose
  <2>2. got["inner_get_version"] = DlSym("inner", "inner_get_version")
    BY DEF InnerNames
  <2>3. f \notin {NotFound} => LandsIn("inner", f)
    <3> HIDE DEF got
    <3> QED
      BY <2>1, <2>2, DlSymIsMapped, LibsAre DEF LoaderInv, Called, InnerNames
  <2> HIDE DEF f
  <2> QED
    BY <2>1, <2>3, OneLands, LibsAre
<1>6. CASE UseInner
  <2>1. PICK n \in {"inner_verify_hash", "inner_env_check"} :
          Callable(n) /\ MakeCalls(<<(<<"inner", ptr[n]>>)>>)
    BY <1>6 DEF UseInner
  <2>2. inner \notin {"link", "ctors"}
    BY <1>6 DEF UseInner, LoaderInv, TurnsInv, InnerBusy
  <2>3. phase["inner"] = "open" /\ ptr[n] = DlSym("inner", n) /\ ptr[n] # NotFound
    BY <2>1, <2>2 DEF Callable, LoaderInv, PointersInv, InnerNames
  <2>4. LandsIn("inner", ptr[n])
    BY <2>3, DlSymIsMapped, LibsAre DEF LoaderInv, Called, InnerNames
  <2>5. MakeCalls(CallOf("inner", ptr[n], {NotFound})) /\ refused' = refused
    BY <1>6, <2>1, <2>3 DEF CallOf, UseInner, imageVars
  <2> QED
    BY <2>4, <2>5, OneLands, LibsAre
<1> QED
  BY <1>1, <1>2, <1>3, <1>4, <1>5, <1>6 DEF Calling

\* The other steps call nothing.
LEMMA SilentSteps ==
  ASSUME [LoaderNext]_nativeVars, ~Calling
  PROVE  calls' = calls
BY DEF LoaderNext, LoaderStep, Calling, nativeVars, loaderVars, Bootstrap, ScanOn, ScanHit, ScanEnd, LinkPayload,
       LinkFailed, StartConstructors, LoadSoFromMem, AfterSystem, EraseHeader, InnerDecrypt, LinkInner,
       InnerFailed, InnerConstructors, Done

\* Whatever a step calls lies in code that is mapped.
LEMMA StepCallsLand ==
  ASSUME LoaderInv, calls \in Seq(Range(calls)), [LoaderNext]_nativeVars
  PROVE  calls' \in Seq(Range(calls')) /\ \A i \in Len(calls) + 1 .. Len(calls') : LandsIn(calls'[i][1], calls'[i][2])
<1>1. CASE Calling
  <2>1. PICK S : \E cs \in Seq(S) : MakeCalls(cs) /\ Landing(cs)
    BY <1>1, CallsOfStep
  <2>2. PICK cs \in Seq(S) : MakeCalls(cs) /\ Landing(cs)
    BY <2>1
  <2>3. calls' = calls \o cs
    BY <2>2 DEF MakeCalls
  <2> QED
    BY <2>2, <2>3, MoreCalls DEF Landing
<1>2. CASE ~Calling
  <2>1. calls' = calls /\ Len(calls) \in Nat
    BY <1>2, SilentSteps
  <2> QED
    BY <2>1
<1> QED
  BY <1>1, <1>2

-----------------------------------------------------------------------------
(* A fault has a call that was refused behind it *)

FaultInv == faulted \in BOOLEAN /\ FaultIsRefused

\* A call that lands in a page that may not be executed: that page was refused.
LEMMA CallsFault ==
  ASSUME LoaderInv, Calling
  PROVE  FaultInv'
<1>1. PICK S : \E cs \in Seq(S) : MakeCalls(cs) /\ Landing(cs)
  BY CallsOfStep
<1>2. PICK cs \in Seq(S) : MakeCalls(cs) /\ Landing(cs)
  BY <1>1
<1>3. faulted' = (\E c \in Range(cs) : ~Executes(c[1], c[2])) /\ refused' = refused
  BY <1>2, CallsOfStep DEF MakeCalls
<1>4. \A c \in Range(cs) : ~Executes(c[1], c[2]) => c[1] \in Libs /\ refused[c[1]]
  BY <1>2 DEF Landing, LandsIn, Executes
<1> QED
  BY <1>3, <1>4 DEF FaultInv, FaultIsRefused

LEMMA EraseFaults ==
  ASSUME LoaderInv, ~faulted, EraseHeader, faulted'
  PROVE  refused'["payload"]
<1>1. refused \in [Libs -> BOOLEAN] /\ "payload" \in Libs
  BY LibsAre DEF LoaderInv, LinkerInv
<1>2. PICK kept \in SUBSET {"open", "close"} :
        "open" \in kept /\ Unless(kept # {}, "payload")
  BY DEF EraseHeader, linkerVars
<1> QED
  BY <1>1, <1>2 DEF Unless

LEMMA LinkerBoolean ==
  ASSUME NEW lib, LinkerStep(lib), faulted \in BOOLEAN
  PROVE  faulted' \in BOOLEAN
BY DEF LinkerStep, LoadSegment, ParseDynamic, OpenArea, RelocateOne, ProtectSegments, GiveUp, MapSegment, MissSegment, Fault

LEMMA StepFaults ==
  ASSUME LoaderInv, FaultInv, [LoaderNext]_nativeVars
  PROVE  FaultInv'
<1>1. CASE ~faulted /\ LoaderStep
  <2>1. CASE Calling
    BY <2>1, CallsFault
  <2>2. CASE LinkPayload
    <3>1. LinkerStep("payload") /\ "payload" \in Libs
      BY <2>2, LibsAre DEF LinkPayload
    <3>2. faulted' \in BOOLEAN /\ (faulted' => refused'["payload"])
      BY <1>1, <3>1, LinkerFaults, LinkerBoolean DEF LoaderInv, FaultInv
    <3> QED
      BY <3>1, <3>2 DEF FaultInv, FaultIsRefused
  <2>3. CASE LinkInner
    <3>1. LinkerStep("inner") /\ "inner" \in Libs
      BY <2>3, LibsAre DEF LinkInner
    <3>2. faulted' \in BOOLEAN /\ (faulted' => refused'["inner"])
      BY <1>1, <3>1, LinkerFaults, LinkerBoolean DEF LoaderInv, FaultInv
    <3> QED
      BY <3>1, <3>2 DEF FaultInv, FaultIsRefused
  <2>4. CASE EraseHeader
    <3>1. faulted' \in BOOLEAN
      BY <2>4 DEF EraseHeader, Fault, linkerVars, FaultInv
    <3>2. faulted' => refused'["payload"]
      BY <1>1, <2>4, EraseFaults
    <3> QED
      BY <3>1, <3>2, LibsAre DEF FaultInv, FaultIsRefused
  <2>5. CASE /\ ~Calling /\ ~LinkPayload /\ ~LinkInner /\ ~EraseHeader
    <3>1. faulted' = faulted
      BY <1>1, <2>5 DEF LoaderStep, Calling, Bootstrap, ScanOn, ScanHit, ScanEnd, LinkFailed, StartConstructors,
         LoadSoFromMem, AfterSystem, InnerDecrypt, InnerFailed, InnerConstructors, DlOpen, linkerVars
    <3> QED
      BY <1>1, <3>1 DEF FaultInv, FaultIsRefused
  <2> QED
    BY <2>1, <2>2, <2>3, <2>4, <2>5
<1>2. CASE Done \/ UNCHANGED nativeVars
  BY <1>2 DEF Done, nativeVars, linkerVars, imageVars, FaultInv, FaultIsRefused
<1> QED
  BY <1>1, <1>2 DEF LoaderNext

-----------------------------------------------------------------------------
(* The theorems *)

LEMMA InvImplies ==
  ASSUME LoaderInv, FaultInv
  PROVE  ImagesAreSound /\ PlainIsWiped /\ PackedIsFound
<1>1. LoaderTypeOK
  BY DEF LoaderInv, FaultInv, LoaderTypes, LoaderTypeOK, LinkerInv, IsSound, Sound
<1>2. WriteXorExec
  BY DEF WriteXorExec, LoaderInv, LinkerInv, IsSound, Sound
<1>3. FailureUnmaps
  BY DEF FailureUnmaps, LoaderInv, LinkerInv, IsSound, Sound
<1>4. LinkedAsWanted
  BY OpenImage DEF LinkedAsWanted, LoaderInv, OpenAs
<1>5. PlainIsWiped
  BY DEF PlainIsWiped, LoaderInv, LoaderTypes, TurnsInv, PlainInv, InnerBusy
<1> QED
  BY <1>1, <1>2, <1>3, <1>4, <1>5 DEF LoaderInv, FaultInv, ImagesAreSound, ScanInv

NativeInv == LoaderInv /\ FaultInv /\ calls \in Seq(Range(calls))

LEMMA NativeInvariant == LoaderSpec => []NativeInv
<1>1. LoaderInit => NativeInv
  <2>1. LoaderInit => calls \in Seq(Range(calls))
    BY DEF LoaderInit
  <2>2. LoaderInit => FaultInv
    BY DEF LoaderInit, LinkerInit, FaultInv, FaultIsRefused
  <2> QED
    BY <2>1, <2>2, LoaderInitInv DEF NativeInv
<1>2. NativeInv /\ [LoaderNext]_nativeVars => NativeInv'
  BY NextKeeps, StepCallsLand, StepFaults DEF NativeInv
<1> QED
  BY <1>1, <1>2, PTL DEF LoaderSpec

\* The linker of custom_linker.c, for every object that the build links as
\* WellLinked says and whichever calls the kernel refuses: each word of an open
\* image is as the object asks, and each page when nothing was refused; no page
\* is writable and executable that was not asked for; a load that is seen to
\* fail leaves nothing mapped; the process faults only behind a refusal that
\* was not seen.
THEOREM ImagesStaySound == LoaderSpec => []ImagesAreSound
<1>1. NativeInv => ImagesAreSound
  BY InvImplies DEF NativeInv
<1> QED
  BY <1>1, NativeInvariant, PTL

\* The decrypted bytes are cleared on every way out of bootstrap and of
\* inner_loader_load.
THEOREM PlainStaysWiped == LoaderSpec => []PlainIsWiped
<1>1. NativeInv => PlainIsWiped
  BY InvImplies DEF NativeInv
<1> QED
  BY <1>1, NativeInvariant, PTL

\* locate_and_decrypt finds the library of an APK with one.
THEOREM PackedStaysFound == LoaderSpec => []PackedIsFound
<1>1. NativeInv => PackedIsFound
  BY InvImplies DEF NativeInv
<1> QED
  BY <1>1, NativeInvariant, PTL

\* No step calls into an image at an address that is not mapped, or in a page
\* that may not be executed unless a protection of that image was refused.
THEOREM EveryCallLands == LoaderSpec => CallsLand
<1>1. NativeInv /\ [LoaderNext]_nativeVars =>
        [\A i \in Len(calls) + 1 .. Len(calls') :
           LET lib == calls'[i][1]
               f == calls'[i][2]
           IN  /\ f[1] = "image" /\ PageOf(f[2]) \in DOMAIN area[lib]
               /\ refused[lib] \/ "x" \in area[lib][PageOf(f[2])]]_nativeVars
  BY StepCallsLand DEF LandsIn, NativeInv
<1> QED
  BY <1>1, NativeInvariant, PTL DEF LoaderSpec, CallsLand

=============================================================================
