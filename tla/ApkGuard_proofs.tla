-------------------------- MODULE ApkGuard_proofs ---------------------------
(***************************************************************************)
(* Proofs about ApkGuard, for every set of files with their cells, every   *)
(* way the library may have been loaded and any number of changes.  Of the *)
(* pure checks only the range of their answers is used, and of the file of *)
(* the app that it passes them (LoadedPasses).  At the end, for every size *)
(* of the table, length of the keys and period, the throttle of the        *)
(* warnings.                                                               *)
(***************************************************************************)
EXTENDS ApkGuard, TLAPS, FiniteSetTheorems, NaturalsInduction,
        WellFoundedInduction, SequenceTheorems

-----------------------------------------------------------------------------
(***************************************************************************)
(* The answers of the checks, and the steps of a thread.                   *)
(***************************************************************************)
LEMMA LayersRange == \A n \in Nodes : LayersVerdict[n] \in 0 .. 1
<1> SUFFICES ASSUME NEW n \in Nodes PROVE LayersVerdict[n] \in 0 .. 1
  OBVIOUS
<1>1. \A m, f, e : LayerD(m, f, e) \in 0 .. 1 /\ LayerB(f, e) \in 0 .. 1
  BY DEF LayerD, LayerB
<1> HIDE DEF LayerD, LayerB
<1>2. LayersVerdict[n] = Layers(None, Content[n], SignatureHash, None, None)
  BY DEF LayersVerdict
<1> QED  BY <1>1, <1>2 DEF Layers

LEMMA SignRange == TypeOK => SignAnswers \subseteq -1 .. 1
BY LayersRange DEF SignAnswers, TypeOK

LEMMA IntegrityRange == \A n \in Nodes : Integrity[n] \in 0 .. 2
BY DEF Integrity, IntegrityCheck

CacheTypes == [fd : Nodes \cup {"none", "closed"}, expected : BOOLEAN, flag : BOOLEAN]

LEMMA VerifyType ==
  ASSUME NEW c \in CacheTypes, NEW n, links \in BOOLEAN
  PROVE  /\ Verify(c, n) \in CacheTypes
         /\ Verify(c, n).fd = c.fd
         /\ Verify(c, n).flag => c.flag \/ n \in Strays
BY DEF Verify, CacheTypes

Places == {"idle", "constructor", "onload", "self", "fd", "map", "dex", "inner", "judge", "kill",
           "verify", "sign", "check", "release", "integrity", "done"}
Calls == {"none", "load", "sign", "check", "guard", "round", "integrity"}
Fds == Nodes \cup {"none", "cached"}

\* Record r has these fields.
HasFields(r, pc, fd, failed, result, call) ==
  r \in Thread /\ r.pc = pc /\ r.fd = fd /\ r.failed = failed /\ r.result = result /\ r.call = call

LEMMA FieldTypes ==
  ASSUME TypeOK, NEW t \in Threads
  PROVE  /\ th[t] \in Thread
         /\ th[t].fd \in Fds /\ th[t].failed \in BOOLEAN /\ th[t].result \in -1 .. 2 /\ th[t].call \in Calls
BY DEF TypeOK, Thread, Fds, Calls

\* The ways in which an action changes the record of a thread.
LEMMA Edited ==
  ASSUME NEW r \in Thread, NEW pc \in Places, NEW fd \in Fds, NEW failed \in BOOLEAN, NEW result \in -1 .. 2
  PROVE  /\ HasFields([r EXCEPT !.pc = pc], pc, r.fd, r.failed, r.result, r.call)
         /\ HasFields([r EXCEPT !.pc = pc, !.fd = fd], pc, fd, r.failed, r.result, r.call)
         /\ HasFields([r EXCEPT !.pc = pc, !.failed = failed], pc, r.fd, failed, r.result, r.call)
         /\ HasFields([r EXCEPT !.pc = pc, !.result = result], pc, r.fd, r.failed, result, r.call)
         /\ HasFields([r EXCEPT !.pc = pc, !.fd = fd, !.failed = failed], pc, fd, failed, r.result, r.call)
         /\ HasFields([r EXCEPT !.pc = pc, !.failed = failed, !.result = result], pc, r.fd, failed, result, r.call)
<1>1. HasFields([r EXCEPT !.pc = pc], pc, r.fd, r.failed, r.result, r.call)
  <2>1. [r EXCEPT !.pc = pc] \in Thread
    BY DEF Thread, Places, Fds
  <2> QED  BY <2>1 DEF HasFields, Thread
<1>2. HasFields([r EXCEPT !.pc = pc, !.fd = fd], pc, fd, r.failed, r.result, r.call)
  <2>1. [r EXCEPT !.pc = pc, !.fd = fd] \in Thread
    BY DEF Thread, Places, Fds
  <2> QED  BY <2>1 DEF HasFields, Thread
<1>3. HasFields([r EXCEPT !.pc = pc, !.failed = failed], pc, r.fd, failed, r.result, r.call)
  <2>1. [r EXCEPT !.pc = pc, !.failed = failed] \in Thread
    BY DEF Thread, Places, Fds
  <2> QED  BY <2>1 DEF HasFields, Thread
<1>4. HasFields([r EXCEPT !.pc = pc, !.result = result], pc, r.fd, r.failed, result, r.call)
  <2>1. [r EXCEPT !.pc = pc, !.result = result] \in Thread
    BY DEF Thread, Places, Fds
  <2> QED  BY <2>1 DEF HasFields, Thread
<1>5. HasFields([r EXCEPT !.pc = pc, !.fd = fd, !.failed = failed], pc, fd, failed, r.result, r.call)
  <2>1. [r EXCEPT !.pc = pc, !.fd = fd, !.failed = failed] \in Thread
    BY DEF Thread, Places, Fds
  <2> QED  BY <2>1 DEF HasFields, Thread
<1>6. HasFields([r EXCEPT !.pc = pc, !.failed = failed, !.result = result], pc, r.fd, failed, result, r.call)
  <2>1. [r EXCEPT !.pc = pc, !.failed = failed, !.result = result] \in Thread
    BY DEF Thread, Places, Fds
  <2> QED  BY <2>1 DEF HasFields, Thread
<1> QED  BY <1>1, <1>2, <1>3, <1>4, <1>5, <1>6

LEMMA Entered ==
  ASSUME NEW pc \in Places, NEW call \in Calls, NEW result \in -1 .. 2
  PROVE  HasFields(Enter(pc, call, result), pc, "none", FALSE, result, call)
<1>1. Enter(pc, call, result) \in Thread
  BY DEF Enter, Thread, Places, Calls
<1> QED  BY <1>1 DEF HasFields, Enter

\* Only thread t does something, and has these fields then.
Becomes(t, pc, fd, failed, result, call) ==
  /\ th' \in [Threads -> Thread]
  /\ HasFields(th'[t], pc, fd, failed, result, call)
  /\ \A u \in Threads \ {t} : th'[u] = th[u]

LEMMA Put ==
  ASSUME TypeOK, NEW t \in Threads, NEW new, NEW pc, NEW fd, NEW failed, NEW result, NEW call,
         HasFields(new, pc, fd, failed, result, call), th' = [th EXCEPT ![t] = new]
  PROVE  Becomes(t, pc, fd, failed, result, call)
<1>1. th \in [Threads -> Thread] /\ new \in Thread
  BY DEF TypeOK, HasFields
<1>2. th' \in [Threads -> Thread] /\ th'[t] = new /\ \A u \in Threads \ {t} : th'[u] = th[u]
  BY <1>1
<1> QED  BY <1>2 DEF Becomes

\* It goes on to another place.
Moves(t, pc) == Becomes(t, pc, th[t].fd, th[t].failed, th[t].result, th[t].call)
\* It makes a call, or ends one.
Begins(t, pc, result, call) == Becomes(t, pc, "none", FALSE, result, call)

LEMMA ToMoves ==
  ASSUME TypeOK, NEW t \in Threads, NEW pc \in Places, th' = [th EXCEPT ![t].pc = pc]
  PROVE  Moves(t, pc)
<1>1. th[t] \in Thread /\ th \in [Threads -> Thread]
  BY DEF TypeOK
<1>2. th' = [th EXCEPT ![t] = [th[t] EXCEPT !.pc = pc]]
  OBVIOUS
<1>3. HasFields([th[t] EXCEPT !.pc = pc], pc, th[t].fd, th[t].failed, th[t].result, th[t].call)
  BY <1>1, FieldTypes, Edited
<1> QED  BY <1>2, <1>3, Put DEF Moves

\* The steps of a round.
LEMMA SelfBecomes ==
  ASSUME TypeOK, NEW t \in Threads, SelfStep(t)
  PROVE  Becomes(t, "fd", th[t].fd, SelfResult(text') = 1, th[t].result, th[t].call)
<1> DEFINE failed == SelfResult(text') = 1
<1>1. th' = [th EXCEPT ![t] = [th[t] EXCEPT !.pc = "fd", !.failed = failed]]
  BY DEF SelfStep
<1>2. failed \in BOOLEAN
  OBVIOUS
<1> HIDE DEF failed
<1>3. HasFields([th[t] EXCEPT !.pc = "fd", !.failed = failed], "fd", th[t].fd, failed, th[t].result, th[t].call)
  BY <1>2, FieldTypes, Edited DEF Places
<1>4. Becomes(t, "fd", th[t].fd, failed, th[t].result, th[t].call)
  BY <1>1, <1>3, Put
<1> QED  BY <1>4 DEF failed

LEMMA CachedBecomes ==
  ASSUME TypeOK, NEW t \in Threads, UseCached(t)
  PROVE  Becomes(t, "map", "cached", th[t].failed, th[t].result, th[t].call)
<1>1. th' = [th EXCEPT ![t] = [th[t] EXCEPT !.pc = "map", !.fd = "cached"]]
  BY DEF UseCached
<1>2. HasFields([th[t] EXCEPT !.pc = "map", !.fd = "cached"],
                "map", "cached", th[t].failed, th[t].result, th[t].call)
  BY FieldTypes, Edited DEF Places, Fds
<1> QED  BY <1>1, <1>2, Put

LEMMA OpenBecomes ==
  ASSUME TypeOK, NEW t \in Threads, OpenByPath(t)
  PROVE  /\ disk \in Nodes \ Strays
         /\ \E fd \in {"cached", disk} : Becomes(t, "map", fd, th[t].failed, th[t].result, th[t].call)
<1>1. PICK n \in Opened, again \in {TRUE, FALSE} :
        th' = [th EXCEPT ![t] = [@ EXCEPT !.pc = "map", !.fd = IF again THEN "cached" ELSE n]]
  BY DEF OpenByPath
<1> DEFINE fd == IF again THEN "cached" ELSE n
<1>2. disk \in Nodes \ Strays /\ fd \in {"cached", disk} /\ fd \in Fds
  BY <1>1 DEF OpenByPath, Opened, CanOpen, TypeOK, Fds
<1>3. th' = [th EXCEPT ![t] = [th[t] EXCEPT !.pc = "map", !.fd = fd]]
  BY <1>1
<1> HIDE DEF fd
<1>4. HasFields([th[t] EXCEPT !.pc = "map", !.fd = fd], "map", fd, th[t].failed, th[t].result, th[t].call)
  BY <1>2, FieldTypes, Edited DEF Places
<1> QED  BY <1>2, <1>3, <1>4, Put

LEMMA VerifyBecomes ==
  ASSUME TypeOK, NEW t \in Threads, MapAndVerify(t)
  PROVE  Becomes(t, "dex", "none", th[t].failed \/ Signature[File(t)] = 1, th[t].result, th[t].call)
<1> DEFINE failed == th[t].failed \/ Signature[File(t)] = 1
<1>1. th' = [th EXCEPT ![t] = [th[t] EXCEPT !.pc = "dex", !.fd = "none", !.failed = failed]]
  BY Zenon DEF MapAndVerify
<1>2. failed \in BOOLEAN
  BY Zenon
<1> HIDE DEF failed
<1>3. HasFields([th[t] EXCEPT !.pc = "dex", !.fd = "none", !.failed = failed],
         "dex", "none", failed, th[t].result, th[t].call)
  <2>1. "dex" \in Places /\ "none" \in Fds
    BY DEF Places, Fds
  <2> QED  BY <1>2, <2>1, FieldTypes, Edited
<1>4. Becomes(t, "dex", "none", failed, th[t].result, th[t].call)
  BY <1>1, <1>3, Put
<1> QED  BY <1>4 DEF failed

LEMMA FailsBecomes ==
  ASSUME TypeOK, NEW t \in Threads, MapFails(t)
  PROVE  Becomes(t, "dex", "none", th[t].failed, th[t].result, th[t].call)
<1>1. th' = [th EXCEPT ![t] = [th[t] EXCEPT !.pc = "dex", !.fd = "none"]]
  BY DEF MapFails
<1>2. HasFields([th[t] EXCEPT !.pc = "dex", !.fd = "none"],
                "dex", "none", th[t].failed, th[t].result, th[t].call)
  BY FieldTypes, Edited DEF Places, Fds
<1> QED  BY <1>1, <1>2, Put

LEMMA NoFileMoves ==
  ASSUME TypeOK, NEW t \in Threads, NoFile(t)
  PROVE  Moves(t, "dex")
BY ToMoves DEF NoFile, To, Places

DexAnswered(t, failed) ==
  Becomes(t, IF failed THEN "judge" ELSE "inner", th[t].fd, failed, IF failed THEN 1 ELSE 0, th[t].call)

LEMMA DexBecomes ==
  ASSUME TypeOK, NEW t \in Threads, DexStep(t)
  PROVE  \E answer \in DexAnswers(t) : DexAnswered(t, th[t].failed \/ answer = 1)
<1>1. PICK answer \in DexAnswers(t) :
        LET failed == th[t].failed \/ answer = 1 IN
        th' = [th EXCEPT ![t] = [@ EXCEPT !.pc = IF failed THEN "judge" ELSE "inner",
                                          !.failed = failed, !.result = IF failed THEN 1 ELSE 0]]
  BY Zenon DEF DexStep
<1> DEFINE failed == th[t].failed \/ answer = 1
           pc == IF failed THEN "judge" ELSE "inner"
           result == IF failed THEN 1 ELSE 0
<1>2. th' = [th EXCEPT ![t] = [th[t] EXCEPT !.pc = pc, !.failed = failed, !.result = result]]
  BY <1>1, Zenon
<1>3. failed \in BOOLEAN
  BY Zenon
<1> HIDE DEF failed
<1>4. pc \in Places /\ result \in -1 .. 2
  BY DEF Places
<1> HIDE DEF pc, result
<1>5. HasFields([th[t] EXCEPT !.pc = pc, !.failed = failed, !.result = result],
         pc, th[t].fd, failed, result, th[t].call)
  BY <1>3, <1>4, FieldTypes, Edited
<1>6. Becomes(t, pc, th[t].fd, failed, result, th[t].call)
  BY <1>2, <1>5, Put
<1>7. DexAnswered(t, failed)
  BY <1>6 DEF DexAnswered, pc, result
<1> QED  BY <1>7, Zenon DEF failed

LEMMA InnerBecomes ==
  ASSUME TypeOK, NEW t \in Threads, InnerStep(t)
  PROVE  Becomes(t, "judge", th[t].fd, th[t].failed,
                 IF inner \in {"environment", "self_test"} THEN 1 ELSE 0, th[t].call)
<1> DEFINE result == IF inner \in {"environment", "self_test"} THEN 1 ELSE 0
<1>1. th' = [th EXCEPT ![t] = [th[t] EXCEPT !.pc = "judge", !.result = result]]
  BY DEF InnerStep
<1>2. result \in -1 .. 2
  OBVIOUS
<1> HIDE DEF result
<1>3. HasFields([th[t] EXCEPT !.pc = "judge", !.result = result],
                "judge", th[t].fd, th[t].failed, result, th[t].call)
  BY <1>2, FieldTypes, Edited DEF Places
<1>4. Becomes(t, "judge", th[t].fd, th[t].failed, result, th[t].call)
  BY <1>1, <1>3, Put
<1> QED  BY <1>4 DEF result

\* The steps of the guard and of the main thread.
LEMMA MovesByPc ==
  ASSUME TypeOK
  PROVE  /\ EarlyInit => Moves("main", "onload")
         /\ SelfVerify => th' = th \/ Moves("main", "sign")
         /\ GuardJudges => \/ (Moves("guard", "kill") /\ (canary # CanaryExpected \/ th["guard"].result # 0))
                            \/ Begins("guard", "idle", 0, "none")
         /\ FirstRound => th' = th \/ \E pc \in {"verify", "release"} : Moves("main", pc)
<1>0. "main" \in Threads /\ "guard" \in Threads
  BY DEF Threads
<1>1. ASSUME EarlyInit PROVE Moves("main", "onload")
  <2>1. th' = [th EXCEPT !["main"].pc = "onload"]
    BY <1>1 DEF EarlyInit
  <2> QED  BY <1>0, <2>1, ToMoves DEF Places
<1>2. ASSUME SelfVerify PROVE th' = th \/ Moves("main", "sign")
  <2>1. th' = th \/ th' = [th EXCEPT !["main"].pc = "sign"]
    BY <1>2 DEF SelfVerify
  <2> QED  BY <1>0, <2>1, ToMoves DEF Places
<1>3. ASSUME GuardJudges
      PROVE  \/ (Moves("guard", "kill") /\ (canary # CanaryExpected \/ th["guard"].result # 0))
             \/ Begins("guard", "idle", 0, "none")
  <2>1. \/ /\ th' = [th EXCEPT !["guard"].pc = "kill"]
           /\ canary # CanaryExpected \/ th["guard"].result # 0
        \/ th' = [th EXCEPT !["guard"] = Idle]
    BY <1>3 DEF GuardJudges
  <2>2. HasFields(Idle, "idle", "none", FALSE, 0, "none")
    BY DEF HasFields, Idle, Enter, Thread
  <2>3. CASE th' = [th EXCEPT !["guard"] = Idle]
    BY <1>0, <2>2, <2>3, Put DEF Begins
  <2>4. CASE /\ th' = [th EXCEPT !["guard"].pc = "kill"]
             /\ canary # CanaryExpected \/ th["guard"].result # 0
    BY <1>0, <2>4, ToMoves DEF Places
  <2> QED  BY <2>1, <2>3, <2>4
<1>4. ASSUME FirstRound PROVE th' = th \/ \E pc \in {"verify", "release"} : Moves("main", pc)
  <2>1. th' = th \/ \E pc \in {"verify", "release"} : th' = [th EXCEPT !["main"].pc = pc]
    BY <1>4 DEF FirstRound
  <2> QED  BY <1>0, <2>1, ToMoves DEF Places
<1> QED  BY <1>1, <1>2, <1>3, <1>4

LEMMA Begin ==
  ASSUME TypeOK, NEW t \in Threads, NEW pc \in Places, NEW call \in Calls, NEW result \in -1 .. 2,
         th' = [th EXCEPT ![t] = Enter(pc, call, result)]
  PROVE  Begins(t, pc, result, call)
BY Entered, Put DEF Begins

LEMMA BeginsByCall ==
  ASSUME TypeOK
  PROVE  /\ OnLoad => Begins("main", "self", 0, "load")
         /\ Sign => \E signed \in SignAnswers : Begins("main", "check", signed, "sign")
         /\ SkipSign => Begins("main", "integrity", 0, "none")
         /\ Check => Begins("main", "self", 0, "check")
         /\ CheckDone => Begins("main", "self", 0, "guard")
         /\ Release => Begins("main", "integrity", 0, "none")
         /\ CheckIntegrity =>
              Begins("main", "done", IF disk = "gone" THEN -1 ELSE Integrity[disk], "integrity")
         /\ GuardRound => Begins("guard", "self", 0, "round")
<1>0. "main" \in Threads /\ "guard" \in Threads
  BY DEF Threads
<1> DEFINE checked == IF disk = "gone" THEN -1 ELSE Integrity[disk]
<1>a. SignAnswers \subseteq -1 .. 2 /\ checked \in -1 .. 2
  BY SignRange, IntegrityRange DEF TypeOK
<1>b. /\ {"self", "check", "integrity", "done"} \subseteq Places
      /\ {"none", "load", "sign", "check", "guard", "round", "integrity"} \subseteq Calls
      /\ 0 \in -1 .. 2
  BY DEF Places, Calls
<1>1. ASSUME OnLoad PROVE Begins("main", "self", 0, "load")
  <2>1. th' = [th EXCEPT !["main"] = Enter("self", "load", 0)]
    BY <1>1 DEF OnLoad, MainCalls
  <2> QED  BY <1>0, <1>b, <2>1, Begin
<1>2. ASSUME Sign PROVE \E signed \in SignAnswers : Begins("main", "check", signed, "sign")
  <2>1. PICK signed \in SignAnswers : th' = [th EXCEPT !["main"] = Enter("check", "sign", signed)]
    BY <1>2 DEF Sign
  <2>2. Begins("main", "check", signed, "sign")
    BY <1>0, <1>a, <1>b, <2>1, Begin
  <2> QED  BY <2>2
<1>3. ASSUME SkipSign PROVE Begins("main", "integrity", 0, "none")
  <2>1. th' = [th EXCEPT !["main"] = Enter("integrity", "none", 0)]
    BY <1>3 DEF SkipSign
  <2> QED  BY <1>0, <1>b, <2>1, Begin
<1>4. ASSUME Check PROVE Begins("main", "self", 0, "check")
  <2>1. th' = [th EXCEPT !["main"] = Enter("self", "check", 0)]
    BY <1>4 DEF Check, MainCalls
  <2> QED  BY <1>0, <1>b, <2>1, Begin
<1>5. ASSUME CheckDone PROVE Begins("main", "self", 0, "guard")
  <2>1. th' = [th EXCEPT !["main"] = Enter("self", "guard", 0)]
    BY <1>5 DEF CheckDone, MainCalls
  <2> QED  BY <1>0, <1>b, <2>1, Begin
<1>6. ASSUME Release PROVE Begins("main", "integrity", 0, "none")
  <2>1. th' = [th EXCEPT !["main"] = Enter("integrity", "none", 0)]
    BY <1>6 DEF Release
  <2> QED  BY <1>0, <1>b, <2>1, Begin
<1>7. ASSUME CheckIntegrity PROVE Begins("main", "done", checked, "integrity")
  <2>1. th' = [th EXCEPT !["main"] = Enter("done", "integrity", checked)]
    BY <1>7 DEF CheckIntegrity
  <2> HIDE DEF checked
  <2> QED  BY <1>0, <1>a, <1>b, <2>1, Begin
<1>8. ASSUME GuardRound PROVE Begins("guard", "self", 0, "round")
  <2>1. th' = [th EXCEPT !["guard"] = Enter("self", "round", 0)]
    BY <1>8 DEF GuardRound
  <2> QED  BY <1>0, <1>b, <2>1, Begin
<1> QED  BY <1>1, <1>2, <1>3, <1>4, <1>5, <1>6, <1>7, <1>8

-----------------------------------------------------------------------------
(***************************************************************************)
(* Types.                                                                  *)
(***************************************************************************)
TextTypes == [inited : BOOLEAN, path : -1 .. 1]

LEMMA TextType == TypeOK => TextAfterInit \in TextTypes
BY DEF TypeOK, TextAfterInit, Library, TextTypes

\* Every step keeps the types of the threads: one of them at most moves.
LEMMA ThreadTypes ==
  ASSUME TypeOK, [Next]_vars
  PROVE  th' \in [Threads -> Thread]
<1>1. CASE \E t \in Threads : Round(t)
  <2>1. PICK t \in Threads : Round(t)
    BY <1>1
  <2>2. ASSUME DexStep(t) PROVE th' \in [Threads -> Thread]
    BY <2>2, DexBecomes DEF DexAnswered, Becomes
  <2>3. ASSUME DexCrash(t) PROVE th' \in [Threads -> Thread]
    BY <2>3 DEF DexCrash, TypeOK
  <2> QED  BY <2>1, <2>2, <2>3, SelfBecomes, CachedBecomes, OpenBecomes, VerifyBecomes, FailsBecomes,
              InnerBecomes, NoFileMoves DEF Round, Becomes, Moves
<1>2. CASE Main
  <2>1. ASSUME OnLoadEnds PROVE th' \in [Threads -> Thread]
    BY <2>1 DEF OnLoadEnds, TypeOK
  <2>2. th \in [Threads -> Thread]
    BY DEF TypeOK
  <2> QED  BY <1>2, <2>1, <2>2, MovesByPc, BeginsByCall DEF Main, Moves, Begins, Becomes
<1>3. CASE Guard
  <2>1. ASSUME Kill PROVE th' \in [Threads -> Thread]
    BY <2>1 DEF Kill, TypeOK
  <2> QED  BY <1>3, <2>1, MovesByPc, BeginsByCall DEF Guard, Moves, Begins, Becomes
<1>4. CASE DetectRedirect \/ Replace \/ LoseDescriptor \/ ChangeText \/ UNCHANGED vars
  BY <1>4 DEF DetectRedirect, Replace, LoseDescriptor, ChangeText, vars, TypeOK
<1> QED  BY <1>1, <1>2, <1>3, <1>4 DEF Next

LEMMA TypeInit == Init => TypeOK
<1> SUFFICES ASSUME Init PROVE TypeOK
  OBVIOUS
<1> DEFINE place(t) == IF t = "main" THEN "constructor" ELSE "idle"
<1>a. \A t \in Threads : place(t) \in Places
  BY DEF Places
<1>b. th = [t \in Threads |-> Enter(place(t), "none", 0)]
  BY DEF Init
<1> HIDE DEF place
<1>1. \A t \in Threads : Enter(place(t), "none", 0) \in Thread
  BY <1>a DEF Enter, Thread, Places
<1>2. th \in [Threads -> Thread]
  BY <1>1, <1>b
<1>3. image \in Library
  BY ImagesAssumption DEF Init
<1>4. text \in [inited : BOOLEAN, path : -1 .. 1]
  BY DEF Init
<1>5. /\ cache \in [fd : Nodes \cup {"none", "closed"}, expected : BOOLEAN, flag : BOOLEAN]
      /\ scheduler \in [callback : BOOLEAN, running : BOOLEAN, args : {"null", "live", "stale"}]
  BY DEF Init
<1>6. disk \in (Nodes \ Strays) \cup {"gone"} /\ changes \in 0 .. MaxChanges
  BY FilesAssumption, ChangesAssumption DEF Init
<1>7. /\ maps \in BOOLEAN /\ links \in BOOLEAN /\ given \in BOOLEAN /\ astray \in BOOLEAN
      /\ process \in {"up", "dying", "killed", "crashed"} /\ inner \in Inner
  BY DEF Init
<1>8. canary \in {{}, RoundCanary}
  BY DEF Init
<1> QED  BY <1>2, <1>3, <1>4, <1>5, <1>6, <1>7, <1>8 DEF TypeOK

LEMMA TypeStep == TypeOK /\ [Next]_vars => TypeOK'
<1> SUFFICES ASSUME TypeOK, [Next]_vars PROVE TypeOK'
  OBVIOUS
<1> USE DEF files
<1>0. th' \in [Threads -> Thread]
  BY ThreadTypes
<1>a. links \in BOOLEAN /\ cache \in CacheTypes /\ TextAfterInit \in TextTypes
  BY TextType DEF TypeOK, CacheTypes
<1>1. ASSUME NEW t \in Threads, Round(t) PROVE TypeOK'
  <2>1. CASE SelfStep(t)
    <3>1. text' \in TextTypes
      BY <2>1, <1>a DEF SelfStep, TypeOK, TextTypes
    <3> QED  BY <2>1, <3>1, <1>0 DEF SelfStep, TypeOK, TextTypes
  <2>2. CASE OpenByPath(t)
    <3>1. PICK n \in Opened, again \in {TRUE, FALSE} :
            cache' = IF again THEN [Verify([cache EXCEPT !.expected = TRUE], n) EXCEPT !.fd = n]
                     ELSE Verify([cache EXCEPT !.expected = TRUE], n)
      BY <2>2 DEF OpenByPath
    <3>2. n \in Nodes
      BY <2>2, <3>1, OpenBecomes DEF Opened
    <3>3. [cache EXCEPT !.expected = TRUE] \in CacheTypes
      BY <1>a DEF CacheTypes
    <3>4. Verify([cache EXCEPT !.expected = TRUE], n) \in CacheTypes
      BY <1>a, <3>3, VerifyType DEF CacheTypes
    <3>5. cache' \in CacheTypes
      BY <3>1, <3>2, <3>4 DEF CacheTypes
    <3>6. UNCHANGED <<files, text, astray, process, scheduler, canary>>
      BY <2>2 DEF OpenByPath
    <3> QED  BY <3>5, <3>6, <1>0 DEF TypeOK, CacheTypes
  <2>3. CASE MapFails(t)
    <3>1. changes' \in 0 .. MaxChanges /\ process' \in {"up", "dying", "killed", "crashed"}
      BY <2>3, ChangesAssumption DEF MapFails, Change, TypeOK
    <3> QED  BY <2>3, <3>1, <1>0 DEF MapFails, TypeOK
  <2>4. CASE DexCrash(t)
    BY <2>4, <1>0 DEF DexCrash, TypeOK
  <2>5. CASE UseCached(t) \/ NoFile(t) \/ MapAndVerify(t) \/ DexStep(t) \/ InnerStep(t)
    <3>1. UNCHANGED <<disk, maps, links, changes, image, given, inner, text, cache, astray, process, scheduler>>
      BY <2>5 DEF UseCached, NoFile, MapAndVerify, DexStep, InnerStep
    <3>2. canary' = canary \/ canary' = RoundCanary
      BY <2>5 DEF UseCached, NoFile, MapAndVerify, DexStep, InnerStep
    <3> QED  BY <3>1, <3>2, <1>0 DEF TypeOK
  <2> QED  BY <1>1, <2>1, <2>2, <2>3, <2>4, <2>5 DEF Round
<1>2. ASSUME Main PROVE TypeOK'
  <2>1. CASE EarlyInit
    <3>1. cache' \in CacheTypes
      <4>1. CASE CanOpen(MapsPath) /\ \E n \in Opened :
                   cache' = Verify([cache EXCEPT !.fd = n, !.expected = TRUE], n)
        <5>1. PICK n \in Opened : cache' = Verify([cache EXCEPT !.fd = n, !.expected = TRUE], n)
          BY <4>1
        <5>2. n \in Nodes
          BY <4>1 DEF Opened, CanOpen, TypeOK
        <5> DEFINE c == [cache EXCEPT !.fd = n, !.expected = TRUE]
        <5>3. c \in CacheTypes
          BY <1>a, <5>2 DEF CacheTypes
        <5>4. cache' = Verify(c, n)
          BY <5>1
        <5> HIDE DEF c
        <5> QED  BY <1>a, <5>3, <5>4, VerifyType DEF CacheTypes
      <4> QED  BY <2>1, <4>1, <1>a DEF EarlyInit
    <3>2. UNCHANGED <<files, text, astray, process, scheduler, canary>>
      BY <2>1 DEF EarlyInit
    <3> QED  BY <3>1, <3>2, <1>0 DEF TypeOK, CacheTypes
  <2>2. CASE OnLoad
    BY <2>2, <1>0, <1>a DEF OnLoad, TypeOK, TextTypes
  <2>3. CASE FirstRound
    <3>1. scheduler' \in [callback : BOOLEAN, running : BOOLEAN, args : {"null", "live", "stale"}]
      BY <2>3 DEF FirstRound, TypeOK
    <3>2. process' \in {"up", "dying", "killed", "crashed"}
      BY <2>3 DEF FirstRound, TypeOK
    <3> QED  BY <2>3, <3>1, <3>2, <1>0 DEF FirstRound, TypeOK
  <2>4. CASE OnLoadEnds
    BY <2>4, <1>0 DEF OnLoadEnds, TypeOK
  <2>5. CASE SelfVerify
    <3>1. process' \in {"up", "dying", "killed", "crashed"}
      BY <2>5 DEF SelfVerify, TypeOK
    <3> QED  BY <2>5, <3>1, <1>0 DEF SelfVerify, TypeOK
  <2>6. CASE Sign \/ SkipSign \/ Check \/ CheckIntegrity
    BY <2>6, <1>0 DEF Sign, SkipSign, Check, CheckIntegrity, TypeOK
  <2>7. CASE CheckDone \/ Release
    BY <2>7, <1>0 DEF CheckDone, Release, TypeOK
  <2> QED  BY <1>2, <2>1, <2>2, <2>3, <2>4, <2>5, <2>6, <2>7 DEF Main
<1>3. ASSUME Guard PROVE TypeOK'
  BY <1>3, <1>0 DEF Guard, GuardRound, GuardJudges, Kill, TypeOK
<1>4. ASSUME DetectRedirect PROVE TypeOK'
  <2>1. cache' \in CacheTypes
    BY <1>4, <1>a, VerifyType DEF DetectRedirect, CacheTypes
  <2> QED  BY <1>4, <2>1, <1>0 DEF DetectRedirect, TypeOK, CacheTypes
<1>5. ASSUME Replace \/ LoseDescriptor \/ ChangeText PROVE TypeOK'
  <2>1. changes' \in 0 .. MaxChanges
    BY <1>5, ChangesAssumption DEF Replace, LoseDescriptor, ChangeText, Change, TypeOK
  <2>2. CASE Replace
    BY <2>2, <2>1, <1>0 DEF Replace, TypeOK
  <2>3. CASE LoseDescriptor
    <3>1. cache' \in CacheTypes /\ astray' \in BOOLEAN
      BY <2>3, <1>a, FilesAssumption DEF LoseDescriptor, TypeOK, CacheTypes
    <3> QED  BY <2>3, <2>1, <3>1, <1>0 DEF LoseDescriptor, TypeOK, CacheTypes
  <2>4. CASE ChangeText
    <3>1. image' \in Library
      BY <2>4 DEF ChangeText, TypeOK, Library
    <3> QED  BY <2>4, <2>1, <3>1, <1>0 DEF ChangeText, TypeOK
  <2> QED  BY <1>5, <2>2, <2>3, <2>4
<1>6. ASSUME UNCHANGED vars PROVE TypeOK'
  BY <1>6, <1>0 DEF vars, TypeOK
<1> QED  BY <1>1, <1>2, <1>3, <1>4, <1>5, <1>6 DEF Next

\* Every variable keeps its type, for every set of files, builds and changes.
THEOREM TypeCorrect == Spec => []TypeOK
<1> QED  BY TypeInit, TypeStep, PTL DEF Spec

-----------------------------------------------------------------------------
(***************************************************************************)
(* The evidence of a redirected descriptor.                                *)
(***************************************************************************)
\* A stray file behind the cached descriptor, or the evidence of one, is no
\* accident of the code: it opens and keeps the file at the path of the app.
FilesAreOwn == (cache.fd \in Strays => astray) /\ (cache.flag => astray)

\* What the code itself does to the cached descriptor.
CacheKept ==
  /\ cache'.fd = cache.fd \/ (cache'.fd = disk /\ disk \in Nodes \ Strays)
  /\ cache'.flag => cache.flag \/ cache.fd \in Strays
  /\ astray' = astray

LEMMA CacheStep ==
  ASSUME TypeOK, [Next]_vars
  PROVE  LoseDescriptor \/ CacheKept
<1>a. links \in BOOLEAN /\ cache \in CacheTypes
  BY DEF TypeOK, CacheTypes
<1>1. ASSUME NEW t \in Threads, OpenByPath(t) PROVE CacheKept
  <2>1. PICK n \in Opened, again \in {TRUE, FALSE} :
          cache' = IF again THEN [Verify([cache EXCEPT !.expected = TRUE], n) EXCEPT !.fd = n]
                   ELSE Verify([cache EXCEPT !.expected = TRUE], n)
    BY <1>1 DEF OpenByPath
  <2>2. n = disk /\ disk \in Nodes \ Strays
    BY <1>1, <2>1, OpenBecomes DEF Opened
  <2> DEFINE c == [cache EXCEPT !.expected = TRUE]
  <2>3. c \in CacheTypes /\ c.fd = cache.fd /\ c.flag = cache.flag
    BY <1>a DEF CacheTypes
  <2> HIDE DEF c
  <2> DEFINE v == Verify(c, n)
  <2>4. v \in CacheTypes /\ v.fd = cache.fd /\ (v.flag => cache.flag)
    BY <1>a, <2>2, <2>3, VerifyType DEF CacheTypes
  <2>5. cache' = IF again THEN [v EXCEPT !.fd = n] ELSE v
    BY <2>1 DEF c
  <2>6. astray' = astray
    BY <1>1 DEF OpenByPath
  <2> HIDE DEF v
  <2> QED  BY <2>2, <2>4, <2>5, <2>6 DEF CacheKept, CacheTypes
<1>2. ASSUME EarlyInit PROVE CacheKept
  <2>1. astray' = astray
    BY <1>2 DEF EarlyInit
  <2>2. CASE cache' = cache
    BY <2>1, <2>2 DEF CacheKept
  <2>3. CASE CanOpen(MapsPath) /\ \E n \in Opened :
               cache' = Verify([cache EXCEPT !.fd = n, !.expected = TRUE], n)
    <3>1. PICK n \in Opened : cache' = Verify([cache EXCEPT !.fd = n, !.expected = TRUE], n)
      BY <2>3
    <3>2. n = disk /\ disk \in Nodes \ Strays
      BY <2>3 DEF Opened, CanOpen, TypeOK
    <3> DEFINE c == [cache EXCEPT !.fd = n, !.expected = TRUE]
    <3>3. c \in CacheTypes /\ c.fd = n /\ c.flag = cache.flag
      BY <1>a, <3>2 DEF CacheTypes
    <3>4. cache' = Verify(c, n)
      BY <3>1
    <3> HIDE DEF c
    <3>5. cache'.fd = n /\ (cache'.flag => cache.flag)
      BY <1>a, <3>2, <3>3, <3>4, VerifyType DEF CacheTypes
    <3> QED  BY <2>1, <3>2, <3>5 DEF CacheKept
  <2> QED  BY <1>2, <2>2, <2>3 DEF EarlyInit
<1>3. ASSUME DetectRedirect PROVE CacheKept
  <2>1. cache'.fd = cache.fd /\ (cache'.flag => cache.flag \/ cache.fd \in Strays) /\ astray' = astray
    BY <1>3, <1>a, VerifyType DEF DetectRedirect, CacheTypes
  <2> QED  BY <2>1 DEF CacheKept
<1>4. ASSUME cache' = cache, astray' = astray PROVE CacheKept
  BY <1>4 DEF CacheKept
<1>5. ASSUME NEW t \in Threads, Round(t) PROVE OpenByPath(t) \/ (cache' = cache /\ astray' = astray)
  BY <1>5 DEF Round, SelfStep, UseCached, NoFile, MapAndVerify, MapFails, DexStep, DexCrash, InnerStep
<1>6. ASSUME Main PROVE EarlyInit \/ (cache' = cache /\ astray' = astray)
  BY <1>6 DEF Main, OnLoad, OnLoadEnds, FirstRound, SelfVerify, Sign, SkipSign, Check, CheckDone, Release,
              CheckIntegrity
<1>7. ASSUME Guard \/ Replace \/ ChangeText \/ UNCHANGED vars PROVE cache' = cache /\ astray' = astray
  BY <1>7 DEF Guard, GuardRound, GuardJudges, Kill, Replace, ChangeText, vars
<1> QED  BY <1>1, <1>2, <1>3, <1>4, <1>5, <1>6, <1>7 DEF Next

LEMMA OwnInit == Init => FilesAreOwn
BY FilesAssumption DEF Init, FilesAreOwn

LEMMA OwnStep == TypeOK /\ FilesAreOwn /\ [Next]_vars => FilesAreOwn'
<1> SUFFICES ASSUME TypeOK, FilesAreOwn, [Next]_vars PROVE FilesAreOwn'
  OBVIOUS
<1>1. CASE LoseDescriptor
  <2>1. PICK fd \in Strays \cup {"closed"} :
          cache' = [cache EXCEPT !.fd = fd] /\ astray' = (astray \/ fd \in Strays)
    BY <1>1 DEF LoseDescriptor
  <2>2. cache'.fd = fd /\ cache'.flag = cache.flag
    BY <2>1 DEF TypeOK
  <2> QED  BY <2>1, <2>2 DEF FilesAreOwn
<1>2. CASE CacheKept
  BY <1>2 DEF CacheKept, FilesAreOwn
<1> QED  BY <1>1, <1>2, CacheStep

\* Evidence of a redirect is only ever raised when another file has been behind
\* a descriptor of the code (mr_verify_fd_path), whatever updates or removals of
\* the package came in between.
THEOREM RedirectIsEvidence == Spec => []NoFalseRedirect
<1>1. FilesAreOwn => NoFalseRedirect
  BY DEF FilesAreOwn, NoFalseRedirect
<1>2. Spec => []TypeOK
  BY TypeCorrect
<1> QED  BY <1>1, <1>2, OwnInit, OwnStep, PTL DEF Spec

-----------------------------------------------------------------------------
(***************************************************************************)
(* A genuine process.                                                      *)
(***************************************************************************)
\* What a thread of a genuine process holds: nothing it has found failed, and a
\* round that has come to its end has left the value the guard expects.
RoundIsGood(t) ==
  /\ th[t].fd \in {"none", "cached", Loaded}
  /\ ~th[t].failed /\ th[t].result = 0
  /\ th[t].pc \in {"inner", "judge"} => canary = RoundCanary

Genuine ==
  /\ process = "up" /\ disk = Loaded /\ image.intact
  /\ cache.fd \in {"none", Loaded} /\ text.path # 0
  /\ th["guard"].pc # "kill"
  /\ \A t \in Threads : RoundIsGood(t)

\* How the library came is settled when it is loaded.
LoadedOnce == image.base = "dladdr" => image.where # "anonymous"

GenuineInv == LoadedOnce /\ (Untouched /\ InnerAgrees /\ ~given => Genuine)

\* A process that is still untouched after a step was so before it, and the step
\* is none of the changes.
LEMMA StaysUntouched ==
  ASSUME TypeOK, [Next]_vars, Untouched', ~given'
  PROVE  /\ Untouched /\ ~given
         /\ UNCHANGED files
         /\ ~Change
<1>1. ASSUME Change PROVE FALSE
  <2>1. changes \in Nat /\ changes' = changes + 1
    BY <1>1, ChangesAssumption DEF Change, TypeOK
  <2> QED  BY <2>1 DEF Untouched
<1>2. UNCHANGED files
  <2>1. ASSUME NEW t \in Threads, Round(t) PROVE UNCHANGED files
    BY <2>1, <1>1 DEF Round, SelfStep, UseCached, OpenByPath, NoFile, MapAndVerify, MapFails, DexStep, DexCrash,
                      InnerStep, files
  <2>2. ASSUME Main PROVE UNCHANGED files
    BY <2>2 DEF Main, EarlyInit, OnLoad, OnLoadEnds, FirstRound, SelfVerify, Sign, SkipSign, Check, CheckDone,
                Release, CheckIntegrity
  <2>3. ASSUME Guard \/ DetectRedirect \/ UNCHANGED vars PROVE UNCHANGED files
    BY <2>3 DEF Guard, GuardRound, GuardJudges, Kill, DetectRedirect, vars
  <2>4. ASSUME Replace \/ LoseDescriptor \/ ChangeText PROVE FALSE
    BY <2>4, <1>1 DEF Replace, LoseDescriptor, ChangeText
  <2> QED  BY <2>1, <2>2, <2>3, <2>4 DEF Next
<1> QED  BY <1>1, <1>2 DEF Untouched, files

LEMMA LoadedOnceStep == LoadedOnce /\ [Next]_vars /\ TypeOK => LoadedOnce'
<1> SUFFICES ASSUME LoadedOnce, [Next]_vars, TypeOK PROVE LoadedOnce'
  OBVIOUS
<1>1. CASE ChangeText
  BY <1>1 DEF ChangeText, LoadedOnce, TypeOK, Library
<1>2. CASE image' = image
  BY <1>2 DEF LoadedOnce
<1>3. ASSUME NEW t \in Threads, Round(t) PROVE image' = image
  BY <1>3 DEF Round, SelfStep, UseCached, OpenByPath, NoFile, MapAndVerify, MapFails, DexStep, DexCrash,
              InnerStep, files
<1>4. ASSUME Main PROVE image' = image
  BY <1>4 DEF Main, EarlyInit, OnLoad, OnLoadEnds, FirstRound, SelfVerify, Sign, SkipSign, Check, CheckDone,
              Release, CheckIntegrity, files
<1>5. ASSUME Guard \/ DetectRedirect \/ Replace \/ LoseDescriptor \/ UNCHANGED vars PROVE image' = image
  BY <1>5 DEF Guard, GuardRound, GuardJudges, Kill, DetectRedirect, Replace, LoseDescriptor, vars, files
<1> QED  BY <1>1, <1>2, <1>3, <1>4, <1>5 DEF Next

LEMMA GenuineInit == Init => GenuineInv
<1> SUFFICES ASSUME Init PROVE GenuineInv
  OBVIOUS
<1>1. LoadedOnce /\ image.intact
  BY ImagesAssumption DEF Init, LoadedOnce
<1>2. ASSUME NEW t \in Threads PROVE RoundIsGood(t) /\ th[t].pc # "kill"
  <2> DEFINE place == IF t = "main" THEN "constructor" ELSE "idle"
  <2>1. place \in {"constructor", "idle"}
    OBVIOUS
  <2>2. th[t] = Enter(place, "none", 0)
    BY DEF Init
  <2> HIDE DEF place
  <2>3. th[t].pc = place /\ th[t].fd = "none" /\ th[t].failed = FALSE /\ th[t].result = 0
    BY <2>2 DEF Enter
  <2> QED  BY <2>1, <2>3 DEF RoundIsGood
<1>3. th["guard"].pc # "kill"
  BY <1>2 DEF Threads
<1>4. process = "up" /\ disk = Loaded /\ cache.fd = "none" /\ text.path # 0
  BY DEF Init
<1> QED  BY <1>1, <1>2, <1>3, <1>4 DEF GenuineInv, Genuine

\* It is enough that the thread that moves has found nothing, and judges a round
\* only with the value in place.
LEMMA GoodAfter ==
  ASSUME TypeOK, Genuine, NEW t \in Threads, NEW pc, NEW fd, NEW failed, NEW result, NEW call,
         Becomes(t, pc, fd, failed, result, call),
         fd \in {"none", "cached", Loaded}, ~failed, result = 0, pc # "kill",
         canary' = canary \/ canary' = RoundCanary,
         pc \in {"inner", "judge"} => canary' = RoundCanary
  PROVE  (\A u \in Threads : RoundIsGood(u)') /\ th'["guard"].pc # "kill"
<1>1. ASSUME NEW u \in Threads PROVE RoundIsGood(u)' /\ (th[u].pc # "kill" => th'[u].pc # "kill")
  <2>1. CASE u = t
    BY <2>1 DEF Becomes, HasFields, RoundIsGood
  <2>2. CASE u # t
    <3>1. th'[u] = th[u] /\ RoundIsGood(u)
      BY <2>2 DEF Becomes, Genuine
    <3>2. canary = RoundCanary => canary' = RoundCanary
      OBVIOUS
    <3> QED  BY <3>1, <3>2 DEF RoundIsGood
  <2> QED  BY <2>1, <2>2
<1>2. "guard" \in Threads /\ th["guard"].pc # "kill"
  BY DEF Threads, Genuine
<1> QED  BY <1>1, <1>2

LEMMA MovesGood ==
  ASSUME TypeOK, Genuine, NEW t \in Threads, NEW pc \in Places \ {"kill", "inner", "judge"}, canary' = canary,
         Moves(t, pc) \/ \E call : Begins(t, pc, 0, call)
  PROVE  (\A u \in Threads : RoundIsGood(u)') /\ th'["guard"].pc # "kill"
<1>1. th[t].fd \in {"none", "cached", Loaded} /\ ~th[t].failed /\ th[t].result = 0
  BY DEF Genuine, RoundIsGood
<1>2. CASE Moves(t, pc)
  <2>1. Becomes(t, pc, th[t].fd, th[t].failed, th[t].result, th[t].call)
    BY <1>2 DEF Moves
  <2> QED  BY <1>1, <2>1, GoodAfter
<1>3. CASE \E call : Begins(t, pc, 0, call)
  <2>1. PICK call : Becomes(t, pc, "none", FALSE, 0, call)
    BY <1>3 DEF Begins
  <2> QED  BY <2>1, GoodAfter
<1> QED  BY <1>2, <1>3

\* The library is where it belongs and the build has patched it.
LEMMA TextPasses ==
  ASSUME TypeOK, LoadedOnce, Untouched, Genuine
  PROVE  /\ TextAfterInit.path # 0
         /\ \A txt : txt.path # 0 => SelfResult(txt) # 1
<1>1. image.base = "dladdr" => image.where \in {"data_app", "memfd"}
  BY DEF TypeOK, Library, LoadedOnce, Untouched
<1>2. TextAfterInit.path # 0
  BY <1>1 DEF TextAfterInit, Genuine
<1>3. image.patched /\ image.intact
  BY DEF Untouched, Genuine
<1> QED  BY <1>2, <1>3 DEF SelfResult

\* Nothing that a round finds in such a process fails it.
LEMMA RoundGood ==
  ASSUME TypeOK, LoadedOnce, Untouched, InnerAgrees, ~given, Genuine, ~Change, LoadedPasses,
         NEW t \in Threads, Round(t)
  PROVE  /\ (\A u \in Threads : RoundIsGood(u)') /\ th'["guard"].pc # "kill"
         /\ process' = "up" /\ text'.path # 0
<1>0. /\ th[t].fd \in {"none", "cached", Loaded} /\ th[t].failed = FALSE /\ th[t].result = 0
      /\ process = "up" /\ disk = Loaded /\ text.path # 0
  BY FieldTypes DEF Genuine, RoundIsGood
<1>1. CASE SelfStep(t)
  <2>1. text' = IF text.path = 0 THEN text ELSE TextAfterInit
    BY <1>1 DEF SelfStep
  <2>2. text'.path # 0 /\ SelfResult(text') # 1
    BY <1>0, <2>1, TextPasses
  <2>3. Becomes(t, "fd", th[t].fd, th[t].failed, th[t].result, th[t].call)
    <3>1. (SelfResult(text') = 1) = th[t].failed
      BY <1>0, <2>2
    <3> QED  BY <1>1, <3>1, SelfBecomes
  <2>4. canary' = canary /\ process' = process
    BY <1>1 DEF SelfStep
  <2> QED  BY <1>0, <2>2, <2>3, <2>4, GoodAfter
<1>2. CASE UseCached(t)
  <2>1. canary' = canary /\ process' = process /\ text' = text
    BY <1>2 DEF UseCached
  <2> QED  BY <1>0, <1>2, <2>1, CachedBecomes, GoodAfter
<1>3. CASE OpenByPath(t)
  <2>1. canary' = canary /\ process' = process /\ text' = text
    BY <1>3 DEF OpenByPath
  <2>2. PICK fd \in {"cached", disk} : Becomes(t, "map", fd, th[t].failed, th[t].result, th[t].call)
    BY <1>3, OpenBecomes
  <2>3. fd \in {"none", "cached", Loaded} /\ "map" # "kill" /\ "map" \notin {"inner", "judge"}
    BY <1>0
  <2> QED  BY <1>0, <2>1, <2>2, <2>3, GoodAfter
<1>4. CASE NoFile(t)
  <2>1. canary' = canary /\ process' = process /\ text' = text
    BY <1>4 DEF NoFile
  <2>2. "dex" \in Places \ {"kill", "inner", "judge"}
    BY DEF Places
  <2> QED  BY <1>0, <1>4, <2>1, <2>2, NoFileMoves, MovesGood
<1>5. CASE MapAndVerify(t)
  <2>1. canary' = canary /\ process' = process /\ text' = text
    BY <1>5 DEF MapAndVerify
  <2>2. File(t) = Loaded
    BY <1>0, <1>5, FilesAssumption DEF MapAndVerify, File, Genuine
  <2>3. (th[t].failed \/ Signature[File(t)] = 1) = FALSE
    BY <1>0, <2>2 DEF LoadedPasses
  <2>4. Becomes(t, "dex", "none", th[t].failed, th[t].result, th[t].call)
    BY <1>0, <1>5, <2>3, VerifyBecomes
  <2> QED  BY <1>0, <2>1, <2>4, GoodAfter
<1>6. CASE MapFails(t)
  <2>1. canary' = canary /\ process' = process /\ text' = text
    BY <1>6, Zenon DEF MapFails
  <2> QED  BY <1>0, <1>6, <2>1, FailsBecomes, GoodAfter
<1>7. CASE DexStep(t)
  <2>1. canary' = RoundCanary /\ process' = process /\ text' = text
    BY <1>7 DEF DexStep
  <2>2. DexAnswers(t) = {-1}
    BY DEF DexAnswers
  <2>3. \A answer \in DexAnswers(t) : (th[t].failed \/ answer = 1) = FALSE
    BY <1>0, <2>2
  <2>4. DexAnswered(t, FALSE)
    BY <1>7, <2>3, DexBecomes
  <2>5. Becomes(t, "inner", th[t].fd, FALSE, 0, th[t].call)
    BY <2>4 DEF DexAnswered
  <2> QED  BY <1>0, <2>1, <2>5, GoodAfter
<1>8. CASE DexCrash(t)
  BY <1>8 DEF DexCrash
<1>9. CASE InnerStep(t)
  <2>1. canary' = canary /\ process' = process /\ text' = text
    BY <1>9 DEF InnerStep
  <2>2. canary = RoundCanary
    BY <1>9 DEF InnerStep, Genuine, RoundIsGood
  <2>3. inner \notin {"environment", "self_test"}
    BY DEF InnerAgrees
  <2>4. Becomes(t, "judge", th[t].fd, th[t].failed, 0, th[t].call)
    BY <1>9, <2>3, InnerBecomes
  <2> QED  BY <1>0, <2>1, <2>2, <2>4, GoodAfter
<1> QED  BY <1>1, <1>2, <1>3, <1>4, <1>5, <1>6, <1>7, <1>8, <1>9 DEF Round

LEMMA MainGood ==
  ASSUME TypeOK, LoadedOnce, Untouched, ~given, Genuine, LoadedPasses, Main
  PROVE  /\ (\A u \in Threads : RoundIsGood(u)') /\ th'["guard"].pc # "kill"
         /\ process' = "up" /\ text'.path # 0
<1>0. /\ "main" \in Threads /\ th["main"].result = 0 /\ process = "up" /\ disk = Loaded /\ text.path # 0
      /\ Loaded # "gone"
  BY FilesAssumption DEF Genuine, RoundIsGood, Threads
<1>a. {"onload", "self", "verify", "release", "sign", "check", "integrity", "done"}
        \subseteq Places \ {"kill", "inner", "judge"}
  BY DEF Places
<1>b. ASSUME th' = th, canary' = canary PROVE (\A u \in Threads : RoundIsGood(u)') /\ th'["guard"].pc # "kill"
  BY <1>b DEF Genuine, RoundIsGood
<1>1. CASE EarlyInit
  <2>1. canary' = canary /\ process' = process /\ text' = text
    BY <1>1 DEF EarlyInit
  <2> QED  BY <1>0, <1>a, <1>1, <2>1, MovesByPc, MovesGood
<1>2. CASE OnLoad
  <2>1. canary' = canary /\ process' = process /\ text' = TextAfterInit
    BY <1>2 DEF OnLoad
  <2> QED  BY <1>0, <1>a, <1>2, <2>1, BeginsByCall, MovesGood, TextPasses
<1>3. CASE OnLoadEnds
  BY <1>3 DEF OnLoadEnds, Untouched
<1>4. CASE FirstRound
  <2>1. canary' = canary /\ process' = process /\ text' = text
    BY <1>0, <1>4 DEF FirstRound
  <2> QED  BY <1>0, <1>a, <1>b, <1>4, <2>1, MovesByPc, MovesGood
<1>5. CASE SelfVerify
  <2>1. canary' = canary /\ process' = process /\ text' = text
    BY <1>5 DEF SelfVerify, Genuine
  <2> QED  BY <1>0, <1>a, <1>b, <1>5, <2>1, MovesByPc, MovesGood
<1>6. CASE Sign
  <2>1. canary' = canary /\ process' = process /\ text' = text
    BY <1>6 DEF Sign
  <2>2. SignAnswers = {0}
    BY <1>0 DEF LoadedPasses, SignAnswers, Untouched
  <2>3. Begins("main", "check", 0, "sign")
    BY <1>6, <2>2, BeginsByCall
  <2> QED  BY <1>0, <1>a, <2>1, <2>3, MovesGood
<1>7. CASE SkipSign
  <2>1. canary' = canary /\ process' = process /\ text' = text
    BY <1>7 DEF SkipSign
  <2> QED  BY <1>0, <1>a, <1>7, <2>1, BeginsByCall, MovesGood
<1>8. CASE Check
  <2>1. canary' = canary /\ process' = process /\ text' = text
    BY <1>8 DEF Check
  <2> QED  BY <1>0, <1>a, <1>8, <2>1, BeginsByCall, MovesGood
<1>9. CASE CheckDone
  <2>1. canary' = canary /\ process' = process /\ text' = text
    BY <1>9 DEF CheckDone
  <2> QED  BY <1>0, <1>a, <1>9, <2>1, BeginsByCall, MovesGood
<1>10. CASE Release
  <2>1. canary' = canary /\ process' = process /\ text' = text
    BY <1>10 DEF Release
  <2> QED  BY <1>0, <1>a, <1>10, <2>1, BeginsByCall, MovesGood
<1>11. CASE CheckIntegrity
  <2>1. canary' = canary /\ process' = process /\ text' = text
    BY <1>11 DEF CheckIntegrity
  <2>2. Integrity[disk] = 0
    BY <1>0 DEF LoadedPasses
  <2>3. Begins("main", "done", 0, "integrity")
    BY <1>0, <1>11, <2>2, BeginsByCall
  <2> QED  BY <1>0, <1>a, <2>1, <2>3, MovesGood
<1> QED  BY <1>1, <1>2, <1>3, <1>4, <1>5, <1>6, <1>7, <1>8, <1>9, <1>10, <1>11 DEF Main

LEMMA GuardGood ==
  ASSUME TypeOK, LoadedOnce, Untouched, ~given, Genuine, Guard
  PROVE  /\ (\A u \in Threads : RoundIsGood(u)') /\ th'["guard"].pc # "kill"
         /\ process' = "up" /\ text'.path # 0
<1>0. "guard" \in Threads /\ th["guard"].result = 0 /\ process = "up" /\ text.path # 0
  BY DEF Genuine, RoundIsGood, Threads
<1>a. {"self", "idle"} \subseteq Places \ {"kill", "inner", "judge"}
  BY DEF Places
<1>1. CASE GuardRound
  <2>1. canary' = canary /\ process' = process /\ text' = text
    BY <1>1 DEF GuardRound
  <2> QED  BY <1>0, <1>a, <1>1, <2>1, BeginsByCall, MovesGood
<1>2. CASE GuardJudges
  <2>1. canary = CanaryExpected
    BY <1>0, <1>2 DEF GuardJudges, Genuine, RoundIsGood, RoundCanary, CanaryExpected
  <2>2. canary' = canary /\ process' = process /\ text' = text
    BY <1>0, <1>2, <2>1 DEF GuardJudges
  <2>3. Begins("guard", "idle", 0, "none")
    BY <1>0, <1>2, <2>1, MovesByPc
  <2> QED  BY <1>0, <1>a, <2>2, <2>3, MovesGood
<1>3. CASE Kill
  BY <1>3 DEF Kill, Genuine
<1> QED  BY <1>1, <1>2, <1>3 DEF Guard

LEMMA GenuineStep ==
  ASSUME LoadedPasses
  PROVE  TypeOK /\ GenuineInv /\ [Next]_vars => GenuineInv'
<1> SUFFICES ASSUME TypeOK, GenuineInv, [Next]_vars, Untouched', InnerAgrees', ~given' PROVE Genuine'
  BY LoadedOnceStep DEF GenuineInv
<1>1. Untouched /\ InnerAgrees /\ ~given /\ ~Change /\ Genuine /\ LoadedOnce
  BY StaysUntouched DEF GenuineInv, InnerAgrees, files
<1>2. disk' = Loaded /\ image'.intact
  BY <1>1, StaysUntouched DEF files, Genuine
<1>3. cache'.fd \in {"none", Loaded}
  BY <1>1, CacheStep DEF LoseDescriptor, CacheKept, Genuine
<1>4. /\ (\A u \in Threads : RoundIsGood(u)') /\ th'["guard"].pc # "kill"
      /\ process' = "up" /\ text'.path # 0
  <2>1. CASE \E t \in Threads : Round(t)
    BY <1>1, <2>1, RoundGood
  <2>2. CASE Main
    BY <1>1, <2>2, MainGood
  <2>3. CASE Guard
    BY <1>1, <2>3, GuardGood
  <2>4. CASE DetectRedirect \/ UNCHANGED vars
    <3>1. th' = th /\ canary' = canary /\ process' = process /\ text' = text
      BY <2>4 DEF DetectRedirect, vars
    <3> QED  BY <1>1, <3>1 DEF Genuine, RoundIsGood
  <2>5. CASE Replace \/ LoseDescriptor \/ ChangeText
    BY <1>1, <2>5 DEF Replace, LoseDescriptor, ChangeText
  <2> QED  BY <2>1, <2>2, <2>3, <2>4, <2>5 DEF Next
<1> QED  BY <1>2, <1>3, <1>4 DEF Genuine

\* An untouched process without a checksum table, whose inner library is not loaded
\* or agrees, is never ended by the checks and no violation reported in it
\* (validator_core.c, trigger_scheduler.c, sig_verify.c, integrity.c), in whatever
\* order first round, provider's calls and guard's rounds come, provided the file of
\* the app passes the pure checks itself.  With a table or with the inner library of
\* the checked-in byte code this is not so (GenuineSurvives, InnerIsNoAlarm).
THEOREM GenuineIsNotHarmed ==
  ASSUME LoadedPasses
  PROVE  Spec => []NoFalseAlarm
<1>1. TypeOK /\ GenuineInv => GenuineIsKept
  BY DEF GenuineInv, Genuine, GenuineIsKept, RoundIsGood, Threads
<1>2. Spec => []TypeOK
  BY TypeCorrect
<1>3. Spec => []NoFalseRedirect
  BY RedirectIsEvidence
<1>4. Spec => [](TypeOK /\ GenuineInv)
  BY <1>2, GenuineInit, GenuineStep, PTL DEF Spec
<1> QED  BY <1>1, <1>3, <1>4, PTL DEF NoFalseAlarm

-----------------------------------------------------------------------------
(***************************************************************************)
(* The throttle of the warnings (defender_response.c).  The calls are made *)
(* one after another; after each the table holds of every slot the report  *)
(* that took it last (TableIs), and is ordered enough by age that the slot *)
(* the search finds first is the newest of its key (FirstIsNewest, Apart). *)
(* A least counterexample takes the place of an induction.                 *)
(***************************************************************************)
LEMMA LeastExists ==
  ASSUME NEW S \in SUBSET Nat, S # {}
  PROVE  \E m \in S : \A n \in S : m <= n
<1> DEFINE R == {ss \in Nat \X Nat : ss[1] < ss[2]}
<1>1. IsWellFoundedOn(R, Nat)
  BY NatLessThanWellFounded DEF OpToRel
<1> HIDE DEF R
<1>2. PICK m \in S : \A n \in S : <<n, m>> \notin R
  BY <1>1, WFMin
<1>3. \A n \in S : ~(n < m)
  BY <1>2 DEF R
<1> QED BY <1>3

LEMMA FirstIs ==
  ASSUME NEW S \in SUBSET (1 .. Slots), S # {}
  PROVE  First(S) \in S /\ \A i \in S : First(S) <= i
<1>1. S \in SUBSET Nat
  BY ThrottleAssumption
<1>2. \E m \in S : \A n \in S : m <= n
  BY <1>1, LeastExists
<1> QED BY <1>2 DEF First

\* A set of numbers up to n has a greatest one.
LEMMA GreatestExists ==
  ASSUME NEW n \in Nat, NEW S \in SUBSET (1 .. n), S # {}
  PROVE  \E m \in S : \A i \in S : i <= m
<1> DEFINE U == {m \in Nat : \A i \in S : i <= m}
<1>1. n \in U /\ U \in SUBSET Nat
  OBVIOUS
<1>2. PICK m \in U : \A k \in U : m <= k
  <2> HIDE DEF U
  <2> QED BY <1>1, LeastExists
<1>3. m \in S
  <2> SUFFICES ASSUME m \notin S PROVE FALSE
    OBVIOUS
  <2>1. \A i \in S : i \in Nat /\ 1 <= i /\ i <= m - 1
    BY <1>2
  <2>2. m \in Nat /\ m >= 1
    <3>1. m \in Nat
      OBVIOUS
    <3>2. PICK i \in S : TRUE
      OBVIOUS
    <3> QED BY <2>1, <3>1, <3>2
  <2>3. m - 1 \in U
    BY <2>1, <2>2
  <2> QED BY <1>2, <2>2, <2>3
<1> QED BY <1>2, <1>3

-----------------------------------------------------------------------------
(***************************************************************************)
(* The throttle of the warnings.                                           *)
(***************************************************************************)
\* The tables of a sequence of calls, whose times do not fall.
Warnings(calls) ==
  /\ calls \in [1 .. MaxCalls -> [key : Keys, at : Nat]]
  /\ \A i, j \in 1 .. MaxCalls : i <= j => calls[i].at <= calls[j].at
Runs(calls, table) ==
  /\ table[0] = EmptyTable
  /\ \A n \in 1 .. MaxCalls : table[n] = Throttle(table[n - 1], calls[n])
Reported(calls, table, n) == ~Waits(table[n - 1], calls[n])

\* The call whose report a slot holds after n calls, or 0.
Takers(calls, table, n, p) ==
  {i \in 1 .. n : Reported(calls, table, i) /\ SlotOf(table[i - 1], calls[i]) = p}
Taker(calls, table, n, p) ==
  LET S == Takers(calls, table, n, p) IN
  IF S = {} THEN 0 ELSE CHOOSE i \in S : \A j \in S : j <= i

LEMMA TakerSteps ==
  ASSUME NEW calls, NEW table, NEW n \in 1 .. MaxCalls, NEW p
  PROVE  Taker(calls, table, n, p)
           = IF Reported(calls, table, n) /\ SlotOf(table[n - 1], calls[n]) = p THEN n
             ELSE Taker(calls, table, n - 1, p)
<1> DEFINE S == Takers(calls, table, n, p)
           T == Takers(calls, table, n - 1, p)
           Takes(i) == Reported(calls, table, i) /\ SlotOf(table[i - 1], calls[i]) = p
<1>0. n \in Nat /\ n >= 1
  BY ThrottleAssumption
<1>1. CASE Takes(n)
  <2>1. n \in S /\ \A j \in S : j <= n
    BY <1>0, <1>1 DEF Takers
  <2>2. (CHOOSE i \in S : \A j \in S : j <= i) = n
    <3>1. \A i \in S : (\A j \in S : j <= i) => i = n
      BY <2>1, <1>0 DEF Takers
    <3> HIDE DEF S
    <3> QED BY <2>1, <3>1
  <2> QED BY <1>1, <2>1, <2>2 DEF Taker
<1>2. CASE ~Takes(n)
  <2>1. S = T
    BY <1>0, <1>2 DEF Takers
  <2> QED BY <1>2, <2>1 DEF Taker
<1> QED BY <1>1, <1>2

LEMMA TakerRange ==
  ASSUME NEW calls, NEW table, NEW n \in 0 .. MaxCalls, NEW p
  PROVE  /\ Taker(calls, table, n, p) \in 0 .. n
         /\ Taker(calls, table, n, p) > 0 =>
              LET o == Taker(calls, table, n, p) IN
              Reported(calls, table, o) /\ SlotOf(table[o - 1], calls[o]) = p
         /\ n = 0 => Taker(calls, table, n, p) = 0
<1> DEFINE S == Takers(calls, table, n, p)
<1>0. n \in Nat
  BY ThrottleAssumption
<1>1. S \in SUBSET (1 .. n) /\ \A i \in S : Reported(calls, table, i) /\ SlotOf(table[i - 1], calls[i]) = p
  BY DEF Takers
<1>2. CASE S = {}
  BY <1>0, <1>2 DEF Taker
<1>3. CASE S # {}
  <2>1. \E m \in S : \A i \in S : i <= m
    BY <1>0, <1>1, <1>3, GreatestExists
  <2>2. Taker(calls, table, n, p) \in S
    BY <1>3, <2>1 DEF Taker
  <2> QED BY <1>0, <1>1, <2>2
<1> QED BY <1>2, <1>3

LEMMA KeysAreCut ==
  ASSUME NEW key \in Keys
  PROVE  /\ key # <<>> /\ Cut(key) # <<>> /\ Len(Cut(key)) <= KeyCells
         /\ Len(key) <= KeyCells => Cut(key) = key
         /\ Len(key) \in Nat
<1>1. key \in Seq(STRING) /\ Len(key) \in Nat /\ Len(key) > 0 /\ KeyCells \in Nat /\ KeyCells > 0
  BY ThrottleAssumption
<1>2. CASE Len(key) <= KeyCells
  BY <1>1, <1>2 DEF Cut
<1>3. CASE ~(Len(key) <= KeyCells)
  <2>1. Cut(key) = SubSeq(key, 1, KeyCells)
    BY <1>3 DEF Cut
  <2>2. Len(SubSeq(key, 1, KeyCells)) = KeyCells
    BY <1>1, <1>3
  <2> QED BY <1>1, <1>3, <2>1, <2>2
<1> QED BY <1>2, <1>3

\* The slot of a report: the first of its key, or a free one, or one of the oldest.
LEMMA SlotsAreChosen ==
  ASSUME NEW table, \A p \in 1 .. Slots : table[p].at \in Nat, NEW call
  PROVE  /\ SlotOf(table, call) \in 1 .. Slots
         /\ \A p \in 1 .. Slots : table[p].key = call.key =>
              /\ SlotOf(table, call) <= p /\ table[SlotOf(table, call)].key = call.key
              /\ Waits(table, call) <=> call.at - table[SlotOf(table, call)].at < Period
         /\ Waits(table, call) => table[SlotOf(table, call)].key = call.key
         /\ \/ table[SlotOf(table, call)].key \in {call.key, <<>>}
            \/ \A p \in 1 .. Slots : table[SlotOf(table, call)].at <= table[p].at /\ table[p].key # <<>>
<1> DEFINE mine == Mine(table, call.key)
           free == {i \in 1 .. Slots : table[i].key = <<>>}
           old == {i \in 1 .. Slots : \A j \in 1 .. Slots : table[i].at <= table[j].at}
<1>1. mine \in SUBSET (1 .. Slots) /\ \A p \in 1 .. Slots : p \in mine <=> table[p].key = call.key
  BY DEF Mine
<1>2. CASE mine # {}
  <2>1. First(mine) \in mine /\ \A p \in mine : First(mine) <= p
    BY <1>1, <1>2, FirstIs
  <2>2. SlotOf(table, call) = First(mine)
    BY <1>2 DEF SlotOf
  <2>3. Waits(table, call) <=> call.at - table[First(mine)].at < Period
    BY <1>2 DEF Waits
  <2> HIDE DEF mine
  <2> QED BY <1>1, <2>1, <2>2, <2>3
<1>3. CASE mine = {}
  <2>1. SlotOf(table, call) = SlotFor(table) /\ ~Waits(table, call)
    BY <1>3 DEF SlotOf, Waits
  <2>2. CASE free # {}
    <3>1. SlotFor(table) = First(free)
      BY <2>2 DEF SlotFor
    <3>2. First(free) \in free
      BY <2>2, FirstIs
    <3> QED BY <1>1, <1>3, <2>1, <3>1, <3>2
  <2>3. CASE free = {}
    <3>1. SlotFor(table) = First(old)
      BY <2>3 DEF SlotFor
    <3>2. old # {}
      <4> DEFINE times == {table[i].at : i \in 1 .. Slots}
      <4>1. times \in SUBSET Nat
        OBVIOUS
      <4>2. table[1].at \in times
        BY ThrottleAssumption
      <4>3. PICK t \in times : \A u \in times : t <= u
        <5> HIDE DEF times
        <5> QED BY <4>1, <4>2, LeastExists
      <4>4. PICK i \in 1 .. Slots : t = table[i].at
        OBVIOUS
      <4>5. i \in old
        BY <4>3, <4>4
      <4> QED BY <4>5
    <3>3. First(old) \in old
      BY <3>2, FirstIs
    <3> QED BY <1>1, <1>3, <2>1, <2>3, <3>1, <3>3
  <2> QED BY <2>2, <2>3
<1> QED BY <1>2, <1>3

\* What the table holds after n calls: of each slot the report that took it last;
\* of a slot that a call took whose key is not cut, no slot of that key before it is
\* older, and another slot taken by a call of the same key is older or newer by a period.
Held(calls, i) == IF i = 0 THEN Free ELSE [key |-> Cut(calls[i].key), at |-> calls[i].at]
Fits(calls, i) == Len(calls[i].key) <= KeyCells
TableIs(calls, table, n) ==
  table[n] = [p \in 1 .. Slots |-> Held(calls, Taker(calls, table, n, p))]
FirstIsNewest(calls, take(_)) ==
  \A p, q \in 1 .. Slots :
    q < p /\ take(p) > 0 /\ take(q) > 0 /\ Fits(calls, take(p)) /\ Cut(calls[take(q)].key) = calls[take(p)].key
      => calls[take(p)].at <= calls[take(q)].at
Apart(calls, take(_)) ==
  \A p, q \in 1 .. Slots :
    take(p) > 0 /\ take(p) < take(q) /\ Fits(calls, take(p)) /\ calls[take(p)].key = calls[take(q)].key
      => calls[take(p)].at + Period <= calls[take(q)].at
TableInv(calls, table, n) ==
  /\ TableIs(calls, table, n)
  /\ FirstIsNewest(calls, LAMBDA p : Taker(calls, table, n, p))
  /\ Apart(calls, LAMBDA p : Taker(calls, table, n, p))

LEMMA TableStarts ==
  ASSUME NEW calls, NEW table, Runs(calls, table)
  PROVE  TableInv(calls, table, 0)
<1>1. 0 \in 0 .. MaxCalls
  BY ThrottleAssumption
<1>2. \A p : Taker(calls, table, 0, p) = 0
  BY <1>1, TakerRange
<1>3. TableIs(calls, table, 0)
  BY <1>2 DEF TableIs, Held, Runs, EmptyTable
<1> QED BY <1>2, <1>3 DEF TableInv, FirstIsNewest, Apart

LEMMA TableGoesOn ==
  ASSUME NEW calls, Warnings(calls), NEW table, Runs(calls, table),
         NEW n \in 1 .. MaxCalls, TableInv(calls, table, n - 1)
  PROVE  TableInv(calls, table, n)
<1> DEFINE old(p) == Taker(calls, table, n - 1, p)
           new(p) == Taker(calls, table, n, p)
           q == SlotOf(table[n - 1], calls[n])
           before == table[n - 1]
<1>1. /\ n \in Nat /\ n >= 1 /\ n <= MaxCalls /\ n - 1 \in 0 .. MaxCalls /\ MaxCalls \in Nat
      /\ Slots \in Nat /\ KeyCells \in Nat /\ Period \in Nat
  BY ThrottleAssumption
<1>2. /\ \A p : new(p) = IF Reported(calls, table, n) /\ q = p THEN n ELSE old(p)
      /\ \A p : old(p) \in 0 .. n - 1
  BY <1>1, TakerSteps, TakerRange
<1>3. /\ before = [p \in 1 .. Slots |-> Held(calls, old(p))]
      /\ table[n] = Throttle(before, calls[n])
  BY DEF TableInv, TableIs, Runs
<1>4. /\ FirstIsNewest(calls, old) /\ Apart(calls, old)
  BY DEF TableInv
<1>5. /\ TableInv(calls, table, n)
           <=> /\ table[n] = [p \in 1 .. Slots |-> Held(calls, new(p))]
               /\ FirstIsNewest(calls, new) /\ Apart(calls, new)
  BY DEF TableInv, TableIs
<1>6. \A i \in 1 .. n : /\ calls[i].key \in Keys /\ calls[i].at \in Nat /\ calls[i].at <= calls[n].at
                       /\ Held(calls, i) = [key |-> Cut(calls[i].key), at |-> calls[i].at]
  <2>1. \A i \in 1 .. n : i \in 1 .. MaxCalls /\ i # 0 /\ i <= n
    BY <1>1
  <2>2. \A i \in 1 .. n : calls[i] \in [key : Keys, at : Nat] /\ calls[i].at <= calls[n].at
    BY <2>1 DEF Warnings
  <2> QED BY <2>1, <2>2 DEF Held
<1>7. \A p \in 1 .. Slots :
        /\ before[p] = Held(calls, old(p)) /\ before[p].at \in Nat
        /\ old(p) = 0 => before[p].key = <<>>
        /\ old(p) # 0 => /\ old(p) \in 1 .. n /\ before[p].key = Cut(calls[old(p)].key)
                         /\ before[p].at = calls[old(p)].at
  <2> SUFFICES ASSUME NEW p \in 1 .. Slots
               PROVE  /\ before[p] = Held(calls, old(p)) /\ before[p].at \in Nat
                      /\ old(p) = 0 => before[p].key = <<>>
                      /\ old(p) # 0 => /\ old(p) \in 1 .. n /\ before[p].key = Cut(calls[old(p)].key)
                                       /\ before[p].at = calls[old(p)].at
    OBVIOUS
  <2>1. before[p] = Held(calls, old(p))
    BY <1>3
  <2>2. old(p) = 0 => before[p] = Free
    BY <2>1 DEF Held
  <2>3. old(p) # 0 => old(p) \in 1 .. n
    BY <1>1, <1>2
  <2> HIDE DEF before, old
  <2> QED BY <2>1, <2>2, <2>3, <1>6 DEF Free
<1>8. /\ q \in 1 .. Slots
      /\ \A p \in 1 .. Slots : before[p].key = calls[n].key =>
           /\ q <= p /\ before[q].key = calls[n].key
           /\ Waits(before, calls[n]) <=> calls[n].at - before[q].at < Period
  BY <1>7, SlotsAreChosen
<1>9. n \in 1 .. n /\ calls[n].key \in Keys /\ calls[n].at \in Nat
  BY <1>1, <1>6
<1> HIDE DEF old, new, q, before
<1>10. CASE Waits(before, calls[n])
  <2>1. \A p : new(p) = old(p)
    BY <1>2, <1>10 DEF Reported, before
  <2>2. table[n] = before
    BY <1>3, <1>10 DEF Throttle
  <2> QED BY <1>3, <1>4, <1>5, <2>1, <2>2 DEF FirstIsNewest, Apart
<1>11. CASE ~Waits(before, calls[n])
  <2>1. \A p : new(p) = IF p = q THEN n ELSE old(p)
    BY <1>2, <1>11 DEF Reported, before
  <2>2. table[n] = [before EXCEPT ![q] = [key |-> Cut(calls[n].key), at |-> calls[n].at]]
    BY <1>3, <1>11 DEF Throttle, q, before
  <2>3. table[n] = [p \in 1 .. Slots |-> Held(calls, new(p))]
    <3>1. new(q) = n /\ Held(calls, n) = [key |-> Cut(calls[n].key), at |-> calls[n].at]
      BY <2>1, <1>6, <1>9
    <3>2. \A p \in 1 .. Slots : p # q => Held(calls, new(p)) = Held(calls, old(p))
      BY <2>1
    <3> QED BY <1>3, <1>8, <2>2, <3>1, <3>2
  <2>4. FirstIsNewest(calls, new)
    <3> SUFFICES ASSUME NEW p \in 1 .. Slots, NEW r \in 1 .. Slots,
                        r < p, new(p) > 0, new(r) > 0, Fits(calls, new(p)),
                        Cut(calls[new(r)].key) = calls[new(p)].key
                 PROVE  calls[new(p)].at <= calls[new(r)].at
      BY DEF FirstIsNewest
    <3>1. CASE r = q
      <4>1. new(r) = n /\ new(p) = old(p) /\ new(p) \in 1 .. n
        BY <3>1, <2>1, <1>1, <1>2
      <4> QED BY <4>1, <1>6
    <3>2. CASE p = q
      <4>1. new(p) = n /\ new(r) = old(r) /\ old(r) # 0
        BY <3>2, <2>1, <1>1, <1>2
      <4>2. before[r].key = calls[n].key
        BY <4>1, <1>7
      <4> QED BY <4>2, <1>8, <3>2
    <3>3. CASE p # q /\ r # q
      <4>1. new(p) = old(p) /\ new(r) = old(r)
        BY <3>3, <2>1
      <4> QED BY <4>1, <1>4 DEF FirstIsNewest
    <3> QED BY <3>1, <3>2, <3>3
  <2>5. Apart(calls, new)
    <3> SUFFICES ASSUME NEW p \in 1 .. Slots, NEW r \in 1 .. Slots,
                        new(p) > 0, new(p) < new(r), Fits(calls, new(p)),
                        calls[new(p)].key = calls[new(r)].key
                 PROVE  calls[new(p)].at + Period <= calls[new(r)].at
      BY DEF Apart
    <3>1. CASE p = q
      BY <3>1, <2>1, <1>1, <1>2
    <3>2. CASE r = q /\ p # q
      <4>1. new(r) = n /\ new(p) = old(p) /\ old(p) # 0 /\ old(p) \in 1 .. n
        BY <3>2, <2>1, <1>1, <1>2
      <4>2. before[p].key = calls[n].key /\ before[p].at = calls[old(p)].at
        BY <4>1, <1>7, <1>6, KeysAreCut DEF Fits
      <4>3. q < p /\ before[q].key = calls[n].key /\ ~(calls[n].at - before[q].at < Period)
        BY <4>2, <1>8, <1>11, <3>2, <1>1
      <4>4. old(q) # 0 /\ old(q) > 0 /\ Cut(calls[old(q)].key) = calls[n].key
            /\ before[q].at = calls[old(q)].at
        BY <4>3, <1>7, <1>8, <1>9, <1>2, <1>1, KeysAreCut
      <4>5. calls[old(p)].at <= calls[old(q)].at
        BY <4>1, <4>3, <4>4, <1>4, <1>8 DEF FirstIsNewest
      <4>6. calls[old(p)].at \in Nat /\ before[q].at \in Nat
        BY <4>1, <1>6, <1>7, <1>8
      <4> QED BY <4>1, <4>3, <4>4, <4>5, <4>6, <1>9, <1>1
    <3>3. CASE p # q /\ r # q
      <4>1. new(p) = old(p) /\ new(r) = old(r)
        BY <3>3, <2>1
      <4> QED BY <4>1, <1>4 DEF Apart
    <3> QED BY <3>1, <3>2, <3>3
  <2> QED BY <1>5, <2>3, <2>4, <2>5
<1> QED BY <1>10, <1>11

LEMMA TableStays ==
  ASSUME NEW calls, Warnings(calls), NEW table, Runs(calls, table)
  PROVE  \A n \in 0 .. MaxCalls : TableInv(calls, table, n)
<1> DEFINE Bad == {n \in 0 .. MaxCalls : ~TableInv(calls, table, n)}
<1> SUFFICES ASSUME Bad # {} PROVE FALSE
  OBVIOUS
<1>1. Bad \in SUBSET Nat
  BY ThrottleAssumption
<1>2. PICK m \in Bad : \A n \in Bad : m <= n
  BY <1>1, LeastExists
<1>3. CASE m = 0
  BY <1>2, <1>3, TableStarts
<1>4. CASE m # 0
  <2>1. m \in 1 .. MaxCalls /\ m - 1 \in 0 .. MaxCalls /\ ~(m <= m - 1)
    BY <1>4, ThrottleAssumption
  <2>2. TableInv(calls, table, m - 1)
    BY <1>2, <2>1
  <2> QED BY <2>1, <2>2, TableGoesOn
<1> QED BY <1>3, <1>4

\* What holds of the table before a call: a slot that holds something holds a report
\* that was made before.
LEMMA HeldIsReported ==
  ASSUME NEW calls, Warnings(calls), NEW table, Runs(calls, table),
         NEW n \in 0 .. MaxCalls, NEW p \in 1 .. Slots
  PROVE  LET o == Taker(calls, table, n, p) IN
         /\ o \in 0 .. n /\ table[n][p] = Held(calls, o) /\ table[n][p].at \in Nat
         /\ o = 0 => table[n][p].key = <<>>
         /\ o # 0 => /\ o \in 1 .. n /\ Reported(calls, table, o) /\ SlotOf(table[o - 1], calls[o]) = p
                     /\ calls[o].key \in Keys /\ calls[o].at \in Nat
                     /\ table[n][p].key = Cut(calls[o].key) /\ table[n][p].at = calls[o].at
<1> DEFINE o == Taker(calls, table, n, p)
<1>1. /\ o \in 0 .. n /\ n \in Nat /\ n <= MaxCalls
      /\ o > 0 => Reported(calls, table, o) /\ SlotOf(table[o - 1], calls[o]) = p
  <2>1. n \in Nat /\ n <= MaxCalls
    BY ThrottleAssumption
  <2> QED BY <2>1, TakerRange
<1>2. table[n][p] = Held(calls, o)
  <2>1. TableIs(calls, table, n)
    BY TableStays DEF TableInv
  <2> QED BY <2>1 DEF TableIs
<1> HIDE DEF o
<1>3. CASE o = 0
  BY <1>1, <1>2, <1>3 DEF Held, Free, o
<1>4. CASE o # 0
  <2>1. o \in 1 .. n /\ o \in 1 .. MaxCalls /\ o > 0
    BY <1>1, <1>4, ThrottleAssumption
  <2>2. calls[o] \in [key : Keys, at : Nat]
    BY <2>1 DEF Warnings
  <2> QED BY <1>1, <1>2, <1>4, <2>1, <2>2 DEF Held, o
<1> QED BY <1>3, <1>4

\* A key that is reported again within its period was displaced by as many reports
\* of other keys as there are slots.
Others(calls, table, i, j) ==
  {k \in 1 .. j - 1 : k # i /\ Reported(calls, table, k) /\ calls[k].at >= calls[i].at
                      /\ calls[k].key # calls[i].key}
LEMMA DisplacedByOthers ==
  ASSUME NEW calls, Warnings(calls), NEW table, Runs(calls, table),
         NEW i \in 1 .. MaxCalls, NEW j \in 1 .. MaxCalls, i < j,
         Reported(calls, table, i), Reported(calls, table, j),
         calls[i].key = calls[j].key, Fits(calls, i), calls[j].at - calls[i].at < Period
  PROVE  Slots <= Cardinality(Others(calls, table, i, j))
<1> DEFINE take(n, p) == Taker(calls, table, n, p)
           s == SlotOf(table[i - 1], calls[i])
           key == calls[i].key
<1>1. /\ i \in Nat /\ j \in Nat /\ 1 <= i /\ j <= MaxCalls /\ MaxCalls \in Nat
      /\ Slots \in Nat /\ KeyCells \in Nat /\ Period \in Nat /\ j - 1 \in 0 .. MaxCalls
  BY ThrottleAssumption
<1>2. \A n \in 1 .. MaxCalls : calls[n].key \in Keys /\ calls[n].at \in Nat
  BY DEF Warnings
<1>3. \A n, m \in 1 .. MaxCalls : n <= m => calls[n].at <= calls[m].at
  BY DEF Warnings
<1>4. Cut(key) = key /\ key \in Keys /\ key # <<>>
  BY <1>2, KeysAreCut DEF Fits
<1>5. \A n \in 1 .. MaxCalls :
        /\ n - 1 \in 0 .. MaxCalls
        /\ SlotOf(table[n - 1], calls[n]) \in 1 .. Slots
        /\ \A p \in 1 .. Slots : table[n - 1][p].key = calls[n].key =>
             /\ SlotOf(table[n - 1], calls[n]) <= p
             /\ table[n - 1][SlotOf(table[n - 1], calls[n])].key = calls[n].key
             /\ Waits(table[n - 1], calls[n])
                  <=> calls[n].at - table[n - 1][SlotOf(table[n - 1], calls[n])].at < Period
        /\ LET q == SlotOf(table[n - 1], calls[n]) IN
             \/ table[n - 1][q].key \in {calls[n].key, <<>>}
             \/ \A p \in 1 .. Slots : table[n - 1][q].at <= table[n - 1][p].at /\ table[n - 1][p].key # <<>>
  <2> SUFFICES ASSUME NEW n \in 1 .. MaxCalls
               PROVE  /\ n - 1 \in 0 .. MaxCalls
                      /\ \A p \in 1 .. Slots : table[n - 1][p].at \in Nat
    BY SlotsAreChosen
  <2>1. n - 1 \in 0 .. MaxCalls
    BY <1>1
  <2> QED BY <2>1, HeldIsReported
<1>6. s \in 1 .. Slots /\ take(i, s) = i
  BY <1>5, TakerSteps
<1>22. \A n \in 0 .. MaxCalls, p \in 1 .. Slots :
         /\ take(n, p) \in 0 .. n /\ table[n][p].at \in Nat
         /\ take(n, p) = 0 => table[n][p].key = <<>>
         /\ take(n, p) # 0 =>
              /\ take(n, p) \in 1 .. n /\ Reported(calls, table, take(n, p))
              /\ SlotOf(table[take(n, p) - 1], calls[take(n, p)]) = p
              /\ calls[take(n, p)].key \in Keys /\ calls[take(n, p)].at \in Nat
              /\ table[n][p].key = Cut(calls[take(n, p)].key)
              /\ table[n][p].at = calls[take(n, p)].at
  BY HeldIsReported
<1>23. \A n \in 0 .. MaxCalls : FirstIsNewest(calls, LAMBDA p : take(n, p)) /\ Apart(calls, LAMBDA p : take(n, p))
  <2> SUFFICES ASSUME NEW n \in 0 .. MaxCalls
               PROVE  FirstIsNewest(calls, LAMBDA p : take(n, p)) /\ Apart(calls, LAMBDA p : take(n, p))
    OBVIOUS
  <2>1. TableInv(calls, table, n)
    BY TableStays
  <2> QED BY <2>1 DEF TableInv
<1> HIDE DEF s, take, key
\* While the slot is still held, the call waits.
<1>7. take(j - 1, s) # i
  <2> SUFFICES ASSUME take(j - 1, s) = i PROVE FALSE
    OBVIOUS
  <2> DEFINE q == SlotOf(table[j - 1], calls[j])
             t == table[j - 1]
  <2>1. t[s].key = key /\ t[s].at = calls[i].at
    <3>1. take(j - 1, s) # 0
      BY <1>1
    <3>2. t[s].key = Cut(calls[take(j - 1, s)].key) /\ t[s].at = calls[take(j - 1, s)].at
      BY <1>1, <1>6, <1>22, <3>1
    <3> QED BY <3>2, <1>4 DEF key
  <2>2. /\ q \in 1 .. Slots /\ q <= s /\ t[q].key = key
        /\ ~(calls[j].at - t[q].at < Period)
    BY <1>5, <1>6, <2>1 DEF Reported, key
  <2>3. take(j - 1, q) # 0 /\ Cut(calls[take(j - 1, q)].key) = key /\ t[q].at = calls[take(j - 1, q)].at
        /\ take(j - 1, q) \in 0 .. j - 1 /\ t[q].at \in Nat
    BY <1>1, <1>4, <2>2, <1>22
  <2>4. FirstIsNewest(calls, LAMBDA p : take(j - 1, p))
    BY <1>1, <1>23
  <2> HIDE DEF q, t
  <2>5. q < s => calls[i].at <= calls[take(j - 1, q)].at
    <3> SUFFICES ASSUME q < s PROVE calls[i].at <= calls[take(j - 1, q)].at
      OBVIOUS
    <3>1. take(j - 1, s) > 0 /\ take(j - 1, q) > 0
      BY <1>1, <2>3
    <3> QED BY <1>6, <2>2, <2>3, <2>4, <3>1 DEF FirstIsNewest, key
  <2>6. calls[i].at <= t[q].at
    <3>1. CASE q = s
      BY <2>1, <2>3, <3>1
    <3>2. CASE q # s
      <4>1. q < s
        BY <2>2, <1>6, <3>2, <1>1
      <4> QED BY <2>3, <2>5, <4>1
    <3> QED BY <3>1, <3>2
  <2> QED BY <1>1, <1>2, <2>2, <2>3, <2>6
\* The report that took it away.
<1>8. PICK m \in i + 1 .. j - 1 : take(m - 1, s) = i /\ take(m, s) # i
  <2> DEFINE Lost == {n \in i .. j - 1 : take(n, s) # i}
  <2>1. Lost \in SUBSET Nat /\ j - 1 \in Lost
    BY <1>1, <1>7
  <2>2. PICK m \in Lost : \A n \in Lost : m <= n
    <3> HIDE DEF Lost
    <3> QED BY <2>1, LeastExists
  <2>3. m \in i .. j - 1 /\ m # i
    BY <1>6, <2>2
  <2>4. m - 1 \in i .. j - 1 /\ ~(m <= m - 1)
    BY <1>1, <2>3
  <2> QED BY <1>1, <2>2, <2>3, <2>4
<1> DEFINE t == table[m - 1]
<1>9. /\ m \in 1 .. MaxCalls /\ m \in Nat /\ i < m /\ m < j /\ m - 1 \in 0 .. MaxCalls
      /\ calls[i].at <= calls[m].at /\ calls[m].at <= calls[j].at
  BY <1>1, <1>3, <1>8
<1>10. Reported(calls, table, m) /\ SlotOf(t, calls[m]) = s
  BY <1>8, <1>9, TakerSteps DEF take
<1>11. t[s].key = key /\ t[s].at = calls[i].at
  <2>1. take(m - 1, s) # 0
    BY <1>1, <1>8
  <2>2. t[s].key = Cut(calls[take(m - 1, s)].key) /\ t[s].at = calls[take(m - 1, s)].at
    BY <1>6, <1>9, <1>22, <2>1
  <2> QED BY <2>2, <1>4, <1>8 DEF key
<1>12. calls[m].key # key
  <2> SUFFICES ASSUME calls[m].key = key PROVE FALSE
    OBVIOUS
  <2>1. ~(calls[m].at - calls[i].at < Period)
    BY <1>5, <1>6, <1>9, <1>10, <1>11 DEF Reported
  <2> QED BY <1>1, <1>2, <1>9, <2>1
<1>13. \A p \in 1 .. Slots : calls[i].at <= t[p].at /\ t[p].key # <<>>
  BY <1>4, <1>5, <1>9, <1>10, <1>11, <1>12
\* The others that the slots held then are of other keys.
<1>14. ASSUME NEW p \in 1 .. Slots, p # s
       PROVE  take(m - 1, p) \in Others(calls, table, i, j) /\ take(m - 1, p) < m
  <2> DEFINE o == take(m - 1, p)
  <2>1. /\ o \in 1 .. m - 1 /\ Reported(calls, table, o) /\ calls[o].at \in Nat
        /\ calls[i].at <= calls[o].at
    BY <1>9, <1>13, <1>22
  <2>2. SlotOf(table[o - 1], calls[o]) = p
    BY <1>9, <1>13, <1>22
  <2>3. o # i
    BY <2>2, <1>14 DEF s
  <2>4. calls[o].key # key
    <3> SUFFICES ASSUME calls[o].key = key PROVE FALSE
      OBVIOUS
    <3>1. Apart(calls, LAMBDA r : take(m - 1, r))
      BY <1>9, <1>23
    <3>2. o \in 1 .. MaxCalls /\ calls[o].at <= calls[m].at
      BY <1>1, <1>3, <1>9, <2>1
    <3>3. calls[i].at \in Nat /\ calls[m].at \in Nat /\ calls[j].at \in Nat
      BY <1>2, <1>9
    <3>4. CASE o < i
      <4>1. calls[o].at + Period <= calls[i].at
        BY <3>1, <3>4, <1>6, <1>8, <2>1 DEF Apart, key, Fits
      <4> QED BY <4>1, <2>1, <3>3, <1>9, <1>1
    <3>5. CASE i < o
      <4>1. calls[i].at + Period <= calls[o].at
        BY <3>1, <3>5, <1>1, <1>6, <1>8, <2>1 DEF Apart, key, Fits
      <4> QED BY <4>1, <2>1, <3>2, <3>3, <1>9, <1>1
    <3> QED BY <2>1, <2>3, <3>4, <3>5, <1>1
  <2>5. o \in 1 .. j - 1 /\ o < m
    BY <1>1, <1>9, <2>1
  <2> QED BY <2>1, <2>3, <2>4, <2>5 DEF Others, key
<1>15. m \in Others(calls, table, i, j)
  BY <1>1, <1>8, <1>9, <1>10, <1>12 DEF Others, key
\* One of them for each slot, and no two slots have the same.
<1> DEFINE g == [p \in 1 .. Slots |-> IF p = s THEN m ELSE take(m - 1, p)]
           O == Others(calls, table, i, j)
<1>16. g \in [1 .. Slots -> O]
  BY <1>14, <1>15
<1>17. \A p, r \in 1 .. Slots : g[p] = g[r] => p = r
  <2> SUFFICES ASSUME NEW p \in 1 .. Slots, NEW r \in 1 .. Slots, g[p] = g[r], p # r
               PROVE  FALSE
    OBVIOUS
  <2>1. CASE p = s \/ r = s
    BY <2>1, <1>9, <1>14
  <2>2. CASE p # s /\ r # s
    <3>1. take(m - 1, p) = take(m - 1, r) /\ take(m - 1, p) # 0 /\ take(m - 1, r) # 0
      BY <2>2, <1>14 DEF Others
    <3>2. SlotOf(table[take(m - 1, p) - 1], calls[take(m - 1, p)]) = p
      BY <3>1, <1>9, <1>22
    <3>3. SlotOf(table[take(m - 1, r) - 1], calls[take(m - 1, r)]) = r
      BY <3>1, <1>9, <1>22
    <3> QED BY <3>1, <3>2, <3>3
  <2> QED BY <2>1, <2>2
<1>18. IsFiniteSet(O)
  <2>1. IsFiniteSet(1 .. j - 1)
    BY <1>1, FS_Interval
  <2> QED BY <2>1, FS_Subset DEF Others
<1>19. Cardinality(1 .. Slots) = Slots
  BY <1>1, ThrottleAssumption, FS_Interval
<1> HIDE DEF g, O
<1>20. g \in Injection(1 .. Slots, O)
  BY <1>16, <1>17 DEF Injection, IsInjective
<1>21. Cardinality(1 .. Slots) <= Cardinality(O)
  BY <1>18, <1>20, FS_Injection
<1> QED BY <1>19, <1>21 DEF O

\* The tables of the calls are what each call makes of the one before.
LEMMA TablesRun ==
  ASSUME NEW calls, Len(calls) = MaxCalls
  PROVE  Runs(calls, Tables(calls))
<1> DEFINE F(g, n) == IF n = 0 THEN EmptyTable ELSE Throttle(g[n - 1], calls[n])
           table[n \in 0 .. Len(calls)] ==
             IF n = 0 THEN EmptyTable ELSE Throttle(table[n - 1], calls[n])
<1>1. \A k \in 0 .. MaxCalls : \E g : g = [n \in 0 .. k |-> F(g, n)]
  <2> DEFINE Bad == {k \in 0 .. MaxCalls : ~ \E g : g = [n \in 0 .. k |-> F(g, n)]}
  <2> SUFFICES ASSUME Bad # {} PROVE FALSE
    OBVIOUS
  <2>1. Bad \in SUBSET Nat
    BY ThrottleAssumption
  <2>2. PICK k \in Bad : \A m \in Bad : k <= m
    <3> HIDE DEF Bad
    <3> QED BY <2>1, LeastExists
  <2>3. k \in Nat /\ k \in 0 .. MaxCalls /\ ~ \E g : g = [n \in 0 .. k |-> F(g, n)]
    BY <2>1, <2>2
  <2>4. CASE k = 0
    <3> DEFINE g == [n \in 0 .. 0 |-> EmptyTable]
    <3>1. \A n \in 0 .. 0 : F(g, n) = EmptyTable
      OBVIOUS
    <3> HIDE DEF F
    <3>2. g = [n \in 0 .. 0 |-> F(g, n)]
      BY <3>1
    <3> QED BY <2>3, <2>4, <3>2
  <2>5. CASE k # 0
    <3>1. k - 1 \in 0 .. MaxCalls /\ ~(k <= k - 1)
      BY <2>3, <2>5
    <3>2. PICK g : g = [n \in 0 .. k - 1 |-> F(g, n)]
      BY <2>2, <3>1
    <3> DEFINE h == [n \in 0 .. k |-> IF n = k THEN Throttle(g[k - 1], calls[k]) ELSE g[n]]
    <3>3. \A n \in 0 .. k : h[n] = F(h, n)
      <4> SUFFICES ASSUME NEW n \in 0 .. k PROVE h[n] = F(h, n)
        OBVIOUS
      <4>1. CASE n = k
        <5>1. k - 1 \in 0 .. k /\ k - 1 # k
          BY <2>3, <2>5
        <5>2. h[k - 1] = g[k - 1]
          BY <5>1
        <5>3. h[k] = Throttle(g[k - 1], calls[k])
          BY <2>3
        <5> HIDE DEF h
        <5> QED BY <4>1, <5>2, <5>3, <2>5
      <4>2. CASE n # k
        <5>1. n \in 0 .. k - 1
          BY <2>3, <4>2
        <5>2. h[n] = g[n]
          BY <4>2
        <5>3. g[n] = F(g, n)
          <6> HIDE DEF F
          <6> QED BY <3>2, <5>1
        <5>4. n # 0 => n - 1 \in 0 .. k /\ n - 1 # k
          BY <2>3, <5>1
        <5>5. n # 0 => h[n - 1] = g[n - 1]
          BY <5>4
        <5> HIDE DEF h
        <5> QED BY <5>2, <5>3, <5>5
      <4> QED BY <4>1, <4>2
    <3>4. h = [n \in 0 .. k |-> h[n]]
      OBVIOUS
    <3> HIDE DEF F, h
    <3>5. h = [n \in 0 .. k |-> F(h, n)]
      BY <3>3, <3>4
    <3> QED BY <2>3, <3>5
  <2> QED BY <2>4, <2>5
<1>2. MaxCalls \in 0 .. MaxCalls /\ MaxCalls \in Nat
  BY ThrottleAssumption
<1>3. \E g : g = [n \in 0 .. Len(calls) |-> F(g, n)]
  <2> HIDE DEF F
  <2> QED BY <1>1, <1>2
<1>4. table = [n \in 0 .. Len(calls) |-> F(table, n)]
  BY <1>3
<1>5. Tables(calls) = table
  BY DEF Tables
<1> HIDE DEF table
<1>6. \A n \in 0 .. MaxCalls : table[n] = F(table, n)
  <2> HIDE DEF F
  <2> QED BY <1>4
<1>7. \A n \in 1 .. MaxCalls : n \in 0 .. MaxCalls /\ n # 0
  BY <1>2
<1> QED BY <1>2, <1>5, <1>6, <1>7 DEF Runs

\* The clock of the calls does not go back.
LEMMA ClocksRise ==
  ASSUME NEW clock \in Clocks
  PROVE  \A i, j \in 1 .. MaxCalls : i <= j => clock[i] <= clock[j]
<1>1. /\ clock \in [1 .. MaxCalls -> 0 .. Horizon] /\ MaxCalls \in Nat /\ Horizon \in Nat
      /\ \A i \in 2 .. MaxCalls : clock[i - 1] <= clock[i]
  BY ThrottleAssumption DEF Clocks
<1> SUFFICES ASSUME NEW i \in 1 .. MaxCalls, NEW j \in 1 .. MaxCalls, i <= j
             PROVE  clock[i] <= clock[j]
  OBVIOUS
<1> DEFINE Bad == {n \in i .. MaxCalls : ~(clock[i] <= clock[n])}
<1>0. j \in i .. MaxCalls
  BY <1>1
<1> SUFFICES ASSUME Bad # {} PROVE FALSE
  <2>1. ~(clock[i] <= clock[j]) => j \in Bad
    BY <1>0
  <2> HIDE DEF Bad
  <2> QED BY <2>1
<1>2. Bad \in SUBSET Nat
  BY <1>1
<1>3. PICK n \in Bad : \A m \in Bad : n <= m
  <2> HIDE DEF Bad
  <2> QED BY <1>2, LeastExists
<1>4. n \in i .. MaxCalls /\ ~(clock[i] <= clock[n]) /\ n # i
  BY <1>1, <1>3
<1>5. n - 1 \in i .. MaxCalls /\ ~(n <= n - 1) /\ n \in 2 .. MaxCalls
  BY <1>1, <1>4
<1>6. clock[i] <= clock[n - 1]
  BY <1>3, <1>5
<1>7. clock[i] \in Int /\ clock[n - 1] \in Int /\ clock[n] \in Int
  BY <1>1, <1>4, <1>5
<1> QED BY <1>1, <1>4, <1>5, <1>6, <1>7

LEMMA CallsSpaced == CallsAreSpaced
<1> SUFFICES ASSUME NEW keys \in [1 .. MaxCalls -> Keys], NEW clock \in Clocks,
                    NEW j \in 1 .. MaxCalls
             PROVE
      LET calls == [i \in 1 .. MaxCalls |-> [key |-> keys[i], at |-> clock[i]]]
          answers == Answers(calls)
          recent == {i \in 1 .. j - 1 : answers[i] = 1 /\ calls[j].at - calls[i].at < Period} IN
      /\ (\A i \in recent : Cut(calls[i].key) # calls[j].key) => answers[j] = 1
      /\ Len(calls[j].key) > KeyCells => answers[j] = 1
      /\ \A i \in recent :
           /\ calls[i].key = calls[j].key /\ Len(calls[j].key) <= KeyCells
           /\ Claimed(calls, answers, i, j) < Slots
           => answers[j] = 0
  BY DEF CallsAreSpaced
<1> DEFINE calls == [i \in 1 .. MaxCalls |-> [key |-> keys[i], at |-> clock[i]]]
           answers == Answers(calls)
           table == Tables(calls)
           recent == {i \in 1 .. j - 1 : answers[i] = 1 /\ calls[j].at - calls[i].at < Period}
           before == table[j - 1]
<1>1. MaxCalls \in Nat /\ j \in Nat /\ 1 <= j /\ j <= MaxCalls /\ j - 1 \in 0 .. MaxCalls
  BY ThrottleAssumption
<1>2. Warnings(calls) /\ Len(calls) = MaxCalls
  <2>1. \A i \in 1 .. MaxCalls : clock[i] \in Nat
    BY ThrottleAssumption DEF Clocks
  <2>2. calls \in [1 .. MaxCalls -> [key : Keys, at : Nat]]
    BY <2>1
  <2>3. \A i, k \in 1 .. MaxCalls : i <= k => calls[i].at <= calls[k].at
    BY ClocksRise
  <2>4. calls \in Seq([key : Keys, at : Nat]) /\ DOMAIN calls = 1 .. MaxCalls
    BY <2>2, <1>1, SeqDef
  <2>5. Len(calls) = MaxCalls
    <3> HIDE DEF calls
    <3> QED BY <2>4, <1>1, LenProperties, SMT
  <2> HIDE DEF calls
  <2> QED BY <2>2, <2>3, <2>5 DEF Warnings
<1>3. Runs(calls, table)
  BY <1>2, TablesRun
<1> HIDE DEF calls
<1>4. \A n \in 1 .. MaxCalls : answers[n] = IF Reported(calls, table, n) THEN 1 ELSE 0
  BY <1>2 DEF Answers, Reported
<1> HIDE DEF answers, table
<1>5. \A n \in 1 .. j - 1 : n \in 1 .. MaxCalls
  BY <1>1
<1>6. ASSUME ~Reported(calls, table, j)
      PROVE  /\ \E i \in recent : Cut(calls[i].key) = calls[j].key
             /\ Len(calls[j].key) <= KeyCells
  <2> DEFINE q == SlotOf(before, calls[j])
             o == Taker(calls, table, j - 1, q)
  <2>1. \A p \in 1 .. Slots : before[p].at \in Nat
    BY <1>1, <1>2, <1>3, HeldIsReported
  <2>2. q \in 1 .. Slots /\ before[q].key = calls[j].key /\ calls[j].at - before[q].at < Period
    BY <2>1, <1>6, SlotsAreChosen DEF Reported
  <2>3. calls[j].key \in Keys
    BY <1>2 DEF Warnings
  <2>4. /\ o \in 0 .. j - 1 /\ (o = 0 => before[q].key = <<>>)
        /\ o # 0 => /\ o \in 1 .. j - 1 /\ Reported(calls, table, o) /\ calls[o].key \in Keys
                    /\ before[q].key = Cut(calls[o].key) /\ before[q].at = calls[o].at
    <3> HIDE DEF q
    <3> QED BY <1>1, <1>2, <1>3, <2>2, HeldIsReported
  <2> HIDE DEF q, o, before
  <2>5. o # 0
    BY <2>2, <2>3, <2>4, KeysAreCut
  <2>6. o \in recent
    BY <1>4, <1>5, <2>2, <2>4, <2>5
  <2>7. Cut(calls[o].key) = calls[j].key /\ Len(calls[j].key) <= KeyCells
    BY <2>2, <2>4, <2>5, KeysAreCut
  <2> QED BY <2>6, <2>7
<1>7. ASSUME NEW i \in recent, calls[i].key = calls[j].key, Len(calls[j].key) <= KeyCells,
             Claimed(calls, answers, i, j) < Slots
      PROVE  ~Reported(calls, table, j)
  <2> SUFFICES ASSUME Reported(calls, table, j) PROVE FALSE
    OBVIOUS
  <2>1. i \in 1 .. MaxCalls /\ i < j /\ Reported(calls, table, i) /\ calls[j].at - calls[i].at < Period
    BY <1>1, <1>4, <1>5
  <2>2. Slots <= Cardinality(Others(calls, table, i, j))
    BY <1>2, <1>3, <1>7, <2>1, DisplacedByOthers DEF Fits
  <2>3. Others(calls, table, i, j)
          = {k \in 1 .. j - 1 : k # i /\ answers[k] = 1 /\ calls[k].at >= calls[i].at
                               /\ calls[k].key # calls[i].key}
    BY <1>4, <1>5 DEF Others
  <2>4. Claimed(calls, answers, i, j) = Cardinality(Others(calls, table, i, j))
    BY <2>3 DEF Claimed
  <2>5. Slots \in Nat /\ Cardinality(Others(calls, table, i, j)) \in Nat
    <3>1. IsFiniteSet(1 .. j - 1)
      BY <1>1, FS_Interval
    <3>2. IsFiniteSet(Others(calls, table, i, j))
      BY <3>1, FS_Subset DEF Others
    <3> QED BY <3>2, FS_CardinalityType, ThrottleAssumption
  <2> QED BY <1>7, <2>2, <2>4, <2>5
<1>8. Len(calls[j].key) \in Nat /\ KeyCells \in Nat
  <2>1. calls[j].key \in Keys
    BY <1>2 DEF Warnings
  <2> QED BY <2>1, KeysAreCut, ThrottleAssumption
<1>9. answers[j] = IF Reported(calls, table, j) THEN 1 ELSE 0
  BY <1>4
<1>10. (\A i \in recent : Cut(calls[i].key) # calls[j].key) => answers[j] = 1
  BY <1>6, <1>9
<1>11. Len(calls[j].key) > KeyCells => answers[j] = 1
  BY <1>6, <1>8, <1>9
<1>12. \A i \in recent :
           /\ calls[i].key = calls[j].key /\ Len(calls[j].key) <= KeyCells
           /\ Claimed(calls, answers, i, j) < Slots
           => answers[j] = 0
  BY <1>7, <1>9
<1> QED BY <1>10, <1>11, <1>12 DEF calls, answers

\* A warning is reported when nothing of its name was in the last period, always
\* when its key is cut, and is held back in the period after its own report unless
\* as many reports of other keys as the table has slots came between
\* (defender_response.c, defender_warn_throttle).
THEOREM WarningsKeepTheirPeriod == Spec => []WarningsAreSpaced
<1>1. WarningsAreSpaced
  BY CallsSpaced DEF WarningsAreSpaced
<1> QED  BY <1>1, PTL

=============================================================================
