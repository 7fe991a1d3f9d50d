------------------------------ MODULE ApkGuard ------------------------------
(***************************************************************************)
(* The integrity checks of libxcj_defender at work in one process:         *)
(* mmap_reader.c and its cached descriptor, self_integrity.c,              *)
(* validator_core.c, the guard thread of trigger_scheduler.c, sig_verify.c *)
(* and integrity.c as DefenderInitProvider calls them.  What the checks    *)
(* compute of an APK is in ApkSigning and ApkIntegrity.                    *)
(*                                                                         *)
(* Meanwhile the installed APK may be replaced or removed, and other code  *)
(* of the process may close the descriptor or put another file behind it.  *)
(* Digests of the same lengths: all files have one length, so that the     *)
(* length read before a mapping is the length of what is mapped.           *)
(***************************************************************************)
EXTENDS ApkPackages, WarnThrottle

CONSTANTS
  Nodes,          \* files that may be opened
  Content,        \* their cells
  Strays,         \* those of them that are not at the path of the app
  Loaded,         \* the file the app was started from
  Storage,        \* the hash embedded in the library
  CrcTable,       \* integrityCrcTable of the configuration
  FileList,       \* integrityFileList
  SignatureHash,  \* signatureExpectedHash
  Images,         \* how the library may have been loaded and built
  Inner,          \* answers of the inner library
  MaxChanges      \* bound on what happens to the files and descriptors

ASSUME FilesAssumption ==
  /\ Loaded \in Nodes \ Strays /\ Strays \subseteq Nodes
  /\ Nodes \cap {"gone", "none", "closed", "cached"} = {}
  /\ \A n, m \in Nodes : Len(Content[n]) = Len(Content[m])
ASSUME ChangesAssumption == MaxChanges \in Nat

\* The library in memory: who names its base, under which name, whether its code
\* segment is found, whether the build wrote the hash of the code and sealed it,
\* whether maps name a tool, and whose the first line with ".apk!" in it is.  What
\* dladdr knows is no anonymous mapping, and the constructor runs before anything
\* could change the code.
Library ==
  [base : {"dladdr", "loader", "none"}, where : {"data_app", "memfd", "anonymous", "elsewhere"},
   segment : BOOLEAN, patched : BOOLEAN, tool : BOOLEAN, sealed : BOOLEAN, intact : BOOLEAN,
   marked : {"none", "own", "other"}]
ASSUME ImagesAssumption ==
  Images \subseteq {i \in Library : i.intact /\ (i.base = "dladdr" => i.where # "anonymous")}

Threads == {"main", "guard"}

VARIABLES
  disk,       \* the file at the installed path, or "gone"
  maps,       \* /proc/self/maps has lines for the APK
  links,      \* readlink on /proc/self/fd works
  changes,    \* changes made so far
  image,      \* the library in memory
  text,       \* the statics of self_integrity.c
  cache,      \* g_cached_apk_fd, g_expected_apk_path and g_fd_redirect_flag
  astray,     \* a descriptor of the code has named a stray file (history)
  given,      \* the configuration has a checksum table
  inner,      \* what the inner library answers
  process,    \* "up", "dying" in defender_kill's sleep, "killed", "crashed"
  scheduler,  \* callback and running, and the arguments of the guard
  canary,     \* g_validator_canary
  th          \* the threads

files == <<disk, maps, links, changes, image, given, inner>>
vars == <<files, text, cache, astray, process, scheduler, canary, th>>

\* Verdicts of the pure checks, one for each file.
Signature == [n \in Nodes |-> VerifySignature(Content[n], Storage)]
DexVerdict == [n \in Nodes |-> DexCheck(Content[n], CrcTable)]
LayersVerdict == [n \in Nodes |-> Layers(None, Content[n], SignatureHash, None, None)]
Integrity == [n \in Nodes |-> IntegrityCheck(Content[n], CrcTable, FileList)]

\* A thread that holds nothing, at a place of a call and with its answer.
Enter(pc, call, result) ==
  [pc |-> pc, fd |-> "none", failed |-> FALSE, result |-> result, call |-> call]
Idle == Enter("idle", "none", 0)

Init ==
  /\ disk = Loaded /\ changes = 0
  /\ maps \in BOOLEAN
  /\ links \in BOOLEAN /\ given \in BOOLEAN
  /\ image \in Images /\ inner \in Inner
  /\ text = [inited |-> FALSE, path |-> -1]
  /\ cache = [fd |-> "none", expected |-> FALSE, flag |-> FALSE]
  /\ astray = FALSE
  /\ process = "up"
  /\ scheduler = [callback |-> FALSE, running |-> FALSE, args |-> "null"]
  /\ canary = {}
  /\ th = [t \in Threads |-> Enter(IF t = "main" THEN "constructor" ELSE "idle", "none", 0)]

Running == process \in {"up", "dying"}

-----------------------------------------------------------------------------
(***************************************************************************)
(* The files and descriptors as other code changes them.                   *)
(***************************************************************************)
Change == process = "up" /\ changes < MaxChanges /\ changes' = changes + 1

\* The package is updated or removed while the process runs.
Replace ==
  /\ Change
  /\ \E n \in (Nodes \ Strays) \cup {"gone"} : n # disk /\ disk' = n
  /\ UNCHANGED <<maps, links, image, given, inner, text, cache, astray, process, scheduler, canary, th>>

\* The number of the cached descriptor is closed, or names another file.
LoseDescriptor ==
  /\ Change /\ cache.fd # "none"
  /\ \E fd \in Strays \cup {"closed"} :
       /\ fd # cache.fd
       /\ cache' = [cache EXCEPT !.fd = fd]
       /\ astray' = (astray \/ fd \in Strays)
  /\ UNCHANGED <<disk, maps, links, image, given, inner, text, process, scheduler, canary, th>>

\* The code of the library is changed in memory.
ChangeText ==
  /\ Change /\ image.intact
  /\ image' = [image EXCEPT !.intact = FALSE]
  /\ UNCHANGED <<disk, maps, links, given, inner, text, cache, astray, process, scheduler, canary, th>>

-----------------------------------------------------------------------------
(***************************************************************************)
(* mmap_reader.c                                                           *)
(***************************************************************************)
\* find_apk_path_from_maps takes what follows the last blank of the line: for a
\* file that is no longer there that is "(deleted)".
MapsPath ==
  CASE ~maps -> "nothing"
    [] maps /\ disk = Loaded -> "installed"
    [] OTHER -> "deleted"

\* openat of the installed path, unless the file is gone; the file that other
\* code puts in its place counts as a change.
CanOpen(path) == path = "installed" /\ disk # "gone"
Opened == {disk}

MutVerify(c, n) ==
  [c EXCEPT !.flag = @ \/ (links /\ c.expected /\ n # disk)]

\* mr_verify_fd_path: a file that was replaced still resolves to the expected
\* path once " (deleted)" is cut off.
Verify(c, n) ==
  [c EXCEPT !.flag = @ \/ (links /\ c.expected /\ n \in Strays)]

\* The constructor runs before any other code of the app.
EarlyInit ==
  /\ Running /\ th.main.pc = "constructor"
  /\ th' = [th EXCEPT !.main.pc = "onload"]
  /\ \/ /\ CanOpen(MapsPath)
        /\ \E n \in Opened : cache' = Verify([cache EXCEPT !.fd = n, !.expected = TRUE], n)
     \/ ~CanOpen(MapsPath) /\ cache' = cache
  /\ UNCHANGED <<files, text, astray, process, scheduler, canary>>

MutDetectRedirect ==
  /\ Running /\ cache.fd \in Nodes
  /\ cache.flag
  /\ cache' = Verify(cache, cache.fd)
  /\ UNCHANGED <<files, text, astray, process, scheduler, canary, th>>

\* mmap_reader_fd_redirect_detected, once in every round of X4.
DetectRedirect ==
  /\ Running /\ cache.fd \in Nodes
  /\ ~cache.flag
  /\ cache' = Verify(cache, cache.fd)
  /\ UNCHANGED <<files, text, astray, process, scheduler, canary, th>>

-----------------------------------------------------------------------------
(***************************************************************************)
(* self_integrity.c                                                        *)
(***************************************************************************)
\* self_integrity_init: the base comes from dladdr, or from the loader when the
\* image is anonymous; only a known base leads to the code segment.

TextAfterInit ==
  IF text.inited THEN text
  ELSE CASE image.base = "dladdr" ->
              [inited |-> image.segment,
               path |-> IF image.where \in {"data_app", "memfd"} THEN 1 ELSE 0]
         [] image.base = "loader" -> [inited |-> image.segment, path |-> 1]
         [] OTHER -> text

SelfResult(txt) ==
  CASE txt.path = 0 -> 1
    [] txt.path # 0 /\ ~txt.inited -> -1
    [] OTHER -> IF image.patched /\ image.intact THEN 0 ELSE 1

SelfStep(t) ==
  /\ Running /\ th[t].pc = "self"
  /\ text' = IF text.path = 0 THEN text ELSE TextAfterInit
  /\ th' = [th EXCEPT ![t] = [@ EXCEPT !.pc = "fd", !.failed = SelfResult(text') = 1]]
  /\ UNCHANGED <<files, cache, astray, process, scheduler, canary>>

-----------------------------------------------------------------------------
(***************************************************************************)
(* A round of validator_core_check_all.  Only an answer of 1 fails it: a   *)
(* check that could not be made (-1) does not.                             *)
(***************************************************************************)
\* The path that the call or the guard was given names the installed file, as
\* long as the string is kept.
GivenPath(t) ==
  CASE th[t].call = "check" \/ (th[t].call # "load" /\ scheduler.args = "live") -> "installed"
    [] th[t].call # "check" /\ th[t].call # "load" /\ scheduler.args = "stale" -> "unknown"
    [] OTHER -> "nothing"
EffectivePath(t) == IF MapsPath # "nothing" THEN MapsPath ELSE GivenPath(t)

To(t, pc) == th' = [th EXCEPT ![t].pc = pc]

\* get_valid_apk_fd: the cached descriptor while it is open.
UseCached(t) ==
  /\ Running /\ th[t].pc = "fd" /\ cache.fd \in Nodes
  /\ EffectivePath(t) # "nothing"
  /\ th' = [th EXCEPT ![t] = [@ EXCEPT !.pc = "map", !.fd = "cached"]]
  /\ UNCHANGED <<files, text, cache, astray, process, scheduler, canary>>

\* Otherwise the path is opened.  The number may be the one of the descriptor
\* that was lost, which makes it the cached one again.
OpenByPath(t) ==
  /\ Running /\ th[t].pc = "fd" /\ cache.fd \notin Nodes
  /\ CanOpen(EffectivePath(t))
  /\ \E n \in Opened, again \in {TRUE, FALSE} :
       /\ again => cache.fd = "closed"
       /\ LET c == Verify([cache EXCEPT !.expected = TRUE], n) IN
          cache' = IF again THEN [c EXCEPT !.fd = n] ELSE c
       /\ th' = [th EXCEPT ![t] = [@ EXCEPT !.pc = "map", !.fd = IF again THEN "cached" ELSE n]]
  /\ UNCHANGED <<files, text, astray, process, scheduler, canary>>

NoFile(t) ==
  /\ Running /\ th[t].pc = "fd"
  /\ \/ EffectivePath(t) = "nothing"
     \/ cache.fd \notin Nodes /\ ~CanOpen(EffectivePath(t))
  /\ To(t, "dex")
  /\ UNCHANGED <<files, text, cache, astray, process, scheduler, canary>>

\* mmap_apk from fstat on, and the comparison on the mapping, which outlives the
\* descriptor.  The cached descriptor may have been lost since it was chosen.
File(t) == IF th[t].fd = "cached" THEN cache.fd ELSE th[t].fd

MapAndVerify(t) ==
  /\ Running /\ th[t].pc = "map" /\ File(t) \in Nodes
  /\ th' = [th EXCEPT ![t] =
              [@ EXCEPT !.pc = "dex", !.fd = "none", !.failed = th[t].failed \/ Signature[File(t)] = 1]]
  /\ UNCHANGED <<files, text, cache, astray, process, scheduler, canary>>

\* fstat fails, or the mapping does (a change: no memory for it).  The mmap of the
\* arm64 build then answers -errno, which is not the MAP_FAILED it is compared
\* with, and the file is read at that address; the others go on.
MapFails(t) ==
  /\ Running /\ th[t].pc = "map"
  /\ \/ File(t) \notin Nodes /\ UNCHANGED <<changes, process>>
     \/ File(t) \in Nodes /\ Change /\ process' \in {process, "crashed"}
  /\ th' = [th EXCEPT ![t] = [@ EXCEPT !.pc = "dex", !.fd = "none"]]
  /\ UNCHANGED <<disk, maps, links, image, given, inner, text, cache, astray, scheduler, canary>>

\* The three updates of the canary: a seed that each of them adds once more,
\* and the index of the check times a constant, which is nothing for index 0.
Seed == <<"seed", 0>>
Updated(c, idx) ==
  LET bits == {Seed} \cup (IF idx = 0 THEN {} ELSE {<<"check", idx>>}) IN
  (c \ bits) \cup (bits \ c)
Canary(checks) == FoldLeft(Updated, {Seed}, [k \in 1 .. checks |-> k - 1])
RoundCanary == Canary(3)        \* as the round computes it
CanaryExpected == Canary(3)     \* as the guard does

\* dex_integrity_check of the installed path.  The strings that the guard keeps
\* belong to a call that has ended: what they hold then is whatever the memory
\* holds, and may not be readable at all.
DexAnswers(t) ==
  CASE th[t].call = "load" \/ ~given -> {-1}
    [] given /\ GivenPath(t) = "installed" ->
         {IF disk = "gone" THEN -1 ELSE DexVerdict[disk]}
    [] th[t].call = "round" /\ given /\ scheduler.args = "null" -> {-1}
    [] OTHER -> {-1, 0, 1}

DexStep(t) ==
  /\ Running /\ th[t].pc = "dex"
  /\ \E answer \in DexAnswers(t) :
       LET failed == th[t].failed \/ answer = 1 IN
       th' = [th EXCEPT ![t] = [@ EXCEPT !.pc = IF failed THEN "judge" ELSE "inner",
                                         !.failed = failed, !.result = IF failed THEN 1 ELSE 0]]
  /\ canary' = RoundCanary
  /\ UNCHANGED <<files, text, cache, astray, process, scheduler>>

DexCrash(t) ==
  /\ Running /\ th[t].pc = "dex"
  /\ th[t].call = "round" /\ given /\ scheduler.args = "stale"
  /\ process' = "crashed"
  /\ UNCHANGED <<files, text, cache, astray, scheduler, canary, th>>

\* The cross-check by the inner library, when it is loaded.
InnerStep(t) ==
  /\ Running /\ th[t].pc = "inner"
  /\ th' = [th EXCEPT ![t] =
              [@ EXCEPT !.pc = "judge",
                        !.result = IF inner \in {"environment", "self_test"} THEN 1 ELSE 0]]
  /\ UNCHANGED <<files, text, cache, astray, process, scheduler, canary>>

Round(t) ==
  \/ SelfStep(t) \/ UseCached(t) \/ OpenByPath(t) \/ NoFile(t)
  \/ MapAndVerify(t) \/ MapFails(t) \/ DexStep(t) \/ DexCrash(t) \/ InnerStep(t)

-----------------------------------------------------------------------------
(***************************************************************************)
(* The guard thread.                                                       *)
(***************************************************************************)
GuardRound ==
  /\ Running /\ scheduler.running /\ scheduler.callback
  /\ th.guard.pc = "idle"
  /\ th' = [th EXCEPT !.guard = Enter("self", "round", 0)]
  /\ UNCHANGED <<files, text, cache, astray, process, scheduler, canary>>

MutGuardJudges ==
  /\ Running /\ th.guard.pc = "judge"
  /\ IF canary # CanaryExpected
     THEN process' = "dying" /\ th' = [th EXCEPT !.guard.pc = "kill"]
     ELSE process' = process /\ th' = [th EXCEPT !.guard = Idle]
  /\ UNCHANGED <<files, text, cache, astray, scheduler, canary>>

GuardJudges ==
  /\ Running /\ th.guard.pc = "judge"
  /\ IF canary # CanaryExpected \/ th.guard.result # 0
     THEN process' = "dying" /\ th' = [th EXCEPT !.guard.pc = "kill"]
     ELSE process' = process /\ th' = [th EXCEPT !.guard = Idle]
  /\ UNCHANGED <<files, text, cache, astray, scheduler, canary>>

\* defender_kill after its sleep of up to a second.
Kill ==
  /\ Running /\ th.guard.pc = "kill"
  /\ process' = "killed"
  /\ UNCHANGED <<files, text, cache, astray, scheduler, canary, th>>

-----------------------------------------------------------------------------
(***************************************************************************)
(* The main thread: JNI_OnLoad, then the calls of DefenderInitProvider,    *)
(* each of which the configuration may leave out.                          *)
(***************************************************************************)
MainCalls(call) == th' = [th EXCEPT !.main = Enter("self", call, 0)]

\* JNI_OnLoad ends the process when maps name a tool or another place than the
\* app's own for the loader.  Else it prepares the check of the code and has the
\* guard started without a path and without a table; a round comes first.
OnLoad ==
  /\ Running /\ th.main.pc = "onload" /\ ~image.tool
  /\ text' = TextAfterInit
  /\ MainCalls("load")
  /\ UNCHANGED <<files, cache, astray, process, scheduler, canary>>

OnLoadEnds ==
  /\ Running /\ th.main.pc = "onload" /\ image.tool
  /\ process' = "killed"
  /\ UNCHANGED <<files, text, cache, astray, scheduler, canary, th>>

\* The end of validator_core_init_guard: a first round that fails ends the
\* process at once, else the callback is set and the thread started.  A second
\* start finds the thread running; a thread that cannot be made is given up.
FirstRound ==
  /\ Running /\ th.main.pc = "judge" /\ th.main.call \in {"load", "guard"}
  /\ IF th.main.result # 0
     THEN process' = "killed" /\ UNCHANGED <<scheduler, th>>
     ELSE /\ process' = process
          /\ scheduler' \in {[scheduler EXCEPT !.callback = TRUE, !.running = TRUE],
                             [scheduler EXCEPT !.callback = TRUE]}
          /\ th' = [th EXCEPT !.main.pc = IF th.main.call = "load" THEN "verify" ELSE "release"]
  /\ UNCHANGED <<files, text, cache, astray, canary>>

\* find_text_section: by the program headers for the loader's image, else by the
\* name in maps; a memfd may have one that matches or not.  A build that wrote
\* no hash has nothing to compare; a hash that differs ends the process.
FindText ==
  CASE image.base = "none" -> {FALSE}
    [] image.where = "memfd" -> BOOLEAN
    [] OTHER -> {image.segment}

SelfVerify ==
  /\ Running /\ th.main.pc = "verify"
  /\ \E found \in FindText :
       IF found /\ image.sealed /\ ~image.intact
       THEN process' = "killed" /\ th' = th
       ELSE process' = process /\ th' = [th EXCEPT !.main.pc = "sign"]
  /\ UNCHANGED <<files, text, cache, astray, scheduler, canary>>

\* verifySignature with the hash of the configuration: layer D on the file that
\* the first line with ".apk!" in maps names, or else on the path it was given,
\* which is the installed file's.  A line of the app's own file names that, too,
\* or after an update nothing: what follows its last blank is "(deleted)" then.
\* Another package has another hash, if it can be read.
SignAnswers ==
  IF image.marked = "other" THEN {-1, 1}
  ELSE {IF disk = "gone" THEN -1 ELSE LayersVerdict[disk]}

Sign ==
  /\ Running /\ th.main.pc = "sign"
  /\ \E answer \in SignAnswers : th' = [th EXCEPT !.main = Enter("check", "sign", answer)]
  /\ UNCHANGED <<files, text, cache, astray, process, scheduler, canary>>

\* signatureVerify off leaves all three calls out.
SkipSign ==
  /\ Running /\ th.main.pc = "sign"
  /\ th' = [th EXCEPT !.main = Enter("integrity", "none", 0)]
  /\ UNCHANGED <<files, text, cache, astray, process, scheduler, canary>>

Check ==
  /\ Running /\ th.main.pc = "check"
  /\ MainCalls("check")
  /\ UNCHANGED <<files, text, cache, astray, process, scheduler, canary>>

\* Its answer goes to the application; validatorInitGuard takes over the path
\* and the table as they are in the caller's strings.
CheckDone ==
  /\ Running /\ th.main.pc = "judge" /\ th.main.call = "check"
  /\ scheduler' = [scheduler EXCEPT !.args = "live"]
  /\ MainCalls("guard")
  /\ UNCHANGED <<files, text, cache, astray, process, canary>>

\* ReleaseStringUTFChars, with the guard thread still holding both.
Release ==
  /\ Running /\ th.main.pc = "release"
  /\ scheduler' = [scheduler EXCEPT !.args = "stale"]
  /\ th' = [th EXCEPT !.main = Enter("integrity", "none", 0)]
  /\ UNCHANGED <<files, text, cache, astray, process, canary>>

\* checkIntegrity.
CheckIntegrity ==
  /\ Running /\ th.main.pc = "integrity"
  /\ th' = [th EXCEPT !.main =
              Enter("done", "integrity", IF disk = "gone" THEN -1 ELSE Integrity[disk])]
  /\ UNCHANGED <<files, text, cache, astray, process, scheduler, canary>>

Main ==
  \/ EarlyInit \/ OnLoad \/ OnLoadEnds \/ FirstRound \/ SelfVerify \/ Sign \/ SkipSign \/ Check \/ CheckDone
  \/ Release \/ CheckIntegrity
Guard == GuardRound \/ GuardJudges \/ Kill

Next ==
  \/ Main \/ Guard \/ DetectRedirect
  \/ \E t \in Threads : Round(t)
  \/ Replace \/ LoseDescriptor \/ ChangeText

\* The threads run; the guard comes back after its sleep, and X4 asks for the
\* redirect evidence in each of its rounds.
Fairness ==
  /\ WF_vars(Main) /\ WF_vars(Guard) /\ WF_vars(DetectRedirect)
  /\ \A t \in Threads : WF_vars(Round(t))

Spec == Init /\ [][Next]_vars /\ Fairness

-----------------------------------------------------------------------------
(* Properties *)

Thread ==
  [pc : {"idle", "constructor", "onload", "self", "fd", "map", "dex", "inner", "judge", "kill",
         "verify", "sign", "check", "release", "integrity", "done"},
   fd : Nodes \cup {"none", "cached"}, failed : BOOLEAN, result : -1 .. 2,
   call : {"none", "load", "sign", "check", "guard", "round", "integrity"}]

TypeOK ==
  /\ disk \in (Nodes \ Strays) \cup {"gone"} /\ changes \in 0 .. MaxChanges
  /\ maps \in BOOLEAN /\ links \in BOOLEAN /\ given \in BOOLEAN /\ astray \in BOOLEAN
  /\ image \in Library /\ inner \in Inner
  /\ text \in [inited : BOOLEAN, path : -1 .. 1]
  /\ cache \in [fd : Nodes \cup {"none", "closed"}, expected : BOOLEAN, flag : BOOLEAN]
  /\ process \in {"up", "dying", "killed", "crashed"}
  /\ scheduler \in [callback : BOOLEAN, running : BOOLEAN, args : {"null", "live", "stale"}]
  /\ canary \in {{}, RoundCanary} /\ th \in [Threads -> Thread]

\* A library with the hash of its code in it and from a place of the app's own, in
\* a process where nothing was changed and maps name no tool, and no other package
\* with ".apk!" first.
Untouched ==
  /\ changes = 0 /\ ~image.tool /\ image.patched /\ (image.base = "dladdr" => image.where # "elsewhere")
  /\ image.marked # "other"

\* The inner library is not loaded, or sees no tool and passes its self test.
InnerAgrees == inner \notin {"environment", "self_test"}

\* The file the app was started from passes the comparison, the layers and the
\* tables of its configuration.
LoadedPasses == Signature[Loaded] # 1 /\ LayersVerdict[Loaded] = 0 /\ Integrity[Loaded] = 0

\* Such a process is not ended by a check of the outer library, in whatever order
\* the first round, the calls of the provider and the guard's rounds come.  Two
\* things may end it nevertheless, and are left out here: an inner library that
\* does not agree (see InnerIsNoAlarm), and a configuration with a checksum table
\* (see GenuineSurvives).
GenuineIsKept ==
  Untouched /\ InnerAgrees /\ ~given => process = "up" /\ th.main.result = 0

\* The same with a table in the configuration: validator_core.c:275 says of the
\* start "a genuine app: not tampered with, the check passes, goes on".
GenuineSurvives == Untouched /\ InnerAgrees => process = "up"

\* Evidence of a redirected descriptor is never raised for the file of the app,
\* also after an update has replaced or removed it.
NoFalseRedirect == cache.flag => astray

\* No check of the outer library ends a process that nobody touched and that has
\* no checksum table, nor is there evidence of a redirect without a stray file.
NoFalseAlarm == TypeOK /\ GenuineIsKept /\ NoFalseRedirect

\* A descriptor that another file was put behind is noticed, if links can be
\* read, even when that file has the right content.
RedirectIsSeen ==
  (links /\ cache.expected /\ cache.fd \in Strays /\ Running)
    ~> (cache.flag \/ cache.fd \notin Strays \/ ~Running)

\* Once the guard runs, a file that fails the comparison behind the descriptor
\* and code that was changed end the process.
TamperIsAnswered ==
  []<>(~(/\ scheduler.running /\ Running
         /\ \/ cache.fd \in Nodes /\ Signature[cache.fd] = 1 /\ (maps \/ scheduler.args # "null")
            \/ text.inited /\ ~image.intact))

-----------------------------------------------------------------------------
(***************************************************************************)
(* What the comments say and the code does not keep: no run lists it.      *)
(***************************************************************************)
\* validator_core.c:275 makes no exception for the inner library, and 172-186
\* expect its self test to pass.  The byte code that is checked in fails it on
\* equal texts (VmEngine, SelfTestPasses), so that a build with the inner library
\* is one with inner = "self_test": the first round ends the genuine app.
InnerIsNoAlarm == Untouched /\ ~given /\ inner # "environment" => process = "up"

-----------------------------------------------------------------------------
(***************************************************************************)
(* What is true of the pure checks is evaluated in one state, where        *)
(* nothing runs yet.                                                       *)
(***************************************************************************)
AtStart ==
  /\ th["main"].pc = "constructor" /\ changes = 0 /\ process = "up"
  /\ maps /\ links /\ ~given
  /\ inner = (CHOOSE x \in Inner : TRUE) /\ image = (CHOOSE i \in Images : i.intact)

\* One report of a kind in a period, while the throttle's table holds its key, for
\* any sequence of calls.
WarningsAreSpaced == AtStart => CallsAreSpaced
=============================================================================
