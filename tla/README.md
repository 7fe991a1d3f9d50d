# A verification of xiaochengjian

TLA+ models of the native defender library of xiaochengjian (its X4 response
engine, byte code interpreter, loaders, and the checks of the APK and of its own
code), and of the parts of the service in which several actors meet: the licence
server and its Android SDK, upload and hardening, membership codes, and the
sign-in of the administration pages. TLC checks them on small instances, TLAPS
proves some of the properties for every instance. `PROJECT.json` lists the
components, the runs, the mutants, the lines each definition stands for, the
hazards and the theorems.

    tlasany M.tla                              parse a module
    tlc -workers 2 -config X.cfg MCM.tla       run a configuration
    tlapm M_proofs.tla                         check the proofs

## 1. Inventory

Paths are below `src/`. "DB" is PostgreSQL through Prisma, at READ COMMITTED.

| component | state | operations | properties that make it correct |
|---|---|---|---|
| card keys, activation, bindings (`backend/src/sdk/sdk.service.ts`, `card-key`, `device`) | rows `card_key`, `device`, `device_binding`, `validation_log` | activate, validate (SDK); generate, disable, enable, unbind (console) | a card binds no more devices than it sells; activation, binding and expiry are committed together; a first activation fixes the term |
| SDK session (`handshake.service.ts`, `signature.guard.ts`, `sdk.controller.ts`, `XiaochengjianSDK.kt`) | Redis `session:`, `nonce:`; the client's session | handshake, signed request, heartbeat with key rotation | no request is accepted twice; both sides hold the same key; the answer can be read |
| chunked upload (`chunk-storage.service.ts`, `admin-web/src/api/hardening.ts`) | Redis document, directory of parts, the browser's window | init, chunk, complete, repair | what is listed is stored; what is registered has its full length; the upload ends |
| analysis and hardening tasks (`hardening.service.ts`) | Redis task records and list, background jobs in memory, work directories | start, run, cancel, time out, restart | a completed task's APK is there; an answered task ends |
| membership codes (`membership.service.ts`) | `membership_code`, `developer.vipExpiresAt` | generate, redeem, disable | one redeemer; the term paid for is the term credited |
| accounts, web sessions (`auth.service.ts`, `totp.service.ts`, `admin-web/src/api/client.ts`) | Redis `refresh:`, `totp_pending:`, `totp_setup:`; `developer` | login, refresh with rotation, logout, two-factor set-up and login, backup codes | a refresh token is used once; a backup code is used once; a rotation does not log the user out |
| applications (`application.service.ts`) | `application`, `developer.maxApps` | create, update, delete | no more than `maxApps` |
| rate limits (`rate-limit`) | Redis counters with a TTL | count, lock out | no more than the limit in a window |
| card key format (`card-key-generator.ts`, `card_key.rs`) | none | generate, check | one wrong character is found |
| offline cache (`cache.rs`, `XiaochengjianSDK.kt`) | an encrypted record on the device | save, load, degrade | what is saved can be read back and expires |
| X4 response engine (below `sdk-android/defender-sdk/src/main/cpp`, as all that follow: `score_engine.c`, `response_chain.c`, `auto_rollback.c`, `x4_core.c`, `x4_daemon.c`, `strong_evidence.c`, `weak_detector.c`, `x4_anti_dump.c`) | score, presence, quiet rounds, policy, baselines, the inotify flag | start, a round of detection, a response, a rollback | no single weak hit kills; the score forgets; a dry run is silent; a pattern cut by a read is found |
| VM engine (`vm_engine.c`, `vm_bytecode.h`, `t3_segment_str.c`, `t4_str_decrypt.c`, `inner_defender.c`) | registers, flags, program counter, the caller's memory | run a program; assemble or decrypt a string | programs stay in their code and arguments, compute what they should, and end |
| native loader (`xcj_loader.c`, `custom_linker.c`, `inner_loader.c`, `so_cipher.h`) | mapped images and their protections, function pointers, decrypted buffers | find, decipher, link, call, close | only mapped, executable addresses are called; plain text is cleared; a failure leaves no mapping |
| APK and code integrity checks (`hash_calculator.c`, `signing_block_parser.c`, `sig_verify.c`, `integrity.c`, `dex_integrity.c`, `mmap_reader.c`, `self_integrity.c`, `self_verify.c`, `validator_core.c`, `trigger_scheduler.c`, `defender_jni.c`) | a cached descriptor, statics about the code segment, canary, guard thread | constructor, first round, calls of the provider, the guard's rounds | a genuine package passes; a changed one does not; a finding is answered |
| warn throttle and server gate (`defender_response.c`, `server_gate.c`) | a table of 32 keys, a token | warn, ask the gate | one report of a kind in a period |
| other native detectors, packer, audit of own APKs, statistics, pages, command line, deployment | files, rows, screens | sequential | see "Not modelled" |

**How they interact.** The SDK calls the server over HTTP; every call after the
handshake passes `SdkSignatureGuard` (timestamp, session, nonce, signature) and
then the controller, which for activate and validate opens one DB transaction
(`TenantPrismaService.tx`). The console works on the same rows in transactions
of its own. The browser uploads an APK in parts, gets a `fileId`, starts an
analysis and a hardening, and polls their records in Redis, which the
background job in the server's process writes. Membership codes are a table of
the whole service; the membership is a column of the developer.

In the app, the loader's constructor finds the packed library in the APK, links
it in memory and calls its `JNI_OnLoad`; one of that library's own constructors
loads the inner library the same way. The library opens the APK before other
code can, keeps the descriptor, and runs a first round of checks; its Kotlin
provider calls it for the signature, the integrity tables and the guard, a
thread that repeats the round. The X4 daemon runs rounds of its own beside it,
in which the redirect bit of `mmap_reader.c` and the self reference bit of
`vm_engine.c` are two of the strong evidences.

**What is hard.** Node runs one handler at a time but every `await` lets others
in, and nearly every handler reads a row, a Redis document or a list, awaits,
and writes it back. Redis writes are single commands without WATCH or scripts,
apart from `SET NX` for nonces. Transactions are READ COMMITTED and, except for
upserts and updates, take no row lock. Background jobs have no owner after a
restart. Clients retry requests whose first handler may still be running. The
native library parses ZIP, ELF and JSON by hand at fixed offsets and buffer
sizes, has integer arithmetic at thresholds, a linker and an interpreter that
check few of their operands, and threads that share statics and strings.

## 2. Modules

| module | models | main correspondence |
|---|---|---|
| `CardActivation` | `SdkService.activate`, `validate`; console operations | `tx[w]`: an open transaction with what it has read; each SQL statement is an action; row locks are `HoldsDevice`, `HoldsCard`; `Close` is COMMIT or ROLLBACK |
| `LicenceSeats` | what a card promises: seats taken and given back, activation for good | refined by `CardActivation` (`ImplementsSeats`) |
| `SdkSession` | handshake, guard, heartbeat, rotation, client | `handler[w]`: a request between two awaits; `call[n]`: a request with the copies of it that are still to arrive; `replies`: answers on their way; Redis rows with expiry; keys named by the call that made them |
| `ChunkUpload` | `chunkedUpload` and `ChunkStorageService` | `client[u]`: the local variables of `chunkedUpload`; `handler[w]`: a request; `writeFile` is a truncation and two writes |
| `HardeningTask` | `HardeningService` and its controller | `request[t]`, `job[t]`, `canceller[w]`: the three kinds of handler; one action for each Redis command; `Die` ends all of them |
| `MembershipRedeem` | `MembershipService` | `redeem[w]`: a request between its statements; the claim commits by itself as in the code |
| `WebSession` | the interceptors of `client.ts`, the router's guard, `logout`; `AuthService.refresh`, `logout` | `storage`: the pair in localStorage; `request[r]`: a request as its interceptors see it; `handler[r]`: its refresh on the server, one action for each Redis command; `logout[t]`: a logout in a page |
| `X4Signals` | what a round sees of `/proc`; the search in chunks | functions of a record that stands for `/proc` |
| `X4Engine` | `x4_round_check` and what it calls, `x4_init`, the daemon, the inotify thread | `engine`: the statics of `score_engine.c`; `config`: `g_x4_config`; `slot`: the daemon's loop over the registered checks |
| `VmBytecode`, `VmEngine` | the two programs; `vm_step`, `vm_execute`, `ivm_run`, the callers | one action for each group of instructions; `regs`, `flags`, `pc`: `vm_context_t` |
| `CustomLinker` | `cl_dlopen_mem`, `cl_dlsym`, `cl_dlclose`, constructors | `phase[lib]`: the step of `cl_dlopen_mem`; `memory`, `area`: words and pages of the image |
| `StrCipher` | the string decryption of `xcj_loader.c` | functions |
| `SoLoader` | `bootstrap`, `inner_loader_load` over `CustomLinker` | `step`, `inner`: where each is; `plain`: the buffers with decrypted bytes; `calls`: calls into the images |
| `StreamHash` | padding and buffering of the SHA implementations | functions |
| `ApkSigning`, `ApkIntegrity` | what the checks compute of an APK | functions of a sequence of cells |
| `ApkPackages` | packages as the build makes and patches them | the inputs and properties of the two |
| `WarnThrottle` | `defender_warn_throttle` | the table after each of the calls, which the mutex makes a sequence |
| `ApkGuard` | the checks at work in one process | `th[t]`: where the starting thread and the guard are; `cache`, `text`, `canary`: the statics |
| `MC...` | instances for TLC | constants, symmetry, constraint and view |
| `CardActivation_proofs`, `SdkSession_proofs`, `ChunkUpload_proofs`, `HardeningTask_proofs`, `VmEngine_proofs`, `ApkGuard_proofs`; `Accounts_proofs` (of `MembershipRedeem` and of `WebSession`), `Native_proofs` (of `X4Engine` and of `SoLoader`) | theorems | section 4 |

### CardActivation

`ActivateFind` … `ActivateCommit` follow the ten numbered steps of
`SdkService.activate`; `CardVerdict` and `BindVerdict` are its refusals in their
order. A refusal throws inside of the transaction, so `Refuse` rolls back,
together with the failure row that was written before it; only a malformed key
(`RejectFormat`) is logged outside. Row locks last to `Close`: the device's row
from its upsert, the card's from its update. `Abort` is a timeout or a lost
connection. Time is in days, read with each statement that reads the clock.

### SdkSession

A request in the network is its record in `call` with the number of `copies`
still to arrive; each `Arrive` takes one, whenever it likes, so that requests are
delayed, reordered and duplicated. Answers wait in `replies` until `Receive` or
`LoseReply`. The guard consumes the nonce after it has looked at
the timestamp, and the controller's `refreshSession` is three commands (GET,
EXPIRE, SET), each an action. Lengths of time are scaled: `Skew` = 1 stands for
the 60 s of `MAX_TIMESTAMP_SKEW`, `NonceTTL` for the 300 s of `NONCE_TTL`, `Rotation` for the
twenty minutes between rotations, `Stall` bounds how long a handler may sit
between its clock reading and its `SET NX`.

### ChunkUpload

A part's file is truncated and written in two pieces, which is what lets two
handlers of one part tear it. The Redis document is read in `ChunkGet` and
written in `ChunkSet`, with the list as it was read. `GiveUp` is the browser's
view of a lost or late answer: the handler goes on, or never starts. A restart
ends the handlers; Redis and the disk stay.

### HardeningTask

The stages are those of `runHarden` and `analyze`, each a progress report (a
write of the whole record from the job's memory) and a tool that succeeds or
fails. `Report` distinguishes awaited reports from those of the analyzer, whose
rejection nobody handles: it ends the process (`Die`). The catch, the finally
and the fallback attached to the job are `Caught`, `Cleanup`, `Fallback`.

### MembershipRedeem

`Find` and `Claim` use the service's own connection and commit at once; the
developer's row is read and updated in the transaction. `Abort` leaves the claim.

### WebSession

A pair of tokens is named for the login or the request it was issued to; both
tokens are stored and removed together. A 401 is `Unauthorized`: a refresh with
whatever pair is stored at that moment, or the way to `/login`. `Adopt` stores
the answer over whatever is there and sends the request again, and the request
interceptor (`Resend`) then takes the stored pair in place of its own. `refresh`
on the server is `RefreshGet`, `RefreshDel`, `RefreshIssue`. A login's pair is
issued when it is stored: nobody can use it earlier. `Leave` ends a page with
its requests; the server goes on. A request in `Coded` may be refused for the
code or password it carries, with the same 401. The developer's account and
sessions revoked by other clients are left out.

### X4Engine

`Round` is `x4_round_check` from its first line to the answer: the rollback looks
at the score of the round before, the soft exemption clears it, the signals are
read, the score, the presence and the quiet rounds move, the strong evidence is
looked at, and `Answer` is the chain of `response_chain.c`. `Bypass` is the round
that a hard exemption or the main switch ends before it has looked. What a round
sees of `/proc` is chosen anew each time. `Abort` is the end of the delay in
`x4_trigger_kill`, during which the daemon thread does nothing else. `weakHits`
is a history variable. `quiet` and `presence` are counted as far as they are
compared (`ZeroRounds`, `Alert`); the weights and thresholds are the code's.

### VmEngine

A job is a program with its caller, arguments and memory. Registers keep 16 of
their 64 bits. A fetch or a load outside of what is there ends in `"fault"`, which
`StaysWithin` excludes for the programs of the header. The CRC of the section
is one of four symbols. `ivm_run` shares the actions, with its own decoding
(none), limit (120) and set of instructions. `And`, `Or` and `Xor` are written out
bit by bit (`WordOf`), which the provers can compute with.

The interpreter checks no address, so its correctness is relative to its callers.
`Provided` is what they pass: the inner library runs `verify_hash` only; a buffer is
as long as what is decrypted in it and apart from the key, which is not empty;
each of the two texts of a comparison has its NUL within 256 cells.

### CustomLinker and SoLoader

An image is a record of what `Elf_Phdr`, `Elf_Dyn`, symbols and relocations say;
addresses are words, a page is `PageSize` of them. `DlOpen` begins `cl_dlopen_mem`
and `LinkerStep` is one of its steps (headers, reservation, segments, dynamic
section, relocations, protections). Each of them has the failures its code looks for
and those it does not see. A refused `mmap` is seen where
`cl_mmap` is libc's (32 bits); the system call of arm64 returns `-errno`, which is not
`MAP_FAILED`, so that `DlOpen` and `MapSegment` go on with an area that is not
there and the first access ends the process (`Fault`: `faulted`). The results of
`cl_mprotect` are ignored: `OpenArea` and `ProtectSegments` let the kernel refuse any set
of pages or segments, which then keep the flags they had, and `refused` notes that
a call was refused; a write or a call into such a page faults too. `munmap` is
assumed to succeed. `SoLoader` adds the
scan of the APK, the constructors of both libraries one by one, the inner library
(whose handle is set when `cl_dlopen_mem` returns, before its constructors run), the
fall-back through a memory file, the call of `JNI_OnLoad` and the erased header. RC4
is a symbol: what is deciphered from the wrong place is noise.

The linker checks little of what it loads, so its correctness is relative to the
objects. `WellLinked` is what the NDK's linker sees to when it writes one: segments
share no page, the head lies in the first one, in a page that is only read, the tables
have the lengths the dynamic section gives, a relocation lies inside of the image, a word
has one of them, a symbolic one names a symbol with a name, constructors and exported functions lie in code. The module
assumes it of the objects a build makes (`LinkedAssumption`); an object may still fail to
load in each way the code provides for (cut off, no ELF, a symbol that
resolves nowhere, no dynamic section, no `JNI_OnLoad`).
`WantedAt` is what an object asks a word to be, written from the tables and not from
the order in which the code works.

### ApkSigning, ApkIntegrity, ApkPackages

A file is a sequence of cells, one for what the code reads as a unit (a header,
a directory record, eight bytes of content), so that offsets, block lengths and
the excluded ranges are computed as in the code. A digest is the tuple that is
digested. `Built`, `Package` and the tables are what the build and its scripts
make. `PackerOwn` is `patch_apk_hash.py`, which leaves out every library that is the
defender's by its name and ends in `.so`, or is so by its placeholders; `X0Patch` is
`patch_x0.py`, which leaves out the payload and no library. `PackerPatch` takes the passes of the first script as one:
they write strings of one length, and the script stops when the size of the signing
block has changed. Layer D looks at the file of the first `.apk!` line of the maps if
there is one (`mapped`), layer B at the path that was passed; the two may differ.

### ApkGuard

The starting thread goes through constructor, `JNI_OnLoad`, first round, the
signature call, `checkIntegrity` and the guard's start in the order of
`DefenderInitProvider`; the guard repeats `validator_core_check_all`, each check
an action (`Round`). Meanwhile `Replace` updates or removes the file,
`LoseDescriptor` closes the cached number or gives it to another file, and
`ChangeText` changes the code. `DetectRedirect` is the question X4 asks in each of
its rounds. `marked` says whose package the first `.apk!` line of the maps names. A mapping of the reader that is refused ends
the check on 32 bits and crashes the process on arm64, as in the linker (`MapFails`). The strings a JNI call lends are `"live"` until `Release`, then
`"stale"`: reading them is any outcome.

## 3. Runs

| run | instance | shows |
|---|---|---|
| `card_seats` | 4 kinds of card one at a time, 3 devices, 2 transactions at once, console, 2 days | `SeatBound`, `RowsAgree` (`BoundIsActivated`, `ExpiryFollowsActivation`, `UniqueIndexNeverHit`), `NoDeadlock`, `FirstActivationKept`, `ImplementsSeats` (every step is one of `LicenceSeats`) |
| `sdk_guard` | 2 heartbeats, each up to 2 copies, 2 handlers, 4 units of time | `AcceptedOnce`, `ReadableAnswers`, `RotationSpaced` |
| `sdk_keys` | 1 handler, heartbeats and other calls, loss, restarts of the app, a clock ahead or behind | `KeysAgree` |
| `upload` | 3 parts, 2 in flight, 2 attempts, 2 rounds, 2 handlers, 1 fault, 1 restart | `PartsAreWhole` (types, `ReceivedIsStored`, `RegisteredInFull`), `UploadSettles` (`UploadEnds`, `UploadCompletes`) |
| `task` | one analysis or hardening, 2 cancel requests, 1 failing command, 1 restart, a list of at most 2 | `TasksAreSound` (types, `CompletedIsThere`), `TaskEnds` |
| `codes` | 2 codes, 2 developers, 2 requests, an administrator, 3 days | `OneRedeemer`, `TermIsPaid`, `TermIsAdded` |
| `web` | 2 tabs with a request each, 1 login, logouts in both, 1 lapse of the access tokens, 1 failure, expiry or page left | `PairsAreUsable` (types, `StoredIsAccepted`, `RetryIsNew`), `RequestAdvances` |
| `x4_rounds` | every policy, the dry run (under "kill") and each exemption; 6 states of `/proc` in any order; any number of rounds; the inotify thread | `ScoreForgets`, `ScoreKillIsEarned`, `DryRunIsSilent`; `SearchIsComplete` for all texts of up to 5 letters and all cuts |
| `vm_programs` | the two programs on texts of 0 to 64 characters, their callers, small test programs, four states of the CRC | `StaysWithin`, `ProgramsCompute` (types, `DecryptsInTurn`, `DifferenceIsReal`), `PatchedRunsNothing`, `Ends` (also `LawsHold`, that the arithmetic of the test programs agrees with itself) |
| `loader_boot` | 14 APKs with 8 objects (one failure each), 6 inner objects, pages of 2 words, calls refused by the kernel | `ImagesAreSound` (types, `WriteXorExec`, `FailureUnmaps`, `LinkedAsWanted`, `FaultIsRefused`), `PlainIsWiped`, `PackedIsFound`, `StringsComeBack`, `CallsLand`, `Ends` |
| `apk_guard` | 5 files, 9 builds and ways of loading, 4 states of the inner library, 2 changes; 9 package layouts with every cell changed in turn; 5 warnings over 4 seconds | `NoFalseAlarm` (types, `GenuineIsKept`, `NoFalseRedirect`), `RedirectIsSeen`, `TamperIsAnswered`, and of the pure checks `PackagesPass` (`GenuinePasses`, `TablesFit`, `LoadedPasses`), `ChangesAreFound` (`EveryCellCounts`, `LayersSplit`, `ChangesAreSeen`), `CodecsAgree` (`ItemsComeBack`, `Base64ComesBack`, `PaddingIsStandard`), `WarningsAreSpaced` |
| `guard_args` | the same without changes | violated: `GenuineSurvives`, an app with a checksum table and nothing changed may be ended or crash |

A name with others in brackets is their conjunction: statements about one
component over the same behaviours, which are defined and explained one by one
in its module. The type invariants of `CardActivation`, `SdkSession`,
`MembershipRedeem` and `X4Engine`, and `RedeemedOnce`, are proved (section 4) and
not repeated in a run.

**Bounds.** Two transactions or handlers are the least that race, and each race
above is between two; the third device of `card_seats` is the one a limit of two
must refuse. `OneCard` keeps one card in use per behaviour: cards share nothing
but the device rows, and `NoDeadlock`, which is about those, needs no second
card because the order of the locks is the same for all. `MaxSeats` is 1.
`MaxTime` lets a card's days end, a nonce be forgotten and a key become due.
`MaxFaults` and `MaxRestarts` are 1: an upload is allowed two attempts for a
part, so a fault and a restart exhaust them. `task` has a list that earlier
tasks may fill (`Earlier`). `web` needs two requests for a race on one refresh
token and two tabs for a page that is left while another goes on; its second
lapse would only repeat the first, since a request refreshes once.
`x4_rounds` has no bound on rounds: the score is bounded by `ScoreForgets` and the
other counters are cut where the code stops comparing them. `MaxInits` is 1
there: a second registration only repeats the round. `OneRead` and
`Overlap` stand for the 4096 and 64 bytes of `weak_detector.c`; patterns are at
most as long as the overlap, as the code's are. The texts of `vm_programs` are as long as
a hash in hexadecimal (64) and end at every position the loop can end at. An
image of `loader_boot` has a head, code, data with zeros behind it and a gap page,
with one relocation of each kind. `apk_guard` takes two changes because a descriptor is
lost once and the file replaced once; chunks of 4 cells make a package cross
several of them; the layouts have up to four
copies of the library, for which `MAX_EXCLUDE_RANGES` has room; the texts of the JSON reader are complete arrays; names, slots and keys are cut at the same places as the code's longer ones.
The four properties of the pure checks range over all inputs of the instance and are
evaluated in one initial state (`AtStart` of `ApkGuard`).
Message lengths of `PaddingIsStandard` lie around the edges of a block (55, 56, 63, 64, 119, 120).
Symmetry is used for workers, devices, nonces and
sessions where no liveness is checked. `CHECK_DEADLOCK FALSE` stands in every
configuration because the modelled operations are bounded: with the clock at
its end, all codes used, all calls made, the program returned or the process ended, the system stops.

**Fairness.** `ChunkUpload`: weak
fairness of the browser's promises and of each handler, since an awaited
promise of Node or of the browser is resumed; none for the user, faults or
restarts. `HardeningTask`: weak fairness of a job's steps, because each tool it
runs has a timeout of its own (`execWithStderr`), after which it fails.
`VmEngine` and `SoLoader` are one thread each, which goes on (`WF` of the next-state relation).
`ApkGuard`: weak fairness of the two threads, since the scheduler of the system
runs them and the guard's sleeps end, and of the question X4 asks in each round;
none for the changes from outside.
`WebSession` states the end of a request without fairness, by a variant:
`StepsLeft` falls with each step (`RequestAdvances`).

**Mutants.** Each property of a passing run has a mutant of the code's
definition that breaks it (`Mut...` before the definition it replaces); of a
conjunction, one part.

**Statements the code does not keep.** Where a document or a comment promises what the
code does not do, the promise is written as a definition at the end of its module, under
"What the documentation (the comments) say and the code does not keep":

| definition | promised in | what happens |
|---|---|---|
| `SeatLimit` (`CardActivation`) | ADR 0015: device N + 1 is refused | two first activations at once both fit |
| `KeyIsUsable` (`SdkSession`) | ADR 0060: later requests use the new key | the rotated key has a form the client cannot sign with |
| `NothingDropped` (`ChunkUpload`) | HARDENING_SUBFEATURES_SPEC, G | a handler writes back the list it read |
| `CancelledStays` (`HardeningTask`) | HARDENING_SUBFEATURES_SPEC, E | the job's next save replaces the record |
| `NoTermIsLost` (`MembershipRedeem`) | the comment of `redeem` | of two redemptions at once one term is lost |
| `LoneEvidenceWarns` (`X4Engine`) | `auto_rollback.h:6`, `auto_rollback.c:52`, ADR 0093 | the round that sees lone strong evidence ends the process |
| `VerifyIsEquality` (`VmEngine`) | `build_vm_bytecode.py:170-174` | the loop may stop early and answers 0 |
| `SelfTestPasses` (`VmEngine`) | `validator_core.c:172-186` | `ivm_run` stops at the first byte |
| `PlaceholderIsTold` (`ApkPackages`) | `hash_storage.c:98` | the answer is 1, not -1 |
| `AddedLibraryFails` (`ApkPackages`) | `integrity.c:755-757`, 823-825 | the answer is 2 |
| `InnerIsNoAlarm` (`ApkGuard`) | `validator_core.c:275` | the failed self test ends a genuine app |

TLC refutes each when it takes the place of the properties in its module's
configuration. `GenuineSurvives`, which joins several of these hazards to one, has a
configuration of its own (`guard_args`); the others have none. The passing
properties say what holds beside them and assert none of the deviations: with two
transactions `SeatBound`; `DifferenceIsReal` that a difference which is reported is one;
`GenuinePasses` nothing about placeholders, `ChangesAreSeen` nothing about the kind of alarm an added
library raises, `GenuineIsKept` only processes whose inner library agrees.

## 4. Proofs

- `CardActivation_proofs`: `TypeCorrect`, every variable keeps its type, for all
  cards, devices, workers and limits, with one lemma for each group of statements.
  `NobodyWaitsInACircle` (`NoDeadlock`): who holds a card's row waits for nothing, and
  who waits for a device's row holds none yet, so that a set of transactions always has a
  member that waits for none of the others. For the seats of a card,
  `Course` says what any step is to the transactions (untouched, ended, opened, or advanced without a commit)
  and is proved once, so that the invariants below need no case for each
  statement. `TxSound` records what a transaction has done from where it is;
  `Exclusive`, that of two activations past their upsert no two have one device
  (its row lock).
  - `IndexNeverHit`: the binding an activation inserts is not there already,
    because it read the bindings while it held the device's row.
  - `SeatsBounded`: a card binds at most its limit plus one device for each
    further transaction. `SeatBound` is not inductive; the invariant counts the
    bindings together with the transactions under way whose binding is new
    (`SeatsCounted`), each of which read fewer bindings than the limit.
    `OneWorkerKeepsLimit`: with one transaction at a time the limit is kept,
    which fails with two (`SeatLimit`).
  - `ActivationIsWhole` (`RowsAgree`), `FirstActivationStays`: a bound card is activated, its
    end is its activation plus its days, and a first activation stays. The
    invariant relates the row of a card to its bindings and kind (`CardSound`) and
    to what transactions under way have read of it (`ReadSound`).
  - `TransactionsImplementSeats`: every step of `CardActivation` is a step of
    `LicenceSeats` or leaves its state alone.
- `SdkSession_proofs`, for every number of requests, copies, handlers and sessions.
  - `NoReplay`: no signed request passes the guard twice, from the assumption
    `NonceTTL > 2 * Skew + Stall`: 300 s against twice 60 s and the time
    a handler may lie between its clock reading and its `SET NX`. The invariant is
    `TypeOK /\ NonceKept /\ CheckedLately`: the nonce of an accepted request is
    remembered until its timestamp is out of range (accepted at `t`, it carries a
    timestamp of at most `t + Skew + Stall` and is remembered to `t + NonceTTL`), and a
    handler about to set the nonce saw the timestamp in range at most `Stall` ago.
  - `AnswersCanBeRead`, `RotationsAreSpaced`: both rest on `RotationInv`. The key
    a handler verified is still in its hands when it answers (`PastIsOwn`), and a row
    it has read differs from the stored one in its key or has the same time of
    rotation (`RowIsRead`). That in turn needs that no two handlers rotate to the same
    key, which is where `NoReplay` comes in: a key is named by the request
    that made it, and that request was accepted once.
  - `KeysPartByLossOnly` (`KeysAgree`) has the hypothesis `OneByOne`, one handler
    and no duplicates, which is the instance of its run and what `KeysAgree` is about;
    with two handlers at once it fails. `AgreeInv` follows a request from its
    sending to its answer: it is in one place at a time (`OneAnswer`), a key in a row is
    the handshake's or that of an answered heartbeat (`KeyIsAnswered`), and a
    client signs with the handshake's key or holds the row's (`ClientKey`).
- `Accounts_proofs` on `MembershipRedeem`, for any finite set of codes and any number of requests.
  - `CodeHasOneRedeemer`, `CodeIsRedeemedOnce`: `OneRedeemer` is not inductive, since a
    second request could claim a code that is claimed but unused. The invariant adds
    that what a request has claimed is not unused, which the conditional update keeps.
  - `RedemptionAddsItsTerm` (`TermIsAdded`): the clock a request reads for
    the membership is not before its claim (`ClaimedBefore`).
  - `EveryTermIsPaid` (`TermIsPaid`): the sum over all of a developer's codes is not
    inductive. `SettledIsPaid` bounds the membership by the codes whose
    redemption nobody is still crediting, and what a request has read of it by those
    at that time; the code being credited is in neither, so that each write may
    add its term. The sums are `MapThenSumSet` of the community modules, which takes
    elements as `CHOOSE` names them: lemmas `SumExists`, `TotalWithout` and
    `TotalMonotone` show, by well-founded induction over subsets (`SubsetInduction`),
    that the order does not matter.
- `ChunkUpload_proofs`: `UploadsAreWhole` (`PartsAreWhole`), for every number of uploads,
  parts, handlers, losses and restarts. Half of the invariant is the browser's:
  what a call of `chunkedUpload` knows in each phase (`ClientsAreSound`), and that a
  request it waits for is wanted and the only one of its kind
  (`AwaitedIsWanted`), which the types need. The other half is the server's: who notes
  a part in the document has stored it, and so have all those it read there (`NotedIsStored`),
  therefore whatever list is written back last names stored parts only
  (`ListedIsStored`). "Stored" counts a part that somebody is writing, because
  `writeFile` truncates first; a writer of the second piece finds the first one or
  its writer. A restart ends writers in the middle, so storage is claimed until the first
  one, as in `ReceivedIsStored`; `RegisteredInFull` is kept by the size
  checks alone.
- `HardeningTask_proofs`: `CompletedCanBeFetched` (`TasksAreSound`). Three parties write a
  record without looking at each other. `CompletedByItsJob`: only the job's last save
  says "completed", and then its own copy does too, by which the `finally` decides to keep the
  directory; `JobsAreInStep`: a job that works has its directory. `NotYetStarted` and
  `CancelsKnown` say what the request and the cancellers have seen.
- `Accounts_proofs` on `WebSession`, for every number of tabs, requests and logins.
  - `PagesKeepUsablePairs` (`PairsAreUsable`): a stored pair is one the server takes
    unless its exchange is being settled or was cut off. Inductive with the
    history of a pair: nobody names it before it is stored (`StoredFirst`), a waiting
    request waits for the exchange of the pair it presented and one about to be
    repeated has left that pair behind (`Exchanges`), and what the server exchanges is
    stored only while somebody waits for it (`StoredIsSettled`, `GrantedIsGood`).
  - `InterceptorsEnd` (`RequestAdvances`): the variant `StepsLeft` falls with each step of
    a request or of its refresh, without any fairness.
- `Native_proofs` on `X4Engine`, for every state of `/proc`, configuration and number of
  rounds: `TypeCorrect`, `ScoreIsBounded`, `OneHitDoesNotKill`,
  `DryRunAnswersNothing`. The assumptions are those of the
  module: the configurations have their types, the sizes in `/proc` are natural
  numbers. `ScoreForgets` is inductive by itself (lemma `RoundBound`, with `BoundOfEngine`
  writing the bound out for each number of quiet rounds so that it is linear).
  `ScoreKillIsEarned` is not: the invariant adds `HitsBoundScore`, that the score is 0
  without a hit and at most 50 after one, which is below the threshold of 70.
  - `SearchFindsPatterns` (`SearchIsComplete`), for every alphabet, text, overlap and
    division into reads: `SearchIn` keeps its buffer in a recursive function, which
    `SearchSeesWindows` shows to be the window from `From(ends, n)` to the end of the
    read (by the least read at which it is not). A pattern that fits into the overlap lies in
    the window of the first read that reaches its end.

- `Native_proofs` on `SoLoader` and `CustomLinker`, for any page size, any APK and any objects that
  are `WellLinked`, whatever their segments, relocations and symbols.
  - `ImagesStaySound` (`ImagesAreSound`): the invariant of an image is a predicate on seven
    values (one of them `refused`), `Sound`, which says for each phase what `cl_dlopen_mem` has done so far. While
    segments are loaded, those before `pos` hold the file's words and the zeros behind them
    (`LoadedTo`); `LoadOne` needs that a later segment shares no word with an earlier one, or
    `MAP_FIXED` would wipe it. While entries are relocated, a word that one before `pos` names
    holds its address and every other one is plain (`RelocatedTo`): a 32-bit relative
    relocation adds to the word in place, so it must not have been relocated before.
    After the last entry all is as wanted (`AllRelocated`), and
    `cl_protect_segments` gives each page the flags of its only segment (`ProtectedAs`).
    What is said of protections holds of images for which the kernel refused nothing, as in the property;
    what is said of words holds of all that are open. `FaultInv` adds that a fault needs a refusal.
    The lemmas on pages and words (`OnePage` to `SegmentIsPlain`) are the arithmetic of
    `CL_PAGE_START` and `CL_PAGE_END`.
  - `EveryCallLands` (`CallsLand`): `TurnsInv` says which image is open while who works,
    `QueueInv` that what waits to be called is a function of the image, `PointersInv` that
    with the handle set the pointers are those of the image that is mapped now; the pointers
    alone outlive it. The head may be erased under all of them, since it lies in a page that is
    only read.
  - `PlainStaysWiped` needs in `PlainInv` where a buffer may hold decrypted bytes at all.
  - `PackedStaysFound`: inductive by itself; every trailer that is taken leads to the first
    word of a library (`TakenLeads`), and a packed library's is taken (`FrameIsTaken`).

- `VmEngine_proofs`, for every job the callers provide, whatever the lengths of buffer and
  key, the texts and what lies around them. The two programs are disassembled
  once from the bytes of the header (`XorDisassembled`, `VerifyDisassembled`). The
  invariant then says of each address what the registers and the memory hold there
  (`XorAt`, `VerifyAt`), with the number of characters done as the only unknown of a loop; one
  lemma for each kind of instruction (`DoMovRI` to `DoRet`) leads from an address to the next.
  - `ProgramsStayWithin` (`StaysWithin`): every address of the invariant holds a whole
    instruction, and each load and store is one of a cell the caller gave. The key's index
    is wound back when it reaches the length, so it is the remainder (`NextRemainder`).
    The loop of `verify_hash` has gone no further than the texts (`Going`, `GoingFits`).
  - `ProgramsEndRight` (`ProgramsCompute`): characters before `i` are decrypted, the others
    and every other cell are as they were (`Turned`). For `verify_hash`, that the prefixes agree so far
    (`EqualUpTo`), from which a text that is reported different is (`DifferenceIsReal`). That texts reported equal are
    equal is not so (`VerifyIsEquality`). The inner interpreter is followed by `InnerInv`.
  - `PatchedNeverRuns` (`PatchedRunsNothing`): a failed check of the CRC and a program that has
    begun exclude each other (`PatchInv`).

- `ApkGuard_proofs`, for any set of files, ways of loading the library and number of changes.
  Of each action a lemma (`SelfBecomes` to `BeginsByCall`) says which thread it
  moves and what that thread holds then; the invariants rest on these alone.
  - `RedirectIsEvidence` (`NoFalseRedirect`): inductive with `FilesAreOwn`, that a file
    that is not the app's comes behind the cached descriptor by a change only; what the code
    opens is the file at the path (`CacheStep`).
  - `GenuineIsNotHarmed` (`NoFalseAlarm`): `GenuineIsKept` speaks of the process and of one answer;
    the invariant `Genuine` says why no later round fails: no thread has found
    anything, whatever it is about to compare is the app's own file, and the canary has the
    guard's value from the third check of a round on, also while another thread begins one.
    The hypothesis `LoadedPasses`, that this file passes the pure checks, is what
    `PackagesPass` evaluates for the file of the instance. The theorem has the restrictions of the property:
    nothing was changed (`Untouched`: the library carries its hash, lies at a place of the app's own and no
    other package is first in the maps), no checksum table is configured, for with one the guard's
    strings are stale (`guard_args`), and an inner library is absent or agrees. The one the build ships
    does not (`InnerIsNoAlarm`), so that for such a build the theorem says what the outer library does until
    that is mended.
  - `WarningsKeepTheirPeriod` (`WarningsAreSpaced`), for any table, length of keys, period
    and sequence of calls. A key may sit in several slots, as a longer one is cut
    to it, and the search finds the first. The invariant `TableInv` says that each
    slot holds the report that took it last (`Taker`), that no slot of a key is older than one
    of it further on (`FirstIsNewest`), and that two reports of one key that both
    hold a slot are a period apart (`Apart`).
    When a key is reported again within its period, the call that displaced it found no
    slot free and none older; so each slot held a report of another key that is not
    older, no two the same one, and there are as many of them as slots (`DisplacedByOthers`).

Constants have the assumptions their modules state: a number or a set has its
type, `None` (`NoPair`) is not a value it stands beside. Beyond that the proofs assume
`NonceTTL > 2 * Skew + Stall`, the finite set of codes that a sum needs, `LoadedPasses`,
of the objects that are loaded `LinkedAssumption`, and of jobs `Provided`, with an address
behind the last cell (`CellsAssumption`) and strings that are bytes (`StringsAssumption`).

Induction over data is done where a property needs it, by the least
counterexample: `LeastExists` for numbers, `SubsetInduction` for finite sets.

Only model-checked: the liveness properties and `ENABLED` (out of the prover's
reach), the string ciphers (`StringsComeBack`; `StrCipher` computes with `Bitwise`, which the
prover cannot take), the test programs of the interpreter (`LawsHold`: they are constants
of the instance) and what the APK checks compute: `PackagesPass`, `ChangesAreFound` and
`CodecsAgree` are evaluated on the packages and texts of the instance.

## 5. What the code does against its documents

Shown by a run: `guard_args` (quotation in `PROJECT.json`); stated in the modules
and refuted there: see "Statements the code does not keep". Seen while modelling, and part
of the models, but without a run of their own:

- Failure rows of `validation_log` written inside of the transaction are rolled
  back by the exception that follows (`sdk.service.ts:101`, 117, 134, 166, 181).
- A card that was never activated is reported expired by validate, and valid
  for a device the server does not know (`sdk.service.ts:334`, 356), where
  ADR 0017 expects "not activated".
- One device can claim several trial cards, and an activated trial card that was
  unbound stays refused (`sdk.service.ts:132`).
- A session that expires during a heartbeat is set again with a full TTL; the
  client never applies the server's clock (ADR 0021 says it does).
- A part that is rewritten while the parts are joined leaves zeros of the right
  length in the APK; only the length and the first bytes are checked. A restart
  can leave a listed part torn.
- A late handler sets the Redis key of a joined upload again; the directory of
  an expired upload is never removed; an upload started again sends every part
  again; the failure of one part does not stop the window.
- A cancellation that overlaps the last save leaves the job's directory behind;
  the total timeout is looked at once; of two tasks made at once one is not
  listed; the keystore file stays; a restart, or one rejected progress report of
  an analysis, leaves tasks unfinished for ever.
- A redemption that fails after the claim uses the code up; a code redeemed
  while it is being disabled ends up disabled.
- A refresh token can be exchanged twice, by two requests between its GET and its
  DEL (`auth.service.ts:139`, 155; the comment at 154 speaks of protection against
  replay). The slower of two tabs is refused and clears the pair the other has
  just stored. A refresh answered after a logout stores a live pair again, and a
  logout that fails leaves the server's token live.
- A wrong current password or code is answered 401, so the page refreshes, tries
  again, and then signs the developer out (`client.ts:118`). The router's guard
  removes the refresh token as soon as the access token has expired
  (`router/index.ts:110`). `handleLogout` goes to `/login` before the tokens are
  cleared (`MainLayout.vue:62`), and the guard sends it to the dashboard.

X4 response engine:

- `check_state_and_tracer` reads the state from the character after ")", which is
  a space, so that this strong evidence never arises. The inotify flag stays set:
  one event scores 50 in its round and 85 in the next, which reaches the kill
  threshold, where `score_weights.h:9-10` asks for two signals.
- After `ZERO_ROUNDS` quiet rounds the score is smaller, not zero. A soft exemption
  clears the score before the round, not after it. `x4_rollback_note_kill` has no
  caller, so two of the three conditions of the rollback cannot be met. The third, lone
  strong evidence, is met in a dry run only, where it raises the policy "none" to "warn": otherwise the round that
  sees the evidence ends the process before a rollback could take the session down to a warning,
  as `auto_rollback.h:6` and ADR 0093 have it (`LoneEvidenceWarns`).
- `check_rwx` and the anonymous memory check read the maps once and see their first
  4096 bytes. `x4Init` called again takes new baselines. `x4_search_maps` writes its terminator
  one past its array after a read that fills it. "log ignored" is printed after a
  kill or a warning too. The loaders of the configuration and of the class loaders' creators are stubs.

VM engine:

- `ivm_run` does not decode the header's program, and its limit (120) is below the
  program's length (151): it returns the address of the hash, so the self test
  of `validator_core.c` fails whenever the inner library is loaded, and the first
  round aborts. `t3_assemble` and `t4_get` ignore the answer of `vm_execute`.
- `verify_hash` compares its counter with the last character and so may stop
  early; its limit of 64 is never tested. A difference it reports is one (`DifferenceIsReal`), equality is not (`VerifyIsEquality`).

Loader:

- On arm64 `cl_mmap` and `mr_mmap` are system calls that return `-errno`, but their results are compared with
  `MAP_FAILED` (`custom_linker.c:178`, 202, `mmap_reader.c:530`): a refused mapping is used, the
  process faults, and the way through a memory file, written for this case, is not taken. No result of
  `cl_mprotect` is looked at (225, 391, 437).
- On 32 bits `R_ARM_ABS32` loses what is to be added, and symbols resolve in the default
  scope only; unknown relocation types are passed over. `cl_find_symbol` looks at
  4096 entries and stops at the first name outside of the string table: a later
  `JNI_OnLoad` leads to the memory file, whose constructors run again, with the first inner image left mapped
  and unowned.
- A page between segments stays readable and writable; segments in one page
  replace each other's protection; erasing the header leaves its page read-only. The inner function pointers
  stay set after the image is closed (guarded by `is_loaded`). The result of `JNI_OnLoad` is only logged.

APK and code checks:

- The signing block is taken to begin 16 bytes early (its size is subtracted with
  24 more, where the format counts 8 before the size), so the last 16 bytes of the
  entries are outside of the hash.
- `so_name_len` is 17 for a name of 18 characters. `compare_with_embedded` answers 1
  for a placeholder where its comment says -1 (`PlaceholderIsTold`). The library leaves out every
  entry below `lib/` with the defender's name in it, the script only those that end in ".so": a
  `libxcj_defender.so.bak` makes the two disagree. Layer D hashes the file of the first ".apk!" line of the maps,
  whichever package that is. A backslash as the last character leads the JSON reader over
  the text's end (`integrity.c:632`, 653). Layer D falls back to the whole
  file's hash on any failure; layer C repeats D and ignores `server_apk_hash`. Answers of -1 never
  fail a round, but that of `verifySignature` is reported as a violation.
- The first round aborts whatever `onViolation` says. The canary is never reset.
  With no table `dex_integrity` answers -1 at `JNI_OnLoad`. The path of a file that was
  replaced reads "(deleted)". A failing `fstat` closes the number even if it is the cached one.
- Layer 2 compares the directory's CRC only; layer 4 sees added files, not missing ones
  as its heading says, and takes added libraries for a warning because it
  compares four characters with ".so", against `integrity.c:755-757` (`AddedLibraryFails`). A name of 256 bytes or more ends the walk with a
  warning, a streamed entry the scan of local headers. Lines of the maps are cut at
  1023 characters.
- `MAX_EXCLUDE_RANGES` allows four copies of the library, the script any number.
  `patch_text_hash.py` is called by no build script and hashes `.text`, while
  `self_verify.c` hashes the whole executable segment; the expected hash is not volatile. `serverGateHasValidToken` has no
  caller, and the guard does not retry the gate as the provider's log says.
- A key of the throttle that is cut (64 characters or more) never matches its own
  entry; among entries of one second the one just refreshed may be replaced. Its
  clock is `time(NULL)`: set back, it holds reports back until it has caught up (the model's clock does not go back).

## 6. Not modelled

Cryptography (keys, signatures, hashes and ciphers are symbols), inflate and CRC
computations, the content of APKs beyond the cells the checks read and
of part files beyond their length and holes, queries and exports, formats and
messages, tenant isolation by row-level security, the packer and audit
pipelines, pages and deployment. The deletion of an
application, which removes its cards with everything bound to them, and batch
console operations are left out of `CardActivation`. Membership levels are left
out of `MembershipRedeem`: they replace each other and bound nothing.

Of the native library: the detectors `anti_frida.c`, `anti_debug.c`, `anti_dump.c`,
`root_check.c`, `patch_env_detect.c`, `x4_gc_roots.c` and the like look at `/proc`, files
or code once and keep no state; what they find is an input. Of the engine,
`x4_emergency_stop`, `x4_daemon_stop` and the application of the strong switches have no callers, and telemetry
only logs. Of the loader, the direct system calls, the noise of the control flow
and the bytes of ELF headers. Of the checks, the JNI functions that hand single
results to Kotlin, the reactions of the provider, and the search for V2 pairs, which has no
caller. `server_gate.c` keeps a token nobody asks for.

## 7. What may follow

1. The two-factor login with its backup codes in `WebSession`.
2. The limit of applications and the rate limits; the check character of card
   keys as a function against a reference; the offline cache beside `SdkSession`.
