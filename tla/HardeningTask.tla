--------------------------- MODULE HardeningTask ---------------------------
(***************************************************************************)
(* Analysis and hardening tasks: a request makes a task, notes it in the   *)
(* developer's list and goes on in the background, reporting its progress  *)
(* by writing the whole record to Redis (HardeningService); other requests *)
(* cancel tasks.  The background job keeps the task in memory and never    *)
(* reads the record back.                                                  *)
(*                                                                         *)
(* One connection carries all Redis commands, in the order they are given, *)
(* so a command is one step.  A command may fail and then has no effect.   *)
(***************************************************************************)
EXTENDS Naturals, Sequences, Functions

CONSTANTS
  Tasks,       \* the tasks one developer makes
  Earlier,     \* tasks of the developer that were made before
  Cancellers,  \* handlers of cancel requests that may run together
  MaxListed,   \* length of the developer's list of tasks: 50
  MaxFaults,   \* bound on the Redis commands, and the mkdir, that fail
  MaxRestarts, \* bound on restarts of the server
  None

ASSUME BoundsAssumption == MaxListed \in Nat \ {0} /\ MaxFaults \in Nat /\ MaxRestarts \in Nat
ASSUME TasksAssumption == Tasks \cap Earlier = {}

VARIABLES
  record,    \* record[t]: the Redis key hardening:task:t
  listed,    \* hardening:user_tasks: the ids, the newest first
  request,   \* request[t]: the request that makes task t
  job,       \* job[t]: the background job and the task it keeps in memory
  late,      \* late[t]: the timer of the total timeout has fired
  work,      \* work[t]: the job's directory with the APK is on disk
  keystore,  \* keystore[t]: the uploaded keystore is on disk
  canceller, \* canceller[w]: the cancel request worker w is handling
  faults,    \* failures so far
  restarts   \* restarts so far

vars == <<record, listed, request, job, late, work, keystore, canceller, faults, restarts>>

Statuses == {"analyzing", "hardening", "signing", "completed", "failed", "cancelled"}
Ended == {"completed", "failed", "cancelled"}
Record == [status : Statuses, output : BOOLEAN]     \* output: outputPath is there
ASSUME NoneAssumption == None \notin Record

(***************************************************************************)
(* What a job does, one tool after the other; each is announced by a       *)
(* progress report.  A hardening may leave out the steps of modules that   *)
(* are switched off.                                                       *)
(***************************************************************************)
Stages ==
  [analysis |-> <<"unzip", "dex", "abi", "manifest", "hardener", "sdk">>,
   harden   |-> <<"preflight", "strip", "apktool_d", "manifest", "apktool_b", "config", "dex",
                  "so_arm64", "so_armv7", "t4", "zipalign", "sign", "hash_embed">>]
Optional == {"so_arm64", "so_armv7", "t4", "hash_embed"}
Kind(t) == request[t].kind
Begun(t) == [status |-> IF Kind(t) = "analysis" THEN "analyzing" ELSE "hardening", output |-> FALSE]

Ids == Tasks \cup Earlier
Request == [pc : {"new", "list", "add", "answered", "refused"}, kind : {"analysis", "harden"},
            seen : Seq(Ids)]
NewRequest(kind) == [pc |-> "new", kind |-> kind, seen |-> <<>>]
Pcs == {"off", "mkdir", "report", "tool", "signing", "finish", "caught", "cleanup", "unsaved",
        "fallback", "end", "lost"}
Job == [pc : Pcs, stage : 1 .. 13, task : Record]
Cancel == [pc : {"read", "set"}, task : Tasks, copy : Record \cup {None}]
Idle == [pc |-> "idle"]

Init ==
  /\ record = [t \in Tasks |-> None]
  /\ listed \in {ids \in UNION {[1 .. n -> Earlier] : n \in 0 .. MaxListed} : IsInjective(ids)}
  /\ request \in [Tasks -> {NewRequest("analysis"), NewRequest("harden")}]
  /\ job = [t \in Tasks |-> [pc |-> "off", stage |-> 1, task |-> Begun(t)]]
  /\ late = [t \in Tasks |-> FALSE]
  /\ work = [t \in Tasks |-> FALSE]
  /\ keystore = [t \in Tasks |-> FALSE]
  /\ canceller = [w \in Cancellers |-> Idle]
  /\ faults = 0
  /\ restarts = 0

\* A Redis command, or a job's mkdir, fails.
Fault == faults < MaxFaults /\ faults' = faults + 1
NoFault == UNCHANGED faults

-----------------------------------------------------------------------------
(***************************************************************************)
(* The request.                                                            *)
(***************************************************************************)
Refuse(t) ==
  /\ request' = [request EXCEPT ![t].pc = "refused"]
  /\ keystore' = [keystore EXCEPT ![t] = FALSE]
  /\ Fault
  /\ UNCHANGED <<record, listed, job, late, work, canceller, restarts>>

\* harden writes an uploaded keystore to a file first; then the task is saved.
StartSave(t) ==
  /\ request[t].pc = "new"
  /\ \/ Refuse(t)
     \/ /\ \E uploaded \in BOOLEAN :
             /\ uploaded => Kind(t) = "harden"
             /\ keystore' = [keystore EXCEPT ![t] = uploaded]
        /\ record' = [record EXCEPT ![t] = Begun(t)]
        /\ request' = [request EXCEPT ![t].pc = "list"]
        /\ NoFault
        /\ UNCHANGED <<listed, job, late, work, canceller, restarts>>

\* addUserTask reads the list,
StartRead(t) ==
  /\ request[t].pc = "list"
  /\ \/ Refuse(t)
     \/ /\ request' = [request EXCEPT ![t].pc = "add", ![t].seen = listed]
        /\ NoFault
        /\ UNCHANGED <<record, listed, job, late, work, keystore, canceller, restarts>>

\* and writes it back with the task in front; the job goes on in the background.
Listing(t) ==
  LET ids == <<t>> \o request[t].seen
  IN  IF Len(ids) > MaxListed THEN SubSeq(ids, 1, MaxListed) ELSE ids

StartAdd(t) ==
  /\ request[t].pc = "add"
  /\ \/ Refuse(t)
     \/ /\ listed' = Listing(t)
        /\ request' = [request EXCEPT ![t].pc = "answered", ![t].seen = <<>>]
        /\ job' = [job EXCEPT ![t].pc = IF Kind(t) = "harden" THEN "mkdir" ELSE "report"]
        /\ NoFault
        /\ UNCHANGED <<record, late, work, keystore, canceller, restarts>>

-----------------------------------------------------------------------------
(***************************************************************************)
(* The job.                                                                *)
(***************************************************************************)
Goto(t, pc) == job' = [job EXCEPT ![t].pc = pc]
StageOf(t) == Stages[Kind(t)][job[t].stage]

\* saveTask: the task as the job has it replaces the record.
Save(t, task) ==
  /\ record' = [record EXCEPT ![t] = task]
  /\ NoFault

\* mkdir comes before the try: its failure goes straight to the fallback.
Mkdir(t) ==
  /\ job[t].pc = "mkdir"
  /\ \/ Fault /\ Goto(t, "fallback") /\ UNCHANGED work
     \/ NoFault /\ Goto(t, "report") /\ work' = [work EXCEPT ![t] = TRUE]
  /\ UNCHANGED <<record, listed, request, late, keystore, canceller, restarts>>

\* The process dies with every request and job in it; Redis and the disk stay.
Die ==
  /\ request' = [t \in Tasks |->
       IF request[t].pc \in {"list", "add"} THEN [request[t] EXCEPT !.pc = "refused"] ELSE request[t]]
  /\ job' = [t \in Tasks |->
       IF job[t].pc \in {"off", "end"} THEN job[t] ELSE [job[t] EXCEPT !.pc = "lost"]]
  /\ canceller' = [w \in Cancellers |-> Idle]
  /\ UNCHANGED <<record, listed, late, work, keystore>>

\* A progress report.  The analyzer does not wait for those it makes: when one
\* fails nobody handles the rejection, which ends the process.
Awaited(t) == Kind(t) = "harden" \/ job[t].stage = 1
Report(t) ==
  /\ job[t].pc = "report"
  /\ \/ Save(t, job[t].task) /\ Goto(t, "tool")
        /\ UNCHANGED <<listed, request, late, work, keystore, canceller, restarts>>
     \/ Fault /\ Awaited(t) /\ Goto(t, "caught")
        /\ UNCHANGED <<record, listed, request, late, work, keystore, canceller, restarts>>
     \/ Fault /\ ~Awaited(t) /\ Die /\ UNCHANGED restarts

\* The tool runs, or fails, which its own timeout makes it do in the end.  Only
\* the preflight is followed by a look at the total timeout.
NextStage(t) ==
  IF job[t].stage = Len(Stages[Kind(t)])
  THEN Goto(t, "finish")
  ELSE job' = [job EXCEPT ![t].stage = @ + 1, ![t].pc = "report"]

Tool(t) ==
  /\ \/ /\ job[t].pc = "tool"
        /\ \/ Goto(t, "caught")
           \/ /\ StageOf(t) = "sign"
              /\ job' = [job EXCEPT ![t].pc = "signing", ![t].task.status = "signing"]
           \/ /\ StageOf(t) # "sign"
              /\ StageOf(t) = "preflight" => ~late[t]
              /\ NextStage(t)
     \/ /\ job[t].pc = "report" /\ StageOf(t) \in Optional
        /\ NextStage(t)
  /\ UNCHANGED <<record, listed, request, late, work, keystore, canceller, faults, restarts>>

\* The signing is announced by a status of its own, and then done.
Sign(t) ==
  /\ job[t].pc = "signing"
  /\ \/ Save(t, job[t].task) /\ (NextStage(t) \/ Goto(t, "caught"))
     \/ Fault /\ Goto(t, "caught") /\ UNCHANGED record
  /\ UNCHANGED <<listed, request, late, work, keystore, canceller, restarts>>

\* The last save of a job that has succeeded; a failure sends it to the catch.
Done(t) == [status |-> "completed", output |-> Kind(t) = "harden"]
Finish(t) ==
  /\ job[t].pc = "finish"
  /\ \/ Save(t, Done(t)) /\ job' = [job EXCEPT ![t].pc = "cleanup", ![t].task = Done(t)]
     \/ Fault /\ job' = [job EXCEPT ![t].pc = "caught", ![t].task = Done(t)] /\ UNCHANGED record
  /\ UNCHANGED <<listed, request, late, work, keystore, canceller, restarts>>

\* The catch saves the failure.  When that fails too the rejection goes on to the
\* fallback, which the request attached to the job, after the finally.
Failed(task) == [task EXCEPT !.status = "failed"]
MutUnsaved == "cleanup"
Unsaved == "unsaved"

Caught(t) ==
  /\ job[t].pc = "caught"
  /\ \/ /\ Save(t, Failed(job[t].task))
        /\ job' = [job EXCEPT ![t].pc = "cleanup", ![t].task = Failed(job[t].task)]
     \/ /\ Fault /\ UNCHANGED record
        /\ job' = [job EXCEPT ![t].pc = Unsaved, ![t].task = Failed(job[t].task)]
  /\ UNCHANGED <<listed, request, late, work, keystore, canceller, restarts>>

\* The finally removes the directory, unless the job has it that it succeeded.
MutKept(t) == FALSE
Kept(t) == job[t].task.status = "completed"

Cleanup(t) ==
  /\ job[t].pc \in {"cleanup", "unsaved"}
  /\ work' = [work EXCEPT ![t] = @ /\ Kept(t)]
  /\ Goto(t, IF job[t].pc = "cleanup" THEN "end" ELSE "fallback")
  /\ UNCHANGED <<record, listed, request, late, keystore, canceller, faults, restarts>>

Fallback(t) ==
  /\ job[t].pc = "fallback"
  /\ job' = [job EXCEPT ![t].pc = "end", ![t].task = Failed(job[t].task)]
  /\ \/ Save(t, Failed(job[t].task))
     \/ Fault /\ UNCHANGED record
  /\ UNCHANGED <<listed, request, late, work, keystore, canceller, restarts>>

\* The timer of the total timeout, set before the first tool, cleared by the finally.
Timeout(t) ==
  /\ Kind(t) = "harden" /\ ~late[t]
  /\ job[t].pc \in {"report", "tool", "signing", "finish", "caught"}
  /\ late' = [late EXCEPT ![t] = TRUE]
  /\ UNCHANGED <<record, listed, request, job, work, keystore, canceller, faults, restarts>>

-----------------------------------------------------------------------------
(***************************************************************************)
(* Cancelling: the controller refuses what has completed or is cancelled   *)
(* already, the service reads the record again and writes it back.         *)
(***************************************************************************)
CancelCheck(w, t) ==
  /\ canceller[w] = Idle
  /\ record[t] # None /\ record[t].status \notin {"completed", "cancelled"}
  /\ canceller' = [canceller EXCEPT ![w] = [pc |-> "read", task |-> t, copy |-> None]]
  /\ UNCHANGED <<record, listed, request, job, late, work, keystore, faults, restarts>>

CancelRead(w) ==
  /\ canceller[w].pc = "read"
  /\ \/ /\ canceller' = [canceller EXCEPT ![w].pc = "set", ![w].copy = record[canceller[w].task]]
        /\ NoFault
     \/ canceller' = [canceller EXCEPT ![w] = Idle] /\ Fault
  /\ UNCHANGED <<record, listed, request, job, late, work, keystore, restarts>>

CancelSet(w) ==
  /\ canceller[w].pc = "set"
  /\ canceller' = [canceller EXCEPT ![w] = Idle]
  /\ \/ Save(canceller[w].task, [canceller[w].copy EXCEPT !.status = "cancelled"])
     \/ Fault /\ UNCHANGED record
  /\ UNCHANGED <<listed, request, job, late, work, keystore, restarts>>

Restart ==
  /\ restarts < MaxRestarts
  /\ restarts' = restarts + 1
  /\ Die
  /\ NoFault

Start(t) == StartSave(t) \/ StartRead(t) \/ StartAdd(t)
Run(t) ==
  Mkdir(t) \/ Report(t) \/ Tool(t) \/ Sign(t) \/ Finish(t) \/ Caught(t) \/ Cleanup(t) \/ Fallback(t)

Next ==
  \/ \E t \in Tasks : Start(t) \/ Run(t) \/ Timeout(t)
  \/ \E w \in Cancellers : CancelRead(w) \/ CancelSet(w) \/ \E t \in Tasks : CancelCheck(w, t)
  \/ Restart

Spec == Init /\ [][Next]_vars

\* A job that has been started goes on, every tool it runs has a timeout of its own.
FairSpec == Spec /\ \A t \in Tasks : WF_vars(Run(t))

-----------------------------------------------------------------------------
(***************************************************************************)
(* Properties.                                                             *)
(***************************************************************************)
TypeOK ==
  /\ record \in [Tasks -> Record \cup {None}]
  /\ listed \in Seq(Ids) /\ Len(listed) <= MaxListed
  /\ request \in [Tasks -> Request]
  /\ job \in [Tasks -> Job]
  /\ late \in [Tasks -> BOOLEAN]
  /\ work \in [Tasks -> BOOLEAN]
  /\ keystore \in [Tasks -> BOOLEAN]
  /\ canceller \in [Cancellers -> Cancel \cup {Idle}]
  /\ faults \in 0 .. MaxFaults
  /\ restarts \in 0 .. MaxRestarts

\* What can be downloaded is there: a hardening whose record says completed has
\* the path of its APK in the record and the APK on disk, whatever commands
\* failed, whoever cancelled and whenever the server restarted.
CompletedIsThere ==
  \A t \in Tasks : record[t] # None /\ record[t].status = "completed" /\ Kind(t) = "harden" =>
    record[t].output /\ work[t]

\* The records have their types and promise no file that is not there.
TasksAreSound == TypeOK /\ CompletedIsThere

\* A task that was answered ends in its record, also when a tool fails and then
\* the save of that failure, unless the process dies under its job: the fallback
\* makes up for one failing command (not for two: the fallback of a failed mkdir
\* is the only one to report it).
TaskEnds ==
  \A t \in Tasks : request[t].pc = "answered" ~>
    job[t].pc = "lost" \/ (record[t] # None /\ record[t].status \in Ended)

\* HARDENING_SUBFEATURES_SPEC, acceptance E: cancelling makes the task cancelled.
\* (The job's next save writes the task as the job has it.)
CancelledStays ==
  [][\A t \in Tasks : record[t] # None /\ record[t].status = "cancelled" =>
       record'[t].status = "cancelled"]_vars

=============================================================================
