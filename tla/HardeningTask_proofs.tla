------------------------ MODULE HardeningTask_proofs ------------------------
(***************************************************************************)
(* Proofs about HardeningTask: a hardening whose record says completed can *)
(* be downloaded, whatever failed, whoever cancelled it and whenever the   *)
(* server restarted.                                                       *)
(***************************************************************************)
EXTENDS HardeningTask, SequenceTheorems, TLAPS

-----------------------------------------------------------------------------
(***************************************************************************)
(* The inductive invariant.  The record is written by three parties that   *)
(* do not look at each other, the request, the job and the cancel requests; *)
(* the argument is that only the job's last save says completed, and that  *)
(* the finally decides by the job's own copy, which says so only then.     *)
(***************************************************************************)
\* Before its request has been answered a task has no job.
NotYetStarted ==
  \A t \in Tasks : request[t].pc # "answered" => job[t].pc = "off"

\* A job that works has its directory, and has not finished; what reaches the
\* fallback by way of the catch has failed.
JobsAreInStep ==
  \A t \in Tasks :
    /\ job[t].stage <= Len(Stages[Kind(t)])
    /\ job[t].pc \in {"off", "mkdir", "report", "tool", "signing", "finish"} =>
         job[t].task.status # "completed"
    /\ Kind(t) = "harden"
         /\ job[t].pc \in {"report", "tool", "signing", "finish", "caught", "cleanup"} => work[t]
    /\ job[t].pc = "unsaved" => job[t].task.status = "failed"

\* A record says completed only when the job that wrote it knows so too.
CompletedByItsJob ==
  \A t \in Tasks :
    record[t] # None /\ record[t].status = "completed" /\ Kind(t) = "harden" =>
      /\ record[t].output /\ work[t]
      /\ job[t].task.status = "completed" /\ job[t].pc \in {"cleanup", "end", "lost"}

\* A cancel request handles a task that has a record.
CancelsKnown ==
  \A w \in Cancellers : canceller[w] # Idle =>
    /\ record[canceller[w].task] # None
    /\ canceller[w].pc = "set" => canceller[w].copy # None

TasksInv == TypeOK /\ NotYetStarted /\ JobsAreInStep /\ CompletedByItsJob /\ CancelsKnown

-----------------------------------------------------------------------------
(***************************************************************************)
(* What the variables hold.                                                *)
(***************************************************************************)
LEMMA StageCounts ==
  /\ Len(Stages["analysis"]) = 6 /\ Len(Stages["harden"]) = 13
  /\ \A k \in {"analysis", "harden"} : Len(Stages[k]) \in 1 .. 13
<1>1. Len(Stages["analysis"]) = 6 /\ Len(Stages["harden"]) = 13
  BY DEF Stages
<1> QED BY <1>1

\* Records, where the prover has to tell None from them.
LEMMA RequestTypes ==
  ASSUME TypeOK, NEW t \in Tasks
  PROVE  /\ request[t] \in Request /\ Kind(t) \in {"analysis", "harden"}
         /\ request[t].seen \in Seq(Ids)
         /\ Len(Stages[Kind(t)]) \in 1 .. 13
BY StageCounts DEF TypeOK, Request, Kind

LEMMA JobTypes ==
  ASSUME TypeOK, NEW t \in Tasks
  PROVE  /\ job[t] \in Job /\ job[t].pc \in Pcs /\ job[t].stage \in 1 .. 13 /\ job[t].stage \in Nat
         /\ job[t].task \in Record /\ job[t].task.status \in Statuses
         /\ Failed(job[t].task) \in Record /\ Failed(job[t].task).status = "failed"
<1>1. job[t] \in Job
  BY DEF TypeOK
<1>2. job[t].pc \in Pcs /\ job[t].stage \in 1 .. 13 /\ job[t].task \in Record
  BY <1>1 DEF Job
<1>3. Failed(job[t].task) \in Record /\ Failed(job[t].task).status = "failed"
  BY <1>2 DEF Record, Failed, Statuses
<1> QED BY <1>1, <1>2, <1>3 DEF Record

LEMMA BegunTypes ==
  ASSUME NEW t \in Tasks
  PROVE  /\ Begun(t) \in Record /\ Begun(t).status # "completed"
         /\ Done(t) \in Record /\ Done(t).status = "completed"
         /\ Kind(t) = "harden" => Done(t).output
BY DEF Begun, Done, Record, Statuses

LEMMA CancelTypes ==
  ASSUME TypeOK, NEW w \in Cancellers, canceller[w] # Idle
  PROVE  /\ canceller[w] \in Cancel /\ canceller[w].task \in Tasks
         /\ canceller[w].copy \in Record \cup {None}
BY DEF TypeOK, Cancel

LEMMA ListingTypes ==
  ASSUME TypeOK, NEW t \in Tasks
  PROVE  Listing(t) \in Seq(Ids) /\ Len(Listing(t)) <= MaxListed
<1> DEFINE ids == <<t>> \o request[t].seen
<1>1. <<t>> \in Seq(Ids) /\ request[t].seen \in Seq(Ids)
  BY RequestTypes DEF Ids
<1>2. ids \in Seq(Ids)
  BY <1>1, ConcatProperties
<1>3. Len(ids) \in Nat /\ \A i \in 1 .. Len(ids) : ids[i] \in Ids
  BY <1>2, LenProperties, ElementOfSeq
<1>4. CASE Len(ids) > MaxListed
  <2> HIDE DEF ids
  <2>1. \A i \in 1 .. MaxListed : ids[i] \in Ids
    BY <1>3, <1>4, BoundsAssumption
  <2>2. SubSeq(ids, 1, MaxListed) \in Seq(Ids) /\ Len(SubSeq(ids, 1, MaxListed)) = MaxListed
    BY <2>1, BoundsAssumption, SubSeqProperties
  <2>3. Listing(t) = SubSeq(ids, 1, MaxListed)
    BY <1>4 DEF Listing, ids
  <2> QED BY <2>2, <2>3, BoundsAssumption
<1>5. CASE ~(Len(ids) > MaxListed)
  <2>1. Listing(t) = ids
    BY <1>5 DEF Listing
  <2> QED BY <1>2, <1>3, <1>5, <2>1, BoundsAssumption
<1> QED BY <1>4, <1>5

-----------------------------------------------------------------------------
(***************************************************************************)
(* What each action does.                                                  *)
(***************************************************************************)
OthersStay(t) ==
  \A u \in Tasks \ {t} : /\ record'[u] = record[u] /\ request'[u] = request[u]
                         /\ job'[u] = job[u] /\ work'[u] = work[u]
KindStays(t) == request'[t].kind = request[t].kind

\* The variables that only have a type to keep.
RestTypes ==
  /\ listed' \in Seq(Ids) /\ Len(listed') <= MaxListed
  /\ late' \in [Tasks -> BOOLEAN] /\ keystore' \in [Tasks -> BOOLEAN]
  /\ faults' \in 0 .. MaxFaults /\ restarts' \in 0 .. MaxRestarts

LEMMA RestUnchanged ==
  ASSUME TypeOK, UNCHANGED <<listed, late, keystore, restarts>>, Fault \/ NoFault
  PROVE  RestTypes
BY BoundsAssumption DEF TypeOK, RestTypes, Fault, NoFault

LEMMA GotoEffect ==
  ASSUME TypeOK, NEW t \in Tasks, NEW pc \in Pcs, Goto(t, pc)
  PROVE  /\ job' \in [Tasks -> Job]
         /\ job'[t].pc = pc /\ job'[t].stage = job[t].stage /\ job'[t].task = job[t].task
         /\ \A u \in Tasks \ {t} : job'[u] = job[u]
<1>1. job \in [Tasks -> Job] /\ job[t] \in Job
  BY DEF TypeOK
<1> DEFINE new == [job[t] EXCEPT !.pc = pc]
<1>2. new \in Job /\ new.pc = pc /\ new.stage = job[t].stage /\ new.task = job[t].task
  BY <1>1 DEF Job
<1>3. job' = [job EXCEPT ![t] = new]
  BY DEF Goto, TypeOK
<1> HIDE DEF new
<1> QED BY <1>2, <1>3 DEF TypeOK

LEMMA NextStageEffect ==
  ASSUME TypeOK, JobsAreInStep, NEW t \in Tasks, NextStage(t)
  PROVE  /\ job' \in [Tasks -> Job]
         /\ job'[t].pc \in {"finish", "report"} /\ job'[t].task = job[t].task
         /\ job'[t].stage <= Len(Stages[Kind(t)])
         /\ \A u \in Tasks \ {t} : job'[u] = job[u]
<1> DEFINE last == Len(Stages[Kind(t)])
<1>1. job[t].stage <= last /\ last \in 1 .. 13 /\ job[t].stage \in 1 .. 13
  BY RequestTypes, JobTypes DEF JobsAreInStep
<1>2. CASE job[t].stage = Len(Stages[Kind(t)])
  <2>1. Goto(t, "finish") /\ "finish" \in Pcs
    BY <1>2 DEF NextStage, Pcs
  <2> QED BY <1>1, <2>1, GotoEffect
<1>3. CASE job[t].stage # Len(Stages[Kind(t)])
  <2> DEFINE new == [job[t] EXCEPT !.stage = job[t].stage + 1, !.pc = "report"]
  <2>1. job' = [job EXCEPT ![t] = new]
    BY <1>3 DEF NextStage, TypeOK
  <2>2. job[t] \in Job /\ job[t].stage + 1 \in 1 .. 13 /\ job[t].stage + 1 <= last
    <3>1. job[t].stage # last
      BY <1>3
    <3> HIDE DEF last
    <3> QED BY <1>1, <3>1, JobTypes
  <2>3. new \in Job /\ new.stage = job[t].stage + 1 /\ new.pc = "report" /\ new.task = job[t].task
    BY <2>2 DEF Job, Pcs
  <2> HIDE DEF new
  <2> QED BY <2>1, <2>2, <2>3 DEF TypeOK
<1> QED BY <1>2, <1>3

\* Two fields at a time: the job's place and the task it keeps.
LEMMA TaskEffect ==
  ASSUME TypeOK, NEW t \in Tasks, NEW pc \in Pcs, NEW task \in Record,
         job' = [job EXCEPT ![t].pc = pc, ![t].task = task]
  PROVE  /\ job' \in [Tasks -> Job]
         /\ job'[t].pc = pc /\ job'[t].stage = job[t].stage /\ job'[t].task = task
         /\ \A u \in Tasks \ {t} : job'[u] = job[u]
<1> DEFINE new == [job[t] EXCEPT !.pc = pc, !.task = task]
<1>1. job \in [Tasks -> Job] /\ job[t] \in Job
  BY DEF TypeOK
<1>2. new \in Job /\ new.pc = pc /\ new.stage = job[t].stage /\ new.task = task
  BY <1>1 DEF Job
<1>3. job' = [job EXCEPT ![t] = new]
  BY <1>1
<1> HIDE DEF new
<1> QED BY <1>1, <1>2, <1>3

LEMMA SaveEffect ==
  ASSUME TypeOK, NEW t \in Tasks, NEW task \in Record, Save(t, task)
  PROVE  /\ record' \in [Tasks -> Record \cup {None}] /\ record'[t] = task
         /\ \A u \in Tasks \ {t} : record'[u] = record[u]
         /\ NoFault
BY DEF TypeOK, Save

LEMMA StartSaveEffect ==
  ASSUME TypeOK, NEW t \in Tasks, StartSave(t)
  PROVE  /\ record' \in [Tasks -> Record \cup {None}] /\ request' \in [Tasks -> Request] /\ RestTypes
         /\ request[t].pc = "new" /\ request'[t].pc \in {"refused", "list"}
         /\ record'[t] \in {record[t], Begun(t)}
         /\ KindStays(t) /\ OthersStay(t) /\ job' = job /\ work' = work /\ canceller' = canceller
<1>1. request \in [Tasks -> Request] /\ request[t] \in Request
  BY DEF TypeOK
<1>2. \E pc \in {"refused", "list"} : request' = [request EXCEPT ![t].pc = pc]
  BY DEF StartSave, Refuse
<1>3. PICK pc \in {"refused", "list"} : request' = [request EXCEPT ![t].pc = pc]
  BY <1>2
<1>4. /\ request' \in [Tasks -> Request] /\ request'[t].pc = pc /\ request'[t].kind = request[t].kind
      /\ \A u \in Tasks \ {t} : request'[u] = request[u]
  BY <1>1, <1>3 DEF Request
<1>5. keystore' \in [Tasks -> BOOLEAN]
  BY DEF StartSave, Refuse, TypeOK
<1>6. faults' \in 0 .. MaxFaults
  BY BoundsAssumption DEF StartSave, Refuse, Fault, NoFault, TypeOK
<1>7. /\ record' \in [Tasks -> Record \cup {None}] /\ record'[t] \in {record[t], Begun(t)}
      /\ \A u \in Tasks \ {t} : record'[u] = record[u]
  BY BegunTypes DEF StartSave, Refuse, TypeOK
<1> QED BY <1>4, <1>5, <1>6, <1>7 DEF StartSave, Refuse, RestTypes, KindStays, OthersStay, TypeOK

LEMMA StartReadEffect ==
  ASSUME TypeOK, NEW t \in Tasks, StartRead(t)
  PROVE  /\ request' \in [Tasks -> Request] /\ RestTypes
         /\ request[t].pc = "list" /\ request'[t].pc \in {"refused", "add"}
         /\ KindStays(t) /\ OthersStay(t) /\ record' = record /\ job' = job /\ work' = work
         /\ canceller' = canceller
<1>1. request \in [Tasks -> Request] /\ request[t] \in Request /\ listed \in Seq(Ids)
  BY DEF TypeOK
<1>2. keystore' \in [Tasks -> BOOLEAN] /\ faults' \in 0 .. MaxFaults
  <2>1. keystore' = keystore \/ keystore' = [keystore EXCEPT ![t] = FALSE]
    BY DEF StartRead, Refuse
  <2>2. faults' = faults \/ (faults < MaxFaults /\ faults' = faults + 1)
    BY DEF StartRead, Refuse, Fault, NoFault
  <2>3. keystore' \in [Tasks -> BOOLEAN]
    BY <2>1 DEF TypeOK
  <2> QED BY <2>2, <2>3, BoundsAssumption DEF TypeOK
<1>3. \E new \in Request : /\ new.pc \in {"refused", "add"} /\ new.kind = request[t].kind
                           /\ request' = [request EXCEPT ![t] = new]
  <2>1. CASE Refuse(t)
    <3>1. [request[t] EXCEPT !.pc = "refused"] \in Request
      BY <1>1 DEF Request
    <3>2. request' = [request EXCEPT ![t] = [request[t] EXCEPT !.pc = "refused"]]
      BY <1>1, <2>1 DEF Refuse
    <3> QED BY <1>1, <3>1, <3>2 DEF Request
  <2>2. CASE ~Refuse(t)
    <3>1. [request[t] EXCEPT !.pc = "add", !.seen = listed] \in Request
      BY <1>1 DEF Request
    <3>2. request' = [request EXCEPT ![t] = [request[t] EXCEPT !.pc = "add", !.seen = listed]]
      BY <1>1, <2>2 DEF StartRead
    <3> QED BY <1>1, <3>1, <3>2 DEF Request
  <2> QED BY <2>1, <2>2
<1>4. /\ request' \in [Tasks -> Request] /\ request'[t].pc \in {"refused", "add"}
      /\ request'[t].kind = request[t].kind
      /\ \A u \in Tasks \ {t} : request'[u] = request[u]
  BY <1>1, <1>3
<1> QED BY <1>2, <1>4 DEF StartRead, Refuse, RestTypes, KindStays, OthersStay, TypeOK

LEMMA StartAddEffect ==
  ASSUME TypeOK, NEW t \in Tasks, StartAdd(t)
  PROVE  /\ request' \in [Tasks -> Request] /\ job' \in [Tasks -> Job] /\ RestTypes
         /\ request[t].pc = "add"
         /\ \/ request'[t].pc = "refused" /\ job' = job
            \/ /\ request'[t].pc = "answered" /\ job'[t].pc = IF Kind(t) = "harden" THEN "mkdir" ELSE "report"
               /\ job'[t].stage = job[t].stage /\ job'[t].task = job[t].task
         /\ KindStays(t) /\ OthersStay(t) /\ record' = record /\ work' = work
         /\ canceller' = canceller
<1>1. request \in [Tasks -> Request] /\ request[t] \in Request
  BY DEF TypeOK
<1>2. CASE Refuse(t)
  <2>1. keystore' \in [Tasks -> BOOLEAN] /\ faults' \in 0 .. MaxFaults
    BY <1>2, BoundsAssumption DEF Refuse, Fault, TypeOK
  <2>2. [request[t] EXCEPT !.pc = "refused"] \in Request
    BY <1>1 DEF Request
  <2>3. request' = [request EXCEPT ![t] = [request[t] EXCEPT !.pc = "refused"]]
    BY <1>1, <1>2 DEF Refuse
  <2>4. /\ request' \in [Tasks -> Request] /\ request'[t].pc = "refused"
        /\ request'[t].kind = request[t].kind
        /\ \A u \in Tasks \ {t} : request'[u] = request[u]
    BY <1>1, <2>2, <2>3 DEF Request
  <2> QED BY <1>2, <2>1, <2>4 DEF StartAdd, Refuse, RestTypes, KindStays, OthersStay, TypeOK
<1>3. CASE ~Refuse(t)
  <2>1. <<>> \in Seq(Ids)
    OBVIOUS
  <2>2. [request[t] EXCEPT !.pc = "answered", !.seen = <<>>] \in Request
    BY <1>1, <2>1 DEF Request
  <2>3. request' = [request EXCEPT ![t] = [request[t] EXCEPT !.pc = "answered", !.seen = <<>>]]
    BY <1>1, <1>3 DEF StartAdd
  <2>4. /\ request' \in [Tasks -> Request] /\ request'[t].pc = "answered"
        /\ request'[t].kind = request[t].kind
        /\ \A u \in Tasks \ {t} : request'[u] = request[u]
    BY <1>1, <2>2, <2>3 DEF Request
  <2>5. PICK pc \in Pcs : pc = IF Kind(t) = "harden" THEN "mkdir" ELSE "report"
    BY DEF Pcs
  <2>6. Goto(t, pc)
    BY <1>3, <2>5 DEF StartAdd, Goto
  <2>7. listed' \in Seq(Ids) /\ Len(listed') <= MaxListed
    BY <1>3, ListingTypes DEF StartAdd
  <2>8. RestTypes
    BY <1>3, <2>7 DEF StartAdd, RestTypes, NoFault, TypeOK
  <2> QED BY <1>3, <2>4, <2>5, <2>6, <2>8, GotoEffect DEF StartAdd, KindStays, OthersStay, TypeOK
<1> QED BY <1>2, <1>3

LEMMA MkdirEffect ==
  ASSUME TypeOK, NEW t \in Tasks, Mkdir(t)
  PROVE  /\ job' \in [Tasks -> Job] /\ work' \in [Tasks -> BOOLEAN] /\ RestTypes
         /\ job[t].pc = "mkdir"
         /\ job'[t].pc = "fallback" \/ (job'[t].pc = "report" /\ work'[t])
         /\ job'[t].stage = job[t].stage /\ job'[t].task = job[t].task
         /\ OthersStay(t) /\ request' = request /\ record' = record /\ canceller' = canceller
<1>1. \E pc \in {"fallback", "report"} : Goto(t, pc)
  BY DEF Mkdir
<1>2. "fallback" \in Pcs /\ "report" \in Pcs
  BY DEF Pcs
<1>3. RestTypes
  BY RestUnchanged DEF Mkdir
<1>4. work' \in [Tasks -> BOOLEAN] /\ \A u \in Tasks \ {t} : work'[u] = work[u]
  BY DEF Mkdir, TypeOK
<1>5. CASE Goto(t, "fallback")
  BY <1>2, <1>3, <1>4, <1>5, GotoEffect DEF Mkdir, OthersStay
<1>6. CASE ~Goto(t, "fallback")
  <2>1. Goto(t, "report") /\ work' = [work EXCEPT ![t] = TRUE]
    BY <1>6 DEF Mkdir
  <2>2. work'[t]
    BY <2>1 DEF TypeOK
  <2> QED BY <2>1, <2>2, <1>2, <1>3, <1>4, GotoEffect DEF Mkdir, OthersStay
<1> QED BY <1>5, <1>6

\* What a death leaves: requests and jobs go, what is stored stays.
Dead ==
  /\ \A u \in Tasks : /\ request'[u].kind = request[u].kind
                      /\ request'[u].pc = "answered" <=> request[u].pc = "answered"
                      /\ job'[u] = job[u] \/ (/\ job[u].pc \notin {"off", "end"} /\ job'[u].pc = "lost"
                                              /\ job'[u].stage = job[u].stage
                                              /\ job'[u].task = job[u].task)
  /\ record' = record /\ work' = work /\ \A w \in Cancellers : canceller'[w] = Idle

LEMMA DieEffect ==
  ASSUME TypeOK, Die
  PROVE  /\ request' \in [Tasks -> Request] /\ job' \in [Tasks -> Job]
         /\ canceller' \in [Cancellers -> Cancel \cup {Idle}] /\ Dead
<1>1. ASSUME NEW u \in Tasks
      PROVE  /\ request'[u] \in Request /\ request'[u].kind = request[u].kind
             /\ request'[u].pc = "answered" <=> request[u].pc = "answered"
  <2>1. request[u] \in Request /\ [request[u] EXCEPT !.pc = "refused"] \in Request
        /\ [request[u] EXCEPT !.pc = "refused"].kind = request[u].kind
        /\ [request[u] EXCEPT !.pc = "refused"].pc = "refused"
    BY DEF TypeOK, Request
  <2>2. request'[u] = IF request[u].pc \in {"list", "add"}
                      THEN [request[u] EXCEPT !.pc = "refused"] ELSE request[u]
    BY DEF Die
  <2> QED BY <2>1, <2>2
<1>2. ASSUME NEW u \in Tasks
      PROVE  /\ job'[u] \in Job
             /\ job'[u] = job[u] \/ (/\ job[u].pc \notin {"off", "end"} /\ job'[u].pc = "lost"
                                     /\ job'[u].stage = job[u].stage
                                     /\ job'[u].task = job[u].task)
  <2>1. /\ job[u] \in Job /\ [job[u] EXCEPT !.pc = "lost"] \in Job
        /\ [job[u] EXCEPT !.pc = "lost"].pc = "lost"
        /\ [job[u] EXCEPT !.pc = "lost"].stage = job[u].stage
        /\ [job[u] EXCEPT !.pc = "lost"].task = job[u].task
    BY DEF TypeOK, Job, Pcs
  <2>2. job'[u] = IF job[u].pc \in {"off", "end"} THEN job[u] ELSE [job[u] EXCEPT !.pc = "lost"]
    BY DEF Die
  <2> QED BY <2>1, <2>2
<1>3. request' \in [Tasks -> Request] /\ job' \in [Tasks -> Job]
  BY <1>1, <1>2 DEF Die
<1> QED BY <1>1, <1>2, <1>3 DEF Die, Dead

LEMMA ReportEffect ==
  ASSUME TypeOK, NEW t \in Tasks, Report(t)
  PROVE  /\ job[t].pc = "report" /\ RestTypes
         /\ \/ /\ job' \in [Tasks -> Job] /\ record' \in [Tasks -> Record \cup {None}]
               /\ job'[t].pc \in {"tool", "caught"} /\ record'[t] \in {record[t], job[t].task}
               /\ job'[t].stage = job[t].stage /\ job'[t].task = job[t].task
               /\ OthersStay(t) /\ request' = request /\ work' = work /\ canceller' = canceller
            \/ Die
<1>1. "tool" \in Pcs /\ "caught" \in Pcs /\ job[t].task \in Record
  BY JobTypes DEF Pcs
<1>2. CASE Save(t, job[t].task) /\ Goto(t, "tool")
           /\ UNCHANGED <<listed, request, late, work, keystore, canceller, restarts>>
  BY <1>1, <1>2, GotoEffect, SaveEffect, RestUnchanged DEF Report, OthersStay
<1>3. CASE Fault /\ Goto(t, "caught")
           /\ UNCHANGED <<record, listed, request, late, work, keystore, canceller, restarts>>
  BY <1>1, <1>3, GotoEffect, RestUnchanged DEF Report, OthersStay, TypeOK
<1>4. CASE Fault /\ Die /\ UNCHANGED restarts
  BY <1>4, RestUnchanged DEF Report, Die
<1> QED BY <1>2, <1>3, <1>4 DEF Report

LEMMA ToolEffect ==
  ASSUME TypeOK, JobsAreInStep, NEW t \in Tasks, Tool(t)
  PROVE  /\ job' \in [Tasks -> Job] /\ RestTypes
         /\ job[t].pc \in {"tool", "report"} /\ job'[t].pc \in {"caught", "signing", "finish", "report"}
         /\ job'[t].task.status \in {job[t].task.status, "signing"}
         /\ job'[t].stage <= Len(Stages[Kind(t)])
         /\ OthersStay(t) /\ record' = record /\ request' = request /\ work' = work
         /\ canceller' = canceller
<1>1. job[t].stage <= Len(Stages[Kind(t)]) /\ "caught" \in Pcs /\ "signing" \in Pcs
  BY DEF JobsAreInStep, Pcs
<1>2. RestTypes
  BY RestUnchanged DEF Tool, NoFault
<1>3. CASE Goto(t, "caught")
  BY <1>1, <1>2, <1>3, GotoEffect DEF Tool, OthersStay
<1>4. CASE NextStage(t)
  BY <1>2, <1>4, NextStageEffect DEF Tool, OthersStay
<1>5. CASE job' = [job EXCEPT ![t].pc = "signing", ![t].task.status = "signing"]
  <2> DEFINE task == [job[t].task EXCEPT !.status = "signing"]
  <2>1. task \in Record /\ task.status = "signing"
    BY JobTypes DEF Record, Statuses
  <2>2. job \in [Tasks -> Job] /\ job[t] \in Job
    BY DEF TypeOK
  <2>3. job' = [job EXCEPT ![t].pc = "signing", ![t].task = task]
    BY <1>5, <2>2 DEF Job
  <2> HIDE DEF task
  <2>4. /\ job' \in [Tasks -> Job]
        /\ job'[t].pc = "signing" /\ job'[t].stage = job[t].stage /\ job'[t].task = task
        /\ \A u \in Tasks \ {t} : job'[u] = job[u]
    BY <1>1, <2>1, <2>3, TaskEffect
  <2> QED BY <1>1, <1>2, <2>1, <2>4 DEF Tool, OthersStay
<1> QED BY <1>3, <1>4, <1>5 DEF Tool

LEMMA SignEffect ==
  ASSUME TypeOK, JobsAreInStep, NEW t \in Tasks, Sign(t)
  PROVE  /\ job' \in [Tasks -> Job] /\ record' \in [Tasks -> Record \cup {None}] /\ RestTypes
         /\ job[t].pc = "signing" /\ job'[t].pc \in {"caught", "finish", "report"}
         /\ record'[t] \in {record[t], job[t].task}
         /\ job'[t].task = job[t].task /\ job'[t].stage <= Len(Stages[Kind(t)])
         /\ OthersStay(t) /\ request' = request /\ work' = work /\ canceller' = canceller
<1>1. job[t].stage <= Len(Stages[Kind(t)]) /\ "caught" \in Pcs /\ job[t].task \in Record
  BY JobTypes DEF JobsAreInStep, Pcs
<1>2. RestTypes
  BY RestUnchanged DEF Sign, Save
<1>3. /\ record' \in [Tasks -> Record \cup {None}] /\ record'[t] \in {record[t], job[t].task}
      /\ \A u \in Tasks \ {t} : record'[u] = record[u]
  BY <1>1, SaveEffect DEF Sign, TypeOK
<1>4. CASE Goto(t, "caught")
  BY <1>1, <1>2, <1>3, <1>4, GotoEffect DEF Sign, OthersStay
<1>5. CASE NextStage(t)
  BY <1>2, <1>3, <1>5, NextStageEffect DEF Sign, OthersStay
<1> QED BY <1>4, <1>5 DEF Sign

LEMMA FinishEffect ==
  ASSUME TypeOK, NEW t \in Tasks, Finish(t)
  PROVE  /\ job' \in [Tasks -> Job] /\ record' \in [Tasks -> Record \cup {None}] /\ RestTypes
         /\ job[t].pc = "finish" /\ job'[t].stage = job[t].stage /\ job'[t].task = Done(t)
         /\ \/ job'[t].pc = "cleanup" /\ record'[t] = Done(t)
            \/ job'[t].pc = "caught" /\ record'[t] = record[t]
         /\ OthersStay(t) /\ request' = request /\ work' = work /\ canceller' = canceller
<1>1. "caught" \in Pcs /\ "cleanup" \in Pcs /\ Done(t) \in Record
  BY BegunTypes DEF Pcs
<1>2. RestTypes
  BY RestUnchanged DEF Finish, Save
<1>3. CASE Save(t, Done(t)) /\ job' = [job EXCEPT ![t].pc = "cleanup", ![t].task = Done(t)]
  <2>1. /\ job' \in [Tasks -> Job] /\ job'[t].pc = "cleanup"
        /\ job'[t].stage = job[t].stage /\ job'[t].task = Done(t)
        /\ \A u \in Tasks \ {t} : job'[u] = job[u]
    <3>1. PICK task \in Record : task = Done(t)
      BY <1>1
    <3>2. job' = [job EXCEPT ![t].pc = "cleanup", ![t].task = task]
      BY <1>3, <3>1
    <3> DEFINE new == [job[t] EXCEPT !.pc = "cleanup", !.task = task]
    <3>3. job \in [Tasks -> Job] /\ job[t] \in Job
      BY DEF TypeOK
    <3>4. new \in Job /\ new.pc = "cleanup" /\ new.stage = job[t].stage /\ new.task = task
      BY <1>1, <3>3 DEF Job
    <3>5. job' = [job EXCEPT ![t] = new]
      BY <3>2, <3>3
    <3> HIDE DEF new
    <3> QED BY <3>1, <3>3, <3>4, <3>5
  <2>2. /\ record' \in [Tasks -> Record \cup {None}] /\ record'[t] = Done(t)
        /\ \A u \in Tasks \ {t} : record'[u] = record[u]
    BY <1>1, <1>3, SaveEffect
  <2> QED BY <1>2, <1>3, <2>1, <2>2 DEF Finish, OthersStay
<1>4. CASE job' = [job EXCEPT ![t].pc = "caught", ![t].task = Done(t)] /\ UNCHANGED record
  BY <1>1, <1>2, <1>4, TaskEffect DEF Finish, OthersStay, TypeOK
<1> QED BY <1>3, <1>4 DEF Finish

LEMMA CaughtEffect ==
  ASSUME TypeOK, NEW t \in Tasks, Caught(t)
  PROVE  /\ job' \in [Tasks -> Job] /\ record' \in [Tasks -> Record \cup {None}] /\ RestTypes
         /\ job[t].pc = "caught" /\ job'[t].stage = job[t].stage
         /\ job'[t].task = Failed(job[t].task)
         /\ job'[t].pc \in {"cleanup", "unsaved"}
         /\ record'[t] \in {record[t], Failed(job[t].task)}
         /\ OthersStay(t) /\ request' = request /\ work' = work /\ canceller' = canceller
<1>1. "unsaved" \in Pcs /\ "cleanup" \in Pcs /\ Failed(job[t].task) \in Record
  BY JobTypes DEF Pcs
<1>2. RestTypes
  BY RestUnchanged DEF Caught, Save
<1>3. CASE Save(t, Failed(job[t].task))
           /\ job' = [job EXCEPT ![t].pc = "cleanup", ![t].task = Failed(job[t].task)]
  <2>1. /\ job' \in [Tasks -> Job] /\ job'[t].pc = "cleanup"
        /\ job'[t].stage = job[t].stage /\ job'[t].task = Failed(job[t].task)
        /\ \A u \in Tasks \ {t} : job'[u] = job[u]
    <3>1. PICK task \in Record : task = Failed(job[t].task)
      BY <1>1
    <3>2. job' = [job EXCEPT ![t].pc = "cleanup", ![t].task = task]
      BY <1>3, <3>1
    <3> DEFINE new == [job[t] EXCEPT !.pc = "cleanup", !.task = task]
    <3>3. job \in [Tasks -> Job] /\ job[t] \in Job
      BY DEF TypeOK
    <3>4. new \in Job /\ new.pc = "cleanup" /\ new.stage = job[t].stage /\ new.task = task
      BY <1>1, <3>3 DEF Job
    <3>5. job' = [job EXCEPT ![t] = new]
      BY <3>2, <3>3
    <3> HIDE DEF new
    <3> QED BY <3>1, <3>3, <3>4, <3>5
  <2>2. /\ record' \in [Tasks -> Record \cup {None}] /\ record'[t] = Failed(job[t].task)
        /\ \A u \in Tasks \ {t} : record'[u] = record[u]
    BY <1>1, <1>3, SaveEffect
  <2> QED BY <1>2, <1>3, <2>1, <2>2 DEF Caught, OthersStay
<1>4. CASE job' = [job EXCEPT ![t].pc = Unsaved, ![t].task = Failed(job[t].task)] /\ UNCHANGED record
  BY <1>1, <1>2, <1>4, TaskEffect DEF Caught, OthersStay, TypeOK, Unsaved
<1> QED BY <1>3, <1>4 DEF Caught

LEMMA CleanupEffect ==
  ASSUME TypeOK, NEW t \in Tasks, Cleanup(t)
  PROVE  /\ job' \in [Tasks -> Job] /\ work' \in [Tasks -> BOOLEAN] /\ RestTypes
         /\ job[t].pc \in {"cleanup", "unsaved"} /\ job'[t].pc \in {"end", "fallback"}
         /\ job[t].pc = "cleanup" => job'[t].pc = "end"
         /\ job'[t].stage = job[t].stage /\ job'[t].task = job[t].task
         /\ job[t].task.status = "completed" => work'[t] = work[t]
         /\ OthersStay(t) /\ record' = record /\ request' = request /\ canceller' = canceller
<1>1. PICK pc \in Pcs : pc = IF job[t].pc = "cleanup" THEN "end" ELSE "fallback"
  BY DEF Pcs
<1>2. Goto(t, pc)
  BY <1>1 DEF Cleanup
<1>3. RestTypes
  BY RestUnchanged DEF Cleanup, NoFault
<1>4. /\ work' \in [Tasks -> BOOLEAN] /\ \A u \in Tasks \ {t} : work'[u] = work[u]
      /\ job[t].task.status = "completed" => work'[t] = work[t]
  BY DEF Cleanup, Kept, TypeOK
<1> QED BY <1>1, <1>2, <1>3, <1>4, GotoEffect DEF Cleanup, OthersStay

LEMMA FallbackEffect ==
  ASSUME TypeOK, NEW t \in Tasks, Fallback(t)
  PROVE  /\ job' \in [Tasks -> Job] /\ record' \in [Tasks -> Record \cup {None}] /\ RestTypes
         /\ job[t].pc = "fallback" /\ job'[t].pc = "end" /\ job'[t].stage = job[t].stage
         /\ job'[t].task = Failed(job[t].task)
         /\ record'[t] \in {record[t], Failed(job[t].task)}
         /\ OthersStay(t) /\ request' = request /\ work' = work /\ canceller' = canceller
<1>1. "end" \in Pcs /\ Failed(job[t].task) \in Record
  BY JobTypes DEF Pcs
<1>2. RestTypes
  BY RestUnchanged DEF Fallback, Save
<1>3. /\ record' \in [Tasks -> Record \cup {None}] /\ record'[t] \in {record[t], Failed(job[t].task)}
      /\ \A u \in Tasks \ {t} : record'[u] = record[u]
  <2>1. CASE Save(t, Failed(job[t].task))
    BY <1>1, <2>1, SaveEffect
  <2>2. CASE UNCHANGED record
    BY <2>2 DEF TypeOK
  <2> QED BY <2>1, <2>2 DEF Fallback
<1>4. /\ job' \in [Tasks -> Job] /\ job'[t].pc = "end"
      /\ job'[t].stage = job[t].stage /\ job'[t].task = Failed(job[t].task)
      /\ \A u \in Tasks \ {t} : job'[u] = job[u]
  <2> DEFINE new == [job[t] EXCEPT !.pc = "end", !.task = Failed(job[t].task)]
  <2>1. job \in [Tasks -> Job] /\ job[t] \in Job
    BY DEF TypeOK
  <2>2. /\ new \in Job /\ new.pc = "end" /\ new.stage = job[t].stage
        /\ new.task = Failed(job[t].task)
    BY <1>1, <2>1 DEF Job
  <2>3. job' = [job EXCEPT ![t] = new]
    BY <2>1 DEF Fallback
  <2> HIDE DEF new
  <2> QED BY <2>1, <2>2, <2>3
<1> QED BY <1>2, <1>3, <1>4 DEF Fallback, OthersStay

LEMMA CancelCheckEffect ==
  ASSUME TypeOK, NEW w \in Cancellers, NEW t \in Tasks, CancelCheck(w, t)
  PROVE  /\ canceller' \in [Cancellers -> Cancel \cup {Idle}] /\ RestTypes
         /\ record[t] # None /\ canceller'[w].task = t /\ canceller'[w].pc = "read"
         /\ \A v \in Cancellers \ {w} : canceller'[v] = canceller[v]
         /\ UNCHANGED <<record, request, job, work>>
<1>1. [pc |-> "read", task |-> t, copy |-> None] \in Cancel
  BY DEF Cancel
<1>2. RestTypes
  BY RestUnchanged DEF CancelCheck, NoFault
<1> QED BY <1>1, <1>2 DEF CancelCheck, TypeOK

LEMMA CancelReadEffect ==
  ASSUME TypeOK, NEW w \in Cancellers, CancelRead(w)
  PROVE  /\ canceller' \in [Cancellers -> Cancel \cup {Idle}] /\ RestTypes
         /\ canceller[w] # Idle
         /\ \/ canceller'[w] = Idle
            \/ /\ canceller'[w].task = canceller[w].task
               /\ canceller'[w].copy = record[canceller[w].task]
         /\ \A v \in Cancellers \ {w} : canceller'[v] = canceller[v]
         /\ UNCHANGED <<record, request, job, work>>
<1>1. RestTypes /\ UNCHANGED <<record, request, job, work>>
  BY RestUnchanged DEF CancelRead
<1>2. canceller[w] # Idle /\ canceller \in [Cancellers -> Cancel \cup {Idle}]
  BY DEF CancelRead, Idle, TypeOK
<1>3. CASE canceller' = [canceller EXCEPT ![w] = Idle]
  BY <1>1, <1>2, <1>3
<1>4. CASE canceller' = [canceller EXCEPT ![w].pc = "set", ![w].copy = record[canceller[w].task]]
  <2> DEFINE new == [canceller[w] EXCEPT !.pc = "set", !.copy = record[canceller[w].task]]
  <2>1. canceller[w] \in Cancel /\ record[canceller[w].task] \in Record \cup {None}
    BY <1>2, CancelTypes DEF TypeOK
  <2>2. /\ new \in Cancel /\ new.task = canceller[w].task
        /\ new.copy = record[canceller[w].task]
    BY <2>1 DEF Cancel
  <2>3. canceller' = [canceller EXCEPT ![w] = new]
    BY <1>2, <1>4
  <2> HIDE DEF new
  <2> QED BY <1>1, <1>2, <2>2, <2>3
<1> QED BY <1>3, <1>4 DEF CancelRead

LEMMA CancelSetEffect ==
  ASSUME TypeOK, CancelsKnown, NEW w \in Cancellers, CancelSet(w)
  PROVE  /\ canceller' \in [Cancellers -> Cancel \cup {Idle}] /\ RestTypes
         /\ record' \in [Tasks -> Record \cup {None}]
         /\ canceller[w].task \in Tasks
         /\ \A u \in Tasks : \/ record'[u] = record[u]
                             \/ record'[u] # None /\ record'[u].status = "cancelled"
         /\ canceller'[w] = Idle
         /\ \A v \in Cancellers \ {w} : canceller'[v] = canceller[v]
         /\ UNCHANGED <<request, job, work>>
<1> DEFINE saved == [canceller[w].copy EXCEPT !.status = "cancelled"]
<1>1. RestTypes
  BY RestUnchanged DEF CancelSet, Save
<1>2. canceller[w] # Idle /\ canceller[w].pc = "set"
  BY DEF CancelSet, Idle
<1>3. canceller[w].task \in Tasks /\ canceller[w].copy \in Record
  BY <1>2, CancelTypes DEF CancelsKnown
<1>4. saved \in Record /\ saved.status = "cancelled"
  BY <1>3 DEF Record, Statuses
<1>5. /\ record' \in [Tasks -> Record \cup {None}]
      /\ \A u \in Tasks : record'[u] = record[u] \/ record'[u] = saved
  <2>1. CASE Save(canceller[w].task, saved)
    BY <1>3, <1>4, <2>1, SaveEffect
  <2>2. CASE UNCHANGED record
    BY <2>2 DEF TypeOK
  <2> QED BY <2>1, <2>2 DEF CancelSet
<1>6. \A u \in Tasks : \/ record'[u] = record[u]
                       \/ record'[u] # None /\ record'[u].status = "cancelled"
  BY <1>4, <1>5, NoneAssumption
<1> QED BY <1>1, <1>3, <1>5, <1>6 DEF CancelSet, TypeOK

-----------------------------------------------------------------------------
(***************************************************************************)
(* The invariant is kept.                                                  *)
(***************************************************************************)
LEMMA InitTasks == Init => TasksInv
<1> SUFFICES ASSUME Init PROVE TasksInv
  OBVIOUS
<1>1. request \in [Tasks -> Request] /\ \A t \in Tasks : request[t].kind \in {"analysis", "harden"}
                                                         /\ request[t].pc = "new"
  <2>1. <<>> \in Seq(Ids)
    OBVIOUS
  <2>2. \A k \in {"analysis", "harden"} :
          NewRequest(k) \in Request /\ NewRequest(k).kind = k /\ NewRequest(k).pc = "new"
    BY <2>1 DEF NewRequest, Request
  <2>3. request \in [Tasks -> {NewRequest("analysis"), NewRequest("harden")}]
    BY DEF Init
  <2>4. \A t \in Tasks : request[t] = NewRequest("analysis") \/ request[t] = NewRequest("harden")
    BY <2>3
  <2>5. request \in [Tasks -> Request]
    BY <2>2, <2>3
  <2> QED BY <2>2, <2>4, <2>5
<1>2. job \in [Tasks -> Job]
      /\ \A t \in Tasks : job[t].pc = "off" /\ job[t].stage = 1 /\ job[t].task = Begun(t)
  <2>1. \A t \in Tasks : [pc |-> "off", stage |-> 1, task |-> Begun(t)] \in Job
    BY BegunTypes DEF Job, Pcs
  <2> QED BY <2>1 DEF Init
<1>3. listed \in Seq(Ids) /\ Len(listed) <= MaxListed
  <2>1. PICK n \in 0 .. MaxListed : listed \in [1 .. n -> Earlier]
    BY DEF Init
  <2>2. n \in Nat /\ Earlier \subseteq Ids
    BY BoundsAssumption DEF Ids
  <2>3. listed \in [1 .. n -> Ids]
    BY <2>1, <2>2
  <2>4. listed \in Seq(Ids)
    BY <2>2, <2>3
  <2>5. Len(listed) = n
    BY <2>2, <2>3, <2>4, LenProperties
  <2> QED BY <2>1, <2>4, <2>5, BoundsAssumption
<1>4. TypeOK
  <2>1. 0 \in 0 .. MaxFaults /\ 0 \in 0 .. MaxRestarts
    BY BoundsAssumption
  <2>2. record \in [Tasks -> Record \cup {None}] /\ canceller \in [Cancellers -> Cancel \cup {Idle}]
    BY DEF Init
  <2>3. late \in [Tasks -> BOOLEAN] /\ work \in [Tasks -> BOOLEAN] /\ keystore \in [Tasks -> BOOLEAN]
    BY DEF Init
  <2> QED BY <1>1, <1>2, <1>3, <2>1, <2>2, <2>3 DEF Init, TypeOK
<1>5. JobsAreInStep
  <2>1. ASSUME NEW t \in Tasks PROVE 1 <= Len(Stages[Kind(t)])
    <3>1. PICK n \in 1 .. 13 : n = Len(Stages[Kind(t)])
      BY <1>4, RequestTypes
    <3>2. 1 <= n
      OBVIOUS
    <3> QED BY <3>1, <3>2, Zenon
  <2> QED BY <1>2, <2>1, BegunTypes DEF JobsAreInStep
<1> QED BY <1>2, <1>4, <1>5 DEF Init, TasksInv, NotYetStarted, CompletedByItsJob, CancelsKnown

\* A step that leaves the four variables of the tasks and the cancel requests.
LEMMA QuietStep ==
  ASSUME TasksInv, UNCHANGED <<record, request, job, work>>, RestTypes,
         canceller' \in [Cancellers -> Cancel \cup {Idle}], CancelsKnown'
  PROVE  TasksInv'
BY DEF TasksInv, TypeOK, RestTypes, NotYetStarted, JobsAreInStep, CompletedByItsJob, Kind

\* A step of one task's request or job.
LEMMA TaskStep ==
  ASSUME TasksInv, NEW t \in Tasks, OthersStay(t), RestTypes, canceller' = canceller, KindStays(t),
         record' \in [Tasks -> Record \cup {None}], request' \in [Tasks -> Request],
         job' \in [Tasks -> Job], work' \in [Tasks -> BOOLEAN],
         record[t] # None => record'[t] # None,
         request'[t].pc # "answered" => job'[t].pc = "off",
         job'[t].stage <= Len(Stages[Kind(t)]),
         job'[t].pc \in {"off", "mkdir", "report", "tool", "signing", "finish"} =>
           job'[t].task.status # "completed",
         Kind(t) = "harden"
           /\ job'[t].pc \in {"report", "tool", "signing", "finish", "caught", "cleanup"} => work'[t],
         job'[t].pc = "unsaved" => job'[t].task.status = "failed",
         record'[t] # None /\ record'[t].status = "completed" /\ Kind(t) = "harden" =>
           /\ record'[t].output /\ work'[t]
           /\ job'[t].task.status = "completed" /\ job'[t].pc \in {"cleanup", "end", "lost"}
  PROVE  TasksInv'
<1>1. \A u \in Tasks : request'[u].kind = request[u].kind
  BY DEF OthersStay, KindStays
<1>2. TypeOK'
  BY DEF TasksInv, TypeOK, RestTypes
<1>3. NotYetStarted'
  BY DEF TasksInv, NotYetStarted, OthersStay
<1>4. JobsAreInStep'
  BY <1>1 DEF TasksInv, JobsAreInStep, OthersStay, Kind
<1>5. CompletedByItsJob'
  BY <1>1 DEF TasksInv, CompletedByItsJob, OthersStay, Kind
<1>6. CancelsKnown'
  BY CancelTypes DEF TasksInv, CancelsKnown, OthersStay
<1> QED BY <1>2, <1>3, <1>4, <1>5, <1>6 DEF TasksInv

LEMMA StepTasks == TasksInv /\ [Next]_vars => TasksInv'
<1> SUFFICES ASSUME TasksInv, [Next]_vars PROVE TasksInv'
  OBVIOUS
<1>0. /\ TypeOK /\ NotYetStarted /\ JobsAreInStep /\ CompletedByItsJob /\ CancelsKnown
      /\ record \in [Tasks -> Record \cup {None}] /\ request \in [Tasks -> Request]
      /\ job \in [Tasks -> Job] /\ work \in [Tasks -> BOOLEAN]
  BY DEF TasksInv, TypeOK
<1>1. ASSUME NEW t \in Tasks, StartSave(t) PROVE TasksInv'
  <2>1. request[t].pc # "answered" /\ job[t].pc = "off" /\ request'[t].pc # "answered"
    BY <1>0, <1>1, StartSaveEffect DEF NotYetStarted
  <2>2. record'[t] # None => record'[t] = record[t] \/ record'[t].status # "completed"
    BY <1>0, <1>1, StartSaveEffect, BegunTypes
  <2>3. record[t] # None => record'[t] # None
    BY <1>0, <1>1, StartSaveEffect, BegunTypes, NoneAssumption
  <2> QED BY <1>0, <1>1, <2>1, <2>2, <2>3, StartSaveEffect, TaskStep
          DEF JobsAreInStep, CompletedByItsJob
<1>2. ASSUME NEW t \in Tasks, StartRead(t) PROVE TasksInv'
  BY <1>0, <1>2, StartReadEffect, TaskStep DEF NotYetStarted, JobsAreInStep, CompletedByItsJob
<1>3. ASSUME NEW t \in Tasks, StartAdd(t) PROVE TasksInv'
  <2>1. job[t].pc = "off"
    BY <1>0, <1>3, StartAddEffect DEF NotYetStarted
  <2>2. Kind(t) = "harden" => job'[t].pc \in {"off", "mkdir"}
    <3>1. job' = job \/ job'[t].pc = IF Kind(t) = "harden" THEN "mkdir" ELSE "report"
      BY <1>0, <1>3, StartAddEffect
    <3> QED BY <2>1, <3>1
  <2> QED BY <1>0, <1>3, <2>1, <2>2, StartAddEffect, TaskStep
          DEF NotYetStarted, JobsAreInStep, CompletedByItsJob
<1>4. ASSUME NEW t \in Tasks, Mkdir(t) PROVE TasksInv'
  BY <1>0, <1>4, MkdirEffect, TaskStep
     DEF NotYetStarted, JobsAreInStep, CompletedByItsJob, KindStays
<1>5. ASSUME NEW t \in Tasks, Report(t), ~Die PROVE TasksInv'
  BY <1>0, <1>5, ReportEffect, TaskStep, JobTypes, NoneAssumption
     DEF NotYetStarted, JobsAreInStep, CompletedByItsJob, KindStays
<1>6. ASSUME NEW t \in Tasks, Tool(t) PROVE TasksInv'
  BY <1>0, <1>6, ToolEffect, TaskStep
     DEF NotYetStarted, JobsAreInStep, CompletedByItsJob, KindStays
<1>7. ASSUME NEW t \in Tasks, Sign(t) PROVE TasksInv'
  BY <1>0, <1>7, SignEffect, TaskStep, JobTypes, NoneAssumption
     DEF NotYetStarted, JobsAreInStep, CompletedByItsJob, KindStays
<1>8. ASSUME NEW t \in Tasks, Finish(t) PROVE TasksInv'
  BY <1>0, <1>8, FinishEffect, TaskStep, BegunTypes, NoneAssumption
     DEF NotYetStarted, JobsAreInStep, CompletedByItsJob, KindStays
<1>9. ASSUME NEW t \in Tasks, Caught(t) PROVE TasksInv'
  BY <1>0, <1>9, CaughtEffect, TaskStep, JobTypes, NoneAssumption
     DEF NotYetStarted, JobsAreInStep, CompletedByItsJob, KindStays
<1>10. ASSUME NEW t \in Tasks, Cleanup(t) PROVE TasksInv'
  BY <1>0, <1>10, CleanupEffect, TaskStep
     DEF NotYetStarted, JobsAreInStep, CompletedByItsJob, KindStays
<1>11. ASSUME NEW t \in Tasks, Fallback(t) PROVE TasksInv'
  BY <1>0, <1>11, FallbackEffect, TaskStep, JobTypes, NoneAssumption
     DEF NotYetStarted, JobsAreInStep, CompletedByItsJob, KindStays
<1>12. ASSUME NEW t \in Tasks, Timeout(t) PROVE TasksInv'
  <2>1. RestTypes
    BY <1>0, <1>12 DEF Timeout, TypeOK, RestTypes
  <2>2. CancelsKnown' /\ canceller' \in [Cancellers -> Cancel \cup {Idle}]
    BY <1>0, <1>12 DEF Timeout, TypeOK, CancelsKnown
  <2> QED BY <1>12, <2>1, <2>2, QuietStep DEF Timeout
<1>13. ASSUME NEW w \in Cancellers, NEW t \in Tasks, CancelCheck(w, t) PROVE TasksInv'
  <2>1. CancelsKnown'
    BY <1>0, <1>13, CancelCheckEffect DEF CancelsKnown
  <2> QED BY <1>0, <1>13, <2>1, CancelCheckEffect, QuietStep
<1>14. ASSUME NEW w \in Cancellers, CancelRead(w) PROVE TasksInv'
  <2>1. CancelsKnown'
    BY <1>0, <1>14, CancelReadEffect DEF CancelsKnown
  <2> QED BY <1>0, <1>14, <2>1, CancelReadEffect, QuietStep
<1>15. ASSUME NEW w \in Cancellers, CancelSet(w) PROVE TasksInv'
  <2>1. TypeOK'
    BY <1>0, <1>15, CancelSetEffect DEF TypeOK, RestTypes
  <2>2. CancelsKnown'
    BY <1>0, <1>15, CancelSetEffect, CancelTypes DEF CancelsKnown
  <2>3. NotYetStarted' /\ JobsAreInStep' /\ CompletedByItsJob'
    BY <1>0, <1>15, CancelSetEffect DEF NotYetStarted, JobsAreInStep, CompletedByItsJob, Kind
  <2> QED BY <2>1, <2>2, <2>3 DEF TasksInv
<1>16. ASSUME Die, RestTypes PROVE TasksInv'
  <2>1. /\ request' \in [Tasks -> Request] /\ job' \in [Tasks -> Job]
        /\ canceller' \in [Cancellers -> Cancel \cup {Idle}] /\ Dead
    BY <1>0, <1>16, DieEffect
  <2>2. TypeOK'
    BY <1>0, <1>16, <2>1 DEF TypeOK, RestTypes, Dead
  <2>3. NotYetStarted'
    BY <1>0, <2>1 DEF NotYetStarted, Dead
  <2>4. JobsAreInStep'
    BY <1>0, <2>1 DEF JobsAreInStep, Dead, Kind
  <2>5. CompletedByItsJob'
    BY <1>0, <2>1 DEF CompletedByItsJob, Dead, Kind
  <2>6. CancelsKnown'
    BY <2>1 DEF CancelsKnown, Dead
  <2> QED BY <2>2, <2>3, <2>4, <2>5, <2>6 DEF TasksInv
<1>17. ASSUME NEW t \in Tasks, Report(t), Die PROVE TasksInv'
  BY <1>0, <1>16, <1>17, ReportEffect
<1>18. CASE Restart
  <2>1. RestTypes
    BY <1>0, <1>18, BoundsAssumption DEF Restart, Die, NoFault, TypeOK, RestTypes
  <2> QED BY <1>16, <1>18, <2>1 DEF Restart
<1>19. CASE UNCHANGED vars
  <2>1. RestTypes /\ CancelsKnown'
    BY <1>0, <1>19 DEF vars, TypeOK, RestTypes, CancelsKnown
  <2> QED BY <1>0, <1>19, <2>1, QuietStep DEF vars, TypeOK
<1> QED BY <1>1, <1>2, <1>3, <1>4, <1>5, <1>6, <1>7, <1>8, <1>9, <1>10, <1>11, <1>12, <1>13, <1>14,
           <1>15, <1>17, <1>18, <1>19
        DEF Next, Start, Run

\* For any number of tasks and cancel requests, failures and restarts: the record
\* of a hardening says completed only with the path of its APK, and with the APK
\* on disk.
THEOREM CompletedCanBeFetched == Spec => []TasksAreSound
<1>1. Init => TasksInv
  BY InitTasks
<1>2. TasksInv /\ [Next]_vars => TasksInv'
  BY StepTasks
<1>3. TasksInv => TasksAreSound
  BY DEF TasksInv, TasksAreSound, CompletedByItsJob, CompletedIsThere
<1> QED BY <1>1, <1>2, <1>3, PTL DEF Spec
=============================================================================
