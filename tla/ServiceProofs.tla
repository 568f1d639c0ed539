---------------------------- MODULE ServiceProofs ----------------------------
(***************************************************************************)
(* Proofs about the components of the service side, for any values of      *)
(* their constants. The job table (OpsJobs): types, the single apply slot, *)
(* the finality of a settled job, the exclusive execution of jobs no       *)
(* reconcile interfered with, the bound on the times a job is put back.    *)
(* The takedown (Takedown): a marker hides every older copy, and what was  *)
(* taken down with no writer overlapping stays gone; the page images       *)
(* (PageImages): none is left of a document taken down with no render and  *)
(* no import overlapping. The entity page (EntityDetail): what it shows    *)
(* was there while the request ran. The search gate (Admission): a client  *)
(* is let in exactly as a bucket that is never dropped would let it in.    *)
(* The screens (SearchPage, PdfView, RecordingPlayer): results are those   *)
(* of the address, pages those around the reader, jumps land. The pages of *)
(* a search (SearchWindow): one after the other they are its results in    *)
(* order, each once, however its batches and its budget fall. And whichever *)
(* part moves, its state is one the program can be in.                     *)
(***************************************************************************)
EXTENDS MCService, FiniteSetTheorems, SequenceTheorems, NaturalsInduction,
        WellFoundedInduction, TLAPS

(* The updates of one row, as the statements write it.                     *)
LEMMA UpdatesType ==
    ASSUME TypeOK, NEW j \in Jobs
    PROVE  /\ \A s \in Active \cup Terminal : SetStatus(j, s) \in [Jobs -> Row]
           /\ Claimed(j) \in [Jobs -> Row]
           /\ Released(j) \in [Jobs -> Row]
           /\ \A s \in Terminal : Finished(j, s) \in [Jobs -> Row]
           /\ \A n \in Nat : Requeued([job |-> j, interrupted |-> n]) \in [Jobs -> Row]
<1> USE DEF TypeOK, Row, Active, Terminal
<1>1. \A s \in Active \cup Terminal : SetStatus(j, s) \in [Jobs -> Row] BY DEF SetStatus
<1>2. Claimed(j) \in [Jobs -> Row]
  <2>1. [jobs[j] EXCEPT !.status = "running", !.old = FALSE] \in Row OBVIOUS
  <2> QED BY <2>1 DEF Claimed
<1>3. [jobs EXCEPT ![j].status = "queued", ![j].interrupted = @ + 1] \in [Jobs -> Row]
  <2>1. jobs[j] \in Row /\ jobs[j].interrupted + 1 \in Nat OBVIOUS
  <2>2. [jobs[j] EXCEPT !.status = "queued",
                        !.interrupted = jobs[j].interrupted + 1] \in Row
    BY <2>1
  <2> QED BY <2>2
<1>4. ASSUME NEW n \in Nat
      PROVE  Requeued([job |-> j, interrupted |-> n]) \in [Jobs -> Row]
  BY <1>1, <1>3 DEF Requeued
<1> QED BY <1>1, <1>2, <1>4 DEF Released, Finished

LEMMA FoundFields ==
    ASSUME TypeOK, NEW w \in Workers, NEW f \in found[w]
    PROVE  /\ f.job \in Jobs
           /\ f.interrupted \in Nat
           /\ f = [job |-> f.job, interrupted |-> f.interrupted]
BY DEF TypeOK

LEMMA WorkerStepTypes ==
    ASSUME TypeOK, NEW w \in Workers, Worker(w)
    PROVE  TypeOK'
<1>1. CASE Boot(w)
  <2>1. { [job |-> j, interrupted |-> jobs[j].interrupted] :
            j \in { i \in Jobs : IsRunning(i) /\ jobs[i].old /\ ~jobs[i].host } }
          \subseteq [job: Jobs, interrupted: Nat]
    BY DEF TypeOK, Row
  <2> QED BY <1>1, <2>1 DEF Boot, TypeOK
<1>2. CASE ReconcileJob(w)
  <2>1. PICK f \in found[w] :
            /\ jobs' = Requeued(f)
            /\ interfered' = (interfered \/ \E v \in Workers : activeJob[v] = f.job)
            /\ found' = [found EXCEPT ![w] = @ \ {f}]
    BY <1>2 DEF ReconcileJob
  <2>2. Requeued(f) \in [Jobs -> Row] BY FoundFields, UpdatesType
  <2>3. interfered' \in BOOLEAN BY <2>1 DEF TypeOK
  <2> QED BY <1>2, <2>1, <2>2, <2>3 DEF ReconcileJob, TypeOK
<1>3. CASE StartPolling(w) BY <1>3 DEF StartPolling, TypeOK
<1>4. ASSUME NEW j \in Jobs, ClaimJob(w, j)  PROVE TypeOK'
  BY <1>4, UpdatesType DEF ClaimJob, TypeOK
<1>5. CASE FinishJob(w)
  <2>1. activeJob[w] \in Jobs BY <1>5 DEF FinishJob, TypeOK
  <2>2. jobs' \in [Jobs -> Row] BY <1>5, <2>1, UpdatesType DEF FinishJob, TypeOK
  <2> QED BY <1>5, <2>2 DEF FinishJob, TypeOK
<1>6. CASE Crash(w) BY <1>6 DEF Crash, StopWorker, TypeOK
<1>7. CASE Sigterm(w)
  <2>1. jobs' \in [Jobs -> Row] BY <1>7, UpdatesType DEF Sigterm, TypeOK
  <2> QED BY <1>7, <2>1 DEF Sigterm, StopWorker, TypeOK
<1> QED BY <1>1, <1>2, <1>3, <1>4, <1>5, <1>6, <1>7 DEF Worker

LEMMA AgentStepTypes ==
    ASSUME TypeOK, Agent
    PROVE  TypeOK'
<1>1. CASE FailStaleJobs BY <1>1 DEF FailStaleJobs, TypeOK, Row, Terminal
<1>2. ASSUME NEW j \in Jobs, AgentClaim(j)  PROVE TypeOK'
  BY <1>2, UpdatesType DEF AgentClaim, TypeOK
<1>3. CASE AgentFinish
  <2>1. agentJob \in Jobs BY <1>3 DEF AgentFinish, TypeOK
  <2> QED BY <1>3, <2>1, UpdatesType DEF AgentFinish, TypeOK
<1>4. CASE AgentDies BY <1>4 DEF AgentDies, TypeOK
<1> QED BY <1>1, <1>2, <1>3, <1>4 DEF Agent

LEMMA NextTypes ==
    ASSUME TypeOK, [Next]_opsVars
    PROVE  TypeOK'
<1>1. ASSUME NEW j \in Jobs, NEW host \in BOOLEAN, NEW apply \in BOOLEAN,
             CreateJob(j, host, apply)
      PROVE  TypeOK'
  BY <1>1 DEF CreateJob, TypeOK, Row, Active
<1>2. ASSUME NEW j \in Jobs, ClaimAges(j)  PROVE TypeOK'
  BY <1>2 DEF ClaimAges, TypeOK, Row
<1>3. CASE UNCHANGED opsVars BY <1>3 DEF opsVars, TypeOK
<1> QED BY <1>1, <1>2, <1>3, WorkerStepTypes, AgentStepTypes DEF Next

(* The table and every executor keep their types.                          *)
THEOREM Typing == Spec => []TypeOK
<1>1. Init => TypeOK
  <2>1. [status |-> "absent", host |-> FALSE, apply |-> FALSE,
         interrupted |-> 0, old |-> FALSE] \in Row
    BY DEF Row
  <2> QED BY <2>1 DEF Init, TypeOK
<1>2. TypeOK /\ [Next]_opsVars => TypeOK' BY NextTypes
<1> QED BY <1>1, <1>2, PTL DEF Spec
-----------------------------------------------------------------------------
(* What a step that inserts nothing leaves alone: settled rows, the kind   *)
(* of every job, and rows that are not there yet.                          *)
KeepsRows ==
    \A j \in Jobs :
        /\ jobs[j].status \in Terminal => jobs'[j] = jobs[j]
        /\ jobs'[j].apply = jobs[j].apply
        /\ jobs'[j].host = jobs[j].host
        /\ jobs[j].status = "absent" => jobs'[j].status = "absent"

(* Every update of one row has the row's old status in its guard.          *)
LEMMA UpdatesKeepRows ==
    ASSUME TypeOK, NEW k \in Jobs, jobs[k].status \in Active,
           \/ \E s \in Active \cup Terminal : jobs' = SetStatus(k, s)
           \/ jobs' = Claimed(k)
           \/ jobs' = [jobs EXCEPT ![k].old = TRUE]
           \/ jobs' = [jobs EXCEPT ![k].status = "queued",
                                  ![k].interrupted = @ + 1]
    PROVE  KeepsRows
<1> SUFFICES ASSUME NEW j \in Jobs
             PROVE  /\ jobs[j].status \in Terminal => jobs'[j] = jobs[j]
                    /\ jobs'[j].apply = jobs[j].apply
                    /\ jobs'[j].host = jobs[j].host
                    /\ jobs[j].status = "absent" => jobs'[j].status = "absent"
  BY DEF KeepsRows
<1>1. jobs \in [Jobs -> Row] BY DEF TypeOK
<1>2. CASE j = k BY <1>1, <1>2 DEF Row, Active, Terminal, SetStatus, Claimed
<1>3. CASE j # k BY <1>1, <1>3 DEF SetStatus, Claimed
<1> QED BY <1>2, <1>3

LEMMA WorkerKeepsRows ==
    ASSUME TypeOK, NEW w \in Workers, Worker(w)
    PROVE  KeepsRows
<1>1. CASE UNCHANGED jobs BY <1>1 DEF KeepsRows
<1>2. CASE ReconcileJob(w)
  <2>1. PICK f \in found[w] : jobs' = Requeued(f) BY <1>2 DEF ReconcileJob
  <2> QED
    BY <2>1, FoundFields, UpdatesKeepRows
       DEF Requeued, IsRunning, Active, Terminal, KeepsRows
<1>3. ASSUME NEW k \in Jobs, ClaimJob(w, k)  PROVE KeepsRows
  BY <1>3, UpdatesKeepRows DEF ClaimJob, IsNext, Active, KeepsRows
<1>4. CASE FinishJob(w)
  <2>1. activeJob[w] \in Jobs BY <1>4 DEF FinishJob, TypeOK
  <2> QED
    BY <1>4, <2>1, UpdatesKeepRows
       DEF FinishJob, Finished, IsRunning, Active, KeepsRows
<1>5. CASE Sigterm(w)
  <2>1. CASE activeJob[w] = NoJob BY <1>1, <1>5, <2>1 DEF Sigterm
  <2>2. CASE activeJob[w] \in Jobs
    BY <1>5, <2>2, OpsAssumption, UpdatesKeepRows
       DEF Sigterm, Released, IsRunning, Active, KeepsRows
  <2> QED BY <2>1, <2>2 DEF TypeOK
<1> QED BY <1>1, <1>2, <1>3, <1>4, <1>5 DEF Worker, Boot, StartPolling, Crash

LEMMA AgentKeepsRows ==
    ASSUME TypeOK, Agent
    PROVE  KeepsRows
<1>1. CASE FailStaleJobs
  BY <1>1 DEF FailStaleJobs, IsRunning, KeepsRows, TypeOK, Row, Terminal
<1>2. ASSUME NEW k \in Jobs, AgentClaim(k)  PROVE KeepsRows
  BY <1>2, UpdatesKeepRows DEF AgentClaim, IsNext, Active, KeepsRows
<1>3. CASE AgentFinish
  <2>1. agentJob \in Jobs BY <1>3 DEF AgentFinish, TypeOK
  <2> QED
    BY <1>3, <2>1, UpdatesKeepRows
       DEF AgentFinish, Finished, IsRunning, Active, KeepsRows
<1>4. CASE AgentDies BY <1>4 DEF AgentDies, KeepsRows
<1> QED BY <1>1, <1>2, <1>3, <1>4 DEF Agent

LEMMA StepKeepsRows ==
    ASSUME TypeOK, [Next]_opsVars,
           ~ \E j \in Jobs, host, apply \in BOOLEAN : CreateJob(j, host, apply)
    PROVE  KeepsRows
<1>1. ASSUME NEW k \in Jobs, ClaimAges(k)  PROVE KeepsRows
  BY <1>1, UpdatesKeepRows DEF ClaimAges, IsRunning, Active, KeepsRows
<1>2. CASE UNCHANGED opsVars BY <1>2 DEF opsVars, KeepsRows
<1> QED BY <1>1, <1>2, WorkerKeepsRows, AgentKeepsRows DEF Next

(* The apply slot: nothing but an insert takes it, and an insert looks.    *)
THEOREM OneApply == Spec => []OneApplyActive
<1>1. Init => OneApplyActive BY DEF Init, OneApplyActive, Active
<1>2. TypeOK /\ OneApplyActive /\ [Next]_opsVars => OneApplyActive'
  <2> SUFFICES ASSUME TypeOK, OneApplyActive, [Next]_opsVars
               PROVE  OneApplyActive'
    OBVIOUS
  <2>1. ASSUME NEW k \in Jobs, NEW host \in BOOLEAN, NEW apply \in BOOLEAN,
               CreateJob(k, host, apply)
        PROVE  OneApplyActive'
    <3>1. \A j \in Jobs : j # k => jobs'[j] = jobs[j] BY <2>1 DEF CreateJob, TypeOK
    <3>2. jobs'[k].apply = apply BY <2>1 DEF CreateJob, TypeOK
    <3>3. apply => \A j \in Jobs : jobs[j].apply => jobs[j].status \notin Active
      BY <2>1 DEF CreateJob, ApplySlotFree
    <3> QED BY <3>1, <3>2, <3>3 DEF OneApplyActive
  <2>2. CASE KeepsRows
    <3>1. \A j \in Jobs : (jobs'[j].apply /\ jobs'[j].status \in Active) =>
                              (jobs[j].apply /\ jobs[j].status \in Active)
      BY <2>2 DEF KeepsRows, TypeOK, Row, Active, Terminal
    <3> QED BY <3>1 DEF OneApplyActive
  <2> QED BY <2>1, <2>2, StepKeepsRows
<1> QED BY <1>1, <1>2, Typing, PTL DEF Spec

(* No late answer, release or reconcile touches a settled job.             *)
THEOREM Finality == Spec => SettledIsFinal
<1>1. TypeOK /\ [Next]_opsVars =>
          [ \A j \in Jobs : jobs[j].status \in Terminal =>
                                jobs'[j] = jobs[j] ]_opsVars
  <2> SUFFICES ASSUME TypeOK, [Next]_opsVars
               PROVE  \A j \in Jobs : jobs[j].status \in Terminal =>
                                          jobs'[j] = jobs[j]
    OBVIOUS
  <2>1. ASSUME NEW k \in Jobs, NEW host \in BOOLEAN, NEW apply \in BOOLEAN,
               CreateJob(k, host, apply)
        PROVE  \A j \in Jobs : jobs[j].status \in Terminal => jobs'[j] = jobs[j]
    BY <2>1 DEF CreateJob, TypeOK, Terminal
  <2>2. CASE KeepsRows BY <2>2 DEF KeepsRows
  <2> QED BY <2>1, <2>2, StepKeepsRows
<1> QED BY <1>1, Typing, PTL DEF Spec, SettledIsFinal
-----------------------------------------------------------------------------
(* OneExecutor is not inductive: a late finish of the agent could settle a *)
(* worker's job if the two could hold the same row. The kind of the row    *)
(* keeps them apart, and a row is inserted only where none was.            *)
ExecutorInv ==
    /\ \A w \in Workers : activeJob[w] # NoJob =>
          /\ ~jobs[activeJob[w]].host
          /\ jobs[activeJob[w]].status # "absent"
    /\ agentJob # NoJob =>
          /\ jobs[agentJob].host
          /\ jobs[agentJob].status # "absent"
    /\ OneExecutor

(* A step that leaves the executors and their rows as they were.           *)
LEMMA ExecutorsUndisturbed ==
    ASSUME TypeOK, ExecutorInv,
           activeJob' = activeJob, agentJob' = agentJob \/ agentJob' = NoJob,
           interfered => interfered',
           \A j \in Jobs : jobs[j].status # "absent" =>
               (jobs'[j].host = jobs[j].host /\ jobs'[j].status # "absent"),
           interfered' \/ \A w \in Workers : activeJob[w] # NoJob =>
               jobs'[activeJob[w]].status = jobs[activeJob[w]].status
    PROVE  ExecutorInv'
BY DEF TypeOK, ExecutorInv, OneExecutor, IsRunning

(* A step that touches one row.                                            *)
TouchesOnly(k) == \A j \in Jobs : j # k => jobs'[j] = jobs[j]

LEMMA TouchesOneRow ==
    ASSUME TypeOK, NEW k \in Jobs
    PROVE  /\ \A s : jobs' = SetStatus(k, s) =>
                  (TouchesOnly(k) /\ jobs'[k].status = s /\ jobs'[k].host = jobs[k].host)
           /\ jobs' = Claimed(k) =>
                  (TouchesOnly(k) /\ jobs'[k].status = "running" /\ jobs'[k].host = jobs[k].host)
           /\ \A n : jobs' = Requeued([job |-> k, interrupted |-> n]) =>
                  (TouchesOnly(k) /\ jobs'[k].host = jobs[k].host /\
                   (jobs[k].status # "absent" => jobs'[k].status # "absent"))
<1> USE DEF TypeOK, Row, TouchesOnly
<1>1. \A s : jobs' = SetStatus(k, s) =>
          (TouchesOnly(k) /\ jobs'[k].status = s /\ jobs'[k].host = jobs[k].host)
  BY DEF SetStatus
<1>2. jobs' = Claimed(k) =>
          (TouchesOnly(k) /\ jobs'[k].status = "running" /\ jobs'[k].host = jobs[k].host)
  BY DEF Claimed
<1>3. ASSUME NEW n, jobs' = Requeued([job |-> k, interrupted |-> n])
      PROVE  /\ TouchesOnly(k)
             /\ jobs'[k].host = jobs[k].host
             /\ jobs[k].status # "absent" => jobs'[k].status # "absent"
  BY <1>1, <1>3 DEF Requeued, IsRunning
<1> QED BY <1>1, <1>2, <1>3

LEMMA WorkerKeepsExecutors ==
    ASSUME TypeOK, ExecutorInv, NEW w \in Workers, Worker(w)
    PROVE  ExecutorInv'
<1> USE DEF ExecutorInv, OneExecutor, IsRunning
<1>1. CASE UNCHANGED <<jobs, activeJob, agentJob, interfered>>
  BY <1>1, ExecutorsUndisturbed
<1>2. CASE ReconcileJob(w)
  <2>1. PICK f \in found[w] :
            /\ jobs' = Requeued(f)
            /\ interfered' = (interfered \/ \E v \in Workers : activeJob[v] = f.job)
    BY <1>2 DEF ReconcileJob
  <2>2. TouchesOnly(f.job) /\ jobs'[f.job].host = jobs[f.job].host /\
        (jobs[f.job].status # "absent" => jobs'[f.job].status # "absent")
    BY <2>1, FoundFields, TouchesOneRow
  <2>3. interfered' \/ \A v \in Workers : activeJob[v] # NoJob =>
            jobs'[activeJob[v]].status = jobs[activeJob[v]].status
    BY <2>1, <2>2, FoundFields DEF TouchesOnly, TypeOK
  <2>4. UNCHANGED <<activeJob, agentJob>> BY <1>2 DEF ReconcileJob
  <2> QED BY <2>1, <2>2, <2>3, <2>4, ExecutorsUndisturbed DEF TouchesOnly
<1>3. ASSUME NEW k \in Jobs, ClaimJob(w, k)  PROVE ExecutorInv'
  <2>1. TouchesOnly(k) /\ jobs'[k].status = "running" /\ jobs'[k].host = jobs[k].host
    BY <1>3, TouchesOneRow DEF ClaimJob
  <2>2. jobs[k].status = "queued" /\ ~jobs[k].host BY <1>3 DEF ClaimJob, IsNext
  <2>3. activeJob' = [activeJob EXCEPT ![w] = k] /\ UNCHANGED <<agentJob, interfered>>
    BY <1>3 DEF ClaimJob
  <2> QED BY <2>1, <2>2, <2>3 DEF TypeOK, TouchesOnly
<1>4. ASSUME activeJob' = [activeJob EXCEPT ![w] = NoJob],
             UNCHANGED <<agentJob, interfered>>,
             \/ UNCHANGED jobs
             \/ /\ activeJob[w] \in Jobs
                /\ \E s \in Active \cup Terminal : jobs' = SetStatus(activeJob[w], s)
      PROVE  ExecutorInv'
  <2>1. CASE UNCHANGED jobs BY <1>4, <2>1 DEF TypeOK
  <2>2. CASE /\ activeJob[w] \in Jobs
             /\ \E s \in Active \cup Terminal : jobs' = SetStatus(activeJob[w], s)
    <3>1. /\ TouchesOnly(activeJob[w])
          /\ jobs'[activeJob[w]].host = jobs[activeJob[w]].host
          /\ jobs'[activeJob[w]].status # "absent"
      BY <2>2, TouchesOneRow DEF Active, Terminal
    <3> QED BY <1>4, <2>2, <3>1 DEF TypeOK, TouchesOnly
  <2> QED BY <1>4, <2>1, <2>2
<1>5. CASE FinishJob(w) BY <1>4, <1>5 DEF FinishJob, Finished, TypeOK
<1>6. CASE Crash(w) BY <1>4, <1>6 DEF Crash, StopWorker
<1>7. CASE Sigterm(w) BY <1>4, <1>7 DEF Sigterm, Released, StopWorker, Active, TypeOK
<1> QED BY <1>1, <1>2, <1>3, <1>5, <1>6, <1>7 DEF Worker, Boot, StartPolling

LEMMA AgentKeepsExecutors ==
    ASSUME TypeOK, ExecutorInv, Agent
    PROVE  ExecutorInv'
<1> USE DEF ExecutorInv, OneExecutor, IsRunning
<1>1. CASE FailStaleJobs
  <2>1. \A j \in Jobs : /\ jobs'[j].host = jobs[j].host
                        /\ jobs[j].status # "absent" => jobs'[j].status # "absent"
                        /\ ~jobs[j].host => jobs'[j] = jobs[j]
    BY <1>1 DEF FailStaleJobs, TypeOK, Row
  <2> QED BY <1>1, <2>1, ExecutorsUndisturbed DEF FailStaleJobs, TypeOK
<1>2. ASSUME NEW k \in Jobs, AgentClaim(k)  PROVE ExecutorInv'
  <2>1. TouchesOnly(k) /\ jobs'[k].status = "running" /\ jobs'[k].host = jobs[k].host
    BY <1>2, TouchesOneRow DEF AgentClaim
  <2>2. jobs[k].status = "queued" /\ jobs[k].host BY <1>2 DEF AgentClaim, IsNext
  <2>3. agentJob' = k /\ UNCHANGED <<activeJob, interfered>> BY <1>2 DEF AgentClaim
  <2> QED BY <2>1, <2>2, <2>3 DEF TypeOK, TouchesOnly
<1>3. CASE AgentFinish
  <2>1. agentJob \in Jobs /\ jobs[agentJob].host BY <1>3 DEF AgentFinish, TypeOK
  <2>2. UNCHANGED jobs \/ \E s \in Terminal : jobs' = SetStatus(agentJob, s)
    BY <1>3 DEF AgentFinish, Finished
  <2>3. \A j \in Jobs : /\ jobs'[j].host = jobs[j].host
                        /\ jobs[j].status # "absent" => jobs'[j].status # "absent"
                        /\ ~jobs[j].host => jobs'[j] = jobs[j]
    BY <2>1, <2>2, TouchesOneRow DEF TouchesOnly, Terminal
  <2> QED BY <1>3, <2>3, ExecutorsUndisturbed DEF AgentFinish, TypeOK
<1>4. CASE AgentDies BY <1>4, ExecutorsUndisturbed DEF AgentDies
<1> QED BY <1>1, <1>2, <1>3, <1>4 DEF Agent

(* The inductive invariant behind exclusive execution.                     *)
THEOREM ExecutorInvariant == Spec => []ExecutorInv
<1>1. Init => ExecutorInv BY DEF Init, ExecutorInv, OneExecutor
<1>2. TypeOK /\ ExecutorInv /\ [Next]_opsVars => ExecutorInv'
  <2> SUFFICES ASSUME TypeOK, ExecutorInv, [Next]_opsVars
               PROVE  ExecutorInv'
    OBVIOUS
  <2>1. ASSUME NEW k \in Jobs, NEW host \in BOOLEAN, NEW apply \in BOOLEAN,
               CreateJob(k, host, apply)
        PROVE  ExecutorInv'
    <3>1. TouchesOnly(k) /\ jobs[k].status = "absent"
      BY <2>1 DEF CreateJob, TouchesOnly, TypeOK
    <3>2. UNCHANGED <<activeJob, agentJob, interfered>> BY <2>1 DEF CreateJob
    <3> QED BY <3>1, <3>2 DEF ExecutorInv, OneExecutor, IsRunning, TouchesOnly, TypeOK
  <2>2. ASSUME NEW k \in Jobs, ClaimAges(k)  PROVE ExecutorInv'
    <3>1. \A j \in Jobs : /\ jobs'[j].host = jobs[j].host
                          /\ jobs'[j].status = jobs[j].status
      BY <2>2 DEF ClaimAges, TypeOK, Row
    <3> QED BY <2>2, <3>1, ExecutorsUndisturbed DEF ClaimAges, TypeOK
  <2>3. CASE UNCHANGED opsVars BY <2>3, ExecutorsUndisturbed DEF opsVars
  <2> QED BY <2>1, <2>2, <2>3, WorkerKeepsExecutors, AgentKeepsExecutors DEF Next
<1> QED BY <1>1, <1>2, Typing, PTL DEF Spec

(* A job has one executor, and its row says running, as long as no         *)
(* reconcile touched a job that was being run.                             *)
THEOREM ExclusiveExecution == Spec => []OneExecutor
<1>1. ExecutorInv => OneExecutor BY DEF ExecutorInv
<1> QED BY <1>1, ExecutorInvariant, PTL
-----------------------------------------------------------------------------
(* The cap is checked against a count that was selected earlier: what a    *)
(* row counts and what booting workers have promised it stay below the     *)
(* limit together. A select lists a job once, so a promise is redeemed     *)
(* once.                                                                   *)
JobLimit == MaxRequeues + Cardinality(Workers) - 1

Promised(j) ==
    { w \in Workers : \E f \in found[w] : f.job = j /\ f.interrupted < MaxRequeues }

ListedOnce == \A w \in Workers : \A f, g \in found[w] : f.job = g.job => f = g

CountsBounded ==
    /\ ListedOnce
    /\ \A j \in Jobs : jobs[j].interrupted + Cardinality(Promised(j)) <= JobLimit

LEMMA Counts ==
    /\ Cardinality(Workers) \in Nat
    /\ Cardinality(Workers) >= 1
    /\ JobLimit \in Nat
    /\ MaxRequeues <= JobLimit
<1>1. Cardinality(Workers) \in Nat /\ Cardinality(Workers) # 0
  BY OpsAssumption, FS_CardinalityType, FS_EmptySet
<1> QED BY <1>1, OpsAssumption DEF JobLimit

LEMMA PromisedCount ==
    ASSUME NEW S, S \subseteq Workers
    PROVE  /\ IsFiniteSet(S)
           /\ Cardinality(S) \in Nat
           /\ Cardinality(S) <= Cardinality(Workers)
BY OpsAssumption, FS_Subset, FS_CardinalityType

(* The ways a step may treat a row: it counts no more and promises no      *)
(* more; it promises an attempt to a row below the cap; it redeems one.    *)
LEMMA CountIsKept ==
    ASSUME TypeOK, NEW j \in Jobs,
           jobs[j].interrupted + Cardinality(Promised(j)) <= JobLimit,
           NEW n \in Nat, NEW S, S \subseteq Workers,
           \/ n <= jobs[j].interrupted /\ S \subseteq Promised(j)
           \/ n = jobs[j].interrupted /\ n < MaxRequeues
           \/ /\ n = jobs[j].interrupted + 1
              /\ \E w \in Promised(j) : S \subseteq Promised(j) \ {w}
    PROVE  n + Cardinality(S) <= JobLimit
<1>1. /\ IsFiniteSet(S) /\ Cardinality(S) \in Nat
      /\ Cardinality(S) <= Cardinality(Workers)
  BY PromisedCount
<1>2. /\ Promised(j) \subseteq Workers
      /\ IsFiniteSet(Promised(j))
      /\ Cardinality(Promised(j)) \in Nat
  BY PromisedCount DEF Promised
<1>3. jobs[j].interrupted \in Nat BY DEF TypeOK, Row
<1>4. CASE n <= jobs[j].interrupted /\ S \subseteq Promised(j)
  <2>1. Cardinality(S) <= Cardinality(Promised(j)) BY <1>2, <1>4, FS_Subset
  <2> QED BY <1>1, <1>2, <1>3, <1>4, <2>1, Counts
<1>5. CASE n = jobs[j].interrupted /\ n < MaxRequeues
  BY <1>1, <1>3, <1>5, Counts, OpsAssumption DEF JobLimit
<1>6. CASE /\ n = jobs[j].interrupted + 1
           /\ \E w \in Promised(j) : S \subseteq Promised(j) \ {w}
  <2>1. PICK w \in Promised(j) : S \subseteq Promised(j) \ {w} BY <1>6
  <2>2. /\ IsFiniteSet(Promised(j) \ {w})
        /\ Cardinality(Promised(j) \ {w}) = Cardinality(Promised(j)) - 1
    BY <1>2, <2>1, FS_RemoveElement
  <2>3. Cardinality(S) <= Cardinality(Promised(j)) - 1 BY <2>1, <2>2, FS_Subset
  <2> QED BY <1>1, <1>2, <1>3, <1>6, <2>3, Counts
<1> QED BY <1>4, <1>5, <1>6

(* A step that selects nothing and counts nothing.                         *)
LEMMA CountsUndisturbed ==
    ASSUME TypeOK, CountsBounded, TypeOK',
           \A w \in Workers : found'[w] \subseteq found[w],
           \A j \in Jobs : jobs'[j].interrupted <= jobs[j].interrupted
    PROVE  CountsBounded'
<1>1. ASSUME NEW j \in Jobs
      PROVE  jobs'[j].interrupted + Cardinality(Promised(j)') <= JobLimit
  <2>1. Promised(j)' \subseteq Promised(j) /\ Promised(j)' \subseteq Workers
    BY DEF Promised
  <2>2. jobs'[j].interrupted \in Nat BY DEF TypeOK, Row
  <2> QED BY <2>1, <2>2, CountIsKept DEF CountsBounded
<1>2. ListedOnce' BY DEF CountsBounded, ListedOnce
<1> QED BY <1>1, <1>2 DEF CountsBounded, JobLimit

LEMMA BootCounts ==
    ASSUME TypeOK, CountsBounded, NEW w \in Workers, Boot(w)
    PROVE  CountsBounded'
<1>1. /\ found' = [found EXCEPT ![w] =
              { [job |-> j, interrupted |-> jobs[j].interrupted] :
                  j \in { i \in Jobs : IsRunning(i) /\ jobs[i].old /\ ~jobs[i].host } }]
      /\ UNCHANGED jobs
  BY DEF Boot
<1>2. \A v \in Workers : v # w => found'[v] = found[v] BY <1>1 DEF TypeOK
<1>3. \A f \in found'[w] : /\ f.job \in Jobs
                           /\ f = [job |-> f.job, interrupted |-> jobs[f.job].interrupted]
  BY <1>1 DEF TypeOK
<1>4. \A j \in Jobs : jobs[j].interrupted \in Nat BY DEF TypeOK, Row
<1>5. ASSUME NEW j \in Jobs
      PROVE  jobs'[j].interrupted + Cardinality(Promised(j)') <= JobLimit
  <2>1. Promised(j)' \subseteq Workers BY DEF Promised
  <2>2. CASE jobs[j].interrupted < MaxRequeues
    BY <1>1, <1>4, <2>1, <2>2, CountIsKept DEF CountsBounded
  <2>3. CASE ~(jobs[j].interrupted < MaxRequeues)
    <3>1. Promised(j)' \subseteq Promised(j) BY <1>2, <1>3, <2>3 DEF Promised
    <3> QED BY <1>1, <1>4, <2>1, <3>1, CountIsKept DEF CountsBounded
  <2> QED BY <2>2, <2>3
<1>6. ListedOnce' BY <1>2, <1>3 DEF CountsBounded, ListedOnce
<1> QED BY <1>5, <1>6 DEF CountsBounded, JobLimit

(* A reconciled row is struck off the list, and with it the promise.       *)
LEMMA ReconcileCounts ==
    ASSUME TypeOK, CountsBounded, TypeOK', NEW w \in Workers, ReconcileJob(w)
    PROVE  CountsBounded'
<1>1. PICK f \in found[w] : /\ jobs' = Requeued(f)
                            /\ found' = [found EXCEPT ![w] = @ \ {f}]
  BY DEF ReconcileJob
<1>2. \A v \in Workers : found'[v] = IF v = w THEN found[w] \ {f} ELSE found[v]
  BY <1>1 DEF TypeOK
<1>3. f.job \in Jobs /\ f.interrupted \in Nat BY FoundFields
<1>4. ListedOnce' /\ \A v \in Workers : found'[v] \subseteq found[v]
  BY <1>2 DEF CountsBounded, ListedOnce
<1>5. ASSUME NEW j \in Jobs
      PROVE  jobs'[j].interrupted + Cardinality(Promised(j)') <= JobLimit
  <2>1. Promised(j)' \subseteq Promised(j) /\ Promised(j)' \subseteq Workers
    BY <1>4 DEF Promised
  <2>2. jobs[j] \in Row /\ jobs'[j].interrupted \in Nat /\ jobs \in [Jobs -> Row]
    BY DEF TypeOK, Row
  <2>3. CASE j = f.job /\ IsRunning(j) /\ f.interrupted < MaxRequeues
    <3>1. jobs'[j].interrupted = jobs[j].interrupted + 1
      BY <1>1, <2>2, <2>3 DEF Requeued, Row
    <3>2. w \in Promised(j) /\ w \notin Promised(j)'
      BY <1>1, <1>2, <2>3 DEF Promised, CountsBounded, ListedOnce
    <3>3. Promised(j)' \subseteq Promised(j) \ {w} BY <2>1, <3>2
    <3> QED BY <2>1, <2>2, <3>1, <3>2, <3>3, CountIsKept DEF CountsBounded
  <2>4. CASE ~(j = f.job /\ IsRunning(j) /\ f.interrupted < MaxRequeues)
    <3>1. jobs'[j].interrupted = jobs[j].interrupted
      BY <1>1, <1>3, <2>2, <2>4 DEF Requeued, SetStatus, Row
    <3>2. jobs'[j].interrupted <= jobs[j].interrupted BY <2>2, <3>1
    <3> QED BY <2>1, <2>2, <3>2, CountIsKept DEF CountsBounded
  <2> QED BY <2>3, <2>4
<1> QED BY <1>4, <1>5 DEF CountsBounded, JobLimit

LEMMA StepCounts ==
    ASSUME TypeOK, CountsBounded, TypeOK', [Next]_opsVars
    PROVE  CountsBounded'
<1>1. jobs \in [Jobs -> Row] /\ \A j \in Jobs : jobs[j].interrupted \in Nat
  BY DEF TypeOK, Row
<1>2. \A k \in Jobs :
          (\/ UNCHANGED jobs
           \/ jobs' = Claimed(k)
           \/ \E s \in Active \cup Terminal : jobs' = SetStatus(k, s))
          => \A j \in Jobs : jobs'[j].interrupted <= jobs[j].interrupted
  BY <1>1 DEF Claimed, SetStatus, Row
<1>3. ASSUME NEW k \in Jobs, NEW host \in BOOLEAN, NEW apply \in BOOLEAN,
             CreateJob(k, host, apply)
      PROVE  CountsBounded'
  BY <1>1, <1>3, CountsUndisturbed DEF CreateJob
<1>4. ASSUME NEW k \in Jobs, ClaimAges(k)
      PROVE  CountsBounded'
  BY <1>1, <1>4, CountsUndisturbed DEF ClaimAges, Row
<1>5. ASSUME NEW w \in Workers, Worker(w)
      PROVE  CountsBounded'
  <2>1. CASE StartPolling(w) BY <1>1, <2>1, CountsUndisturbed DEF StartPolling
  <2>2. ASSUME NEW k \in Jobs, ClaimJob(w, k)  PROVE CountsBounded'
    BY <1>2, <2>2, CountsUndisturbed DEF ClaimJob
  <2>3. CASE FinishJob(w)
    <3>1. activeJob[w] \in Jobs /\ UNCHANGED found BY <2>3 DEF FinishJob, TypeOK
    <3>2. UNCHANGED jobs \/ \E s \in Active \cup Terminal : jobs' = SetStatus(activeJob[w], s)
      BY <2>3 DEF FinishJob, Finished
    <3> QED BY <1>2, <3>1, <3>2, CountsUndisturbed
  <2>4. CASE Crash(w) \/ Sigterm(w)
    <3>1. \A v \in Workers : found'[v] \subseteq found[v]
      BY <2>4 DEF Crash, Sigterm, StopWorker, TypeOK
    <3>2. \/ UNCHANGED jobs
          \/ /\ activeJob[w] \in Jobs
             /\ \E s \in Active \cup Terminal : jobs' = SetStatus(activeJob[w], s)
      BY <2>4 DEF Crash, Sigterm, Released, Active, TypeOK
    <3>3. \A j \in Jobs : jobs'[j].interrupted <= jobs[j].interrupted
      BY <1>1, <1>2, <3>2
    <3> QED BY <3>1, <3>3, CountsUndisturbed
  <2> QED BY <1>5, <2>1, <2>2, <2>3, <2>4, BootCounts, ReconcileCounts DEF Worker
<1>6. CASE Agent
  <2>1. UNCHANGED found
    BY <1>6 DEF Agent, FailStaleJobs, AgentClaim, AgentFinish, AgentDies
  <2>2. CASE FailStaleJobs BY <1>1, <2>1, <2>2, CountsUndisturbed DEF FailStaleJobs, Row
  <2>3. ASSUME NEW k \in Jobs, AgentClaim(k)  PROVE CountsBounded'
    BY <1>2, <2>1, <2>3, CountsUndisturbed DEF AgentClaim
  <2>4. CASE AgentFinish
    <3>1. agentJob \in Jobs BY <2>4 DEF AgentFinish, TypeOK
    <3>2. UNCHANGED jobs \/ \E s \in Active \cup Terminal : jobs' = SetStatus(agentJob, s)
      BY <2>4 DEF AgentFinish, Finished
    <3> QED BY <1>2, <2>1, <3>1, <3>2, CountsUndisturbed
  <2>5. CASE AgentDies BY <1>1, <2>1, <2>5, CountsUndisturbed DEF AgentDies
  <2> QED BY <1>6, <2>2, <2>3, <2>4, <2>5 DEF Agent
<1>7. CASE UNCHANGED opsVars BY <1>1, <1>7, CountsUndisturbed DEF opsVars
<1> QED BY <1>3, <1>4, <1>5, <1>6, <1>7 DEF Next

LEMMA InitCounts == Init => CountsBounded
<1> SUFFICES ASSUME Init  PROVE CountsBounded OBVIOUS
<1>1. \A j \in Jobs : jobs[j].interrupted = 0 /\ Promised(j) = {} BY DEF Init, Promised
<1>2. \A j \in Jobs : Cardinality(Promised(j)) = 0 BY <1>1, FS_EmptySet
<1>3. 0 + 0 <= JobLimit BY Counts
<1> QED BY <1>1, <1>2, <1>3 DEF Init, CountsBounded, ListedOnce

(* Interruptions are counted against the cap, up to one stale count per    *)
(* other worker that booted at the same time: a job that keeps taking its  *)
(* worker down is given up.                                                *)
THEOREM BoundedRequeues == Spec => []RequeuesBounded
<1>1. TypeOK /\ CountsBounded /\ TypeOK' /\ [Next]_opsVars => CountsBounded'
  BY StepCounts
<1>2. TypeOK /\ CountsBounded => RequeuesBounded
  <2> SUFFICES ASSUME TypeOK, CountsBounded, NEW j \in Jobs
               PROVE  jobs[j].interrupted <= JobLimit
    BY DEF RequeuesBounded, JobLimit
  <2>1. jobs[j].interrupted \in Nat /\ Cardinality(Promised(j)) \in Nat
    BY PromisedCount DEF TypeOK, Row, Promised
  <2> QED BY <2>1, Counts DEF CountsBounded
<1> QED BY <1>1, <1>2, InitCounts, Typing, PTL DEF Spec
-----------------------------------------------------------------------------
(* The takedown. Copies are never dated after the newest import, so a      *)
(* marker that is newer hides them all; and what a takedown has dealt with *)
(* stays dealt with unless a writer overlaps it, for after its last step   *)
(* nothing is left from which the document could be written again.         *)
CopiesAreDated ==
    /\ feed.time <= history.imported /\ reindex.time <= history.imported
    /\ history.imported <= clock
    /\ feed.live => feed.time >= 1
    /\ reindex.step = "read" => reindex.time >= 1
    /\ \A r \in rows \cup import.pending \cup reindex.pending :
          r.op = "upsert" => r.time <= history.imported
    /\ \A r \in import.pending \cup reindex.pending : r.op = "upsert"

CopiesAreDoomed == \A r \in rows : r.op = "upsert" => r \in doomed

DealtWith ==
    ~history.raced =>
        /\ takedown.step \in {"tasked", "cleared", "tombstoned"} => CopiesAreDoomed
        /\ takedown.step \in {"cleared", "tombstoned"} => ~stored
        /\ takedown.step = "tombstoned" => ~feed.live

NoWayBack ==
    /\ history.done => takedown.step = "idle"
    /\ history.done /\ ~history.raced =>
          /\ blocked /\ ~stored /\ ~feed.live /\ CopiesAreDoomed
          /\ import.step \in {"idle", "materialized"} /\ reindex.step = "idle"

TakedownInvariant == TakedownTypeOK /\ CopiesAreDated /\ DealtWith /\ NoWayBack

(* Rows of either writer, and markers, are rows of the index.              *)
LEMMA RowsTyped ==
    ASSUME NEW t \in 1 .. MaxTime
    PROVE  \A parts \in SUBSET {"document", "page"} :
              Copies(parts, t) \subseteq IndexRow /\ Markers(parts, t) \subseteq IndexRow
  BY DEF Copies, Markers, IndexRow

LEMMA TakedownTypeStep ==
    ASSUME TakedownTypeOK, CopiesAreDated, [TakedownNext]_takedownVars
    PROVE  TakedownTypeOK'
  <1> USE TakedownAssumption
  <1>a. import.pending \subseteq IndexRow /\ reindex.pending \subseteq IndexRow
    BY DEF TakedownTypeOK
  <1>i. ASSUME NEW kept \in SUBSET IndexRow, Ingest(kept)
        PROVE  rows' \subseteq IndexRow /\ doomed' \subseteq rows'
    BY <1>i DEF Ingest, TakedownTypeOK
  <1>h. ASSUME Overlaps
        PROVE  history' \in [imported: 0 .. MaxTime, marked: 0 .. MaxTime,
                             done: BOOLEAN, raced: BOOLEAN]
    BY <1>h DEF Overlaps, TakedownTypeOK
  <1>t. ASSUME clock < MaxTime PROVE clock + 1 \in 1 .. MaxTime /\ clock + 1 \in 0 .. MaxTime
    BY <1>t DEF TakedownTypeOK
  <1>g. ASSUME NEW step \in {"idle", "inspected", "marked", "tasked", "cleared", "tombstoned"}
        PROVE  [takedown EXCEPT !.step = step] \in
                 [step: {"idle", "inspected", "marked", "tasked", "cleared", "tombstoned"},
                  pages: SUBSET {"page"}]
    BY DEF TakedownTypeOK
  <1>1. CASE Materialize
    <2>1. import' \in [step: {"idle", "materialized", "committed"}, pending: SUBSET IndexRow]
      BY <1>1 DEF Materialize, TakedownTypeOK
    <2> QED BY <2>1, <1>1, <1>h DEF Materialize, indexVars, TakedownTypeOK
  <1>2. CASE CommitImport
    <2>1. CASE Skips
      <3>1. import' \in [step: {"idle", "materialized", "committed"}, pending: SUBSET IndexRow]
        BY <1>2, <2>1 DEF CommitImport, TakedownTypeOK
      <3> QED BY <3>1, <2>1, <1>2 DEF CommitImport, indexVars, TakedownTypeOK
    <2>2. CASE ~Skips
      <3>1. clock + 1 \in 1 .. MaxTime /\ clock + 1 \in 0 .. MaxTime
        BY <1>2, <2>2, <1>t DEF CommitImport
      <3>2. Copies({"document", "page"}, clock + 1) \subseteq IndexRow
        BY <3>1, RowsTyped
      <3>3. import' \in [step: {"idle", "materialized", "committed"}, pending: SUBSET IndexRow]
        BY <3>2, <2>2, <1>2 DEF CommitImport, TakedownTypeOK
      <3>4. feed' \in [live: BOOLEAN, time: 0 .. MaxTime]
        <4>1. feed' \in {[live |-> TRUE, time |-> clock + 1], feed}
          BY <2>2, <1>2 DEF CommitImport
        <4>2. [live |-> TRUE, time |-> clock + 1] \in [live: BOOLEAN, time: 0 .. MaxTime]
          BY <3>1
        <4> QED BY <4>1, <4>2 DEF TakedownTypeOK
      <3>5. history' \in [imported: 0 .. MaxTime, marked: 0 .. MaxTime,
                          done: BOOLEAN, raced: BOOLEAN]
        <4>1. history' = [history EXCEPT !.imported = clock + 1,
                                         !.raced = @ \/ takedown.step # "idle"]
          BY <2>2, <1>2 DEF CommitImport
        <4> QED BY <4>1, <3>1 DEF TakedownTypeOK
      <3>6. clock' \in 0 .. MaxTime BY <3>1, <2>2, <1>2 DEF CommitImport
      <3> QED BY <3>3, <3>4, <3>5, <3>6, <1>2 DEF CommitImport, indexVars, TakedownTypeOK
    <2> QED BY <2>1, <2>2
  <1>3. CASE FlushImport
    <2>1. rows' \subseteq IndexRow /\ doomed' \subseteq rows'
      BY <1>3, <1>a, <1>i DEF FlushImport
    <2>2. import' \in [step: {"idle", "materialized", "committed"}, pending: SUBSET IndexRow]
      BY <1>3 DEF FlushImport
    <2> QED BY <2>1, <2>2, <1>3, <1>h DEF FlushImport, TakedownTypeOK
  <1>4. CASE ReadSnapshotPage
    <2>1. reindex.count + 1 \in 0 .. MaxReindexes
      BY <1>4 DEF ReadSnapshotPage, TakedownTypeOK
    <2>2. reindex' \in [step: {"idle", "read", "projected"}, pending: SUBSET IndexRow,
                        time: 0 .. MaxTime, count: 0 .. MaxReindexes]
      BY <2>1, <1>4 DEF ReadSnapshotPage, TakedownTypeOK
    <2> QED BY <2>2, <1>4 DEF ReadSnapshotPage, indexVars, TakedownTypeOK
  <1>5. CASE Rehydrate
    <2>1. reindex.time \in 1 .. MaxTime
      BY <1>5 DEF Rehydrate, TakedownTypeOK, CopiesAreDated
    <2>2. ReindexedRows({"document"} \cup IF stored THEN {"page"} ELSE {}) \in SUBSET IndexRow
      BY <2>1, RowsTyped DEF ReindexedRows
    <2>3. reindex' \in [step: {"idle", "read", "projected"}, pending: SUBSET IndexRow,
                        time: 0 .. MaxTime, count: 0 .. MaxReindexes]
      BY <2>2, <1>5 DEF Rehydrate, TakedownTypeOK
    <2> QED BY <2>3, <1>5 DEF Rehydrate, indexVars, TakedownTypeOK
  <1>6. CASE FlushReindex
    <2>1. rows' \subseteq IndexRow /\ doomed' \subseteq rows'
      BY <1>6, <1>a, <1>i DEF FlushReindex
    <2>0. 0 \in 0 .. MaxTime OBVIOUS
    <2>2. reindex' \in [step: {"idle", "read", "projected"}, pending: SUBSET IndexRow,
                        time: 0 .. MaxTime, count: 0 .. MaxReindexes]
      BY <2>0, <1>6 DEF FlushReindex, TakedownTypeOK
    <2> QED BY <2>1, <2>2, <1>6, <1>h DEF FlushReindex, TakedownTypeOK
  <1>7. CASE InspectDocument BY <1>7 DEF InspectDocument, indexVars, TakedownTypeOK
  <1>8. CASE IngestMarkers
    <2> DEFINE markers == Markers({"document"} \cup takedown.pages, clock + 1)
    <2>1. clock + 1 \in 1 .. MaxTime /\ clock + 1 \in 0 .. MaxTime
      BY <1>8, <1>t DEF IngestMarkers
    <2>2. markers \subseteq IndexRow BY <2>1, RowsTyped DEF TakedownTypeOK
    <2>3. \E kept \in SUBSET markers : Ingest(kept) BY <1>8 DEF IngestMarkers
    <2>4. rows' \subseteq IndexRow /\ doomed' \subseteq rows' BY <2>2, <2>3, <1>i
    <2>5. takedown' \in [step: {"idle", "inspected", "marked", "tasked", "cleared",
                                "tombstoned"}, pages: SUBSET {"page"}]
      BY <1>8, <1>g DEF IngestMarkers, GoOn
    <2>6. history' \in [imported: 0 .. MaxTime, marked: 0 .. MaxTime,
                        done: BOOLEAN, raced: BOOLEAN]
      BY <1>8, <2>1 DEF IngestMarkers, TakedownTypeOK
    <2> QED BY <2>1, <2>4, <2>5, <2>6, <1>8 DEF IngestMarkers, TakedownTypeOK
  <1>9. CASE CreateDeleteTask \/ ClearStorage
    BY <1>9, <1>g DEF CreateDeleteTask, ClearStorage, DeleteQuery, GoOn, indexVars, TakedownTypeOK
  <1>10. CASE RecordTombstone
    <2>1. feed' \in [live: BOOLEAN, time: 0 .. MaxTime]
      BY <1>10 DEF RecordTombstone, TakedownTypeOK
    <2> QED BY <2>1, <1>10, <1>g DEF RecordTombstone, GoOn, indexVars, TakedownTypeOK
  <1>11. CASE Blocklist BY <1>11 DEF Blocklist, indexVars, TakedownTypeOK
  <1>12. CASE TakedownFails BY <1>12 DEF TakedownFails, DeleteQuery, TakedownTypeOK
  <1>13. CASE PurgeTombstones
    <2>1. feed' \in [live: BOOLEAN, time: 0 .. MaxTime]
      BY <1>13 DEF PurgeTombstones, TakedownTypeOK
    <2> QED BY <2>1, <1>13 DEF PurgeTombstones, indexVars, TakedownTypeOK
  <1>14. CASE PurgeStorage \/ PurgeIndex \/ Merge
    BY <1>14 DEF PurgeStorage, PurgeIndex, Merge, indexVars, TakedownTypeOK
  <1>15. CASE UNCHANGED takedownVars BY <1>15 DEF takedownVars, TakedownTypeOK
  <1> QED BY <1>1, <1>2, <1>3, <1>4, <1>5, <1>6, <1>7, <1>8, <1>9, <1>10, <1>11, <1>12,
             <1>13, <1>14, <1>15 DEF TakedownNext

(* No row is dated ahead of the newest import but the markers.             *)
LEMMA DatedStep ==
    ASSUME TakedownTypeOK, CopiesAreDated, [TakedownNext]_takedownVars
    PROVE  CopiesAreDated'
  <1> USE TakedownAssumption
  <1>n. /\ clock \in Int /\ history.imported \in Int /\ feed.time \in Int /\ reindex.time \in Int
        /\ \A r \in rows \cup import.pending \cup reindex.pending : r.time \in Int
    BY DEF TakedownTypeOK, IndexRow
  <1>o. ASSUME Overlaps PROVE history'.imported = history.imported
    BY <1>o DEF Overlaps, TakedownTypeOK
  <1>1. CASE Materialize
    <2>1. import'.pending = import.pending BY <1>1 DEF Materialize, TakedownTypeOK
    <2> QED BY <2>1, <1>o, <1>1 DEF Materialize, indexVars, CopiesAreDated
  <1>2. CASE CommitImport
    <2>1. CASE Skips
      <3>1. import'.pending = import.pending
        BY <1>2, <2>1 DEF CommitImport, TakedownTypeOK
      <3> QED BY <3>1, <2>1, <1>2 DEF CommitImport, indexVars, CopiesAreDated
    <2>2. CASE ~Skips
      <3>1. clock' = clock + 1 /\ history'.imported = clock + 1
        BY <1>2, <2>2 DEF CommitImport, TakedownTypeOK
      <3>2. import'.pending = Copies({"document", "page"}, clock + 1)
        BY <1>2, <2>2 DEF CommitImport
      <3>3. \A r \in import'.pending : r.op = "upsert" /\ r.time = clock + 1
        BY <3>2 DEF Copies
      <3>4. feed'.time \in {clock + 1, feed.time} /\ (feed'.live => feed'.time >= 1)
        BY <1>2, <2>2 DEF CommitImport, CopiesAreDated, TakedownTypeOK
      <3> QED BY <3>1, <3>3, <3>4, <1>n, <1>2, <2>2 DEF CommitImport, indexVars, CopiesAreDated
    <2> QED BY <2>1, <2>2
  <1>3. CASE FlushImport
    <2>1. import'.pending = {} /\ rows' \subseteq rows \cup import.pending
      BY <1>3 DEF FlushImport, Ingest
    <2> QED BY <2>1, <1>o, <1>3 DEF FlushImport, CopiesAreDated
  <1>4. CASE ReadSnapshotPage
    <2>1. reindex'.pending = {} /\ reindex'.time = feed.time
      BY <1>4 DEF ReadSnapshotPage
    <2> QED BY <2>1, <1>4 DEF ReadSnapshotPage, indexVars, CopiesAreDated
  <1>5. CASE Rehydrate
    <2>1. /\ reindex'.time = reindex.time /\ reindex'.step = "projected"
          /\ reindex'.pending = Copies({"document"} \cup IF stored THEN {"page"} ELSE {},
                                       reindex.time)
      BY <1>5 DEF Rehydrate, ReindexedRows, TakedownTypeOK
    <2>2. \A r \in reindex'.pending : r.op = "upsert" /\ r.time = reindex.time
      BY <2>1 DEF Copies
    <2> QED BY <2>1, <2>2, <1>5 DEF Rehydrate, indexVars, CopiesAreDated
  <1>6. CASE FlushReindex
    <2>1. /\ reindex'.pending = {} /\ reindex'.time = 0 /\ reindex'.step = "idle"
          /\ rows' \subseteq rows \cup reindex.pending
      BY <1>6 DEF FlushReindex, Ingest, TakedownTypeOK
    <2>2. history'.imported = history.imported /\ history.imported >= 0
      BY <1>6, <1>o DEF FlushReindex, TakedownTypeOK
    <2> QED BY <2>1, <2>2, <1>6 DEF FlushReindex, CopiesAreDated
  <1>7. CASE InspectDocument
    <2>1. history'.imported = history.imported
      BY <1>7 DEF InspectDocument, TakedownTypeOK
    <2> QED BY <2>1, <1>7 DEF InspectDocument, indexVars, CopiesAreDated
  <1>8. CASE IngestMarkers
    <2> DEFINE markers == Markers({"document"} \cup takedown.pages, clock + 1)
    <2>1. \A r \in markers : r.op = "delete" BY DEF Markers
    <2>2. rows' \subseteq rows \cup markers BY <1>8 DEF IngestMarkers, Ingest
    <2>3. history'.imported = history.imported BY <1>8 DEF IngestMarkers, TakedownTypeOK
    <2>4. clock' = clock + 1 /\ UNCHANGED <<feed, import, reindex>>
      BY <1>8 DEF IngestMarkers
    <2>5. \A r \in rows' : r.op = "upsert" => r \in rows BY <2>1, <2>2
    <2> QED BY <2>3, <2>4, <2>5, <1>n DEF CopiesAreDated
  <1>9. CASE CreateDeleteTask \/ ClearStorage \/ TakedownFails \/ PurgeStorage \/ PurgeIndex
    BY <1>9 DEF CreateDeleteTask, ClearStorage, TakedownFails, PurgeStorage, PurgeIndex,
                indexVars, CopiesAreDated
  <1>10. CASE RecordTombstone \/ PurgeTombstones
    <2>1. feed'.time = feed.time /\ ~feed'.live
      BY <1>10 DEF RecordTombstone, PurgeTombstones, TakedownTypeOK
    <2> QED BY <2>1, <1>10 DEF RecordTombstone, PurgeTombstones, indexVars, CopiesAreDated
  <1>11. CASE Blocklist
    <2>1. history'.imported = history.imported BY <1>11 DEF Blocklist, TakedownTypeOK
    <2> QED BY <2>1, <1>11 DEF Blocklist, indexVars, CopiesAreDated
  <1>12. CASE Merge BY <1>12 DEF Merge, CopiesAreDated
  <1>13. CASE UNCHANGED takedownVars BY <1>13 DEF takedownVars, CopiesAreDated
  <1> QED BY <1>1, <1>2, <1>3, <1>4, <1>5, <1>6, <1>7, <1>8, <1>9, <1>10, <1>11, <1>12,
             <1>13 DEF TakedownNext

LEMMA DealtStep ==
    ASSUME TakedownInvariant, [TakedownNext]_takedownVars
    PROVE  DealtWith' /\ NoWayBack'
  <1> USE DEF TakedownInvariant
  <1>h. history \in [imported: 0 .. MaxTime, marked: 0 .. MaxTime,
                      done: BOOLEAN, raced: BOOLEAN]
    BY DEF TakedownTypeOK
  <1>o. ASSUME Overlaps
        PROVE  /\ history'.done = history.done
               /\ ~history'.raced => ~history.raced /\ takedown.step = "idle"
    BY <1>h, <1>o DEF Overlaps
  <1>g. ASSUME NEW step, GoOn(step) PROVE takedown'.step = step
    BY <1>g DEF GoOn, TakedownTypeOK
  <1>1. CASE Materialize
    <2>1. import'.step = "materialized" /\ (stored' => stored \/ ~blocked)
      BY <1>1 DEF Materialize, TakedownTypeOK
    <2> QED BY <2>1, <1>1, <1>o DEF Materialize, indexVars, DealtWith, NoWayBack, CopiesAreDoomed
  <1>2. CASE CommitImport
    <2>1. CASE Skips
      <3>1. import'.step = "idle" BY <1>2, <2>1 DEF CommitImport, TakedownTypeOK
      <3> QED BY <3>1, <2>1, <1>2
              DEF CommitImport, indexVars, DealtWith, NoWayBack, CopiesAreDoomed
    <2>2. CASE ~Skips
      <3>1. /\ history'.done = history.done /\ ~blocked
            /\ ~history'.raced => ~history.raced /\ takedown.step = "idle"
        BY <1>2, <2>2, <1>h DEF CommitImport, Skips
      <3> QED BY <3>1, <1>2 DEF CommitImport, DealtWith, NoWayBack
    <2> QED BY <2>1, <2>2
  <1>3. CASE FlushImport
    <2>1. import.step = "committed" /\ UNCHANGED takedown BY <1>3 DEF FlushImport
    <2> QED BY <2>1, <1>3, <1>o DEF FlushImport, DealtWith, NoWayBack
  <1>4. CASE ReadSnapshotPage
    BY <1>4 DEF ReadSnapshotPage, indexVars, DealtWith, NoWayBack, CopiesAreDoomed
  <1>5. CASE Rehydrate
    BY <1>5 DEF Rehydrate, indexVars, DealtWith, NoWayBack, CopiesAreDoomed
  <1>6. CASE FlushReindex BY <1>6, <1>o DEF FlushReindex, DealtWith, NoWayBack
  <1>7. CASE InspectDocument
    <2>1. takedown'.step = "inspected" /\ ~history'.done
      BY <1>7, <1>h DEF InspectDocument
    <2> QED BY <2>1 DEF DealtWith, NoWayBack
  <1>8. CASE IngestMarkers
    <2>1. takedown'.step \in {"marked", "idle"} /\ history'.done = history.done
      BY <1>8, <1>h, <1>g DEF IngestMarkers
    <2>2. ~history.done BY <1>8 DEF IngestMarkers, NoWayBack
    <2> QED BY <2>1, <2>2 DEF DealtWith, NoWayBack
  <1>9. CASE CreateDeleteTask
    <2>1. takedown'.step = "tasked" /\ CopiesAreDoomed'
      BY <1>9, <1>g DEF CreateDeleteTask, DeleteQuery, CopiesAreDoomed
    <2>2. ~history.done /\ UNCHANGED history BY <1>9 DEF CreateDeleteTask, NoWayBack
    <2> QED BY <2>1, <2>2 DEF DealtWith, NoWayBack
  <1>10. CASE ClearStorage
    <2>1. takedown'.step = "cleared" /\ ~stored' /\ UNCHANGED <<indexVars, history>>
      BY <1>10, <1>g DEF ClearStorage
    <2>2. ~history.done /\ takedown.step = "tasked" BY <1>10 DEF ClearStorage, NoWayBack
    <2> QED BY <2>1, <2>2 DEF DealtWith, NoWayBack, CopiesAreDoomed, indexVars
  <1>11. CASE RecordTombstone
    <2>1. takedown'.step = "tombstoned" /\ ~feed'.live /\ UNCHANGED <<indexVars, history, stored>>
      BY <1>11, <1>g DEF RecordTombstone, TakedownTypeOK
    <2>2. ~history.done /\ takedown.step = "cleared"
      BY <1>11 DEF RecordTombstone, NoWayBack
    <2> QED BY <2>1, <2>2 DEF DealtWith, NoWayBack, CopiesAreDoomed, indexVars
  <1>12. CASE Blocklist
    <2>1. /\ takedown'.step = "idle" /\ blocked' /\ UNCHANGED <<indexVars, stored, feed, import, reindex>>
          /\ ~history'.raced => ~history.raced /\ import.step = "idle" /\ reindex.step = "idle"
      BY <1>12, <1>h DEF Blocklist
    <2>2. takedown.step = "tombstoned" BY <1>12 DEF Blocklist
    <2> QED BY <2>1, <2>2 DEF DealtWith, NoWayBack, CopiesAreDoomed, indexVars
  <1>13. CASE TakedownFails
    <2>1. takedown'.step = "idle" /\ UNCHANGED history /\ ~history.done
      BY <1>13 DEF TakedownFails, NoWayBack
    <2> QED BY <2>1 DEF DealtWith, NoWayBack
  <1>14. CASE PurgeTombstones \/ PurgeStorage \/ PurgeIndex \/ Merge
    <2>1. /\ UNCHANGED <<takedown, history, blocked, import, reindex>>
          /\ (feed'.live => feed.live) /\ (stored' => stored)
      BY <1>14 DEF PurgeTombstones, PurgeStorage, PurgeIndex, Merge, TakedownTypeOK
    <2>2. CopiesAreDoomed => CopiesAreDoomed'
      BY <1>14 DEF PurgeTombstones, PurgeStorage, PurgeIndex, Merge, indexVars, CopiesAreDoomed
    <2> QED BY <2>1, <2>2 DEF DealtWith, NoWayBack
  <1>15. CASE UNCHANGED takedownVars
    BY <1>15 DEF takedownVars, DealtWith, NoWayBack, CopiesAreDoomed
  <1> QED BY <1>1, <1>2, <1>3, <1>4, <1>5, <1>6, <1>7, <1>8, <1>9, <1>10, <1>11, <1>12,
             <1>13, <1>14, <1>15 DEF TakedownNext

THEOREM TakedownIsSound == TakedownSpec => []TakedownInvariant
  <1>1. TakedownInit => TakedownInvariant
    <2> SUFFICES ASSUME TakedownInit PROVE TakedownInvariant OBVIOUS
    <2>1. TakedownTypeOK
      <3>1. 0 \in 0 .. MaxTime /\ 0 \in 0 .. MaxReindexes BY TakedownAssumption
      <3> QED BY <3>1 DEF TakedownInit, TakedownTypeOK
    <2>2. CopiesAreDated BY DEF TakedownInit, CopiesAreDated
    <2>3. DealtWith /\ NoWayBack BY DEF TakedownInit, DealtWith, NoWayBack
    <2> QED BY <2>1, <2>2, <2>3 DEF TakedownInvariant
  <1>2. TakedownInvariant /\ [TakedownNext]_takedownVars => TakedownInvariant'
    BY TakedownTypeStep, DatedStep, DealtStep DEF TakedownInvariant
  <1> QED BY <1>1, <1>2, PTL DEF TakedownSpec

(* In the run of all service components the takedown behaves as alone.     *)
LEMMA TakedownIsAPart == ServiceSpec => TakedownSpec
  <1>1. ServiceInit => TakedownInit BY DEF ServiceInit
  <1>2. [ServiceNext]_serviceVars => [TakedownNext]_takedownVars
    BY DEF ServiceNext, serviceVars, JobsStep, TakedownStep, PageStep,
           WindowStep, AdmissionStep, PageImagesStep, EntityDetailStep, PdfViewStep, PlayerStep
  <1> QED BY <1>1, <1>2, PTL DEF ServiceSpec, TakedownSpec

(* MarkerHidesOlderCopies: whatever is flushed, rewritten or merged after  *)
(* the markers, the document is not found by its id unless imported anew.  *)
THEOREM MarkersHide == ServiceSpec => []MarkerHidesOlderCopies
  <1>1. TakedownInvariant => MarkerHidesOlderCopies
    <2> SUFFICES ASSUME TakedownInvariant, history.imported < history.marked,
                        NEW m \in rows, m.part = "document", m.time = history.marked,
                        NEW r \in rows, r.part = "document", r.op = "upsert",
                        m.time <= r.time
                 PROVE  FALSE
      BY DEF MarkerHidesOlderCopies, LookupById, NewestUpserts
    <2>1. r.time <= history.imported BY DEF TakedownInvariant, CopiesAreDated
    <2>2. r.time \in Int /\ m.time \in Int /\ history.imported \in Int /\ history.marked \in Int
      BY DEF TakedownInvariant, TakedownTypeOK, IndexRow
    <2> QED BY <2>1, <2>2
  <1> QED BY <1>1, TakedownIsAPart, TakedownIsSound, PTL

(* TakenDownIsGone: after a takedown no other writer overlapped, storage,  *)
(* the export log and the index have nothing of the document any more.     *)
THEOREM StaysGone == ServiceSpec => []TakenDownIsGone
  <1>1. TakedownInvariant => TakenDownIsGone
    BY DEF TakedownInvariant, NoWayBack, TakenDownIsGone, CopiesAreDoomed
  <1> QED BY <1>1, TakedownIsAPart, TakedownIsSound, PTL
-----------------------------------------------------------------------------
(* The images of pages. A version that is being rendered is one that is    *)
(* there, and once it was found to have the page it has it; and after the  *)
(* markers nothing begins that could store an image but an import, so what *)
(* a takedown nothing overlapped has cleared stays clear.                  *)
AskerRow == [step: Answers \cup {"look_up", "fetch", "render", "put", "put_count"},
             page: PageNumbers, version: Versions]

VersionsExist ==
    /\ listedAs # 0 => latest # 0
    /\ prewarm.version # 0 => latest # 0
    /\ prewarm.step # "idle" => prewarm.version # 0
    /\ \A a \in PageAskers :
          /\ asker[a].step = "fetch" => latest # 0
          /\ asker[a].step \in {"render", "put", "put_count"} => asker[a].version # 0
          /\ asker[a].step \in {"put", "put_count"} =>
                asker[a].page <= lengths[asker[a].version]

ImagesExist == \A p \in PageNumbers : images[p] # 0 => p <= lengths[images[p]]

NothingRenders ==
    /\ clearing # "none" => listedAs = 0
    /\ clearing # "none" /\ overlapped = {} =>
          prewarm.step = "idle" /\ \A a \in PageAskers : ~Rendering(a)

ClearedSoFar ==
    overlapped = {} =>
        /\ clearing \in {"images_gone", "done"} => \A p \in PageNumbers : images[p] = 0
        /\ clearing = "done" => imageCount = 0

ImagesInvariant ==
    PageImagesTypeOK /\ VersionsExist /\ ImagesExist /\ NothingRenders /\ ClearedSoFar

LEMMA ImagesTypeStep ==
    ASSUME PageImagesTypeOK, VersionsExist, [PageImagesNext]_pageImagesVars
    PROVE  PageImagesTypeOK'
  <1> USE PageImagesAssumption DEF PageNumbers, Versions
  <1>a. asker \in [PageAskers -> AskerRow] BY DEF PageImagesTypeOK, AskerRow
  <1>n. /\ lengths \in [1 .. MaxVersion -> 1 .. DocPages]
        /\ \A v \in Versions : v # 0 => lengths[v] \in 1 .. DocPages
    BY DEF PageImagesTypeOK
  <1>g. ASSUME NEW a \in PageAskers, NEW s,
               s \in Answers \cup {"look_up", "fetch", "render", "put", "put_count"}
        PROVE  [asker EXCEPT ![a].step = s] \in [PageAskers -> AskerRow]
    <2>1. [asker[a] EXCEPT !.step = s] \in AskerRow BY <1>a, <1>g DEF AskerRow
    <2> QED BY <2>1, <1>a
  <1>p. ASSUME NEW s \in {"idle", "render", "put_count"}
        PROVE  [prewarm EXCEPT !.step = s] \in
                  [step: {"idle", "render", "put_count"}, version: Versions]
    BY DEF PageImagesTypeOK
  <1>1. CASE BeginPrewarm
    <2>1. latest + 1 \in 0 .. MaxVersion BY <1>1 DEF BeginPrewarm, PageImagesTypeOK
    <2>2. prewarm' \in [step: {"idle", "render", "put_count"}, version: Versions]
      BY <2>1, <1>1 DEF BeginPrewarm
    <2> QED BY <2>1, <2>2, <1>1 DEF BeginPrewarm, PageImagesTypeOK
  <1>2. CASE StoreThumbnail
    <2>1. 1 \in 1 .. DocPages /\ prewarm.version \in 0 .. MaxVersion
      BY DEF PageImagesTypeOK
    <2> QED BY <2>1, <1>2, <1>p DEF StoreThumbnail, documentVars, PageImagesTypeOK
  <1>3. CASE StoreThumbnailCount
    <2>1. prewarm.version \in Versions /\ prewarm.version # 0
      BY <1>3 DEF StoreThumbnailCount, VersionsExist, PageImagesTypeOK
    <2>2. imageCount' \in 0 .. DocPages BY <2>1, <1>3, <1>n DEF StoreThumbnailCount
    <2> QED BY <2>2, <1>3, <1>p DEF StoreThumbnailCount, documentVars, PageImagesTypeOK
  <1>4. CASE PrewarmFails BY <1>4, <1>p DEF PrewarmFails, documentVars, PageImagesTypeOK
  <1>5. CASE IndexVersion \/ ForgetPdf \/ ClearImages \/ ClearCount
    <2>1. 0 \in Versions /\ 0 \in 0 .. DocPages /\ prewarm.version \in Versions
      BY DEF PageImagesTypeOK
    <2>2. CASE IndexVersion BY <2>1, <2>2 DEF IndexVersion, PageImagesTypeOK
    <2>3. CASE ForgetPdf BY <2>1, <2>3 DEF ForgetPdf, documentVars, PageImagesTypeOK
    <2>5. CASE ClearImages
      <3>1. images' \in [PageNumbers -> Versions] BY <2>1, <2>5 DEF ClearImages
      <3> QED BY <3>1, <2>5 DEF ClearImages, documentVars, PageImagesTypeOK
    <2>4. CASE ClearCount
      BY <2>1, <2>4 DEF ClearCount, CountCleared, documentVars, PageImagesTypeOK
    <2> QED BY <1>5, <2>2, <2>3, <2>4, <2>5
  <1>6. CASE MarkDocument BY <1>6 DEF MarkDocument, PageImagesTypeOK
  <1>7. ASSUME NEW a \in PageAskers,
               \/ LookUpPdf(a) \/ RenderPage(a) \/ PageFails(a)
        PROVE  PageImagesTypeOK'
    <2>1. asker' \in [PageAskers -> AskerRow]
      <3>1. CASE LookUpPdf(a) BY <3>1, <1>g DEF LookUpPdf, Answers
      <3>2. CASE RenderPage(a) BY <3>2, <1>g DEF RenderPage, GoOnWith, Answers
      <3>3. CASE PageFails(a) BY <3>3, <1>g DEF PageFails, GoOnWith, Answers
      <3> QED BY <1>7, <3>1, <3>2, <3>3
    <2> QED BY <2>1, <1>7
            DEF LookUpPdf, RenderPage, PageFails, documentVars, PageImagesTypeOK, AskerRow
  <1>8. ASSUME NEW a \in PageAskers, FetchPdf(a) PROVE PageImagesTypeOK'
    <2>1. pdfInMemory' \in Versions BY <1>8 DEF FetchPdf, PageImagesTypeOK
    <2>2. [asker[a] EXCEPT !.step = "render", !.version = pdfInMemory'] \in AskerRow
      BY <2>1, <1>a DEF AskerRow
    <2>3. asker' \in [PageAskers -> AskerRow] BY <2>2, <1>8, <1>a DEF FetchPdf
    <2> QED BY <2>1, <2>3, <1>8 DEF FetchPdf, documentVars, PageImagesTypeOK, AskerRow
  <1>9. ASSUME NEW a \in PageAskers, StoreImage(a) PROVE PageImagesTypeOK'
    <2>1. asker[a].page \in PageNumbers /\ asker[a].version \in Versions
      BY <1>a DEF AskerRow
    <2>2. images' \in [PageNumbers -> Versions]
      BY <2>1, <1>9 DEF StoreImage, PageImagesTypeOK
    <2>3. asker' \in [PageAskers -> AskerRow] BY <1>9, <1>g DEF StoreImage, GoOnWith
    <2> QED BY <2>2, <2>3, <1>9 DEF StoreImage, documentVars, PageImagesTypeOK, AskerRow
  <1>10. ASSUME NEW a \in PageAskers, StoreImageCount(a) PROVE PageImagesTypeOK'
    <2>1. asker[a].version \in Versions /\ asker[a].version # 0
      BY <1>10, <1>a DEF StoreImageCount, VersionsExist, AskerRow
    <2>2. imageCount' \in 0 .. DocPages BY <2>1, <1>10, <1>n DEF StoreImageCount
    <2>3. asker' \in [PageAskers -> AskerRow]
      BY <1>10, <1>g DEF StoreImageCount, GoOnWith, Answers
    <2> QED BY <2>2, <2>3, <1>10 DEF StoreImageCount, documentVars, PageImagesTypeOK, AskerRow
  <1>11. ASSUME NEW a \in PageAskers, NEW page \in PageNumbers, AskPage(a, page)
         PROVE  PageImagesTypeOK'
    <2>1. images[page] \in Versions BY DEF PageImagesTypeOK
    <2>2. [page |-> page, version |-> images[page],
           step |-> IF images[page] # 0 THEN "given" ELSE "look_up"] \in AskerRow
      BY <2>1 DEF AskerRow, Answers
    <2>3. asker' \in [PageAskers -> AskerRow] BY <2>2, <1>11, <1>a DEF AskPage
    <2> QED BY <2>3, <1>11 DEF AskPage, documentVars, PageImagesTypeOK, AskerRow
  <1>12. CASE UNCHANGED pageImagesVars BY <1>12 DEF pageImagesVars, PageImagesTypeOK
  <1> QED BY <1>1, <1>2, <1>3, <1>4, <1>5, <1>6, <1>7, <1>8, <1>9, <1>10, <1>11, <1>12
          DEF PageImagesNext

(* What a request changes of itself, and nothing else of the requests.     *)
LEMMA RequestMoves ==
    ASSUME PageImagesTypeOK, NEW a \in PageAskers, NEW s, GoOnWith(a, s)
    PROVE  /\ \A b \in PageAskers : asker'[b].page = asker[b].page
                                    /\ asker'[b].version = asker[b].version
           /\ \A b \in PageAskers \ {a} : asker'[b].step = asker[b].step
           /\ asker'[a].step = s
  BY DEF GoOnWith, PageImagesTypeOK

LEMMA ImagesStep ==
    ASSUME ImagesInvariant, [PageImagesNext]_pageImagesVars
    PROVE  VersionsExist' /\ ImagesExist' /\ NothingRenders' /\ ClearedSoFar'
  <1> USE PageImagesAssumption DEF ImagesInvariant, PageNumbers
  <1>p. prewarm \in [step: {"idle", "render", "put_count"}, version: Versions]
    BY DEF PageImagesTypeOK
  <1>i. images \in [PageNumbers -> Versions] BY DEF PageImagesTypeOK
  <1>n. \A v \in Versions : v # 0 => lengths[v] \in 1 .. DocPages
    BY DEF PageImagesTypeOK, Versions
  <1>1. CASE BeginPrewarm
    <2>1. /\ latest' # 0 /\ prewarm'.version # 0
          /\ clearing # "none" => overlapped' # {}
          /\ overlapped' = {} => overlapped = {}
      BY <1>1 DEF BeginPrewarm, PageImagesTypeOK, Versions
    <2> QED BY <2>1, <1>1 DEF BeginPrewarm, VersionsExist, ImagesExist, NothingRenders,
                              ClearedSoFar
  <1>2. CASE StoreThumbnail
    <2>1. /\ prewarm'.version = prewarm.version /\ prewarm.version # 0
          /\ prewarm.step # "idle" /\ prewarm.version \in Versions
      BY <1>2, <1>p DEF StoreThumbnail, VersionsExist
    <2>2. 1 <= lengths[prewarm.version] BY <2>1, <1>n
    <2>3. ImagesExist' BY <2>2, <1>2, <1>i DEF StoreThumbnail, ImagesExist, documentVars
    <2> QED BY <2>1, <2>3, <1>2
            DEF StoreThumbnail, documentVars, VersionsExist, NothingRenders, ClearedSoFar
  <1>3. CASE StoreThumbnailCount
    <2>1. prewarm'.version = prewarm.version /\ prewarm.version # 0 /\ prewarm.step # "idle"
      BY <1>3, <1>p DEF StoreThumbnailCount, VersionsExist
    <2> QED BY <2>1, <1>3 DEF StoreThumbnailCount, documentVars, VersionsExist, ImagesExist,
                              NothingRenders, ClearedSoFar
  <1>4. CASE PrewarmFails
    <2>1. prewarm'.version = prewarm.version /\ prewarm'.step = "idle"
      BY <1>4, <1>p DEF PrewarmFails
    <2> QED BY <2>1, <1>4 DEF PrewarmFails, documentVars, VersionsExist, ImagesExist,
                              NothingRenders, ClearedSoFar, Rendering
  <1>5. CASE IndexVersion \/ ForgetPdf
    BY <1>5 DEF IndexVersion, ForgetPdf, documentVars, VersionsExist, ImagesExist,
                NothingRenders, ClearedSoFar, Rendering
  <1>6. CASE MarkDocument
    <2>1. /\ clearing' = "marked" /\ listedAs' = 0
          /\ overlapped' = {} => prewarm.step = "idle" /\ \A a \in PageAskers : ~Rendering(a)
      BY <1>6 DEF MarkDocument
    <2> QED BY <2>1, <1>6 DEF MarkDocument, VersionsExist, ImagesExist, NothingRenders,
                              ClearedSoFar, Rendering
  <1>7. CASE ClearImages
    BY <1>7 DEF ClearImages, documentVars, VersionsExist, ImagesExist, NothingRenders,
                ClearedSoFar, Rendering
  <1>8. CASE ClearCount
    BY <1>8 DEF ClearCount, CountCleared, documentVars, VersionsExist, ImagesExist,
                NothingRenders, ClearedSoFar, Rendering
  <1>9. ASSUME NEW a \in PageAskers, LookUpPdf(a)
        PROVE  VersionsExist' /\ ImagesExist' /\ NothingRenders' /\ ClearedSoFar'
    <2>1. GoOnWith(a, IF listedAs = 0 THEN "not_found" ELSE "fetch")
      BY <1>9 DEF LookUpPdf, GoOnWith
    <2> QED BY <2>1, <1>9, RequestMoves DEF LookUpPdf, documentVars, VersionsExist, ImagesExist,
                                            NothingRenders, ClearedSoFar, Rendering
  <1>10. ASSUME NEW a \in PageAskers, FetchPdf(a)
         PROVE  VersionsExist' /\ ImagesExist' /\ NothingRenders' /\ ClearedSoFar'
    <2>1. latest # 0 /\ pdfInMemory' # 0 BY <1>10 DEF FetchPdf, VersionsExist
    <2>2. /\ asker'[a].step = "render" /\ asker'[a].version = pdfInMemory'
          /\ \A b \in PageAskers \ {a} : asker'[b] = asker[b]
      BY <1>10 DEF FetchPdf, PageImagesTypeOK
    <2> QED BY <2>1, <2>2, <1>10 DEF FetchPdf, documentVars, VersionsExist, ImagesExist,
                                     NothingRenders, ClearedSoFar, Rendering
  <1>11. ASSUME NEW a \in PageAskers, RenderPage(a)
         PROVE  VersionsExist' /\ ImagesExist' /\ NothingRenders' /\ ClearedSoFar'
    <2>1. GoOnWith(a, IF HasPage(asker[a].page, asker[a].version) THEN "put" ELSE "no_page")
      BY <1>11 DEF RenderPage
    <2> QED BY <2>1, <1>11, RequestMoves
            DEF RenderPage, HasPage, documentVars, VersionsExist, ImagesExist,
                NothingRenders, ClearedSoFar, Rendering
  <1>12. ASSUME NEW a \in PageAskers, StoreImage(a)
         PROVE  VersionsExist' /\ ImagesExist' /\ NothingRenders' /\ ClearedSoFar'
    <2>1. GoOnWith(a, "put_count") /\ asker[a].step = "put" BY <1>12 DEF StoreImage
    <2>2. asker[a].page <= lengths[asker[a].version] /\ Rendering(a)
      BY <2>1 DEF VersionsExist, Rendering
    <2>3. ImagesExist' BY <2>2, <1>12, <1>i DEF StoreImage, ImagesExist, documentVars
    <2> QED BY <2>1, <2>2, <2>3, <1>12, RequestMoves
            DEF StoreImage, documentVars, VersionsExist, NothingRenders, ClearedSoFar, Rendering
  <1>13. ASSUME NEW a \in PageAskers, StoreImageCount(a)
         PROVE  VersionsExist' /\ ImagesExist' /\ NothingRenders' /\ ClearedSoFar'
    <2>1. GoOnWith(a, "given") /\ Rendering(a) BY <1>13 DEF StoreImageCount, Rendering
    <2> QED BY <2>1, <1>13, RequestMoves
            DEF StoreImageCount, documentVars, VersionsExist, ImagesExist, NothingRenders,
                ClearedSoFar, Rendering
  <1>14. ASSUME NEW a \in PageAskers, PageFails(a)
         PROVE  VersionsExist' /\ ImagesExist' /\ NothingRenders' /\ ClearedSoFar'
    <2>1. GoOnWith(a, "failed") BY <1>14 DEF PageFails
    <2> QED BY <2>1, <1>14, RequestMoves
            DEF PageFails, documentVars, VersionsExist, ImagesExist, NothingRenders,
                ClearedSoFar, Rendering
  <1>15. ASSUME NEW a \in PageAskers, NEW page \in PageNumbers, AskPage(a, page)
         PROVE  VersionsExist' /\ ImagesExist' /\ NothingRenders' /\ ClearedSoFar'
    <2>1. /\ asker'[a].step \in {"given", "look_up"}
          /\ \A b \in PageAskers \ {a} : asker'[b] = asker[b]
      BY <1>15 DEF AskPage, PageImagesTypeOK
    <2> QED BY <2>1, <1>15 DEF AskPage, documentVars, VersionsExist, ImagesExist,
                               NothingRenders, ClearedSoFar, Rendering
  <1>16. CASE UNCHANGED pageImagesVars
    BY <1>16 DEF pageImagesVars, VersionsExist, ImagesExist, NothingRenders, ClearedSoFar,
                 Rendering
  <1> QED BY <1>1, <1>2, <1>3, <1>4, <1>5, <1>6, <1>7, <1>8, <1>9, <1>10, <1>11, <1>12,
             <1>13, <1>14, <1>15, <1>16 DEF PageImagesNext

THEOREM ImagesAreSound == PageImagesSpec => []ImagesInvariant
  <1>1. PageImagesInit => ImagesInvariant
    <2> SUFFICES ASSUME PageImagesInit PROVE ImagesInvariant OBVIOUS
    <2>1. 0 \in Versions /\ 0 \in 0 .. DocPages /\ 1 \in PageNumbers
      BY PageImagesAssumption DEF Versions, PageNumbers
    <2>2. NotAsking \in AskerRow BY <2>1 DEF NotAsking, AskerRow, Answers
    <2>3. PageImagesTypeOK BY <2>1, <2>2 DEF PageImagesInit, PageImagesTypeOK, AskerRow
    <2> QED BY <2>3 DEF PageImagesInit, ImagesInvariant, VersionsExist, ImagesExist,
                        NothingRenders, ClearedSoFar, NotAsking, Rendering
  <1>2. ImagesInvariant /\ [PageImagesNext]_pageImagesVars => ImagesInvariant'
    BY ImagesTypeStep, ImagesStep DEF ImagesInvariant
  <1> QED BY <1>1, <1>2, PTL DEF PageImagesSpec

LEMMA ImagesAreAPart == ServiceSpec => PageImagesSpec
  <1>1. ServiceInit => PageImagesInit BY DEF ServiceInit
  <1>2. [ServiceNext]_serviceVars => [PageImagesNext]_pageImagesVars
    BY DEF ServiceNext, serviceVars, JobsStep, TakedownStep, PageStep,
           WindowStep, AdmissionStep, PageImagesStep, EntityDetailStep, PdfViewStep, PlayerStep
  <1> QED BY <1>1, <1>2, PTL DEF ServiceSpec, PageImagesSpec

(* NothingTakenDownIsLeft: of the document, and of the images of its pages. *)
THEOREM NothingIsLeft == ServiceSpec => []NothingTakenDownIsLeft
  <1>1. ImagesInvariant => ImagesFollowTheDocument
    BY DEF ImagesInvariant, ImagesExist, ClearedSoFar, ImagesFollowTheDocument
  <1>2. TakenDownIsGone /\ ImagesFollowTheDocument => NothingTakenDownIsLeft
    BY DEF NothingTakenDownIsLeft
  <1> QED BY <1>1, <1>2, StaysGone, ImagesAreAPart, ImagesAreSound, PTL
-----------------------------------------------------------------------------
(* The page of an entity. While a request is under way what is there now   *)
(* is among what was there since it began, what is not there now among     *)
(* what was gone, and what has more rows than are asked for among what     *)
(* had; so whatever a step reads, or fails to find, is accounted for, and  *)
(* changes of the world only add to the histories.                         *)
WorldRemembered ==
    reply.asked # "none" =>
        /\ There \subseteq wasThere
        /\ (Entities \cup Texts) \ There \subseteq wasGone
        /\ Indexed \subseteq hadRows
        /\ Overfull(reply.asked) \subseteq hadMore

ShownWasThere ==
    /\ reply.shown \ (hadMore \cup {"agenda"}) \subseteq wasThere
    /\ reply.shown \cap Entities \subseteq hadRows

Excused == wasGone \cup hadMore
Accounted(part) == part \in reply.shown \cup reply.failed \cup Excused
AgendaTold == "agenda" \notin reply.shown => ~reply.own

RepliesOfMeeting ==
    /\ reply.step = "agenda" => reply.asked = "meeting" /\ reply.shown = {"meeting"}
    /\ reply.step = "motions" =>
          /\ reply.asked = "meeting" /\ AgendaTold
          /\ "meeting" \in reply.shown /\ reply.shown \subseteq {"meeting", "agenda"}
    /\ reply.step = "attachments" =>
          /\ reply.asked = "meeting" /\ AgendaTold
          /\ {"meeting", "motion"} \subseteq reply.shown
          /\ reply.shown \subseteq {"meeting", "agenda", "motion"}
    /\ reply.step \in {"recordings", "transcripts"} =>
          /\ reply.asked = "meeting" /\ AgendaTold
          /\ "meeting" \in reply.shown /\ Accounted("motion")
          /\ "motion" \in reply.shown => Accounted("document")
    /\ reply.step = "recordings" =>
          reply.shown \subseteq {"meeting", "agenda", "motion", "document"}
    /\ reply.step = "transcripts" => "recording" \in reply.shown

RepliesOfOthers ==
    /\ reply.step = "read" =>
          reply.asked \in Entities /\ reply.shown = {} /\ reply.failed = {}
    /\ reply.step = "attachment" => reply.asked = "motion" /\ reply.shown = {"motion"}
    /\ reply.step = "text" => reply.asked \in {"document", "motion"} \cap reply.shown

RepliesEnded ==
    /\ reply.step \in {"end", "answered"} =>
          /\ reply.asked \in Entities
          /\ PartsOf(reply.asked) \subseteq reply.shown \cup reply.failed \cup Excused
          /\ reply.asked = "meeting" => AgendaTold
    /\ reply.step \in {"not_found", "gone"} => reply.asked \in Excused

DetailInvariant ==
    /\ EntityDetailTypeOK /\ WorldRemembered /\ ShownWasThere
    /\ RepliesOfMeeting /\ RepliesOfOthers /\ RepliesEnded

ReplyRow ==
    [asked: Entities \cup {"none"},
     step: DetailEnded \cup MeetingSteps \cup {"text", "attachment", "end"},
     own: BOOLEAN, shown: SUBSET Parts, failed: SUBSET Parts]

(* What a read finds of an entity has live rows; and when it asks for as   *)
(* many rows as there are, it finds the entity if and only if it is there. *)
LEMMA FoundIsThere ==
    ASSUME EntityDetailTypeOK, NEW e \in Entities, NEW read \in Reads,
           NEW hits \in RowsFound(e, read)
    PROVE  /\ Found(e, hits) => e \in Indexed
           /\ InFullAnswer(e, read) => (Found(e, hits) <=> e \in There)
  <1>1. copies[e] \in Seq(BOOLEAN) /\ hits \subseteq DOMAIN copies[e]
    BY DEF EntityDetailTypeOK, RowsFound
  <1>2. Found(e, hits) => e \in Indexed BY <1>1 DEF Found, Indexed
  <1>3. ASSUME InFullAnswer(e, read) PROVE Found(e, hits) <=> Newest(e)
    <2>1. hits = 1 .. Len(copies[e]) /\ Len(copies[e]) \in Nat
      BY <1>1, <1>3 DEF RowsFound
    <2>2. ASSUME Found(e, hits) PROVE Newest(e)
      <3>1. PICK i \in hits : copies[e][i] /\ \A j \in hits : j <= i BY <2>2 DEF Found
      <3>2. i = Len(copies[e]) /\ copies[e] # <<>> BY <2>1, <3>1
      <3> QED BY <3>1, <3>2 DEF Newest
    <2>3. ASSUME Newest(e) PROVE Found(e, hits)
      <3>1. Len(copies[e]) \in hits /\ \A j \in hits : j <= Len(copies[e])
        BY <1>1, <2>1, <2>3 DEF Newest
      <3> QED BY <3>1, <2>3 DEF Found, Newest
    <2> QED BY <2>2, <2>3
  <1>4. Newest(e) <=> e \in There BY DEF There, EntityDetailTypeOK, Entities, Texts
  <1> QED BY <1>2, <1>3, <1>4

LEMMA ReadFinds ==
    ASSUME DetailInvariant, reply.asked # "none", NEW e \in Entities,
           NEW read \in Reads, read = ReadOf(reply.asked, e),
           NEW hits \in RowsFound(e, read)
    PROVE  /\ Found(e, hits) =>
                  e \in Indexed /\ e \in There \cup Overfull(reply.asked)
           /\ ~Found(e, hits) => e \in Excused
  <1>1. EntityDetailTypeOK /\ WorldRemembered BY DEF DetailInvariant
  <1>2. /\ Found(e, hits) => e \in Indexed
        /\ InFullAnswer(e, read) => (Found(e, hits) <=> e \in There)
    BY <1>1, FoundIsThere
  <1>3. ~InFullAnswer(e, read) => e \in Overfull(reply.asked) BY DEF Overfull
  <1> QED BY <1>1, <1>2, <1>3 DEF WorldRemembered, Excused

LEMMA TextsAreThere ==
    \A t \in Texts : t \notin Entities /\ (t \in objectsKept <=> t \in There)
  BY DEF Texts, Entities, There

LEMMA ReadsAre ==
    /\ \A e \in Entities : ReadOf(e, e) = "entity"
    /\ ReadOf("motion", "document") = "entity"
    /\ ReadOf("meeting", "motion") = "motions"
    /\ ReadOf("meeting", "document") = "attachments"
    /\ ReadOf("meeting", "recording") = "recordings"
    /\ Reads = {"motions", "attachments", "recordings", "entity"}
  BY DEF ReadOf, Reads, Lists, Entities

(* The changes of the world.                                               *)
WorldChanges ==
    \/ TakeDownDocument \/ PurgeAll \/ ImportAnother
    \/ \E e \in Entities : ImportEntity(e)

LEMMA WorldStep ==
    ASSUME DetailInvariant, WorldChanges
    PROVE  DetailInvariant'
  <1> USE DEF DetailInvariant
  <1>1. Remember /\ UNCHANGED reply
    BY DEF WorldChanges, TakeDownDocument, PurgeAll, ImportEntity, ImportAnother
  <1>2. /\ wasThere \subseteq wasThere' /\ wasGone \subseteq wasGone'
        /\ hadRows \subseteq hadRows' /\ hadMore \subseteq hadMore'
    BY <1>1 DEF Remember
  <1>b. beside' \in 0 .. MaxOthers
    <2>1. CASE ImportAnother
      BY <2>1, EntityDetailAssumption DEF ImportAnother, EntityDetailTypeOK
    <2>2. CASE PurgeAll BY <2>2, EntityDetailAssumption DEF PurgeAll
    <2>3. CASE UNCHANGED beside BY <2>3 DEF EntityDetailTypeOK
    <2> QED BY <2>1, <2>2, <2>3 DEF WorldChanges, TakeDownDocument, ImportEntity
  <1>3. copies' \in [Entities -> Seq(BOOLEAN)] /\ objectsKept' \subseteq Texts
    <2>1. CASE TakeDownDocument
      <3>1. copies["document"] \in Seq(BOOLEAN) BY DEF EntityDetailTypeOK, Entities
      <3>2. Append(copies["document"], FALSE) \in Seq(BOOLEAN) BY <3>1
      <3> QED BY <2>1, <3>2 DEF TakeDownDocument, EntityDetailTypeOK
    <2>2. CASE PurgeAll BY <2>2 DEF PurgeAll
    <2>3. ASSUME NEW e \in Entities, ImportEntity(e)
          PROVE  copies' \in [Entities -> Seq(BOOLEAN)] /\ objectsKept' \subseteq Texts
      <3>1. Append(copies[e], TRUE) \in Seq(BOOLEAN) BY DEF EntityDetailTypeOK
      <3>2. copies' \in [Entities -> Seq(BOOLEAN)]
        BY <2>3, <3>1 DEF ImportEntity, EntityDetailTypeOK
      <3>3. objectsKept' \subseteq Texts
        BY <2>3 DEF ImportEntity, EntityDetailTypeOK, Texts
      <3> QED BY <3>2, <3>3
    <2>4. CASE ImportAnother BY <2>4 DEF ImportAnother, EntityDetailTypeOK
    <2> QED BY <2>1, <2>2, <2>3, <2>4 DEF WorldChanges
  <1>4. \A e \in Entities : Len(copies'[e]) <= MaxIndexRows
    <2>0. \A e \in Entities : Len(copies[e]) \in Nat /\ Len(copies[e]) <= MaxIndexRows
      BY DEF EntityDetailTypeOK
    <2>1. CASE TakeDownDocument
      <3>1. copies' = [copies EXCEPT !["document"] = Append(@, FALSE)]
            /\ Len(copies["document"]) < MaxIndexRows /\ "document" \in Entities
        BY <2>1 DEF TakeDownDocument, Entities
      <3>2. Len(Append(copies["document"], FALSE)) = Len(copies["document"]) + 1
        BY <3>1 DEF EntityDetailTypeOK
      <3> QED BY <2>0, <3>1, <3>2, EntityDetailAssumption DEF EntityDetailTypeOK
    <2>2. CASE PurgeAll BY <2>2, EntityDetailAssumption DEF PurgeAll
    <2>3. ASSUME NEW e \in Entities, ImportEntity(e)
          PROVE  \A f \in Entities : Len(copies'[f]) <= MaxIndexRows
      <3>1. copies' = [copies EXCEPT ![e] = Append(@, TRUE)]
            /\ Len(copies[e]) < MaxIndexRows
        BY <2>0, <2>3, EntityDetailAssumption DEF ImportEntity
      <3>2. Len(Append(copies[e], TRUE)) = Len(copies[e]) + 1 BY DEF EntityDetailTypeOK
      <3> QED BY <2>0, <3>1, <3>2, EntityDetailAssumption DEF EntityDetailTypeOK
    <2>4. CASE ImportAnother BY <2>0, <2>4 DEF ImportAnother
    <2> QED BY <2>1, <2>2, <2>3, <2>4 DEF WorldChanges
  <1>5. /\ There' \subseteq Entities \cup Texts /\ Indexed' \subseteq Entities
        /\ Overfull(reply.asked)' \subseteq Entities
    BY <1>3 DEF There, Indexed, Overfull
  <1>6. EntityDetailTypeOK'
    BY <1>1, <1>3, <1>4, <1>5, <1>b DEF EntityDetailTypeOK, Remember
  <1>7. WorldRemembered' BY <1>1 DEF WorldRemembered, Remember
  <1>8. ShownWasThere' /\ RepliesOfMeeting' /\ RepliesOfOthers'
    BY <1>1, <1>2 DEF ShownWasThere, RepliesOfMeeting, RepliesOfOthers, Accounted, AgendaTold,
                       Excused
  <1>9. RepliesEnded'
    BY <1>1, <1>2 DEF RepliesEnded, AgendaTold, PartsOf, ShownIf, Excused
  <1> QED BY <1>6, <1>7, <1>8, <1>9

(* A step of the request leaves the world and the histories as they are.   *)
LEMMA ReplyStep ==
    ASSUME DetailInvariant, UNCHANGED <<worldVars, historyVars>>, reply' \in ReplyRow,
           reply.asked # "none", reply'.asked = reply.asked,
           \A p \in reply'.shown \ (reply.shown \cup {"agenda"}) :
              /\ p \in There \cup Overfull(reply.asked)
              /\ p \in Entities => p \in Indexed
    PROVE  EntityDetailTypeOK' /\ WorldRemembered' /\ ShownWasThere'
  <1> USE DEF DetailInvariant, worldVars, historyVars
  <1>1. EntityDetailTypeOK' BY DEF EntityDetailTypeOK, ReplyRow
  <1>2. WorldRemembered'
    BY DEF WorldRemembered, There, Newest, Indexed, Overfull, InFullAnswer, Others, ReadOf
  <1>3. ShownWasThere' BY DEF ShownWasThere, WorldRemembered, Entities
  <1> QED BY <1>1, <1>2, <1>3

LEMMA RequestStep ==
    ASSUME DetailInvariant,
           \/ ReadEntity \/ ReadAttachment \/ ReadText \/ ReadMotions \/ ReadRecordings
           \/ \E b \in BOOLEAN : ReadAttachments(b) \/ ReadTranscript(b)
           \/ \E own, answered \in BOOLEAN : ReadAgenda(own, answered)
           \/ AnswerDetail \/ DetailRequestFails
    PROVE  DetailInvariant'
  <1> USE DEF DetailInvariant
  <1>r. reply \in ReplyRow BY DEF EntityDetailTypeOK, ReplyRow
  <1>w. UNCHANGED <<worldVars, historyVars>>
    BY DEF ReadEntity, ReadAttachment, ReadText, ReadMotions, ReadRecordings, ReadAgenda,
           ReadAttachments, ReadTranscript, AnswerDetail, DetailRequestFails
  <1>g. ASSUME NEW there \in BOOLEAN, NEW p PROVE ShownIf(p, there) \subseteq {p}
    BY DEF ShownIf
  <1>a. reply.asked \in Entities
    BY DEF RepliesOfMeeting, RepliesOfOthers, RepliesEnded, Entities, ReadEntity, ReadAttachment,
           ReadText, ReadMotions, ReadRecordings, ReadAgenda, ReadAttachments, ReadTranscript,
           AnswerDetail, DetailRequestFails
  <1>b. reply.asked # "none" BY <1>a DEF Entities
  <1>h. ASSUME ShownWasThere', EntityDetailTypeOK', WorldRemembered',
               RepliesOfMeeting', RepliesOfOthers', RepliesEnded'
        PROVE  DetailInvariant'
    BY <1>h
  <1>1. CASE ReadEntity
    <2>0. PICK hits \in RowsFound(reply.asked, "entity") :
             IF Found(reply.asked, hits)
             THEN Show({reply.asked}, CASE reply.asked = "document" -> "text"
                                         [] reply.asked = "meeting" -> "agenda"
                                         [] reply.asked = "motion" -> "attachment"
                                         [] OTHER -> "end")
             ELSE NothingFound
      BY <1>1 DEF ReadEntity
    <2>f. /\ Found(reply.asked, hits) =>
                 /\ reply.asked \in Indexed
                 /\ reply.asked \in There \cup Overfull(reply.asked)
          /\ ~Found(reply.asked, hits) => reply.asked \in Excused
      BY <1>a, <1>b, ReadsAre, ReadFinds
    <2>1. CASE Found(reply.asked, hits)
      <3> DEFINE next == CASE reply.asked = "document" -> "text"
                           [] reply.asked = "meeting" -> "agenda"
                           [] reply.asked = "motion" -> "attachment"
                           [] OTHER -> "end"
      <3>1. reply' = [reply EXCEPT !.shown = @ \cup {reply.asked}, !.step = next]
        BY <2>0, <2>1 DEF Show
      <3>2. next \in {"text", "agenda", "attachment", "end"} /\ reply.shown = {}
        BY <1>1 DEF RepliesOfOthers, ReadEntity
      <3>3. /\ reply'.shown = {reply.asked} /\ reply'.step = next /\ reply'.asked = reply.asked
            /\ reply'.failed = reply.failed /\ reply'.own = reply.own
        BY <3>1, <3>2, <1>r DEF ReplyRow
      <3>4. reply' \in ReplyRow
        BY <3>1, <3>2, <1>r, <1>a DEF ReplyRow, MeetingSteps, Parts
      <3>5. EntityDetailTypeOK' /\ WorldRemembered' /\ ShownWasThere'
        BY <3>3, <3>4, <2>1, <2>f, <1>w, <1>a, <1>b, ReplyStep
      <3>6. RepliesOfMeeting' /\ RepliesOfOthers'
        BY <3>2, <3>3, <1>a DEF RepliesOfMeeting, RepliesOfOthers, Entities
      <3>7. RepliesEnded' BY <3>2, <3>3, <1>a DEF RepliesEnded, PartsOf, Entities
      <3> QED BY <3>5, <3>6, <3>7
    <2>2. CASE ~Found(reply.asked, hits)
      <3>1. PICK s \in {"gone", "not_found"} : reply' = [reply EXCEPT !.step = s]
        BY <2>0, <2>2 DEF NothingFound, GoTo
      <3>2. /\ reply'.step = s /\ reply'.asked = reply.asked /\ reply'.shown = reply.shown
            /\ reply' \in ReplyRow
        BY <3>1, <1>r DEF ReplyRow, DetailEnded
      <3>3. EntityDetailTypeOK' /\ WorldRemembered' /\ ShownWasThere'
        BY <3>2, <1>w, <1>b, ReplyStep
      <3>4. reply.asked \in Excused BY <2>2, <2>f
      <3>5. RepliesOfMeeting' /\ RepliesOfOthers' /\ RepliesEnded'
        BY <3>2, <3>4, <1>w DEF RepliesOfMeeting, RepliesOfOthers, RepliesEnded, Excused,
                                historyVars
      <3> QED BY <3>3, <3>5
    <2> QED BY <2>1, <2>2
  <1>2. CASE ReadAttachment
    <2>0. PICK hits \in RowsFound("document", "entity") :
             reply' = [reply EXCEPT
                !.shown = @ \cup ShownIf("document", Found("document", hits)),
                !.step = IF Found("document", hits) THEN "text" ELSE "end"]
      BY <1>2 DEF ReadAttachment, Show
    <2> DEFINE met == Found("document", hits)
    <2>a. reply.asked = "motion"
      BY <1>2 DEF RepliesOfMeeting, RepliesOfOthers, ReadAttachment
    <2>f. /\ met => "document" \in Indexed /\ "document" \in There \cup Overfull(reply.asked)
          /\ ~met => "document" \in Excused
      BY <2>a, <1>b, ReadsAre, ReadFinds DEF Entities
    <2>g. met \in BOOLEAN BY DEF Found
    <2> HIDE DEF met
    <2> DEFINE s == IF met THEN "text" ELSE "end"
    <2>1. reply' = [reply EXCEPT !.shown = @ \cup ShownIf("document", met), !.step = s]
      BY <2>0 DEF met
    <2>2. /\ reply'.shown = {"motion"} \cup ShownIf("document", met)
          /\ reply'.step = s /\ reply'.asked = "motion" /\ reply.asked = "motion"
          /\ reply.shown = {"motion"}
      BY <2>1, <1>2, <1>r DEF ReplyRow, RepliesOfOthers, ReadAttachment
    <2>3. reply' \in ReplyRow BY <2>1, <1>r DEF ReplyRow, ShownIf, Parts, Entities
    <2>4. EntityDetailTypeOK' /\ WorldRemembered' /\ ShownWasThere'
      BY <2>2, <2>3, <2>f, <1>w, <1>b, ReplyStep DEF ShownIf, Entities
    <2>5. RepliesOfMeeting' /\ RepliesOfOthers' /\ RepliesEnded'
      BY <2>2 DEF RepliesOfMeeting, RepliesOfOthers, RepliesEnded, PartsOf, ShownIf, Entities
    <2> QED BY <2>4, <2>5
  <1>3. CASE ReadText
    <2>1. reply' = [reply EXCEPT !.shown = @ \cup ShownIf("text", "text" \in objectsKept),
                                 !.step = "end"]
      BY <1>3 DEF ReadText, Show
    <2>2. /\ reply'.shown = reply.shown \cup ShownIf("text", "text" \in objectsKept)
          /\ reply'.step = "end" /\ reply'.asked = reply.asked
          /\ reply.asked \in {"document", "motion"} \cap reply.shown
      BY <2>1, <1>3, <1>r DEF ReplyRow, RepliesOfOthers, ReadText
    <2>3. reply' \in ReplyRow BY <2>1, <1>r DEF ReplyRow, ShownIf, Parts, Texts
    <2>4. EntityDetailTypeOK' /\ WorldRemembered' /\ ShownWasThere'
      BY <2>2, <2>3, <1>w, <1>b, ReplyStep, TextsAreThere DEF ShownIf, Texts
    <2>5. "text" \in objectsKept \/ "text" \in Excused
      BY <1>b, TextsAreThere DEF WorldRemembered, Texts, Excused
    <2>6. RepliesOfMeeting' /\ RepliesOfOthers'
      BY <2>2 DEF RepliesOfMeeting, RepliesOfOthers
    <2>7. RepliesEnded'
      BY <2>2, <2>5, <1>w DEF RepliesEnded, PartsOf, ShownIf, Entities, historyVars, Excused
    <2> QED BY <2>4, <2>6, <2>7
  <1>4. ASSUME NEW own \in BOOLEAN, NEW b \in BOOLEAN, ReadAgenda(own, b) PROVE DetailInvariant'
    <2> DEFINE add == ShownIf("agenda", own \/ b)
    <2>1. reply' = [reply EXCEPT !.step = "motions", !.own = own,
                       !.shown = @ \cup add,
                       !.failed = @ \cup ShownIf("agenda", ~own /\ ~b)]
      BY <1>4 DEF ReadAgenda
    <2>2. /\ reply'.shown = {"meeting"} \cup add /\ reply.shown = {"meeting"}
          /\ reply'.step = "motions" /\ reply'.asked = reply.asked /\ reply.asked = "meeting"
          /\ reply'.own = own
      BY <2>1, <1>4, <1>r DEF ReplyRow, RepliesOfMeeting, ReadAgenda
    <2>3. reply' \in ReplyRow
      BY <2>1, <1>r DEF ReplyRow, ShownIf, Parts, MeetingSteps, EntityDetailTypeOK
    <2>4. EntityDetailTypeOK' /\ WorldRemembered' /\ ShownWasThere'
      BY <2>2, <2>3, <1>w, <1>b, ReplyStep DEF ShownIf
    <2>5. RepliesOfMeeting' /\ RepliesOfOthers' /\ RepliesEnded'
      BY <2>2 DEF RepliesOfMeeting, RepliesOfOthers, RepliesEnded, AgendaTold, ShownIf
    <2> QED BY <2>4, <2>5
  <1>5. CASE ReadMotions
    <2>0. PICK hits \in RowsFound("motion", "motions") :
             reply' = [reply EXCEPT
                !.shown = @ \cup ShownIf("motion", Found("motion", hits)),
                !.step = IF Found("motion", hits) THEN "attachments" ELSE "recordings"]
      BY <1>5 DEF ReadMotions, Show
    <2> DEFINE met == Found("motion", hits)
    <2>a. reply.asked = "meeting"
      BY <1>5 DEF RepliesOfMeeting, RepliesOfOthers, ReadMotions
    <2>f. /\ met => "motion" \in Indexed /\ "motion" \in There \cup Overfull(reply.asked)
          /\ ~met => "motion" \in Excused
      BY <2>a, <1>b, ReadsAre, ReadFinds DEF Entities
    <2>g. met \in BOOLEAN BY DEF Found
    <2> HIDE DEF met
    <2> DEFINE s == IF met THEN "attachments" ELSE "recordings"
    <2>1. reply' = [reply EXCEPT !.shown = @ \cup ShownIf("motion", met), !.step = s]
      BY <2>0 DEF met
    <2>2. /\ reply'.shown = reply.shown \cup ShownIf("motion", met)
          /\ reply'.step = s /\ reply'.asked = "meeting" /\ reply.asked = "meeting"
          /\ reply'.own = reply.own /\ reply'.failed = reply.failed
          /\ reply.shown \subseteq {"meeting", "agenda"} /\ "meeting" \in reply.shown /\ AgendaTold
      BY <2>1, <1>5, <1>r DEF ReplyRow, RepliesOfMeeting, ReadMotions
    <2>3. reply' \in ReplyRow
      BY <2>1, <1>r DEF ReplyRow, ShownIf, Parts, Entities, MeetingSteps
    <2>4. EntityDetailTypeOK' /\ WorldRemembered' /\ ShownWasThere'
      BY <2>2, <2>3, <2>f, <1>w, <1>b, ReplyStep DEF ShownIf, Entities
    <2>5. met \/ "motion" \in Excused BY <2>f
    <2>6. RepliesOfMeeting'
      BY <2>2, <2>5, <1>w DEF RepliesOfMeeting, AgendaTold, Accounted, ShownIf, historyVars, Excused
    <2>7. RepliesOfOthers' /\ RepliesEnded' BY <2>2 DEF RepliesOfOthers, RepliesEnded
    <2> QED BY <2>4, <2>6, <2>7
  <1>6. ASSUME NEW b \in BOOLEAN, ReadAttachments(b) PROVE DetailInvariant'
    <2>0. PICK hits \in RowsFound("document", "attachments") :
             reply' = [reply EXCEPT
                !.step = "recordings",
                !.shown = @ \cup ShownIf("document", ~b /\ Found("document", hits)),
                !.failed = @ \cup ShownIf("document", b)]
      BY <1>6 DEF ReadAttachments, Show
    <2> DEFINE met == Found("document", hits)
    <2>a. reply.asked = "meeting"
      BY <1>6 DEF RepliesOfMeeting, RepliesOfOthers, ReadAttachments
    <2>f. /\ met => "document" \in Indexed /\ "document" \in There \cup Overfull(reply.asked)
          /\ ~met => "document" \in Excused
      BY <2>a, <1>b, ReadsAre, ReadFinds DEF Entities
    <2>g. met \in BOOLEAN BY DEF Found
    <2> HIDE DEF met
    <2> DEFINE add == ShownIf("document", ~b /\ met)
    <2>1. reply' = [reply EXCEPT !.step = "recordings", !.shown = @ \cup add,
                                 !.failed = @ \cup ShownIf("document", b)]
      BY <2>0 DEF met
    <2>2. /\ reply'.shown = reply.shown \cup add
          /\ reply'.failed = reply.failed \cup ShownIf("document", b)
          /\ reply'.step = "recordings" /\ reply'.asked = "meeting" /\ reply.asked = "meeting"
          /\ reply'.own = reply.own
          /\ reply.shown \subseteq {"meeting", "agenda", "motion"}
          /\ {"meeting", "motion"} \subseteq reply.shown /\ AgendaTold
      BY <2>1, <1>6, <1>r DEF ReplyRow, RepliesOfMeeting, ReadAttachments
    <2>3. reply' \in ReplyRow
      BY <2>1, <1>r DEF ReplyRow, ShownIf, Parts, Entities, MeetingSteps
    <2>4. EntityDetailTypeOK' /\ WorldRemembered' /\ ShownWasThere'
      BY <2>2, <2>3, <2>f, <1>w, <1>b, ReplyStep DEF ShownIf, Entities
    <2>5. met \/ "document" \in Excused BY <2>f
    <2>6. "document" \in reply'.shown \cup reply'.failed \cup Excused
      BY <2>2, <2>5 DEF ShownIf
    <2>7. RepliesOfMeeting'
      BY <2>2, <2>6, <1>w DEF RepliesOfMeeting, AgendaTold, Accounted, ShownIf, historyVars, Excused
    <2>8. RepliesOfOthers' /\ RepliesEnded' BY <2>2 DEF RepliesOfOthers, RepliesEnded
    <2> QED BY <2>4, <2>7, <2>8
  <1>7. CASE ReadRecordings
    <2>0. PICK hits \in RowsFound("recording", "recordings") :
             reply' = [reply EXCEPT
                !.shown = @ \cup ShownIf("recording", Found("recording", hits)),
                !.step = IF Found("recording", hits) THEN "transcripts" ELSE "end"]
      BY <1>7 DEF ReadRecordings, Show
    <2> DEFINE met == Found("recording", hits)
    <2>a. reply.asked = "meeting"
      BY <1>7 DEF RepliesOfMeeting, RepliesOfOthers, ReadRecordings
    <2>f. /\ met => "recording" \in Indexed /\ "recording" \in There \cup Overfull(reply.asked)
          /\ ~met => "recording" \in Excused
      BY <2>a, <1>b, ReadsAre, ReadFinds DEF Entities
    <2>g. met \in BOOLEAN BY DEF Found
    <2> HIDE DEF met
    <2> DEFINE s == IF met THEN "transcripts" ELSE "end"
    <2>1. reply' = [reply EXCEPT !.shown = @ \cup ShownIf("recording", met), !.step = s]
      BY <2>0 DEF met
    <2>2. /\ reply'.shown = reply.shown \cup ShownIf("recording", met)
          /\ reply'.step = s /\ reply'.asked = "meeting" /\ reply.asked = "meeting"
          /\ reply'.own = reply.own /\ reply'.failed = reply.failed
          /\ reply.shown \subseteq {"meeting", "agenda", "motion", "document"}
          /\ "meeting" \in reply.shown /\ AgendaTold /\ Accounted("motion")
          /\ ("motion" \in reply.shown => Accounted("document"))
      BY <2>1, <1>7, <1>r DEF ReplyRow, RepliesOfMeeting, ReadRecordings
    <2>3. reply' \in ReplyRow
      BY <2>1, <1>r DEF ReplyRow, ShownIf, Parts, Entities, MeetingSteps
    <2>4. EntityDetailTypeOK' /\ WorldRemembered' /\ ShownWasThere'
      BY <2>2, <2>3, <2>f, <1>w, <1>b, ReplyStep DEF ShownIf, Entities
    <2>5. met \/ "recording" \in Excused BY <2>f
    <2>6. RepliesOfMeeting'
      BY <2>2, <1>w DEF RepliesOfMeeting, AgendaTold, Accounted, ShownIf, historyVars, Excused
    <2>7. RepliesOfOthers' BY <2>2 DEF RepliesOfOthers
    <2>8. RepliesEnded'
      BY <2>2, <2>5, <1>w DEF RepliesEnded, PartsOf, AgendaTold, Accounted, ShownIf, Entities,
                              historyVars, Excused
    <2> QED BY <2>4, <2>6, <2>7, <2>8
  <1>8. ASSUME NEW b \in BOOLEAN, ReadTranscript(b) PROVE DetailInvariant'
    <2> DEFINE add == ShownIf("transcript", TranscriptRead(b))
    <2>1. reply' = [reply EXCEPT !.step = "end", !.shown = @ \cup add,
                                 !.failed = @ \cup ShownIf("transcript", ~b)]
      BY <1>8 DEF ReadTranscript
    <2>2. /\ reply'.shown = reply.shown \cup add
          /\ reply'.failed = reply.failed \cup ShownIf("transcript", ~b)
          /\ reply'.step = "end" /\ reply'.asked = "meeting" /\ reply.asked = "meeting"
          /\ reply'.own = reply.own /\ {"meeting", "recording"} \subseteq reply.shown
          /\ AgendaTold /\ Accounted("motion")
          /\ ("motion" \in reply.shown => Accounted("document"))
      BY <2>1, <1>8, <1>r DEF ReplyRow, RepliesOfMeeting, ReadTranscript
    <2>3. reply' \in ReplyRow BY <2>1, <1>r DEF ReplyRow, ShownIf, Parts, Texts
    <2>4. EntityDetailTypeOK' /\ WorldRemembered' /\ ShownWasThere'
      BY <2>2, <2>3, <1>w, <1>b, ReplyStep, TextsAreThere DEF ShownIf, Texts, TranscriptRead
    <2>5. "transcript" \in objectsKept \/ "transcript" \in Excused
      BY <1>b, TextsAreThere DEF WorldRemembered, Texts, Excused
    <2>6. "transcript" \in reply'.shown \cup reply'.failed \cup Excused
      BY <2>2, <2>5 DEF ShownIf, TranscriptRead
    <2>7. RepliesOfMeeting' /\ RepliesOfOthers'
      BY <2>2 DEF RepliesOfMeeting, RepliesOfOthers
    <2>8. RepliesEnded'
      BY <2>2, <2>6, <1>w DEF RepliesEnded, PartsOf, AgendaTold, Accounted, ShownIf, Entities,
                              historyVars, Excused
    <2> QED BY <2>4, <2>7, <2>8
  <1>9. CASE AnswerDetail \/ DetailRequestFails
    <2>1. PICK s \in {"answered", "failed"} :
             reply' = [reply EXCEPT !.step = s] /\ (s = "answered" => reply.step = "end")
      BY <1>9 DEF AnswerDetail, DetailRequestFails, GoTo
    <2>2. /\ reply'.step = s /\ reply'.asked = reply.asked /\ reply'.shown = reply.shown
          /\ reply'.failed = reply.failed /\ reply'.own = reply.own /\ reply' \in ReplyRow
      BY <2>1, <1>r DEF ReplyRow, DetailEnded
    <2>3. EntityDetailTypeOK' /\ WorldRemembered' /\ ShownWasThere'
      BY <2>2, <1>w, <1>b, ReplyStep
    <2>4. RepliesOfMeeting' /\ RepliesOfOthers'
      BY <2>2 DEF RepliesOfMeeting, RepliesOfOthers
    <2>5. RepliesEnded'
      BY <2>1, <2>2, <1>w DEF RepliesEnded, PartsOf, AgendaTold, ShownIf, historyVars, Excused
    <2> QED BY <2>3, <2>4, <2>5
  <1> QED BY <1>1, <1>2, <1>3, <1>4, <1>5, <1>6, <1>7, <1>8, <1>9

LEMMA AskStep ==
    ASSUME DetailInvariant, NEW e \in Entities, AskDetail(e)
    PROVE  DetailInvariant'
  <1> USE DEF DetailInvariant
  <1>1. Unasked \in ReplyRow BY DEF Unasked, ReplyRow, DetailEnded, Parts
  <1>2. Unasked.shown = {} /\ Unasked.failed = {} BY DEF Unasked
  <1>3. /\ reply' \in ReplyRow /\ reply'.asked = e /\ reply'.step = "read"
        /\ reply'.shown = {} /\ reply'.failed = {}
    BY <1>1, <1>2 DEF AskDetail, ReplyRow, MeetingSteps
  <1>4. /\ There \subseteq Entities \cup Texts /\ Indexed \subseteq Entities
        /\ Overfull(e) \subseteq Entities
    BY DEF There, Indexed, Overfull, EntityDetailTypeOK
  <1>w. There' = There /\ Indexed' = Indexed /\ Overfull(e)' = Overfull(e)
    BY DEF AskDetail, worldVars, There, Newest, Indexed, Overfull, InFullAnswer, Others, ReadOf
  <1>5. EntityDetailTypeOK'
    BY <1>3, <1>4 DEF AskDetail, EntityDetailTypeOK, ReplyRow, worldVars
  <1>6. WorldRemembered' /\ ShownWasThere'
    BY <1>3, <1>w DEF AskDetail, WorldRemembered, ShownWasThere
  <1>7. RepliesOfMeeting' /\ RepliesOfOthers' /\ RepliesEnded'
    BY <1>3 DEF RepliesOfMeeting, RepliesOfOthers, RepliesEnded
  <1> QED BY <1>5, <1>6, <1>7

THEOREM DetailIsSound == EntityDetailSpec => []DetailInvariant
  <1>1. EntityDetailInit => DetailInvariant
    <2> SUFFICES ASSUME EntityDetailInit PROVE DetailInvariant OBVIOUS
    <2>1. Unasked \in ReplyRow BY DEF Unasked, ReplyRow, DetailEnded, Parts
    <2>2. Unasked.shown = {} /\ Unasked.asked = "none" /\ Unasked.step = "idle"
      BY DEF Unasked
    <2>3. copies \in [Entities -> Seq(BOOLEAN)] /\ \A e \in Entities : Len(copies[e]) = 1
      BY DEF EntityDetailInit
    <2>4. EntityDetailTypeOK
      BY <2>1, <2>3, EntityDetailAssumption DEF EntityDetailInit, EntityDetailTypeOK, ReplyRow
    <2>5. RepliesOfMeeting /\ RepliesOfOthers /\ RepliesEnded
      BY <2>2 DEF EntityDetailInit, RepliesOfMeeting, RepliesOfOthers, RepliesEnded
    <2> QED BY <2>2, <2>4, <2>5 DEF EntityDetailInit, DetailInvariant, WorldRemembered,
                                    ShownWasThere
  <1>2. DetailInvariant /\ [EntityDetailNext]_entityDetailVars => DetailInvariant'
    <2> SUFFICES ASSUME DetailInvariant, [EntityDetailNext]_entityDetailVars
                 PROVE  DetailInvariant'
      OBVIOUS
    <2>1. CASE UNCHANGED entityDetailVars
      BY <2>1 DEF entityDetailVars, DetailInvariant, EntityDetailTypeOK, WorldRemembered,
                  ShownWasThere, RepliesOfMeeting, RepliesOfOthers, RepliesEnded, Accounted,
                  AgendaTold, PartsOf, Excused, There, Newest, Indexed, Overfull,
                  InFullAnswer, Others, ReadOf, worldVars, historyVars
    <2> QED BY <2>1, WorldStep, RequestStep, AskStep DEF EntityDetailNext, WorldChanges
  <1> QED BY <1>1, <1>2, PTL DEF EntityDetailSpec

LEMMA DetailIsAPart == ServiceSpec => EntityDetailSpec
  <1>1. ServiceInit => EntityDetailInit BY DEF ServiceInit
  <1>2. [ServiceNext]_serviceVars => [EntityDetailNext]_entityDetailVars
    BY DEF ServiceNext, serviceVars, JobsStep, TakedownStep, PageStep,
           WindowStep, AdmissionStep, PageImagesStep, EntityDetailStep, PdfViewStep, PlayerStep
  <1> QED BY <1>1, <1>2, PTL DEF ServiceSpec, EntityDetailSpec

(* DetailIsTrue: the page of an entity shows nothing that was never there  *)
(* and leaves nothing out that was there all the while, but for what had   *)
(* more rows than are asked for; and nothing without a live row is shown.  *)
THEOREM PagesAreTrue == ServiceSpec => []DetailIsTrue
  <1>1. DetailInvariant => DetailIsTrue
    BY DEF DetailInvariant, DetailIsTrue, RepliesEnded, ShownWasThere, AgendaTold, Excused
  <1> QED BY <1>1, DetailIsAPart, DetailIsSound, PTL
-----------------------------------------------------------------------------
(* Admission. The sum is defined by recursion over the sets of clients, so *)
(* what it says of larger sets is shown by a least set for which it would  *)
(* not hold.                                                               *)
LEMMA LeastNumber ==
    ASSUME NEW B \in SUBSET Nat, B # {}
    PROVE  \E n \in B : \A m \in B : n <= m
  <1>1. IsWellFoundedOn(OpToRel(<, Nat), Nat) BY NatLessThanWellFounded
  <1>2. PICK n \in B : \A m \in B : ~(<<m, n>> \in OpToRel(<, Nat)) BY <1>1, WFMin
  <1>3. \A m \in B : ~(m < n) BY <1>2 DEF OpToRel
  <1> QED BY <1>3

Summed(f, count, S) ==
    IF S = {} THEN 0 ELSE LET c == CHOOSE c \in S : TRUE IN count[c] + f[S \ {c}]
SumsOf(f, count, C) == f = [S \in SUBSET C |-> Summed(f, count, S)]

Changed(more, count, x, d) == x \in Clients /\ more = [count EXCEPT ![x] = @ + d]

IsSum(f, count) ==
    SumsOf(f, count, Clients) /\ f \in [SUBSET Clients -> Int] /\ count \in [Clients -> Int]

LEMMA TotalIsASum ==
    ASSUME NEW count
    PROVE  Total(count) = (CHOOSE f : SumsOf(f, count, Clients))[Clients]
  BY DEF Total, SumsOf, Summed

(* A finite set without the one that is taken is smaller.                  *)
LEMMA OneTaken ==
    ASSUME NEW C, IsFiniteSet(C), NEW S \in SUBSET C, S # {}
    PROVE  LET c == CHOOSE c \in S : TRUE
           IN  /\ c \in S /\ S \ {c} \in SUBSET C
               /\ Cardinality(S) \in Nat /\ Cardinality(S \ {c}) \in Nat
               /\ Cardinality(S \ {c}) = Cardinality(S) - 1
  <1> DEFINE c == CHOOSE c \in S : TRUE
  <1>1. c \in S OBVIOUS
  <1>2. IsFiniteSet(S) /\ IsFiniteSet(S \ {c}) BY FS_Subset
  <1> HIDE DEF c
  <1>3. Cardinality(S) \in Nat /\ Cardinality(S \ {c}) \in Nat
    BY <1>2, FS_CardinalityType
  <1>4. Cardinality(S \ {c}) = Cardinality(S) - 1 BY <1>1, <1>2, FS_RemoveElement
  <1> QED BY <1>1, <1>3, <1>4 DEF c

(* The recursion defines a function.                                       *)
LEMMA SumsExist ==
    ASSUME NEW C, IsFiniteSet(C), NEW count \in [C -> Int]
    PROVE  \E f \in [SUBSET C -> Int] : SumsOf(f, count, C)
  <1> DEFINE UpTo(n) == \E f \in [SUBSET C -> Int] : \A S \in SUBSET C :
                           Cardinality(S) <= n => f[S] = Summed(f, count, S)
             Bad == { n \in Nat : ~UpTo(n) }
  <1>0. \A S \in SUBSET C : Cardinality(S) \in Nat /\ IsFiniteSet(S)
    BY FS_Subset, FS_CardinalityType
  <1>1. UpTo(0)
    <2> DEFINE f == [S \in SUBSET C |-> 0]
    <2>1. ASSUME NEW S \in SUBSET C, Cardinality(S) <= 0
          PROVE  f[S] = Summed(f, count, S)
      <3>1. S = {} BY <1>0, <2>1, FS_EmptySet
      <3> QED BY <3>1 DEF Summed
    <2>2. f \in [SUBSET C -> Int] OBVIOUS
    <2> QED BY <2>1, <2>2
  <1>2. ASSUME NEW n \in Nat, UpTo(n) PROVE UpTo(n + 1)
    <2>1. PICK f \in [SUBSET C -> Int] : \A S \in SUBSET C :
             Cardinality(S) <= n => f[S] = Summed(f, count, S)
      BY <1>2
    <2> DEFINE g == [S \in SUBSET C |->
                        IF Cardinality(S) <= n THEN f[S] ELSE Summed(f, count, S)]
    <2>2. ASSUME NEW S \in SUBSET C PROVE Summed(f, count, S) \in Int
      <3>1. CASE S = {} BY <3>1 DEF Summed
      <3>2. CASE S # {}
        <4> DEFINE c == CHOOSE c \in S : TRUE
        <4>1. c \in C /\ S \ {c} \in SUBSET C BY <3>2, OneTaken
        <4>2. Summed(f, count, S) = count[c] + f[S \ {c}] BY <3>2 DEF Summed
        <4> QED BY <4>1, <4>2
      <3> QED BY <3>1, <3>2
    <2>3. g \in [SUBSET C -> Int] BY <2>2
    <2>4. ASSUME NEW S \in SUBSET C, Cardinality(S) <= n + 1
          PROVE  g[S] = Summed(g, count, S)
      <3>1. CASE S = {}
        <4>1. Cardinality(S) <= n BY <3>1, FS_EmptySet
        <4> QED BY <3>1, <4>1, <2>1 DEF Summed
      <3>2. CASE S # {}
        <4> DEFINE c == CHOOSE c \in S : TRUE
        <4>1. /\ S \ {c} \in SUBSET C /\ Cardinality(S) \in Nat
              /\ Cardinality(S \ {c}) \in Nat /\ Cardinality(S \ {c}) = Cardinality(S) - 1
          BY <3>2, OneTaken
        <4>2. Cardinality(S \ {c}) <= n BY <4>1, <2>4
        <4>3. g[S \ {c}] = f[S \ {c}] BY <4>1, <4>2
        <4>4. Summed(g, count, S) = count[c] + g[S \ {c}]
              /\ Summed(f, count, S) = count[c] + f[S \ {c}]
          BY <3>2 DEF Summed
        <4>5. g[S] = Summed(f, count, S)
          <5>1. CASE Cardinality(S) <= n BY <5>1, <2>1
          <5>2. CASE ~(Cardinality(S) <= n) BY <5>2
          <5> QED BY <5>1, <5>2
        <4> QED BY <4>3, <4>4, <4>5
      <3> QED BY <3>1, <3>2
    <2> QED BY <2>3, <2>4
  <1>3. \A n \in Nat : UpTo(n)
    <2> SUFFICES ASSUME Bad # {} PROVE FALSE OBVIOUS
    <2>1. PICK n \in Bad : \A m \in Bad : n <= m BY LeastNumber
    <2>2. n \in Nat /\ ~UpTo(n) BY <2>1
    <2>3. n # 0 BY <2>2, <1>1
    <2>4. n - 1 \in Nat /\ ~(n <= n - 1) BY <2>2, <2>3
    <2>5. UpTo(n - 1)
      <3>1. n - 1 \notin Bad
        <4> HIDE DEF Bad
        <4> QED BY <2>1, <2>4
      <3> QED BY <3>1, <2>4
    <2> HIDE DEF UpTo
    <2>6. UpTo((n - 1) + 1) BY <2>4, <2>5, <1>2
    <2>7. (n - 1) + 1 = n BY <2>2
    <2> QED BY <2>2, <2>6, <2>7
  <1>4. PICK f \in [SUBSET C -> Int] : \A S \in SUBSET C :
           Cardinality(S) <= Cardinality(C) => f[S] = Summed(f, count, S)
    BY <1>0, <1>3
  <1>5. \A S \in SUBSET C : Cardinality(S) <= Cardinality(C) BY FS_Subset
  <1>6. f = [S \in SUBSET C |-> Summed(f, count, S)] BY <1>4, <1>5
  <1> QED BY <1>4, <1>6 DEF SumsOf

(* No counts, no sum; one more of one client, one more in every sum over   *)
(* sets it is in.                                                          *)
LEMMA SumsChange ==
    ASSUME IsFiniteSet(Clients), NEW count, NEW d \in Int, NEW x, NEW more,
           Changed(more, count, x, d), NEW f, IsSum(f, count), NEW g, SumsOf(g, more, Clients)
    PROVE  g[Clients] = f[Clients] + d
  <1> DEFINE Right(S) == g[S] = f[S] + IF x \in S THEN d ELSE 0
             Bad == { Cardinality(S) : S \in { T \in SUBSET Clients : ~Right(T) } }
  <1> USE DEF IsSum
  <1>0. \A S \in SUBSET Clients : Cardinality(S) \in Nat
    BY FS_Subset, FS_CardinalityType
  <1>1. \A S \in SUBSET Clients : Right(S)
    <2> SUFFICES ASSUME Bad # {} PROVE FALSE OBVIOUS
    <2>0. Bad \in SUBSET Nat BY <1>0
    <2>1. PICK n \in Bad : \A m \in Bad : n <= m
      <3> HIDE DEF Bad
      <3> QED BY <2>0, LeastNumber
    <2>2. PICK S \in SUBSET Clients : ~Right(S) /\ Cardinality(S) = n BY <2>1
    <2>3. f[S] = Summed(f, count, S) /\ g[S] = Summed(g, more, S) BY DEF SumsOf
    <2>4. S # {} BY <2>2, <2>3 DEF Summed
    <2> DEFINE c == CHOOSE c \in S : TRUE
    <2>5. /\ c \in S /\ S \ {c} \in SUBSET Clients
          /\ Cardinality(S) \in Nat /\ Cardinality(S \ {c}) = Cardinality(S) - 1
      BY <2>4, OneTaken
    <2>6. f[S] = count[c] + f[S \ {c}] /\ g[S] = more[c] + g[S \ {c}]
      BY <2>3, <2>4 DEF Summed
    <2> HIDE DEF c
    <2>7. Right(S \ {c})
      <3> SUFFICES ASSUME ~Right(S \ {c}) PROVE FALSE OBVIOUS
      <3>1. Cardinality(S \ {c}) \in Bad BY <2>5
      <3> HIDE DEF Bad
      <3>2. n <= Cardinality(S \ {c}) BY <3>1, <2>1
      <3> QED BY <3>2, <2>2, <2>5
    <2>8. c \in Clients /\ f[S \ {c}] \in Int /\ count[c] \in Int BY <2>5
    <2>9. CASE c = x
      <3>1. more[c] = count[c] + d /\ x \notin S \ {c} /\ x \in S
        BY <2>9, <2>5, <2>8 DEF Changed
      <3> QED BY <3>1, <2>2, <2>6, <2>7, <2>8
    <2>10. CASE c # x
      <3>1. more[c] = count[c] /\ (x \in S \ {c} <=> x \in S) BY <2>10, <2>8 DEF Changed
      <3> QED BY <3>1, <2>2, <2>6, <2>7, <2>8
    <2> QED BY <2>9, <2>10
  <1> QED BY <1>1 DEF Changed

LEMMA SumsOfNothing ==
    ASSUME IsFiniteSet(Clients), NEW f, SumsOf(f, [c \in Clients |-> 0], Clients)
    PROVE  f[Clients] = 0
  <1> DEFINE Bad == { Cardinality(S) : S \in { T \in SUBSET Clients : f[T] # 0 } }
             none == [c \in Clients |-> 0]
  <1>0. \A S \in SUBSET Clients : Cardinality(S) \in Nat
    BY FS_Subset, FS_CardinalityType
  <1>1. \A S \in SUBSET Clients : f[S] = 0
    <2> SUFFICES ASSUME Bad # {} PROVE FALSE OBVIOUS
    <2>0. Bad \in SUBSET Nat BY <1>0
    <2>1. PICK n \in Bad : \A m \in Bad : n <= m
      <3> HIDE DEF Bad
      <3> QED BY <2>0, LeastNumber
    <2>2. PICK S \in SUBSET Clients : f[S] # 0 /\ Cardinality(S) = n BY <2>1
    <2>3. f[S] = Summed(f, none, S) BY DEF SumsOf
    <2>4. S # {} BY <2>2, <2>3 DEF Summed
    <2> DEFINE c == CHOOSE c \in S : TRUE
    <2>5. /\ c \in S /\ S \ {c} \in SUBSET Clients
          /\ Cardinality(S) \in Nat /\ Cardinality(S \ {c}) = Cardinality(S) - 1
      BY <2>4, OneTaken
    <2>6. f[S] = none[c] + f[S \ {c}] BY <2>3, <2>4 DEF Summed
    <2> HIDE DEF c
    <2>7. f[S \ {c}] = 0
      <3> SUFFICES ASSUME f[S \ {c}] # 0 PROVE FALSE OBVIOUS
      <3>1. Cardinality(S \ {c}) \in Bad BY <2>5
      <3> HIDE DEF Bad
      <3>2. n <= Cardinality(S \ {c}) BY <3>1, <2>1
      <3> QED BY <3>2, <2>2, <2>5
    <2>8. none[c] = 0 BY <2>5
    <2> QED BY <2>2, <2>6, <2>7, <2>8
  <1> QED BY <1>1

(* So the total of no counts is none, and one more of one client is one    *)
(* more in all.                                                            *)
LEMMA TotalOfNothing == IsFiniteSet(Clients) => Total([c \in Clients |-> 0]) = 0
  <1> SUFFICES ASSUME IsFiniteSet(Clients) PROVE Total([c \in Clients |-> 0]) = 0
    OBVIOUS
  <1> DEFINE none == [c \in Clients |-> 0]
             f == CHOOSE f : SumsOf(f, none, Clients)
  <1>1. none \in [Clients -> Int] OBVIOUS
  <1>2. SumsOf(f, none, Clients) BY <1>1, SumsExist
  <1>3. f[Clients] = 0 BY <1>2, SumsOfNothing
  <1> QED BY <1>3, TotalIsASum

LEMMA TotalChanges ==
    ASSUME IsFiniteSet(Clients), NEW count \in [Clients -> Int], NEW d \in Int, NEW x \in Clients
    PROVE  /\ Total(count) \in Int
           /\ Total([count EXCEPT ![x] = @ + d]) = Total(count) + d
  <1> DEFINE more == [count EXCEPT ![x] = @ + d]
             f == CHOOSE f : SumsOf(f, count, Clients)
             g == CHOOSE g : SumsOf(g, more, Clients)
  <1>1. more \in [Clients -> Int] OBVIOUS
  <1>2. PICK h \in [SUBSET Clients -> Int] : IsSum(h, count) BY SumsExist DEF IsSum
  <1>3. SumsOf(f, count, Clients) /\ Changed(count, count, x, 0)
    BY <1>2 DEF IsSum, Changed
  <1>4. SumsOf(g, more, Clients) /\ Changed(more, count, x, d)
    BY <1>1, SumsExist DEF Changed
  <1> HIDE DEF f, g, more
  <1>5. f[Clients] = h[Clients] + 0 BY <1>2, <1>3, 0 \in Int, SumsChange
  <1>6. g[Clients] = h[Clients] + d BY <1>2, <1>4, SumsChange
  <1>7. Total(count) = f[Clients] /\ Total(more) = g[Clients] BY TotalIsASum DEF f, g
  <1>8. h[Clients] \in Int BY <1>2
  <1>9. Total(more) = Total(count) + d /\ Total(count) \in Int BY <1>5, <1>6, <1>7, <1>8
  <1> QED BY <1>9 DEF more

LEMMA TotalFollows ==
    ASSUME IsFiniteSet(Clients), NEW count, count \in [Clients -> Int], NEW d \in Int,
           NEW x, NEW more, Changed(more, count, x, d)
    PROVE  Total(count) \in Int /\ Total(more) = Total(count) + d
  <1>1. x \in Clients /\ more = [count EXCEPT ![x] = @ + d] BY DEF Changed
  <1>2. /\ Total(count) \in Int
        /\ Total([count EXCEPT ![x] = @ + d]) = Total(count) + d
    BY <1>1, TotalChanges
  <1> QED BY <1>1, <1>2
-----------------------------------------------------------------------------
(* A bucket holds at any time what one that is never dropped would: its    *)
(* tokens, and one for each tick since they were counted; one that is not  *)
(* tracked would be full.                                                  *)
BucketRow == [tokens: Int, updatedAt: Int]

BucketsAreRows ==
    /\ time \in Nat /\ lastSweep \in Int
    /\ DOMAIN buckets \subseteq Clients
    /\ \A c \in DOMAIN buckets :
          /\ buckets[c] \in BucketRow
          /\ buckets[c].tokens >= 0 /\ buckets[c].updatedAt <= time
    /\ refill \in [Clients -> Int]

Filled(c) == AtMostFull(buckets[c].tokens + (time - buckets[c].updatedAt))

TokensAreTracked ==
    \A c \in Clients :
       /\ c \in DOMAIN buckets => refill[c] = Filled(c)
       /\ c \notin DOMAIN buckets => refill[c] = Capacity

SlotsAreCounted ==
    /\ searches \in [Clients -> Int]
    /\ running = Total(searches)
    /\ running <= Slots

AdmissionInvariant == BucketsAreRows /\ TokensAreTracked /\ SlotsAreCounted

LEMMA TokensAreExact ==
    ASSUME BucketsAreRows, TokensAreTracked, NEW c \in Clients
    PROVE  Tokens(c) = refill[c] /\ refill[c] \in 0 .. Capacity
  <1> USE AdmissionAssumption
  <1>1. CASE c \in DOMAIN buckets
    <2>1. /\ buckets[c].tokens \in Int /\ buckets[c].tokens >= 0
          /\ buckets[c].updatedAt \in Int /\ buckets[c].updatedAt <= time /\ time \in Int
      BY <1>1 DEF BucketsAreRows, BucketRow
    <2>2. refill[c] = Filled(c) BY <1>1 DEF TokensAreTracked
    <2>3. Filled(c) \in 0 .. Capacity BY <2>1 DEF Filled, AtMostFull
    <2>4. CASE c \in Kept BY <2>2, <2>3, <2>4 DEF Tokens, Filled
    <2>5. CASE c \notin Kept
      <3>1. Idle(c) BY <1>1, <2>5 DEF Kept
      <3>2. Filled(c) = Capacity BY <2>1, <3>1 DEF Idle, Filled, AtMostFull
      <3> QED BY <2>2, <2>3, <2>5, <3>2 DEF Tokens
    <2> QED BY <2>4, <2>5
  <1>2. CASE c \notin DOMAIN buckets
    <2>1. c \notin Kept BY <1>2 DEF Kept
    <2> QED BY <1>2, <2>1 DEF Tokens, TokensAreTracked
  <1> QED BY <1>1, <1>2

LEMMA ConsumeTracks ==
    ASSUME BucketsAreRows, TokensAreTracked, NEW client \in Clients, NEW cost \in Nat,
           NEW allowed \in BOOLEAN, Consume(client, cost, allowed)
    PROVE  BucketsAreRows' /\ TokensAreTracked'
  <1> USE AdmissionAssumption
  <1> DEFINE paid == IF allowed THEN cost ELSE 0
  <1>1. Tokens(client) = refill[client] /\ refill[client] \in 0 .. Capacity
    BY TokensAreExact
  <1>2. (allowed => Tokens(client) >= cost) /\ (~allowed => ~(Tokens(client) >= cost))
    <2>1. allowed = (Tokens(client) >= cost) BY DEF Consume
    <2> QED BY <2>1, Zenon
  <1>3. paid \in Nat /\ paid <= Tokens(client)
        /\ paid = IF refill[client] >= cost THEN cost ELSE 0
    <2>1. CASE allowed BY <2>1, <1>1, <1>2
    <2>2. CASE ~allowed BY <2>2, <1>1, <1>2
    <2> QED BY <2>1, <2>2
  <1>4. Kept \subseteq DOMAIN buckets BY DEF Kept
  <1>5. /\ DOMAIN buckets' = Kept \cup {client}
        /\ \A c \in Kept \ {client} : buckets'[c] = buckets[c]
        /\ buckets'[client] = [tokens |-> Tokens(client) - paid, updatedAt |-> time]
    BY DEF Consume
  <1>6. /\ time' = time /\ lastSweep' \in Int
        /\ refill' \in [Clients -> Int]
        /\ refill'[client] = refill[client] - paid
        /\ \A c \in Clients \ {client} : refill'[c] = refill[c]
    BY <1>1, <1>3 DEF Consume, BucketsAreRows
  <1> HIDE DEF paid
  <1>7. BucketsAreRows'
    <2>1. ASSUME NEW c \in DOMAIN buckets'
          PROVE  /\ buckets'[c] \in BucketRow
                 /\ buckets'[c].tokens >= 0 /\ buckets'[c].updatedAt <= time'
      <3>1. CASE c = client
        BY <3>1, <1>1, <1>3, <1>5, <1>6 DEF BucketsAreRows, BucketRow
      <3>2. CASE c # client BY <3>2, <2>1, <1>4, <1>5, <1>6 DEF BucketsAreRows
      <3> QED BY <3>1, <3>2
    <2> QED BY <2>1, <1>4, <1>5, <1>6 DEF BucketsAreRows
  <1>8. TokensAreTracked'
    <2> SUFFICES ASSUME NEW c \in Clients
                 PROVE  /\ c \in DOMAIN buckets' => refill'[c] = Filled(c)'
                        /\ c \notin DOMAIN buckets' => refill'[c] = Capacity
      BY DEF TokensAreTracked
    <2>1. CASE c = client
      <3>1. Filled(c)' = AtMostFull((Tokens(client) - paid) + (time - time))
        BY <2>1, <1>5, <1>6 DEF Filled, AtMostFull
      <3>2. time \in Int BY DEF BucketsAreRows
      <3>3. Filled(c)' = Tokens(client) - paid BY <3>1, <3>2, <1>1, <1>3 DEF AtMostFull
      <3> QED BY <2>1, <3>3, <1>1, <1>5, <1>6
    <2>2. CASE c # client /\ c \in Kept
      BY <2>2, <1>4, <1>5, <1>6 DEF TokensAreTracked, Filled, AtMostFull
    <2>3. CASE c # client /\ c \notin Kept
      <3>1. refill[c] = Capacity BY <2>3, TokensAreExact DEF Tokens
      <3> QED BY <2>3, <3>1, <1>5, <1>6
    <2> QED BY <2>1, <2>2, <2>3
  <1> QED BY <1>7, <1>8

LEMMA AdmissionKeeps == AdmissionInvariant /\ [AdmissionNext]_admissionVars => AdmissionInvariant'
  <1> SUFFICES ASSUME AdmissionInvariant, [AdmissionNext]_admissionVars
               PROVE  AdmissionInvariant'
    OBVIOUS
  <1> USE AdmissionAssumption DEF AdmissionInvariant
  <1>1. CASE Tick
    <2>1. BucketsAreRows'
      <3>1. time' \in Nat /\ time <= time' /\ lastSweep' \in Int /\ time' = time + 1
        BY <1>1 DEF Tick, BucketsAreRows
      <3>2. \A c \in Clients : AtMostFull(refill[c] + 1) \in Int
        BY DEF BucketsAreRows, AtMostFull
      <3>3. refill' \in [Clients -> Int] BY <1>1, <3>2 DEF Tick
      <3>4. ASSUME NEW c \in DOMAIN buckets'
            PROVE  /\ buckets'[c] \in BucketRow
                   /\ buckets'[c].tokens >= 0 /\ buckets'[c].updatedAt <= time'
        <4>1. buckets' = buckets BY <1>1 DEF Tick
        <4>2. /\ buckets[c] \in BucketRow /\ time \in Int
              /\ buckets[c].tokens >= 0 /\ buckets[c].updatedAt <= time
          BY <4>1 DEF BucketsAreRows
        <4> QED BY <3>1, <4>1, <4>2 DEF BucketRow
      <3>5. DOMAIN buckets' \subseteq Clients BY <1>1 DEF Tick, BucketsAreRows
      <3> QED BY <3>1, <3>3, <3>4, <3>5 DEF BucketsAreRows
    <2>2. TokensAreTracked'
      <3> SUFFICES ASSUME NEW c \in Clients
                   PROVE  /\ c \in DOMAIN buckets' => refill'[c] = Filled(c)'
                          /\ c \notin DOMAIN buckets' => refill'[c] = Capacity
        BY DEF TokensAreTracked
      <3>1. refill'[c] = AtMostFull(refill[c] + 1) /\ buckets' = buckets /\ time' = time + 1
        BY <1>1 DEF Tick
      <3>2. CASE c \in DOMAIN buckets
        <4>1. /\ buckets[c].tokens \in Int /\ buckets[c].updatedAt \in Int /\ time \in Int
              /\ refill[c] = Filled(c)
          BY <3>2 DEF BucketsAreRows, BucketRow, TokensAreTracked
        <4>2. Filled(c)' = AtMostFull(buckets[c].tokens + ((time + 1) - buckets[c].updatedAt))
          BY <3>1 DEF Filled, AtMostFull
        <4> QED BY <3>1, <3>2, <4>1, <4>2 DEF Filled, AtMostFull
      <3>3. CASE c \notin DOMAIN buckets BY <3>1, <3>3 DEF TokensAreTracked, AtMostFull
      <3> QED BY <3>2, <3>3
    <2> QED BY <2>1, <2>2, <1>1 DEF Tick, SlotsAreCounted
  <1>2. CASE Request
    <2>1. PICK client \in Clients, allowed \in BOOLEAN :
             Consume(client, 1, allowed) /\ UNCHANGED <<searches, running>>
      BY <1>2 DEF Request
    <2>2. BucketsAreRows' /\ TokensAreTracked' BY <2>1, 1 \in Nat, ConsumeTracks
    <2> QED BY <2>1, <2>2 DEF SlotsAreCounted
  <1>3. CASE PhraseSearch
    <2>1. PICK client \in Clients, allowed \in BOOLEAN :
             /\ Consume(client, PhraseCost, allowed)
             /\ IF allowed /\ running < Slots
                THEN /\ searches' = [searches EXCEPT ![client] = @ + 1]
                     /\ running' = running + 1
                ELSE UNCHANGED <<searches, running>>
      BY <1>3 DEF PhraseSearch
    <2>2. BucketsAreRows' /\ TokensAreTracked'
      <3>1. PhraseCost \in Nat OBVIOUS
      <3> QED BY <2>1, <3>1, ConsumeTracks
    <2>3. CASE allowed /\ running < Slots
      <3>1. searches' = [searches EXCEPT ![client] = @ + 1] /\ running' = running + 1
        BY <2>1, <2>3
      <3>2. /\ Total(searches) \in Int
            /\ Total(searches') = Total(searches) + 1
        <4>1. Changed(searches', searches, client, 1) /\ searches \in [Clients -> Int]
          BY <3>1 DEF Changed, SlotsAreCounted
        <4> QED BY <4>1, 1 \in Int, TotalFollows
      <3>3. searches' \in [Clients -> Int] BY <3>1 DEF SlotsAreCounted
      <3> QED BY <2>2, <2>3, <3>1, <3>2, <3>3 DEF SlotsAreCounted
    <2>4. CASE ~(allowed /\ running < Slots) BY <2>1, <2>2, <2>4 DEF SlotsAreCounted
    <2> QED BY <2>3, <2>4
  <1>4. CASE PhraseSearchEnds
    <2>1. PICK client \in Clients, outcome \in {"answered", "timeout", "failed"} :
             /\ searches' = [searches EXCEPT ![client] = @ - 1]
             /\ running' = IF Releases(outcome) THEN running - 1 ELSE running
             /\ UNCHANGED <<time, buckets, lastSweep, refill>>
      BY <1>4 DEF PhraseSearchEnds
    <2>2. running' = running - 1 BY <2>1 DEF Releases
    <2>3. searches' \in [Clients -> Int] BY <2>1 DEF SlotsAreCounted
    <2>4. /\ Total(searches) \in Int
          /\ Total(searches') = Total(searches) + (0 - 1)
      <3>1. searches[client] \in Int BY DEF SlotsAreCounted
      <3>2. searches[client] - 1 = searches[client] + (0 - 1) BY <3>1
      <3>3. Changed(searches', searches, client, 0 - 1) /\ searches \in [Clients -> Int]
        BY <2>1, <3>2 DEF Changed, SlotsAreCounted
      <3>4. 0 - 1 \in Int OBVIOUS
      <3> QED BY <3>3, <3>4, TotalFollows
    <2>5. SlotsAreCounted' BY <2>2, <2>3, <2>4 DEF SlotsAreCounted
    <2>6. BucketsAreRows' /\ TokensAreTracked'
      BY <2>1 DEF BucketsAreRows, TokensAreTracked, Filled, AtMostFull
    <2> QED BY <2>5, <2>6
  <1>5. CASE UNCHANGED admissionVars
    BY <1>5 DEF admissionVars, BucketsAreRows, TokensAreTracked, SlotsAreCounted, Filled,
                AtMostFull
  <1> QED BY <1>1, <1>2, <1>3, <1>4, <1>5 DEF AdmissionNext

(* What admits requests: the buckets as if they filled all the time, the   *)
(* slots as many as the searches under way, and never more than there are. *)
THEOREM AdmissionIsSound == AdmissionSpec => []AdmissionInvariant
  <1>1. AdmissionInit => AdmissionInvariant
    <2> SUFFICES ASSUME AdmissionInit PROVE AdmissionInvariant OBVIOUS
    <2>1. BucketsAreRows /\ TokensAreTracked
      BY AdmissionAssumption DEF AdmissionInit, BucketsAreRows, TokensAreTracked
    <2>2. SlotsAreCounted
      BY AdmissionAssumption, TotalOfNothing DEF AdmissionInit, SlotsAreCounted
    <2> QED BY <2>1, <2>2 DEF AdmissionInvariant
  <1>2. AdmissionInvariant /\ [AdmissionNext]_admissionVars => AdmissionInvariant'
    BY AdmissionKeeps
  <1> QED BY <1>1, <1>2, PTL DEF AdmissionSpec

LEMMA AdmissionIsAPart == ServiceSpec => AdmissionSpec
  <1>1. ServiceInit => AdmissionInit BY DEF ServiceInit
  <1>2. [ServiceNext]_serviceVars => [AdmissionNext]_admissionVars
    BY DEF ServiceNext, serviceVars, JobsStep, TakedownStep, PageStep,
           WindowStep, AdmissionStep, PageImagesStep, EntityDetailStep, PdfViewStep, PlayerStep
  <1> QED BY <1>1, <1>2, PTL DEF ServiceSpec, AdmissionSpec

(* AdmissionIsExact: filling a bucket only when it is used, and dropping   *)
(* the idle ones, is exact, and no slot is lost or taken twice.            *)
THEOREM AdmittedExactly == ServiceSpec => []AdmissionIsExact
  <1>1. AdmissionInvariant => AdmissionIsExact
    BY TokensAreExact DEF AdmissionInvariant, AdmissionIsExact, SlotsAreCounted
  <1> QED BY <1>1, AdmissionIsAPart, AdmissionIsSound, PTL
-----------------------------------------------------------------------------
(* The search page. Calls of the search that is the latest: the one for    *)
(* its results, the one for the detail it awaits, and the one for further  *)
(* results.                                                                *)
MoreCalls == { r \in pending : r.kind = "more" }
CurrentMore == { r \in MoreCalls : r.id = requestId }
Awaited == { r \in Details : r.id = requestId /\ r.id # 0 }

Placed == Searchable \X Nat

PageIsTyped == requestId \in Nat /\ nextPage \in Nat /\ results \in Seq(Placed)

IsRoute(route) == route = [filters |-> route.filters, view |-> route.view]

CallsAreTyped ==
    \A r \in pending :
        /\ r.kind \in {"search", "more", "open", "byId"} /\ r.id \in 0 .. requestId
        /\ r.kind \in {"search", "more"} => r.for \in Searchable
        /\ r.kind = "more" => r.page \in Nat

(* A search waits for its results, then for a detail, and only then is     *)
(* more asked for.                                                         *)
CallsAreAlone ==
    /\ loading => requestId > 0
    /\ \A r \in Fetches : r.id = requestId
    /\ \A q, r \in Fetches : q = r
    /\ \A q, r \in Awaited : q = r
    /\ Fetches # {} => loading /\ CurrentMore = {} /\ Awaited = {}

(* Nothing is listed and nothing will be, but for a new search.            *)
Quiet == results = <<>> /\ Fetches = {} /\ ~hasMore /\ active \in {"none", "few"}

ListIsInOrder ==
    IF results = <<>> THEN ~hasMore
    ELSE nextPage = Len(results) + 1 /\ \A i \in DOMAIN results : results[i] = <<active, i>>

(* A search is under way or done: form and address say the same, and what  *)
(* is still to come is for the end of the list.                            *)
Live ==
    /\ active \in Searchable
    /\ ~debounce => form.filters = active /\ address.filters = active
    /\ \A r \in Fetches : r.for = active
    /\ Awaited # {} => loading /\ CurrentMore = {}
    /\ \A q, r \in CurrentMore : q = r
    /\ \A r \in CurrentMore :
          r.for = active /\ r.page = nextPage /\ loadingMore /\ results # <<>>
    /\ Fetches = {} => ListIsInOrder

PageInvariant ==
    /\ PageIsTyped /\ IsRoute(form) /\ CallsAreTyped /\ CallsAreAlone /\ SpinnersEnd
    /\ searched => Quiet \/ Live

LEMMA SetFilters ==
    ASSUME PageInvariant, NEW f
    PROVE  IsRoute(To(f)) /\ To(f).filters = f
  BY DEF PageInvariant, IsRoute, To

LEMMA RunSearchKeeps ==
    ASSUME PageInvariant, NEW route, IsRoute(route), NEW shown, RunSearch(route, shown)
    PROVE  PageInvariant'
  <1>0. IsRoute(form') BY DEF RunSearch
  <1>1. CASE route.filters = "none" \/ route.filters = "few"
    <2>1. pending' = pending \ Fetches /\ UNCHANGED <<requestId, loadingMore>>
      BY <1>1, SearchPageAssumption DEF RunSearch, Abort, Searchable
    <2>2. /\ results' = <<>> /\ hasMore' = FALSE /\ nextPage' \in Nat
          /\ loading' = (loading /\ \A r \in Fetches : r.id # requestId)
          /\ searched' => active' \in {"none", "few"}
      BY <1>1, SearchPageAssumption DEF RunSearch, Abort, Searchable, EmptyList, PageInvariant, PageIsTyped
    <2>3. Fetches' = {} /\ MoreCalls' = MoreCalls /\ Details' = Details
      BY <2>1 DEF Fetches, MoreCalls, Details
    <2>4. CurrentMore' = CurrentMore /\ Awaited' = Awaited
      BY <2>1, <2>3 DEF CurrentMore, Awaited
    <2>5. PageIsTyped' /\ CallsAreTyped'
      BY <2>1, <2>2 DEF PageInvariant, PageIsTyped, CallsAreTyped
    <2>6. CallsAreAlone'
      BY <2>1, <2>2, <2>3, <2>4 DEF PageInvariant, PageIsTyped, CallsAreAlone
    <2>7. SpinnersEnd' BY <2>1, <2>2 DEF PageInvariant, SpinnersEnd, Fetches
    <2> QED BY <1>0, <2>2, <2>3, <2>5, <2>6, <2>7 DEF PageInvariant, Quiet
  <1>2. CASE route.filters \in Searchable /\ route.filters \notin {"none", "few"}
    <2> DEFINE call == Search(requestId + 1, route.filters)
    <2>1. /\ requestId' = requestId + 1 /\ pending' = (pending \ Fetches) \cup {call}
          /\ loading' = TRUE /\ loadingMore' = FALSE /\ active' = route.filters
          /\ form' = route /\ address' = route
          /\ searched' = shown /\ UNCHANGED <<hasMore, nextPage, results>>
      BY <1>2 DEF RunSearch
    <2>2. call.kind = "search" /\ call.id = requestId + 1 /\ call.for = route.filters
      BY DEF Search
    <2> HIDE DEF call
    <2>3. Fetches' = {call} /\ MoreCalls' = MoreCalls /\ Details' = Details
      BY <2>1, <2>2 DEF Fetches, MoreCalls, Details
    <2>4. \A r \in pending : r.id < requestId' /\ r.id # requestId'
      BY <2>1 DEF PageInvariant, PageIsTyped, CallsAreTyped
    <2>5. CurrentMore' = {} /\ Awaited' = {}
      BY <2>3, <2>4 DEF CurrentMore, Awaited, MoreCalls, Details
    <2>6. PageIsTyped' BY <2>1 DEF PageInvariant, PageIsTyped
    <2>7. CallsAreTyped'
      <3> SUFFICES ASSUME NEW r \in pending'
                   PROVE  /\ r.kind \in {"search", "more", "open", "byId"}
                          /\ r.id \in 0 .. requestId'
                          /\ r.kind \in {"search", "more"} => r.for \in Searchable
                          /\ r.kind = "more" => r.page \in Nat
        BY DEF CallsAreTyped
      <3>1. CASE r = call BY <3>1, <1>2, <2>1, <2>2 DEF PageInvariant, PageIsTyped
      <3>2. CASE r \in pending
        BY <3>2, <2>1 DEF PageInvariant, PageIsTyped, CallsAreTyped
      <3> QED BY <2>1, <3>1, <3>2
    <2>8. CallsAreAlone'
      BY <2>1, <2>2, <2>3, <2>5 DEF PageInvariant, PageIsTyped, CallsAreAlone
    <2>9. SpinnersEnd' BY <2>1, <2>2 DEF SpinnersEnd
    <2>10. Live' BY <1>2, <2>1, <2>2, <2>3, <2>5 DEF Live
    <2> QED BY <1>0, <2>6, <2>7, <2>8, <2>9, <2>10 DEF PageInvariant
  <1>3. route.filters \in {"none", "few"} \cup Searchable BY DEF RunSearch
  <1> QED BY <1>1, <1>2, <1>3

(* What the reader does, with a search or without.                         *)
LEMMA InputKeeps ==
    ASSUME PageInvariant, Type \/ DebounceFires \/ Submit \/ ChangeFilter
    PROVE  PageInvariant'
  <1>1. ASSUME DebounceFires \/ Submit \/ ChangeFilter  PROVE PageInvariant'
    <2>1. \E route, shown : IsRoute(route) /\ RunSearch(route, shown)
      BY <1>1, SetFilters DEF DebounceFires, Submit, ChangeFilter, PageInvariant
    <2> QED BY <2>1, RunSearchKeeps
  <1>2. ASSUME NEW f \in Filters \ {form.filters}, ~searched, form' = To(f),
               UNCHANGED <<address, debounce, searched, loading, loadingMore, list,
                           detail, requestId, pending>>
        PROVE  PageInvariant'
    BY <1>2, SetFilters DEF list, PageInvariant, PageIsTyped, CallsAreTyped, CallsAreAlone, SpinnersEnd,
                Fetches, Details, MoreCalls, CurrentMore, Awaited
  <1>3. ASSUME NEW f \in Filters, searched, RunSearch(To(f), searched), UNCHANGED debounce
        PROVE  PageInvariant'
    BY <1>3, SetFilters, RunSearchKeeps
  <1>4. ASSUME NEW f, searched, form' = To(f), pending' = pending \ Fetches,
               loading' = FALSE, loadingMore' = FALSE, EmptyList("none"), nextPage' = 2,
               UNCHANGED <<address, debounce, searched, detail, requestId>>
        PROVE  PageInvariant'
    <2>1. Fetches' = {} /\ MoreCalls' = MoreCalls /\ Details' = Details
      BY <1>4 DEF Fetches, MoreCalls, Details
    <2>2. CurrentMore' = CurrentMore /\ Awaited' = Awaited
      BY <1>4, <2>1 DEF CurrentMore, Awaited
    <2>3. PageIsTyped' /\ CallsAreTyped'
      BY <1>4 DEF EmptyList, PageInvariant, PageIsTyped, CallsAreTyped
    <2>4. CallsAreAlone' /\ SpinnersEnd' /\ Quiet'
      BY <1>4, <2>1, <2>2 DEF EmptyList, PageInvariant, CallsAreAlone, SpinnersEnd, Quiet
    <2> QED BY <1>4, <2>3, <2>4, SetFilters DEF PageInvariant
  <1>5. ASSUME NEW f \in Queries, searched, form' = To(f), debounce' = TRUE,
               UNCHANGED <<address, searched, loading, loadingMore, list, detail,
                           requestId, pending>>
        PROVE  PageInvariant'
    <2>1. UNCHANGED <<Fetches, CurrentMore, Awaited>>
      BY <1>5 DEF Fetches, MoreCalls, Details, CurrentMore, Awaited
    <2>2. PageIsTyped' /\ CallsAreTyped' /\ CallsAreAlone' /\ SpinnersEnd'
      BY <1>5, <2>1 DEF list, PageInvariant, PageIsTyped, CallsAreTyped, CallsAreAlone, SpinnersEnd
    <2>3. Quiet' \/ Live'
      BY <1>5, <2>1 DEF list, PageInvariant, Quiet, Live, ListIsInOrder
    <2> QED BY <1>5, <2>2, <2>3, SetFilters DEF PageInvariant
  <1>6. ASSUME Type  PROVE PageInvariant' BY <1>2, <1>3, <1>4, <1>5, <1>6 DEF Type
  <1> QED BY <1>1, <1>6

LEMMA LeavingKeeps ==
    ASSUME PageInvariant, Home \/ FollowAddress
    PROVE  PageInvariant'
  <1>1. ASSUME Home  PROVE PageInvariant'
    BY <1>1 DEF Home, IsRoute, PageInvariant, PageIsTyped, CallsAreTyped, CallsAreAlone, SpinnersEnd,
                Fetches, Details, MoreCalls, CurrentMore, Awaited
  <1>2. ASSUME NEW route, IsRoute(route), form' = route, searched' = FALSE, EmptyList("none"), nextPage' = 2,
               UNCHANGED <<loading, loadingMore, requestId, pending, debounce>>
        PROVE  PageInvariant'
    BY <1>2 DEF EmptyList, PageInvariant, PageIsTyped, CallsAreTyped, CallsAreAlone, SpinnersEnd,
                Fetches, Details, MoreCalls, CurrentMore, Awaited
  <1>3. ASSUME NEW route, IsRoute(route), RunSearch(route, TRUE), UNCHANGED debounce
        PROVE  PageInvariant'
    BY <1>3, RunSearchKeeps
  <1>4. ASSUME FollowAddress  PROVE PageInvariant'
    <2>1. \A route \in Links : IsRoute(route) BY DEF Links, Route, IsRoute
    <2> QED BY <1>2, <1>3, <1>4, <2>1 DEF FollowAddress
  <1> QED BY <1>1, <1>4

(* The answer to a search. *)
LEMMA OneFetch ==
    ASSUME PageInvariant, NEW r \in Fetches
    PROVE  /\ r.kind = "search" /\ r.id = requestId /\ r.for \in Searchable /\ r \in pending
           /\ requestId > 0 /\ loading /\ CurrentMore = {} /\ Awaited = {}
           /\ Fetches = {r} /\ \A q \in pending \ {r} : q.kind # "search"
  BY DEF PageInvariant, PageIsTyped, CallsAreTyped, CallsAreAlone, Fetches

LEMMA SearchArrivesKeeps ==
    ASSUME PageInvariant, SearchArrives \/ SearchFails
    PROVE  PageInvariant'
  <1>1. ASSUME NEW r \in Fetches,
               results' = <<<<r.for, 1>>>> \/ (results' = <<>> /\ ~hasMore'), nextPage' = 2,
               UNCHANGED <<form, address, debounce, searched, loadingMore, active, requestId>>,
               \/ Done(r) /\ EndOfSearch(r.id)
               \/ /\ UNCHANGED loading
                  /\ \E item : pending' = (pending \ {r}) \cup {Open(r.id, item)}
               \/ /\ UNCHANGED loading
                  /\ \E item : pending' = (pending \ {r}) \cup {ById(r.id, item)}
        PROVE  PageInvariant'
    <2>1. /\ r.kind = "search" /\ r.id = requestId /\ r.for \in Searchable /\ r \in pending
          /\ requestId \in Nat /\ requestId > 0 /\ loading /\ CurrentMore = {} /\ Awaited = {}
          /\ Fetches = {r} /\ \A q \in pending \ {r} : q.kind # "search"
      BY OneFetch DEF PageInvariant, PageIsTyped
    <2>2. PICK next : /\ pending' = (pending \ {r}) \cup next
                      /\ \/ next = {} /\ ~loading'
                         \/ /\ loading'
                            /\ \E q : /\ next = {q} /\ q.kind \in {"open", "byId"}
                                      /\ q.id = requestId
      <3>1. CASE Done(r) /\ EndOfSearch(r.id) BY <2>1, <3>1 DEF Done, EndOfSearch
      <3>2. ASSUME NEW item  PROVE /\ Open(r.id, item).kind = "open" /\ ById(r.id, item).kind = "byId"
                                   /\ Open(r.id, item).id = r.id /\ ById(r.id, item).id = r.id
        BY DEF Open, ById
      <3> QED BY <1>1, <2>1, <3>1, <3>2
    <2>3. /\ \A q \in next : q.kind \in {"open", "byId"} /\ q.id = requestId
          /\ \A p, q \in next : p = q
          /\ loading' => next # {}
          /\ next # {} => loading'
      BY <2>2
    <2>4. Fetches' = {} BY <2>1, <2>2, <2>3 DEF Fetches
    <2>5. MoreCalls' = MoreCalls /\ CurrentMore' = {}
      BY <1>1, <2>1, <2>2, <2>3 DEF MoreCalls, CurrentMore
    <2>6. Awaited' = next BY <1>1, <2>1, <2>2, <2>3 DEF Details, Awaited
    <2>7. PageIsTyped'
      <3>1. <<r.for, 1>> \in Placed BY <2>1 DEF Placed
      <3>2. <<>> \in Seq(Placed) /\ <<<<r.for, 1>>>> \in Seq(Placed) BY <3>1
      <3>3. results' \in Seq(Placed) BY <1>1, <3>2
      <3> QED BY <1>1, <2>1, <3>3 DEF PageIsTyped
    <2>8. CallsAreTyped' BY <1>1, <2>1, <2>2, <2>3 DEF PageInvariant, CallsAreTyped
    <2>9. CallsAreAlone' BY <1>1, <2>1, <2>3, <2>4, <2>6 DEF CallsAreAlone
    <2>10. SpinnersEnd'
      <3>1. loading' => \E q \in pending' : q.id = requestId' /\ q.kind # "more"
        BY <1>1, <2>2, <2>3
      <3>2. loadingMore' => \E q \in pending' : q.id = requestId' /\ q.kind = "more"
        BY <1>1, <2>1, <2>2 DEF PageInvariant, SpinnersEnd
      <3> QED BY <3>1, <3>2 DEF SpinnersEnd
    <2>11. searched => active = r.for BY <2>1 DEF PageInvariant, Quiet, Live
    <2>12. ASSUME searched'  PROVE Live'
      <3>1. Live BY <1>1, <2>1, <2>12 DEF PageInvariant, Quiet
      <3>2. ListIsInOrder'
        <4>1. CASE results' = <<<<r.for, 1>>>>
          BY <1>1, <2>11, <2>12, <4>1 DEF ListIsInOrder
        <4>2. CASE results' = <<>> /\ ~hasMore' BY <4>2 DEF ListIsInOrder
        <4> QED BY <1>1, <4>1, <4>2
      <3> QED BY <1>1, <2>3, <2>4, <2>5, <2>6, <3>1, <3>2 DEF Live
    <2> QED BY <1>1, <2>7, <2>8, <2>9, <2>10, <2>12 DEF PageInvariant
  <1>2. CASE SearchArrives
    <2>1. PICK r \in Fetches :
            /\ results' = <<<<r.for, 1>>>> /\ nextPage' = 2
            /\ UNCHANGED <<form, address, debounce, searched, loadingMore, active, requestId>>
            /\ \/ Done(r) /\ EndOfSearch(r.id)
               \/ /\ UNCHANGED loading
                  /\ \E item : pending' = (pending \ {r}) \cup {Open(r.id, item)}
               \/ /\ UNCHANGED loading
                  /\ \E item : pending' = (pending \ {r}) \cup {ById(r.id, item)}
      BY <1>2 DEF SearchArrives
    <2> QED BY <1>1, <2>1
  <1>3. CASE SearchFails
    <2>1. PICK r \in Fetches :
            /\ results' = <<>> /\ ~hasMore' /\ nextPage' = 2
            /\ UNCHANGED <<form, address, debounce, searched, loadingMore, active, requestId>>
            /\ Done(r) /\ EndOfSearch(r.id)
      BY <1>3 DEF SearchFails
    <2> QED BY <1>1, <2>1
  <1> QED BY <1>2, <1>3

(* Further results are asked for, come or fail.                            *)
LEMMA LoadMoreKeeps ==
    ASSUME PageInvariant, LoadMore
    PROVE  PageInvariant'
  <1>1. PICK from : pending' = pending \cup {More(requestId, active, nextPage, from)}
    BY DEF LoadMore
  <1> DEFINE call == More(requestId, active, nextPage, from)
  <1>2. call.kind = "more" /\ call.id = requestId /\ call.for = active /\ call.page = nextPage
    BY DEF More
  <1> HIDE DEF call
  <1>3. /\ searched /\ ~loading /\ ~loadingMore /\ hasMore /\ form.filters = active
        /\ loadingMore' = TRUE /\ pending' = pending \cup {call}
        /\ UNCHANGED <<form, address, debounce, searched, loading, hasMore, active, nextPage,
                       results, requestId>>
    BY <1>1 DEF LoadMore, list, call
  <1>4. Live /\ Fetches = {} /\ Awaited = {} /\ results # <<>>
    BY <1>3 DEF PageInvariant, Quiet, CallsAreAlone, Live, ListIsInOrder
  <1>5. CurrentMore = {} BY <1>3, <1>4 DEF Live
  <1>6. /\ Fetches' = {} /\ Awaited' = {} /\ MoreCalls' = MoreCalls \cup {call}
    BY <1>2, <1>3, <1>4 DEF Fetches, Awaited, MoreCalls, Details
  <1>7. CurrentMore' = {call} BY <1>2, <1>3, <1>5, <1>6 DEF CurrentMore
  <1>8. PageIsTyped' BY <1>3 DEF PageInvariant, PageIsTyped
  <1>9. CallsAreTyped'
    BY <1>2, <1>3, <1>4 DEF PageInvariant, PageIsTyped, CallsAreTyped, Live
  <1>10. CallsAreAlone' /\ SpinnersEnd'
    BY <1>2, <1>3, <1>6 DEF PageInvariant, CallsAreAlone, SpinnersEnd
  <1>11. ListIsInOrder' BY <1>3, <1>4 DEF Live, ListIsInOrder
  <1>12. Live' BY <1>2, <1>3, <1>4, <1>6, <1>7, <1>11 DEF Live
  <1> QED BY <1>3, <1>8, <1>9, <1>10, <1>12 DEF PageInvariant

(* A call for the page of an entity is added, the calls others leave out   *)
(* are for further results, and what the address says follows the form.    *)
Follows ==
    /\ IsRoute(form') /\ form'.filters = form.filters
    /\ address' = address \/ address' = form'

Adds(others) ==
    /\ others \subseteq pending'
    /\ \A q \in pending' \ others : q.kind \in {"open", "byId"} /\ q.id = 0

LEMMA OpenItemFollows ==
    ASSUME PageInvariant, NEW item, NEW others, OpenItem(item, others)
    PROVE  Follows /\ Adds(others)
  <1>1. Open(0, item).kind = "open" /\ Open(0, item).id = 0 BY DEF Open
  <1>2. Follows BY DEF OpenItem, Follows, PageInvariant, IsRoute
  <1> QED BY <1>1, <1>2 DEF OpenItem, Adds

LEMMA DetailCalls ==
    ASSUME PageInvariant, Follows, Adds(pending),
           UNCHANGED <<debounce, searched, loading, loadingMore, hasMore, active, nextPage,
                       results, requestId>>
    PROVE  PageInvariant'
  <1>1. /\ Fetches' = Fetches /\ MoreCalls' = MoreCalls /\ CurrentMore' = CurrentMore
        /\ Awaited' = Awaited
    BY DEF Adds, Fetches, MoreCalls, CurrentMore, Awaited, Details
  <1>2. PageIsTyped' /\ CallsAreTyped'
    BY DEF Adds, PageInvariant, PageIsTyped, CallsAreTyped
  <1>3. CallsAreAlone' /\ SpinnersEnd'
    BY <1>1 DEF Adds, PageInvariant, CallsAreAlone, SpinnersEnd
  <1>4. ListIsInOrder => ListIsInOrder' BY DEF ListIsInOrder
  <1>5. Quiet => Quiet' BY <1>1 DEF Quiet
  <1>6. Live => Live' BY <1>1, <1>4 DEF Live, Follows
  <1> QED BY <1>2, <1>3, <1>5, <1>6 DEF PageInvariant, Follows

(* The end of a call for further results.                                  *)
LEMMA MoreEnds ==
    ASSUME PageInvariant, Follows, NEW r \in MoreCalls,
           Adds(pending \ {r}),
           loadingMore' = (loadingMore /\ r.id # requestId),
           UNCHANGED <<debounce, searched, loading, active, requestId>>,
           \/ UNCHANGED <<results, nextPage, hasMore>> /\ (r.id # requestId \/ ~loadingMore')
           \/ /\ Accepts(r) /\ nextPage' = r.page + 1
              /\ \E fresh \in {<<>>, <<<<r.for, r.page>>>>} :
                    /\ fresh = <<>> => <<r.for, r.page>> \in Listed
                    /\ results' = results \o fresh
    PROVE  PageInvariant'
  <1>1. r \in pending /\ r.kind = "more" /\ r.id \in 0 .. requestId /\ r.for \in Searchable
        /\ r.page \in Nat /\ requestId \in Nat
    BY DEF MoreCalls, PageInvariant, PageIsTyped, CallsAreTyped
  <1>2. /\ Fetches' = Fetches /\ MoreCalls' = MoreCalls \ {r} /\ Awaited' = Awaited
    BY <1>1 DEF Adds, Fetches, MoreCalls, Awaited, Details
  <1>3. CurrentMore' = CurrentMore \ {r} BY <1>2 DEF CurrentMore
  <1>4. PageIsTyped'
    <2>1. nextPage' \in Nat /\ requestId' \in Nat BY <1>1 DEF PageInvariant, PageIsTyped
    <2>2. <<r.for, r.page>> \in Placed BY <1>1 DEF Placed
    <2>3. <<>> \in Seq(Placed) /\ <<<<r.for, r.page>>>> \in Seq(Placed) BY <2>2
    <2>4. \A fresh \in Seq(Placed) : results \o fresh \in Seq(Placed)
      BY ConcatProperties DEF PageInvariant, PageIsTyped
    <2>5. results' \in Seq(Placed) BY <2>3, <2>4 DEF PageInvariant, PageIsTyped
    <2> QED BY <2>1, <2>5 DEF PageIsTyped
  <1>5. CallsAreTyped' BY <1>1 DEF Adds, PageInvariant, CallsAreTyped
  <1>6. CallsAreAlone' BY <1>2, <1>3 DEF PageInvariant, CallsAreAlone
  <1>7. SpinnersEnd' BY <1>1 DEF Adds, PageInvariant, SpinnersEnd
  <1>8. ASSUME searched, Quiet  PROVE Quiet'
    <2>1. active \notin Searchable BY <1>8, SearchPageAssumption DEF Quiet, Searchable
    <2>2. ~Accepts(r) BY <1>1, <2>1 DEF Accepts
    <2> QED BY <1>2, <1>8, <2>2 DEF Quiet
  <1>9. ASSUME searched, Live  PROVE Live'
    <2>1. CASE r \notin CurrentMore
      <3>1. r.id # requestId /\ ~Accepts(r) BY <2>1 DEF CurrentMore, Accepts
      <3>2. UNCHANGED <<results, nextPage, hasMore>> /\ (loadingMore => loadingMore')
        BY <3>1
      <3>3. CurrentMore' = CurrentMore BY <1>3, <2>1
      <3>4. ListIsInOrder => ListIsInOrder' BY <3>2 DEF ListIsInOrder
      <3> QED BY <1>2, <1>9, <3>2, <3>3, <3>4 DEF Live, Follows
    <2>2. CASE r \in CurrentMore
      <3>1. /\ r.for = active /\ r.page = nextPage /\ results # <<>>
            /\ CurrentMore' = {} /\ Fetches = {} /\ Awaited = {}
        BY <1>3, <1>9, <2>2 DEF Live, PageInvariant, CallsAreAlone
      <3>2. nextPage = Len(results) + 1 /\ \A i \in DOMAIN results : results[i] = <<active, i>>
        BY <1>9, <3>1 DEF Live, ListIsInOrder
      <3>3. results \in Seq(Placed) /\ DOMAIN results = 1 .. Len(results) /\ Len(results) \in Nat
        BY DEF PageInvariant, PageIsTyped
      <3>4. <<r.for, r.page>> \notin Listed BY <3>1, <3>2, <3>3 DEF Listed
      <3>5. ListIsInOrder'
        <4>1. CASE UNCHANGED <<results, nextPage, hasMore>>
          BY <4>1, <1>9, <3>1 DEF Live, ListIsInOrder
        <4>2. CASE results' = results \o <<<<r.for, r.page>>>> /\ nextPage' = r.page + 1
          <5> DEFINE last == <<r.for, r.page>>
          <5>0. last \in Placed /\ <<last>> \in Seq(Placed) /\ Len(<<last>>) = 1 /\ <<last>>[1] = last
            BY <1>1 DEF Placed
          <5> HIDE DEF last
          <5>1. /\ results' \in Seq(Placed) /\ Len(results') = Len(results) + 1
                /\ \A i \in 1 .. Len(results) + 1 :
                      results'[i] = IF i <= Len(results) THEN results[i] ELSE last
            <6>1. results' = results \o <<last>> BY <4>2 DEF last
            <6>2. /\ results' \in Seq(Placed) /\ Len(results') = Len(results) + Len(<<last>>)
                  /\ \A i \in 1 .. Len(results) + Len(<<last>>) :
                        results'[i] = IF i <= Len(results) THEN results[i]
                                      ELSE <<last>>[i - Len(results)]
              BY <3>3, <5>0, <6>1, ConcatProperties
            <6>3. ASSUME NEW i \in 1 .. Len(results) + 1, i > Len(results)
                  PROVE  i - Len(results) = 1
              BY <3>3, <6>3
            <6> QED BY <3>3, <5>0, <6>2, <6>3
          <5>2. ASSUME NEW i \in DOMAIN results'  PROVE results'[i] = <<active, i>>
            <6>1. i \in 1 .. Len(results) + 1 BY <5>1
            <6>2. CASE i <= Len(results) BY <3>2, <3>3, <5>1, <6>1, <6>2
            <6>3. CASE i = Len(results) + 1
              BY <3>1, <3>2, <3>3, <5>1, <6>1, <6>3 DEF last
            <6> QED BY <3>3, <6>1, <6>2, <6>3
          <5> QED BY <3>1, <3>2, <4>2, <5>1, <5>2 DEF ListIsInOrder
        <4> QED BY <3>4, <4>1, <4>2
      <3> QED BY <1>2, <1>9, <3>1, <3>5 DEF Live, Follows
    <2> QED BY <2>1, <2>2
  <1> QED BY <1>4, <1>5, <1>6, <1>7, <1>8, <1>9 DEF PageInvariant, Follows

LEMMA MoreKeeps ==
    ASSUME PageInvariant, MoreArrives \/ MoreFails
    PROVE  PageInvariant'
  <1>1. CASE MoreFails
    <2>1. PICK r \in MoreCalls :
            /\ loadingMore' = (loadingMore /\ r.id # requestId)
            /\ Done(r)
            /\ UNCHANGED <<form, address, debounce, searched, loading, list, requestId>>
      BY <1>1 DEF MoreFails, MoreCalls
    <2>2. Follows /\ Adds(pending \ {r}) BY <2>1 DEF Follows, Done, Adds, PageInvariant
    <2>3. r.id # requestId \/ ~loadingMore' BY <2>1
    <2>4. UNCHANGED <<debounce, searched, loading, active, requestId, results, nextPage, hasMore>>
      BY <2>1 DEF list
    <2> QED BY <2>1, <2>2, <2>3, <2>4, MoreEnds
  <1>2. CASE MoreArrives
    <2>1. PICK r \in MoreCalls :
            LET fresh == IF <<r.for, r.page>> \in Listed THEN <<>> ELSE <<<<r.for, r.page>>>>
            IN  /\ IF Accepts(r)
                   THEN /\ results' = results \o fresh
                        /\ nextPage' = r.page + 1
                        /\ hasMore' = (fresh # <<>> /\ r.page < Pages)
                   ELSE UNCHANGED <<results, nextPage, hasMore>>
                /\ loadingMore' = (loadingMore /\ r.id # requestId)
                /\ IF r.openAfter > 0 /\ Len(results') > r.openAfter
                   THEN OpenItem(results'[r.openAfter + 1], pending \ {r})
                   ELSE Done(r) /\ UNCHANGED <<form, address, detail>>
                /\ UNCHANGED <<debounce, searched, loading, active, requestId>>
      BY <1>2 DEF MoreArrives, MoreCalls
    <2>2. \/ UNCHANGED <<results, nextPage, hasMore>> /\ (r.id # requestId \/ ~loadingMore')
          \/ /\ Accepts(r) /\ nextPage' = r.page + 1
             /\ \E fresh \in {<<>>, <<<<r.for, r.page>>>>} :
                   /\ fresh = <<>> => <<r.for, r.page>> \in Listed
                   /\ results' = results \o fresh
      BY <2>1
    <2>3. Follows /\ Adds(pending \ {r})
      <3>1. CASE Done(r) /\ UNCHANGED <<form, address, detail>>
        BY <3>1 DEF Done, Follows, Adds, PageInvariant
      <3>2. CASE OpenItem(results'[r.openAfter + 1], pending \ {r})
        BY <3>2, OpenItemFollows
      <3> QED BY <2>1, <3>1, <3>2
    <2> QED BY <2>1, <2>2, <2>3, MoreEnds
  <1> QED BY <1>1, <1>2

(* Details are opened, closed, arrive and fail.                            *)
LEMMA OpeningKeeps ==
    ASSUME PageInvariant, OpenDetail \/ OpenDetailById \/ CloseDetail
    PROVE  PageInvariant'
  <1>1. /\ Follows
        /\ UNCHANGED <<debounce, searched, loading, loadingMore, hasMore, active, nextPage,
                       results, requestId>>
    BY OpenItemFollows
    DEF OpenDetail, OpenDetailById, CloseDetail, Follows, list, PageInvariant, IsRoute
  <1>2. CASE OpenDetail BY <1>1, <1>2, OpenItemFollows, DetailCalls DEF OpenDetail
  <1>3. CASE OpenDetailById
    <2>1. ById(0, Elsewhere).kind = "byId" /\ ById(0, Elsewhere).id = 0 BY DEF ById
    <2>2. Adds(pending) BY <1>3, <2>1 DEF OpenDetailById, Adds
    <2> QED BY <1>1, <2>2, DetailCalls
  <1>4. CASE CloseDetail
    <2>1. Adds(pending) BY <1>4 DEF CloseDetail, Adds
    <2> QED BY <1>1, <2>1, DetailCalls
  <1> QED BY <1>2, <1>3, <1>4

LEMMA DetailEnds ==
    ASSUME PageInvariant, Follows, NEW r \in Details, Done(r),
           r \in Awaited => ~loading', r \notin Awaited => (loading' <=> loading),
           UNCHANGED <<debounce, searched, loadingMore, active, requestId>>,
           \/ UNCHANGED <<results, nextPage, hasMore>>
           \/ r \in Awaited /\ results' = <<>> /\ ~hasMore' /\ nextPage' = 2
    PROVE  PageInvariant'
  <1>1. r \in pending /\ r.kind \in {"open", "byId"} /\ pending' = pending \ {r}
    BY DEF Details, Done
  <1>2. /\ Fetches' = Fetches /\ MoreCalls' = MoreCalls /\ CurrentMore' = CurrentMore
        /\ Awaited' = Awaited \ {r}
    BY <1>1 DEF Fetches, MoreCalls, CurrentMore, Awaited, Details
  <1>3. PageIsTyped'
    <2>1. <<>> \in Seq(Placed) OBVIOUS
    <2>2. results' \in Seq(Placed) BY <2>1 DEF PageInvariant, PageIsTyped
    <2>3. requestId' \in Nat /\ nextPage' \in Nat BY DEF PageInvariant, PageIsTyped
    <2> QED BY <2>2, <2>3 DEF PageIsTyped
  <1>4. CallsAreTyped' BY <1>1 DEF PageInvariant, CallsAreTyped
  <1>5. CallsAreAlone' BY <1>2 DEF PageInvariant, CallsAreAlone
  <1>6. SpinnersEnd'
    <2>1. ASSUME loading'  PROVE \E q \in pending' : q.id = requestId' /\ q.kind # "more"
      <3>1. loading /\ r \notin Awaited BY <2>1
      <3>2. requestId > 0 BY <3>1 DEF PageInvariant, CallsAreAlone
      <3>3. r.id # requestId BY <3>1, <3>2 DEF Awaited, PageInvariant, PageIsTyped
      <3> QED BY <1>1, <3>1, <3>3 DEF PageInvariant, SpinnersEnd
    <2>2. loadingMore' => \E q \in pending' : q.id = requestId' /\ q.kind = "more"
      BY <1>1 DEF PageInvariant, SpinnersEnd
    <2> QED BY <2>1, <2>2 DEF SpinnersEnd
  <1>7. Quiet => Quiet' BY <1>2 DEF Quiet
  <1>8. ASSUME Live  PROVE Live'
    <2>1. ListIsInOrder => ListIsInOrder' BY DEF ListIsInOrder
    <2>2. Awaited' # {} => loading' /\ CurrentMore' = {}
      BY <1>2, <1>8 DEF Live, PageInvariant, CallsAreAlone
    <2>3. CurrentMore # {} => UNCHANGED <<results, nextPage, hasMore>> BY <1>8 DEF Live
    <2> QED BY <1>2, <1>8, <2>1, <2>2, <2>3 DEF Live, Follows
  <1> QED BY <1>3, <1>4, <1>5, <1>6, <1>7, <1>8 DEF PageInvariant, Follows

LEMMA DetailKeeps ==
    ASSUME PageInvariant, DetailArrives \/ DetailFails
    PROVE  PageInvariant'
  <1>1. CASE DetailArrives
    <2>1. PICK r \in Details :
            /\ Follows /\ Done(r)
            /\ IF r.id = 0 THEN UNCHANGED loading ELSE EndOfSearch(r.id)
            /\ UNCHANGED <<debounce, searched, loadingMore, list, requestId>>
      BY <1>1 DEF DetailArrives, Follows, PageInvariant, IsRoute
    <2>2. (r \in Awaited => ~loading') /\ (r \notin Awaited => (loading' <=> loading))
      BY <2>1 DEF Awaited, EndOfSearch
    <2> QED BY <2>1, <2>2, DetailEnds DEF list
  <1>2. CASE DetailFails
    <2>1. PICK r \in Details :
            /\ IF r.id # 0 /\ r.id = requestId
               THEN results' = <<>> /\ ~hasMore' /\ nextPage' = 2 /\ EndOfSearch(r.id)
               ELSE UNCHANGED <<results, hasMore, nextPage, loading>>
            /\ Done(r)
            /\ UNCHANGED <<form, address, debounce, searched, loadingMore, active, requestId>>
      BY <1>2 DEF DetailFails
    <2>2. /\ (r \in Awaited => ~loading') /\ (r \notin Awaited => (loading' <=> loading))
          /\ \/ UNCHANGED <<results, nextPage, hasMore>>
             \/ r \in Awaited /\ results' = <<>> /\ ~hasMore' /\ nextPage' = 2
      BY <2>1 DEF Awaited, EndOfSearch
    <2>3. Follows BY <2>1 DEF Follows, PageInvariant
    <2> QED BY <2>1, <2>2, <2>3, DetailEnds
  <1> QED BY <1>1, <1>2

(* The search page, for any queries, pages and calls: each spinner has its *)
(* call, and the list is in order or there is none.                        *)
THEOREM PageIsSound == PageSpec => []PageInvariant
  <1>1. PageInit => PageInvariant
    <2> SUFFICES ASSUME PageInit PROVE PageInvariant OBVIOUS
    <2>1. PageIsTyped BY DEF PageInit, PageIsTyped
    <2>2. Fetches = {} /\ Awaited = {} BY DEF PageInit, Fetches, Awaited, Details
    <2>3. CallsAreTyped /\ CallsAreAlone /\ SpinnersEnd /\ ~searched
      BY <2>2 DEF PageInit, CallsAreTyped, CallsAreAlone, SpinnersEnd
    <2>4. IsRoute(form) BY DEF PageInit, IsRoute
    <2> QED BY <2>1, <2>3, <2>4 DEF PageInvariant
  <1>2. PageInvariant /\ [PageNext]_pageVars => PageInvariant'
    <2> SUFFICES ASSUME PageInvariant, [PageNext]_pageVars  PROVE PageInvariant' OBVIOUS
    <2>1. CASE UNCHANGED pageVars
      <3>1. Follows /\ Adds(pending) BY <2>1 DEF pageVars, Follows, Adds, PageInvariant
      <3>2. UNCHANGED <<debounce, searched, loading, loadingMore, hasMore, active, nextPage,
                        results, requestId>>
        BY <2>1 DEF pageVars
      <3> QED BY <3>1, <3>2, DetailCalls
    <2> QED BY <2>1, InputKeeps, LeavingKeeps, SearchArrivesKeeps, LoadMoreKeeps, MoreKeeps,
               OpeningKeeps, DetailKeeps DEF PageNext
  <1> QED BY <1>1, <1>2, PTL DEF PageSpec

LEMMA PageIsAPart == ServiceSpec => PageSpec
  <1>1. ServiceInit => PageInit BY DEF ServiceInit
  <1>2. [ServiceNext]_serviceVars => [PageNext]_pageVars
    BY DEF ServiceNext, serviceVars, JobsStep, TakedownStep, PageStep,
           WindowStep, AdmissionStep, PageImagesStep, EntityDetailStep, PdfViewStep, PlayerStep
  <1> QED BY <1>1, <1>2, PTL DEF ServiceSpec, PageSpec

LEMMA PageShowsTheSearch == PageInvariant => ResultsAreOfTheAddress /\ SpinnersEnd
  <1> SUFFICES ASSUME PageInvariant  PROVE ResultsAreOfTheAddress BY DEF PageInvariant
  <1> SUFFICES ASSUME searched, ~loading, ~debounce, results # <<>>
               PROVE  active = address.filters /\ \A i \in DOMAIN results : results[i] = <<active, i>>
    BY DEF ResultsAreOfTheAddress
  <1>1. Live /\ Fetches = {} BY DEF PageInvariant, Quiet, CallsAreAlone
  <1> QED BY <1>1 DEF Live, ListIsInOrder
-----------------------------------------------------------------------------
(* The view of a PDF. Entries and requests, wherever they stand while one  *)
(* event is worked off: what is held is of a page that has an entry, an    *)
(* entry is of the address that is shown and an image of a page that is    *)
(* there, a request nobody aborted is of the address that is shown, and    *)
(* each address has one request beyond the end at most.                    *)
Entry == [state: {"nothing", "loading", "image", "error"}, of: {"none", "motion", "document"}]

EntriesAreOf(entries, held, at) ==
    /\ entries \in [AllPages -> Entry] /\ held = [p \in AllPages |-> held[p]]
    /\ \A p \in AllPages :
          /\ held[p] # 0 => entries[p] # NoEntry
          /\ entries[p] # NoEntry => entries[p].of = at /\ entries[p].state # "nothing"
          /\ entries[p].state = "image" => p <= PdfLength /\ at = "document"

RequestIsOf(r, at) ==
    /\ r = [page |-> r.page, of |-> r.of, step |-> r.step, aborted |-> r.aborted]
    /\ r.page \in AllPages /\ r.of \in {"motion", "document"}
    /\ r.step # "ended" /\ ~r.aborted => r.of = at
    /\ r.step = "decoding" => at = "document" /\ r.of = at /\ r.page <= PdfLength

RequestsAreOf(requests, at) == \A i \in DOMAIN requests : RequestIsOf(requests[i], at)

OneBeyond(requests) ==
    \A i, j \in DOMAIN requests :
        /\ requests[i].page > PdfLength /\ requests[j].page > PdfLength
        /\ requests[i].of = requests[j].of
        => i = j

Sound(v, at) ==
    EntriesAreOf(v.entries, v.held, at) /\ RequestsAreOf(v.requests, at) /\ OneBeyond(v.requests)

(* A motion is asked for once, and that request is held until it ends.     *)
MotionHasNoPdf ==
    /\ pdfAddress = "none" => DOMAIN pageRequests = {} /\ pageCount = 0
    /\ pdfAddress = "motion" =>
          /\ pageCount = 0
          /\ \A i \in DOMAIN pageRequests :
                LET r == pageRequests[i] IN
                r.of = "motion" /\ ~r.aborted /\ (r.step # "ended" => controllers[r.page] = i)

ReaderIsSomewhere ==
    /\ initialPage \in AskedPages /\ pageCount \in {0, PdfLength}
    /\ activePage \in {0} \cup AllPages
    /\ activePage # 0 => pageEntries[activePage] # NoEntry
    /\ pdfAddress \in {"none", "motion", "document"}

PagesAreSound == Sound(Now, pdfAddress)
PdfInvariant == PagesAreSound /\ ReaderIsSomewhere /\ MotionHasNoPdf

LEMMA AView ==
    ASSUME NEW e, NEW h, NEW r
    PROVE  View(e, h, r).entries = e /\ View(e, h, r).held = h /\ View(e, h, r).requests = r
  BY DEF View

LEMMA BecomesSound ==
    ASSUME NEW v, Becomes(v), Sound(v, pdfAddress')
    PROVE  PagesAreSound'
  <1>1. pageEntries' = v.entries /\ controllers' = v.held /\ pageRequests' = v.requests
    BY DEF Becomes
  <1> QED BY <1>1 DEF PagesAreSound, Now, View, Sound, EntriesAreOf, RequestsAreOf, RequestIsOf, OneBeyond

LEMMA PdfPages ==
    /\ PdfLength \in Nat /\ PdfLength >= 1
    /\ \A p \in AllPages : p \in Nat /\ p >= 1
    /\ \A p \in 1 .. PdfLength : p \in AllPages
    /\ AskedPages \subseteq AllPages
  BY PdfViewAssumption DEF AllPages

(* pageLookahead() and pageCacheRange() both hold the page itself.         *)
LEMMA PageIsInReach ==
    ASSUME NEW p \in AllPages, NEW count \in {0, PdfLength}, count # 0 => p <= PdfLength
    PROVE  /\ p \in Lookahead(p, count) /\ p \in CacheRange(p, count)
           /\ p <= PdfLength => Lookahead(p, count) \subseteq 1 .. PdfLength
  <1>1. CASE count = 0
    <2>1. Lookahead(p, count) = {p} /\ CacheRange(p, count) = Larger(1, p - CacheBuffer) .. p + CacheBuffer
      BY <1>1 DEF Lookahead, CacheRange
    <2> QED BY <2>1, PdfPages, PdfViewAssumption DEF Larger
  <1>2. CASE count = PdfLength /\ count # 0
    <2>1. Smaller(p, count) = p BY <1>2, PdfPages DEF Smaller
    <2>2. /\ Lookahead(p, count) = Around(p, FetchBehind, FetchAhead)
          /\ CacheRange(p, count) = Around(p, CacheBuffer, CacheBuffer)
      BY <1>2, <2>1 DEF Lookahead, CacheRange
    <2>3. ASSUME NEW b \in Nat, NEW a \in Nat
          PROVE  p \in Around(p, b, a) /\ Around(p, b, a) \subseteq 1 .. PdfLength
      BY <1>2, PdfPages DEF Around, Larger, Smaller
    <2> QED BY <2>2, <2>3, PdfViewAssumption
  <1> QED BY <1>1, <1>2
(* warmPages(): pages of the document are asked for, or one page of an     *)
(* address of which no page beyond the end was asked for yet.              *)
MayBeAskedFor(v, wanted, at) ==
    \/ \A p \in wanted : p <= PdfLength
    \/ /\ \A p, q \in wanted : p = q
       /\ \A i \in DOMAIN v.requests : v.requests[i].of = at => v.requests[i].page <= PdfLength

LEMMA WarmedEntries ==
    ASSUME NEW v, NEW wanted, NEW at \in {"motion", "document"}, Sound(v, at)
    PROVE  LET w == Warmed(v, wanted, at) IN
           /\ EntriesAreOf(w.entries, w.held, at)
           /\ \A p \in AllPages : p \in wanted \/ v.entries[p] # NoEntry => w.entries[p] # NoEntry
  <1> DEFINE missing == Missing(v, wanted)
             w == Warmed(v, wanted, at)
             Loading == [state |-> "loading", of |-> at]
  <1>1. /\ w.entries = [p \in AllPages |-> IF p \in missing THEN Loading ELSE v.entries[p]]
        /\ w.held = [p \in AllPages |-> IF p \in missing THEN Numbered(v, p, wanted) ELSE v.held[p]]
    BY AView DEF Warmed
  <1>2. Loading \in Entry /\ Loading # NoEntry /\ Loading.of = at /\ Loading.state = "loading"
    BY DEF Entry, NoEntry
  <1>3. \A p \in wanted \cap AllPages : p \notin missing => v.entries[p] # NoEntry
    BY DEF Missing, NoEntry, Sound, EntriesAreOf
  <1> HIDE DEF missing, w, Loading
  <1>4. EntriesAreOf(w.entries, w.held, at) BY <1>1, <1>2 DEF Sound, EntriesAreOf
  <1>5. \A p \in AllPages : p \in wanted \/ v.entries[p] # NoEntry => w.entries[p] # NoEntry
    BY <1>1, <1>2, <1>3
  <1> QED BY <1>4, <1>5 DEF w

LEMMA WarmedRequests ==
    ASSUME NEW v, NEW wanted, NEW at \in {"motion", "document"}, Sound(v, at),
           MayBeAskedFor(v, wanted, at)
    PROVE  LET w == Warmed(v, wanted, at) IN
           /\ RequestsAreOf(w.requests, at) /\ OneBeyond(w.requests)
           /\ \A i \in DOMAIN w.requests :
                 \/ i \in DOMAIN v.requests /\ w.requests[i] = v.requests[i]
                 \/ /\ w.requests[i].of = at /\ ~w.requests[i].aborted
                    /\ w.requests[i].page \in wanted \cap AllPages
                    /\ w.held[w.requests[i].page] = i
  <1> DEFINE missing == Missing(v, wanted)
             w == Warmed(v, wanted, at)
             Number(p) == Numbered(v, p, wanted)
             new == { Number(p) : p \in missing }
             Chosen(i) == CHOOSE p \in missing : Number(p) = i
  <1>1. /\ w.requests = [i \in DOMAIN v.requests \cup new |->
                            IF i \in new
                            THEN [page |-> Chosen(i), of |-> at, step |-> "fetching", aborted |-> FALSE]
                            ELSE v.requests[i]]
        /\ w.held = [p \in AllPages |-> IF p \in missing THEN Number(p) ELSE v.held[p]]
    BY AView DEF Warmed
  <1>2. \A i \in new : Chosen(i) \in missing /\ Number(Chosen(i)) = i OBVIOUS
  <1>3. missing \subseteq wanted \cap AllPages BY DEF Missing
  <1> HIDE DEF missing, w, Number, new, Chosen
  <1>4. DOMAIN w.requests = DOMAIN v.requests \cup new BY <1>1
  <1>5. ASSUME NEW i \in new
        PROVE  LET r == w.requests[i] IN
               /\ r = [page |-> Chosen(i), of |-> at, step |-> "fetching", aborted |-> FALSE]
               /\ r.page = Chosen(i) /\ r.of = at /\ r.step = "fetching" /\ ~r.aborted
    BY <1>1
  <1>6. \A i \in DOMAIN w.requests \ new : i \in DOMAIN v.requests /\ w.requests[i] = v.requests[i]
    BY <1>1
  <1>7. ASSUME NEW i \in new PROVE RequestIsOf(w.requests[i], at)
    BY <1>2, <1>3, <1>5 DEF RequestIsOf
  <1>8. RequestsAreOf(w.requests, at) BY <1>6, <1>7 DEF Sound, RequestsAreOf
  <1>9. OneBeyond(w.requests)
    <2>1. ASSUME NEW i \in new, NEW j \in DOMAIN w.requests,
                 w.requests[i].page > PdfLength, w.requests[j].page > PdfLength,
                 w.requests[i].of = w.requests[j].of
          PROVE  i = j
      <3>1. w.requests[i].page = Chosen(i) /\ Chosen(i) \in wanted /\ Chosen(i) \in Nat
            /\ w.requests[i].of = at
        BY <1>2, <1>3, <1>5, PdfPages
      <3>2. ~(\A p \in wanted : p <= PdfLength) BY <2>1, <3>1, PdfPages
      <3>3. /\ \A p, q \in wanted : p = q
            /\ \A k \in DOMAIN v.requests : v.requests[k].of = at => v.requests[k].page <= PdfLength
        BY <3>2 DEF MayBeAskedFor
      <3>4. CASE j \in new
        <4>1. Chosen(j) \in wanted BY <1>2, <1>3, <3>4
        <4> QED BY <3>1, <3>3, <4>1, <1>2, <3>4
      <3>5. CASE j \notin new
        <4>1. j \in DOMAIN v.requests /\ w.requests[j] = v.requests[j] BY <3>5, <1>6
        <4>2. w.requests[j].page \in Nat
          BY <1>8, PdfPages DEF RequestsAreOf, RequestIsOf
        <4>3. w.requests[j].page <= PdfLength BY <4>1, <3>1, <3>3, <2>1
        <4> QED BY <4>2, <4>3, <2>1, PdfPages
      <3> QED BY <3>4, <3>5
    <2> QED BY <2>1, <1>4, <1>6 DEF Sound, OneBeyond
  <1>10. \A i \in DOMAIN w.requests :
            \/ i \in DOMAIN v.requests /\ w.requests[i] = v.requests[i]
            \/ /\ w.requests[i].of = at /\ ~w.requests[i].aborted
               /\ w.requests[i].page \in wanted \cap AllPages
               /\ w.held[w.requests[i].page] = i
    <2> SUFFICES ASSUME NEW i \in new
                 PROVE  /\ w.requests[i].of = at /\ ~w.requests[i].aborted
                        /\ w.requests[i].page \in wanted \cap AllPages
                        /\ w.held[w.requests[i].page] = i
      BY <1>6
    <2> QED BY <1>1, <1>2, <1>3, <1>5
  <1> QED BY <1>8, <1>9, <1>10 DEF w

LEMMA WarmedIsAFunction ==
    ASSUME NEW v, NEW wanted, NEW at, NEW requests, requests = Warmed(v, wanted, at).requests
    PROVE  requests = [i \in DOMAIN requests |-> requests[i]]
  <1> DEFINE missing == Missing(v, wanted)
             Number(p) == Numbered(v, p, wanted)
             new == { Number(p) : p \in missing }
             Of(i) == IF i \in new
                      THEN [page |-> CHOOSE p \in missing : Number(p) = i, of |-> at,
                            step |-> "fetching", aborted |-> FALSE]
                      ELSE v.requests[i]
  <1>1. requests = [i \in DOMAIN v.requests \cup new |-> Of(i)] BY AView DEF Warmed
  <1> HIDE DEF Of, new
  <1> QED BY <1>1
(* trimPageCache(): an abort changes nothing else about a request.         *)
LEMMA AbortedRequests ==
    ASSUME NEW requests, NEW held, NEW pages, NEW at, RequestsAreOf(requests, at)
    PROVE  LET a == Aborted(requests, held, pages) IN
           /\ DOMAIN a = DOMAIN requests
           /\ \A i \in DOMAIN requests :
                 /\ a[i] = [page |-> requests[i].page, of |-> requests[i].of,
                            step |-> requests[i].step, aborted |-> a[i].aborted]
                 /\ a[i].aborted <=> (requests[i].aborted \/ \E p \in pages : held[p] = i)
  <1> DEFINE a == Aborted(requests, held, pages)
  <1>1. DOMAIN a = DOMAIN requests BY DEF Aborted
  <1>2. ASSUME NEW i \in DOMAIN requests
        PROVE  /\ a[i] = [page |-> requests[i].page, of |-> requests[i].of,
                          step |-> requests[i].step, aborted |-> a[i].aborted]
               /\ a[i].aborted <=> (requests[i].aborted \/ \E p \in pages : held[p] = i)
    <2> DEFINE r == requests[i]
    <2>1. r = [page |-> r.page, of |-> r.of, step |-> r.step, aborted |-> r.aborted]
      BY DEF RequestsAreOf, RequestIsOf
    <2>2. a[i] = IF \E p \in pages : held[p] = i THEN [r EXCEPT !.aborted = TRUE] ELSE r
      BY DEF Aborted
    <2> HIDE DEF a, r
    <2>3. CASE \E p \in pages : held[p] = i
      <3>1. a[i] = [page |-> r.page, of |-> r.of, step |-> r.step, aborted |-> TRUE]
        BY <2>1, <2>2, <2>3
      <3> QED BY <3>1, <2>3 DEF r
    <2>4. CASE ~ \E p \in pages : held[p] = i
      <3>1. a[i] = r BY <2>2, <2>4
      <3> QED BY <3>1, <2>1, <2>4 DEF r
    <2> QED BY <2>3, <2>4
  <1> QED BY <1>1, <1>2 DEF a

LEMMA AbortKeeps ==
    ASSUME NEW requests, NEW held, NEW pages, NEW at,
           RequestsAreOf(requests, at), OneBeyond(requests)
    PROVE  /\ RequestsAreOf(Aborted(requests, held, pages), at)
           /\ OneBeyond(Aborted(requests, held, pages))
  <1> DEFINE a == Aborted(requests, held, pages)
  <1>1. /\ DOMAIN a = DOMAIN requests
        /\ \A i \in DOMAIN requests :
              /\ a[i] = [page |-> requests[i].page, of |-> requests[i].of,
                         step |-> requests[i].step, aborted |-> a[i].aborted]
              /\ requests[i].aborted => a[i].aborted
    BY AbortedRequests
  <1> HIDE DEF a
  <1>2. ASSUME NEW i \in DOMAIN requests
        PROVE  /\ a[i].page = requests[i].page /\ a[i].of = requests[i].of
               /\ a[i].step = requests[i].step
    BY <1>1
  <1>3. ASSUME NEW i \in DOMAIN requests PROVE RequestIsOf(a[i], at)
    <2>1. RequestIsOf(requests[i], at) BY DEF RequestsAreOf
    <2>2. a[i] = [page |-> a[i].page, of |-> a[i].of, step |-> a[i].step, aborted |-> a[i].aborted]
      BY <1>1, <1>2
    <2> QED BY <1>1, <1>2, <2>1, <2>2 DEF RequestIsOf
  <1>4. RequestsAreOf(a, at) /\ OneBeyond(a)
    BY <1>1, <1>2, <1>3 DEF RequestsAreOf, OneBeyond
  <1> QED BY <1>4 DEF a

LEMMA TrimmedSound ==
    ASSUME NEW v, NEW at, Sound(v, at), NEW center, NEW count, NEW kept
    PROVE  LET t == Trimmed(v, center, count, kept) IN
           /\ Sound(t, at)
           /\ \A p \in AllPages : p \in CacheRange(center, count) => t.entries[p] = v.entries[p]
           /\ (\A p \in AllPages : v.entries[p] # NoEntry => p = kept)
              => t.held = v.held /\ \E none : none = {} /\ t.requests = Aborted(v.requests, v.held, none)
  <1> DEFINE dropped == { p \in AllPages : /\ v.entries[p] # NoEntry /\ p # kept
                                           /\ p \notin CacheRange(center, count) }
             t == Trimmed(v, center, count, kept)
  <1>1. /\ t.entries = [p \in AllPages |-> IF p \in dropped THEN NoEntry ELSE v.entries[p]]
        /\ t.held = [p \in AllPages |-> IF p \in dropped THEN 0 ELSE v.held[p]]
        /\ t.requests = Aborted(v.requests, v.held, dropped)
    BY AView DEF Trimmed
  <1>2. \A p \in AllPages : p \in CacheRange(center, count) => p \notin dropped OBVIOUS
  <1>3. (\A p \in AllPages : v.entries[p] # NoEntry => p = kept) => dropped = {} OBVIOUS
  <1>4. NoEntry \in Entry /\ NoEntry.state = "nothing" BY DEF NoEntry, Entry
  <1> HIDE DEF t, dropped
  <1>5. EntriesAreOf(t.entries, t.held, at) BY <1>1, <1>4 DEF Sound, EntriesAreOf
  <1>6. RequestsAreOf(t.requests, at) /\ OneBeyond(t.requests)
    BY <1>1, AbortKeeps DEF Sound
  <1>7. Sound(t, at) BY <1>5, <1>6 DEF Sound
  <1>8. \A p \in AllPages : p \in CacheRange(center, count) => t.entries[p] = v.entries[p]
    BY <1>1, <1>2
  <1>9. dropped = {} => t.held = v.held /\ \E none : none = {} /\ t.requests = Aborted(v.requests, v.held, none)
    BY <1>1 DEF Sound, EntriesAreOf
  <1> QED BY <1>3, <1>7, <1>8, <1>9 DEF t

(* ensurePageVisible(): the page is there afterwards.                      *)
LEMMA WarmedSound ==
    ASSUME NEW v, NEW wanted, NEW at \in {"motion", "document"}, Sound(v, at),
           MayBeAskedFor(v, wanted, at)
    PROVE  /\ Sound(Warmed(v, wanted, at), at)
           /\ \A p \in AllPages : p \in wanted \/ v.entries[p] # NoEntry =>
                 Warmed(v, wanted, at).entries[p] # NoEntry
  BY WarmedEntries, WarmedRequests DEF Sound

LEMMA VisibleSound ==
    ASSUME NEW v, NEW at \in {"motion", "document"}, Sound(v, at), NEW p \in AllPages,
           NEW count \in {0, PdfLength}, count # 0 => p <= PdfLength, NEW kept,
           p <= PdfLength \/ MayBeAskedFor(v, {p}, at)
    PROVE  /\ Sound(Visible(v, p, count, kept, at), at)
           /\ Visible(v, p, count, kept, at).entries[p] # NoEntry
  <1> DEFINE wanted == Lookahead(p, count)
             w == Warmed(v, wanted, at)
  <1>1. /\ p \in wanted /\ p \in CacheRange(p, count)
        /\ p <= PdfLength => wanted \subseteq 1 .. PdfLength
    BY PageIsInReach
  <1>2. ~(p <= PdfLength) => wanted = {p} BY DEF Lookahead
  <1> HIDE DEF wanted
  <1>3. MayBeAskedFor(v, wanted, at)
    <2>1. CASE p <= PdfLength BY <1>1, <2>1 DEF MayBeAskedFor
    <2>2. CASE ~(p <= PdfLength) BY <1>2, <2>2
    <2> QED BY <2>1, <2>2
  <1>4. Sound(w, at) /\ w.entries[p] # NoEntry BY <1>1, <1>3, WarmedSound
  <1> HIDE DEF w
  <1>5. Visible(v, p, count, kept, at) = Trimmed(w, p, count, kept)
    BY DEF Visible, w, wanted
  <1> QED BY <1>1, <1>4, <1>5, TrimmedSound
LEMMA NowIs == Now.entries = pageEntries /\ Now.held = controllers /\ Now.requests = pageRequests
  BY AView DEF Now

(* A request has brought something, and has ended.                         *)
LEMMA PutSound ==
    ASSUME NEW v, NEW at, Sound(v, at), NEW i \in DOMAIN v.requests, NEW state,
           state = "error" \/ (state = "image" /\ v.requests[i].step = "decoding"),
           v.requests[i].of = at, at \in {"motion", "document"}
    PROVE  /\ Sound(Put(v, i, state), at) /\ Put(v, i, state).requests = v.requests
           /\ Put(v, i, state).held = v.held
           /\ \A p \in AllPages : v.entries[p] # NoEntry => Put(v, i, state).entries[p] # NoEntry
  <1> DEFINE r == v.requests[i]
             u == Put(v, i, state)
             new == [state |-> state, of |-> r.of]
  <1>1. /\ u.entries = [v.entries EXCEPT ![r.page] = new] /\ u.held = v.held
        /\ u.requests = v.requests
    BY AView DEF Put
  <1>2. new \in Entry /\ new # NoEntry /\ new.of = at /\ new.state = state
    BY DEF Entry, NoEntry
  <1>3. r.page \in AllPages /\ (state = "image" => r.page <= PdfLength /\ at = "document")
    BY DEF Sound, RequestsAreOf, RequestIsOf
  <1>4. state \in {"error", "image"} OBVIOUS
  <1> HIDE DEF r, u, new
  <1>5. EntriesAreOf(u.entries, u.held, at)
    BY <1>1, <1>2, <1>3, <1>4 DEF Sound, EntriesAreOf
  <1>6. \A p \in AllPages : v.entries[p] # NoEntry => u.entries[p] # NoEntry
    BY <1>1, <1>2 DEF Sound, EntriesAreOf
  <1> QED BY <1>1, <1>5, <1>6 DEF Sound, u

(* A step of one request changes that request only.                        *)
LEMMA StepKeeps ==
    ASSUME NEW requests, NEW at, RequestsAreOf(requests, at), OneBeyond(requests),
           NEW i \in DOMAIN requests, NEW step,
           step = "decoding" => at = "document" /\ requests[i].of = at
                                /\ requests[i].page <= PdfLength,
           step = "ended" \/ requests[i].step # "ended"
    PROVE  LET s == [requests EXCEPT ![i].step = step] IN
           /\ RequestsAreOf(s, at) /\ OneBeyond(s) /\ DOMAIN s = DOMAIN requests
           /\ s[i].of = requests[i].of /\ s[i].aborted = requests[i].aborted
           /\ s[i].page = requests[i].page /\ s[i].step = step
           /\ \A j \in DOMAIN requests : j # i => s[j] = requests[j]
  <1> DEFINE r == requests[i]
             s == [requests EXCEPT ![i].step = step]
  <1>1. RequestIsOf(r, at) BY DEF RequestsAreOf
  <1>2. s[i] = [r EXCEPT !.step = step] /\ DOMAIN s = DOMAIN requests
        /\ \A j \in DOMAIN requests : j # i => s[j] = requests[j]
    OBVIOUS
  <1> HIDE DEF r, s
  <1>3. s[i] = [page |-> r.page, of |-> r.of, step |-> step, aborted |-> r.aborted]
    BY <1>1, <1>2 DEF RequestIsOf
  <1>4. s[i].page = r.page /\ s[i].of = r.of /\ s[i].step = step /\ s[i].aborted = r.aborted
    BY <1>3
  <1>5. RequestIsOf(s[i], at) BY <1>1, <1>3, <1>4 DEF RequestIsOf, r
  <1>6. RequestsAreOf(s, at) BY <1>2, <1>5 DEF RequestsAreOf
  <1>7. \A j \in DOMAIN requests : s[j].page = requests[j].page /\ s[j].of = requests[j].of
    BY <1>2, <1>4 DEF r
  <1>8. OneBeyond(s) BY <1>2, <1>7 DEF OneBeyond
  <1> QED BY <1>2, <1>4, <1>6, <1>8 DEF s, r

LEMMA EndedSound ==
    ASSUME NEW v, NEW at, Sound(v, at), NEW i \in DOMAIN v.requests
    PROVE  /\ Sound(PageEnded(v, i), at) /\ PageEnded(v, i).entries = v.entries
  <1> DEFINE u == PageEnded(v, i)
  <1>1. /\ u.entries = v.entries /\ u.held = [v.held EXCEPT ![v.requests[i].page] = 0]
        /\ u.requests = [v.requests EXCEPT ![i].step = "ended"]
    BY AView DEF PageEnded
  <1> HIDE DEF u
  <1>2. EntriesAreOf(u.entries, u.held, at) BY <1>1 DEF Sound, EntriesAreOf
  <1>3. RequestsAreOf(u.requests, at) /\ OneBeyond(u.requests)
    BY <1>1, StepKeeps DEF Sound
  <1> QED BY <1>1, <1>2, <1>3 DEF Sound, u

(* A request for a motion ends and lets go of its page: the others are     *)
(* held where they were.                                                   *)
LEMMA MotionRequestEnds ==
    ASSUME PagesAreSound, MotionHasNoPdf, NEW i \in DOMAIN pageRequests,
           pageRequests[i].step # "ended",
           UNCHANGED <<pdfAddress, pageCount>>,
           pageRequests' = [pageRequests EXCEPT ![i].step = "ended"],
           controllers' = [controllers EXCEPT ![pageRequests[i].page] = 0]
    PROVE  MotionHasNoPdf'
  <1>1. CASE pdfAddress = "motion"
    <2>1. RequestsAreOf(pageRequests, pdfAddress) /\ OneBeyond(pageRequests)
      BY NowIs DEF PagesAreSound, Sound
    <2>2. /\ DOMAIN pageRequests' = DOMAIN pageRequests
          /\ pageRequests'[i].of = pageRequests[i].of
          /\ pageRequests'[i].aborted = pageRequests[i].aborted
          /\ pageRequests'[i].step = "ended"
          /\ \A j \in DOMAIN pageRequests : j # i => pageRequests'[j] = pageRequests[j]
      BY <2>1, StepKeeps
    <2>3. ASSUME NEW j \in DOMAIN pageRequests, j # i, pageRequests[j].step # "ended"
          PROVE  controllers'[pageRequests[j].page] = j
      <3>1. controllers[pageRequests[j].page] = j /\ controllers[pageRequests[i].page] = i
        BY <1>1, <2>3 DEF MotionHasNoPdf
      <3> QED BY <3>1, <2>3
    <2> QED BY <1>1, <2>2, <2>3 DEF MotionHasNoPdf
  <1>2. CASE pdfAddress = "none" BY <1>2 DEF MotionHasNoPdf
  <1>3. CASE pdfAddress \notin {"none", "motion"} BY <1>3 DEF MotionHasNoPdf
  <1> QED BY <1>1, <1>2, <1>3
LEMMA ReaderStays ==
    ASSUME ReaderIsSomewhere, UNCHANGED <<pdfAddress, initialPage, pageCount, activePage>>,
           \A p \in AllPages : pageEntries[p] # NoEntry => pageEntries'[p] # NoEntry
    PROVE  ReaderIsSomewhere'
  <1>1. activePage \in AllPages \/ activePage = 0 BY DEF ReaderIsSomewhere
  <1> QED BY <1>1 DEF ReaderIsSomewhere

(* Each answer, and each abort that is noticed.                            *)
LEMMA RequestEnds ==
    ASSUME PdfInvariant, NEW i, AbortedRequestEnds(i) \/ PageRequestFails(i) \/ PageDecoded(i)
    PROVE  PdfInvariant'
  <1> DEFINE r == pageRequests[i]
  <1>0. /\ i \in DOMAIN pageRequests /\ r.step # "ended"
        /\ UNCHANGED <<pdfAddress, initialPage, pageCount, activePage>>
    BY DEF AbortedRequestEnds, PageRequestFails, PageDecoded, Underway
  <1>1. Sound(Now, pdfAddress) /\ i \in DOMAIN Now.requests /\ RequestIsOf(r, pdfAddress)
    BY <1>0, NowIs DEF PdfInvariant, PagesAreSound, Sound, RequestsAreOf
  <1>2. \E v : /\ Becomes(PageEnded(v, i)) /\ Sound(v, pdfAddress)
               /\ v.requests = pageRequests /\ v.held = controllers
               /\ \A p \in AllPages : pageEntries[p] # NoEntry => v.entries[p] # NoEntry
    <2>1. CASE AbortedRequestEnds(i) BY <2>1, <1>1, NowIs DEF AbortedRequestEnds
    <2>2. ASSUME NEW state, Becomes(PageEnded(Put(Now, i, state), i)), r.of = pdfAddress,
                 state = "error" \/ (state = "image" /\ r.step = "decoding")
          PROVE  \E v : /\ Becomes(PageEnded(v, i)) /\ Sound(v, pdfAddress)
                        /\ v.requests = pageRequests /\ v.held = controllers
                        /\ \A p \in AllPages : pageEntries[p] # NoEntry => v.entries[p] # NoEntry
      <3>1. pdfAddress \in {"motion", "document"} BY <1>1, <2>2 DEF RequestIsOf
      <3>2. /\ Sound(Put(Now, i, state), pdfAddress) /\ Put(Now, i, state).requests = pageRequests
            /\ Put(Now, i, state).held = controllers
            /\ \A p \in AllPages : pageEntries[p] # NoEntry => Put(Now, i, state).entries[p] # NoEntry
        BY <1>1, <2>2, <3>1, NowIs, PutSound
      <3> QED BY <2>2, <3>2
    <2>3. CASE PageRequestFails(i)
      BY <2>3, <2>2, <1>0, <1>1 DEF PageRequestFails, RequestIsOf
    <2>4. CASE PageDecoded(i) BY <2>4, <2>2, <1>1 DEF PageDecoded, RequestIsOf
    <2> QED BY <2>1, <2>3, <2>4
  <1>3. PICK v : /\ Becomes(PageEnded(v, i)) /\ Sound(v, pdfAddress)
                 /\ v.requests = pageRequests /\ v.held = controllers
                 /\ \A p \in AllPages : pageEntries[p] # NoEntry => v.entries[p] # NoEntry
    BY <1>2
  <1>4. Sound(PageEnded(v, i), pdfAddress') /\ PageEnded(v, i).entries = v.entries
    BY <1>0, <1>3, EndedSound
  <1>5. PagesAreSound' BY <1>3, <1>4, BecomesSound
  <1>6. /\ pageEntries' = v.entries
        /\ pageRequests' = [pageRequests EXCEPT ![i].step = "ended"]
        /\ controllers' = [controllers EXCEPT ![pageRequests[i].page] = 0]
    BY <1>3, <1>4, AView DEF Becomes, PageEnded
  <1>7. ReaderIsSomewhere' BY <1>0, <1>3, <1>6, ReaderStays DEF PdfInvariant
  <1>8. MotionHasNoPdf' BY <1>0, <1>6, MotionRequestEnds DEF PdfInvariant
  <1> QED BY <1>5, <1>7, <1>8 DEF PdfInvariant

(* What makes a page of the document visible.                              *)
LEMMA DocumentKeeps ==
    ASSUME PdfInvariant, NEW v, Sound(v, "document"), pdfAddress = "document",
           UNCHANGED pdfAddress, initialPage' \in AskedPages, pageCount' \in {0, PdfLength},
           NEW p \in 1 .. PdfLength, NEW wanted, wanted \subseteq 1 .. PdfLength, p \in wanted,
           activePage' = p,
           \/ Becomes(Warmed(v, wanted, pdfAddress))
           \/ \E kept, count : /\ Becomes(Trimmed(Warmed(v, wanted, pdfAddress), p, count, kept))
                               /\ p \in CacheRange(p, count)
    PROVE  PdfInvariant'
  <1> DEFINE w == Warmed(v, wanted, pdfAddress)
  <1>1. p \in AllPages BY PdfPages
  <1>2. MayBeAskedFor(v, wanted, "document")
    <2>1. \A q \in wanted : q <= PdfLength BY PdfPages
    <2> QED BY <2>1 DEF MayBeAskedFor
  <1>3. Sound(w, pdfAddress) /\ w.entries[p] # NoEntry BY <1>1, <1>2, WarmedSound
  <1> HIDE DEF w
  <1>4. \E u : Becomes(u) /\ Sound(u, pdfAddress) /\ u.entries[p] # NoEntry
    <2>1. ASSUME NEW kept, NEW count, Becomes(Trimmed(w, p, count, kept)),
                 p \in CacheRange(p, count)
          PROVE  \E u : Becomes(u) /\ Sound(u, pdfAddress) /\ u.entries[p] # NoEntry
      BY <1>1, <1>3, <2>1, TrimmedSound
    <2> QED BY <1>3, <2>1 DEF w
  <1>5. PICK u : Becomes(u) /\ Sound(u, pdfAddress) /\ u.entries[p] # NoEntry BY <1>4
  <1>6. PagesAreSound' BY <1>5, BecomesSound
  <1>7. ReaderIsSomewhere' /\ MotionHasNoPdf'
    BY <1>1, <1>5 DEF Becomes, ReaderIsSomewhere, MotionHasNoPdf
  <1> QED BY <1>6, <1>7 DEF PdfInvariant
LEMMA ImageIsRead ==
    ASSUME PdfInvariant, NEW p \in AllPages, ImageLoads(p) \/ ScrollTo(p)
    PROVE  PdfInvariant'
  <1>1. /\ Becomes(Visible(Now, p, pageCount, 0, pdfAddress)) /\ activePage' = p
        /\ UNCHANGED <<pdfAddress, initialPage, pageCount>>
    BY DEF ImageLoads, ScrollTo
  <1>2. pdfAddress = "document" /\ p <= PdfLength
    <2>1. CASE ImageLoads(p)
      BY <2>1, NowIs DEF ImageLoads, PdfInvariant, PagesAreSound, Sound, EntriesAreOf
    <2>2. CASE ScrollTo(p)
      BY <2>2, PdfPages DEF ScrollTo, PdfInvariant, ReaderIsSomewhere, MotionHasNoPdf
    <2> QED BY <2>1, <2>2
  <1>3. p \in 1 .. PdfLength /\ pageCount \in {0, PdfLength} /\ initialPage' \in AskedPages
    BY <1>1, <1>2, PdfPages DEF PdfInvariant, ReaderIsSomewhere
  <1>4. /\ p \in Lookahead(p, pageCount) /\ p \in CacheRange(p, pageCount)
        /\ Lookahead(p, pageCount) \subseteq 1 .. PdfLength
    BY <1>2, <1>3, PageIsInReach
  <1>5. Sound(Now, "document") BY <1>2 DEF PdfInvariant, PagesAreSound
  <1>6. Becomes(Trimmed(Warmed(Now, Lookahead(p, pageCount), pdfAddress), p, pageCount, 0))
    BY <1>1 DEF Visible
  <1>7. pageCount' \in {0, PdfLength} /\ UNCHANGED pdfAddress BY <1>1, <1>3
  <1> QED BY <1>1, <1>2, <1>3, <1>4, <1>5, <1>6, <1>7, DocumentKeeps

LEMMA JumpKeeps ==
    ASSUME PdfInvariant, NEW p \in AskedPages, JumpTo(p)
    PROVE  PdfInvariant'
  <1>1. CASE pdfAddress # "none" /\ pageCount > 0
    <2> DEFINE target == Smaller(pageCount, p)
               wanted == Lookahead(target, pageCount)
    <2>1. /\ pageCount = PdfLength /\ pdfAddress = "document"
      BY <1>1 DEF PdfInvariant, ReaderIsSomewhere, MotionHasNoPdf
    <2>2. target \in 1 .. PdfLength /\ target \in AllPages BY <2>1, PdfPages DEF Smaller
    <2>3. /\ activePage' = target /\ initialPage' = p
          /\ Becomes(IF target = activePage THEN Warmed(Now, wanted, pdfAddress)
                     ELSE Visible(Now, target, pageCount, pendingCenter, pdfAddress))
          /\ UNCHANGED <<pdfAddress, pageCount>>
      BY <1>1 DEF JumpTo
    <2> HIDE DEF target
    <2>4. /\ target \in wanted /\ target \in CacheRange(target, pageCount)
          /\ wanted \subseteq 1 .. PdfLength
      BY <2>1, <2>2, PageIsInReach
    <2>5. Sound(Now, "document") BY <2>1 DEF PdfInvariant, PagesAreSound
    <2>6. \/ Becomes(Warmed(Now, wanted, pdfAddress))
          \/ Becomes(Trimmed(Warmed(Now, wanted, pdfAddress), target, pageCount, pendingCenter))
      BY <2>3 DEF Visible
    <2> HIDE DEF wanted
    <2>7. pageCount' \in {0, PdfLength} /\ UNCHANGED pdfAddress /\ initialPage' \in AskedPages
      BY <2>1, <2>3
    <2> QED BY <2>1, <2>2, <2>3, <2>4, <2>5, <2>6, <2>7, DocumentKeeps
  <1>2. CASE ~(pdfAddress # "none" /\ pageCount > 0)
    <2>1. UNCHANGED <<pdfAddress, pageCount, activePage, pageEntries, controllers, pageRequests>>
          /\ initialPage' \in AskedPages
      BY <1>2 DEF JumpTo
    <2> QED BY <2>1 DEF PdfInvariant, PagesAreSound, Now, View, Sound, EntriesAreOf, RequestsAreOf,
                        RequestIsOf, OneBeyond, ReaderIsSomewhere, MotionHasNoPdf
  <1> QED BY <1>1, <1>2

LEMMA AnswerKeeps ==
    ASSUME PdfInvariant, NEW i, NEW counted, PageAnswered(i, counted)
    PROVE  PdfInvariant'
  <1> DEFINE decoding == View(pageEntries, controllers,
                              [pageRequests EXCEPT ![i].step = "decoding"])
             first == pageCount = 0 /\ counted
             target == Target(PdfLength)
             wanted == Lookahead(target, PdfLength)
             r == pageRequests[i]
  <1>1. /\ i \in DOMAIN pageRequests /\ r.step # "ended" /\ ~r.aborted
        /\ r.of = "document" /\ r.page <= PdfLength
        /\ UNCHANGED <<pdfAddress, initialPage>>
    BY DEF PageAnswered, Underway
  <1>2. pdfAddress = "document" /\ RequestsAreOf(pageRequests, "document") /\ OneBeyond(pageRequests)
    BY <1>1, NowIs DEF PdfInvariant, PagesAreSound, Sound, RequestsAreOf, RequestIsOf
  <1>3. /\ decoding.entries = pageEntries /\ decoding.held = controllers
        /\ decoding.requests = [pageRequests EXCEPT ![i].step = "decoding"]
    BY AView
  <1>4. Sound(decoding, "document")
    <2>1. /\ RequestsAreOf([pageRequests EXCEPT ![i].step = "decoding"], "document")
          /\ OneBeyond([pageRequests EXCEPT ![i].step = "decoding"])
      BY <1>1, <1>2, StepKeeps
    <2>2. EntriesAreOf(pageEntries, controllers, "document")
      BY <1>2, NowIs DEF PdfInvariant, PagesAreSound, Sound
    <2> HIDE DEF decoding
    <2> QED BY <1>3, <2>1, <2>2 DEF Sound
  <1>5. target \in 1 .. PdfLength /\ target \in AllPages
    BY PdfPages DEF Target, Smaller, PdfInvariant, ReaderIsSomewhere
  <1>6. /\ pageCount' = IF first THEN PdfLength ELSE pageCount
        /\ activePage' = IF first THEN target ELSE activePage
        /\ IF first /\ target # activePage
           THEN Becomes(Visible(decoding, target, PdfLength, pendingCenter, pdfAddress))
           ELSE IF first THEN Becomes(Warmed(decoding, wanted, pdfAddress))
           ELSE Becomes(decoding)
    BY DEF PageAnswered
  <1> HIDE DEF decoding, target
  <1>7. CASE first
    <2>1. /\ target \in wanted /\ target \in CacheRange(target, PdfLength)
          /\ wanted \subseteq 1 .. PdfLength
      BY <1>5, PdfPages, PageIsInReach
    <2>2. \/ Becomes(Warmed(decoding, wanted, pdfAddress))
          \/ Becomes(Trimmed(Warmed(decoding, wanted, pdfAddress), target, PdfLength, pendingCenter))
      BY <1>6, <1>7 DEF Visible
    <2> HIDE DEF wanted
    <2>3. pageCount' \in {0, PdfLength} /\ initialPage' \in AskedPages /\ activePage' = target
          /\ UNCHANGED pdfAddress
      BY <1>1, <1>6, <1>7 DEF PdfInvariant, ReaderIsSomewhere
    <2> QED BY <1>2, <1>4, <1>5, <2>1, <2>2, <2>3, DocumentKeeps
  <1>8. CASE ~first
    <2>1. Becomes(decoding) /\ UNCHANGED <<pdfAddress, initialPage, pageCount, activePage>>
      BY <1>1, <1>6, <1>8
    <2>2. PagesAreSound' BY <1>2, <1>4, <2>1, BecomesSound
    <2>3. pageEntries' = pageEntries BY <1>3, <2>1 DEF Becomes
    <2>4. ReaderIsSomewhere' /\ MotionHasNoPdf'
      BY <1>2, <2>1, <2>3 DEF PdfInvariant, ReaderIsSomewhere, MotionHasNoPdf
    <2> QED BY <2>2, <2>4 DEF PdfInvariant
  <1> QED BY <1>7, <1>8
(* initialize(): from a motion to its attachment, whose view begins with   *)
(* every request for the motion aborted; or the first address of all.      *)
LEMMA AddressKeeps ==
    ASSUME PdfInvariant, NEW to \in {"motion", "document"}, ChangeAddress(to)
    PROVE  PdfInvariant'
  <1> DEFINE old == AbortAll(pageRequests, controllers)
             v == View(NoEntries, NoControllers, old)
             p == initialPage
  <1>1. /\ pdfAddress' = to /\ pageCount' = 0 /\ activePage' = p /\ initialPage' = p
        /\ Becomes(Visible(v, p, 0, p, to)) /\ pdfAddress \in {"none", "motion"}
        /\ to = "motion" => pdfAddress = "none"
    BY DEF ChangeAddress, Target, PdfInvariant, ReaderIsSomewhere
  <1>2. p \in AllPages BY PdfPages DEF PdfInvariant, ReaderIsSomewhere
  <1>3. v.entries = NoEntries /\ v.held = NoControllers /\ v.requests = old BY AView
  <1>4. RequestsAreOf(pageRequests, pdfAddress) /\ OneBeyond(pageRequests)
    BY NowIs DEF PdfInvariant, PagesAreSound, Sound
  <1>5. /\ DOMAIN old = DOMAIN pageRequests
        /\ \A i \in DOMAIN pageRequests :
              /\ old[i] = [page |-> pageRequests[i].page, of |-> pageRequests[i].of,
                           step |-> pageRequests[i].step, aborted |-> old[i].aborted]
              /\ old[i].aborted <=> (pageRequests[i].aborted
                                     \/ \E q \in AllPages : controllers[q] = i)
    BY <1>4, AbortedRequests DEF AbortAll
  <1>6. RequestsAreOf(old, pdfAddress) /\ OneBeyond(old)
    BY <1>4, AbortKeeps DEF AbortAll
  <1> HIDE DEF old, v
  <1>7. \A i \in DOMAIN old : /\ pdfAddress = "motion" /\ old[i].of = "motion"
                              /\ old[i].step # "ended" => old[i].aborted
                              /\ old[i].step # "decoding"
    <2> SUFFICES ASSUME NEW i \in DOMAIN old
                 PROVE  /\ pdfAddress = "motion" /\ old[i].of = "motion"
                        /\ old[i].step # "ended" => old[i].aborted
                        /\ old[i].step # "decoding"
      OBVIOUS
    <2>1. i \in DOMAIN pageRequests /\ pdfAddress = "motion"
      BY <1>1, <1>5 DEF PdfInvariant, MotionHasNoPdf
    <2>2. /\ old[i].of = pageRequests[i].of /\ old[i].step = pageRequests[i].step
      BY <1>5, <2>1
    <2>3. RequestIsOf(pageRequests[i], "motion") BY <1>4, <2>1 DEF RequestsAreOf
    <2>4. /\ pageRequests[i].of = "motion" /\ pageRequests[i].step # "decoding"
          /\ pageRequests[i].page \in AllPages
          /\ pageRequests[i].step # "ended" => controllers[pageRequests[i].page] = i
      BY <2>1, <2>3 DEF PdfInvariant, MotionHasNoPdf, RequestIsOf
    <2> QED BY <1>5, <2>1, <2>2, <2>4
  <1>8. RequestsAreOf(old, to) BY <1>6, <1>7 DEF RequestsAreOf, RequestIsOf
  <1>9. EntriesAreOf(NoEntries, NoControllers, to)
    BY DEF EntriesAreOf, NoEntries, NoControllers, NoEntry, Entry
  <1>10. Sound(v, to) BY <1>3, <1>6, <1>8, <1>9 DEF Sound
  <1>11. MayBeAskedFor(v, {p}, to) BY <1>1, <1>3, <1>7 DEF MayBeAskedFor
  <1>12. /\ Sound(Visible(v, p, 0, p, to), to) /\ Visible(v, p, 0, p, to).entries[p] # NoEntry
    BY <1>2, <1>10, <1>11, VisibleSound
  <1>13. PagesAreSound' BY <1>1, <1>12, BecomesSound
  <1>14. ReaderIsSomewhere'
    <2>1. pageEntries'[p] # NoEntry BY <1>1, <1>12 DEF Becomes
    <2> QED BY <1>1, <1>2, <2>1 DEF ReaderIsSomewhere, PdfInvariant
  <1>15. MotionHasNoPdf'
    <2>1. CASE to = "document" BY <1>1, <2>1 DEF MotionHasNoPdf
    <2>2. CASE to = "motion"
      <3> DEFINE w == Warmed(v, {p}, to)
                 t == Trimmed(w, p, 0, p)
      <3>1. Visible(v, p, 0, p, to) = t BY DEF Visible, Lookahead
      <3>2. DOMAIN v.requests = {} BY <1>1, <1>3, <1>7, <2>2
      <3>3. Sound(w, to) BY <1>10, <1>11, WarmedSound
      <3>4. \A i \in DOMAIN w.requests :
               /\ w.requests[i].of = "motion" /\ ~w.requests[i].aborted
               /\ w.held[w.requests[i].page] = i
        BY <1>10, <1>11, <2>2, <3>2, WarmedRequests
      <3>5. \A q \in AllPages : w.entries[q] # NoEntry => q = p
        BY <1>3, AView DEF Warmed, Missing, NoEntries
      <3>10. w.requests = [i \in DOMAIN w.requests |-> w.requests[i]]
        BY WarmedIsAFunction
      <3> HIDE DEF w
      <3>6. t.held = w.held /\ \E none : none = {} /\ t.requests = Aborted(w.requests, w.held, none)
        BY <3>3, <3>5, TrimmedSound
      <3>7. PICK none : none = {} /\ t.requests = Aborted(w.requests, w.held, none)
        BY <3>6
      <3>8. t.requests = w.requests
        <4>1. RequestsAreOf(w.requests, to) BY <3>3 DEF Sound
        <4>2. t.requests = [i \in DOMAIN w.requests |-> w.requests[i]]
          BY <3>7 DEF Aborted
        <4> QED BY <4>2, <3>10
      <3>9. pageRequests' = w.requests /\ controllers' = w.held
        BY <1>1, <3>1, <3>6, <3>8 DEF Becomes
      <3> QED BY <1>1, <2>2, <3>4, <3>9 DEF MotionHasNoPdf
    <2> QED BY <2>1, <2>2
  <1> QED BY <1>13, <1>14, <1>15 DEF PdfInvariant

(* The invariant of the view, over every order in which addresses change,  *)
(* pages are read and requests are answered, aborted or fail.              *)
LEMMA PdfBegins == PdfViewInit => PdfInvariant
  <1> SUFFICES ASSUME PdfViewInit PROVE PdfInvariant OBVIOUS
  <1>1. EntriesAreOf(pageEntries, controllers, pdfAddress)
    BY DEF PdfViewInit, EntriesAreOf, NoEntries, NoControllers, NoEntry, Entry
  <1>2. DOMAIN pageRequests = {} BY DEF PdfViewInit
  <1>3. PagesAreSound
    BY <1>1, <1>2, NowIs DEF PagesAreSound, Sound, RequestsAreOf, OneBeyond
  <1> QED BY <1>2, <1>3 DEF PdfViewInit, PdfInvariant, ReaderIsSomewhere, MotionHasNoPdf

LEMMA PdfKeeps == PdfInvariant /\ [PdfViewNext]_pdfViewVars => PdfInvariant'
  <1>1. ASSUME PdfInvariant, PdfViewNext PROVE PdfInvariant'
    BY <1>1, AddressKeeps, RequestEnds, AnswerKeeps, ImageIsRead, JumpKeeps DEF PdfViewNext
  <1>2. ASSUME PdfInvariant, UNCHANGED pdfViewVars PROVE PdfInvariant'
    BY <1>2 DEF pdfViewVars, PdfInvariant, PagesAreSound, Now, View, Sound, EntriesAreOf,
                RequestsAreOf, RequestIsOf, OneBeyond, ReaderIsSomewhere, MotionHasNoPdf
  <1> QED BY <1>1, <1>2

THEOREM PdfIsSound == PdfViewSpec => []PdfInvariant
  BY PdfBegins, PdfKeeps, PTL DEF PdfViewSpec

LEMMA PdfShowsThePage == PdfInvariant => ReadPageIsThere
  <1> SUFFICES ASSUME PdfInvariant PROVE ReadPageIsThere OBVIOUS
  <1>1. EntriesAreOf(pageEntries, controllers, pdfAddress) /\ OneBeyond(pageRequests)
        /\ RequestsAreOf(pageRequests, pdfAddress)
    BY NowIs DEF PdfInvariant, PagesAreSound, Sound
  <1>2. activePage # 0 => pageEntries[activePage].state # "nothing"
    BY <1>1 DEF PdfInvariant, ReaderIsSomewhere, EntriesAreOf
  <1>3. \A p \in AllPages : pageEntries[p] # NoEntry => pageEntries[p].of = pdfAddress
    BY <1>1 DEF EntriesAreOf
  <1>4. ASSUME NEW i \in DOMAIN pageRequests, NEW j \in DOMAIN pageRequests, j # i,
               pageRequests[i].page > PdfLength, pageRequests[j].of = pageRequests[i].of
        PROVE  pageRequests[j].page <= PdfLength
    <2>1. pageRequests[j].page \in Nat BY <1>1, PdfPages DEF RequestsAreOf, RequestIsOf
    <2> QED BY <1>1, <1>4, <2>1, PdfPages DEF OneBeyond
  <1> QED BY <1>2, <1>3, <1>4 DEF ReadPageIsThere

(* In a run of all components the view takes its own steps or none.        *)
LEMMA PdfIsAPart == ServiceSpec => PdfViewSpec
  <1>1. ServiceInit => PdfViewInit BY DEF ServiceInit
  <1>2. [ServiceNext]_serviceVars => [PdfViewNext]_pdfViewVars
    BY DEF ServiceNext, serviceVars, JobsStep, TakedownStep, PageStep,
           WindowStep, AdmissionStep, PageImagesStep, EntityDetailStep, PdfViewStep, PlayerStep
  <1> QED BY <1>1, <1>2, PTL DEF ServiceSpec, PdfViewSpec
-----------------------------------------------------------------------------
(* The player of a recording. A sum of natural numbers is one, so there is *)
(* a number of hits.                                                       *)
LEMMA SumIsNatural ==
    ASSUME NEW C, IsFiniteSet(C), NEW count \in [C -> Nat], NEW f, SumsOf(f, count, C)
    PROVE  f[C] \in Nat
  <1> DEFINE Bad == { Cardinality(S) : S \in { T \in SUBSET C : f[T] \notin Nat } }
  <1>0. \A S \in SUBSET C : Cardinality(S) \in Nat BY FS_Subset, FS_CardinalityType
  <1>1. \A S \in SUBSET C : f[S] \in Nat
    <2> SUFFICES ASSUME Bad # {} PROVE FALSE OBVIOUS
    <2>0. Bad \in SUBSET Nat BY <1>0
    <2>1. PICK n \in Bad : \A m \in Bad : n <= m
      <3> HIDE DEF Bad
      <3> QED BY <2>0, LeastNumber
    <2>2. PICK S \in SUBSET C : f[S] \notin Nat /\ Cardinality(S) = n BY <2>1
    <2>3. f[S] = Summed(f, count, S) BY DEF SumsOf
    <2>4. S # {} BY <2>2, <2>3 DEF Summed
    <2> DEFINE c == CHOOSE c \in S : TRUE
    <2>5. /\ c \in S /\ S \ {c} \in SUBSET C
          /\ Cardinality(S) \in Nat /\ Cardinality(S \ {c}) = Cardinality(S) - 1
      BY <2>4, OneTaken
    <2>6. f[S] = count[c] + f[S \ {c}] BY <2>3, <2>4 DEF Summed
    <2> HIDE DEF c
    <2>7. f[S \ {c}] \in Nat
      <3> SUFFICES ASSUME f[S \ {c}] \notin Nat PROVE FALSE OBVIOUS
      <3>1. Cardinality(S \ {c}) \in Bad BY <2>5
      <3> HIDE DEF Bad
      <3>2. n <= Cardinality(S \ {c}) BY <3>1, <2>1
      <3> QED BY <3>2, <2>2, <2>5
    <2>8. count[c] \in Nat BY <2>5
    <2> QED BY <2>2, <2>6, <2>7, <2>8
  <1> QED BY <1>1

HitsAmong(t, K) == [k \in K |-> HitsIn[t][k]]

LEMMA HitsIsASum ==
    ASSUME NEW t \in Terms, NEW n
    PROVE  Hits(t, n) = (CHOOSE f : SumsOf(f, HitsAmong(t, 1 .. n), 1 .. n))[1 .. n]
  <1> t # NoTerm BY RecordingPlayerAssumption
  <1>1. \A f : f = [S \in SUBSET (1 .. n) |->
                       IF S = {} THEN 0
                       ELSE LET c == CHOOSE c \in S : TRUE
                            IN  HitsIn[t][c] + f[S \ {c}]]
               <=> SumsOf(f, HitsAmong(t, 1 .. n), 1 .. n)
    BY DEF SumsOf, Summed, HitsAmong
  <1> QED BY <1>1 DEF Hits, MapThenSumSet, MapThenFoldSet

LEMMA HitsAreCounted ==
    ASSUME NEW t \in FindQueries
    PROVE  MatchCount(t) \in Nat
  <1>1. CASE t = NoTerm BY <1>1 DEF MatchCount, Hits
  <1>2. CASE t \in Terms
    <2> DEFINE n == Cardinality(SegmentsOf)
               said == HitsAmong(t, 1 .. n)
    <2>1. HitsIn[t] \in Seq(Nat) /\ Len(HitsIn[t]) = Len(HitsIn[CHOOSE u \in Terms : TRUE])
      BY <1>2, RecordingPlayerAssumption
    <2>2. n = Len(HitsIn[t]) /\ n \in Nat
      <3> DEFINE m == Len(HitsIn[t])
      <3>1. m \in Nat /\ SegmentsOf = 1 .. m BY <2>1 DEF SegmentsOf
      <3> HIDE DEF m
      <3>2. Cardinality(1 .. m) = m BY <3>1, FS_Interval
      <3> QED BY <3>1, <3>2 DEF m
    <2>3. IsFiniteSet(1 .. n) BY <2>2, FS_Interval
    <2>4. said \in [1 .. n -> Nat]
      <3>1. \A k \in 1 .. n : HitsIn[t][k] \in Nat
        <4> HIDE DEF n
        <4> QED BY <2>1, <2>2, ElementOfSeq
      <3> QED BY <3>1 DEF HitsAmong
    <2> HIDE DEF n, said
    <2>5. PICK g : SumsOf(g, said, 1 .. n)
      <3>1. said \in [1 .. n -> Int] BY <2>4
      <3> QED BY <3>1, <2>3, SumsExist
    <2>6. SumsOf(CHOOSE f : SumsOf(f, said, 1 .. n), said, 1 .. n) BY <2>5
    <2>7. (CHOOSE f : SumsOf(f, said, 1 .. n))[1 .. n] \in Nat
      BY <2>3, <2>4, <2>6, SumIsNatural
    <2> QED BY <1>2, <2>7, HitsIsASum DEF n, said, MatchCount
  <1> QED BY <1>1, <1>2 DEF FindQueries

FindBarIsTyped ==
    /\ findBar = [open |-> findBar.open, query |-> findBar.query, match |-> findBar.match]
    /\ findBar.query \in FindQueries /\ findBar.match \in Nat

(* The find bar is primed for the query that came in, and no call that     *)
(* would open it waits once the reader closed it.                          *)
PlayerInvariant ==
    /\ JumpsLand /\ FindBarIsTyped
    /\ incoming \in FindQueries /\ priming \in Seq(FindQueries)
    /\ primedFor = incoming
    /\ priming # <<>> => ~dismissed

JumpIsHeld ==
    /\ asked # 0 => IF timeline THEN playhead = asked ELSE pendingSeek.to = asked
    /\ timeline => pendingSeek = NoJump

MatchIsThere ==
    findBar.match < MatchCount(findBar.query)
    \/ (findBar.match = 0 /\ MatchCount(findBar.query) = 0)

BarIsTrue == MatchIsThere /\ FindBarIsTyped /\ (dismissed => ~findBar.open)

PrimesAreHeeded ==
    /\ incoming \in FindQueries /\ priming \in Seq(FindQueries)
    /\ primedFor = incoming
    /\ priming # <<>> => ~dismissed

LEMMA PlayerParts == PlayerInvariant <=> JumpIsHeld /\ BarIsTrue /\ PrimesAreHeeded
  BY DEF PlayerInvariant, JumpIsHeld, BarIsTrue, MatchIsThere, PrimesAreHeeded, JumpsLand
LEMMA JumpsAreHeld ==
    ASSUME JumpIsHeld, PlayerNext
    PROVE  JumpIsHeld'
  <1>1. ASSUME NEW k, NEW play, MoveTo(k, play) PROVE JumpIsHeld'
    BY <1>1 DEF MoveTo, Held, JumpIsHeld, NoJump
  <1>2. ASSUME UNCHANGED videoVars PROVE JumpIsHeld'
    BY <1>2 DEF videoVars, JumpIsHeld, NoJump
  <1>3. ASSUME MetadataLoads PROVE JumpIsHeld'
    BY <1>3 DEF MetadataLoads, JumpIsHeld, NoJump
  <1>4. ASSUME NEW supported, LibraryArrives(supported) PROVE JumpIsHeld'
    BY <1>4 DEF LibraryArrives, JumpIsHeld, NoJump
  <1>5. ASSUME NEW k \in SegmentsOf, PlayOn(k) PROVE JumpIsHeld'
    BY <1>5 DEF PlayOn, JumpIsHeld, NoJump
  <1>6. ASSUME Prime PROVE JumpIsHeld' BY <1>6, <1>1, <1>2 DEF Prime
  <1>7. ASSUME NEW delta, StepMatch(delta) PROVE JumpIsHeld' BY <1>7, <1>1 DEF StepMatch
  <1>8. ASSUME NEW k, Seek(k) PROVE JumpIsHeld' BY <1>8, <1>1 DEF Seek
  <1>9. ASSUME Rerender \/ OpenSearch \/ CloseSearch \/ (\E query \in FindQueries : TypeTerm(query) \/ SearchSite(query))
        PROVE JumpIsHeld'
    BY <1>9, <1>2 DEF Rerender, OpenSearch, CloseSearch, TypeTerm, SearchSite
  <1> QED BY <1>3, <1>4, <1>5, <1>6, <1>7, <1>8, <1>9 DEF PlayerNext

LEMMA PrimesStay ==
    ASSUME PrimesAreHeeded, PlayerNext
    PROVE  PrimesAreHeeded'
  <1>1. ASSUME UNCHANGED <<primeVars, dismissed>> PROVE PrimesAreHeeded'
    BY <1>1 DEF primeVars, PrimesAreHeeded
  <1>2. ASSUME MetadataLoads \/ (\E supported \in BOOLEAN : LibraryArrives(supported))
               \/ (\E k \in SegmentsOf : Seek(k) \/ PlayOn(k))
               \/ (\E query \in FindQueries : TypeTerm(query))
               \/ (\E delta \in {-1, 1} : StepMatch(delta))
        PROVE  PrimesAreHeeded'
    BY <1>2, <1>1 DEF MetadataLoads, LibraryArrives, Seek, PlayOn, TypeTerm, StepMatch
  <1>3. ASSUME Rerender PROVE PrimesAreHeeded'
    BY <1>3, <1>1 DEF Rerender, PrimeOnce, NewQuery, PrimesAreHeeded, primeVars
  <1>4. ASSUME OpenSearch \/ CloseSearch PROVE PrimesAreHeeded'
    BY <1>4 DEF OpenSearch, CloseSearch, PrimesAreHeeded, primeVars
  <1>5. ASSUME Prime PROVE PrimesAreHeeded'
    <2>1. Tail(priming) \in Seq(FindQueries)
      BY <1>5, HeadTailProperties DEF Prime, PrimesAreHeeded
    <2> QED BY <1>5, <2>1 DEF Prime, PrimesAreHeeded
  <1>6. ASSUME NEW query \in FindQueries, SearchSite(query) PROVE PrimesAreHeeded'
    <2>1. Append(priming, query) \in Seq(FindQueries)
      BY AppendProperties DEF PrimesAreHeeded
    <2> QED BY <1>6, <2>1 DEF SearchSite, PrimeOnce, NewQuery, PrimesAreHeeded
  <1> QED BY <1>2, <1>3, <1>4, <1>5, <1>6 DEF PlayerNext

LEMMA Modulo ==
    ASSUME NEW m \in Int, NEW n \in Nat, n > 0
    PROVE  m % n \in Nat /\ m % n < n
  OBVIOUS

LEMMA BarStaysTrue ==
    ASSUME BarIsTrue, PrimesAreHeeded, PlayerNext
    PROVE  BarIsTrue'
  <1>0. MatchCount(findBar.query) \in Nat
    BY HitsAreCounted DEF BarIsTrue, FindBarIsTyped
  <1>1. ASSUME UNCHANGED findBar, dismissed' => dismissed PROVE BarIsTrue'
    BY <1>1 DEF BarIsTrue, MatchIsThere, FindBarIsTyped
  <1>2. ASSUME MetadataLoads \/ (\E supported \in BOOLEAN : LibraryArrives(supported))
               \/ (\E k \in SegmentsOf : Seek(k) \/ PlayOn(k))
               \/ Rerender
        PROVE  BarIsTrue'
    <2>1. UNCHANGED <<findBar, dismissed>>
      BY <1>2 DEF MetadataLoads, LibraryArrives, Seek, PlayOn, Rerender
    <2> QED BY <2>1, <1>1
  <1>8. ASSUME NEW query, SearchSite(query) PROVE BarIsTrue'
    <2>1. UNCHANGED findBar /\ dismissed' = FALSE BY <1>8 DEF SearchSite, videoVars
    <2> QED BY <2>1, <1>1
  <1>3. ASSUME OpenSearch PROVE BarIsTrue'
    BY <1>3 DEF OpenSearch, BarIsTrue, MatchIsThere, FindBarIsTyped
  <1>4. ASSUME CloseSearch PROVE BarIsTrue'
    BY <1>4 DEF CloseSearch, BarIsTrue, MatchIsThere, FindBarIsTyped, MatchCount, Hits, FindQueries
  <1>5. ASSUME Prime PROVE BarIsTrue'
    <2> DEFINE query == Head(priming)
    <2>1. query \in FindQueries BY <1>5, HeadTailProperties DEF Prime, PrimesAreHeeded
    <2>2. MatchCount(query) \in Nat BY <2>1, HitsAreCounted
    <2>3. dismissed' = dismissed /\ ~dismissed BY <1>5 DEF Prime, PrimesAreHeeded
    <2>4. CASE MatchCount(query) = 0 BY <1>5, <1>1, <2>3, <2>4 DEF Prime
    <2>5. CASE MatchCount(query) # 0
      <3>1. findBar' = [open |-> TRUE, query |-> query, match |-> 0]
        BY <1>5, <2>5 DEF Prime
      <3> HIDE DEF query
      <3> QED BY <2>1, <2>2, <2>3, <2>5, <3>1 DEF BarIsTrue, MatchIsThere, FindBarIsTyped
    <2> QED BY <2>4, <2>5
  <1>6. ASSUME NEW query \in FindQueries, TypeTerm(query) PROVE BarIsTrue'
    <2>1. MatchCount(query) \in Nat BY HitsAreCounted
    <2>2. /\ findBar.open /\ dismissed' = dismissed
          /\ findBar' = [open |-> findBar.open, query |-> query,
                         match |-> MatchWithin(findBar.match, query)]
      BY <1>6 DEF TypeTerm, BarIsTrue, FindBarIsTyped
    <2> QED BY <2>1, <2>2 DEF MatchWithin, BarIsTrue, MatchIsThere, FindBarIsTyped
  <1>7. ASSUME NEW delta \in {-1, 1}, StepMatch(delta) PROVE BarIsTrue'
    <2> DEFINE count == MatchCount(findBar.query)
               match == (findBar.match + delta + count) % count
    <2>1. count \in Nat /\ count > 0 BY <1>0, <1>7 DEF StepMatch
    <2>2. findBar.match + delta + count \in Int BY <2>1 DEF BarIsTrue, FindBarIsTyped
    <2>3. match \in Nat /\ match < count
      <3> HIDE DEF count
      <3> QED BY <2>1, <2>2, Modulo
    <2>4. /\ findBar.open /\ dismissed' = dismissed
          /\ findBar' = [open |-> findBar.open, query |-> findBar.query, match |-> match]
      BY <1>7 DEF StepMatch, BarIsTrue, FindBarIsTyped
    <2> HIDE DEF match
    <2> QED BY <2>3, <2>4 DEF BarIsTrue, MatchIsThere, FindBarIsTyped
  <1> QED BY <1>2, <1>3, <1>4, <1>5, <1>6, <1>7, <1>8 DEF PlayerNext

(* The invariant: the last jump asked for is where the video is or is      *)
(* held until it has a timeline, the find bar names a hit that exists, and *)
(* a closed one has no call that would open it again.                      *)
LEMMA PlayerBegins == PlayerInit => PlayerInvariant
  <1> SUFFICES ASSUME PlayerInit PROVE PlayerInvariant OBVIOUS
  <1>1. <<incoming>> \in Seq(FindQueries) BY DEF PlayerInit
  <1>2. MatchCount(NoTerm) = 0 BY DEF MatchCount, Hits
  <1> QED BY <1>1, <1>2 DEF PlayerInit, PlayerInvariant, JumpsLand, FindBarIsTyped, NoJump, FindQueries

LEMMA PlayerKeeps == PlayerInvariant /\ [PlayerNext]_playerVars => PlayerInvariant'
  <1>1. ASSUME PlayerInvariant, PlayerNext PROVE PlayerInvariant'
    <2>1. JumpIsHeld' /\ BarIsTrue' /\ PrimesAreHeeded'
      BY <1>1, PlayerParts, JumpsAreHeld, BarStaysTrue, PrimesStay
    <2> QED BY <2>1 DEF PlayerInvariant, JumpIsHeld, BarIsTrue, MatchIsThere, PrimesAreHeeded, JumpsLand
  <1>2. ASSUME PlayerInvariant, UNCHANGED playerVars PROVE PlayerInvariant'
    BY <1>2 DEF playerVars, PlayerInvariant, JumpsLand, FindBarIsTyped
  <1> QED BY <1>1, <1>2

THEOREM PlayerIsSound == PlayerSpec => []PlayerInvariant
  BY PlayerBegins, PlayerKeeps, PTL DEF PlayerSpec

(* In a run of all components the player takes its own steps or none.      *)
LEMMA PlayerIsAPart == ServiceSpec => PlayerSpec
  <1>1. ServiceInit => PlayerInit BY DEF ServiceInit
  <1>2. [ServiceNext]_serviceVars => [PlayerNext]_playerVars
    BY DEF ServiceNext, serviceVars, JobsStep, TakedownStep, PageStep,
           WindowStep, AdmissionStep, PageImagesStep, EntityDetailStep, PdfViewStep, PlayerStep
  <1> QED BY <1>1, <1>2, PTL DEF ServiceSpec, PlayerSpec
(* ScreensAreTrue: a list of results is that of the address, and ends; a   *)
(* page of an entity is that of some moment; the pages of a PDF are those  *)
(* around the reader; a recording is where the last jump asked.            *)
THEOREM ScreensTrue == ServiceSpec => []ScreensAreTrue
  <1>1. PlayerInvariant => JumpsLand BY DEF PlayerInvariant
  <1>2. /\ ResultsAreOfTheAddress /\ SpinnersEnd /\ DetailIsTrue /\ ReadPageIsThere /\ JumpsLand
        => ScreensAreTrue
    BY DEF ScreensAreTrue
  <1> QED BY <1>1, <1>2, PagesAreTrue, PageIsAPart, PageIsSound, PageShowsTheSearch,
             PdfIsAPart, PdfIsSound, PdfShowsThePage, PlayerIsAPart, PlayerIsSound, PTL
-----------------------------------------------------------------------------
(* The pages of a search. The results of the first rows, in the order of   *)
(* their first rows, are one sequence; a scan has a beginning of it, and   *)
(* so have the pages shown so far.                                         *)

(* A sequence of values, each computed from the one before.                *)
Computes(f, X, b, n, step) ==
    f \in [0 .. n -> X] /\ f[0] = b /\ \A k \in 1 .. n : f[k] = step[k][f[k - 1]]

LEMMA RecursionExists ==
    ASSUME NEW X, NEW b \in X, NEW n \in Nat, NEW step \in [1 .. n -> [X -> X]]
    PROVE  \E f : Computes(f, X, b, n, step)
  <1> DEFINE Upto(m, f) == f[0] = b /\ \A k \in 1 .. m : f[k] = step[k][f[k - 1]]
             Reach(m) == \E f \in [0 .. n -> X] : Upto(m, f)
             Bad == { m \in 0 .. n : ~Reach(m) }
  <1>1. Reach(0)
    <2> DEFINE f == [k \in 0 .. n |-> b]
    <2>1. f \in [0 .. n -> X] /\ f[0] = b OBVIOUS
    <2> HIDE DEF f
    <2>2. Upto(0, f) BY <2>1
    <2> QED BY <2>1, <2>2
  <1>2. ASSUME NEW m \in 0 .. n, m # n, NEW f \in [0 .. n -> X], Upto(m, f)
        PROVE  Reach(m + 1)
    <2>1. m \in Nat /\ m + 1 \in 1 .. n /\ m + 1 \in 0 .. n /\ f[m] \in X BY <1>2
    <2>2. step[m + 1][f[m]] \in X BY <2>1
    <2> DEFINE g == [f EXCEPT ![m + 1] = step[m + 1][f[m]]]
    <2>3. /\ g \in [0 .. n -> X] /\ g[m + 1] = step[m + 1][f[m]]
          /\ \A k \in 0 .. n : k # m + 1 => g[k] = f[k]
      BY <2>1, <2>2
    <2>4. g[0] = b BY <1>2, <2>1, <2>3
    <2>5. ASSUME NEW k \in 1 .. m + 1 PROVE g[k] = step[k][g[k - 1]]
      <3>1. k - 1 \in 0 .. n /\ k - 1 # m + 1 /\ k \in 0 .. n BY <2>1, <2>5
      <3>2. g[k - 1] = f[k - 1] BY <2>3, <3>1
      <3>3. CASE k = m + 1
        <4>1. k - 1 = m BY <2>1, <3>3
        <4> QED BY <2>3, <3>2, <3>3, <4>1
      <3>4. CASE k # m + 1
        <4>1. k \in 1 .. m /\ g[k] = f[k] BY <2>1, <2>3, <2>5, <3>1, <3>4
        <4> QED BY <1>2, <3>2, <4>1
      <3> QED BY <3>3, <3>4
    <2> HIDE DEF g
    <2> QED BY <2>3, <2>4, <2>5
  <1>3. Bad = {}
    <2> SUFFICES ASSUME Bad # {} PROVE FALSE OBVIOUS
    <2>1. Bad \in SUBSET Nat OBVIOUS
    <2>2. PICK m \in Bad : \A k \in Bad : m <= k
      <3> HIDE DEF Bad
      <3> QED BY <2>1, LeastNumber
    <2> HIDE DEF Reach
    <2>3. m \in 0 .. n /\ m # 0 /\ m \in Nat BY <1>1, <2>2
    <2>4. m - 1 \in 0 .. n /\ m - 1 \notin Bad /\ m - 1 # n /\ (m - 1) + 1 = m
      BY <2>2, <2>3
    <2>5. Reach(m - 1) BY <2>4
    <2>6. PICK f \in [0 .. n -> X] : Upto(m - 1, f) BY <2>5 DEF Reach
    <2>7. Reach((m - 1) + 1)
      <3> HIDE DEF Upto
      <3> QED BY <1>2, <2>4, <2>6
    <2> QED BY <2>2, <2>4, <2>7
  <1>4. n \in 0 .. n /\ n \notin Bad
    <2> HIDE DEF Bad
    <2> QED BY <1>3
  <1>5. Reach(n)
    <2> HIDE DEF Reach
    <2> QED BY <1>4
  <1> QED BY <1>5 DEF Computes

(* The result of the least row of those in a set of rows.                  *)
RowsOf(r) == { i \in DOMAIN index : index[i] = r }

LEMMA FirstRowIs ==
    ASSUME index \in Seq(Results), NEW k \in DOMAIN index
    PROVE  /\ FirstRow(index[k]) \in 1 .. k
           /\ index[FirstRow(index[k])] = index[k]
  <1> DEFINE r == index[k]
  <1>1. RowsOf(r) \in SUBSET Nat /\ k \in RowsOf(r) /\ DOMAIN index = 1 .. Len(index)
        /\ Len(index) \in Nat
    BY DEF RowsOf
  <1>2. PICK n \in RowsOf(r) : \A m \in RowsOf(r) : n <= m BY <1>1, LeastNumber
  <1>3. n \in DOMAIN index /\ index[n] = r /\ \A j \in 1 .. n - 1 : index[j] # r
    BY <1>1, <1>2 DEF RowsOf
  <1>4. FirstRow(r) \in DOMAIN index /\ index[FirstRow(r)] = r
        /\ \A j \in 1 .. FirstRow(r) - 1 : index[j] # r
    BY <1>3 DEF FirstRow
  <1>5. FirstRow(r) <= k BY <1>1, <1>4
  <1> QED BY <1>1, <1>4, <1>5

(* q is the results of the first n rows.                                   *)
ResultsOf(n) == { index[i] : i \in 1 .. n }
IsOrder(q, n) ==
    /\ q \in Seq(Results) /\ ToSet(q) = ResultsOf(n)
    /\ \A i, j \in DOMAIN q : i < j => FirstRow(q[i]) < FirstRow(q[j])

LEMMA OneMoreRow ==
    ASSUME index \in Seq(Results), NEW n \in Nat, n + 1 \in DOMAIN index, NEW q, IsOrder(q, n)
    PROVE  IsOrder(Met(q, index[n + 1]), n + 1)
  <1> DEFINE r == index[n + 1]
  <1>0. /\ n + 1 \in 1 .. Len(index) /\ Len(index) \in Nat /\ r \in Results
        /\ DOMAIN index = 1 .. Len(index)
    OBVIOUS
  <1>1. ResultsOf(n + 1) = ResultsOf(n) \cup {r} BY <1>0 DEF ResultsOf
  <1>2. q \in Seq(Results) /\ Len(q) \in Nat /\ DOMAIN q = 1 .. Len(q) BY DEF IsOrder
  <1>3. CASE Contains(q, r)
    <2>1. r \in ToSet(q) BY <1>2, <1>3 DEF Contains, ToSet
    <2>2. ResultsOf(n + 1) = ResultsOf(n) BY <1>1, <2>1 DEF IsOrder
    <2> QED BY <1>3, <2>2 DEF IsOrder, Met
  <1>4. CASE ~Contains(q, r)
    <2> DEFINE p == Append(q, r)
    <2>1. /\ p \in Seq(Results) /\ Len(p) = Len(q) + 1 /\ DOMAIN p = 1 .. Len(q) + 1
          /\ p[Len(q) + 1] = r /\ \A i \in 1 .. Len(q) : p[i] = q[i]
      BY <1>0, <1>2
    <2> HIDE DEF p
    <2>2. ToSet(p) = ToSet(q) \cup {r} BY <1>2, <2>1 DEF ToSet
    <2>3. r \notin ResultsOf(n) BY <1>2, <1>4 DEF Contains, ToSet, IsOrder
    <2>4. FirstRow(r) \in 1 .. n + 1 /\ index[FirstRow(r)] = r BY <1>0, FirstRowIs
    <2>5. FirstRow(r) = n + 1 BY <1>0, <2>3, <2>4 DEF ResultsOf
    <2>6. ASSUME NEW i \in 1 .. Len(q) PROVE FirstRow(q[i]) \in 1 .. n
      <3>1. q[i] \in ResultsOf(n) BY <1>2, <2>6 DEF ToSet, IsOrder
      <3>2. PICK k \in 1 .. n : q[i] = index[k] BY <3>1 DEF ResultsOf
      <3>3. k \in DOMAIN index BY <1>0, <3>2
      <3>4. FirstRow(q[i]) \in 1 .. k BY <3>2, <3>3, FirstRowIs
      <3> QED BY <3>2, <3>4
    <2>7. ASSUME NEW i \in DOMAIN p, NEW j \in DOMAIN p, i < j
          PROVE  FirstRow(p[i]) < FirstRow(p[j])
      <3>1. i \in 1 .. Len(q) /\ p[i] = q[i] BY <1>2, <2>1, <2>7
      <3>2. CASE j = Len(q) + 1 BY <2>1, <2>5, <2>6, <3>1, <3>2
      <3>3. CASE j # Len(q) + 1
        <4>1. j \in 1 .. Len(q) /\ p[j] = q[j] BY <1>2, <2>1, <2>7, <3>3
        <4> QED BY <1>2, <2>7, <3>1, <4>1 DEF IsOrder
      <3> QED BY <3>2, <3>3
    <2>8. IsOrder(p, n + 1) BY <1>1, <2>1, <2>2, <2>7 DEF IsOrder
    <2> QED BY <1>4, <2>8 DEF p, Met
  <1> QED BY <1>3, <1>4

LEMMA NoRows == index \in Seq(Results) => IsOrder(<<>>, 0)
  BY DEF IsOrder, ToSet, ResultsOf

(* What a batch adds.                                                      *)
LEMMA GatheredIs ==
    ASSUME index \in Seq(Results), NEW k \in Nat, NEW q, IsOrder(q, k), NEW hits \in Seq(Results),
           k + Len(hits) <= Len(index),
           \A i \in 1 .. Len(hits) : hits[i] = index[k + i]
    PROVE  IsOrder(Gathered(q, hits), k + Len(hits))
  <1> DEFINE h == Len(hits)
             Gathers(f) == f = [n \in 0 .. h |->
                                  IF n = 0 THEN q ELSE Met(f[n - 1], hits[n])]
             Q == Seq(Results)
             step == [i \in 1 .. h |-> [s \in Q |-> Met(s, hits[i])]]
  <1>1. h \in Nat /\ q \in Q /\ Len(index) \in Nat /\ DOMAIN index = 1 .. Len(index)
        /\ \A i \in 1 .. h : hits[i] \in Results
    BY DEF IsOrder
  <1>2. step \in [1 .. h -> [Q -> Q]] /\ \A i \in 1 .. h, s \in Q : step[i][s] = Met(s, hits[i])
    <2>1. ASSUME NEW s \in Q, NEW i \in 1 .. h PROVE Met(s, hits[i]) \in Q
      BY <1>1 DEF Met
    <2> HIDE DEF Q, h
    <2> QED BY <2>1
  <1> HIDE DEF step
  <1>3. PICK f : Computes(f, Q, q, h, step)
    <2> HIDE DEF Q, h
    <2> QED BY <1>1, <1>2, RecursionExists
  <1>4. Gathers(f)
    <2>1. ASSUME NEW n \in 0 .. h PROVE f[n] = IF n = 0 THEN q ELSE Met(f[n - 1], hits[n])
      <3>1. CASE n = 0 BY <1>3, <3>1 DEF Computes
      <3>2. CASE n # 0
        <4>1. n \in 1 .. h /\ n - 1 \in 0 .. h BY <1>1, <3>2
        <4>2. f[n - 1] \in Q BY <1>3, <4>1 DEF Computes
        <4> QED BY <1>2, <1>3, <3>2, <4>1, <4>2 DEF Computes
      <3> QED BY <3>1, <3>2
    <2> QED BY <1>3, <2>1 DEF Computes
  <1> DEFINE met == CHOOSE g : Gathers(g)
  <1>5. Gathers(met)
    <2> HIDE DEF Gathers
    <2> QED BY <1>4
  <1>6. Gathered(q, hits) = met[h] BY DEF Gathered
  <1> HIDE DEF met
  <1>7. met[0] = q /\ \A n \in 1 .. h : met[n] = Met(met[n - 1], hits[n])
    <2>1. \A n \in 0 .. h : met[n] = IF n = 0 THEN q ELSE Met(met[n - 1], hits[n])
      BY <1>5
    <2> HIDE DEF Gathers, h
    <2> QED BY <1>1, <2>1
  <1> HIDE DEF Gathers
  <1> DEFINE Bad == { n \in 0 .. h : ~IsOrder(met[n], k + n) }
  <1>8. Bad = {}
    <2> SUFFICES ASSUME Bad # {} PROVE FALSE OBVIOUS
    <2>1. Bad \in SUBSET Nat OBVIOUS
    <2>2. PICK n \in Bad : \A m \in Bad : n <= m
      <3> HIDE DEF Bad
      <3> QED BY <2>1, LeastNumber
    <2>3. n \in 0 .. h /\ ~IsOrder(met[n], k + n) BY <2>2
    <2>4. n # 0 BY <1>7, <2>3
    <2>5. n \in 1 .. h /\ n - 1 \in 0 .. h /\ n - 1 \notin Bad BY <1>1, <2>2, <2>3, <2>4
    <2>6. IsOrder(met[n - 1], k + (n - 1)) BY <2>5
    <2> DEFINE m == k + (n - 1)
    <2>7. m \in Nat /\ m + 1 \in DOMAIN index /\ m + 1 = k + n BY <1>1, <2>5
    <2>8. hits[n] = index[m + 1] BY <2>5, <2>7
    <2>9. IsOrder(Met(met[n - 1], index[m + 1]), m + 1)
      <3> HIDE DEF m
      <3> QED BY <2>6, <2>7, OneMoreRow DEF m
    <2> QED BY <1>7, <2>3, <2>5, <2>7, <2>8, <2>9
  <1>9. h \notin Bad /\ h \in 0 .. h BY <1>1, <1>8
  <1> QED BY <1>6, <1>9

(* One list is the beginning of another.                                   *)
Begins(q, p) == Len(q) <= Len(p) /\ \A i \in 1 .. Len(q) : q[i] = p[i]

(* The results of fewer rows are the beginning of those of more.           *)
LEMMA OrderGrows ==
    ASSUME index \in Seq(Results), NEW n \in Nat, NEW m \in Nat, n <= m, m <= Len(index),
           NEW q, IsOrder(q, n), NEW p, IsOrder(p, m)
    PROVE  Begins(q, p)
  <1>0. /\ q \in Seq(Results) /\ Len(q) \in Nat /\ DOMAIN q = 1 .. Len(q)
        /\ p \in Seq(Results) /\ Len(p) \in Nat /\ DOMAIN p = 1 .. Len(p)
        /\ Len(index) \in Nat /\ DOMAIN index = 1 .. Len(index)
    BY DEF IsOrder
  <1>1. ASSUME NEW i \in 1 .. Len(q)
        PROVE  /\ FirstRow(q[i]) \in 1 .. n
               /\ \E k \in 1 .. Len(p) : p[k] = q[i]
    <2>1. q[i] \in ResultsOf(n) BY <1>0, <1>1 DEF IsOrder, ToSet
    <2>2. PICK a \in 1 .. n : q[i] = index[a] BY <2>1 DEF ResultsOf
    <2>3. a \in DOMAIN index /\ q[i] \in ResultsOf(m) BY <1>0, <2>2 DEF ResultsOf
    <2>4. FirstRow(q[i]) \in 1 .. a BY <2>2, <2>3, FirstRowIs
    <2>5. q[i] \in ToSet(p) BY <2>3 DEF IsOrder
    <2> QED BY <1>0, <2>2, <2>4, <2>5 DEF ToSet
  <1>2. ASSUME NEW i \in 1 .. Len(p), FirstRow(p[i]) \in 1 .. n
        PROVE  \E k \in 1 .. Len(q) : q[k] = p[i]
    <2>1. p[i] \in ResultsOf(m) BY <1>0, <1>2 DEF IsOrder, ToSet
    <2>2. PICK a \in 1 .. m : p[i] = index[a] BY <2>1 DEF ResultsOf
    <2>3. a \in DOMAIN index BY <1>0, <2>2
    <2>4. index[FirstRow(p[i])] = p[i] BY <2>2, <2>3, FirstRowIs
    <2>5. p[i] \in ResultsOf(n) BY <1>2, <2>4 DEF ResultsOf
    <2>6. p[i] \in ToSet(q) BY <2>5 DEF IsOrder
    <2> QED BY <1>0, <2>6 DEF ToSet
  <1>3. /\ \A i, j \in 1 .. Len(q) : i < j => FirstRow(q[i]) < FirstRow(q[j])
        /\ \A i, j \in 1 .. Len(p) : i < j => FirstRow(p[i]) < FirstRow(p[j])
    BY <1>0 DEF IsOrder
  <1>4. \A i \in 1 .. Len(p) : FirstRow(p[i]) \in Nat
    <2> SUFFICES ASSUME NEW i \in 1 .. Len(p) PROVE FirstRow(p[i]) \in Nat OBVIOUS
    <2>1. p[i] \in ResultsOf(m) BY <1>0 DEF IsOrder, ToSet
    <2>2. PICK a \in 1 .. m : p[i] = index[a] BY <2>1 DEF ResultsOf
    <2>3. a \in DOMAIN index BY <1>0, <2>2
    <2> QED BY <2>2, <2>3, FirstRowIs
  <1> DEFINE Bad == { i \in 1 .. Len(q) : ~(i <= Len(p) /\ q[i] = p[i]) }
  <1>5. Bad = {}
    <2> SUFFICES ASSUME Bad # {} PROVE FALSE OBVIOUS
    <2>1. Bad \in SUBSET Nat OBVIOUS
    <2>2. PICK i \in Bad : \A j \in Bad : i <= j
      <3> HIDE DEF Bad
      <3> QED BY <2>1, LeastNumber
    <2>3. i \in 1 .. Len(q) /\ ~(i <= Len(p) /\ q[i] = p[i]) BY <2>2
    <2>4. \A j \in 1 .. Len(q) : j < i => j <= Len(p) /\ q[j] = p[j] BY <2>2
    <2> HIDE DEF Bad
    <2>5. PICK k \in 1 .. Len(p) : p[k] = q[i] BY <1>1, <2>3
    <2>6. ~(k < i)
      <3>1. k < i => k \in 1 .. Len(q) /\ q[k] = q[i] BY <2>3, <2>4, <2>5
      <3>2. k < i => FirstRow(q[k]) < FirstRow(q[i]) BY <1>3, <2>3, <3>1
      <3> QED BY <1>1, <2>3, <3>1, <3>2
    <2>7. k # i BY <2>3, <2>5
    <2>8. k > i /\ i \in 1 .. Len(p) BY <1>0, <2>3, <2>5, <2>6, <2>7
    <2>9. FirstRow(p[i]) < FirstRow(q[i]) BY <1>3, <2>5, <2>8
    <2>10. FirstRow(p[i]) \in 1 .. n
      <3>1. FirstRow(q[i]) \in 1 .. n /\ FirstRow(p[i]) \in Nat
        BY <1>1, <1>4, <2>3, <2>8
      <3>2. FirstRow(p[i]) # 0
        <4>1. p[i] \in ResultsOf(m) BY <1>0, <2>8 DEF IsOrder, ToSet
        <4>2. PICK a \in 1 .. m : p[i] = index[a] BY <4>1 DEF ResultsOf
        <4>3. a \in DOMAIN index BY <1>0, <4>2
        <4> QED BY <4>2, <4>3, FirstRowIs
      <3> QED BY <2>9, <3>1, <3>2
    <2>11. PICK l \in 1 .. Len(q) : q[l] = p[i] BY <1>2, <2>8, <2>10
    <2>12. l < i
      <3>1. l # i BY <2>3, <2>8, <2>11
      <3>2. l > i => FirstRow(q[i]) < FirstRow(q[l]) BY <1>3, <2>3, <2>11
      <3>3. FirstRow(q[i]) \in Nat /\ FirstRow(q[l]) \in Nat BY <1>1, <2>3, <2>11
      <3>4. ~(l > i) BY <2>9, <2>11, <3>2, <3>3
      <3> QED BY <2>3, <2>11, <3>1, <3>4
    <2>13. p[l] = p[i] /\ l \in 1 .. Len(p) BY <2>4, <2>11, <2>12
    <2>14. FirstRow(p[l]) < FirstRow(p[i]) BY <1>3, <2>8, <2>12, <2>13
    <2> QED BY <1>4, <2>8, <2>13, <2>14
  <1>6. \A i \in 1 .. Len(q) : i <= Len(p) /\ q[i] = p[i] BY <1>5
  <1> HIDE DEF Bad
  <1>7. Len(q) <= Len(p)
    <2>1. Len(q) # 0 => Len(q) \in 1 .. Len(q) BY <1>0
    <2> QED BY <1>0, <1>6, <2>1
  <1> QED BY <1>6, <1>7 DEF Begins

(* The pages one after the other, with one page more.                      *)
LEMMA FlatOnceMore ==
    ASSUME NEW X, NEW s \in Seq(Seq(X)), NEW x \in Seq(X)
    PROVE  FlattenSeq(Append(s, x)) = FlattenSeq(s) \o x /\ FlattenSeq(s) \in Seq(X)
  <1> DEFINE Q == Seq(X)
             n == Len(s)
             t == Append(s, x)
             step == [i \in 1 .. n + 1 |-> [r \in Q |-> r \o t[i]]]
             Flats(g, u) == g = [i \in 1 .. Len(u) |-> IF i = 1 THEN u[i] ELSE g[i - 1] \o u[i]]
  <1>1. /\ n \in Nat /\ <<>> \in Q /\ Len(t) = n + 1 /\ t[n + 1] = x /\ x \in Q
        /\ \A i \in 1 .. n : t[i] = s[i] /\ s[i] \in Q
    OBVIOUS
  <1>2. /\ step \in [1 .. n + 1 -> [Q -> Q]]
        /\ \A i \in 1 .. n + 1, r \in Q : step[i][r] = r \o t[i]
    <2>1. ASSUME NEW r \in Q, NEW i \in 1 .. n + 1 PROVE r \o t[i] \in Q
      <3>1. t[i] \in Q
        <4> HIDE DEF Q, n, t
        <4> QED BY <1>1
      <3> HIDE DEF t
      <3> QED BY <3>1
    <2> HIDE DEF Q, n, t
    <2> QED BY <2>1
  <1> HIDE DEF step
  <1>3. PICK f : Computes(f, Q, <<>>, n + 1, step)
    <2>1. n + 1 \in Nat BY <1>1
    <2> HIDE DEF Q, n
    <2> QED BY <1>1, <1>2, <2>1, RecursionExists
  <1>4. \A k \in 1 .. n + 1 : f[k] = f[k - 1] \o t[k] /\ f[k] \in Q /\ f[k - 1] \in Q
    <2> HIDE DEF Q, n, t
    <2>1. ASSUME NEW k \in 1 .. n + 1 PROVE k \in 0 .. n + 1 /\ k - 1 \in 0 .. n + 1
      BY <1>1
    <2> QED BY <1>2, <1>3, <2>1 DEF Computes
  <1>5. f[0] = <<>> BY <1>3 DEF Computes
  <1>6. ASSUME NEW u \in {s, t}, Len(u) # 0
        PROVE  FlattenSeq(u) = f[Len(u)]
    <2> DEFINE l == Len(u)
               flatten == CHOOSE g : Flats(g, u)
               h == [i \in 1 .. l |-> f[i]]
    <2>1. /\ l \in 1 .. n + 1 /\ l \in Nat
          /\ \A i \in 1 .. l : u[i] = t[i] /\ i \in 1 .. n + 1 /\ u[i] \in Q
      <3>1. CASE u = s
        <4> HIDE DEF t, Q
        <4> QED BY <1>1, <1>6, <3>1
      <3>2. CASE u = t
        <4>1. ASSUME NEW i \in 1 .. n + 1 PROVE t[i] \in Q
          <5> HIDE DEF t, Q, n
          <5>1. i \in 1 .. n \/ i = n + 1 BY <1>1
          <5>2. i \in 1 .. n => t[i] = s[i] /\ s[i] \in Q BY <1>1
          <5> QED BY <1>1, <5>1, <5>2
        <4>2. l = n + 1 BY <1>1, <3>2
        <4> HIDE DEF t, Q, n, l
        <4> QED BY <1>1, <3>2, <4>1, <4>2
      <3> QED BY <3>1, <3>2
    <2>2. f[1] = u[1]
      <3>1. f[1] = <<>> \o t[1] /\ t[1] \in Q
        <4> HIDE DEF n, t, Q, l
        <4>1. 1 \in 1 .. n + 1 /\ 1 \in 1 .. l /\ 1 - 1 = 0 BY <1>1, <2>1
        <4>2. f[1] = f[1 - 1] \o t[1] BY <1>4, <4>1
        <4>3. f[1] = <<>> \o t[1] BY <1>5, <4>1, <4>2
        <4>4. t[1] \in Q BY <2>1, <4>1
        <4> QED BY <4>3, <4>4
      <3>2. 1 \in 1 .. l BY <2>1
      <3>3. u[1] = t[1]
        <4> HIDE DEF l, t
        <4> QED BY <2>1, <3>2
      <3> HIDE DEF t, l
      <3> QED BY <3>1, <3>3
    <2>3. Flats(h, u)
      <3>1. ASSUME NEW i \in 1 .. l
            PROVE  h[i] = IF i = 1 THEN u[i] ELSE h[i - 1] \o u[i]
        <4>1. CASE i = 1 BY <2>2, <3>1, <4>1
        <4>2. CASE i # 1
          <5>1. i - 1 \in 1 .. l /\ f[i] = f[i - 1] \o t[i] /\ u[i] = t[i]
            <6> HIDE DEF l, t, n, Q
            <6>1. i \in 1 .. n + 1 /\ u[i] = t[i] BY <2>1, <3>1
            <6>2. i - 1 \in 1 .. l BY <2>1, <3>1, <4>2
            <6>3. f[i] = f[i - 1] \o t[i] BY <1>4, <6>1
            <6> QED BY <6>1, <6>2, <6>3
          <5> HIDE DEF l, t, n, Q
          <5> QED BY <3>1, <4>2, <5>1
        <4> QED BY <4>1, <4>2
      <3> HIDE DEF Q, n, t
      <3> QED BY <3>1
    <2>4. Flats(flatten, u)
      <3> HIDE DEF Flats, h
      <3> QED BY <2>3
    <2>5. FlattenSeq(u) = flatten[l] BY <1>6 DEF FlattenSeq
    <2> HIDE DEF flatten
    <2>6. \A i \in 1 .. l : flatten[i] = IF i = 1 THEN u[i] ELSE flatten[i - 1] \o u[i]
      BY <2>4
    <2> HIDE DEF Flats, h, l, n, t, Q
    <2> DEFINE Bad == { i \in 1 .. l : flatten[i] # f[i] }
    <2>7. Bad = {}
      <3> SUFFICES ASSUME Bad # {} PROVE FALSE OBVIOUS
      <3>1. Bad \in SUBSET Nat BY <2>1
      <3>2. PICK i \in Bad : \A j \in Bad : i <= j
        <4> HIDE DEF Bad
        <4> QED BY <3>1, LeastNumber
      <3>3. i \in 1 .. l /\ flatten[i] # f[i] BY <3>2
      <3>4. i # 1 BY <2>2, <2>6, <3>3
      <3>5. i - 1 \in 1 .. l /\ i - 1 \notin Bad BY <2>1, <3>2, <3>3, <3>4
      <3>6. flatten[i - 1] = f[i - 1] BY <3>5
      <3>7. flatten[i] = f[i - 1] \o t[i] /\ f[i] = f[i - 1] \o t[i]
        BY <1>4, <2>1, <2>6, <3>3, <3>4, <3>6
      <3> QED BY <3>3, <3>7
    <2>8. flatten[l] = f[l]
      <3>1. l \in 1 .. l /\ l \notin Bad
        <4> HIDE DEF Bad
        <4> QED BY <2>1, <2>7
      <3> QED BY <3>1
    <2> QED BY <2>5, <2>8 DEF l
  <1>7. FlattenSeq(s) = f[n] /\ f[n] \in Q
    <2>1. CASE n = 0
      <3>1. s = <<>> BY <2>1
      <3>2. FlattenSeq(s) = <<>> BY <3>1 DEF FlattenSeq
      <3> QED BY <1>1, <1>5, <2>1, <3>2
    <2>2. CASE n # 0
      <3>1. n \in 1 .. n + 1 BY <1>1, <2>2
      <3>2. FlattenSeq(s) = f[n] BY <1>6, <2>2
      <3> HIDE DEF n, Q
      <3> QED BY <1>4, <3>1, <3>2
    <2> QED BY <2>1, <2>2
  <1>8. FlattenSeq(t) = f[n + 1]
    <2>1. Len(t) # 0 BY <1>1
    <2> HIDE DEF t, n
    <2> QED BY <1>1, <1>6, <2>1
  <1>9. f[n + 1] = f[n] \o x
    <2>1. n + 1 \in 1 .. n + 1 /\ (n + 1) - 1 = n BY <1>1
    <2> HIDE DEF t, n, Q
    <2> QED BY <1>1, <1>4, <2>1
  <1> QED BY <1>7, <1>8, <1>9

(* The rows within the budget, and all that the pages can show.            *)
Within == IF Len(index) < ScanBudget THEN Len(index) ELSE ScanBudget
AllResults == CHOOSE q : IsOrder(q, Within)

LEMMA WithinIs ==
    ASSUME index \in Seq(Results)
    PROVE  /\ Within \in Nat /\ Within <= Len(index) /\ Within <= ScanBudget
           /\ Within = Len(index) \/ Within = ScanBudget
           /\ Len(index) \in Nat /\ Reached = ResultsOf(Within)
  <1>1. Len(index) \in Nat OBVIOUS
  <1>2. Reached = ResultsOf(Within) BY DEF Reached, ResultsOf, Within
  <1> QED BY <1>1, <1>2, SearchWindowAssumption DEF Within

LEMMA AllIsAnOrder ==
    ASSUME index \in Seq(Results)
    PROVE  IsOrder(AllResults, Within)
  <1> DEFINE hits == [i \in 1 .. Within |-> index[i]]
  <1>1. Within \in Nat /\ Within <= Len(index) /\ Len(index) \in Nat BY WithinIs
  <1>2. hits \in Seq(Results) /\ Len(hits) = Within /\ \A i \in 1 .. Within : hits[i] = index[0 + i]
    <2>1. \A i \in 1 .. Within : index[i] \in Results /\ 0 + i = i BY <1>1
    <2> HIDE DEF Within
    <2> QED BY <1>1, <2>1
  <1> HIDE DEF hits
  <1>3. IsOrder(Gathered(<<>>, hits), 0 + Len(hits)) BY <1>1, <1>2, NoRows, GatheredIs
  <1>4. IsOrder(Gathered(<<>>, hits), Within) BY <1>1, <1>2, <1>3
  <1> QED BY <1>4 DEF AllResults

LEMMA IndexStays ==
    ASSUME UNCHANGED index
    PROVE  /\ \A q, n : IsOrder(q, n)' <=> IsOrder(q, n)
           /\ AllResults' = AllResults /\ Within' = Within /\ Reached' = Reached
           /\ \A r : FirstRow(r)' = FirstRow(r)
  <1>1. ASSUME NEW r PROVE FirstRow(r)' = FirstRow(r) BY DEF FirstRow
  <1>2. ASSUME NEW n PROVE ResultsOf(n)' = ResultsOf(n) BY DEF ResultsOf
  <1>3. ASSUME NEW q, NEW n PROVE IsOrder(q, n)' <=> IsOrder(q, n)
    BY <1>1, <1>2 DEF IsOrder
  <1>4. Within' = Within BY DEF Within
  <1>5. \A q : IsOrder(q, Within)' <=> IsOrder(q, Within) BY <1>3, <1>4 DEF IsOrder
  <1>6. AllResults' = AllResults BY <1>5 DEF AllResults
  <1> QED BY <1>1, <1>3, <1>4, <1>6 DEF Reached

(* The scan has the results of the rows it has seen; when it ended by      *)
(* itself there are no more rows within the budget.                        *)
ScanIsTrue ==
    /\ index \in Seq(Results) /\ Len(index) <= MaxRows /\ honest \in BOOLEAN
    /\ window \in [scanning: BOOLEAN, seen: 0 .. Within, collected: Seq(Results),
                   exhausted: BOOLEAN, limitReached: BOOLEAN]
    /\ IsOrder(window.collected, window.seen)
    /\ window.seen = ScanBudget => window.exhausted
    /\ window.limitReached => window.seen = ScanBudget
    /\ honest /\ window.exhausted /\ ~window.limitReached => window.seen = Len(index)

(* What was shown is the beginning of all there is: so many full pages, or *)
(* an end to the reading.                                                  *)
ShownIsTheBeginning ==
    /\ answers \in Seq(Page) /\ Shown \in Seq(Results)
    /\ Begins(Shown, AllResults)
    /\ \/ /\ Len(Shown) = Offset
          /\ \A i \in DOMAIN answers : Len(answers[i].results) = Limit
       \/ /\ answers # <<>> /\ ~Last(answers).hasMore /\ Len(Shown) < Offset
          /\ \A i \in 1 .. Len(answers) - 1 : Len(answers[i].results) = Limit
       \/ Len(Shown) < Offset /\ Len(Shown) = Len(AllResults)
    /\ window.scanning => answers = <<>> \/ Last(answers).hasMore
    /\ honest /\ answers # <<>> /\ ~Last(answers).hasMore => Len(Shown) = Len(AllResults)
    /\ honest => ExactCounts

WindowInvariant == ScanIsTrue /\ ShownIsTheBeginning

IsSlice(part, s, from, count, X) ==
    /\ part \in Seq(X) /\ Len(part) \in Nat /\ Len(part) <= count
    /\ Len(part) = 0 \/ from + Len(part) <= Len(s)
    /\ Len(part) = count \/ from + Len(part) >= Len(s)
    /\ \A i \in 1 .. Len(part) : part[i] = s[from + i]

LEMMA SliceIs ==
    ASSUME NEW X, NEW s \in Seq(X), NEW from \in Nat, NEW count \in Nat
    PROVE  IsSlice(Slice(s, from, count), s, from, count, X)
  <1> DEFINE left == IF from < Len(s) THEN Len(s) - from ELSE 0
             n == Smallest({count, left})
  <1>1. left \in Nat OBVIOUS
  <1>2. n = (IF count <= left THEN count ELSE left)
    <2> HIDE DEF left
    <2>1. \A m \in {count, left} : (\A k \in {count, left} : m <= k) <=>
              m = (IF count <= left THEN count ELSE left)
      BY <1>1
    <2> QED BY <2>1 DEF Smallest
  <1>3. n \in Nat /\ n <= count /\ (n = count \/ n = left) /\ n <= left
    <2> HIDE DEF left, n
    <2> QED BY <1>1, <1>2
  <1>4. Slice(s, from, count) = [i \in 1 .. n |-> s[from + i]] BY DEF Slice
  <1>5. \A i \in 1 .. n : s[from + i] \in X
    <2>1. \A i \in 1 .. n : from + i \in 1 .. Len(s)
      <3> HIDE DEF n
      <3> QED BY <1>3
    <2> HIDE DEF n, left
    <2> QED BY <2>1
  <1> HIDE DEF n
  <1> QED BY <1>3, <1>4, <1>5 DEF IsSlice

LEMMA BatchIs ==
    ASSUME ScanIsTrue, Offset \in Nat, WantsRows
    PROVE  BatchRows \in Nat /\ BatchRows # 0 /\ BatchRows <= ScanBudget - window.seen
  <1> USE SearchWindowAssumption
  <1>1. /\ window.seen \in Nat /\ window.collected \in Seq(Results)
        /\ window.seen < ScanBudget /\ Len(window.collected) < TargetCount
        /\ Len(window.collected) \in Nat
    BY DEF ScanIsTrue, WantsRows, Within
  <1> DEFINE missing == TargetCount - Len(window.collected)
             wanted == IF window.collected = <<>> THEN missing * InitialRatio
                       ELSE CeilDiv(missing * window.seen, Len(window.collected))
             a == IF wanted > MinBatch THEN wanted ELSE MinBatch
             b == ScanBudget - window.seen
  <1>2. TargetCount \in Nat /\ missing \in Nat BY <1>1 DEF TargetCount
  <1>3. wanted \in Int
    <2> HIDE DEF missing
    <2>1. CASE window.collected = <<>> BY <1>2, <2>1
    <2>2. CASE window.collected # <<>>
      <3> DEFINE c == Len(window.collected)
                 x == missing * window.seen
      <3>1. c \in Nat /\ c > 0 /\ x \in Nat BY <1>1, <1>2, <2>2
      <3> HIDE DEF c, x
      <3>2. (x + c - 1) \div c \in Int BY <3>1
      <3> QED BY <2>2, <3>2 DEF c, x, CeilDiv
    <2> QED BY <2>1, <2>2
  <1>4. a \in Nat /\ a # 0
    <2> HIDE DEF wanted
    <2> QED BY <1>3
  <1>5. b \in Nat /\ b # 0 BY <1>1
  <1>6. BatchRows = Smallest({a, MaxBatch, b}) BY DEF BatchRows
  <1> HIDE DEF a, b
  <1>7. \E m \in {a, MaxBatch, b} : \A k \in {a, MaxBatch, b} : m <= k BY <1>4, <1>5
  <1>8. /\ Smallest({a, MaxBatch, b}) \in {a, MaxBatch, b}
        /\ Smallest({a, MaxBatch, b}) <= b
    BY <1>7 DEF Smallest
  <1>9. Smallest({a, MaxBatch, b}) \in Nat /\ Smallest({a, MaxBatch, b}) # 0
    BY <1>4, <1>5, <1>8
  <1> QED BY <1>6, <1>8, <1>9 DEF b

LEMMA PagesStay ==
    ASSUME ShownIsTheBeginning, UNCHANGED <<index, honest, answers>>,
           window'.scanning => answers = <<>> \/ Last(answers).hasMore
    PROVE  ShownIsTheBeginning'
  <1>1. Shown' = Shown /\ Offset' = Offset /\ (ExactCounts <=> ExactCounts')
    BY DEF Shown, Offset, ExactCounts
  <1>2. AllResults' = AllResults BY IndexStays
  <1> QED BY <1>1, <1>2 DEF ShownIsTheBeginning

LEMMA ScanStays ==
    ASSUME ScanIsTrue, UNCHANGED <<index, honest, window>>
    PROVE  ScanIsTrue'
  <1>1. Within' = Within /\ (IsOrder(window.collected, window.seen)
                             => IsOrder(window.collected, window.seen)')
    <2> DEFINE q == window.collected
               n == window.seen
    <2>1. IsOrder(q, n) => IsOrder(q, n)' BY IndexStays DEF IsOrder, ResultsOf
    <2> QED BY <2>1, IndexStays
  <1> QED BY <1>1 DEF ScanIsTrue

LEMMA WindowOpens ==
    ASSUME index \in Seq(Results), Len(index) <= MaxRows, honest \in BOOLEAN, NEW s \in BOOLEAN,
           window = [Ready EXCEPT !.scanning = s]
    PROVE  ScanIsTrue
  <1>1. /\ window.scanning = s /\ window.seen = 0 /\ window.collected = <<>>
        /\ ~window.exhausted /\ ~window.limitReached
        /\ window = [scanning |-> s, seen |-> 0, collected |-> <<>>,
                     exhausted |-> FALSE, limitReached |-> FALSE]
    BY DEF Ready
  <1>2. IsOrder(<<>>, 0) /\ Within \in Nat BY NoRows, WithinIs
  <1>3. window \in [scanning: BOOLEAN, seen: 0 .. Within, collected: Seq(Results),
                    exhausted: BOOLEAN, limitReached: BOOLEAN]
    <2> HIDE DEF Within
    <2>1. 0 \in 0 .. Within /\ <<>> \in Seq(Results) BY <1>2
    <2> QED BY <1>1, <2>1
  <1>4. IsOrder(window.collected, window.seen) BY <1>1, <1>2
  <1> QED BY <1>1, <1>3, <1>4, SearchWindowAssumption DEF ScanIsTrue

LEMMA BatchKeeps ==
    ASSUME WindowInvariant, ScanBatch
    PROVE  WindowInvariant'
  <1> USE SearchWindowAssumption
  <1>0. ScanIsTrue /\ ShownIsTheBeginning /\ window.scanning /\ WantsRows
        /\ UNCHANGED <<index, honest, answers>>
    BY DEF WindowInvariant, ScanBatch
  <1>1. /\ index \in Seq(Results) /\ window.seen \in 0 .. Within /\ window.seen \in Nat
        /\ Within \in Nat /\ Within <= Len(index) /\ Within <= ScanBudget
        /\ (Within = Len(index) \/ Within = ScanBudget)
        /\ IsOrder(window.collected, window.seen) /\ Len(index) \in Nat
        /\ ~window.exhausted /\ ~window.limitReached /\ window.seen < ScanBudget
    BY <1>0, WithinIs DEF ScanIsTrue, WantsRows
  <1>2. Offset \in Nat BY <1>0 DEF Offset, ShownIsTheBeginning
  <1> DEFINE wanted == BatchRows
             hits == Slice(index, window.seen, wanted)
             seen == window.seen + Len(hits)
  <1>3. wanted \in Nat /\ wanted # 0 /\ wanted <= ScanBudget - window.seen
    BY <1>0, <1>2, BatchIs
  <1>4. PICK numHits \in IF honest THEN {Len(index)} ELSE seen .. Len(index) :
          LET limit == seen >= ScanBudget /\ seen < numHits
          IN  window' = IF hits = <<>> THEN [window EXCEPT !.exhausted = TRUE]
                ELSE [window EXCEPT
                        !.seen = seen,
                        !.collected = Collect(window.collected, hits),
                        !.limitReached = limit,
                        !.exhausted = \/ limit \/ seen >= numHits \/ Len(hits) < wanted]
    BY DEF ScanBatch
  <1> HIDE DEF wanted
  <1>5. /\ hits \in Seq(Results) /\ Len(hits) \in Nat /\ Len(hits) <= wanted
        /\ Len(hits) = 0 \/ window.seen + Len(hits) <= Len(index)
        /\ Len(hits) = wanted \/ window.seen + Len(hits) >= Len(index)
        /\ \A i \in 1 .. Len(hits) : hits[i] = index[window.seen + i]
    <2>1. IsSlice(hits, index, window.seen, wanted, Results) BY <1>1, <1>3, SliceIs
    <2> HIDE DEF hits
    <2> QED BY <2>1 DEF IsSlice
  <1> HIDE DEF hits
  <1>6. /\ seen \in Nat /\ seen <= ScanBudget /\ seen <= Len(index) /\ seen \in 0 .. Within
        /\ Len(hits) < wanted => seen = Len(index)
    BY <1>1, <1>3, <1>5
  <1>7. ScanIsTrue'
    <2>1. CASE hits = <<>>
      <3>1. seen = window.seen /\ window.seen = Len(index)
        BY <1>1, <1>3, <1>5, <1>6, <2>1
      <3>2. window' = [window EXCEPT !.exhausted = TRUE] BY <1>4, <2>1
      <3>3. /\ window' \in [scanning: BOOLEAN, seen: 0 .. Within, collected: Seq(Results),
                            exhausted: BOOLEAN, limitReached: BOOLEAN]
            /\ window'.collected = window.collected /\ window'.seen = window.seen
            /\ window'.exhausted /\ ~window'.limitReached
        BY <1>0, <1>1, <3>2 DEF ScanIsTrue
      <3>4. Within' = Within BY <1>0, IndexStays
      <3>5. \A r, k : IsOrder(r, k)' <=> IsOrder(r, k) BY <1>0, IndexStays
      <3> QED BY <1>0, <1>1, <3>1, <3>3, <3>4, <3>5 DEF ScanIsTrue
    <2>2. CASE hits # <<>>
      <3> DEFINE limit == seen >= ScanBudget /\ seen < numHits
                 gathered == Collect(window.collected, hits)
                 ended == limit \/ seen >= numHits \/ Len(hits) < wanted
      <3>1. window' = [window EXCEPT !.seen = seen, !.collected = gathered,
                                     !.limitReached = limit, !.exhausted = ended]
        BY <1>4, <2>2
      <3>2. IsOrder(gathered, seen) BY <1>1, <1>5, <1>6, GatheredIs DEF Collect
      <3>3. numHits \in Nat /\ (honest => numHits = Len(index)) BY <1>1, <1>6
      <3>4. limit \in BOOLEAN /\ ended \in BOOLEAN /\ (limit => seen = ScanBudget)
            /\ (seen = ScanBudget => ended)
            /\ (honest /\ ended /\ ~limit => seen = Len(index))
        BY <1>1, <1>6, <3>3
      <3> HIDE DEF limit, ended, gathered, seen
      <3>5. gathered \in Seq(Results) BY <3>2 DEF IsOrder
      <3>6. /\ window' \in [scanning: BOOLEAN, seen: 0 .. Within, collected: Seq(Results),
                            exhausted: BOOLEAN, limitReached: BOOLEAN]
            /\ window'.collected = gathered /\ window'.seen = seen
            /\ window'.exhausted = ended /\ window'.limitReached = limit
        <4>1. window \in [scanning: BOOLEAN, seen: 0 .. Within, collected: Seq(Results),
                          exhausted: BOOLEAN, limitReached: BOOLEAN]
          BY <1>0 DEF ScanIsTrue
        <4> QED BY <1>6, <3>1, <3>4, <3>5, <4>1
      <3>7. Within' = Within BY <1>0, IndexStays
      <3>8. \A r, k : IsOrder(r, k)' <=> IsOrder(r, k) BY <1>0, IndexStays
      <3> QED BY <1>0, <1>1, <3>2, <3>4, <3>6, <3>7, <3>8 DEF ScanIsTrue
    <2> QED BY <2>1, <2>2
  <1>8. ShownIsTheBeginning'
    <2>1. answers = <<>> \/ Last(answers).hasMore BY <1>0 DEF ShownIsTheBeginning
    <2> QED BY <1>0, <2>1, PagesStay
  <1> QED BY <1>7, <1>8 DEF WindowInvariant

(* What the sequences of pages and of results say of each other.           *)
LEMMA LongerIsAll ==
    ASSUME NEW q \in Seq(Results), NEW p \in Seq(Results), Begins(q, p), Len(q) = Len(p)
    PROVE  q = p
  BY DEF Begins

LEMMA ResultsAreDistinct ==
    ASSUME index \in Seq(Results), NEW q, NEW n \in Nat, n <= Len(index), IsOrder(q, n)
    PROVE  /\ \A i, j \in 1 .. Len(q) : q[i] = q[j] => i = j
           /\ Cardinality(ToSet(q)) = Len(q) /\ IsFiniteSet(ToSet(q))
  <1>1. q \in Seq(Results) /\ Len(q) \in Nat /\ DOMAIN q = 1 .. Len(q) BY DEF IsOrder
  <1>2. ASSUME NEW i \in 1 .. Len(q) PROVE FirstRow(q[i]) \in Nat
    <2>1. q[i] \in ResultsOf(n) BY <1>1 DEF IsOrder, ToSet
    <2>2. PICK a \in 1 .. n : q[i] = index[a] BY <2>1 DEF ResultsOf
    <2>3. a \in DOMAIN index OBVIOUS
    <2> QED BY <2>2, <2>3, FirstRowIs
  <1>3. ASSUME NEW i \in 1 .. Len(q), NEW j \in 1 .. Len(q), q[i] = q[j]
        PROVE  i = j
    <2>1. \A k, l \in 1 .. Len(q) : k < l => FirstRow(q[k]) < FirstRow(q[l])
      BY <1>1 DEF IsOrder
    <2>2. ~(i < j) /\ ~(j < i) BY <1>2, <1>3, <2>1
    <2> QED BY <1>1, <2>2
  <1>4. q \in Bijection(1 .. Len(q), ToSet(q))
    <2>1. q \in [1 .. Len(q) -> ToSet(q)] /\ ToSet(q) = { q[i] : i \in 1 .. Len(q) }
      BY <1>1 DEF ToSet
    <2> QED BY <1>3, <2>1 DEF Bijection, Injection, IsInjective, Surjection
  <1>5. IsFiniteSet(1 .. Len(q)) /\ Cardinality(1 .. Len(q)) = Len(q)
    <2> DEFINE m == Len(q)
    <2>1. m \in Nat BY <1>1
    <2> HIDE DEF m
    <2>2. Cardinality(1 .. m) = m /\ IsFiniteSet(1 .. m) BY <2>1, FS_Interval
    <2> QED BY <2>2 DEF m
  <1> QED BY <1>1, <1>3, <1>4, <1>5, FS_Bijection DEF ExistsBijection

LEMMA FlatWithAPage ==
    ASSUME answers \in Seq(Page), Shown \in Seq(Results), NEW page \in Page,
           answers' = Append(answers, page)
    PROVE  Shown' = Shown \o page.results
  <1> DEFINE s == [i \in DOMAIN answers |-> answers[i].results]
             t == [i \in DOMAIN answers' |-> answers'[i].results]
  <1>1. page.results \in Seq(Results) /\ \A i \in DOMAIN answers : answers[i].results \in Seq(Results)
    <2>1. \A i \in DOMAIN answers : answers[i] \in Page OBVIOUS
    <2>2. \A p \in Page : p.results \in Seq(Results) BY DEF Page
    <2> QED BY <2>1, <2>2
  <1>2. s \in Seq(Seq(Results)) /\ Len(s) = Len(answers) BY <1>1
  <1>3. t = Append(s, page.results)
    <2>1. /\ Len(answers') = Len(answers) + 1 /\ DOMAIN answers' = 1 .. Len(answers) + 1
          /\ Len(answers) \in Nat /\ answers'[Len(answers) + 1] = page
          /\ \A i \in 1 .. Len(answers) : answers'[i] = answers[i]
      OBVIOUS
    <2>2. Append(s, page.results) = [i \in 1 .. Len(answers) + 1 |->
             IF i = Len(answers) + 1 THEN page.results ELSE answers[i].results]
      BY <1>1, <1>2
    <2>3. ASSUME NEW i \in 1 .. Len(answers) + 1
          PROVE  answers'[i].results = IF i = Len(answers) + 1 THEN page.results
                                       ELSE answers[i].results
      BY <2>1
    <2> QED BY <2>1, <2>2, <2>3
  <1> HIDE DEF s, t
  <1>4. FlattenSeq(t) = FlattenSeq(s) \o page.results BY <1>1, <1>2, <1>3, FlatOnceMore
  <1> QED BY <1>4 DEF Shown, s, t

(* What one more page adds to what was shown.                              *)
LEMMA PageFollows ==
    ASSUME NEW q \in Seq(Results), NEW p \in Seq(Results), NEW all \in Seq(Results),
           Begins(q, all), Begins(p, all), NEW part,
           IsSlice(part, p, Len(q), Limit, Results)
    PROVE  Begins(q \o part, all) /\ q \o part \in Seq(Results)
           /\ Len(q \o part) = Len(q) + Len(part)
  <1>1. /\ part \in Seq(Results) /\ Len(part) \in Nat /\ Len(q) \in Nat /\ Len(p) \in Nat
        /\ Len(part) = 0 \/ Len(q) + Len(part) <= Len(p)
        /\ \A i \in 1 .. Len(part) : part[i] = p[Len(q) + i]
    BY DEF IsSlice
  <1> DEFINE w == q \o part
  <1>2. /\ w \in Seq(Results) /\ Len(w) = Len(q) + Len(part)
        /\ \A i \in 1 .. Len(w) : w[i] = IF i <= Len(q) THEN q[i] ELSE part[i - Len(q)]
    BY <1>1
  <1> HIDE DEF w
  <1>3. Len(w) <= Len(all) BY <1>1, <1>2 DEF Begins
  <1>4. ASSUME NEW i \in 1 .. Len(w) PROVE w[i] = all[i]
    <2>1. CASE i <= Len(q) BY <1>1, <1>2, <2>1 DEF Begins
    <2>2. CASE ~(i <= Len(q))
      <3>1. i - Len(q) \in 1 .. Len(part) /\ i \in 1 .. Len(p) /\ Len(q) + (i - Len(q)) = i
        BY <1>1, <1>2, <2>2
      <3>2. w[i] = p[i] BY <1>1, <1>2, <2>2, <3>1
      <3> QED BY <3>1, <3>2 DEF Begins
    <2> QED BY <2>1, <2>2
  <1> QED BY <1>2, <1>3, <1>4 DEF Begins, w

LEMMA ReadyIs == [Ready EXCEPT !.scanning = FALSE] = Ready
  <1>1. ASSUME NEW w, NEW s \in BOOLEAN, w = [Ready EXCEPT !.scanning = s]
        PROVE  w = [scanning |-> s, seen |-> 0, collected |-> <<>>,
                    exhausted |-> FALSE, limitReached |-> FALSE]
    BY <1>1 DEF Ready
  <1> QED BY <1>1 DEF Ready

LEMMA WindowReopens ==
    ASSUME index \in Seq(Results), Len(index) <= MaxRows, honest \in BOOLEAN,
           UNCHANGED <<index, honest>>, NEW s \in BOOLEAN,
           window' = [Ready EXCEPT !.scanning = s]
    PROVE  ScanIsTrue'
  <1>1. /\ window'.scanning = s /\ window'.seen = 0 /\ window'.collected = <<>>
        /\ ~window'.exhausted /\ ~window'.limitReached
        /\ window' = [scanning |-> s, seen |-> 0, collected |-> <<>>,
                      exhausted |-> FALSE, limitReached |-> FALSE]
    BY DEF Ready
  <1>2. IsOrder(<<>>, 0) /\ Within \in Nat BY NoRows, WithinIs
  <1>3. window' \in [scanning: BOOLEAN, seen: 0 .. Within, collected: Seq(Results),
                     exhausted: BOOLEAN, limitReached: BOOLEAN]
    <2> HIDE DEF Within
    <2>1. 0 \in 0 .. Within /\ <<>> \in Seq(Results) BY <1>2
    <2> QED BY <1>1, <2>1
  <1>4. Within' = Within BY IndexStays
  <1>5. IsOrder(window.collected, window.seen)'
    <2>0. <<>> \in Seq(Results) /\ DOMAIN <<>> = {} OBVIOUS
    <2>1. window'.collected \in Seq(Results) /\ DOMAIN window'.collected = {}
      BY <1>1, <2>0
    <2>2. ToSet(window'.collected) = {} BY <2>1 DEF ToSet
    <2>3. ResultsOf(window.seen)' = {} BY <1>1 DEF ResultsOf
    <2> QED BY <2>1, <2>2, <2>3 DEF IsOrder
  <1> QED BY <1>1, <1>3, <1>4, <1>5, SearchWindowAssumption DEF ScanIsTrue

LEMMA PageKeeps ==
    ASSUME WindowInvariant, Answer
    PROVE  WindowInvariant'
  <1> USE SearchWindowAssumption
  <1> DEFINE part == Slice(window.collected, Offset, Limit)
             grouped == Len(window.collected)
             complete == window.exhausted /\ ~window.limitReached
             more == part # <<>> /\ (grouped > Offset + Limit \/ ~complete)
             page == [results |-> part, hasMore |-> more,
                      counted |-> IF complete THEN grouped ELSE NoCount]
             all == AllResults
             n == Len(answers)
  <1>0. /\ ScanIsTrue /\ ShownIsTheBeginning /\ window.scanning /\ ~WantsRows
        /\ UNCHANGED <<index, honest>> /\ window' = Ready /\ answers' = Append(answers, page)
    BY DEF WindowInvariant, Answer
  <1>1. /\ index \in Seq(Results) /\ window.seen \in 0 .. Within /\ window.seen \in Nat
        /\ Within \in Nat /\ Within <= Len(index) /\ Within <= ScanBudget
        /\ (Within = Len(index) \/ Within = ScanBudget)
        /\ IsOrder(window.collected, window.seen) /\ Len(index) \in Nat
        /\ window.collected \in Seq(Results) /\ window.exhausted \in BOOLEAN
        /\ window.limitReached \in BOOLEAN /\ grouped \in Nat
    BY <1>0, WithinIs DEF ScanIsTrue
  <1>2. /\ answers \in Seq(Page) /\ Shown \in Seq(Results) /\ Len(Shown) \in Nat
        /\ n \in Nat /\ Offset = n * Limit /\ Offset \in Nat /\ Begins(Shown, all)
    BY <1>0 DEF ShownIsTheBeginning, Offset
  <1>3. IsOrder(all, Within) /\ all \in Seq(Results) /\ Len(all) \in Nat
    BY <1>1, AllIsAnOrder DEF IsOrder
  <1>4. Begins(window.collected, all) BY <1>1, <1>3, OrderGrows
  <1>5. IsSlice(part, window.collected, Offset, Limit, Results) BY <1>1, <1>2, SliceIs
  <1>6. page \in Page
    <2>1. part \in Seq(Results) BY <1>5 DEF IsSlice
    <2> HIDE DEF part, grouped
    <2> QED BY <1>1, <2>1 DEF Page, NoCount
  <1>7. /\ page.results = part /\ (page.hasMore <=> more)
        /\ page.counted = IF complete THEN grouped ELSE NoCount
    OBVIOUS
  <1> HIDE DEF part, page, all
  <1>8. /\ answers' \in Seq(Page) /\ Len(answers') = n + 1 /\ answers' # <<>>
        /\ DOMAIN answers' = 1 .. n + 1 /\ answers'[n + 1] = page
        /\ \A i \in 1 .. n : answers'[i] = answers[i]
        /\ Last(answers') = page /\ Offset' = Offset + Limit
    <2>1. /\ answers' \in Seq(Page) /\ Len(answers') = n + 1 /\ answers' # <<>>
          /\ DOMAIN answers' = 1 .. n + 1 /\ answers'[n + 1] = page
          /\ \A i \in 1 .. n : answers'[i] = answers[i]
      BY <1>0, <1>2, <1>6
    <2>2. Last(answers') = page BY <2>1 DEF Last
    <2>3. Offset' = Offset + Limit
      <3> HIDE DEF n
      <3> QED BY <1>2, <2>1 DEF Offset
    <2> QED BY <2>1, <2>2, <2>3
  <1>9. Shown' = Shown \o part BY <1>0, <1>2, <1>6, <1>7, FlatWithAPage
  <1>10. ScanIsTrue'
    <2>1. index \in Seq(Results) /\ Len(index) <= MaxRows /\ honest \in BOOLEAN
      BY <1>0 DEF ScanIsTrue
    <2>2. window' = [Ready EXCEPT !.scanning = FALSE] BY <1>0, ReadyIs
    <2> QED BY <1>0, <2>1, <2>2, WindowReopens
  <1>11. all' = all BY <1>0, IndexStays DEF all
  (* What the batch saw is all there is, if it is not told there is more.  *)
  <1>12. /\ ~window.exhausted => grouped > Offset + Limit
         /\ window.limitReached => window.collected = all
         /\ honest /\ complete => window.collected = all
    <2>1. window.seen = Within => window.collected = all
      <3>1. window.seen = Within => Begins(all, window.collected)
        BY <1>1, <1>3, OrderGrows
      <3>2. window.seen = Within => Len(all) = Len(window.collected)
        BY <1>1, <1>3, <1>4, <3>1 DEF Begins
      <3> QED BY <1>1, <1>3, <1>4, <3>2, LongerIsAll
    <2>2. window.limitReached => window.seen = Within BY <1>0, <1>1 DEF ScanIsTrue
    <2>3. honest /\ complete => window.seen = Within BY <1>0, <1>1 DEF ScanIsTrue
    <2>4. ~window.exhausted => grouped > Offset + Limit
      BY <1>0, <1>1, <1>2 DEF ScanIsTrue, WantsRows, TargetCount
    <2> QED BY <2>1, <2>2, <2>3, <2>4
  <1>13. /\ part \in Seq(Results) /\ Len(part) \in Nat /\ Len(part) <= Limit
         /\ Len(part) = 0 \/ Offset + Len(part) <= grouped
         /\ Len(part) = Limit \/ Offset + Len(part) >= grouped
         /\ grouped <= Len(all) /\ Len(Shown) <= Len(all)
    BY <1>2, <1>4, <1>5 DEF IsSlice, Begins
  <1>14. part # <<>> <=> Len(part) # 0 BY <1>13
  <1>15. ExactCounts' \/ ~honest
    <2> SUFFICES ASSUME honest PROVE ExactCounts' OBVIOUS
    <2>1. complete => grouped = Cardinality(ToSet(index))
      <3> SUFFICES ASSUME complete PROVE grouped = Cardinality(ToSet(index)) OBVIOUS
      <3>1. window.seen = Len(index) BY <1>0 DEF ScanIsTrue
      <3>2. ToSet(window.collected) = ToSet(index)
        <4>1. DOMAIN index = 1 .. window.seen BY <1>1, <3>1
        <4>2. ToSet(window.collected) = ResultsOf(window.seen) BY <1>1 DEF IsOrder
        <4> QED BY <4>1, <4>2 DEF ResultsOf, ToSet
      <3>3. Cardinality(ToSet(window.collected)) = grouped BY <1>1, ResultsAreDistinct
      <3> QED BY <3>2, <3>3
    <2>2. page.counted \in {NoCount, Cardinality(ToSet(index))}
      <3> HIDE DEF grouped
      <3> QED BY <1>7, <2>1
    <2>3. \A i \in 1 .. n : answers[i].counted \in {NoCount, Cardinality(ToSet(index))}
      BY <1>0, <1>2 DEF ShownIsTheBeginning, ExactCounts
    <2>4. \A i \in 1 .. n + 1 : i = n + 1 \/ i \in 1 .. n BY <1>2
    <2>5. \A i \in 1 .. n + 1 : answers'[i].counted \in {NoCount, Cardinality(ToSet(index))}
      <3> HIDE DEF n
      <3> QED BY <1>8, <2>2, <2>3, <2>4
    <2> QED BY <1>0, <1>8, <2>5 DEF ExactCounts
  <1>16. CASE Len(Shown) = Offset /\ \A i \in DOMAIN answers : Len(answers[i].results) = Limit
    <2>1. /\ Begins(Shown', all) /\ Shown' \in Seq(Results)
          /\ Len(Shown') = Offset + Len(part)
      <3> DEFINE q == Shown
                 p == window.collected
      <3>1. IsSlice(part, p, Len(q), Limit, Results) BY <1>5, <1>16
      <3>2. q \in Seq(Results) /\ p \in Seq(Results) /\ Begins(q, all) /\ Begins(p, all)
        BY <1>1, <1>2, <1>4
      <3>3. Shown' = q \o part /\ Len(q) = Offset BY <1>9, <1>16
      <3> HIDE DEF q, p
      <3>4. Begins(q \o part, all) /\ q \o part \in Seq(Results)
            /\ Len(q \o part) = Len(q) + Len(part)
        BY <1>3, <3>1, <3>2, PageFollows
      <3> QED BY <3>3, <3>4
    <2>2. ~more => Len(part) = Limit \/ Len(Shown') < Offset' BY <1>2, <1>8, <1>13, <2>1
    <2>3. more /\ Len(part) # Limit => Len(Shown') < Offset' /\ Len(Shown') = Len(all)
      <3> SUFFICES ASSUME more, Len(part) # Limit
                   PROVE  Len(Shown') < Offset' /\ Len(Shown') = Len(all)
        OBVIOUS
      <3>1. Offset + Len(part) >= grouped /\ ~(grouped > Offset + Limit)
        BY <1>1, <1>2, <1>13
      <3>2. window.limitReached BY <1>1, <1>12, <3>1
      <3>3. grouped = Len(all) BY <1>12, <3>2
      <3> QED BY <1>2, <1>3, <1>8, <1>13, <1>14, <2>1, <3>1, <3>3
    <2>4. honest /\ ~more => Len(Shown') = Len(all)
      <3> SUFFICES ASSUME honest, ~more PROVE Len(Shown') = Len(all) OBVIOUS
      <3>1. window.collected = all BY <1>1, <1>2, <1>12, <1>13, <1>14
      <3>2. grouped = Len(all) BY <3>1
      <3>3. grouped <= Offset + Limit \/ Len(part) = 0 BY <1>1, <1>2, <1>14
      <3> QED BY <1>1, <1>2, <1>3, <1>13, <1>16, <2>1, <3>2, <3>3
    <2>5. \A i \in 1 .. n : Len(answers'[i].results) = Limit BY <1>2, <1>8, <1>16
    <2>6. Len(part) = Limit => \A i \in 1 .. n + 1 : Len(answers'[i].results) = Limit
      <3>1. \A i \in 1 .. n + 1 : i = n + 1 \/ i \in 1 .. n BY <1>2
      <3> HIDE DEF n
      <3> QED BY <1>7, <1>8, <2>5, <3>1
    <2>7. \/ /\ Len(Shown') = Offset'
             /\ \A i \in DOMAIN answers' : Len(answers'[i].results) = Limit
          \/ /\ answers' # <<>> /\ ~Last(answers').hasMore /\ Len(Shown') < Offset'
             /\ \A i \in 1 .. Len(answers') - 1 : Len(answers'[i].results) = Limit
          \/ Len(Shown') < Offset' /\ Len(Shown') = Len(all)
      <3>1. Len(answers') - 1 = n BY <1>2, <1>8
      <3>2. CASE Len(part) = Limit BY <1>2, <1>8, <1>13, <2>1, <2>6, <3>2
      <3>3. CASE Len(part) # Limit /\ more BY <2>3, <3>3
      <3>4. CASE Len(part) # Limit /\ ~more
        <4> HIDE DEF n, more
        <4> QED BY <1>7, <1>8, <2>2, <2>5, <3>1, <3>4
      <3> QED BY <3>2, <3>3, <3>4
    <2> HIDE DEF more
    <2> QED BY <1>0, <1>7, <1>8, <1>10, <1>11, <1>15, <2>1, <2>4, <2>7
            DEF WindowInvariant, ShownIsTheBeginning, Ready, all
  <1>17. CASE Len(Shown) < Offset /\ Len(Shown) = Len(all)
    <2>1. Len(part) = 0 /\ part = <<>> BY <1>1, <1>2, <1>3, <1>13, <1>17
    <2>2. Shown' = Shown BY <1>2, <1>9, <2>1
    <2>3. Len(Shown') < Offset' /\ Len(Shown') = Len(all) BY <1>2, <1>8, <1>17, <2>2
    <2> HIDE DEF more
    <2> QED BY <1>0, <1>2, <1>8, <1>10, <1>11, <1>15, <2>2, <2>3
            DEF WindowInvariant, ShownIsTheBeginning, Ready, all
  <1>18. answers = <<>> \/ Last(answers).hasMore BY <1>0 DEF ShownIsTheBeginning
  <1> QED BY <1>0, <1>16, <1>17, <1>18 DEF ShownIsTheBeginning, all

LEMMA WindowKeeps == WindowInvariant /\ [WindowNext]_windowVars => WindowInvariant'
  <1> SUFFICES ASSUME WindowInvariant, [WindowNext]_windowVars PROVE WindowInvariant'
    OBVIOUS
  <1>1. index \in Seq(Results) /\ Len(index) <= MaxRows /\ honest \in BOOLEAN
    BY DEF WindowInvariant, ScanIsTrue
  <1>2. CASE AskNextPage \/ WindowFails
    <2>1. UNCHANGED <<index, honest, answers>> /\ \E s \in BOOLEAN :
             window' = [Ready EXCEPT !.scanning = s]
             /\ (s => answers = <<>> \/ Last(answers).hasMore)
      <3>1. Ready = [Ready EXCEPT !.scanning = FALSE] BY ReadyIs
      <3>2. CASE AskNextPage BY <3>2 DEF AskNextPage
      <3>3. CASE WindowFails BY <3>1, <3>3 DEF WindowFails
      <3> QED BY <1>2, <3>2, <3>3
    <2>2. PICK s \in BOOLEAN : window' = [Ready EXCEPT !.scanning = s]
                               /\ (s => answers = <<>> \/ Last(answers).hasMore)
      BY <2>1
    <2>3. window'.scanning = s BY <2>2 DEF Ready
    <2>4. ScanIsTrue' BY <1>1, <2>1, <2>2, WindowReopens
    <2>5. ShownIsTheBeginning' BY <2>1, <2>2, <2>3, PagesStay DEF WindowInvariant
    <2> QED BY <2>4, <2>5 DEF WindowInvariant
  <1>3. CASE UNCHANGED windowVars
    BY <1>3, PagesStay, ScanStays DEF windowVars, WindowInvariant, ShownIsTheBeginning
  <1> QED BY <1>2, <1>3, BatchKeeps, PageKeeps DEF WindowNext

LEMMA WindowBegins == WindowInit => WindowInvariant
  <1> SUFFICES ASSUME WindowInit PROVE WindowInvariant OBVIOUS
  <1>1. index \in Seq(Results) /\ Len(index) <= MaxRows /\ honest \in BOOLEAN
    BY SearchWindowAssumption DEF WindowInit
  <1>2. window = [Ready EXCEPT !.scanning = FALSE] /\ answers = <<>>
    BY ReadyIs DEF WindowInit
  <1>3. ScanIsTrue BY <1>1, <1>2, WindowOpens
  <1>4. Shown = <<>> /\ Offset = 0
    <2>1. [i \in DOMAIN answers |-> answers[i].results] = <<>> BY <1>2
    <2> QED BY <1>2, <2>1, SearchWindowAssumption DEF Shown, FlattenSeq, Offset
  <1>5. AllResults \in Seq(Results) BY <1>1, AllIsAnOrder DEF IsOrder
  <1>6. ExactCounts /\ ~window.scanning BY <1>2 DEF ExactCounts, Ready
  <1> QED BY <1>2, <1>3, <1>4, <1>5, <1>6
          DEF WindowInvariant, ShownIsTheBeginning, Begins

(* What a reader is shown, from the beginning of all there is.             *)
LEMMA WindowHolds ==
    ASSUME WindowInvariant
    PROVE  WindowTypeOK /\ PagesAreTheResultsInOrder /\ NoMoreMeansAllShown
  <1> USE SearchWindowAssumption
  <1> DEFINE all == AllResults
             n == Len(answers)
  <1>1. /\ index \in Seq(Results) /\ Len(index) \in Nat /\ Len(index) <= MaxRows
        /\ Within \in Nat /\ Within <= Len(index) /\ Reached = ResultsOf(Within)
        /\ IsOrder(all, Within)
    BY WithinIs, AllIsAnOrder DEF WindowInvariant, ScanIsTrue
  <1>2. /\ all \in Seq(Results) /\ Len(all) \in Nat /\ DOMAIN all = 1 .. Len(all)
        /\ ToSet(all) = Reached
        /\ \A i, j \in DOMAIN all : i < j => FirstRow(all[i]) < FirstRow(all[j])
    BY <1>1 DEF IsOrder
  <1>3. /\ answers \in Seq(Page) /\ Shown \in Seq(Results) /\ n \in Nat
        /\ Len(Shown) \in Nat /\ DOMAIN Shown = 1 .. Len(Shown)
        /\ Len(Shown) <= Len(all) /\ \A i \in 1 .. Len(Shown) : Shown[i] = all[i]
    BY DEF WindowInvariant, ShownIsTheBeginning, Begins
  <1>4. Len(Shown) = Len(all) => ToSet(Shown) = Reached
    BY <1>2, <1>3, LongerIsAll DEF Begins
  <1>5. WindowTypeOK
    <2> HIDE DEF Within
    <2>1. 0 .. Within \subseteq 0 .. MaxRows BY <1>1
    <2> QED BY <1>3, <2>1 DEF WindowInvariant, ScanIsTrue, WindowTypeOK
  <1>6. NoMoreMeansAllShown
    BY <1>4 DEF NoMoreMeansAllShown, WindowInvariant, ShownIsTheBeginning
  <1> HIDE DEF all
  <1>7. ASSUME NEW k \in DOMAIN all PROVE FirstRow(all[k]) \in Nat
    <2>1. all[k] \in ResultsOf(Within) BY <1>1, <1>2 DEF ToSet
    <2>2. PICK i \in 1 .. Within : all[k] = index[i] BY <2>1 DEF ResultsOf
    <2>3. i \in DOMAIN index BY <1>1
    <2>4. FirstRow(index[i]) \in 1 .. i BY <1>1, <2>3, FirstRowIs
    <2> QED BY <2>2, <2>4
  <1>8. \A i, j \in DOMAIN Shown : i < j => FirstRow(Shown[i]) < FirstRow(Shown[j])
    <2> SUFFICES ASSUME NEW i \in DOMAIN Shown, NEW j \in DOMAIN Shown, i < j
                 PROVE  FirstRow(Shown[i]) < FirstRow(Shown[j])
      OBVIOUS
    <2>1. i \in DOMAIN all /\ j \in DOMAIN all /\ Shown[i] = all[i] /\ Shown[j] = all[j]
      BY <1>2, <1>3
    <2> QED BY <1>2, <2>1
  <1>9. \A i \in DOMAIN Shown : \A r \in Reached :
           FirstRow(r) < FirstRow(Shown[i]) => Contains(Shown, r)
    <2> SUFFICES ASSUME NEW i \in DOMAIN Shown, NEW r \in Reached,
                        FirstRow(r) < FirstRow(Shown[i])
                 PROVE  Contains(Shown, r)
      OBVIOUS
    <2>1. i \in DOMAIN all /\ Shown[i] = all[i] BY <1>2, <1>3
    <2>2. PICK k \in DOMAIN all : all[k] = r BY <1>2 DEF ToSet
    <2>3. k <= i
      <3> SUFFICES ASSUME ~(k <= i) PROVE FALSE OBVIOUS
      <3>1. i < k BY <1>2, <2>1, <2>2
      <3>2. FirstRow(all[i]) < FirstRow(all[k]) BY <1>2, <2>1, <2>2, <3>1
      <3>3. FirstRow(all[i]) \in Nat /\ FirstRow(all[k]) \in Nat BY <1>7, <2>1, <2>2
      <3> QED BY <2>1, <2>2, <3>2, <3>3
    <2>4. k \in DOMAIN Shown /\ Shown[k] = r BY <1>2, <1>3, <2>2, <2>3
    <2> QED BY <2>4 DEF Contains
  <1>10. \A i \in 1 .. n - 1 : Len(answers[i].results) = Limit \/ ToSet(Shown) = Reached
    <2>1. \/ \A i \in DOMAIN answers : Len(answers[i].results) = Limit
          \/ \A i \in 1 .. n - 1 : Len(answers[i].results) = Limit
          \/ Len(Shown) = Len(all)
      BY DEF WindowInvariant, ShownIsTheBeginning, all
    <2>2. \A i \in 1 .. n - 1 : i \in DOMAIN answers BY <1>3
    <2> QED BY <1>4, <2>1, <2>2
  <1> QED BY <1>5, <1>6, <1>8, <1>9, <1>10 DEF PagesAreTheResultsInOrder

(* Search pages: however the batches fall, the pages shown so far are the  *)
(* beginning of the results in the order of their first rows.              *)
THEOREM WindowIsSound == WindowSpec => []WindowInvariant
  <1> QED BY WindowBegins, WindowKeeps, PTL DEF WindowSpec

(* In a run of all components the search pages take their own steps or none. *)
LEMMA WindowIsAPart == ServiceSpec => WindowSpec
  <1>1. ServiceInit => WindowInit BY DEF ServiceInit
  <1>2. [ServiceNext]_serviceVars => [WindowNext]_windowVars
    BY DEF ServiceNext, serviceVars, JobsStep, TakedownStep, PageStep,
           WindowStep, AdmissionStep, PageImagesStep, EntityDetailStep, PdfViewStep, PlayerStep
  <1> QED BY <1>1, <1>2, PTL DEF ServiceSpec, WindowSpec

(* PagesAreWhole: consecutive pages repeat no result and skip none, and a  *)
(* reader who is told there is no more has seen all the budget reaches.    *)
THEOREM PagesWhole == ServiceSpec => []PagesAreWhole
  <1>1. WindowInvariant => PagesAreTheResultsInOrder /\ NoMoreMeansAllShown
    BY WindowHolds
  <1>2. PagesAreTheResultsInOrder /\ NoMoreMeansAllShown => PagesAreWhole
    BY DEF PagesAreWhole
  <1> QED BY <1>1, <1>2, WindowIsAPart, WindowIsSound, PTL
-----------------------------------------------------------------------------
(* Types. Admission: a bucket never holds more than its capacity, and no   *)
(* client has more searches under way than there are slots.                *)
LEMMA TotalIsNatural ==
    ASSUME IsFiniteSet(Clients), NEW count \in [Clients -> Nat]
    PROVE  Total(count) \in Nat
  <1> DEFINE f == CHOOSE f : SumsOf(f, count, Clients)
  <1>1. count \in [Clients -> Int] OBVIOUS
  <1>2. SumsOf(f, count, Clients) BY <1>1, SumsExist
  <1> HIDE DEF f
  <1>3. f[Clients] \in Nat BY <1>2, SumIsNatural
  <1> QED BY <1>3, TotalIsASum DEF f

LEMMA OneIsNoMoreThanAll ==
    ASSUME IsFiniteSet(Clients), NEW count \in [Clients -> Nat], NEW c \in Clients
    PROVE  count[c] <= Total(count) /\ Total(count) \in Nat
  <1> DEFINE others == [count EXCEPT ![c] = 0]
             d == 0 - count[c]
  <1>1. others \in [Clients -> Nat] /\ d \in Int /\ count \in [Clients -> Int] OBVIOUS
  <1>2. Changed(others, count, c, d)
    <2>1. count[c] + d = 0 OBVIOUS
    <2>2. [count EXCEPT ![c] = count[c] + d] = others BY <2>1
    <2> HIDE DEF d, others
    <2> QED BY <2>2 DEF Changed
  <1>3. Total(others) \in Nat BY <1>1, TotalIsNatural
  <1> HIDE DEF others, d
  <1>4. Total(count) \in Int /\ Total(others) = Total(count) + d
    BY <1>1, <1>2, TotalFollows
  <1>5. count[c] \in Nat /\ d = 0 - count[c] BY DEF d
  <1> QED BY <1>3, <1>4, <1>5

AdmissionBounds ==
    /\ time <= MaxClock /\ lastSweep \in 0 .. MaxClock
    /\ \A c \in DOMAIN buckets : buckets[c].tokens <= Capacity /\ buckets[c].updatedAt >= 0
    /\ searches \in [Clients -> Nat]

LEMMA ConsumeIsBounded ==
    ASSUME AdmissionInvariant, AdmissionBounds, NEW client \in Clients, NEW cost \in Nat,
           NEW allowed \in BOOLEAN, Consume(client, cost, allowed)
    PROVE  /\ time' <= MaxClock /\ lastSweep' \in 0 .. MaxClock
           /\ \A c \in DOMAIN buckets' :
                 buckets'[c].tokens <= Capacity /\ buckets'[c].updatedAt >= 0
  <1> USE AdmissionAssumption
  <1>1. time \in Nat /\ time <= MaxClock /\ lastSweep \in 0 .. MaxClock /\ time' = time
    BY DEF AdmissionInvariant, AdmissionBounds, BucketsAreRows, Consume
  <1>2. lastSweep' \in 0 .. MaxClock BY <1>1 DEF Consume
  <1>3. Tokens(client) \in 0 .. Capacity BY TokensAreExact DEF AdmissionInvariant
  <1>4. ASSUME NEW c \in DOMAIN buckets'
        PROVE  buckets'[c].tokens <= Capacity /\ buckets'[c].updatedAt >= 0
    <2>1. CASE c = client
      <3>1. /\ buckets'[c].tokens = Tokens(client) - IF allowed THEN cost ELSE 0
            /\ buckets'[c].updatedAt = time
        BY <1>4, <2>1 DEF Consume
      <3> QED BY <3>1, <1>1, <1>3
    <2>2. CASE c # client
      <3>1. c \in DOMAIN buckets /\ buckets'[c] = buckets[c]
        BY <1>4, <2>2 DEF Consume, Kept
      <3> QED BY <3>1 DEF AdmissionBounds
    <2> QED BY <2>1, <2>2
  <1> QED BY <1>1, <1>2, <1>4

LEMMA AdmissionStaysBounded ==
    AdmissionInvariant /\ AdmissionBounds /\ [AdmissionNext]_admissionVars => AdmissionBounds'
  <1> SUFFICES ASSUME AdmissionInvariant, AdmissionBounds, [AdmissionNext]_admissionVars
               PROVE  AdmissionBounds'
    OBVIOUS
  <1> USE AdmissionAssumption
  <1>0. searches \in [Clients -> Nat] BY DEF AdmissionBounds
  <1>1. CASE Tick BY <1>1 DEF Tick, AdmissionBounds, AdmissionInvariant, BucketsAreRows
  <1>2. CASE Request
    <2>1. PICK client \in Clients, allowed \in BOOLEAN :
             Consume(client, 1, allowed) /\ UNCHANGED <<searches, running>>
      BY <1>2 DEF Request
    <2> QED BY <2>1, <1>0, 1 \in Nat, ConsumeIsBounded DEF AdmissionBounds
  <1>3. CASE PhraseSearch
    <2>1. PICK client \in Clients, allowed \in BOOLEAN :
             /\ Consume(client, PhraseCost, allowed)
             /\ \/ searches' = [searches EXCEPT ![client] = @ + 1]
                \/ UNCHANGED searches
      BY <1>3 DEF PhraseSearch
    <2>2. searches' \in [Clients -> Nat] BY <2>1, <1>0
    <2>3. PhraseCost \in Nat OBVIOUS
    <2> QED BY <2>1, <2>2, <2>3, ConsumeIsBounded DEF AdmissionBounds
  <1>4. CASE PhraseSearchEnds
    <2>1. PICK client \in Clients :
             /\ searches[client] > 0 /\ searches' = [searches EXCEPT ![client] = @ - 1]
             /\ UNCHANGED <<time, buckets, lastSweep>>
      BY <1>4 DEF PhraseSearchEnds
    <2>2. searches[client] - 1 \in Nat BY <2>1, <1>0
    <2>3. searches' \in [Clients -> Nat] BY <2>1, <2>2, <1>0
    <2> QED BY <2>1, <2>3 DEF AdmissionBounds
  <1>5. CASE UNCHANGED admissionVars BY <1>5 DEF admissionVars, AdmissionBounds
  <1> QED BY <1>1, <1>2, <1>3, <1>4, <1>5 DEF AdmissionNext

LEMMA AdmissionHasTypes == AdmissionSpec => []AdmissionTypeOK
  <1>1. AdmissionInit => AdmissionBounds
    BY AdmissionAssumption DEF AdmissionInit, AdmissionBounds
  <1>2. AdmissionInvariant /\ AdmissionBounds => AdmissionTypeOK
    <2> SUFFICES ASSUME AdmissionInvariant, AdmissionBounds PROVE AdmissionTypeOK
      OBVIOUS
    <2> USE AdmissionAssumption
    <2>1. time \in 0 .. MaxClock /\ lastSweep \in 0 .. MaxClock
      BY DEF AdmissionInvariant, AdmissionBounds, BucketsAreRows
    <2>2. ASSUME NEW c \in DOMAIN buckets PROVE buckets[c] \in Bucket
      <3>1. /\ buckets[c] \in BucketRow /\ buckets[c].tokens >= 0 /\ buckets[c].updatedAt <= time
            /\ buckets[c].tokens <= Capacity
        BY DEF AdmissionInvariant, AdmissionBounds, BucketsAreRows
      (* A bucket is counted no earlier than the clock began.                *)
      <3>2. buckets[c].updatedAt >= 0 BY DEF AdmissionBounds
      <3> QED BY <2>1, <3>1, <3>2 DEF BucketRow, Bucket
    <2>3. \A c \in Clients : refill[c] \in 0 .. Capacity
      BY TokensAreExact DEF AdmissionInvariant
    <2>4. \A c \in Clients : searches[c] <= Total(searches) /\ Total(searches) \in Nat
      BY OneIsNoMoreThanAll DEF AdmissionBounds
    <2>5. searches \in [Clients -> 0 .. Slots] /\ running \in 0 .. Slots
      <3>1. running \in Nat
        <4>1. Total(searches) \in Nat BY TotalIsNatural DEF AdmissionBounds
        <4> QED BY <4>1 DEF AdmissionInvariant, SlotsAreCounted
      <3> QED BY <2>4, <3>1 DEF AdmissionInvariant, SlotsAreCounted, AdmissionBounds
    <2> QED BY <2>1, <2>2, <2>3, <2>5 DEF AdmissionTypeOK, AdmissionInvariant, BucketsAreRows
  <1> QED BY <1>1, <1>2, AdmissionStaysBounded, AdmissionIsSound, PTL DEF AdmissionSpec
-----------------------------------------------------------------------------
(* The player, its types: every hit is in a segment, for the hits up to a  *)
(* segment are those before it and its own. Sums that agree on what they   *)
(* add agree, and anything added may be set apart.                         *)
LEMMA SumsAgree ==
    ASSUME NEW C, IsFiniteSet(C), NEW count, NEW f, SumsOf(f, count, C),
           NEW D \in SUBSET C, NEW part, NEW g, SumsOf(g, part, D),
           \A k \in D : part[k] = count[k]
    PROVE  \A S \in SUBSET D : g[S] = f[S]
  <1> DEFINE Bad == { Cardinality(S) : S \in { T \in SUBSET D : g[T] # f[T] } }
  <1>0. \A S \in SUBSET D : Cardinality(S) \in Nat BY FS_Subset, FS_CardinalityType
  <1> SUFFICES ASSUME Bad # {} PROVE FALSE OBVIOUS
  <1>1. Bad \in SUBSET Nat BY <1>0
  <1>2. PICK n \in Bad : \A m \in Bad : n <= m
    <2> HIDE DEF Bad
    <2> QED BY <1>1, LeastNumber
  <1>3. PICK S \in SUBSET D : g[S] # f[S] /\ Cardinality(S) = n BY <1>2
  <1>4. f[S] = Summed(f, count, S) /\ g[S] = Summed(g, part, S) BY DEF SumsOf
  <1>5. S # {} BY <1>3, <1>4 DEF Summed
  <1> DEFINE c == CHOOSE c \in S : TRUE
  <1>6. /\ c \in S /\ S \ {c} \in SUBSET D
        /\ Cardinality(S) \in Nat /\ Cardinality(S \ {c}) \in Nat
        /\ Cardinality(S \ {c}) = Cardinality(S) - 1
    <2>1. IsFiniteSet(D) BY FS_Subset
    <2> QED BY <2>1, <1>5, OneTaken
  <1>7. f[S] = count[c] + f[S \ {c}] /\ g[S] = part[c] + g[S \ {c}]
    BY <1>4, <1>5 DEF Summed
  <1> HIDE DEF c
  <1>8. g[S \ {c}] = f[S \ {c}]
    <2> SUFFICES ASSUME g[S \ {c}] # f[S \ {c}] PROVE FALSE OBVIOUS
    <2>1. Cardinality(S \ {c}) \in Bad BY <1>6
    <2> HIDE DEF Bad
    <2>2. n <= Cardinality(S \ {c}) BY <2>1, <1>2
    <2> QED BY <2>2, <1>3, <1>6
  <1>9. part[c] = count[c] BY <1>6
  <1> QED BY <1>3, <1>7, <1>8, <1>9

LEMMA SumsAreNumbers ==
    ASSUME NEW C, IsFiniteSet(C), NEW count \in [C -> Int], NEW f, SumsOf(f, count, C)
    PROVE  \A S \in SUBSET C : f[S] \in Int
  <1>1. PICK h \in [SUBSET C -> Int] : SumsOf(h, count, C) BY SumsExist
  <1>2. \A S \in SUBSET C : f[S] = h[S] BY <1>1, SumsAgree
  <1> QED BY <1>1, <1>2

LEMMA SetApart ==
    ASSUME NEW C, IsFiniteSet(C), NEW count \in [C -> Int], NEW f, SumsOf(f, count, C)
    PROVE  \A S \in SUBSET C : \A x : x \in S => f[S] = count[x] + f[S \ {x}]
  <1> DEFINE Is(S) == \A x \in S : f[S] = count[x] + f[S \ {x}]
             Bad == { Cardinality(S) : S \in { T \in SUBSET C : ~Is(T) } }
  <1>0. \A S \in SUBSET C : Cardinality(S) \in Nat /\ f[S] \in Int
    BY FS_Subset, FS_CardinalityType, SumsAreNumbers
  <1> SUFFICES ASSUME Bad # {} PROVE FALSE OBVIOUS
  <1>1. Bad \in SUBSET Nat BY <1>0
  <1>2. PICK n \in Bad : \A m \in Bad : n <= m
    <2> HIDE DEF Bad
    <2> QED BY <1>1, LeastNumber
  <1>3. PICK S \in SUBSET C : ~Is(S) /\ Cardinality(S) = n BY <1>2
  <1>4. PICK x \in S : f[S] # count[x] + f[S \ {x}] BY <1>3
  <1> DEFINE c == CHOOSE c \in S : TRUE
  <1>5. /\ c \in S /\ S \ {c} \in SUBSET C
        /\ Cardinality(S) \in Nat /\ Cardinality(S \ {c}) \in Nat
        /\ Cardinality(S \ {c}) = Cardinality(S) - 1
    BY <1>4, OneTaken
  <1>6. f[S] = count[c] + f[S \ {c}]
    <2>1. f[S] = Summed(f, count, S) BY DEF SumsOf
    <2> QED BY <2>1, <1>4 DEF Summed
  <1> HIDE DEF c
  <1>7. c # x BY <1>4, <1>6
  <1>8. Cardinality(S \ {x}) \in Nat /\ Cardinality(S \ {x}) = Cardinality(S) - 1
    <2>1. IsFiniteSet(S) BY FS_Subset
    <2>2. Cardinality(S \ {x}) = Cardinality(S) - 1 BY <2>1, FS_RemoveElement
    <2> QED BY <2>2, <1>0
  <1>9. ASSUME NEW T \in SUBSET C, Cardinality(T) = Cardinality(S) - 1 PROVE Is(T)
    <2> SUFFICES ASSUME ~Is(T) PROVE FALSE OBVIOUS
    <2>1. Cardinality(T) \in Bad OBVIOUS
    <2> HIDE DEF Bad
    <2>2. n <= Cardinality(T) BY <2>1, <1>2
    <2> QED BY <2>2, <1>3, <1>5, <1>9
  <1>10. Is(S \ {c}) /\ Is(S \ {x}) BY <1>5, <1>8, <1>9
  <1> DEFINE rest == (S \ {c}) \ {x}
  <1>11. f[S \ {c}] = count[x] + f[rest] /\ f[S \ {x}] = count[c] + f[rest]
    <2>1. rest = (S \ {x}) \ {c} OBVIOUS
    <2>2. x \in S \ {c} /\ c \in S \ {x} BY <1>5, <1>7
    <2>3. f[S \ {c}] = count[x] + f[(S \ {c}) \ {x}] BY <1>10, <2>2
    <2>4. f[S \ {x}] = count[c] + f[(S \ {x}) \ {c}] BY <1>10, <2>2
    <2> QED BY <2>1, <2>3, <2>4
  <1>12. f[rest] \in Int /\ count[c] \in Int /\ count[x] \in Int BY <1>0, <1>5
  <1> HIDE DEF rest, Is, Bad
  <1> QED BY <1>4, <1>6, <1>11, <1>12

Apart(f, count, C, x) == f[C] = count[x] + f[C \ {x}]
LEMMA OneSetApart ==
    ASSUME NEW C, NEW count, NEW f, NEW x, x \in C,
           IsFiniteSet(C), count \in [C -> Int], SumsOf(f, count, C)
    PROVE  Apart(f, count, C, x)
  BY SetApart DEF Apart
LastSegment(t) == Len(HitsIn[t])

LEMMA SegmentsAre ==
    ASSUME NEW t \in Terms
    PROVE  /\ HitsIn[t] \in Seq(Nat) /\ LastSegment(t) \in Nat
           /\ SegmentsOf = 1 .. LastSegment(t) /\ Cardinality(SegmentsOf) = LastSegment(t)
           /\ \A k \in 1 .. LastSegment(t) : HitsIn[t][k] \in Nat
  <1>1. HitsIn[t] \in Seq(Nat) /\ Len(HitsIn[t]) = Len(HitsIn[CHOOSE u \in Terms : TRUE])
    BY RecordingPlayerAssumption
  <1>2. LastSegment(t) \in Nat /\ SegmentsOf = 1 .. LastSegment(t)
    BY <1>1 DEF SegmentsOf, LastSegment
  <1> DEFINE m == LastSegment(t)
  <1> HIDE DEF m
  <1>3. m \in Nat => Cardinality(1 .. m) = m BY FS_Interval
  <1>4. \A k \in 1 .. LastSegment(t) : HitsIn[t][k] \in Nat
    BY <1>1, ElementOfSeq DEF LastSegment
  <1> QED BY <1>1, <1>2, <1>3, <1>4 DEF m

(* What is said up to a segment is what is said before it and in it.       *)
LEMMA HitsGrow ==
    ASSUME NEW t \in Terms, NEW k \in 1 .. LastSegment(t)
    PROVE  /\ Hits(t, k) \in Int /\ Hits(t, k - 1) \in Int
           /\ Hits(t, k) = HitsIn[t][k] + Hits(t, k - 1)
  <1> DEFINE C == 1 .. k
             D == 1 .. (k - 1)
             all == HitsAmong(t, C)
             part == HitsAmong(t, D)
             f == CHOOSE f : SumsOf(f, all, C)
             g == CHOOSE g : SumsOf(g, part, D)
  <1>1. LastSegment(t) \in Nat /\ \A j \in 1 .. LastSegment(t) : HitsIn[t][j] \in Nat
    BY SegmentsAre
  <1>2. all \in [C -> Int] /\ part \in [D -> Int] /\ \A j \in D : part[j] = all[j]
    BY <1>1 DEF HitsAmong
  <1>3. all[k] = HitsIn[t][k] BY <1>1 DEF HitsAmong
  <1>4. IsFiniteSet(C) /\ IsFiniteSet(D)
    <2>1. k \in Int /\ k - 1 \in Int /\ 1 \in Int BY <1>1
    <2> QED BY <2>1, FS_Interval
  <1>5. D \in SUBSET C /\ D = C \ {k} /\ k \in C /\ C \in SUBSET C /\ D \in SUBSET D
    BY <1>1
  <1>6. Hits(t, k) = f[C] /\ Hits(t, k - 1) = g[D] BY HitsIsASum
  <1> HIDE DEF C, D, all, part
  <1>7. SumsOf(f, all, C) /\ SumsOf(g, part, D) BY <1>2, <1>4, SumsExist
  <1> HIDE DEF f, g
  <1>8. g[D] = f[D]
    <2>1. D \in SUBSET C BY <1>5
    <2>2. \A S \in SUBSET D : g[S] = f[S] BY <2>1, <1>2, <1>4, <1>7, SumsAgree
    <2> QED BY <2>2
  <1>9. f[C] = all[k] + f[C \ {k}]
    <2>1. all \in [C -> Int] /\ IsFiniteSet(C) /\ SumsOf(f, all, C) /\ k \in C
      BY <1>2, <1>4, <1>5, <1>7
    <2>2. Apart(f, all, C, k) BY <2>1, OneSetApart
    <2> QED BY <2>2 DEF Apart
  <1>10. f[C] \in Int /\ f[D] \in Int BY <1>2, <1>4, <1>5, <1>7, SumsAreNumbers
  <1> QED BY <1>3, <1>5, <1>6, <1>8, <1>9, <1>10

LEMMA NoHitsBefore == ASSUME NEW t \in Terms PROVE Hits(t, 0) = 0
  <1> DEFINE none == HitsAmong(t, 1 .. 0)
             f == CHOOSE f : SumsOf(f, none, 1 .. 0)
  <1>1. 1 .. 0 = {} /\ none \in [1 .. 0 -> Int] /\ IsFiniteSet(1 .. 0)
    BY FS_EmptySet DEF HitsAmong
  <1>2. SumsOf(f, none, 1 .. 0) BY <1>1, SumsExist
  <1>3. Hits(t, 0) = f[1 .. 0] BY HitsIsASum
  <1> HIDE DEF f, none
  <1>4. f[1 .. 0] = Summed(f, none, 1 .. 0) BY <1>2 DEF SumsOf
  <1> QED BY <1>1, <1>3, <1>4 DEF Summed

(* segmentOfMatch(): there is a segment that a hit is in.                  *)
LEMMA MatchesAreSomewhere ==
    ASSUME NEW t \in FindQueries, NEW m \in Nat, m < MatchCount(t)
    PROVE  SegmentOfMatch(t, m) \in SegmentsOf
  <1>1. t \in Terms BY DEF FindQueries, MatchCount, Hits
  <1>2. /\ LastSegment(t) \in Nat /\ SegmentsOf = 1 .. LastSegment(t)
        /\ MatchCount(t) = Hits(t, LastSegment(t))
        /\ \A k \in 1 .. LastSegment(t) : HitsIn[t][k] \in Nat
    BY <1>1, SegmentsAre DEF MatchCount
  <1>3. Hits(t, 0) = 0 BY <1>1, NoHitsBefore
  <1> DEFINE After == { k \in 0 .. LastSegment(t) : m < Hits(t, k) }
  <1>4. After \in SUBSET Nat /\ LastSegment(t) \in After BY <1>2
  <1>5. PICK k \in After : \A j \in After : k <= j
    <2> HIDE DEF After
    <2> QED BY <1>4, LeastNumber
  <1>6. k \in 1 .. LastSegment(t) /\ m < Hits(t, k) BY <1>2, <1>3, <1>5
  <1>7. /\ Hits(t, k) \in Int /\ Hits(t, k - 1) \in Int
        /\ Hits(t, k) = HitsIn[t][k] + Hits(t, k - 1)
    BY <1>1, <1>6, HitsGrow
  <1>8. Hits(t, k - 1) <= m
    <2>1. k - 1 \in 0 .. LastSegment(t) /\ ~(k <= k - 1) BY <1>2, <1>6
    <2>2. k - 1 \notin After BY <2>1, <1>5
    <2>3. ~(m < Hits(t, k - 1)) BY <2>1, <2>2
    <2> QED BY <2>3, <1>7
  <1>9. HitsIn[t][k] \in Nat /\ HitsIn[t][k] > 0 /\ m < Hits(t, k - 1) + HitsIn[t][k]
    BY <1>2, <1>6, <1>7, <1>8
  <1> QED BY <1>2, <1>6, <1>8, <1>9 DEF SegmentOfMatch

Jumps == [to: {0} \cup SegmentsOf, play: BOOLEAN]
PlayerBounds ==
    /\ medium \in {"none", "importing", "stream", "file"} /\ timeline \in BOOLEAN
    /\ pendingSeek \in Jumps /\ playhead \in {0} \cup SegmentsOf /\ playing \in BOOLEAN
    /\ asked \in {0} \cup SegmentsOf /\ dismissed \in BOOLEAN /\ findBar.open \in BOOLEAN

LEMMA JumpsStayInside ==
    ASSUME PlayerBounds, NEW k \in SegmentsOf, NEW play \in BOOLEAN, MoveTo(k, play),
           dismissed' \in BOOLEAN, findBar'.open \in BOOLEAN
    PROVE  PlayerBounds'
  <1>1. NoJump \in Jumps /\ [to |-> k, play |-> play] \in Jumps BY DEF NoJump, Jumps
  <1>2. (playing \/ play) \in BOOLEAN BY DEF PlayerBounds
  <1>3. CASE timeline
    <2>1. /\ pendingSeek' = NoJump /\ playhead' = k /\ playing' = (playing \/ play)
          /\ asked' = k /\ medium' = medium /\ timeline' = timeline
      BY <1>3 DEF MoveTo
    <2> QED BY <2>1, <1>1, <1>2 DEF PlayerBounds, Jumps
  <1>4. CASE ~timeline
    <2>1. /\ pendingSeek' = [to |-> k, play |-> play] /\ playhead' = playhead
          /\ playing' = playing /\ asked' = k /\ medium' = medium /\ timeline' = timeline
      BY <1>4 DEF MoveTo, Held
    <2> QED BY <2>1, <1>1 DEF PlayerBounds, Jumps
  <1> QED BY <1>3, <1>4

LEMMA PlayerStaysBounded ==
    PlayerInvariant /\ PlayerBounds /\ [PlayerNext]_playerVars => PlayerBounds'
  <1> SUFFICES ASSUME PlayerInvariant, PlayerBounds, [PlayerNext]_playerVars PROVE PlayerBounds'
    OBVIOUS
  <1>0. FindBarIsTyped /\ priming \in Seq(FindQueries) /\ findBar.open \in BOOLEAN
        /\ incoming \in FindQueries
    BY DEF PlayerInvariant, PlayerBounds
  <1>j. NoJump \in Jumps BY DEF NoJump, Jumps
  <1>u. ASSUME UNCHANGED videoVars, dismissed' \in BOOLEAN, findBar'.open \in BOOLEAN
        PROVE  PlayerBounds'
    BY <1>u DEF videoVars, PlayerBounds, Jumps, SegmentsOf
  <1>1. CASE MetadataLoads
    <2>1. /\ timeline' = TRUE /\ pendingSeek' = NoJump /\ medium' = medium /\ asked' = asked
          /\ UNCHANGED <<findBar, dismissed>>
      BY <1>1 DEF MetadataLoads
    <2>2. playhead' \in {0} \cup SegmentsOf /\ playing' \in BOOLEAN
      BY <1>1 DEF MetadataLoads, PlayerBounds, Jumps
    <2> QED BY <2>1, <2>2, <1>j DEF PlayerBounds, Jumps
  <1>2. CASE Rerender BY <1>2, <1>0, <1>u DEF Rerender, PlayerBounds
  <1>3. CASE Prime
    <2> DEFINE query == Head(priming)
    <2>1. query \in FindQueries /\ dismissed' \in BOOLEAN
      BY <1>3, <1>0, HeadTailProperties DEF Prime, PlayerBounds
    <2>2. CASE MatchCount(query) = 0 BY <1>3, <1>0, <1>u, <2>1, <2>2 DEF Prime
    <2>3. CASE MatchCount(query) # 0
      <3>1. /\ findBar' = [open |-> TRUE, query |-> query, match |-> 0]
            /\ MoveTo(SegmentOfMatch(query, 0), FALSE)
        BY <1>3, <2>3 DEF Prime
      <3> HIDE DEF query
      <3>2. MatchCount(query) \in Nat BY <2>1, HitsAreCounted
      <3>3. SegmentOfMatch(query, 0) \in SegmentsOf
        BY <2>1, <2>3, <3>2, MatchesAreSomewhere
      <3>4. findBar'.open \in BOOLEAN BY <3>1
      <3> QED BY <2>1, <3>1, <3>3, <3>4, JumpsStayInside
    <2> QED BY <2>2, <2>3
  <1>4. CASE OpenSearch
    <2>1. findBar'.open \in BOOLEAN /\ dismissed' \in BOOLEAN
      BY <1>4, <1>0 DEF OpenSearch, FindBarIsTyped
    <2> QED BY <1>4, <2>1, <1>u DEF OpenSearch
  <1>5. CASE CloseSearch
    <2>1. findBar'.open \in BOOLEAN /\ dismissed' \in BOOLEAN BY <1>5 DEF CloseSearch
    <2> QED BY <1>5, <2>1, <1>u DEF CloseSearch
  <1>6. ASSUME NEW supported \in BOOLEAN, LibraryArrives(supported) PROVE PlayerBounds'
    BY <1>6 DEF LibraryArrives, PlayerBounds, Jumps
  <1>7. ASSUME NEW k \in SegmentsOf, Seek(k) PROVE PlayerBounds'
    <2>1. MoveTo(k, TRUE) /\ dismissed' \in BOOLEAN /\ findBar'.open \in BOOLEAN
      BY <1>7, <1>0 DEF Seek, PlayerBounds
    <2> QED BY <2>1, JumpsStayInside
  <1>8. ASSUME NEW k \in SegmentsOf, PlayOn(k) PROVE PlayerBounds'
    BY <1>8 DEF PlayOn, PlayerBounds, Jumps
  <1>9. ASSUME NEW query \in FindQueries, TypeTerm(query) PROVE PlayerBounds'
    <2>1. findBar'.open \in BOOLEAN /\ dismissed' \in BOOLEAN
      BY <1>9, <1>0 DEF TypeTerm, FindBarIsTyped, PlayerBounds
    <2> QED BY <1>9, <2>1, <1>u DEF TypeTerm
  <1>10. ASSUME NEW query \in FindQueries, SearchSite(query) PROVE PlayerBounds'
    <2>1. findBar'.open \in BOOLEAN /\ dismissed' \in BOOLEAN
      BY <1>10, <1>0 DEF SearchSite
    <2> QED BY <1>10, <2>1, <1>u DEF SearchSite
  <1>11. ASSUME NEW delta \in {-1, 1}, StepMatch(delta) PROVE PlayerBounds'
    <2> DEFINE count == MatchCount(findBar.query)
               match == (findBar.match + delta + count) % count
    <2>1. findBar.query \in FindQueries /\ findBar.match \in Nat
      BY <1>0 DEF FindBarIsTyped
    <2>2. count \in Nat /\ count > 0 BY <2>1, <1>11, HitsAreCounted DEF StepMatch
    <2>3. findBar.match + delta + count \in Int BY <2>1, <2>2
    <2>4. match \in Nat /\ match < count
      <3> HIDE DEF count
      <3> QED BY <2>2, <2>3, Modulo
    <2>5. /\ findBar' = [findBar EXCEPT !.match = match]
          /\ MoveTo(SegmentOfMatch(findBar.query, match), FALSE) /\ dismissed' = dismissed
      BY <1>11 DEF StepMatch
    <2> HIDE DEF match
    <2>6. SegmentOfMatch(findBar.query, match) \in SegmentsOf
      BY <2>1, <2>4, MatchesAreSomewhere
    <2>7. findBar'.open \in BOOLEAN /\ dismissed' \in BOOLEAN
      BY <2>5, <1>0 DEF FindBarIsTyped, PlayerBounds
    <2> QED BY <2>5, <2>6, <2>7, JumpsStayInside
  <1>12. CASE UNCHANGED playerVars BY <1>12 DEF playerVars, PlayerBounds, Jumps
  <1> QED BY <1>1, <1>2, <1>3, <1>4, <1>5, <1>6, <1>7, <1>8, <1>9, <1>10, <1>11, <1>12
          DEF PlayerNext

LEMMA PlayerHasTypes == PlayerSpec => []PlayerTypeOK
  <1>1. PlayerInit => PlayerBounds
    <2> SUFFICES ASSUME PlayerInit PROVE PlayerBounds OBVIOUS
    <2>1. NoJump \in Jumps /\ findBar.open \in BOOLEAN BY DEF PlayerInit, NoJump, Jumps
    <2> QED BY <2>1 DEF PlayerInit, PlayerBounds
  <1>2. PlayerInvariant /\ PlayerBounds => PlayerTypeOK
    BY DEF PlayerInvariant, FindBarIsTyped, PlayerBounds, Jumps, PlayerTypeOK
  <1> QED BY <1>1, <1>2, PlayerStaysBounded, PlayerIsSound, PTL DEF PlayerSpec
-----------------------------------------------------------------------------
(* The view of a PDF, its types: requests are numbered on from those there *)
(* are, so no number is beyond how many there are.                         *)
Rank(A, p) == Cardinality({ q \in A : q <= p })

LEMMA RanksDiffer ==
    ASSUME NEW A \in SUBSET Nat, IsFiniteSet(A)
    PROVE  /\ \A p \in A : Rank(A, p) \in 1 .. Cardinality(A)
           /\ \A p, q \in A : Rank(A, p) = Rank(A, q) => p = q
  <1> DEFINE Upto(p) == { q \in A : q <= p }
  <1>1. ASSUME NEW p \in A
        PROVE  /\ IsFiniteSet(Upto(p)) /\ Cardinality(Upto(p)) \in Nat
               /\ Cardinality(Upto(p)) <= Cardinality(A) /\ Cardinality(A) \in Nat
               /\ Cardinality(Upto(p)) # 0
    <2>1. Upto(p) \in SUBSET A /\ p \in Upto(p) OBVIOUS
    <2> HIDE DEF Upto
    <2>2. /\ IsFiniteSet(Upto(p)) /\ Cardinality(Upto(p)) <= Cardinality(A)
      BY <2>1, FS_Subset
    <2>3. Cardinality(Upto(p)) \in Nat /\ Cardinality(A) \in Nat
      BY <2>2, FS_CardinalityType
    <2>4. Cardinality(Upto(p)) # 0 BY <2>1, <2>2, FS_EmptySet
    <2> QED BY <2>2, <2>3, <2>4
  <1>2. ASSUME NEW p \in A, NEW q \in A, p < q
        PROVE  Cardinality(Upto(p)) # Cardinality(Upto(q))
    <2>1. Upto(p) \in SUBSET Upto(q) /\ q \in Upto(q) /\ q \notin Upto(p)
      <3>1. \A x \in A : x <= p => x <= q BY <1>2
      <3>2. p \in Int /\ q \in Int /\ q <= q /\ ~(q <= p) BY <1>2
      <3>3. Upto(p) \in SUBSET Upto(q) BY <3>1
      <3> QED BY <3>2, <3>3
    <2> HIDE DEF Upto
    <2>2. Cardinality(Upto(q)) = Cardinality(Upto(p)) => Upto(q) = Upto(p)
      BY <1>1, <2>1, FS_Subset
    <2> QED BY <2>1, <2>2
  <1>3. \A p \in A : Rank(A, p) = Cardinality(Upto(p)) BY DEF Rank
  <1> HIDE DEF Upto
  <1>4. \A p \in A : Rank(A, p) \in 1 .. Cardinality(A) BY <1>1, <1>3
  <1>5. ASSUME NEW p \in A, NEW q \in A, Rank(A, p) = Rank(A, q) PROVE p = q
    <2>1. ~(p < q) /\ ~(q < p) BY <1>2, <1>3, <1>5
    <2> QED BY <2>1
  <1> QED BY <1>4, <1>5

LEMMA NumbersGoOn ==
    ASSUME NEW A \in SUBSET Nat, IsFiniteSet(A),
           NEW D, IsFiniteSet(D), D \subseteq 1 .. Cardinality(D),
           NEW new, new = { Cardinality(D) + Rank(A, p) : p \in A }
    PROVE  /\ IsFiniteSet(D \cup new) /\ D \cup new \subseteq 1 .. Cardinality(D \cup new)
           /\ Cardinality(D) \in Nat
           /\ Cardinality(D \cup new) \in Nat /\ Cardinality(D) <= Cardinality(D \cup new)
           /\ \A p \in A : Cardinality(D) + Rank(A, p) \in 0 .. Cardinality(D \cup new)
  <1> DEFINE n == Cardinality(D)
             a == Cardinality(A)
             f == [p \in A |-> n + Rank(A, p)]
  <1>1. n \in Nat /\ a \in Nat BY FS_CardinalityType
  <1>2. \A p \in A : Rank(A, p) \in 1 .. a BY RanksDiffer
  <1>3. f \in Surjection(A, new) BY DEF Surjection
  <1>4. f \in Injection(A, new)
    <2>1. f \in [A -> new] OBVIOUS
    <2>2. ASSUME NEW p \in A, NEW q \in A, f[p] = f[q] PROVE p = q
      <3>1. n + Rank(A, p) = n + Rank(A, q) BY <2>2
      <3> HIDE DEF n, a
      <3>2. Rank(A, p) = Rank(A, q) BY <1>1, <1>2, <3>1
      <3> QED BY <3>2, RanksDiffer
    <2> HIDE DEF f
    <2> QED BY <2>1, <2>2 DEF Injection, IsInjective
  <1> HIDE DEF f
  <1>5. IsFiniteSet(new) /\ Cardinality(new) = a BY <1>3, <1>4, FS_Surjection
  <1>6. new \subseteq (n + 1) .. (n + a)
    <2> HIDE DEF n, a
    <2>1. \A p \in A : n + Rank(A, p) \in (n + 1) .. (n + a) BY <1>1, <1>2
    <2> QED BY <2>1 DEF n
  <1> HIDE DEF n, a
  <1>7. D \cap new = {}
    <2>1. \A i \in D : i <= n BY <1>1 DEF n
    <2>2. \A i \in new : ~(i <= n) BY <1>1, <1>6
    <2> QED BY <2>1, <2>2
  <1>8. IsFiniteSet(D \cup new) /\ Cardinality(D \cup new) = n + a
    <2>1. /\ IsFiniteSet(D \cup new)
          /\ Cardinality(D \cup new) = Cardinality(D) + Cardinality(new) - Cardinality(D \cap new)
      BY <1>5, FS_Union
    <2>2. Cardinality(D \cap new) = 0 BY <1>7, FS_EmptySet
    <2> QED BY <2>1, <2>2, <1>1, <1>5 DEF n
  <1>9. D \cup new \subseteq 1 .. (n + a)
    <2>1. ASSUME NEW i \in D PROVE i \in 1 .. (n + a)
      <3>1. i \in 1 .. n BY DEF n
      <3> QED BY <3>1, <1>1
    <2>2. ASSUME NEW i \in new PROVE i \in 1 .. (n + a)
      <3>1. i \in (n + 1) .. (n + a) BY <1>6
      <3> QED BY <3>1, <1>1
    <2> QED BY <2>1, <2>2
  <1>10. \A p \in A : n + Rank(A, p) \in 0 .. (n + a) BY <1>1, <1>2
  <1>11. n <= n + a /\ n + a \in Nat BY <1>1
  <1> DEFINE all == Cardinality(D \cup new)
  <1>12. all = n + a BY <1>8
  <1> HIDE DEF all
  <1>13. /\ n \in Nat /\ all \in Nat /\ n <= all /\ D \cup new \subseteq 1 .. all
         /\ \A p \in A : n + Rank(A, p) \in 0 .. all
    BY <1>1, <1>9, <1>10, <1>11, <1>12
  <1> QED BY <1>8, <1>13 DEF n, all

PdfRequest == [page: AllPages, of: {"none", "motion", "document"},
               step: {"fetching", "decoding", "ended"}, aborted: BOOLEAN]

(* Of the requests so far, and of the pages that hold one.                 *)
RequestsAreNumbered(requests, held) ==
    /\ IsFiniteSet(DOMAIN requests) /\ DOMAIN requests \subseteq 1 .. Cardinality(DOMAIN requests)
    /\ \A i \in DOMAIN requests : requests[i] \in PdfRequest
    /\ held \in [AllPages -> 0 .. Cardinality(DOMAIN requests)]
Numbers(v) == RequestsAreNumbered(v.requests, v.held)

LEMMA WarmedNumbers ==
    ASSUME NEW v, Numbers(v), NEW wanted, IsFiniteSet(wanted),
           NEW of \in {"none", "motion", "document"}
    PROVE  Numbers(Warmed(v, wanted, of))
  <1> DEFINE A == Missing(v, wanted)
             D == DOMAIN v.requests
             Number(p) == Numbered(v, p, wanted)
             new == { Number(p) : p \in A }
             Chosen(i) == CHOOSE p \in A : Number(p) = i
             Asked(i) == [page |-> Chosen(i), of |-> of, step |-> "fetching", aborted |-> FALSE]
             w == Warmed(v, wanted, of)
  <1>1. /\ w.requests = [i \in D \cup new |-> IF i \in new THEN Asked(i) ELSE v.requests[i]]
        /\ w.held = [p \in AllPages |-> IF p \in A THEN Number(p) ELSE v.held[p]]
    BY AView DEF Warmed
  <1>2. \A p \in A : Number(p) = Cardinality(D) + Rank(A, p) BY DEF Numbered, Rank
  <1>3. A \in SUBSET wanted /\ A \in SUBSET AllPages BY DEF Missing
  <1>4. \A i \in new : Chosen(i) \in A OBVIOUS
  <1>5. \A i \in new : Asked(i) \in PdfRequest BY <1>3, <1>4 DEF PdfRequest
  <1>6. new = { Cardinality(D) + Rank(A, p) : p \in A } BY <1>2
  <1>7. IsFiniteSet(A) /\ A \in SUBSET Nat BY <1>3, PdfPages, FS_Subset
  <1>8. /\ IsFiniteSet(D) /\ D \subseteq 1 .. Cardinality(D)
        /\ \A i \in D : v.requests[i] \in PdfRequest
        /\ v.held \in [AllPages -> 0 .. Cardinality(D)]
    BY DEF Numbers, RequestsAreNumbered
  <1> HIDE DEF A, D, Number, new, Asked, w
  <1>9. /\ IsFiniteSet(D \cup new) /\ D \cup new \subseteq 1 .. Cardinality(D \cup new)
        /\ Cardinality(D) \in Nat
        /\ Cardinality(D \cup new) \in Nat /\ Cardinality(D) <= Cardinality(D \cup new)
        /\ \A p \in A : Cardinality(D) + Rank(A, p) \in 0 .. Cardinality(D \cup new)
    BY <1>6, <1>7, <1>8, NumbersGoOn
  <1>10. DOMAIN w.requests = D \cup new /\ \A i \in D \cup new : w.requests[i] \in PdfRequest
    BY <1>1, <1>5, <1>8
  <1> DEFINE m == Cardinality(D \cup new)
             n == Cardinality(D)
  <1>11. \A p \in AllPages : w.held[p] \in 0 .. m
    <2>1. n \in Nat /\ m \in Nat /\ n <= m /\ \A p \in AllPages : v.held[p] \in 0 .. n
      BY <1>8, <1>9
    <2>2. \A p \in A : Number(p) \in 0 .. m BY <1>2, <1>9
    <2> HIDE DEF m, n
    <2> QED BY <1>1, <2>1, <2>2
  <1>12. w.held \in [AllPages -> 0 .. m]
    <2> HIDE DEF m
    <2> QED BY <1>1, <1>11
  <1>13. Numbers(w) BY <1>9, <1>10, <1>12 DEF Numbers, RequestsAreNumbered
  <1> QED BY <1>13 DEF w

LEMMA AbortedNumbers ==
    ASSUME NEW requests, NEW held, RequestsAreNumbered(requests, held), NEW pages, NEW others,
           NEW kept \in [AllPages -> 0 .. Cardinality(DOMAIN requests)]
    PROVE  RequestsAreNumbered(Aborted(requests, others, pages), kept)
  <1> DEFINE a == Aborted(requests, others, pages)
  <1>1. DOMAIN a = DOMAIN requests BY DEF Aborted
  <1>2. ASSUME NEW i \in DOMAIN requests PROVE a[i] \in PdfRequest
    <2>1. requests[i] \in PdfRequest BY DEF RequestsAreNumbered
    <2>2. a[i] = requests[i] \/ a[i] = [requests[i] EXCEPT !.aborted = TRUE]
      BY DEF Aborted
    <2> HIDE DEF a
    <2>3. [requests[i] EXCEPT !.aborted = TRUE] \in PdfRequest BY <2>1 DEF PdfRequest
    <2> QED BY <2>1, <2>2, <2>3
  <1> HIDE DEF a
  <1>3. RequestsAreNumbered(a, kept) BY <1>1, <1>2 DEF RequestsAreNumbered
  <1> QED BY <1>3 DEF a

LEMMA TrimmedNumbers ==
    ASSUME NEW v, Numbers(v), NEW center, NEW count, NEW kept
    PROVE  Numbers(Trimmed(v, center, count, kept))
  <1> DEFINE dropped == { p \in AllPages : /\ v.entries[p] # NoEntry /\ p # kept
                                           /\ p \notin CacheRange(center, count) }
             held == [p \in AllPages |-> IF p \in dropped THEN 0 ELSE v.held[p]]
             t == Trimmed(v, center, count, kept)
  <1>1. t.held = held /\ t.requests = Aborted(v.requests, v.held, dropped)
    BY AView DEF Trimmed
  <1>2. v.held \in [AllPages -> 0 .. Cardinality(DOMAIN v.requests)]
        /\ Cardinality(DOMAIN v.requests) \in Nat
    BY FS_CardinalityType DEF Numbers, RequestsAreNumbered
  <1> HIDE DEF dropped, t
  <1>3. held \in [AllPages -> 0 .. Cardinality(DOMAIN v.requests)] BY <1>2
  <1> HIDE DEF held
  <1>4. Numbers(t) BY <1>1, <1>3, AbortedNumbers DEF Numbers
  <1> QED BY <1>4 DEF t

LEMMA LookaheadIsFinite ==
    ASSUME NEW p \in Nat, NEW count \in {0, PdfLength}
    PROVE  IsFiniteSet(Lookahead(p, count))
  <1>1. CASE count = 0 BY <1>1, FS_Singleton DEF Lookahead
  <1>2. CASE count # 0
    <2> DEFINE q == Smaller(p, count)
               lo == Larger(1, q - FetchBehind)
               hi == Smaller(PdfLength, q + FetchAhead)
    <2>1. q \in Int BY <1>2, PdfPages DEF Smaller
    <2> HIDE DEF q
    <2>2. lo \in Int /\ hi \in Int
      BY <2>1, PdfPages, PdfViewAssumption DEF Larger, Smaller
    <2>3. Lookahead(p, count) = lo .. hi BY <1>2 DEF Lookahead, Around, q
    <2> HIDE DEF lo, hi
    <2> QED BY <2>2, <2>3, FS_Interval
  <1> QED BY <1>1, <1>2

LEMMA VisibleNumbers ==
    ASSUME NEW v, Numbers(v), NEW p \in Nat, NEW count \in {0, PdfLength}, NEW kept,
           NEW of \in {"none", "motion", "document"}
    PROVE  /\ Numbers(Visible(v, p, count, kept, of))
           /\ Numbers(Warmed(v, Lookahead(p, count), of))
  <1> DEFINE w == Warmed(v, Lookahead(p, count), of)
  <1>1. Numbers(w) BY LookaheadIsFinite, WarmedNumbers
  <1>2. Visible(v, p, count, kept, of) = Trimmed(w, p, count, kept) BY DEF Visible
  <1> HIDE DEF w
  <1>3. Numbers(Visible(v, p, count, kept, of)) BY <1>1, <1>2, TrimmedNumbers
  <1> QED BY <1>1, <1>3 DEF w

(* As many requests as the bound allows, each numbered as it came; the     *)
(* page to centre is one the reader can be sent to.                        *)
PdfBounds ==
    /\ RequestsAreNumbered(pageRequests, controllers)
    /\ Cardinality(DOMAIN pageRequests) <= MaxPageRequests
    /\ pendingCenter \in {0} \cup AskedPages

LEMMA BecomesBounded ==
    ASSUME NEW v, Numbers(v), Becomes(v), pendingCenter' \in {0} \cup AskedPages
    PROVE  PdfBounds'
  <1>1. RequestsAreNumbered(v.requests, v.held) BY DEF Numbers
  <1>2. /\ pageRequests' = v.requests /\ controllers' = v.held
        /\ Cardinality(DOMAIN v.requests) <= MaxPageRequests
    BY DEF Becomes
  <1> QED BY <1>1, <1>2 DEF PdfBounds, RequestsAreNumbered

LEMMA StepsNumbers ==
    ASSUME NEW v, Numbers(v), NEW i \in DOMAIN v.requests, NEW step \in {"decoding", "ended"}
    PROVE  LET requests == [v.requests EXCEPT ![i].step = step] IN
           /\ RequestsAreNumbered(requests, v.held)
           /\ RequestsAreNumbered(requests, [v.held EXCEPT ![v.requests[i].page] = 0])
  <1> DEFINE requests == [v.requests EXCEPT ![i].step = step]
             held == [v.held EXCEPT ![v.requests[i].page] = 0]
             n == Cardinality(DOMAIN v.requests)
  <1>1. /\ IsFiniteSet(DOMAIN v.requests) /\ DOMAIN v.requests \subseteq 1 .. n
        /\ \A k \in DOMAIN v.requests : v.requests[k] \in PdfRequest
        /\ v.held \in [AllPages -> 0 .. n]
    BY DEF Numbers, RequestsAreNumbered
  <1>2. n \in Nat BY <1>1, FS_CardinalityType
  <1>3. [v.requests[i] EXCEPT !.step = step] \in PdfRequest BY <1>1 DEF PdfRequest
  <1>4. DOMAIN requests = DOMAIN v.requests /\ \A k \in DOMAIN v.requests : requests[k] \in PdfRequest
    BY <1>1, <1>3
  <1>5. held \in [AllPages -> 0 .. n]
    <2> DEFINE D == 0 .. n
    <2>1. 0 \in D BY <1>2
    <2>2. v.held \in [AllPages -> D] BY <1>1
    <2> HIDE DEF D
    <2>3. held \in [AllPages -> D] BY <2>1, <2>2
    <2> QED BY <2>3 DEF D
  <1> HIDE DEF requests, held, n
  <1>6. RequestsAreNumbered(requests, v.held) /\ RequestsAreNumbered(requests, held)
    BY <1>1, <1>4, <1>5 DEF RequestsAreNumbered, n
  <1> QED BY <1>6 DEF requests, held

LEMMA NowNumbers == PdfBounds => Numbers(Now)
  BY NowIs DEF PdfBounds, Numbers

LEMMA EndsNumbers ==
    ASSUME PdfBounds, NEW i \in DOMAIN pageRequests, NEW state
    PROVE  Numbers(PageEnded(Now, i)) /\ Numbers(PageEnded(Put(Now, i, state), i))
  <1> DEFINE requests == [pageRequests EXCEPT ![i].step = "ended"]
             held == [controllers EXCEPT ![pageRequests[i].page] = 0]
  <1>1. Numbers(Now) /\ Now.requests = pageRequests /\ Now.held = controllers
    BY NowNumbers, NowIs
  <1>2. RequestsAreNumbered(requests, held) BY <1>1, StepsNumbers
  <1>3. PageEnded(Now, i).requests = requests /\ PageEnded(Now, i).held = held
    BY <1>1, AView DEF PageEnded
  <1>4. Put(Now, i, state).requests = pageRequests /\ Put(Now, i, state).held = controllers
    BY <1>1, AView DEF Put
  <1>5. /\ PageEnded(Put(Now, i, state), i).requests = requests
        /\ PageEnded(Put(Now, i, state), i).held = held
    BY <1>4, AView DEF PageEnded
  <1> HIDE DEF requests, held
  <1> QED BY <1>2, <1>3, <1>5 DEF Numbers

LEMMA TargetIsAPage ==
    ASSUME initialPage \in AskedPages, NEW count \in {0, PdfLength}
    PROVE  Target(count) \in Nat /\ (count = 0 => Target(count) \in AskedPages)
  BY PdfPages DEF Target, Smaller

LEMMA PdfAnswerIsBounded ==
    ASSUME PdfInvariant, PdfBounds, NEW i, NEW counted, PageAnswered(i, counted)
    PROVE  PdfBounds'
  <1> DEFINE decoding == View(pageEntries, controllers,
                              [pageRequests EXCEPT ![i].step = "decoding"])
             target == Target(PdfLength)
             first == pageCount = 0 /\ counted
  <1>1. /\ pdfAddress \in {"none", "motion", "document"} /\ initialPage \in AskedPages
        /\ pendingCenter \in {0} \cup AskedPages /\ PdfLength \in {0, PdfLength}
    BY DEF PdfInvariant, ReaderIsSomewhere, PdfBounds
  <1>2. target \in Nat BY <1>1, TargetIsAPage
  <1>3. i \in DOMAIN pageRequests BY DEF PageAnswered, Underway
  <1>4. Numbers(decoding)
    <2>1. Numbers(Now) /\ Now.requests = pageRequests /\ Now.held = controllers
      BY NowNumbers, NowIs
    <2>2. RequestsAreNumbered([pageRequests EXCEPT ![i].step = "decoding"], controllers)
      BY <2>1, <1>3, StepsNumbers
    <2> QED BY <2>2, AView DEF Numbers
  <1>5. /\ pendingCenter' = pendingCenter
        /\ \/ Becomes(Visible(decoding, target, PdfLength, pendingCenter, pdfAddress))
           \/ Becomes(Warmed(decoding, Lookahead(target, PdfLength), pdfAddress))
           \/ Becomes(decoding)
    BY DEF PageAnswered
  <1> HIDE DEF decoding, target
  <1>6. /\ Numbers(Visible(decoding, target, PdfLength, pendingCenter, pdfAddress))
        /\ Numbers(Warmed(decoding, Lookahead(target, PdfLength), pdfAddress))
    BY <1>1, <1>2, <1>4, VisibleNumbers
  <1> QED BY <1>1, <1>4, <1>5, <1>6, BecomesBounded

LEMMA PdfStaysBounded ==
    PdfInvariant /\ PdfBounds /\ [PdfViewNext]_pdfViewVars => PdfBounds'
  <1> SUFFICES ASSUME PdfInvariant, PdfBounds, [PdfViewNext]_pdfViewVars PROVE PdfBounds'
    OBVIOUS
  <1>0. /\ pdfAddress \in {"none", "motion", "document"} /\ initialPage \in AskedPages
        /\ pageCount \in {0, PdfLength} /\ pendingCenter \in {0} \cup AskedPages
        /\ Numbers(Now) /\ AllPages \subseteq Nat /\ AskedPages \subseteq Nat
        /\ 0 \in {0, PdfLength} /\ PdfLength \in Nat
    BY NowNumbers, PdfPages DEF PdfInvariant, ReaderIsSomewhere, PdfBounds
  <1>1. ASSUME NEW to \in {"motion", "document"}, ChangeAddress(to) PROVE PdfBounds'
    <2> DEFINE v == View(NoEntries, NoControllers, AbortAll(pageRequests, controllers))
    <2>1. /\ pendingCenter' = Target(0)
          /\ Becomes(Visible(v, Target(0), 0, Target(0), to))
      BY <1>1 DEF ChangeAddress
    <2>2. Numbers(v)
      <3>1. RequestsAreNumbered(pageRequests, controllers) BY DEF PdfBounds
      <3>2. NoControllers \in [AllPages -> 0 .. Cardinality(DOMAIN pageRequests)]
        <4>1. Cardinality(DOMAIN pageRequests) \in Nat
          BY <3>1, FS_CardinalityType DEF RequestsAreNumbered
        <4> QED BY <4>1 DEF NoControllers
      <3>3. RequestsAreNumbered(AbortAll(pageRequests, controllers), NoControllers)
        BY <3>1, <3>2, AbortedNumbers DEF AbortAll
      <3> QED BY <3>3, AView DEF Numbers
    <2>3. Target(0) \in Nat /\ Target(0) \in AskedPages BY <1>0, TargetIsAPage
    <2> HIDE DEF v
    <2>4. Numbers(Visible(v, Target(0), 0, Target(0), to))
      BY <2>2, <2>3, <1>0, VisibleNumbers
    <2> QED BY <2>1, <2>3, <2>4, BecomesBounded
  <1>2. ASSUME NEW i, AbortedRequestEnds(i) \/ PageRequestFails(i) \/ PageDecoded(i)
        PROVE  PdfBounds'
    <2>1. /\ i \in DOMAIN pageRequests /\ pendingCenter' = pendingCenter
          /\ \/ Becomes(PageEnded(Now, i))
             \/ Becomes(PageEnded(Put(Now, i, "error"), i))
             \/ Becomes(PageEnded(Put(Now, i, "image"), i))
      BY <1>2 DEF AbortedRequestEnds, PageRequestFails, PageDecoded, Underway
    <2> QED BY <2>1, <1>0, EndsNumbers, BecomesBounded
  <1>3. ASSUME NEW p \in AllPages, ImageLoads(p) \/ ScrollTo(p) PROVE PdfBounds'
    <2>1. Becomes(Visible(Now, p, pageCount, 0, pdfAddress)) /\ pendingCenter' \in {0} \cup AskedPages
      BY <1>0, <1>3 DEF ImageLoads, ScrollTo
    <2>2. p \in Nat BY <1>0
    <2>3. Numbers(Visible(Now, p, pageCount, 0, pdfAddress))
      BY <1>0, <2>2, VisibleNumbers
    <2> QED BY <2>1, <2>3, BecomesBounded
  <1>4. ASSUME NEW p \in AskedPages, JumpTo(p) PROVE PdfBounds'
    <2> DEFINE target == Smaller(pageCount, p)
    <2>1. target \in Nat /\ pendingCenter' = pendingCenter
      BY <1>0, <1>4 DEF JumpTo, Smaller
    <2>2. CASE pdfAddress # "none" /\ pageCount > 0
      <3>1. \/ Becomes(Warmed(Now, Lookahead(target, pageCount), pdfAddress))
            \/ Becomes(Visible(Now, target, pageCount, pendingCenter, pdfAddress))
        BY <1>4, <2>2 DEF JumpTo
      <3> HIDE DEF target
      <3>2. /\ Numbers(Visible(Now, target, pageCount, pendingCenter, pdfAddress))
            /\ Numbers(Warmed(Now, Lookahead(target, pageCount), pdfAddress))
        BY <1>0, <2>1, VisibleNumbers
      <3> QED BY <3>1, <3>2, <2>1, <1>0, BecomesBounded
    <2>3. CASE ~(pdfAddress # "none" /\ pageCount > 0)
      <3>1. UNCHANGED <<controllers, pageRequests, pendingCenter>>
        BY <1>4, <2>3 DEF JumpTo
      <3> QED BY <3>1 DEF PdfBounds, RequestsAreNumbered
    <2> QED BY <2>2, <2>3
  <1>5. ASSUME NEW i, NEW counted, PageAnswered(i, counted) PROVE PdfBounds'
    BY <1>5, PdfAnswerIsBounded
  <1>6. CASE UNCHANGED pdfViewVars
    BY <1>6 DEF pdfViewVars, PdfBounds, RequestsAreNumbered
  <1> QED BY <1>1, <1>2, <1>3, <1>4, <1>5, <1>6 DEF PdfViewNext

LEMMA PdfViewHasTypes == PdfViewSpec => []PdfViewTypeOK
  <1>1. PdfViewInit => PdfBounds
    <2> SUFFICES ASSUME PdfViewInit PROVE PdfBounds OBVIOUS
    <2>1. DOMAIN pageRequests = {} /\ pendingCenter = 0 BY DEF PdfViewInit
    <2>2. IsFiniteSet({}) /\ Cardinality({}) = 0 BY FS_EmptySet
    <2>3. controllers \in [AllPages -> 0 .. 0] BY DEF PdfViewInit, NoControllers
    <2> QED BY <2>1, <2>2, <2>3, PdfViewAssumption DEF PdfBounds, RequestsAreNumbered
  <1>2. PdfInvariant /\ PdfBounds => PdfViewTypeOK
    <2> SUFFICES ASSUME PdfInvariant, PdfBounds PROVE PdfViewTypeOK OBVIOUS
    <2>1. \A p \in AllPages : pageEntries[p].state \in {"nothing", "loading", "image", "error"}
      <3>1. pageEntries \in [AllPages -> Entry]
        BY NowIs DEF PdfInvariant, PagesAreSound, Sound, EntriesAreOf
      <3>2. \A p \in AllPages : pageEntries[p] \in Entry BY <3>1
      <3> QED BY <3>2 DEF Entry
    <2> DEFINE n == Cardinality(DOMAIN pageRequests)
    <2>2. /\ n \in Nat /\ n <= MaxPageRequests /\ DOMAIN pageRequests \subseteq 1 .. n
          /\ controllers \in [AllPages -> 0 .. n]
          /\ \A i \in DOMAIN pageRequests : pageRequests[i] \in PdfRequest
      BY FS_CardinalityType DEF PdfBounds, RequestsAreNumbered
    <2> HIDE DEF n
    <2>3. \A p \in AllPages : controllers[p] \in 0 .. MaxPageRequests
      BY <2>2, PdfViewAssumption
    <2>4. DOMAIN pageRequests \subseteq RequestIds
      BY <2>2, PdfViewAssumption DEF RequestIds
    <2>5. \A i \in DOMAIN pageRequests : pageRequests[i].step \in {"fetching", "decoding", "ended"}
      BY <2>2 DEF PdfRequest
    <2> QED BY <2>1, <2>3, <2>4, <2>5
            DEF PdfInvariant, ReaderIsSomewhere, PdfBounds, PdfViewTypeOK
  <1> QED BY <1>1, <1>2, PdfStaysBounded, PdfIsSound, PTL DEF PdfViewSpec
-----------------------------------------------------------------------------
(* PageTypeOK. The list never gets longer than the search has pages: what  *)
(* is asked for next comes after all that is listed, one call of the       *)
(* latest search at a time asks for it, and none does at the last page.    *)
Opened == [item: Items \cup {NoItem}, content: Items \cup {NoItem}]

PageValues ==
    /\ form \in Route /\ address \in Route
    /\ debounce \in BOOLEAN /\ searched \in BOOLEAN
    /\ loading \in BOOLEAN /\ loadingMore \in BOOLEAN /\ hasMore \in BOOLEAN
    /\ active \in Filters /\ detail \in Opened
    /\ requestId \in 0 .. MaxSearches

ListIsBounded ==
    /\ results \in Seq(Items)
    /\ nextPage \in 2 .. Pages + 1
    /\ Len(results) < nextPage
    /\ hasMore => nextPage <= Pages

CallsAreBounded ==
    \A r \in pending :
        /\ r.kind = "more" => r.page \in 2 .. Pages /\ r.openAfter \in Nat
        /\ r.kind \in {"open", "byId"} => r.for \in Items

MoreIsAlone ==
    /\ \A r \in CurrentMore : nextPage <= r.page
    /\ \A q, r \in CurrentMore : q = r
    /\ hasMore /\ CurrentMore # {} => loadingMore

PageBounds == PageValues /\ ListIsBounded /\ CallsAreBounded /\ MoreIsAlone

(* What every step has to keep of the calls.                               *)
Answered(others) ==
    /\ others \subseteq pending'
    /\ \A q \in pending' \ others : q.kind \in {"open", "byId"} /\ q.for \in Items

LEMMA ItemsListed ==
    ASSUME ListIsBounded
    PROVE  /\ Listed \subseteq Items /\ DOMAIN results = 1 .. Len(results)
           /\ Len(results) \in Nat /\ nextPage \in Nat
  <1>1. results \in Seq(Items) BY DEF ListIsBounded
  <1>2. \A i \in 1 .. Len(results) : results[i] \in Items BY <1>1, ElementOfSeq
  <1> QED BY <1>1, <1>2, SearchPageAssumption DEF ListIsBounded, Listed

LEMMA ToRoute ==
    ASSUME form \in Route, NEW f \in Filters
    PROVE  To(f) \in Route
  BY DEF Route, To

LEMMA ClosedIsShown == Closed \in Opened
  BY DEF Closed, Opened

(* A new search, or none: the calls for more are those of earlier ones, or *)
(* wait for a list that is shorter.                                        *)
LEMMA RunSearchBounds ==
    ASSUME PageInvariant, PageBounds, NEW route \in Route, NEW shown \in BOOLEAN,
           RunSearch(route, shown), debounce' \in BOOLEAN
    PROVE  PageBounds'
  <1> USE SearchPageAssumption
  <1>0. /\ PageValues /\ ListIsBounded /\ CallsAreBounded /\ MoreIsAlone
        /\ CallsAreTyped /\ requestId \in Nat
        /\ form' = route /\ address' = route /\ route.filters \in Filters
    BY DEF PageBounds, PageInvariant, PageIsTyped, RunSearch, Route
  <1>1. CASE route.filters = "none" \/ route.filters = "few"
    <2>1. pending' = pending \ Fetches /\ UNCHANGED <<requestId, loadingMore>>
      BY <1>1 DEF RunSearch, Abort, Searchable
    <2>2. /\ results' = <<>> /\ hasMore' = FALSE /\ (nextPage' = 2 \/ nextPage' = nextPage)
          /\ loading' = (loading /\ \A r \in Fetches : r.id # requestId)
          /\ active' = route.filters /\ searched' \in BOOLEAN
          /\ detail' = Closed \/ detail' = detail
      BY <1>1 DEF RunSearch, Abort, Searchable, EmptyList
    <2>3. CurrentMore' = CurrentMore BY <2>1 DEF Fetches, MoreCalls, CurrentMore
    <2>4. PageValues'
      <3>1. loading' \in BOOLEAN /\ detail' \in Opened /\ hasMore' \in BOOLEAN
        BY <2>2, <1>0, ClosedIsShown DEF PageValues
      <3> QED BY <1>0, <2>1, <2>2, <3>1 DEF PageValues
    <2>5. ListIsBounded'
      <3>1. <<>> \in Seq(Items) /\ Len(<<>>) = 0 OBVIOUS
      <3>2. results' \in Seq(Items) /\ Len(results') = 0 BY <2>2, <3>1
      <3>3. nextPage' \in 2 .. Pages + 1 BY <1>0, <2>2 DEF ListIsBounded
      <3> QED BY <2>2, <3>2, <3>3 DEF ListIsBounded
    <2>6. CallsAreBounded' BY <1>0, <2>1 DEF CallsAreBounded
    <2>7. MoreIsAlone'
      <3>1. \A r \in CurrentMore : nextPage' <= r.page
        BY <1>0, <2>2, <2>3 DEF MoreIsAlone, CallsAreBounded, CurrentMore, MoreCalls
      <3> QED BY <1>0, <2>2, <2>3, <3>1 DEF MoreIsAlone
    <2> QED BY <2>4, <2>5, <2>6, <2>7 DEF PageBounds
  <1>2. CASE route.filters \in Searchable /\ route.filters \notin {"none", "few"}
    <2> DEFINE call == Search(requestId + 1, route.filters)
    <2>1. /\ requestId < MaxSearches
          /\ requestId' = requestId + 1 /\ pending' = (pending \ Fetches) \cup {call}
          /\ loading' = TRUE /\ loadingMore' = FALSE /\ active' = route.filters
          /\ searched' = shown /\ UNCHANGED <<hasMore, nextPage, results, detail>>
      BY <1>2 DEF RunSearch
    <2>2. call.kind = "search" /\ call.id = requestId + 1 BY DEF Search
    <2> HIDE DEF call
    <2>3. \A r \in pending : r.id # requestId' BY <1>0, <2>1 DEF CallsAreTyped
    <2>4. CurrentMore' = {} BY <2>1, <2>2, <2>3 DEF MoreCalls, CurrentMore
    <2>5. PageValues'
      <3>1. requestId' \in 0 .. MaxSearches BY <1>0, <2>1
      <3>2. active' \in Filters /\ loading' \in BOOLEAN /\ loadingMore' \in BOOLEAN
        BY <1>0, <2>1
      <3> QED BY <1>0, <2>1, <3>1, <3>2 DEF PageValues
    <2>6. ListIsBounded' BY <1>0, <2>1 DEF ListIsBounded
    <2>7. CallsAreBounded' BY <1>0, <2>1, <2>2 DEF CallsAreBounded
    <2>8. MoreIsAlone' BY <2>4 DEF MoreIsAlone
    <2> QED BY <2>5, <2>6, <2>7, <2>8 DEF PageBounds
  <1>3. route.filters \in {"none", "few"} \cup Searchable BY DEF RunSearch
  <1> QED BY <1>1, <1>2, <1>3

LEMMA InputBounds ==
    ASSUME PageInvariant, PageBounds, Type \/ DebounceFires \/ Submit \/ ChangeFilter
    PROVE  PageBounds'
  <1>0. /\ PageValues /\ ListIsBounded /\ CallsAreBounded /\ MoreIsAlone
        /\ form \in Route /\ searched \in BOOLEAN /\ debounce \in BOOLEAN
    BY DEF PageBounds, PageValues
  <1>1. ASSUME DebounceFires \/ Submit \/ ChangeFilter  PROVE PageBounds'
    <2>1. \E route \in Route : \E shown \in BOOLEAN :
             RunSearch(route, shown) /\ debounce' \in BOOLEAN
      BY <1>0, <1>1, ToRoute DEF DebounceFires, Submit, ChangeFilter
    <2> QED BY <2>1, RunSearchBounds
  <1>2. ASSUME NEW f \in Filters, form' = To(f),
               UNCHANGED <<address, searched, loading, loadingMore, list,
                           detail, requestId, pending>>,
               debounce' \in BOOLEAN
        PROVE  PageBounds'
    <2>1. form' \in Route BY <1>0, <1>2, ToRoute
    <2>2. CurrentMore' = CurrentMore BY <1>2 DEF CurrentMore, MoreCalls
    <2>3. PageValues' BY <1>0, <1>2, <2>1 DEF PageValues, list
    <2> QED BY <1>0, <1>2, <2>2, <2>3
            DEF PageBounds, list, ListIsBounded, CallsAreBounded, MoreIsAlone
  <1>3. ASSUME NEW f \in Filters, RunSearch(To(f), searched), UNCHANGED debounce
        PROVE  PageBounds'
    <2>1. To(f) \in Route /\ debounce' \in BOOLEAN BY <1>0, <1>3, ToRoute
    <2> QED BY <1>0, <1>3, <2>1, RunSearchBounds
  <1>4. ASSUME NEW f \in Filters, form' = To(f), pending' = pending \ Fetches,
               loading' = FALSE, loadingMore' = FALSE, EmptyList("none"), nextPage' = 2,
               UNCHANGED <<address, debounce, searched, detail, requestId>>
        PROVE  PageBounds'
    <2>1. form' \in Route /\ "none" \in Filters BY <1>0, <1>4, ToRoute DEF Filters
    <2>2. CurrentMore' = CurrentMore BY <1>4 DEF CurrentMore, MoreCalls, Fetches
    <2>3. PageValues' BY <1>0, <1>4, <2>1 DEF PageValues, EmptyList
    <2>4. ListIsBounded'
      <3>1. <<>> \in Seq(Items) /\ Len(<<>>) = 0 /\ 2 \in 2 .. Pages + 1
        BY SearchPageAssumption
      <3> QED BY <1>4, <3>1 DEF ListIsBounded, EmptyList
    <2>5. CallsAreBounded' BY <1>0, <1>4 DEF CallsAreBounded
    <2>6. MoreIsAlone'
      <3>1. \A r \in CurrentMore : 2 <= r.page
        BY <1>0 DEF CallsAreBounded, CurrentMore, MoreCalls
      <3> QED BY <1>0, <1>4, <2>2, <3>1 DEF MoreIsAlone, EmptyList
    <2> QED BY <2>3, <2>4, <2>5, <2>6 DEF PageBounds
  <1>5. ASSUME Type  PROVE PageBounds'
    <2>1. TRUE \in BOOLEAN /\ Queries \subseteq Filters BY DEF Filters, Searchable
    <2> QED BY <1>0, <1>2, <1>3, <1>4, <1>5, <2>1 DEF Type
  <1> QED BY <1>1, <1>5

LEMMA LeavingBounds ==
    ASSUME PageInvariant, PageBounds, Home \/ FollowAddress
    PROVE  PageBounds'
  <1>0. /\ PageValues /\ ListIsBounded /\ CallsAreBounded /\ MoreIsAlone
        /\ debounce \in BOOLEAN /\ hasMore \in BOOLEAN
    BY DEF PageBounds, PageValues
  <1>1. ASSUME NEW route \in Route, form' = route, address' = route, searched' = FALSE,
               results' = <<>>, nextPage' = 2, detail' = Closed,
               \/ UNCHANGED <<hasMore, active>>
               \/ hasMore' = FALSE /\ active' = "none",
               UNCHANGED <<loading, loadingMore, requestId, pending, debounce>>
        PROVE  PageBounds'
    <2>1. CurrentMore' = CurrentMore BY <1>1 DEF CurrentMore, MoreCalls
    <2>2. PageValues'
      <3>1. "none" \in Filters /\ FALSE \in BOOLEAN BY DEF Filters
      <3> QED BY <1>0, <1>1, <3>1, ClosedIsShown DEF PageValues
    <2>3. ListIsBounded'
      <3>1. <<>> \in Seq(Items) /\ Len(<<>>) = 0 /\ 2 \in 2 .. Pages + 1
        BY SearchPageAssumption
      <3>2. hasMore' => 2 <= Pages
        <4>1. hasMore => 2 <= Pages BY <1>0, SearchPageAssumption DEF ListIsBounded
        <4> QED BY <1>1, <4>1
      <3> QED BY <1>1, <3>1, <3>2 DEF ListIsBounded
    <2>4. CallsAreBounded' BY <1>0, <1>1 DEF CallsAreBounded
    <2>5. MoreIsAlone'
      <3>1. \A r \in CurrentMore : 2 <= r.page
        BY <1>0 DEF CallsAreBounded, CurrentMore, MoreCalls
      <3> QED BY <1>0, <1>1, <2>1, <3>1 DEF MoreIsAlone
    <2> QED BY <2>2, <2>3, <2>4, <2>5 DEF PageBounds
  <1>2. CASE Home
    <2>1. [filters |-> "none", view |-> NoItem] \in Route BY DEF Route, Filters
    <2> QED BY <1>1, <1>2, <2>1 DEF Home
  <1>3. CASE FollowAddress
    <2>1. PICK route \in Route :
            \/ /\ form' = route /\ address' = route /\ searched' = FALSE
               /\ EmptyList("none") /\ nextPage' = 2 /\ detail' = Closed
               /\ UNCHANGED <<loading, loadingMore, requestId, pending, debounce>>
            \/ RunSearch(route, TRUE) /\ UNCHANGED debounce
      BY <1>3 DEF FollowAddress, Links
    <2>2. CASE RunSearch(route, TRUE) /\ UNCHANGED debounce
      BY <1>0, <2>2, RunSearchBounds
    <2> QED BY <1>1, <2>1, <2>2 DEF EmptyList
  <1> QED BY <1>2, <1>3

LEMMA SearchBounds ==
    ASSUME PageInvariant, PageBounds, SearchArrives \/ SearchFails
    PROVE  PageBounds'
  <1> USE SearchPageAssumption
  <1>0. /\ PageValues /\ ListIsBounded /\ CallsAreBounded /\ MoreIsAlone
        /\ loading \in BOOLEAN /\ form.view \in Items \cup {NoItem}
    BY DEF PageBounds, PageValues, Route
  <1>1. ASSUME NEW r \in Fetches, Answered(pending \ {r}), loading' \in BOOLEAN,
               \/ results' = <<<<r.for, 1>>>> /\ hasMore' = (Pages > 1)
               \/ results' = <<>> /\ hasMore' = FALSE,
               detail' \in Opened, nextPage' = 2,
               UNCHANGED <<form, address, debounce, searched, loadingMore, active, requestId>>
        PROVE  PageBounds'
    <2>1. r.kind = "search" /\ r.for \in Searchable /\ CurrentMore = {} BY OneFetch
    <2>2. CurrentMore' = {} BY <1>1, <2>1 DEF Answered, CurrentMore, MoreCalls
    <2>a. hasMore' \in BOOLEAN /\ (hasMore' => Pages > 1)
      <3> DEFINE several == Pages > 1
      <3>1. several \in BOOLEAN OBVIOUS
      <3>2. hasMore' = several \/ hasMore' = FALSE BY <1>1
      <3>3. hasMore' \in BOOLEAN /\ (hasMore' => several)
        <4> HIDE DEF several
        <4>1. CASE several = TRUE BY <3>2, <4>1
        <4>2. CASE several = FALSE BY <3>2, <4>2
        <4> QED BY <3>1, <4>1, <4>2
      <3> QED BY <3>3 DEF several
    <2>3. PageValues' BY <1>0, <1>1, <2>a DEF PageValues
    <2>4. ListIsBounded'
      <3> DEFINE item == <<r.for, 1>>
      <3>1. item \in Items BY <2>1 DEF Items
      <3> HIDE DEF item
      <3>2. /\ <<>> \in Seq(Items) /\ Len(<<>>) = 0
            /\ <<item>> \in Seq(Items) /\ Len(<<item>>) = 1
        BY <3>1
      <3>3. results' \in Seq(Items) /\ Len(results') \in {0, 1} BY <1>1, <3>2 DEF item
      <3>4. 2 \in 2 .. Pages + 1 /\ (Pages > 1 => 2 <= Pages) /\ \A n \in {0, 1} : n < 2
        OBVIOUS
      <3> QED BY <1>1, <2>a, <3>3, <3>4 DEF ListIsBounded
    <2>5. CallsAreBounded' BY <1>0, <1>1 DEF CallsAreBounded, Answered
    <2>6. MoreIsAlone' BY <2>2 DEF MoreIsAlone
    <2> QED BY <2>3, <2>4, <2>5, <2>6 DEF PageBounds
  <1>2. CASE SearchFails
    <2>1. PICK r \in Fetches :
            /\ results' = <<>> /\ hasMore' = FALSE /\ nextPage' = 2
            /\ EndOfSearch(r.id) /\ Done(r)
            /\ UNCHANGED <<form, address, debounce, searched, loadingMore, active, detail, requestId>>
      BY <1>2 DEF SearchFails
    <2>2. Answered(pending \ {r}) /\ loading' \in BOOLEAN /\ detail' \in Opened
      BY <1>0, <2>1 DEF Answered, Done, EndOfSearch, PageValues
    <2> QED BY <1>1, <2>1, <2>2
  <1>3. CASE SearchArrives
    <2>1. PICK r \in Fetches :
            /\ results' = <<<<r.for, 1>>>> /\ hasMore' = (Pages > 1) /\ nextPage' = 2
            /\ UNCHANGED <<form, address, debounce, searched, loadingMore, active, requestId>>
            /\ \/ detail' = Closed /\ EndOfSearch(r.id) /\ Done(r)
               \/ /\ form.view # NoItem
                  /\ detail' = [item |-> form.view, content |-> NoItem]
                  /\ pending' = (pending \ {r}) \cup {Open(r.id, form.view)}
                  /\ UNCHANGED loading
               \/ /\ form.view # NoItem
                  /\ pending' = (pending \ {r}) \cup {ById(r.id, form.view)}
                  /\ UNCHANGED <<detail, loading>>
      BY <1>3 DEF SearchArrives
    <2>2. /\ Open(r.id, form.view).kind = "open" /\ ById(r.id, form.view).kind = "byId"
          /\ Open(r.id, form.view).for = form.view /\ ById(r.id, form.view).for = form.view
      BY DEF Open, ById
    <2>3. Answered(pending \ {r}) BY <1>0, <2>1, <2>2 DEF Answered, Done
    <2>4. loading' \in BOOLEAN BY <1>0, <2>1 DEF EndOfSearch
    <2>5. detail' \in Opened
      <3>1. form.view # NoItem => [item |-> form.view, content |-> NoItem] \in Opened
        BY <1>0 DEF Opened
      <3> QED BY <1>0, <2>1, <3>1, ClosedIsShown DEF PageValues
    <2> QED BY <1>1, <2>1, <2>3, <2>4, <2>5
  <1> QED BY <1>2, <1>3

LEMMA LoadMoreBounds ==
    ASSUME PageInvariant, PageBounds, LoadMore
    PROVE  PageBounds'
  <1>0. PageValues /\ ListIsBounded /\ CallsAreBounded /\ MoreIsAlone BY DEF PageBounds
  <1>1. PICK from : from \in {0, Len(results)} /\ pending' = pending \cup {More(requestId, active, nextPage, from)}
    BY DEF LoadMore
  <1> DEFINE call == More(requestId, active, nextPage, from)
  <1>2. call.kind = "more" /\ call.id = requestId /\ call.page = nextPage
        /\ call.openAfter = from
    BY DEF More
  <1> HIDE DEF call
  <1>3. /\ ~loadingMore /\ hasMore /\ loadingMore' = TRUE /\ pending' = pending \cup {call}
        /\ UNCHANGED <<form, address, debounce, searched, loading, hasMore, active, nextPage,
                       results, detail, requestId>>
    BY <1>1 DEF LoadMore, list, call
  <1>4. CurrentMore = {} BY <1>0, <1>3 DEF MoreIsAlone
  <1>5. CurrentMore' = {call} BY <1>2, <1>3, <1>4 DEF CurrentMore, MoreCalls
  <1>6. nextPage \in 2 .. Pages /\ from \in Nat
    <2>1. nextPage \in 2 .. Pages + 1 /\ nextPage <= Pages
      BY <1>0, <1>3 DEF ListIsBounded
    <2>2. Len(results) \in Nat BY <1>0, ItemsListed
    <2> QED BY <1>1, <2>1, <2>2, SearchPageAssumption
  <1>7. PageValues' BY <1>0, <1>3 DEF PageValues
  <1>8. ListIsBounded' BY <1>0, <1>3 DEF ListIsBounded
  <1>9. CallsAreBounded' BY <1>0, <1>2, <1>3, <1>6 DEF CallsAreBounded
  <1>10. MoreIsAlone'
    <2>1. nextPage <= nextPage BY <1>6
    <2> QED BY <1>2, <1>3, <1>5, <2>1 DEF MoreIsAlone
  <1> QED BY <1>7, <1>8, <1>9, <1>10 DEF PageBounds

(* A detail that is opened is an item, and so are form and address then.   *)
LEMMA OpenItemIsTyped ==
    ASSUME PageValues, NEW item \in Items, NEW others, OpenItem(item, others)
    PROVE  /\ form' \in Route /\ address' \in Route /\ detail' \in Opened
           /\ Answered(others)
  <1>1. Open(0, item).kind = "open" /\ Open(0, item).for = item BY DEF Open
  <1>2. form' \in Route /\ detail' \in Opened BY DEF OpenItem, PageValues, Route, Opened
  <1>3. address' = address \/ address' = form' BY DEF OpenItem
  <1> QED BY <1>1, <1>2, <1>3 DEF OpenItem, Answered, PageValues

(* The end of a call for more: the pages that come are the ones after all  *)
(* that is listed.                                                         *)
LEMMA MoreEndsBounded ==
    ASSUME PageInvariant, PageBounds, NEW r \in MoreCalls, Answered(pending \ {r}),
           form' \in Route, address' \in Route, detail' \in Opened,
           loadingMore' = (loadingMore /\ r.id # requestId),
           UNCHANGED <<debounce, searched, loading, active, requestId>>,
           \/ UNCHANGED <<results, nextPage, hasMore>>
           \/ /\ r.id = requestId /\ nextPage' = r.page + 1
              /\ results' = results \/ results' = Append(results, <<r.for, r.page>>)
              /\ hasMore' \in BOOLEAN /\ (hasMore' => r.page < Pages)
    PROVE  PageBounds'
  <1> USE SearchPageAssumption
  <1>0. /\ PageValues /\ ListIsBounded /\ CallsAreBounded /\ MoreIsAlone
        /\ loadingMore \in BOOLEAN /\ hasMore \in BOOLEAN
    BY DEF PageBounds, PageValues
  <1>1. /\ r \in pending /\ r.kind = "more" /\ r.for \in Searchable /\ r.page \in 2 .. Pages
    BY <1>0 DEF MoreCalls, PageInvariant, CallsAreTyped, CallsAreBounded
  <1>2. CurrentMore' = CurrentMore \ {r} BY <1>1 DEF Answered, CurrentMore, MoreCalls
  <1>3. PageValues'
    <2>1. loadingMore' \in BOOLEAN /\ hasMore' \in BOOLEAN BY <1>0
    <2> QED BY <1>0, <2>1 DEF PageValues
  <1>4. CallsAreBounded' BY <1>0 DEF Answered, CallsAreBounded
  <1>5. CASE UNCHANGED <<results, nextPage, hasMore>>
    <2>1. ListIsBounded' BY <1>0, <1>5 DEF ListIsBounded
    <2>2. \A q \in CurrentMore' : nextPage' <= q.page
      BY <1>0, <1>2, <1>5 DEF MoreIsAlone
    <2>3. ASSUME hasMore', CurrentMore' # {}  PROVE loadingMore'
      <3>1. PICK q \in CurrentMore : q # r BY <1>2, <2>3
      <3>2. loadingMore BY <1>0, <1>5, <2>3, <3>1 DEF MoreIsAlone
      <3>3. r \notin CurrentMore BY <1>0, <3>1 DEF MoreIsAlone
      <3>4. r.id # requestId BY <3>3 DEF CurrentMore
      <3> QED BY <3>2, <3>4
    <2>4. \A p, q \in CurrentMore' : p = q BY <1>0, <1>2 DEF MoreIsAlone
    <2>5. MoreIsAlone' BY <2>2, <2>3, <2>4 DEF MoreIsAlone
    <2> QED BY <1>3, <1>4, <2>1, <2>5 DEF PageBounds
  <1>6. ASSUME r.id = requestId, nextPage' = r.page + 1,
               results' = results \/ results' = Append(results, <<r.for, r.page>>),
               hasMore' => r.page < Pages
        PROVE  PageBounds'
    <2>1. r \in CurrentMore BY <1>6 DEF CurrentMore
    <2>2. CurrentMore' = {} BY <1>0, <1>2, <2>1 DEF MoreIsAlone
    <2>3. MoreIsAlone' BY <2>2 DEF MoreIsAlone
    <2>4. nextPage <= r.page BY <1>0, <2>1 DEF MoreIsAlone
    <2>5. ListIsBounded'
      <3> DEFINE item == <<r.for, r.page>>
                 n == r.page
                 m == Len(results)
      <3>1. item \in Items
        <4>1. n \in 1 .. Pages BY <1>1
        <4> QED BY <1>1, <4>1 DEF Items
      <3>2. results' = results \/ results' = Append(results, item) BY <1>6
      <3> HIDE DEF item
      <3>3. results \in Seq(Items) BY <1>0 DEF ListIsBounded
      <3>4. results' \in Seq(Items) /\ (Len(results') = m \/ Len(results') = m + 1)
        BY <3>1, <3>2, <3>3
      <3>5. nextPage \in 2 .. Pages + 1 /\ m < nextPage /\ m \in Nat
        BY <1>0, <3>3 DEF ListIsBounded
      <3>6. /\ n \in 2 .. Pages /\ nextPage' = n + 1 /\ nextPage <= n
            /\ (hasMore' => n < Pages)
        BY <1>1, <1>6, <2>4
      <3> HIDE DEF n, m
      <3>7. nextPage' \in 2 .. Pages + 1 /\ m < nextPage' /\ m + 1 < nextPage'
        BY <3>5, <3>6
      <3>8. n < Pages => nextPage' <= Pages BY <3>6
      <3>9. hasMore' => nextPage' <= Pages BY <3>6, <3>8
      <3>10. Len(results') < nextPage' BY <3>4, <3>7
      <3> QED BY <3>4, <3>7, <3>9, <3>10 DEF ListIsBounded
    <2> QED BY <1>3, <1>4, <2>3, <2>5 DEF PageBounds
  <1> QED BY <1>5, <1>6

LEMMA MoreBounds ==
    ASSUME PageInvariant, PageBounds, MoreArrives \/ MoreFails
    PROVE  PageBounds'
  <1>0. /\ PageValues /\ ListIsBounded /\ form \in Route /\ address \in Route
        /\ detail \in Opened
    BY DEF PageBounds, PageValues
  <1>1. CASE MoreFails
    <2>1. PICK r \in MoreCalls :
            /\ loadingMore' = (loadingMore /\ r.id # requestId)
            /\ Done(r)
            /\ UNCHANGED <<form, address, debounce, searched, loading, list, detail, requestId>>
      BY <1>1 DEF MoreFails, MoreCalls
    <2>2. Answered(pending \ {r}) BY <2>1 DEF Done, Answered
    <2>3. UNCHANGED <<debounce, searched, loading, active, requestId, results, nextPage, hasMore>>
      BY <2>1 DEF list
    <2>4. form' \in Route /\ address' \in Route /\ detail' \in Opened BY <1>0, <2>1
    <2> QED BY <2>1, <2>2, <2>3, <2>4, MoreEndsBounded
  <1>2. CASE MoreArrives
    <2>1. PICK r \in MoreCalls :
            LET fresh == IF <<r.for, r.page>> \in Listed THEN <<>> ELSE <<<<r.for, r.page>>>>
            IN  /\ IF Accepts(r)
                   THEN /\ results' = results \o fresh
                        /\ nextPage' = r.page + 1
                        /\ hasMore' = (fresh # <<>> /\ r.page < Pages)
                   ELSE UNCHANGED <<results, nextPage, hasMore>>
                /\ loadingMore' = (loadingMore /\ r.id # requestId)
                /\ IF r.openAfter > 0 /\ Len(results') > r.openAfter
                   THEN OpenItem(results'[r.openAfter + 1], pending \ {r})
                   ELSE Done(r) /\ UNCHANGED <<form, address, detail>>
                /\ UNCHANGED <<debounce, searched, loading, active, requestId>>
      BY <1>2 DEF MoreArrives, MoreCalls
    <2> DEFINE item == <<r.for, r.page>>
    <2>2. results \in Seq(Items) /\ results \o <<>> = results BY <1>0 DEF ListIsBounded
    <2>3. \/ UNCHANGED <<results, nextPage, hasMore>>
          \/ /\ r.id = requestId /\ nextPage' = r.page + 1
             /\ results' = results \/ results' = results \o <<item>>
             /\ hasMore' \in BOOLEAN /\ (hasMore' => r.page < Pages)
      BY <2>1, <2>2 DEF Accepts
    <2>4. item \in Items
      BY DEF PageInvariant, CallsAreTyped, PageBounds, CallsAreBounded, MoreCalls, Items
    <2> HIDE DEF item
    <2>5. results \o <<item>> = Append(results, item) BY <2>2, <2>4
    <2>6. \/ UNCHANGED <<results, nextPage, hasMore>>
          \/ /\ r.id = requestId /\ nextPage' = r.page + 1
             /\ results' = results \/ results' = Append(results, <<r.for, r.page>>)
             /\ hasMore' \in BOOLEAN /\ (hasMore' => r.page < Pages)
      BY <2>3, <2>5 DEF item
    <2>7. CASE Done(r) /\ UNCHANGED <<form, address, detail>>
      <3>1. Answered(pending \ {r}) BY <2>7 DEF Done, Answered
      <3> QED BY <1>0, <2>1, <2>6, <2>7, <3>1, MoreEndsBounded
    <2>8. CASE /\ r.openAfter > 0 /\ Len(results') > r.openAfter
               /\ OpenItem(results'[r.openAfter + 1], pending \ {r})
      <3>1. results' \in Seq(Items) BY <2>2, <2>3, <2>4, <2>5
      <3>a. r.openAfter \in Nat BY DEF PageBounds, CallsAreBounded, MoreCalls
      <3>2. r.openAfter + 1 \in 1 .. Len(results') BY <2>8, <3>1, <3>a
      <3>3. results'[r.openAfter + 1] \in Items BY <3>1, <3>2, ElementOfSeq
      <3>4. /\ form' \in Route /\ address' \in Route /\ detail' \in Opened
            /\ Answered(pending \ {r})
        BY <1>0, <2>8, <3>3, OpenItemIsTyped
      <3> QED BY <2>1, <2>6, <3>4, MoreEndsBounded
    <2> QED BY <2>1, <2>7, <2>8
  <1> QED BY <1>1, <1>2

(* Steps that leave the list and the calls for more alone.                 *)
LEMMA DetailBounds ==
    ASSUME PageBounds, Answered(pending \ Details), form' \in Route, address' \in Route,
           detail' \in Opened, loading' \in BOOLEAN,
           UNCHANGED <<debounce, searched, loadingMore, active, requestId>>,
           \/ UNCHANGED <<results, nextPage, hasMore>>
           \/ results' = <<>> /\ hasMore' = FALSE /\ nextPage' = 2
    PROVE  PageBounds'
  <1>0. PageValues /\ ListIsBounded /\ CallsAreBounded /\ MoreIsAlone BY DEF PageBounds
  <1>1. PageValues' BY <1>0 DEF PageValues
  <1>2. ListIsBounded'
    <2>1. <<>> \in Seq(Items) /\ Len(<<>>) = 0 /\ 2 \in 2 .. Pages + 1
      BY SearchPageAssumption
    <2>2. CASE UNCHANGED <<results, nextPage, hasMore>> BY <1>0, <2>2 DEF ListIsBounded
    <2>3. CASE results' = <<>> /\ hasMore' = FALSE /\ nextPage' = 2
      BY <2>1, <2>3 DEF ListIsBounded
    <2> QED BY <2>2, <2>3
  <1>3. CallsAreBounded' BY <1>0 DEF Answered, CallsAreBounded
  <1>4. CurrentMore' \subseteq CurrentMore BY DEF Answered, CurrentMore, MoreCalls
  <1>5. MoreIsAlone'
    <2>1. \A r \in CurrentMore : 2 <= r.page
      BY <1>0 DEF CallsAreBounded, CurrentMore, MoreCalls
    <2> QED BY <1>0, <1>4, <2>1 DEF MoreIsAlone
  <1> QED BY <1>1, <1>2, <1>3, <1>5 DEF PageBounds

LEMMA OpeningBounds ==
    ASSUME PageBounds, OpenDetail \/ OpenDetailById \/ CloseDetail
    PROVE  PageBounds'
  <1>0. /\ PageValues /\ ListIsBounded /\ form \in Route /\ address \in Route
        /\ detail \in Opened /\ loading \in BOOLEAN
    BY DEF PageBounds, PageValues
  <1>1. UNCHANGED <<debounce, searched, loading, loadingMore, active, requestId,
                    results, nextPage, hasMore>>
    BY DEF OpenDetail, OpenDetailById, CloseDetail, list
  <1>a. loading' \in BOOLEAN /\ CallsAreBounded BY <1>0, <1>1 DEF PageBounds
  <1>b. ASSUME Answered(pending)  PROVE Answered(pending \ Details)
    BY <1>a, <1>b DEF Answered, CallsAreBounded, Details
  <1>2. CASE OpenDetail
    <2>1. PICK item \in Items : OpenItem(item, pending)
      BY <1>0, <1>2, ItemsListed DEF OpenDetail
    <2>2. form' \in Route /\ address' \in Route /\ detail' \in Opened /\ Answered(pending)
      BY <1>0, <2>1, OpenItemIsTyped
    <2> QED BY <1>1, <1>a, <1>b, <2>2, DetailBounds
  <1>3. CASE OpenDetailById
    <2>1. /\ ById(0, Elsewhere).kind = "byId" /\ ById(0, Elsewhere).for = Elsewhere
          /\ Elsewhere \in Items
      BY DEF ById, Items
    <2>2. Answered(pending) BY <1>3, <2>1 DEF OpenDetailById, Answered
    <2>3. form' \in Route /\ address' \in Route /\ detail' \in Opened
      BY <1>0, <1>3 DEF OpenDetailById
    <2> QED BY <1>1, <1>a, <1>b, <2>2, <2>3, DetailBounds
  <1>4. CASE CloseDetail
    <2>1. Answered(pending) BY <1>4 DEF CloseDetail, Answered
    <2>2. form' \in Route /\ detail' \in Opened
      BY <1>0, <1>4, ClosedIsShown DEF CloseDetail, Route
    <2>3. address' = address \/ address' = form' BY <1>4 DEF CloseDetail
    <2> QED BY <1>0, <1>1, <1>a, <1>b, <2>1, <2>2, <2>3, DetailBounds
  <1> QED BY <1>2, <1>3, <1>4

LEMMA DetailEndBounds ==
    ASSUME PageBounds, DetailArrives \/ DetailFails
    PROVE  PageBounds'
  <1>0. /\ PageValues /\ form \in Route /\ address \in Route /\ detail \in Opened
        /\ loading \in BOOLEAN /\ CallsAreBounded
    BY DEF PageBounds, PageValues
  <1>1. ASSUME NEW r \in Details, Done(r)  PROVE Answered(pending \ Details)
    BY <1>0, <1>1 DEF Done, Answered, Details, CallsAreBounded
  <1>2. CASE DetailFails
    <2>1. PICK r \in Details :
            /\ IF r.id # 0 /\ r.id = requestId
               THEN results' = <<>> /\ hasMore' = FALSE /\ nextPage' = 2 /\ EndOfSearch(r.id)
               ELSE UNCHANGED <<results, hasMore, nextPage, loading>>
            /\ Done(r)
            /\ UNCHANGED <<form, address, debounce, searched, loadingMore, active, detail, requestId>>
      BY <1>2 DEF DetailFails
    <2>2. loading' \in BOOLEAN BY <1>0, <2>1 DEF EndOfSearch
    <2>3. form' \in Route /\ address' \in Route /\ detail' \in Opened BY <1>0, <2>1
    <2> QED BY <1>1, <2>1, <2>2, <2>3, DetailBounds
  <1>3. CASE DetailArrives
    <2>1. PICK r \in Details :
            /\ \/ /\ detail' = detail \/ detail' = [detail EXCEPT !.content = r.for]
                  /\ UNCHANGED <<form, address>>
               \/ /\ form' = [form EXCEPT !.view = r.for] \/ form' = form
                  /\ address' = address \/ address' = form'
                  /\ \/ detail' = [item |-> r.for, content |-> NoItem]
                     \/ detail' = [item |-> r.for, content |-> r.for]
               \/ detail' = Closed /\ UNCHANGED <<form, address>>
            /\ IF r.id = 0 THEN UNCHANGED loading ELSE EndOfSearch(r.id)
            /\ Done(r)
            /\ UNCHANGED <<debounce, searched, loadingMore, list, requestId>>
      BY <1>3 DEF DetailArrives
    <2>2. r.for \in Items BY <1>0 DEF Details, CallsAreBounded
    <2>3. [form EXCEPT !.view = r.for] \in Route BY <1>0, <2>2 DEF Route
    <2>4. form' \in Route /\ address' \in Route BY <1>0, <2>1, <2>3
    <2>5. detail' \in Opened
      <3>1. /\ [detail EXCEPT !.content = r.for] \in Opened
            /\ [item |-> r.for, content |-> NoItem] \in Opened
            /\ [item |-> r.for, content |-> r.for] \in Opened
        BY <1>0, <2>2 DEF Opened
      <3> QED BY <1>0, <2>1, <3>1, ClosedIsShown
    <2>6. loading' \in BOOLEAN BY <1>0, <2>1 DEF EndOfSearch
    <2>7. UNCHANGED <<debounce, searched, loadingMore, active, requestId, results, nextPage, hasMore>>
      BY <2>1 DEF list
    <2> QED BY <1>1, <2>1, <2>4, <2>5, <2>6, <2>7, DetailBounds
  <1> QED BY <1>2, <1>3

LEMMA PageBegins == PageInit => PageBounds
  <1> SUFFICES ASSUME PageInit PROVE PageBounds OBVIOUS
  <1>1. PageValues
    <2>1. form \in Route /\ "none" \in Filters BY DEF PageInit, Route, Filters
    <2>2. 0 \in 0 .. MaxSearches BY SearchPageAssumption
    <2> QED BY <2>1, <2>2, ClosedIsShown DEF PageInit, PageValues
  <1>2. ListIsBounded
    <2>1. <<>> \in Seq(Items) /\ Len(<<>>) = 0 /\ 2 \in 2 .. Pages + 1
      BY SearchPageAssumption
    <2> QED BY <2>1 DEF PageInit, ListIsBounded
  <1>3. CallsAreBounded /\ MoreIsAlone
    BY DEF PageInit, CallsAreBounded, MoreIsAlone, CurrentMore, MoreCalls
  <1> QED BY <1>1, <1>2, <1>3 DEF PageBounds

LEMMA PageStaysBounded == PageInvariant /\ PageBounds /\ [PageNext]_pageVars => PageBounds'
  <1> SUFFICES ASSUME PageInvariant, PageBounds, [PageNext]_pageVars  PROVE PageBounds'
    OBVIOUS
  <1>1. CASE UNCHANGED pageVars
    <2>1. CurrentMore' = CurrentMore BY <1>1 DEF pageVars, CurrentMore, MoreCalls
    <2> QED BY <1>1, <2>1 DEF pageVars, PageBounds, PageValues, ListIsBounded, CallsAreBounded,
                              MoreIsAlone
  <1> QED BY <1>1, InputBounds, LeavingBounds, SearchBounds, LoadMoreBounds, MoreBounds,
             OpeningBounds, DetailEndBounds DEF PageNext

LEMMA PageIsBounded == PageInvariant /\ PageBounds => PageTypeOK
  <1> SUFFICES ASSUME PageInvariant, PageBounds PROVE PageTypeOK OBVIOUS
  <1> USE SearchPageAssumption
  <1>1. PageValues /\ ListIsBounded BY DEF PageBounds
  <1>2. results \in UNION { [1 .. n -> Items] : n \in 0 .. Pages }
    <2> DEFINE m == Len(results)
               S == Items
    <2>1. results \in Seq(S) BY <1>1 DEF ListIsBounded
    <2>2. m \in Nat /\ m < nextPage /\ nextPage \in 2 .. Pages + 1
      BY <1>1, <2>1 DEF ListIsBounded
    <2>3. results \in [1 .. m -> S]
      <3> HIDE DEF S
      <3> QED BY <2>1, LenProperties
    <2> HIDE DEF m, S
    <2>4. m \in 0 .. Pages BY <2>2
    <2>5. results \in UNION { [1 .. n -> S] : n \in 0 .. Pages } BY <2>3, <2>4
    <2> QED BY <2>5 DEF S
  <1>3. \A r \in pending : r.id \in 0 .. requestId /\ r.for \in Searchable \cup Items
    BY DEF PageInvariant, CallsAreTyped, PageBounds, CallsAreBounded
  <1> QED BY <1>1, <1>2, <1>3 DEF PageTypeOK, PageValues, ListIsBounded, Opened

LEMMA PageHasTypes == PageSpec => []PageTypeOK
  <1>1. PageSpec => []PageBounds
    <2>1. PageSpec => []PageInvariant BY PageIsSound
    <2>2. PageInit => PageBounds BY PageBegins
    <2>3. PageInvariant /\ PageBounds /\ [PageNext]_pageVars => PageBounds'
      BY PageStaysBounded
    <2> QED BY <2>1, <2>2, <2>3, PTL DEF PageSpec
  <1> QED BY <1>1, PageIsSound, PageIsBounded, PTL
-----------------------------------------------------------------------------
(* ServiceTypeOK: whichever part of the service moves, its state is one    *)
(* the program can be in.                                                  *)
THEOREM ServiceIsTyped == ServiceSpec => []ServiceTypeOK
  <1>1. TakedownInvariant => TakedownTypeOK BY DEF TakedownInvariant
  <1>2. WindowInvariant => WindowTypeOK BY WindowHolds
  <1>3. ImagesInvariant => PageImagesTypeOK BY DEF ImagesInvariant
  <1>4. DetailInvariant => EntityDetailTypeOK BY DEF DetailInvariant
  <1>5. (/\ TakedownTypeOK /\ PageTypeOK /\ WindowTypeOK /\ AdmissionTypeOK
         /\ PageImagesTypeOK /\ EntityDetailTypeOK /\ PdfViewTypeOK /\ PlayerTypeOK)
           => ServiceTypeOK
    BY DEF ServiceTypeOK
  <1>6. ServiceSpec => [](TakedownTypeOK /\ WindowTypeOK)
    BY <1>1, <1>2, TakedownIsAPart, TakedownIsSound, WindowIsAPart, WindowIsSound, PTL
  <1>7. ServiceSpec => [](PageImagesTypeOK /\ EntityDetailTypeOK)
    BY <1>3, <1>4, ImagesAreAPart, ImagesAreSound, DetailIsAPart, DetailIsSound, PTL
  <1>8. ServiceSpec => [](PageTypeOK /\ AdmissionTypeOK)
    BY PageIsAPart, PageHasTypes, AdmissionIsAPart, AdmissionHasTypes, PTL
  <1>9. ServiceSpec => [](PdfViewTypeOK /\ PlayerTypeOK)
    BY PdfIsAPart, PdfViewHasTypes, PlayerIsAPart, PlayerHasTypes, PTL
  <1> QED BY <1>5, <1>6, <1>7, <1>8, <1>9, PTL
=============================================================================
