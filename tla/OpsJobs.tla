------------------------------- MODULE OpsJobs -------------------------------
(***************************************************************************)
(* Ops jobs: the ops_job table (src/ops/store.ts), the ops endpoint that   *)
(* fills it (web/ops_api.ts), the workers that run its jobs one at a time  *)
(* (src/worker.ts) and the host agent that runs the two actions which need *)
(* Docker (scripts/ops_host_agent.py).                                     *)
(*                                                                         *)
(* Each SQL statement is one step. reconcileInterruptedOpsJobs() selects   *)
(* once and then updates row by row, outside any transaction. The agent is *)
(* a systemd oneshot service, so there is one tick of it at a time.        *)
(***************************************************************************)
EXTENDS Integers, FiniteSets

CONSTANTS Jobs,          (* ids of ops_job rows, in the order of created_at *)
          NoJob,         (* an executor that runs nothing                  *)
          Workers,       (* worker containers                              *)
          MaxRequeues    (* MAX_OPS_JOB_REQUEUES                           *)

ASSUME OpsAssumption ==
    /\ Jobs \subseteq Nat
    /\ NoJob \notin Jobs
    /\ MaxRequeues \in Nat
    /\ IsFiniteSet(Workers) /\ Workers # {}

VARIABLES
    jobs,        (* the table; status "absent" is a row not inserted yet,  *)
                 (* host: an action of the host agent, old: claimed longer *)
                 (* ago than its reconcile margin                          *)
    mode,        (* per worker: down, booting (reconciling) or up          *)
    found,       (* per worker: the selected rows still to be reconciled   *)
    activeJob,   (* per worker: activeOpsJob                               *)
    agentJob,    (* the job the host agent's tick is running               *)
    interfered   (* history: a reconcile changed a row whose job a worker  *)
                 (* was running                                            *)

opsVars == <<jobs, mode, found, activeJob, agentJob, interfered>>

Active == {"queued", "running"}
Terminal == {"succeeded", "failed"}

Row == [status: {"absent"} \cup Active \cup Terminal, host: BOOLEAN,
        apply: BOOLEAN, interrupted: Nat, old: BOOLEAN]

TypeOK ==
    /\ jobs \in [Jobs -> Row]
    /\ mode \in [Workers -> {"down", "booting", "up"}]
    /\ found \in [Workers -> SUBSET [job: Jobs, interrupted: Nat]]
    /\ activeJob \in [Workers -> Jobs \cup {NoJob}]
    /\ agentJob \in Jobs \cup {NoJob}
    /\ interfered \in BOOLEAN
-----------------------------------------------------------------------------
Init ==
    /\ jobs = [j \in Jobs |-> [status |-> "absent", host |-> FALSE,
                               apply |-> FALSE, interrupted |-> 0,
                               old |-> FALSE]]
    /\ mode = [w \in Workers |-> "down"]
    /\ found = [w \in Workers |-> {}]
    /\ activeJob = [w \in Workers |-> NoJob]
    /\ agentJob = NoJob
    /\ interfered = FALSE

IsRunning(j) == jobs[j].status = "running"

SetStatus(j, status) == [jobs EXCEPT ![j].status = status]

(* Mutant of ApplySlotFree: a claimed job no longer holds the slot.        *)
QueuedSlotFree ==
    \A j \in Jobs : jobs[j].apply => jobs[j].status # "queued"

(* The NOT EXISTS of createOpsJob().                                       *)
ApplySlotFree ==
    \A j \in Jobs : jobs[j].apply => jobs[j].status \notin Active

(* createOpsJob(): check and insert are one statement. A dry run needs no  *)
(* slot; service_logs, a host action, has no apply form.                   *)
CreateJob(j, host, apply) ==
    /\ jobs[j].status = "absent"
    /\ \A i \in Jobs : i < j => jobs[i].status # "absent"
    /\ apply => ApplySlotFree
    /\ jobs' = [jobs EXCEPT ![j] = [status |-> "queued", host |-> host,
                                    apply |-> apply, interrupted |-> 0,
                                    old |-> FALSE]]
    /\ UNCHANGED <<mode, found, activeJob, agentJob, interfered>>

(* Time passes: a claim is older than RECONCILE_MIN_CLAIM_AGE_MS, or than  *)
(* the agent's STALE_JOB_MINUTES.                                          *)
ClaimAges(j) ==
    /\ IsRunning(j)
    /\ ~jobs[j].old
    /\ jobs' = [jobs EXCEPT ![j].old = TRUE]
    /\ UNCHANGED <<mode, found, activeJob, agentJob, interfered>>

(* Mutant of IsNext: the claim has lost its status guard.                  *)
IsNextUnguarded(j, host) ==
    /\ jobs[j].status \in Active
    /\ jobs[j].host = host

(* The oldest queued job of one kind, which the claim's subselect picks.   *)
IsNext(j, host) ==
    /\ jobs[j].status = "queued"
    /\ jobs[j].host = host
    /\ \A i \in Jobs : (i < j /\ jobs[i].host = host) =>
                           jobs[i].status # "queued"

(* Mutant of Claimed: every claim counts as an interruption.               *)
ClaimedCounting(j) ==
    [jobs EXCEPT ![j].status = "running", ![j].old = FALSE,
                 ![j].interrupted = @ + 1]

Claimed(j) == [jobs EXCEPT ![j].status = "running", ![j].old = FALSE]
-----------------------------------------------------------------------------
(* reconcileInterruptedOpsJobs(), the select: worker jobs with an old      *)
(* claim.                                                                  *)
Boot(w) ==
    /\ mode[w] = "down"
    /\ mode' = [mode EXCEPT ![w] = "booting"]
    /\ found' = [found EXCEPT ![w] =
          { [job |-> j, interrupted |-> jobs[j].interrupted] :
              j \in { i \in Jobs : /\ IsRunning(i)
                                   /\ jobs[i].old
                                   /\ ~jobs[i].host } }]
    /\ UNCHANGED <<jobs, activeJob, agentJob, interfered>>

(* Mutants of Requeued: a row at the cap is left alone; a row that is not  *)
(* running any more is requeued as well.                                   *)
RequeuedLeavingCapped(f) ==
    IF IsRunning(f.job) /\ f.interrupted < MaxRequeues
    THEN [jobs EXCEPT ![f.job].status = "queued",
                      ![f.job].interrupted = @ + 1]
    ELSE jobs

RequeuedUnguarded(f) ==
    IF f.interrupted < MaxRequeues
    THEN [jobs EXCEPT ![f.job].status = "queued",
                      ![f.job].interrupted = @ + 1]
    ELSE SetStatus(f.job, "failed")

(* One selected row: requeued or, by the count the select returned,        *)
(* failed. Both updates need a running row.                                *)
Requeued(f) ==
    IF ~IsRunning(f.job) THEN jobs
    ELSE IF f.interrupted < MaxRequeues
         THEN [jobs EXCEPT ![f.job].status = "queued",
                           ![f.job].interrupted = @ + 1]
         ELSE SetStatus(f.job, "failed")

ReconcileJob(w) ==
    /\ mode[w] = "booting"
    /\ \E f \in found[w] :
          /\ jobs' = Requeued(f)
          /\ interfered' = (interfered \/ \E v \in Workers : activeJob[v] = f.job)
          /\ found' = [found EXCEPT ![w] = @ \ {f}]
    /\ UNCHANGED <<mode, activeJob, agentJob>>

StartPolling(w) ==
    /\ mode[w] = "booting"
    /\ found[w] = {}
    /\ mode' = [mode EXCEPT ![w] = "up"]
    /\ UNCHANGED <<jobs, found, activeJob, agentJob, interfered>>

(* pollOpsJobs() and claimQueuedOpsJob(): one job at a time per worker.    *)
ClaimJob(w, j) ==
    /\ mode[w] = "up"
    /\ activeJob[w] = NoJob
    /\ IsNext(j, FALSE)
    /\ jobs' = Claimed(j)
    /\ activeJob' = [activeJob EXCEPT ![w] = j]
    /\ UNCHANGED <<mode, found, agentJob, interfered>>

(* finishOpsJob(): only a running row is finished.                         *)
Finished(j, status) == IF IsRunning(j) THEN SetStatus(j, status) ELSE jobs

(* executeOpsJob() returns or throws and the outcome is stored, or storing *)
(* it fails and is logged.                                                 *)
FinishJob(w) ==
    /\ activeJob[w] # NoJob
    /\ \/ \E status \in Terminal : jobs' = Finished(activeJob[w], status)
       \/ UNCHANGED jobs
    /\ activeJob' = [activeJob EXCEPT ![w] = NoJob]
    /\ UNCHANGED <<mode, found, agentJob, interfered>>

StopWorker(w) ==
    /\ mode' = [mode EXCEPT ![w] = "down"]
    /\ found' = [found EXCEPT ![w] = {}]
    /\ activeJob' = [activeJob EXCEPT ![w] = NoJob]
    /\ UNCHANGED <<agentJob, interfered>>

Crash(w) ==
    /\ mode[w] # "down"
    /\ StopWorker(w)
    /\ UNCHANGED jobs

(* Mutant of Released: the attempt is given back.                          *)
ReleasedRefunding(j) ==
    IF IsRunning(j) THEN [jobs EXCEPT ![j].status = "queued",
                                      ![j].interrupted = @ - 1]
                    ELSE jobs

(* releaseOpsJob(): by id, and only a running row.                         *)
Released(j) == IF IsRunning(j) THEN SetStatus(j, "queued") ELSE jobs

(* releaseActiveRunsAndExit(), its part about ops jobs.                    *)
Sigterm(w) ==
    /\ mode[w] = "up"
    /\ jobs' = IF activeJob[w] = NoJob THEN jobs ELSE Released(activeJob[w])
    /\ StopWorker(w)
-----------------------------------------------------------------------------
(* The host agent.                                                         *)

(* fail_stale_jobs(), at the start of a tick: an old claim of a host job   *)
(* was abandoned by a tick that died.                                      *)
FailStaleJobs ==
    /\ agentJob = NoJob
    /\ jobs' = [j \in Jobs |->
                   IF IsRunning(j) /\ jobs[j].host /\ jobs[j].old
                   THEN [jobs[j] EXCEPT !.status = "failed"]
                   ELSE jobs[j]]
    /\ UNCHANGED <<mode, found, activeJob, agentJob, interfered>>

(* claim_job().                                                            *)
AgentClaim(j) ==
    /\ agentJob = NoJob
    /\ IsNext(j, TRUE)
    /\ jobs' = Claimed(j)
    /\ agentJob' = j
    /\ UNCHANGED <<mode, found, activeJob, interfered>>

(* run_job() and finish_job().                                             *)
AgentFinish ==
    /\ agentJob # NoJob
    /\ \E status \in Terminal : jobs' = Finished(agentJob, status)
    /\ agentJob' = NoJob
    /\ UNCHANGED <<mode, found, activeJob, interfered>>

(* The tick is killed, by systemd's timeout or with the host, or an error  *)
(* run_job() does not catch ends it.                                       *)
AgentDies ==
    /\ agentJob # NoJob
    /\ agentJob' = NoJob
    /\ UNCHANGED <<jobs, mode, found, activeJob, interfered>>
-----------------------------------------------------------------------------
Worker(w) ==
    \/ Boot(w)
    \/ ReconcileJob(w)
    \/ StartPolling(w)
    \/ \E j \in Jobs : ClaimJob(w, j)
    \/ FinishJob(w)
    \/ Crash(w)
    \/ Sigterm(w)

Agent ==
    \/ FailStaleJobs
    \/ \E j \in Jobs : AgentClaim(j)
    \/ AgentFinish
    \/ AgentDies

Next ==
    \/ \E j \in Jobs, host, apply \in BOOLEAN : CreateJob(j, host, apply)
    \/ \E j \in Jobs : ClaimAges(j)
    \/ \E w \in Workers : Worker(w)
    \/ Agent

Spec == Init /\ [][Next]_opsVars

(* Workers are restarted when they are down and by every deploy (Sigterm), *)
(* the agent's timer fires again and again, and neither is killed every    *)
(* time before a job it runs comes to an end.                              *)
Fairness ==
    /\ \A w \in Workers :
          /\ WF_opsVars(Boot(w))
          /\ SF_opsVars(ReconcileJob(w))
          /\ SF_opsVars(StartPolling(w))
          /\ SF_opsVars(\E j \in Jobs : ClaimJob(w, j))
          /\ SF_opsVars(FinishJob(w))
          /\ SF_opsVars(Sigterm(w))
    /\ \A j \in Jobs : SF_opsVars(ClaimAges(j))
    /\ WF_opsVars(FailStaleJobs)
    /\ SF_opsVars(\E j \in Jobs : AgentClaim(j))
    /\ SF_opsVars(AgentFinish)

FairSpec == Spec /\ Fairness
-----------------------------------------------------------------------------
(* "At most one apply job may be queued or running at a time": no claim,   *)
(* release, reconcile, late finish or dying agent ever reopens a job while *)
(* another one has taken the slot.                                         *)
OneApplyActive ==
    \A i, j \in Jobs :
        (/\ jobs[i].apply /\ jobs[i].status \in Active
         /\ jobs[j].apply /\ jobs[j].status \in Active) => i = j

(* A settled job stays as it was settled: a worker that was given up and   *)
(* answers late, a SIGTERM or a reconcile working from an old select       *)
(* changes nothing about it.                                               *)
SettledIsFinal ==
    [][ \A j \in Jobs : jobs[j].status \in Terminal => jobs'[j] = jobs[j] ]_opsVars

(* A job has one executor, whose row says running, as long as no reconcile *)
(* touched a job that was being run.                                       *)
OneExecutor ==
    interfered \/
        /\ \A v, w \in Workers :
              (activeJob[v] # NoJob /\ activeJob[v] = activeJob[w]) => v = w
        /\ \A w \in Workers : activeJob[w] # NoJob => IsRunning(activeJob[w])

(* Interruptions are counted against the cap, up to one stale count per    *)
(* other worker that booted at the same time.                              *)
RequeuesBounded ==
    \A j \in Jobs :
        jobs[j].interrupted <= MaxRequeues + Cardinality(Workers) - 1

(* Every accepted job is settled in the end, so the apply slot is freed.   *)
EventuallySettled ==
    \A j \in Jobs : (jobs[j].status = "queued") ~> (jobs[j].status \in Terminal)
=============================================================================
