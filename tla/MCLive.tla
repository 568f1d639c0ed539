-------------------------------- MODULE MCLive --------------------------------
(***************************************************************************)
(* What has to happen in the end, checked in one run: an appended record   *)
(* is published, a queued run is settled, an accepted job is settled. The  *)
(* initial state picks a component, only that one moves and is treated     *)
(* fairly, and the others rest.                                            *)
(***************************************************************************)
EXTENDS ExportLog

CONSTANTS h1, h2, p1, r1, r2, v1, s1, w1, NoWindow, NoJob

VARIABLES component,
          runs, submitting, queueMode, queueFound, exec, activeRuns, queueInterfered,
          jobs, jobsMode, jobsFound, activeJob, agentJob, jobsInterfered

TwoEntities == {1, 2}
TwoHashes == {h1, h2}
OneProc == {p1}

Queue == INSTANCE RunQueue WITH
    Runs <- {r1, r2}, Windows <- {v1}, Submitters <- {s1}, Workers <- {w1},
    Slots <- 1, Ids <- {1, 2}, MaxRequeues <- 1,
    mode <- queueMode, found <- queueFound, interfered <- queueInterfered

Jobs == INSTANCE OpsJobs WITH
    Jobs <- {1, 2}, Workers <- {w1}, MaxRequeues <- 1,
    mode <- jobsMode, found <- jobsFound, interfered <- jobsInterfered

queueState == <<runs, submitting, queueMode, queueFound, exec, activeRuns, queueInterfered>>
jobsState == <<jobs, jobsMode, jobsFound, activeJob, agentJob, jobsInterfered>>

LiveInit ==
    /\ component \in {"log", "queue", "jobs"}
    /\ Init
    /\ Queue!Init
    /\ Jobs!Init

LogStep ==
    /\ component = "log" /\ Next
    /\ UNCHANGED <<component, queueState, jobsState>>
QueueStep ==
    component = "queue" /\ Queue!Next /\ UNCHANGED <<component, logVars, jobsState>>
JobsStep ==
    component = "jobs" /\ Jobs!Next /\ UNCHANGED <<component, logVars, queueState>>

LiveNext == LogStep \/ QueueStep \/ JobsStep

LiveSpec ==
    /\ LiveInit
    /\ [][LiveNext]_<<component, logVars, queueState, jobsState>>
    /\ \/ component = "log" /\ Fairness
       \/ component = "queue" /\ Queue!Fairness
       \/ component = "jobs" /\ Jobs!Fairness

(* Every run that is queued, and every job that is accepted, is settled in *)
(* the end, through crashes of the workers and of the agent, stalls and    *)
(* deploys.                                                                *)
EventuallySettled ==
    /\ component = "queue" => Queue!EventuallySettled
    /\ component = "jobs" => Jobs!EventuallySettled
=============================================================================
