------------------------------ MODULE RunQueue ------------------------------
(***************************************************************************)
(* The import queue: the ingest_run table (src/ops/store.ts), the code     *)
(* that enqueues runs (src/ingest.ts, src/scheduler.ts) and the worker     *)
(* containers that claim and execute them (src/worker.ts).                 *)
(*                                                                         *)
(* The table is the only thing the processes share. Each SQL statement or  *)
(* transaction is one step; reconcileInterruptedRuns() selects before its  *)
(* transaction and updateRun() reads the row before it writes it back, so  *)
(* both are two steps and other processes run in between. Inside a process *)
(* no timer or signal handler fires between the two halves of updateRun(). *)
(***************************************************************************)
EXTENDS Integers, FiniteSets

CONSTANTS Runs,          (* ids of ingest_run rows                         *)
          Windows,       (* what is imported: source, dates and mode       *)
          NoWindow,      (* a submitter that is not enqueueing             *)
          Submitters,    (* concurrent callers of startIngest()            *)
          Workers,       (* worker containers                              *)
          Slots,         (* imports a worker runs at a time                *)
          Ids,           (* tells a worker's executions apart              *)
          MaxRequeues    (* MAX_INTERRUPTED_REQUEUES                       *)

ASSUME QueueAssumption ==
    /\ Slots \in Nat \ {0}
    /\ MaxRequeues \in Nat
    /\ NoWindow \notin Windows
    /\ IsFiniteSet(Workers) /\ Workers # {}

VARIABLES
    runs,        (* the table; status "absent" is a row not inserted yet,  *)
                 (* old: claimed more than RECONCILE_MIN_CLAIM_AGE_MS ago  *)
    submitting,  (* per submitter: the window findActiveRun() found free   *)
    mode,        (* per worker: down, booting (reconciling) or up          *)
    found,       (* per worker: the rows reconcile selected                *)
    exec,        (* the executeIngest() calls under way, anywhere          *)
    activeRuns,  (* per worker: the keys of its activeRuns map             *)
    interfered   (* history: a reconcile changed a row that was not an     *)
                 (* interrupted run, see Interferes                        *)

queueVars == <<runs, submitting, mode, found, exec, activeRuns, interfered>>

Active == {"queued", "running"}
Terminal == {"succeeded", "partial", "failed"}
Status == {"absent"} \cup Active \cup Terminal

(* working: holds a slot, watched; detached: given up by the watchdog.     *)
(* seen: the status updateRun() has read and is about to write back.       *)
Execution == [worker: Workers, run: Runs, id: Ids,
              phase: {"working", "detached"}, seen: Status \cup {"none"}]

MaxInterrupted == MaxRequeues + Cardinality(Workers)

TypeOK ==
    /\ runs \in [Runs -> [status: Status, window: Windows \cup {NoWindow},
                          interrupted: 0 .. MaxInterrupted, old: BOOLEAN]]
    /\ submitting \in [Submitters -> Windows \cup {NoWindow}]
    /\ mode \in [Workers -> {"down", "booting", "up"}]
    /\ found \in [Workers -> SUBSET [run: Runs, interrupted: 0 .. MaxInterrupted]]
    /\ exec \subseteq Execution
    /\ activeRuns \in [Workers -> SUBSET Runs]
    /\ interfered \in BOOLEAN
-----------------------------------------------------------------------------
Init ==
    /\ runs = [r \in Runs |-> [status |-> "absent", window |-> NoWindow,
                               interrupted |-> 0, old |-> FALSE]]
    /\ submitting = [s \in Submitters |-> NoWindow]
    /\ mode = [w \in Workers |-> "down"]
    /\ found = [w \in Workers |-> {}]
    /\ exec = {}
    /\ activeRuns = [w \in Workers |-> {}]
    /\ interfered = FALSE

SetStatus(r, status) == [runs EXCEPT ![r].status = status]
-----------------------------------------------------------------------------
(* Enqueueing: startIngest() in the web process and in the ops jobs of     *)
(* every worker, the scheduler and reenqueueFailedWindows() all select for *)
(* an active run of the window and insert in a later statement.            *)
FindActiveRun(s, v) ==
    /\ submitting[s] = NoWindow
    /\ \A r \in Runs : runs[r].status \in Active => runs[r].window # v
    /\ submitting' = [submitting EXCEPT ![s] = v]
    /\ UNCHANGED <<runs, mode, found, exec, activeRuns, interfered>>

CreateRun(s, r) ==
    /\ submitting[s] # NoWindow
    /\ runs[r].status = "absent"
    /\ runs' = [runs EXCEPT ![r] = [status |-> "queued", interrupted |-> 0,
                                    window |-> submitting[s], old |-> FALSE]]
    /\ submitting' = [submitting EXCEPT ![s] = NoWindow]
    /\ UNCHANGED <<mode, found, exec, activeRuns, interfered>>
-----------------------------------------------------------------------------
(* Time passes: a claim becomes older than RECONCILE_MIN_CLAIM_AGE_MS.     *)
ClaimAges(r) ==
    /\ runs[r].status = "running"
    /\ ~runs[r].old
    /\ runs' = [runs EXCEPT ![r].old = TRUE]
    /\ UNCHANGED <<submitting, mode, found, exec, activeRuns, interfered>>

(* reconcileInterruptedRuns(), the select: running rows with an old claim. *)
Boot(w) ==
    /\ mode[w] = "down"
    /\ mode' = [mode EXCEPT ![w] = "booting"]
    /\ found' = [found EXCEPT ![w] =
          { [run |-> r, interrupted |-> runs[r].interrupted] :
              r \in { q \in Runs : runs[q].status = "running" /\ runs[q].old } }]
    /\ UNCHANGED <<runs, submitting, exec, activeRuns, interfered>>

(* What the select meant to find: a run whose process is gone.             *)
Interrupted(r) ==
    /\ runs[r].status = "running"
    /\ runs[r].old
    /\ \A x \in exec : x.run # r

Interferes(w) == \E f \in found[w] : ~Interrupted(f.run)

(* Mutants of Reconciled: no cap; a cap one too high; a row at the cap is  *)
(* left alone.                                                             *)
ReconciledUncapped(w) ==
    [r \in Runs |->
        IF \E f \in found[w] : f.run = r
        THEN [runs[r] EXCEPT !.status = "queued", !.interrupted = @ + 1]
        ELSE runs[r]]

ReconciledOneTooMany(w) ==
    [r \in Runs |->
        IF \E f \in found[w] : f.run = r /\ f.interrupted <= MaxRequeues
        THEN [runs[r] EXCEPT !.status = "queued", !.interrupted = @ + 1]
        ELSE IF \E f \in found[w] : f.run = r
             THEN [runs[r] EXCEPT !.status = "failed"]
             ELSE runs[r]]

ReconciledLeavingCapped(w) ==
    [r \in Runs |->
        IF \E f \in found[w] : f.run = r /\ f.interrupted < MaxRequeues
        THEN [runs[r] EXCEPT !.status = "queued", !.interrupted = @ + 1]
        ELSE runs[r]]

(* Each row the select returned is requeued or, by the count the select    *)
(* returned, failed. The updates look at nothing but the id.               *)
Reconciled(w) ==
    [r \in Runs |->
        IF \E f \in found[w] : f.run = r /\ f.interrupted < MaxRequeues
        THEN [runs[r] EXCEPT !.status = "queued", !.interrupted = @ + 1]
        ELSE IF \E f \in found[w] : f.run = r
             THEN [runs[r] EXCEPT !.status = "failed"]
             ELSE runs[r]]

(* reconcileInterruptedRuns(), the transaction; then the poll loop starts. *)
Reconcile(w) ==
    /\ mode[w] = "booting"
    /\ runs' = Reconciled(w)
    /\ interfered' = (interfered \/ Interferes(w))
    /\ mode' = [mode EXCEPT ![w] = "up"]
    /\ found' = [found EXCEPT ![w] = {}]
    /\ UNCHANGED <<submitting, exec, activeRuns>>
-----------------------------------------------------------------------------
Working(w) == { x \in exec : x.worker = w /\ x.phase = "working" }

(* Mutant of Claim: the UPDATE has lost its status guard.                  *)
ClaimUnguarded(w, r) ==
    /\ mode[w] = "up"
    /\ Cardinality(Working(w)) < Slots
    /\ runs[r].status \in Active
    /\ runs' = [runs EXCEPT ![r].status = "running", ![r].old = FALSE]
    /\ \E i \in Ids :
          /\ \A x \in exec : x.worker = w => x.id # i
          /\ exec' = exec \cup {[worker |-> w, run |-> r, id |-> i,
                                 phase |-> "working", seen |-> "none"]}
    /\ activeRuns' = [activeRuns EXCEPT ![w] = @ \cup {r}]
    /\ UNCHANGED <<submitting, mode, found, interfered>>

(* pollAndExecute() and claimQueuedRun(): the listed candidates are only   *)
(* hints, the guarded UPDATE decides.                                      *)
Claim(w, r) ==
    /\ mode[w] = "up"
    /\ Cardinality(Working(w)) < Slots
    /\ runs[r].status = "queued"
    /\ runs' = [runs EXCEPT ![r].status = "running", ![r].old = FALSE]
    /\ \E i \in Ids :
          /\ \A x \in exec : x.worker = w => x.id # i
          /\ exec' = exec \cup {[worker |-> w, run |-> r, id |-> i,
                                 phase |-> "working", seen |-> "none"]}
    /\ activeRuns' = [activeRuns EXCEPT ![w] = @ \cup {r}]
    /\ UNCHANGED <<submitting, mode, found, interfered>>

(* onProgress: updateRun() with counters only. It writes the whole row, so *)
(* the status it has read goes back into the table.                        *)
ReadRow(x) ==
    /\ x.seen = "none"
    /\ exec' = (exec \ {x}) \cup {[x EXCEPT !.seen = runs[x.run].status]}
    /\ UNCHANGED <<runs, submitting, mode, found, activeRuns, interfered>>

WriteProgress(x) ==
    /\ x.seen # "none"
    /\ runs' = SetStatus(x.run, x.seen)
    /\ exec' = (exec \ {x}) \cup {[x EXCEPT !.seen = "none"]}
    /\ UNCHANGED <<submitting, mode, found, activeRuns, interfered>>

(* Mutant of Released: the key stays in activeRuns.                        *)
ReleasedNever(x) == activeRuns

(* The finally block of pollAndExecute(): only a watched call frees a slot *)
(* and its key in activeRuns.                                              *)
Released(x) ==
    IF x.phase = "working"
    THEN [activeRuns EXCEPT ![x.worker] = @ \ {x.run}]
    ELSE activeRuns

(* executeIngest() returns or throws, having written its outcome whatever  *)
(* the row says by then; or it throws without having written anything: an  *)
(* execution mode that is not implemented, a database error on the way.    *)
Finish(x) ==
    /\ x.seen = "none"
    /\ \/ \E outcome \in Terminal : runs' = SetStatus(x.run, outcome)
       \/ UNCHANGED runs
    /\ exec' = exec \ {x}
    /\ activeRuns' = Released(x)
    /\ UNCHANGED <<submitting, mode, found, interfered>>

(* No heartbeat for ingestStallTimeoutMs(): the run is marked failed, or   *)
(* the update fails and is logged. The call itself is not cancelled.       *)
Stall(x) ==
    /\ x.phase = "working"
    /\ x.seen = "none"
    /\ runs' \in {SetStatus(x.run, "failed"), runs}
    /\ exec' = (exec \ {x}) \cup {[x EXCEPT !.phase = "detached"]}
    /\ activeRuns' = Released(x)
    /\ UNCHANGED <<submitting, mode, found, interfered>>
-----------------------------------------------------------------------------
StopWorker(w) ==
    /\ mode' = [mode EXCEPT ![w] = "down"]
    /\ found' = [found EXCEPT ![w] = {}]
    /\ exec' = { x \in exec : x.worker # w }
    /\ activeRuns' = [activeRuns EXCEPT ![w] = {}]
    /\ UNCHANGED <<submitting, interfered>>

(* The process is killed, or dies.                                         *)
Crash(w) ==
    /\ mode[w] # "down"
    /\ StopWorker(w)
    /\ UNCHANGED runs

(* releaseActiveRunsAndExit(): a deploy hands the claimed runs back.       *)
Sigterm(w) ==
    /\ mode[w] = "up"
    /\ \A x \in exec : x.worker = w => x.seen = "none"
    /\ runs' = [r \in Runs |-> IF r \in activeRuns[w]
                               THEN [runs[r] EXCEPT !.status = "queued"]
                               ELSE runs[r]]
    /\ StopWorker(w)
-----------------------------------------------------------------------------
Enqueue ==
    \/ \E s \in Submitters, v \in Windows : FindActiveRun(s, v)
    \/ \E s \in Submitters, r \in Runs : CreateRun(s, r)

Worker(w) ==
    \/ Boot(w)
    \/ Reconcile(w)
    \/ \E r \in Runs : Claim(w, r)
    \/ Crash(w)
    \/ Sigterm(w)

Execute(x) ==
    \/ ReadRow(x)
    \/ WriteProgress(x)
    \/ Finish(x)
    \/ Stall(x)

Next ==
    \/ Enqueue
    \/ \E r \in Runs : ClaimAges(r)
    \/ \E w \in Workers : Worker(w)
    \/ \E x \in exec : Execute(x)

Spec == Init /\ [][Next]_queueVars

(* A worker container is restarted when it is down and by every deploy; an *)
(* import that is not killed again and again comes to an end, or the       *)
(* watchdog ends it.                                                       *)
WriteProgressOf(w, r) ==
    \E x \in exec : x.worker = w /\ x.run = r /\ WriteProgress(x)

EndOf(w, r) ==
    \E x \in exec : x.worker = w /\ x.run = r /\ (Finish(x) \/ Stall(x))

Fairness ==
    /\ \A w \in Workers :
          /\ WF_queueVars(Boot(w))
          /\ SF_queueVars(Reconcile(w))
          /\ SF_queueVars(Sigterm(w))
    /\ \A r \in Runs :
          /\ SF_queueVars(ClaimAges(r))
          /\ SF_queueVars(\E w \in Workers : Claim(w, r))
          /\ \A w \in Workers : /\ WF_queueVars(WriteProgressOf(w, r))
                                /\ SF_queueVars(EndOf(w, r))

FairSpec == Spec /\ Fairness
-----------------------------------------------------------------------------
AtMostOneExecution == \A x, y \in exec : x.run = y.run => x = y

(* The guarded claim gives every run to one execution, and a watched       *)
(* execution's row says running, as long as no reconcile touched a row     *)
(* that was not interrupted.                                               *)
ClaimsAreExclusive ==
    interfered \/ /\ AtMostOneExecution
                  /\ \A x \in exec : x.phase = "working" =>
                                        runs[x.run].status = "running"

(* Under the same condition a queued run is only ever claimed, and a run   *)
(* that succeeded is never reopened: not by a stale write, not by SIGTERM, *)
(* not by the watchdog.                                                    *)
LifecycleRespected ==
    [][ interfered' \/ \A r \in Runs :
          /\ runs[r].status = "queued" => runs'[r].status \in Active
          /\ runs[r].status \in {"succeeded", "partial"} =>
                runs'[r].status = runs[r].status ]_queueVars

(* Stale counts can push a run past the cap, but by less than one attempt  *)
(* per worker: the crash loop the cap is there for still ends.             *)
AttemptsBounded ==
    \A r \in Runs :
        runs[r].interrupted <= MaxRequeues + Cardinality(Workers) - 1

(* Every queued run is settled in the end.                                 *)
EventuallySettled ==
    \A r \in Runs :
        (runs[r].status = "queued") ~> (runs[r].status \in Terminal)
-----------------------------------------------------------------------------
(* A statement of the repository that the code does not keep.              *)

(* "Runs claimed more recently than this are left alone by reconcile".     *)
FreshClaimsLeftAlone ==
    [][ \A r \in Runs :
          (runs[r].status = "running" /\ ~runs[r].old) =>
              runs'[r].interrupted = runs[r].interrupted ]_queueVars
=============================================================================
