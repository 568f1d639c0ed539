--------------------------- MODULE ImportPartsProofs ---------------------------
(***************************************************************************)
(* Proofs about parts of the import side, each for any value of its        *)
(* constants. RunQueue: types, the exclusive execution of runs no          *)
(* reconcile interfered with, the life cycle of a run under the same       *)
(* condition, and the bound on the attempts at a run. The extractors: an   *)
(* import accounts for all that was its to import. MotionLinks: a motion   *)
(* is placed under its own meeting. Transcript: words stay with who spoke  *)
(* them and under what they were about.                                    *)
(***************************************************************************)
EXTENDS RunQueue, IbabsExtraction, NotubizExtraction, SiteExtraction, MotionLinks, Transcript,
        FiniteSetTheorems, SequenceTheorems, NaturalsInduction, WellFoundedInduction, TLAPS

RunRow == [status: Status, window: Windows \cup {NoWindow},
        interrupted: Nat, old: BOOLEAN]

(* TypeOK with the counts still unbounded.                                 *)
Typed ==
    /\ runs \in [Runs -> RunRow]
    /\ submitting \in [Submitters -> Windows \cup {NoWindow}]
    /\ mode \in [Workers -> {"down", "booting", "up"}]
    /\ found \in [Workers -> SUBSET [run: Runs, interrupted: Nat]]
    /\ exec \subseteq Execution
    /\ activeRuns \in [Workers -> SUBSET Runs]
    /\ interfered \in BOOLEAN

(* The updates of the table, as the statements write it.                   *)
LEMMA UpdatesType ==
    ASSUME Typed, NEW r \in Runs
    PROVE  /\ \A s \in Status : SetStatus(r, s) \in [Runs -> RunRow]
           /\ [runs EXCEPT ![r].status = "running", ![r].old = FALSE] \in [Runs -> RunRow]
           /\ [runs EXCEPT ![r].old = TRUE] \in [Runs -> RunRow]
<1> USE DEF Typed, RunRow
<1>1. \A s \in Status : SetStatus(r, s) \in [Runs -> RunRow] BY DEF SetStatus
<1>2. [runs[r] EXCEPT !.status = "running", !.old = FALSE] \in RunRow
  BY DEF Status, Active
<1>3. [runs EXCEPT ![r].status = "running", ![r].old = FALSE] \in [Runs -> RunRow]
  BY <1>2
<1> QED BY <1>1, <1>3

LEMMA ReconciledType ==
    ASSUME Typed, NEW w \in Workers
    PROVE  Reconciled(w) \in [Runs -> RunRow]
<1> SUFFICES ASSUME NEW r \in Runs
             PROVE  /\ [runs[r] EXCEPT !.status = "queued", !.interrupted = @ + 1] \in RunRow
                    /\ [runs[r] EXCEPT !.status = "failed"] \in RunRow
                    /\ runs[r] \in RunRow
  BY DEF Reconciled
<1>1. runs[r] \in RunRow /\ runs[r].interrupted + 1 \in Nat BY DEF Typed, RunRow
<1>2. [runs[r] EXCEPT !.status = "queued",
                      !.interrupted = runs[r].interrupted + 1] \in RunRow
  BY <1>1 DEF RunRow, Status, Active
<1>3. [runs[r] EXCEPT !.status = "failed"] \in RunRow
  BY <1>1 DEF RunRow, Status, Terminal
<1> QED BY <1>1, <1>2, <1>3

LEMMA ExecutionFields ==
    ASSUME Typed, NEW x \in exec
    PROVE  /\ x.worker \in Workers /\ x.run \in Runs
           /\ x.seen \in Status \cup {"none"}
           /\ x.phase \in {"working", "detached"}
           /\ \A s \in Status \cup {"none"} : [x EXCEPT !.seen = s] \in Execution
           /\ [x EXCEPT !.phase = "detached"] \in Execution
<1>1. x \in Execution BY DEF Typed
<1> QED BY <1>1 DEF Execution

LEMMA ExecutedRuns ==
    ASSUME Typed
    PROVE  \A x \in exec : x.run \in Runs /\ x.worker \in Workers
BY DEF Typed, Execution

LEMMA ExecuteTypes ==
    ASSUME Typed, NEW x \in exec, Execute(x)
    PROVE  Typed'
<1>1. CASE ReadRow(x)
  <2>1. runs[x.run].status \in Status BY ExecutionFields DEF Typed, RunRow
  <2> QED BY <1>1, <2>1, ExecutionFields DEF ReadRow, Typed
<1>2. CASE WriteProgress(x)
  <2>1. x.seen \in Status /\ x.run \in Runs BY <1>2, ExecutionFields DEF WriteProgress
  <2>2. runs' \in [Runs -> RunRow] BY <1>2, <2>1, UpdatesType DEF WriteProgress
  <2>3. [x EXCEPT !.seen = "none"] \in Execution BY ExecutionFields
  <2> QED BY <1>2, <2>2, <2>3 DEF WriteProgress, Typed
<1>3. Released(x) \in [Workers -> SUBSET Runs] BY ExecutionFields DEF Released, Typed
<1>4. CASE Finish(x)
  <2>1. runs' \in [Runs -> RunRow]
    <3>1. x.run \in Runs /\ Terminal \subseteq Status BY ExecutionFields DEF Status
    <3>2. runs \in [Runs -> RunRow] /\ \A s \in Status : SetStatus(x.run, s) \in [Runs -> RunRow]
      BY <3>1, UpdatesType DEF Typed
    <3> QED BY <1>4, <3>1, <3>2 DEF Finish
  <2> QED BY <1>3, <1>4, <2>1 DEF Finish, Typed
<1>5. CASE Stall(x)
  <2>1. runs' \in [Runs -> RunRow]
    <3>1. x.run \in Runs /\ "failed" \in Status BY ExecutionFields DEF Status, Terminal
    <3>2. runs \in [Runs -> RunRow] /\ \A s \in Status : SetStatus(x.run, s) \in [Runs -> RunRow]
      BY <3>1, UpdatesType DEF Typed
    <3> QED BY <1>5, <3>1, <3>2 DEF Stall
  <2> QED BY <1>3, <1>5, <2>1, ExecutionFields DEF Stall, Typed
<1> QED BY <1>1, <1>2, <1>4, <1>5 DEF Execute

LEMMA WorkerTypes ==
    ASSUME Typed, NEW w \in Workers, Worker(w)
    PROVE  Typed'
<1>1. CASE Boot(w)
  <2>1. { [run |-> r, interrupted |-> runs[r].interrupted] :
            r \in { q \in Runs : runs[q].status = "running" /\ runs[q].old } }
          \subseteq [run: Runs, interrupted: Nat]
    BY DEF Typed, RunRow
  <2> QED BY <1>1, <2>1 DEF Boot, Typed
<1>2. CASE Reconcile(w)
  <2>1. interfered' \in BOOLEAN BY <1>2 DEF Reconcile
  <2> QED BY <1>2, <2>1, ReconciledType DEF Reconcile, Typed
<1>3. ASSUME NEW r \in Runs, Claim(w, r)  PROVE Typed'
  <2>1. PICK i \in Ids :
            exec' = exec \cup {[worker |-> w, run |-> r, id |-> i,
                                phase |-> "working", seen |-> "none"]}
    BY <1>3 DEF Claim
  <2>2. exec' \subseteq Execution BY <2>1 DEF Typed, Execution
  <2> QED BY <1>3, <2>2, UpdatesType DEF Claim, Typed
<1>4. ASSUME StopWorker(w), runs' \in [Runs -> RunRow]  PROVE Typed'
  BY <1>4 DEF StopWorker, Typed
<1>5. CASE Crash(w) BY <1>4, <1>5 DEF Crash, Typed
<1>6. CASE Sigterm(w)
  <2>1. \A r \in Runs : [runs[r] EXCEPT !.status = "queued"] \in RunRow
    BY DEF Typed, RunRow, Status, Active
  <2>2. runs' \in [Runs -> RunRow] BY <1>6, <2>1 DEF Sigterm, Typed
  <2> QED BY <1>4, <1>6, <2>2 DEF Sigterm
<1> QED BY <1>1, <1>2, <1>3, <1>5, <1>6 DEF Worker

LEMMA NextTyped ==
    ASSUME Typed, [Next]_queueVars
    PROVE  Typed'
<1>1. CASE Enqueue
  <2>1. ASSUME NEW s \in Submitters, NEW v \in Windows, FindActiveRun(s, v)
        PROVE  Typed'
    BY <2>1 DEF FindActiveRun, Typed
  <2>2. ASSUME NEW s \in Submitters, NEW r \in Runs, CreateRun(s, r)
        PROVE  Typed'
    <3>1. [status |-> "queued", interrupted |-> 0, window |-> submitting[s],
           old |-> FALSE] \in RunRow
      BY DEF RunRow, Status, Active, Typed
    <3> QED BY <2>2, <3>1 DEF CreateRun, Typed
  <2> QED BY <1>1, <2>1, <2>2 DEF Enqueue
<1>2. ASSUME NEW r \in Runs, ClaimAges(r)  PROVE Typed'
  BY <1>2, UpdatesType DEF ClaimAges, Typed
<1>3. CASE UNCHANGED queueVars BY <1>3 DEF queueVars, Typed
<1> QED BY <1>1, <1>2, <1>3, WorkerTypes, ExecuteTypes DEF Next

LEMMA InitTyped == Init => Typed
<1>1. [status |-> "absent", window |-> NoWindow, interrupted |-> 0,
       old |-> FALSE] \in RunRow
  BY DEF RunRow, Status
<1> QED BY <1>1 DEF Init, Typed
-----------------------------------------------------------------------------
(* ClaimsAreExclusive is not inductive: a write of a stale status, or a    *)
(* SIGTERM that hands back a run somebody else executes, would break it.   *)
(* What a call has read is what its row still says, a row that is executed *)
(* says running or, once given up, failed, and the key a worker holds is   *)
(* of a run it watches.                                                    *)
Exclusive ==
    /\ AtMostOneExecution
    /\ \A x \in exec :
          /\ runs[x.run].status \in {"running", "failed"}
          /\ x.phase = "working" => runs[x.run].status = "running"
          /\ x.seen # "none" => x.seen = runs[x.run].status
    /\ \A w \in Workers : \A r \in activeRuns[w] :
          \E x \in exec : x.worker = w /\ x.run = r /\ x.phase = "working"

ExclusiveInv == interfered \/ Exclusive

(* What LifecycleRespected asks of one step.                               *)
LifecycleStep ==
    interfered' \/ \A r \in Runs :
        /\ runs[r].status = "queued" => runs'[r].status \in Active
        /\ runs[r].status \in {"succeeded", "partial"} =>
              runs'[r].status = runs[r].status

(* A step that changes no status of a run somebody executes, and neither   *)
(* starts nor ends an execution.                                           *)
LEMMA Undisturbed ==
    ASSUME Typed, Exclusive, UNCHANGED <<exec, activeRuns>>,
           \A x \in exec : runs'[x.run].status = runs[x.run].status
    PROVE  Exclusive'
BY DEF Exclusive, AtMostOneExecution

(* An execution x becomes y: the same call, of the same run.               *)
LEMMA ExecutionMoves ==
    ASSUME Typed, Exclusive, NEW x \in exec, NEW y,
           y.worker = x.worker, y.run = x.run, y.phase = x.phase,
           exec' = (exec \ {x}) \cup {y}, UNCHANGED activeRuns,
           \A r \in Runs : runs'[r].status = runs[r].status,
           y.seen = "none" \/ y.seen = runs[x.run].status
    PROVE  Exclusive'
<1>1. AtMostOneExecution' BY DEF Exclusive, AtMostOneExecution
<1>2. \A z \in exec' :
          /\ runs'[z.run].status \in {"running", "failed"}
          /\ z.phase = "working" => runs'[z.run].status = "running"
          /\ z.seen # "none" => z.seen = runs'[z.run].status
  <2>1. SUFFICES ASSUME NEW z \in exec'
                 PROVE  /\ runs'[z.run].status \in {"running", "failed"}
                        /\ z.phase = "working" => runs'[z.run].status = "running"
                        /\ z.seen # "none" => z.seen = runs'[z.run].status
    OBVIOUS
  <2>2. CASE z = y
    <3>1. runs'[y.run].status = runs[x.run].status BY ExecutedRuns
    <3> QED BY <2>2, <3>1 DEF Exclusive
  <2>3. CASE z \in exec
    <3>1. runs'[z.run].status = runs[z.run].status BY <2>3, ExecutedRuns
    <3> QED BY <2>3, <3>1 DEF Exclusive
  <2> QED BY <2>2, <2>3
<1>3. \A w \in Workers : \A r \in activeRuns'[w] :
          \E z \in exec' : z.worker = w /\ z.run = r /\ z.phase = "working"
  BY DEF Exclusive
<1> QED BY <1>1, <1>2, <1>3 DEF Exclusive

LEMMA ExecuteExclusive ==
    ASSUME Typed, Exclusive, NEW x \in exec, Execute(x)
    PROVE  Exclusive' /\ LifecycleStep
<1>1. /\ x.run \in Runs /\ x.worker \in Workers
      /\ runs[x.run].status \in {"running", "failed"}
      /\ \A y \in exec : y.run = x.run => y = x
      /\ runs \in [Runs -> RunRow]
  <2>1. x.run \in Runs /\ x.worker \in Workers BY ExecutedRuns
  <2>2. runs[x.run].status \in {"running", "failed"} BY DEF Exclusive
  <2>3. \A y \in exec : y.run = x.run => y = x BY DEF Exclusive, AtMostOneExecution
  <2> QED BY <2>1, <2>2, <2>3 DEF Typed
<1>2. CASE ReadRow(x)
  <2>1. Exclusive'
    <3> DEFINE y == [x EXCEPT !.seen = runs[x.run].status]
    <3>1. /\ y.worker = x.worker /\ y.run = x.run /\ y.phase = x.phase
          /\ y.seen = runs[x.run].status
      BY DEF Typed, Execution
    <3>2. exec' = (exec \ {x}) \cup {y} /\ UNCHANGED <<activeRuns, runs>>
      BY <1>2 DEF ReadRow
    <3> HIDE DEF y
    <3> QED BY <3>1, <3>2, ExecutionMoves
  <2> QED BY <1>2, <2>1 DEF ReadRow, LifecycleStep, Active
<1>3. CASE WriteProgress(x)
  <2>1. \A r \in Runs : runs'[r].status = runs[r].status
    BY <1>1, <1>3 DEF WriteProgress, SetStatus, Exclusive, RunRow
  <2>2. Exclusive'
    <3> DEFINE y == [x EXCEPT !.seen = "none"]
    <3>1. y.worker = x.worker /\ y.run = x.run /\ y.phase = x.phase /\ y.seen = "none"
      BY DEF Typed, Execution
    <3>2. exec' = (exec \ {x}) \cup {y} /\ UNCHANGED activeRuns
      BY <1>3 DEF WriteProgress
    <3> HIDE DEF y
    <3> QED BY <2>1, <3>1, <3>2, ExecutionMoves
  <2> QED BY <2>1, <2>2 DEF LifecycleStep, Active
<1>4. \A r \in Runs : r # x.run => runs'[r] = runs[r]
  BY <1>1, <1>2, <1>3 DEF Execute, ReadRow, WriteProgress, Finish, Stall, SetStatus
<1>5. LifecycleStep BY <1>1, <1>4 DEF LifecycleStep, Active
<1>6. CASE Finish(x)
  <2>1. exec' = exec \ {x} /\ activeRuns' = Released(x) BY <1>6 DEF Finish
  <2>2. \A y \in exec' : y \in exec /\ runs'[y.run] = runs[y.run]
    BY <1>1, <1>4, <2>1, ExecutionFields
  <2>3. \A w \in Workers : \A r \in activeRuns'[w] :
            \E y \in exec' : y.worker = w /\ y.run = r /\ y.phase = "working"
    <3>1. SUFFICES ASSUME NEW w \in Workers, NEW r \in activeRuns'[w]
                   PROVE  \E y \in exec' : y.worker = w /\ y.run = r /\ y.phase = "working"
      OBVIOUS
    <3>2. r \in activeRuns[w] /\ (x.phase = "working" /\ x.worker = w => r # x.run)
      BY <1>1, <2>1, <3>1 DEF Released, Typed
    <3>3. PICK y \in exec : y.worker = w /\ y.run = r /\ y.phase = "working"
      BY <3>2 DEF Exclusive
    <3> QED BY <2>1, <3>2, <3>3
  <2> QED BY <1>5, <2>1, <2>2, <2>3 DEF Exclusive, AtMostOneExecution
<1>7. CASE Stall(x)
  <2> DEFINE d == [x EXCEPT !.phase = "detached"]
  <2>1. /\ x.phase = "working" /\ x.seen = "none"
        /\ exec' = (exec \ {x}) \cup {d}
        /\ activeRuns' = [activeRuns EXCEPT ![x.worker] = @ \ {x.run}]
        /\ runs' = SetStatus(x.run, "failed") \/ runs' = runs
    BY <1>7 DEF Stall, Released
  <2>2. /\ d.worker = x.worker /\ d.run = x.run
        /\ d.phase = "detached" /\ d.seen = "none"
    BY <2>1 DEF Typed, Execution
  <2>3. runs'[x.run].status \in {"running", "failed"}
    BY <1>1, <2>1 DEF SetStatus, RunRow
  <2>4. \A y \in exec' : y = d \/ (y \in exec /\ y.run # x.run /\ runs'[y.run] = runs[y.run])
    BY <1>1, <1>4, <2>1, ExecutionFields
  <2>5. AtMostOneExecution'
    <3>1. \A y, z \in exec : y.run = z.run => y = z BY DEF Exclusive, AtMostOneExecution
    <3> HIDE DEF d
    <3> QED BY <2>2, <2>4, <3>1 DEF AtMostOneExecution
  <2>6. \A w \in Workers : \A r \in activeRuns'[w] :
            \E y \in exec' : y.worker = w /\ y.run = r /\ y.phase = "working"
    <3>1. SUFFICES ASSUME NEW w \in Workers, NEW r \in activeRuns'[w]
                   PROVE  \E y \in exec' : y.worker = w /\ y.run = r /\ y.phase = "working"
      OBVIOUS
    <3>2. r \in activeRuns[w] /\ (x.worker = w => r # x.run)
      BY <1>1, <2>1, <3>1 DEF Typed
    <3>3. PICK y \in exec : y.worker = w /\ y.run = r /\ y.phase = "working"
      BY <3>2 DEF Exclusive
    <3> QED BY <2>1, <3>2, <3>3
  <2> HIDE DEF d
  <2> QED BY <1>5, <2>2, <2>3, <2>4, <2>5, <2>6 DEF Exclusive
<1> QED BY <1>2, <1>3, <1>5, <1>6, <1>7 DEF Execute

LEMMA WorkerExclusive ==
    ASSUME Typed, ExclusiveInv, NEW w \in Workers, Worker(w)
    PROVE  ExclusiveInv' /\ (~interfered => LifecycleStep)
<1>1. interfered => interfered'
  BY DEF Worker, Boot, Reconcile, Claim, Crash, Sigterm, StopWorker
<1> SUFFICES ASSUME ~interfered, ~interfered'
             PROVE  Exclusive' /\ LifecycleStep
  BY <1>1 DEF ExclusiveInv, LifecycleStep
<1>2. Exclusive /\ runs \in [Runs -> RunRow] BY DEF ExclusiveInv, Typed
<1>3. CASE Boot(w) BY <1>2, <1>3, Undisturbed DEF Boot, LifecycleStep, Active
<1>4. CASE Reconcile(w)
  <2>1. \A f \in found[w] : Interrupted(f.run) BY <1>4 DEF Reconcile, Interferes
  <2>2. /\ runs' = Reconciled(w)
        /\ UNCHANGED <<exec, activeRuns>>
    BY <1>4 DEF Reconcile
  <2>3. \A r \in Runs : runs'[r] = runs[r] \/ runs[r].status = "running"
    BY <2>1, <2>2 DEF Reconciled, Interrupted
  <2>4. \A x \in exec : runs'[x.run] = runs[x.run]
    BY <2>1, <2>2, ExecutionFields DEF Reconciled, Interrupted
  <2> QED BY <1>2, <2>2, <2>3, <2>4, Undisturbed DEF LifecycleStep, Active
<1>5. ASSUME NEW r \in Runs, Claim(w, r)
      PROVE  Exclusive' /\ LifecycleStep
  <2>1. PICK i \in Ids :
            exec' = exec \cup {[worker |-> w, run |-> r, id |-> i,
                                phase |-> "working", seen |-> "none"]}
    BY <1>5 DEF Claim
  <2>2. /\ runs[r].status = "queued"
        /\ \A q \in Runs : q # r => runs'[q] = runs[q]
        /\ runs'[r].status = "running"
        /\ activeRuns' = [activeRuns EXCEPT ![w] = @ \cup {r}]
    BY <1>2, <1>5 DEF Claim, RunRow
  <2>3. \A x \in exec : x.run # r BY <1>2, <2>2 DEF Exclusive
  <2>4. AtMostOneExecution' BY <1>2, <2>1, <2>3 DEF Exclusive, AtMostOneExecution
  <2>5. \A x \in exec' :
            /\ runs'[x.run].status \in {"running", "failed"}
            /\ x.phase = "working" => runs'[x.run].status = "running"
            /\ x.seen # "none" => x.seen = runs'[x.run].status
    <3>1. \A x \in exec : runs'[x.run] = runs[x.run] BY <2>2, <2>3, ExecutedRuns
    <3> QED BY <1>2, <2>1, <2>2, <3>1 DEF Exclusive
  <2>6. \A v \in Workers : \A q \in activeRuns'[v] :
            \E x \in exec' : x.worker = v /\ x.run = q /\ x.phase = "working"
    <3>1. SUFFICES ASSUME NEW v \in Workers, NEW q \in activeRuns'[v]
                   PROVE  \E x \in exec' : x.worker = v /\ x.run = q /\ x.phase = "working"
      OBVIOUS
    <3>2. q \in activeRuns[v] \/ (v = w /\ q = r) BY <2>2, <3>1 DEF Typed
    <3>3. CASE q \in activeRuns[v]
      <4>1. PICK x \in exec : x.worker = v /\ x.run = q /\ x.phase = "working"
        BY <1>2, <3>3 DEF Exclusive
      <4> QED BY <2>1, <4>1
    <3>4. CASE v = w /\ q = r
      <4> DEFINE x == [worker |-> w, run |-> r, id |-> i,
                       phase |-> "working", seen |-> "none"]
      <4>1. x \in exec' /\ x.worker = v /\ x.run = q /\ x.phase = "working"
        BY <2>1, <3>4
      <4> QED BY <4>1
    <3> QED BY <3>2, <3>3, <3>4
  <2> QED BY <2>2, <2>4, <2>5, <2>6 DEF Exclusive, LifecycleStep, Active
<1>6. ASSUME StopWorker(w),
             \A r \in Runs : \/ runs'[r] = runs[r]
                             \/ /\ r \in activeRuns[w]
                                /\ runs'[r].status = "queued"
      PROVE  Exclusive' /\ LifecycleStep
  <2>1. /\ exec' = { x \in exec : x.worker # w }
        /\ activeRuns' = [activeRuns EXCEPT ![w] = {}]
    BY <1>6 DEF StopWorker
  <2>2. \A r \in activeRuns[w] : runs[r].status = "running" BY <1>2 DEF Exclusive
  <2>3. \A x \in exec' : x \in exec /\ runs'[x.run] = runs[x.run]
    <3>1. SUFFICES ASSUME NEW x \in exec, x.worker # w
                   PROVE  runs'[x.run] = runs[x.run]
      BY <2>1
    <3>2. x.run \notin activeRuns[w] BY <1>2, <3>1 DEF Exclusive, AtMostOneExecution
    <3> QED BY <1>6, <3>2, ExecutedRuns
  <2>4. \A v \in Workers : \A r \in activeRuns'[v] :
            \E x \in exec' : x.worker = v /\ x.run = r /\ x.phase = "working"
    BY <1>2, <2>1 DEF Exclusive, Typed
  <2>5. Exclusive' BY <1>2, <2>3, <2>4 DEF Exclusive, AtMostOneExecution
  <2> QED BY <1>6, <2>2, <2>5 DEF LifecycleStep, Active
<1>7. CASE Crash(w) BY <1>6, <1>7 DEF Crash
<1>8. CASE Sigterm(w)
  <2>1. \A r \in Runs : \/ runs'[r] = runs[r]
                        \/ /\ r \in activeRuns[w]
                           /\ runs'[r].status = "queued"
    BY <1>2, <1>8 DEF Sigterm, RunRow
  <2> QED BY <1>6, <1>8, <2>1 DEF Sigterm
<1> QED BY <1>3, <1>4, <1>5, <1>7, <1>8 DEF Worker

LEMMA NextExclusive ==
    ASSUME Typed, ExclusiveInv, [Next]_queueVars
    PROVE  ExclusiveInv' /\ [LifecycleStep]_queueVars
<1>1. CASE interfered
  <2>1. interfered'
    BY <1>1 DEF Next, queueVars, Enqueue, FindActiveRun, CreateRun, ClaimAges,
                Worker, Boot, Reconcile, Claim, Crash, Sigterm, StopWorker,
                Execute, ReadRow, WriteProgress, Finish, Stall
  <2> QED BY <2>1 DEF ExclusiveInv, LifecycleStep
<1>2. CASE ~interfered
  <2>1. Exclusive /\ runs \in [Runs -> RunRow] BY <1>2 DEF ExclusiveInv, Typed
  <2>2. ASSUME NEW s \in Submitters, NEW v \in Windows, FindActiveRun(s, v)
        PROVE  Exclusive' /\ LifecycleStep
    BY <2>1, <2>2, Undisturbed DEF FindActiveRun, LifecycleStep, Active
  <2>3. ASSUME NEW s \in Submitters, NEW r \in Runs, CreateRun(s, r)
        PROVE  Exclusive' /\ LifecycleStep
    <3>1. /\ runs[r].status = "absent"
          /\ \A q \in Runs : q # r => runs'[q] = runs[q]
          /\ UNCHANGED <<exec, activeRuns>>
      BY <2>1, <2>3 DEF CreateRun
    <3>2. \A x \in exec : runs'[x.run] = runs[x.run]
      BY <2>1, <3>1, ExecutionFields DEF Exclusive
    <3> QED BY <2>1, <3>1, <3>2, Undisturbed DEF LifecycleStep, Active
  <2>4. ASSUME NEW r \in Runs, ClaimAges(r)
        PROVE  Exclusive' /\ LifecycleStep
    <3>1. \A q \in Runs : runs'[q].status = runs[q].status
      BY <2>1, <2>4 DEF ClaimAges, RunRow
    <3> QED BY <2>1, <2>4, <3>1, ExecutionFields, Undisturbed
               DEF ClaimAges, LifecycleStep, Active
  <2>5. CASE UNCHANGED queueVars BY <2>1, <2>5, Undisturbed DEF queueVars, ExclusiveInv
  <2> QED
    BY <1>2, <2>1, <2>2, <2>3, <2>4, <2>5, WorkerExclusive, ExecuteExclusive
       DEF Next, Enqueue, ExclusiveInv
<1> QED BY <1>1, <1>2

LEMMA InitExclusive == Init => ExclusiveInv
BY DEF Init, ExclusiveInv, Exclusive, AtMostOneExecution

(* The types, and the inductive invariant behind exclusive execution.      *)
THEOREM QueueInvariant == Spec => [](Typed /\ ExclusiveInv)
<1>1. Typed /\ ExclusiveInv /\ [Next]_queueVars => (Typed /\ ExclusiveInv)'
  BY NextTyped, NextExclusive
<1> QED BY <1>1, InitTyped, InitExclusive, PTL DEF Spec

(* A run is executed by one claim, whose row says running while it is      *)
(* watched, through crashes, deploys, stalls and late progress, as long as *)
(* no reconcile touched a run that was not interrupted.                    *)
THEOREM ExclusiveClaims == Spec => []ClaimsAreExclusive
<1>1. ExclusiveInv => ClaimsAreExclusive
  BY DEF ExclusiveInv, Exclusive, ClaimsAreExclusive
<1> QED BY <1>1, QueueInvariant, PTL

(* Under the same condition a queued run is only ever claimed and one that *)
(* succeeded is never reopened.                                            *)
THEOREM Lifecycle == Spec => LifecycleRespected
<1>1. Typed /\ ExclusiveInv /\ [Next]_queueVars => [LifecycleStep]_queueVars
  BY NextExclusive
<1>2. LifecycleRespected <=> [][LifecycleStep]_queueVars
  BY PTL DEF LifecycleRespected, LifecycleStep
<1> QED BY <1>1, <1>2, QueueInvariant, PTL DEF Spec
-----------------------------------------------------------------------------
(* The cap is checked against a count that was selected earlier, so the    *)
(* bound needs the workers that still have an attempt to hand out: what a  *)
(* row counts and what is promised to it together stay below the limit.    *)
Limit == MaxRequeues + Cardinality(Workers) - 1

Promised(r) ==
    { w \in Workers : \E f \in found[w] : f.run = r /\ f.interrupted < MaxRequeues }

CountsBounded ==
    /\ \A r \in Runs : runs[r].interrupted + Cardinality(Promised(r)) <= Limit
    /\ \A w \in Workers : \A f \in found[w] : f.interrupted <= Limit

LEMMA Counts ==
    /\ Cardinality(Workers) \in Nat
    /\ Cardinality(Workers) >= 1
    /\ Limit \in Nat
    /\ MaxRequeues <= Limit
<1>1. Cardinality(Workers) \in Nat /\ Cardinality(Workers) # 0
  BY QueueAssumption, FS_CardinalityType, FS_EmptySet
<1> QED BY <1>1, QueueAssumption DEF Limit

LEMMA PromisedCount ==
    ASSUME NEW S, S \subseteq Workers
    PROVE  /\ IsFiniteSet(S)
           /\ Cardinality(S) \in Nat
           /\ Cardinality(S) <= Cardinality(Workers)
BY QueueAssumption, FS_Subset, FS_CardinalityType

(* The ways a step may treat a row: it counts no more and promises no      *)
(* more; it promises an attempt to a row below the cap; it redeems one.    *)
LEMMA CountKept ==
    ASSUME Typed, NEW r \in Runs,
           runs[r].interrupted + Cardinality(Promised(r)) <= Limit,
           NEW n \in Nat, NEW S, S \subseteq Workers,
           \/ n <= runs[r].interrupted /\ S \subseteq Promised(r)
           \/ n = runs[r].interrupted /\ n < MaxRequeues
           \/ /\ n = runs[r].interrupted + 1
              /\ \E w \in Promised(r) : S \subseteq Promised(r) \ {w}
    PROVE  n + Cardinality(S) <= Limit
<1>1. /\ IsFiniteSet(S) /\ Cardinality(S) \in Nat
      /\ Cardinality(S) <= Cardinality(Workers)
  BY PromisedCount
<1>2. /\ Promised(r) \subseteq Workers
      /\ IsFiniteSet(Promised(r))
      /\ Cardinality(Promised(r)) \in Nat
  BY PromisedCount DEF Promised
<1>3. runs[r].interrupted \in Nat BY DEF Typed, RunRow
<1>4. CASE n <= runs[r].interrupted /\ S \subseteq Promised(r)
  <2>1. Cardinality(S) <= Cardinality(Promised(r)) BY <1>2, <1>4, FS_Subset
  <2> QED BY <1>1, <1>2, <1>3, <1>4, <2>1, Counts
<1>5. CASE n = runs[r].interrupted /\ n < MaxRequeues
  BY <1>1, <1>3, <1>5, Counts, QueueAssumption DEF Limit
<1>6. CASE /\ n = runs[r].interrupted + 1
           /\ \E w \in Promised(r) : S \subseteq Promised(r) \ {w}
  <2>1. PICK w \in Promised(r) : S \subseteq Promised(r) \ {w} BY <1>6
  <2>2. /\ IsFiniteSet(Promised(r) \ {w})
        /\ Cardinality(Promised(r) \ {w}) = Cardinality(Promised(r)) - 1
    BY <1>2, <2>1, FS_RemoveElement
  <2>3. Cardinality(S) <= Cardinality(Promised(r)) - 1 BY <2>1, <2>2, FS_Subset
  <2> QED BY <1>1, <1>2, <1>3, <1>6, <2>3, Counts
<1> QED BY <1>4, <1>5, <1>6

(* A step that selects nothing and counts nothing.                         *)
LEMMA CountsUndisturbed ==
    ASSUME Typed, CountsBounded, Typed',
           \A w \in Workers : found'[w] \subseteq found[w],
           \A r \in Runs : runs'[r].interrupted <= runs[r].interrupted
    PROVE  CountsBounded'
<1>1. ASSUME NEW r \in Runs
      PROVE  runs'[r].interrupted + Cardinality(Promised(r)') <= Limit
  <2>1. Promised(r)' \subseteq Promised(r) /\ Promised(r)' \subseteq Workers
    BY DEF Promised
  <2>2. runs'[r].interrupted \in Nat BY DEF Typed, RunRow
  <2> QED BY <2>1, <2>2, CountKept DEF CountsBounded
<1> QED BY <1>1 DEF CountsBounded, Limit

LEMMA BootCounts ==
    ASSUME Typed, CountsBounded, Typed', NEW w \in Workers, Boot(w)
    PROVE  CountsBounded'
<1>1. /\ found' = [found EXCEPT ![w] =
              { [run |-> r, interrupted |-> runs[r].interrupted] :
                  r \in { q \in Runs : runs[q].status = "running" /\ runs[q].old } }]
      /\ UNCHANGED runs
  BY DEF Boot
<1>2. \A v \in Workers : v # w => found'[v] = found[v] BY <1>1 DEF Typed
<1>3. \A f \in found'[w] : f.run \in Runs /\ f.interrupted = runs[f.run].interrupted
  BY <1>1 DEF Typed
<1>4. \A r \in Runs : runs[r].interrupted \in Nat /\ runs[r].interrupted <= Limit
  <2>1. SUFFICES ASSUME NEW r \in Runs
                 PROVE  runs[r].interrupted \in Nat /\ runs[r].interrupted <= Limit
    OBVIOUS
  <2>2. runs[r].interrupted \in Nat BY DEF Typed, RunRow
  <2>3. Cardinality(Promised(r)) \in Nat BY PromisedCount DEF Promised
  <2> QED BY <2>2, <2>3, Counts DEF CountsBounded
<1>5. ASSUME NEW r \in Runs
      PROVE  runs'[r].interrupted + Cardinality(Promised(r)') <= Limit
  <2>1. Promised(r)' \subseteq Workers BY DEF Promised
  <2>2. CASE runs[r].interrupted < MaxRequeues
    BY <1>1, <1>4, <2>1, <2>2, CountKept DEF CountsBounded
  <2>3. CASE ~(runs[r].interrupted < MaxRequeues)
    <3>1. Promised(r)' \subseteq Promised(r) BY <1>2, <1>3, <2>3 DEF Promised
    <3> QED BY <1>1, <1>4, <2>1, <3>1, CountKept DEF CountsBounded
  <2> QED BY <2>2, <2>3
<1>6. \A v \in Workers : \A f \in found'[v] : f.interrupted <= Limit
  BY <1>2, <1>3, <1>4 DEF CountsBounded
<1> QED BY <1>5, <1>6 DEF CountsBounded, Limit

(* The reconcile redeems its own promise, if it made one to the row.       *)
LEMMA ReconcileCounts ==
    ASSUME Typed, CountsBounded, Typed', NEW w \in Workers, Reconcile(w)
    PROVE  CountsBounded'
<1>1. /\ runs' = Reconciled(w)
      /\ found' = [found EXCEPT ![w] = {}]
  BY DEF Reconcile
<1>2. \A v \in Workers : found'[v] = IF v = w THEN {} ELSE found[v] BY <1>1 DEF Typed
<1>3. ASSUME NEW r \in Runs
      PROVE  runs'[r].interrupted + Cardinality(Promised(r)') <= Limit
  <2>1. /\ Promised(r)' \subseteq Workers
        /\ Promised(r)' \subseteq Promised(r) \ {w}
    BY <1>2 DEF Promised
  <2>2. runs'[r].interrupted \in Nat /\ runs[r] \in RunRow BY DEF Typed, RunRow
  <2>3. CASE w \in Promised(r)
    <3>1. runs'[r] = [runs[r] EXCEPT !.status = "queued", !.interrupted = @ + 1]
      BY <1>1, <2>3 DEF Reconciled, Promised
    <3>2. runs'[r].interrupted = runs[r].interrupted + 1 BY <2>2, <3>1 DEF RunRow
    <3> QED BY <2>1, <2>2, <2>3, <3>2, CountKept DEF CountsBounded
  <2>4. CASE w \notin Promised(r)
    <3>1. runs'[r] = runs[r] \/ runs'[r] = [runs[r] EXCEPT !.status = "failed"]
      BY <1>1, <2>4 DEF Reconciled, Promised
    <3>2. runs'[r].interrupted = runs[r].interrupted BY <2>2, <3>1 DEF RunRow
    <3>3. Promised(r)' \subseteq Promised(r) /\ runs'[r].interrupted <= runs[r].interrupted
      BY <2>1, <2>2, <3>2
    <3> QED BY <2>1, <2>2, <3>3, CountKept DEF CountsBounded
  <2> QED BY <2>3, <2>4
<1> QED BY <1>2, <1>3 DEF CountsBounded, Limit

LEMMA StepCounts ==
    ASSUME Typed, CountsBounded, Typed', [Next]_queueVars
    PROVE  CountsBounded'
<1>1. runs \in [Runs -> RunRow] /\ \A r \in Runs : runs[r].interrupted \in Nat
  BY DEF Typed, RunRow
<1>2. CASE /\ UNCHANGED found
           /\ \/ UNCHANGED runs
              \/ \E r \in Runs, s \in Status : runs' = SetStatus(r, s)
  BY <1>1, <1>2, CountsUndisturbed DEF SetStatus, RunRow
<1>3. ASSUME NEW s \in Submitters, NEW r \in Runs, CreateRun(s, r)
      PROVE  CountsBounded'
  BY <1>1, <1>3, CountsUndisturbed DEF CreateRun
<1>4. ASSUME NEW r \in Runs, ClaimAges(r)
      PROVE  CountsBounded'
  BY <1>1, <1>4, CountsUndisturbed DEF ClaimAges, RunRow
<1>5. ASSUME NEW w \in Workers, NEW r \in Runs, Claim(w, r)
      PROVE  CountsBounded'
  BY <1>1, <1>5, CountsUndisturbed DEF Claim, RunRow
<1>6. ASSUME NEW w \in Workers, Crash(w)
      PROVE  CountsBounded'
  BY <1>1, <1>6, CountsUndisturbed DEF Crash, StopWorker, Typed
<1>7. ASSUME NEW w \in Workers, Sigterm(w)
      PROVE  CountsBounded'
  <2>1. \A r \in Runs : runs'[r].interrupted = runs[r].interrupted
    BY <1>1, <1>7 DEF Sigterm, RunRow
  <2>2. \A v \in Workers : found'[v] \subseteq found[v]
    BY <1>7 DEF Sigterm, StopWorker, Typed
  <2> QED BY <1>1, <2>1, <2>2, CountsUndisturbed
<1>8. ASSUME NEW x \in exec, Execute(x)
      PROVE  CountsBounded'
  <2>1. x.run \in Runs /\ x.seen \in Status \cup {"none"} /\ Terminal \subseteq Status
    BY ExecutionFields DEF Status
  <2> QED
    BY <1>2, <1>8, <2>1
       DEF Execute, ReadRow, WriteProgress, Finish, Stall, Status, Terminal
<1>9. CASE UNCHANGED queueVars \/ \E s \in Submitters, v \in Windows : FindActiveRun(s, v)
  BY <1>2, <1>9 DEF queueVars, FindActiveRun
<1> QED
  BY <1>3, <1>4, <1>5, <1>6, <1>7, <1>8, <1>9, BootCounts, ReconcileCounts
     DEF Next, Enqueue, Worker

LEMMA InitCounts == Init => CountsBounded
<1> SUFFICES ASSUME Init  PROVE CountsBounded OBVIOUS
<1>1. \A r \in Runs : runs[r].interrupted = 0 /\ Promised(r) = {} BY DEF Init, Promised
<1>2. \A r \in Runs : Cardinality(Promised(r)) = 0 BY <1>1, FS_EmptySet
<1>3. 0 + 0 <= Limit BY Counts
<1> QED BY <1>1, <1>2, <1>3 DEF Init, CountsBounded

(* The inductive invariant behind the cap.                                 *)
THEOREM CountInvariant == Spec => [](Typed /\ CountsBounded)
<1>1. Typed /\ CountsBounded /\ [Next]_queueVars => (Typed /\ CountsBounded)'
  BY NextTyped, StepCounts
<1> QED BY <1>1, InitTyped, InitCounts, PTL DEF Spec

LEMMA InterruptedBelowLimit ==
    ASSUME Typed, CountsBounded, NEW r \in Runs
    PROVE  runs[r].interrupted \in Nat /\ runs[r].interrupted <= Limit
<1>1. runs[r].interrupted \in Nat BY DEF Typed, RunRow
<1>2. Cardinality(Promised(r)) \in Nat BY PromisedCount DEF Promised
<1> QED BY <1>1, <1>2, Counts DEF CountsBounded

(* Stale counts can push a run past the cap, but by less than one attempt  *)
(* per worker container, however many boot and crash at the same time.     *)
THEOREM BoundedAttempts == Spec => []AttemptsBounded
<1>1. Typed /\ CountsBounded => AttemptsBounded
  BY InterruptedBelowLimit DEF AttemptsBounded, Limit
<1> QED BY <1>1, CountInvariant, PTL

(* Every table and every worker's state keeps its type, the counts         *)
(* included.                                                               *)
THEOREM Typing == Spec => []TypeOK
<1>1. Typed /\ CountsBounded => TypeOK
  <2> SUFFICES ASSUME Typed, CountsBounded  PROVE TypeOK OBVIOUS
  <2>1. MaxInterrupted \in Nat /\ Limit <= MaxInterrupted
    BY Counts, QueueAssumption DEF MaxInterrupted, Limit
  <2>2. \A r \in Runs : runs[r].interrupted \in 0 .. MaxInterrupted
    BY <2>1, InterruptedBelowLimit, Counts
  <2>3. runs \in [Runs -> [status: Status, window: Windows \cup {NoWindow},
                           interrupted: 0 .. MaxInterrupted, old: BOOLEAN]]
    BY <2>2 DEF Typed, RunRow
  <2>4. \A w \in Workers : \A f \in found[w] :
            f \in [run: Runs, interrupted: 0 .. MaxInterrupted]
    BY <2>1, Counts DEF Typed, CountsBounded
  <2>5. found \in [Workers -> SUBSET [run: Runs, interrupted: 0 .. MaxInterrupted]]
    BY <2>4 DEF Typed
  <2> QED BY <2>3, <2>5 DEF Typed, TypeOK
<1> QED BY <1>1, CountInvariant, PTL
-----------------------------------------------------------------------------
(* An import. What a worker has in hand it emits, withholds or names in an *)
(* issue before it takes anything else, and what is left of its task stays *)
(* with it till then; outside a pool no worker has anything.               *)
AtWork(t) == threads[t].step \in {"fetching", "indexing"}
Holds(t, x) ==
    \/ threads[t].step = "fetching" /\ threads[t].hand = x
    \/ AtWork(t) /\ x \in threads[t].rest
Held(x) == x \in tasks \/ \E t \in Pool : Holds(t, x)
Failed == outcome = "failed"

(* A committed row the index has not got is in the buffer, or on its way;  *)
(* or what was to send it failed, and an issue names a row that went too.  *)
OnItsWay(x) ==
    \/ x \in buffered
    \/ \E t \in Pool \cup {Main} : threads[t].step = "indexing" /\ x \in threads[t].batch
RowsAreSent(reported) ==
    \/ Failed \/ committed \cap reported # {}
    \/ \A x \in committed \ indexed : OnItsWay(x)

(* What was taken once is not taken again, but by then it is seen to.      *)
SeenIsSeenTo(reported) ==
    \A x \in seen :
        \/ Failed \/ x \in committed \cup withheld \cup reported
        \/ \E t \in Pool : threads[t].step = "fetching" /\ threads[t].hand = x

RunGoesOn ==
    /\ RunTypeOK
    /\ buffered \subseteq committed
    /\ \A t \in Pool \cup {Main} : threads[t].batch \subseteq committed
    /\ \A t \in Pool : threads[t].step = "indexing" => threads[t].hand \in committed
    /\ plan.phase \notin PoolPhases => \A t \in Pool : threads[t] = Resting
    /\ outcome \in {"succeeded", "partial"} =>
          plan.phase = "done" /\ buffered = {} /\ threads[Main] = Resting
    /\ outcome = "succeeded" => issues = {}
-----------------------------------------------------------------------------
(* A site's import.                                                        *)
SiteTold == issues \cup { x \in Emitted : SiteReported(x) }
SiteDealt(x) == x \in committed \cup withheld \/ SiteReported(x)

SitePlan ==
    /\ plan.phase \in {"types", "rosters", "members"} => plan.rosters # <<>>
    /\ IF plan.phase = "members" THEN plan.members \subseteq MembersOf[Head(plan.rosters)]
       ELSE plan.members = {}
    /\ plan.phase \in {"types", "rosters", "members", "flush", "done"} => tasks = {}
    /\ plan.phase \in {"types", "rosters", "members", "listing"} =>
          /\ plan.found = {}
          /\ ~IsGO => Len(plan.chunks) <= 1 /\ (plan.chunks # <<>> => tasks = {})
    /\ plan.phase \in {"listing", "meetings"} => tasks \subseteq WindowMeetings
    /\ plan.phase = "documents" => tasks \subseteq WindowDocuments

SiteHands ==
    /\ \A t \in Pool : AtWork(t) =>
          /\ threads[t].rest = {} /\ threads[t].task = threads[t].hand
          /\ plan.phase = "meetings" => threads[t].hand \in WindowMeetings
          /\ plan.phase = "documents" => threads[t].hand \in WindowDocuments
    /\ ~Failed /\ threads[Main] # Resting =>
          /\ plan.phase \in {"members", "flush"} /\ threads[Main].step = "indexing"
          /\ threads[Main].rest = {}
          /\ plan.phase = "members" =>
                threads[Main].hand \in committed \cap MembersOf[Head(plan.rosters)]

SiteAccounts ==
    \A x \in plan.named :
        \/ Failed \/ SiteDealt(x) \/ Held(x) \/ x \in plan.members
        \/ /\ plan.phase \in {"listing", "meetings"}
           /\ \E m \in WindowMeetings : x \in Attached[m] /\ (Held(m) \/ m \in plan.found)

SiteInvariant ==
    SiteTypeOK /\ RunGoesOn /\ SitePlan /\ SiteHands /\ SiteAccounts
    /\ RowsAreSent(SiteTold)
-----------------------------------------------------------------------------
(* A Notubiz import.                                                       *)
NotubizPlan ==
    /\ plan.phase \in {"types", "chunk", "listing", "modules", "items", "flush", "done"} =>
          tasks = {}
    /\ plan.phase \in {"expanding", "meetings"} => tasks \subseteq WindowMeetings
    /\ plan.phase \in {"documents", "emitted", "attachments"} => tasks \subseteq WindowDocuments
    /\ plan.phase \notin {"items", "emitted", "attachments"} => plan.entries = {}
    /\ ~Full => plan.named \cap WindowMeetings = {}
    /\ \A e \in plan.named \cap Entries : ListOf[e] \in MotionLists

(* What a worker does in the pool of the meetings; in the others it has    *)
(* one document.                                                           *)
AtMeeting(row) ==
    /\ row.task \in WindowMeetings
    /\ row.hand \in WindowMeetings \cup Recordings \cup {Media}
    /\ row.rest \subseteq Recordings \/ row.rest = {Media}
    /\ row.hand \in WindowMeetings /\ row.step = "fetching" => row.rest = {}
    /\ row.hand = Media => row.rest = {} /\ row.step = "fetching"

NotubizHands ==
    /\ \A t \in Pool :
          IF AtWork(t)
          THEN IF plan.phase = "meetings" THEN AtMeeting(threads[t])
               ELSE threads[t].rest = {} /\ threads[t].hand \in WindowDocuments
          ELSE threads[t].hand # Media
    /\ ~Failed /\ threads[Main] # Resting =>
          /\ plan.phase \in {"emitted", "flush"} /\ threads[Main].step = "indexing"
          /\ threads[Main].rest = {}

NotubizAccounts ==
    \A x \in plan.named :
        \/ Failed \/ x \in committed \cup withheld \cup issues \/ Held(x)
        \/ Full /\ plan.phase = "meetings" /\ \E m \in plan.found : x \in Attached[m]
        \/ \E e \in plan.entries : x = e \/ x \in Attached[e]

NotubizInvariant ==
    NotubizTypeOK /\ RunGoesOn /\ NotubizPlan /\ NotubizHands /\ NotubizAccounts
    /\ SeenIsSeenTo(issues) /\ RowsAreSent(issues)
-----------------------------------------------------------------------------
(* An iBabs import.                                                        *)
IbabsTold == issues \cup { x \in Emitted : IbabsReported(x) }
IbabsDealt(x) == x \in committed \cup withheld \/ IbabsReported(x)
IbabsAccounted(x) == Failed \/ IbabsDealt(x) \/ Held(x)

IbabsPlan ==
    /\ plan.phase \in {"types", "chunk", "listing", "lists", "flush", "done"} => tasks = {}
    /\ plan.phase \in {"emitting", "documents"} => tasks \subseteq WindowDocuments
    /\ plan.phase \in {"reading", "entries"} => tasks \subseteq plan.changed
    /\ plan.phase \notin {"listing", "emitting"} => plan.meetings = {}
    /\ IF plan.phase = "listing" THEN plan.windows # <<>> ELSE plan.windows = <<>>
    /\ plan.phase \in {"lists", "reading", "entries", "flush", "done"} => plan.chunks = <<>>

(* A worker has a document in hand, or is at an entry and its documents.   *)
AtEntry(row) ==
    /\ row.task \in plan.changed
    /\ row.hand \in {row.task} \cup Attached[row.task]
    /\ row.rest \subseteq Attached[row.task]
AtDocument(row) ==
    row.hand \in WindowDocuments /\ row.task = row.hand /\ row.rest = {}

IbabsHands ==
    /\ \A t \in Pool : AtWork(t) =>
          IF plan.phase = "documents" THEN AtDocument(threads[t]) ELSE AtEntry(threads[t])
    /\ ~Failed /\ threads[Main] # Resting =>
          /\ plan.phase \in {"emitting", "flush"} /\ threads[Main].step = "indexing"
          /\ threads[Main].rest = {}

(* Of every meeting of the window: it is still to be asked for, or is      *)
(* committed and its documents are seen to.                                *)
InRange(d, q) == \E i \in DOMAIN q : d \in q[i].from .. q[i].to
ToCome(m) ==
    InRange(HeldOn[m], plan.chunks) \/ InRange(HeldOn[m], plan.windows) \/ m \in plan.meetings
MeetingsAreAccounted ==
    plan.mode = "full" =>
        \A m \in ListedMeetings :
            \/ ToCome(m)
            \/ IbabsAccounted(m) /\ \A d \in Attached[m] : IbabsAccounted(d)

(* And of every entry: its list is still to be read, or was read only in   *)
(* part, or it is in a worker's hands with its documents, or seen to.      *)
EntryInHand(e) ==
    e \in tasks
    \/ \E t \in Pool : /\ threads[t].step = "fetching" /\ threads[t].hand = e
                       /\ Attached[e] \subseteq threads[t].rest
EntriesAreAccounted ==
    plan.phase \in {"reading", "entries", "flush", "done"} =>
        \A e \in plan.changed : ListOf[e] \in Targets \cap plan.due =>
            \/ Failed \/ EntryInHand(e)
            \/ plan.phase = "reading" /\ (ListOf[e] \in plan.lists \/ KindOf(ListOf[e]) \in plan.capped)
            \/ /\ ListOf[e] \in MotionLists => IbabsAccounted(e)
               /\ \A d \in Attached[e] : IbabsAccounted(d)

IbabsInvariant ==
    IbabsTypeOK /\ RunGoesOn /\ IbabsPlan /\ IbabsHands
    /\ MeetingsAreAccounted /\ EntriesAreAccounted
    /\ SeenIsSeenTo(IbabsTold) /\ RowsAreSent(IbabsTold)
-----------------------------------------------------------------------------
(* What one step of a worker comes to: the rows of the others stay, and    *)
(* what was left of its task it has in hand next, or took before.          *)
LEMMA RestingRow == Resting \in ThreadRow
  BY DEF Resting, ThreadRow

LEMMA ContinueIs ==
  ASSUME RunTypeOK, NEW t \in Pool \cup {Main},
         NEW rest \in SUBSET (WindowDocuments \cup Recordings \cup {Media}), Continue(t, rest)
  PROVE  /\ threads' \in [Pool \cup {Main} -> ThreadRow] /\ seen' \subseteq WindowDocuments
         /\ seen \subseteq seen'
         /\ \A u \in Pool \cup {Main} : u # t => threads'[u] = threads[u]
         /\ threads'[t].batch = {}
         /\ \/ rest \subseteq seen /\ threads'[t] = Resting /\ seen' = seen
            \/ /\ threads'[t].step = "fetching" /\ threads'[t].task = threads[t].task
               /\ threads'[t].hand \in rest \ seen
               /\ threads'[t].rest = rest \ {threads'[t].hand}
               /\ seen' = seen \cup ({threads'[t].hand} \cap WindowDocuments)
  <1> USE ImportRunAssumption
  <1> DEFINE open == rest \ seen
  <1>1. CASE open = {} /\ threads' = [threads EXCEPT ![t] = Resting] /\ UNCHANGED seen
    <2>1. threads'[t] = Resting BY <1>1 DEF RunTypeOK
    <2> QED BY <1>1, <2>1, RestingRow DEF RunTypeOK, Resting
  <1>2. CASE \E d \in open :
               /\ threads' = [threads EXCEPT ![t] =
                    [Resting EXCEPT !.step = "fetching", !.task = threads[t].task,
                                    !.hand = d, !.rest = rest \ {d}]]
               /\ seen' = seen \cup ({d} \cap WindowDocuments)
    <2>1. PICK d \in open :
               /\ threads' = [threads EXCEPT ![t] =
                    [Resting EXCEPT !.step = "fetching", !.task = threads[t].task,
                                    !.hand = d, !.rest = rest \ {d}]]
               /\ seen' = seen \cup ({d} \cap WindowDocuments)
      BY <1>2
    <2> DEFINE row == [Resting EXCEPT !.step = "fetching", !.task = threads[t].task,
                                      !.hand = d, !.rest = rest \ {d}]
    <2>2. row \in ThreadRow
      <3>1. threads[t] \in ThreadRow BY DEF RunTypeOK
      <3> QED BY <3>1 DEF ThreadRow, Resting, Emitted
    <2>3. threads'[t] = row BY <2>1 DEF RunTypeOK
    <2>4. /\ threads'[t].step = "fetching" /\ threads'[t].task = threads[t].task
          /\ threads'[t].hand = d /\ threads'[t].rest = rest \ {d} /\ threads'[t].batch = {}
      BY <2>3 DEF Resting
    <2>5. threads' \in [Pool \cup {Main} -> ThreadRow] BY <2>1, <2>2 DEF RunTypeOK
    <2>6. \A u \in Pool \cup {Main} : u # t => threads'[u] = threads[u]
      BY <2>1 DEF RunTypeOK
    <2> HIDE DEF row
    <2> QED BY <2>1, <2>4, <2>5, <2>6 DEF RunTypeOK
  <1> QED BY <1>1, <1>2 DEF Continue

(* What it commits is on its way to the index, with all that was.          *)
LEMMA CommitIs ==
  ASSUME RunTypeOK, NEW t \in Pool \cup {Main}, NEW x \in Emitted,
         NEW rest \in SUBSET (WindowDocuments \cup Recordings \cup {Media}), Commit(t, x, rest)
  PROVE  /\ threads' \in [Pool \cup {Main} -> ThreadRow] /\ seen' \subseteq WindowDocuments
         /\ committed' = committed \cup {x} /\ indexed' = indexed \ {x}
         /\ withheld' = withheld /\ buffered' \subseteq buffered \cup {x}
         /\ seen \subseteq seen'
         /\ \A u \in Pool \cup {Main} : u # t => threads'[u] = threads[u]
         /\ threads'[t].batch \subseteq buffered \cup {x}
         /\ \A y \in buffered \cup {x} :
               y \in buffered' \/ (threads'[t].step = "indexing" /\ y \in threads'[t].batch)
         /\ \/ rest \subseteq seen /\ threads'[t] = Resting /\ seen' = seen
            \/ /\ threads'[t].step = "fetching" /\ threads'[t].task = threads[t].task
               /\ threads'[t].hand \in rest \ seen
               /\ threads'[t].rest = rest \ {threads'[t].hand}
               /\ seen' = seen \cup ({threads'[t].hand} \cap WindowDocuments)
            \/ /\ threads'[t].step = "indexing" /\ threads'[t].task = threads[t].task
               /\ threads'[t].hand = x /\ threads'[t].rest = rest /\ seen' = seen
  <1> USE ImportRunAssumption
  <1> DEFINE full == buffered \cup {x}
  <1>0. committed' = committed \cup {x} /\ indexed' = indexed \ {x} /\ withheld' = withheld
    BY DEF Commit
  <1>1. CASE /\ buffered' = {}
             /\ threads' = [threads EXCEPT ![t] =
                  [@ EXCEPT !.step = "indexing", !.hand = x, !.rest = rest, !.batch = full]]
             /\ UNCHANGED seen
    <2> DEFINE row == [threads[t] EXCEPT !.step = "indexing", !.hand = x, !.rest = rest,
                                         !.batch = full]
    <2>1. threads[t] \in ThreadRow BY DEF RunTypeOK
    <2>2. full \in SUBSET Emitted BY DEF RunTypeOK
    <2>3. row \in ThreadRow BY <2>1, <2>2 DEF ThreadRow
    <2>4. threads'[t] = row BY <1>1 DEF RunTypeOK
    <2>5. /\ threads'[t].step = "indexing" /\ threads'[t].task = threads[t].task
          /\ threads'[t].hand = x /\ threads'[t].rest = rest /\ threads'[t].batch = full
      BY <2>1, <2>4 DEF ThreadRow
    <2>6. threads' \in [Pool \cup {Main} -> ThreadRow] BY <1>1, <2>3 DEF RunTypeOK
    <2>7. \A u \in Pool \cup {Main} : u # t => threads'[u] = threads[u]
      BY <1>1 DEF RunTypeOK
    <2> HIDE DEF row
    <2> QED BY <1>0, <1>1, <2>5, <2>6, <2>7 DEF RunTypeOK
  <1>2. CASE buffered' = full /\ Continue(t, rest) BY <1>0, <1>2, ContinueIs
  <1> QED BY <1>1, <1>2 DEF Commit

LEMMA RejectIs ==
  ASSUME RunTypeOK, NEW t \in Pool, Reject(t)
  PROVE  /\ threads' \in [Pool \cup {Main} -> ThreadRow] /\ outcome' = "failed"
         /\ \A u \in Pool \cup {Main} : u # t => threads'[u] = threads[u]
         /\ threads'[t].step = "rejected" /\ threads'[t].batch = {}
         /\ threads'[t].hand = NoItem
  <1> DEFINE row == [Resting EXCEPT !.step = "rejected"]
  <1>1. row \in ThreadRow /\ row.step = "rejected" /\ row.batch = {} /\ row.hand = NoItem
    BY DEF ThreadRow, Resting
  <1> HIDE DEF row
  <1>2. threads' = [threads EXCEPT ![t] = row] /\ outcome' = "failed" BY DEF Reject, row
  <1> QED BY <1>1, <1>2 DEF RunTypeOK

LEMMA EndIs ==
  ASSUME RunTypeOK, NEW t \in Pool, NEW topic \in Emitted, EndWithIssue(t, topic)
  PROVE  /\ threads' \in [Pool \cup {Main} -> ThreadRow]
         /\ \A u \in Pool \cup {Main} : u # t => threads'[u] = threads[u]
         /\ threads'[t].batch = {} /\ threads'[t].step \in {"resting", "rejected"}
         /\ threads'[t].hand = NoItem
         /\ \/ issues' = issues \cup {topic} /\ threads'[t] = Resting /\ outcome' = outcome
            \/ issues' = issues /\ outcome' = "failed"
  <1>1. CASE /\ issues' = issues \cup {topic} /\ threads' = [threads EXCEPT ![t] = Resting]
             /\ UNCHANGED outcome
    BY <1>1, RestingRow DEF RunTypeOK, Resting
  <1>2. CASE Reject(t) /\ UNCHANGED issues BY <1>2, RejectIs
  <1> QED BY <1>1, <1>2 DEF EndWithIssue
-----------------------------------------------------------------------------
(* What keeps a run going: a step of a worker, of its control, of Main.    *)
LEMMA AtWorkMeansPool ==
  ASSUME RunGoesOn, NEW t \in Pool, threads[t] # Resting
  PROVE  /\ plan.phase \in PoolPhases
         /\ outcome \in {"running", "failed"}
  BY DEF RunGoesOn, RunTypeOK, PoolPhases, Failed

LEMMA WorkerGoesOn ==
  ASSUME RunGoesOn, NEW t \in Pool,
         threads[t] # Resting \/ plan.phase \in PoolPhases,
         plan.phase' = plan.phase, tasks' \subseteq tasks,
         outcome' = outcome \/ outcome' = "failed",
         threads' \in [Pool \cup {Main} -> ThreadRow],
         \A u \in Pool \cup {Main} : u # t => threads'[u] = threads[u],
         threads'[t].batch \subseteq committed',
         threads'[t].step = "indexing" => threads'[t].hand \in committed',
         seen' \subseteq WindowDocuments, issues' \subseteq Emitted \cup Topics,
         committed \subseteq committed', committed' \subseteq Emitted,
         buffered' \subseteq committed', indexed' \subseteq committed',
         withheld' \subseteq WindowDocuments \cup Recordings
  PROVE  RunGoesOn'
  <1> USE ImportRunAssumption DEF RunGoesOn
  <1>1. plan.phase \in PoolPhases BY AtWorkMeansPool
  <1>2. outcome \in {"running", "failed"} BY <1>1 DEF RunTypeOK, PoolPhases
  <1>3. RunTypeOK' BY <1>2 DEF RunTypeOK
  <1>4. (\A u \in Pool \cup {Main} : threads[u].batch \subseteq committed)'
    BY DEF RunTypeOK
  <1>5. (\A u \in Pool : threads[u].step = "indexing" => threads[u].hand \in committed)'
    BY DEF RunTypeOK
  <1>6. (plan.phase \notin PoolPhases => \A u \in Pool : threads[u] = Resting)' BY <1>1
  <1>7. outcome' \in {"running", "failed"} BY <1>2
  <1> QED BY <1>3, <1>4, <1>5, <1>6, <1>7

LEMMA ControlGoesOn ==
  ASSUME RunGoesOn, outcome = "running", outcome' = outcome,
         tasks' \subseteq WindowMeetings \cup WindowDocuments \cup Entries,
         threads' = threads, seen' = seen, issues' \subseteq Emitted \cup Topics,
         storesVars' = storesVars,
         plan.phase \in PoolPhases /\ (plan.phase)' \notin PoolPhases =>
             \A t \in Pool : threads[t] = Resting
  PROVE  RunGoesOn'
  <1>1. storesVars' = storesVars /\ outcome' = "running" OBVIOUS
  <1>2. /\ committed' = committed /\ buffered' = buffered /\ indexed' = indexed
        /\ withheld' = withheld
    BY <1>1 DEF storesVars
  <1> QED BY <1>1, <1>2 DEF RunGoesOn, RunTypeOK, Failed

(* Main commits, takes its batch as sent, or forgets it.                   *)
LEMMA MainGoesOn ==
  ASSUME RunGoesOn, outcome = "running", outcome' = outcome,
         tasks' \subseteq WindowMeetings \cup WindowDocuments \cup Entries,
         threads' \in [Pool \cup {Main} -> ThreadRow],
         \A u \in Pool : threads'[u] = threads[u],
         threads'[Main].batch \subseteq committed',
         seen' \subseteq WindowDocuments, issues' \subseteq Emitted \cup Topics,
         committed \subseteq committed', committed' \subseteq Emitted,
         buffered' \subseteq committed', indexed' \subseteq committed',
         withheld' \subseteq WindowDocuments \cup Recordings,
         plan.phase \notin PoolPhases
  PROVE  RunGoesOn'
  <1> USE ImportRunAssumption
  <1>1. \A u \in Pool : threads[u] = Resting BY DEF RunGoesOn, Failed
  <1>2. RunTypeOK' BY DEF RunGoesOn, RunTypeOK
  <1>3. (\A u \in Pool \cup {Main} : threads[u].batch \subseteq committed)'
    BY DEF RunGoesOn, RunTypeOK
  <1> QED BY <1>1, <1>2, <1>3 DEF RunGoesOn, Failed, Resting

LEMMA RunStarts == RunInit => RunGoesOn /\ \A r : RowsAreSent(r) /\ SeenIsSeenTo(r)
  BY RestingRow DEF RunInit, RunGoesOn, RunTypeOK, Failed, RowsAreSent, SeenIsSeenTo, Resting,
     OnItsWay
-----------------------------------------------------------------------------
(* The steps every import has.                                             *)
LEMMA RestsEmpty ==
  ASSUME RunTypeOK, NEW t \in Pool \cup {Main}
  PROVE  /\ threads[t] \in ThreadRow
         /\ threads[t].rest \in SUBSET (WindowDocuments \cup Recordings \cup {Media})
         /\ threads[t].task \in Emitted \cup {NoItem}
         /\ threads[t].hand \in Emitted \cup {NoItem, Media}
         /\ threads[t].step \in {"fetching", "indexing", "rejected"} => threads[t] # Resting
  BY DEF RunTypeOK, ThreadRow, Resting

LEMMA TakesTask ==
  ASSUME RunGoesOn, NEW t \in Pool, TakeTask(t)
  PROVE  /\ RunGoesOn'
         /\ \A u \in Pool \cup {Main} : u # t => threads'[u] = threads[u]
         /\ threads[t].step = "resting"
         /\ \E x \in tasks :
              /\ tasks' = tasks \ {x} /\ x \in WindowMeetings \cup WindowDocuments \cup Entries
              /\ threads'[t].step = "fetching"
              /\ threads'[t].task = x /\ threads'[t].hand = x /\ threads'[t].batch = {}
              /\ threads'[t].rest = IF x \in Entries THEN Attached[x] ELSE {}
  <1> USE ImportRunAssumption
  <1>1. PICK x \in tasks :
         /\ tasks' = tasks \ {x}
         /\ threads' = [threads EXCEPT ![t] =
              [Resting EXCEPT !.step = "fetching", !.task = x, !.hand = x,
                              !.rest = IF x \in Entries THEN Attached[x] ELSE {}]]
    BY DEF TakeTask
  <1> DEFINE row == [Resting EXCEPT !.step = "fetching", !.task = x, !.hand = x,
                              !.rest = IF x \in Entries THEN Attached[x] ELSE {}]
  <1>2. x \in WindowMeetings \cup WindowDocuments \cup Entries
    BY DEF RunGoesOn, RunTypeOK
  <1>3. row \in ThreadRow BY <1>2 DEF ThreadRow, Resting, Emitted
  <1>4. /\ row.step = "fetching" /\ row.task = x /\ row.hand = x /\ row.batch = {}
        /\ row.rest = IF x \in Entries THEN Attached[x] ELSE {}
    BY DEF Resting
  <1> HIDE DEF row
  <1>5. threads' = [threads EXCEPT ![t] = row] BY <1>1 DEF row
  <1>6. /\ threads' \in [Pool \cup {Main} -> ThreadRow] /\ threads'[t] = row
        /\ \A u \in Pool \cup {Main} : u # t => threads'[u] = threads[u]
    BY <1>3, <1>5 DEF RunGoesOn, RunTypeOK
  <1>7. /\ UNCHANGED <<plan, outcome, seen, issues>> /\ committed' = committed
        /\ buffered' = buffered /\ indexed' = indexed /\ withheld' = withheld
        /\ threads[t].step = "resting" /\ plan.phase \in PoolPhases
    BY DEF TakeTask, storesVars
  <1>8. RunGoesOn'
    <2>1. /\ seen \subseteq WindowDocuments /\ issues \subseteq Emitted \cup Topics
          /\ committed \subseteq Emitted /\ buffered \subseteq committed
          /\ indexed \subseteq committed /\ withheld \subseteq WindowDocuments \cup Recordings
      BY DEF RunGoesOn, RunTypeOK
    <2> QED BY <1>1, <1>4, <1>6, <1>7, <2>1, WorkerGoesOn
  <1> QED BY <1>1, <1>2, <1>4, <1>6, <1>7, <1>8

LEMMA WorkerCommits ==
  ASSUME RunGoesOn, NEW t \in Pool, NEW x \in Emitted, threads[t].step = "fetching",
         NEW rest \in SUBSET (WindowDocuments \cup Recordings \cup {Media}), Commit(t, x, rest),
         (plan.phase)' = plan.phase, UNCHANGED <<outcome, tasks, issues>>
  PROVE  RunGoesOn'
  <1>1. /\ RunTypeOK /\ buffered \subseteq committed
        /\ issues \subseteq Emitted \cup Topics /\ committed \subseteq Emitted
        /\ indexed \subseteq committed /\ withheld \subseteq WindowDocuments \cup Recordings
    BY DEF RunGoesOn, RunTypeOK
  <1>2. threads[t] # Resting BY DEF Resting
  <1>3. /\ threads' \in [Pool \cup {Main} -> ThreadRow] /\ seen' \subseteq WindowDocuments
        /\ committed' = committed \cup {x} /\ indexed' = indexed \ {x}
        /\ withheld' = withheld /\ buffered' \subseteq buffered \cup {x}
        /\ \A u \in Pool \cup {Main} : u # t => threads'[u] = threads[u]
        /\ threads'[t].batch \subseteq buffered \cup {x}
        /\ threads'[t].step = "indexing" => threads'[t].hand = x
    <2>1. \/ threads'[t] = Resting
          \/ threads'[t].step = "fetching"
          \/ threads'[t].step = "indexing" /\ threads'[t].hand = x
      BY <1>1, CommitIs
    <2>2. threads'[t].step = "indexing" => threads'[t].hand = x BY <2>1 DEF Resting
    <2> QED BY <1>1, <2>2, CommitIs
  <1> QED BY <1>1, <1>2, <1>3, WorkerGoesOn

LEMMA WorkerWithholds ==
  ASSUME RunGoesOn, NEW t \in Pool, NEW x \in WindowDocuments \cup Recordings,
         threads[t].step = "fetching",
         NEW rest \in SUBSET (WindowDocuments \cup Recordings \cup {Media}), Withhold(t, x, rest),
         (plan.phase)' = plan.phase, UNCHANGED <<outcome, tasks, issues>>
  PROVE  RunGoesOn'
  <1>1. /\ RunTypeOK /\ buffered \subseteq committed
        /\ issues \subseteq Emitted \cup Topics /\ committed \subseteq Emitted
        /\ indexed \subseteq committed /\ withheld \subseteq WindowDocuments \cup Recordings
    BY DEF RunGoesOn, RunTypeOK
  <1>2. threads[t] # Resting BY DEF Resting
  <1>3. /\ Continue(t, rest) /\ withheld' = withheld \cup {x} /\ committed' = committed
        /\ buffered' = buffered /\ indexed' = indexed
    BY DEF Withhold
  <1>4. /\ threads' \in [Pool \cup {Main} -> ThreadRow] /\ seen' \subseteq WindowDocuments
        /\ \A u \in Pool \cup {Main} : u # t => threads'[u] = threads[u]
        /\ threads'[t].batch = {} /\ threads'[t].step # "indexing"
    <2>1. \/ threads'[t] = Resting
          \/ threads'[t].step = "fetching"
      BY <1>1, <1>3, ContinueIs
    <2>2. threads'[t].step # "indexing" BY <2>1 DEF Resting
    <2> QED BY <1>1, <1>3, <2>2, ContinueIs
  <1> QED BY <1>1, <1>2, <1>3, <1>4, WorkerGoesOn

LEMMA WorkerEnds ==
  ASSUME RunGoesOn, NEW t \in Pool, NEW x \in Emitted, threads[t].step \in {"fetching", "indexing"},
         EndWithIssue(t, x), (plan.phase)' = plan.phase, UNCHANGED <<tasks, seen, storesVars>>
  PROVE  RunGoesOn'
  <1>1. /\ RunTypeOK /\ buffered \subseteq committed /\ seen \subseteq WindowDocuments
        /\ issues \subseteq Emitted \cup Topics /\ committed \subseteq Emitted
        /\ indexed \subseteq committed /\ withheld \subseteq WindowDocuments \cup Recordings
    BY DEF RunGoesOn, RunTypeOK
  <1>2. threads[t] # Resting BY DEF Resting
  <1>3. /\ committed' = committed /\ withheld' = withheld /\ seen' = seen
        /\ buffered' = buffered /\ indexed' = indexed /\ tasks' = tasks
    BY DEF storesVars
  <1>4. /\ threads' \in [Pool \cup {Main} -> ThreadRow]
        /\ \A u \in Pool \cup {Main} : u # t => threads'[u] = threads[u]
        /\ threads'[t].batch = {} /\ threads'[t].step # "indexing"
        /\ outcome' = outcome \/ outcome' = "failed"
        /\ issues' \subseteq issues \cup {x}
    BY <1>1, EndIs
  <1> QED BY <1>1, <1>2, <1>3, <1>4, WorkerGoesOn

LEMMA BatchIsTaken ==
  ASSUME RunGoesOn, NEW t \in Pool, BatchTaken(t)
  PROVE  RunGoesOn'
  <1>1. /\ RunTypeOK /\ buffered \subseteq committed
        /\ issues \subseteq Emitted \cup Topics /\ committed \subseteq Emitted
        /\ indexed \subseteq committed /\ withheld \subseteq WindowDocuments \cup Recordings
        /\ threads[t].batch \subseteq committed
    BY DEF RunGoesOn, RunTypeOK
  <1>2. threads[t] # Resting BY DEF Resting, BatchTaken
  <1>3. /\ committed' = committed /\ withheld' = withheld /\ Continue(t, threads[t].rest)
        /\ buffered' = buffered /\ indexed' = indexed \cup threads[t].batch
        /\ UNCHANGED <<plan, outcome, tasks, issues>>
    BY DEF BatchTaken
  <1>4. /\ threads' \in [Pool \cup {Main} -> ThreadRow] /\ seen' \subseteq WindowDocuments
        /\ \A u \in Pool \cup {Main} : u # t => threads'[u] = threads[u]
        /\ threads'[t].batch = {} /\ threads'[t].step # "indexing"
    <2>1. threads[t].rest \in SUBSET (WindowDocuments \cup Recordings \cup {Media})
      BY <1>1, RestsEmpty
    <2>2. \/ threads'[t] = Resting
          \/ threads'[t].step = "fetching"
      BY <1>1, <1>3, <2>1, ContinueIs
    <2>3. threads'[t].step # "indexing" BY <2>2 DEF Resting
    <2> QED BY <1>1, <1>3, <2>1, <2>3, ContinueIs
  <1> QED BY <1>1, <1>2, <1>3, <1>4, WorkerGoesOn
-----------------------------------------------------------------------------
(* A step of a worker, seen from outside: what was its own to do, and what *)
(* it does not hold any more is dealt with or was taken before.            *)
WorkerStep(t) ==
    /\ \A u \in Pool \cup {Main} : u # t => threads'[u] = threads[u]
    /\ threads[t].step # "rejected" \/ threads'[t] = threads[t]
    /\ issues \subseteq issues' /\ committed \subseteq committed' /\ withheld \subseteq withheld'
    /\ outcome = "failed" => outcome' = "failed"
    /\ seen \subseteq seen'
    /\ \A x \in seen' \ seen : threads'[t].step = "fetching" /\ threads'[t].hand = x

(* It goes on with its task, or with none.                                 *)
MovesOn(t, rest) ==
    \/ threads'[t].step \in {"resting", "rejected"} /\ threads'[t].hand = NoItem
    \/ /\ threads'[t].step = "indexing" /\ threads'[t].task = threads[t].task
       /\ threads'[t].hand = threads[t].hand /\ threads'[t].rest = rest
    \/ /\ threads'[t].step = "fetching" /\ threads'[t].task = threads[t].task
       /\ threads'[t].hand \in rest /\ threads'[t].rest = rest \ {threads'[t].hand}

(* What it has in hand is dealt with, the rest is kept.                    *)
DealsWithHand(t) ==
    \/ outcome' = "failed"
    \/ /\ threads[t].step = "fetching" /\ threads[t].hand \in Emitted =>
             threads[t].hand \in committed' \cup withheld' \cup issues'
       /\ AtWork(t) => \A x \in threads[t].rest : x \in seen \/ Holds(t, x)'

KeepsRows(t) ==
    \/ outcome' = "failed"
    \/ threads[t].step = "indexing" /\ threads[t].hand \in committed \cap issues'
    \/ \A x \in committed' \ indexed' :
         \/ x \in buffered'
         \/ threads'[t].step = "indexing" /\ x \in threads'[t].batch
         \/ /\ x \in committed \ indexed /\ x \notin buffered
            /\ threads[t].step = "indexing" => x \notin threads[t].batch

LEMMA RowsStay ==
  ASSUME NEW t \in Pool \cup {Main}, WorkerStep(t), KeepsRows(t),
         NEW before, NEW after, before \subseteq after, issues' \subseteq after, RowsAreSent(before)
  PROVE  \/ outcome' = "failed" \/ committed' \cap after # {}
         \/ \A x \in committed' \ indexed' :
              \/ x \in buffered'
              \/ \E u \in Pool \cup {Main} : threads'[u].step = "indexing" /\ x \in threads'[u].batch
  <1> SUFFICES ASSUME outcome' # "failed", committed' \cap after = {},
                      NEW x \in committed' \ indexed', x \notin buffered'
               PROVE  \E u \in Pool \cup {Main} :
                         threads'[u].step = "indexing" /\ x \in threads'[u].batch
    OBVIOUS
  <1>1. outcome # "failed" /\ committed \cap before = {} BY DEF WorkerStep
  <1>2. \A y \in committed \ indexed : OnItsWay(y) BY <1>1 DEF RowsAreSent, Failed
  <1>3. \/ threads'[t].step = "indexing" /\ x \in threads'[t].batch
        \/ /\ x \in committed \ indexed /\ x \notin buffered
           /\ threads[t].step = "indexing" => x \notin threads[t].batch
    BY DEF KeepsRows, WorkerStep
  <1>4. CASE /\ x \in committed \ indexed /\ x \notin buffered
             /\ threads[t].step = "indexing" => x \notin threads[t].batch
    <2>1. PICK u \in Pool \cup {Main} : threads[u].step = "indexing" /\ x \in threads[u].batch
      BY <1>2, <1>4 DEF OnItsWay
    <2>2. u # t BY <2>1, <1>4
    <2> QED BY <2>1, <2>2 DEF WorkerStep
  <1> QED BY <1>3, <1>4

LEMMA SeenStays ==
  ASSUME RunTypeOK, NEW t \in Pool, WorkerStep(t), DealsWithHand(t),
         NEW before, NEW after, before \subseteq after, issues' \subseteq after, SeenIsSeenTo(before)
  PROVE  \A x \in seen' :
            \/ outcome' = "failed" \/ x \in committed' \cup withheld' \cup after
            \/ \E u \in Pool : threads'[u].step = "fetching" /\ threads'[u].hand = x
  <1> SUFFICES ASSUME NEW x \in seen', outcome' # "failed",
                      x \notin committed' \cup withheld' \cup after
               PROVE  \E u \in Pool : threads'[u].step = "fetching" /\ threads'[u].hand = x
    OBVIOUS
  <1>1. CASE x \notin seen BY <1>1 DEF WorkerStep
  <1>2. CASE x \in seen
    <2>1. PICK u \in Pool : threads[u].step = "fetching" /\ threads[u].hand = x
      BY <1>2 DEF SeenIsSeenTo, WorkerStep, Failed
    <2>2. u # t BY <1>2, <2>1 DEF DealsWithHand, RunTypeOK, Emitted
    <2> QED BY <2>1, <2>2 DEF WorkerStep
  <1> QED BY <1>1, <1>2

LEMMA CommitDeals ==
  ASSUME RunGoesOn, NEW t \in Pool, threads[t].step = "fetching",
         threads[t].hand \in Emitted,
         NEW rest \in SUBSET (WindowDocuments \cup Recordings \cup {Media}),
         threads[t].rest \subseteq rest, Commit(t, threads[t].hand, rest),
         (plan.phase)' = plan.phase, UNCHANGED <<outcome, tasks, issues>>
  PROVE  RunGoesOn' /\ WorkerStep(t) /\ DealsWithHand(t) /\ KeepsRows(t) /\ MovesOn(t, rest)
         /\ threads[t].hand \in committed'
  <1>1. RunTypeOK BY DEF RunGoesOn
  <1>3. RunGoesOn' BY WorkerCommits
  <1> DEFINE x == threads[t].hand
  <1>4. /\ committed' = committed \cup {x} /\ indexed' = indexed \ {x} /\ withheld' = withheld
        /\ seen \subseteq seen'
        /\ \A u \in Pool \cup {Main} : u # t => threads'[u] = threads[u]
        /\ \A y \in buffered \cup {x} :
              y \in buffered' \/ (threads'[t].step = "indexing" /\ y \in threads'[t].batch)
        /\ \/ rest \subseteq seen /\ threads'[t] = Resting /\ seen' = seen
           \/ /\ threads'[t].step = "fetching" /\ threads'[t].task = threads[t].task
              /\ threads'[t].hand \in rest \ seen
              /\ threads'[t].rest = rest \ {threads'[t].hand}
              /\ seen' = seen \cup ({threads'[t].hand} \cap WindowDocuments)
           \/ /\ threads'[t].step = "indexing" /\ threads'[t].task = threads[t].task
              /\ threads'[t].hand = x /\ threads'[t].rest = rest /\ seen' = seen
    BY <1>1, CommitIs
  <1>5. WorkerStep(t) BY <1>4 DEF WorkerStep
  <1>6. DealsWithHand(t) BY <1>4 DEF DealsWithHand, Holds, AtWork
  <1>7. KeepsRows(t) BY <1>4 DEF KeepsRows
  <1>8. MovesOn(t, rest) BY <1>4 DEF MovesOn, Resting
  <1> QED BY <1>3, <1>4, <1>5, <1>6, <1>7, <1>8

LEMMA WithholdDeals ==
  ASSUME RunGoesOn, NEW t \in Pool, threads[t].step = "fetching",
         threads[t].hand \in WindowDocuments \cup Recordings,
         Withhold(t, threads[t].hand, threads[t].rest),
         (plan.phase)' = plan.phase, UNCHANGED <<outcome, tasks, issues>>
  PROVE  RunGoesOn' /\ WorkerStep(t) /\ DealsWithHand(t) /\ KeepsRows(t) /\ MovesOn(t, threads[t].rest)
  <1>1. RunTypeOK BY DEF RunGoesOn
  <1>2. threads[t].rest \in SUBSET (WindowDocuments \cup Recordings \cup {Media})
    BY <1>1, RestsEmpty
  <1>3. RunGoesOn' BY <1>2, WorkerWithholds
  <1> DEFINE x == threads[t].hand
             rest == threads[t].rest
  <1>4. /\ Continue(t, rest) /\ withheld' = withheld \cup {x} /\ committed' = committed
        /\ buffered' = buffered /\ indexed' = indexed
    BY DEF Withhold
  <1>5. /\ seen \subseteq seen'
        /\ \A u \in Pool \cup {Main} : u # t => threads'[u] = threads[u]
        /\ \/ rest \subseteq seen /\ threads'[t] = Resting /\ seen' = seen
           \/ /\ threads'[t].step = "fetching" /\ threads'[t].task = threads[t].task
              /\ threads'[t].hand \in rest \ seen
              /\ threads'[t].rest = rest \ {threads'[t].hand}
              /\ seen' = seen \cup ({threads'[t].hand} \cap WindowDocuments)
    BY <1>1, <1>2, <1>4, ContinueIs
  <1>6. WorkerStep(t) BY <1>4, <1>5 DEF WorkerStep
  <1>7. DealsWithHand(t) BY <1>4, <1>5 DEF DealsWithHand, Holds, AtWork
  <1>8. KeepsRows(t) BY <1>4 DEF KeepsRows
  <1>9. MovesOn(t, threads[t].rest) BY <1>5 DEF MovesOn, Resting
  <1> QED BY <1>3, <1>6, <1>7, <1>8, <1>9

LEMMA EndDeals ==
  ASSUME RunGoesOn, NEW t \in Pool, NEW x \in Emitted, AtWork(t),
         EndWithIssue(t, x), (plan.phase)' = plan.phase, UNCHANGED <<tasks, seen, storesVars>>
  PROVE  /\ RunGoesOn' /\ WorkerStep(t) /\ MovesOn(t, threads[t].rest)
         /\ threads'[t].hand = NoItem
         /\ outcome' = "failed" \/ issues' = issues \cup {x}
         /\ threads'[t].step \in {"resting", "rejected"}
         /\ x = threads[t].hand => KeepsRows(t)
         /\ threads[t].step # "indexing" => KeepsRows(t)
  <1>1. RunTypeOK BY DEF RunGoesOn
  <1>2. RunGoesOn' BY WorkerEnds DEF AtWork
  <1>3. /\ committed' = committed /\ withheld' = withheld /\ seen' = seen
        /\ buffered' = buffered /\ indexed' = indexed /\ tasks' = tasks
    BY DEF storesVars
  <1>4. /\ \A u \in Pool \cup {Main} : u # t => threads'[u] = threads[u]
        /\ threads'[t].step \in {"resting", "rejected"} /\ threads'[t].hand = NoItem
        /\ \/ issues' = issues \cup {x} /\ outcome' = outcome
           \/ issues' = issues /\ outcome' = "failed"
    BY <1>1, EndIs
  <1>5. WorkerStep(t) BY <1>3, <1>4 DEF WorkerStep, AtWork
  <1>6. threads[t].step = "indexing" => threads[t].hand \in committed BY DEF RunGoesOn
  <1>7. x = threads[t].hand \/ threads[t].step # "indexing" => KeepsRows(t)
    BY <1>3, <1>4, <1>6 DEF KeepsRows
  <1> QED BY <1>2, <1>4, <1>5, <1>7 DEF MovesOn

LEMMA BatchDeals ==
  ASSUME RunGoesOn, NEW t \in Pool, BatchTaken(t)
  PROVE  RunGoesOn' /\ WorkerStep(t) /\ DealsWithHand(t) /\ KeepsRows(t) /\ MovesOn(t, threads[t].rest)
  <1>1. RunTypeOK BY DEF RunGoesOn
  <1>2. threads[t].rest \in SUBSET (WindowDocuments \cup Recordings \cup {Media})
    BY <1>1, RestsEmpty
  <1>3. RunGoesOn' BY BatchIsTaken
  <1> DEFINE rest == threads[t].rest
  <1>4. /\ Continue(t, rest) /\ withheld' = withheld /\ committed' = committed
        /\ buffered' = buffered /\ indexed' = indexed \cup threads[t].batch
        /\ threads[t].step = "indexing" /\ UNCHANGED <<plan, outcome, tasks, issues>>
    BY DEF BatchTaken
  <1>5. /\ seen \subseteq seen'
        /\ \A u \in Pool \cup {Main} : u # t => threads'[u] = threads[u]
        /\ \/ rest \subseteq seen /\ threads'[t] = Resting /\ seen' = seen
           \/ /\ threads'[t].step = "fetching" /\ threads'[t].task = threads[t].task
              /\ threads'[t].hand \in rest \ seen
              /\ threads'[t].rest = rest \ {threads'[t].hand}
              /\ seen' = seen \cup ({threads'[t].hand} \cap WindowDocuments)
    BY <1>1, <1>2, <1>4, ContinueIs
  <1>6. WorkerStep(t) BY <1>4, <1>5 DEF WorkerStep
  <1>7. DealsWithHand(t) BY <1>4, <1>5 DEF DealsWithHand, Holds, AtWork
  <1>8. KeepsRows(t) BY <1>4 DEF KeepsRows
  <1>9. MovesOn(t, threads[t].rest) BY <1>5 DEF MovesOn, Resting
  <1> QED BY <1>3, <1>6, <1>7, <1>8, <1>9

(* A document, in a pool of its own or of the entry it hangs on.           *)
LEMMA DocumentDeals ==
  ASSUME RunGoesOn, NEW t \in Pool,
         DocumentReady(t) \/ DocumentCaught(t) \/ BatchTaken(t),
         threads[t].task = threads[t].hand /\ threads[t].hand \in WindowDocuments =>
             threads[t].rest = {}
  PROVE  RunGoesOn' /\ WorkerStep(t) /\ DealsWithHand(t) /\ KeepsRows(t) /\ MovesOn(t, threads[t].rest)
         /\ AtWork(t) /\ UNCHANGED <<plan, tasks>>
  <1>1. CASE DocumentReady(t)
    <2>1. /\ threads[t].step = "fetching" /\ threads[t].hand \in WindowDocuments
          /\ UNCHANGED <<plan, outcome, tasks, issues>>
          /\ \/ Commit(t, threads[t].hand, threads[t].rest)
             \/ Withhold(t, threads[t].hand, threads[t].rest)
      BY <1>1 DEF DocumentReady
    <2>2. threads[t].hand \in Emitted /\ AtWork(t) BY <2>1 DEF Emitted, AtWork
    <2>3. threads[t].rest \in SUBSET (WindowDocuments \cup Recordings \cup {Media})
      BY RestsEmpty DEF RunGoesOn
    <2>4. CASE Commit(t, threads[t].hand, threads[t].rest)
      BY <2>1, <2>2, <2>3, <2>4, CommitDeals
    <2>5. CASE Withhold(t, threads[t].hand, threads[t].rest)
      BY <2>1, <2>2, <2>5, WithholdDeals
    <2> QED BY <2>1, <2>4, <2>5
  <1>2. CASE DocumentCaught(t)
    <2>1. /\ threads[t].step \in {"fetching", "indexing"} /\ threads[t].hand \in WindowDocuments
          /\ threads[t].task = threads[t].hand /\ EndWithIssue(t, threads[t].hand)
          /\ UNCHANGED <<plan, tasks, seen, storesVars>>
      BY <1>2 DEF DocumentCaught
    <2>2. threads[t].hand \in Emitted /\ AtWork(t) /\ threads[t].rest = {}
      BY <2>1 DEF Emitted, AtWork
    <2>3. /\ RunGoesOn' /\ WorkerStep(t) /\ MovesOn(t, threads[t].rest) /\ KeepsRows(t)
          /\ outcome' = "failed" \/ issues' = issues \cup {threads[t].hand}
      BY <2>1, <2>2, EndDeals
    <2>4. DealsWithHand(t) BY <2>2, <2>3 DEF DealsWithHand
    <2> QED BY <2>1, <2>2, <2>3, <2>4
  <1>3. CASE BatchTaken(t)
    <2>1. AtWork(t) /\ UNCHANGED <<plan, tasks>> BY <1>3 DEF BatchTaken, AtWork
    <2> QED BY <1>3, <2>1, BatchDeals
  <1> QED BY <1>1, <1>2, <1>3

LEMMA NotedGoesOn ==
  ASSUME RunGoesOn, NEW t \in Pool, AtWork(t), NEW x \in Emitted \cup Topics,
         issues' = issues \cup {x}, (plan.phase)' = plan.phase,
         UNCHANGED <<outcome, tasks, threads, seen, storesVars>>
  PROVE  RunGoesOn' /\ WorkerStep(t) /\ KeepsRows(t)
  <1>1. /\ committed' = committed /\ withheld' = withheld /\ seen' = seen /\ outcome' = outcome
        /\ buffered' = buffered /\ indexed' = indexed /\ tasks' = tasks /\ threads' = threads
    BY DEF storesVars
  <1>2. outcome \in {"running", "failed"} /\ threads[t] # Resting
    BY AtWorkMeansPool DEF AtWork, Resting
  <1>3. RunGoesOn' BY <1>1, <1>2 DEF RunGoesOn, RunTypeOK, Failed
  <1>4. WorkerStep(t) /\ KeepsRows(t) BY <1>1 DEF WorkerStep, KeepsRows
  <1> QED BY <1>3, <1>4

(* What a thread that goes on without committing anything does.            *)
LEMMA GoesOnWith ==
  ASSUME RunGoesOn, NEW t \in Pool,
         \/ threads[t].step = "fetching"
         \/ threads[t].step = "indexing" /\ threads[t].hand \in issues',
         NEW rest \in SUBSET (WindowDocuments \cup Recordings \cup {Media}),
         Continue(t, rest), (plan.phase)' = plan.phase,
         UNCHANGED <<outcome, tasks, storesVars>>,
         issues \subseteq issues', issues' \subseteq Emitted \cup Topics
  PROVE  /\ RunGoesOn' /\ WorkerStep(t) /\ KeepsRows(t) /\ MovesOn(t, rest)
         /\ \A x \in rest : x \in seen \/ Holds(t, x)'
         /\ seen' = seen \cup (seen' \cap rest)
  <1>1. /\ RunTypeOK /\ buffered \subseteq committed /\ committed \subseteq Emitted
        /\ indexed \subseteq committed /\ withheld \subseteq WindowDocuments \cup Recordings
    BY DEF RunGoesOn, RunTypeOK
  <1>2. /\ committed' = committed /\ withheld' = withheld
        /\ buffered' = buffered /\ indexed' = indexed
    BY DEF storesVars
  <1>3. /\ threads' \in [Pool \cup {Main} -> ThreadRow] /\ seen' \subseteq WindowDocuments
        /\ seen \subseteq seen'
        /\ \A u \in Pool \cup {Main} : u # t => threads'[u] = threads[u]
        /\ threads'[t].batch = {}
        /\ \/ rest \subseteq seen /\ threads'[t] = Resting /\ seen' = seen
           \/ /\ threads'[t].step = "fetching" /\ threads'[t].task = threads[t].task
              /\ threads'[t].hand \in rest \ seen
              /\ threads'[t].rest = rest \ {threads'[t].hand}
              /\ seen' = seen \cup ({threads'[t].hand} \cap WindowDocuments)
    BY <1>1, ContinueIs
  <1>4. threads'[t].step # "indexing" BY <1>3 DEF Resting
  <1>5. RunGoesOn'
    <2>1. threads[t] # Resting BY DEF Resting
    <2> QED BY <1>1, <1>2, <1>3, <1>4, <2>1, WorkerGoesOn
  <1>6. WorkerStep(t) /\ KeepsRows(t)
    <2>1. threads[t].step = "indexing" => threads[t].hand \in committed BY DEF RunGoesOn
    <2> QED BY <1>2, <1>3, <2>1 DEF WorkerStep, KeepsRows
  <1>7. MovesOn(t, rest) BY <1>3 DEF MovesOn, Resting
  <1>8. \A x \in rest : x \in seen \/ Holds(t, x)' BY <1>3 DEF Holds, AtWork
  <1> QED BY <1>3, <1>5, <1>6, <1>7, <1>8
-----------------------------------------------------------------------------
(* Outside the pools, and when one has come to its end, everyone rests.    *)
LEMMA AllRest ==
  ASSUME RunGoesOn, NEW phase,
         (InPlan(phase) /\ phase \notin PoolPhases) \/ PoolDone(phase)
  PROVE  /\ \A t \in Pool \cup {Main} : threads[t] = Resting
         /\ outcome = "running" /\ plan.phase = phase
         /\ phase \notin PoolPhases \/ tasks = {}
  BY DEF RunGoesOn, InPlan, PoolDone, Failed

LEMMA ControlRows ==
  ASSUME outcome' = outcome, threads' = threads, storesVars' = storesVars,
         NEW before, NEW after, before \subseteq after, RowsAreSent(before)
  PROVE  \/ outcome' = "failed" \/ committed' \cap after # {}
         \/ \A x \in committed' \ indexed' :
              \/ x \in buffered'
              \/ \E u \in Pool \cup {Main} : threads'[u].step = "indexing" /\ x \in threads'[u].batch
  <1>1. committed' = committed /\ buffered' = buffered /\ indexed' = indexed
    BY DEF storesVars
  <1> QED BY <1>1 DEF RowsAreSent, Failed, OnItsWay

LEMMA MainCommits ==
  ASSUME RunGoesOn, outcome = "running", threads[Main] = Resting, plan.phase \notin PoolPhases,
         NEW x \in Emitted, Commit(Main, x, {}), UNCHANGED <<outcome, issues>>,
         tasks' \subseteq WindowMeetings \cup WindowDocuments \cup Entries
  PROVE  /\ RunGoesOn' /\ WorkerStep(Main) /\ KeepsRows(Main)
         /\ seen' = seen /\ committed' = committed \cup {x} /\ withheld' = withheld
         /\ \/ threads'[Main] = Resting
            \/ /\ threads'[Main].step = "indexing" /\ threads'[Main].hand = x
               /\ threads'[Main].rest = {}
  <1> USE ImportRunAssumption
  <1>1. /\ RunTypeOK /\ buffered \subseteq committed /\ committed \subseteq Emitted
        /\ indexed \subseteq committed /\ withheld \subseteq WindowDocuments \cup Recordings
        /\ issues \subseteq Emitted \cup Topics
    BY DEF RunGoesOn, RunTypeOK
  <1>2. /\ threads' \in [Pool \cup {Main} -> ThreadRow] /\ seen' \subseteq WindowDocuments
        /\ committed' = committed \cup {x} /\ indexed' = indexed \ {x}
        /\ withheld' = withheld /\ buffered' \subseteq buffered \cup {x}
        /\ seen \subseteq seen'
        /\ \A u \in Pool \cup {Main} : u # Main => threads'[u] = threads[u]
        /\ threads'[Main].batch \subseteq buffered \cup {x}
        /\ \A y \in buffered \cup {x} :
              y \in buffered' \/ (threads'[Main].step = "indexing" /\ y \in threads'[Main].batch)
        /\ \/ threads'[Main] = Resting /\ seen' = seen
           \/ /\ threads'[Main].step = "indexing"
              /\ threads'[Main].hand = x /\ threads'[Main].rest = {} /\ seen' = seen
    <2>1. {} \in SUBSET (WindowDocuments \cup Recordings \cup {Media}) /\ Main \in Pool \cup {Main}
      OBVIOUS
    <2>2. \/ threads'[Main] = Resting /\ seen' = seen
          \/ threads'[Main].hand \in {} \ seen
          \/ /\ threads'[Main].step = "indexing"
             /\ threads'[Main].hand = x /\ threads'[Main].rest = {} /\ seen' = seen
      BY <1>1, <2>1, CommitIs
    <2> QED BY <1>1, <2>1, <2>2, CommitIs
  <1>3. WorkerStep(Main) /\ KeepsRows(Main) BY <1>2 DEF WorkerStep, KeepsRows, Resting
  <1>4. RunGoesOn'
    <2>1. \A u \in Pool : threads'[u] = threads[u] BY <1>2
    <2>2. threads'[Main].batch \subseteq committed' BY <1>1, <1>2
    <2> QED BY <1>1, <1>2, <2>1, <2>2, MainGoesOn
  <1> QED BY <1>2, <1>3, <1>4

(* The steps of the run itself.                                            *)
LEMMA RunSteps ==
  ASSUME RunGoesOn, RunStep,
         ~Failed /\ threads[Main] # Resting =>
             threads[Main].rest = {} /\ plan.phase \notin PoolPhases
  PROVE  /\ RunGoesOn' /\ WorkerStep(Main) /\ KeepsRows(Main)
         /\ UNCHANGED <<tasks, seen, issues, committed, withheld>>
         /\ \/ plan' = plan
            \/ plan.phase = "flush" /\ plan' = [plan EXCEPT !.phase = "done"]
         /\ \/ outcome' = "failed" \/ threads'[Main] = Resting
            \/ /\ plan.phase = "flush" /\ plan' = plan
               /\ threads'[Main].step = "indexing" /\ threads'[Main].rest = {}
  <1> USE ImportRunAssumption
  <1>0. /\ RunTypeOK /\ buffered \subseteq committed /\ committed \subseteq Emitted
        /\ indexed \subseteq committed /\ withheld \subseteq WindowDocuments \cup Recordings
        /\ issues \subseteq Emitted \cup Topics /\ threads[Main].batch \subseteq committed
        /\ tasks \subseteq WindowMeetings \cup WindowDocuments \cup Entries
        /\ seen \subseteq WindowDocuments
    BY DEF RunGoesOn, RunTypeOK
  <1>1. CASE outcome = "running" /\ BatchTaken(Main)
    <2>1. /\ threads[Main].step = "indexing" /\ Continue(Main, threads[Main].rest)
          /\ indexed' = indexed \cup threads[Main].batch
          /\ UNCHANGED <<plan, outcome, tasks, issues, committed, buffered, withheld>>
      BY <1>1 DEF BatchTaken
    <2>2. threads[Main].rest = {} /\ plan.phase \notin PoolPhases
      BY <1>1, <2>1 DEF Failed, Resting
    <2>3. /\ threads' \in [Pool \cup {Main} -> ThreadRow]
          /\ threads'[Main] = Resting /\ seen' = seen
          /\ \A u \in Pool \cup {Main} : u # Main => threads'[u] = threads[u]
      <3>1. {} \in SUBSET (WindowDocuments \cup Recordings \cup {Media}) /\ Main \in Pool \cup {Main}
        OBVIOUS
      <3>2. Continue(Main, {}) BY <2>1, <2>2
      <3>3. \/ threads'[Main] = Resting /\ seen' = seen
            \/ threads'[Main].hand \in {} \ seen
        BY <1>0, <3>1, <3>2, ContinueIs
      <3> QED BY <1>0, <3>1, <3>2, <3>3, ContinueIs
    <2>4. WorkerStep(Main) /\ KeepsRows(Main) BY <2>1, <2>3 DEF WorkerStep, KeepsRows
    <2>5. RunGoesOn'
      <3>1. threads'[Main].batch \subseteq committed' BY <2>3 DEF Resting
      <3> QED BY <1>0, <1>1, <2>1, <2>2, <2>3, <3>1, MainGoesOn
    <2> QED BY <2>1, <2>3, <2>4, <2>5
  <1>2. CASE RunThrows
    <2>1. /\ outcome' = "failed" /\ UNCHANGED <<plan, tasks, threads, seen, issues>>
          /\ committed' = committed /\ buffered' = buffered /\ indexed' = indexed
          /\ withheld' = withheld
      BY <1>2 DEF RunThrows, storesVars
    <2>2. RunGoesOn' BY <2>1 DEF RunGoesOn, RunTypeOK, Failed
    <2> QED BY <2>1, <2>2 DEF WorkerStep, KeepsRows
  <1>3. CASE LastBatch
    <2> DEFINE row == [Resting EXCEPT !.step = "indexing", !.batch = buffered]
    <2>1. /\ plan.phase = "flush" /\ outcome = "running" /\ threads[Main] = Resting
          /\ threads' = [threads EXCEPT ![Main] = row] /\ buffered' = {}
          /\ UNCHANGED <<plan, outcome, tasks, seen, issues, committed, indexed, withheld>>
      BY <1>3 DEF LastBatch, InPlan
    <2>2. row \in ThreadRow BY <1>0 DEF ThreadRow, Resting
    <2>3. row.step = "indexing" /\ row.batch = buffered /\ row.rest = {} BY DEF Resting
    <2> HIDE DEF row
    <2>4. /\ threads' \in [Pool \cup {Main} -> ThreadRow] /\ threads'[Main] = row
          /\ \A u \in Pool \cup {Main} : u # Main => threads'[u] = threads[u]
      BY <1>0, <2>1, <2>2 DEF RunTypeOK
    <2>5. WorkerStep(Main) /\ KeepsRows(Main)
      BY <2>1, <2>3, <2>4 DEF WorkerStep, KeepsRows, Resting
    <2>6. RunGoesOn' BY <1>0, <2>1, <2>3, <2>4, MainGoesOn DEF PoolPhases
    <2> QED BY <2>1, <2>3, <2>4, <2>5, <2>6
  <1>4. CASE RunEnds
    <2>1. /\ plan.phase = "flush" /\ outcome = "running" /\ threads[Main] = Resting
          /\ buffered = {} /\ plan' = [plan EXCEPT !.phase = "done"]
          /\ outcome' = IF issues = {} THEN "succeeded" ELSE "partial"
          /\ UNCHANGED <<tasks, threads, seen, issues>>
          /\ committed' = committed /\ buffered' = buffered /\ indexed' = indexed
          /\ withheld' = withheld
      BY <1>4 DEF RunEnds, InPlan, storesVars
    <2>2. WorkerStep(Main) /\ KeepsRows(Main) BY <2>1 DEF WorkerStep, KeepsRows, Resting
    <2>3. \A t \in Pool : threads[t] = Resting BY <2>1 DEF RunGoesOn, Failed, PoolPhases
    <2>4. plan' = [plan EXCEPT !.phase = "done"] => (plan.phase)' \in {"done", plan.phase}
      OBVIOUS
    <2> QED BY <2>1, <2>2, <2>3 DEF RunGoesOn, RunTypeOK, Failed
  <1> QED BY <1>1, <1>2, <1>3, <1>4 DEF RunStep

(* The parts of a window are ranges of its days.                           *)
LEMMA ChunksAreRanges ==
  ASSUME NEW days \in Nat \ {0}
  PROVE  Chunks(days) \in Seq(Ranges)
  <1> USE ImportRunAssumption
  <1> DEFINE n == (LastWindowDay \div days) + 1
  <1>1. n \in Nat /\ (n - 1) * days <= LastWindowDay OBVIOUS
  <1>2. ASSUME NEW i \in 1 .. n
        PROVE  [from |-> (i - 1) * days, to |-> Least(i * days - 1, LastWindowDay)] \in Ranges
    <2>1. (i - 1) * days \in Nat /\ i * days \in Nat /\ i * days >= 1 OBVIOUS
    <2>2. (i - 1) * days <= (n - 1) * days BY <1>1
    <2> HIDE DEF n
    <2>3. (i - 1) * days \in 0 .. LastWindowDay BY <1>1, <2>1, <2>2
    <2>4. Least(i * days - 1, LastWindowDay) \in 0 .. LastWindowDay BY <2>1 DEF Least
    <2> QED BY <2>3, <2>4 DEF Ranges
  <1> HIDE DEF n
  <1>3. [i \in 1 .. n |-> [from |-> (i - 1) * days, to |-> Least(i * days - 1, LastWindowDay)]]
          \in Seq(Ranges)
    <2> DEFINE q == [i \in 1 .. n |->
                       [from |-> (i - 1) * days, to |-> Least(i * days - 1, LastWindowDay)]]
    <2>1. q \in [1 .. n -> Ranges] BY <1>2
    <2> HIDE DEF q
    <2>2. q \in Seq(Ranges) BY <1>1, <2>1
    <2> QED BY <2>2 DEF q
  <1> QED BY <1>3 DEF Chunks, n
-----------------------------------------------------------------------------
(* What an issue tells of a site stays told.                               *)
LEMMA SiteStaysTold ==
  ASSUME issues \subseteq issues'
  PROVE  /\ SiteTold \subseteq SiteTold' /\ issues' \subseteq SiteTold'
  BY DEF SiteTold, SiteReported

LEMMA SiteStaysDealt ==
  ASSUME issues \subseteq issues', committed \subseteq committed', withheld \subseteq withheld',
         NEW x, SiteDealt(x)
  PROVE  SiteDealt(x)'
  BY DEF SiteReported, SiteDealt

LEMMA SiteAtWork ==
  ASSUME SiteTypeOK, RunGoesOn, NEW t \in Pool, threads[t] # Resting
  PROVE  plan.phase \in {"meetings", "documents"}
  BY AtWorkMeansPool DEF SiteTypeOK, PoolPhases

LEMMA SitePlanStays ==
  ASSUME SitePlan, tasks' \subseteq tasks, plan' = plan
  PROVE  SitePlan'
  BY DEF SitePlan, IsGO

LEMMA SiteHandsStay ==
  ASSUME SiteTypeOK, SiteHands, NEW t \in Pool, WorkerStep(t),
         ImportRunAssumption,
         (plan.phase)' = plan.phase, (plan.rosters)' = plan.rosters,
         AtWork(t)' => /\ threads'[t].rest = {} /\ threads'[t].task = threads'[t].hand
                       /\ plan.phase = "meetings" => threads'[t].hand \in WindowMeetings
                       /\ plan.phase = "documents" => threads'[t].hand \in WindowDocuments
  PROVE  SiteHands'
  <1>1. t # Main BY DEF ImportRunAssumption
  <1>2. \A u \in Pool : u # t => threads'[u] = threads[u] BY DEF WorkerStep
  <1>3. /\ threads'[Main] = threads[Main] /\ committed \subseteq committed'
        /\ outcome = "failed" => outcome' = "failed"
    BY <1>1 DEF WorkerStep
  <1>4. (~Failed /\ threads[Main] # Resting =>
          /\ plan.phase \in {"members", "flush"} /\ threads[Main].step = "indexing"
          /\ threads[Main].rest = {}
          /\ plan.phase = "members" =>
                threads[Main].hand \in committed \cap MembersOf[Head(plan.rosters)])'
    BY <1>3 DEF SiteHands, Failed
  <1>5. ASSUME NEW u \in Pool, AtWork(u)'
        PROVE  /\ threads'[u].rest = {} /\ threads'[u].task = threads'[u].hand
               /\ plan.phase = "meetings" => threads'[u].hand \in WindowMeetings
               /\ plan.phase = "documents" => threads'[u].hand \in WindowDocuments
    BY <1>2, <1>5 DEF SiteHands, AtWork
  <1> QED BY <1>4, <1>5 DEF SiteHands

LEMMA SiteMovesOn ==
  ASSUME SiteHands, NEW t \in Pool, AtWork(t), MovesOn(t, {})
  PROVE  AtWork(t)' => /\ threads'[t].rest = {} /\ threads'[t].task = threads'[t].hand
                       /\ plan.phase = "meetings" => threads'[t].hand \in WindowMeetings
                       /\ plan.phase = "documents" => threads'[t].hand \in WindowDocuments
  BY DEF SiteHands, MovesOn, AtWork

(* What a worker of a site leaves is dealt with.                           *)
LEMMA SiteDeals ==
  ASSUME SiteHands, NEW t \in Pool, AtWork(t), WorkerStep(t), DealsWithHand(t), tasks' = tasks,
         NEW x \in Emitted, Held(x)
  PROVE  Failed' \/ SiteDealt(x)' \/ Held(x)'
  <1>1. CASE x \in tasks BY <1>1 DEF Held
  <1>2. CASE \E u \in Pool : Holds(u, x)
    <2>1. PICK u \in Pool : Holds(u, x) BY <1>2
    <2>2. CASE u = t
      BY <2>1, <2>2 DEF Holds, SiteHands, DealsWithHand, Failed, SiteDealt, SiteReported
    <2>3. CASE u # t BY <2>1, <2>3 DEF WorkerStep, Holds, Held, AtWork
    <2> QED BY <2>2, <2>3
  <1> QED BY <1>1, <1>2 DEF Held

LEMMA SiteRowsStay ==
  ASSUME NEW t \in Pool \cup {Main}, WorkerStep(t), KeepsRows(t), RowsAreSent(SiteTold)
  PROVE  RowsAreSent(SiteTold)'
  <1>1. issues \subseteq issues' BY DEF WorkerStep
  <1>2. SiteTold \subseteq SiteTold' /\ issues' \subseteq SiteTold'
    BY <1>1, SiteStaysTold
  <1> QED BY <1>2, RowsStay DEF RowsAreSent, Failed, OnItsWay

(* A step on a document, or of the index, in a pool.                       *)
LEMMA SiteDocumentStep ==
  ASSUME SiteInvariant, NEW t \in Pool,
         DocumentReady(t) \/ DocumentCaught(t) \/ BatchTaken(t)
  PROVE  SiteInvariant'
  <1> USE ImportRunAssumption
  <1>1. SiteTypeOK /\ RunGoesOn /\ SitePlan /\ SiteHands /\ SiteAccounts /\ RowsAreSent(SiteTold)
    BY DEF SiteInvariant
  <1>2. AtWork(t) BY DEF DocumentReady, DocumentCaught, BatchTaken, AtWork
  <1>3. /\ RunGoesOn' /\ WorkerStep(t) /\ DealsWithHand(t) /\ KeepsRows(t) /\ MovesOn(t, {})
        /\ plan' = plan /\ tasks' = tasks
    <2>1. threads[t].rest = {} BY <1>1, <1>2 DEF SiteHands
    <2> QED BY <1>1, <2>1, DocumentDeals
  <1>4. SiteTypeOK' /\ SitePlan' BY <1>1, <1>3, SitePlanStays DEF SiteTypeOK
  <1>5. SiteHands' BY <1>1, <1>2, <1>3, SiteMovesOn, SiteHandsStay
  <1>6. SiteAccounts'
    <2>1. SUFFICES ASSUME NEW x \in plan.named, ~Failed', ~SiteDealt(x)', ~Held(x)',
                          x \notin plan.members
                   PROVE  /\ plan.phase \in {"listing", "meetings"}
                          /\ \E m \in WindowMeetings : x \in Attached[m]
                                 /\ (Held(m)' \/ m \in plan.found)
      BY <1>3 DEF SiteAccounts
    <2>2. ~Failed /\ ~SiteDealt(x) /\ ~Held(x)
      <3>1. /\ issues \subseteq issues' /\ committed \subseteq committed'
            /\ withheld \subseteq withheld' /\ (Failed => Failed')
        BY <1>3 DEF WorkerStep, Failed
      <3>2. ~SiteDealt(x) BY <2>1, <3>1, SiteStaysDealt
      <3>3. x \in Emitted BY <1>1, <2>1 DEF SiteTypeOK
      <3>4. ~Held(x) BY <1>1, <1>2, <1>3, <2>1, <3>3, SiteDeals
      <3> QED BY <2>1, <3>1, <3>2, <3>4
    <2>3. PICK m \in WindowMeetings : x \in Attached[m] /\ (Held(m) \/ m \in plan.found)
      BY <1>1, <2>1, <2>2 DEF SiteAccounts
    <2>4. plan.phase \in {"listing", "meetings"} BY <1>1, <2>1, <2>2 DEF SiteAccounts
    <2>5. Held(m) => Held(m)'
      <3>1. CASE m \in tasks BY <1>3, <3>1 DEF Held
      <3>2. CASE \E u \in Pool : Holds(u, m)
        <4>1. PICK u \in Pool : Holds(u, m) BY <3>2
        <4>2. u # t
          <5>1. threads[t].rest = {} BY <1>1, <1>2 DEF SiteHands
          <5>2. threads[t].step = "fetching" => threads[t].hand \in WindowDocuments
            BY DEF DocumentReady, DocumentCaught, BatchTaken
          <5> QED BY <4>1, <5>1, <5>2 DEF Holds
        <4> QED BY <1>3, <4>1, <4>2 DEF WorkerStep, Holds, Held, AtWork
      <3> QED BY <3>1, <3>2 DEF Held
    <2> QED BY <2>3, <2>4, <2>5
  <1>7. RowsAreSent(SiteTold)' BY <1>1, <1>3, SiteRowsStay
  <1> QED BY <1>3, <1>4, <1>5, <1>6, <1>7 DEF SiteInvariant

LEMMA SiteTakes ==
  ASSUME SiteInvariant, NEW t \in Pool, TakeTask(t)
  PROVE  SiteInvariant'
  <1> USE ImportRunAssumption
  <1>1. SiteTypeOK /\ RunGoesOn /\ SitePlan /\ SiteHands /\ SiteAccounts /\ RowsAreSent(SiteTold)
    BY DEF SiteInvariant
  <1>2. /\ RunGoesOn' /\ \A u \in Pool \cup {Main} : u # t => threads'[u] = threads[u]
        /\ threads[t].step = "resting"
    BY <1>1, TakesTask
  <1>3. PICK x \in tasks :
              /\ tasks' = tasks \ {x} /\ x \in WindowMeetings \cup WindowDocuments \cup Entries
              /\ threads'[t].step = "fetching"
              /\ threads'[t].task = x /\ threads'[t].hand = x /\ threads'[t].batch = {}
              /\ threads'[t].rest = IF x \in Entries THEN Attached[x] ELSE {}
    BY <1>1, TakesTask
  <1>4. /\ UNCHANGED <<plan, outcome, seen, issues>> /\ committed' = committed
        /\ buffered' = buffered /\ indexed' = indexed /\ withheld' = withheld
        /\ plan.phase \in PoolPhases
    BY DEF TakeTask, storesVars
  <1>5. plan.phase \in {"meetings", "documents"}
    BY <1>1, <1>4 DEF SiteTypeOK, PoolPhases
  <1>6. /\ plan.phase = "meetings" => x \in WindowMeetings
        /\ plan.phase = "documents" => x \in WindowDocuments
    BY <1>1, <1>3, <1>5 DEF SitePlan
  <1>7. WorkerStep(t) BY <1>2, <1>4 DEF WorkerStep
  <1>8. SiteTypeOK' /\ SitePlan' BY <1>1, <1>3, <1>4, SitePlanStays DEF SiteTypeOK
  <1>9. SiteHands'
    <2>1. x \notin Entries BY <1>5, <1>6
    <2> QED BY <1>1, <1>3, <1>4, <1>6, <1>7, <2>1, SiteHandsStay
  <1>10. \A y : Held(y) => Held(y)'
    <2> SUFFICES ASSUME NEW y, Held(y) PROVE Held(y)' OBVIOUS
    <2>1. CASE y \in tasks BY <1>3, <2>1 DEF Held, Holds
    <2>2. CASE \E u \in Pool : Holds(u, y)
      <3>1. PICK u \in Pool : Holds(u, y) BY <2>2
      <3>2. u # t BY <1>2, <3>1 DEF Holds, AtWork
      <3> QED BY <1>2, <3>1, <3>2 DEF Held, Holds, AtWork
    <2> QED BY <2>1, <2>2 DEF Held
  <1>11. SiteAccounts'
    BY <1>1, <1>4, <1>10 DEF SiteAccounts, Failed, SiteDealt, SiteReported
  <1>12. RowsAreSent(SiteTold)'
    <2>1. KeepsRows(t) BY <1>2, <1>4 DEF KeepsRows
    <2> QED BY <1>1, <1>7, <2>1, SiteRowsStay
  <1> QED BY <1>2, <1>8, <1>9, <1>11, <1>12 DEF SiteInvariant

LEMMA SiteNotes ==
  ASSUME SiteInvariant, NEW t \in Pool, DocumentNoted(t)
  PROVE  SiteInvariant'
  <1> USE ImportRunAssumption
  <1>1. SiteTypeOK /\ RunGoesOn /\ SitePlan /\ SiteHands /\ SiteAccounts /\ RowsAreSent(SiteTold)
    BY DEF SiteInvariant
  <1>2. /\ threads[t].step = "fetching" /\ threads[t].hand \in WindowDocuments
        /\ issues' = issues \cup {threads[t].hand}
        /\ UNCHANGED <<plan, outcome, tasks, threads, seen, storesVars>>
    BY DEF DocumentNoted
  <1>3. AtWork(t) /\ threads[t].hand \in Emitted \cup Topics BY <1>2 DEF AtWork, Emitted
  <1>4. RunGoesOn' /\ WorkerStep(t) /\ KeepsRows(t) BY <1>1, <1>2, <1>3, NotedGoesOn
  <1>5. RowsAreSent(SiteTold)' BY <1>1, <1>4, SiteRowsStay
  <1>6. /\ plan' = plan /\ tasks' = tasks /\ threads' = threads /\ outcome' = outcome
        /\ committed' = committed /\ withheld' = withheld
    BY <1>2 DEF storesVars
  <1>7. SiteTypeOK' /\ SitePlan' /\ SiteHands'
    BY <1>1, <1>6, SitePlanStays DEF SiteTypeOK, SiteHands, AtWork, Failed
  <1>8. SiteAccounts'
    <2>1. SUFFICES ASSUME NEW x \in plan.named, ~Failed', ~SiteDealt(x)', ~Held(x)',
                          x \notin plan.members
                   PROVE  /\ plan.phase \in {"listing", "meetings"}
                          /\ \E m \in WindowMeetings : x \in Attached[m]
                                 /\ (Held(m)' \/ m \in plan.found)
      BY <1>6 DEF SiteAccounts
    <2>2. ~SiteDealt(x) BY <1>2, <1>6, <2>1, SiteStaysDealt
    <2>3. \A y : Held(y)' <=> Held(y) BY <1>6 DEF Held, Holds, AtWork
    <2> QED BY <1>1, <1>6, <2>1, <2>2, <2>3 DEF SiteAccounts, Failed
  <1> QED BY <1>4, <1>5, <1>7, <1>8 DEF SiteInvariant

(* A meeting that is committed brings its documents along.                 *)
LEMMA SiteMeets ==
  ASSUME SiteInvariant, NEW t \in Pool, SiteMeetingReady(t)
  PROVE  SiteInvariant'
  <1> USE ImportRunAssumption
  <1> DEFINE m == threads[t].hand
  <1>1. SiteTypeOK /\ RunGoesOn /\ SitePlan /\ SiteHands /\ SiteAccounts /\ RowsAreSent(SiteTold)
    BY DEF SiteInvariant
  <1>2. /\ threads[t].step = "fetching" /\ m \in WindowMeetings
        /\ plan' = [plan EXCEPT !.found = @ \cup {m}, !.named = @ \cup Attached[m]]
        /\ Commit(t, m, {}) /\ UNCHANGED <<outcome, tasks, issues>>
    BY DEF SiteMeetingReady
  <1>3. AtWork(t) /\ m \in Emitted /\ threads[t].rest = {} /\ threads[t] # Resting
    BY <1>1, <1>2 DEF AtWork, Emitted, SiteHands, Resting
  <1>4. plan.phase = "meetings" BY <1>1, <1>2, <1>3, SiteAtWork DEF SiteHands
  <1>5. /\ (plan.phase)' = plan.phase /\ (plan.rosters)' = plan.rosters
        /\ (plan.members)' = plan.members /\ (plan.chunks)' = plan.chunks
        /\ (plan.named)' = plan.named \cup Attached[m]
        /\ (plan.found)' = plan.found \cup {m} /\ (plan.supplier)' = plan.supplier
    BY <1>1, <1>2 DEF SiteTypeOK
  <1>6. /\ RunGoesOn' /\ WorkerStep(t) /\ DealsWithHand(t) /\ KeepsRows(t) /\ MovesOn(t, {})
        /\ m \in committed'
    BY <1>1, <1>2, <1>3, <1>5, CommitDeals
  <1>7. SiteTypeOK'
    <2>1. Attached[m] \subseteq Emitted BY <1>2 DEF Emitted
    <2> HIDE DEF m
    <2> QED BY <1>1, <1>2, <2>1 DEF SiteTypeOK
  <1>8. SitePlan' BY <1>1, <1>2, <1>4, <1>5 DEF SitePlan, IsGO
  <1>9. SiteHands' BY <1>1, <1>3, <1>5, <1>6, SiteMovesOn, SiteHandsStay
  <1>10. SiteAccounts'
    <2> HIDE DEF m
    <2>1. SUFFICES ASSUME NEW x \in plan.named \cup Attached[m], ~Failed', ~SiteDealt(x)',
                          ~Held(x)', x \notin plan.members
                   PROVE  \E k \in WindowMeetings : x \in Attached[k]
                                 /\ (Held(k)' \/ k \in plan.found \cup {m})
      BY <1>4, <1>5 DEF SiteAccounts
    <2>2. CASE x \in Attached[m] BY <1>2, <2>2
    <2>3. CASE x \in plan.named
      <3>1. /\ issues \subseteq issues' /\ committed \subseteq committed'
            /\ withheld \subseteq withheld' /\ (Failed => Failed')
        BY <1>6 DEF WorkerStep, Failed
      <3>2. ~SiteDealt(x) BY <2>1, <3>1, SiteStaysDealt
      <3>3. ~Held(x)
        <4>1. x \in Emitted BY <1>1, <2>3 DEF SiteTypeOK
        <4> QED BY <1>1, <1>2, <1>3, <1>6, <2>1, <4>1, SiteDeals
      <3>4. PICK k \in WindowMeetings : x \in Attached[k] /\ (Held(k) \/ k \in plan.found)
        BY <1>1, <2>1, <2>3, <3>1, <3>2, <3>3 DEF SiteAccounts
      <3>5. CASE \E u \in Pool : u # t /\ Holds(u, k)
        BY <1>6, <3>4, <3>5 DEF WorkerStep, Holds, Held, AtWork
      <3>6. CASE k \in tasks BY <1>2, <3>4, <3>6 DEF Held
      <3>7. CASE Holds(t, k) BY <1>2, <1>3, <3>4, <3>7 DEF Holds, m
      <3> QED BY <3>4, <3>5, <3>6, <3>7 DEF Held
    <2> QED BY <2>2, <2>3
  <1>11. RowsAreSent(SiteTold)' BY <1>1, <1>6, SiteRowsStay
  <1> QED BY <1>6, <1>7, <1>8, <1>9, <1>10, <1>11 DEF SiteInvariant

(* One that is not, names itself in an issue, or the run fails.            *)
LEMMA SiteMisses ==
  ASSUME SiteInvariant, NEW t \in Pool, SiteMeetingFails(t)
  PROVE  SiteInvariant'
  <1> USE ImportRunAssumption
  <1> DEFINE m == threads[t].hand
  <1>1. SiteTypeOK /\ RunGoesOn /\ SitePlan /\ SiteHands /\ SiteAccounts /\ RowsAreSent(SiteTold)
    BY DEF SiteInvariant
  <1>2. /\ threads[t].step \in {"fetching", "indexing"} /\ m \in WindowMeetings
        /\ plan' = [plan EXCEPT !.found = @ \ {m}]
        /\ UNCHANGED <<tasks, seen, storesVars>>
        /\ (Reject(t) /\ UNCHANGED issues) \/ EndWithIssue(t, m)
    BY DEF SiteMeetingFails
  <1>3. AtWork(t) /\ m \in Emitted /\ threads[t].rest = {} /\ threads[t] # Resting
    BY <1>1, <1>2 DEF AtWork, Emitted, SiteHands, Resting
  <1>4. plan.phase = "meetings" BY <1>1, <1>2, <1>3, SiteAtWork DEF SiteHands
  <1>5. /\ (plan.phase)' = plan.phase /\ (plan.rosters)' = plan.rosters
        /\ (plan.members)' = plan.members /\ (plan.chunks)' = plan.chunks
        /\ (plan.named)' = plan.named
        /\ (plan.found)' = plan.found \ {m} /\ (plan.supplier)' = plan.supplier
    BY <1>1, <1>2 DEF SiteTypeOK
  <1>6. EndWithIssue(t, m) BY <1>2 DEF EndWithIssue
  <1>7. /\ RunGoesOn' /\ WorkerStep(t) /\ MovesOn(t, {}) /\ KeepsRows(t)
        /\ outcome' = "failed" \/ issues' = issues \cup {m}
    <2>1. /\ RunGoesOn' /\ WorkerStep(t) /\ MovesOn(t, threads[t].rest) /\ KeepsRows(t)
          /\ outcome' = "failed" \/ issues' = issues \cup {m}
      BY <1>1, <1>2, <1>3, <1>5, <1>6, EndDeals
    <2> QED BY <1>3, <2>1
  <1>8. SiteTypeOK'
    <2> HIDE DEF m
    <2> QED BY <1>1, <1>2 DEF SiteTypeOK
  <1>9. SitePlan' BY <1>1, <1>2, <1>4, <1>5 DEF SitePlan, IsGO
  <1>10. SiteHands' BY <1>1, <1>3, <1>5, <1>7, SiteMovesOn, SiteHandsStay
  <1>11. DealsWithHand(t) BY <1>3, <1>7 DEF DealsWithHand
  <1>12. SiteAccounts'
    <2> HIDE DEF m
    <2>1. SUFFICES ASSUME NEW x \in plan.named, ~Failed', ~SiteDealt(x)',
                          ~Held(x)', x \notin plan.members
                   PROVE  \E k \in WindowMeetings : x \in Attached[k]
                                 /\ (Held(k)' \/ k \in plan.found \ {m})
      BY <1>4, <1>5 DEF SiteAccounts
    <2>2. m \in issues' BY <1>7, <2>1 DEF Failed
    <2>3. /\ issues \subseteq issues' /\ committed \subseteq committed'
          /\ withheld \subseteq withheld' /\ (Failed => Failed')
      BY <1>7 DEF WorkerStep, Failed
    <2>4. ~SiteDealt(x) BY <2>1, <2>3, SiteStaysDealt
    <2>5. ~Held(x)
      <3>1. x \in Emitted BY <1>1, <2>1 DEF SiteTypeOK
      <3> QED BY <1>1, <1>2, <1>3, <1>7, <1>11, <2>1, <3>1, SiteDeals
    <2>6. PICK k \in WindowMeetings : x \in Attached[k] /\ (Held(k) \/ k \in plan.found)
      BY <1>1, <2>1, <2>3, <2>4, <2>5 DEF SiteAccounts
    <2>7. k # m BY <2>1, <2>2, <2>6 DEF SiteDealt, SiteReported
    <2>8. CASE \E u \in Pool : u # t /\ Holds(u, k)
      BY <1>7, <2>6, <2>8 DEF WorkerStep, Holds, Held, AtWork
    <2>9. CASE k \in tasks BY <1>2, <2>6, <2>9 DEF Held
    <2>10. CASE Holds(t, k) BY <1>2, <1>3, <2>7, <2>10 DEF Holds, m
    <2> QED BY <2>6, <2>7, <2>8, <2>9, <2>10 DEF Held
  <1>13. RowsAreSent(SiteTold)' BY <1>1, <1>7, SiteRowsStay
  <1> QED BY <1>7, <1>8, <1>9, <1>10, <1>12, <1>13 DEF SiteInvariant

(* Between the steps of its control a site's run has only what it still    *)
(* has to take.                                                            *)
SiteOwes(x) ==
    \/ SiteDealt(x) \/ x \in tasks \/ x \in plan.members
    \/ /\ plan.phase \in {"listing", "meetings"}
       /\ \E m \in WindowMeetings : x \in Attached[m] /\ (m \in tasks \/ m \in plan.found)

LEMMA SiteAtRest ==
  ASSUME SiteInvariant, NEW phase,
         (InPlan(phase) /\ phase \notin PoolPhases) \/ PoolDone(phase)
  PROVE  /\ \A t \in Pool \cup {Main} : threads[t] = Resting
         /\ outcome = "running" /\ plan.phase = phase /\ (phase \notin PoolPhases \/ tasks = {})
         /\ \A x \in plan.named : SiteOwes(x)
         /\ SiteTypeOK /\ RunGoesOn /\ SitePlan
         /\ tasks \subseteq WindowMeetings \cup WindowDocuments \cup Entries
         /\ issues \subseteq Emitted \cup Topics
  <1>1. /\ SiteTypeOK /\ RunGoesOn /\ SitePlan /\ SiteAccounts
        /\ tasks \subseteq WindowMeetings \cup WindowDocuments \cup Entries
        /\ issues \subseteq Emitted \cup Topics
    BY DEF SiteInvariant, RunGoesOn, RunTypeOK
  <1>2. /\ \A t \in Pool \cup {Main} : threads[t] = Resting
        /\ outcome = "running" /\ plan.phase = phase /\ (phase \notin PoolPhases \/ tasks = {})
    BY <1>1, AllRest
  <1>3. \A y : Held(y) => y \in tasks BY <1>2 DEF Held, Holds, AtWork, Resting
  <1> QED BY <1>1, <1>2, <1>3 DEF SiteAccounts, SiteOwes, Failed

LEMMA SiteControl ==
  ASSUME SiteInvariant, NEW phase,
         (InPlan(phase) /\ phase \notin PoolPhases) \/ PoolDone(phase),
         outcome' = outcome, threads' = threads, seen' = seen, storesVars' = storesVars,
         tasks' \subseteq WindowMeetings \cup WindowDocuments \cup Entries,
         issues \subseteq issues', issues' \subseteq Emitted \cup Topics,
         SiteTypeOK', SitePlan', \A x \in (plan.named)' : SiteOwes(x)'
  PROVE  SiteInvariant'
  <1>1. /\ RunGoesOn /\ RowsAreSent(SiteTold)
        /\ \A t \in Pool \cup {Main} : threads[t] = Resting
        /\ outcome = "running"
    BY SiteAtRest DEF SiteInvariant
  <1>2. RunGoesOn' BY <1>1, ControlGoesOn
  <1>3. SiteHands'
    <2>1. \A t \in Pool : ~AtWork(t)' BY <1>1 DEF AtWork, Resting
    <2>2. threads'[Main] = Resting BY <1>1
    <2> QED BY <2>1, <2>2 DEF SiteHands
  <1>4. SiteAccounts' BY DEF SiteAccounts, SiteOwes, Held
  <1>5. RowsAreSent(SiteTold)'
    <2>1. SiteTold \subseteq SiteTold' BY SiteStaysTold
    <2> QED BY <1>1, <2>1, ControlRows DEF RowsAreSent, Failed, OnItsWay
  <1> QED BY <1>2, <1>3, <1>4, <1>5 DEF SiteInvariant

LEMMA AfterRosterIs ==
  ASSUME SiteTypeOK, SitePlan, plan.phase \in {"rosters", "members"}, plan' = AfterRoster
  PROVE  /\ SiteTypeOK'
         /\ (plan.phase)' = IF Tail(plan.rosters) = <<>> THEN "listing" ELSE "rosters"
         /\ (plan.rosters)' = Tail(plan.rosters)
         /\ (plan.members)' = {} /\ (plan.chunks)' = plan.chunks
         /\ (plan.named)' = plan.named
         /\ (plan.found)' = plan.found /\ (plan.supplier)' = plan.supplier
         /\ Head(plan.rosters) \in {"committees", "parties", "persons"}
  <1>1. plan.rosters \in Seq({"committees", "parties", "persons"}) /\ plan.rosters # <<>>
    BY DEF SiteTypeOK, SitePlan
  <1>2. /\ Tail(plan.rosters) \in Seq({"committees", "parties", "persons"})
        /\ Head(plan.rosters) \in {"committees", "parties", "persons"}
    BY <1>1
  <1> QED BY <1>2 DEF SiteTypeOK, AfterRoster

LEMMA SitePlansOn ==
  ASSUME SiteInvariant,
         \/ SiteBegins \/ RosterAnswers \/ RosterDone
         \/ SiteLists \/ SiteListed \/ SiteMeetingsDone \/ SiteDocumentsDone
  PROVE  SiteInvariant'
  <1> USE ImportRunAssumption
  <1>1. CASE SiteBegins
    <2>1. /\ InPlan("types") /\ plan' = [plan EXCEPT !.phase = "rosters"]
          /\ outcome' = outcome /\ tasks' = tasks /\ threads' = threads /\ seen' = seen
          /\ issues' = issues /\ storesVars' = storesVars
      BY <1>1 DEF SiteBegins
    <2>2. "types" \notin PoolPhases BY DEF PoolPhases
    <2>3. /\ plan.phase = "types" /\ \A x \in plan.named : SiteOwes(x)
          /\ SiteTypeOK /\ SitePlan
          /\ tasks \subseteq WindowMeetings \cup WindowDocuments \cup Entries
          /\ issues \subseteq Emitted \cup Topics
      BY <2>1, <2>2, SiteAtRest
    <2>4. SiteTypeOK' BY <2>1, <2>3 DEF SiteTypeOK
    <2>5. /\ (plan.phase)' = "rosters" /\ (plan.rosters)' = plan.rosters
          /\ (plan.members)' = plan.members /\ (plan.chunks)' = plan.chunks
          /\ (plan.named)' = plan.named
          /\ (plan.found)' = plan.found /\ (plan.supplier)' = plan.supplier
      BY <2>1, <2>3 DEF SiteTypeOK
    <2>6. SitePlan' BY <2>1, <2>3, <2>5 DEF SitePlan, IsGO
    <2>7. committed' = committed /\ withheld' = withheld BY <2>1 DEF storesVars
    <2>8. \A x \in (plan.named)' : SiteOwes(x)'
      BY <2>1, <2>3, <2>5, <2>7 DEF SiteOwes, SiteDealt, SiteReported
    <2> QED BY <2>1, <2>2, <2>3, <2>4, <2>6, <2>8, SiteControl
  <1>2. CASE RosterAnswers
    <2>0. PICK members \in MayAnswer(MembersOf[Head(plan.rosters)]) :
               plan' = [plan EXCEPT !.phase = "members", !.members = members,
                                    !.named = @ \cup members]
      BY <1>2 DEF RosterAnswers
    <2>1. /\ InPlan("rosters")
          /\ plan' = [plan EXCEPT !.phase = "members", !.members = members,
                                  !.named = @ \cup members]
          /\ outcome' = outcome /\ tasks' = tasks /\ threads' = threads /\ seen' = seen
          /\ issues' = issues /\ storesVars' = storesVars
      BY <1>2, <2>0 DEF RosterAnswers
    <2>2. "rosters" \notin PoolPhases BY DEF PoolPhases
    <2>3. /\ plan.phase = "rosters" /\ \A x \in plan.named : SiteOwes(x)
          /\ SiteTypeOK /\ SitePlan
          /\ tasks \subseteq WindowMeetings \cup WindowDocuments \cup Entries
          /\ issues \subseteq Emitted \cup Topics
      BY <2>1, <2>2, SiteAtRest
    <2>4. /\ members \subseteq Rosters /\ members \subseteq Emitted
          /\ members \subseteq MembersOf[Head(plan.rosters)]
      <3>1. plan.rosters \in Seq({"committees", "parties", "persons"}) /\ plan.rosters # <<>>
        BY <2>3 DEF SiteTypeOK, SitePlan
      <3>2. Head(plan.rosters) \in {"committees", "parties", "persons"} BY <3>1
      <3>3. members \subseteq MembersOf[Head(plan.rosters)] BY <2>0 DEF MayAnswer
      <3> QED BY <3>2, <3>3 DEF Emitted
    <2>5. SiteTypeOK' BY <2>1, <2>3, <2>4 DEF SiteTypeOK
    <2>6. /\ (plan.phase)' = "members" /\ (plan.rosters)' = plan.rosters
          /\ (plan.members)' = members /\ (plan.chunks)' = plan.chunks
          /\ (plan.named)' = plan.named \cup members
          /\ (plan.found)' = plan.found /\ (plan.supplier)' = plan.supplier
      BY <2>1, <2>3 DEF SiteTypeOK
    <2>7. SitePlan' BY <2>1, <2>3, <2>4, <2>6 DEF SitePlan, IsGO
    <2>8. committed' = committed /\ withheld' = withheld /\ plan.members = {}
      BY <2>1, <2>3 DEF storesVars, SitePlan
    <2>9. \A x \in (plan.named)' : SiteOwes(x)'
      BY <2>1, <2>3, <2>6, <2>8 DEF SiteOwes, SiteDealt, SiteReported
    <2> QED BY <2>1, <2>2, <2>3, <2>5, <2>7, <2>9, SiteControl
  <1>3. CASE RosterDone
    <2> DEFINE next == IF Tail(plan.rosters) = <<>> THEN "listing" ELSE "rosters"
    <2>1. /\ InPlan("members") /\ plan.members = {} /\ plan' = AfterRoster
          /\ outcome' = outcome /\ tasks' = tasks /\ threads' = threads /\ seen' = seen
          /\ issues' = issues /\ storesVars' = storesVars
      BY <1>3 DEF RosterDone
    <2>2. "members" \notin PoolPhases BY DEF PoolPhases
    <2>3. /\ plan.phase = "members" /\ \A x \in plan.named : SiteOwes(x)
          /\ SiteTypeOK /\ SitePlan
          /\ tasks \subseteq WindowMeetings \cup WindowDocuments \cup Entries
          /\ issues \subseteq Emitted \cup Topics
      BY <2>1, <2>2, SiteAtRest
    <2>4. /\ SiteTypeOK' /\ (plan.phase)' = next /\ (plan.rosters)' = Tail(plan.rosters)
          /\ (plan.members)' = {} /\ (plan.chunks)' = plan.chunks
          /\ (plan.named)' = plan.named
          /\ (plan.found)' = plan.found /\ (plan.supplier)' = plan.supplier
      BY <2>1, <2>3, AfterRosterIs
    <2>5. SitePlan' BY <2>1, <2>3, <2>4 DEF SitePlan, IsGO
    <2>6. committed' = committed /\ withheld' = withheld BY <2>1 DEF storesVars
    <2>7. \A x \in (plan.named)' : SiteOwes(x)'
      BY <2>1, <2>3, <2>4, <2>6 DEF SiteOwes, SiteDealt, SiteReported
    <2> QED BY <2>1, <2>2, <2>3, <2>4, <2>5, <2>7, SiteControl
  <1>4. CASE SiteLists
    <2>0. PICK listed \in MayAnswer(HeldIn(Head(plan.chunks))) :
               /\ tasks' = tasks \cup listed
               /\ plan' = [plan EXCEPT !.chunks = Tail(@),
                             !.named = @ \cup listed \cup
                                       IF IsGO THEN UNION { Attached[m] : m \in listed } ELSE {}]
      BY <1>4 DEF SiteLists
    <2> DEFINE docs == UNION { Attached[m] : m \in listed }
    <2>1. /\ InPlan("listing") /\ plan.chunks # <<>> /\ tasks' = tasks \cup listed
          /\ plan' = [plan EXCEPT !.chunks = Tail(@),
                                  !.named = @ \cup listed \cup IF IsGO THEN docs ELSE {}]
          /\ outcome' = outcome /\ threads' = threads /\ seen' = seen
          /\ issues' = issues /\ storesVars' = storesVars
      BY <1>4, <2>0 DEF SiteLists
    <2>2. "listing" \notin PoolPhases BY DEF PoolPhases
    <2>3. /\ plan.phase = "listing" /\ \A x \in plan.named : SiteOwes(x)
          /\ SiteTypeOK /\ SitePlan
          /\ tasks \subseteq WindowMeetings \cup WindowDocuments \cup Entries
          /\ issues \subseteq Emitted \cup Topics
      BY <2>1, <2>2, SiteAtRest
    <2>4. listed \subseteq WindowMeetings BY <2>0 DEF MayAnswer, HeldIn, ListedMeetings
    <2>5. docs \subseteq WindowDocuments /\ \A x \in docs : \E m \in listed : x \in Attached[m]
      BY <2>4
    <2> HIDE DEF docs
    <2>6. plan.chunks \in Seq(Ranges) /\ Tail(plan.chunks) \in Seq(Ranges)
          /\ Len(Tail(plan.chunks)) = Len(plan.chunks) - 1
      BY <2>1, <2>3 DEF SiteTypeOK
    <2>7. SiteTypeOK' BY <2>1, <2>3, <2>4, <2>5, <2>6 DEF SiteTypeOK, Emitted
    <2>8. /\ (plan.phase)' = "listing" /\ (plan.rosters)' = plan.rosters
          /\ (plan.members)' = plan.members /\ (plan.chunks)' = Tail(plan.chunks)
          /\ (plan.named)' \subseteq plan.named \cup listed \cup docs
          /\ (plan.found)' = plan.found /\ (plan.supplier)' = plan.supplier
      BY <2>1, <2>3 DEF SiteTypeOK
    <2>9. ~IsGO => Tail(plan.chunks) = <<>> BY <2>1, <2>3, <2>6 DEF SitePlan
    <2>10. SitePlan' BY <2>1, <2>3, <2>4, <2>8, <2>9 DEF SitePlan, IsGO
    <2>11. committed' = committed /\ withheld' = withheld BY <2>1 DEF storesVars
    <2>12. \A x \in plan.named \cup listed \cup docs : SiteOwes(x)'
      <3>1. ASSUME NEW x \in plan.named PROVE SiteOwes(x)'
        BY <2>1, <2>3, <2>8, <2>11, <3>1 DEF SiteOwes, SiteDealt, SiteReported
      <3>2. ASSUME NEW x \in listed PROVE SiteOwes(x)' BY <2>1, <3>2 DEF SiteOwes
      <3>3. ASSUME NEW x \in docs PROVE SiteOwes(x)'
        BY <2>1, <2>4, <2>5, <2>8, <3>3 DEF SiteOwes
      <3> QED BY <3>1, <3>2, <3>3
    <2> QED BY <2>1, <2>2, <2>3, <2>4, <2>7, <2>8, <2>10, <2>12, SiteControl
  <1>5. CASE SiteListed
    <2>1. /\ InPlan("listing") /\ plan' = [plan EXCEPT !.phase = "meetings"]
          /\ outcome' = outcome /\ tasks' = tasks /\ threads' = threads /\ seen' = seen
          /\ issues' = issues /\ storesVars' = storesVars
      BY <1>5 DEF SiteListed
    <2>2. "listing" \notin PoolPhases BY DEF PoolPhases
    <2>3. /\ plan.phase = "listing" /\ \A x \in plan.named : SiteOwes(x)
          /\ SiteTypeOK /\ SitePlan
          /\ tasks \subseteq WindowMeetings \cup WindowDocuments \cup Entries
          /\ issues \subseteq Emitted \cup Topics
      BY <2>1, <2>2, SiteAtRest
    <2>4. SiteTypeOK' BY <2>1, <2>3 DEF SiteTypeOK
    <2>5. /\ (plan.phase)' = "meetings" /\ (plan.members)' = plan.members
          /\ (plan.named)' = plan.named /\ (plan.found)' = plan.found
      BY <2>1, <2>3 DEF SiteTypeOK
    <2>6. SitePlan' BY <2>1, <2>3, <2>5 DEF SitePlan, IsGO
    <2>7. committed' = committed /\ withheld' = withheld BY <2>1 DEF storesVars
    <2>8. \A x \in (plan.named)' : SiteOwes(x)'
      BY <2>1, <2>3, <2>5, <2>7 DEF SiteOwes, SiteDealt, SiteReported
    <2> QED BY <2>1, <2>2, <2>3, <2>4, <2>6, <2>8, SiteControl
  <1>6. CASE SiteMeetingsDone
    <2> DEFINE docs == UNION { Attached[m] : m \in plan.found }
    <2>1. /\ PoolDone("meetings") /\ plan' = [plan EXCEPT !.phase = "documents"]
          /\ tasks' = docs
          /\ outcome' = outcome /\ threads' = threads /\ seen' = seen
          /\ issues' = issues /\ storesVars' = storesVars
      BY <1>6 DEF SiteMeetingsDone
    <2>2. /\ plan.phase = "meetings" /\ tasks = {} /\ \A x \in plan.named : SiteOwes(x)
          /\ SiteTypeOK /\ SitePlan /\ issues \subseteq Emitted \cup Topics
      BY <2>1, SiteAtRest DEF PoolPhases
    <2>3. /\ docs \subseteq WindowDocuments
          /\ \A m \in plan.found : \A x \in Attached[m] : x \in docs
      <3>1. plan.found \subseteq WindowMeetings BY <2>2 DEF SiteTypeOK
      <3> QED BY <3>1
    <2> HIDE DEF docs
    <2>4. SiteTypeOK' BY <2>1, <2>2 DEF SiteTypeOK
    <2>5. /\ (plan.phase)' = "documents" /\ (plan.members)' = plan.members
          /\ (plan.named)' = plan.named
      BY <2>1, <2>2 DEF SiteTypeOK
    <2>6. SitePlan' BY <2>1, <2>2, <2>3, <2>5 DEF SitePlan, IsGO
    <2>7. committed' = committed /\ withheld' = withheld BY <2>1 DEF storesVars
    <2>8. \A x \in (plan.named)' : SiteOwes(x)'
      BY <2>1, <2>2, <2>3, <2>5, <2>7 DEF SiteOwes, SiteDealt, SiteReported
    <2> QED BY <2>1, <2>2, <2>3, <2>4, <2>6, <2>8, SiteControl
  <1>7. CASE SiteDocumentsDone
    <2>1. /\ PoolDone("documents") /\ plan' = [plan EXCEPT !.phase = "flush"]
          /\ outcome' = outcome /\ tasks' = tasks /\ threads' = threads /\ seen' = seen
          /\ issues' = issues /\ storesVars' = storesVars
      BY <1>7 DEF SiteDocumentsDone
    <2>2. /\ plan.phase = "documents" /\ tasks = {} /\ \A x \in plan.named : SiteOwes(x)
          /\ SiteTypeOK /\ SitePlan /\ issues \subseteq Emitted \cup Topics
      BY <2>1, SiteAtRest DEF PoolPhases
    <2>3. SiteTypeOK' BY <2>1, <2>2 DEF SiteTypeOK
    <2>4. /\ (plan.phase)' = "flush" /\ (plan.members)' = plan.members
          /\ (plan.named)' = plan.named
      BY <2>1, <2>2 DEF SiteTypeOK
    <2>5. SitePlan' BY <2>1, <2>2, <2>4 DEF SitePlan, IsGO
    <2>6. committed' = committed /\ withheld' = withheld BY <2>1 DEF storesVars
    <2>7. \A x \in (plan.named)' : SiteOwes(x)'
      BY <2>1, <2>2, <2>4, <2>6 DEF SiteOwes, SiteDealt, SiteReported
    <2> QED BY <2>1, <2>2, <2>3, <2>5, <2>7, SiteControl
  <1> QED BY <1>1, <1>2, <1>3, <1>4, <1>5, <1>6, <1>7

(* Where an await of the control fails.                                    *)
LEMMA SiteListMisses ==
  ASSUME SiteInvariant, SiteListFails
  PROVE  SiteInvariant'
  <1>1. /\ InPlan("listing") /\ plan.chunks # <<>>
        /\ issues' = issues \cup {IF IsGO THEN "listing" ELSE "unnamed"}
        /\ plan' = [plan EXCEPT !.chunks = Tail(@), !.phase = IF IsGO THEN @ ELSE "flush"]
        /\ outcome' = outcome /\ threads' = threads /\ seen' = seen /\ tasks' = tasks
        /\ storesVars' = storesVars
    BY DEF SiteListFails
  <1>2. "listing" \notin PoolPhases BY DEF PoolPhases
  <1>3. /\ plan.phase = "listing" /\ \A x \in plan.named : SiteOwes(x)
        /\ SiteTypeOK /\ SitePlan
        /\ tasks \subseteq WindowMeetings \cup WindowDocuments \cup Entries
        /\ issues \subseteq Emitted \cup Topics
    BY <1>1, <1>2, SiteAtRest
  <1>4. /\ plan.chunks \in Seq(Ranges) /\ Tail(plan.chunks) \in Seq(Ranges)
        /\ Len(Tail(plan.chunks)) = Len(plan.chunks) - 1
    BY <1>1, <1>3 DEF SiteTypeOK
  <1>5. SiteTypeOK' BY <1>1, <1>3, <1>4 DEF SiteTypeOK
  <1>6. /\ (plan.phase)' = IF IsGO THEN "listing" ELSE "flush"
        /\ (plan.members)' = plan.members /\ (plan.chunks)' = Tail(plan.chunks)
        /\ (plan.named)' = plan.named
        /\ (plan.found)' = plan.found /\ (plan.supplier)' = plan.supplier
    BY <1>1, <1>3 DEF SiteTypeOK
  <1>7. plan.found = {} /\ (~IsGO => tasks = {}) BY <1>1, <1>3 DEF SitePlan
  <1>8. SitePlan' BY <1>1, <1>3, <1>4, <1>6, <1>7 DEF SitePlan, IsGO
  <1>9. committed' = committed /\ withheld' = withheld BY <1>1 DEF storesVars
  <1>10. \A x \in (plan.named)' : SiteOwes(x)'
    <2> SUFFICES ASSUME NEW x \in plan.named PROVE SiteOwes(x)' BY <1>6
    <2>1. SiteDealt(x) => SiteDealt(x)' BY <1>1, <1>9, SiteStaysDealt
    <2>2. SiteOwes(x) BY <1>3
    <2> QED BY <1>1, <1>3, <1>6, <1>7, <2>1, <2>2 DEF SiteOwes
  <1>11. issues \subseteq issues' /\ issues' \subseteq Emitted \cup Topics
    BY <1>1, <1>3 DEF Topics
  <1> QED BY <1>1, <1>2, <1>3, <1>5, <1>8, <1>10, <1>11, SiteControl

LEMMA SiteRosterMisses ==
  ASSUME SiteInvariant, RosterFails
  PROVE  SiteInvariant'
  <1> USE ImportRunAssumption
  <1>1. SiteTypeOK /\ RunGoesOn /\ SitePlan /\ SiteHands /\ SiteAccounts /\ RowsAreSent(SiteTold)
    BY DEF SiteInvariant
  <1>2. /\ outcome = "running" /\ plan.phase \in {"rosters", "members"} /\ plan' = AfterRoster
        /\ issues' = issues \cup {"unnamed"}
        /\ threads' = [threads EXCEPT ![Main] = Resting]
        /\ outcome' = outcome /\ tasks' = tasks /\ seen' = seen
        /\ committed' = committed /\ buffered' = buffered /\ indexed' = indexed
        /\ withheld' = withheld
    BY DEF RosterFails, storesVars
  <1>3. /\ SiteTypeOK'
        /\ (plan.phase)' = IF Tail(plan.rosters) = <<>> THEN "listing" ELSE "rosters"
        /\ (plan.rosters)' = Tail(plan.rosters)
        /\ (plan.members)' = {} /\ (plan.chunks)' = plan.chunks
        /\ (plan.named)' = plan.named
        /\ (plan.found)' = plan.found /\ (plan.supplier)' = plan.supplier
        /\ Head(plan.rosters) \in {"committees", "parties", "persons"}
    BY <1>1, <1>2, AfterRosterIs
  <1>4. SitePlan' BY <1>1, <1>2, <1>3 DEF SitePlan, IsGO
  <1>5. /\ threads' \in [Pool \cup {Main} -> ThreadRow] /\ threads'[Main] = Resting
        /\ \A u \in Pool : threads'[u] = threads[u]
    BY <1>1, <1>2, RestingRow DEF RunGoesOn, RunTypeOK
  <1>6. \A u \in Pool : threads[u] = Resting BY <1>1, <1>2 DEF RunGoesOn, PoolPhases
  <1>7. /\ tasks \subseteq WindowMeetings \cup WindowDocuments \cup Entries
        /\ issues' \subseteq Emitted \cup Topics /\ seen \subseteq WindowDocuments
        /\ committed \subseteq Emitted /\ buffered \subseteq committed
        /\ indexed \subseteq committed /\ withheld \subseteq WindowDocuments \cup Recordings
    BY <1>1, <1>2, <1>3 DEF RunGoesOn, RunTypeOK, Topics
  <1>8. RunGoesOn'
    <2>1. threads'[Main].batch \subseteq committed' BY <1>5 DEF Resting
    <2>2. plan.phase \notin PoolPhases BY <1>2 DEF PoolPhases
    <2> QED BY <1>1, <1>2, <1>5, <1>7, <2>1, <2>2, MainGoesOn
  <1>9. SiteHands'
    <2>1. \A u \in Pool : ~AtWork(u)' BY <1>5, <1>6 DEF AtWork, Resting
    <2> QED BY <1>5, <2>1 DEF SiteHands
  <1>10. SiteAccounts'
    <2> SUFFICES ASSUME NEW x \in plan.named, ~SiteDealt(x)'
                 PROVE  Held(x)' \/ /\ (plan.phase)' \in {"listing", "meetings"}
                                    /\ \E m \in WindowMeetings : x \in Attached[m]
                                         /\ (Held(m)' \/ m \in (plan.found)')
      BY <1>3 DEF SiteAccounts
    <2>1. ~SiteDealt(x) BY <1>2, SiteStaysDealt
    <2>2. \A y : ~Held(y)
      <3>1. tasks = {} BY <1>1, <1>2 DEF SitePlan
      <3> QED BY <1>6, <3>1 DEF Held, Holds, AtWork, Resting
    <2>3. x \in plan.members BY <1>1, <1>2, <2>1, <2>2 DEF SiteAccounts, Failed
    <2>4. plan.phase = "members" /\ plan.members \subseteq MembersOf[Head(plan.rosters)]
      BY <1>1, <1>2, <2>3 DEF SitePlan
    <2>5. SiteReported(x)'
      <3>1. x \in Rosters BY <1>3, <2>3, <2>4
      <3> QED BY <1>2, <3>1 DEF SiteReported
    <2> QED BY <2>5 DEF SiteDealt
  <1>11. RowsAreSent(SiteTold)'
    <2>1. CASE threads[Main] = Resting
      <3>1. threads' = threads BY <1>1, <1>2, <2>1 DEF RunGoesOn, RunTypeOK
      <3>2. storesVars' = storesVars /\ SiteTold \subseteq SiteTold'
        BY <1>2, SiteStaysTold DEF storesVars
      <3> QED BY <1>1, <1>2, <3>1, <3>2, ControlRows DEF RowsAreSent, Failed, OnItsWay
    <2>2. CASE threads[Main] # Resting
      <3>1. PICK x : x = threads[Main].hand OBVIOUS
      <3>2. x \in committed \cap MembersOf[Head(plan.rosters)]
        BY <1>1, <1>2, <2>2, <3>1 DEF SiteHands, Failed
      <3>3. SiteReported(x)'
        <4>1. x \in Rosters BY <1>3, <3>2
        <4> QED BY <1>2, <4>1 DEF SiteReported
      <3>4. x \in committed' \cap SiteTold' BY <1>2, <1>7, <3>2, <3>3 DEF SiteTold
      <3> QED BY <3>4 DEF RowsAreSent
    <2> QED BY <2>1, <2>2
  <1> QED BY <1>3, <1>4, <1>8, <1>9, <1>10, <1>11 DEF SiteInvariant

LEMMA SiteMemberGoesOn ==
  ASSUME SiteInvariant, NextMember
  PROVE  SiteInvariant'
  <1> USE ImportRunAssumption
  <1>1. SiteTypeOK /\ RunGoesOn /\ SitePlan /\ SiteAccounts /\ RowsAreSent(SiteTold)
        /\ tasks \subseteq WindowMeetings \cup WindowDocuments \cup Entries
    BY DEF SiteInvariant, RunGoesOn, RunTypeOK
  <1>2. PICK x \in plan.members :
             plan' = [plan EXCEPT !.members = @ \ {x}] /\ Commit(Main, x, {})
    BY DEF NextMember
  <1>3. /\ InPlan("members") /\ outcome' = outcome /\ tasks' = tasks /\ issues' = issues
    BY DEF NextMember
  <1>4. /\ plan.phase = "members" /\ outcome = "running" /\ threads[Main] = Resting
        /\ \A u \in Pool : threads[u] = Resting
    BY <1>1, <1>3 DEF InPlan, RunGoesOn, PoolPhases
  <1>5. /\ x \in Emitted /\ x \in MembersOf[Head(plan.rosters)]
        /\ x \in Rosters
    BY <1>1, <1>2, <1>4 DEF SitePlan, SiteTypeOK, Emitted
  <1>6. /\ RunGoesOn' /\ WorkerStep(Main) /\ KeepsRows(Main)
        /\ seen' = seen /\ committed' = committed \cup {x} /\ withheld' = withheld
        /\ \/ threads'[Main] = Resting
           \/ /\ threads'[Main].step = "indexing" /\ threads'[Main].hand = x
              /\ threads'[Main].rest = {}
    <2>1. plan.phase \notin PoolPhases BY <1>4 DEF PoolPhases
    <2> QED BY <1>1, <1>2, <1>3, <1>4, <1>5, <2>1, MainCommits
  <1>7. SiteTypeOK' BY <1>1, <1>2 DEF SiteTypeOK
  <1>8. /\ (plan.phase)' = "members" /\ (plan.rosters)' = plan.rosters
        /\ (plan.members)' = plan.members \ {x} /\ (plan.chunks)' = plan.chunks
        /\ (plan.named)' = plan.named
        /\ (plan.found)' = plan.found /\ (plan.supplier)' = plan.supplier
    BY <1>1, <1>2, <1>4 DEF SiteTypeOK
  <1>9. SitePlan' BY <1>1, <1>3, <1>4, <1>8 DEF SitePlan, IsGO
  <1>10. \A u \in Pool : threads'[u] = Resting BY <1>4, <1>6 DEF WorkerStep
  <1>11. SiteHands'
    <2>1. \A u \in Pool : ~AtWork(u)' BY <1>10 DEF AtWork, Resting
    <2> QED BY <1>5, <1>6, <1>8, <2>1 DEF SiteHands
  <1>12. SiteAccounts'
    <2> SUFFICES ASSUME NEW y \in plan.named, ~SiteDealt(y)', y \notin plan.members \ {x}
                 PROVE  Held(y)'
      BY <1>8 DEF SiteAccounts
    <2>1. ~SiteDealt(y) BY <1>3, <1>6, SiteStaysDealt
    <2>2. y # x BY <1>6 DEF SiteDealt
    <2>3. Held(y) BY <1>1, <1>4, <2>1, <2>2 DEF SiteAccounts, Failed
    <2> QED BY <1>3, <1>4, <1>10, <2>3 DEF Held, Holds, AtWork, Resting
  <1>13. RowsAreSent(SiteTold)' BY <1>1, <1>6, SiteRowsStay
  <1> QED BY <1>6, <1>7, <1>9, <1>11, <1>12, <1>13 DEF SiteInvariant

LEMMA SiteRunStep ==
  ASSUME SiteInvariant, RunStep
  PROVE  SiteInvariant'
  <1> USE ImportRunAssumption
  <1>1. SiteTypeOK /\ RunGoesOn /\ SitePlan /\ SiteHands /\ SiteAccounts /\ RowsAreSent(SiteTold)
    BY DEF SiteInvariant
  <1>2. ~Failed /\ threads[Main] # Resting =>
          threads[Main].rest = {} /\ plan.phase \notin PoolPhases
    BY <1>1 DEF SiteHands, PoolPhases
  <1>3. /\ RunGoesOn' /\ WorkerStep(Main) /\ KeepsRows(Main)
        /\ UNCHANGED <<tasks, seen, issues, committed, withheld>>
        /\ \/ plan' = plan
           \/ plan.phase = "flush" /\ plan' = [plan EXCEPT !.phase = "done"]
        /\ \/ outcome' = "failed" \/ threads'[Main] = Resting
           \/ /\ plan.phase = "flush" /\ plan' = plan
              /\ threads'[Main].step = "indexing" /\ threads'[Main].rest = {}
    BY <1>1, <1>2, RunSteps
  <1>4. SiteTypeOK' BY <1>1, <1>3 DEF SiteTypeOK
  <1>5. /\ (plan.rosters)' = plan.rosters /\ (plan.members)' = plan.members
        /\ (plan.chunks)' = plan.chunks /\ (plan.named)' = plan.named
        /\ (plan.found)' = plan.found /\ (plan.supplier)' = plan.supplier
        /\ \/ (plan.phase)' = plan.phase
           \/ plan.phase = "flush" /\ (plan.phase)' = "done"
    BY <1>1, <1>3 DEF SiteTypeOK
  <1>6. SitePlan' BY <1>1, <1>3, <1>5 DEF SitePlan, IsGO
  <1>7. /\ \A u \in Pool : threads'[u] = threads[u]
        /\ outcome = "failed" => outcome' = "failed"
    BY <1>3 DEF WorkerStep
  <1>8. SiteHands'
    <2>1. ASSUME NEW u \in Pool, AtWork(u)'
          PROVE  /\ threads'[u].rest = {} /\ threads'[u].task = threads'[u].hand
                 /\ (plan.phase)' = "meetings" => threads'[u].hand \in WindowMeetings
                 /\ (plan.phase)' = "documents" => threads'[u].hand \in WindowDocuments
      BY <1>1, <1>5, <1>7, <2>1 DEF SiteHands, AtWork
    <2>2. ~Failed' /\ threads'[Main] # Resting =>
            /\ (plan.phase)' = "flush" /\ threads'[Main].step = "indexing"
            /\ threads'[Main].rest = {}
      BY <1>3 DEF Failed
    <2> QED BY <2>1, <2>2 DEF SiteHands
  <1>9. SiteAccounts'
    <2>1. \A y : Held(y)' <=> Held(y) BY <1>3, <1>7 DEF Held, Holds, AtWork
    <2>2. \A y : SiteDealt(y)' <=> SiteDealt(y) BY <1>3 DEF SiteDealt, SiteReported
    <2> QED BY <1>1, <1>5, <1>7, <2>1, <2>2 DEF SiteAccounts, Failed
  <1>10. RowsAreSent(SiteTold)' BY <1>1, <1>3, SiteRowsStay
  <1> QED BY <1>3, <1>4, <1>6, <1>8, <1>9, <1>10 DEF SiteInvariant

LEMMA SiteStarts == SiteInit => SiteInvariant
  <1> USE ImportRunAssumption, SiteAssumption
  <1> SUFFICES ASSUME SiteInit PROVE SiteInvariant OBVIOUS
  <1>1. PICK s \in {"gemeenteoplossingen", "parlaeus"}, m \in Modes :
          plan = [supplier |-> s, mode |-> m, phase |-> "types",
                  rosters |-> RosterNames, members |-> {},
                  chunks |-> SiteChunks(s), found |-> {}, named |-> {}]
    BY DEF SiteInit
  <1>2. RunInit BY DEF SiteInit
  <1>3. /\ RunGoesOn /\ RowsAreSent(SiteTold) /\ tasks = {}
        /\ \A t \in Pool \cup {Main} : threads[t] = Resting
    BY <1>2, RunStarts DEF RunInit
  <1>4. /\ plan.phase = "types" /\ plan.rosters = RosterNames /\ plan.members = {}
        /\ plan.chunks = SiteChunks(s) /\ plan.found = {} /\ plan.named = {}
        /\ plan.supplier = s
    BY <1>1
  <1>5. \A days \in Nat \ {0} : Chunks(days) \in Seq(Ranges) BY ChunksAreRanges
  <1>6. SiteChunks(s) \in Seq(Ranges) BY <1>5 DEF SiteChunks
  <1>7. RosterNames \in Seq({"committees", "parties", "persons"}) /\ RosterNames # <<>>
    BY DEF RosterNames
  <1>8. SiteTypeOK BY <1>1, <1>6, <1>7 DEF SiteTypeOK
  <1>9. s = "parlaeus" => Len(SiteChunks(s)) <= 1
    <2>1. LastWindowDay \div (LastWindowDay + 1) = 0 OBVIOUS
    <2> QED BY <2>1 DEF SiteChunks, Chunks
  <1>10. SitePlan BY <1>3, <1>4, <1>7, <1>9 DEF SitePlan, IsGO
  <1>11. SiteHands
    <2>1. \A t \in Pool : ~AtWork(t) BY <1>3 DEF AtWork, Resting
    <2> QED BY <1>3, <2>1 DEF SiteHands
  <1>12. SiteAccounts BY <1>4 DEF SiteAccounts
  <1> QED BY <1>3, <1>8, <1>10, <1>11, <1>12 DEF SiteInvariant

LEMMA SiteStep ==
  ASSUME SiteInvariant, SiteNext
  PROVE  SiteInvariant'
  <1>1. CASE RunStep BY <1>1, SiteRunStep
  <1>2. CASE \E t \in Pool : DocumentStep(t) \/ SiteMeetingReady(t) \/ SiteMeetingFails(t)
    <2>1. PICK t \in Pool : DocumentStep(t) \/ SiteMeetingReady(t) \/ SiteMeetingFails(t)
      BY <1>2
    <2> QED BY <2>1, SiteTakes, SiteNotes, SiteDocumentStep, SiteMeets, SiteMisses
            DEF DocumentStep
  <1>3. CASE \/ SiteBegins \/ RosterAnswers \/ RosterDone
             \/ SiteLists \/ SiteListed \/ SiteMeetingsDone \/ SiteDocumentsDone
    BY <1>3, SitePlansOn
  <1>4. CASE NextMember \/ RosterFails \/ SiteListFails
    BY <1>4, SiteMemberGoesOn, SiteRosterMisses, SiteListMisses
  <1> QED BY <1>1, <1>2, <1>3, <1>4 DEF SiteNext

LEMMA SiteAccountsForAll == SiteInvariant => SiteLosesNothing
  <1> USE ImportRunAssumption
  <1> SUFFICES ASSUME SiteInvariant, outcome \in {"succeeded", "partial"}
               PROVE  SiteLosesNothing
    BY DEF SiteLosesNothing, LosesNothing
  <1>1. SiteTypeOK /\ RunGoesOn /\ SitePlan /\ SiteAccounts /\ RowsAreSent(SiteTold)
    BY DEF SiteInvariant
  <1>2. /\ plan.phase = "done" /\ buffered = {} /\ ~Failed /\ committed \subseteq Emitted
        /\ \A t \in Pool \cup {Main} : threads[t] = Resting
    BY <1>1 DEF RunGoesOn, RunTypeOK, Failed, PoolPhases
  <1>3. tasks = {} /\ plan.members = {} BY <1>1, <1>2 DEF SitePlan
  <1>4. \A x : ~Held(x) BY <1>2, <1>3 DEF Held, Holds, AtWork, Resting
  <1>5. \A x \in plan.named : SiteDealt(x) BY <1>1, <1>2, <1>3, <1>4 DEF SiteAccounts
  <1>6. committed \subseteq indexed \/ \E x \in committed : SiteReported(x)
    <2>1. \A x : ~OnItsWay(x) BY <1>2 DEF OnItsWay, Resting
    <2>2. committed \cap SiteTold # {} => \E x \in committed : SiteReported(x)
      BY DEF SiteTold, SiteReported
    <2> QED BY <1>1, <1>2, <2>1, <2>2 DEF RowsAreSent
  <1>7. outcome = "succeeded" => \A x : ~SiteReported(x)
    BY <1>1 DEF RunGoesOn, SiteReported
  <1> QED BY <1>5, <1>6, <1>7 DEF SiteLosesNothing, LosesNothing, SiteDealt

LEMMA SiteStutters ==
  ASSUME SiteInvariant, UNCHANGED importVars
  PROVE  SiteInvariant'
  <1>1. /\ plan' = plan /\ outcome' = outcome /\ tasks' = tasks /\ threads' = threads
        /\ seen' = seen /\ issues' = issues /\ committed' = committed
        /\ buffered' = buffered /\ indexed' = indexed /\ withheld' = withheld
    BY DEF importVars
  <1>2. SiteTypeOK' /\ RunGoesOn' /\ SitePlan'
    BY <1>1 DEF SiteInvariant, SiteTypeOK, RunGoesOn, RunTypeOK, SitePlan, IsGO
  <1>3. SiteHands' /\ RowsAreSent(SiteTold)'
    BY <1>1 DEF SiteInvariant, SiteHands, AtWork, Failed, RowsAreSent, OnItsWay, SiteTold,
                SiteReported
  <1>4. SiteAccounts'
    BY <1>1 DEF SiteInvariant, SiteAccounts, Failed, SiteDealt, SiteReported, Held, Holds,
                AtWork
  <1> QED BY <1>2, <1>3, <1>4 DEF SiteInvariant

(* An import from a council's own site loses nothing of what the supplier  *)
(* named, however its rosters, parts of the window and meetings fail and   *)
(* whatever its workers do meanwhile; of a roster that breaks off there is *)
(* an issue, which names neither the roster nor who is left out.           *)
THEOREM SitesLoseNothing == SiteSpec => []SiteLosesNothing
  <1>1. SiteInvariant /\ [SiteNext]_importVars => SiteInvariant'
    BY SiteStep, SiteStutters
  <1> QED BY <1>1, SiteStarts, SiteAccountsForAll, PTL DEF SiteSpec
-----------------------------------------------------------------------------
(* What a worker of a Notubiz import has in hand.                          *)
NotubizHand(t) ==
    IF AtWork(t)
    THEN IF plan.phase = "meetings" THEN AtMeeting(threads[t])
         ELSE threads[t].rest = {} /\ threads[t].hand \in WindowDocuments
    ELSE threads[t].hand # Media

NotubizDealt(x) == x \in committed \cup withheld \cup issues

LEMMA NotubizMovesOn ==
  ASSUME NEW t \in Pool, AtWork(t), NotubizHands,
         NEW rest, MovesOn(t, rest), (plan.phase)' = plan.phase, threads[t].hand # Media,
         IF plan.phase = "meetings" THEN rest \subseteq Recordings \/ rest = {Media}
         ELSE rest = {}
  PROVE  NotubizHand(t)'
  <1> USE ImportRunAssumption
  <1>1. CASE threads'[t].step \in {"resting", "rejected"} /\ threads'[t].hand = NoItem
    BY <1>1 DEF NotubizHand, AtWork
  <1>2. CASE /\ threads'[t].step = "indexing" /\ threads'[t].task = threads[t].task
             /\ threads'[t].hand = threads[t].hand /\ threads'[t].rest = rest
    BY <1>2 DEF NotubizHand, NotubizHands, AtWork, AtMeeting
  <1>3. CASE /\ threads'[t].step = "fetching" /\ threads'[t].task = threads[t].task
             /\ threads'[t].hand \in rest /\ threads'[t].rest = rest \ {threads'[t].hand}
    <2>1. plan.phase = "meetings" BY <1>3
    <2>2. threads'[t].task \in WindowMeetings BY <1>3, <2>1 DEF NotubizHands, AtMeeting
    <2>3. Media \notin Recordings /\ Media \notin WindowMeetings BY DEF Emitted
    <2>4. CASE rest \subseteq Recordings
      BY <1>3, <2>1, <2>2, <2>3, <2>4 DEF NotubizHand, AtWork, AtMeeting
    <2>5. CASE rest = {Media}
      BY <1>3, <2>1, <2>2, <2>3, <2>5 DEF NotubizHand, AtWork, AtMeeting
    <2> QED BY <2>1, <2>4, <2>5
  <1> QED BY <1>1, <1>2, <1>3 DEF MovesOn

LEMMA NotubizHandsStay ==
  ASSUME NotubizHands, NEW t \in Pool, WorkerStep(t), (plan.phase)' = plan.phase,
         NotubizHand(t)'
  PROVE  NotubizHands'
  <1>1. t # Main BY ImportRunAssumption DEF ImportRunAssumption
  <1>2. \A u \in Pool : u # t => threads'[u] = threads[u] BY DEF WorkerStep
  <1>3. threads'[Main] = threads[Main] /\ (outcome = "failed" => outcome' = "failed")
    BY <1>1 DEF WorkerStep
  <1>4. ~Failed' /\ threads'[Main] # Resting =>
          /\ (plan.phase)' \in {"emitted", "flush"} /\ threads'[Main].step = "indexing"
          /\ threads'[Main].rest = {}
    BY <1>3 DEF NotubizHands, Failed
  <1>5. ASSUME NEW u \in Pool PROVE NotubizHand(u)'
    BY <1>2 DEF NotubizHands, NotubizHand, AtWork, AtMeeting
  <1> QED BY <1>4, <1>5 DEF NotubizHands, NotubizHand

LEMMA NotubizRowsStay ==
  ASSUME NEW t \in Pool \cup {Main}, WorkerStep(t), KeepsRows(t), RowsAreSent(issues)
  PROVE  RowsAreSent(issues)'
  <1>1. issues \subseteq issues' BY DEF WorkerStep
  <1> QED BY <1>1, RowsStay DEF RowsAreSent, Failed, OnItsWay

LEMMA NotubizSeenStays ==
  ASSUME RunTypeOK, NEW t \in Pool, WorkerStep(t), DealsWithHand(t), SeenIsSeenTo(issues)
  PROVE  SeenIsSeenTo(issues)'
  <1>1. issues \subseteq issues' BY DEF WorkerStep
  <1> QED BY <1>1, SeenStays DEF SeenIsSeenTo, Failed

(* What a worker leaves is dealt with.                                     *)
LEMMA NotubizDeals ==
  ASSUME NotubizInvariant, NEW t \in Pool, AtWork(t), DealsWithHand(t),
         NEW x \in plan.named, Holds(t, x)
  PROVE  Failed' \/ NotubizDealt(x)' \/ Holds(t, x)'
  <1> USE ImportRunAssumption
  <1>1. x \in Emitted /\ seen \subseteq WindowDocuments /\ NotubizHands
    BY DEF NotubizInvariant, NotubizTypeOK, RunGoesOn, RunTypeOK
  <1>2. threads[t].rest \subseteq Recordings \cup {Media}
    BY <1>1 DEF NotubizHands, AtMeeting
  <1>3. CASE threads[t].step = "fetching" /\ threads[t].hand = x
    BY <1>1, <1>3 DEF DealsWithHand, Failed, NotubizDealt
  <1>4. CASE x \in threads[t].rest
    <2>1. x \notin seen BY <1>1, <1>2, <1>4 DEF Emitted
    <2> QED BY <1>4, <2>1 DEF DealsWithHand, Failed
  <1> QED BY <1>3, <1>4 DEF Holds

(* What a step of a worker has to see to, for the invariant to stay.       *)
LEMMA NotubizWorker ==
  ASSUME NotubizInvariant, NEW t \in Pool, AtWork(t), RunGoesOn', WorkerStep(t), KeepsRows(t),
         tasks' = tasks, NotubizTypeOK', (plan.phase)' = plan.phase, (plan.mode)' = plan.mode,
         (plan.entries)' = plan.entries, plan.found \subseteq (plan.found)',
         NotubizHand(t)', SeenIsSeenTo(issues)',
         ~Full => (plan.named)' \cap WindowMeetings = {},
         (plan.named)' \cap Entries \subseteq plan.named,
         \A x \in plan.named : Holds(t, x) => Failed' \/ NotubizDealt(x)' \/ Held(x)',
         \A x \in (plan.named)' \ plan.named :
            \/ Failed' \/ NotubizDealt(x)' \/ Held(x)'
            \/ Full /\ plan.phase = "meetings" /\ \E m \in (plan.found)' : x \in Attached[m]
  PROVE  NotubizInvariant'
  <1>1. /\ NotubizTypeOK /\ RunGoesOn /\ NotubizPlan /\ NotubizHands /\ NotubizAccounts
        /\ RowsAreSent(issues)
    BY DEF NotubizInvariant
  <1>2. NotubizPlan' BY <1>1 DEF NotubizPlan, Full
  <1>3. NotubizHands' BY <1>1, NotubizHandsStay
  <1>4. RowsAreSent(issues)' BY <1>1, NotubizRowsStay
  <1>5. NotubizAccounts'
    <2> SUFFICES ASSUME NEW x \in (plan.named)', ~Failed', ~NotubizDealt(x)', ~Held(x)'
                 PROVE  \/ /\ Full /\ plan.phase = "meetings"
                           /\ \E m \in (plan.found)' : x \in Attached[m]
                        \/ \E e \in plan.entries : x = e \/ x \in Attached[e]
      BY DEF NotubizAccounts, NotubizDealt, Full
    <2>1. CASE x \in plan.named
      <3>1. ~Failed /\ ~NotubizDealt(x) BY DEF WorkerStep, Failed, NotubizDealt
      <3>2. ~Held(x)
        <4>1. ~Holds(t, x) BY <2>1
        <4>2. x \notin tasks BY DEF Held
        <4>3. ASSUME NEW u \in Pool, u # t PROVE ~Holds(u, x)
          BY <4>3 DEF WorkerStep, Held, Holds, AtWork
        <4> QED BY <4>1, <4>2, <4>3 DEF Held
      <3> QED BY <1>1, <2>1, <3>1, <3>2 DEF NotubizAccounts, NotubizDealt
    <2> QED BY <2>1
  <1> QED BY <1>2, <1>3, <1>4, <1>5 DEF NotubizInvariant

(* A step of a worker that leaves the plan alone.                          *)
LEMMA NotubizWorks ==
  ASSUME NotubizInvariant, NEW t \in Pool, AtWork(t), RunGoesOn', WorkerStep(t), KeepsRows(t),
         DealsWithHand(t), NotubizHand(t)', plan' = plan, tasks' = tasks
  PROVE  NotubizInvariant'
  <1>1. NotubizTypeOK' /\ SeenIsSeenTo(issues)'
    BY NotubizSeenStays DEF NotubizInvariant, NotubizTypeOK, RunGoesOn
  <1>2. ~Full => plan.named \cap WindowMeetings = {}
    BY DEF NotubizInvariant, NotubizPlan
  <1>3. ASSUME NEW x \in plan.named, Holds(t, x)
        PROVE  Failed' \/ NotubizDealt(x)' \/ Held(x)'
    BY <1>3, NotubizDeals DEF Held
  <1> QED BY <1>1, <1>2, <1>3, NotubizWorker

LEMMA NotubizDocumentStep ==
  ASSUME NotubizInvariant, NEW t \in Pool,
         DocumentReady(t) \/ DocumentCaught(t) \/ BatchTaken(t)
  PROVE  NotubizInvariant'
  <1> USE ImportRunAssumption
  <1>1. /\ NotubizTypeOK /\ RunGoesOn /\ NotubizHands BY DEF NotubizInvariant
  <1>2. AtWork(t) BY DEF DocumentReady, DocumentCaught, BatchTaken, AtWork
  <1>3. threads[t].hand \in WindowDocuments => plan.phase # "meetings" /\ threads[t].rest = {}
    BY <1>1, <1>2 DEF NotubizHands, AtMeeting, Emitted
  <1>4. /\ RunGoesOn' /\ WorkerStep(t) /\ DealsWithHand(t) /\ KeepsRows(t)
        /\ MovesOn(t, threads[t].rest) /\ plan' = plan /\ tasks' = tasks
    BY <1>1, <1>3, DocumentDeals
  <1>5. threads[t].hand # Media
    <2>1. threads[t].hand \in WindowDocuments \/ threads[t].step = "indexing"
      BY DEF DocumentReady, DocumentCaught, BatchTaken
    <2> QED BY <1>1, <1>2, <2>1 DEF NotubizHands, AtMeeting, Emitted
  <1>6. IF plan.phase = "meetings"
        THEN threads[t].rest \subseteq Recordings \/ threads[t].rest = {Media}
        ELSE threads[t].rest = {}
    BY <1>1, <1>2 DEF NotubizHands, AtMeeting
  <1>7. NotubizHand(t)' BY <1>1, <1>2, <1>4, <1>5, <1>6, NotubizMovesOn
  <1> QED BY <1>2, <1>4, <1>7, NotubizWorks

LEMMA NotubizEnds ==
  ASSUME NotubizInvariant, NEW t \in Pool, AtWork(t), NEW x \in Emitted, EndWithIssue(t, x),
         threads[t].rest = {} \/ outcome' = "failed",
         threads[t].hand \in {x, Media} \/ outcome' = "failed",
         threads[t].step = "fetching" \/ threads[t].hand = x,
         UNCHANGED <<plan, tasks, seen, storesVars>>
  PROVE  NotubizInvariant'
  <1> USE ImportRunAssumption
  <1>1. RunGoesOn BY DEF NotubizInvariant
  <1>2. /\ RunGoesOn' /\ WorkerStep(t) /\ KeepsRows(t) /\ threads'[t].hand = NoItem
        /\ outcome' = "failed" \/ issues' = issues \cup {x}
        /\ threads'[t].step \in {"resting", "rejected"}
    BY <1>1, EndDeals
  <1>3. DealsWithHand(t) BY <1>2 DEF DealsWithHand, Emitted
  <1>4. NotubizHand(t)' BY <1>2 DEF NotubizHand, AtWork
  <1> QED BY <1>2, <1>3, <1>4, NotubizWorks

LEMMA NotubizNotes ==
  ASSUME NotubizInvariant, NEW t \in Pool, DocumentNoted(t) \/ TranscriptMissing(t)
  PROVE  NotubizInvariant'
  <1> USE ImportRunAssumption
  <1>1. RunGoesOn /\ NotubizHands BY DEF NotubizInvariant
  <1>2. /\ AtWork(t) /\ UNCHANGED <<plan, outcome, tasks, threads, seen, storesVars>>
        /\ threads[t].hand \in WindowDocuments \cup Recordings
    BY DEF DocumentNoted, TranscriptMissing, AtWork
  <1>3. PICK x \in Emitted \cup Topics : issues' = issues \cup {x}
    <2>1. CASE DocumentNoted(t) BY <2>1 DEF DocumentNoted, Emitted
    <2>2. CASE TranscriptMissing(t)
      <3>1. threads[t].task \in WindowMeetings
        BY <1>1, <1>2, <2>2 DEF NotubizHands, AtMeeting, TranscriptMissing, Emitted
      <3> QED BY <2>2, <3>1 DEF TranscriptMissing, Emitted
    <2> QED BY <2>1, <2>2
  <1>4. RunGoesOn' /\ WorkerStep(t) /\ KeepsRows(t) BY <1>1, <1>2, <1>3, NotedGoesOn
  <1>5. /\ plan' = plan /\ tasks' = tasks /\ threads' = threads /\ outcome' = outcome
        /\ committed' = committed /\ withheld' = withheld /\ seen' = seen
    BY <1>2 DEF storesVars
  <1>6. NotubizHand(t)' BY <1>1, <1>5 DEF NotubizHand, NotubizHands, AtWork
  <1>7. SeenIsSeenTo(issues)' BY <1>3, <1>5 DEF NotubizInvariant, SeenIsSeenTo, Failed
  <1>8. NotubizTypeOK' BY <1>5 DEF NotubizInvariant, NotubizTypeOK
  <1>9. ASSUME NEW y \in plan.named, Holds(t, y) PROVE Held(y)'
    BY <1>5, <1>9 DEF Held, Holds, AtWork
  <1>10. ~Full => plan.named \cap WindowMeetings = {}
    BY DEF NotubizInvariant, NotubizPlan
  <1> QED BY <1>2, <1>4, <1>5, <1>6, <1>7, <1>8, <1>9, <1>10, NotubizWorker

LEMMA NotubizTakes ==
  ASSUME NotubizInvariant, NEW t \in Pool, TakeTask(t)
  PROVE  NotubizInvariant'
  <1> USE ImportRunAssumption
  <1>1. /\ NotubizTypeOK /\ RunGoesOn /\ NotubizPlan /\ NotubizHands /\ NotubizAccounts
        /\ RowsAreSent(issues) /\ SeenIsSeenTo(issues)
    BY DEF NotubizInvariant
  <1>2. /\ RunGoesOn' /\ \A u \in Pool \cup {Main} : u # t => threads'[u] = threads[u]
        /\ threads[t].step = "resting"
    BY <1>1, TakesTask
  <1>3. PICK x \in tasks :
              /\ tasks' = tasks \ {x} /\ x \in WindowMeetings \cup WindowDocuments \cup Entries
              /\ threads'[t].step = "fetching"
              /\ threads'[t].task = x /\ threads'[t].hand = x /\ threads'[t].batch = {}
              /\ threads'[t].rest = IF x \in Entries THEN Attached[x] ELSE {}
    BY <1>1, TakesTask
  <1>4. /\ plan' = plan /\ outcome' = outcome /\ seen' = seen /\ issues' = issues
        /\ committed' = committed /\ indexed' = indexed /\ buffered' = buffered
        /\ withheld' = withheld /\ plan.phase \in PoolPhases \ {"attachments"}
    BY DEF TakeTask, storesVars
  <1>5. plan.phase \in {"meetings", "documents"}
    BY <1>1, <1>4 DEF NotubizTypeOK, PoolPhases
  <1>6. /\ plan.phase = "meetings" => x \in WindowMeetings
        /\ plan.phase = "documents" => x \in WindowDocuments
    BY <1>1, <1>3, <1>5 DEF NotubizPlan
  <1>7. WorkerStep(t) BY <1>2, <1>4 DEF WorkerStep
  <1>8. NotubizTypeOK' /\ NotubizPlan'
    BY <1>1, <1>3, <1>4 DEF NotubizTypeOK, NotubizPlan, Full
  <1>9. NotubizHands'
    <2>1. x \notin Entries /\ Media \notin WindowMeetings \cup WindowDocuments
      BY <1>5, <1>6 DEF Emitted
    <2>2. NotubizHand(t)'
      BY <1>3, <1>4, <1>5, <1>6, <2>1 DEF NotubizHand, AtWork, AtMeeting
    <2> QED BY <1>1, <1>4, <1>7, <2>2, NotubizHandsStay
  <1>10. \A y : Held(y) => Held(y)'
    <2> SUFFICES ASSUME NEW y, Held(y) PROVE Held(y)' OBVIOUS
    <2>1. CASE y \in tasks BY <1>3, <2>1 DEF Held, Holds
    <2>2. CASE \E u \in Pool : Holds(u, y)
      <3>1. PICK u \in Pool : Holds(u, y) BY <2>2
      <3>2. u # t BY <1>2, <3>1 DEF Holds, AtWork
      <3> QED BY <1>2, <3>1, <3>2 DEF Held, Holds, AtWork
    <2> QED BY <2>1, <2>2 DEF Held
  <1>11. NotubizAccounts' BY <1>1, <1>4, <1>10 DEF NotubizAccounts, Failed, Full
  <1>12. RowsAreSent(issues)'
    <2>1. KeepsRows(t) BY <1>2, <1>4 DEF KeepsRows
    <2> QED BY <1>1, <1>7, <2>1, NotubizRowsStay
  <1>13. SeenIsSeenTo(issues)'
    <2>1. DealsWithHand(t) BY <1>2 DEF DealsWithHand, AtWork
    <2> QED BY <1>1, <1>7, <2>1, NotubizSeenStays DEF RunGoesOn
  <1> QED BY <1>2, <1>8, <1>9, <1>11, <1>12, <1>13 DEF NotubizInvariant

(* An attachment that was taken before is dealt with, or in hand.          *)
LEMMA NotubizTakesAttachment ==
  ASSUME NotubizInvariant, NEW t \in Pool, TakeAttachment(t)
  PROVE  NotubizInvariant'
  <1> USE ImportRunAssumption
  <1>1. /\ NotubizTypeOK /\ RunGoesOn /\ NotubizPlan /\ NotubizHands /\ NotubizAccounts
        /\ RowsAreSent(issues) /\ SeenIsSeenTo(issues)
    BY DEF NotubizInvariant
  <1>2. PICK x \in tasks :
         /\ tasks' = tasks \ {x}
         /\ seen' = seen \cup {x}
         /\ IF x \in seen THEN UNCHANGED threads
            ELSE threads' = [threads EXCEPT ![t] =
                   [Resting EXCEPT !.step = "fetching", !.task = x, !.hand = x]]
    BY DEF TakeAttachment
  <1>3. /\ threads[t].step = "resting" /\ plan.phase = "attachments"
        /\ plan' = plan /\ outcome' = outcome /\ issues' = issues
        /\ committed' = committed /\ indexed' = indexed /\ buffered' = buffered
        /\ withheld' = withheld
    BY DEF TakeAttachment, storesVars
  <1>4. x \in WindowDocuments BY <1>1, <1>2, <1>3 DEF NotubizPlan
  <1>5. /\ threads' \in [Pool \cup {Main} -> ThreadRow]
        /\ \A u \in Pool \cup {Main} : u # t => threads'[u] = threads[u]
        /\ \/ x \in seen /\ threads' = threads
           \/ /\ threads'[t].step = "fetching" /\ threads'[t].hand = x
              /\ threads'[t].rest = {} /\ threads'[t].batch = {} /\ x \notin seen
    <2>1. CASE x \in seen BY <1>1, <1>2, <2>1 DEF RunGoesOn, RunTypeOK
    <2>2. CASE x \notin seen
      <3> DEFINE row == [Resting EXCEPT !.step = "fetching", !.task = x, !.hand = x]
      <3>1. row \in ThreadRow BY <1>4 DEF ThreadRow, Resting, Emitted
      <3>2. row.step = "fetching" /\ row.hand = x /\ row.rest = {} /\ row.batch = {}
        BY DEF Resting
      <3> HIDE DEF row
      <3>3. threads' = [threads EXCEPT ![t] = row] BY <1>2, <2>2 DEF row
      <3> QED BY <1>1, <2>2, <3>1, <3>2, <3>3 DEF RunGoesOn, RunTypeOK
    <2> QED BY <2>1, <2>2
  <1>6. threads'[t].step # "indexing" /\ threads'[t].batch \subseteq committed
    BY <1>1, <1>3, <1>5 DEF RunGoesOn
  <1>7. RunGoesOn'
    <2>1. /\ seen' \subseteq WindowDocuments /\ issues \subseteq Emitted \cup Topics
          /\ committed \subseteq Emitted /\ buffered \subseteq committed
          /\ indexed \subseteq committed /\ withheld \subseteq WindowDocuments \cup Recordings
      BY <1>1, <1>2, <1>4 DEF RunGoesOn, RunTypeOK
    <2>2. plan.phase \in PoolPhases BY <1>3 DEF PoolPhases
    <2> QED BY <1>1, <1>2, <1>3, <1>5, <1>6, <2>1, <2>2, WorkerGoesOn
  <1>8. WorkerStep(t) BY <1>2, <1>3, <1>5 DEF WorkerStep
  <1>9. NotubizTypeOK' /\ NotubizPlan'
    BY <1>1, <1>2, <1>3 DEF NotubizTypeOK, NotubizPlan, Full
  <1>10. NotubizHands'
    <2>1. NotubizHand(t)'
      BY <1>1, <1>3, <1>4, <1>5 DEF NotubizHand, NotubizHands, AtWork
    <2> QED BY <1>1, <1>3, <1>8, <2>1, NotubizHandsStay
  <1>11. \A y : Held(y) => NotubizDealt(y) \/ Failed \/ Held(y)'
    <2> SUFFICES ASSUME NEW y, Held(y), ~Failed, ~NotubizDealt(y) PROVE Held(y)' OBVIOUS
    <2>1. CASE y \in tasks /\ y # x BY <1>2, <2>1 DEF Held
    <2>2. CASE y = x /\ x \notin seen BY <1>5, <2>2 DEF Held, Holds
    <2>3. CASE y = x /\ x \in seen
      <3>1. \E u \in Pool : threads[u].step = "fetching" /\ threads[u].hand = x
        BY <1>1, <2>3 DEF SeenIsSeenTo, NotubizDealt
      <3> QED BY <1>5, <2>3, <3>1 DEF Held, Holds
    <2>4. CASE \E u \in Pool : Holds(u, y)
      <3>1. PICK u \in Pool : Holds(u, y) BY <2>4
      <3>2. u # t BY <1>3, <3>1 DEF Holds, AtWork
      <3> QED BY <1>5, <3>1, <3>2 DEF Held, Holds, AtWork
    <2> QED BY <2>1, <2>2, <2>3, <2>4 DEF Held
  <1>12. NotubizAccounts'
    BY <1>1, <1>3, <1>11 DEF NotubizAccounts, Failed, Full, NotubizDealt
  <1>13. RowsAreSent(issues)'
    <2>1. KeepsRows(t) BY <1>3 DEF KeepsRows
    <2> QED BY <1>1, <1>8, <2>1, NotubizRowsStay
  <1>14. SeenIsSeenTo(issues)'
    <2>1. DealsWithHand(t) BY <1>3 DEF DealsWithHand, AtWork
    <2> QED BY <1>1, <1>8, <2>1, NotubizSeenStays DEF RunGoesOn
  <1> QED BY <1>7, <1>9, <1>10, <1>12, <1>13, <1>14 DEF NotubizInvariant

LEMMA NotubizMeetingEnds ==
  ASSUME NotubizInvariant, NEW t \in Pool,
         DetailWithheld(t) \/ MeetingThrows(t) \/ MediaFails(t)
  PROVE  NotubizInvariant'
  <1> USE ImportRunAssumption
  <1>1. /\ NotubizTypeOK /\ RunGoesOn /\ NotubizHands BY DEF NotubizInvariant
  <1>2. CASE DetailWithheld(t)
    <2>1. AtWork(t) /\ threads[t].hand \in WindowMeetings /\ threads[t].step = "fetching"
      BY <1>2 DEF DetailWithheld, AtWork
    <2>2. threads[t].rest = {} /\ threads[t].hand \in Emitted
      BY <1>1, <2>1 DEF NotubizHands, AtMeeting, Emitted
    <2>3. EndWithIssue(t, threads[t].hand) /\ UNCHANGED <<plan, tasks, seen, storesVars>>
      BY <1>2 DEF DetailWithheld
    <2> QED BY <2>1, <2>2, <2>3, NotubizEnds
  <1>3. CASE MeetingThrows(t)
    <2>1. AtWork(t) /\ threads[t].hand \in Emitted /\ outcome' = "failed"
      BY <1>3 DEF MeetingThrows, AtWork, Emitted, Reject
    <2>2. EndWithIssue(t, threads[t].hand) /\ UNCHANGED <<plan, tasks, seen, storesVars>>
      BY <1>3 DEF MeetingThrows, EndWithIssue
    <2> QED BY <2>1, <2>2, NotubizEnds
  <1>4. CASE MediaFails(t)
    <2>1. threads[t].hand = Media BY <1>4 DEF MediaFails
    <2>2. AtWork(t) BY <1>1, <2>1 DEF NotubizHands
    <2>3. threads[t].rest = {} /\ threads[t].task \in WindowMeetings /\ threads[t].step = "fetching"
      BY <1>1, <2>1, <2>2 DEF NotubizHands, AtMeeting, Emitted
    <2>4. threads[t].task \in Emitted BY <2>3 DEF Emitted
    <2>5. EndWithIssue(t, threads[t].task) /\ UNCHANGED <<plan, tasks, seen, storesVars>>
      BY <1>4 DEF MediaFails
    <2> QED BY <2>1, <2>2, <2>3, <2>4, <2>5, NotubizEnds
  <1> QED BY <1>2, <1>3, <1>4

LEMMA NotubizDetails ==
  ASSUME NotubizInvariant, NEW t \in Pool, DetailAnswers(t)
  PROVE  NotubizInvariant'
  <1> USE ImportRunAssumption
  <1> DEFINE m == threads[t].hand
  <1>1. /\ NotubizTypeOK /\ RunGoesOn /\ NotubizHands /\ SeenIsSeenTo(issues)
        /\ seen \subseteq WindowDocuments /\ issues \subseteq Emitted \cup Topics
    BY DEF NotubizInvariant, RunGoesOn, RunTypeOK
  <1>2. /\ threads[t].step = "fetching" /\ m \in WindowMeetings /\ AtWork(t)
        /\ plan' = Naming([plan EXCEPT !.found = @ \cup {m}], IF Full THEN Attached[m] ELSE {})
        /\ UNCHANGED <<outcome, tasks, issues>>
    BY DEF DetailAnswers, AtWork
  <1>3. plan.phase = "meetings" /\ threads[t].rest = {} /\ m # Media
    <2>1. plan.phase = "meetings" BY <1>1, <1>2 DEF NotubizHands
    <2>2. m # Media BY <1>2 DEF Emitted
    <2> QED BY <1>1, <1>2, <2>1, <2>2 DEF NotubizHands, AtMeeting
  <1>4. /\ (plan.phase)' = plan.phase /\ (plan.mode)' = plan.mode
        /\ (plan.entries)' = plan.entries /\ (plan.found)' = plan.found \cup {m}
        /\ (plan.named)' = plan.named \cup (IF Full THEN Attached[m] ELSE {})
    BY <1>1, <1>2 DEF NotubizTypeOK, Naming
  <1>5. NotubizTypeOK'
    <2>1. (IF Full THEN Attached[m] ELSE {}) \subseteq Emitted BY <1>2 DEF Emitted
    <2> HIDE DEF m
    <2> QED BY <1>1, <1>2, <2>1 DEF NotubizTypeOK, Naming
  <1>6. {Media} \in SUBSET (WindowDocuments \cup Recordings \cup {Media}) OBVIOUS
  <1>7. /\ RunGoesOn' /\ WorkerStep(t) /\ KeepsRows(t) /\ MovesOn(t, {Media})
        /\ SeenIsSeenTo(issues)' /\ (~Full \/ m \in committed')
    <2>1. CASE Full
      <3>1. Commit(t, m, {Media}) /\ m \in Emitted /\ threads[t].rest \subseteq {Media}
        BY <1>2, <1>3, <2>1 DEF DetailAnswers, Emitted
      <3>2. /\ RunGoesOn' /\ WorkerStep(t) /\ KeepsRows(t) /\ MovesOn(t, {Media})
            /\ DealsWithHand(t) /\ m \in committed'
        BY <1>1, <1>2, <1>4, <1>6, <3>1, CommitDeals
      <3>3. SeenIsSeenTo(issues)' BY <1>1, <3>2, NotubizSeenStays DEF RunGoesOn
      <3> QED BY <3>2, <3>3
    <2>2. CASE ~Full
      <3>1. Continue(t, {Media}) /\ UNCHANGED <<outcome, tasks, storesVars>>
        BY <1>2, <2>2 DEF DetailAnswers
      <3>2. /\ RunGoesOn' /\ WorkerStep(t) /\ KeepsRows(t) /\ MovesOn(t, {Media})
            /\ seen' = seen \cup (seen' \cap {Media})
        BY <1>1, <1>2, <1>4, <1>6, <3>1, GoesOnWith
      <3>3. seen' = seen
        <4>1. Media \notin seen' BY <3>2 DEF RunGoesOn, RunTypeOK, Emitted
        <4>2. seen' \cap {Media} = {} BY <4>1
        <4>3. seen' = seen \cup {} BY <3>2, <4>2
        <4> QED BY <4>3
      <3>4. m \notin seen BY <1>1, <1>2
      <3>5. SeenIsSeenTo(issues)'
        <4> HIDE DEF m
        <4> SUFFICES ASSUME NEW x \in seen, ~Failed', x \notin committed' \cup withheld' \cup issues'
                     PROVE  \E u \in Pool : threads'[u].step = "fetching" /\ threads'[u].hand = x
          BY <3>3 DEF SeenIsSeenTo
        <4>1. PICK u \in Pool : threads[u].step = "fetching" /\ threads[u].hand = x
          BY <1>1, <3>2 DEF SeenIsSeenTo, WorkerStep, Failed
        <4>2. u # t BY <3>4, <4>1 DEF m
        <4> QED BY <3>2, <4>1, <4>2 DEF WorkerStep
      <3> QED BY <2>2, <3>2, <3>5
    <2> QED BY <2>1, <2>2
  <1>8. NotubizHand(t)' BY <1>1, <1>2, <1>3, <1>4, <1>7, NotubizMovesOn
  <1>9. ASSUME NEW x \in plan.named, Holds(t, x) PROVE NotubizDealt(x)'
    <2>1. x = m BY <1>3, <1>9 DEF Holds
    <2>2. Full BY <1>2, <2>1 DEF NotubizInvariant, NotubizPlan
    <2>3. m \in committed' BY <1>7, <2>2
    <2> HIDE DEF m
    <2> QED BY <2>1, <2>3 DEF NotubizDealt
  <1>10. /\ ~Full => (plan.named)' \cap WindowMeetings = {}
         /\ (plan.named)' \cap Entries \subseteq plan.named
    BY <1>2, <1>4 DEF NotubizInvariant, NotubizPlan
  <1>11. ASSUME NEW x \in (plan.named)' \ plan.named
         PROVE  Full /\ \E k \in (plan.found)' : x \in Attached[k]
    BY <1>4, <1>11
  <1> HIDE DEF m
  <1> QED BY <1>2, <1>3, <1>4, <1>5, <1>7, <1>8, <1>9, <1>10, <1>11, NotubizWorker

LEMMA NotubizMedia ==
  ASSUME NotubizInvariant, NEW t \in Pool, MediaAnswers(t)
  PROVE  NotubizInvariant'
  <1> USE ImportRunAssumption, NotubizAssumption
  <1>1. /\ NotubizTypeOK /\ RunGoesOn /\ NotubizHands /\ SeenIsSeenTo(issues)
        /\ seen \subseteq WindowDocuments /\ issues \subseteq Emitted \cup Topics
    BY DEF NotubizInvariant, RunGoesOn, RunTypeOK
  <1>2. threads[t].hand = Media /\ UNCHANGED <<outcome, tasks, issues, storesVars>>
    BY DEF MediaAnswers
  <1>3. PICK recorded \in MayAnswer(RecordingsOf[threads[t].task]) :
          plan' = Naming(plan, recorded) /\ Continue(t, recorded)
    BY DEF MediaAnswers
  <1>4. AtWork(t) BY <1>1, <1>2 DEF NotubizHands
  <1>5. /\ plan.phase = "meetings" /\ threads[t].task \in WindowMeetings
        /\ threads[t].rest = {} /\ threads[t].step = "fetching"
    <2>1. plan.phase = "meetings" BY <1>1, <1>2, <1>4 DEF NotubizHands, Emitted
    <2> QED BY <1>1, <1>2, <1>4, <2>1 DEF NotubizHands, AtMeeting
  <1>6. recorded \subseteq Recordings /\ recorded \subseteq Emitted
    BY <1>3, <1>5 DEF MayAnswer, Emitted
  <1>7. /\ (plan.phase)' = plan.phase /\ (plan.mode)' = plan.mode
        /\ (plan.entries)' = plan.entries /\ (plan.found)' = plan.found
        /\ (plan.named)' = plan.named \cup recorded
    BY <1>1, <1>3 DEF NotubizTypeOK, Naming
  <1>8. NotubizTypeOK' BY <1>1, <1>3, <1>6 DEF NotubizTypeOK, Naming
  <1>9. /\ RunGoesOn' /\ WorkerStep(t) /\ KeepsRows(t) /\ MovesOn(t, recorded)
        /\ \A x \in recorded : x \in seen \/ Holds(t, x)'
    <2>1. recorded \in SUBSET (WindowDocuments \cup Recordings \cup {Media}) BY <1>6
    <2>2. issues \subseteq issues' /\ issues' \subseteq Emitted \cup Topics
      BY <1>1, <1>2
    <2> QED BY <1>1, <1>2, <1>3, <1>5, <1>7, <2>1, <2>2, GoesOnWith
  <1>10. DealsWithHand(t) BY <1>2, <1>5 DEF DealsWithHand
  <1>11. SeenIsSeenTo(issues)' BY <1>1, <1>9, <1>10, NotubizSeenStays DEF RunGoesOn
  <1>12. NotubizHand(t)'
    <2>2. ~AtWork(t)' => threads'[t].hand # Media BY <1>9 DEF MovesOn, AtWork
    <2>3. AtWork(t)' => AtMeeting(threads[t])'
      <3>1. threads'[t].step # "indexing"
        BY <1>3, <1>1, <1>6, ContinueIs DEF RunGoesOn, Resting
      <3> QED BY <1>5, <1>6, <1>9, <3>1 DEF MovesOn, AtWork, AtMeeting, Emitted
    <2> QED BY <1>5, <1>7, <2>2, <2>3 DEF NotubizHand
  <1>13. ASSUME NEW x \in plan.named, Holds(t, x) PROVE FALSE
    <2>1. x = Media BY <1>2, <1>5, <1>13 DEF Holds
    <2> QED BY <1>1, <2>1 DEF NotubizTypeOK
  <1>14. /\ ~Full => (plan.named)' \cap WindowMeetings = {}
         /\ (plan.named)' \cap Entries \subseteq plan.named
    BY <1>6, <1>7 DEF NotubizInvariant, NotubizPlan
  <1>15. ASSUME NEW x \in (plan.named)' \ plan.named PROVE Held(x)'
    <2>1. x \in recorded /\ x \notin seen BY <1>1, <1>6, <1>7, <1>15
    <2> QED BY <1>9, <2>1 DEF Held
  <1> QED BY <1>2, <1>4, <1>7, <1>8, <1>9, <1>11, <1>12, <1>13, <1>14, <1>15, NotubizWorker

LEMMA NotubizRecords ==
  ASSUME NotubizInvariant, NEW t \in Pool, RecordingReady(t)
  PROVE  NotubizInvariant'
  <1> USE ImportRunAssumption
  <1>1. /\ NotubizTypeOK /\ RunGoesOn /\ NotubizHands BY DEF NotubizInvariant
  <1>2. /\ threads[t].step = "fetching" /\ threads[t].hand \in Recordings /\ AtWork(t)
        /\ \/ Commit(t, threads[t].hand, threads[t].rest)
           \/ Withhold(t, threads[t].hand, threads[t].rest)
        /\ UNCHANGED <<plan, outcome, tasks, issues>>
    BY DEF RecordingReady, AtWork
  <1>3. /\ threads[t].hand \in Emitted /\ threads[t].hand # Media
        /\ threads[t].rest \in SUBSET (WindowDocuments \cup Recordings \cup {Media})
    BY <1>1, <1>2, RestsEmpty DEF Emitted, RunGoesOn
  <1>4. /\ RunGoesOn' /\ WorkerStep(t) /\ DealsWithHand(t) /\ KeepsRows(t)
        /\ MovesOn(t, threads[t].rest)
    <2>1. CASE Commit(t, threads[t].hand, threads[t].rest)
      BY <1>1, <1>2, <1>3, <2>1, CommitDeals
    <2>2. CASE Withhold(t, threads[t].hand, threads[t].rest)
      BY <1>1, <1>2, <1>3, <2>2, WithholdDeals
    <2> QED BY <1>2, <2>1, <2>2
  <1>5. IF plan.phase = "meetings"
        THEN threads[t].rest \subseteq Recordings \/ threads[t].rest = {Media}
        ELSE threads[t].rest = {}
    BY <1>1, <1>2 DEF NotubizHands, AtMeeting
  <1>6. NotubizHand(t)' BY <1>1, <1>2, <1>3, <1>4, <1>5, NotubizMovesOn
  <1> QED BY <1>2, <1>4, <1>6, NotubizWorks

(* A recording that fails is emitted once more, named in an issue by then. *)
LEMMA NotubizTriesAgain ==
  ASSUME NotubizInvariant, NEW t \in Pool, RecordingFails(t)
  PROVE  NotubizInvariant'
  <1> USE ImportRunAssumption
  <1>1. /\ NotubizTypeOK /\ RunGoesOn /\ NotubizHands BY DEF NotubizInvariant
  <1>2. /\ threads[t].step \in {"fetching", "indexing"} /\ threads[t].hand \in Recordings
        /\ AtWork(t) /\ UNCHANGED <<plan, tasks, seen, storesVars>>
        /\ threads[t].hand \in Emitted
    BY DEF RecordingFails, AtWork, Emitted
  <1>3. CASE Reject(t) /\ UNCHANGED issues
    <2>1. EndWithIssue(t, threads[t].hand) /\ outcome' = "failed"
      BY <1>3 DEF EndWithIssue, Reject
    <2> QED BY <1>2, <2>1, NotubizEnds
  <1>4. CASE /\ issues' = issues \cup {threads[t].hand}
             /\ threads' = [threads EXCEPT ![t] =
                  [@ EXCEPT !.step = "fetching", !.batch = {}, !.again = TRUE]]
             /\ UNCHANGED outcome
    <2> DEFINE row == [threads[t] EXCEPT !.step = "fetching", !.batch = {}, !.again = TRUE]
    <2>1. threads[t] \in ThreadRow BY <1>1 DEF RunGoesOn, RunTypeOK
    <2>2. /\ row \in ThreadRow /\ row.step = "fetching" /\ row.batch = {}
          /\ row.task = threads[t].task /\ row.hand = threads[t].hand
          /\ row.rest = threads[t].rest
      BY <2>1 DEF ThreadRow
    <2>3. threads' = [threads EXCEPT ![t] = row] BY <1>4
    <2> HIDE DEF row
    <2>4. /\ threads' \in [Pool \cup {Main} -> ThreadRow] /\ threads'[t] = row
          /\ \A u \in Pool \cup {Main} : u # t => threads'[u] = threads[u]
      BY <1>1, <2>2, <2>3 DEF RunGoesOn, RunTypeOK
    <2>5. /\ committed' = committed /\ withheld' = withheld /\ seen' = seen
          /\ buffered' = buffered /\ indexed' = indexed /\ tasks' = tasks
          /\ plan' = plan /\ outcome' = outcome
      BY <1>2, <1>4 DEF storesVars
    <2>6. /\ seen \subseteq WindowDocuments /\ issues' \subseteq Emitted \cup Topics
          /\ committed \subseteq Emitted /\ buffered \subseteq committed
          /\ indexed \subseteq committed /\ withheld \subseteq WindowDocuments \cup Recordings
      BY <1>1, <1>2, <1>4 DEF RunGoesOn, RunTypeOK
    <2>7. RunGoesOn'
      <3>1. threads[t] # Resting BY <1>2 DEF Resting
      <3> QED BY <1>1, <2>2, <2>4, <2>5, <2>6, <3>1, WorkerGoesOn
    <2>8. WorkerStep(t) BY <1>2, <1>4, <2>4, <2>5 DEF WorkerStep
    <2>9. KeepsRows(t)
      <3>1. threads[t].step = "indexing" => threads[t].hand \in committed
        BY <1>1 DEF RunGoesOn
      <3> QED BY <1>4, <2>5, <3>1 DEF KeepsRows
    <2>10. DealsWithHand(t) BY <1>4, <2>2, <2>4 DEF DealsWithHand, Holds, AtWork
    <2>11. NotubizHand(t)'
      <3>1. plan.phase = "meetings" BY <1>1, <1>2 DEF NotubizHands
      <3>2. AtMeeting(threads[t]) BY <1>1, <1>2, <3>1 DEF NotubizHands
      <3>3. AtMeeting(threads[t])' BY <1>2, <2>2, <2>4, <3>2 DEF AtMeeting, Emitted
      <3> QED BY <2>2, <2>4, <2>5, <3>1, <3>3 DEF NotubizHand, AtWork
    <2> QED BY <1>2, <2>5, <2>7, <2>8, <2>9, <2>10, <2>11, NotubizWorks
  <1> QED BY <1>3, <1>4 DEF RecordingFails

(* Between the steps of its control a Notubiz run has only what it still   *)
(* has to take.                                                            *)
NotubizOwes(x) ==
    \/ NotubizDealt(x) \/ x \in tasks
    \/ Full /\ plan.phase = "meetings" /\ \E m \in plan.found : x \in Attached[m]
    \/ \E e \in plan.entries : x = e \/ x \in Attached[e]

LEMMA NotubizAtRest ==
  ASSUME NotubizInvariant, NEW phase,
         (InPlan(phase) /\ phase \notin PoolPhases) \/ PoolDone(phase)
  PROVE  /\ \A t \in Pool \cup {Main} : threads[t] = Resting
         /\ outcome = "running" /\ plan.phase = phase /\ (phase \notin PoolPhases \/ tasks = {})
         /\ \A x \in plan.named : NotubizOwes(x)
         /\ NotubizTypeOK /\ RunGoesOn /\ NotubizPlan /\ SeenIsSeenTo(issues)
         /\ tasks \subseteq WindowMeetings \cup WindowDocuments \cup Entries
         /\ issues \subseteq Emitted \cup Topics
  <1>1. /\ NotubizTypeOK /\ RunGoesOn /\ NotubizPlan /\ NotubizAccounts /\ SeenIsSeenTo(issues)
        /\ tasks \subseteq WindowMeetings \cup WindowDocuments \cup Entries
        /\ issues \subseteq Emitted \cup Topics
    BY DEF NotubizInvariant, RunGoesOn, RunTypeOK
  <1>2. /\ \A t \in Pool \cup {Main} : threads[t] = Resting
        /\ outcome = "running" /\ plan.phase = phase /\ (phase \notin PoolPhases \/ tasks = {})
    BY <1>1, AllRest
  <1>3. \A y : Held(y) => y \in tasks BY <1>2 DEF Held, Holds, AtWork, Resting
  <1> QED BY <1>1, <1>2, <1>3 DEF NotubizAccounts, NotubizOwes, NotubizDealt, Failed

LEMMA NotubizControl ==
  ASSUME NotubizInvariant, NEW phase,
         (InPlan(phase) /\ phase \notin PoolPhases) \/ PoolDone(phase),
         outcome' = outcome, threads' = threads, seen' = seen, storesVars' = storesVars,
         tasks' \subseteq WindowMeetings \cup WindowDocuments \cup Entries,
         issues \subseteq issues', issues' \subseteq Emitted \cup Topics,
         NotubizTypeOK', NotubizPlan', \A x \in (plan.named)' : NotubizOwes(x)'
  PROVE  NotubizInvariant'
  <1> USE ImportRunAssumption
  <1>1. /\ RunGoesOn /\ RowsAreSent(issues) /\ SeenIsSeenTo(issues)
        /\ \A t \in Pool \cup {Main} : threads[t] = Resting
        /\ outcome = "running"
    BY NotubizAtRest DEF NotubizInvariant
  <1>2. RunGoesOn' BY <1>1, ControlGoesOn
  <1>3. NotubizHands'
    <2>1. \A t \in Pool : ~AtWork(t)' /\ threads'[t].hand # Media
      BY <1>1 DEF AtWork, Resting
    <2>2. threads'[Main] = Resting BY <1>1
    <2> QED BY <2>1, <2>2 DEF NotubizHands
  <1>4. NotubizAccounts' BY DEF NotubizAccounts, NotubizOwes, NotubizDealt, Held, Full
  <1>5. RowsAreSent(issues)' BY <1>1, ControlRows DEF RowsAreSent, Failed, OnItsWay
  <1>6. SeenIsSeenTo(issues)'
    <2>1. committed' = committed /\ withheld' = withheld BY DEF storesVars
    <2> QED BY <1>1, <2>1 DEF SeenIsSeenTo, Failed
  <1> QED BY <1>2, <1>3, <1>4, <1>5, <1>6 DEF NotubizInvariant

(* From one part of the run to the next, with nothing new to take.         *)
LEMMA NotubizTurns ==
  ASSUME NotubizInvariant, NEW phase,
         (InPlan(phase) /\ phase \notin PoolPhases) \/ PoolDone(phase), phase # "meetings",
         outcome' = outcome, threads' = threads, seen' = seen, storesVars' = storesVars,
         tasks' = tasks, NEW x \in Emitted \cup Topics, issues' \in {issues, issues \cup {x}},
         NotubizTypeOK', (plan.named)' = plan.named, (plan.mode)' = plan.mode,
         (plan.entries)' = plan.entries,
         \/ (plan.phase)' = phase
         \/ phase = "expanding" /\ (plan.phase)' = "meetings"
         \/ phase = "emitted" /\ (plan.phase)' = "attachments"
         \/ phase = "attachments" /\ (plan.phase)' = "items"
         \/ phase = "items" /\ plan.entries = {} /\ (plan.phase)' = "flush"
         \/ /\ phase \in {"types", "chunk", "listing", "modules", "documents"}
            /\ (plan.phase)' \in {"chunk", "listing", "modules", "items", "flush"}
  PROVE  NotubizInvariant'
  <1>1. /\ plan.phase = phase /\ (phase \notin PoolPhases \/ tasks = {})
        /\ \A y \in plan.named : NotubizOwes(y)
        /\ NotubizPlan /\ issues \subseteq Emitted \cup Topics
        /\ tasks \subseteq WindowMeetings \cup WindowDocuments \cup Entries
    BY NotubizAtRest
  <1>2. NotubizPlan' BY <1>1 DEF NotubizPlan, PoolPhases, Full
  <1>3. committed' = committed /\ withheld' = withheld BY DEF storesVars
  <1>4. issues \subseteq issues' /\ issues' \subseteq Emitted \cup Topics BY <1>1
  <1>5. \A y \in (plan.named)' : NotubizOwes(y)'
    BY <1>1, <1>3, <1>4 DEF NotubizOwes, NotubizDealt
  <1> QED BY <1>1, <1>2, <1>4, <1>5, NotubizControl

LEMMA NotubizTurnsOn ==
  ASSUME NotubizInvariant,
         \/ AttributesAnswered \/ NextEventWindow \/ PageEmpty \/ PageExpanded \/ PageDone
         \/ ModulesAnswered \/ ModulesUnknown \/ ItemEmitted \/ ItemDone \/ ItemsRead
  PROVE  NotubizInvariant'
  <1> USE DEF PoolPhases
  <1>0. NotubizTypeOK /\ NotubizPlan /\ "lists" \in Emitted \cup Topics
    BY DEF NotubizInvariant, Topics
  <1>1. CASE AttributesAnswered
    <2>1. /\ InPlan("types") /\ plan' = [plan EXCEPT !.phase = "chunk"]
          /\ outcome' = outcome /\ tasks' = tasks /\ threads' = threads /\ seen' = seen
          /\ issues' = issues /\ storesVars' = storesVars
      BY <1>1 DEF AttributesAnswered
    <2>2. /\ NotubizTypeOK' /\ (plan.named)' = plan.named /\ (plan.mode)' = plan.mode
          /\ (plan.entries)' = plan.entries /\ (plan.phase)' = "chunk"
      BY <1>0, <2>1 DEF NotubizTypeOK
    <2> QED BY <1>0, <2>1, <2>2, NotubizTurns
  <1>2. CASE NextEventWindow
    <2>1. /\ InPlan("chunk")
          /\ outcome' = outcome /\ tasks' = tasks /\ threads' = threads /\ seen' = seen
          /\ issues' = issues /\ storesVars' = storesVars
      BY <1>2 DEF NextEventWindow
    <2>2. /\ NotubizTypeOK' /\ (plan.named)' = plan.named /\ (plan.mode)' = plan.mode
          /\ (plan.entries)' = plan.entries
          /\ (plan.phase)' \in {"listing", "modules", "flush"}
      <3>1. CASE plan.chunks = <<>>
        <4>1. plan' = [plan EXCEPT !.phase = IF Full THEN "modules" ELSE "flush"]
          BY <1>2, <3>1 DEF NextEventWindow
        <4> QED BY <1>0, <4>1 DEF NotubizTypeOK
      <3>2. CASE plan.chunks # <<>>
        <4> DEFINE onPart == HeldIn(Head(plan.chunks))
        <4>1. plan' = [plan EXCEPT !.phase = "listing", !.chunks = Tail(@), !.events = onPart]
          BY <1>2, <3>2 DEF NextEventWindow
        <4>2. onPart \subseteq WindowMeetings BY DEF HeldIn, ListedMeetings
        <4>3. Tail(plan.chunks) \in Seq(Ranges) BY <1>0, <3>2 DEF NotubizTypeOK
        <4> HIDE DEF onPart
        <4> QED BY <1>0, <4>1, <4>2, <4>3 DEF NotubizTypeOK
      <3> QED BY <3>1, <3>2
    <2> QED BY <1>0, <2>1, <2>2, NotubizTurns
  <1>3. CASE PageEmpty
    <2>1. /\ InPlan("listing") /\ plan' = [plan EXCEPT !.phase = "chunk", !.events = {}]
          /\ outcome' = outcome /\ tasks' = tasks /\ threads' = threads /\ seen' = seen
          /\ issues' = issues /\ storesVars' = storesVars
      BY <1>3 DEF PageEmpty
    <2>2. /\ NotubizTypeOK' /\ (plan.named)' = plan.named /\ (plan.mode)' = plan.mode
          /\ (plan.entries)' = plan.entries /\ (plan.phase)' = "chunk"
      BY <1>0, <2>1 DEF NotubizTypeOK
    <2> QED BY <1>0, <2>1, <2>2, NotubizTurns
  <1>4. CASE PageExpanded
    <2>1. /\ InPlan("expanding") /\ plan' = [plan EXCEPT !.phase = "meetings"]
          /\ outcome' = outcome /\ tasks' = tasks /\ threads' = threads /\ seen' = seen
          /\ issues' = issues /\ storesVars' = storesVars
      BY <1>4 DEF PageExpanded
    <2>2. /\ NotubizTypeOK' /\ (plan.named)' = plan.named /\ (plan.mode)' = plan.mode
          /\ (plan.entries)' = plan.entries /\ (plan.phase)' = "meetings"
      BY <1>0, <2>1 DEF NotubizTypeOK
    <2> QED BY <1>0, <2>1, <2>2, NotubizTurns
  <1>5. CASE PageDone
    <2> DEFINE next == IF plan.events = {} THEN "chunk" ELSE "listing"
    <2>1. /\ PoolDone("documents") /\ plan' = [plan EXCEPT !.phase = next]
          /\ outcome' = outcome /\ tasks' = tasks /\ threads' = threads /\ seen' = seen
          /\ issues' = issues /\ storesVars' = storesVars
      BY <1>5 DEF PageDone
    <2>2. /\ NotubizTypeOK' /\ (plan.named)' = plan.named /\ (plan.mode)' = plan.mode
          /\ (plan.entries)' = plan.entries /\ (plan.phase)' \in {"chunk", "listing"}
      BY <1>0, <2>1 DEF NotubizTypeOK
    <2> QED BY <1>0, <2>1, <2>2, NotubizTurns
  <1>6. CASE ModulesAnswered
    <2>1. PICK modules \in MayAnswer(Lists) :
             plan' = [plan EXCEPT !.phase = "items", !.lists = modules]
      BY <1>6 DEF ModulesAnswered
    <2>2. /\ InPlan("modules")
          /\ outcome' = outcome /\ tasks' = tasks /\ threads' = threads /\ seen' = seen
          /\ issues' = issues /\ storesVars' = storesVars
      BY <1>6 DEF ModulesAnswered
    <2>3. /\ NotubizTypeOK' /\ (plan.named)' = plan.named /\ (plan.mode)' = plan.mode
          /\ (plan.entries)' = plan.entries /\ (plan.phase)' = "items"
      BY <1>0, <2>1 DEF NotubizTypeOK, MayAnswer
    <2> QED BY <1>0, <2>2, <2>3, NotubizTurns
  <1>7. CASE ModulesUnknown
    <2>1. /\ InPlan("modules") /\ plan' = [plan EXCEPT !.phase = "flush"]
          /\ outcome' = outcome /\ tasks' = tasks /\ threads' = threads /\ seen' = seen
          /\ issues' = issues \cup {"lists"} /\ storesVars' = storesVars
      BY <1>7 DEF ModulesUnknown
    <2>2. /\ NotubizTypeOK' /\ (plan.named)' = plan.named /\ (plan.mode)' = plan.mode
          /\ (plan.entries)' = plan.entries /\ (plan.phase)' = "flush"
      BY <1>0, <2>1 DEF NotubizTypeOK
    <2> QED BY <1>0, <2>1, <2>2, NotubizTurns
  <1>8. CASE ItemEmitted
    <2>1. /\ InPlan("emitted") /\ plan' = [plan EXCEPT !.phase = "attachments"]
          /\ outcome' = outcome /\ tasks' = tasks /\ threads' = threads /\ seen' = seen
          /\ issues' = issues /\ storesVars' = storesVars
      BY <1>8 DEF ItemEmitted
    <2>2. /\ NotubizTypeOK' /\ (plan.named)' = plan.named /\ (plan.mode)' = plan.mode
          /\ (plan.entries)' = plan.entries /\ (plan.phase)' = "attachments"
      BY <1>0, <2>1 DEF NotubizTypeOK
    <2> QED BY <1>0, <2>1, <2>2, NotubizTurns
  <1>9. CASE ItemDone
    <2>1. /\ PoolDone("attachments") /\ plan' = [plan EXCEPT !.phase = "items"]
          /\ outcome' = outcome /\ tasks' = tasks /\ threads' = threads /\ seen' = seen
          /\ issues' = issues /\ storesVars' = storesVars
      BY <1>9 DEF ItemDone
    <2>2. /\ NotubizTypeOK' /\ (plan.named)' = plan.named /\ (plan.mode)' = plan.mode
          /\ (plan.entries)' = plan.entries /\ (plan.phase)' = "items"
      BY <1>0, <2>1 DEF NotubizTypeOK
    <2> QED BY <1>0, <2>1, <2>2, NotubizTurns
  <1>10. CASE ItemsRead
    <2>1. /\ InPlan("items") /\ plan' = [plan EXCEPT !.phase = "flush"] /\ plan.entries = {}
          /\ outcome' = outcome /\ tasks' = tasks /\ threads' = threads /\ seen' = seen
          /\ issues' = issues /\ storesVars' = storesVars
      BY <1>10 DEF ItemsRead
    <2>2. /\ NotubizTypeOK' /\ (plan.named)' = plan.named /\ (plan.mode)' = plan.mode
          /\ (plan.entries)' = plan.entries /\ (plan.phase)' = "flush"
      BY <1>0, <2>1 DEF NotubizTypeOK
    <2> QED BY <1>0, <2>1, <2>2, NotubizTurns
  <1> QED BY <1>1, <1>2, <1>3, <1>4, <1>5, <1>6, <1>7, <1>8, <1>9, <1>10

LEMMA NotubizPages ==
  ASSUME NotubizInvariant, PageAnswers
  PROVE  NotubizInvariant'
  <1> USE ImportRunAssumption DEF PoolPhases
  <1>1. PICK page \in SUBSET plan.events :
         /\ tasks' = Public(page)
         /\ plan' = Naming([plan EXCEPT !.phase = "expanding", !.events = @ \ page,
                              !.assemblies = { m \in Public(page) : ChildrenOf[m] # {} }],
                           IF Full THEN Public(page) ELSE {})
    BY DEF PageAnswers
  <1>2. /\ InPlan("listing") /\ outcome' = outcome /\ threads' = threads /\ seen' = seen
        /\ issues' = issues /\ storesVars' = storesVars
    BY DEF PageAnswers
  <1>3. /\ plan.phase = "listing" /\ \A x \in plan.named : NotubizOwes(x)
        /\ NotubizTypeOK /\ NotubizPlan /\ issues \subseteq Emitted \cup Topics
    BY <1>2, NotubizAtRest
  <1> DEFINE open == Public(page)
             assembled == { m \in open : ChildrenOf[m] # {} }
             fresh == IF Full THEN open ELSE {}
  <1>4. open \subseteq WindowMeetings /\ assembled \subseteq WindowMeetings
    BY <1>1, <1>3 DEF NotubizTypeOK, Public
  <1>5. fresh \subseteq WindowMeetings /\ fresh \subseteq Emitted /\ fresh \subseteq open
    BY <1>4 DEF Emitted
  <1>6. plan' = Naming([plan EXCEPT !.phase = "expanding", !.events = @ \ page,
                                    !.assemblies = assembled], fresh)
        /\ tasks' = open /\ (~Full => fresh = {})
    BY <1>1
  <1> HIDE DEF open, assembled, fresh
  <1>7. /\ NotubizTypeOK' /\ (plan.phase)' = "expanding" /\ (plan.mode)' = plan.mode
        /\ (plan.entries)' = plan.entries /\ (plan.named)' = plan.named \cup fresh
    BY <1>3, <1>4, <1>5, <1>6 DEF NotubizTypeOK, Naming
  <1>8. NotubizPlan' BY <1>3, <1>4, <1>5, <1>6, <1>7 DEF NotubizPlan, Full
  <1>9. committed' = committed /\ withheld' = withheld BY <1>2 DEF storesVars
  <1>10. \A x \in (plan.named)' : NotubizOwes(x)'
    <2>1. ASSUME NEW x \in plan.named PROVE NotubizOwes(x)'
      <3>1. tasks = {} BY <1>3 DEF NotubizPlan
      <3> QED BY <1>2, <1>3, <1>7, <1>9, <2>1, <3>1 DEF NotubizOwes, NotubizDealt
    <2>2. ASSUME NEW x \in fresh PROVE NotubizOwes(x)'
      BY <1>5, <1>6, <2>2 DEF NotubizOwes
    <2> QED BY <1>7, <2>1, <2>2
  <1> QED BY <1>2, <1>3, <1>4, <1>6, <1>7, <1>8, <1>10, NotubizControl

LEMMA NotubizAssembles ==
  ASSUME NotubizInvariant, NEW a \in WindowMeetings, AssemblyAnswers(a) \/ AssemblyFails(a)
  PROVE  NotubizInvariant'
  <1> USE ImportRunAssumption DEF PoolPhases
  <1>0. NotubizTypeOK BY DEF NotubizInvariant
  <1>1. CASE AssemblyFails(a)
    <2>1. /\ InPlan("expanding") /\ plan' = [plan EXCEPT !.assemblies = @ \ {a}]
          /\ outcome' = outcome /\ tasks' = tasks /\ threads' = threads /\ seen' = seen
          /\ issues' = issues \cup {a} /\ storesVars' = storesVars
      BY <1>1 DEF AssemblyFails
    <2>2. /\ NotubizTypeOK' /\ (plan.named)' = plan.named /\ (plan.mode)' = plan.mode
          /\ (plan.entries)' = plan.entries /\ (plan.phase)' = plan.phase
      BY <1>0, <2>1 DEF NotubizTypeOK
    <2>3. plan.phase = "expanding" /\ a \in Emitted \cup Topics
      BY <2>1 DEF InPlan, Emitted
    <2> QED BY <2>1, <2>2, <2>3, NotubizTurns
  <1>2. CASE AssemblyAnswers(a)
    <2>1. PICK children \in MayAnswer(ChildrenOf[a]) :
             /\ tasks' = tasks \cup children
             /\ plan' = Naming([plan EXCEPT !.assemblies = @ \ {a}], IF Full THEN children ELSE {})
      BY <1>2 DEF AssemblyAnswers
    <2>2. /\ InPlan("expanding") /\ outcome' = outcome /\ threads' = threads /\ seen' = seen
          /\ issues' = issues /\ storesVars' = storesVars
      BY <1>2 DEF AssemblyAnswers
    <2>3. /\ plan.phase = "expanding" /\ \A x \in plan.named : NotubizOwes(x)
          /\ NotubizTypeOK /\ NotubizPlan /\ issues \subseteq Emitted \cup Topics
      BY <2>2, NotubizAtRest
    <2> DEFINE fresh == IF Full THEN children ELSE {}
    <2>4. children \subseteq WindowMeetings BY <2>1 DEF MayAnswer
    <2>5. /\ fresh \subseteq WindowMeetings /\ fresh \subseteq Emitted /\ fresh \subseteq children
          /\ (~Full => fresh = {})
      BY <2>4 DEF Emitted
    <2>6. plan' = Naming([plan EXCEPT !.assemblies = @ \ {a}], fresh) BY <2>1
    <2> HIDE DEF fresh
    <2>7. /\ NotubizTypeOK' /\ (plan.phase)' = "expanding" /\ (plan.mode)' = plan.mode
          /\ (plan.entries)' = plan.entries /\ (plan.named)' = plan.named \cup fresh
      BY <2>3, <2>5, <2>6 DEF NotubizTypeOK, Naming
    <2>8. NotubizPlan' /\ tasks \subseteq WindowMeetings
      BY <2>1, <2>3, <2>4, <2>5, <2>7 DEF NotubizPlan, Full
    <2>9. committed' = committed /\ withheld' = withheld BY <2>2 DEF storesVars
    <2>10. \A x \in (plan.named)' : NotubizOwes(x)'
      <3>1. ASSUME NEW x \in plan.named PROVE NotubizOwes(x)'
        BY <2>1, <2>2, <2>3, <2>7, <2>9, <3>1 DEF NotubizOwes, NotubizDealt
      <3>2. ASSUME NEW x \in fresh PROVE NotubizOwes(x)'
        BY <2>1, <2>5, <3>2 DEF NotubizOwes
      <3> QED BY <2>7, <3>1, <3>2
    <2> QED BY <2>1, <2>2, <2>3, <2>4, <2>7, <2>8, <2>10, NotubizControl
  <1> QED BY <1>1, <1>2

LEMMA NotubizMeetingsDone ==
  ASSUME NotubizInvariant, PageMeetingsDone
  PROVE  NotubizInvariant'
  <1> USE ImportRunAssumption
  <1> DEFINE docs == IF Full THEN UNION { Attached[m] : m \in plan.found } ELSE {}
  <1>1. /\ PoolDone("meetings") /\ plan' = [plan EXCEPT !.phase = "documents", !.found = {}]
        /\ tasks' = docs
        /\ outcome' = outcome /\ threads' = threads /\ seen' = seen
        /\ issues' = issues /\ storesVars' = storesVars
    BY DEF PageMeetingsDone
  <1>2. /\ plan.phase = "meetings" /\ tasks = {} /\ \A x \in plan.named : NotubizOwes(x)
        /\ NotubizTypeOK /\ NotubizPlan /\ issues \subseteq Emitted \cup Topics
    BY <1>1, NotubizAtRest DEF PoolPhases
  <1>3. /\ docs \subseteq WindowDocuments
        /\ Full => \A m \in plan.found : \A x \in Attached[m] : x \in docs
    <2>1. plan.found \subseteq WindowMeetings BY <1>2 DEF NotubizTypeOK
    <2> QED BY <2>1
  <1> HIDE DEF docs
  <1>4. /\ NotubizTypeOK' /\ (plan.phase)' = "documents" /\ (plan.mode)' = plan.mode
        /\ (plan.entries)' = plan.entries /\ (plan.named)' = plan.named
    BY <1>1, <1>2 DEF NotubizTypeOK
  <1>5. NotubizPlan' BY <1>1, <1>2, <1>3, <1>4 DEF NotubizPlan, Full
  <1>6. committed' = committed /\ withheld' = withheld BY <1>1 DEF storesVars
  <1>7. \A x \in (plan.named)' : NotubizOwes(x)'
    BY <1>1, <1>2, <1>3, <1>4, <1>6 DEF NotubizOwes, NotubizDealt
  <1> QED BY <1>1, <1>2, <1>3, <1>4, <1>5, <1>7, NotubizControl

LEMMA NotubizModules ==
  ASSUME NotubizInvariant, NEW l \in Lists, ModuleAnswers(l) \/ ModuleUnreadable(l)
  PROVE  NotubizInvariant'
  <1> USE ImportRunAssumption DEF PoolPhases
  <1>0. NotubizTypeOK BY DEF NotubizInvariant
  <1>1. CASE ModuleUnreadable(l)
    <2>1. /\ InPlan("items") /\ plan' = [plan EXCEPT !.lists = @ \ {l}]
          /\ outcome' = outcome /\ tasks' = tasks /\ threads' = threads /\ seen' = seen
          /\ issues' = issues \cup {l} /\ storesVars' = storesVars
      BY <1>1 DEF ModuleUnreadable
    <2>2. /\ NotubizTypeOK' /\ (plan.named)' = plan.named /\ (plan.mode)' = plan.mode
          /\ (plan.entries)' = plan.entries /\ (plan.phase)' = plan.phase
      BY <1>0, <2>1 DEF NotubizTypeOK
    <2>3. plan.phase = "items" /\ l \in Emitted \cup Topics BY <2>1 DEF InPlan, Topics
    <2> QED BY <2>1, <2>2, <2>3, NotubizTurns
  <1>2. CASE ModuleAnswers(l)
    <2> DEFINE fresh(public) == (IF l \in MotionLists THEN public ELSE {})
                                \cup UNION { Attached[e] : e \in public }
    <2>1. PICK items \in MayAnswer({ e \in plan.changed : ListOf[e] = l }) :
             plan' = Naming([plan EXCEPT !.lists = @ \ {l}, !.entries = Public(items)],
                            fresh(Public(items)))
      BY <1>2 DEF ModuleAnswers
    <2>2. /\ InPlan("items") /\ plan.entries = {} /\ outcome' = outcome /\ tasks' = tasks
          /\ threads' = threads /\ seen' = seen /\ issues' = issues /\ storesVars' = storesVars
      BY <1>2 DEF ModuleAnswers
    <2>3. /\ plan.phase = "items" /\ \A x \in plan.named : NotubizOwes(x)
          /\ NotubizTypeOK /\ NotubizPlan /\ issues \subseteq Emitted \cup Topics
          /\ tasks \subseteq WindowMeetings \cup WindowDocuments \cup Entries
      BY <2>2, NotubizAtRest
    <2> DEFINE public == Public(items)
    <2>4. public \subseteq Entries /\ \A e \in public : ListOf[e] = l
      BY <2>1, <2>3 DEF NotubizTypeOK, MayAnswer, Public
    <2> HIDE DEF public
    <2>5. /\ fresh(public) \subseteq Entries \cup WindowDocuments
          /\ fresh(public) \cap Entries \subseteq (IF l \in MotionLists THEN public ELSE {})
          /\ \A x \in fresh(public) : \E e \in public : x = e \/ x \in Attached[e]
      BY <2>4
    <2>6. plan' = Naming([plan EXCEPT !.lists = @ \ {l}, !.entries = public], fresh(public))
      BY <2>1 DEF public
    <2> HIDE DEF fresh
    <2>7. /\ NotubizTypeOK' /\ (plan.phase)' = "items" /\ (plan.mode)' = plan.mode
          /\ (plan.entries)' = public /\ (plan.named)' = plan.named \cup fresh(public)
      <3>1. fresh(public) \subseteq Emitted BY <2>5 DEF Emitted
      <3> QED BY <2>3, <2>4, <2>6, <3>1 DEF NotubizTypeOK, Naming
    <2>8. NotubizPlan' BY <2>2, <2>3, <2>4, <2>5, <2>7 DEF NotubizPlan, Full
    <2>9. committed' = committed /\ withheld' = withheld BY <2>2 DEF storesVars
    <2>10. \A x \in (plan.named)' : NotubizOwes(x)'
      <3>1. ASSUME NEW x \in plan.named PROVE NotubizOwes(x)'
        BY <2>2, <2>3, <2>7, <2>9, <3>1 DEF NotubizOwes, NotubizDealt
      <3>2. ASSUME NEW x \in fresh(public) PROVE NotubizOwes(x)'
        BY <2>5, <2>7, <3>2 DEF NotubizOwes
      <3> QED BY <2>7, <3>1, <3>2
    <2> QED BY <2>2, <2>3, <2>7, <2>8, <2>10, NotubizControl
  <1> QED BY <1>1, <1>2

LEMMA NotubizItemGoesOn ==
  ASSUME NotubizInvariant, NextItem
  PROVE  NotubizInvariant'
  <1> USE ImportRunAssumption
  <1>1. PICK e \in plan.entries :
         /\ plan' = [plan EXCEPT !.entries = @ \ {e}, !.phase = "emitted"]
         /\ tasks' = Attached[e]
         /\ IF ListOf[e] \in MotionLists THEN Commit(Main, e, {})
            ELSE UNCHANGED <<threads, seen, storesVars>>
    BY DEF NextItem
  <1>2. InPlan("items") /\ outcome' = outcome /\ issues' = issues BY DEF NextItem
  <1>3. /\ plan.phase = "items" /\ \A x \in plan.named : NotubizOwes(x)
        /\ NotubizTypeOK /\ NotubizPlan /\ RunGoesOn /\ SeenIsSeenTo(issues)
        /\ outcome = "running" /\ \A t \in Pool \cup {Main} : threads[t] = Resting
    BY <1>2, NotubizAtRest DEF PoolPhases
  <1>4. e \in Entries /\ e \in Emitted /\ Attached[e] \subseteq WindowDocuments
    BY <1>1, <1>3 DEF NotubizTypeOK, Emitted
  <1>5. /\ NotubizTypeOK' /\ (plan.phase)' = "emitted" /\ (plan.mode)' = plan.mode
        /\ (plan.entries)' = plan.entries \ {e} /\ (plan.named)' = plan.named
    <2>1. plan' = [plan EXCEPT !.entries = @ \ {e}, !.phase = "emitted"] BY <1>1
    <2>2. NotubizTypeOK BY <1>3
    <2>3. plan.entries \ {e} \subseteq plan.entries OBVIOUS
    <2> QED BY <2>1, <2>2, <2>3 DEF NotubizTypeOK
  <1>6. NotubizPlan' BY <1>1, <1>3, <1>4, <1>5 DEF NotubizPlan, Full
  <1>7. /\ RunGoesOn' /\ WorkerStep(Main) /\ KeepsRows(Main) /\ seen' = seen
        /\ withheld' = withheld /\ committed \subseteq committed'
        /\ ListOf[e] \in MotionLists => e \in committed'
        /\ \/ threads'[Main] = Resting
           \/ threads'[Main].step = "indexing" /\ threads'[Main].rest = {}
    <2>1. CASE ListOf[e] \in MotionLists
      <3>1. Commit(Main, e, {}) /\ UNCHANGED <<outcome, issues>> BY <1>1, <1>2, <2>1
      <3>2. tasks' \subseteq WindowMeetings \cup WindowDocuments \cup Entries
        BY <1>1, <1>4
      <3>3. plan.phase \notin PoolPhases BY <1>3 DEF PoolPhases
      <3> QED BY <1>3, <1>4, <3>1, <3>2, <3>3, MainCommits
    <2>2. CASE ListOf[e] \notin MotionLists
      <3>1. threads' = threads /\ seen' = seen /\ storesVars' = storesVars BY <1>1, <2>2
      <3>2. /\ committed' = committed /\ withheld' = withheld /\ indexed' = indexed
            /\ buffered' = buffered
        BY <3>1 DEF storesVars
      <3>3. WorkerStep(Main) /\ KeepsRows(Main)
        BY <1>2, <1>3, <3>1, <3>2 DEF WorkerStep, KeepsRows, Resting
      <3>4. RunGoesOn'
        <4>1. tasks' \subseteq WindowMeetings \cup WindowDocuments \cup Entries
          BY <1>1, <1>4
        <4>2. issues' \subseteq Emitted \cup Topics
          BY <1>2, <1>3 DEF RunGoesOn, RunTypeOK
        <4>3. plan.phase \notin PoolPhases BY <1>3 DEF PoolPhases
        <4> QED BY <1>2, <1>3, <3>1, <4>1, <4>2, <4>3, ControlGoesOn
      <3> QED BY <1>3, <2>2, <3>1, <3>2, <3>3, <3>4
    <2> QED BY <2>1, <2>2
  <1>8. \A u \in Pool : threads'[u] = Resting BY <1>3, <1>7 DEF WorkerStep
  <1>9. NotubizHands'
    <2>1. \A t \in Pool : ~AtWork(t)' /\ threads'[t].hand # Media
      BY <1>8 DEF AtWork, Resting
    <2> QED BY <1>5, <1>7, <2>1 DEF NotubizHands
  <1>10. NotubizAccounts'
    <2> SUFFICES ASSUME NEW x \in plan.named, ~NotubizDealt(x)', x \notin tasks'
                 PROVE  \E k \in plan.entries \ {e} : x = k \/ x \in Attached[k]
      BY <1>5 DEF NotubizAccounts, NotubizDealt, Held
    <2>1. ~NotubizDealt(x) BY <1>2, <1>7 DEF NotubizDealt
    <2>2. x \notin tasks BY <1>3 DEF NotubizPlan
    <2>3. PICK k \in plan.entries : x = k \/ x \in Attached[k]
      BY <1>3, <2>1, <2>2 DEF NotubizOwes
    <2>4. CASE k = e /\ x = e
      <3>1. ListOf[e] \in MotionLists BY <1>3, <1>4, <2>4 DEF NotubizPlan
      <3> QED BY <1>7, <2>4, <3>1 DEF NotubizDealt
    <2>5. CASE k = e /\ x \in Attached[e] BY <1>1, <2>5
    <2> QED BY <2>3, <2>4, <2>5
  <1>11. RowsAreSent(issues)' BY <1>7, NotubizRowsStay DEF NotubizInvariant
  <1>12. SeenIsSeenTo(issues)'
    <2>1. \A t \in Pool : threads[t].step # "fetching" BY <1>3 DEF Resting
    <2> QED BY <1>2, <1>3, <1>7, <2>1 DEF SeenIsSeenTo, Failed
  <1> QED BY <1>5, <1>6, <1>7, <1>9, <1>10, <1>11, <1>12 DEF NotubizInvariant

LEMMA NotubizRunStep ==
  ASSUME NotubizInvariant, RunStep
  PROVE  NotubizInvariant'
  <1> USE ImportRunAssumption
  <1>1. /\ NotubizTypeOK /\ RunGoesOn /\ NotubizPlan /\ NotubizHands /\ NotubizAccounts
        /\ RowsAreSent(issues) /\ SeenIsSeenTo(issues)
    BY DEF NotubizInvariant
  <1>2. ~Failed /\ threads[Main] # Resting =>
          threads[Main].rest = {} /\ plan.phase \notin PoolPhases
    BY <1>1 DEF NotubizHands, PoolPhases
  <1>3. /\ RunGoesOn' /\ WorkerStep(Main) /\ KeepsRows(Main)
        /\ UNCHANGED <<tasks, seen, issues, committed, withheld>>
        /\ \/ plan' = plan
           \/ plan.phase = "flush" /\ plan' = [plan EXCEPT !.phase = "done"]
        /\ \/ outcome' = "failed" \/ threads'[Main] = Resting
           \/ /\ plan.phase = "flush" /\ plan' = plan
              /\ threads'[Main].step = "indexing" /\ threads'[Main].rest = {}
    BY <1>1, <1>2, RunSteps
  <1>4. NotubizTypeOK'
    <2>1. NotubizTypeOK BY <1>1
    <2>2. CASE plan' = plan BY <2>1, <2>2 DEF NotubizTypeOK
    <2>3. CASE plan' = [plan EXCEPT !.phase = "done"] BY <2>1, <2>3 DEF NotubizTypeOK
    <2> QED BY <1>3, <2>2, <2>3
  <1>5. /\ (plan.named)' = plan.named /\ (plan.mode)' = plan.mode
        /\ (plan.entries)' = plan.entries /\ (plan.found)' = plan.found
        /\ \/ (plan.phase)' = plan.phase
           \/ plan.phase = "flush" /\ (plan.phase)' = "done"
    BY <1>1, <1>3 DEF NotubizTypeOK
  <1>6. NotubizPlan' BY <1>1, <1>3, <1>5 DEF NotubizPlan, Full
  <1>7. /\ \A u \in Pool : threads'[u] = threads[u]
        /\ outcome = "failed" => outcome' = "failed"
    BY <1>3 DEF WorkerStep
  <1>8. NotubizHands'
    <2>1. ASSUME NEW u \in Pool PROVE NotubizHand(u)'
      BY <1>1, <1>5, <1>7 DEF NotubizHands, NotubizHand, AtWork
    <2>2. ~Failed' /\ threads'[Main] # Resting =>
            /\ (plan.phase)' \in {"emitted", "flush"} /\ threads'[Main].step = "indexing"
            /\ threads'[Main].rest = {}
      BY <1>3 DEF Failed
    <2> QED BY <2>1, <2>2 DEF NotubizHands, NotubizHand
  <1>9. NotubizAccounts'
    <2>1. \A y : Held(y)' <=> Held(y) BY <1>3, <1>7 DEF Held, Holds, AtWork
    <2> QED BY <1>1, <1>3, <1>5, <1>7, <2>1 DEF NotubizAccounts, Failed, Full
  <1>10. RowsAreSent(issues)' BY <1>1, <1>3, NotubizRowsStay
  <1>11. SeenIsSeenTo(issues)' BY <1>1, <1>3, <1>7 DEF SeenIsSeenTo, Failed
  <1> QED BY <1>3, <1>4, <1>6, <1>8, <1>9, <1>10, <1>11 DEF NotubizInvariant

LEMMA NotubizStarts == NotubizInit => NotubizInvariant
  <1> USE ImportRunAssumption, NotubizAssumption
  <1> SUFFICES ASSUME NotubizInit PROVE NotubizInvariant OBVIOUS
  <1>1. PICK m \in Modes, inWindow \in SUBSET Entries :
          plan = [supplier |-> "notubiz", mode |-> m, changed |-> inWindow,
                  phase |-> "types", chunks |-> Chunks(NotubizChunkDays),
                  events |-> {}, assemblies |-> {}, found |-> {},
                  lists |-> {}, entries |-> {}, named |-> {}]
    BY DEF NotubizInit
  <1>2. RunInit BY DEF NotubizInit
  <1>3. /\ RunGoesOn /\ RowsAreSent(issues) /\ SeenIsSeenTo(issues) /\ tasks = {}
        /\ \A t \in Pool \cup {Main} : threads[t] = Resting
    BY <1>2, RunStarts DEF RunInit
  <1>4. plan.phase = "types" /\ plan.entries = {} /\ plan.named = {} BY <1>1
  <1>5. NotubizTypeOK
    <2>1. Chunks(NotubizChunkDays) \in Seq(Ranges) BY ChunksAreRanges
    <2> QED BY <1>1, <2>1 DEF NotubizTypeOK
  <1>6. NotubizPlan BY <1>3, <1>4 DEF NotubizPlan
  <1>7. NotubizHands
    <2>1. \A t \in Pool : ~AtWork(t) /\ threads[t].hand # Media
      BY <1>3 DEF AtWork, Resting
    <2> QED BY <1>3, <2>1 DEF NotubizHands
  <1>8. NotubizAccounts BY <1>4 DEF NotubizAccounts
  <1> QED BY <1>3, <1>5, <1>6, <1>7, <1>8 DEF NotubizInvariant

LEMMA NotubizStep ==
  ASSUME NotubizInvariant, NotubizNext
  PROVE  NotubizInvariant'
  <1>1. CASE RunStep BY <1>1, NotubizRunStep
  <1>2. CASE \E t \in Pool :
            \/ DocumentStep(t) \/ DetailAnswers(t) \/ DetailWithheld(t) \/ MeetingThrows(t)
            \/ MediaAnswers(t) \/ MediaFails(t) \/ TranscriptMissing(t)
            \/ RecordingReady(t) \/ RecordingFails(t) \/ TakeAttachment(t)
    <2>1. PICK t \in Pool :
            \/ DocumentStep(t) \/ DetailAnswers(t) \/ DetailWithheld(t) \/ MeetingThrows(t)
            \/ MediaAnswers(t) \/ MediaFails(t) \/ TranscriptMissing(t)
            \/ RecordingReady(t) \/ RecordingFails(t) \/ TakeAttachment(t)
      BY <1>2
    <2>2. CASE DocumentStep(t) \/ TakeAttachment(t) \/ TranscriptMissing(t)
      BY <2>2, NotubizTakes, NotubizTakesAttachment, NotubizNotes, NotubizDocumentStep
         DEF DocumentStep
    <2>3. CASE DetailWithheld(t) \/ MeetingThrows(t) \/ MediaFails(t)
      BY <2>3, NotubizMeetingEnds
    <2>4. CASE DetailAnswers(t) \/ MediaAnswers(t) \/ RecordingReady(t) \/ RecordingFails(t)
      BY <2>4, NotubizDetails, NotubizMedia, NotubizRecords, NotubizTriesAgain
    <2> QED BY <2>1, <2>2, <2>3, <2>4
  <1>3. CASE \/ AttributesAnswered \/ NextEventWindow \/ PageEmpty \/ PageExpanded \/ PageDone
             \/ ModulesAnswered \/ ModulesUnknown \/ ItemEmitted \/ ItemDone \/ ItemsRead
    BY <1>3, NotubizTurnsOn
  <1>4. CASE PageAnswers \/ PageMeetingsDone \/ NextItem
    BY <1>4, NotubizPages, NotubizMeetingsDone, NotubizItemGoesOn
  <1>5. CASE \E a \in WindowMeetings : AssemblyAnswers(a) \/ AssemblyFails(a)
    BY <1>5, NotubizAssembles
  <1>6. CASE \E l \in Lists : ModuleAnswers(l) \/ ModuleUnreadable(l)
    BY <1>6, NotubizModules
  <1> QED BY <1>1, <1>2, <1>3, <1>4, <1>5, <1>6 DEF NotubizNext

LEMMA NotubizAccountsForAll == NotubizInvariant => NotubizLosesNothing
  <1> USE ImportRunAssumption
  <1> SUFFICES ASSUME NotubizInvariant, outcome \in {"succeeded", "partial"}
               PROVE  NotubizLosesNothing
    BY DEF NotubizLosesNothing, LosesNothing
  <1>1. NotubizTypeOK /\ RunGoesOn /\ NotubizPlan /\ NotubizAccounts /\ RowsAreSent(issues)
    BY DEF NotubizInvariant
  <1>2. /\ plan.phase = "done" /\ buffered = {} /\ ~Failed /\ committed \subseteq Emitted
        /\ \A t \in Pool \cup {Main} : threads[t] = Resting
    BY <1>1 DEF RunGoesOn, RunTypeOK, Failed, PoolPhases
  <1>3. tasks = {} /\ plan.entries = {} BY <1>1, <1>2 DEF NotubizPlan
  <1>4. \A x : ~Held(x) BY <1>2, <1>3 DEF Held, Holds, AtWork, Resting
  <1>5. \A x \in plan.named : x \in committed \cup withheld \cup issues
    BY <1>1, <1>2, <1>3, <1>4 DEF NotubizAccounts
  <1>6. committed \subseteq indexed \/ \E x \in committed : x \in issues
    <2>1. \A x : ~OnItsWay(x) BY <1>2 DEF OnItsWay, Resting
    <2> QED BY <1>1, <1>2, <2>1 DEF RowsAreSent
  <1>7. outcome = "succeeded" => issues = {} BY <1>1 DEF RunGoesOn
  <1> QED BY <1>5, <1>6, <1>7 DEF NotubizLosesNothing, LosesNothing

LEMMA NotubizStutters ==
  ASSUME NotubizInvariant, UNCHANGED importVars
  PROVE  NotubizInvariant'
  <1>1. /\ plan' = plan /\ outcome' = outcome /\ tasks' = tasks /\ threads' = threads
        /\ seen' = seen /\ issues' = issues /\ committed' = committed
        /\ buffered' = buffered /\ indexed' = indexed /\ withheld' = withheld
    BY DEF importVars
  <1>2. NotubizTypeOK' /\ RunGoesOn' /\ NotubizPlan'
    BY <1>1 DEF NotubizInvariant, NotubizTypeOK, RunGoesOn, RunTypeOK, NotubizPlan, Full
  <1>3. NotubizHands' /\ RowsAreSent(issues)' /\ SeenIsSeenTo(issues)'
    BY <1>1 DEF NotubizInvariant, NotubizHands, AtWork, AtMeeting, Failed, RowsAreSent,
                OnItsWay, SeenIsSeenTo
  <1>4. NotubizAccounts'
    BY <1>1 DEF NotubizInvariant, NotubizAccounts, Failed, Held, Holds, AtWork, Full
  <1> QED BY <1>2, <1>3, <1>4 DEF NotubizInvariant

(* A Notubiz import loses nothing of what the supplier named: not between  *)
(* the tasks that reject, the recordings emitted twice, the documents      *)
(* taken once per page and the attachments taken once per run.             *)
THEOREM NotubizImportsLoseNothing == NotubizSpec => []NotubizLosesNothing
  <1>1. NotubizInvariant /\ [NotubizNext]_importVars => NotubizInvariant'
    BY NotubizStep, NotubizStutters
  <1> QED BY <1>1, NotubizStarts, NotubizAccountsForAll, PTL DEF NotubizSpec
-----------------------------------------------------------------------------
(* What a worker of an iBabs import has in hand.                           *)
IbabsHand(t) ==
    AtWork(t) =>
        IF plan.phase = "documents" THEN AtDocument(threads[t]) ELSE AtEntry(threads[t])

(* A register entry is not an entity.                                      *)
IsEntity(x) == x \in Emitted /\ (x \in Entries => ListOf[x] \in MotionLists)

(* What a step of a worker has to see to.                                  *)
SeesToHand(t) ==
    \A x : threads[t].step = "fetching" /\ threads[t].hand = x /\ IsEntity(x) =>
        \/ Failed' \/ IbabsDealt(x)'
        \/ threads'[t].step = "fetching" /\ threads'[t].hand = x
SeesToRest(t) ==
    AtWork(t) =>
        \A x \in threads[t].rest : Failed' \/ IbabsDealt(x)' \/ Holds(t, x)' \/ x \in seen

LEMMA IbabsAtWork ==
  ASSUME IbabsTypeOK, RunGoesOn, NEW t \in Pool, AtWork(t)
  PROVE  plan.phase \in {"documents", "entries"}
  <1>1. threads[t] # Resting BY DEF AtWork, Resting
  <1> QED BY <1>1, AtWorkMeansPool DEF IbabsTypeOK, PoolPhases

LEMMA IbabsStaysTold ==
  ASSUME issues \subseteq issues', (plan.changed)' = plan.changed
  PROVE  IbabsTold \subseteq IbabsTold'
  BY DEF IbabsTold, IbabsReported

LEMMA IbabsStaysDealt ==
  ASSUME issues \subseteq issues', (plan.changed)' = plan.changed,
         committed \subseteq committed', withheld \subseteq withheld',
         NEW x, IbabsDealt(x)
  PROVE  IbabsDealt(x)'
  BY DEF IbabsDealt, IbabsReported

LEMMA IbabsMovesOn ==
  ASSUME IbabsTypeOK, NEW t \in Pool, AtWork(t), IbabsHands,
         NEW rest, rest \subseteq threads[t].rest,
         MovesOn(t, rest), plan' = plan
  PROVE  IbabsHand(t)'
  <1> USE ImportRunAssumption
  <1>1. CASE threads'[t].step \in {"resting", "rejected"} /\ threads'[t].hand = NoItem
    BY <1>1 DEF IbabsHand, AtWork
  <1>2. CASE /\ threads'[t].step = "indexing" /\ threads'[t].task = threads[t].task
             /\ threads'[t].hand = threads[t].hand /\ threads'[t].rest = rest
    BY <1>2 DEF IbabsHand, IbabsHands, AtWork, AtEntry, AtDocument
  <1>3. CASE /\ threads'[t].step = "fetching" /\ threads'[t].task = threads[t].task
             /\ threads'[t].hand \in rest /\ threads'[t].rest = rest \ {threads'[t].hand}
    <2>1. CASE plan.phase = "documents" BY <1>3, <2>1 DEF IbabsHands, AtDocument
    <2>2. CASE plan.phase # "documents"
      BY <1>3, <2>2 DEF IbabsHand, IbabsHands, AtWork, AtEntry
    <2> QED BY <2>1, <2>2
  <1> QED BY <1>1, <1>2, <1>3 DEF MovesOn

LEMMA IbabsHandsStay ==
  ASSUME IbabsHands, NEW t \in Pool, WorkerStep(t), plan' = plan, IbabsHand(t)'
  PROVE  IbabsHands'
  <1>1. t # Main BY ImportRunAssumption DEF ImportRunAssumption
  <1>2. \A u \in Pool : u # t => threads'[u] = threads[u] BY DEF WorkerStep
  <1>3. threads'[Main] = threads[Main] /\ (outcome = "failed" => outcome' = "failed")
    BY <1>1 DEF WorkerStep
  <1>4. ~Failed' /\ threads'[Main] # Resting =>
          /\ (plan.phase)' \in {"emitting", "flush"} /\ threads'[Main].step = "indexing"
          /\ threads'[Main].rest = {}
    BY <1>3 DEF IbabsHands, Failed
  <1>5. ASSUME NEW u \in Pool PROVE IbabsHand(u)'
    BY <1>2 DEF IbabsHands, IbabsHand, AtWork, AtEntry, AtDocument
  <1> QED BY <1>4, <1>5 DEF IbabsHands, IbabsHand

LEMMA IbabsRowsStay ==
  ASSUME NEW t \in Pool \cup {Main}, WorkerStep(t), KeepsRows(t), RowsAreSent(IbabsTold),
         (plan.changed)' = plan.changed
  PROVE  RowsAreSent(IbabsTold)'
  <1>1. IbabsTold \subseteq IbabsTold' /\ issues' \subseteq IbabsTold'
    BY IbabsStaysTold DEF WorkerStep, IbabsTold
  <1> QED BY <1>1, RowsStay DEF RowsAreSent, Failed, OnItsWay

LEMMA IbabsSeenStays ==
  ASSUME RunTypeOK, NEW t \in Pool, WorkerStep(t), SeesToHand(t), SeenIsSeenTo(IbabsTold),
         (plan.changed)' = plan.changed
  PROVE  SeenIsSeenTo(IbabsTold)'
  <1> USE ImportRunAssumption
  <1> SUFFICES ASSUME NEW x \in seen', ~Failed', x \notin committed' \cup withheld' \cup IbabsTold'
               PROVE  \E u \in Pool : threads'[u].step = "fetching" /\ threads'[u].hand = x
    BY DEF SeenIsSeenTo
  <1>1. CASE x \notin seen BY <1>1 DEF WorkerStep
  <1>2. CASE x \in seen
    <2>1. IbabsTold \subseteq IbabsTold' BY IbabsStaysTold DEF WorkerStep
    <2>2. PICK u \in Pool : threads[u].step = "fetching" /\ threads[u].hand = x
      BY <1>2, <2>1 DEF SeenIsSeenTo, WorkerStep, Failed
    <2>3. CASE u # t BY <2>2, <2>3 DEF WorkerStep
    <2>4. CASE u = t
      <3>1. x \in WindowDocuments /\ x \in Emitted BY <1>2 DEF RunTypeOK, Emitted
      <3>2. IsEntity(x) BY <3>1 DEF IsEntity
      <3>3. ~IbabsDealt(x)' BY <3>1 DEF IbabsDealt, IbabsTold
      <3>4. /\ threads[t].hand = x /\ threads[t].step = "fetching" BY <2>2, <2>4
      <3>5. \/ Failed' \/ IbabsDealt(x)'
            \/ threads'[t].step = "fetching" /\ threads'[t].hand = x
        BY <3>2, <3>4 DEF SeesToHand
      <3> QED BY <3>3, <3>5
    <2> QED BY <2>3, <2>4
  <1> QED BY <1>1, <1>2

(* What was accounted for stays accounted for.                             *)
LEMMA IbabsStaysAccounted ==
  ASSUME RunTypeOK, NEW t \in Pool, WorkerStep(t), SeesToHand(t), SeesToRest(t),
         SeenIsSeenTo(IbabsTold)', plan' = plan, tasks' = tasks,
         NEW x, IsEntity(x), IbabsAccounted(x)
  PROVE  IbabsAccounted(x)'
  <1> SUFFICES ASSUME ~Failed', ~IbabsDealt(x)' PROVE Held(x)' BY DEF IbabsAccounted
  <1>1. issues \subseteq issues' /\ committed \subseteq committed' /\ withheld \subseteq withheld'
        /\ (outcome = "failed" => outcome' = "failed") /\ seen \subseteq seen'
        /\ \A u \in Pool : u # t => threads'[u] = threads[u]
    BY DEF WorkerStep
  <1>2. Held(x) BY <1>1, IbabsStaysDealt DEF IbabsAccounted, Failed
  <1>3. x \in seen => Held(x)'
    <2> SUFFICES ASSUME x \in seen PROVE Held(x)' OBVIOUS
    <2>1. x \notin committed' \cup withheld' \cup IbabsTold'
      BY DEF IbabsDealt, IbabsTold, IbabsReported
    <2>2. \E u \in Pool : threads'[u].step = "fetching" /\ threads'[u].hand = x
      BY <1>1, <2>1 DEF SeenIsSeenTo
    <2> QED BY <2>2 DEF Held, Holds
  <1>4. CASE x \in tasks BY <1>4 DEF Held
  <1>5. ASSUME NEW u \in Pool, Holds(u, x) PROVE Held(x)'
    <2>1. CASE u # t BY <1>1, <1>5, <2>1 DEF Held, Holds, AtWork
    <2>2. CASE u = t /\ threads[t].step = "fetching" /\ threads[t].hand = x
      <3>1. \/ Failed' \/ IbabsDealt(x)'
            \/ threads'[t].step = "fetching" /\ threads'[t].hand = x
        BY <2>2 DEF SeesToHand
      <3> QED BY <3>1 DEF Held, Holds
    <2>3. CASE u = t /\ AtWork(t) /\ x \in threads[t].rest
      BY <1>3, <2>3 DEF SeesToRest, Held
    <2> QED BY <1>5, <2>1, <2>2, <2>3 DEF Holds
  <1> QED BY <1>2, <1>4, <1>5 DEF Held

(* A step of a worker keeps the invariant when it sees to all it had.      *)
LEMMA IbabsWorker ==
  ASSUME IbabsInvariant, NEW t \in Pool, AtWork(t), RunGoesOn', WorkerStep(t),
         RowsAreSent(IbabsTold)', plan' = plan, tasks' = tasks,
         IbabsHand(t)', SeesToHand(t), SeesToRest(t)
  PROVE  IbabsInvariant'
  <1> USE ImportRunAssumption
  <1>1. /\ IbabsTypeOK /\ RunGoesOn /\ IbabsPlan /\ IbabsHands /\ MeetingsAreAccounted
        /\ EntriesAreAccounted /\ SeenIsSeenTo(IbabsTold) /\ RunTypeOK
    BY DEF IbabsInvariant, RunGoesOn
  <1>2. IbabsTypeOK' /\ IbabsPlan' BY <1>1 DEF IbabsTypeOK, IbabsPlan
  <1>3. IbabsHands' BY <1>1, IbabsHandsStay
  <1>4. SeenIsSeenTo(IbabsTold)' BY <1>1, IbabsSeenStays
  <1>5. ASSUME NEW x, IsEntity(x), IbabsAccounted(x) PROVE IbabsAccounted(x)'
    BY <1>1, <1>4, <1>5, IbabsStaysAccounted
  <1>6. ASSUME NEW k \in WindowMeetings \cup Entries, NEW d \in Attached[k] PROVE IsEntity(d)
    <2>1. d \in WindowDocuments BY <1>6
    <2> QED BY <2>1 DEF IsEntity, Emitted
  <1>7. MeetingsAreAccounted'
    <2> SUFFICES ASSUME plan.mode = "full", NEW m \in ListedMeetings, ~ToCome(m)
                 PROVE  IbabsAccounted(m)' /\ \A d \in Attached[m] : IbabsAccounted(d)'
      BY DEF MeetingsAreAccounted, ToCome, InRange
    <2>1. IbabsAccounted(m) /\ \A d \in Attached[m] : IbabsAccounted(d)
      BY <1>1 DEF MeetingsAreAccounted
    <2>2. m \in WindowMeetings BY DEF ListedMeetings
    <2>3. IsEntity(m) BY <2>2 DEF IsEntity, Emitted
    <2>4. IbabsAccounted(m)' BY <1>5, <2>1, <2>3
    <2>5. ASSUME NEW d \in Attached[m] PROVE IbabsAccounted(d)'
      BY <1>5, <1>6, <2>1, <2>2
    <2> QED BY <2>4, <2>5
  <1>8. EntriesAreAccounted'
    <2> SUFFICES ASSUME plan.phase \in {"reading", "entries", "flush", "done"},
                        NEW e \in plan.changed, ListOf[e] \in Targets \cap plan.due,
                        ~Failed', ~EntryInHand(e)',
                        ~(plan.phase = "reading" /\
                            (ListOf[e] \in plan.lists \/ KindOf(ListOf[e]) \in plan.capped))
                 PROVE  /\ ListOf[e] \in MotionLists => IbabsAccounted(e)'
                        /\ \A d \in Attached[e] : IbabsAccounted(d)'
      BY DEF EntriesAreAccounted, Targets, KindOf
    <2>1. ~Failed /\ e \in Entries BY <1>1 DEF WorkerStep, Failed, IbabsTypeOK
    <2>2. CASE ~EntryInHand(e)
      <3>1. /\ ListOf[e] \in MotionLists => IbabsAccounted(e)
            /\ \A d \in Attached[e] : IbabsAccounted(d)
        BY <1>1, <2>1, <2>2 DEF EntriesAreAccounted
      <3>2. ListOf[e] \in MotionLists => IsEntity(e) BY <2>1 DEF IsEntity, Emitted
      <3>3. ASSUME NEW d \in Attached[e] PROVE IbabsAccounted(d)'
        BY <1>5, <1>6, <2>1, <3>1
      <3> QED BY <1>5, <3>1, <3>2, <3>3
    <2>3. CASE EntryInHand(e)
      <3>1. /\ threads[t].step = "fetching" /\ threads[t].hand = e
            /\ Attached[e] \subseteq threads[t].rest
        BY <2>3 DEF EntryInHand, WorkerStep
      <3>2. ListOf[e] \in MotionLists => IbabsAccounted(e)
        BY <3>1 DEF IbabsAccounted, Held, Holds
      <3>3. ListOf[e] \in MotionLists => IsEntity(e) BY <2>1 DEF IsEntity, Emitted
      <3>4. ASSUME NEW d \in Attached[e] PROVE IbabsAccounted(d)'
        <4>1. IbabsAccounted(d) BY <3>1 DEF IbabsAccounted, Held, Holds, AtWork
        <4> QED BY <1>5, <1>6, <2>1, <4>1
      <3> QED BY <1>5, <3>2, <3>3, <3>4
    <2> QED BY <2>2, <2>3
  <1> QED BY <1>2, <1>3, <1>4, <1>7, <1>8 DEF IbabsInvariant

LEMMA IbabsDocumentStep ==
  ASSUME IbabsInvariant, NEW t \in Pool,
         DocumentReady(t) \/ DocumentCaught(t) \/ BatchTaken(t)
  PROVE  IbabsInvariant'
  <1> USE ImportRunAssumption
  <1>1. /\ IbabsTypeOK /\ RunGoesOn /\ IbabsHands /\ RowsAreSent(IbabsTold)
    BY DEF IbabsInvariant
  <1>2. AtWork(t) BY DEF DocumentReady, DocumentCaught, BatchTaken, AtWork
  <1>3. threads[t].task = threads[t].hand /\ threads[t].hand \in WindowDocuments =>
          threads[t].rest = {}
    <2> SUFFICES ASSUME threads[t].task = threads[t].hand, threads[t].hand \in WindowDocuments
                 PROVE  threads[t].rest = {}
      OBVIOUS
    <2>1. plan.changed \subseteq Entries BY <1>1 DEF IbabsTypeOK
    <2>2. threads[t].task \notin plan.changed BY <2>1
    <2> QED BY <1>1, <1>2, <2>2 DEF IbabsHands, AtEntry, AtDocument
  <1>4. /\ RunGoesOn' /\ WorkerStep(t) /\ DealsWithHand(t) /\ KeepsRows(t)
        /\ MovesOn(t, threads[t].rest) /\ plan' = plan /\ tasks' = tasks
    BY <1>1, <1>3, DocumentDeals
  <1>5. IbabsHand(t)' BY <1>1, <1>2, <1>4, IbabsMovesOn
  <1>6. SeesToHand(t) /\ SeesToRest(t)
    BY <1>4 DEF SeesToHand, SeesToRest, DealsWithHand, IbabsDealt, IbabsReported, IsEntity, Failed
  <1>7. RowsAreSent(IbabsTold)' BY <1>1, <1>4, IbabsRowsStay
  <1> QED BY <1>2, <1>4, <1>5, <1>6, <1>7, IbabsWorker

LEMMA IbabsNotes ==
  ASSUME IbabsInvariant, NEW t \in Pool, DocumentNoted(t) \/ LinkUnknown(t)
  PROVE  IbabsInvariant'
  <1> USE ImportRunAssumption
  <1>1. RunGoesOn /\ IbabsHands /\ RowsAreSent(IbabsTold) BY DEF IbabsInvariant
  <1>2. /\ AtWork(t) /\ UNCHANGED <<plan, outcome, tasks, threads, seen, storesVars>>
    BY DEF DocumentNoted, LinkUnknown, AtWork
  <1>3. PICK x \in Emitted \cup Topics : issues' = issues \cup {x}
    BY DEF DocumentNoted, LinkUnknown, Topics, Emitted
  <1>4. RunGoesOn' /\ WorkerStep(t) /\ KeepsRows(t) BY <1>1, <1>2, <1>3, NotedGoesOn
  <1>5. plan' = plan /\ tasks' = tasks /\ threads' = threads BY <1>2
  <1>6. IbabsHand(t)'
    BY <1>1, <1>5 DEF IbabsHand, IbabsHands, AtWork, AtEntry, AtDocument
  <1>7. SeesToHand(t) /\ SeesToRest(t) BY <1>5 DEF SeesToHand, SeesToRest, Holds, AtWork
  <1>8. RowsAreSent(IbabsTold)' BY <1>1, <1>4, <1>5, IbabsRowsStay
  <1> QED BY <1>2, <1>4, <1>5, <1>6, <1>7, <1>8, IbabsWorker

(* A worker at an entry has it or one of its documents in hand.            *)
LEMMA IbabsAtEntry ==
  ASSUME IbabsInvariant, NEW t \in Pool, AtWork(t),
         threads[t].task \in Entries \/ threads[t].hand \in Entries
  PROVE  /\ plan.phase = "entries" /\ AtEntry(threads[t])
         /\ threads[t].task \in Entries
         /\ threads[t].hand \in Entries => threads[t].hand = threads[t].task
         /\ threads[t].hand \in Emitted /\ threads[t].task \in Emitted
  <1> USE ImportRunAssumption
  <1>1. /\ IbabsTypeOK /\ RunGoesOn /\ IbabsHands /\ plan.changed \subseteq Entries
    BY DEF IbabsInvariant, IbabsTypeOK
  <1>2. plan.phase = "entries" BY <1>1, IbabsAtWork DEF IbabsHands, AtDocument
  <1>3. AtEntry(threads[t]) BY <1>1, <1>2 DEF IbabsHands
  <1>4. threads[t].task \in Entries /\ Attached[threads[t].task] \subseteq WindowDocuments
    BY <1>1, <1>3 DEF AtEntry
  <1> QED BY <1>2, <1>3, <1>4 DEF AtEntry, Emitted

LEMMA IbabsEntryReady ==
  ASSUME IbabsInvariant, NEW t \in Pool, EntryReady(t)
  PROVE  IbabsInvariant'
  <1> USE ImportRunAssumption
  <1>1. IbabsTypeOK /\ RunGoesOn /\ IbabsHands /\ RunTypeOK /\ RowsAreSent(IbabsTold)
        /\ issues \subseteq Emitted \cup Topics
    BY DEF IbabsInvariant, RunGoesOn, RunTypeOK
  <1>2. /\ threads[t].step = "fetching" /\ threads[t].hand \in Entries /\ AtWork(t)
        /\ UNCHANGED <<plan, outcome, tasks, issues>>
    BY DEF EntryReady, AtWork
  <1>3. /\ threads[t].rest \in SUBSET (WindowDocuments \cup Recordings \cup {Media})
        /\ threads[t].hand \in Emitted
    BY <1>1, <1>2, RestsEmpty DEF Emitted
  <1>4. CASE ListOf[threads[t].hand] \in MotionLists /\ Commit(t, threads[t].hand, threads[t].rest)
    <2>1. /\ RunGoesOn' /\ WorkerStep(t) /\ DealsWithHand(t) /\ KeepsRows(t)
          /\ MovesOn(t, threads[t].rest)
      BY <1>1, <1>2, <1>3, <1>4, CommitDeals
    <2>2. IbabsHand(t)' BY <1>1, <1>2, <2>1, IbabsMovesOn
    <2>3. SeesToHand(t) /\ SeesToRest(t)
      BY <2>1 DEF SeesToHand, SeesToRest, DealsWithHand, IbabsDealt, IbabsReported, IsEntity, Failed
    <2>4. RowsAreSent(IbabsTold)' BY <1>1, <1>2, <2>1, IbabsRowsStay
    <2> QED BY <1>2, <2>1, <2>2, <2>3, <2>4, IbabsWorker
  <1>5. CASE /\ ListOf[threads[t].hand] \notin MotionLists /\ Continue(t, threads[t].rest)
             /\ UNCHANGED storesVars
    <2>1. issues \subseteq issues' /\ issues' \subseteq Emitted \cup Topics
      BY <1>1, <1>2
    <2>2. /\ RunGoesOn' /\ WorkerStep(t) /\ KeepsRows(t) /\ MovesOn(t, threads[t].rest)
          /\ \A x \in threads[t].rest : x \in seen \/ Holds(t, x)'
      BY <1>1, <1>2, <1>3, <1>5, <2>1, GoesOnWith
    <2>3. IbabsHand(t)' BY <1>1, <1>2, <2>2, IbabsMovesOn
    <2>4. SeesToHand(t) /\ SeesToRest(t)
      BY <1>2, <1>5, <2>2 DEF SeesToHand, SeesToRest, IsEntity
    <2>5. RowsAreSent(IbabsTold)' BY <1>1, <1>2, <2>2, IbabsRowsStay
    <2> QED BY <1>2, <2>2, <2>3, <2>4, <2>5, IbabsWorker
  <1> QED BY <1>4, <1>5 DEF EntryReady

LEMMA IbabsEntryFails ==
  ASSUME IbabsInvariant, NEW t \in Pool, EntryFails(t)
  PROVE  IbabsInvariant'
  <1> USE ImportRunAssumption
  <1>1. IbabsTypeOK /\ RunGoesOn /\ IbabsHands /\ RunTypeOK /\ RowsAreSent(IbabsTold)
        /\ issues \subseteq Emitted \cup Topics
    BY DEF IbabsInvariant, RunGoesOn, RunTypeOK
  <1>2. /\ threads[t].step \in {"fetching", "indexing"} /\ threads[t].task \in Entries /\ AtWork(t)
        /\ UNCHANGED <<plan, tasks, storesVars>>
    BY DEF EntryFails, AtWork
  <1>3. /\ AtEntry(threads[t])
        /\ threads[t].hand \in Entries => threads[t].hand = threads[t].task
        /\ threads[t].hand \in Emitted /\ threads[t].task \in Emitted
    BY <1>2, IbabsAtEntry
  <1>4. PICK e, x : e = threads[t].task /\ x = threads[t].hand OBVIOUS
  <1>5. /\ e \in plan.changed /\ x \in {e} \cup Attached[e] /\ threads[t].rest \subseteq Attached[e]
        /\ (x \in Entries => x = e) /\ x \in Emitted /\ e \in Emitted
    BY <1>3, <1>4 DEF AtEntry
  <1>6. ASSUME e \in issues', NEW y \in {e} \cup Attached[e] PROVE IbabsReported(y)'
    BY <1>2, <1>5, <1>6 DEF IbabsReported
  <1>7. threads[t].rest \in SUBSET (WindowDocuments \cup Recordings \cup {Media})
    BY <1>1, RestsEmpty
  <1>8. CASE /\ issues' = issues \cup {x} /\ UNCHANGED outcome
             /\ Continue(t, IF x \in Entries THEN {} ELSE threads[t].rest)
    <2>1. PICK rest \in SUBSET (WindowDocuments \cup Recordings \cup {Media}) :
            /\ rest = IF x \in Entries THEN {} ELSE threads[t].rest
            /\ Continue(t, rest)
      BY <1>7, <1>8
    <2>2. /\ issues \subseteq issues' /\ issues' \subseteq Emitted \cup Topics
          /\ \/ threads[t].step = "fetching"
             \/ threads[t].step = "indexing" /\ threads[t].hand \in issues'
      BY <1>1, <1>2, <1>4, <1>5, <1>8
    <2>3. /\ RunGoesOn' /\ WorkerStep(t) /\ KeepsRows(t) /\ MovesOn(t, rest)
          /\ \A y \in rest : y \in seen \/ Holds(t, y)'
      BY <1>1, <1>2, <1>8, <2>1, <2>2, GoesOnWith
    <2>4. IbabsHand(t)' BY <1>1, <1>2, <2>1, <2>3, IbabsMovesOn
    <2>5. SeesToHand(t) BY <1>4, <1>8 DEF SeesToHand, IbabsDealt, IbabsReported
    <2>6. SeesToRest(t)
      <3>1. CASE x \in Entries
        <4>1. e \in issues' BY <1>5, <1>8, <3>1
        <4> QED BY <1>5, <1>6, <4>1 DEF SeesToRest, IbabsDealt
      <3>2. CASE x \notin Entries BY <2>1, <2>3, <3>2 DEF SeesToRest
      <3> QED BY <3>1, <3>2
    <2>7. RowsAreSent(IbabsTold)' BY <1>1, <1>2, <2>3, IbabsRowsStay
    <2> QED BY <1>2, <2>3, <2>4, <2>5, <2>6, <2>7, IbabsWorker
  <1>9. CASE EndWithIssue(t, e) /\ UNCHANGED seen
    <2>1. /\ RunGoesOn' /\ WorkerStep(t) /\ MovesOn(t, threads[t].rest)
          /\ outcome' = "failed" \/ issues' = issues \cup {e}
          /\ threads[t].step # "indexing" => KeepsRows(t)
      BY <1>1, <1>2, <1>5, <1>9, EndDeals
    <2>2. IbabsHand(t)' BY <1>1, <1>2, <2>1, IbabsMovesOn
    <2>3. SeesToHand(t) BY <1>4, <1>5, <1>6, <2>1 DEF SeesToHand, IbabsDealt, Failed
    <2>4. SeesToRest(t) BY <1>5, <1>6, <2>1 DEF SeesToRest, IbabsDealt, Failed
    <2>5. RowsAreSent(IbabsTold)'
      <3>1. CASE threads[t].step # "indexing" BY <1>1, <1>2, <2>1, <3>1, IbabsRowsStay
      <3>2. CASE threads[t].step = "indexing" /\ issues' = issues \cup {e}
        <4>1. x \in committed BY <1>1, <1>4, <3>2 DEF RunGoesOn
        <4>2. IbabsReported(x)' /\ committed' = committed
          BY <1>2, <1>5, <1>6, <3>2 DEF storesVars
        <4>3. x \in committed' \cap IbabsTold' BY <1>5, <4>1, <4>2 DEF IbabsTold
        <4> QED BY <4>3 DEF RowsAreSent
      <3>3. CASE outcome' = "failed" BY <3>3 DEF RowsAreSent, Failed
      <3> QED BY <2>1, <3>1, <3>2, <3>3
    <2> QED BY <1>2, <2>1, <2>2, <2>3, <2>4, <2>5, IbabsWorker
  <1>10. \/ /\ issues' = issues \cup {x} /\ UNCHANGED outcome
            /\ Continue(t, IF x \in Entries THEN {} ELSE threads[t].rest)
         \/ EndWithIssue(t, e) /\ UNCHANGED seen
    BY <1>4 DEF EntryFails, Caught
  <1> QED BY <1>8, <1>9, <1>10

LEMMA IbabsTakes ==
  ASSUME IbabsInvariant, NEW t \in Pool, TakeTask(t)
  PROVE  IbabsInvariant'
  <1> USE ImportRunAssumption
  <1>1. /\ IbabsTypeOK /\ RunGoesOn /\ IbabsPlan /\ IbabsHands /\ MeetingsAreAccounted
        /\ EntriesAreAccounted /\ RowsAreSent(IbabsTold) /\ SeenIsSeenTo(IbabsTold)
    BY DEF IbabsInvariant
  <1>2. /\ RunGoesOn' /\ \A u \in Pool \cup {Main} : u # t => threads'[u] = threads[u]
        /\ threads[t].step = "resting"
    BY <1>1, TakesTask
  <1>3. PICK x \in tasks :
              /\ tasks' = tasks \ {x} /\ x \in WindowMeetings \cup WindowDocuments \cup Entries
              /\ threads'[t].step = "fetching"
              /\ threads'[t].task = x /\ threads'[t].hand = x /\ threads'[t].batch = {}
              /\ threads'[t].rest = IF x \in Entries THEN Attached[x] ELSE {}
    BY <1>1, TakesTask
  <1>4. /\ plan' = plan /\ outcome' = outcome /\ seen' = seen /\ issues' = issues
        /\ committed' = committed /\ indexed' = indexed /\ buffered' = buffered
        /\ withheld' = withheld /\ plan.phase \in PoolPhases \ {"attachments"}
    BY DEF TakeTask, storesVars
  <1>5. plan.phase \in {"documents", "entries"} /\ plan.changed \subseteq Entries
    BY <1>1, <1>4 DEF IbabsTypeOK, PoolPhases
  <1>6. /\ plan.phase = "documents" => x \in WindowDocuments /\ x \notin Entries
        /\ plan.phase = "entries" => x \in plan.changed /\ x \in Entries
    BY <1>1, <1>3, <1>5 DEF IbabsPlan
  <1>7. WorkerStep(t) BY <1>2, <1>4 DEF WorkerStep
  <1>8. IbabsTypeOK' /\ IbabsPlan' BY <1>1, <1>3, <1>4 DEF IbabsTypeOK, IbabsPlan
  <1>9. IbabsHands'
    <2>1. IbabsHand(t)'
      BY <1>3, <1>4, <1>5, <1>6 DEF IbabsHand, AtWork, AtEntry, AtDocument
    <2> QED BY <1>1, <1>4, <1>7, <2>1, IbabsHandsStay
  <1>10. ASSUME NEW y, IbabsAccounted(y) PROVE IbabsAccounted(y)'
    <2> SUFFICES ASSUME ~Failed, ~IbabsDealt(y) PROVE Held(y)'
      BY <1>4 DEF IbabsAccounted, Failed, IbabsDealt, IbabsReported
    <2>1. Held(y) BY <1>10 DEF IbabsAccounted
    <2>2. CASE y \in tasks BY <1>3, <2>2 DEF Held, Holds
    <2>3. CASE \E u \in Pool : Holds(u, y)
      <3>1. PICK u \in Pool : Holds(u, y) BY <2>3
      <3>2. u # t BY <1>2, <3>1 DEF Holds, AtWork
      <3> QED BY <1>2, <3>1, <3>2 DEF Held, Holds, AtWork
    <2> QED BY <2>1, <2>2, <2>3 DEF Held
  <1>11. MeetingsAreAccounted'
    <2> SUFFICES ASSUME plan.mode = "full", NEW m \in ListedMeetings, ~ToCome(m)
                 PROVE  IbabsAccounted(m)' /\ \A d \in Attached[m] : IbabsAccounted(d)'
      BY <1>4 DEF MeetingsAreAccounted, ToCome, InRange
    <2>1. IbabsAccounted(m) /\ \A d \in Attached[m] : IbabsAccounted(d)
      BY <1>1 DEF MeetingsAreAccounted
    <2> QED BY <1>10, <2>1
  <1>12. EntriesAreAccounted'
    <2> SUFFICES ASSUME NEW e \in plan.changed, ListOf[e] \in Targets \cap plan.due,
                        ~Failed, ~EntryInHand(e)',
                        plan.phase = "entries"
                 PROVE  /\ ListOf[e] \in MotionLists => IbabsAccounted(e)'
                        /\ \A d \in Attached[e] : IbabsAccounted(d)'
      BY <1>4, <1>5 DEF EntriesAreAccounted, Targets, KindOf, Failed
    <2>1. ~EntryInHand(e)
      <3> SUFFICES ASSUME EntryInHand(e) PROVE FALSE OBVIOUS
      <3>1. CASE e \in tasks /\ e # x BY <1>3, <3>1 DEF EntryInHand
      <3>2. CASE e = x BY <1>3, <1>5, <3>2 DEF EntryInHand
      <3>3. CASE \E u \in Pool : /\ threads[u].step = "fetching" /\ threads[u].hand = e
                                 /\ Attached[e] \subseteq threads[u].rest
        <4>1. PICK u \in Pool : /\ threads[u].step = "fetching" /\ threads[u].hand = e
                                /\ Attached[e] \subseteq threads[u].rest
          BY <3>3
        <4>2. u # t BY <1>2, <4>1
        <4>3. threads'[u] = threads[u] BY <1>2, <4>2
        <4> QED BY <4>1, <4>3 DEF EntryInHand
      <3> QED BY <3>1, <3>2, <3>3 DEF EntryInHand
    <2>2. /\ ListOf[e] \in MotionLists => IbabsAccounted(e)
          /\ \A d \in Attached[e] : IbabsAccounted(d)
      BY <1>1, <2>1 DEF EntriesAreAccounted
    <2> QED BY <1>10, <2>2
  <1>13. RowsAreSent(IbabsTold)'
    <2>1. KeepsRows(t) BY <1>2, <1>4 DEF KeepsRows
    <2> QED BY <1>1, <1>4, <1>7, <2>1, IbabsRowsStay
  <1>14. SeenIsSeenTo(IbabsTold)'
    <2>1. SeesToHand(t) BY <1>2 DEF SeesToHand
    <2> QED BY <1>1, <1>4, <1>7, <2>1, IbabsSeenStays DEF RunGoesOn
  <1> QED BY <1>2, <1>8, <1>9, <1>11, <1>12, <1>13, <1>14 DEF IbabsInvariant
-----------------------------------------------------------------------------
(* The days of a list of ranges.                                           *)
LEMMA RangesInHead ==
  ASSUME NEW q \in Seq(Ranges), q # <<>>, NEW d
  PROVE  /\ Tail(q) \in Seq(Ranges) /\ Head(q) \in Ranges
         /\ InRange(d, q) => d \in Head(q).from .. Head(q).to \/ InRange(d, Tail(q))
  <1>1. /\ Tail(q) \in Seq(Ranges) /\ Head(q) \in Ranges /\ Len(q) \in Nat \ {0}
        /\ Len(Tail(q)) = Len(q) - 1 /\ Head(q) = q[1]
        /\ \A i \in 1 .. Len(q) - 1 : Tail(q)[i] = q[i + 1]
    OBVIOUS
  <1> SUFFICES ASSUME InRange(d, q) PROVE d \in Head(q).from .. Head(q).to \/ InRange(d, Tail(q))
    BY <1>1
  <1>2. PICK i \in 1 .. Len(q) : d \in q[i].from .. q[i].to BY DEF InRange
  <1>3. CASE i = 1 BY <1>1, <1>2, <1>3
  <1>4. CASE i # 1
    <2>1. i - 1 \in 1 .. Len(q) - 1 /\ (i - 1) + 1 = i BY <1>1, <1>2, <1>4
    <2>2. Tail(q)[i - 1] = q[i] BY <1>1, <2>1
    <2>3. DOMAIN Tail(q) = 1 .. Len(Tail(q)) BY <1>1
    <2>4. d \in Tail(q)[i - 1].from .. Tail(q)[i - 1].to BY <1>2, <2>2
    <2> QED BY <1>1, <2>1, <2>3, <2>4 DEF InRange
  <1> QED BY <1>3, <1>4

(* Halving a range leaves none of its days out.                            *)
LEMMA HalvesCover ==
  ASSUME NEW q \in Seq(Ranges), q # <<>>, Head(q).from < Head(q).to
  PROVE  /\ Halves(Head(q)) \o Tail(q) \in Seq(Ranges) /\ Halves(Head(q)) \o Tail(q) # <<>>
         /\ \A d : InRange(d, q) => InRange(d, Halves(Head(q)) \o Tail(q))
  <1> USE ImportRunAssumption
  <1> DEFINE w == Head(q)
             leftEnd == w.from + (w.to - w.from) \div 2
             left == [from |-> w.from, to |-> leftEnd]
             right == [from |-> leftEnd + 1, to |-> w.to]
             parts == Halves(w) \o Tail(q)
  <1>1. w \in Ranges /\ Tail(q) \in Seq(Ranges) BY RangesInHead
  <1>2. leftEnd \in Int /\ w.from <= leftEnd /\ leftEnd < w.to BY <1>1 DEF Ranges
  <1>3. left \in Ranges /\ right \in Ranges
    <2> HIDE DEF leftEnd, w
    <2> QED BY <1>1, <1>2 DEF Ranges, w
  <1>4. Halves(w) = <<left, right>> BY DEF Halves
  <1> HIDE DEF left, right
  <1>5. /\ parts \in Seq(Ranges) /\ parts # <<>> /\ Len(parts) = 2 + Len(Tail(q))
        /\ parts[1] = left /\ parts[2] = right
        /\ \A i \in 1 .. Len(Tail(q)) : parts[i + 2] = Tail(q)[i]
    <2> DEFINE tail == Tail(q)
    <2>1. tail \in Seq(Ranges) /\ Len(tail) \in Nat /\ parts = <<left, right>> \o tail
      <3>1. Halves(w) \o Tail(q) = <<left, right>> \o Tail(q) BY <1>4
      <3>2. Tail(q) \in Seq(Ranges) /\ Len(Tail(q)) \in Nat BY <1>1
      <3> QED BY <3>1, <3>2
    <2> HIDE DEF tail, parts
    <2>2. parts \in Seq(Ranges) /\ Len(parts) = 2 + Len(tail)
      <3>1. <<left, right>> \in Seq(Ranges) /\ Len(<<left, right>>) = 2 BY <1>3
      <3> QED BY <2>1, <3>1
    <2>3. parts # <<>> BY <2>1, <2>2
    <2>4. parts[1] = left /\ parts[2] = right BY <2>1
    <2>5. ASSUME NEW i \in 1 .. Len(tail) PROVE parts[i + 2] = tail[i] BY <2>1
    <2> QED BY <2>2, <2>3, <2>4, <2>5 DEF tail
  <1>6. ASSUME NEW d, InRange(d, q) PROVE InRange(d, parts)
    <2>1. CASE d \in w.from .. w.to
      <3>1. d \in left.from .. left.to \/ d \in right.from .. right.to
        <4>1. left.from = w.from /\ left.to = leftEnd /\ right.from = leftEnd + 1 /\ right.to = w.to
          BY DEF left, right
        <4>2. w.from \in Int /\ w.to \in Int BY <1>1 DEF Ranges
        <4> HIDE DEF leftEnd, w
        <4> QED BY <1>2, <2>1, <4>1, <4>2
      <3>2. 1 \in DOMAIN parts /\ 2 \in DOMAIN parts BY <1>1, <1>5
      <3> HIDE DEF parts, w
      <3> QED BY <1>5, <3>1, <3>2 DEF InRange
    <2>2. CASE InRange(d, Tail(q))
      <3>1. PICK i \in 1 .. Len(Tail(q)) : d \in Tail(q)[i].from .. Tail(q)[i].to
        BY <1>1, <2>2 DEF InRange
      <3>2. i + 2 \in DOMAIN parts BY <1>1, <1>5, <3>1
      <3> HIDE DEF parts
      <3> QED BY <1>5, <3>1, <3>2 DEF InRange
    <2> QED BY <1>6, <2>1, <2>2, RangesInHead
  <1> QED BY <1>5, <1>6

(* The parts of a window leave none of its days out.                       *)
LEMMA ChunksCover ==
  ASSUME NEW days \in Nat \ {0}, NEW d \in 0 .. LastWindowDay
  PROVE  InRange(d, Chunks(days))
  <1> USE ImportRunAssumption
  <1> DEFINE n == LastWindowDay \div days
             k == d \div days
  <1>1. n \in Nat /\ k \in Nat OBVIOUS
  <1>2. /\ k * days <= d /\ d < (k + 1) * days
        /\ n * days <= LastWindowDay /\ LastWindowDay < (n + 1) * days
    OBVIOUS
  <1> HIDE DEF n, k
  <1>3. k <= n
    <2> SUFFICES ASSUME k >= n + 1 PROVE FALSE BY <1>1
    <2>1. k * days >= (n + 1) * days BY <1>1
    <2>2. k * days \in Int /\ (n + 1) * days \in Int BY <1>1
    <2> QED BY <1>2, <2>1, <2>2
  <1>4. k + 1 \in 1 .. n + 1 /\ DOMAIN Chunks(days) = 1 .. n + 1
    BY <1>1, <1>3 DEF Chunks, n
  <1>5. Chunks(days)[k + 1] = [from |-> k * days, to |-> Least((k + 1) * days - 1, LastWindowDay)]
    <2>1. (k + 1) - 1 = k BY <1>1
    <2> QED BY <1>4, <2>1 DEF Chunks, n
  <1>6. d \in k * days .. Least((k + 1) * days - 1, LastWindowDay)
    <2>1. k * days \in Int /\ (k + 1) * days \in Int BY <1>1
    <2> QED BY <1>2, <2>1 DEF Least
  <1> QED BY <1>4, <1>5, <1>6 DEF InRange
-----------------------------------------------------------------------------
(* Between the steps of its control an iBabs run has only what it still    *)
(* has to take.                                                            *)
IbabsOwes(x) == IbabsDealt(x) \/ x \in tasks

LEMMA IbabsAtRest ==
  ASSUME IbabsInvariant, NEW phase,
         (InPlan(phase) /\ phase \notin PoolPhases) \/ PoolDone(phase)
  PROVE  /\ \A t \in Pool \cup {Main} : threads[t] = Resting
         /\ outcome = "running" /\ plan.phase = phase /\ (phase \notin PoolPhases \/ tasks = {})
         /\ \A x : IbabsAccounted(x) <=> IbabsOwes(x)
         /\ \A e : EntryInHand(e) <=> e \in tasks
         /\ IbabsTypeOK /\ RunGoesOn /\ IbabsPlan /\ MeetingsAreAccounted /\ EntriesAreAccounted
         /\ tasks \subseteq WindowMeetings \cup WindowDocuments \cup Entries
         /\ issues \subseteq Emitted \cup Topics
  <1>1. /\ IbabsTypeOK /\ RunGoesOn /\ IbabsPlan /\ MeetingsAreAccounted /\ EntriesAreAccounted
        /\ tasks \subseteq WindowMeetings \cup WindowDocuments \cup Entries
        /\ issues \subseteq Emitted \cup Topics
    BY DEF IbabsInvariant, RunGoesOn, RunTypeOK
  <1>2. /\ \A t \in Pool \cup {Main} : threads[t] = Resting
        /\ outcome = "running" /\ plan.phase = phase /\ (phase \notin PoolPhases \/ tasks = {})
    BY <1>1, AllRest
  <1>3. \A y : Held(y) <=> y \in tasks BY <1>2 DEF Held, Holds, AtWork, Resting
  <1>4. \A e : EntryInHand(e) <=> e \in tasks BY <1>2 DEF EntryInHand, Resting
  <1> QED BY <1>1, <1>2, <1>3, <1>4 DEF IbabsAccounted, IbabsOwes, Failed

LEMMA IbabsControl ==
  ASSUME IbabsInvariant, NEW phase,
         (InPlan(phase) /\ phase \notin PoolPhases) \/ PoolDone(phase),
         outcome' = outcome, threads' = threads, seen' = seen, storesVars' = storesVars,
         tasks \subseteq tasks',
         tasks' \subseteq WindowMeetings \cup WindowDocuments \cup Entries,
         issues \subseteq issues', issues' \subseteq Emitted \cup Topics,
         IbabsTypeOK', IbabsPlan', (plan.changed)' = plan.changed, (plan.mode)' = plan.mode,
         plan.mode = "full" => \A m \in ListedMeetings : ToCome(m) => ToCome(m)',
         (plan.phase)' \in {"reading", "entries", "flush", "done"} =>
            \A e \in plan.changed : ListOf[e] \in Targets \cap (plan.due)' =>
                \/ e \in tasks'
                \/ /\ (plan.phase)' = "reading"
                   /\ ListOf[e] \in (plan.lists)' \/ KindOf(ListOf[e]) \in (plan.capped)'
                \/ /\ ListOf[e] \in MotionLists => IbabsOwes(e)'
                   /\ \A d \in Attached[e] : IbabsOwes(d)'
  PROVE  IbabsInvariant'
  <1>1. /\ RunGoesOn /\ RowsAreSent(IbabsTold) /\ SeenIsSeenTo(IbabsTold)
        /\ MeetingsAreAccounted
        /\ \A t \in Pool \cup {Main} : threads[t] = Resting
        /\ outcome = "running"
        /\ \A x : IbabsAccounted(x) <=> IbabsOwes(x)
    BY IbabsAtRest DEF IbabsInvariant
  <1>2. RunGoesOn' BY <1>1, ControlGoesOn
  <1>3. IbabsHands'
    <2>1. \A t \in Pool : ~AtWork(t)' BY <1>1 DEF AtWork, Resting
    <2>2. threads'[Main] = Resting BY <1>1
    <2> QED BY <2>1, <2>2 DEF IbabsHands
  <1>4. IbabsTold \subseteq IbabsTold' BY IbabsStaysTold
  <1>5. committed' = committed /\ withheld' = withheld BY DEF storesVars
  <1>6. ASSUME NEW x, IbabsOwes(x) PROVE IbabsOwes(x)'
    BY <1>5, <1>6, IbabsStaysDealt DEF IbabsOwes
  <1>7. ASSUME NEW x, IbabsOwes(x)' PROVE IbabsAccounted(x)'
    BY <1>7 DEF IbabsOwes, IbabsAccounted, Held
  <1>8. MeetingsAreAccounted'
    <2> SUFFICES ASSUME plan.mode = "full", NEW m \in ListedMeetings, ~ToCome(m)'
                 PROVE  IbabsAccounted(m)' /\ \A d \in Attached[m] : IbabsAccounted(d)'
      BY DEF MeetingsAreAccounted
    <2>1. IbabsOwes(m) /\ \A d \in Attached[m] : IbabsOwes(d)
      BY <1>1 DEF MeetingsAreAccounted
    <2> QED BY <1>6, <1>7, <2>1
  <1>9. EntriesAreAccounted'
    <2> SUFFICES ASSUME (plan.phase)' \in {"reading", "entries", "flush", "done"},
                        NEW e \in plan.changed, ListOf[e] \in Targets \cap (plan.due)',
                        e \notin tasks',
                        ~( /\ (plan.phase)' = "reading"
                           /\ ListOf[e] \in (plan.lists)' \/ KindOf(ListOf[e]) \in (plan.capped)')
                 PROVE  /\ ListOf[e] \in MotionLists => IbabsAccounted(e)'
                        /\ \A d \in Attached[e] : IbabsAccounted(d)'
      BY DEF EntriesAreAccounted, Targets, KindOf, EntryInHand
    <2>1. /\ ListOf[e] \in MotionLists => IbabsOwes(e)'
          /\ \A d \in Attached[e] : IbabsOwes(d)'
      OBVIOUS
    <2> QED BY <1>7, <2>1
  <1>10. RowsAreSent(IbabsTold)'
    BY <1>1, <1>4, ControlRows DEF RowsAreSent, Failed, OnItsWay
  <1>11. SeenIsSeenTo(IbabsTold)' BY <1>1, <1>4, <1>5 DEF SeenIsSeenTo, Failed
  <1> QED BY <1>2, <1>3, <1>8, <1>9, <1>10, <1>11 DEF IbabsInvariant

LEMMA IbabsTypesKnown ==
  ASSUME IbabsInvariant, TypesKnown \/ TypesUnknown
  PROVE  IbabsInvariant'
  <1>1. /\ InPlan("types") /\ plan' = [plan EXCEPT !.phase = "chunk"]
        /\ outcome' = outcome /\ tasks' = tasks /\ threads' = threads /\ seen' = seen
        /\ issues' \in {issues, issues \cup {"types"}} /\ storesVars' = storesVars
    BY DEF TypesKnown, TypesUnknown
  <1>2. "types" \notin PoolPhases BY DEF PoolPhases
  <1>3. /\ plan.phase = "types" /\ IbabsTypeOK /\ IbabsPlan
        /\ tasks \subseteq WindowMeetings \cup WindowDocuments \cup Entries
        /\ issues \subseteq Emitted \cup Topics
    BY <1>1, <1>2, IbabsAtRest
  <1>4. /\ IbabsTypeOK' /\ (plan.phase)' = "chunk" /\ (plan.mode)' = plan.mode
        /\ (plan.chunks)' = plan.chunks /\ (plan.windows)' = plan.windows
        /\ (plan.meetings)' = plan.meetings /\ (plan.changed)' = plan.changed
        /\ (plan.due)' = plan.due
    BY <1>1, <1>3 DEF IbabsTypeOK
  <1>5. IbabsPlan' BY <1>1, <1>3, <1>4 DEF IbabsPlan
  <1>6. issues \subseteq issues' /\ issues' \subseteq Emitted \cup Topics
    BY <1>1, <1>3 DEF Topics
  <1>7. \A m \in ListedMeetings : ToCome(m) => ToCome(m)' BY <1>4 DEF ToCome, InRange
  <1> QED BY <1>1, <1>2, <1>3, <1>4, <1>5, <1>6, <1>7, IbabsControl

LEMMA IbabsNextChunk ==
  ASSUME IbabsInvariant, NextChunk
  PROVE  IbabsInvariant'
  <1>1. /\ InPlan("chunk")
        /\ plan' = IF plan.chunks = <<>> THEN [plan EXCEPT !.phase = "lists"]
                   ELSE [plan EXCEPT !.phase = "listing", !.windows = <<Head(plan.chunks)>>,
                                     !.chunks = Tail(@)]
        /\ outcome' = outcome /\ tasks' = tasks /\ threads' = threads /\ seen' = seen
        /\ issues' = issues /\ storesVars' = storesVars
    BY DEF NextChunk
  <1>2. "chunk" \notin PoolPhases BY DEF PoolPhases
  <1>3. /\ plan.phase = "chunk" /\ IbabsTypeOK /\ IbabsPlan
        /\ tasks \subseteq WindowMeetings \cup WindowDocuments \cup Entries
        /\ issues \subseteq Emitted \cup Topics
    BY <1>1, <1>2, IbabsAtRest
  <1>4. plan.chunks \in Seq(Ranges) BY <1>3 DEF IbabsTypeOK
  <1>5. CASE plan.chunks = <<>>
    <2>1. /\ IbabsTypeOK' /\ (plan.phase)' = "lists" /\ (plan.mode)' = plan.mode
          /\ (plan.chunks)' = plan.chunks /\ (plan.windows)' = plan.windows
          /\ (plan.meetings)' = plan.meetings /\ (plan.changed)' = plan.changed
          /\ (plan.due)' = plan.due
      BY <1>1, <1>3, <1>5 DEF IbabsTypeOK
    <2>2. IbabsPlan' BY <1>1, <1>3, <1>5, <2>1 DEF IbabsPlan
    <2>3. \A m \in ListedMeetings : ToCome(m) => ToCome(m)' BY <2>1 DEF ToCome, InRange
    <2> QED BY <1>1, <1>2, <1>3, <2>1, <2>2, <2>3, IbabsControl
  <1>6. CASE plan.chunks # <<>>
    <2> DEFINE w == Head(plan.chunks)
    <2>1. Tail(plan.chunks) \in Seq(Ranges) /\ w \in Ranges BY <1>4, <1>6, RangesInHead
    <2>2. plan' = [plan EXCEPT !.phase = "listing", !.windows = <<w>>,
                               !.chunks = Tail(plan.chunks)]
      BY <1>1, <1>6
    <2>3. \A d : InRange(d, plan.chunks) => d \in w.from .. w.to \/ InRange(d, Tail(plan.chunks))
      BY <1>4, <1>6, RangesInHead
    <2> HIDE DEF w
    <2>4. <<w>> \in Seq(Ranges) /\ <<w>> # <<>> BY <2>1
    <2>5. IbabsTypeOK' BY <1>3, <2>1, <2>2, <2>4 DEF IbabsTypeOK
    <2>6. /\ (plan.phase)' = "listing" /\ (plan.mode)' = plan.mode
          /\ (plan.chunks)' = Tail(plan.chunks) /\ (plan.windows)' = <<w>>
          /\ (plan.meetings)' = plan.meetings /\ (plan.changed)' = plan.changed
          /\ (plan.due)' = plan.due
      BY <1>3, <2>2 DEF IbabsTypeOK
    <2>7. IbabsPlan' BY <1>1, <1>3, <2>4, <2>6 DEF IbabsPlan
    <2>8. \A d : d \in w.from .. w.to => InRange(d, <<w>>)
      <3>1. 1 \in DOMAIN <<w>> /\ <<w>>[1] = w OBVIOUS
      <3> QED BY <3>1 DEF InRange
    <2>9. ASSUME NEW m \in ListedMeetings, ToCome(m) PROVE ToCome(m)'
      <3>1. plan.windows = <<>> /\ plan.meetings = {} BY <1>3 DEF IbabsPlan
      <3>2. ~InRange(HeldOn[m], <<>>) BY DEF InRange
      <3>3. InRange(HeldOn[m], plan.chunks) BY <2>9, <3>1, <3>2 DEF ToCome
      <3>4. InRange(HeldOn[m], <<w>>) \/ InRange(HeldOn[m], Tail(plan.chunks))
        BY <2>3, <2>8, <3>3
      <3>5. InRange(HeldOn[m], (plan.windows)') \/ InRange(HeldOn[m], (plan.chunks)')
        BY <2>6, <3>4
      <3> QED BY <3>5 DEF ToCome, InRange
    <2> QED BY <1>1, <1>2, <1>3, <2>5, <2>6, <2>7, <2>9, IbabsControl
  <1> QED BY <1>5, <1>6

LEMMA IbabsListAnswers ==
  ASSUME IbabsInvariant, ListAnswers
  PROVE  IbabsInvariant'
  <1> USE ImportRunAssumption
  <1> DEFINE w == Head(plan.windows)
             rest == Tail(plan.windows)
             answer == HeldIn(w)
             next == IF rest = <<>> THEN "emitting" ELSE plan.phase
  <1>1. /\ InPlan("listing")
        /\ plan' = [plan EXCEPT !.meetings = plan.meetings \cup answer, !.windows = rest,
                                !.phase = next]
        /\ outcome' = outcome /\ tasks' = tasks /\ threads' = threads /\ seen' = seen
        /\ issues' = issues /\ storesVars' = storesVars
    BY DEF ListAnswers
  <1>2. "listing" \notin PoolPhases BY DEF PoolPhases
  <1>3. /\ plan.phase = "listing" /\ IbabsTypeOK /\ IbabsPlan
        /\ tasks \subseteq WindowMeetings \cup WindowDocuments \cup Entries
        /\ issues \subseteq Emitted \cup Topics
    BY <1>1, <1>2, IbabsAtRest
  <1>4. plan.windows \in Seq(Ranges) /\ plan.windows # <<>>
    BY <1>3 DEF IbabsTypeOK, IbabsPlan
  <1>5. /\ rest \in Seq(Ranges) /\ w \in Ranges
        /\ \A d : InRange(d, plan.windows) => d \in w.from .. w.to \/ InRange(d, rest)
    BY <1>4, RangesInHead
  <1>6. answer \subseteq WindowMeetings BY DEF HeldIn, ListedMeetings
  <1>7. \A m \in ListedMeetings : HeldOn[m] \in w.from .. w.to => m \in answer
    BY DEF HeldIn
  <1>8. next \in {"listing", "emitting"} /\ (next = "emitting" <=> rest = <<>>) BY <1>3
  <1> HIDE DEF w, rest, answer, next
  <1>9. IbabsTypeOK' BY <1>1, <1>3, <1>5, <1>6, <1>8 DEF IbabsTypeOK
  <1>10. /\ (plan.phase)' = next /\ (plan.mode)' = plan.mode
         /\ (plan.chunks)' = plan.chunks /\ (plan.windows)' = rest
         /\ (plan.meetings)' = plan.meetings \cup answer /\ (plan.changed)' = plan.changed
         /\ (plan.due)' = plan.due
    BY <1>1, <1>3 DEF IbabsTypeOK
  <1>11. IbabsPlan' BY <1>1, <1>3, <1>8, <1>10 DEF IbabsPlan
  <1>12. ASSUME NEW m \in ListedMeetings, ToCome(m) PROVE ToCome(m)'
    <2>1. \/ InRange(HeldOn[m], (plan.chunks)') \/ InRange(HeldOn[m], (plan.windows)')
          \/ m \in (plan.meetings)'
      BY <1>5, <1>7, <1>10, <1>12 DEF ToCome
    <2> QED BY <2>1 DEF ToCome, InRange
  <1> QED BY <1>1, <1>2, <1>3, <1>8, <1>9, <1>10, <1>11, <1>12, IbabsControl

LEMMA IbabsListTimesOut ==
  ASSUME IbabsInvariant, ListTimesOut
  PROVE  IbabsInvariant'
  <1> USE ImportRunAssumption
  <1> DEFINE parts == Halves(Head(plan.windows)) \o Tail(plan.windows)
  <1>1. /\ InPlan("listing") /\ Head(plan.windows).from < Head(plan.windows).to
        /\ plan' = [plan EXCEPT !.windows = parts] /\ issues' = issues \cup {"split"}
        /\ outcome' = outcome /\ tasks' = tasks /\ threads' = threads /\ seen' = seen
        /\ storesVars' = storesVars
    BY DEF ListTimesOut
  <1>2. "listing" \notin PoolPhases BY DEF PoolPhases
  <1>3. /\ plan.phase = "listing" /\ IbabsTypeOK /\ IbabsPlan
        /\ tasks \subseteq WindowMeetings \cup WindowDocuments \cup Entries
        /\ issues \subseteq Emitted \cup Topics
    BY <1>1, <1>2, IbabsAtRest
  <1>4. plan.windows \in Seq(Ranges) /\ plan.windows # <<>>
    BY <1>3 DEF IbabsTypeOK, IbabsPlan
  <1>5. /\ parts \in Seq(Ranges) /\ parts # <<>>
        /\ \A d : InRange(d, plan.windows) => InRange(d, parts)
    BY <1>1, <1>4, HalvesCover
  <1> HIDE DEF parts
  <1>6. IbabsTypeOK' BY <1>1, <1>3, <1>5 DEF IbabsTypeOK
  <1>7. /\ (plan.phase)' = "listing" /\ (plan.mode)' = plan.mode
        /\ (plan.chunks)' = plan.chunks /\ (plan.windows)' = parts
        /\ (plan.meetings)' = plan.meetings /\ (plan.changed)' = plan.changed
        /\ (plan.due)' = plan.due
    BY <1>1, <1>3 DEF IbabsTypeOK
  <1>8. IbabsPlan' BY <1>1, <1>3, <1>5, <1>7 DEF IbabsPlan
  <1>9. ASSUME NEW m \in ListedMeetings, ToCome(m) PROVE ToCome(m)'
    <2>1. \/ InRange(HeldOn[m], (plan.chunks)') \/ InRange(HeldOn[m], (plan.windows)')
          \/ m \in (plan.meetings)'
      BY <1>5, <1>7, <1>9 DEF ToCome
    <2> QED BY <2>1 DEF ToCome, InRange
  <1>10. issues \subseteq issues' /\ issues' \subseteq Emitted \cup Topics
    BY <1>1, <1>3 DEF Topics
  <1> QED BY <1>1, <1>2, <1>3, <1>6, <1>7, <1>8, <1>9, <1>10, IbabsControl

LEMMA IbabsPoolsEnd ==
  ASSUME IbabsInvariant, MeetingsEmitted \/ IbabsPoolEnds
  PROVE  IbabsInvariant'
  <1> USE ImportRunAssumption
  <1>1. CASE MeetingsEmitted
    <2>1. /\ InPlan("emitting") /\ plan.meetings = {}
          /\ plan' = [plan EXCEPT !.phase = "documents"]
          /\ outcome' = outcome /\ tasks' = tasks /\ threads' = threads /\ seen' = seen
          /\ issues' = issues /\ storesVars' = storesVars
      BY <1>1 DEF MeetingsEmitted
    <2>2. "emitting" \notin PoolPhases BY DEF PoolPhases
    <2>3. /\ plan.phase = "emitting" /\ IbabsTypeOK /\ IbabsPlan
          /\ tasks \subseteq WindowMeetings \cup WindowDocuments \cup Entries
          /\ issues \subseteq Emitted \cup Topics
      BY <2>1, <2>2, IbabsAtRest
    <2>4. /\ IbabsTypeOK' /\ (plan.phase)' = "documents" /\ (plan.mode)' = plan.mode
          /\ (plan.chunks)' = plan.chunks /\ (plan.windows)' = plan.windows
          /\ (plan.meetings)' = plan.meetings /\ (plan.changed)' = plan.changed
          /\ (plan.due)' = plan.due
      BY <2>1, <2>3 DEF IbabsTypeOK
    <2>5. IbabsPlan' BY <2>1, <2>3, <2>4 DEF IbabsPlan
    <2>6. \A m \in ListedMeetings : ToCome(m) => ToCome(m)' BY <2>4 DEF ToCome, InRange
    <2> QED BY <2>1, <2>2, <2>3, <2>4, <2>5, <2>6, IbabsControl
  <1>2. CASE IbabsPoolEnds
    <2> DEFINE next == IF plan.phase = "documents" THEN "chunk" ELSE "flush"
    <2>1. /\ PoolDone("documents") \/ PoolDone("entries")
          /\ plan' = [plan EXCEPT !.phase = next]
          /\ outcome' = outcome /\ tasks' = tasks /\ threads' = threads /\ seen' = seen
          /\ issues' = issues /\ storesVars' = storesVars
      BY <1>2 DEF IbabsPoolEnds
    <2>2. PICK phase \in {"documents", "entries"} : PoolDone(phase) BY <2>1
    <2>3. /\ plan.phase = phase /\ IbabsTypeOK /\ IbabsPlan /\ EntriesAreAccounted
          /\ tasks = {} /\ issues \subseteq Emitted \cup Topics /\ outcome = "running"
          /\ \A x : IbabsAccounted(x) <=> IbabsOwes(x)
          /\ \A e : EntryInHand(e) <=> e \in tasks
      BY <2>2, IbabsAtRest DEF PoolPhases
    <2>4. next \in {"chunk", "flush"} /\ (next = "flush" => phase = "entries") BY <2>3
    <2> HIDE DEF next
    <2>5. IbabsTypeOK' BY <2>1, <2>3, <2>4 DEF IbabsTypeOK
    <2>6. /\ (plan.phase)' = next /\ (plan.mode)' = plan.mode
          /\ (plan.chunks)' = plan.chunks /\ (plan.windows)' = plan.windows
          /\ (plan.meetings)' = plan.meetings /\ (plan.changed)' = plan.changed
          /\ (plan.due)' = plan.due
      BY <2>1, <2>3 DEF IbabsTypeOK
    <2>7. IbabsPlan' BY <2>1, <2>2, <2>3, <2>4, <2>6 DEF IbabsPlan
    <2>8. \A m \in ListedMeetings : ToCome(m) => ToCome(m)' BY <2>6 DEF ToCome, InRange
    <2>9. ASSUME next = "flush", NEW e \in plan.changed, ListOf[e] \in Targets \cap plan.due
          PROVE  /\ ListOf[e] \in MotionLists => IbabsOwes(e)'
                 /\ \A d \in Attached[e] : IbabsOwes(d)'
      <3>1. /\ ListOf[e] \in MotionLists => IbabsOwes(e)
            /\ \A d \in Attached[e] : IbabsOwes(d)
        BY <2>3, <2>4, <2>9 DEF EntriesAreAccounted, Failed
      <3>2. ASSUME NEW x, IbabsOwes(x) PROVE IbabsOwes(x)'
        BY <2>1, <2>6, <3>2 DEF IbabsOwes, IbabsDealt, IbabsReported, storesVars
      <3> QED BY <3>1, <3>2
    <2> QED BY <2>1, <2>2, <2>3, <2>4, <2>5, <2>6, <2>7, <2>8, <2>9, IbabsControl
  <1> QED BY <1>1, <1>2

LEMMA IbabsListsKnown ==
  ASSUME IbabsInvariant, ListsKnown \/ ListsUnknown
  PROVE  IbabsInvariant'
  <1>1. /\ InPlan("lists")
        /\ \/ ListsKnown
           \/ /\ plan' = [plan EXCEPT !.phase = "flush"] /\ issues' = issues \cup {"lists"}
        /\ outcome' = outcome /\ tasks' = tasks /\ threads' = threads /\ seen' = seen
        /\ storesVars' = storesVars
    BY DEF ListsKnown, ListsUnknown
  <1>2. "lists" \notin PoolPhases BY DEF PoolPhases
  <1>3. /\ plan.phase = "lists" /\ IbabsTypeOK /\ IbabsPlan
        /\ tasks \subseteq WindowMeetings \cup WindowDocuments \cup Entries
        /\ issues \subseteq Emitted \cup Topics
    BY <1>1, <1>2, IbabsAtRest
  <1>4. CASE ListsKnown
    <2>0. PICK answered \in SUBSET Lists :
            plan' = [plan EXCEPT !.lists = Targets \cap answered, !.due = answered,
                       !.phase = IF Targets \cap answered = {} THEN "flush" ELSE "reading"]
      BY <1>4 DEF ListsKnown
    <2> DEFINE targets == Targets \cap answered
               next == IF targets = {} THEN "flush" ELSE "reading"
    <2>1. next \in {"flush", "reading"} /\ (next = "flush" => targets = {}) OBVIOUS
    <2>2. /\ targets \subseteq Lists /\ targets = Targets \cap answered /\ issues' = issues
          /\ plan' = [plan EXCEPT !.lists = targets, !.due = answered, !.phase = next]
      BY <1>4, <2>0 DEF ListsKnown
    <2> HIDE DEF next, targets
    <2>3. IbabsTypeOK' BY <1>3, <2>1, <2>2 DEF IbabsTypeOK
    <2>4. /\ (plan.phase)' = next /\ (plan.mode)' = plan.mode /\ (plan.lists)' = targets
          /\ (plan.chunks)' = plan.chunks /\ (plan.windows)' = plan.windows
          /\ (plan.meetings)' = plan.meetings /\ (plan.changed)' = plan.changed
          /\ (plan.due)' = answered
      BY <1>3, <2>2 DEF IbabsTypeOK
    <2>5. IbabsPlan' BY <1>1, <1>3, <2>1, <2>4 DEF IbabsPlan
    <2>6. \A m \in ListedMeetings : ToCome(m) => ToCome(m)' BY <2>4 DEF ToCome, InRange
    <2>7. ASSUME NEW e \in plan.changed, ListOf[e] \in Targets \cap (plan.due)'
          PROVE  (plan.phase)' = "reading" /\ ListOf[e] \in (plan.lists)'
      BY <2>1, <2>2, <2>4, <2>7
    <2> QED BY <1>1, <1>2, <1>3, <2>2, <2>3, <2>4, <2>5, <2>6, <2>7, IbabsControl
  <1>5. CASE plan' = [plan EXCEPT !.phase = "flush"] /\ issues' = issues \cup {"lists"}
    <2>1. /\ IbabsTypeOK' /\ (plan.phase)' = "flush" /\ (plan.mode)' = plan.mode
          /\ (plan.chunks)' = plan.chunks /\ (plan.windows)' = plan.windows
          /\ (plan.meetings)' = plan.meetings /\ (plan.changed)' = plan.changed
          /\ (plan.due)' = plan.due
      BY <1>3, <1>5 DEF IbabsTypeOK
    <2>2. IbabsPlan' BY <1>1, <1>3, <2>1 DEF IbabsPlan
    <2>3. \A m \in ListedMeetings : ToCome(m) => ToCome(m)' BY <2>1 DEF ToCome, InRange
    <2>4. ASSUME NEW e \in plan.changed, NEW x \in {e} \cup Attached[e] PROVE IbabsOwes(x)'
      BY <1>5, <2>1, <2>4 DEF IbabsOwes, IbabsDealt, IbabsReported
    <2>5. issues \subseteq issues' /\ issues' \subseteq Emitted \cup Topics
      BY <1>3, <1>5 DEF Topics
    <2> QED BY <1>1, <1>2, <1>3, <2>1, <2>2, <2>3, <2>4, <2>5, IbabsControl
  <1> QED BY <1>1, <1>4, <1>5

(* In the reading of its lists.                                            *)
IbabsReads(e) ==
    \/ e \in tasks \/ ListOf[e] \in plan.lists \/ KindOf(ListOf[e]) \in plan.capped
    \/ /\ ListOf[e] \in MotionLists => IbabsOwes(e)
       /\ \A d \in Attached[e] : IbabsOwes(d)

LEMMA IbabsReading ==
  ASSUME IbabsInvariant, InPlan("reading")
  PROVE  /\ plan.phase = "reading" /\ IbabsTypeOK /\ IbabsPlan /\ tasks \subseteq plan.changed
         /\ issues \subseteq Emitted \cup Topics /\ plan.changed \subseteq Entries
         /\ \A e \in plan.changed : ListOf[e] \in Targets \cap plan.due => IbabsReads(e)
  <1>1. "reading" \notin PoolPhases BY DEF PoolPhases
  <1>2. /\ plan.phase = "reading" /\ IbabsTypeOK /\ IbabsPlan /\ EntriesAreAccounted
        /\ issues \subseteq Emitted \cup Topics /\ outcome = "running"
        /\ \A x : IbabsAccounted(x) <=> IbabsOwes(x)
        /\ \A e : EntryInHand(e) <=> e \in tasks
    BY <1>1, IbabsAtRest
  <1>3. tasks \subseteq plan.changed /\ plan.changed \subseteq Entries
    BY <1>2 DEF IbabsPlan, IbabsTypeOK
  <1>4. \A e \in plan.changed : ListOf[e] \in Targets \cap plan.due => IbabsReads(e)
    BY <1>2 DEF EntriesAreAccounted, IbabsReads, Failed
  <1> QED BY <1>2, <1>3, <1>4

LEMMA IbabsReadsOn ==
  ASSUME IbabsInvariant, InPlan("reading"), plan.changed \subseteq Entries,
         outcome' = outcome, threads' = threads, seen' = seen, storesVars' = storesVars,
         tasks \subseteq tasks', tasks' \subseteq plan.changed,
         issues \subseteq issues', issues' \subseteq Emitted \cup Topics,
         IbabsTypeOK', (plan.phase)' = "reading", (plan.mode)' = plan.mode,
         (plan.chunks)' = plan.chunks, (plan.windows)' = plan.windows,
         (plan.meetings)' = plan.meetings, (plan.changed)' = plan.changed, (plan.due)' = plan.due,
         \A e \in plan.changed : ListOf[e] \in Targets \cap plan.due => IbabsReads(e)'
  PROVE  IbabsInvariant'
  <1>1. "reading" \notin PoolPhases BY DEF PoolPhases
  <1>2. plan.phase = "reading" /\ IbabsPlan BY IbabsReading
  <1>3. IbabsPlan' BY <1>2 DEF IbabsPlan
  <1>4. tasks' \subseteq WindowMeetings \cup WindowDocuments \cup Entries OBVIOUS
  <1>5. \A m \in ListedMeetings : ToCome(m) => ToCome(m)' BY DEF ToCome, InRange
  <1>6. ASSUME NEW e \in plan.changed, ListOf[e] \in Targets \cap plan.due
        PROVE  \/ e \in tasks'
               \/ ListOf[e] \in (plan.lists)' \/ KindOf(ListOf[e]) \in (plan.capped)'
               \/ /\ ListOf[e] \in MotionLists => IbabsOwes(e)'
                  /\ \A d \in Attached[e] : IbabsOwes(d)'
    <2>1. IbabsReads(e)' BY <1>6
    <2> QED BY <2>1 DEF IbabsReads, KindOf
  <1> QED BY <1>1, <1>3, <1>4, <1>5, <1>6, IbabsControl

LEMMA IbabsListRead ==
  ASSUME IbabsInvariant, NEW l \in Lists, ReadList(l)
  PROVE  IbabsInvariant'
  <1>1. PICK some \in SUBSET EntriesOf(l) :
         /\ tasks' = tasks \cup some
         /\ plan' = [plan EXCEPT !.lists = @ \ {l},
                       !.capped = @ \cup IF some = EntriesOf(l) THEN {} ELSE {KindOf(l)}]
    BY DEF ReadList
  <1>2. /\ InPlan("reading") /\ outcome' = outcome /\ threads' = threads /\ seen' = seen
        /\ issues' = issues /\ storesVars' = storesVars
    BY DEF ReadList
  <1>3. /\ plan.phase = "reading" /\ IbabsTypeOK /\ IbabsPlan /\ tasks \subseteq plan.changed
        /\ issues \subseteq Emitted \cup Topics /\ plan.changed \subseteq Entries
        /\ \A e \in plan.changed : ListOf[e] \in Targets \cap plan.due => IbabsReads(e)
    BY <1>2, IbabsReading
  <1> DEFINE more == IF some = EntriesOf(l) THEN {} ELSE {KindOf(l)}
  <1>4. more \subseteq {"motions", "registers"} BY DEF KindOf
  <1>5. plan' = [plan EXCEPT !.lists = plan.lists \ {l}, !.capped = plan.capped \cup more]
    BY <1>1
  <1>6. some \subseteq plan.changed /\ (some # EntriesOf(l) => KindOf(l) \in more)
    BY DEF EntriesOf
  <1> HIDE DEF more
  <1>7. IbabsTypeOK' BY <1>3, <1>4, <1>5 DEF IbabsTypeOK
  <1>8. /\ (plan.phase)' = "reading" /\ (plan.mode)' = plan.mode
        /\ (plan.chunks)' = plan.chunks /\ (plan.windows)' = plan.windows
        /\ (plan.meetings)' = plan.meetings /\ (plan.changed)' = plan.changed
        /\ (plan.due)' = plan.due
        /\ (plan.lists)' = plan.lists \ {l} /\ (plan.capped)' = plan.capped \cup more
    BY <1>3, <1>5 DEF IbabsTypeOK
  <1>9. ASSUME NEW e \in plan.changed, ListOf[e] \in Targets \cap plan.due PROVE IbabsReads(e)'
    <2>1. IbabsReads(e) BY <1>3, <1>9
    <2>2. ASSUME NEW x, IbabsOwes(x) PROVE IbabsOwes(x)'
      BY <1>1, <1>2, <1>8, <2>2 DEF IbabsOwes, IbabsDealt, IbabsReported, storesVars
    <2>3. CASE ListOf[e] = l BY <1>1, <1>6, <1>8, <2>3 DEF IbabsReads, EntriesOf, KindOf
    <2>4. CASE ListOf[e] # l BY <1>1, <1>8, <2>1, <2>2, <2>4 DEF IbabsReads, KindOf
    <2> QED BY <2>3, <2>4
  <1> QED BY <1>1, <1>2, <1>3, <1>6, <1>7, <1>8, <1>9, IbabsReadsOn

LEMMA IbabsListUnreadable ==
  ASSUME IbabsInvariant, NEW l \in Lists, ListUnreadable(l)
  PROVE  IbabsInvariant'
  <1>1. /\ InPlan("reading") /\ plan' = [plan EXCEPT !.lists = plan.lists \ {l}]
        /\ issues' = issues \cup {l} /\ outcome' = outcome /\ tasks' = tasks
        /\ threads' = threads /\ seen' = seen /\ storesVars' = storesVars
    BY DEF ListUnreadable
  <1>2. /\ plan.phase = "reading" /\ IbabsTypeOK /\ IbabsPlan /\ tasks \subseteq plan.changed
        /\ issues \subseteq Emitted \cup Topics /\ plan.changed \subseteq Entries
        /\ \A e \in plan.changed : ListOf[e] \in Targets \cap plan.due => IbabsReads(e)
    BY <1>1, IbabsReading
  <1>3. IbabsTypeOK' BY <1>1, <1>2 DEF IbabsTypeOK
  <1>4. /\ (plan.phase)' = "reading" /\ (plan.mode)' = plan.mode
        /\ (plan.chunks)' = plan.chunks /\ (plan.windows)' = plan.windows
        /\ (plan.meetings)' = plan.meetings /\ (plan.changed)' = plan.changed
        /\ (plan.due)' = plan.due
        /\ (plan.lists)' = plan.lists \ {l} /\ (plan.capped)' = plan.capped
    BY <1>1, <1>2 DEF IbabsTypeOK
  <1>5. ASSUME NEW e \in plan.changed, ListOf[e] \in Targets \cap plan.due PROVE IbabsReads(e)'
    <2>1. IbabsReads(e) BY <1>2, <1>5
    <2>2. ASSUME NEW x, IbabsOwes(x) PROVE IbabsOwes(x)'
      BY <1>1, <1>4, <2>2 DEF IbabsOwes, IbabsDealt, IbabsReported, storesVars
    <2>3. CASE ListOf[e] = l
      <3>1. ASSUME NEW x \in {e} \cup Attached[e] PROVE IbabsOwes(x)'
        BY <1>1, <1>4, <2>3, <3>1 DEF IbabsOwes, IbabsDealt, IbabsReported
      <3> QED BY <3>1 DEF IbabsReads
    <2>4. CASE ListOf[e] # l BY <1>1, <1>4, <2>1, <2>2, <2>4 DEF IbabsReads, KindOf
    <2> QED BY <2>3, <2>4
  <1>6. issues \subseteq issues' /\ issues' \subseteq Emitted \cup Topics
    BY <1>1, <1>2 DEF Topics
  <1> QED BY <1>1, <1>2, <1>3, <1>4, <1>5, <1>6, IbabsReadsOn

LEMMA IbabsListsRead ==
  ASSUME IbabsInvariant, ListsRead
  PROVE  IbabsInvariant'
  <1>1. /\ InPlan("reading") /\ plan.lists = {} /\ plan' = [plan EXCEPT !.phase = "entries"]
        /\ issues' = issues \cup plan.capped /\ outcome' = outcome /\ tasks' = tasks
        /\ threads' = threads /\ seen' = seen /\ storesVars' = storesVars
    BY DEF ListsRead
  <1>2. /\ plan.phase = "reading" /\ IbabsTypeOK /\ IbabsPlan /\ tasks \subseteq plan.changed
        /\ issues \subseteq Emitted \cup Topics /\ plan.changed \subseteq Entries
        /\ \A e \in plan.changed : ListOf[e] \in Targets \cap plan.due => IbabsReads(e)
    BY <1>1, IbabsReading
  <1>3. /\ IbabsTypeOK' /\ (plan.phase)' = "entries" /\ (plan.mode)' = plan.mode
        /\ (plan.chunks)' = plan.chunks /\ (plan.windows)' = plan.windows
        /\ (plan.meetings)' = plan.meetings /\ (plan.changed)' = plan.changed
        /\ (plan.due)' = plan.due
    BY <1>1, <1>2 DEF IbabsTypeOK
  <1>4. IbabsPlan' BY <1>1, <1>2, <1>3 DEF IbabsPlan
  <1>5. \A m \in ListedMeetings : ToCome(m) => ToCome(m)' BY <1>3 DEF ToCome, InRange
  <1>6. plan.capped \subseteq {"motions", "registers"} BY <1>2 DEF IbabsTypeOK
  <1>7. ASSUME NEW e \in plan.changed, ListOf[e] \in Targets \cap plan.due
        PROVE  \/ e \in tasks'
               \/ /\ ListOf[e] \in MotionLists => IbabsOwes(e)'
                  /\ \A d \in Attached[e] : IbabsOwes(d)'
    <2>1. IbabsReads(e) BY <1>2, <1>7
    <2>2. ASSUME NEW x, IbabsOwes(x) PROVE IbabsOwes(x)'
      BY <1>1, <1>3, <2>2 DEF IbabsOwes, IbabsDealt, IbabsReported, storesVars
    <2>3. CASE KindOf(ListOf[e]) \in plan.capped
      <3>1. KindOf(ListOf[e]) \in issues' BY <1>1, <2>3
      <3>2. ASSUME NEW x \in {e} \cup Attached[e] PROVE IbabsOwes(x)'
        BY <1>3, <3>1, <3>2 DEF IbabsOwes, IbabsDealt, IbabsReported, KindOf
      <3> QED BY <3>2
    <2>4. CASE KindOf(ListOf[e]) \notin plan.capped
      BY <1>1, <2>1, <2>2, <2>4 DEF IbabsReads
    <2> QED BY <2>3, <2>4
  <1>8. /\ issues \subseteq issues' /\ issues' \subseteq Emitted \cup Topics
        /\ tasks' \subseteq WindowMeetings \cup WindowDocuments \cup Entries
        /\ "reading" \notin PoolPhases
    BY <1>1, <1>2, <1>6 DEF Topics, PoolPhases
  <1> QED BY <1>1, <1>3, <1>4, <1>5, <1>7, <1>8, IbabsControl

LEMMA IbabsMeetingGoesOn ==
  ASSUME IbabsInvariant, NextMeeting
  PROVE  IbabsInvariant'
  <1> USE ImportRunAssumption
  <1>1. PICK m \in plan.meetings :
         /\ plan' = [plan EXCEPT !.meetings = plan.meetings \ {m}]
         /\ tasks' = tasks \cup Attached[m]
         /\ Commit(Main, m, {})
    BY DEF NextMeeting, DocumentsOf
  <1>2. InPlan("emitting") /\ outcome' = outcome /\ issues' = issues BY DEF NextMeeting
  <1>3. "emitting" \notin PoolPhases BY DEF PoolPhases
  <1>4. /\ plan.phase = "emitting" /\ outcome = "running"
        /\ \A t \in Pool \cup {Main} : threads[t] = Resting
        /\ IbabsTypeOK /\ IbabsPlan /\ RunGoesOn /\ MeetingsAreAccounted
        /\ \A x : IbabsAccounted(x) <=> IbabsOwes(x)
        /\ RowsAreSent(IbabsTold) /\ SeenIsSeenTo(IbabsTold)
    BY <1>2, <1>3, IbabsAtRest DEF IbabsInvariant
  <1>5. m \in WindowMeetings /\ m \in Emitted /\ Attached[m] \subseteq WindowDocuments
    BY <1>1, <1>4 DEF IbabsTypeOK, Emitted
  <1>6. IbabsTypeOK' BY <1>1, <1>4 DEF IbabsTypeOK
  <1>7. /\ (plan.phase)' = "emitting" /\ (plan.mode)' = plan.mode
        /\ (plan.chunks)' = plan.chunks /\ (plan.windows)' = plan.windows
        /\ (plan.meetings)' = plan.meetings \ {m} /\ (plan.changed)' = plan.changed
        /\ (plan.due)' = plan.due
    BY <1>1, <1>4 DEF IbabsTypeOK
  <1>8. tasks' \subseteq WindowDocuments BY <1>1, <1>4, <1>5 DEF IbabsPlan
  <1>9. IbabsPlan' BY <1>4, <1>7, <1>8 DEF IbabsPlan
  <1>10. /\ RunGoesOn' /\ WorkerStep(Main) /\ KeepsRows(Main)
         /\ seen' = seen /\ committed' = committed \cup {m} /\ withheld' = withheld
         /\ \/ threads'[Main] = Resting
            \/ /\ threads'[Main].step = "indexing" /\ threads'[Main].hand = m
               /\ threads'[Main].rest = {}
    <2>1. tasks' \subseteq WindowMeetings \cup WindowDocuments \cup Entries BY <1>8
    <2> QED BY <1>1, <1>2, <1>3, <1>4, <1>5, <2>1, MainCommits
  <1>11. \A u \in Pool : threads'[u] = Resting BY <1>4, <1>10 DEF WorkerStep
  <1>12. IbabsHands'
    <2>1. \A u \in Pool : ~AtWork(u)' BY <1>11 DEF AtWork, Resting
    <2> QED BY <1>7, <1>10, <2>1 DEF IbabsHands
  <1>13. ASSUME NEW x, IbabsOwes(x) \/ x = m \/ x \in Attached[m] PROVE IbabsAccounted(x)'
    <2>1. CASE IbabsDealt(x)
      BY <1>2, <1>7, <1>10, <2>1, IbabsStaysDealt DEF IbabsAccounted
    <2>2. CASE x \in tasks \/ x \in Attached[m] BY <1>1, <2>2 DEF IbabsAccounted, Held
    <2>3. CASE x = m BY <1>10, <2>3 DEF IbabsAccounted, IbabsDealt
    <2> QED BY <1>13, <2>1, <2>2, <2>3 DEF IbabsOwes
  <1>14. MeetingsAreAccounted'
    <2> SUFFICES ASSUME plan.mode = "full", NEW k \in ListedMeetings, ~ToCome(k)'
                 PROVE  IbabsAccounted(k)' /\ \A d \in Attached[k] : IbabsAccounted(d)'
      BY <1>7 DEF MeetingsAreAccounted
    <2>1. CASE k = m BY <1>13, <2>1
    <2>2. CASE k # m
      <3>1. ~ToCome(k) BY <1>7, <2>2 DEF ToCome, InRange
      <3>2. IbabsOwes(k) /\ \A d \in Attached[k] : IbabsOwes(d)
        BY <1>4, <3>1 DEF MeetingsAreAccounted
      <3> QED BY <1>13, <3>2
    <2> QED BY <2>1, <2>2
  <1>15. EntriesAreAccounted' BY <1>7 DEF EntriesAreAccounted
  <1>16. RowsAreSent(IbabsTold)' BY <1>4, <1>7, <1>10, IbabsRowsStay
  <1>17. SeenIsSeenTo(IbabsTold)'
    <2>1. \A t \in Pool : threads[t].step # "fetching" BY <1>4 DEF Resting
    <2>2. IbabsTold \subseteq IbabsTold' BY <1>2, <1>7, IbabsStaysTold
    <2> QED BY <1>4, <1>10, <2>1, <2>2 DEF SeenIsSeenTo, Failed
  <1> QED BY <1>6, <1>9, <1>10, <1>12, <1>14, <1>15, <1>16, <1>17 DEF IbabsInvariant

LEMMA IbabsRunStep ==
  ASSUME IbabsInvariant, RunStep
  PROVE  IbabsInvariant'
  <1> USE ImportRunAssumption
  <1>1. /\ IbabsTypeOK /\ RunGoesOn /\ IbabsPlan /\ IbabsHands /\ MeetingsAreAccounted
        /\ EntriesAreAccounted /\ RowsAreSent(IbabsTold) /\ SeenIsSeenTo(IbabsTold)
    BY DEF IbabsInvariant
  <1>2. ~Failed /\ threads[Main] # Resting =>
          threads[Main].rest = {} /\ plan.phase \notin PoolPhases
    BY <1>1 DEF IbabsHands, PoolPhases
  <1>3. /\ RunGoesOn' /\ WorkerStep(Main) /\ KeepsRows(Main)
        /\ UNCHANGED <<tasks, seen, issues, committed, withheld>>
        /\ \/ plan' = plan
           \/ plan.phase = "flush" /\ plan' = [plan EXCEPT !.phase = "done"]
        /\ \/ outcome' = "failed" \/ threads'[Main] = Resting
           \/ /\ plan.phase = "flush" /\ plan' = plan
              /\ threads'[Main].step = "indexing" /\ threads'[Main].rest = {}
    BY <1>1, <1>2, RunSteps
  <1>4. /\ IbabsTypeOK' /\ (plan.mode)' = plan.mode
        /\ (plan.chunks)' = plan.chunks /\ (plan.windows)' = plan.windows
        /\ (plan.meetings)' = plan.meetings /\ (plan.changed)' = plan.changed
        /\ (plan.due)' = plan.due
        /\ (plan.lists)' = plan.lists /\ (plan.capped)' = plan.capped
        /\ \/ (plan.phase)' = plan.phase
           \/ plan.phase = "flush" /\ (plan.phase)' = "done"
    <2>1. IbabsTypeOK BY <1>1
    <2>2. CASE plan' = plan BY <2>1, <2>2 DEF IbabsTypeOK
    <2>3. CASE plan.phase = "flush" /\ plan' = [plan EXCEPT !.phase = "done"]
      BY <2>1, <2>3 DEF IbabsTypeOK
    <2> QED BY <1>3, <2>2, <2>3
  <1>5. IbabsPlan' BY <1>1, <1>3, <1>4 DEF IbabsPlan
  <1>6. /\ \A u \in Pool : threads'[u] = threads[u]
        /\ outcome = "failed" => outcome' = "failed"
    BY <1>3 DEF WorkerStep
  <1>7. IbabsHands'
    <2>1. ASSUME NEW u \in Pool PROVE IbabsHand(u)'
      BY <1>1, <1>4, <1>6 DEF IbabsHands, IbabsHand, AtWork, AtEntry, AtDocument
    <2>2. ~Failed' /\ threads'[Main] # Resting =>
            /\ (plan.phase)' = "flush" /\ threads'[Main].step = "indexing"
            /\ threads'[Main].rest = {}
      BY <1>3 DEF Failed
    <2> QED BY <2>1, <2>2 DEF IbabsHands, IbabsHand
  <1>8. ASSUME NEW x, IbabsAccounted(x) PROVE IbabsAccounted(x)'
    BY <1>3, <1>4, <1>6, <1>8
       DEF IbabsAccounted, IbabsDealt, IbabsReported, Failed, Held, Holds, AtWork
  <1>9. MeetingsAreAccounted'
    <2> SUFFICES ASSUME plan.mode = "full", NEW k \in ListedMeetings, ~ToCome(k)'
                 PROVE  IbabsAccounted(k)' /\ \A d \in Attached[k] : IbabsAccounted(d)'
      BY <1>4 DEF MeetingsAreAccounted
    <2>1. ~ToCome(k) BY <1>4 DEF ToCome, InRange
    <2> QED BY <1>1, <1>8, <2>1 DEF MeetingsAreAccounted
  <1>10. EntriesAreAccounted'
    <2> SUFFICES ASSUME (plan.phase)' \in {"reading", "entries", "flush", "done"},
                        NEW e \in plan.changed, ListOf[e] \in Targets \cap plan.due,
                        ~Failed', ~EntryInHand(e)',
                        ~( /\ (plan.phase)' = "reading"
                           /\ ListOf[e] \in (plan.lists)' \/ KindOf(ListOf[e]) \in (plan.capped)')
                 PROVE  /\ ListOf[e] \in MotionLists => IbabsAccounted(e)'
                        /\ \A d \in Attached[e] : IbabsAccounted(d)'
      BY <1>4 DEF EntriesAreAccounted, Targets, KindOf
    <2>1. ~Failed /\ ~EntryInHand(e) BY <1>3, <1>6 DEF Failed, EntryInHand
    <2>2. /\ ListOf[e] \in MotionLists => IbabsAccounted(e)
          /\ \A d \in Attached[e] : IbabsAccounted(d)
      BY <1>1, <1>4, <2>1 DEF EntriesAreAccounted
    <2> QED BY <1>8, <2>2
  <1>11. RowsAreSent(IbabsTold)' BY <1>1, <1>3, <1>4, IbabsRowsStay
  <1>12. SeenIsSeenTo(IbabsTold)'
    BY <1>1, <1>3, <1>4, <1>6 DEF SeenIsSeenTo, IbabsTold, IbabsReported, Failed
  <1> QED BY <1>3, <1>4, <1>5, <1>7, <1>9, <1>10, <1>11, <1>12 DEF IbabsInvariant

LEMMA IbabsStarts == IbabsInit => IbabsInvariant
  <1> USE ImportRunAssumption, IbabsAssumption
  <1> SUFFICES ASSUME IbabsInit PROVE IbabsInvariant OBVIOUS
  <1>1. PICK m \in Modes, inWindow \in SUBSET Entries :
          plan = [supplier |-> "ibabs", mode |-> m, changed |-> inWindow,
                  phase |-> "types",
                  chunks |-> IF m = "full" THEN Chunks(ChunkDays) ELSE <<>>,
                  windows |-> <<>>, meetings |-> {}, lists |-> {}, due |-> Lists,
                  capped |-> {}]
    BY DEF IbabsInit
  <1>2. RunInit BY DEF IbabsInit
  <1>3. /\ RunGoesOn /\ RowsAreSent(IbabsTold) /\ SeenIsSeenTo(IbabsTold) /\ tasks = {}
        /\ \A t \in Pool \cup {Main} : threads[t] = Resting
    BY <1>2, RunStarts DEF RunInit
  <1> DEFINE parts == IF m = "full" THEN Chunks(ChunkDays) ELSE <<>>
  <1>4. parts \in Seq(Ranges) /\ <<>> \in Seq(Ranges)
    <2>1. Chunks(ChunkDays) \in Seq(Ranges) BY ChunksAreRanges
    <2> QED BY <2>1
  <1>5. m = "full" => \A d \in 0 .. LastWindowDay : InRange(d, parts) BY ChunksCover
  <1> HIDE DEF parts
  <1>6. plan = [supplier |-> "ibabs", mode |-> m, changed |-> inWindow, phase |-> "types",
                chunks |-> parts, windows |-> <<>>, meetings |-> {}, lists |-> {},
                due |-> Lists, capped |-> {}]
    BY <1>1 DEF parts
  <1>7. IbabsTypeOK BY <1>4, <1>6 DEF IbabsTypeOK
  <1>8. /\ plan.phase = "types" /\ plan.mode = m /\ plan.chunks = parts /\ plan.windows = <<>>
        /\ plan.meetings = {}
    BY <1>6
  <1>9. IbabsPlan BY <1>3, <1>8 DEF IbabsPlan
  <1>10. IbabsHands
    <2>1. \A t \in Pool : ~AtWork(t) BY <1>3 DEF AtWork, Resting
    <2> QED BY <1>3, <2>1 DEF IbabsHands
  <1>11. MeetingsAreAccounted
    <2> SUFFICES ASSUME m = "full", NEW k \in ListedMeetings PROVE ToCome(k)
      BY <1>8 DEF MeetingsAreAccounted
    <2>1. HeldOn[k] \in 0 .. LastWindowDay BY DEF ListedMeetings
    <2> QED BY <1>5, <1>8, <2>1 DEF ToCome
  <1>12. EntriesAreAccounted BY <1>8 DEF EntriesAreAccounted
  <1> QED BY <1>3, <1>7, <1>9, <1>10, <1>11, <1>12 DEF IbabsInvariant

LEMMA IbabsStep ==
  ASSUME IbabsInvariant, IbabsNext
  PROVE  IbabsInvariant'
  <1>1. CASE RunStep BY <1>1, IbabsRunStep
  <1>2. CASE \E t \in Pool :
               DocumentStep(t) \/ EntryReady(t) \/ LinkUnknown(t) \/ EntryFails(t)
    <2>1. PICK t \in Pool :
               DocumentStep(t) \/ EntryReady(t) \/ LinkUnknown(t) \/ EntryFails(t)
      BY <1>2
    <2> QED BY <2>1, IbabsTakes, IbabsNotes, IbabsDocumentStep, IbabsEntryReady, IbabsEntryFails
            DEF DocumentStep
  <1>3. CASE \/ TypesKnown \/ TypesUnknown \/ NextChunk \/ ListAnswers \/ ListTimesOut
             \/ NextMeeting \/ MeetingsEmitted \/ IbabsPoolEnds
    BY <1>3, IbabsTypesKnown, IbabsNextChunk, IbabsListAnswers, IbabsListTimesOut,
       IbabsMeetingGoesOn, IbabsPoolsEnd
  <1>4. CASE ListsKnown \/ ListsUnknown \/ ListsRead
    BY <1>4, IbabsListsKnown, IbabsListsRead
  <1>5. CASE \E l \in Lists : ReadList(l) \/ ListUnreadable(l)
    BY <1>5, IbabsListRead, IbabsListUnreadable
  <1> QED BY <1>1, <1>2, <1>3, <1>4, <1>5 DEF IbabsNext

LEMMA IbabsAccountsForAll == IbabsInvariant => IbabsLosesNothing
  <1> USE ImportRunAssumption
  <1> SUFFICES ASSUME IbabsInvariant, outcome \in {"succeeded", "partial"}
               PROVE  IbabsLosesNothing
    BY DEF IbabsLosesNothing, LosesNothing
  <1>1. /\ IbabsTypeOK /\ RunGoesOn /\ IbabsPlan /\ MeetingsAreAccounted /\ EntriesAreAccounted
        /\ RowsAreSent(IbabsTold)
    BY DEF IbabsInvariant
  <1>2. /\ plan.phase = "done" /\ buffered = {} /\ ~Failed /\ committed \subseteq Emitted
        /\ \A t \in Pool \cup {Main} : threads[t] = Resting
    BY <1>1 DEF RunGoesOn, RunTypeOK, Failed, PoolPhases
  <1>3. /\ tasks = {} /\ plan.meetings = {} /\ plan.windows = <<>> /\ plan.chunks = <<>>
        /\ plan.changed \subseteq Entries
    BY <1>1, <1>2 DEF IbabsPlan, IbabsTypeOK
  <1>4. \A x : IbabsAccounted(x) => IbabsDealt(x)
    BY <1>2, <1>3 DEF IbabsAccounted, Held, Holds, AtWork, Resting
  <1>5. \A m : ~ToCome(m) BY <1>3 DEF ToCome, InRange
  <1>6. \A e : ~EntryInHand(e) BY <1>2, <1>3 DEF EntryInHand, Resting
  <1>7. \A x \in IbabsWindow : IbabsDealt(x)
    <2> DEFINE entries == { e \in plan.changed : ListOf[e] \in Targets \cap plan.due }
               holders == entries \cup IF plan.mode = "full" THEN ListedMeetings ELSE {}
    <2>1. ASSUME NEW k \in holders
          PROVE  /\ (k \in Entries => ListOf[k] \in MotionLists) => IbabsDealt(k)
                 /\ \A d \in Attached[k] : IbabsDealt(d)
      <3>1. CASE k \in entries
        <4>1. /\ ListOf[k] \in MotionLists => IbabsAccounted(k)
              /\ \A d \in Attached[k] : IbabsAccounted(d)
          BY <1>1, <1>2, <1>6, <3>1 DEF EntriesAreAccounted
        <4>2. k \in Entries BY <1>3, <3>1
        <4> QED BY <1>4, <4>1, <4>2
      <3>2. CASE plan.mode = "full" /\ k \in ListedMeetings
        BY <1>1, <1>4, <1>5, <3>2 DEF MeetingsAreAccounted
      <3> QED BY <2>1, <3>1, <3>2
    <2>2. IbabsWindow = { x \in holders : x \in Entries => ListOf[x] \in MotionLists }
                        \cup UNION { Attached[x] : x \in holders }
      BY DEF IbabsWindow
    <2> HIDE DEF holders
    <2> QED BY <2>1, <2>2
  <1>8. committed \subseteq indexed \/ \E x \in committed : IbabsReported(x)
    <2>1. \A x : ~OnItsWay(x) BY <1>2 DEF OnItsWay, Resting
    <2>2. committed \cap IbabsTold # {} => \E x \in committed : IbabsReported(x)
      BY DEF IbabsTold, IbabsReported
    <2> QED BY <1>1, <1>2, <2>1, <2>2 DEF RowsAreSent
  <1>9. outcome = "succeeded" => \A x : ~IbabsReported(x)
    BY <1>1 DEF RunGoesOn, IbabsReported
  <1> QED BY <1>7, <1>8, <1>9 DEF IbabsLosesNothing, LosesNothing, IbabsDealt

LEMMA IbabsStutters ==
  ASSUME IbabsInvariant, UNCHANGED importVars
  PROVE  IbabsInvariant'
  <1>1. /\ plan' = plan /\ outcome' = outcome /\ tasks' = tasks /\ threads' = threads
        /\ seen' = seen /\ issues' = issues /\ committed' = committed
        /\ buffered' = buffered /\ indexed' = indexed /\ withheld' = withheld
    BY DEF importVars
  <1>2. IbabsTypeOK' /\ RunGoesOn' /\ IbabsPlan'
    BY <1>1 DEF IbabsInvariant, IbabsTypeOK, RunGoesOn, RunTypeOK, IbabsPlan
  <1>3. IbabsHands'
    BY <1>1 DEF IbabsInvariant, IbabsHands, AtWork, AtEntry, AtDocument, Failed
  <1>4. RowsAreSent(IbabsTold)' /\ SeenIsSeenTo(IbabsTold)'
    BY <1>1 DEF IbabsInvariant, RowsAreSent, OnItsWay, IbabsTold, IbabsReported, SeenIsSeenTo,
                Failed
  <1>5. ASSUME NEW x PROVE IbabsAccounted(x)' <=> IbabsAccounted(x)
    BY <1>1 DEF IbabsAccounted, IbabsDealt, IbabsReported, Failed, Held, Holds, AtWork
  <1>6. MeetingsAreAccounted'
    BY <1>1, <1>5 DEF IbabsInvariant, MeetingsAreAccounted, ToCome, InRange
  <1>7. EntriesAreAccounted'
    BY <1>1, <1>5 DEF IbabsInvariant, EntriesAreAccounted, EntryInHand, Targets, KindOf, Failed
  <1> QED BY <1>2, <1>3, <1>4, <1>6, <1>7 DEF IbabsInvariant

(* An import of an iBabs source loses nothing of its meetings, nor of the  *)
(* lists that GetLists named: the halving of the parts that time out       *)
(* covers the window, an entry that fails takes what it had left along in  *)
(* its issue, and what a cap leaves out is named. A list that the answer   *)
(* leaves out it loses, and says nothing of it.                            *)
THEOREM IbabsImportsLoseNothing == IbabsSpec => []IbabsLosesNothing
  <1>1. IbabsInvariant /\ [IbabsNext]_importVars => IbabsInvariant'
    BY IbabsStep, IbabsStutters
  <1> QED BY <1>1, IbabsStarts, IbabsAccountsForAll, PTL DEF IbabsSpec

(* A set of numbers has a least one.                                       *)
LEMMA LeastOf ==
    ASSUME NEW S \in SUBSET Nat, S # {}
    PROVE  \E i \in S : \A j \in S : i <= j
  <1>w. IsWellFoundedOn(OpToRel(<, Nat), Nat) BY NatLessThanWellFounded
  <1>1. PICK m \in S : \A k \in S : ~(<<k, m>> \in OpToRel(<, Nat)) BY <1>w, WFMin
  <1>2. \A k \in S : ~(k < m) BY <1>1 DEF OpToRel
  <1> QED BY <1>2
-----------------------------------------------------------------------------
(* MotionLinks. Why a motion finds its meeting: the meetings of a day come *)
(* to the index together, in the window or asked for, so a day of which    *)
(* one is there is a day of which all are.                                 *)

(* Of the places in a list there is a first and a last.                    *)
LEMMA EarliestIsThere ==
    ASSUME NEW n \in Nat, NEW S, S \subseteq 1 .. n, S # {}
    PROVE  Earliest(S) \in S /\ \A j \in S : Earliest(S) <= j
  <1>1. S \in SUBSET Nat OBVIOUS
  <1>2. \E i \in S : \A j \in S : i <= j BY <1>1, LeastOf
  <1> QED BY <1>2 DEF Earliest

LEMMA LatestIsThere ==
    ASSUME NEW n \in Nat, NEW S, S \subseteq 1 .. n, S # {}
    PROVE  Latest(S) \in S /\ \A j \in S : j <= Latest(S)
  <1> DEFINE T == { k \in 0 .. n : n - k \in S }
  <1>1. T \in SUBSET Nat /\ T # {}
    <2>1. PICK i \in S : TRUE OBVIOUS
    <2>2. n - i \in 0 .. n /\ n - (n - i) = i OBVIOUS
    <2>3. n - i \in T BY <2>2
    <2>4. \A k \in T : k \in Nat OBVIOUS
    <2> HIDE DEF T
    <2> QED BY <2>3, <2>4
  <1>2. PICK k \in T : \A j \in T : k <= j
    <2> HIDE DEF T
    <2> QED BY <1>1, LeastOf
  <1>3. n - k \in S /\ k \in 0 .. n BY <1>2
  <1>4. \A j \in S : j <= n - k
    <2> TAKE j \in S
    <2>1. n - j \in T /\ j \in 1 .. n OBVIOUS
    <2>2. k <= n - j BY <1>2, <2>1
    <2> QED BY <1>3, <2>1, <2>2
  <1>5. \E i \in S : \A j \in S : j <= i BY <1>3, <1>4
  <1> QED BY <1>5 DEF Latest

LEMMA TopmostIsThere ==
    ASSUME NEW m \in CalendarMeetings, NEW S, S \subseteq AgendaPlaces(m), S # {}
    PROVE  Topmost(S) \in S
  <1>1. \A p \in S : p[1] \in Nat /\ p[2] \in Nat /\ p = <<p[1], p[2]>>
    <2>1. /\ IsList(Calendar[m].agenda)
          /\ \A i \in DOMAIN Calendar[m].agenda : IsList(Calendar[m].agenda[i].under)
      BY LinksAssumption DEF CalendarMeetings
    <2>2. \A i \in DOMAIN Calendar[m].agenda :
             i \in Nat /\ \A j \in DOMAIN Calendar[m].agenda[i].under : j \in Nat
      BY <2>1 DEF IsList
    <2>3. \A p \in AgendaPlaces(m) : \E i, j \in Nat : p = <<i, j>>
      BY <2>2 DEF AgendaPlaces
    <2> QED BY <2>3
  <1> DEFINE Tops == { p[1] : p \in S }
  <1>2. PICK a \in Tops : \A b \in Tops : a <= b
    <2>1. Tops \in SUBSET Nat /\ Tops # {} BY <1>1
    <2> HIDE DEF Tops
    <2> QED BY <2>1, LeastOf
  <1> DEFINE Unders == { p[2] : p \in { q \in S : q[1] = a } }
  <1>3. PICK c \in Unders : \A b \in Unders : c <= b
    <2>1. Unders \in SUBSET Nat /\ Unders # {} BY <1>1, <1>2
    <2> HIDE DEF Unders
    <2> QED BY <2>1, LeastOf
  <1>4. PICK p \in S : p[1] = a /\ p[2] = c BY <1>3
  <1>5. \A q \in S : Comes(p, q)
    <2> TAKE q \in S
    <2>1. q[1] \in Nat /\ a <= q[1] /\ a \in Nat BY <1>1, <1>2, <1>4
    <2>2. q[1] = a => c <= q[2] BY <1>3
    <2> QED BY <1>4, <2>1, <2>2 DEF Comes
  <1>6. \E x \in S : \A q \in S : Comes(x, q) BY <1>5
  <1> QED BY <1>6 DEF Topmost

(* What is looked up in the index is there.                                *)
LEMMA FoundOnItsDay ==
    ASSUME meetingIndex \in Seq(CalendarMeetings), NEW ref
    PROVE  /\ Find(ref) # NoLink =>
                 Find(ref) \in CalendarMeetings /\ Calendar[Find(ref)].day = ref.day
           /\ (\E i \in DOMAIN meetingIndex :
                 /\ Calendar[meetingIndex[i]].day = ref.day
                 /\ Calendar[meetingIndex[i]].name = ref.name)
              => Find(ref) # NoLink /\ Calendar[Find(ref)].name = ref.name
  <1> DEFINE n == Len(meetingIndex)
             sameDay == KnownOn(ref.day)
             exact == { i \in sameDay : Calendar[meetingIndex[i]].name = ref.name }
             alike == { i \in sameDay : Alongside(Calendar[meetingIndex[i]].name, ref.name) }
  <1>1. /\ n \in Nat /\ sameDay \subseteq 1 .. n
        /\ exact \subseteq 1 .. n /\ alike \subseteq 1 .. n
        /\ exact \subseteq sameDay /\ alike \subseteq sameDay
    BY DEF KnownOn
  <1>2. \A i \in sameDay : meetingIndex[i] \in CalendarMeetings
                           /\ Calendar[meetingIndex[i]].day = ref.day
    BY DEF KnownOn
  <1>3. \A i \in exact : Calendar[meetingIndex[i]].name = ref.name OBVIOUS
  <1>4. Find(ref) = IF exact # {} THEN meetingIndex[Latest(exact)]
                    ELSE IF alike # {} THEN meetingIndex[Earliest(alike)]
                    ELSE IF Cardinality(sameDay) = 1 THEN meetingIndex[Earliest(sameDay)]
                    ELSE NoLink
    BY DEF Find
  <1>5. (\E i \in DOMAIN meetingIndex :
            /\ Calendar[meetingIndex[i]].day = ref.day
            /\ Calendar[meetingIndex[i]].name = ref.name) => exact # {}
    BY DEF KnownOn
  <1>6. Cardinality(sameDay) = 1 => sameDay # {}
    <2> HIDE DEF sameDay
    <2>1. sameDay = {} => Cardinality(sameDay) = 0 BY FS_EmptySet
    <2> QED BY <2>1
  <1> HIDE DEF n, sameDay, exact, alike
  <1>7. exact # {} => Latest(exact) \in exact BY <1>1, LatestIsThere
  <1>8. alike # {} => Earliest(alike) \in alike BY <1>1, EarliestIsThere
  <1>9. sameDay # {} => Earliest(sameDay) \in sameDay BY <1>1, EarliestIsThere
  <1>10. NoLink \notin CalendarMeetings BY LinksAssumption DEF CalendarMeetings
  <1>11. CASE exact # {}
    <2>1. Find(ref) = meetingIndex[Latest(exact)] /\ Latest(exact) \in exact
      BY <1>4, <1>7, <1>11
    <2> QED BY <1>1, <1>2, <1>3, <1>10, <2>1
  <1>12. CASE exact = {} BY <1>1, <1>2, <1>4, <1>5, <1>6, <1>8, <1>9, <1>12
  <1> QED BY <1>11, <1>12

LEMMA ItemIsOfItsMeeting ==
    ASSUME NEW m \in CalendarMeetings, NEW ref
    PROVE  FindAgendaItem(m, ref) # NoLink => FindAgendaItem(m, ref) \in ItemsOf(m)
  <1> DEFINE titled == { p \in AgendaPlaces(m) :
                           /\ ref.title # <<>> /\ ItemAt(m, p).title # <<>>
                           /\ Alongside(ItemAt(m, p).title, ref.title) }
             numbered == { p \in AgendaPlaces(m) :
                             ref.number # 0 /\ ItemAt(m, p).number = ref.number }
  <1>1. titled \subseteq AgendaPlaces(m) /\ numbered \subseteq AgendaPlaces(m) OBVIOUS
  <1>2. FindAgendaItem(m, ref) =
           IF titled # {} THEN ItemAt(m, Topmost(titled)).item
           ELSE IF numbered # {} THEN ItemAt(m, Topmost(numbered)).item ELSE NoLink
    BY DEF FindAgendaItem
  <1> HIDE DEF titled, numbered
  <1>3. /\ titled # {} => Topmost(titled) \in titled
        /\ numbered # {} => Topmost(numbered) \in numbered
    BY <1>1, TopmostIsThere
  <1> QED BY <1>1, <1>2, <1>3 DEF ItemsOf

LEMMA OwnerListsTheItem ==
    ASSUME meetingIndex \in Seq(CalendarMeetings), NEW item
    PROVE  OwnerOf(item) # NoLink =>
              OwnerOf(item) \in CalendarMeetings /\ item \in ItemsOf(OwnerOf(item))
  <1> DEFINE n == Len(meetingIndex)
             owners == { i \in DOMAIN meetingIndex : item \in ItemsOf(meetingIndex[i]) }
  <1>1. n \in Nat /\ owners \subseteq 1 .. n OBVIOUS
  <1>2. \A i \in owners : meetingIndex[i] \in CalendarMeetings /\ item \in ItemsOf(meetingIndex[i])
    OBVIOUS
  <1>3. OwnerOf(item) = IF owners = {} THEN NoLink ELSE meetingIndex[Latest(owners)]
    BY DEF OwnerOf
  <1> HIDE DEF n, owners
  <1>4. owners # {} => Latest(owners) \in owners BY <1>1, LatestIsThere
  <1> QED BY <1>2, <1>3, <1>4

LEMMA FirstOwnerIsKnown ==
    ASSUME meetingIndex \in Seq(CalendarMeetings), NEW f, IsList(f.items)
    PROVE  /\ KnownItems(f) # {} =>
                 /\ FirstOwner(f) \in CalendarMeetings
                 /\ \E i \in DOMAIN f.items : f.items[i] = FirstKnown(f)
                 /\ FirstKnown(f) \in ItemsOf(FirstOwner(f))
           /\ KnownItems(f) = {} => FirstOwner(f) = NoLink
  <1>1. KnownItems(f) \subseteq 1 .. Len(f.items) /\ Len(f.items) \in Nat
        /\ KnownItems(f) \subseteq DOMAIN f.items
    BY DEF KnownItems, IsList
  <1>2. ASSUME KnownItems(f) # {}
        PROVE  /\ FirstOwner(f) \in CalendarMeetings
               /\ \E i \in DOMAIN f.items : f.items[i] = FirstKnown(f)
               /\ FirstKnown(f) \in ItemsOf(FirstOwner(f))
    <2> DEFINE k == Earliest(KnownItems(f))
    <2>1. k \in KnownItems(f)
      <3> DEFINE S == KnownItems(f)
                 n == Len(f.items)
      <3>1. S \subseteq 1 .. n /\ n \in Nat /\ S # {} BY <1>1, <1>2
      <3> HIDE DEF S, n
      <3>2. Earliest(S) \in S BY <3>1, EarliestIsThere
      <3> QED BY <3>2 DEF S
    <2>2. k \in DOMAIN f.items /\ OwnerOf(f.items[k]) # NoLink BY <2>1 DEF KnownItems
    <2>3. FirstKnown(f) = f.items[k] /\ FirstOwner(f) = OwnerOf(f.items[k])
      BY <1>2 DEF FirstKnown, FirstOwner
    <2> HIDE DEF k
    <2> QED BY <2>2, <2>3, OwnerListsTheItem
  <1> QED BY <1>2 DEF FirstOwner

(* What a status is read as, of the fields the first that says an outcome. *)
LEMMA OutcomeIsSaid ==
    ASSUME NEW fields, IsList(fields)
    PROVE  LET result == NormalizeMotionResult(PickStatus(fields))
           IN  /\ result = "aangenomen" =>
                     \E i \in DOMAIN fields :
                         /\ "aangenomen" \in fields[i]
                         /\ \A j \in 1 .. i - 1 : fields[j] \cap Outcomes = {}
               /\ (\E i \in DOMAIN fields : fields[i] \cap Outcomes # {}) =>
                     result \notin {"none", "overig"}
  <1> DEFINE n == Len(fields)
             filled == FilledIn(fields)
             decisive == { i \in filled : NormalizeMotionResult(fields[i]) # "overig" }
             picked == PickStatus(fields)
             result == NormalizeMotionResult(picked)
  <1>1. /\ n \in Nat /\ DOMAIN fields = 1 .. n /\ filled \subseteq 1 .. n /\ decisive \subseteq filled
        /\ \A i \in 1 .. n : i \in filled <=> fields[i] # {}
        /\ \A i \in decisive : NormalizeMotionResult(fields[i]) # "overig" /\ fields[i] # {}
        /\ \A i \in filled : i \notin decisive => NormalizeMotionResult(fields[i]) = "overig"
    BY DEF IsList, FilledIn
  <1>2. picked = IF decisive # {} THEN fields[Earliest(decisive)]
                 ELSE IF filled # {} THEN fields[Earliest(filled)] ELSE {}
    BY DEF PickStatus
  <1>3. \A said : said \cap Outcomes # {} <=>
                     said # {} /\ NormalizeMotionResult(said) # "overig"
    BY DEF Outcomes, NormalizeMotionResult
  <1>4. \A said : /\ NormalizeMotionResult(said) = "aangenomen" => "aangenomen" \in said
                  /\ said # {} => NormalizeMotionResult(said) # "none"
    BY DEF NormalizeMotionResult
  <1>5. NormalizeMotionResult({}) = "none" BY DEF NormalizeMotionResult
  <1> HIDE DEF n, filled, decisive, picked
  <1>6. CASE decisive # {}
    <2> DEFINE k == Earliest(decisive)
    <2>1. k \in decisive /\ \A j \in decisive : k <= j BY <1>1, <1>6, EarliestIsThere
    <2>2. picked = fields[k] BY <1>2, <1>6
    <2> HIDE DEF k
    <2>3. k \in 1 .. n /\ fields[k] # {} /\ result # "overig" /\ result # "none"
      BY <1>1, <1>4, <2>1, <2>2
    <2>4. \A j \in 1 .. k - 1 : fields[j] \cap Outcomes = {}
      <3> TAKE j \in 1 .. k - 1
      <3>1. j \in 1 .. n /\ ~(k <= j) BY <1>1, <2>3
      <3>2. j \notin decisive BY <2>1, <3>1
      <3>3. fields[j] = {} \/ NormalizeMotionResult(fields[j]) = "overig"
        BY <1>1, <3>1, <3>2
      <3> QED BY <1>3, <3>3
    <2>5. result = "aangenomen" => "aangenomen" \in fields[k] BY <1>4, <2>2
    <2> QED BY <1>1, <2>3, <2>4, <2>5 DEF picked
  <1>7. CASE decisive = {}
    <2>1. \A i \in 1 .. n : fields[i] \cap Outcomes = {} BY <1>1, <1>3, <1>7
    <2>2. result # "aangenomen"
      <3>1. CASE filled # {}
        <4>1. Earliest(filled) \in filled /\ picked = fields[Earliest(filled)]
          BY <1>1, <1>2, <1>7, <3>1, EarliestIsThere
        <4>2. result = "overig" BY <1>1, <1>7, <4>1
        <4> QED BY <4>2
      <3>2. CASE filled = {} BY <1>2, <1>5, <1>7, <3>2
      <3> QED BY <3>1, <3>2
    <2> QED BY <1>1, <2>1, <2>2 DEF picked
  <1> QED BY <1>6, <1>7

(* Some day that is given is taken.                                        *)
LEMMA SomeDayIsTaken ==
    ASSUME NEW n \in Nat, NEW days, DOMAIN days = 1 .. n, NEW i \in 1 .. n, days[i] # 0
    PROVE  FirstDay(days) # 0
  <1> DEFINE given == { k \in DOMAIN days : days[k] # 0 }
  <1>1. given \subseteq 1 .. n /\ given # {} /\ \A k \in given : days[k] # 0 OBVIOUS
  <1>2. FirstDay(days) = days[Earliest(given)] BY <1>1 DEF FirstDay
  <1> HIDE DEF given
  <1>3. Earliest(given) \in given BY <1>1, EarliestIsThere
  <1> QED BY <1>1, <1>2, <1>3
-----------------------------------------------------------------------------
(* What is right of an entry once it is placed: the four promises, of one. *)
AskedFor == [Unplaced EXCEPT !.step = "asked"]
GivenUp == [Unplaced EXCEPT !.step = "failed"]
Pending == IF filed.supplier = "ibabs" THEN {Unplaced, AskedFor, GivenUp} ELSE {Unplaced}

StaysWithin(f, r) ==
    r.meeting # NoLink =>
        /\ r.item # NoLink => r.item \in ItemsOf(r.meeting)
        /\ filed.supplier = "ibabs" => DayOf(r.meeting) = f.day
        /\ filed.supplier = "notubiz" =>
              \E i \in DOMAIN f.items : f.items[i] \in ItemsOf(r.meeting)

Meant(f) ==
    { m \in CalendarMeetings :
        /\ ~Calendar[m].sibling /\ Calendar[m].day = f.day /\ Calendar[m].name = f.name }
KeepsTheLink(f, r) ==
    filed.supplier = "ibabs" /\ f.motion /\ Refers(f) /\ Meant(f) # {} =>
        r.meeting \in Meant(f) \/ f.day \in missed

KeepsItsHint(f, r) ==
    LET refers == IF filed.supplier = "ibabs" THEN f.agenda # "none" ELSE f.items # <<>>
    IN  f.motion =>
          /\ refers /\ r.meeting = NoLink => r.hinted \/ r.item # NoLink
          /\ filed.supplier = "ibabs" /\ (f.changed # 0 \/ (refers /\ Plausible(f.day))) =>
                r.day # 0

TellsTheOutcome(f, r) ==
    f.motion =>
        /\ r.result = "aangenomen" =>
              \E i \in DOMAIN f.fields :
                  /\ "aangenomen" \in f.fields[i]
                  /\ \A j \in 1 .. i - 1 : f.fields[j] \cap Outcomes = {}
        /\ (\E i \in DOMAIN f.fields : f.fields[i] \cap Outcomes # {}) =>
              r.result \notin {"none", "overig"}

PlacedRight(f, r) ==
    /\ r.step = "placed" /\ r.meeting \in CalendarMeetings \cup {NoLink}
    /\ StaysWithin(f, r) /\ KeepsTheLink(f, r) /\ KeepsItsHint(f, r) /\ TellsTheOutcome(f, r)

(* Of the days: what comes to the index comes with the rest of its day.    *)
Indexed == { meetingIndex[i] : i \in DOMAIN meetingIndex }
DaysAreWhole ==
    filed.supplier = "ibabs" =>
        \A m \in window \cup Indexed : \A n \in CalendarMeetings :
            Calendar[n].day = Calendar[m].day /\ ~Calendar[n].sibling => n \in window \cup Indexed
DoneIsKnown ==
    filed.supplier = "ibabs" =>
        \A day \in LinkDays : loads[day] = "done" =>
            \/ day \in missed
            \/ \A n \in CalendarMeetings :
                  Calendar[n].day = day /\ ~Calendar[n].sibling => n \in Indexed

LinksTyped ==
    /\ filed \in Filings /\ window \subseteq CalendarMeetings
    /\ meetingIndex \in Seq(CalendarMeetings) /\ missed \subseteq LinkDays
    /\ loads \in [LinkDays -> {"no", "asked", "done"}]
    /\ placed = [e \in LinkEntries |-> placed[e]]

EntriesArePlaced ==
    \A e \in LinkEntries :
        placed[e] \in Pending \/ PlacedRight(filed.entries[e], placed[e])

LinksInvariant == LinksTyped /\ DaysAreWhole /\ DoneIsKnown /\ EntriesArePlaced

LEMMA LinksFollow == LinksInvariant => MotionsFindTheirMeeting /\ LinksTypeOK
  <1> SUFFICES ASSUME LinksInvariant PROVE MotionsFindTheirMeeting /\ LinksTypeOK
    OBVIOUS
  <1>1. /\ Unplaced.step = "waiting" /\ Unplaced.meeting = NoLink
        /\ AskedFor.step = "asked" /\ AskedFor.meeting = NoLink
        /\ GivenUp.step = "failed" /\ GivenUp.meeting = NoLink
    BY DEF Unplaced, AskedFor, GivenUp
  <1>2. \A e \in LinkEntries :
           \/ placed[e].step \in {"waiting", "asked", "failed"} /\ placed[e].meeting = NoLink
           \/ PlacedRight(filed.entries[e], placed[e])
    BY <1>1 DEF LinksInvariant, EntriesArePlaced, Pending
  <1>3. \A e \in PlacedMotions :
           e \in LinkEntries /\ filed.entries[e].motion /\ PlacedRight(filed.entries[e], placed[e])
    BY <1>2 DEF PlacedMotions
  <1>4. LinkedWithinItsMeeting
    BY <1>2 DEF LinkedWithinItsMeeting, PlacedRight, StaysWithin
  <1>5. ReimportKeepsTheLink
    BY <1>3 DEF ReimportKeepsTheLink, PlacedRight, KeepsTheLink, Meant
  <1>6. UnlinkedKeepsItsHint BY <1>3 DEF UnlinkedKeepsItsHint, PlacedRight, KeepsItsHint
  <1>7. OutcomeIsTheRegistrys
    BY <1>3 DEF OutcomeIsTheRegistrys, PlacedRight, TellsTheOutcome
  <1>8. filed.supplier \in {"ibabs", "notubiz"}
    BY LinksAssumption DEF LinksInvariant, LinksTyped
  <1>9. LinksTypeOK
    BY <1>2, <1>8 DEF LinksInvariant, LinksTyped, LinksTypeOK, PlacedRight
  <1> QED BY <1>4, <1>5, <1>6, <1>7, <1>9 DEF MotionsFindTheirMeeting

(* What each kind of entry becomes is right.                               *)
LEMMA IbabsEntryIsRight ==
    ASSUME LinksInvariant, filed.supplier = "ibabs", NEW e \in LinkEntries,
           NEW f, f = filed.entries[e], NEW m,
           m = IF Refers(f) THEN Find(f) ELSE NoLink,
           Refers(f) => loads[f.day] = "done"
    PROVE  PlacedRight(f, IF f.motion THEN IbabsMotion(f, m) ELSE IbabsRegister(f, m))
  <1> DEFINE r == IF f.motion THEN IbabsMotion(f, m) ELSE IbabsRegister(f, m)
  <1>0. /\ LinksTyped /\ DaysAreWhole /\ DoneIsKnown /\ meetingIndex \in Seq(CalendarMeetings)
        /\ NoLink \notin CalendarMeetings
    BY LinksAssumption DEF LinksInvariant, LinksTyped, CalendarMeetings
  <1>1. m # NoLink => m \in CalendarMeetings /\ Calendar[m].day = f.day
    BY <1>0, FoundOnItsDay
  <1>2. /\ r.step = "placed" /\ r.meeting = m
        /\ ~f.motion => r.item = NoLink
        /\ f.motion => /\ r.item = IF m = NoLink THEN NoLink ELSE FindAgendaItem(m, f)
                       /\ r.hinted = (f.agenda # "none" /\ (m = NoLink \/ r.item = NoLink))
                       /\ r.day = FirstDay(<<DayOf(m), NamedDay(f), DayIfPlausible(f.entered), f.changed>>)
                       /\ r.result = NormalizeMotionResult(PickStatus(f.fields))
    BY DEF IbabsMotion, IbabsRegister
  <1> HIDE DEF r
  <1>3. StaysWithin(f, r) BY <1>1, <1>2, ItemIsOfItsMeeting DEF StaysWithin, DayOf
  <1>4. KeepsTheLink(f, r)
    <2> SUFFICES ASSUME f.motion, Refers(f), Meant(f) # {}, f.day \notin missed
                 PROVE  r.meeting \in Meant(f)
      BY DEF KeepsTheLink
    <2>1. PICK n \in CalendarMeetings :
             ~Calendar[n].sibling /\ Calendar[n].day = f.day /\ Calendar[n].name = f.name
      BY DEF Meant
    <2>2. f.day \in LinkDays BY DEF LinkDays
    <2>3. n \in Indexed BY <1>0, <2>1, <2>2 DEF DoneIsKnown
    <2>4. \E i \in DOMAIN meetingIndex :
             /\ Calendar[meetingIndex[i]].day = f.day
             /\ Calendar[meetingIndex[i]].name = f.name
      BY <2>1, <2>3 DEF Indexed
    <2>5. m = Find(f) OBVIOUS
    <2>6. m \in CalendarMeetings /\ Calendar[m].day = f.day /\ Calendar[m].name = f.name
      BY <1>0, <2>4, <2>5, FoundOnItsDay
    <2>7. Calendar[m].sibling = Calendar[n].sibling
      BY <2>1, <2>6, LinksAssumption DEF CalendarMeetings
    <2> QED BY <1>2, <2>1, <2>6, <2>7 DEF Meant
  <1>5. KeepsItsHint(f, r)
    <2> SUFFICES ASSUME f.motion
                 PROVE  /\ f.agenda # "none" /\ r.meeting = NoLink => r.hinted
                        /\ f.changed # 0 \/ (f.agenda # "none" /\ Plausible(f.day)) => r.day # 0
      BY DEF KeepsItsHint
    <2> DEFINE days == <<DayOf(m), NamedDay(f), DayIfPlausible(f.entered), f.changed>>
    <2>1. r.day = FirstDay(days) BY <1>2
    <2>2. f.agenda # "none" /\ Plausible(f.day) => days[2] # 0
      BY DEF NamedDay, DayIfPlausible, Plausible
    <2>3. DOMAIN days = 1 .. 4 /\ days[4] = f.changed OBVIOUS
    <2> HIDE DEF days
    <2>4. days[4] # 0 \/ days[2] # 0 => FirstDay(days) # 0
      <3>1. 4 \in Nat /\ 4 \in 1 .. 4 /\ 2 \in 1 .. 4 OBVIOUS
      <3>2. days[4] # 0 => FirstDay(days) # 0 BY <2>3, <3>1, SomeDayIsTaken
      <3>3. days[2] # 0 => FirstDay(days) # 0 BY <2>3, <3>1, SomeDayIsTaken
      <3> QED BY <3>2, <3>3
    <2> QED BY <1>2, <2>1, <2>2, <2>3, <2>4
  <1>6. TellsTheOutcome(f, r)
    <2>1. IsList(f.fields) BY <1>0, LinksAssumption DEF LinksTyped, LinkEntries
    <2> QED BY <1>2, <2>1, OutcomeIsSaid DEF TellsTheOutcome
  <1>7. PlacedRight(f, r) BY <1>1, <1>2, <1>3, <1>4, <1>5, <1>6 DEF PlacedRight
  <1> QED BY <1>7 DEF r

LEMMA NotubizEntryIsRight ==
    ASSUME LinksInvariant, filed.supplier = "notubiz", NEW e \in LinkEntries,
           NEW f, f = filed.entries[e]
    PROVE  PlacedRight(f, IF f.motion THEN NotubizMotion(f) ELSE NotubizRegister(f))
  <1> DEFINE r == IF f.motion THEN NotubizMotion(f) ELSE NotubizRegister(f)
             m == FirstOwner(f)
  <1>0. LinksTyped /\ meetingIndex \in Seq(CalendarMeetings) /\ NoLink \notin CalendarMeetings
    BY LinksAssumption DEF LinksInvariant, LinksTyped, CalendarMeetings
  <1>1. /\ IsList(f.fields) /\ IsList(f.items)
        /\ \A i \in DOMAIN f.items : f.items[i] # NoLink
    BY <1>0, LinksAssumption DEF LinksTyped, LinkEntries
  <1>2. /\ KnownItems(f) # {} =>
              /\ m \in CalendarMeetings /\ FirstKnown(f) \in ItemsOf(m)
              /\ \E i \in DOMAIN f.items : f.items[i] = FirstKnown(f)
        /\ KnownItems(f) = {} => m = NoLink
    BY <1>0, <1>1, FirstOwnerIsKnown
  <1>3. /\ r.step = "placed" /\ r.meeting = m
        /\ ~f.motion => r.item = NoLink
        /\ f.motion => /\ r.item = IF KnownItems(f) # {} THEN FirstKnown(f)
                                   ELSE IF f.items # <<>> THEN Head(f.items) ELSE NoLink
                       /\ r.result = NormalizeMotionResult(PickStatus(f.fields))
    BY DEF NotubizMotion, NotubizRegister
  <1> HIDE DEF r, m
  <1>4. StaysWithin(f, r) BY <1>2, <1>3 DEF StaysWithin
  <1>5. KeepsTheLink(f, r) BY DEF KeepsTheLink
  <1>6. KeepsItsHint(f, r)
    <2> SUFFICES ASSUME f.motion, f.items # <<>>, r.meeting = NoLink
                 PROVE  r.item # NoLink
      BY DEF KeepsItsHint
    <2>1. KnownItems(f) = {} BY <1>0, <1>2, <1>3
    <2>2. r.item = Head(f.items) BY <1>3, <2>1
    <2>3. Head(f.items) = f.items[1] /\ 1 \in DOMAIN f.items BY <1>1 DEF IsList
    <2> QED BY <1>1, <2>2, <2>3
  <1>7. TellsTheOutcome(f, r) BY <1>1, <1>3, OutcomeIsSaid DEF TellsTheOutcome
  <1>8. r.meeting \in CalendarMeetings \cup {NoLink} BY <1>2, <1>3
  <1>9. PlacedRight(f, r) BY <1>3, <1>4, <1>5, <1>6, <1>7, <1>8 DEF PlacedRight
  <1> QED BY <1>9 DEF r

LEMMA LinksBegin == LinksInit => LinksInvariant
  <1> SUFFICES ASSUME LinksInit PROVE LinksInvariant OBVIOUS
  <1> USE DEF LinksInit
  <1>1. LinksTyped
    <2>1. <<>> \in Seq(CalendarMeetings) OBVIOUS
    <2>2. {} \subseteq LinkDays OBVIOUS
    <2> QED BY <2>1, <2>2 DEF LinksTyped
  <1>2. Indexed = {}
    <2>1. DOMAIN <<>> = {} OBVIOUS
    <2> QED BY <2>1 DEF Indexed
  <1>3. DaysAreWhole BY <1>2 DEF DaysAreWhole
  <1>4. DoneIsKnown BY DEF DoneIsKnown
  <1>5. EntriesArePlaced BY DEF EntriesArePlaced, Pending
  <1> QED BY <1>1, <1>3, <1>4, <1>5 DEF LinksInvariant

(* An entry that is placed stays right: an issue is not taken back.        *)
LEMMA PlacedStayRight ==
    ASSUME LinksInvariant, UNCHANGED filed, missed \subseteq missed',
           NEW e \in LinkEntries, placed'[e] = placed[e]
    PROVE  placed'[e] \in Pending'
           \/ PlacedRight(filed.entries[e], placed[e])'
  <1>1. ASSUME PlacedRight(filed.entries[e], placed[e])
        PROVE  PlacedRight(filed.entries[e], placed[e])'
    <2> DEFINE f == filed.entries[e]
               r == placed[e]
    <2>1. KeepsTheLink(f, r) => KeepsTheLink(f, r)' BY DEF KeepsTheLink, Meant, Refers
    <2>2. /\ StaysWithin(f, r) => StaysWithin(f, r)'
          /\ KeepsItsHint(f, r) => KeepsItsHint(f, r)'
          /\ TellsTheOutcome(f, r) => TellsTheOutcome(f, r)'
      BY DEF StaysWithin, KeepsItsHint, TellsTheOutcome
    <2> QED BY <1>1, <2>1, <2>2 DEF PlacedRight
  <1>2. Pending' = Pending BY DEF Pending
  <1> QED BY <1>1, <1>2 DEF LinksInvariant, EntriesArePlaced

(* One entry goes on; the index and the days are as they were.             *)
LEMMA OneIsPlaced ==
    ASSUME LinksInvariant, UNCHANGED <<filed, missed>>,
           NEW e \in LinkEntries, NEW r, placed' = [placed EXCEPT ![e] = r],
           r \in Pending \/ PlacedRight(filed.entries[e], r)
    PROVE  EntriesArePlaced' /\ placed' = [x \in LinkEntries |-> placed'[x]]
           /\ LinkEntries' = LinkEntries
  <1>1. placed = [x \in LinkEntries |-> placed[x]] BY DEF LinksInvariant, LinksTyped
  <1>2. LinkEntries' = LinkEntries BY DEF LinkEntries
  <1>3. placed' = [x \in LinkEntries |-> placed'[x]] /\ placed'[e] = r
        /\ \A x \in LinkEntries : x # e => placed'[x] = placed[x]
    BY <1>1
  <1>4. ASSUME NEW x \in LinkEntries
        PROVE  placed'[x] \in Pending'
               \/ PlacedRight(filed.entries[x], placed[x])'
    <2>1. CASE x = e
      <3>1. PlacedRight(filed.entries[e], r) => PlacedRight(filed.entries[x], placed[x])'
        <4> DEFINE f == filed.entries[e]
        <4>1. filed'.entries[x] = f /\ placed'[x] = r BY <1>3, <2>1
        <4>2. PlacedRight(f, r) => PlacedRight(filed'.entries[x], placed'[x]) BY <4>1
        <4> QED BY <4>2 DEF PlacedRight, StaysWithin, KeepsTheLink, KeepsItsHint, TellsTheOutcome, Meant
      <3>2. Pending' = Pending BY DEF Pending
      <3> QED BY <1>3, <2>1, <3>1, <3>2
    <2>2. CASE x # e BY <1>3, <2>2, PlacedStayRight
    <2> QED BY <2>1, <2>2
  <1> QED BY <1>2, <1>3, <1>4 DEF EntriesArePlaced

LEMMA IndexGrows ==
    ASSUME LinksInvariant, UNCHANGED <<filed, placed>>, missed \subseteq missed'
    PROVE  /\ EntriesArePlaced' /\ placed' = [x \in LinkEntries |-> placed'[x]]
           /\ LinkEntries' = LinkEntries /\ LinkDays' = LinkDays
  <1>1. LinkEntries' = LinkEntries /\ LinkDays' = LinkDays BY DEF LinkEntries, LinkDays
  <1>2. ASSUME NEW x \in LinkEntries
        PROVE  placed'[x] \in Pending'
               \/ PlacedRight(filed.entries[x], placed[x])'
    BY PlacedStayRight
  <1>3. placed = [x \in LinkEntries |-> placed[x]] BY DEF LinksInvariant, LinksTyped
  <1> QED BY <1>1, <1>2, <1>3 DEF EntriesArePlaced

LEMMA IndexIsKept ==
    ASSUME LinksInvariant, [LinksNext]_linkVars
    PROVE  LinksInvariant'
  <1>0. /\ filed \in Filings /\ window \subseteq CalendarMeetings
        /\ meetingIndex \in Seq(CalendarMeetings) /\ missed \subseteq LinkDays
        /\ loads \in [LinkDays -> {"no", "asked", "done"}]
        /\ DaysAreWhole /\ DoneIsKnown /\ EntriesArePlaced
    BY DEF LinksInvariant, LinksTyped
  <1>1. CASE IndexMeeting
    <2>1. PICK m \in window :
             /\ window' = window \ {m}
             /\ IF OfSibling(m) THEN UNCHANGED meetingIndex ELSE Add(m)
             /\ UNCHANGED <<filed, loads, placed, missed>>
      BY <1>1 DEF IndexMeeting
    <2>2. /\ EntriesArePlaced' /\ placed' = [x \in LinkEntries |-> placed'[x]]
          /\ LinkEntries' = LinkEntries /\ LinkDays' = LinkDays
      BY <2>1, IndexGrows
    <2>3. /\ meetingIndex' \in Seq(CalendarMeetings)
          /\ Indexed' = IF OfSibling(m) THEN Indexed ELSE Indexed \cup {m}
      <3>1. CASE OfSibling(m) BY <1>0, <2>1, <3>1 DEF Indexed
      <3>2. CASE ~OfSibling(m)
        <4>1. meetingIndex' = Append(meetingIndex, m) /\ m \in CalendarMeetings
          BY <1>0, <2>1, <3>2 DEF Add
        <4>2. /\ DOMAIN meetingIndex' = DOMAIN meetingIndex \cup {Len(meetingIndex) + 1}
              /\ \A i \in DOMAIN meetingIndex : meetingIndex'[i] = meetingIndex[i]
              /\ meetingIndex'[Len(meetingIndex) + 1] = m
          BY <1>0, <4>1
        <4>3. Indexed' = Indexed \cup {m} BY <4>2 DEF Indexed
        <4> QED BY <1>0, <3>2, <4>1, <4>3
      <3> QED BY <3>1, <3>2
    <2>4. filed.supplier = "ibabs" => (OfSibling(m) <=> Calendar[m].sibling)
      BY DEF OfSibling
    <2>5. DaysAreWhole' BY <1>0, <2>1, <2>3, <2>4 DEF DaysAreWhole
    <2>6. DoneIsKnown' BY <1>0, <2>1, <2>2, <2>3 DEF DoneIsKnown
    <2> QED BY <1>0, <2>1, <2>2, <2>3, <2>5, <2>6 DEF LinksInvariant, LinksTyped
  <1>2. ASSUME NEW e \in LinkEntries, AsksForDay(e)
        PROVE  LinksInvariant'
    <2> DEFINE f == filed.entries[e]
    <2>1. /\ filed.supplier = "ibabs" /\ window = {} /\ placed[e].step = "waiting"
          /\ placed' = [placed EXCEPT ![e] = [placed[e] EXCEPT !.step = "asked"]]
          /\ loads' = IF Refers(f) /\ loads[f.day] = "no"
                      THEN [loads EXCEPT ![f.day] = IF HasDate(f.day) THEN "done" ELSE "asked"]
                      ELSE loads
          /\ UNCHANGED <<filed, window, meetingIndex, missed>>
      BY <1>2 DEF AsksForDay, Becomes
    <2>2. [placed[e] EXCEPT !.step = "asked"] = AskedFor
      <3>1. placed[e] = Unplaced
        BY <1>0, <2>1 DEF EntriesArePlaced, PlacedRight, AskedFor, GivenUp, Unplaced, Pending
      <3> QED BY <3>1 DEF AskedFor
    <2>i. AskedFor \in Pending BY <2>1 DEF Pending
    <2>3. EntriesArePlaced' /\ placed' = [x \in LinkEntries |-> placed'[x]] /\ LinkEntries' = LinkEntries
      BY <2>1, <2>2, <2>i, OneIsPlaced
    <2>4. LinkDays' = LinkDays /\ Indexed' = Indexed /\ f.day \in LinkDays
      BY <2>1 DEF LinkDays, LinkEntries, Indexed
    <2>5. loads' \in [LinkDays -> {"no", "asked", "done"}] BY <1>0, <2>1
    <2>6. DaysAreWhole' BY <1>0, <2>1, <2>4 DEF DaysAreWhole
    <2>7. DoneIsKnown'
      <3> SUFFICES ASSUME NEW day \in LinkDays, loads'[day] = "done", day \notin missed,
                          NEW n \in CalendarMeetings, Calendar[n].day = day, ~Calendar[n].sibling
                   PROVE  n \in Indexed
        BY <2>1, <2>4 DEF DoneIsKnown
      <3>1. CASE loads[day] = "done" BY <1>0, <2>1, <3>1 DEF DoneIsKnown
      <3>2. CASE loads[day] # "done"
        <4>1. day = f.day /\ HasDate(f.day) BY <1>0, <2>1, <2>4, <3>2
        <4>2. PICK i \in DOMAIN meetingIndex : Calendar[meetingIndex[i]].day = day
          BY <4>1 DEF HasDate, KnownOn
        <4>3. meetingIndex[i] \in Indexed BY DEF Indexed
        <4> QED BY <1>0, <2>1, <4>2, <4>3 DEF DaysAreWhole
      <3> QED BY <3>1, <3>2
    <2> QED BY <1>0, <2>1, <2>3, <2>4, <2>5, <2>6, <2>7 DEF LinksInvariant, LinksTyped
  <1>3. ASSUME NEW day \in LinkDays, DayAnswers(day)
        PROVE  LinksInvariant'
    <2> DEFINE ofDay == { m \in CalendarMeetings : Calendar[m].day = day }
    <2>1. PICK answer \in [1 .. Cardinality(ofDay) -> ofDay] :
             /\ \A m \in ofDay : \E i \in DOMAIN answer : answer[i] = m
             /\ meetingIndex' = meetingIndex \o answer
      BY <1>3 DEF DayAnswers
    <2>2. loads' = [loads EXCEPT ![day] = "done"] /\ UNCHANGED <<filed, window, placed, missed>>
      BY <1>3 DEF DayAnswers
    <2>3. /\ EntriesArePlaced' /\ placed' = [x \in LinkEntries |-> placed'[x]]
          /\ LinkEntries' = LinkEntries /\ LinkDays' = LinkDays
      BY <2>2, IndexGrows
    <2>4. answer \in Seq(CalendarMeetings)
      <3>1. Cardinality(ofDay) \in Nat
        <4>1. ofDay \subseteq CalendarMeetings /\ IsFiniteSet(CalendarMeetings)
          BY LinksAssumption DEF CalendarMeetings
        <4> HIDE DEF ofDay
        <4> QED BY <4>1, FS_Subset, FS_CardinalityType
      <3>2. ofDay \subseteq CalendarMeetings OBVIOUS
      <3> DEFINE k == Cardinality(ofDay)
      <3>3. k \in Nat /\ answer \in [1 .. k -> CalendarMeetings] BY <3>1, <3>2
      <3> HIDE DEF k, ofDay
      <3> QED BY <3>3
    <2>5. meetingIndex' \in Seq(CalendarMeetings) /\ Indexed' = Indexed \cup ofDay
      <3> DEFINE n == Len(meetingIndex)
      <3>1. /\ meetingIndex' \in Seq(CalendarMeetings) /\ Len(meetingIndex') = n + Len(answer)
            /\ \A i \in 1 .. n + Len(answer) : meetingIndex'[i] =
                  IF i <= n THEN meetingIndex[i] ELSE answer[i - n]
        BY <1>0, <2>1, <2>4, ConcatProperties
      <3>2. n \in Nat /\ Len(answer) \in Nat /\ DOMAIN answer = 1 .. Len(answer)
            /\ DOMAIN meetingIndex = 1 .. n /\ DOMAIN meetingIndex' = 1 .. n + Len(answer)
        BY <1>0, <2>4, <3>1
      <3>3. \A i \in DOMAIN answer : answer[i] \in ofDay BY <2>1
      <3> HIDE DEF n, ofDay
      <3>4. ASSUME NEW m \in Indexed' PROVE m \in Indexed \cup ofDay
        <4>1. PICK i \in DOMAIN meetingIndex' : m = meetingIndex'[i] BY <3>4 DEF Indexed
        <4>2. i <= n => i \in DOMAIN meetingIndex /\ m = meetingIndex[i]
          BY <3>1, <3>2, <4>1
        <4>3. ~(i <= n) => i - n \in DOMAIN answer /\ m = answer[i - n]
          BY <3>1, <3>2, <4>1
        <4> QED BY <3>3, <4>2, <4>3 DEF Indexed
      <3>5. ASSUME NEW m \in Indexed PROVE m \in Indexed'
        <4>1. PICK i \in DOMAIN meetingIndex : m = meetingIndex[i] BY <3>5 DEF Indexed
        <4>2. i \in DOMAIN meetingIndex' /\ meetingIndex'[i] = m BY <3>1, <3>2, <4>1
        <4> QED BY <4>2 DEF Indexed
      <3>6. ASSUME NEW m \in ofDay PROVE m \in Indexed'
        <4>1. PICK i \in DOMAIN answer : answer[i] = m BY <2>1
        <4>2. n + i \in DOMAIN meetingIndex' /\ meetingIndex'[n + i] = m
          <5>1. n + i \in 1 .. n + Len(answer) /\ ~(n + i <= n) /\ (n + i) - n = i
            BY <3>2, <4>1
          <5> QED BY <3>1, <3>2, <4>1, <5>1
        <4> QED BY <4>2 DEF Indexed
      <3> QED BY <3>1, <3>4, <3>5, <3>6
    <2>6. \A m \in ofDay : \A n \in CalendarMeetings : Calendar[n].day = Calendar[m].day => n \in ofDay
      OBVIOUS
    <2>7. \A n \in CalendarMeetings : Calendar[n].day = day => n \in ofDay OBVIOUS
    <2> HIDE DEF ofDay
    <2>8. DaysAreWhole' BY <1>0, <2>2, <2>5, <2>6 DEF DaysAreWhole
    <2>9. DoneIsKnown' BY <1>0, <2>2, <2>3, <2>5, <2>7 DEF DoneIsKnown
    <2> QED BY <1>0, <2>2, <2>3, <2>5, <2>8, <2>9 DEF LinksInvariant, LinksTyped
  <1>4. ASSUME NEW day \in LinkDays, DayFails(day)
        PROVE  LinksInvariant'
    <2>1. /\ loads' = [loads EXCEPT ![day] = "done"] /\ missed' = missed \cup {day}
          /\ UNCHANGED <<filed, window, meetingIndex, placed>>
      BY <1>4 DEF DayFails
    <2>2. /\ EntriesArePlaced' /\ placed' = [x \in LinkEntries |-> placed'[x]]
          /\ LinkEntries' = LinkEntries /\ LinkDays' = LinkDays
      BY <2>1, IndexGrows
    <2>3. Indexed' = Indexed BY <2>1 DEF Indexed
    <2>4. DaysAreWhole' /\ DoneIsKnown'
      BY <1>0, <2>1, <2>2, <2>3 DEF DaysAreWhole, DoneIsKnown
    <2> QED BY <1>0, <2>1, <2>2, <2>4 DEF LinksInvariant, LinksTyped
  <1>5. ASSUME NEW e \in LinkEntries, NEW r, placed' = [placed EXCEPT ![e] = r],
               r \in Pending \/ PlacedRight(filed.entries[e], r),
               UNCHANGED <<filed, window, meetingIndex, loads, missed>>
        PROVE  LinksInvariant'
    <2>1. EntriesArePlaced' /\ placed' = [x \in LinkEntries |-> placed'[x]] /\ LinkEntries' = LinkEntries
      BY <1>5, OneIsPlaced
    <2>2. Indexed' = Indexed /\ LinkDays' = LinkDays
      BY <1>5 DEF Indexed, LinkDays, LinkEntries
    <2>3. DaysAreWhole' /\ DoneIsKnown'
      BY <1>0, <1>5, <2>2 DEF DaysAreWhole, DoneIsKnown
    <2> QED BY <1>0, <1>5, <2>1, <2>2, <2>3 DEF LinksInvariant, LinksTyped
  <1>6. ASSUME NEW e \in LinkEntries, EntryLost(e)
        PROVE  LinksInvariant'
    <2>1. placed' = [placed EXCEPT ![e] = [placed[e] EXCEPT !.step = "failed"]]
          /\ placed[e].step \in {"waiting", "asked"} /\ filed.supplier = "ibabs"
          /\ UNCHANGED <<filed, window, meetingIndex, loads, missed>>
      BY <1>6 DEF EntryLost, Becomes
    <2>2. [placed[e] EXCEPT !.step = "failed"] = GivenUp
      <3>1. placed[e] = Unplaced \/ placed[e] = AskedFor
        BY <1>0, <2>1 DEF EntriesArePlaced, PlacedRight, AskedFor, GivenUp, Unplaced, Pending
      <3> QED BY <3>1 DEF AskedFor, GivenUp, Unplaced
    <2>3. GivenUp \in Pending BY <2>1 DEF Pending
    <2> QED BY <1>5, <2>1, <2>2, <2>3
  <1>7. ASSUME NEW e \in LinkEntries, IbabsPlaced(e)
        PROVE  LinksInvariant'
    <2> DEFINE f == filed.entries[e]
               m == IF Refers(f) THEN Find(f) ELSE NoLink
               r == IF f.motion THEN IbabsMotion(f, m) ELSE IbabsRegister(f, m)
    <2>1. /\ placed[e].step = "asked" /\ (Refers(f) => loads[f.day] = "done")
          /\ placed' = [placed EXCEPT ![e] = r]
          /\ UNCHANGED <<filed, window, meetingIndex, loads, missed>>
      BY <1>7 DEF IbabsPlaced, Becomes, DayReady
    <2>2. CASE filed.supplier = "ibabs"
      <3>1. PlacedRight(f, r) BY <2>1, <2>2, IbabsEntryIsRight
      <3> HIDE DEF r
      <3> QED BY <1>5, <2>1, <3>1
    <2>3. filed.supplier = "ibabs"
      BY <1>0, <2>1 DEF EntriesArePlaced, PlacedRight, Unplaced, Pending
    <2> QED BY <2>2, <2>3
  <1>8. ASSUME NEW e \in LinkEntries, NotubizPlaced(e)
        PROVE  LinksInvariant'
    <2> DEFINE f == filed.entries[e]
               r == IF f.motion THEN NotubizMotion(f) ELSE NotubizRegister(f)
    <2>1. /\ filed.supplier = "notubiz" /\ placed' = [placed EXCEPT ![e] = r]
          /\ UNCHANGED <<filed, window, meetingIndex, loads, missed>>
      BY <1>8 DEF NotubizPlaced, Becomes
    <2>2. PlacedRight(f, r) BY <2>1, NotubizEntryIsRight
    <2> HIDE DEF r
    <2> QED BY <1>5, <2>1, <2>2
  <1>9. CASE UNCHANGED linkVars
    <2>1. UNCHANGED <<filed, window, meetingIndex, loads, placed, missed>>
      BY <1>9 DEF linkVars
    <2>2. /\ EntriesArePlaced' /\ placed' = [x \in LinkEntries |-> placed'[x]]
          /\ LinkEntries' = LinkEntries /\ LinkDays' = LinkDays
      BY <2>1, IndexGrows
    <2>3. DaysAreWhole' /\ DoneIsKnown'
      BY <1>0, <2>1, <2>2 DEF DaysAreWhole, DoneIsKnown, Indexed
    <2> QED BY <1>0, <2>1, <2>2, <2>3 DEF LinksInvariant, LinksTyped
  <1> QED BY <1>1, <1>2, <1>3, <1>4, <1>6, <1>7, <1>8, <1>9 DEF LinksNext

(* Whatever the window, and whichever entry asks first or is lost: a       *)
(* motion that is placed is placed right.                                  *)
THEOREM MotionsFind == LinksSpec => []LinksInvariant
  <1> QED BY LinksBegin, IndexIsKept, PTL DEF LinksSpec
-----------------------------------------------------------------------------
(* Transcript. Why no word is lost or misplaced: the segments share out    *)
(* the cues taken, each a stretch of them; and the chapters that have a    *)
(* heading are those that began by the segment that comes next.            *)

(* In a total order of finitely many, every rank is taken, in that order.  *)
LEMMA RanksAreTaken ==
    ASSUME NEW S, IsFiniteSet(S), NEW T,
           \A i, j \in S : <<i, j>> \in T \/ <<j, i>> \in T,
           \A i, j \in S : <<i, j>> \in T /\ <<j, i>> \in T => i = j,
           \A i, j, k \in S : <<i, j>> \in T /\ <<j, k>> \in T => <<i, k>> \in T
    PROVE  /\ \A n \in 1 .. Cardinality(S) :
                 \E i \in S : Cardinality({ j \in S : <<j, i>> \in T }) = n
           /\ \A i, j \in S :
                 Cardinality({ k \in S : <<k, i>> \in T }) < Cardinality({ k \in S : <<k, j>> \in T })
                 => <<i, j>> \in T
  <1> DEFINE UpTo(i) == { j \in S : <<j, i>> \in T }
             rank == [i \in S |-> Cardinality(UpTo(i))]
             n == Cardinality(S)
  <1>1. n \in Nat BY FS_CardinalityType
  <1>2. \A i \in S : UpTo(i) \subseteq S /\ i \in UpTo(i) OBVIOUS
  <1>3. \A i, j \in S : <<i, j>> \in T => UpTo(i) \subseteq UpTo(j) OBVIOUS
  <1>4. \A i, j \in S : <<i, j>> \in T /\ i # j => j \notin UpTo(i) OBVIOUS
  <1> HIDE DEF UpTo
  <1>5. \A i \in S : IsFiniteSet(UpTo(i)) /\ Cardinality(UpTo(i)) \in Nat
                     /\ Cardinality(UpTo(i)) <= n
    BY <1>2, FS_Subset, FS_CardinalityType
  <1>6. \A i, j \in S : <<i, j>> \in T => Cardinality(UpTo(i)) <= Cardinality(UpTo(j))
    BY <1>3, <1>5, FS_Subset
  <1>7. \A i, j \in S : <<i, j>> \in T /\ i # j => Cardinality(UpTo(i)) # Cardinality(UpTo(j))
    <2> SUFFICES ASSUME NEW i \in S, NEW j \in S, <<i, j>> \in T, i # j
                 PROVE  Cardinality(UpTo(i)) # Cardinality(UpTo(j))
      OBVIOUS
    <2>1. UpTo(i) \subseteq UpTo(j) /\ UpTo(i) # UpTo(j) BY <1>2, <1>3, <1>4
    <2> QED BY <1>5, <2>1, FS_Subset
  <1>8. \A i \in S : Cardinality(UpTo(i)) # 0 BY <1>2, <1>5, FS_EmptySet
  <1>9. rank \in Injection(S, 1 .. n)
    <2>1. rank \in [S -> 1 .. n] BY <1>1, <1>5, <1>8
    <2>2. \A i, j \in S : rank[i] = rank[j] => i = j BY <1>7
    <2> QED BY <2>1, <2>2 DEF Injection, IsInjective
  <1>10. IsFiniteSet(1 .. n) /\ Cardinality(1 .. n) = n BY <1>1, FS_Interval
  <1>11. rank \in Surjection(S, 1 .. n)
    <2> HIDE DEF rank
    <2> QED BY <1>9, <1>10, FS_Injection
  <1>12. \A k \in 1 .. n : \E i \in S : rank[i] = k
    <2> HIDE DEF rank
    <2> QED BY <1>11 DEF Surjection
  <1>13. \A i, j \in S : Cardinality(UpTo(i)) < Cardinality(UpTo(j)) => <<i, j>> \in T
    <2> SUFFICES ASSUME NEW i \in S, NEW j \in S,
                        Cardinality(UpTo(i)) < Cardinality(UpTo(j)), <<i, j>> \notin T
                 PROVE  FALSE
      OBVIOUS
    <2>1. <<j, i>> \in T OBVIOUS
    <2>2. Cardinality(UpTo(j)) <= Cardinality(UpTo(i)) BY <2>1, <1>6
    <2>3. Cardinality(UpTo(i)) \in Nat /\ Cardinality(UpTo(j)) \in Nat BY <1>5
    <2> QED BY <2>2, <2>3
  <1> QED BY <1>12, <1>13 DEF UpTo

LEMMA FunctionsAreLists ==
    ASSUME NEW S, NEW n \in Nat, NEW f \in [1 .. n -> S]
    PROVE  f \in Seq(S) /\ Len(f) = n
  OBVIOUS

(* What is left of the subtitles has times.                                *)
CueRow == [start: Nat, end: Nat]
LEMMA CuesHaveTimes ==
    ASSUME NEW blocks \in BlockLists
    PROVE  ParseTranscriptCues(blocks) \in Seq(CueRow)
  <1> DEFINE kept == { i \in DOMAIN blocks :
                         blocks[i].start # -1 /\ blocks[i].end # -1 /\ blocks[i].said }
             n == Cardinality(kept)
             at(k) == CHOOSE i \in kept : Cardinality({ j \in kept : j <= i }) = k
  <1>1. blocks \in Seq([start: Seconds, end: Seconds, said: BOOLEAN])
    BY TranscriptAssumption
  <1>2. IsFiniteSet(kept) /\ n \in Nat /\ kept \subseteq Nat
    <2> DEFINE m == Len(blocks)
    <2>1. m \in Nat /\ kept \subseteq 1 .. m BY <1>1
    <2> HIDE DEF m, kept
    <2>2. IsFiniteSet(1 .. m) BY <2>1, FS_Interval
    <2>3. IsFiniteSet(kept) BY <2>1, <2>2, FS_Subset
    <2> QED BY <2>1, <2>3, FS_CardinalityType
  <1>3. \A i \in kept : blocks[i].start \in Nat /\ blocks[i].end \in Nat
    <2> DEFINE Subtitle == [start: Seconds, end: Seconds, said: BOOLEAN]
    <2>3. blocks \in Seq(Subtitle) BY <1>1
    <2>4. \A i \in DOMAIN blocks : blocks[i] \in Subtitle
      <3> HIDE DEF Subtitle
      <3> QED BY <2>3
    <2>1. \A i \in DOMAIN blocks : blocks[i] \in [start: Seconds, end: Seconds, said: BOOLEAN]
      BY <2>4
    <2>2. \A i \in DOMAIN blocks : blocks[i].start \in Seconds /\ blocks[i].end \in Seconds
      BY <2>1
    <2> QED BY <2>2 DEF Seconds
  <1>4. \A k \in 1 .. n : at(k) \in kept
    <2> DEFINE T == { p \in kept \X kept : p[1] <= p[2] }
    <2>1. \A i, j \in kept : <<i, j>> \in T <=> i <= j OBVIOUS
    <2> HIDE DEF T, kept
    <2>2. \A i, j \in kept : i \in Nat /\ j \in Nat BY <1>2
    <2>3. /\ \A i, j \in kept : <<i, j>> \in T \/ <<j, i>> \in T
          /\ \A i, j \in kept : <<i, j>> \in T /\ <<j, i>> \in T => i = j
          /\ \A i, j, k \in kept : <<i, j>> \in T /\ <<j, k>> \in T => <<i, k>> \in T
      BY <2>1, <2>2
    <2>4. IsFiniteSet(kept) BY <1>2
    <2>8. /\ \A k \in 1 .. Cardinality(kept) :
                \E i \in kept : Cardinality({ j \in kept : <<j, i>> \in T }) = k
          /\ \A i, j \in kept :
                Cardinality({ k \in kept : <<k, i>> \in T }) < Cardinality({ k \in kept : <<k, j>> \in T })
                => <<i, j>> \in T
      <3> HIDE DEF n
      <3> QED BY <2>3, <2>4, RanksAreTaken
    <2>7. \A k \in 1 .. n : \E i \in kept : Cardinality({ j \in kept : <<j, i>> \in T }) = k
      BY <2>8
    <2>5. \A i \in kept : { j \in kept : <<j, i>> \in T } = { j \in kept : j <= i }
      BY <2>1
    <2>6. \A k \in 1 .. n : \E i \in kept : Cardinality({ j \in kept : j <= i }) = k
      BY <2>7, <2>5
    <2> QED BY <2>6
  <1>5. ParseTranscriptCues(blocks) = [k \in 1 .. n |-> CueOf(blocks[at(k)])]
    BY DEF ParseTranscriptCues
  <1>6. \A i \in kept : CueOf(blocks[i]) \in CueRow
    <2> HIDE DEF kept
    <2> TAKE i \in kept
    <2>1. blocks[i].start \in Nat /\ blocks[i].end \in Nat BY <1>3
    <2> QED BY <2>1 DEF CueOf, CueRow
  <1> HIDE DEF kept, n, at
  <1>7. [k \in 1 .. n |-> CueOf(blocks[at(k)])] \in [1 .. n -> CueRow] BY <1>4, <1>6
  <1> QED BY <1>2, <1>5, <1>7

(* The chapters are the items that were played, in the order they were.    *)
ItemRow == [start: Seconds, end: Seconds]
LEMMA ChaptersAreInOrder ==
    ASSUME agenda \in Seq(ItemRow)
    PROVE  /\ IsFiniteSet(Played) /\ Cardinality(Played) \in 0 .. Len(agenda)
           /\ Chapters \in [1 .. Cardinality(Played) -> Played]
           /\ Chapters \in Seq(Played) /\ Len(Chapters) = Cardinality(Played)
           /\ \A k \in 1 .. Len(Chapters) : agenda[Chapters[k]].start \in Nat
           /\ \A k, l \in 1 .. Len(Chapters) : k < l =>
                 agenda[Chapters[k]].start <= agenda[Chapters[l]].start
  <1> DEFINE n == Cardinality(Played)
             at(k) == CHOOSE i \in Played : Cardinality({ j \in Played : Before(j, i) }) = k
             T == { p \in Played \X Played : Before(p[1], p[2]) }
  <1>1. IsFiniteSet(Played) /\ n \in 0 .. Len(agenda)
    <2> DEFINE m == Len(agenda)
    <2>1. m \in Nat /\ Played \subseteq 1 .. m BY DEF Played
    <2> HIDE DEF m
    <2>2. IsFiniteSet(1 .. m) /\ Cardinality(1 .. m) = m BY <2>1, FS_Interval
    <2>3. IsFiniteSet(Played) /\ Cardinality(Played) <= m /\ Cardinality(Played) \in Nat
      BY <2>1, <2>2, FS_Subset, FS_CardinalityType
    <2> QED BY <2>1, <2>3 DEF m
  <1>2. \A i \in Played : i \in Nat /\ agenda[i].start \in Nat
    <2>1. \A i \in DOMAIN agenda : agenda[i] \in ItemRow /\ i \in Nat OBVIOUS
    <2>2. \A i \in DOMAIN agenda : agenda[i].start \in Seconds BY <2>1 DEF ItemRow
    <2> QED BY <2>1, <2>2 DEF Played, Seconds
  <1>3. \A i, j \in Played : <<i, j>> \in T <=> Before(i, j) OBVIOUS
  <1> HIDE DEF T
  <1>4. /\ \A i, j \in Played : <<i, j>> \in T \/ <<j, i>> \in T
        /\ \A i, j \in Played : <<i, j>> \in T /\ <<j, i>> \in T => i = j
        /\ \A i, j, k \in Played : <<i, j>> \in T /\ <<j, k>> \in T => <<i, k>> \in T
    <2>1. \A i, j \in Played : Before(i, j) \/ Before(j, i) BY <1>2 DEF Before
    <2>2. \A i, j \in Played : Before(i, j) /\ Before(j, i) => i = j BY <1>2 DEF Before
    <2>3. \A i, j, k \in Played : Before(i, j) /\ Before(j, k) => Before(i, k)
      BY <1>2 DEF Before
    <2> QED BY <1>3, <2>1, <2>2, <2>3
  <1>5. \A i \in Played : { j \in Played : <<j, i>> \in T } = { j \in Played : Before(j, i) }
    BY <1>3
  <1>6. /\ \A k \in 1 .. n : \E i \in Played : Cardinality({ j \in Played : Before(j, i) }) = k
        /\ \A i, j \in Played :
              Cardinality({ k \in Played : Before(k, i) }) < Cardinality({ k \in Played : Before(k, j) })
              => Before(i, j)
    <2> HIDE DEF n
    <2>1. /\ \A k \in 1 .. Cardinality(Played) :
                \E i \in Played : Cardinality({ j \in Played : <<j, i>> \in T }) = k
          /\ \A i, j \in Played :
                Cardinality({ k \in Played : <<k, i>> \in T }) < Cardinality({ k \in Played : <<k, j>> \in T })
                => <<i, j>> \in T
      BY <1>1, <1>4, RanksAreTaken
    <2> QED BY <1>3, <1>5, <2>1 DEF n
  <1>7. \A k \in 1 .. n : at(k) \in Played /\ Cardinality({ j \in Played : Before(j, at(k)) }) = k
    <2> TAKE k \in 1 .. n
    <2>1. \E i \in Played : Cardinality({ j \in Played : Before(j, i) }) = k BY <1>6
    <2> QED BY <2>1
  <1>8. Chapters = [k \in 1 .. n |-> at(k)] BY DEF Chapters
  <1>9. \A k, l \in 1 .. n : k < l => Before(at(k), at(l))
    <2> HIDE DEF at
    <2> QED BY <1>6, <1>7
  <1> HIDE DEF n, at
  <1>10. Chapters \in [1 .. n -> Played] /\ n \in Nat
    <2>1. \A k \in 1 .. n : at(k) \in Played BY <1>7
    <2>2. n \in Nat BY <1>1 DEF n
    <2> QED BY <1>8, <2>1, <2>2
  <1>11. Chapters \in Seq(Played) /\ Len(Chapters) = n BY <1>10
  <1>12. \A k, l \in 1 .. n : k < l => agenda[Chapters[k]].start <= agenda[Chapters[l]].start
    <2> SUFFICES ASSUME NEW k \in 1 .. n, NEW l \in 1 .. n, k < l
                 PROVE  agenda[Chapters[k]].start <= agenda[Chapters[l]].start
      OBVIOUS
    <2>1. Before(Chapters[k], Chapters[l]) /\ Chapters[k] \in Played /\ Chapters[l] \in Played
      BY <1>8, <1>9, <1>10
    <2> QED BY <1>2, <2>1 DEF Before
  <1>13. \A k \in 1 .. n : agenda[Chapters[k]].start \in Nat BY <1>2, <1>10
  <1> QED BY <1>1, <1>10, <1>11, <1>12, <1>13 DEF n
-----------------------------------------------------------------------------
(* The segments share out the cues that are taken, each a stretch of them. *)
Voices == { SpeakerAt(second) : second \in Nat }
Segment == [from: Nat, to: Nat, speaker: Voices, cues: Seq(Nat)]
FirstCue(list, k) == list[k].cues[1]
CuesOf(list, k) == Len(list[k].cues)
SpokenTogether(list, end, k, n) ==
    LET c == list[k].cues[n]
    IN  /\ c \in 1 .. end
        /\ SpeakerAt(cues[c].start) = list[k].speaker
        /\ n > 1 => /\ cues[c].start - cues[c - 1].end < MaxGap
                    /\ cues[c].end - list[k].from < TargetSeconds
AStretch(list, end, k) ==
    /\ CuesOf(list, k) \in Nat \ {0} /\ FirstCue(list, k) \in Nat
    /\ \A n \in 1 .. CuesOf(list, k) :
          /\ list[k].cues[n] = FirstCue(list, k) + (n - 1)
          /\ SpokenTogether(list, end, k, n)
Sharing(list, end) ==
    /\ cues \in Seq(CueRow) /\ end \in 0 .. Len(cues)
    /\ list \in Seq(Segment) /\ Len(list) <= end
    /\ end > 0 => Len(list) > 0
    /\ \A k \in 1 .. Len(list) : AStretch(list, end, k)
    /\ Len(list) > 0 =>
          /\ FirstCue(list, 1) = 1
          /\ FirstCue(list, Len(list)) + CuesOf(list, Len(list)) = end + 1
          /\ list[Len(list)].to = cues[end].end
    /\ \A k \in 2 .. Len(list) :
          FirstCue(list, k) = FirstCue(list, k - 1) + CuesOf(list, k - 1)
SharedOut == Sharing(segments, taken)

LEMMA SharedOutAtFirst == TranscriptInit => SharedOut
  <1> SUFFICES ASSUME TranscriptInit PROVE SharedOut OBVIOUS
  <1>1. taken = 0 /\ segments = <<>> /\ cues \in Seq(CueRow)
    BY CuesHaveTimes DEF TranscriptInit
  <1>2. segments \in Seq(Segment) /\ Len(segments) = 0
    <2>1. <<>> \in Seq(Segment) /\ Len(<<>>) = 0 OBVIOUS
    <2> QED BY <2>1, <1>1
  <1> HIDE DEF TranscriptInit
  <1>3. taken \in 0 .. Len(cues) BY <1>1
  <1> QED BY <1>1, <1>2, <1>3 DEF SharedOut, Sharing

LEMMA SharingIsOfTheVoices ==
    ASSUME UNCHANGED <<cues, speakers>>, Sharing(segments', taken')
    PROVE  SharedOut'
  <1>1. \A second : SpeakerAt(second)' = SpeakerAt(second) BY DEF SpeakerAt
  <1>2. Voices' = Voices BY <1>1 DEF Voices
  <1>3. Segment' = Segment BY <1>2 DEF Segment
  <1>4. cues' = cues OBVIOUS
  <1> QED
    BY <1>1, <1>3, <1>4 DEF SharedOut, Sharing, AStretch, SpokenTogether, FirstCue, CuesOf, CueRow

LEMMA CueStartsASegment ==
    ASSUME SharedOut, taken < Len(cues), NEW list,
           list = Append(segments, [from |-> cues[taken + 1].start, to |-> cues[taken + 1].end,
                                    speaker |-> SpeakerAt(cues[taken + 1].start),
                                    cues |-> <<taken + 1>>])
    PROVE  Sharing(list, taken + 1)
  <1> DEFINE cue == cues[taken + 1]
             voice == SpeakerAt(cue.start)
             new == [from |-> cue.start, to |-> cue.end, speaker |-> voice,
                     cues |-> <<taken + 1>>]
             last == Len(segments)
  <1>2. cues \in Seq(CueRow) /\ taken \in 0 .. Len(cues) /\ segments \in Seq(Segment)
        /\ taken \in Nat /\ taken + 1 \in DOMAIN cues /\ last \in Nat
    BY DEF SharedOut, Sharing
  <1>3. cue \in CueRow BY <1>2
  <1>4. cue.start \in Nat /\ cue.end \in Nat BY <1>3 DEF CueRow
  <1> HIDE DEF cue
  <1>6. voice \in Voices BY <1>4 DEF Voices
  <1> HIDE DEF voice
  <1>7. new \in Segment BY <1>2, <1>4, <1>6 DEF Segment
  <1>8. new.from = cue.start /\ new.to = cue.end /\ new.speaker = voice
        /\ new.cues = <<taken + 1>>
    OBVIOUS
  <1>1. list = Append(segments, new) BY DEF cue, voice
  <1> HIDE DEF new, last
  <1>9. /\ list \in Seq(Segment) /\ Len(list) = last + 1
        /\ list[last + 1] = new
        /\ \A k \in 1 .. last : list[k] = segments[k]
    BY <1>1, <1>2, <1>7 DEF last
  <1>10. Len(new.cues) = 1 /\ new.cues[1] = taken + 1 BY <1>8
  <1>11. last <= taken /\ (taken > 0 => last > 0) BY DEF SharedOut, Sharing, last
  <1>12. \A k \in 1 .. last : CuesOf(list, k) = CuesOf(segments, k)
                              /\ FirstCue(list, k) = FirstCue(segments, k)
    BY <1>9 DEF CuesOf, FirstCue
  <1>13. CuesOf(list, last + 1) = 1 /\ FirstCue(list, last + 1) = taken + 1
    BY <1>9, <1>10 DEF CuesOf, FirstCue
  <1>14. \A k \in 1 .. last : AStretch(segments, taken, k)
    BY DEF SharedOut, Sharing, last
  <1>15. \A k \in 1 .. last + 1 : AStretch(list, taken + 1, k)
    <2> TAKE k \in 1 .. last + 1
    <2>1. CASE k = last + 1
      <3>1. SpokenTogether(list, taken + 1, k, 1)
        <4>1. list[k].cues[1] = taken + 1 /\ list[k].speaker = voice
          BY <2>1, <1>9, <1>8, <1>10
        <4>2. SpeakerAt(cues[taken + 1].start) = voice BY DEF cue, voice
        <4>3. taken + 1 \in 1 .. taken + 1 /\ ~(1 > 1) BY <1>2
        <4> QED BY <4>1, <4>2, <4>3 DEF SpokenTogether
      <3>2. CuesOf(list, k) = 1 /\ FirstCue(list, k) = taken + 1 BY <1>13, <2>1
      <3>3. list[k].cues[1] = taken + 1 BY <2>1, <1>9, <1>10
      <3>4. \A n \in 1 .. CuesOf(list, k) : n = 1 BY <3>2
      <3>5. list[k].cues[1] = (taken + 1) + (1 - 1) /\ taken + 1 \in Nat /\ 1 \in Nat \ {0}
        <4>1. taken + 1 = (taken + 1) + (1 - 1) /\ taken + 1 \in Nat /\ 1 \in Nat \ {0}
          BY <1>2
        <4> QED BY <4>1, <3>3
      <3>6. \A n \in 1 .. CuesOf(list, k) :
              /\ list[k].cues[n] = FirstCue(list, k) + (n - 1)
              /\ SpokenTogether(list, taken + 1, k, n)
        BY <3>1, <3>2, <3>4, <3>5
      <3> QED BY <3>2, <3>5, <3>6 DEF AStretch
    <2>2. CASE k # last + 1
      <3>1. k \in 1 .. last BY <2>2, <1>2 DEF last
      <3>2. CuesOf(list, k) = CuesOf(segments, k) /\ FirstCue(list, k) = FirstCue(segments, k)
            /\ list[k] = segments[k]
        BY <3>1, <1>9, <1>12
      <3>3. AStretch(segments, taken, k) BY <3>1, <1>14
      <3>4. \A c \in 1 .. taken : c \in 1 .. taken + 1 BY <1>2
      <3> QED BY <3>2, <3>3, <3>4 DEF AStretch, SpokenTogether
    <2> QED BY <2>1, <2>2
  <1>16. FirstCue(list, 1) = 1
    <2>1. CASE last = 0
      <3>1. taken = 0 BY <2>1, <1>11, <1>2
      <3> QED BY <3>1, <2>1, <1>13
    <2>2. CASE last # 0
      <3>1. 1 \in 1 .. last /\ FirstCue(segments, 1) = 1
        BY <2>2, <1>2 DEF SharedOut, Sharing, last
      <3> QED BY <3>1, <1>12
    <2> QED BY <2>1, <2>2
  <1>17. \A k \in 2 .. last + 1 : FirstCue(list, k) = FirstCue(list, k - 1) + CuesOf(list, k - 1)
    <2> TAKE k \in 2 .. last + 1
    <2>0. last \in Nat /\ k - 1 \in 1 .. last BY <1>2 DEF last
    <2>1. CASE k = last + 1
      <3>1. FirstCue(segments, last) + CuesOf(segments, last) = taken + 1
        BY <2>0 DEF SharedOut, Sharing, last
      <3>2. k - 1 = last BY <2>0, <2>1
      <3>3. last \in 1 .. last BY <2>0
      <3> QED BY <2>1, <3>1, <3>2, <3>3, <1>12, <1>13
    <2>2. CASE k # last + 1
      <3>1. k \in 2 .. last /\ k \in 1 .. last BY <2>0, <2>2
      <3>2. FirstCue(segments, k) = FirstCue(segments, k - 1) + CuesOf(segments, k - 1)
        BY <3>1 DEF SharedOut, Sharing, last
      <3> QED BY <2>0, <3>1, <3>2, <1>12
    <2> QED BY <2>1, <2>2
  <1>18. list[last + 1].to = cues[taken + 1].end BY <1>8, <1>9 DEF cue
  <1>19. taken + 1 \in 0 .. Len(cues) BY <1>2
  <1>21. Len(list) <= taken + 1 /\ Len(list) > 0 BY <1>2, <1>9, <1>11 DEF last
  <1>22. FirstCue(list, last + 1) + CuesOf(list, last + 1) = (taken + 1) + 1
    BY <1>2, <1>13
  <1> QED BY <1>2, <1>9, <1>15, <1>16, <1>17, <1>18, <1>19, <1>21, <1>22 DEF Sharing

LEMMA CueJoinsASegment ==
    ASSUME SharedOut, taken < Len(cues), Len(segments) # 0, NEW list,
           ~Cut(segments[Len(segments)], cues[taken + 1]),
           list = [segments EXCEPT ![Len(segments)].to = cues[taken + 1].end,
                                   ![Len(segments)].cues = Append(@, taken + 1)]
    PROVE  Sharing(list, taken + 1)
  <1> DEFINE cue == cues[taken + 1]
             last == Len(segments)
             old == segments[last]
             new == [old EXCEPT !.to = cue.end, !.cues = Append(old.cues, taken + 1)]
  <1>1. list = [segments EXCEPT ![last] = new] OBVIOUS
  <1>2. cues \in Seq(CueRow) /\ taken \in 0 .. Len(cues) /\ segments \in Seq(Segment)
        /\ taken \in Nat /\ taken + 1 \in DOMAIN cues /\ last \in Nat \ {0}
    BY DEF SharedOut, Sharing
  <1>3. cue \in CueRow BY <1>2
  <1>4. cue.start \in Nat /\ cue.end \in Nat BY <1>3 DEF CueRow
  <1>6. old \in Segment /\ last \in 1 .. last BY <1>2
  <1>7. ~Cut(old, cue) OBVIOUS
  <1>8. /\ FirstCue(segments, 1) = 1 /\ FirstCue(segments, last) + CuesOf(segments, last) = taken + 1
        /\ old.to = cues[taken].end
        /\ CuesOf(segments, last) \in Nat \ {0} /\ FirstCue(segments, last) \in Nat
    <2>1. AStretch(segments, taken, last) BY <1>6 DEF SharedOut, Sharing
    <2>2. CuesOf(segments, last) \in Nat \ {0} /\ FirstCue(segments, last) \in Nat
      <3> HIDE DEF last
      <3> QED BY <2>1 DEF AStretch
    <2>3. last > 0 BY <1>2
    <2>4. /\ FirstCue(segments, 1) = 1
          /\ FirstCue(segments, last) + CuesOf(segments, last) = taken + 1
          /\ segments[last].to = cues[taken].end
      BY <2>3 DEF SharedOut, Sharing
    <2> QED BY <2>2, <2>4
  <1> HIDE DEF cue
  <1>9. /\ old.from \in Nat /\ old.to \in Nat /\ old.cues \in Seq(Nat) /\ old.speaker \in Voices
        /\ DOMAIN old = {"from", "to", "speaker", "cues"}
    BY <1>6 DEF Segment
  <1> HIDE DEF old, last
  <1>10. new \in Segment /\ new.from = old.from /\ new.to = cue.end
         /\ new.speaker = old.speaker /\ new.cues = Append(old.cues, taken + 1)
    <2>1. Append(old.cues, taken + 1) \in Seq(Nat) BY <1>9, <1>2
    <2>2. old \in [from: Nat, to: Nat, speaker: Voices, cues: Seq(Nat)]
      BY <1>6 DEF Segment
    <2>3. new \in [from: Nat, to: Nat, speaker: Voices, cues: Seq(Nat)]
      BY <2>1, <2>2, <1>4
    <2> QED BY <2>3, <1>9 DEF Segment
  <1> HIDE DEF new
  <1>11. /\ list \in Seq(Segment) /\ Len(list) = last
         /\ list[last] = new
         /\ \A k \in 1 .. last : k # last => list[k] = segments[k]
    <2>1. last = Len(segments) /\ DOMAIN segments = 1 .. last BY <1>2 DEF last
    <2>2. list \in [1 .. last -> Segment]
      <3>1. segments \in [1 .. last -> Segment] BY <1>2, <2>1
      <3> QED BY <1>1, <1>10, <3>1
    <2>3. list[last] = new /\ \A k \in 1 .. last : k # last => list[k] = segments[k]
      BY <1>1, <1>6, <2>1
    <2>4. last \in Nat BY <1>2 DEF last
    <2>5. list \in Seq(Segment) /\ Len(list) = last BY <2>2, <2>4, FunctionsAreLists
    <2> QED BY <2>3, <2>5
  <1>12. CuesOf(segments, last) = Len(old.cues) /\ FirstCue(segments, last) = old.cues[1]
    BY DEF CuesOf, FirstCue, old
  <1>13. /\ Len(new.cues) = CuesOf(segments, last) + 1
         /\ new.cues[CuesOf(segments, last) + 1] = taken + 1
         /\ \A n \in 1 .. CuesOf(segments, last) : new.cues[n] = old.cues[n]
    BY <1>9, <1>10, <1>12
  <1>14. \A k \in 1 .. last : k # last =>
            CuesOf(list, k) = CuesOf(segments, k) /\ FirstCue(list, k) = FirstCue(segments, k)
    BY <1>11 DEF CuesOf, FirstCue
  <1>15. CuesOf(list, last) = CuesOf(segments, last) + 1
         /\ FirstCue(list, last) = FirstCue(segments, last)
    <2>1. CuesOf(list, last) = Len(new.cues) /\ FirstCue(list, last) = new.cues[1]
      BY <1>11 DEF CuesOf, FirstCue
    <2>2. new.cues[1] = old.cues[1] BY <1>8, <1>12, <1>13
    <2> QED BY <2>1, <2>2, <1>12, <1>13
  <1>16. \A k \in 1 .. last : AStretch(segments, taken, k)
    BY DEF SharedOut, Sharing, last
  <1>17. taken >= 1
    <2>1. last <= taken BY DEF SharedOut, Sharing, last
    <2> QED BY <2>1, <1>2 DEF last
  <1>18. \A k \in 1 .. last : AStretch(list, taken + 1, k)
    <2> TAKE k \in 1 .. last
    <2>0. \A c \in 1 .. taken : c \in 1 .. taken + 1 BY <1>2
    <2>1. CASE k # last
      <3>1. CuesOf(list, k) = CuesOf(segments, k) /\ FirstCue(list, k) = FirstCue(segments, k)
            /\ list[k] = segments[k]
        BY <2>1, <1>11, <1>14
      <3>2. AStretch(segments, taken, k) BY <1>16
      <3> QED BY <2>0, <3>1, <3>2 DEF AStretch, SpokenTogether
    <2>2. CASE k = last
      <3> DEFINE size == CuesOf(segments, last)
                 first == FirstCue(segments, last)
      <3>1. AStretch(segments, taken, last) BY <2>2, <1>16
      <3>2. size \in Nat \ {0} /\ first \in Nat /\ first + size = taken + 1 BY <1>8
      <3>3. \A n \in 1 .. size : old.cues[n] = first + (n - 1) /\ SpokenTogether(segments, taken, last, n)
        BY <3>1 DEF AStretch, old
      <3>4. CuesOf(list, k) = size + 1 /\ FirstCue(list, k) = first BY <2>2, <1>15
      <3>5. list[k] = new BY <2>2, <1>11
      <3>6. new.cues[size + 1] = taken + 1 /\ \A n \in 1 .. size : new.cues[n] = old.cues[n]
        BY <1>13
      <3> HIDE DEF size, first
      <3>7. \A n \in 1 .. size : SpokenTogether(list, taken + 1, k, n)
        <4> TAKE n \in 1 .. size
        <4>1. SpokenTogether(segments, taken, last, n) BY <3>3
        <4>2. list[k].cues[n] = old.cues[n] /\ list[k].speaker = old.speaker
              /\ list[k].from = old.from
          BY <3>5, <3>6, <1>10
        <4> QED BY <4>1, <4>2, <2>0 DEF SpokenTogether, old
      <3>8. SpokenTogether(list, taken + 1, k, size + 1)
        <4>1. list[k].cues[size + 1] = taken + 1 /\ list[k].speaker = old.speaker
              /\ list[k].from = old.from
          BY <3>5, <3>6, <1>10
        <4>2. ~(cue.end - old.from >= TargetSeconds) /\ ~(cue.start - old.to >= MaxGap)
              /\ SpeakerAt(cue.start) = old.speaker
          BY <1>7 DEF Cut, CutByTime
        <4>3. TargetSeconds \in Nat /\ MaxGap \in Nat BY TranscriptAssumption
        <4>4. cue.end - old.from < TargetSeconds /\ cue.start - old.to < MaxGap
          BY <4>2, <4>3, <1>4, <1>9
        <4>5. (taken + 1) - 1 = taken /\ taken + 1 \in 1 .. taken + 1 BY <1>2
        <4> QED BY <4>1, <4>2, <4>4, <4>5, <1>8 DEF SpokenTogether, cue
      <3>9. \A n \in 1 .. size + 1 : n \in 1 .. size \/ n = size + 1 BY <3>2
      <3>10. \A n \in 1 .. size + 1 : list[k].cues[n] = first + (n - 1)
        <4>1. \A n \in 1 .. size : list[k].cues[n] = first + (n - 1) BY <3>3, <3>5, <3>6
        <4>2. list[k].cues[size + 1] = first + ((size + 1) - 1)
          <5>1. list[k].cues[size + 1] = taken + 1 BY <3>5, <3>6
          <5>2. taken + 1 = first + ((size + 1) - 1) BY <3>2
          <5> QED BY <5>1, <5>2
        <4> QED BY <3>9, <4>1, <4>2
      <3>11. size + 1 \in Nat \ {0} BY <3>2
      <3>12. \A n \in 1 .. size + 1 : SpokenTogether(list, taken + 1, k, n)
        BY <3>7, <3>8, <3>9
      <3> QED BY <3>2, <3>4, <3>10, <3>11, <3>12 DEF AStretch
    <2> QED BY <2>1, <2>2
  <1>19. FirstCue(list, 1) = 1
    <2>1. 1 \in 1 .. last BY <1>2 DEF last
    <2> QED BY <2>1, <1>8, <1>14, <1>15
  <1>20. \A k \in 2 .. last : FirstCue(list, k) = FirstCue(list, k - 1) + CuesOf(list, k - 1)
    <2> TAKE k \in 2 .. last
    <2>1. last \in Nat /\ k \in 1 .. last /\ k - 1 \in 1 .. last /\ k - 1 # last
      BY <1>2 DEF last
    <2>2. FirstCue(list, k) = FirstCue(segments, k) BY <2>1, <1>14, <1>15
    <2>3. FirstCue(list, k - 1) = FirstCue(segments, k - 1) /\ CuesOf(list, k - 1) = CuesOf(segments, k - 1)
      BY <2>1, <1>14
    <2>4. FirstCue(segments, k) = FirstCue(segments, k - 1) + CuesOf(segments, k - 1)
      BY DEF SharedOut, Sharing, last
    <2> QED BY <2>2, <2>3, <2>4
  <1>21. list[last].to = cues[taken + 1].end BY <1>10, <1>11 DEF cue
  <1>22. taken + 1 \in 0 .. Len(cues) BY <1>2
  <1>23. last <= taken + 1 /\ last > 0
    <2>1. last <= taken BY DEF SharedOut, Sharing, last
    <2> QED BY <2>1, <1>2 DEF last
  <1>24. FirstCue(list, last) + CuesOf(list, last) = (taken + 1) + 1
    BY <1>2, <1>8, <1>15
  <1> QED BY <1>2, <1>11, <1>18, <1>19, <1>20, <1>21, <1>22, <1>23, <1>24 DEF Sharing

LEMMA SharedOutStays == SharedOut /\ [TranscriptNext]_transcriptVars => SharedOut'
  <1> SUFFICES ASSUME SharedOut, [TranscriptNext]_transcriptVars
               PROVE  SharedOut'
    OBVIOUS
  <1>1. CASE TakeCue
    <2>1. /\ UNCHANGED <<cues, speakers>> /\ taken < Len(cues) /\ taken' = taken + 1
      BY <1>1 DEF TakeCue, publishedVars
    <2>2. Sharing(segments', taken + 1)
      <3>1. CASE Len(segments) = 0 \/ Cut(segments[Len(segments)], cues[taken + 1])
        <4>1. segments' = Append(segments, [from |-> cues[taken + 1].start,
                                            to |-> cues[taken + 1].end,
                                            speaker |-> SpeakerAt(cues[taken + 1].start),
                                            cues |-> <<taken + 1>>])
          BY <1>1, <3>1 DEF TakeCue
        <4> QED BY <4>1, <2>1, CueStartsASegment
      <3>2. CASE ~(Len(segments) = 0 \/ Cut(segments[Len(segments)], cues[taken + 1]))
        <4>1. segments' = [segments EXCEPT ![Len(segments)].to = cues[taken + 1].end,
                                           ![Len(segments)].cues = Append(@, taken + 1)]
          BY <1>1, <3>2 DEF TakeCue
        <4> QED BY <4>1, <3>2, <2>1, CueJoinsASegment
      <3> QED BY <3>1, <3>2
    <2> QED BY <2>1, <2>2, SharingIsOfTheVoices
  <1>2. CASE UNCHANGED <<cues, speakers, taken, segments>>
    BY <1>2, SharingIsOfTheVoices DEF SharedOut
  <1> QED BY <1>1, <1>2
    DEF TranscriptNext, WriteHeading, WriteSegment, publishedVars, transcriptVars
-----------------------------------------------------------------------------
(* How many cues the first segments hold: where the last of them ends.     *)
Places(m, list) == { <<m, n>> : n \in DOMAIN list }
PlacesOf(m) == Places(m, segments[m].cues)
PlacesUpTo(k) == UNION { PlacesOf(m) : m \in 1 .. k }
LastCue(k) == IF k = 0 THEN 0 ELSE FirstCue(segments, k) + CuesOf(segments, k) - 1

LEMMA PlacesAreCounted ==
    ASSUME NEW m, NEW c \in Seq(Nat)
    PROVE  IsFiniteSet(Places(m, c)) /\ Cardinality(Places(m, c)) = Len(c)
  <1> DEFINE N == Len(c)
             P == { <<m, n>> : n \in 1 .. N }
             f == [n \in 1 .. N |-> <<m, n>>]
  <1>1. N \in Nat /\ DOMAIN c = 1 .. N OBVIOUS
  <1> HIDE DEF N
  <1>2. IsFiniteSet(1 .. N) /\ Cardinality(1 .. N) = N BY <1>1, FS_Interval
  <1>3. f \in Bijection(1 .. N, P) BY DEF Bijection, Injection, IsInjective, Surjection
  <1>4. ExistsBijection(1 .. N, P)
    <2> HIDE DEF f, P
    <2> QED BY <1>3 DEF ExistsBijection
  <1>5. IsFiniteSet(P) /\ Cardinality(P) = N
    <2> HIDE DEF P
    <2> QED BY <1>2, <1>4, FS_Bijection
  <1> QED BY <1>1, <1>5 DEF N, Places

LEMMA EndsFollow ==
    ASSUME SharedOut
    PROVE  /\ \A k \in 1 .. Len(segments) :
                 /\ CuesOf(segments, k) \in Nat \ {0} /\ FirstCue(segments, k) \in Nat
                 /\ LastCue(k) = LastCue(k - 1) + CuesOf(segments, k)
                 /\ FirstCue(segments, k) = LastCue(k - 1) + 1
           /\ LastCue(Len(segments)) = taken
  <1> DEFINE last == Len(segments)
  <1>1. last \in Nat /\ taken \in Nat /\ last <= taken /\ (taken > 0 => last > 0)
        /\ (last > 0 => /\ FirstCue(segments, 1) = 1
                        /\ FirstCue(segments, last) + CuesOf(segments, last) = taken + 1)
    BY DEF SharedOut, Sharing
  <1>2. \A k \in 1 .. last :
           CuesOf(segments, k) \in Nat \ {0} /\ FirstCue(segments, k) \in Nat
    BY DEF SharedOut, Sharing, AStretch
  <1>3. \A k \in 2 .. last :
          FirstCue(segments, k) = FirstCue(segments, k - 1) + CuesOf(segments, k - 1)
    BY DEF SharedOut, Sharing
  <1> HIDE DEF last
  <1>4. \A k \in 1 .. last : LastCue(k) = LastCue(k - 1) + CuesOf(segments, k)
                             /\ FirstCue(segments, k) = LastCue(k - 1) + 1
    <2> TAKE k \in 1 .. last
    <2>1. CuesOf(segments, k) \in Nat \ {0} /\ FirstCue(segments, k) \in Nat BY <1>2
    <2>2. CASE k = 1
      <3>1. FirstCue(segments, 1) = 1 BY <1>1, <2>2
      <3> QED BY <2>1, <2>2, <3>1 DEF LastCue
    <2>3. CASE k # 1
      <3>1. k \in 2 .. last /\ k - 1 \in 1 .. last /\ k # 0 /\ k - 1 # 0 BY <1>1, <2>3
      <3>2. FirstCue(segments, k) = FirstCue(segments, k - 1) + CuesOf(segments, k - 1)
        BY <1>3, <3>1
      <3>3. CuesOf(segments, k - 1) \in Nat /\ FirstCue(segments, k - 1) \in Nat
        BY <1>2, <3>1
      <3> QED BY <2>1, <3>1, <3>2, <3>3 DEF LastCue
    <2> QED BY <2>2, <2>3
  <1>5. LastCue(last) = taken
    <2>1. CASE last = 0 BY <1>1, <2>1 DEF LastCue
    <2>2. CASE last # 0
      <3>1. last > 0 /\ last \in 1 .. last BY <1>1, <2>2
      <3> QED BY <1>1, <1>2, <2>2, <3>1 DEF LastCue
    <2> QED BY <2>1, <2>2
  <1> QED BY <1>2, <1>4, <1>5 DEF last

LEMMA TakenUpToTheEnd ==
    ASSUME SharedOut
    PROVE  \A k \in 0 .. Len(segments) : TakenUpTo(k) = LastCue(k)
  <1> DEFINE Right(k) == IsFiniteSet(PlacesUpTo(k)) /\ Cardinality(PlacesUpTo(k)) = LastCue(k)
             Wrong == { k \in 0 .. Len(segments) : ~Right(k) }
  <1>1. Len(segments) \in Nat /\ segments \in Seq(Segment) BY DEF SharedOut, Sharing
  <1>2. \A k \in 1 .. Len(segments) : segments[k].cues \in Seq(Nat)
    <2>1. \A k \in 1 .. Len(segments) : segments[k] \in Segment BY <1>1
    <2> QED BY <2>1 DEF Segment
  <1>3. PlacesUpTo(0) = {} BY DEF PlacesUpTo
  <1>4. Right(0) BY <1>3, FS_EmptySet DEF LastCue
  <1>5. \A k \in 1 .. Len(segments) : Right(k - 1) => Right(k)
    <2> SUFFICES ASSUME NEW k \in 1 .. Len(segments), Right(k - 1)
                 PROVE  Right(k)
      OBVIOUS
    <2>1. PlacesUpTo(k) = PlacesUpTo(k - 1) \cup PlacesOf(k)
      <3>1. k \in Nat /\ 1 .. k = (1 .. (k - 1)) \cup {k} OBVIOUS
      <3> QED BY <3>1 DEF PlacesUpTo
    <2>2. IsFiniteSet(PlacesOf(k)) /\ Cardinality(PlacesOf(k)) = CuesOf(segments, k)
      <3> DEFINE c == segments[k].cues
      <3>1. c \in Seq(Nat) BY <1>2
      <3>2. PlacesOf(k) = Places(k, c) /\ CuesOf(segments, k) = Len(c)
        BY DEF PlacesOf, CuesOf
      <3> HIDE DEF c
      <3> QED BY <3>1, <3>2, PlacesAreCounted
    <2>3. PlacesUpTo(k - 1) \cap PlacesOf(k) = {}
      <3>1. \A p \in PlacesOf(k) : p[1] = k BY DEF PlacesOf, Places
      <3>2. \A p \in PlacesUpTo(k - 1) : p[1] \in 1 .. (k - 1)
        BY DEF PlacesUpTo, PlacesOf, Places
      <3>3. k \notin 1 .. (k - 1) OBVIOUS
      <3> QED BY <3>1, <3>2, <3>3
    <2>4. /\ IsFiniteSet(PlacesUpTo(k))
          /\ Cardinality(PlacesUpTo(k)) =
                Cardinality(PlacesUpTo(k - 1)) + Cardinality(PlacesOf(k)) - Cardinality({})
      BY <2>1, <2>2, <2>3, FS_Union
    <2>5. Cardinality({}) = 0 BY FS_EmptySet
    <2>6. LastCue(k) = LastCue(k - 1) + CuesOf(segments, k) BY EndsFollow
    <2>7. CuesOf(segments, k) \in Nat BY EndsFollow
    <2>8. Cardinality(PlacesUpTo(k - 1)) \in Nat BY FS_CardinalityType
    <2> QED BY <2>2, <2>4, <2>5, <2>6, <2>7, <2>8
  <1> HIDE DEF Right
  <1>6. Wrong = {}
    <2> SUFFICES ASSUME Wrong # {} PROVE FALSE OBVIOUS
    <2>1. Wrong \in SUBSET Nat OBVIOUS
    <2>2. PICK k \in Wrong : \A j \in Wrong : k <= j
      <3> HIDE DEF Wrong
      <3> QED BY <2>1, LeastOf
    <2>3. k \in 1 .. Len(segments) /\ k - 1 \in 0 .. Len(segments) /\ ~(k <= k - 1)
      BY <1>1, <1>4, <2>2
    <2>4. k - 1 \notin Wrong
      <3> HIDE DEF Wrong
      <3> QED BY <2>2, <2>3
    <2>5. Right(k - 1) /\ ~Right(k) BY <2>2, <2>3, <2>4
    <2> QED BY <1>5, <2>3, <2>5
  <1>7. \A k \in 0 .. Len(segments) : Right(k) BY <1>6
  <1>8. \A k \in 0 .. Len(segments) : Cardinality(PlacesUpTo(k)) = LastCue(k)
    BY <1>7 DEF Right
  <1> QED BY <1>8 DEF TakenUpTo, PlacesUpTo, PlacesOf, Places

LEMMA WordsAreShared ==
    ASSUME SharedOut
    PROVE  /\ TakenUpTo(Len(segments)) = taken
           /\ \A k \in DOMAIN segments : \A n \in DOMAIN segments[k].cues :
                 LET c == segments[k].cues[n]
                 IN  /\ c = TakenUpTo(k - 1) + n
                     /\ SpeakerAt(cues[c].start) = segments[k].speaker
                     /\ n > 1 => /\ cues[c].start - cues[c - 1].end < MaxGap
                                 /\ cues[c].end - segments[k].from < TargetSeconds
  <1>1. Len(segments) \in Nat /\ segments \in Seq(Segment) /\ DOMAIN segments = 1 .. Len(segments)
    BY DEF SharedOut, Sharing
  <1>2. TakenUpTo(Len(segments)) = taken BY <1>1, TakenUpToTheEnd, EndsFollow
  <1>3. \A k \in DOMAIN segments : segments[k].cues \in Seq(Nat)
    <2>1. \A k \in DOMAIN segments : segments[k] \in Segment BY <1>1
    <2> QED BY <2>1 DEF Segment
  <1>4. ASSUME NEW k \in DOMAIN segments, NEW n \in DOMAIN segments[k].cues
        PROVE  /\ segments[k].cues[n] = TakenUpTo(k - 1) + n
               /\ SpokenTogether(segments, taken, k, n)
    <2>1. k \in 1 .. Len(segments) /\ k - 1 \in 0 .. Len(segments) BY <1>1
    <2>2. n \in 1 .. CuesOf(segments, k) /\ n \in Nat BY <1>3 DEF CuesOf
    <2>3. AStretch(segments, taken, k) BY <2>1 DEF SharedOut, Sharing
    <2>4. segments[k].cues[n] = FirstCue(segments, k) + (n - 1)
          /\ SpokenTogether(segments, taken, k, n)
      BY <2>2, <2>3 DEF AStretch
    <2>5. FirstCue(segments, k) = LastCue(k - 1) + 1 /\ LastCue(k - 1) = TakenUpTo(k - 1)
          /\ FirstCue(segments, k) \in Nat
      BY <2>1, EndsFollow, TakenUpToTheEnd
    <2>6. LastCue(k - 1) \in Int
      <3>1. CASE k - 1 = 0 BY <3>1 DEF LastCue
      <3>2. CASE k - 1 # 0
        <4>1. k - 1 \in 1 .. Len(segments) BY <2>1, <3>2
        <4>2. FirstCue(segments, k - 1) \in Nat /\ CuesOf(segments, k - 1) \in Nat
          BY <4>1, EndsFollow
        <4> QED BY <3>2, <4>2 DEF LastCue
      <3> QED BY <3>1, <3>2
    <2> QED BY <2>2, <2>4, <2>5, <2>6
  <1> QED BY <1>2, <1>4 DEF SpokenTogether
-----------------------------------------------------------------------------
(* What is written: every chapter that has a heading has one, and under a  *)
(* segment's heading is what began by it, if the segments are in order.    *)
PlayerRow == [kind: {"chapter", "segment"}, at: Nat]
SegmentRows(list) == { r \in DOMAIN list : list[r].kind = "segment" }
InOrder(segs) == \A k \in 2 .. Len(segs) : segs[k - 1].from <= segs[k].from
StartOf(n) == agenda[Chapters[n]].start
BegunByNext(segs, list, next) ==
    Cardinality(SegmentRows(list)) < Len(segs) =>
       \A n \in 1 .. (next - 1) : StartOf(n) <= segs[Cardinality(SegmentRows(list)) + 1].from
AboveIsBegun(segs, list, r) ==
    \A n \in 1 .. Len(Chapters) :
       (\E q \in 1 .. r : list[q] = Row("chapter", n)) <=> StartOf(n) <= segs[list[r].at].from
Headed(segs, list, next) ==
    /\ list \in Seq(PlayerRow) /\ next \in 1 .. Len(Chapters) + 1
    /\ Cardinality(SegmentRows(list)) <= Len(segs)
    /\ \A n \in 1 .. (next - 1) : \E r \in DOMAIN list : list[r] = Row("chapter", n)
    /\ \A r \in DOMAIN list : list[r].kind = "chapter" => list[r].at \in 1 .. (next - 1)
    /\ \A q, r \in DOMAIN list : list[q].kind = "chapter" /\ list[q] = list[r] => q = r
    /\ \A r \in DOMAIN list :
          list[r].kind = "segment" => list[r].at \in 1 .. Cardinality(SegmentRows(list))
    /\ InOrder(segs) =>
          /\ BegunByNext(segs, list, next)
          /\ \A r \in DOMAIN list : list[r].kind = "segment" => AboveIsBegun(segs, list, r)
TranscriptInvariant ==
    /\ SharedOut /\ agenda \in Seq(ItemRow)
    /\ taken < Len(cues) => written = <<>> /\ nextChapter = 1
    /\ Headed(segments, written, nextChapter)

LEMMA SegmentRowsGrow ==
    ASSUME NEW list \in Seq(PlayerRow), NEW row \in PlayerRow
    PROVE  /\ IsFiniteSet(SegmentRows(list)) /\ Cardinality(SegmentRows(list)) \in Nat
           /\ row.kind = "segment" => Cardinality(SegmentRows(Append(list, row)))
                                         = Cardinality(SegmentRows(list)) + 1
           /\ row.kind # "segment" => SegmentRows(Append(list, row)) = SegmentRows(list)
  <1> DEFINE m == Len(list)
             more == Append(list, row)
  <1>1. m \in Nat /\ DOMAIN list = 1 .. m /\ DOMAIN more = 1 .. (m + 1)
        /\ more[m + 1] = row /\ \A r \in 1 .. m : more[r] = list[r]
    <2> HIDE DEF PlayerRow
    <2> QED OBVIOUS
  <1> HIDE DEF m, more
  <1>2. SegmentRows(list) \subseteq 1 .. m BY <1>1 DEF SegmentRows
  <1>3. IsFiniteSet(1 .. m) BY <1>1, FS_Interval
  <1>4. IsFiniteSet(SegmentRows(list)) /\ Cardinality(SegmentRows(list)) \in Nat
    BY <1>2, <1>3, FS_Subset, FS_CardinalityType
  <1>5. row.kind # "segment" => SegmentRows(more) = SegmentRows(list)
    BY <1>1 DEF SegmentRows
  <1>6. row.kind = "segment" => SegmentRows(more) = SegmentRows(list) \cup {m + 1}
    BY <1>1 DEF SegmentRows
  <1>7. m + 1 \notin SegmentRows(list) BY <1>1, <1>2
  <1>8. Cardinality(SegmentRows(list) \cup {m + 1}) = Cardinality(SegmentRows(list)) + 1
    BY <1>4, <1>7, FS_AddElement
  <1> QED BY <1>4, <1>5, <1>6, <1>8 DEF more

LEMMA NothingIsHeaded ==
    ASSUME agenda \in Seq(ItemRow), NEW segs, Len(segs) \in Nat
    PROVE  Headed(segs, <<>>, 1)
  <1>1. <<>> \in Seq(PlayerRow) /\ DOMAIN <<>> = {} OBVIOUS
  <1>2. Len(Chapters) \in Nat BY ChaptersAreInOrder
  <1>3. SegmentRows(<<>>) = {} BY <1>1 DEF SegmentRows
  <1>4. Cardinality(SegmentRows(<<>>)) = 0 BY <1>3, FS_EmptySet
  <1>5. 1 .. (1 - 1) = {} /\ 1 \in 1 .. Len(Chapters) + 1 BY <1>2
  <1> DEFINE none == <<>>
  <1> HIDE DEF none
  <1>6. BegunByNext(segs, none, 1) BY <1>5 DEF BegunByNext
  <1>7. none \in Seq(PlayerRow) /\ DOMAIN none = {} /\ Cardinality(SegmentRows(none)) = 0
    BY <1>1, <1>4 DEF none
  <1>8. Headed(segs, none, 1) BY <1>5, <1>6, <1>7 DEF Headed
  <1> QED BY <1>8 DEF none

LEMMA ChaptersStay ==
    ASSUME UNCHANGED agenda
    PROVE  Chapters' = Chapters /\ \A n : StartOf(n)' = StartOf(n)
  <1>1. Played' = Played BY DEF Played
  <1>2. Chapters' = Chapters BY <1>1 DEF Chapters, Before
  <1> QED BY <1>2 DEF StartOf

LEMMA HeadedIsOfTheAgenda ==
    ASSUME UNCHANGED agenda, Headed(segments', written', nextChapter')
    PROVE  Headed(segments, written, nextChapter)'
  <1>1. Chapters' = Chapters /\ \A n : StartOf(n)' = StartOf(n) BY ChaptersStay
  <1> QED
    BY <1>1 DEF Headed, BegunByNext, AboveIsBegun, InOrder, SegmentRows, PlayerRow, Row

LEMMA ChapterIsHeaded ==
    ASSUME Headed(segments, written, nextChapter), HeadingIsNext, segments \in Seq(Segment),
           agenda \in Seq(ItemRow)
    PROVE  Headed(segments, Append(written, Row("chapter", nextChapter)), nextChapter + 1)
  <1> DEFINE row == Row("chapter", nextChapter)
             m == Len(written)
             list == Append(written, row)
             sw == Cardinality(SegmentRows(written))
             chapters == Len(Chapters)
             next == nextChapter
  <1>1. chapters \in Nat /\ written \in Seq(PlayerRow) /\ next \in 1 .. chapters + 1
    BY ChaptersAreInOrder DEF Headed
  <1>2. next \in Nat \ {0} /\ row \in PlayerRow /\ row.kind = "chapter" /\ row.at = next
    BY <1>1 DEF Row, PlayerRow
  <1>3. m \in Nat /\ DOMAIN written = 1 .. m /\ DOMAIN list = 1 .. (m + 1)
        /\ list[m + 1] = row /\ (\A r \in 1 .. m : list[r] = written[r])
        /\ list \in Seq(PlayerRow)
    <2> HIDE DEF row
    <2> QED BY <1>1, <1>2
  <1>4. sw \in Nat /\ SegmentRows(list) = SegmentRows(written)
    <2> HIDE DEF row
    <2> QED BY <1>1, <1>2, SegmentRowsGrow
  <1>5. SegmentsWritten = sw BY DEF SegmentsWritten, SegmentRows
  <1>6. next <= chapters BY <1>5 DEF HeadingIsNext, BegunBy, Left
  <1>7. /\ sw <= Len(segments)
        /\ \A n \in 1 .. (next - 1) : \E r \in DOMAIN written : written[r] = Row("chapter", n)
        /\ \A r \in DOMAIN written :
              written[r].kind = "chapter" => written[r].at \in 1 .. (next - 1)
        /\ \A q, r \in DOMAIN written :
              written[q].kind = "chapter" /\ written[q] = written[r] => q = r
        /\ \A r \in DOMAIN written : written[r].kind = "segment" => written[r].at \in 1 .. sw
    BY DEF Headed
  <1>8. InOrder(segments) =>
          /\ BegunByNext(segments, written, next)
          /\ \A r \in DOMAIN written :
                written[r].kind = "segment" => AboveIsBegun(segments, written, r)
    BY DEF Headed
  <1> HIDE DEF row, m, list, sw, chapters, next
  <1>9. \A r \in 1 .. (m + 1) : r \in 1 .. m \/ r = m + 1 BY <1>3
  <1>10. \A n \in 1 .. ((next + 1) - 1) : n \in 1 .. (next - 1) \/ n = next BY <1>2
  <1>11. \A n \in 1 .. (next - 1) : n \in 1 .. ((next + 1) - 1) BY <1>2
  <1>12. \A n \in 1 .. ((next + 1) - 1) : \E r \in DOMAIN list : list[r] = Row("chapter", n)
    <2> TAKE n \in 1 .. ((next + 1) - 1)
    <2>1. CASE n = next
      <3>1. m + 1 \in DOMAIN list /\ list[m + 1] = Row("chapter", n)
        BY <2>1, <1>3 DEF row, next
      <3> QED BY <3>1
    <2>2. CASE n \in 1 .. (next - 1)
      <3>1. PICK r \in DOMAIN written : written[r] = Row("chapter", n) BY <2>2, <1>7
      <3>2. r \in DOMAIN list /\ list[r] = written[r] BY <1>3
      <3> QED BY <3>1, <3>2
    <2> QED BY <1>10, <2>1, <2>2
  <1>13. \A r \in DOMAIN list : list[r].kind = "chapter" => list[r].at \in 1 .. ((next + 1) - 1)
    <2>1. next \in 1 .. ((next + 1) - 1) BY <1>2
    <2> QED BY <1>2, <1>3, <1>7, <1>9, <1>11, <2>1
  <1>14. \A q, r \in DOMAIN list : list[q].kind = "chapter" /\ list[q] = list[r] => q = r
    <2>1. \A r \in 1 .. m : written[r] # row
      <3>1. next \notin 1 .. (next - 1) BY <1>2
      <3> QED BY <1>2, <1>3, <1>7, <3>1
    <2> QED BY <1>2, <1>3, <1>7, <1>9, <2>1
  <1>15. \A r \in DOMAIN list : list[r].kind = "segment" => r \in 1 .. m /\ list[r] = written[r]
    BY <1>2, <1>3, <1>9
  <1>16. InOrder(segments) => BegunByNext(segments, list, next + 1)
    <2> SUFFICES ASSUME InOrder(segments), sw < Len(segments), NEW n \in 1 .. ((next + 1) - 1)
                 PROVE  StartOf(n) <= segments[sw + 1].from
      BY <1>4 DEF BegunByNext, sw
    <2>1. CASE n = next
      <3>1. BegunBy(segments[sw + 1].from, next) BY <1>5 DEF HeadingIsNext, next
      <3> QED BY <2>1, <3>1 DEF BegunBy, StartOf
    <2>2. CASE n \in 1 .. (next - 1) BY <1>8, <2>2 DEF BegunByNext, sw
    <2> QED BY <1>10, <2>1, <2>2
  <1>17. InOrder(segments) =>
            \A r \in DOMAIN list : list[r].kind = "segment" => AboveIsBegun(segments, list, r)
    <2> SUFFICES ASSUME InOrder(segments), NEW r \in DOMAIN list, list[r].kind = "segment"
                 PROVE  AboveIsBegun(segments, list, r)
      OBVIOUS
    <2>1. r \in 1 .. m /\ list[r] = written[r] BY <1>15
    <2>2. \A q \in 1 .. r : list[q] = written[q] BY <1>3, <2>1
    <2>3. AboveIsBegun(segments, written, r) BY <1>3, <1>8, <2>1
    <2> QED BY <2>1, <2>2, <2>3 DEF AboveIsBegun
  <1>18. next + 1 \in 1 .. chapters + 1 BY <1>1, <1>2, <1>6
  <1>19. Headed(segments, list, next + 1)
    BY <1>3, <1>4, <1>7, <1>12, <1>13, <1>14, <1>15, <1>16, <1>17, <1>18 DEF Headed, chapters, sw
  <1> QED BY <1>19 DEF list, row, next

LEMMA SegmentIsHeaded ==
    ASSUME Headed(segments, written, nextChapter), ~HeadingIsNext,
           SegmentsWritten < Len(segments), segments \in Seq(Segment), agenda \in Seq(ItemRow)
    PROVE  Headed(segments, Append(written, Row("segment", SegmentsWritten + 1)), nextChapter)
  <1> DEFINE sw == Cardinality(SegmentRows(written))
             row == Row("segment", sw + 1)
             m == Len(written)
             list == Append(written, row)
             chapters == Len(Chapters)
             next == nextChapter
  <1>1. chapters \in Nat /\ written \in Seq(PlayerRow) /\ next \in 1 .. chapters + 1
    BY ChaptersAreInOrder DEF Headed
  <1>2. sw \in Nat
    <2>1. Row("chapter", 1) \in PlayerRow BY DEF Row, PlayerRow
    <2> QED BY <1>1, <2>1, SegmentRowsGrow
  <1>3. row \in PlayerRow /\ row.kind = "segment" /\ row.at = sw + 1
    <2> HIDE DEF sw
    <2> QED BY <1>2 DEF Row, PlayerRow
  <1>4. m \in Nat /\ DOMAIN written = 1 .. m /\ DOMAIN list = 1 .. (m + 1)
        /\ list[m + 1] = row /\ (\A r \in 1 .. m : list[r] = written[r])
        /\ list \in Seq(PlayerRow)
    <2> HIDE DEF row
    <2> QED BY <1>1, <1>3
  <1>5. Cardinality(SegmentRows(list)) = sw + 1
    <2> HIDE DEF row
    <2> QED BY <1>1, <1>3, SegmentRowsGrow
  <1>6. SegmentsWritten = sw /\ sw < Len(segments) BY DEF SegmentsWritten, SegmentRows
  <1>7. /\ \A n \in 1 .. (next - 1) : \E r \in DOMAIN written : written[r] = Row("chapter", n)
        /\ \A r \in DOMAIN written :
              written[r].kind = "chapter" => written[r].at \in 1 .. (next - 1)
        /\ \A q, r \in DOMAIN written :
              written[q].kind = "chapter" /\ written[q] = written[r] => q = r
        /\ \A r \in DOMAIN written : written[r].kind = "segment" => written[r].at \in 1 .. sw
    BY DEF Headed
  <1>8. InOrder(segments) =>
          /\ BegunByNext(segments, written, next)
          /\ \A r \in DOMAIN written :
                written[r].kind = "segment" => AboveIsBegun(segments, written, r)
    BY DEF Headed
  <1>9. ~BegunBy(segments[sw + 1].from, next) BY <1>6 DEF HeadingIsNext
  <1>10. \A k \in 1 .. Len(segments) : segments[k].from \in Nat
    <2>1. \A k \in 1 .. Len(segments) : segments[k] \in Segment OBVIOUS
    <2> QED BY <2>1 DEF Segment
  <1>11. Len(segments) \in Nat OBVIOUS
  <1>12. \A n \in 1 .. chapters : StartOf(n) \in Nat BY ChaptersAreInOrder DEF StartOf
  <1>13. \A k, l \in 1 .. chapters : k < l => StartOf(k) <= StartOf(l)
    BY ChaptersAreInOrder DEF StartOf
  <1> HIDE DEF row, m, list, sw, chapters, next
  <1>14. \A r \in 1 .. (m + 1) : r \in 1 .. m \/ r = m + 1 BY <1>4
  <1>15. \A n \in 1 .. (next - 1) : \E r \in DOMAIN list : list[r] = Row("chapter", n)
    <2> TAKE n \in 1 .. (next - 1)
    <2>1. PICK r \in DOMAIN written : written[r] = Row("chapter", n) BY <1>7
    <2>2. r \in DOMAIN list /\ list[r] = written[r] BY <1>4
    <2> QED BY <2>1, <2>2
  <1>16. \A r \in DOMAIN list : list[r].kind = "chapter" => r \in 1 .. m /\ list[r] = written[r]
    BY <1>3, <1>4, <1>14
  <1>17. \A r \in DOMAIN list : list[r].kind = "chapter" => list[r].at \in 1 .. (next - 1)
    BY <1>4, <1>7, <1>16
  <1>18. \A q, r \in DOMAIN list : list[q].kind = "chapter" /\ list[q] = list[r] => q = r
    <2> SUFFICES ASSUME NEW q \in DOMAIN list, NEW r \in DOMAIN list,
                        list[q].kind = "chapter", list[q] = list[r]
                 PROVE  q = r
      OBVIOUS
    <2>1. q \in 1 .. m /\ r \in 1 .. m /\ list[q] = written[q] /\ list[r] = written[r]
      BY <1>16
    <2> QED BY <1>4, <1>7, <2>1
  <1>19. \A r \in DOMAIN list : list[r].kind = "segment" => list[r].at \in 1 .. (sw + 1)
    <2>1. sw + 1 \in 1 .. (sw + 1) /\ \A k \in 1 .. sw : k \in 1 .. (sw + 1) BY <1>2
    <2> QED BY <1>3, <1>4, <1>7, <1>14, <2>1
  <1>20. sw + 1 \in 1 .. Len(segments) BY <1>2, <1>6, <1>11
  <1>21. segments[sw + 1].from \in Nat BY <1>10, <1>20
  <1>22. InOrder(segments) => \A n \in 1 .. (next - 1) : StartOf(n) <= segments[sw + 1].from
    BY <1>6, <1>8 DEF BegunByNext, sw
  <1>23. \A n \in 1 .. (next - 1) : n \in 1 .. chapters BY <1>1
  <1>24. InOrder(segments) => BegunByNext(segments, list, next)
    <2> SUFFICES ASSUME InOrder(segments), sw + 1 < Len(segments), NEW n \in 1 .. (next - 1)
                 PROVE  StartOf(n) <= segments[(sw + 1) + 1].from
      BY <1>5 DEF BegunByNext
    <2>1. (sw + 1) + 1 \in 2 .. Len(segments) /\ (sw + 1) + 1 \in 1 .. Len(segments)
          /\ ((sw + 1) + 1) - 1 = sw + 1
      BY <1>2, <1>11
    <2>2. segments[sw + 1].from <= segments[(sw + 1) + 1].from BY <2>1 DEF InOrder
    <2>3. segments[(sw + 1) + 1].from \in Nat /\ StartOf(n) \in Nat
      BY <1>10, <1>12, <1>23, <2>1
    <2> QED BY <1>21, <1>22, <2>2, <2>3
  <1>25. InOrder(segments) => AboveIsBegun(segments, list, m + 1)
    <2> SUFFICES ASSUME InOrder(segments), NEW n \in 1 .. chapters
                 PROVE  (\E q \in 1 .. (m + 1) : list[q] = Row("chapter", n))
                           <=> StartOf(n) <= segments[sw + 1].from
      BY <1>3, <1>4 DEF AboveIsBegun, chapters
    <2>1. CASE n \in 1 .. (next - 1)
      <3>1. \E q \in 1 .. (m + 1) : list[q] = Row("chapter", n) BY <1>4, <1>15, <2>1
      <3> QED BY <1>22, <2>1, <3>1
    <2>2. CASE n \notin 1 .. (next - 1)
      <3>1. ~ \E q \in 1 .. (m + 1) : list[q] = Row("chapter", n)
        <4>1. Row("chapter", n).kind = "chapter" /\ Row("chapter", n).at = n BY DEF Row
        <4> QED BY <1>4, <1>17, <2>2, <4>1
      <3>2. next \in 1 .. chapters /\ next <= n /\ n \in Nat BY <1>1, <2>2
      <3>3. ~(StartOf(next) <= segments[sw + 1].from)
        BY <1>9, <3>2 DEF BegunBy, StartOf, chapters
      <3>4. StartOf(next) <= StartOf(n) BY <1>12, <1>13, <3>2
      <3>5. StartOf(next) \in Nat /\ StartOf(n) \in Nat BY <1>12, <3>2
      <3> QED BY <1>21, <3>1, <3>3, <3>4, <3>5
    <2> QED BY <2>1, <2>2
  <1>26. InOrder(segments) =>
            \A r \in DOMAIN list : list[r].kind = "segment" => AboveIsBegun(segments, list, r)
    <2> SUFFICES ASSUME InOrder(segments), NEW r \in DOMAIN list, list[r].kind = "segment"
                 PROVE  AboveIsBegun(segments, list, r)
      OBVIOUS
    <2>1. CASE r = m + 1 BY <1>25, <2>1
    <2>2. CASE r \in 1 .. m
      <3>1. \A q \in 1 .. r : list[q] = written[q] BY <1>4, <2>2
      <3>2. list[r] = written[r] BY <1>4, <2>2
      <3>3. AboveIsBegun(segments, written, r) BY <1>4, <1>8, <2>2, <3>2
      <3> QED BY <3>1, <3>2, <3>3 DEF AboveIsBegun
    <2> QED BY <1>4, <1>14, <2>1, <2>2
  <1>27. sw + 1 <= Len(segments) BY <1>20
  <1>28. Headed(segments, list, next)
    BY <1>1, <1>4, <1>5, <1>15, <1>17, <1>18, <1>19, <1>24, <1>26, <1>27 DEF Headed, chapters
  <1> QED BY <1>6, <1>28 DEF list, row, next

LEMMA TranscriptBegins == TranscriptInit => TranscriptInvariant
  <1> SUFFICES ASSUME TranscriptInit PROVE TranscriptInvariant OBVIOUS
  <1>1. written = <<>> /\ nextChapter = 1 /\ agenda \in Agendas /\ segments = <<>>
    BY DEF TranscriptInit
  <1>2. agenda \in Seq(ItemRow) BY <1>1, TranscriptAssumption DEF ItemRow
  <1>3. SharedOut BY SharedOutAtFirst
  <1>4. Len(segments) \in Nat BY <1>3 DEF SharedOut, Sharing
  <1>5. Headed(segments, <<>>, 1) BY <1>2, <1>4, NothingIsHeaded
  <1> QED BY <1>1, <1>2, <1>3, <1>5 DEF TranscriptInvariant

LEMMA TranscriptContinues ==
    TranscriptInvariant /\ [TranscriptNext]_transcriptVars => TranscriptInvariant'
  <1> SUFFICES ASSUME TranscriptInvariant, [TranscriptNext]_transcriptVars
               PROVE  TranscriptInvariant'
    OBVIOUS
  <1>1. SharedOut' BY SharedOutStays DEF TranscriptInvariant
  <1>2. UNCHANGED agenda /\ UNCHANGED cues
    BY DEF TranscriptNext, TakeCue, WriteHeading, WriteSegment, publishedVars, transcriptVars
  <1>3. (agenda \in Seq(ItemRow))' BY <1>2 DEF TranscriptInvariant, ItemRow
  <1>4. agenda \in Seq(ItemRow) /\ segments \in Seq(Segment) /\ SharedOut
        /\ Headed(segments, written, nextChapter)
    BY DEF TranscriptInvariant, SharedOut, Sharing
  <1>5. (taken' < Len(cues') => written' = <<>> /\ nextChapter' = 1)
        /\ Headed(segments', written', nextChapter')
    <2>1. CASE TakeCue
      <3>1. written = <<>> /\ nextChapter = 1 /\ UNCHANGED <<written, nextChapter>>
        BY <2>1 DEF TakeCue, TranscriptInvariant
      <3>2. Len(segments') \in Nat BY <1>1 DEF SharedOut, Sharing
      <3>3. Headed(segments', <<>>, 1) BY <1>4, <3>2, NothingIsHeaded
      <3> QED BY <3>1, <3>3
    <2>2. CASE WriteHeading
      <3>1. /\ taken = Len(cues) /\ HeadingIsNext /\ UNCHANGED <<taken, segments>>
            /\ written' = Append(written, Row("chapter", nextChapter))
            /\ nextChapter' = nextChapter + 1
        BY <2>2 DEF WriteHeading
      <3>2. Headed(segments, Append(written, Row("chapter", nextChapter)), nextChapter + 1)
        BY <1>4, <3>1, ChapterIsHeaded
      <3>3. ~(taken' < Len(cues')) BY <1>2, <1>4, <3>1 DEF SharedOut, Sharing
      <3> QED BY <3>1, <3>2, <3>3
    <2>3. CASE WriteSegment
      <3>1. /\ taken = Len(cues) /\ ~HeadingIsNext /\ SegmentsWritten < Len(segments)
            /\ UNCHANGED <<taken, segments, nextChapter>>
            /\ written' = Append(written, Row("segment", SegmentsWritten + 1))
        BY <2>3 DEF WriteSegment
      <3>2. Headed(segments, Append(written, Row("segment", SegmentsWritten + 1)), nextChapter)
        BY <1>4, <3>1, SegmentIsHeaded
      <3>3. ~(taken' < Len(cues')) BY <1>2, <1>4, <3>1 DEF SharedOut, Sharing
      <3> QED BY <3>1, <3>2, <3>3
    <2>4. CASE UNCHANGED transcriptVars
      BY <1>4, <2>4 DEF transcriptVars, TranscriptInvariant
    <2> QED BY <2>1, <2>2, <2>3, <2>4 DEF TranscriptNext
  <1>6. Headed(segments, written, nextChapter)' BY <1>2, <1>5, HeadedIsOfTheAgenda
  <1> QED BY <1>1, <1>3, <1>5, <1>6 DEF TranscriptInvariant

(* Every recording's words stay with who spoke them, and its chapters are   *)
(* over what was said of them (transcript.ts buildSegments(), recordings.ts *)
(* notubizChapters(), MeetingRecordingPlayer withChapterHeadings()).       *)
THEOREM TranscriptIsSound == TranscriptSpec => []TranscriptInvariant
  <1>1. TranscriptInit => TranscriptInvariant BY TranscriptBegins
  <1>2. TranscriptInvariant /\ [TranscriptNext]_transcriptVars => TranscriptInvariant'
    BY TranscriptContinues
  <1> QED BY <1>1, <1>2, PTL DEF TranscriptSpec

LEMMA ChaptersHaveOneHeading ==
    ASSUME TranscriptInvariant, AllWritten
    PROVE  \A n \in DOMAIN Chapters :
              Cardinality({ r \in DOMAIN written : written[r] = Row("chapter", n) }) = 1
  <1>1. Len(Chapters) \in Nat /\ DOMAIN Chapters = 1 .. Len(Chapters)
    <2>1. Cardinality(Played) \in Nat /\ Chapters \in [1 .. Cardinality(Played) -> Played]
          /\ Len(Chapters) = Cardinality(Played)
      BY ChaptersAreInOrder DEF TranscriptInvariant
    <2> QED BY <2>1
  <1>2. nextChapter \in 1 .. Len(Chapters) + 1 /\ ~(nextChapter <= Len(Chapters))
    BY DEF TranscriptInvariant, Headed, AllWritten, HeadingIsNext, Left
  <1>3. \A n \in 1 .. Len(Chapters) : n \in 1 .. (nextChapter - 1) BY <1>1, <1>2
  <1> SUFFICES ASSUME NEW n \in DOMAIN Chapters
               PROVE  Cardinality({ r \in DOMAIN written : written[r] = Row("chapter", n) }) = 1
    OBVIOUS
  <1>4. PICK r \in DOMAIN written : written[r] = Row("chapter", n)
    BY <1>1, <1>3 DEF TranscriptInvariant, Headed
  <1>5. \A q \in DOMAIN written : written[q] = Row("chapter", n) => q = r
    <2>1. Row("chapter", n).kind = "chapter" BY DEF Row
    <2> QED BY <1>4, <2>1 DEF TranscriptInvariant, Headed
  <1>6. { q \in DOMAIN written : written[q] = Row("chapter", n) } = {r} BY <1>4, <1>5
  <1> QED BY <1>6, FS_Singleton

LEMMA RowsAreUnderTheirChapters ==
    ASSUME TranscriptInvariant, NEW r \in DOMAIN written, written[r].kind = "segment",
           InOrder(segments)
    PROVE  { n \in DOMAIN Chapters : \E q \in 1 .. r : written[q] = Row("chapter", n) }
             = { n \in DOMAIN Chapters :
                   agenda[Chapters[n]].start <= segments[written[r].at].from }
  <1>1. DOMAIN Chapters = 1 .. Len(Chapters)
    <2>1. Cardinality(Played) \in Nat /\ Chapters \in [1 .. Cardinality(Played) -> Played]
          /\ Len(Chapters) = Cardinality(Played)
      BY ChaptersAreInOrder DEF TranscriptInvariant
    <2> QED BY <2>1
  <1>2. AboveIsBegun(segments, written, r) BY DEF TranscriptInvariant, Headed
  <1> QED BY <1>1, <1>2 DEF AboveIsBegun, StartOf

LEMMA TranscriptFollows ==
    TranscriptInvariant => WordsStayWithTheirSpeaker /\ TranscriptTypeOK
  <1> SUFFICES ASSUME TranscriptInvariant
               PROVE  WordsStayWithTheirSpeaker /\ TranscriptTypeOK
    OBVIOUS
  <1>1. WordsStayWithTheirSpeaker
    <2>1. SharedOut BY DEF TranscriptInvariant
    <2>2. ASSUME AllWritten, NEW r \in DOMAIN written, written[r].kind = "segment",
                 \A k \in 2 .. Len(segments) : segments[k - 1].from <= segments[k].from
          PROVE  { n \in DOMAIN Chapters : \E q \in 1 .. r : written[q] = Row("chapter", n) }
                   = { n \in DOMAIN Chapters :
                         agenda[Chapters[n]].start <= segments[written[r].at].from }
      <3>1. InOrder(segments) BY <2>2 DEF InOrder
      <3> QED BY <2>2, <3>1, RowsAreUnderTheirChapters
    <2>3. AllWritten =>
            \A n \in DOMAIN Chapters :
              Cardinality({ r \in DOMAIN written : written[r] = Row("chapter", n) }) = 1
      BY ChaptersHaveOneHeading
    <2> QED BY <2>1, <2>2, <2>3, WordsAreShared DEF WordsStayWithTheirSpeaker
  <1>2. TranscriptTypeOK
    <2>1. taken \in 0 .. Len(cues) /\ Len(segments) <= taken /\ segments \in Seq(Segment)
      BY DEF TranscriptInvariant, SharedOut, Sharing
    <2>2. \A k \in DOMAIN segments : segments[k].from \in Nat /\ segments[k].cues \in Seq(1 .. taken)
      <3> TAKE k \in DOMAIN segments
      <3> DEFINE said == segments[k].cues
      <3>1. segments[k] \in Segment /\ k \in 1 .. Len(segments) BY <2>1
      <3>2. segments[k].from \in Nat /\ said \in Seq(Nat) BY <3>1 DEF Segment
      <3>3. AStretch(segments, taken, k)
        BY <3>1 DEF TranscriptInvariant, SharedOut, Sharing
      <3>4. \A n \in 1 .. Len(said) : said[n] \in 1 .. taken
        BY <3>3 DEF AStretch, SpokenTogether, CuesOf
      <3> HIDE DEF said
      <3>5. said \in [1 .. Len(said) -> 1 .. taken] /\ Len(said) \in Nat BY <3>2, <3>4
      <3>6. said \in Seq(1 .. taken)
        <4> DEFINE N == Len(said)
                   I == 1 .. taken
        <4>1. said \in [1 .. N -> I] /\ N \in Nat BY <3>5
        <4> HIDE DEF N, I
        <4>2. said \in Seq(I) BY <4>1, FunctionsAreLists
        <4> QED BY <4>2 DEF I
      <3> QED BY <3>2, <3>6 DEF said
    <2>3. nextChapter \in 1 .. Len(agenda) + 1
      <3>1. Len(Chapters) \in 0 .. Len(agenda)
        BY ChaptersAreInOrder DEF TranscriptInvariant
      <3>2. Len(agenda) \in Nat /\ nextChapter \in 1 .. Len(Chapters) + 1
        BY DEF TranscriptInvariant, Headed
      <3> QED BY <3>1, <3>2
    <2>4. written \in Seq([kind: {"chapter", "segment"}, at: Nat])
      BY DEF TranscriptInvariant, Headed, PlayerRow
    <2> QED BY <2>1, <2>2, <2>3, <2>4 DEF TranscriptTypeOK
  <1> QED BY <1>1, <1>2
=============================================================================
