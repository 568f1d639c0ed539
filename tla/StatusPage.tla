----------------------------- MODULE StatusPage -----------------------------
(***************************************************************************)
(* What /api/status says of the imports of one supplier: getStatus() and   *)
(* its cache (web/status_api.ts), getIngestStatus() (src/ops/store.ts).    *)
(* The runs are rows other processes insert and settle while the page is   *)
(* being made: it reads them in three statements, and awaits the search    *)
(* index and the coverage checks, which it can do without, before it puts  *)
(* its answer together. A run that is settled stays so.                    *)
(*                                                                         *)
(* A run is open from the time it is queued: whether it is queued or       *)
(* running makes no difference here, nor whether all of it succeeded.      *)
(***************************************************************************)
EXTENDS Integers, Sequences, FiniteSets

CONSTANTS StatusSources,   (* of the supplier, all imported                *)
          Merged,          (* sources of municipalities that are no more   *)
          StatusWindow,    (* windowHours                                  *)
          StatusTTL,       (* CACHE_TTL_MS                                 *)
          MeaningfulRuns,  (* MIN_MEANINGFUL_RUNS                          *)
          MaxRunRows, LastHour   (* bounds                                 *)

ASSUME StatusAssumption ==
    /\ Merged \subseteq StatusSources /\ StatusWindow \in Nat /\ StatusTTL \in Nat
    /\ MeaningfulRuns \in Nat \ {0} /\ MaxRunRows \in Nat /\ LastHour \in Nat

VARIABLES
    hour,       (* the time                                                *)
    runRows,    (* ingest_run                                              *)
    cached,     (* the answer kept, and when it was made                   *)
    inFlight,   (* the answer being made: the next step, when it began,    *)
                (* what its statements found                               *)
    waiting,    (* the reader waits for it                                 *)
    answer      (* what the reader got last: when that was made, when the  *)
                (* reader got it, and whether another could not be made    *)

statusVars == <<hour, runRows, cached, inFlight, waiting, answer>>

Hours == 0 .. LastHour
RunRows == [source: StatusSources, mode: {"full", "other"},
            status: {"open", "succeeded", "failed"}, queued: Hours, finished: Hours \cup {-1}]
NotRead == [step |-> "none", began |-> -1,
            latest |-> [s \in StatusSources |-> "none"],
            success |-> [s \in StatusSources |-> -1], attempts |-> 0, good |-> 0, bad |-> 0]
NoAnswer == [made |-> -1, began |-> -1, source |-> [s \in StatusSources |-> "none"],
             supplier |-> "none"]

StatusTypeOK ==
    /\ hour \in Hours /\ Len(runRows) <= MaxRunRows
    /\ \A i \in DOMAIN runRows : runRows[i] \in RunRows
    /\ inFlight.step \in {"none", "latest", "success", "window", "build"}
    /\ inFlight.attempts \in 0 .. MaxRunRows
    /\ inFlight.good + inFlight.bad <= inFlight.attempts
    /\ cached.supplier \in {"none", "ok", "idle", "down", "degraded"}
    /\ \A s \in StatusSources : cached.source[s] \in
          {"none", "discontinued", "never_imported", "ok", "failing", "stale"}
    /\ waiting \in BOOLEAN /\ (inFlight.step = "none" => ~waiting)

StatusInit ==
    /\ hour = 0 /\ runRows = <<>> /\ cached = NoAnswer /\ inFlight = NotRead
    /\ waiting = FALSE /\ answer = [made |-> -1, at |-> -1, old |-> FALSE]
-----------------------------------------------------------------------------
HourPasses ==
    /\ hour < LastHour /\ hour' = hour + 1
    /\ UNCHANGED <<runRows, cached, inFlight, waiting, answer>>

QueueRun(s, mode) ==
    /\ Len(runRows) < MaxRunRows
    /\ runRows' = Append(runRows, [source |-> s, mode |-> mode, status |-> "open",
                                   queued |-> hour, finished |-> -1])
    /\ UNCHANGED <<hour, cached, inFlight, waiting, answer>>

SettleRun(i, status) ==
    /\ i \in DOMAIN runRows /\ runRows[i].status = "open"
    /\ runRows' = [runRows EXCEPT ![i].status = status, ![i].finished = hour]
    /\ UNCHANGED <<hour, cached, inFlight, waiting, answer>>

Fresh == cached.made >= 0 /\ hour < cached.made + StatusTTL
Begun == [NotRead EXCEPT !.step = "latest", !.began = hour]

(* getStatus(): from the cache, or with the answer already being made.     *)
Ask ==
    /\ ~waiting
    /\ IF Fresh
       THEN /\ answer' = [made |-> cached.made, at |-> hour, old |-> FALSE]
            /\ UNCHANGED <<inFlight, waiting>>
       ELSE /\ inFlight' = IF inFlight.step = "none" THEN Begun ELSE inFlight
            /\ waiting' = TRUE /\ UNCHANGED answer
    /\ UNCHANGED <<hour, runRows, cached>>

OthersAsk ==
    /\ ~Fresh /\ inFlight.step = "none"
    /\ inFlight' = Begun
    /\ UNCHANGED <<hour, runRows, cached, waiting, answer>>

(* Only a run that asks the supplier counts. Mutant: every run does.       *)
PollsAny(r) == r.mode \in {"full", "other"}
Polls(r) == r.mode = "full"
Polling(s) == { i \in DOMAIN runRows : Polls(runRows[i]) /\ runRows[i].source = s }
LatestOf(hours) == IF hours = {} THEN -1 ELSE CHOOSE h \in hours : \A g \in hours : g <= h

(* ORDER BY started_at DESC, rowid DESC: rows are inserted in that order.  *)
ReadLatest ==
    /\ inFlight.step = "latest"
    /\ inFlight' = [inFlight EXCEPT !.step = "success", !.latest =
         [s \in StatusSources |->
            LET newest == LatestOf(Polling(s)) IN IF newest = -1 THEN "none" ELSE runRows[newest].status]]
    /\ UNCHANGED <<hour, runRows, cached, waiting, answer>>

ReadSuccess ==
    /\ inFlight.step = "success"
    /\ inFlight' = [inFlight EXCEPT !.step = "window", !.success =
         [s \in StatusSources |->
            LatestOf({ runRows[i].finished : i \in { j \in Polling(s) : runRows[j].status = "succeeded" } })]]
    /\ UNCHANGED <<hour, runRows, cached, waiting, answer>>

(* started_at is the time a run was queued.                                *)
ReadWindow ==
    /\ inFlight.step = "window"
    /\ LET recent(statuses) ==
             Cardinality({ i \in DOMAIN runRows :
                 /\ Polls(runRows[i]) /\ runRows[i].status \in statuses
                 /\ runRows[i].queued > inFlight.began - StatusWindow })
       IN  inFlight' = [inFlight EXCEPT !.step = "build",
             !.attempts = recent({"open", "failed", "succeeded"}),
             !.good = recent({"succeeded"}), !.bad = recent({"failed"})]
    /\ UNCHANGED <<hour, runRows, cached, waiting, answer>>

(* sourceState(), supplierState().                                         *)
SourceState(s) ==
    IF s \in Merged THEN "discontinued"
    ELSE IF inFlight.latest[s] = "none" THEN "never_imported"
    ELSE IF inFlight.success[s] >= 0 /\ hour - inFlight.success[s] <= StatusWindow THEN "ok"
    ELSE IF inFlight.latest[s] = "failed" THEN "failing"
    ELSE "stale"

SupplierState ==
    IF inFlight.attempts = 0 \/ StatusSources = Merged THEN "idle"
    ELSE IF inFlight.attempts >= MeaningfulRuns /\ inFlight.good = 0 THEN "down"
    ELSE IF inFlight.bad > inFlight.good THEN "degraded"
    ELSE "ok"

Given(value, old) ==
    answer' = IF waiting THEN [made |-> value.made, at |-> hour, old |-> old] ELSE answer

Build ==
    /\ inFlight.step = "build"
    /\ cached' = [made |-> hour, began |-> inFlight.began,
                  source |-> [s \in StatusSources |-> SourceState(s)], supplier |-> SupplierState]
    /\ Given(cached', FALSE)
    /\ inFlight' = NotRead /\ waiting' = FALSE
    /\ UNCHANGED <<hour, runRows>>

(* The ops database does not answer: the answer kept is given, or none.    *)
ComputeFails ==
    /\ inFlight.step \in {"latest", "success", "window"}
    /\ IF cached.made >= 0 THEN Given(cached, TRUE) ELSE UNCHANGED answer
    /\ inFlight' = NotRead /\ waiting' = FALSE
    /\ UNCHANGED <<hour, runRows, cached>>

StatusNext ==
    \/ HourPasses \/ Ask \/ OthersAsk \/ ReadLatest \/ ReadSuccess \/ ReadWindow
    \/ Build \/ ComputeFails
    \/ \E s \in StatusSources, mode \in {"full", "other"} : QueueRun(s, mode)
    \/ \E i \in 1 .. MaxRunRows, status \in {"succeeded", "failed"} : SettleRun(i, status)

StatusSpec == StatusInit /\ [][StatusNext]_statusVars
-----------------------------------------------------------------------------
(* The supplier delivered to a source between two times.                   *)
Delivered(s, from, to) ==
    \E i \in DOMAIN runRows :
        /\ runRows[i].source = s /\ runRows[i].mode = "full" /\ runRows[i].status = "succeeded"
        /\ runRows[i].finished \in from .. to

(* An answer is no older than the cache allows, or it is the one kept when *)
(* making another failed. A source it calls ok was imported from the       *)
(* supplier within the window, one it calls stale or failing was not, up   *)
(* to the time the answer was begun; a supplier it calls down had only     *)
(* runs without success among those queued in the window; no other kind of *)
(* run is taken for one that asks the supplier. So it stays whatever runs  *)
(* are queued and settled between the statements.                          *)
StatusIsTrue ==
    /\ ~answer.old => answer.at - answer.made <= StatusTTL
    /\ LET a == cached IN a.made >= 0 =>
        /\ \A s \in StatusSources :
             /\ a.source[s] = "ok" => Delivered(s, a.made - StatusWindow, a.made)
             /\ a.source[s] \in {"stale", "failing"} =>
                   ~Delivered(s, a.made - StatusWindow, a.began - 1)
             /\ a.source[s] = "never_imported" => ~Delivered(s, 0, a.began - 1)
        /\ a.supplier = "down" =>
             /\ Cardinality({ i \in DOMAIN runRows :
                   runRows[i].mode = "full" /\ runRows[i].queued \in
                     a.began - StatusWindow + 1 .. a.made }) >= MeaningfulRuns
             /\ \A i \in DOMAIN runRows :
                   runRows[i].mode = "full" /\ runRows[i].status = "succeeded"
                     /\ runRows[i].finished \in 0 .. a.began - 1
                   => runRows[i].queued <= a.began - StatusWindow
=============================================================================
