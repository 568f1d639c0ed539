----------------------------- MODULE OpsRequests -----------------------------
(***************************************************************************)
(* What an ops request does: it is let in by its token (web/ops_api.ts),   *)
(* checked against the catalog of the web container and against the name   *)
(* its author confirms (src/ops/jobs.ts), kept as a row, and checked again *)
(* and carried out by a worker, or by the host agent                       *)
(* (scripts/ops_host_agent.py), each with the catalog and the lists it was *)
(* started with. Deployments replace the containers one after the other.   *)
(*                                                                         *)
(* One row at a time: how rows compete is in OpsJobs. A name is a string.  *)
(***************************************************************************)
EXTENDS Integers, Sequences, FiniteSets

CONSTANTS Catalogs,       (* one after the other: of each source whether   *)
                          (* it is "runnable", "projectable" or "absent"   *)
          SourceOf,       (* of each document                              *)
          MaxDeletes,     (* MAX_DELETE_DOCUMENTS                          *)
          CountNames,     (* "2 documents": the name of so many documents  *)
          Restartable, Loggable,   (* services                             *)
          TokenBudget     (* OPS_RATE_LIMIT_PER_MINUTE                     *)

ASSUME OpsRequestsAssumption ==
    /\ Catalogs \in Seq([DOMAIN Catalogs[1] -> {"runnable", "projectable", "absent"}])
    /\ Catalogs # <<>> /\ Restartable \subseteq Loggable
    /\ MaxDeletes \in Nat /\ TokenBudget \in Nat
    /\ Cardinality(DOMAIN SourceOf) \in DOMAIN CountNames

VARIABLES
    tokens,        (* what is left of the token's own budget               *)
    guesses,       (* what is left of the one for wrong tokens             *)
    webAt, workerAt,   (* the catalog each container runs with             *)
    openRuns,      (* the sources with a run of the window asked for       *)
    job,           (* the row, and the catalog a worker refused it with    *)
    served         (* history: requests with the token in this minute      *)

opsRequestsVars == <<tokens, guesses, webAt, workerAt, openRuns, job, served>>
budgetVars == <<tokens, guesses, served>>
catalogVars == <<webAt, workerAt>>

CatalogSources == DOMAIN Catalogs[1]
AllSources == "all"
NotNamed == "none"
RequestBodies ==
    [action: {"rerun_source"}, source: CatalogSources,
     mode: {NotNamed, "full", "reindex_only"},
     dates: {NotNamed, "in_order", "reversed"}]
    \cup [action: {"reenqueue_failed_windows"}, source: CatalogSources \cup {NotNamed},
          statuses: {NotNamed, "empty", "both", "unknown"}]
    \cup [action: {"purge_source"}, source: CatalogSources]
    \cup [action: {"delete_document"}, documents: SUBSET DOMAIN SourceOf]
    \cup [action: {"restart_service", "service_logs"}, service: Loggable]
Names ==
    CatalogSources \cup DOMAIN SourceOf \cup Loggable \cup {AllSources, NotNamed}
    \cup { CountNames[n] : n \in DOMAIN CountNames }
HostAction(body) == body.action \in {"restart_service", "service_logs"}
NoRow == [status |-> "none", body |-> [action |-> "none"], apply |-> FALSE,
          named |-> NotNamed, accepted |-> 0, done |-> {}, error |-> NotNamed,
          refusedBy |-> 0]

OpsRequestsTypeOK ==
    /\ tokens \in 0 .. TokenBudget /\ guesses \in 0 .. TokenBudget
    /\ webAt \in DOMAIN Catalogs /\ workerAt \in DOMAIN Catalogs
    /\ openRuns \subseteq CatalogSources
    /\ job.status \in {"none", "queued", "running", "succeeded", "failed"}
    /\ job.body \in RequestBodies \cup {[action |-> "none"]}
    /\ job.error \in {NotNamed, "refused", "active", "in_part", "host"}
    /\ job.done \subseteq Names \X {"run", "windows", "purge", "takedown", "restart"}

OpsRequestsInit ==
    /\ tokens = TokenBudget /\ guesses = TokenBudget /\ served = 0
    /\ webAt = 1 /\ workerAt = 1 /\ openRuns = {} /\ job = NoRow
-----------------------------------------------------------------------------
(* resolveSourceKey(): a source that is switched off can still be purged.  *)
Resolves(source, requireRunnable, catalog) ==
    IF requireRunnable THEN catalog[source] = "runnable" ELSE catalog[source] # "absent"

(* A reindex covers the whole source.                                      *)
ValidRerun(body, catalog) ==
    /\ Resolves(body.source, TRUE, catalog)
    /\ body.dates = IF body.mode = "reindex_only" THEN NotNamed ELSE "in_order"

ValidReenqueue(body, catalog) ==
    /\ body.source # NotNamed => Resolves(body.source, FALSE, catalog)
    /\ body.statuses \in {NotNamed, "both"}

ValidDeletes(body, catalog) ==
    /\ Cardinality(body.documents) \in 1 .. MaxDeletes
    /\ \A d \in body.documents : Resolves(SourceOf[d], FALSE, catalog)

(* validateParams()                                                        *)
Valid(body, catalog) ==
    CASE body.action = "rerun_source" -> ValidRerun(body, catalog)
      [] body.action = "reenqueue_failed_windows" -> ValidReenqueue(body, catalog)
      [] body.action = "purge_source" -> Resolves(body.source, FALSE, catalog)
      [] body.action = "delete_document" -> ValidDeletes(body, catalog)
      [] body.action = "restart_service" -> body.service \in Restartable
      [] OTHER -> TRUE

(* The parameters as they are kept: what was left out is filled in.        *)
Kept(body) ==
    CASE body.action = "rerun_source" /\ body.mode = NotNamed ->
            [body EXCEPT !.mode = "full"]
      [] body.action = "reenqueue_failed_windows" -> [body EXCEPT !.statuses = "both"]
      [] OTHER -> body

(* confirmTargetFor(): several documents are confirmed by their number.    *)
Target(body) ==
    CASE HostAction(body) -> body.service
      [] body.action = "delete_document" ->
            IF Cardinality(body.documents) = 1 THEN CHOOSE d \in body.documents : TRUE
            ELSE CountNames[Cardinality(body.documents)]
      [] OTHER -> IF body.source = NotNamed THEN AllSources ELSE body.source

(* validateOpsRequest(). Mutant: any name will do.                         *)
AnyName(body, apply, name) == apply => name # NotNamed
RightName(body, apply, name) == apply => name = Target(body)
Accepts(body, apply, name, catalog) ==
    /\ Valid(body, catalog)
    /\ body.action = "service_logs" => ~apply
    /\ RightName(body, apply, name)
-----------------------------------------------------------------------------
(* A wrong token is charged to the address it came from. Mutant: to the    *)
(* budget of the token.                                                    *)
ChargeToken == /\ tokens > 0 /\ tokens' = tokens - 1 /\ UNCHANGED guesses
ChargeGuess == /\ guesses > 0 /\ guesses' = guesses - 1 /\ UNCHANGED tokens

GuessToken ==
    /\ ChargeGuess
    /\ UNCHANGED <<catalogVars, openRuns, job, served>>

NextMinute ==
    /\ tokens' = TokenBudget /\ guesses' = TokenBudget /\ served' = 0
    /\ UNCHANGED <<catalogVars, openRuns, job>>

(* A request that is refused, and one that only reads, costs one as well.  *)
Refuse ==
    /\ tokens > 0 /\ tokens' = tokens - 1 /\ served' = served + 1
    /\ UNCHANGED <<guesses, catalogVars, openRuns, job>>

PostRequest ==
    /\ tokens > 0 /\ tokens' = tokens - 1 /\ served' = served + 1
    /\ job.status \notin {"queued", "running"}
    /\ \E body \in RequestBodies, apply \in BOOLEAN :
       \E name \in IF apply THEN Names ELSE {NotNamed} :
          /\ Accepts(body, apply, name, Catalogs[webAt])
          /\ job' = [NoRow EXCEPT !.status = "queued", !.body = Kept(body),
                                  !.apply = apply, !.named = name, !.accepted = webAt]
    /\ UNCHANGED <<guesses, catalogVars, openRuns>>
-----------------------------------------------------------------------------
(* A deployment: the web container, then the worker, which gives back what *)
(* it was doing.                                                           *)
DeployWeb ==
    /\ webAt = workerAt /\ webAt < Len(Catalogs) /\ webAt' = webAt + 1
    /\ UNCHANGED <<budgetVars, workerAt, openRuns, job>>

RestartWorker ==
    /\ workerAt' = webAt
    /\ job' = IF job.status = "running" /\ ~HostAction(job.body)
              THEN [job EXCEPT !.status = "queued"] ELSE job
    /\ job' # job \/ workerAt' # workerAt
    /\ UNCHANGED <<budgetVars, webAt, openRuns>>

(* Runs are queued and end for other reasons too.                          *)
OtherRun(source) ==
    /\ openRuns' \in {openRuns \cup {source}, openRuns \ {source}} \ {openRuns}
    /\ UNCHANGED <<budgetVars, catalogVars, job>>

Settle(status, error) == [job EXCEPT !.status = status, !.error = error]

(* executeOpsJob(): the row is checked as a request is, with the name it   *)
(* is about. Mutant: with the source.                                      *)
NamedBySource(body) ==
    IF body.action = "delete_document" THEN NotNamed ELSE Target(body)
NameOfRow(body) == Target(body)

Claim ==
    /\ job.status = "queued"
    /\ job' = IF \/ HostAction(job.body)
                 \/ Accepts(job.body, job.apply, NameOfRow(job.body),
                            Catalogs[workerAt])
              THEN [job EXCEPT !.status = "running"]
              ELSE [Settle("failed", "refused") EXCEPT !.refusedBy = workerAt]
    /\ UNCHANGED <<budgetVars, catalogVars, openRuns>>

Done(what) == [job EXCEPT !.done = @ \cup {<<Target(job.body), what>>}]
Runs(action) == job.status = "running" /\ job.body.action = action

(* runRerunSource(): a dry run, too, fails when there is a run already.    *)
RunRerun ==
    /\ Runs("rerun_source")
    /\ IF job.body.source \in openRuns
       THEN job' = Settle("failed", "active") /\ UNCHANGED openRuns
       ELSE IF ~job.apply
       THEN job' = Settle("succeeded", NotNamed) /\ UNCHANGED openRuns
       ELSE /\ openRuns' = openRuns \cup {job.body.source}
            /\ \/ job' = Done("run")      (* interrupted before it is settled *)
               \/ job' = [Done("run") EXCEPT !.status = "succeeded"]
    /\ UNCHANGED <<budgetVars, catalogVars>>

(* The other actions go over what they find, a part of it at a time, and   *)
(* may find when they are through that some of it failed.                  *)
Goals(body) ==
    CASE body.action = "reenqueue_failed_windows" -> {<<Target(body), "windows">>}
      [] body.action = "purge_source" -> {<<Target(body), "purge">>}
      [] body.action = "delete_document" -> { <<d, "takedown">> : d \in body.documents }
      [] OTHER -> {}
ByParts == {"reenqueue_failed_windows", "purge_source", "delete_document"}

DoPart ==
    /\ job.status = "running" /\ job.body.action \in ByParts /\ job.apply
    /\ \E goal \in Goals(job.body) \ job.done :
          job' = [job EXCEPT !.done = @ \cup {goal}]
    /\ UNCHANGED <<budgetVars, catalogVars, openRuns>>

FinishParts ==
    /\ job.status = "running" /\ job.body.action \in ByParts
    /\ \/ /\ job.apply => Goals(job.body) \subseteq job.done
          /\ job' = Settle("succeeded", NotNamed)
       \/ job' = Settle("failed", "in_part")
    /\ UNCHANGED <<budgetVars, catalogVars, openRuns>>

(* The host agent: run_job() with run_restart() and run_logs(), which look *)
(* at their own lists and bounds again. Docker may fail or take too long.  *)
RunOnHost(fails) ==
    /\ job.status = "running" /\ HostAction(job.body)
    /\ LET listed == job.body.service \in
              (IF job.body.action = "restart_service" THEN Restartable ELSE Loggable)
           ends == IF listed /\ ~fails THEN Settle("succeeded", NotNamed)
                   ELSE Settle("failed", "host")
       IN  job' = IF listed /\ job.apply
                  THEN [ends EXCEPT !.done = {<<Target(job.body), "restart">>}]
                  ELSE ends
    /\ UNCHANGED <<budgetVars, catalogVars, openRuns>>

OpsRequestsNext ==
    \/ GuessToken \/ NextMinute \/ Refuse \/ DeployWeb \/ RestartWorker \/ PostRequest \/ Claim
    \/ \E source \in CatalogSources : OtherRun(source)
    \/ RunRerun \/ DoPart \/ FinishParts
    \/ \E fails \in BOOLEAN : RunOnHost(fails)

OpsRequestsSpec == OpsRequestsInit /\ [][OpsRequestsNext]_opsRequestsVars
-----------------------------------------------------------------------------
(* Nothing is done that was not applied for by the name of what it is done *)
(* to; a request that was accepted is refused by a worker only when it ran *)
(* with another catalog; what has succeeded was done whole; and who tries  *)
(* tokens leaves the budget of the one who has it alone.                   *)
OpsDoWhatWasNamed ==
    /\ job.done # {} => job.apply /\ job.named = Target(job.body)
    /\ job.error = "refused" => job.accepted # job.refusedBy
    /\ job.status = "succeeded" /\ job.apply => Goals(job.body) \subseteq job.done
    /\ tokens = TokenBudget - served
=============================================================================
