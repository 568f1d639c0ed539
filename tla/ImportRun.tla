------------------------------- MODULE ImportRun -------------------------------
(***************************************************************************)
(* What an import does whatever its supplier: executeIngest                *)
(* (src/ingest.ts) with the mapLimit pools (src/util/map_limit.ts) the     *)
(* extractors run their tasks in. Every entity an extractor emits is       *)
(* committed to the export log at once and buffered, and whoever fills the *)
(* buffer sends it to the index. The extractors add what they ask their    *)
(* supplier and what their catch blocks do: IbabsExtraction,               *)
(* NotubizExtraction, SiteExtraction.                                      *)
(*                                                                         *)
(* Days stand for dates. An entity is one row of the buffer.               *)
(***************************************************************************)
EXTENDS Integers, Sequences, FiniteSets

CONSTANTS WindowMeetings, WindowDocuments, Recordings, Entries, Rosters, Lists,
          NoItem, Media,  (* nothing in hand; the media list of a meeting  *)
          HeldOn,         (* the day of a meeting                          *)
          ChildrenOf,     (* the meetings of an assembly                   *)
          Attached,       (* the documents of a meeting or an entry        *)
          ListOf,         (* the list or module an entry is on             *)
          MotionLists,    (* those whose name says motions                 *)
          MembersOf,      (* the committees, parties and persons           *)
          LastWindowDay,  (* the run imports days 0 to LastWindowDay       *)
          BatchSize,      (* QUICKWIT_BATCH_SIZE                           *)
          Pool,           (* the workers of a mapLimit                     *)
          Main            (* the rest of the run                           *)

RosterNames == <<"committees", "parties", "persons">>
Emitted == WindowMeetings \cup WindowDocuments \cup Recordings \cup Entries \cup Rosters

(* An id begins with the kind of its entity: scopedEntityId(), src/ids.ts.  *)
ASSUME ImportRunAssumption ==
    /\ LastWindowDay \in Nat /\ BatchSize \in Nat \ {0} /\ Main \notin Pool
    /\ HeldOn \in [WindowMeetings -> 0 .. LastWindowDay]
    /\ ChildrenOf \in [WindowMeetings -> SUBSET WindowMeetings]
    /\ Attached \in [WindowMeetings \cup Entries -> SUBSET WindowDocuments]
    /\ ListOf \in [Entries -> Lists] /\ MotionLists \subseteq Lists
    /\ MembersOf \in [{"committees", "parties", "persons"} -> SUBSET Rosters]
    /\ WindowMeetings \cap (WindowDocuments \cup Recordings \cup Entries \cup Rosters) = {}
    /\ WindowDocuments \cap (Recordings \cup Entries \cup Rosters) = {}
    /\ Recordings \cap (Entries \cup Rosters) = {} /\ Entries \cap Rosters = {}
    /\ NoItem # Media /\ {NoItem, Media} \cap Emitted = {}

VARIABLES
    plan,        (* the run: supplier, mode, phase, what it has to do      *)
    outcome,     (* the run's status                                       *)
    tasks,       (* what the pool has not taken yet                        *)
    threads,     (* per worker and for Main: what it is doing              *)
    seen,        (* listDocumentsSeen, moduleDocumentsSeen                 *)
    issues,      (* what the run's issues name                             *)
    committed,   (* recorded in the export log                             *)
    buffered,    (* pendingDocuments                                       *)
    indexed,     (* committed, and the index took a row of it since        *)
    withheld     (* skipped because they are blocklisted                   *)

importVars == <<plan, outcome, tasks, threads, seen, issues,
                committed, buffered, indexed, withheld>>
storesVars == <<committed, buffered, indexed, withheld>>

Ranges == [from: 0 .. LastWindowDay, to: 0 .. LastWindowDay]
Modes == {"full", "motions_only", "media_only"}
PoolPhases == {"meetings", "documents", "entries", "attachments"}
Resting == [step |-> "resting", task |-> NoItem, hand |-> NoItem, rest |-> {},
            batch |-> {}, again |-> FALSE]

(* What an issue can be about besides an entity: see the actions. Of some  *)
(* issues only the error's own text is written: those are "unnamed".       *)
Topics == {"types", "split", "link", "lists", "motions", "registers", "listing",
           "unnamed"} \cup Lists

ThreadRow ==
    [step: {"resting", "fetching", "indexing", "rejected"},
     task: Emitted \cup {NoItem}, hand: Emitted \cup {NoItem, Media},
     rest: SUBSET (WindowDocuments \cup Recordings \cup {Media}),
     batch: SUBSET Emitted, again: BOOLEAN]

RunTypeOK ==
    /\ outcome \in {"running", "succeeded", "partial", "failed"}
    /\ tasks \subseteq WindowMeetings \cup WindowDocuments \cup Entries
    /\ threads \in [Pool \cup {Main} -> ThreadRow]
    /\ seen \subseteq WindowDocuments /\ issues \subseteq Emitted \cup Topics
    /\ committed \subseteq Emitted /\ buffered \subseteq Emitted
    /\ indexed \subseteq committed /\ withheld \subseteq WindowDocuments \cup Recordings

Least(a, b) == IF a < b THEN a ELSE b

(* splitDateRange(), in days.                                              *)
Chunks(days) ==
    [i \in 1 .. (LastWindowDay \div days) + 1 |->
        [from |-> (i - 1) * days, to |-> Least(i * days - 1, LastWindowDay)]]

(* What the supplier's own list of meetings answers: the meetings of an    *)
(* assembly are only named by the assembly.                                *)
ListedMeetings == WindowMeetings \ UNION { ChildrenOf[m] : m \in WindowMeetings }
HeldIn(w) == { m \in ListedMeetings : HeldOn[m] \in w.from .. w.to }

(* A list in the answer, or none where it was looked for: a body of        *)
(* another shape is read as no list.                                       *)
MayAnswer(xs) == {xs, {}}

RunInit ==
    /\ outcome = "running" /\ tasks = {}
    /\ threads = [t \in Pool \cup {Main} |-> Resting]
    /\ seen = {} /\ issues = {}
    /\ committed = {} /\ buffered = {} /\ indexed = {} /\ withheld = {}
-----------------------------------------------------------------------------
(* A thread is through with what it has in hand: the next of what belongs  *)
(* to its task, passing over the attachments a thread took before in this  *)
(* run, or its next task.                                                  *)
Continue(t, rest) ==
    LET open == rest \ seen IN
    \/ /\ open = {}
       /\ threads' = [threads EXCEPT ![t] = Resting]
       /\ UNCHANGED seen
    \/ \E d \in open :
         /\ threads' = [threads EXCEPT ![t] =
              [Resting EXCEPT !.step = "fetching", !.task = threads[t].task,
                              !.hand = d, !.rest = rest \ {d}]]
         /\ seen' = seen \cup ({d} \cap WindowDocuments)

(* onEntity(): commit, buffer, and send a full buffer to the index. The    *)
(* buffer is emptied before the request.                                   *)
Commit(t, x, rest) ==
    /\ committed' = committed \cup {x}
    /\ indexed' = indexed \ {x}
    /\ LET full == buffered \cup {x} IN
       \/ /\ Cardinality(full) >= BatchSize
          /\ buffered' = {}
          /\ threads' = [threads EXCEPT ![t] =
               [@ EXCEPT !.step = "indexing", !.hand = x, !.rest = rest, !.batch = full]]
          /\ UNCHANGED seen
       \/ /\ Cardinality(full) < BatchSize
          /\ buffered' = full
          /\ Continue(t, rest)
    /\ UNCHANGED withheld

(* onEntity() passes over a blocklisted document or recording.             *)
Withhold(t, x, rest) ==
    /\ withheld' = withheld \cup {x}
    /\ Continue(t, rest)
    /\ UNCHANGED <<committed, buffered, indexed>>

(* What a task throws beyond its last catch block rejects the pool, and    *)
(* with it the run; the other workers carry on.                            *)
Reject(t) ==
    /\ threads' = [threads EXCEPT ![t] = [Resting EXCEPT !.step = "rejected"]]
    /\ outcome' = "failed"

(* A task ends in a catch block that names it. registerIssue() writes to   *)
(* the database, and may throw.                                            *)
EndWithIssue(t, topic) ==
    \/ /\ issues' = issues \cup {topic}
       /\ threads' = [threads EXCEPT ![t] = Resting]
       /\ UNCHANGED outcome
    \/ Reject(t) /\ UNCHANGED issues
-----------------------------------------------------------------------------
(* mapLimit(): a worker takes the next task. It does not know whether      *)
(* another one has rejected.                                               *)
TakeTask(t) ==
    /\ threads[t].step = "resting"
    /\ plan.phase \in PoolPhases \ {"attachments"}
    /\ \E x \in tasks :
         /\ tasks' = tasks \ {x}
         /\ threads' = [threads EXCEPT ![t] =
              [Resting EXCEPT !.step = "fetching", !.task = x, !.hand = x,
                              !.rest = IF x \in Entries THEN Attached[x] ELSE {}]]
    /\ UNCHANGED <<plan, outcome, seen, issues, storesVars>>

(* The document is there and is emitted, unless it is blocklisted.         *)
DocumentReady(t) ==
    /\ threads[t].step = "fetching" /\ threads[t].hand \in WindowDocuments
    /\ Commit(t, threads[t].hand, threads[t].rest)
       \/ Withhold(t, threads[t].hand, threads[t].rest)
    /\ UNCHANGED <<plan, outcome, tasks, issues>>

(* materializeDocument() returned an issue with the document.              *)
DocumentNoted(t) ==
    /\ threads[t].step = "fetching" /\ threads[t].hand \in WindowDocuments
    /\ issues' = issues \cup {threads[t].hand}
    /\ UNCHANGED <<plan, outcome, tasks, threads, seen, storesVars>>

(* A document of a pool of its own failed, or the batch it filled did.     *)
DocumentCaught(t) ==
    /\ threads[t].step \in {"fetching", "indexing"}
    /\ threads[t].hand \in WindowDocuments /\ threads[t].task = threads[t].hand
    /\ EndWithIssue(t, threads[t].hand)
    /\ UNCHANGED <<plan, tasks, seen, storesVars>>

(* A mistake that clears the buffer once the request has been answered.    *)
BatchTakenClearing(t) ==
    /\ threads[t].step = "indexing"
    /\ indexed' = indexed \cup threads[t].batch /\ buffered' = {}
    /\ Continue(t, threads[t].rest)
    /\ UNCHANGED <<plan, outcome, tasks, issues, committed, withheld>>

BatchTaken(t) ==
    /\ threads[t].step = "indexing"
    /\ indexed' = indexed \cup threads[t].batch
    /\ Continue(t, threads[t].rest)
    /\ UNCHANGED <<plan, outcome, tasks, issues, committed, buffered, withheld>>

DocumentStep(t) ==
    TakeTask(t) \/ DocumentReady(t) \/ DocumentNoted(t) \/ DocumentCaught(t) \/ BatchTaken(t)
-----------------------------------------------------------------------------
InPlan(phase) == plan.phase = phase /\ outcome = "running" /\ threads[Main] = Resting

(* Promise.all: every worker has come to the end.                          *)
PoolDone(phase) == InPlan(phase) /\ tasks = {} /\ \A t \in Pool : threads[t] = Resting

(* An await outside a pool throws beyond its catch block, or there is      *)
(* none: executeIngest fails the run.                                      *)
RunThrows ==
    /\ outcome = "running" /\ plan.phase \notin PoolPhases \cup {"done"}
    /\ outcome' = "failed"
    /\ UNCHANGED <<plan, tasks, threads, seen, issues, storesVars>>

LastBatch ==
    /\ InPlan("flush") /\ buffered # {}
    /\ threads' = [threads EXCEPT ![Main] =
         [@ EXCEPT !.step = "indexing", !.batch = buffered]]
    /\ buffered' = {}
    /\ UNCHANGED <<plan, outcome, tasks, seen, issues, committed, indexed, withheld>>

RunEnds ==
    /\ InPlan("flush") /\ buffered = {}
    /\ plan' = [plan EXCEPT !.phase = "done"]
    /\ outcome' = IF issues = {} THEN "succeeded" ELSE "partial"
    /\ UNCHANGED <<tasks, threads, seen, issues, storesVars>>

RunStep ==
    \/ outcome = "running" /\ BatchTaken(Main)
    \/ RunThrows \/ LastBatch \/ RunEnds
-----------------------------------------------------------------------------
(* A run that does not fail leaves nothing out in silence: what it was to  *)
(* import is committed or withheld, or an issue accounts for it, and when  *)
(* the index lost a committed row an issue names a committed entity; a run *)
(* that succeeded left out nothing at all.                                 *)
LosesNothing(window, Reported(_)) ==
    /\ outcome \in {"succeeded", "partial"} =>
         /\ \A x \in window : x \in committed \cup withheld \/ Reported(x)
         /\ committed \subseteq indexed \/ \E x \in committed : Reported(x)
    /\ outcome = "succeeded" =>
         window \subseteq committed \cup withheld /\ committed \subseteq indexed
=============================================================================
