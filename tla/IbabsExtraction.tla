---------------------------- MODULE IbabsExtraction ----------------------------
(***************************************************************************)
(* The import of an iBabs source: extractForDateRange                      *)
(* (src/ibabs/extractor.ts). The source is asked for the meetings of each  *)
(* part of the window, then for its lists of motions and register entries. *)
(* What a sibling organisation owns is not among the meetings and entries; *)
(* plan.changed holds the entries that changed inside the window, the      *)
(* others are passed over; plan.due the lists the run answers for: all,    *)
(* until the source has said which it has.                                 *)
(***************************************************************************)
EXTENDS ImportRun

CONSTANTS ChunkDays,     (* WOOZI_IBABS_DATE_CHUNK_MONTHS                  *)
          MotionLimit, RegisterLimit

ASSUME IbabsAssumption ==
    ChunkDays \in Nat \ {0} /\ MotionLimit \in Nat /\ RegisterLimit \in Nat

IbabsTypeOK ==
    plan \in [supplier: {"ibabs"}, mode: Modes,
              phase: {"types", "chunk", "listing", "emitting", "documents",
                      "lists", "reading", "entries", "flush", "done"},
              chunks: Seq(Ranges), windows: Seq(Ranges),
              meetings: SUBSET WindowMeetings, lists: SUBSET Lists,
              changed: SUBSET Entries, due: SUBSET Lists,
              capped: SUBSET {"motions", "registers"}]

IbabsInit ==
    /\ \E m \in Modes, inWindow \in SUBSET Entries :
          plan = [supplier |-> "ibabs", mode |-> m, changed |-> inWindow,
                  phase |-> "types",
                  chunks |-> IF m = "full" THEN Chunks(ChunkDays) ELSE <<>>,
                  windows |-> <<>>, meetings |-> {}, lists |-> {}, due |-> Lists,
                  capped |-> {}]
    /\ RunInit
-----------------------------------------------------------------------------
(* The two catch blocks of an entry: one names the document in hand and    *)
(* goes on, one names the entry and leaves its other documents. A          *)
(* registerIssue that throws in the first lands in the second.             *)
Caught(t) ==
    \/ /\ issues' = issues \cup {threads[t].hand}
       /\ Continue(t, IF threads[t].hand \in Entries THEN {} ELSE threads[t].rest)
       /\ UNCHANGED outcome
    \/ EndWithIssue(t, threads[t].task) /\ UNCHANGED seen

(* Something an entry awaited before the commit threw, or the index        *)
(* refused the batch: only the entity whose emit sent it is named.         *)
EntryFails(t) ==
    /\ threads[t].step \in {"fetching", "indexing"} /\ threads[t].task \in Entries
    /\ Caught(t)
    /\ UNCHANGED <<plan, tasks, storesVars>>

(* A motion is emitted before its attachments; a register entry is not an  *)
(* entity.                                                                 *)
EntryReady(t) ==
    /\ threads[t].step = "fetching" /\ threads[t].hand \in Entries
    /\ \/ /\ ListOf[threads[t].hand] \in MotionLists
          /\ Commit(t, threads[t].hand, threads[t].rest)
       \/ /\ ListOf[threads[t].hand] \notin MotionLists
          /\ Continue(t, threads[t].rest)
          /\ UNCHANGED storesVars
    /\ UNCHANGED <<plan, outcome, tasks, issues>>

(* An issue that stops nothing: the meetings of the day an entry refers to *)
(* could not be listed, so it stays without its link.                      *)
LinkUnknown(t) ==
    /\ threads[t].step = "fetching" /\ threads[t].hand \in Entries
    /\ issues' = issues \cup {"link"}
    /\ UNCHANGED <<plan, outcome, tasks, threads, seen, storesVars>>
-----------------------------------------------------------------------------
TypesKnown ==
    /\ InPlan("types") /\ plan.mode # "media_only"
    /\ plan' = [plan EXCEPT !.phase = "chunk"]
    /\ UNCHANGED <<outcome, tasks, threads, seen, issues, storesVars>>

(* Without the meeting types a full run would misname every meeting.       *)
TypesUnknown ==
    /\ InPlan("types") /\ plan.mode = "motions_only"
    /\ plan' = [plan EXCEPT !.phase = "chunk"]
    /\ issues' = issues \cup {"types"}
    /\ UNCHANGED <<outcome, tasks, threads, seen, storesVars>>

NextChunk ==
    /\ InPlan("chunk")
    /\ plan' = IF plan.chunks = <<>> THEN [plan EXCEPT !.phase = "lists"]
               ELSE [plan EXCEPT !.phase = "listing", !.windows = <<Head(plan.chunks)>>,
                                 !.chunks = Tail(@)]
    /\ UNCHANGED <<outcome, tasks, threads, seen, issues, storesVars>>

(* listMeetingsAdaptive(): nothing is emitted until every part of the      *)
(* chunk has answered.                                                     *)
ListAnswers ==
    /\ InPlan("listing")
    /\ plan' = [plan EXCEPT !.meetings = @ \cup HeldIn(Head(plan.windows)),
                            !.windows = Tail(@),
                            !.phase = IF Tail(plan.windows) = <<>> THEN "emitting" ELSE @]
    /\ UNCHANGED <<outcome, tasks, threads, seen, issues, storesVars>>

Halves(w) ==
    LET leftEnd == w.from + (w.to - w.from) \div 2
    IN  << [from |-> w.from, to |-> leftEnd], [from |-> leftEnd + 1, to |-> w.to] >>

ListTimesOut ==
    /\ InPlan("listing")
    /\ Head(plan.windows).from < Head(plan.windows).to
    /\ plan' = [plan EXCEPT !.windows = Halves(Head(@)) \o Tail(@)]
    /\ issues' = issues \cup {"split"}
    /\ UNCHANGED <<outcome, tasks, threads, seen, storesVars>>

(* normalizeIbabsDocuments(): its own and those of its items, each once.   *)
DocumentsOf(m) == Attached[m]

NextMeeting ==
    /\ InPlan("emitting")
    /\ \E m \in plan.meetings :
         /\ plan' = [plan EXCEPT !.meetings = @ \ {m}]
         /\ tasks' = tasks \cup DocumentsOf(m)
         /\ Commit(Main, m, {})
    /\ UNCHANGED <<outcome, issues>>

MeetingsEmitted ==
    /\ InPlan("emitting") /\ plan.meetings = {}
    /\ plan' = [plan EXCEPT !.phase = "documents"]
    /\ UNCHANGED <<outcome, tasks, threads, seen, issues, storesVars>>

IbabsPoolEnds ==
    /\ PoolDone("documents") \/ PoolDone("entries")
    /\ plan' = [plan EXCEPT !.phase = IF @ = "documents" THEN "chunk" ELSE "flush"]
    /\ UNCHANGED <<outcome, tasks, threads, seen, issues, storesVars>>

KindOf(l) == IF l \in MotionLists THEN "motions" ELSE "registers"
LimitOf(l) == IF l \in MotionLists THEN MotionLimit ELSE RegisterLimit
Targets == { l \in Lists : LimitOf(l) > 0 }
EntriesOf(l) == { e \in plan.changed : ListOf[e] = l }
Room(l) == LimitOf(l) - Cardinality({ e \in tasks : KindOf(ListOf[e]) = KindOf(l) })

(* getLists() leaves out lists without a name, and reads an error in the   *)
(* answer as no lists.                                                     *)
ListsKnown ==
    /\ InPlan("lists")
    /\ \E answered \in SUBSET Lists :
          plan' = [plan EXCEPT !.lists = Targets \cap answered, !.due = answered,
                     !.phase = IF Targets \cap answered = {} THEN "flush" ELSE "reading"]
    /\ UNCHANGED <<outcome, tasks, threads, seen, issues, storesVars>>

ListsUnknown ==
    /\ InPlan("lists") /\ MotionLimit + RegisterLimit > 0
    /\ plan' = [plan EXCEPT !.phase = "flush"]
    /\ issues' = issues \cup {"lists"}
    /\ UNCHANGED <<outcome, tasks, threads, seen, storesVars>>

(* Entries beyond the limit of their kind are counted, not imported.       *)
ReadList(l) ==
    /\ InPlan("reading") /\ l \in plan.lists
    /\ \E taken \in SUBSET EntriesOf(l) :
         /\ Cardinality(taken) = Least(Room(l), Cardinality(EntriesOf(l)))
         /\ tasks' = tasks \cup taken
         /\ plan' = [plan EXCEPT !.lists = @ \ {l},
                       !.capped = @ \cup IF taken = EntriesOf(l) THEN {} ELSE {KindOf(l)}]
    /\ UNCHANGED <<outcome, threads, seen, issues, storesVars>>

ListUnreadable(l) ==
    /\ InPlan("reading") /\ l \in plan.lists
    /\ plan' = [plan EXCEPT !.lists = @ \ {l}]
    /\ issues' = issues \cup {l}
    /\ UNCHANGED <<outcome, tasks, threads, seen, storesVars>>

ListsRead ==
    /\ InPlan("reading") /\ plan.lists = {}
    /\ plan' = [plan EXCEPT !.phase = "entries"]
    /\ issues' = issues \cup plan.capped
    /\ UNCHANGED <<outcome, tasks, threads, seen, storesVars>>

IbabsNext ==
    /\ plan.supplier = "ibabs"
    /\ \/ RunStep
       \/ \E t \in Pool :
            DocumentStep(t) \/ EntryReady(t) \/ LinkUnknown(t) \/ EntryFails(t)
       \/ TypesKnown \/ TypesUnknown
       \/ NextChunk \/ ListAnswers \/ ListTimesOut
       \/ NextMeeting \/ MeetingsEmitted \/ IbabsPoolEnds
       \/ ListsKnown \/ ListsUnknown \/ ListsRead
       \/ \E l \in Lists : ReadList(l) \/ ListUnreadable(l)

IbabsSpec == IbabsInit /\ [][IbabsNext]_importVars
-----------------------------------------------------------------------------
(* What the run's window holds for it: motions and documents, of the lists *)
(* the source named, and in a full run the meetings.                       *)
IbabsWindow ==
    LET entries == { e \in plan.changed : ListOf[e] \in Targets \cap plan.due }
        holders == entries \cup IF plan.mode = "full" THEN ListedMeetings ELSE {}
    IN  { x \in holders : x \in Entries => ListOf[x] \in MotionLists }
        \cup UNION { Attached[x] : x \in holders }

(* An issue names it, or an entry it hangs on, or that entry's list, cap   *)
(* or all the lists.                                                       *)
IbabsReported(x) ==
    \/ x \in issues
    \/ \E e \in plan.changed :
         /\ x = e \/ x \in Attached[e]
         /\ {e, ListOf[e], KindOf(ListOf[e]), "lists"} \cap issues # {}

(* An iBabs import loses nothing silently but the entries of lists that    *)
(* getLists() did not return: its catch blocks, the halving of a window    *)
(* that times out, the caps on entries and the batches each have to do     *)
(* their part.                                                             *)
IbabsLosesNothing == LosesNothing(IbabsWindow, IbabsReported)
=============================================================================
