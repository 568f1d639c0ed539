--------------------------- MODULE NotubizExtraction ---------------------------
(***************************************************************************)
(* The import of a Notubiz source: extractForDateRange                     *)
(* (src/notubiz/extractor.ts). The events of each part of the window are   *)
(* read page by page; of every public event, and of every meeting an       *)
(* assembly names, the detail, the recordings and the documents; then the  *)
(* modules with motions and other register items. A media_only run only    *)
(* emits recordings.                                                       *)
(*                                                                         *)
(* The supplier answers failures with status 200 and a body that says so.  *)
(* Where the code looks for a list in such a body it finds none, so an     *)
(* answer may be empty whatever there is; plan.named holds what the        *)
(* answers did name.                                                       *)
(***************************************************************************)
EXTENDS ImportRun

CONSTANTS NotubizChunkDays,  (* WOOZI_NOTUBIZ_DATE_CHUNK_MONTHS            *)
          PageSize,          (* the events of a page                       *)
          RecordingsOf,      (* the recordings of a meeting                *)
          NotPublic          (* events and items not meant for everyone    *)

ASSUME NotubizAssumption ==
    /\ NotubizChunkDays \in Nat \ {0} /\ PageSize \in Nat \ {0}
    /\ RecordingsOf \in [WindowMeetings -> SUBSET Recordings]
    /\ NotPublic \subseteq WindowMeetings \cup Entries

NotubizTypeOK ==
    plan \in [supplier: {"notubiz"}, mode: Modes,
              phase: {"types", "chunk", "listing", "expanding", "meetings", "documents",
                      "modules", "items", "emitted", "attachments", "flush", "done"},
              chunks: Seq(Ranges), events: SUBSET WindowMeetings,
              assemblies: SUBSET WindowMeetings, found: SUBSET WindowMeetings,
              lists: SUBSET Lists, changed: SUBSET Entries, entries: SUBSET Entries,
              named: SUBSET Emitted]

NotubizInit ==
    /\ \E m \in Modes, inWindow \in SUBSET Entries :
          plan = [supplier |-> "notubiz", mode |-> m, changed |-> inWindow,
                  phase |-> "types", chunks |-> Chunks(NotubizChunkDays),
                  events |-> {}, assemblies |-> {}, found |-> {},
                  lists |-> {}, entries |-> {}, named |-> {}]
    /\ RunInit

Full == plan.mode = "full"

(* expandPublicMeetingIds() passes over the other events.                  *)
Public(xs) == xs \ NotPublic

Naming(p, xs) == [p EXCEPT !.named = @ \cup xs]
-----------------------------------------------------------------------------
(* The names of a source's fields; without them titles are generic. A      *)
(* motions_only run throws here.                                           *)
AttributesAnswered ==
    /\ InPlan("types") /\ plan.mode # "motions_only"
    /\ plan' = [plan EXCEPT !.phase = "chunk"]
    /\ UNCHANGED <<outcome, tasks, threads, seen, issues, storesVars>>

NextEventWindow ==
    /\ InPlan("chunk")
    /\ plan' = IF plan.chunks = <<>>
               THEN [plan EXCEPT !.phase = IF Full THEN "modules" ELSE "flush"]
               ELSE [plan EXCEPT !.phase = "listing", !.chunks = Tail(@),
                                 !.events = HeldIn(Head(plan.chunks))]
    /\ UNCHANGED <<outcome, tasks, threads, seen, issues, storesVars>>

(* listEvents(): the public events of a page, the assemblies to be asked.  *)
PageAnswers ==
    /\ InPlan("listing")
    /\ \E page \in SUBSET plan.events :
         /\ page # {} /\ Cardinality(page) = Least(PageSize, Cardinality(plan.events))
         /\ tasks' = Public(page)
         /\ plan' = Naming([plan EXCEPT !.phase = "expanding", !.events = @ \ page,
                              !.assemblies = { m \in Public(page) : ChildrenOf[m] # {} }],
                           IF Full THEN Public(page) ELSE {})
    /\ UNCHANGED <<outcome, threads, seen, issues, storesVars>>

PageEmpty ==
    /\ InPlan("listing")
    /\ plan' = [plan EXCEPT !.phase = "chunk", !.events = {}]
    /\ UNCHANGED <<outcome, tasks, threads, seen, issues, storesVars>>

AssemblyAnswers(a) ==
    /\ InPlan("expanding") /\ a \in plan.assemblies
    /\ \E children \in MayAnswer(ChildrenOf[a]) :
         /\ tasks' = tasks \cup children
         /\ plan' = Naming([plan EXCEPT !.assemblies = @ \ {a}], IF Full THEN children ELSE {})
    /\ UNCHANGED <<outcome, threads, seen, issues, storesVars>>

AssemblyFails(a) ==
    /\ InPlan("expanding") /\ a \in plan.assemblies
    /\ plan' = [plan EXCEPT !.assemblies = @ \ {a}]
    /\ issues' = issues \cup {a}
    /\ UNCHANGED <<outcome, tasks, threads, seen, storesVars>>

PageExpanded ==
    /\ InPlan("expanding") /\ plan.assemblies = {}
    /\ plan' = [plan EXCEPT !.phase = "meetings"]
    /\ UNCHANGED <<outcome, tasks, threads, seen, issues, storesVars>>
-----------------------------------------------------------------------------
(* getMeeting() answered. The documents are collected from the meetings    *)
(* whose tasks came to their end.                                          *)
DetailAnswers(t) ==
    /\ threads[t].step = "fetching" /\ threads[t].hand \in WindowMeetings
    /\ LET m == threads[t].hand IN
       /\ plan' = Naming([plan EXCEPT !.found = @ \cup {m}], IF Full THEN Attached[m] ELSE {})
       /\ IF Full THEN Commit(t, m, {Media})
          ELSE Continue(t, {Media}) /\ UNCHANGED storesVars
    /\ UNCHANGED <<outcome, tasks, issues>>

(* No meeting in the answer, or one the run may not see.                   *)
DetailWithheld(t) ==
    /\ threads[t].step = "fetching" /\ threads[t].hand \in WindowMeetings
    /\ EndWithIssue(t, threads[t].hand)
    /\ UNCHANGED <<plan, tasks, seen, storesVars>>

(* Any other failure, and a batch that is refused, fails the run.          *)
MeetingThrows(t) ==
    /\ threads[t].step \in {"fetching", "indexing"}
    /\ threads[t].hand \in WindowMeetings
    /\ Reject(t)
    /\ UNCHANGED <<plan, tasks, seen, issues, storesVars>>

(* extractRecordings(), for one meeting after its detail.                  *)
MediaAnswers(t) ==
    /\ threads[t].hand = Media
    /\ \E found \in MayAnswer(RecordingsOf[threads[t].task]) :
         /\ plan' = Naming(plan, found)
         /\ Continue(t, found)
    /\ UNCHANGED <<outcome, tasks, issues, storesVars>>

MediaFails(t) ==
    /\ threads[t].hand = Media
    /\ EndWithIssue(t, threads[t].task)
    /\ UNCHANGED <<plan, tasks, seen, storesVars>>

TranscriptMissing(t) ==
    /\ threads[t].step = "fetching" /\ threads[t].hand \in Recordings /\ ~threads[t].again
    /\ issues' = issues \cup {threads[t].task}
    /\ UNCHANGED <<plan, outcome, tasks, threads, seen, storesVars>>

RecordingReady(t) ==
    /\ threads[t].step = "fetching" /\ threads[t].hand \in Recordings
    /\ Commit(t, threads[t].hand, threads[t].rest)
       \/ Withhold(t, threads[t].hand, threads[t].rest)
    /\ UNCHANGED <<plan, outcome, tasks, issues>>

(* Storing the transcript and emitting the recording share a catch block,  *)
(* which emits the recording again, now outside of any.                    *)
RecordingFails(t) ==
    /\ threads[t].step \in {"fetching", "indexing"} /\ threads[t].hand \in Recordings
    /\ \/ /\ ~threads[t].again
          /\ issues' = issues \cup {threads[t].hand}
          /\ threads' = [threads EXCEPT ![t] =
               [@ EXCEPT !.step = "fetching", !.batch = {}, !.again = TRUE]]
          /\ UNCHANGED outcome
       \/ Reject(t) /\ UNCHANGED issues
    /\ UNCHANGED <<plan, tasks, seen, storesVars>>

PageMeetingsDone ==
    /\ PoolDone("meetings")
    /\ tasks' = IF Full THEN UNION { Attached[m] : m \in plan.found } ELSE {}
    /\ plan' = [plan EXCEPT !.phase = "documents", !.found = {}]
    /\ UNCHANGED <<outcome, threads, seen, issues, storesVars>>

(* has_more_pages.                                                         *)
PageDone ==
    /\ PoolDone("documents")
    /\ plan' = [plan EXCEPT !.phase = IF plan.events = {} THEN "chunk" ELSE "listing"]
    /\ UNCHANGED <<outcome, tasks, threads, seen, issues, storesVars>>
-----------------------------------------------------------------------------
(* extractMotions(). Every module with a name holds motions or is a        *)
(* register.                                                               *)
ModulesAnswered ==
    /\ InPlan("modules")
    /\ \E modules \in MayAnswer(Lists) : plan' = [plan EXCEPT !.phase = "items", !.lists = modules]
    /\ UNCHANGED <<outcome, tasks, threads, seen, issues, storesVars>>

ModulesUnknown ==
    /\ InPlan("modules")
    /\ plan' = [plan EXCEPT !.phase = "flush"]
    /\ issues' = issues \cup {"lists"}
    /\ UNCHANGED <<outcome, tasks, threads, seen, storesVars>>

ModuleAnswers(l) ==
    /\ InPlan("items") /\ plan.entries = {} /\ l \in plan.lists
    /\ \E items \in MayAnswer({ e \in plan.changed : ListOf[e] = l }) :
         LET public == Public(items) IN
         plan' = Naming([plan EXCEPT !.lists = @ \ {l}, !.entries = public],
                        (IF l \in MotionLists THEN public ELSE {})
                        \cup UNION { Attached[e] : e \in public })
    /\ UNCHANGED <<outcome, tasks, threads, seen, issues, storesVars>>

ModuleUnreadable(l) ==
    /\ InPlan("items") /\ plan.entries = {} /\ l \in plan.lists
    /\ plan' = [plan EXCEPT !.lists = @ \ {l}]
    /\ issues' = issues \cup {l}
    /\ UNCHANGED <<outcome, tasks, threads, seen, storesVars>>

(* A motion is emitted before its attachments; a register item is not an   *)
(* entity.                                                                 *)
NextItem ==
    /\ InPlan("items")
    /\ \E e \in plan.entries :
         /\ plan' = [plan EXCEPT !.entries = @ \ {e}, !.phase = "emitted"]
         /\ tasks' = Attached[e]
         /\ IF ListOf[e] \in MotionLists THEN Commit(Main, e, {})
            ELSE UNCHANGED <<threads, seen, storesVars>>
    /\ UNCHANGED <<outcome, issues>>

ItemEmitted ==
    /\ InPlan("emitted")
    /\ plan' = [plan EXCEPT !.phase = "attachments"]
    /\ UNCHANGED <<outcome, tasks, threads, seen, issues, storesVars>>

(* materializeModuleDocuments(): once per run, whatever items it hangs on. *)
TakeAttachment(t) ==
    /\ threads[t].step = "resting" /\ plan.phase = "attachments"
    /\ \E x \in tasks :
         /\ tasks' = tasks \ {x}
         /\ seen' = seen \cup {x}
         /\ IF x \in seen THEN UNCHANGED threads
            ELSE threads' = [threads EXCEPT ![t] =
                   [Resting EXCEPT !.step = "fetching", !.task = x, !.hand = x]]
    /\ UNCHANGED <<plan, outcome, issues, storesVars>>

ItemDone ==
    /\ PoolDone("attachments")
    /\ plan' = [plan EXCEPT !.phase = "items"]
    /\ UNCHANGED <<outcome, tasks, threads, seen, issues, storesVars>>

ItemsRead ==
    /\ InPlan("items") /\ plan.lists = {} /\ plan.entries = {}
    /\ plan' = [plan EXCEPT !.phase = "flush"]
    /\ UNCHANGED <<outcome, tasks, threads, seen, issues, storesVars>>
-----------------------------------------------------------------------------
NotubizNext ==
    /\ plan.supplier = "notubiz"
    /\ \/ RunStep
       \/ \E t \in Pool :
            \/ DocumentStep(t) \/ DetailAnswers(t) \/ DetailWithheld(t) \/ MeetingThrows(t)
            \/ MediaAnswers(t) \/ MediaFails(t) \/ TranscriptMissing(t)
            \/ RecordingReady(t) \/ RecordingFails(t) \/ TakeAttachment(t)
       \/ AttributesAnswered \/ NextEventWindow \/ PageAnswers \/ PageEmpty
       \/ \E a \in WindowMeetings : AssemblyAnswers(a) \/ AssemblyFails(a)
       \/ PageExpanded \/ PageMeetingsDone \/ PageDone
       \/ ModulesAnswered \/ ModulesUnknown
       \/ \E l \in Lists : ModuleAnswers(l) \/ ModuleUnreadable(l)
       \/ NextItem \/ ItemEmitted \/ ItemDone \/ ItemsRead

NotubizSpec == NotubizInit /\ [][NotubizNext]_importVars
-----------------------------------------------------------------------------
(* A Notubiz import loses nothing of what the supplier named: every        *)
(* meeting, document, recording and motion is committed or withheld, or an *)
(* issue names it. Its meeting tasks reject, its recordings are emitted    *)
(* twice when the first time fails, its documents are taken once per page  *)
(* and its attachments once per run.                                       *)
NotubizLosesNothing == LosesNothing(plan.named, LAMBDA x : x \in issues)
=============================================================================
