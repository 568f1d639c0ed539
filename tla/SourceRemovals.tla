--------------------------- MODULE SourceRemovals ---------------------------
(***************************************************************************)
(* How an import notices documents that their source has taken off a       *)
(* meeting: SourceRemovalTracker and confirmRemovalsAtSource()             *)
(* (src/pipeline/source_removals.ts), retractRemovedDocuments()            *)
(* (src/ingest.ts), the suspects in the database (src/ops/store.ts) and    *)
(* retractDocumentsGoneAtSource() (src/ops/delete_document.ts).            *)
(*                                                                         *)
(* The supplier changes its agendas and its files, and refuses everything  *)
(* for a while, between any two steps of a run. The tracker lives in the   *)
(* run's memory; the records it compares with are overwritten during the   *)
(* run. Everything a meeting lists is a document here; a motion is a       *)
(* meeting that no run observes.                                           *)
(***************************************************************************)
EXTENDS Integers, FiniteSets

CONSTANTS Meetings, Documents,
          NoMeeting, NoDocument,
          MaxPerRun,     (* WOOZI_SOURCE_REMOVALS_MAX_PER_RUN              *)
          MinAge,        (* WOOZI_SOURCE_REMOVALS_MIN_HOURS, in ticks      *)
          SuspectTTL,    (* SOURCE_REMOVAL_SUSPECT_TTL_DAYS, in ticks      *)
          MaxTime,       (* bound: ticks of the clock                      *)
          MaxChanges     (* bound: changes at the supplier                 *)

ASSUME RemovalsAssumption ==
    /\ MaxPerRun \in Nat /\ MinAge \in Nat \ {0} /\ SuspectTTL \in Nat
    /\ MaxTime \in Nat /\ MaxChanges \in Nat
    /\ NoMeeting \notin Meetings /\ NoDocument \notin Documents

VARIABLES
    supplier,    (* its agendas, the files it serves, refusing all of them *)
    clock,
    records,     (* per meeting: the list in its last export record        *)
    feed,        (* per document: none, live or tombstone                  *)
    index,       (* per document: none, shown, or hidden by a marker       *)
    stored,      (* documents with objects in storage                      *)
    suspects,    (* the source_removal_suspect table                       *)
    run,         (* the run's phase and what that phase still has to do    *)
    tracker,     (* the run's SourceRemovalTracker                         *)
    named,       (* history: documents an issue named since a meeting of   *)
                 (* the log last listed them                               *)
    emptied,     (* history: since then, an issue named their meeting only *)
    counted,     (* history: since then, they were in the number of one    *)
    lost,        (* history: left behind by a run that ended early         *)
    sightings,   (* history: when the supplier truthfully said gone        *)
    blind        (* history: a refusal began after the control answered    *)

supplierVars == <<supplier, clock>>
storeVars == <<records, feed, index, stored, suspects>>
historyVars == <<named, emptied, counted, lost, sightings, blind>>
removalsVars == <<supplierVars, storeVars, run, tracker, historyVars>>

Times == 0 .. MaxTime
Never == -1
Phases == {"idle", "meetings", "documents", "planning", "control", "probing",
           "retracting"}
NotSeen == {NoDocument}
Candidate == [doc: Documents, meeting: Meetings, seen: Times \cup {Never}]

EmptyTracker == [candidates |-> [d \in Documents |-> NoMeeting],
                 emitted |-> {},
                 observed |-> [m \in Meetings |-> NotSeen],
                 control |-> NoDocument]
Idle == [phase |-> "idle", todo |-> {}, listing |-> <<>>,
         skipped |-> {}, plan |-> {}, gone |-> {}, live |-> {}, control |-> NoDocument]

(* What became of a document that fell off the log can be learned from the *)
(* issues, if only as one of a number; or a run ended before it said so.   *)
Traced == named \cup emptied \cup counted \cup lost

RemovalsTypeOK ==
    /\ supplier \in [lists: [Meetings -> SUBSET Documents],
                     served: SUBSET Documents, refusing: BOOLEAN,
                     changes: 0 .. MaxChanges]
    /\ clock \in Times
    /\ records \in [Meetings -> SUBSET Documents]
    /\ feed \in [Documents -> {"none", "live", "tombstone"}]
    /\ index \in [Documents -> {"none", "shown", "hidden"}]
    /\ stored \subseteq Documents
    /\ suspects \subseteq [doc: Documents, meeting: Meetings, seen: Times]
    /\ \A s, t \in suspects : s.doc = t.doc => s = t
    /\ run.phase \in Phases
    /\ run.plan \subseteq Candidate /\ run.gone \subseteq run.plan
    /\ tracker.emitted \subseteq Documents
    /\ tracker.observed \in [Meetings -> (SUBSET Documents) \cup {NotSeen}]
    /\ tracker.control \in Documents \cup {NoDocument}
    /\ Traced \subseteq Documents
-----------------------------------------------------------------------------
(* A source that was imported once, before anything was taken off.         *)
Listed(lists) == UNION { lists[m] : m \in Meetings }

RemovalsInit ==
    /\ \E lists \in [Meetings -> SUBSET Documents] :
          /\ supplier = [lists |-> lists, served |-> Documents,
                         refusing |-> FALSE, changes |-> 0]
          /\ records = lists
          /\ feed = [d \in Documents |-> IF d \in Listed(lists) THEN "live" ELSE "none"]
          /\ index = [d \in Documents |-> IF d \in Listed(lists) THEN "shown" ELSE "none"]
          /\ stored = Listed(lists)
    /\ clock = 0
    /\ suspects = {}
    /\ run = Idle
    /\ tracker = EmptyTracker
    /\ named = {} /\ emptied = {} /\ counted = {} /\ lost = {}
    /\ sightings = {} /\ blind = FALSE

InPhase(phase) == run.phase = phase
-----------------------------------------------------------------------------
(* The supplier edits an agenda, stops or resumes serving a file, starts   *)
(* or stops refusing every download. Time passes between runs.             *)
Changed ==
    { [supplier EXCEPT !.lists[m] = (@ \ {d}) \cup ({d} \ @)] :
         m \in Meetings, d \in Documents }
    \cup { [supplier EXCEPT !.served = (@ \ {d}) \cup ({d} \ @)] : d \in Documents }
    \cup { [supplier EXCEPT !.refusing = b] : b \in BOOLEAN \ {supplier.refusing} }

SupplierChanges ==
    /\ supplier.changes < MaxChanges
    /\ \E new \in Changed : supplier' = [new EXCEPT !.changes = @ + 1]
    /\ blind' = (blind \/ (supplier'.refusing /\ ~supplier.refusing
                             /\ run.phase = "probing"))
    /\ UNCHANGED <<clock, storeVars, run, tracker, named, emptied, counted, lost, sightings>>

TimePasses ==
    /\ InPhase("idle")
    /\ clock < MaxTime
    /\ clock' = clock + 1
    /\ UNCHANGED <<supplier, storeVars, run, tracker, historyVars>>
-----------------------------------------------------------------------------
(* The extraction: one listing of the meetings in the run's window, each   *)
(* meeting, then the documents they list.                                  *)
StartRun ==
    /\ InPhase("idle")
    /\ \E ms \in (SUBSET Meetings) \ {{}} :
          run' = [Idle EXCEPT !.phase = "meetings", !.todo = ms,
                              !.listing = [m \in ms |-> supplier.lists[m]]]
    /\ tracker' = EmptyTracker
    /\ UNCHANGED <<supplierVars, storeVars, historyVars>>

Dropped(m) == records[m] \ run.listing[m]
AllDropped(m) == Dropped(m) = records[m]

(* Mutant of Observed: asked after the commit, it sees nothing dropped.    *)
ObservedAfterCommit(m, control) ==
    [tracker EXCEPT !.observed[m] = run.listing[m]]

(* observeMeeting(): compare with the record of the last run.              *)
Observed(m, control) ==
    [tracker EXCEPT
        !.observed[m] = run.listing[m],
        !.candidates = [d \in Documents |->
            IF d \in Dropped(m) /\ ~AllDropped(m) THEN m ELSE @[d]],
        !.control = IF @ = NoDocument THEN control ELSE @]

(* The meeting is observed before its new record is committed. The issue   *)
(* about a meeting that lost everything is written in the retraction step. *)
EmitMeeting(m) ==
    /\ InPhase("meetings")
    /\ m \in run.todo
    /\ \E control \in IF Dropped(m) = {} \/ AllDropped(m)
                      THEN {NoDocument} ELSE records[m] \cap run.listing[m] :
          tracker' = Observed(m, control)
    /\ run' = [run EXCEPT
          !.todo = @ \ {m},
          !.skipped = IF AllDropped(m) THEN @ \cup records[m] ELSE @]
    /\ records' = [records EXCEPT ![m] = run.listing[m]]
    /\ named' = named \ run.listing[m] /\ emptied' = emptied \ run.listing[m]
    /\ counted' = counted \ run.listing[m] /\ lost' = lost \ run.listing[m]
    /\ UNCHANGED <<supplierVars, feed, index, stored, suspects, sightings, blind>>

DocumentsNext ==
    /\ InPhase("meetings")
    /\ run.todo = {}
    /\ run' = [run EXCEPT
          !.phase = "documents",
          !.todo = UNION { run.listing[m] : m \in DOMAIN run.listing }]
    /\ UNCHANGED <<supplierVars, storeVars, tracker, historyVars>>

(* A document comes from the supplier or from storage, and is emitted,     *)
(* committed and indexed; or it fails and leaves an issue.                 *)
EmitDocument(d) ==
    /\ InPhase("documents")
    /\ d \in run.todo
    /\ d \in stored \/ (d \in supplier.served /\ ~supplier.refusing)
    /\ tracker' = [tracker EXCEPT !.emitted = @ \cup {d}]
    /\ feed' = [feed EXCEPT ![d] = "live"]
    /\ index' = [index EXCEPT ![d] = "shown"]
    /\ stored' = stored \cup {d}
    /\ run' = [run EXCEPT !.todo = @ \ {d}]
    /\ lost' = lost \ {d}
    /\ UNCHANGED <<supplierVars, records, suspects, named, emptied, counted, sightings, blind>>

DocumentFails(d) ==
    /\ InPhase("documents")
    /\ d \in run.todo
    /\ run' = [run EXCEPT !.todo = @ \ {d}]
    /\ UNCHANGED <<supplierVars, storeVars, tracker, historyVars>>

PlanNext ==
    /\ InPhase("documents")
    /\ run.todo = {}
    /\ run' = [run EXCEPT !.phase = "planning"]
    /\ UNCHANGED <<supplierVars, storeVars, tracker, historyVars>>
-----------------------------------------------------------------------------
(* SourceRemovalTracker.plan().                                            *)
IsLive(d) == d \notin tracker.emitted /\ feed[d] = "live"

Remembered == { s \in suspects : clock - s.seen <= SuspectTTL }

(* A suspect whose meeting did not come back this run is left alone.       *)
MeetingCameBack(s) == tracker.observed[s.meeting] # NotSeen

IsBack(s) == s.doc \in tracker.observed[s.meeting] \/ ~IsLive(s.doc)

SecondSightings ==
    { s \in Remembered :
        MeetingCameBack(s) /\ ~IsBack(s) /\ clock - s.seen >= MinAge }

PendingRemovals ==
    LET second == { s.doc : s \in SecondSightings }
    IN  { [doc |-> s.doc, meeting |-> s.meeting, seen |-> s.seen] :
            s \in SecondSightings }
        \cup { [doc |-> d, meeting |-> tracker.candidates[d], seen |-> Never] :
                d \in { c \in Documents \ second :
                          tracker.candidates[c] # NoMeeting /\ IsLive(c) } }

Referenced(d) == d \in Listed(records)

ClearedByPlan ==
    { s \in Remembered : MeetingCameBack(s) /\ IsBack(s) }
    \cup { s \in SecondSightings : Referenced(s.doc) }

Removals == { c \in PendingRemovals : ~Referenced(c.doc) }

(* The control document: one a meeting that lost documents still lists, or *)
(* else one the meeting of a second sighting lists.                        *)
Controls ==
    IF tracker.control # NoDocument THEN {tracker.control}
    ELSE LET listed == UNION { tracker.observed[s.meeting] : s \in SecondSightings }
         IN  IF listed = {} THEN {NoDocument} ELSE listed

Names(docs) == named' = named \cup docs

EndRun ==
    /\ run' = Idle
    /\ tracker' = EmptyTracker

(* Suspects beyond their time are deleted as they are listed, then those   *)
(* the plan clears. An issue names each meeting that lost everything, not  *)
(* its documents. Beyond the cap nothing is asked and nothing removed, and *)
(* one issue says how many they were.                                      *)
Plan ==
    /\ InPhase("planning")
    /\ suspects' = Remembered \ ClearedByPlan
    /\ IF Removals = {} \/ Cardinality(Removals) > MaxPerRun
       THEN /\ counted' = counted \cup { c.doc : c \in Removals }
            /\ EndRun
       ELSE /\ UNCHANGED counted
            /\ \E control \in Controls :
                  run' = [Idle EXCEPT !.phase = "control", !.plan = Removals,
                                      !.control = control]
            /\ tracker' = EmptyTracker
    /\ emptied' = emptied \cup run.skipped
    /\ UNCHANGED <<supplierVars, records, feed, index, stored, named, lost, sightings, blind>>
-----------------------------------------------------------------------------
(* probeDocumentAtSource(): without an exported address, or on any answer  *)
(* but the calibrated ones, the verdict is unknown. A supplier that        *)
(* refuses everything answers like one that has removed the document.      *)
Answers(d) ==
    {"unknown"} \cup
    IF d = NoDocument \/ d \notin { c \in Documents : feed[c] = "live" } THEN {}
    ELSE IF d \in supplier.served /\ ~supplier.refusing THEN {"live"} ELSE {"gone"}

(* Mutant of ControlPasses: only an unknown answer stops the run.          *)
ControlPassesUnlessUnknown(answer) == answer # "unknown"

ControlPasses(answer) == answer = "live"

AskControl ==
    /\ InPhase("control")
    /\ \E answer \in Answers(run.control) :
          IF ControlPasses(answer)
          THEN /\ run' = [run EXCEPT !.phase = "probing", !.todo = run.plan]
               /\ UNCHANGED <<tracker, named>>
          ELSE /\ Names({ c.doc : c \in run.plan })
               /\ EndRun
    /\ UNCHANGED <<supplierVars, storeVars, emptied, counted, lost, sightings, blind>>

(* What the run keeps is named in an issue once every answer is in; a      *)
(* suspect the supplier serves again is forgotten there.                   *)
AskCandidate(c) ==
    /\ InPhase("probing")
    /\ c \in run.todo
    /\ \E answer \in Answers(c.doc) :
          /\ run' = [run EXCEPT
                !.todo = @ \ {c},
                !.gone = IF answer = "gone" THEN @ \cup {c} ELSE @,
                !.live = IF answer = "live" THEN @ \cup {c} ELSE @]
          /\ sightings' = IF answer = "gone" /\ c.doc \notin supplier.served
                          THEN sightings \cup {[doc |-> c.doc, at |-> clock]}
                          ELSE sightings
    /\ UNCHANGED <<supplierVars, storeVars, tracker, named, emptied, counted, lost, blind>>

FirstSightings == { c \in run.gone : c.seen = Never }
Confirmed == run.gone \ FirstSightings

SuspectDocs == { s.doc : s \in suspects }

(* Clearing what is live and recording first sightings; a document that is *)
(* a suspect already keeps its first sighting.                             *)
RecordSightings ==
    /\ InPhase("probing")
    /\ run.todo = {}
    /\ suspects' =
          { s \in suspects : ~\E c \in run.live : c.doc = s.doc /\ c.seen # Never }
          \cup { [doc |-> c.doc, meeting |-> c.meeting, seen |-> clock] :
                   c \in { f \in FirstSightings : f.doc \notin SuspectDocs } }
    /\ Names({ c.doc : c \in run.plan \ Confirmed })
    /\ IF Confirmed = {}
       THEN EndRun
       ELSE /\ run' = [run EXCEPT !.phase = "retracting", !.todo = Confirmed]
            /\ UNCHANGED tracker
    /\ UNCHANGED <<supplierVars, records, feed, index, stored, emptied, counted, lost, sightings,
                   blind>>
-----------------------------------------------------------------------------
(* retractDocumentsGoneAtSource(): hide, tombstone, empty storage; a       *)
(* failure stops this document and the outcome says how far it got.        *)
Reached == {"nothing", "hidden", "tombstoned", "deleted"}

Retract(c, reached) ==
    /\ InPhase("retracting")
    /\ c \in run.todo
    /\ index' = IF reached = "nothing" THEN index
                ELSE [index EXCEPT ![c.doc] = "hidden"]
    /\ feed' = IF reached \in {"nothing", "hidden"} THEN feed
               ELSE [feed EXCEPT ![c.doc] = "tombstone"]
    /\ stored' = IF reached = "deleted" THEN stored \ {c.doc} ELSE stored
    /\ run' = [run EXCEPT !.todo = @ \ {c},
                          !.gone = IF reached = "deleted" THEN @ ELSE @ \ {c}]
    /\ UNCHANGED <<supplierVars, records, suspects, tracker, historyVars>>

(* One delete task for all. Without it every outcome is incomplete; an     *)
(* incomplete one keeps its suspect. Each outcome leaves an issue.         *)
Conclude ==
    /\ InPhase("retracting")
    /\ run.todo = {}
    /\ \E task \in BOOLEAN :
          suspects' = { s \in suspects :
                          ~(task /\ \E c \in Confirmed : c.doc = s.doc) }
    /\ Names({ c.doc : c \in run.plan })
    /\ EndRun
    /\ UNCHANGED <<supplierVars, records, feed, index, stored, emptied, counted, lost, sightings,
                   blind>>

Unlisted(d) == feed[d] = "live" /\ d \notin Listed(records)

(* The process dies, the extraction throws (and the run fails), or a       *)
(* statement of the retraction throws and one issue says so.               *)
RunEndsEarly ==
    /\ ~InPhase("idle")
    /\ lost' = lost \cup { d \in Documents : Unlisted(d) /\ d \notin Traced }
    /\ EndRun
    /\ UNCHANGED <<supplierVars, storeVars, named, emptied, counted, sightings, blind>>
-----------------------------------------------------------------------------
RemovalsNext ==
    \/ SupplierChanges
    \/ TimePasses
    \/ StartRun
    \/ \E m \in Meetings : EmitMeeting(m)
    \/ DocumentsNext
    \/ \E d \in Documents : EmitDocument(d) \/ DocumentFails(d)
    \/ PlanNext
    \/ Plan
    \/ AskControl
    \/ \E c \in run.plan : AskCandidate(c)
    \/ RecordSightings
    \/ \E c \in run.plan, reached \in Reached : Retract(c, reached)
    \/ Conclude
    \/ RunEndsEarly

RemovalsSpec == RemovalsInit /\ [][RemovalsNext]_removalsVars
-----------------------------------------------------------------------------
(* A document is taken out of search only after the supplier has really    *)
(* answered gone for it twice, MinAge apart. Not an emptied agenda, not a  *)
(* document that moved, not an outage and not two runs of one night. The   *)
(* one gap: a refusal that begins after the control document has answered. *)
RetractedAfterTwoGoneAnswers ==
    [][~blind =>
        \A d \in Documents : index[d] = "shown" /\ index'[d] = "hidden" =>
            \E s, t \in sightings :
                s.doc = d /\ t.doc = d /\ t.at - s.at >= MinAge]_removalsVars

(* Nothing falls out silently: once a run is over, a live document that no *)
(* meeting of the log lists was reported since it was dropped: an issue     *)
(* named it, or the meeting that lost everything with it, or gave the       *)
(* number of a run's removals it was one of, unless the run that saw it    *)
(* dropped ended early. The next run cannot notice: it compares with the   *)
(* list that no longer has the document.                                   *)
DropsAreReported ==
    InPhase("idle") => \A d \in Documents : Unlisted(d) => d \in Traced
=============================================================================
