---------------------------- MODULE SiteExtraction ----------------------------
(***************************************************************************)
(* The import of a GemeenteOplossingen or a Parlaeus source:               *)
(* extractForDateRange (src/gemeenteoplossingen/extractor.ts and           *)
(* src/parlaeus/extractor.ts). The council's committees, parties and       *)
(* persons come first, then the meetings of the window and their           *)
(* documents. GemeenteOplossingen lists meetings with their details, part  *)
(* by part of the window; Parlaeus lists the whole window once and is      *)
(* asked for the detail of every meeting. A list that is not where the     *)
(* clients look for it is read as an empty one; plan.named holds what the  *)
(* answers did name.                                                       *)
(***************************************************************************)
EXTENDS ImportRun

CONSTANT SiteChunkDays   (* WOOZI_GO_DATE_CHUNK_MONTHS *)

ASSUME SiteAssumption == SiteChunkDays \in Nat \ {0}

IsGO == plan.supplier = "gemeenteoplossingen"

SiteTypeOK ==
    plan \in [supplier: {"gemeenteoplossingen", "parlaeus"}, mode: Modes,
              phase: {"types", "rosters", "members", "listing", "meetings", "documents",
                      "flush", "done"},
              rosters: Seq({"committees", "parties", "persons"}), members: SUBSET Rosters,
              chunks: Seq(Ranges), found: SUBSET WindowMeetings, named: SUBSET Emitted]

(* GemeenteOplossingen's own splitDateRange(); Parlaeus takes the window.  *)
SiteChunks(s) == Chunks(IF s = "parlaeus" THEN LastWindowDay + 1 ELSE SiteChunkDays)

SiteInit ==
    /\ \E s \in {"gemeenteoplossingen", "parlaeus"}, m \in Modes :
          plan = [supplier |-> s, mode |-> m, phase |-> "types",
                  rosters |-> RosterNames, members |-> {},
                  chunks |-> SiteChunks(s), found |-> {}, named |-> {}]
    /\ RunInit
-----------------------------------------------------------------------------
(* A media_only run throws here; motions_only is a full one.               *)
SiteBegins ==
    /\ InPlan("types") /\ plan.mode # "media_only"
    /\ plan' = [plan EXCEPT !.phase = "rosters"]
    /\ UNCHANGED <<outcome, tasks, threads, seen, issues, storesVars>>

RosterAnswers ==
    /\ InPlan("rosters")
    /\ \E members \in MayAnswer(MembersOf[Head(plan.rosters)]) :
          plan' = [plan EXCEPT !.phase = "members", !.members = members,
                               !.named = @ \cup members]
    /\ UNCHANGED <<outcome, tasks, threads, seen, issues, storesVars>>

NextMember ==
    /\ InPlan("members")
    /\ \E x \in plan.members :
         /\ plan' = [plan EXCEPT !.members = @ \ {x}]
         /\ Commit(Main, x, {})
    /\ UNCHANGED <<outcome, tasks, issues>>

AfterRoster ==
    [plan EXCEPT !.rosters = Tail(@), !.members = {},
                 !.phase = IF Tail(plan.rosters) = <<>> THEN "listing" ELSE "rosters"]

RosterDone ==
    /\ InPlan("members") /\ plan.members = {}
    /\ plan' = AfterRoster
    /\ UNCHANGED <<outcome, tasks, threads, seen, issues, storesVars>>

(* One catch block around the request and the members emitted so far: its  *)
(* issue does not say of which roster, and the members that are left are   *)
(* not emitted.                                                            *)
RosterFails ==
    /\ outcome = "running" /\ plan.phase \in {"rosters", "members"}
    /\ plan' = AfterRoster
    /\ issues' = issues \cup {"unnamed"}
    /\ threads' = [threads EXCEPT ![Main] = Resting]
    /\ UNCHANGED <<outcome, tasks, seen, storesVars>>
-----------------------------------------------------------------------------
SiteLists ==
    /\ InPlan("listing") /\ plan.chunks # <<>>
    /\ \E held \in MayAnswer(HeldIn(Head(plan.chunks))) :
          LET docs == UNION { Attached[m] : m \in held }
          IN  /\ tasks' = tasks \cup held
              /\ plan' = [plan EXCEPT !.chunks = Tail(@),
                                      !.named = @ \cup held \cup IF IsGO THEN docs ELSE {}]
    /\ UNCHANGED <<outcome, threads, seen, issues, storesVars>>

(* GemeenteOplossingen names the part and goes on with the next; Parlaeus  *)
(* returns.                                                                *)
SiteListFails ==
    /\ InPlan("listing") /\ plan.chunks # <<>>
    /\ plan' = [plan EXCEPT !.chunks = Tail(@), !.phase = IF IsGO THEN @ ELSE "flush"]
    /\ issues' = issues \cup {IF IsGO THEN "listing" ELSE "unnamed"}
    /\ UNCHANGED <<outcome, tasks, threads, seen, storesVars>>

SiteListed ==
    /\ InPlan("listing") /\ plan.chunks = <<>>
    /\ plan' = [plan EXCEPT !.phase = "meetings"]
    /\ UNCHANGED <<outcome, tasks, threads, seen, issues, storesVars>>

(* The meeting is emitted; its documents are collected after that.         *)
SiteMeetingReady(t) ==
    /\ threads[t].step = "fetching" /\ threads[t].hand \in WindowMeetings
    /\ LET m == threads[t].hand IN
       /\ plan' = [plan EXCEPT !.found = @ \cup {m}, !.named = @ \cup Attached[m]]
       /\ Commit(t, m, {})
    /\ UNCHANGED <<outcome, tasks, issues>>

(* The detail could not be had or the batch was refused. Parlaeus catches  *)
(* it, and goes without the meeting's documents.                           *)
SiteMeetingFails(t) ==
    /\ threads[t].step \in {"fetching", "indexing"} /\ threads[t].hand \in WindowMeetings
    /\ IF IsGO THEN Reject(t) /\ UNCHANGED issues ELSE EndWithIssue(t, threads[t].hand)
    /\ plan' = [plan EXCEPT !.found = @ \ {threads[t].hand}]
    /\ UNCHANGED <<tasks, seen, storesVars>>

SiteMeetingsDone ==
    /\ PoolDone("meetings")
    /\ tasks' = UNION { Attached[m] : m \in plan.found }
    /\ plan' = [plan EXCEPT !.phase = "documents"]
    /\ UNCHANGED <<outcome, threads, seen, issues, storesVars>>

SiteDocumentsDone ==
    /\ PoolDone("documents")
    /\ plan' = [plan EXCEPT !.phase = "flush"]
    /\ UNCHANGED <<outcome, tasks, threads, seen, issues, storesVars>>
-----------------------------------------------------------------------------
SiteNext ==
    /\ plan.supplier \in {"gemeenteoplossingen", "parlaeus"}
    /\ \/ RunStep
       \/ \E t \in Pool : DocumentStep(t) \/ SiteMeetingReady(t) \/ SiteMeetingFails(t)
       \/ SiteBegins \/ RosterAnswers \/ NextMember \/ RosterDone \/ RosterFails
       \/ SiteLists \/ SiteListFails \/ SiteListed
       \/ SiteMeetingsDone \/ SiteDocumentsDone

SiteSpec == SiteInit /\ [][SiteNext]_importVars
-----------------------------------------------------------------------------
(* An issue names it or the meeting it hangs on; or it is on a roster, and *)
(* there is an issue that names nothing.                                   *)
SiteReported(x) ==
    \/ x \in issues
    \/ \E m \in WindowMeetings : m \in issues /\ x \in Attached[m]
    \/ x \in Rosters /\ "unnamed" \in issues

(* An import from a council's own site loses nothing of what the supplier  *)
(* named without an issue: a document or meeting that is left out is named *)
(* by one, or the meeting it hangs on is; when a roster breaks off there   *)
(* is one too, though it does not say of which roster, or of whom. Of what *)
(* was never named - a part of the window that could not be listed, a list *)
(* read as empty - it says nothing.                                        *)
SiteLosesNothing == LosesNothing(plan.named, SiteReported)
=============================================================================
