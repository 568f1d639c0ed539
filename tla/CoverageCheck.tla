---------------------------- MODULE CoverageCheck ----------------------------
(***************************************************************************)
(* The coverage check (src/coverage/check.ts, scripts/coverage_check.ts):  *)
(* for one source and one window, list every document the supplier's own   *)
(* API shows, compare it with what the export log holds, record the        *)
(* outcome. Some requests that fail are a warning and leave a hole in the  *)
(* listing, others fail the check, and an error in the body of an answer   *)
(* that came is read as an empty one, of which nothing is said; a block by *)
(* the supplier is answered by one more try. What the status page          *)
(* publishes of it is PublishedCheck.                                      *)
(*                                                                         *)
(* The window is fixed. Imports and removals change what the log holds at  *)
(* any time. Days, pages and halved windows of the listing of meetings are *)
(* those of the extractors, where they are modelled.                       *)
(***************************************************************************)
EXTENDS Integers, Sequences, FiniteSets

CONSTANTS SiteMeetings,    (* in the window, those under an assembly too   *)
          SiteUnder,       (* [meeting -> the meetings under it]           *)
          SiteLists,       (* registers, modules                           *)
          SiteEntries,     (* [list -> its entries]                        *)
          ShownOn,         (* [meeting or entry -> its documents]          *)
          NotOurs,         (* of a sibling on the site, not public, later  *)
          MaxChecks        (* bound                                        *)

ASSUME CoverageAssumption ==
    /\ SiteUnder \in [SiteMeetings -> SUBSET SiteMeetings]
    /\ DOMAIN SiteEntries = SiteLists /\ MaxChecks \in Nat
    /\ IsFiniteSet(SiteMeetings) /\ SiteLists \cap UNION { SiteEntries[k] : k \in SiteLists } = {}

VARIABLES
    siteOf,     (* the supplier                                            *)
    holding,    (* documents the export log holds                          *)
    check,      (* the check: its phase, whether it was blocked before,    *)
                (* what it will ask next, what it listed, its warnings, and *)
                (* (history) what was on the site where it read nothing    *)
    checks,     (* coverage_check, by time                                 *)
    wereHeld,   (* history: what was held at some time in the check        *)
    everHeld    (* history: what was held at all times in the check        *)

coverageVars == <<siteOf, holding, check, checks, wereHeld, everHeld>>

AllEntries == UNION { SiteEntries[k] : k \in SiteLists }
DocumentsOn(items) == UNION { ShownOn[x] : x \in items }
SiteDocuments == DocumentsOn(SiteMeetings \cup AllEntries)
Suppliers == {"notubiz", "ibabs", "gemeenteoplossingen", "parlaeus"}
WithLists == {"notubiz", "ibabs"}
NoCheck == [phase |-> "none", again |-> FALSE, todo |-> {}, listed |-> {}, warnings |-> 0,
            unsaid |-> {}]

(* What the import would bring in: of the suppliers without lists, what    *)
(* hangs on meetings.                                                      *)
OurMeetings == SiteMeetings \ NotOurs
OurEntries ==
    (IF siteOf \in WithLists THEN UNION { SiteEntries[k] : k \in SiteLists \ NotOurs } ELSE {})
      \ NotOurs
OurItems == OurMeetings \cup OurEntries
OurDocuments == DocumentsOn(OurItems)

CoverageTypeOK ==
    /\ siteOf \in Suppliers /\ holding \subseteq SiteDocuments
    /\ check.phase \in {"none", "types", "meetings", "details", "lists", "entries", "compare"}
    /\ check.todo \subseteq SiteMeetings \cup SiteLists \cup AllEntries
    /\ check.listed \subseteq SiteDocuments /\ check.warnings \in Nat
    /\ check.unsaid \subseteq SiteMeetings \cup AllEntries
    /\ \A n \in DOMAIN checks :
          checks[n].missing \subseteq checks[n].listed /\ checks[n].listed \subseteq SiteDocuments
    /\ everHeld \subseteq wereHeld /\ wereHeld \subseteq SiteDocuments

CoverageInit ==
    /\ siteOf \in Suppliers /\ holding \in SUBSET SiteDocuments
    /\ check = NoCheck /\ checks = <<>> /\ wereHeld = {} /\ everHeld = {}
-----------------------------------------------------------------------------
(* An import adds a document, a removal takes one out.                     *)
HoldingChanges(d) ==
    /\ holding' = (holding \ {d}) \cup ({d} \ holding)
    /\ wereHeld' = wereHeld \cup holding' /\ everHeld' = everHeld \cap holding'
    /\ UNCHANGED <<siteOf, check, checks>>

Entered == [NoCheck EXCEPT !.phase = IF siteOf \in WithLists THEN "types" ELSE "meetings"]

BeginCheck ==
    /\ check = NoCheck /\ Len(checks) < MaxChecks
    /\ check' = Entered
    /\ wereHeld' = holding /\ everHeld' = holding
    /\ UNCHANGED <<siteOf, holding, checks>>

Recorded(outcome) == checks' = Append(checks, outcome)
Failure == [error |-> TRUE, listed |-> {}, missing |-> {}, warnings |-> 0, unsaid |-> {}]

CheckFails ==
    /\ Recorded(Failure) /\ check' = NoCheck
    /\ UNCHANGED <<siteOf, holding, wereHeld, everHeld>>

Goes(to) ==
    check' = to /\ UNCHANGED <<siteOf, holding, checks, wereHeld, everHeld>>
Warned(c) == [c EXCEPT !.warnings = @ + 1]
Lists(c, docs) == [c EXCEPT !.listed = @ \cup docs]
Unsaid(c, items) == [c EXCEPT !.unsaid = @ \cup items]

(* getOrganizationAttributes() has to answer, getMeetingTypes() may fail.  *)
AskTypes ==
    /\ check.phase = "types"
    /\ \/ Goes([check EXCEPT !.phase = "meetings"])
       \/ siteOf = "ibabs" /\ Goes(Warned([check EXCEPT !.phase = "meetings"]))
       \/ siteOf = "notubiz" /\ CheckFails

(* Only Notubiz lists meetings under others, in pages. A page that is read *)
(* as empty ends its listing; of GemeenteOplossingen and Parlaeus the one  *)
(* listing is; iBabs says that it failed.                                  *)
Assemblies == IF siteOf = "notubiz" THEN { m \in SiteMeetings : SiteUnder[m] # {} } ELSE {}
Under(meetings) == UNION { SiteUnder[m] : m \in meetings \cap Assemblies }
Tops == SiteMeetings \ Under(SiteMeetings)
TopsRead == IF siteOf = "notubiz" THEN SUBSET Tops ELSE IF siteOf = "ibabs" THEN {Tops} ELSE {Tops, {}}

(* An assembly that does not answer is a warning and hides the meetings    *)
(* under it; one that is read as bare hides them too.                      *)
AskMeetings ==
    /\ check.phase = "meetings"
    /\ \/ \E read \in TopsRead, silent, bare \in SUBSET Assemblies :
             /\ silent \subseteq read /\ bare \subseteq read \ silent
             /\ LET open == (read \cup Under(read)) \ Under(silent \cup bare)
                IN  Goes([Unsaid(check, SiteMeetings \ open) EXCEPT
                             !.phase = "details", !.todo = open \ NotOurs,
                             !.warnings = @ + Cardinality(silent)])
       \/ CheckFails
       \/ siteOf = "ibabs" /\ ~check.again /\ Goes([Entered EXCEPT !.again = TRUE])

(* A meeting that does not answer, or cannot be read, is a warning.        *)
AskDetail(m) ==
    /\ check.phase = "details" /\ m \in check.todo
    /\ LET asked == [check EXCEPT !.todo = @ \ {m}]
       IN  Goes(Lists(asked, ShownOn[m])) \/ Goes(Warned(asked))

DetailsDone ==
    /\ check.phase = "details" /\ check.todo = {}
    /\ Goes([check EXCEPT !.phase = IF siteOf \in WithLists THEN "lists" ELSE "compare"])

(* Without the lists the rest is compared. Mutant: and nothing is said.    *)
ListsSilentQuietly(c) == [c EXCEPT !.phase = "compare"]
ListsSilent(c) == Warned([c EXCEPT !.phase = "compare"])

(* An error of either supplier is read as no lists, and a list of iBabs    *)
(* with a blank name is passed over.                                       *)
ListsRead == IF siteOf = "ibabs" THEN SUBSET SiteLists ELSE {SiteLists, {}}

AskLists ==
    /\ check.phase = "lists"
    /\ \/ \E read \in ListsRead :
             Goes([Unsaid(check, UNION { SiteEntries[k] : k \in SiteLists \ read }) EXCEPT
                      !.phase = "entries", !.todo = read \ NotOurs])
       \/ Goes(ListsSilent(check))

(* The entries of a Notubiz module carry their documents, and an error is  *)
(* read as none; those of an iBabs list are asked one by one.              *)
AskList(k) ==
    /\ check.phase = "entries" /\ k \in check.todo \cap SiteLists
    /\ LET asked == [check EXCEPT !.todo = @ \ {k}]
           own == SiteEntries[k] \ NotOurs
       IN  \/ siteOf = "notubiz" /\ Goes(Lists(asked, DocumentsOn(own)))
           \/ siteOf = "notubiz" /\ Goes(Unsaid(asked, own))
           \/ siteOf = "ibabs" /\ Goes([asked EXCEPT !.todo = @ \cup own])
           \/ Goes(Warned(asked))

AskEntry(e) ==
    /\ check.phase = "entries" /\ e \in check.todo \cap AllEntries
    /\ LET asked == [check EXCEPT !.todo = @ \ {e}]
       IN  Goes(Lists(asked, ShownOn[e])) \/ Goes(Warned(asked))

EntriesDone ==
    /\ check.phase = "entries" /\ check.todo = {}
    /\ Goes([check EXCEPT !.phase = "compare"])

(* compareCoverage() and recordCoverageCheck(). Mutant: what is held and    *)
(* not listed.                                                             *)
MissingSwapped == holding \ check.listed
Missing == check.listed \ holding

Compare ==
    /\ check.phase = "compare"
    /\ Recorded([error |-> FALSE, listed |-> check.listed, missing |-> Missing,
                 warnings |-> check.warnings, unsaid |-> check.unsaid])
    /\ check' = NoCheck
    /\ UNCHANGED <<siteOf, holding, wereHeld, everHeld>>

CoverageNext ==
    \/ \E d \in SiteDocuments : HoldingChanges(d)
    \/ BeginCheck \/ AskTypes \/ AskMeetings \/ DetailsDone \/ AskLists \/ EntriesDone \/ Compare
    \/ \E m \in SiteMeetings : AskDetail(m)
    \/ \E k \in SiteLists : AskList(k)
    \/ \E e \in AllEntries : AskEntry(e)

CoverageSpec == CoverageInit /\ [][CoverageNext]_coverageVars

(* toSourceCoverage() of the latest check.                                 *)
PublishedCheck ==
    LET c == checks[Len(checks)]
    IN  [measured |-> ~c.error, complete |-> ~c.error /\ c.missing = {} /\ c.listed # {},
         lowerBound |-> c.error \/ c.warnings > 0]
-----------------------------------------------------------------------------
(* A check that is published without reserve listed every document the     *)
(* supplier shows of this organisation, but for those behind an answer it  *)
(* read as empty, of which nothing says so; what it counts as missing was  *)
(* not held all the time, what it counts as held was, at some time; it     *)
(* never counts what an import would leave.                                *)
CoverageIsTrue ==
    check = NoCheck /\ checks # <<>> =>
        LET c == checks[Len(checks)] IN
        /\ c.listed \subseteq OurDocuments
        /\ ~PublishedCheck.lowerBound => DocumentsOn(OurItems \ c.unsaid) \subseteq c.listed
        /\ c.listed \ c.missing \subseteq wereHeld
        /\ c.missing \cap everHeld = {}
=============================================================================
