------------------------------- MODULE MCImports -------------------------------
(***************************************************************************)
(* The components of the import side, checked in one run. They share no    *)
(* variable: the initial state picks a component, only that one moves, and *)
(* the others rest in one initial state, so the states add up.             *)
(***************************************************************************)
EXTENDS TLC, MotionLinks, RunQueue, SourceRemovals, Materialize, Scheduler, Breaker,
        IbabsExtraction, NotubizExtraction, SiteExtraction, Transcript,
        IbabsClient, Backfill

CONSTANTS r1, v1, s1, w1, w2, m1, m2, d1, d2, d3, g1, g2, l1, l2,
          m3, e1, e2, e3, k1, k2, x1, c1, c2

VARIABLE component

OneRun == {r1}
OneWindow == {v1}
OneSubmitter == {s1}
TwoWorkers == {w1, w2}
TwoIds == {1, 2}
TwoMeetings == {m1, m2}
ThreeDocuments == {d1, d2, d3}
TwoSources == {g1, g2}
TwoLimiters == {l1, l2}

(* One entry is a motion, the others are on registers, which take one of   *)
(* them; one document hangs on two meetings and an entry, one on entries.  *)
(* The first meeting is an assembly with the third under it, and has a     *)
(* recording; one item is not public.                                      *)
ThreeMeetings == {m1, m2, m3}
TwoDocuments == {d1, d2}
ThreeEntries == {e1, e2, e3}
TwoLists == {k1, k2}
OneMotionList == {k1}
OneRecording == {x1}
TwoMembers == {c1, c2}
DaysHeld == [m \in ThreeMeetings |-> IF m = m2 THEN 2 ELSE 1]
OneAssembly == [m \in ThreeMeetings |-> IF m = m1 THEN {m3} ELSE {}]
Hanging == [x \in ThreeMeetings \cup ThreeEntries |->
    CASE x = m1 -> {d1} [] x \in {m2, e1} -> {d1} [] x = m3 -> {} [] OTHER -> {d2}]
ListsOfEntries == [e \in ThreeEntries |-> IF e = e1 THEN k1 ELSE k2]
OneRecorded == [m \in ThreeMeetings |-> IF m = m1 THEN OneRecording ELSE {}]
OneCommittee == [r \in {"committees", "parties", "persons"} |->
    IF r = "committees" THEN TwoMembers ELSE {}]
OnePrivateItem == {e3}

(* One meeting that lists everything and one that lists nothing or a       *)
(* document of the first; or the documents shared out between them.        *)
SomeLists ==
    { [m \in TwoMeetings |-> IF m = m1 THEN ThreeDocuments ELSE docs] :
        docs \in {{}, {d3}} }
    \cup { [m \in TwoMeetings |-> IF m = m1 THEN {d1, d2} ELSE {d3}] }

(* Three blocks of up to four seconds, two who may be speaking at once, and  *)
(* agendas with items out of order, at once, without an end and skipped.   *)
OnAir(first, last) == [start |-> first, end |-> last]
ShortBlocks ==
    [start: 0 .. 3, end: {1, 3, 4}, said: {TRUE}]
    \cup [start: {-1, 1}, end: {2}, said: {FALSE}]
BlocksInOrder ==
    { q \in UNION { [1 .. n -> ShortBlocks] : n \in 0 .. 3 } :
        \A i \in 2 .. Len(q) : q[i - 1].start <= q[i].start }
NobodyOrTwo ==
    { <<>>, <<[from |-> 0, to |-> 2, name |-> "a"], [from |-> 1, to |-> -1,
        name |-> "b"]>> }
SomeAgendas ==
    { <<>>, <<OnAir(2, 3), OnAir(0, -1)>>,
      <<OnAir(1, 2), OnAir(4, 4), OnAir(1, -1)>>, <<OnAir(4, 5), OnAir(-1, -1)>> }

(* Two meetings of one day, with items under items, and one of a sibling   *)
(* the next. Of the entries, one asks for a meeting by its name or by      *)
(* another, the second always by its name, and the third is anything.      *)
ItemOf(item, title, number) ==
    [item |-> item, title |-> title, number |-> number, under |-> <<>>]
TwoDays ==
    [m \in ThreeMeetings |->
       CASE m = m1 ->
              [day |-> 1, name |-> <<"raad">>, sibling |-> FALSE,
               agenda |-> <<[ItemOf("a1", <<"budget">>, 1) EXCEPT
                               !.under = <<ItemOf("a2", <<"budget", "debate">>, 2)>>]>>]
         [] m = m2 -> [day |-> 1, name |-> <<"raad", "extra">>, sibling |-> FALSE,
                       agenda |-> <<ItemOf("a3", <<>>, 1)>>]
         [] m = m3 -> [day |-> 2, name |-> <<"raad", "sibling">>, sibling |-> TRUE,
                       agenda |-> <<ItemOf("a4", <<"budget">>, 1)>>]]
Filing ==
    [motion |-> TRUE, agenda |-> "reference", name |-> <<"raad">>, day |-> 1,
     title |-> <<"budget">>, number |-> 2, entered |-> 0, changed |-> 0,
     fields |-> <<{}>>, items |-> <<>>, labelled |-> FALSE]
ByNameOrAnother ==
    {Filing, [Filing EXCEPT !.name = <<"raad", "extra">>, !.title = <<>>, !.number = 1],
     [Filing EXCEPT !.name = <<"werkgroep">>]}
Anything ==
    [motion: BOOLEAN, agenda: {"none", "dated", "reference"}, name: {<<"raad">>},
     day: {2, 9}, title: {<<>>}, number: {1}, entered: {9}, changed: {0, 3},
     fields: {<<{"praat"}, {"verworpen"}>>}, items: {<<>>}, labelled: {FALSE}]
NothingFiled == [supplier |-> "notubiz", entries |-> <<>>]
SomeFilings ==
    {NothingFiled} \cup
    [supplier: {"ibabs"},
     entries: { [e \in ThreeEntries |-> IF e = e1 THEN f ELSE IF e = e2 THEN Filing ELSE g] :
                  f \in ByNameOrAnother, g \in Anything }]
    \cup
    [supplier: {"notubiz"},
     entries: { [e \in {e1, e2} |->
                   [Filing EXCEPT !.motion = motion, !.items = items, !.fields = said,
                                  !.labelled = motion]] :
                  motion \in BOOLEAN, items \in {<<>>, <<"a2">>, <<"a9", "a3">>, <<"a1", "a3">>},
                  said \in {<<{"niet aangenomen"}, {"aangenomen"}>>,
                            <<{"praat"}, {"verworpen"}>>, <<{}, {}>>} }]
NoWait == {0}

(* Two years of short months, of which the second is as long as a chunk of *)
(* the history, which begins with neither; operators run these dates.      *)
ShortMonths == <<3, 5, 8>>
ShortYears == <<5, 8>>
OneHistory == {<<4, 8>>}
SomeByHand == {"full", "motions_only"} \X {<<6, 8>>}

ImportsInit ==
    /\ component \in {"queue", "removals", "materialize", "scheduler", "breaker", "extraction",
                     "transcript", "client", "links", "backfill"}
    /\ Init
    /\ RemovalsInit
    /\ records \in IF component = "removals" THEN SomeLists
                  ELSE {[m \in TwoMeetings |-> {}]}
    /\ MaterializeInit
    /\ component # "materialize" =>
          /\ ~setting.service /\ ~setting.quarantine /\ ~setting.rederive
          /\ ~file.pdf /\ ~file.text
    /\ SchedulerInit
    /\ component # "scheduler" => season = "none"
    /\ BreakerInit
    /\ IbabsInit \/ NotubizInit \/ SiteInit
    /\ plan.supplier = "ibabs" => plan.changed \in {ThreeEntries, {e1, e2}}
    /\ plan.supplier = "notubiz" => plan.changed = ThreeEntries
    /\ component # "extraction" => plan.supplier = "gemeenteoplossingen" /\ plan.mode = "full"
    /\ component = "transcript" \/ (cues = <<>> /\ speakers = <<>> /\ agenda = <<>>)
    /\ TranscriptInit
    /\ ClientInit
    /\ component # "client" => call.op = "download"
    /\ component = "links" \/ (filed = NothingFiled /\ window = {})
    /\ LinksInit
    /\ BackfillInit

LaterOnesRest == UNCHANGED <<transcriptVars, clientVars, linkVars, backfillVars>>

QueueStep ==
    /\ component = "queue"
    /\ Next
    /\ UNCHANGED <<component, removalsVars, materializeVars, schedulerVars, breakerVars,
                   importVars>>
    /\ LaterOnesRest

RemovalsStep ==
    /\ component = "removals"
    /\ RemovalsNext
    /\ UNCHANGED <<component, queueVars, materializeVars, schedulerVars, breakerVars,
                   importVars>>
    /\ LaterOnesRest

MaterializeStep ==
    /\ component = "materialize"
    /\ MaterializeNext
    /\ UNCHANGED <<component, queueVars, removalsVars, schedulerVars, breakerVars,
                   importVars>>
    /\ LaterOnesRest

SchedulerStep ==
    /\ component = "scheduler"
    /\ SchedulerNext
    /\ UNCHANGED <<component, queueVars, removalsVars, materializeVars, breakerVars,
                   importVars>>
    /\ LaterOnesRest

BreakerStep ==
    /\ component = "breaker"
    /\ BreakerNext
    /\ UNCHANGED <<component, queueVars, removalsVars, materializeVars, schedulerVars,
                   importVars>>
    /\ LaterOnesRest

ExtractionStep ==
    /\ component = "extraction"
    /\ IbabsNext \/ NotubizNext \/ SiteNext
    /\ UNCHANGED <<component, queueVars, removalsVars, materializeVars, schedulerVars,
                   breakerVars>>
    /\ LaterOnesRest

TranscriptStep ==
    /\ component = "transcript"
    /\ TranscriptNext
    /\ UNCHANGED <<component, queueVars, removalsVars, materializeVars, schedulerVars,
                   breakerVars, importVars, clientVars, linkVars, backfillVars>>

ClientStep ==
    /\ component = "client"
    /\ ClientNext
    /\ UNCHANGED <<component, queueVars, removalsVars, materializeVars, schedulerVars,
                   breakerVars, importVars, transcriptVars, linkVars, backfillVars>>

LinksStep ==
    /\ component = "links"
    /\ LinksNext
    /\ UNCHANGED <<component, queueVars, removalsVars, materializeVars, schedulerVars,
                   breakerVars, importVars, transcriptVars, clientVars, backfillVars>>

BackfillStep ==
    /\ component = "backfill"
    /\ BackfillNext
    /\ UNCHANGED <<component, queueVars, removalsVars, materializeVars, schedulerVars,
                   breakerVars, importVars, transcriptVars, clientVars, linkVars>>

ImportsNext ==
    \/ QueueStep \/ RemovalsStep \/ MaterializeStep
    \/ SchedulerStep \/ BreakerStep \/ ExtractionStep \/ TranscriptStep
    \/ ClientStep \/ LinksStep \/ BackfillStep

ImportsSpec ==
    ImportsInit /\ [][ImportsNext]_<<component, queueVars, removalsVars,
                                     materializeVars, schedulerVars, breakerVars, importVars,
                                     transcriptVars, clientVars, linkVars, backfillVars>>

(* Bounds on what goes wrong: two issues in one import of a Notubiz source, *)
(* and one call of the queue at a time that the watchdog has given up.     *)
FewTroubles ==
    /\ plan.supplier = "notubiz" => Cardinality(issues) <= 2
    /\ Cardinality({ x \in exec : x.phase = "detached" }) <= 1

(* The variables of the component that moves keep their types.             *)
ImportsTypeOK ==
    /\ component = "queue" => TypeOK
    /\ component = "removals" => RemovalsTypeOK
    /\ component = "materialize" => MaterializeTypeOK
    /\ component = "scheduler" => SchedulerTypeOK
    /\ component = "breaker" => BreakerTypeOK
    /\ component = "extraction" =>
          RunTypeOK /\ (IbabsTypeOK \/ NotubizTypeOK \/ SiteTypeOK)
    /\ component = "transcript" => TranscriptTypeOK
    /\ component = "client" => ClientTypeOK
    /\ component = "links" => LinksTypeOK
    /\ component = "backfill" => BackfillTypeOK

(* A run is executed by one claim of one worker until a reconcile touches  *)
(* it while it runs, and is not taken up more often than the cap allows,   *)
(* whatever crashes, stalls, deploys and late progress come in between.    *)
ClaimsHold == component = "queue" => ClaimsAreExclusive /\ AttemptsBounded

(* Each limiter keeps to the block it knows of but for the one request     *)
(* past the check, and is told of every throttle; a SOAP call gives up on  *)
(* a throttle and on a lost connection after their own patience, and, but  *)
(* for GetLists, takes no error of the supplier for an empty answer.       *)
ThrottlesAreHeeded ==
    /\ component = "breaker" => ThrottleHolds
    /\ component = "client" => ClientIsHonest

(* An import of any supplier that does not fail leaves nothing out in      *)
(* silence: what its window held, or the answers named, is committed, or   *)
(* withheld as blocklisted, or an issue accounts for it, and likewise the  *)
(* rows the index lost. What an issue accounts for is each extractor's. And *)
(* no word of a recording is lost, or given to another speaker; a motion   *)
(* that is placed is placed under its own meeting, day and outcome, though *)
(* one whose meeting was not found is placed nowhere; and a plan of a      *)
(* source's history that came to its end left no hole but those of Owed.   *)
NothingLostSilently ==
    /\ plan.supplier = "ibabs" => IbabsLosesNothing
    /\ plan.supplier = "notubiz" => NotubizLosesNothing
    /\ plan.supplier \in {"gemeenteoplossingen", "parlaeus"} => SiteLosesNothing
    /\ component = "transcript" => WordsStayWithTheirSpeaker
    /\ component = "links" => MotionsFindTheirMeeting
    /\ component = "backfill" => NoHoleIsLeft
=============================================================================
