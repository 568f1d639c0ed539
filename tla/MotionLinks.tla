------------------------------ MODULE MotionLinks ------------------------------
(***************************************************************************)
(* How an import finds the meeting and the agenda item a motion belongs    *)
(* to, and what became of it: the index of the run's meetings and the      *)
(* reading of outcomes (src/motions/normalize.ts), the days that iBabs is  *)
(* asked for on demand (src/ibabs/extractor.ts, normalize.ts) and the      *)
(* references of Notubiz (src/notubiz/motions.ts).                         *)
(*                                                                         *)
(* Names and titles are sequences of words, already compared without case  *)
(* and spacing; a status is the set of words with a meaning in it. A day   *)
(* is a number, and Horizon the last one that is plausible.                *)
(***************************************************************************)
EXTENDS Integers, Sequences, FiniteSets

CONSTANTS Calendar,   (* per meeting: day, name, agenda, and whether its   *)
                      (* name is a sibling's of the same site              *)
          Filings,    (* what the entries may say: sets of functions, per  *)
                      (* supplier, from the entries to their fields        *)
          Horizon,
          NoLink

IsList(s) == Len(s) \in Nat /\ DOMAIN s = 1 .. Len(s)

(* A sibling is told by the meeting's name.                                *)
ASSUME LinksAssumption ==
    /\ IsFiniteSet(DOMAIN Calendar) /\ NoLink \notin DOMAIN Calendar
    /\ \A m \in DOMAIN Calendar :
          /\ Calendar[m].day \in Nat /\ Calendar[m].sibling \in BOOLEAN
          /\ IsList(Calendar[m].agenda)
          /\ \A i \in DOMAIN Calendar[m].agenda : IsList(Calendar[m].agenda[i].under)
          /\ \A n \in DOMAIN Calendar : Calendar[m].name = Calendar[n].name =>
                                           Calendar[m].sibling = Calendar[n].sibling
    /\ \A given \in Filings :
          /\ given.supplier \in {"ibabs", "notubiz"}
          /\ \A e \in DOMAIN given.entries :
                /\ IsList(given.entries[e].fields) /\ IsList(given.entries[e].items)
                /\ \A i \in DOMAIN given.entries[e].items : given.entries[e].items[i] # NoLink

VARIABLES
    filed,        (* the supplier and its entries' fields                  *)
    window,       (* the meetings of the run's window not yet indexed      *)
    meetingIndex, (* MeetingIndex: the meetings in the order of add()      *)
    loads,        (* dateLoads: of each day, whether it was asked for      *)
    placed,       (* of each entry, where it is and what it is linked to   *)
    missed        (* the days an issue was registered for                  *)

linkVars == <<filed, window, meetingIndex, loads, placed, missed>>

CalendarMeetings == DOMAIN Calendar
LinkEntries == DOMAIN filed.entries
LinkDays == { Calendar[m].day : m \in CalendarMeetings }
    \cup { filed.entries[e].day : e \in LinkEntries }
Unplaced == [step |-> "waiting", meeting |-> NoLink, item |-> NoLink, hinted |-> FALSE,
           day |-> 0, result |-> "none"]

LinksTypeOK ==
    /\ filed.supplier \in {"ibabs", "notubiz"} /\ window \subseteq CalendarMeetings
    /\ meetingIndex \in Seq(CalendarMeetings) /\ missed \subseteq LinkDays
    /\ loads \in [LinkDays -> {"no", "asked", "done"}]
    /\ \A e \in LinkEntries :
          /\ placed[e].step \in {"waiting", "asked", "placed", "failed"}
          /\ placed[e].meeting \in CalendarMeetings \cup {NoLink}

(* The window holds whole days, none with motions_only. Of a window of     *)
(* Notubiz any meeting may have failed.                                    *)
LinksInit ==
    /\ filed \in Filings /\ window \in SUBSET CalendarMeetings
    /\ filed.supplier = "ibabs" =>
          \A m, n \in CalendarMeetings :
              Calendar[m].day = Calendar[n].day => (m \in window <=> n \in window)
    /\ meetingIndex = <<>> /\ missed = {}
    /\ loads = [day \in LinkDays |-> "no"]
    /\ placed = [e \in LinkEntries |-> Unplaced]
-----------------------------------------------------------------------------
(* flattenAgenda(): an item, then those under it.                          *)
AgendaPlaces(m) ==
    { <<i, 0>> : i \in DOMAIN Calendar[m].agenda } \cup
    UNION { { <<i, j>> : j \in DOMAIN Calendar[m].agenda[i].under } :
              i \in DOMAIN Calendar[m].agenda }
ItemAt(m, p) ==
    IF p[2] = 0 THEN Calendar[m].agenda[p[1]] ELSE Calendar[m].agenda[p[1]].under[p[2]]
Comes(p, q) == p[1] < q[1] \/ (p[1] = q[1] /\ p[2] <= q[2])
Topmost(places) == CHOOSE p \in places : \A q \in places : Comes(p, q)
ItemsOf(m) == { ItemAt(m, p).item : p \in AgendaPlaces(m) }

(* belongsToSiteSibling(): on a shared iBabs site, by the meeting's name.  *)
OfSibling(m) == filed.supplier = "ibabs" /\ Calendar[m].sibling

Add(m) == meetingIndex' = Append(meetingIndex, m)

(* The window's meetings reach the index in some order, less the siblings'. *)
IndexMeeting ==
    \E m \in window :
        /\ window' = window \ {m}
        /\ IF OfSibling(m) THEN UNCHANGED meetingIndex ELSE Add(m)
        /\ UNCHANGED <<filed, loads, placed, missed>>

(* Of the places in a list.                                                *)
Earliest(places) == CHOOSE i \in places : \A j \in places : i <= j
Latest(places) == CHOOSE i \in places : \A j \in places : j <= i

(* Where the meetings of a day are in the index.                           *)
KnownOn(day) == { i \in DOMAIN meetingIndex : Calendar[meetingIndex[i]].day = day }
HasDate(day) == KnownOn(day) # {}
Alongside(s, t) == \A i \in DOMAIN s \cap DOMAIN t : s[i] = t[i]

(* MeetingIndex.find(): the meeting of that name, the last one added; or   *)
(* the first whose name is longer or shorter; or the only one that day.    *)
Find(ref) ==
    LET sameDay == KnownOn(ref.day)
        exact == { i \in sameDay : Calendar[meetingIndex[i]].name = ref.name }
        alike == { i \in sameDay : Alongside(Calendar[meetingIndex[i]].name, ref.name) }
    IN  IF exact # {} THEN meetingIndex[Latest(exact)]
        ELSE IF alike # {} THEN meetingIndex[Earliest(alike)]
        ELSE IF Cardinality(sameDay) = 1 THEN meetingIndex[Earliest(sameDay)] ELSE NoLink

(* findAgendaItemId(): by the title, or else by the number.                *)
FindAgendaItem(m, ref) ==
    LET titled == { p \in AgendaPlaces(m) :
                      /\ ref.title # <<>> /\ ItemAt(m, p).title # <<>>
                      /\ Alongside(ItemAt(m, p).title, ref.title) }
        numbered == { p \in AgendaPlaces(m) :
                      ref.number # 0 /\ ItemAt(m, p).number = ref.number }
    IN  IF titled # {} THEN ItemAt(m, Topmost(titled)).item
        ELSE IF numbered # {} THEN ItemAt(m, Topmost(numbered)).item ELSE NoLink

(* findByAgendaItem(): of the meetings that list an item, the last added.  *)
OwnerOf(item) ==
    LET owners == { i \in DOMAIN meetingIndex : item \in ItemsOf(meetingIndex[i]) }
    IN  IF owners = {} THEN NoLink ELSE meetingIndex[Latest(owners)]

(* normalizeMotionResult(): the order of the tests matters. Mutant: the     *)
(* negation is not looked for.                                             *)
ResultWithoutNegation(status) ==
    IF status = {} THEN "none"
    ELSE IF "ingetrokken" \in status THEN "ingetrokken"
    ELSE IF "aangehouden" \in status THEN "aangehouden"
    ELSE IF status \cap {"aangenomen", "niet aangenomen"} # {} THEN "aangenomen"
    ELSE IF "verworpen" \in status THEN "verworpen"
    ELSE "overig"
NormalizeMotionResult(status) ==
    IF status = {} THEN "none"
    ELSE IF "ingetrokken" \in status THEN "ingetrokken"
    ELSE IF "aangehouden" \in status THEN "aangehouden"
    ELSE IF "niet aangenomen" \in status THEN "verworpen"
    ELSE IF "aangenomen" \in status THEN "aangenomen"
    ELSE IF "verworpen" \in status THEN "verworpen"
    ELSE "overig"

FilledIn(fields) == { i \in DOMAIN fields : fields[i] # {} }

(* motionStatus(), pickStatus(): the first field that names an outcome,    *)
(* or else the first filled in.                                            *)
PickStatus(fields) ==
    LET decisive == { i \in FilledIn(fields) : NormalizeMotionResult(fields[i]) # "overig" }
    IN  IF decisive # {} THEN fields[Earliest(decisive)]
        ELSE IF FilledIn(fields) # {} THEN fields[Earliest(FilledIn(fields))] ELSE {}

Plausible(day) == day # 0 /\ day <= Horizon

(* The first day given that can be taken at its word; 0 stands for none.   *)
FirstDay(days) ==
    LET given == { i \in DOMAIN days : days[i] # 0 }
    IN  IF given = {} THEN 0 ELSE days[Earliest(given)]
DayIfPlausible(day) == IF Plausible(day) THEN day ELSE 0
(* parseMotionDate() and findDateInText() of the agenda field.              *)
NamedDay(f) == IF f.agenda = "none" THEN 0 ELSE DayIfPlausible(f.day)
DayOf(m) == IF m = NoLink THEN 0 ELSE Calendar[m].day
-----------------------------------------------------------------------------
Becomes(e, record) == placed' = [placed EXCEPT ![e] = record]
Refers(f) == f.agenda = "reference"

(* An entry of iBabs asks for its day, unless another did or the index     *)
(* knows a meeting of it.                                                  *)
AsksForDay(e) ==
    LET f == filed.entries[e]
    IN  /\ filed.supplier = "ibabs" /\ window = {} /\ placed[e].step = "waiting"
        /\ Becomes(e, [placed[e] EXCEPT !.step = "asked"])
        /\ loads' = IF Refers(f) /\ loads[f.day] = "no"
                    THEN [loads EXCEPT ![f.day] = IF HasDate(f.day) THEN "done" ELSE "asked"]
                    ELSE loads
        /\ UNCHANGED <<filed, window, meetingIndex, missed>>

(* The day's meetings are indexed, the siblings' among them.               *)
DayAnswers(day) ==
    /\ loads[day] = "asked" /\ loads' = [loads EXCEPT ![day] = "done"]
    /\ LET ofDay == { m \in CalendarMeetings : Calendar[m].day = day }
       IN  \E answer \in [1 .. Cardinality(ofDay) -> ofDay] :
              /\ \A m \in ofDay : \E i \in DOMAIN answer : answer[i] = m
              /\ meetingIndex' = meetingIndex \o answer
    /\ UNCHANGED <<filed, window, placed, missed>>

(* The entries that wait for the day go on without it.                     *)
DayFails(day) ==
    /\ loads[day] = "asked" /\ loads' = [loads EXCEPT ![day] = "done"]
    /\ missed' = missed \cup {day}
    /\ UNCHANGED <<filed, window, meetingIndex, placed>>

(* Its details or its votes cannot be read.                                *)
EntryLost(e) ==
    /\ filed.supplier = "ibabs" /\ window = {}
    /\ \/ placed[e].step = "waiting"
       \/ /\ placed[e].step = "asked"
          /\ (Refers(filed.entries[e]) => loads[filed.entries[e].day] = "done")
    /\ Becomes(e, [placed[e] EXCEPT !.step = "failed"])
    /\ UNCHANGED <<filed, window, meetingIndex, loads, missed>>

(* normalizeIbabsMotion()                                                  *)
IbabsMotion(f, m) ==
    LET item == IF m = NoLink THEN NoLink ELSE FindAgendaItem(m, f)
    IN  [step |-> "placed", meeting |-> m, item |-> item,
         hinted |-> f.agenda # "none" /\ (m = NoLink \/ item = NoLink),
         day |-> FirstDay(<<DayOf(m), NamedDay(f), DayIfPlausible(f.entered), f.changed>>),
         result |-> NormalizeMotionResult(PickStatus(f.fields))]

(* normalizeIbabsRegisterDocuments() reads no day from the agenda field    *)
(* and no outcome.                                                         *)
IbabsRegister(f, m) ==
    [step |-> "placed", meeting |-> m, item |-> NoLink, hinted |-> FALSE,
     day |-> FirstDay(<<DayOf(m), DayIfPlausible(f.entered), f.changed>>),
     result |-> "none"]

(* Mutant: an entry that finds its day asked for does not wait for it.     *)
DayAskedFor(f) == loads[f.day] \in {"asked", "done"}
DayReady(f) == loads[f.day] = "done"
IbabsPlaced(e) ==
    LET f == filed.entries[e]
        m == IF Refers(f) THEN Find(f) ELSE NoLink
    IN  /\ placed[e].step = "asked" /\ (Refers(f) => DayReady(f))
        /\ Becomes(e, IF f.motion THEN IbabsMotion(f, m) ELSE IbabsRegister(f, m))
        /\ UNCHANGED <<filed, window, meetingIndex, loads, missed>>

(* Of the items a Notubiz entry refers to: those of a meeting of this run. *)
KnownItems(f) == { i \in DOMAIN f.items : OwnerOf(f.items[i]) # NoLink }
FirstKnown(f) == f.items[Earliest(KnownItems(f))]
FirstOwner(f) == IF KnownItems(f) = {} THEN NoLink ELSE OwnerOf(FirstKnown(f))

(* normalizeNotubizMotion(): the first item known, or the first at all.    *)
NotubizMotion(f) ==
    [step |-> "placed", meeting |-> FirstOwner(f),
     item |-> IF KnownItems(f) # {} THEN FirstKnown(f)
              ELSE IF f.items # <<>> THEN Head(f.items) ELSE NoLink,
     hinted |-> FirstOwner(f) = NoLink /\ f.labelled,
     day |-> FirstDay(<<DayOf(FirstOwner(f)), f.entered>>),
     result |-> NormalizeMotionResult(PickStatus(f.fields))]

(* normalizeNotubizRegisterDocuments()                                     *)
NotubizRegister(f) ==
    [step |-> "placed", meeting |-> FirstOwner(f), item |-> NoLink, hinted |-> FALSE,
     day |-> FirstDay(<<DayOf(FirstOwner(f)), f.entered, f.changed>>), result |-> "none"]

(* Nothing is asked for on demand.                                         *)
NotubizPlaced(e) ==
    LET f == filed.entries[e]
    IN  /\ filed.supplier = "notubiz" /\ window = {} /\ placed[e].step = "waiting"
        /\ Becomes(e, IF f.motion THEN NotubizMotion(f) ELSE NotubizRegister(f))
        /\ UNCHANGED <<filed, window, meetingIndex, loads, missed>>

LinksNext ==
    \/ IndexMeeting
    \/ \E e \in LinkEntries :
          AsksForDay(e) \/ EntryLost(e) \/ IbabsPlaced(e) \/ NotubizPlaced(e)
    \/ \E day \in LinkDays : DayAnswers(day) \/ DayFails(day)

LinksSpec == LinksInit /\ [][LinksNext]_linkVars
-----------------------------------------------------------------------------
PlacedMotions ==
    { e \in LinkEntries : placed[e].step = "placed" /\ filed.entries[e].motion }

(* A motion is linked to a meeting of the day its registry names, and to   *)
(* an item of that meeting and no other; for Notubiz, to one it refers to. *)
LinkedWithinItsMeeting ==
    \A e \in LinkEntries : placed[e].meeting # NoLink =>
        LET f == filed.entries[e]
        IN  /\ placed[e].item # NoLink => placed[e].item \in ItemsOf(placed[e].meeting)
            /\ filed.supplier = "ibabs" => DayOf(placed[e].meeting) = f.day
            /\ filed.supplier = "notubiz" =>
                  \E i \in DOMAIN f.items : f.items[i] \in ItemsOf(placed[e].meeting)

(* Whatever the window, and whichever entry asks first: a motion of iBabs  *)
(* that names a meeting of its own organization is linked to a meeting of  *)
(* that name and day, or an issue names the day. So a later import does    *)
(* not replace a linked motion with an unlinked one in silence.            *)
ReimportKeepsTheLink ==
    filed.supplier = "ibabs" =>
        \A e \in PlacedMotions :
            LET f == filed.entries[e]
                meant == { m \in CalendarMeetings :
                             /\ ~Calendar[m].sibling /\ Calendar[m].day = f.day
                             /\ Calendar[m].name = f.name }
            IN  Refers(f) /\ meant # {} => placed[e].meeting \in meant \/ f.day \in missed

(* What could not be linked keeps the words of its registry, and no motion *)
(* that anything dates is without a day or beyond the horizon by its own   *)
(* account.                                                                *)
UnlinkedKeepsItsHint ==
    \A e \in PlacedMotions :
        LET f == filed.entries[e]
            refers == IF filed.supplier = "ibabs" THEN f.agenda # "none" ELSE f.items # <<>>
        IN  /\ refers /\ placed[e].meeting = NoLink =>
                  placed[e].hinted \/ placed[e].item # NoLink
            /\ filed.supplier = "ibabs" /\ (f.changed # 0 \/ (refers /\ Plausible(f.day))) =>
                  placed[e].day # 0

(* A rejection is never read as an adoption, in whichever field it is: what *)
(* is adopted says so before any field says otherwise. And prose in the    *)
(* first field does not hide the outcome in the second.                    *)
Outcomes == {"aangenomen", "niet aangenomen", "verworpen", "ingetrokken", "aangehouden"}
OutcomeIsTheRegistrys ==
    \A e \in PlacedMotions :
        LET fields == filed.entries[e].fields
        IN  /\ placed[e].result = "aangenomen" =>
                  \E i \in DOMAIN fields :
                      /\ "aangenomen" \in fields[i]
                      /\ \A j \in 1 .. i - 1 : fields[j] \cap Outcomes = {}
            /\ (\E i \in DOMAIN fields : fields[i] \cap Outcomes # {}) =>
                  placed[e].result \notin {"none", "overig"}

MotionsFindTheirMeeting ==
    /\ LinkedWithinItsMeeting /\ ReimportKeepsTheLink
    /\ UnlinkedKeepsItsHint /\ OutcomeIsTheRegistrys
=============================================================================
