----------------------------- MODULE TimeRepair -----------------------------
(***************************************************************************)
(* Dutch clock times as instants (src/util/local_time.ts), and the script  *)
(* that corrects the iBabs records written while a clock time was stored   *)
(* as if it were UTC (src/pipeline/repair_ibabs_times.ts,                  *)
(* scripts/repair_ibabs_times.ts). It walks the snapshot of the export log *)
(* page by page, appends corrected records and projects them, while        *)
(* imports and takedowns write the same log; it may be killed and run      *)
(* again. Only the time a record was written tells a clock time from an    *)
(* instant.                                                                *)
(*                                                                         *)
(* Times are in hours; day 0 is the day before the clocks change, at 01:00 *)
(* UTC. Each record has one date.                                          *)
(***************************************************************************)
EXTENDS Integers, Sequences, FiniteSets

CONSTANTS Records,       (* entities of a source, in the snapshot's order  *)
          Readings,      (* clock times the supplier may give              *)
          SnapshotPage,  (* records of a page                              *)
          MaxVersions    (* bound: versions of a record                    *)

ASSUME TimeRepairAssumption ==
    /\ Records \subseteq Nat /\ IsFiniteSet(Records) /\ Readings \subseteq 3 .. 60
    /\ SnapshotPage \in Nat \ {0} /\ MaxVersions \in Nat \ {0}

VARIABLES
    clocks,      (* what the clocks do: nothing, go back, go forward       *)
    logged,      (* export_entity_state                                    *)
    searchable,  (* the newest row of the index                            *)
    repair,      (* the script: its phase, the copies it still has to look *)
                 (* at, what it appended, the id it has read up to         *)
    reading,     (* history: the clock time behind the latest version an   *)
                 (* import wrote, all of them, whether it was taken down   *)
    overtaken    (* history: records written between their page's read and *)
                 (* their repair                                           *)

timeRepairVars == <<clocks, logged, searchable, repair, reading, overtaken>>

Switch == 25
OffsetAt(t) ==
    IF (clocks = "back" /\ t < Switch) \/ (clocks = "forward" /\ t >= Switch) THEN 2 ELSE 1

(* amsterdamWallClockToUtc(): the offset is looked up twice, because the   *)
(* first guess may be on the wrong side of the switch; midnight is a date. *)
(* Mutant: looked up once.                                                 *)
WallClockToUtcOnce(w) == IF w % 24 = 0 THEN w ELSE w - OffsetAt(w)
WallClockToUtc(w) == IF w % 24 = 0 THEN w ELSE w - OffsetAt(w - OffsetAt(w))

Version == [op: {"upsert", "delete"}, at: 0 .. 62, early: BOOLEAN, n: 0 .. MaxVersions]
NoRepair == [phase |-> "none", page |-> <<>>, done |-> <<>>, upTo |-> 0, more |-> FALSE]

TimeRepairTypeOK ==
    /\ clocks \in {"still", "back", "forward"}
    /\ logged \in [Records -> Version] /\ searchable \in [Records -> Version]
    /\ repair.phase \in {"none", "reading", "repairing", "projecting"}
    /\ \A i \in DOMAIN repair.page : repair.page[i].record \in Records
    /\ \A i \in DOMAIN repair.done : repair.done[i].record \in Records
    /\ \A e \in Records : reading[e].latest \in reading[e].all /\ reading[e].all \subseteq Readings
    /\ overtaken \subseteq Records

(* Every record was written early, so it holds the clock time itself, or   *)
(* it was written after that and is right.                                 *)
TimeRepairInit ==
    /\ clocks \in {"still", "back", "forward"}
    /\ \E w \in [Records -> Readings], early \in [Records -> BOOLEAN] :
         /\ logged = [e \in Records |->
              [op |-> "upsert", at |-> IF early[e] THEN w[e] ELSE WallClockToUtc(w[e]),
               early |-> early[e], n |-> 0]]
         /\ reading = [e \in Records |-> [latest |-> w[e], all |-> {w[e]}, down |-> FALSE]]
    /\ searchable = logged
    /\ repair = NoRepair /\ overtaken = {}
-----------------------------------------------------------------------------
Write(e, version) ==
    /\ logged[e].n < MaxVersions
    /\ logged' = [logged EXCEPT ![e] = [version EXCEPT !.n = logged[e].n + 1]]

(* An import writes what the supplier says now, and so does a takedown;    *)
(* both end with their rows in the index.                                  *)
ImportWrites(e, w) ==
    /\ ~reading[e].down
    /\ Write(e, [op |-> "upsert", at |-> WallClockToUtc(w), early |-> FALSE, n |-> 0])
    /\ searchable' = [searchable EXCEPT ![e] = logged'[e]]
    /\ reading' = [reading EXCEPT ![e].latest = w, ![e].all = @ \cup {w}]
    /\ UNCHANGED <<clocks, repair, overtaken>>

TakedownWrites(e) ==
    /\ logged[e].op = "upsert"
    /\ Write(e, [logged[e] EXCEPT !.op = "delete", !.early = FALSE])
    /\ searchable' = [searchable EXCEPT ![e] = logged'[e]]
    /\ reading' = [reading EXCEPT ![e].down = TRUE]
    /\ UNCHANGED <<clocks, repair, overtaken>>

BeginRepair ==
    /\ repair = NoRepair
    /\ repair' = [NoRepair EXCEPT !.phase = "reading"]
    /\ UNCHANGED <<clocks, logged, searchable, reading, overtaken>>

(* readSnapshot(): copies of the next live records.                        *)
LiveAfter(id) == { e \in Records : e > id /\ logged[e].op = "upsert" }
PageOf(live) ==
    { e \in live : Cardinality({ f \in live : f < e }) < SnapshotPage }
InOrder(set) ==
    [i \in 1 .. Cardinality(set) |->
        CHOOSE e \in set : Cardinality({ f \in set : f < e }) = i - 1]

ReadPage ==
    /\ repair.phase = "reading"
    /\ LET live == LiveAfter(repair.upTo)
           ids == InOrder(PageOf(live))
       IN  repair' = [repair EXCEPT
             !.phase = "repairing", !.more = PageOf(live) # live,
             !.page = [i \in DOMAIN ids |-> [record |-> ids[i], copy |-> logged[ids[i]]]],
             !.upTo = IF ids = <<>> THEN @ ELSE ids[Len(ids)]]
    /\ UNCHANGED <<clocks, logged, searchable, reading, overtaken>>

(* planIbabsTimeRepair(). Mutant: whenever it was written.                 *)
NeedsRepairAlways(copy) == WallClockToUtc(copy.at) # copy.at
NeedsRepair(copy) == copy.early /\ WallClockToUtc(copy.at) # copy.at

(* The next copy of the page; what is appended is made from the copy.      *)
RepairRecord ==
    /\ repair.phase = "repairing" /\ repair.page # <<>>
    /\ LET e == Head(repair.page).record
           copy == Head(repair.page).copy
           rest == [repair EXCEPT !.page = Tail(@)]
       IN  IF NeedsRepair(copy)
           THEN /\ Write(e, [copy EXCEPT !.at = WallClockToUtc(@), !.early = FALSE])
                /\ repair' = [rest EXCEPT !.done =
                     Append(@, [record |-> e, copy |-> logged'[e]])]
                /\ overtaken' = overtaken \cup (IF logged[e] = copy THEN {} ELSE {e})
           ELSE repair' = rest /\ UNCHANGED <<logged, overtaken>>
    /\ UNCHANGED <<clocks, searchable, reading>>

PageRepaired ==
    /\ repair.phase = "repairing" /\ repair.page = <<>>
    /\ repair' = [repair EXCEPT !.phase = "projecting"]
    /\ UNCHANGED <<clocks, logged, searchable, reading, overtaken>>

(* onRepaired(): a row a record; of two rows the newer one is shown. A     *)
(* record whose text cannot be read is an issue and gets no row.           *)
ProjectRecord ==
    /\ repair.phase = "projecting" /\ repair.done # <<>>
    /\ LET e == Head(repair.done).record
           row == Head(repair.done).copy
       IN  \/ searchable' = [searchable EXCEPT ![e] = IF row.n > @.n THEN row ELSE @]
           \/ UNCHANGED searchable
    /\ repair' = [repair EXCEPT !.done = Tail(@)]
    /\ UNCHANGED <<clocks, logged, reading, overtaken>>

NextPage ==
    /\ repair.phase = "projecting" /\ repair.done = <<>>
    /\ repair' = IF repair.more THEN [repair EXCEPT !.phase = "reading"] ELSE NoRepair
    /\ UNCHANGED <<clocks, logged, searchable, reading, overtaken>>

RepairDies ==
    /\ repair # NoRepair
    /\ repair' = NoRepair
    /\ UNCHANGED <<clocks, logged, searchable, reading, overtaken>>

TimeRepairNext ==
    \/ \E e \in Records : TakedownWrites(e) \/ \E w \in Readings : ImportWrites(e, w)
    \/ BeginRepair \/ ReadPage \/ RepairRecord \/ PageRepaired
    \/ ProjectRecord \/ NextPage \/ RepairDies

TimeRepairSpec == TimeRepairInit /\ [][TimeRepairNext]_timeRepairVars
-----------------------------------------------------------------------------
(* A clock time becomes an instant at which the clocks show it; the hour   *)
(* that is skipped becomes one an hour off, the hour that comes twice one  *)
(* of the two.                                                             *)
ReadingsAreKept ==
    \A w \in Readings :
        LET t == WallClockToUtc(w)
            shows == { u \in w - 2 .. w : u + OffsetAt(u) = w }
        IN  w % 24 # 0 => IF shows # {} THEN t \in shows ELSE t + OffsetAt(t) - w \in {-1, 1}

(* However often the repair runs and is killed, and whatever is written    *)
(* meanwhile, no date is shifted twice; and a record nothing wrote between *)
(* its page's read and its repair says what was written last, also when    *)
(* that was a takedown. The index never shows what the log never said.     *)
TimesAreShiftedOnce ==
    /\ repair = NoRepair => ReadingsAreKept
    /\ \A e \in Records :
         LET version == logged[e] IN
         /\ version.op = "upsert" =>
              version.at \in { WallClockToUtc(w) : w \in reading[e].all }
                             \cup IF version.early THEN reading[e].all ELSE {}
         /\ e \notin overtaken =>
              /\ reading[e].down <=> version.op = "delete"
              /\ version.op = "upsert" =>
                   version.at = IF version.early THEN reading[e].latest
                                ELSE WallClockToUtc(reading[e].latest)
         /\ searchable[e].n <= version.n
         /\ searchable[e].n = version.n => searchable[e] = version
=============================================================================
