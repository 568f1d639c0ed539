------------------------------- MODULE Takedown -------------------------------
(***************************************************************************)
(* Removing one document for good: deleteOne() (src/ops/delete_document.ts)*)
(* works through the index, object storage, the export log and the         *)
(* blocklist, while an import (src/ingest.ts), a reindex                   *)
(* (src/pipeline/reindex.ts) and a purge of the source                     *)
(* (src/ops/purge_source.ts) may be under way in other processes.          *)
(*                                                                         *)
(* The document has one page. A row of the index is one copy of the        *)
(* document or of the page, or a delete marker for one of them; readers    *)
(* keep the newest row of an entity and drop it when it is a marker.       *)
(***************************************************************************)
EXTENDS Integers, FiniteSets

CONSTANTS MaxTime,       (* bound: import commits and takedowns            *)
          MaxReindexes   (* bound: reindexes                               *)

ASSUME TakedownAssumption == MaxTime \in Nat /\ MaxReindexes \in Nat

VARIABLES
    clock,       (* time of the latest commit or markers                   *)
    rows,        (* the index: copies and markers                          *)
    doomed,      (* rows a delete task covers, not yet merged away         *)
    stored,      (* object storage holds the document                      *)
    feed,        (* the export log's newest record: live or a tombstone    *)
    blocked,     (* on the document blocklist                              *)
    import,      (* the import: its step and the rows it has buffered      *)
    reindex,     (* the reindex: the same, and how many there were         *)
    takedown,    (* the takedown: its step, and the pages it found         *)
    history      (* time of the newest import commit and markers; done: a
                    takedown succeeded; raced: a writer overlapped it      *)

takedownVars == <<clock, rows, doomed, stored, feed, blocked, import, reindex,
                  takedown, history>>
indexVars == <<rows, doomed>>

IndexRow == [part: {"document", "page"}, op: {"upsert", "delete"}, time: 1 .. MaxTime]
Copies(parts, time) == { [part |-> p, op |-> "upsert", time |-> time] : p \in parts }
Markers(parts, time) == { [part |-> p, op |-> "delete", time |-> time] : p \in parts }

TakedownTypeOK ==
    /\ clock \in 0 .. MaxTime
    /\ rows \subseteq IndexRow /\ doomed \subseteq rows
    /\ stored \in BOOLEAN /\ blocked \in BOOLEAN
    /\ feed \in [live: BOOLEAN, time: 0 .. MaxTime]
    /\ import \in [step: {"idle", "materialized", "committed"}, pending: SUBSET IndexRow]
    /\ reindex \in [step: {"idle", "read", "projected"}, pending: SUBSET IndexRow,
                    time: 0 .. MaxTime, count: 0 .. MaxReindexes]
    /\ takedown \in [step: {"idle", "inspected", "marked", "tasked", "cleared",
                            "tombstoned"}, pages: SUBSET {"page"}]
    /\ history \in [imported: 0 .. MaxTime, marked: 0 .. MaxTime,
                    done: BOOLEAN, raced: BOOLEAN]

TakedownInit ==
    /\ clock = 0
    /\ rows = {} /\ doomed = {}
    /\ stored = FALSE
    /\ feed = [live |-> FALSE, time |-> 0]
    /\ blocked = FALSE
    /\ import = [step |-> "idle", pending |-> {}]
    /\ reindex = [step |-> "idle", pending |-> {}, time |-> 0, count |-> 0]
    /\ takedown = [step |-> "idle", pages |-> {}]
    /\ history = [imported |-> 0, marked |-> 0, done |-> FALSE, raced |-> FALSE]
-----------------------------------------------------------------------------
(* ingestDocuments(): a batch refused half-way was taken in part, and one  *)
(* that is accepted lacks the rows too large for the index. What comes     *)
(* after a delete task is not covered by it.                               *)
Ingest(kept) ==
    /\ rows' = rows \cup kept
    /\ doomed' = doomed \ kept

(* A step of the import or the reindex overlaps a takedown.                *)
Overlaps ==
    history' = [history EXCEPT !.raced = @ \/ takedown.step # "idle"]

(* createDeleteTask() for the document and its pages. Mutant: the query    *)
(* names the document only.                                                *)
DeleteQueryDocumentOnly == { r \in rows : r.part = "document" }
DeleteQuery == rows

(* The janitor applies a task split by split, markers included.            *)
Merge ==
    /\ \E r \in doomed : /\ rows' = rows \ {r}
                         /\ doomed' = doomed \ {r}
    /\ UNCHANGED <<clock, stored, feed, blocked, import, reindex, takedown, history>>
-----------------------------------------------------------------------------
(* The import. materializeDocument() stores the document unless it is      *)
(* blocklisted; it is looked up again before the entity is committed.      *)
Materialize ==
    /\ import.step = "idle"
    /\ clock < MaxTime
    /\ import' = [import EXCEPT !.step = "materialized"]
    /\ stored' \in {stored, stored \/ ~blocked}
    /\ Overlaps
    /\ UNCHANGED <<clock, indexVars, feed, blocked, reindex, takedown>>

(* Mutant of Skips: only materializeDocument() looks at the blocklist.     *)
NeverSkips == FALSE
Skips == blocked

(* An unchanged document gets no new record, but its rows are dated now.   *)
CommitImport ==
    /\ import.step = "materialized"
    /\ IF Skips
       THEN /\ import' = [import EXCEPT !.step = "idle"]
            /\ UNCHANGED <<clock, feed, history>>
       ELSE /\ clock < MaxTime
            /\ clock' = clock + 1
            /\ feed' \in {[live |-> TRUE, time |-> clock + 1]}
                         \cup (IF feed.live THEN {feed} ELSE {})
            /\ import' = [step |-> "committed",
                           pending |-> Copies({"document", "page"}, clock + 1)]
            /\ history' = [history EXCEPT !.imported = clock + 1,
                                          !.raced = @ \/ takedown.step # "idle"]
    /\ UNCHANGED <<indexVars, stored, blocked, reindex, takedown>>

FlushImport ==
    /\ import.step = "committed"
    /\ \E kept \in SUBSET import.pending : Ingest(kept)
    /\ import' = [step |-> "idle", pending |-> {}]
    /\ Overlaps
    /\ UNCHANGED <<clock, stored, feed, blocked, reindex, takedown>>
-----------------------------------------------------------------------------
(* The reindex: a page of the snapshot, the text from storage, the rows of *)
(* that record dated with the record's own time. Mutant: dated now.        *)
RestampedRows(parts) == Copies(parts, clock)
ReindexedRows(parts) == Copies(parts, reindex.time)

ReadSnapshotPage ==
    /\ reindex.step = "idle"
    /\ reindex.count < MaxReindexes
    /\ feed.live
    /\ reindex' = [step |-> "read", pending |-> {}, time |-> feed.time,
                   count |-> reindex.count + 1]
    /\ UNCHANGED <<clock, indexVars, stored, feed, blocked, import, takedown, history>>

Rehydrate ==
    /\ reindex.step = "read"
    /\ reindex' = [reindex EXCEPT !.step = "projected", !.pending =
           ReindexedRows({"document"} \cup IF stored THEN {"page"} ELSE {})]
    /\ UNCHANGED <<clock, indexVars, stored, feed, blocked, import, takedown, history>>

FlushReindex ==
    /\ reindex.step = "projected"
    /\ \E kept \in SUBSET reindex.pending : Ingest(kept)
    /\ reindex' = [reindex EXCEPT !.step = "idle", !.pending = {}, !.time = 0]
    /\ Overlaps
    /\ UNCHANGED <<clock, stored, feed, blocked, import, takedown>>
-----------------------------------------------------------------------------
(* The takedown. It throws at any step, and is then run again by hand.     *)
GoOn(step) == takedown' = [takedown EXCEPT !.step = step]

InspectDocument ==
    /\ takedown.step = "idle"
    /\ ~history.done
    /\ clock < MaxTime
    /\ takedown' = [step |-> "inspected",
                    pages |-> { r.part : r \in rows } \cap {"page"}]
    /\ history' = [history EXCEPT !.raced = FALSE]
    /\ UNCHANGED <<clock, indexVars, stored, feed, blocked, import, reindex>>

IngestMarkers ==
    /\ takedown.step = "inspected"
    /\ clock < MaxTime
    /\ LET markers == Markers({"document"} \cup takedown.pages, clock + 1)
       IN  \/ /\ Ingest(markers)
              /\ GoOn("marked")
              /\ history' = [history EXCEPT !.marked = clock + 1]
           \/ /\ \E kept \in SUBSET markers : Ingest(kept)
              /\ GoOn("idle")
              /\ UNCHANGED history
    /\ clock' = clock + 1
    /\ UNCHANGED <<stored, feed, blocked, import, reindex>>

CreateDeleteTask ==
    /\ takedown.step = "marked"
    /\ doomed' = doomed \cup DeleteQuery
    /\ GoOn("tasked")
    /\ UNCHANGED <<clock, rows, stored, feed, blocked, import, reindex, history>>

ClearStorage ==
    /\ takedown.step = "tasked"
    /\ stored' = FALSE
    /\ GoOn("cleared")
    /\ UNCHANGED <<clock, indexVars, feed, blocked, import, reindex, history>>

RecordTombstone ==
    /\ takedown.step = "cleared"
    /\ feed' = [feed EXCEPT !.live = FALSE]
    /\ GoOn("tombstoned")
    /\ UNCHANGED <<clock, indexVars, stored, blocked, import, reindex, history>>

Blocklist ==
    /\ takedown.step = "tombstoned"
    /\ blocked' = TRUE
    /\ takedown' = [step |-> "idle", pages |-> {}]
    /\ history' = [history EXCEPT !.done = TRUE,
                     !.raced = @ \/ import.step # "idle" \/ reindex.step # "idle"]
    /\ UNCHANGED <<clock, indexVars, stored, feed, import, reindex>>

TakedownFails ==
    /\ takedown.step # "idle"
    /\ takedown' = [step |-> "idle", pages |-> {}]
    /\ doomed' \in {doomed, IF takedown.step = "marked" THEN doomed \cup DeleteQuery ELSE doomed}
    /\ UNCHANGED <<clock, rows, stored, feed, blocked, import, reindex, history>>
-----------------------------------------------------------------------------
(* The purge of the whole source: a tombstone for each live entity it      *)
(* listed, storage unless it gives up, and a delete task for the rows of   *)
(* the source, which markers do not name. The operator leaves steps out    *)
(* and runs it again, and each step may find what the one before was too   *)
(* early to see, so here each may come at any time.                        *)
PurgeTombstones ==
    /\ feed.live
    /\ feed' = [feed EXCEPT !.live = FALSE]
    /\ UNCHANGED <<clock, indexVars, stored, blocked, import, reindex, takedown, history>>

PurgeStorage ==
    /\ stored
    /\ stored' = FALSE
    /\ UNCHANGED <<clock, indexVars, feed, blocked, import, reindex, takedown, history>>

PurgeIndex ==
    /\ doomed' = doomed \cup { r \in rows : r.op = "upsert" }
    /\ UNCHANGED <<clock, rows, stored, feed, blocked, import, reindex, takedown, history>>
-----------------------------------------------------------------------------
TakedownNext ==
    \/ Materialize \/ CommitImport \/ FlushImport
    \/ ReadSnapshotPage \/ Rehydrate \/ FlushReindex
    \/ InspectDocument \/ IngestMarkers \/ CreateDeleteTask \/ ClearStorage
    \/ RecordTombstone \/ Blocklist \/ TakedownFails
    \/ PurgeTombstones \/ PurgeStorage \/ PurgeIndex
    \/ Merge

TakedownSpec == TakedownInit /\ [][TakedownNext]_takedownVars
-----------------------------------------------------------------------------
(* What readers show of a set of hits: the newest row unless a marker.     *)
NewestUpserts(hits) ==
    LET newest == { r \in hits : \A s \in hits : s.time <= r.time }
    IN  { r \in newest : r.op = "upsert" }

(* getEntityContent() asks by id; a search by text or organisation cannot  *)
(* match a marker, which carries neither.                                  *)
LookupById(part) == NewestUpserts({ r \in rows : r.part = part })
SearchByText(part) == NewestUpserts({ r \in rows : r.part = part /\ r.op = "upsert" })

(* After a takedown that no other writer overlapped, the document is out   *)
(* of storage and of the export log, every copy the index still holds is   *)
(* covered by a delete task, and no later import or reindex undoes it.     *)
TakenDownIsGone ==
    history.done /\ ~history.raced =>
        /\ ~stored /\ ~feed.live
        /\ \A r \in rows : r.op = "upsert" => r \in doomed

(* Until the janitor merges the marker away, the document is not found by  *)
(* its id, even when an import flushes or a reindex rewrites older copies  *)
(* after the marker, unless it was imported anew.                          *)
MarkerHidesOlderCopies ==
    (\E r \in rows : r.part = "document" /\ r.op = "delete" /\ r.time = history.marked)
    /\ history.imported < history.marked
        => LookupById("document") = {}

(* "The document disappears immediately": once the markers are in, no      *)
(* search shows it.                                                        *)
HiddenAtOnce ==
    takedown.step \in {"marked", "tasked"} /\ history.imported < history.marked
        => SearchByText("document") = {}
=============================================================================
