----------------------------- MODULE ExportSync -----------------------------
(***************************************************************************)
(* A consumer that keeps a copy of one source, API.md "Bulk export": it    *)
(* pages through readSnapshot(), remembers the changes cursor of the first *)
(* page, and then polls readChanges() from there.                          *)
(*                                                                         *)
(* Both reads are several statements, run by the web process while the     *)
(* workers keep writing the same SQLite file. readSnapshot() reads         *)
(* export_head, then the rows. readChanges() lists the segments, awaits    *)
(* their objects, then selects the pending tail: no transaction holds the  *)
(* two selects together. Between two statements of a request any step of   *)
(* ExportLog may happen.                                                   *)
(***************************************************************************)
EXTENDS ExportLog, FiniteSets

CONSTANTS Limit,     (* records per page                                   *)
          NoCursor   (* the consumer has no changes cursor yet             *)

ASSUME SyncAssumption ==
    /\ Limit \in Nat \ {0}
    /\ NoCursor \notin 0 .. MaxSeq
    /\ IsFiniteSet(Entities)

VARIABLES
    request,         (* the request the web process is in the middle of    *)
    after,           (* consumer: last entity id of the snapshot pages     *)
    cursor,          (* consumer: changes cursor                           *)
    copy,            (* consumer: its copy of the source                   *)
    snapshotDone,    (* consumer: the last snapshot page has been read     *)
    skipped          (* history: numbers a page of changes jumped over     *)

consumerVars == <<request, after, cursor, copy, snapshotDone, skipped>>
syncVars == <<logVars, consumerVars>>

NoRequest == [kind |-> "none", head |-> 0, listed |-> {}]

SyncTypeOK ==
    /\ request \in [kind: {"none", "snapshot", "changes"}, head: 0 .. MaxSeq,
                    listed: SUBSET [start: Seqs, end: Seqs]]
    /\ after \in Entities \cup {-1}
    /\ cursor \in 0 .. MaxSeq \cup {NoCursor}
    /\ copy \in [Entities -> Record \cup {NoRecord}]
    /\ snapshotDone \in BOOLEAN
    /\ skipped \subseteq Seqs
-----------------------------------------------------------------------------
SyncInit ==
    /\ Init
    /\ request = NoRequest
    /\ after = -1
    /\ cursor = NoCursor
    /\ copy = [e \in Entities |-> NoRecord]
    /\ snapshotDone = FALSE
    /\ skipped = {}

(* readSnapshot(), first statement: headNextSeq().                         *)
ReadSnapshotHead ==
    /\ request.kind = "none"
    /\ ~snapshotDone
    /\ request' = [kind |-> "snapshot", head |-> nextSeq, listed |-> {}]
    /\ UNCHANGED <<logVars, after, cursor, copy, snapshotDone, skipped>>

(* The first rows of those found, in the order of their ids.               *)
SnapshotPage(rows) == { e \in rows : Cardinality({ d \in rows : d < e }) < Limit }
LastRow(page) == CHOOSE e \in page : \A d \in page : d <= e

(* Mutant of ReadSnapshotRows: the changes cursor of the last page.        *)
ReadSnapshotRowsLastHead ==
    /\ request.kind = "snapshot"
    /\ LET rows == { e \in Entities : e > after /\ Live(entityState[e]) }
           page == SnapshotPage(rows)
       IN  /\ copy' = [e \in Entities |-> IF e \in page THEN entityState[e] ELSE copy[e]]
           /\ after' = IF page = {} THEN after ELSE LastRow(page)
           /\ snapshotDone' = (Cardinality(rows) <= Limit)
    /\ cursor' = request.head
    /\ request' = NoRequest
    /\ UNCHANGED <<logVars, skipped>>

(* readSnapshot(), second statement: the live rows after the cursor, in    *)
(* entity order; one row more than the page tells whether there is more.   *)
(* The consumer keeps the changes cursor of the first page only.           *)
ReadSnapshotRows ==
    /\ request.kind = "snapshot"
    /\ LET rows == { e \in Entities : e > after /\ Live(entityState[e]) }
           page == SnapshotPage(rows)
       IN  /\ copy' = [e \in Entities |-> IF e \in page THEN entityState[e] ELSE copy[e]]
           /\ after' = IF page = {} THEN after ELSE LastRow(page)
           /\ snapshotDone' = (Cardinality(rows) <= Limit)
    /\ cursor' = IF cursor = NoCursor THEN request.head ELSE cursor
    /\ request' = NoRequest
    /\ UNCHANGED <<logVars, skipped>>

(* Mutant of ListSegments: a segment the cursor is inside of is left out.  *)
ListSegmentsFromStart ==
    /\ request.kind = "none"
    /\ snapshotDone
    /\ request' = [kind |-> "changes", head |-> 0,
                   listed |-> { s \in segments : s.start >= cursor }]
    /\ UNCHANGED <<logVars, after, cursor, copy, snapshotDone, skipped>>

(* readChanges(), first statement: the segments that reach the cursor.     *)
ListSegments ==
    /\ request.kind = "none"
    /\ snapshotDone
    /\ request' = [kind |-> "changes", head |-> 0,
                   listed |-> { s \in segments : s.end >= cursor }]
    /\ UNCHANGED <<logVars, after, cursor, copy, snapshotDone, skipped>>

(* A record on a page of changes, and where it is from: the start of the   *)
(* segment, or behind all of them for the tail. Segments come in the order *)
(* of start_seq, and records in the order of their numbers.                *)
Line(place, r) == [at |-> place, record |-> r]
Behind == MaxSeq
Before(k, l) == k.at < l.at \/ (k.at = l.at /\ k.record.seq < l.record.seq)
LastOf(lines) == CHOOSE l \in lines : \A k \in lines : k = l \/ Before(k, l)
FirstOf(lines) == { l \in lines : Cardinality({ k \in lines : Before(k, l) }) < Limit }

(* The records in the object of a segment.                                 *)
RowsOf(s) == UNION { o.rows : o \in { q \in objects : q.start = s.start /\ q.end = s.end } }

SegmentLines(listed, from) ==
    UNION { { Line(s.start, r) : r \in { q \in RowsOf(s) : q.seq >= from } } : s \in listed }

(* Mutant of NextCursor: one number too far.                               *)
NextCursorTooFar(page, from) ==
    IF page = {} THEN from ELSE LastOf(page).record.seq + 2

(* Where to go on: behind the last record read.                            *)
NextCursor(page, from) ==
    IF page = {} THEN from ELSE LastOf(page).record.seq + 1

(* Mutant of ChangesPage: the tail starts one number late.                 *)
ChangesPageSkippingOne(listed, from) ==
    LET published == SegmentLines(listed, from)
        rest == { r \in pending : r.seq > NextCursor(published, from) }
    IN  FirstOf(published \cup { Line(Behind, r) : r \in rest })

(* The page: segments first, then the pending tail behind the last record. *)
ChangesPage(listed, from) ==
    LET published == SegmentLines(listed, from)
        rest == { r \in pending : r.seq >= NextCursor(published, from) }
    IN  FirstOf(published \cup { Line(Behind, r) : r \in rest })

(* Applying the records of a page one after the other: of each entity the  *)
(* last one stays. An upsert replaces, a tombstone removes.                *)
Applied(page) ==
    [e \in Entities |->
        LET lines == { l \in page : l.record.entity = e } IN
        IF lines = {} THEN copy[e]
        ELSE IF LastOf(lines).record.op = "delete" THEN NoRecord ELSE LastOf(lines).record]

(* readChanges(), last statement: the objects have been fetched, the tail  *)
(* is selected and the consumer applies the page.                          *)
ReadChanges ==
    /\ request.kind = "changes"
    /\ \E page \in {ChangesPage(request.listed, cursor)} :
          /\ copy' = Applied(page)
          /\ cursor' = NextCursor(page, cursor)
          /\ skipped' = skipped \cup ((cursor .. (NextCursor(page, cursor) - 1))
                                       \ { l.record.seq : l \in page })
    /\ request' = NoRequest
    /\ UNCHANGED <<logVars, after, snapshotDone>>

(* A fetch from object storage fails: the request answers 500 and the      *)
(* consumer tries again with the cursor it had.                            *)
ReadFails ==
    /\ request.kind # "none"
    /\ request' = NoRequest
    /\ UNCHANGED <<logVars, after, cursor, copy, snapshotDone, skipped>>

Consume ==
    \/ ReadSnapshotHead
    \/ ReadSnapshotRows
    \/ ListSegments
    \/ ReadChanges
    \/ ReadFails

SyncNext ==
    \/ Next /\ UNCHANGED consumerVars
    \/ Consume

SyncSpec == SyncInit /\ [][SyncNext]_syncVars

(* The consumer keeps asking, and a request that is retried forever is     *)
(* answered in the end.                                                    *)
Ask == ReadSnapshotHead \/ ListSegments
Answer == ReadSnapshotRows \/ ReadChanges

SyncFairness == WF_syncVars(Ask) /\ SF_syncVars(Answer)
FairSyncSpec == SyncSpec /\ SyncFairness
-----------------------------------------------------------------------------
CaughtUp == snapshotDone /\ cursor = nextSeq

(* A consumer that has caught up without a gap has exactly the live rows   *)
(* of the source: snapshot pages read while the source changed, and the    *)
(* changes replayed over them, add up.                                     *)
InSyncWhenCaughtUp ==
    (CaughtUp /\ skipped = {}) =>
        copy = [e \in Entities |-> IF Live(entityState[e]) THEN entityState[e]
                                                          ELSE NoRecord]

(* A page jumps over a record only if a flush registered a segment between *)
(* the two selects of the request: nothing else makes readChanges() skip.  *)
GapsOnlyWhenFlushRaces ==
    [][ skipped' # skipped =>
          request.listed # { s \in segments : s.end >= cursor } ]_syncVars

(* "A crash before flush loses nothing", as a consumer sees it: no page    *)
(* jumps over a record.                                                    *)
NothingSkipped == skipped = {}

(* A consumer that keeps polling catches up with the log again and again,  *)
(* whatever segment, tail or page its cursor is in the middle of: no page  *)
(* stays empty in front of records (the log grows to MaxSeq and stops).    *)
KeepsCatchingUp == []<>CaughtUp
=============================================================================
