----------------------------- MODULE ExportLog -----------------------------
(***************************************************************************)
(* The export changes log, src/exports/log.ts: entity commits are          *)
(* deduplicated and numbered in SQLite, buffered in export_pending, and    *)
(* published by flush() as immutable segment objects in object storage     *)
(* that export_segment registers.                                          *)
(*                                                                         *)
(* The SQLite file is shared by every process (the four worker containers  *)
(* and the web container mount one volume); an ExportChangesLog object,    *)
(* with its flushLocks, exists once per process. Each SQLite transaction   *)
(* is one step. A flush is three: select the pending rows, put the object, *)
(* register it and delete the rows; any other process may run in between.  *)
(***************************************************************************)
EXTENDS ExportRecords

CONSTANT Procs       (* the processes that call flush()                    *)

VARIABLES
    nextSeq,         (* export_head.next_seq                               *)
    entityState,     (* export_entity_state: the latest record per entity  *)
    pending,         (* export_pending: the rows not yet published         *)
    segments,        (* export_segment: [start, end], one per start_seq    *)
    objects,         (* object storage: segment key -> its records         *)
    flush            (* per process: the flush it is in the middle of      *)

logVars == <<nextSeq, entityState, pending, segments, objects, flush>>

Object == [start: Seqs, end: Seqs, rows: SUBSET Record]

Idle == [phase |-> "idle", start |-> 0, end |-> 0, rows |-> {}]

TypeOK ==
    /\ nextSeq \in 0 .. MaxSeq
    /\ entityState \in [Entities -> Record \cup {NoRecord}]
    /\ pending \subseteq Record
    /\ segments \subseteq [start: Seqs, end: Seqs]
    /\ objects \subseteq Object
    /\ flush \in [Procs -> [phase: {"idle", "putting", "registering"},
                            start: 0 .. MaxSeq, end: 0 .. MaxSeq,
                            rows: SUBSET Record]]
-----------------------------------------------------------------------------
Init ==
    /\ nextSeq = 0
    /\ entityState = [e \in Entities |-> NoRecord]
    /\ pending = {}
    /\ segments = {}
    /\ objects = {}
    /\ flush = [p \in Procs |-> Idle]

(* Mutants of AppendRecord: no deduplication; a number handed out twice; a *)
(* tombstone that leaves export_entity_state alone.                        *)
AppendUnconditionally(r) ==
    /\ nextSeq < MaxSeq
    /\ nextSeq' = nextSeq + 1
    /\ pending' = pending \cup {r}
    /\ entityState' = [entityState EXCEPT ![r.entity] = r]
    /\ UNCHANGED <<segments, objects, flush>>

AppendReusingSeq(r) ==
    /\ nextSeq < MaxSeq
    /\ IsChange(entityState[r.entity], r)
    /\ pending' = pending \cup {r}
    /\ entityState' = [entityState EXCEPT ![r.entity] = r]
    /\ UNCHANGED <<nextSeq, segments, objects, flush>>

AppendForgettingTombstones(r) ==
    /\ nextSeq < MaxSeq
    /\ IsChange(entityState[r.entity], r)
    /\ nextSeq' = nextSeq + 1
    /\ pending' = pending \cup {r}
    /\ entityState' = IF r.op = "delete" THEN entityState
                      ELSE [entityState EXCEPT ![r.entity] = r]
    /\ UNCHANGED <<segments, objects, flush>>

(* append(): one BEGIN IMMEDIATE transaction. A record that changes        *)
(* nothing is rolled back and leaves no trace.                             *)
AppendRecord(r) ==
    /\ nextSeq < MaxSeq
    /\ IsChange(entityState[r.entity], r)
    /\ nextSeq' = nextSeq + 1
    /\ pending' = pending \cup {r}
    /\ entityState' = [entityState EXCEPT ![r.entity] = r]
    /\ UNCHANGED <<segments, objects, flush>>

(* recordCommit() and recordRepair(): a new version of an entity.          *)
RecordCommit(e, h) == AppendRecord(Upsert(nextSeq, e, h))

(* Mutant of RecordDelete: a tombstone written as an upsert.               *)
RecordDeleteAsUpsert(e) == AppendRecord(Upsert(nextSeq, e, NoHash))

(* recordDelete(): a takedown, a retraction or a purge.                    *)
RecordDelete(e) == AppendRecord(Tombstone(nextSeq, e))

(* Mutants of BeginFlush: the segment is registered before its object is   *)
(* put; a lone row waits for company.                                      *)
BeginFlushRegisteringFirst(p) ==
    /\ flush[p].phase = "idle"
    /\ \E first, last \in pending :
          /\ \A r \in pending : first.seq <= r.seq /\ r.seq <= last.seq
          /\ flush' = [flush EXCEPT ![p] = [phase |-> "registering",
                           start |-> first.seq, end |-> last.seq,
                           rows |-> pending]]
    /\ UNCHANGED <<nextSeq, entityState, pending, segments, objects>>

BeginFlushOfSeveral(p) ==
    /\ flush[p].phase = "idle"
    /\ \E first, last \in pending :
          /\ first # last
          /\ \A r \in pending : first.seq <= r.seq /\ r.seq <= last.seq
          /\ flush' = [flush EXCEPT ![p] = [phase |-> "putting",
                           start |-> first.seq, end |-> last.seq,
                           rows |-> pending]]
    /\ UNCHANGED <<nextSeq, entityState, pending, segments, objects>>

(* flushNow(): select everything pending. flushLocks queue the flushes of  *)
(* one process behind each other, so a process has one at a time.          *)
BeginFlush(p) ==
    /\ flush[p].phase = "idle"
    /\ \E first, last \in pending :
          /\ \A r \in pending : first.seq <= r.seq /\ r.seq <= last.seq
          /\ flush' = [flush EXCEPT ![p] = [phase |-> "putting",
                           start |-> first.seq, end |-> last.seq,
                           rows |-> pending]]
    /\ UNCHANGED <<nextSeq, entityState, pending, segments, objects>>

(* Mutant of Stored: an object key without the last seq.                   *)
StoredByStart(f) == { o \in objects : o.start # f.start }
                 \cup {[start |-> f.start, end |-> f.end, rows |-> f.rows]}

(* The object a flush writes: its key is made of the first and last seq.   *)
Stored(f) == { o \in objects : o.start # f.start \/ o.end # f.end }
                 \cup {[start |-> f.start, end |-> f.end, rows |-> f.rows]}

(* putObject() answers.                                                    *)
PutObject(p) ==
    /\ flush[p].phase = "putting"
    /\ objects' = Stored(flush[p])
    /\ flush' = [flush EXCEPT ![p].phase = "registering"]
    /\ UNCHANGED <<nextSeq, entityState, pending, segments>>

(* putObject() throws, with or without the object having been stored.      *)
PutFails(p) ==
    /\ flush[p].phase = "putting"
    /\ objects' \in {objects, Stored(flush[p])}
    /\ flush' = [flush EXCEPT ![p] = Idle]
    /\ UNCHANGED <<nextSeq, entityState, pending, segments>>

(* The row flushNow() upserts: start_seq is the primary key.               *)
Registered(f) == { s \in segments : s.start # f.start }
                     \cup {[start |-> f.start, end |-> f.end]}

(* Mutants of RegisterSegment: every pending row is dropped, also those    *)
(* appended during the upload; the last published row is kept; no row is   *)
(* dropped; only the last one is.                                          *)
RegisterDroppingAll(p) ==
    /\ flush[p].phase = "registering"
    /\ segments' = Registered(flush[p])
    /\ pending' = {}
    /\ flush' = [flush EXCEPT ![p] = Idle]
    /\ UNCHANGED <<nextSeq, entityState, objects>>

RegisterKeepingLast(p) ==
    /\ flush[p].phase = "registering"
    /\ segments' = Registered(flush[p])
    /\ pending' = { r \in pending : r.seq >= flush[p].end }
    /\ flush' = [flush EXCEPT ![p] = Idle]
    /\ UNCHANGED <<nextSeq, entityState, objects>>

RegisterDroppingLast(p) ==
    /\ flush[p].phase = "registering"
    /\ segments' = Registered(flush[p])
    /\ pending' = { r \in pending : r.seq # flush[p].end }
    /\ flush' = [flush EXCEPT ![p] = Idle]
    /\ UNCHANGED <<nextSeq, entityState, objects>>

(* The second transaction: upsert the segment, drop the published rows.    *)
RegisterSegment(p) ==
    /\ flush[p].phase = "registering"
    /\ segments' = Registered(flush[p])
    /\ pending' = { r \in pending : r.seq > flush[p].end }
    /\ flush' = [flush EXCEPT ![p] = Idle]
    /\ UNCHANGED <<nextSeq, entityState, objects>>

(* The process dies, or the second transaction fails and is rolled back:   *)
(* the flush is gone, the database is as it was.                           *)
AbandonFlush(p) ==
    /\ flush[p].phase # "idle"
    /\ flush' = [flush EXCEPT ![p] = Idle]
    /\ UNCHANGED <<nextSeq, entityState, pending, segments, objects>>

Flush(p) ==
    \/ BeginFlush(p)
    \/ PutObject(p)
    \/ PutFails(p)
    \/ RegisterSegment(p)
    \/ AbandonFlush(p)

Next ==
    \/ \E e \in Entities, h \in Hashes : RecordCommit(e, h)
    \/ \E e \in Entities : RecordDelete(e)
    \/ \E p \in Procs : Flush(p)

Spec == Init /\ [][Next]_logVars

(* Every import, takedown and purge ends in a flush of its source, so a    *)
(* source that is imported daily is flushed again and again (BeginFlush);  *)
(* an upload or a transaction that is retried forever succeeds in the end. *)
Fairness ==
    /\ \A p \in Procs : /\ WF_logVars(BeginFlush(p))
                        /\ SF_logVars(PutObject(p))
                        /\ SF_logVars(RegisterSegment(p))

FairSpec == Spec /\ Fairness
-----------------------------------------------------------------------------
(* What a reader of the tables can still reach: the records of registered  *)
(* segments and the pending tail.                                          *)
Published == UNION { o.rows : o \in { q \in objects :
                        [start |-> q.start, end |-> q.end] \in segments } }

Available == Published \cup pending
-----------------------------------------------------------------------------
(* Properties that hold however many processes flush.                      *)

(* The unpublished rows are always the last numbers handed out, with no    *)
(* hole: what a flush selects is what its object name says (append,        *)
(* flushNow).                                                              *)
PendingIsTail ==
    \E from \in 0 .. nextSeq : SeqsOf(pending) = from .. (nextSeq - 1)

(* A registered segment's object is in storage and holds exactly the       *)
(* records its name announces, one per number: readChanges never meets a   *)
(* missing or a short object, however puts and registrations interleave.   *)
SegmentsAreReadable ==
    \A s \in segments : \E o \in objects :
        /\ o.start = s.start
        /\ o.end = s.end
        /\ SeqsOf(o.rows) = s.start .. s.end

(* A number belongs to one record, in every table and every object: two    *)
(* flushes of the same tail, a retried one and an orphaned object included *)
(* never disagree about what number s was.                                 *)
OneRecordPerSeq ==
    LET all == pending \cup (UNION { o.rows : o \in objects })
                   \cup (UNION { flush[p].rows : p \in Procs })
    IN \A q, r \in all : q.seq = r.seq => q = r

(* export_entity_state is never behind the feed: no record of an entity is *)
(* newer than its row there, and the row is the record with its number.    *)
StateIsNewest ==
    \A r \in Available :
        /\ entityState[r.entity] # NoRecord
        /\ r.seq <= entityState[r.entity].seq
        /\ r.seq = entityState[r.entity].seq => r = entityState[r.entity]

(* "Immutable NDJSON segment objects": storage only ever gains objects.    *)
ObjectsImmutable == [][objects \subseteq objects']_logVars
-----------------------------------------------------------------------------
(* Properties of a log whose records are flushed by one process at a time, *)
(* which is what flushLocks achieves inside a process.                     *)
SingleProcess == \A p, q \in Procs : p = q

(* Every number handed out can be read back, from a segment or the tail.   *)
NoRecordLost == SeqsOf(Available) = 0 .. (nextSeq - 1)

(* flush(): concurrent runs "cannot publish overlapping segments".         *)
SegmentsDisjoint ==
    \A s, t \in segments : s = t \/ s.end < t.start \/ t.end < s.start

(* Together the log is the feed it promises to be.                         *)
Feed == INSTANCE ChangeFeed WITH feed <- Available

FeedSpec == Feed!Spec

(* Whatever was appended is in a registered segment in the end.            *)
EventuallyPublished ==
    \A s \in Seqs : (s < nextSeq) ~> (s \in SeqsOf(Published))
=============================================================================
