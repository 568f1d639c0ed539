-------------------------- MODULE ExportLogProofs --------------------------
(***************************************************************************)
(* Proofs about ExportLog and its consumer ExportSync. For any set of      *)
(* processes that flush the log: types, that the pending tail is whole,    *)
(* the segments readable, numbers and their records agree, the state row   *)
(* is never behind, an object once stored keeps its content, and what a    *)
(* consumer copied adds up when no page jumped over a number. For one      *)
(* process, which is what flushLocks guarantees inside a process: that no  *)
(* record is lost, that the log implements ChangeFeed (with two processes  *)
(* ExportLogLoss.cfg shows the counterexample), and that a page jumps only *)
(* when a flush registers a segment between the selects of a request.      *)
(***************************************************************************)
EXTENDS ExportSync, FiniteSetTheorems, NaturalsInduction, WellFoundedInduction, TLAPS

(* Typing is inductive once a flush in progress is known to have numbers   *)
(* of records: Idle's zeros are numbers of no record when MaxSeq is 0.     *)
TypeInv ==
    /\ TypeOK
    /\ \A p \in Procs : flush[p].phase # "idle" =>
          /\ flush[p].start \in Seqs
          /\ flush[p].end \in Seqs

LEMMA UpsertType ==
    ASSUME NEW s \in Seqs, NEW e \in Entities, NEW h \in Hashes
    PROVE  Upsert(s, e, h) \in Record
BY DEF Upsert, Record

LEMMA TombstoneType ==
    ASSUME NEW s \in Seqs, NEW e \in Entities
    PROVE  Tombstone(s, e) \in Record
BY DEF Tombstone, Record

LEMMA RecordFields ==
    ASSUME NEW r \in Record
    PROVE  r.seq \in Seqs /\ r.entity \in Entities
BY DEF Record

(* The four steps of a flush that change only where records are.           *)
LEMMA FlushStepTypes ==
    ASSUME TypeInv, NEW p \in Procs, Flush(p)
    PROVE  TypeInv'
<1> USE ExportAssumption DEF TypeInv, TypeOK, Seqs, Object
<1>1. CASE BeginFlush(p)
  <2>1. PICK first \in pending, last \in pending :
            flush' = [flush EXCEPT ![p] = [phase |-> "putting",
                         start |-> first.seq, end |-> last.seq,
                         rows |-> pending]]
    BY <1>1 DEF BeginFlush
  <2>2. first.seq \in Seqs /\ last.seq \in Seqs BY RecordFields
  <2>3. UNCHANGED <<nextSeq, entityState, pending, segments, objects>>
    BY <1>1 DEF BeginFlush
  <2> QED BY <2>1, <2>2, <2>3
<1>2. CASE PutObject(p) \/ PutFails(p)
  <2>1. flush[p].start \in Seqs /\ flush[p].end \in Seqs BY <1>2 DEF PutObject, PutFails
  <2>2. Stored(flush[p]) \subseteq Object BY <2>1 DEF Stored
  <2>3. CASE PutObject(p) BY <2>1, <2>2, <2>3 DEF PutObject
  <2>4. CASE PutFails(p) BY <2>2, <2>4 DEF PutFails, Idle
  <2> QED BY <1>2, <2>3, <2>4
<1>3. CASE RegisterSegment(p)
  <2>1. flush[p].start \in Seqs /\ flush[p].end \in Seqs BY <1>3 DEF RegisterSegment
  <2>2. Registered(flush[p]) \subseteq [start: Seqs, end: Seqs] BY <2>1 DEF Registered
  <2> QED BY <1>3, <2>2 DEF RegisterSegment, Idle
<1>4. CASE AbandonFlush(p) BY <1>4 DEF AbandonFlush, Idle
<1> QED BY <1>1, <1>2, <1>3, <1>4 DEF Flush

LEMMA AppendTypes ==
    ASSUME TypeInv, NEW r \in Record, AppendRecord(r)
    PROVE  TypeInv'
BY ExportAssumption, RecordFields
   DEF TypeInv, TypeOK, Seqs, Object, AppendRecord

(* What Next does, with the record an append writes made explicit.         *)
LEMMA NextCases ==
    ASSUME TypeInv, Next
    PROVE  \/ \E r \in Record : r.seq = nextSeq /\ AppendRecord(r)
           \/ \E p \in Procs : Flush(p)
<1>1. CASE \E e \in Entities, h \in Hashes : RecordCommit(e, h)
  <2>1. PICK e \in Entities, h \in Hashes :
            AppendRecord(Upsert(nextSeq, e, h))
    BY <1>1 DEF RecordCommit
  <2>2. nextSeq \in Seqs
    BY <2>1, ExportAssumption DEF AppendRecord, TypeInv, TypeOK, Seqs
  <2>3. Upsert(nextSeq, e, h) \in Record BY <2>2, UpsertType
  <2>4. Upsert(nextSeq, e, h).seq = nextSeq BY DEF Upsert
  <2> QED BY <2>1, <2>3, <2>4
<1>2. CASE \E e \in Entities : RecordDelete(e)
  <2>1. PICK e \in Entities : AppendRecord(Tombstone(nextSeq, e))
    BY <1>2 DEF RecordDelete
  <2>2. nextSeq \in Seqs
    BY <2>1, ExportAssumption DEF AppendRecord, TypeInv, TypeOK, Seqs
  <2>3. Tombstone(nextSeq, e) \in Record BY <2>2, TombstoneType
  <2>4. Tombstone(nextSeq, e).seq = nextSeq BY DEF Tombstone
  <2> QED BY <2>1, <2>3, <2>4
<1> QED BY <1>1, <1>2 DEF Next

LEMMA StutterTypes ==
    ASSUME TypeInv, UNCHANGED logVars
    PROVE  TypeInv'
BY DEF TypeInv, TypeOK, logVars

(* Every table, the object storage and the flushes keep their types,       *)
(* however many processes flush.                                           *)
THEOREM Typing == Spec => []TypeOK
<1>1. Init => TypeInv BY ExportAssumption DEF Init, TypeInv, TypeOK, Idle, Seqs
<1>2. TypeInv /\ [Next]_logVars => TypeInv'
  BY NextCases, AppendTypes, FlushStepTypes, StutterTypes
<1>3. TypeInv => TypeOK BY DEF TypeInv
<1> QED BY <1>1, <1>2, <1>3, PTL DEF Spec
-----------------------------------------------------------------------------
(* The inductive invariant of a log flushed by one process.                *)

(* from is where the tail starts: everything before it is published, and a *)
(* flush in progress holds the head of the tail.                           *)
TailFrom(from) ==
    /\ SeqsOf(pending) = from .. (nextSeq - 1)
    /\ SeqsOf(Published) = 0 .. (from - 1)
    /\ \A s \in segments : s.start <= s.end /\ s.end < from
    /\ \A p \in Procs : flush[p].phase # "idle" =>
          /\ flush[p].start = from
          /\ flush[p].end \in from .. (nextSeq - 1)
          /\ flush[p].rows = { r \in pending : r.seq <= flush[p].end }

(* A segment key names one object, and a flush that is about to register   *)
(* its object has stored it.                                               *)
KeysUnique ==
    \A o, q \in objects : (o.start = q.start /\ o.end = q.end) => o = q

StoredFirst ==
    \A p \in Procs : flush[p].phase = "registering" =>
        \E o \in objects : /\ o.start = flush[p].start
                           /\ o.end = flush[p].end
                           /\ o.rows = flush[p].rows

(* export_entity_state is exactly the newest available record.             *)
StateExact ==
    \A e \in Entities :
        IF entityState[e] = NoRecord THEN Unseen(Available, e)
                                     ELSE IsLatest(Available, e, entityState[e])

LogInv ==
    /\ TypeInv
    /\ \E from \in 0 .. nextSeq : TailFrom(from)
    /\ KeysUnique
    /\ StoredFirst
    /\ StateExact
    /\ SegmentsDisjoint
-----------------------------------------------------------------------------
LEMMA InPublished ==
    ASSUME NEW r
    PROVE  r \in Published <=>
              \E o \in objects : /\ [start |-> o.start, end |-> o.end] \in segments
                                 /\ r \in o.rows
BY DEF Published

LEMMA InPublishedPrime ==
    ASSUME NEW r
    PROVE  r \in Published' <=>
              \E o \in objects' : /\ [start |-> o.start, end |-> o.end] \in segments'
                                  /\ r \in o.rows
BY DEF Published

(* Storing an object under a key that is not registered publishes nothing. *)
LEMMA StoringPublishesNothing ==
    ASSUME NEW f, [start |-> f.start, end |-> f.end] \notin segments,
           UNCHANGED segments, objects' = Stored(f)
    PROVE  Published' = Published
<1>1. ASSUME NEW r, r \in Published  PROVE r \in Published'
  <2>1. PICK o \in objects : /\ [start |-> o.start, end |-> o.end] \in segments
                            /\ r \in o.rows
    BY <1>1, InPublished
  <2>2. o \in objects' BY <2>1 DEF Stored
  <2> QED BY <2>1, <2>2, InPublishedPrime
<1>2. ASSUME NEW r, r \in Published'  PROVE r \in Published
  <2>1. PICK o \in objects' : /\ [start |-> o.start, end |-> o.end] \in segments
                             /\ r \in o.rows
    BY <1>2, InPublishedPrime
  <2>2. o \in objects BY <2>1 DEF Stored
  <2> QED BY <2>1, <2>2, InPublished
<1> QED BY <1>1, <1>2

(* Registering a stored object under a new start publishes its records.    *)
LEMMA RegisteringPublishes ==
    ASSUME NEW f, TypeOK, KeysUnique,
           \A s \in segments : s.start # f.start,
           NEW stored \in objects, stored.start = f.start,
           stored.end = f.end, stored.rows = f.rows,
           UNCHANGED objects, segments' = Registered(f)
    PROVE  Published' = Published \cup f.rows
<1>1. segments' = segments \cup {[start |-> f.start, end |-> f.end]} BY DEF Registered
<1>2. ASSUME NEW r, r \in Published'  PROVE r \in Published \cup f.rows
  <2>1. PICK o \in objects : /\ [start |-> o.start, end |-> o.end] \in segments'
                            /\ r \in o.rows
    BY <1>2, InPublishedPrime
  <2>2. CASE [start |-> o.start, end |-> o.end] \in segments BY <2>1, <2>2, InPublished
  <2>3. CASE [start |-> o.start, end |-> o.end] = [start |-> f.start, end |-> f.end]
    <3>1. o.start = f.start /\ o.end = f.end BY <2>3
    <3>2. o = stored BY <3>1 DEF KeysUnique
    <3> QED BY <2>1, <3>2
  <2> QED BY <1>1, <2>1, <2>2, <2>3
<1>3. ASSUME NEW r, r \in Published \cup f.rows  PROVE r \in Published'
  <2>1. CASE r \in Published BY <1>1, <2>1, InPublished, InPublishedPrime
  <2>2. CASE r \in f.rows
    <3>1. stored \in objects' /\ r \in stored.rows BY <2>2
    <3>2. [start |-> stored.start, end |-> stored.end] \in segments' BY <1>1
    <3> QED BY <3>1, <3>2, InPublishedPrime
  <2> QED BY <1>3, <2>1, <2>2
<1> QED BY <1>2, <1>3

(* The key of a flush in progress is not registered yet.                   *)
LEMMA FlushKeyIsNew ==
    ASSUME TypeInv, NEW from \in 0 .. nextSeq, TailFrom(from),
           NEW p \in Procs, flush[p].phase # "idle"
    PROVE  \A s \in segments : s.start # flush[p].start
BY ExportAssumption DEF TailFrom, TypeInv, TypeOK, Seqs
-----------------------------------------------------------------------------
(* Steps that leave the tables alone and only move a flush along.          *)
LEMMA StateCarries ==
    ASSUME StateExact, Available' = Available, UNCHANGED entityState
    PROVE  StateExact'
BY DEF StateExact, Unseen, IsLatest

LEMMA BeginFlushKeepsLogInv ==
    ASSUME LogInv, TypeInv', SingleProcess, NEW p \in Procs, BeginFlush(p)
    PROVE  LogInv' /\ Available' = Available
<1>1. PICK from \in 0 .. nextSeq : TailFrom(from) BY DEF LogInv
<1>2. PICK first \in pending, last \in pending :
          /\ \A r \in pending : first.seq <= r.seq /\ r.seq <= last.seq
          /\ flush' = [flush EXCEPT ![p] = [phase |-> "putting",
                       start |-> first.seq, end |-> last.seq,
                       rows |-> pending]]
  BY DEF BeginFlush
<1>3. UNCHANGED <<nextSeq, entityState, pending, segments, objects>> BY DEF BeginFlush
<1>4. Published' = Published BY <1>3 DEF Published
<1>5. pending # {} /\ pending \subseteq Record /\ nextSeq \in Nat
  BY <1>2, ExportAssumption DEF LogInv, TypeInv, TypeOK
<1>6. first.seq \in from .. (nextSeq - 1) /\ last.seq \in from .. (nextSeq - 1)
  BY <1>1, <1>2 DEF TailFrom, SeqsOf
<1>7. first.seq = from
  <2>1. from \in SeqsOf(pending) BY <1>1, <1>5, <1>6 DEF TailFrom
  <2>2. PICK r \in pending : r.seq = from BY <2>1 DEF SeqsOf
  <2> QED BY <1>2, <1>6, <2>2
<1>8. TailFrom(from)'
  <2>1. ASSUME NEW q \in Procs, flush'[q].phase # "idle"
        PROVE  /\ flush'[q].start = from
               /\ flush'[q].end \in from .. (nextSeq - 1)
               /\ flush'[q].rows = { r \in pending : r.seq <= flush'[q].end }
    <3>1. q = p BY DEF SingleProcess
    <3>2. flush'[q] = [phase |-> "putting", start |-> first.seq,
                       end |-> last.seq, rows |-> pending]
      BY <1>2, <3>1 DEF LogInv, TypeInv, TypeOK
    <3>3. pending = { r \in pending : r.seq <= last.seq } BY <1>2
    <3> QED BY <1>6, <1>7, <3>2, <3>3
  <2> QED BY <1>1, <1>3, <1>4, <2>1 DEF TailFrom, SeqsOf
<1>9. StoredFirst' BY <1>2, <1>3 DEF StoredFirst, LogInv, TypeInv, TypeOK
<1>10. Available' = Available BY <1>3, <1>4 DEF Available
<1> QED
  BY <1>1, <1>3, <1>8, <1>9, <1>10, StateCarries
     DEF LogInv, KeysUnique, SegmentsDisjoint

(* The put, answered or failed: the object may have been stored.           *)
LEMMA PutKeepsLogInv ==
    ASSUME LogInv, TypeInv', SingleProcess, NEW p \in Procs,
           PutObject(p) \/ PutFails(p)
    PROVE  LogInv' /\ Available' = Available
<1>1. PICK from \in 0 .. nextSeq : TailFrom(from) BY DEF LogInv
<1>2. /\ flush[p].phase = "putting"
      /\ objects' \in {objects, Stored(flush[p])}
      /\ UNCHANGED <<nextSeq, entityState, pending, segments>>
  BY DEF PutObject, PutFails
<1>3. [start |-> flush[p].start, end |-> flush[p].end] \notin segments
  BY <1>1, <1>2, FlushKeyIsNew DEF LogInv
<1>4. Published' = Published
  <2>1. CASE objects' = objects BY <1>2, <2>1 DEF Published
  <2>2. CASE objects' = Stored(flush[p]) BY <1>2, <1>3, <2>2, StoringPublishesNothing
  <2> QED BY <1>2, <2>1, <2>2
<1>5. Available' = Available BY <1>2, <1>4 DEF Available
<1>6. KeysUnique'
  <2>1. CASE objects' = objects BY <2>1 DEF LogInv, KeysUnique
  <2>2. CASE objects' = Stored(flush[p]) BY <2>2 DEF LogInv, KeysUnique, Stored
  <2> QED BY <1>2, <2>1, <2>2
<1>7. \A q \in Procs : flush'[q].phase # "idle" =>
          /\ flush'[q].start = flush[q].start
          /\ flush'[q].end = flush[q].end
          /\ flush'[q].rows = flush[q].rows
          /\ flush[q].phase # "idle"
  <2>1. \A q \in Procs : q = p BY DEF SingleProcess
  <2>2. CASE PutObject(p) BY <1>2, <2>1, <2>2 DEF PutObject, LogInv, TypeInv, TypeOK
  <2>3. CASE PutFails(p) BY <2>1, <2>3 DEF PutFails, Idle, LogInv, TypeInv, TypeOK
  <2> QED BY <2>2, <2>3
<1>8. TailFrom(from)' BY <1>1, <1>2, <1>4, <1>7 DEF TailFrom, SeqsOf
<1>9. StoredFirst'
  <2>1. SUFFICES ASSUME NEW q \in Procs, flush'[q].phase = "registering"
                 PROVE  \E o \in objects' : /\ o.start = flush'[q].start
                                            /\ o.end = flush'[q].end
                                            /\ o.rows = flush'[q].rows
    BY DEF StoredFirst
  <2>2. q = p BY DEF SingleProcess
  <2>3. PutObject(p) BY <2>1, <2>2 DEF PutFails, Idle, LogInv, TypeInv, TypeOK
  <2>4. [start |-> flush[p].start, end |-> flush[p].end, rows |-> flush[p].rows]
            \in objects'
    BY <2>3 DEF PutObject, Stored
  <2> QED BY <1>7, <2>1, <2>2, <2>4
<1> QED
  BY <1>1, <1>2, <1>5, <1>6, <1>8, <1>9, StateCarries
     DEF LogInv, SegmentsDisjoint

LEMMA AbandonKeepsLogInv ==
    ASSUME LogInv, TypeInv', SingleProcess, NEW p \in Procs, AbandonFlush(p)
    PROVE  LogInv' /\ Available' = Available
<1>1. PICK from \in 0 .. nextSeq : TailFrom(from) BY DEF LogInv
<1>2. UNCHANGED <<nextSeq, entityState, pending, segments, objects>> BY DEF AbandonFlush
<1>3. \A q \in Procs : flush'[q].phase = "idle"
  BY DEF SingleProcess, AbandonFlush, Idle, LogInv, TypeInv, TypeOK
<1>4. Published' = Published /\ Available' = Available BY <1>2 DEF Published, Available
<1>5. TailFrom(from)' BY <1>1, <1>2, <1>3, <1>4 DEF TailFrom, SeqsOf
<1> QED
  BY <1>2, <1>3, <1>4, <1>5, StateCarries
     DEF LogInv, KeysUnique, StoredFirst, SegmentsDisjoint

(* Registering moves the head of the tail into a segment: what a reader    *)
(* can reach stays the same.                                               *)
LEMMA RegisterKeepsLogInv ==
    ASSUME LogInv, TypeInv', SingleProcess, NEW p \in Procs, RegisterSegment(p)
    PROVE  LogInv' /\ Available' = Available
<1> DEFINE f == flush[p]
<1>1. PICK from \in 0 .. nextSeq : TailFrom(from) BY DEF LogInv
<1>2. /\ f.phase = "registering"
      /\ segments' = Registered(f)
      /\ pending' = { r \in pending : r.seq > f.end }
      /\ flush' = [flush EXCEPT ![p] = Idle]
      /\ UNCHANGED <<nextSeq, entityState, objects>>
  BY DEF RegisterSegment
<1>3. /\ f.start = from
      /\ f.end \in from .. (nextSeq - 1)
      /\ f.rows = { r \in pending : r.seq <= f.end }
  BY <1>1, <1>2 DEF TailFrom
<1>4. /\ nextSeq \in Nat
      /\ from \in Nat
      /\ f.end \in Nat
      /\ f.end + 1 \in 0 .. nextSeq
      /\ \A r \in pending : r.seq \in Nat
  BY <1>3, ExportAssumption, RecordFields
     DEF LogInv, TypeInv, TypeOK, Seqs
<1>5. \A s \in segments : s.start # f.start BY <1>1, <1>2, FlushKeyIsNew DEF LogInv
<1>6. PICK o \in objects : o.start = f.start /\ o.end = f.end /\ o.rows = f.rows
  BY <1>2 DEF LogInv, StoredFirst
<1>7. Published' = Published \cup f.rows
  BY <1>2, <1>5, <1>6, RegisteringPublishes DEF LogInv, TypeInv
<1>8. Available' = Available BY <1>2, <1>3, <1>4, <1>7 DEF Available
<1>9. segments' = segments \cup {[start |-> f.start, end |-> f.end]}
  BY <1>2, <1>5 DEF Registered
<1>10. SegmentsDisjoint' BY <1>1, <1>3, <1>9 DEF LogInv, TailFrom, SegmentsDisjoint
<1>11. SeqsOf(pending') = (f.end + 1) .. (nextSeq - 1)
  <2>1. ASSUME NEW n, n \in SeqsOf(pending')
        PROVE  n \in (f.end + 1) .. (nextSeq - 1)
    <3>1. PICK r \in pending : r.seq = n /\ r.seq > f.end BY <1>2, <2>1 DEF SeqsOf
    <3>2. n \in from .. (nextSeq - 1) BY <1>1, <3>1 DEF TailFrom, SeqsOf
    <3> QED BY <1>4, <3>1, <3>2
  <2>2. ASSUME NEW n \in (f.end + 1) .. (nextSeq - 1)
        PROVE  n \in SeqsOf(pending')
    <3>1. n \in SeqsOf(pending) /\ n > f.end BY <1>1, <1>3, <1>4 DEF TailFrom
    <3> QED BY <1>2, <3>1 DEF SeqsOf
  <2> QED BY <2>1, <2>2
<1>12. SeqsOf(f.rows) = from .. f.end
  <2>1. ASSUME NEW n, n \in SeqsOf(f.rows)
        PROVE  n \in from .. f.end
    <3>1. PICK r \in pending : r.seq = n /\ r.seq <= f.end BY <1>3, <2>1 DEF SeqsOf
    <3>2. n \in from .. (nextSeq - 1) BY <1>1, <3>1 DEF TailFrom, SeqsOf
    <3> QED BY <1>4, <3>1, <3>2
  <2>2. ASSUME NEW n \in from .. f.end
        PROVE  n \in SeqsOf(f.rows)
    <3>1. n \in SeqsOf(pending) /\ n <= f.end BY <1>1, <1>3, <1>4 DEF TailFrom
    <3> QED BY <1>3, <3>1 DEF SeqsOf
  <2> QED BY <2>1, <2>2
<1>13. SeqsOf(Published') = 0 .. f.end
  <2>1. SeqsOf(Published') = SeqsOf(Published) \cup SeqsOf(f.rows) BY <1>7 DEF SeqsOf
  <2>2. SeqsOf(Published) = 0 .. (from - 1) BY <1>1 DEF TailFrom
  <2> QED BY <1>3, <1>4, <1>12, <2>1, <2>2
<1>14. \A q \in Procs : flush'[q].phase = "idle"
  BY <1>2 DEF SingleProcess, Idle, LogInv, TypeInv, TypeOK
<1>15. \A s \in segments' : s.start <= s.end /\ s.end < f.end + 1
  <2>1. \A s \in segments : s.start <= s.end /\ s.end < from /\ s.end \in Nat
    BY <1>1, ExportAssumption DEF TailFrom, LogInv, TypeInv, TypeOK, Seqs
  <2> QED BY <1>3, <1>4, <1>9, <2>1
<1>16. PICK to \in 0 .. nextSeq : to = f.end + 1 BY <1>4
<1>17. TailFrom(to)'
  <2>1. SeqsOf(pending') = to .. (nextSeq' - 1) BY <1>2, <1>11, <1>16
  <2>2. SeqsOf(Published') = 0 .. (to - 1) BY <1>4, <1>13, <1>16
  <2>3. SeqsOf(pending)' = SeqsOf(pending') /\ SeqsOf(Published)' = SeqsOf(Published')
    BY DEF SeqsOf
  <2> QED BY <1>2, <1>14, <1>15, <1>16, <2>1, <2>2, <2>3 DEF TailFrom
<1>18. KeysUnique' /\ StoredFirst' BY <1>2, <1>14 DEF LogInv, KeysUnique, StoredFirst
<1>19. StateExact' BY <1>2, <1>8, StateCarries DEF LogInv
<1> QED BY <1>2, <1>8, <1>10, <1>17, <1>18, <1>19 DEF LogInv

(* An append makes the feed one record longer.                             *)
LEMMA AppendKeepsLogInv ==
    ASSUME LogInv, TypeInv', NEW r \in Record, r.seq = nextSeq, AppendRecord(r)
    PROVE  LogInv' /\ Available' = Available \cup {r}
<1>1. PICK from \in 0 .. nextSeq : TailFrom(from) BY DEF LogInv
<1>2. /\ nextSeq < MaxSeq
      /\ nextSeq' = nextSeq + 1
      /\ pending' = pending \cup {r}
      /\ entityState' = [entityState EXCEPT ![r.entity] = r]
      /\ UNCHANGED <<segments, objects, flush>>
  BY DEF AppendRecord
<1>3. nextSeq \in Nat /\ from \in Nat /\ r.entity \in Entities
  BY ExportAssumption, RecordFields DEF LogInv, TypeInv, TypeOK
<1>4. Published' = Published BY <1>2 DEF Published
<1>5. Available' = Available \cup {r} BY <1>2, <1>4 DEF Available
<1>6. SeqsOf(pending)' = from .. (nextSeq' - 1)
  <2>1. SeqsOf(pending)' = SeqsOf(pending) \cup {nextSeq} BY <1>2 DEF SeqsOf
  <2>2. SeqsOf(pending) = from .. (nextSeq - 1) BY <1>1 DEF TailFrom
  <2>3. from .. nextSeq = (from .. (nextSeq - 1)) \cup {nextSeq} BY <1>3
  <2>4. nextSeq' - 1 = nextSeq BY <1>2, <1>3
  <2> QED BY <2>1, <2>2, <2>3, <2>4
<1>7. \A p \in Procs : flush[p].phase # "idle" =>
          /\ flush[p].start = from
          /\ flush[p].end \in from .. (nextSeq' - 1)
          /\ flush[p].rows = { q \in pending' : q.seq <= flush[p].end }
  <2>1. SUFFICES ASSUME NEW p \in Procs, flush[p].phase # "idle"
                 PROVE  /\ flush[p].start = from
                        /\ flush[p].end \in from .. (nextSeq' - 1)
                        /\ flush[p].rows = { q \in pending' : q.seq <= flush[p].end }
    OBVIOUS
  <2>2. /\ flush[p].start = from
        /\ flush[p].end \in from .. (nextSeq - 1)
        /\ flush[p].rows = { q \in pending : q.seq <= flush[p].end }
    BY <1>1, <2>1 DEF TailFrom
  <2>3. ~(r.seq <= flush[p].end) BY <1>3, <2>2
  <2> QED BY <1>2, <1>3, <2>2, <2>3
<1>8. TailFrom(from)'
  <2>1. SeqsOf(Published)' = 0 .. (from - 1) BY <1>1, <1>4 DEF TailFrom, SeqsOf
  <2> QED BY <1>1, <1>2, <1>6, <1>7, <2>1 DEF TailFrom
<1>9. from \in 0 .. nextSeq' BY <1>2, <1>3
<1>10. \A q \in Available : q.seq < nextSeq
  <2>1. ASSUME NEW q \in Available  PROVE q.seq < nextSeq
    <3>1. q.seq \in SeqsOf(Published) \cup SeqsOf(pending) BY <2>1 DEF Available, SeqsOf
    <3>2. q.seq \in 0 .. (from - 1) \cup from .. (nextSeq - 1)
      BY <1>1, <3>1 DEF TailFrom
    <3> QED BY <1>3, <3>2
  <2> QED BY <2>1
<1>11. StateExact'
  <2>1. SUFFICES ASSUME NEW e \in Entities
                 PROVE  IF entityState'[e] = NoRecord
                          THEN Unseen(Available', e)
                          ELSE IsLatest(Available', e, entityState'[e])
    BY DEF StateExact, Unseen, IsLatest
  <2>2. CASE e = r.entity
    <3>1. entityState'[e] = r /\ r # NoRecord
      BY <1>2, <2>2, NoRecordAssumption DEF LogInv, TypeInv, TypeOK
    <3>2. \A q \in Available' : q.seq <= r.seq
      <4>1. \A q \in Available : q.seq \in Int
        <5>1. ASSUME NEW q \in Available  PROVE q.seq \in Int
          <6>1. q.seq \in SeqsOf(Published) \cup SeqsOf(pending)
            BY <5>1 DEF Available, SeqsOf
          <6>2. q.seq \in 0 .. (from - 1) \cup from .. (nextSeq - 1)
            BY <1>1, <6>1 DEF TailFrom
          <6> QED BY <1>3, <6>2
        <5> QED BY <5>1
      <4> QED BY <1>3, <1>5, <1>10, <4>1
    <3>3. IsLatest(Available', e, r) BY <1>5, <2>2, <3>2 DEF IsLatest
    <3> QED BY <3>1, <3>3
  <2>3. CASE e # r.entity
    <3>1. entityState'[e] = entityState[e] BY <1>2, <2>3 DEF LogInv, TypeInv, TypeOK
    <3> QED BY <1>5, <2>3, <3>1 DEF LogInv, StateExact, Unseen, IsLatest
  <2> QED BY <2>2, <2>3
<1> QED
  BY <1>2, <1>5, <1>8, <1>9, <1>11
     DEF LogInv, KeysUnique, StoredFirst, SegmentsDisjoint

LEMMA InitLogInv == Init => LogInv
<1> SUFFICES ASSUME Init  PROVE LogInv OBVIOUS
<1> USE ExportAssumption DEF Init
<1>1. TypeInv BY DEF TypeInv, TypeOK, Idle, Seqs
<1>2. Published = {} /\ Available = {} BY DEF Published, Available
<1>3. TailFrom(0) BY <1>2 DEF TailFrom, SeqsOf, Idle
<1>4. KeysUnique /\ StoredFirst /\ SegmentsDisjoint
  BY DEF KeysUnique, StoredFirst, SegmentsDisjoint, Idle
<1>5. StateExact BY <1>2 DEF StateExact, Unseen
<1> QED BY <1>1, <1>3, <1>4, <1>5 DEF LogInv

LEMMA FlushKeepsLogInv ==
    ASSUME LogInv, SingleProcess, NEW p \in Procs, Flush(p)
    PROVE  LogInv' /\ Available' = Available
<1>1. TypeInv' BY FlushStepTypes DEF LogInv
<1> QED
  BY <1>1, BeginFlushKeepsLogInv, PutKeepsLogInv, RegisterKeepsLogInv,
     AbandonKeepsLogInv DEF Flush

LEMMA NextKeepsLogInv ==
    ASSUME LogInv, SingleProcess, [Next]_logVars
    PROVE  LogInv'
<1>1. CASE Next
  <2>1. CASE \E r \in Record : r.seq = nextSeq /\ AppendRecord(r)
    <3>1. PICK r \in Record : r.seq = nextSeq /\ AppendRecord(r) BY <2>1
    <3>2. TypeInv' BY <3>1, AppendTypes DEF LogInv
    <3> QED BY <3>1, <3>2, AppendKeepsLogInv
  <2>2. CASE \E p \in Procs : Flush(p) BY <2>2, FlushKeepsLogInv
  <2> QED BY <1>1, <2>1, <2>2, NextCases DEF LogInv
<1>2. CASE UNCHANGED logVars
  <2>1. TypeInv' BY <1>2, StutterTypes DEF LogInv
  <2>2. Published' = Published /\ Available' = Available
    BY <1>2 DEF logVars, Published, Available
  <2>3. PICK from \in 0 .. nextSeq : TailFrom(from) BY DEF LogInv
  <2>4. TailFrom(from)' BY <1>2, <2>2, <2>3 DEF logVars, TailFrom, SeqsOf
  <2> QED
    BY <1>2, <2>1, <2>2, <2>4, StateCarries
       DEF logVars, LogInv, KeysUnique, StoredFirst, SegmentsDisjoint
<1> QED BY <1>1, <1>2

(* The inductive invariant, for any source and any bound.                  *)
THEOREM LogInvariant == SingleProcess => (Spec => []LogInv)
<1> SUFFICES ASSUME SingleProcess  PROVE Spec => []LogInv OBVIOUS
<1>1. LogInv /\ [Next]_logVars => LogInv' BY NextKeepsLogInv
<1> QED BY <1>1, InitLogInv, PTL DEF Spec

(* With one flushing process every number handed out can be read back,     *)
(* through any number of failed uploads, rollbacks and crashes.            *)
THEOREM NothingLost == SingleProcess => (Spec => []NoRecordLost)
<1> SUFFICES ASSUME SingleProcess  PROVE Spec => []NoRecordLost OBVIOUS
<1>1. LogInv => NoRecordLost
  <2> SUFFICES ASSUME LogInv  PROVE SeqsOf(Available) = 0 .. (nextSeq - 1)
    BY DEF NoRecordLost
  <2>1. PICK from \in 0 .. nextSeq : TailFrom(from) BY DEF LogInv
  <2>2. SeqsOf(Available) = SeqsOf(Published) \cup SeqsOf(pending)
    BY DEF Available, SeqsOf
  <2>3. /\ SeqsOf(Published) = 0 .. (from - 1)
        /\ SeqsOf(pending) = from .. (nextSeq - 1)
    BY <2>1 DEF TailFrom
  <2>4. nextSeq \in Nat /\ from \in 0 .. nextSeq
    BY ExportAssumption DEF LogInv, TypeInv, TypeOK
  <2> QED BY <2>2, <2>3, <2>4
<1> QED BY <1>1, LogInvariant, PTL

(* flush()'s promise that segments never overlap, for one process.         *)
THEOREM NoOverlap == SingleProcess => (Spec => []SegmentsDisjoint)
<1> SUFFICES ASSUME SingleProcess  PROVE Spec => []SegmentsDisjoint OBVIOUS
<1>1. LogInv => SegmentsDisjoint BY DEF LogInv
<1> QED BY <1>1, LogInvariant, PTL
-----------------------------------------------------------------------------
(* An append is the abstract feed's publication of the same record.        *)
LEMMA AppendPublishes ==
    ASSUME LogInv, NEW r \in Record, r.seq = nextSeq, AppendRecord(r),
           Available' = Available \cup {r}, NoRecordLost
    PROVE  Feed!Next
<1>1. IsChange(entityState[r.entity], r) /\ r.entity \in Entities
  BY RecordFields DEF AppendRecord
<1>2. Feed!Record = Record BY DEF Feed!Record, Record, Feed!Seqs, Seqs
<1>3. Feed!SeqsOf(Available) = 0 .. (r.seq - 1) BY DEF Feed!SeqsOf, SeqsOf, NoRecordLost
<1>4. CASE entityState[r.entity] = NoRecord
  <2>1. Unseen(Available, r.entity) BY <1>1, <1>4 DEF LogInv, StateExact
  <2>2. Feed!Unseen(Available, r.entity) /\ Feed!IsChange(NoRecord, r)
    BY <1>1, <1>4, <2>1
       DEF Feed!Unseen, Unseen, Feed!IsChange, IsChange, Feed!Live, Live
  <2> QED BY <1>2, <1>3, <2>2 DEF Feed!Next, Feed!PublishChange
<1>5. CASE entityState[r.entity] # NoRecord
  <2>1. IsLatest(Available, r.entity, entityState[r.entity])
    BY <1>1, <1>5 DEF LogInv, StateExact
  <2>2. /\ entityState[r.entity] \in Available
        /\ Feed!IsLatest(Available, r.entity, entityState[r.entity])
        /\ Feed!IsChange(entityState[r.entity], r)
    BY <1>1, <2>1
       DEF Feed!IsLatest, IsLatest, Feed!IsChange, IsChange, Feed!Live, Live
  <2> QED BY <1>2, <1>3, <2>2 DEF Feed!Next, Feed!PublishChange
<1> QED BY <1>4, <1>5

LEMMA StepRefines ==
    ASSUME LogInv, NoRecordLost, SingleProcess, [Next]_logVars
    PROVE  [Feed!Next]_Available
<1>1. CASE Next
  <2>1. CASE \E r \in Record : r.seq = nextSeq /\ AppendRecord(r)
    <3>1. PICK r \in Record : r.seq = nextSeq /\ AppendRecord(r) BY <2>1
    <3>2. TypeInv' BY <3>1, AppendTypes DEF LogInv
    <3>3. Available' = Available \cup {r} BY <3>1, <3>2, AppendKeepsLogInv
    <3> QED BY <3>1, <3>3, AppendPublishes
  <2>2. CASE \E p \in Procs : Flush(p) BY <2>2, FlushKeepsLogInv
  <2> QED BY <1>1, <2>1, <2>2, NextCases DEF LogInv
<1>2. CASE UNCHANGED logVars BY <1>2 DEF logVars, Available, Published
<1> QED BY <1>1, <1>2

(* With one flushing process the log implements the feed: what can be read *)
(* back grows by one record per append, is numbered without gaps, and no   *)
(* flush, failure or crash changes it.                                     *)
THEOREM LogImplementsFeed == SingleProcess => (Spec => FeedSpec)
<1> SUFFICES ASSUME SingleProcess  PROVE Spec => FeedSpec OBVIOUS
<1>1. Init => Feed!Init BY DEF Init, Feed!Init, Available, Published
<1>2. LogInv /\ NoRecordLost /\ [Next]_logVars => [Feed!Next]_Available BY StepRefines
<1>3. Spec => []LogInv /\ []NoRecordLost BY LogInvariant, NothingLost
<1> QED BY <1>1, <1>2, <1>3, PTL DEF Spec, FeedSpec, Feed!Spec
-----------------------------------------------------------------------------
(* However many processes flush: what holds of every record anywhere.      *)
AllRecords ==
    pending \cup (UNION { o.rows : o \in objects })
            \cup (UNION { flush[p].rows : p \in Procs })

(* A set of records that begins and ends where its name says, without a    *)
(* hole.                                                                   *)
Whole(f) ==
    /\ f.start <= f.end
    /\ SeqsOf(f.rows) = f.start .. f.end

(* A flush in progress and an object hold exactly what their key announces *)
(* and a segment, or one about to be registered, has its object.           *)
KeysAnnounce ==
    /\ \A p \in Procs : flush[p].phase # "idle" => Whole(flush[p])
    /\ \A o \in objects : Whole(o)

HasObject(f) == \E o \in objects : o.start = f.start /\ o.end = f.end

ObjectsExist ==
    /\ \A s \in segments : HasObject(s)
    /\ \A p \in Procs : flush[p].phase = "registering" => HasObject(flush[p])

(* Numbers are handed out once, and export_entity_state knows the newest.  *)
NumbersAgree ==
    /\ \A r \in AllRecords : r.seq < nextSeq
    /\ \A q, r \in AllRecords : q.seq = r.seq => q = r

StateNotBehind ==
    \A r \in AllRecords :
        /\ entityState[r.entity] # NoRecord
        /\ r.seq <= entityState[r.entity].seq
        /\ r.seq = entityState[r.entity].seq => r = entityState[r.entity]

SharedInv ==
    /\ TypeInv
    /\ PendingIsTail
    /\ KeysAnnounce
    /\ ObjectsExist
    /\ NumbersAgree
    /\ StateNotBehind
-----------------------------------------------------------------------------
LEMMA InAllRecords ==
    ASSUME NEW r
    PROVE  r \in AllRecords <=> \/ r \in pending
                                \/ \E o \in objects : r \in o.rows
                                \/ \E p \in Procs : r \in flush[p].rows
BY DEF AllRecords

LEMMA InAllRecordsPrime ==
    ASSUME NEW r
    PROVE  r \in AllRecords' <=> \/ r \in pending'
                                 \/ \E o \in objects' : r \in o.rows
                                 \/ \E p \in Procs : r \in flush'[p].rows
BY DEF AllRecords

LEMMA AllRecordsTyped ==
    ASSUME TypeInv
    PROVE  AllRecords \subseteq Record
<1> SUFFICES ASSUME NEW r \in AllRecords  PROVE r \in Record OBVIOUS
<1> QED BY InAllRecords DEF TypeInv, TypeOK, Object

LEMMA WholeSetsAgree ==
    ASSUME NumbersAgree, NEW A, NEW B,
           A \subseteq AllRecords, B \subseteq AllRecords, SeqsOf(A) = SeqsOf(B)
    PROVE  A = B
<1>1. ASSUME NEW r \in A  PROVE r \in B
  <2>1. PICK q \in B : q.seq = r.seq BY DEF SeqsOf
  <2> QED BY <2>1 DEF NumbersAgree
<1>2. ASSUME NEW r \in B  PROVE r \in A
  <2>1. PICK q \in A : q.seq = r.seq BY DEF SeqsOf
  <2> QED BY <2>1 DEF NumbersAgree
<1> QED BY <1>1, <1>2

(* A flush moves records about and makes none up.                          *)
LEMMA FlushMakesNoRecord ==
    ASSUME TypeInv, NEW p \in Procs, Flush(p)
    PROVE  AllRecords' \subseteq AllRecords
<1> SUFFICES ASSUME NEW r \in AllRecords'  PROVE r \in AllRecords OBVIOUS
<1>1. pending' \subseteq pending
  BY DEF Flush, BeginFlush, PutObject, PutFails, RegisterSegment, AbandonFlush
<1>2. ASSUME NEW o \in objects', r \in o.rows  PROVE r \in AllRecords
  <2>1. o \in objects \/ (o.rows = flush[p].rows)
    BY DEF Flush, BeginFlush, PutObject, PutFails, RegisterSegment, AbandonFlush, Stored
  <2> QED BY <1>2, <2>1, InAllRecords
<1>3. ASSUME NEW q \in Procs, r \in flush'[q].rows  PROVE r \in AllRecords
  <2>1. flush'[q].rows \in {flush[q].rows, pending, {}}
    <3>1. CASE BeginFlush(p) BY <3>1 DEF BeginFlush, TypeInv, TypeOK
    <3>2. CASE PutObject(p) BY <3>2 DEF PutObject, TypeInv, TypeOK
    <3>3. CASE PutFails(p) \/ RegisterSegment(p) \/ AbandonFlush(p)
      BY <3>3 DEF PutFails, RegisterSegment, AbandonFlush, Idle, TypeInv, TypeOK
    <3> QED BY <3>1, <3>2, <3>3 DEF Flush
  <2> QED BY <1>3, <2>1, InAllRecords
<1> QED BY <1>1, <1>2, <1>3, InAllRecordsPrime, InAllRecords

(* So the numbers still agree and the state is still ahead.                *)
LEMMA FewerRecordsAgree ==
    ASSUME SharedInv, AllRecords' \subseteq AllRecords,
           UNCHANGED <<nextSeq, entityState>>
    PROVE  NumbersAgree' /\ StateNotBehind'
BY DEF SharedInv, NumbersAgree, StateNotBehind

(* What a flush stores under a key is what is there already, if anything.  *)
LEMMA StoringTwiceIsTheSame ==
    ASSUME SharedInv, NEW p \in Procs, flush[p].phase # "idle",
           NEW o \in objects, o.start = flush[p].start, o.end = flush[p].end
    PROVE  o = [start |-> flush[p].start, end |-> flush[p].end, rows |-> flush[p].rows]
<1>1. SeqsOf(o.rows) = SeqsOf(flush[p].rows) BY DEF SharedInv, KeysAnnounce, Whole
<1>2. o.rows \subseteq AllRecords /\ flush[p].rows \subseteq AllRecords BY InAllRecords
<1>3. o.rows = flush[p].rows BY <1>1, <1>2, WholeSetsAgree DEF SharedInv
<1>4. o \in Object BY DEF SharedInv, TypeInv, TypeOK
<1> QED BY <1>3, <1>4 DEF Object
-----------------------------------------------------------------------------
(* The tail stays a tail: an append adds the next number, and what a       *)
(* registration leaves is again the last numbers handed out.               *)
LEMMA TailBounds ==
    ASSUME TypeInv, PendingIsTail
    PROVE  /\ nextSeq \in Nat
           /\ \A r \in pending : r.seq \in Nat /\ r.seq < nextSeq
<1>1. nextSeq \in Nat BY ExportAssumption DEF TypeInv, TypeOK
<1>2. PICK from \in 0 .. nextSeq : SeqsOf(pending) = from .. (nextSeq - 1)
  BY DEF PendingIsTail
<1>3. ASSUME NEW r \in pending  PROVE r.seq \in Nat /\ r.seq < nextSeq
  <2>1. r.seq \in SeqsOf(pending) BY DEF SeqsOf
  <2> QED BY <1>1, <1>2, <2>1
<1> QED BY <1>1, <1>3

LEMMA AppendKeepsTail ==
    ASSUME TypeInv, PendingIsTail, NEW r, r.seq = nextSeq, AppendRecord(r)
    PROVE  PendingIsTail'
<1>1. PICK from \in 0 .. nextSeq : SeqsOf(pending) = from .. (nextSeq - 1)
  BY DEF PendingIsTail
<1>2. nextSeq \in Nat /\ nextSeq' = nextSeq + 1 /\ pending' = pending \cup {r}
  BY TailBounds DEF AppendRecord
<1>3. SeqsOf(pending)' = SeqsOf(pending) \cup {nextSeq} BY <1>2 DEF SeqsOf
<1>4. from .. (nextSeq' - 1) = (from .. (nextSeq - 1)) \cup {nextSeq} BY <1>2
<1>5. from \in 0 .. nextSeq' BY <1>2
<1> QED BY <1>1, <1>3, <1>4, <1>5 DEF PendingIsTail

(* Where the tail starts once the numbers up to end have gone.             *)
LEMMA TailCut ==
    ASSUME NEW n \in Nat, NEW from \in 0 .. n, NEW end \in Nat, end < n
    PROVE  \E to \in 0 .. n : /\ to = from \/ to = end + 1
                              /\ from <= to /\ end < to
<1>1. CASE end < from BY <1>1
<1>2. CASE ~(end < from)
  <2>1. end + 1 \in 0 .. n /\ from <= end + 1 BY <1>2
  <2> QED BY <2>1
<1> QED BY <1>1, <1>2

LEMMA RegisterKeepsTail ==
    ASSUME TypeInv, PendingIsTail, NEW p \in Procs, RegisterSegment(p),
           flush[p].end \in Nat, flush[p].end < nextSeq
    PROVE  PendingIsTail'
<1> DEFINE end == flush[p].end
<1>1. PICK from \in 0 .. nextSeq : SeqsOf(pending) = from .. (nextSeq - 1)
  BY DEF PendingIsTail
<1>2. /\ nextSeq \in Nat
      /\ nextSeq' = nextSeq
      /\ pending' = { r \in pending : r.seq > end }
  BY TailBounds DEF RegisterSegment
<1>3. PICK to \in 0 .. nextSeq : /\ to = from \/ to = end + 1
                                 /\ from <= to /\ end < to
  BY <1>2, TailCut
<1>4. ASSUME NEW n, n \in SeqsOf(pending')  PROVE n \in to .. (nextSeq - 1)
  <2>1. PICK r \in pending : r.seq = n /\ r.seq > end BY <1>2, <1>4 DEF SeqsOf
  <2>2. n \in from .. (nextSeq - 1) BY <1>1, <2>1 DEF SeqsOf
  <2> QED BY <1>2, <1>3, <2>1, <2>2
<1>5. ASSUME NEW n \in to .. (nextSeq - 1)  PROVE n \in SeqsOf(pending')
  <2>1. n \in from .. (nextSeq - 1) /\ n > end BY <1>2, <1>3
  <2>2. PICK r \in pending : r.seq = n BY <1>1, <2>1 DEF SeqsOf
  <2> QED BY <1>2, <2>1, <2>2 DEF SeqsOf
<1>6. SeqsOf(pending)' = to .. (nextSeq' - 1) BY <1>2, <1>4, <1>5 DEF SeqsOf
<1> QED BY <1>2, <1>6 DEF PendingIsTail

(* What a flush selects is whole: it starts at the first number of the     *)
(* tail and ends at the last one handed out.                               *)
LEMMA SelectionIsWhole ==
    ASSUME TypeInv, PendingIsTail, NEW first \in pending, NEW last \in pending,
           \A r \in pending : first.seq <= r.seq /\ r.seq <= last.seq
    PROVE  first.seq <= last.seq /\ SeqsOf(pending) = first.seq .. last.seq
<1>1. PICK from \in 0 .. nextSeq : SeqsOf(pending) = from .. (nextSeq - 1)
  BY DEF PendingIsTail
<1>2. /\ nextSeq \in Nat
      /\ first.seq \in from .. (nextSeq - 1)
      /\ last.seq \in from .. (nextSeq - 1)
  BY <1>1, TailBounds DEF SeqsOf
<1>3. from \in SeqsOf(pending) /\ nextSeq - 1 \in SeqsOf(pending) BY <1>1, <1>2
<1>4. first.seq <= from /\ nextSeq - 1 <= last.seq BY <1>3 DEF SeqsOf
<1> QED BY <1>1, <1>2, <1>4

(* The end of a flush in progress is a number of one of its rows, so it    *)
(* has been handed out.                                                    *)
LEMMA FlushEndHandedOut ==
    ASSUME SharedInv, NEW p \in Procs, flush[p].phase # "idle"
    PROVE  flush[p].end \in Nat /\ flush[p].end < nextSeq
<1>1. flush[p].start \in Nat /\ flush[p].end \in Nat
  BY ExportAssumption DEF SharedInv, TypeInv, Seqs
<1>2. flush[p].end \in SeqsOf(flush[p].rows) BY <1>1 DEF SharedInv, KeysAnnounce, Whole
<1>3. PICK r \in flush[p].rows : r.seq = flush[p].end BY <1>2 DEF SeqsOf
<1>4. r \in AllRecords BY InAllRecords
<1> QED BY <1>1, <1>3, <1>4 DEF SharedInv, NumbersAgree
-----------------------------------------------------------------------------
LEMMA InitSharedInv == Init => SharedInv
<1> SUFFICES ASSUME Init  PROVE SharedInv OBVIOUS
<1>1. TypeInv BY InitLogInv DEF LogInv
<1>2. AllRecords = {} BY InAllRecords DEF Init, Idle
<1>3. PendingIsTail BY DEF Init, PendingIsTail, SeqsOf
<1> QED
  BY <1>1, <1>2, <1>3
     DEF Init, Idle, SharedInv, KeysAnnounce, ObjectsExist, NumbersAgree,
         StateNotBehind

LEMMA AppendKeepsSharedInv ==
    ASSUME SharedInv, NEW r \in Record, r.seq = nextSeq, AppendRecord(r)
    PROVE  SharedInv'
<1>1. TypeInv' BY AppendTypes DEF SharedInv
<1>2. PendingIsTail' BY AppendKeepsTail DEF SharedInv
<1>3. /\ nextSeq' = nextSeq + 1
      /\ pending' = pending \cup {r}
      /\ entityState' = [entityState EXCEPT ![r.entity] = r]
      /\ UNCHANGED <<segments, objects, flush>>
  BY DEF AppendRecord
<1>4. AllRecords' = AllRecords \cup {r}
  <2>1. ASSUME NEW q  PROVE q \in AllRecords' <=> q \in AllRecords \/ q = r
    BY <1>3, InAllRecords, InAllRecordsPrime
  <2> QED BY <2>1
<1>5. nextSeq \in Nat /\ \A q \in AllRecords : q.seq \in Nat
  BY AllRecordsTyped, RecordFields, ExportAssumption
     DEF SharedInv, TypeInv, TypeOK, Seqs
<1>6. NumbersAgree' BY <1>3, <1>4, <1>5 DEF SharedInv, NumbersAgree
<1>7. StateNotBehind'
  <2>1. SUFFICES ASSUME NEW q \in AllRecords'
                 PROVE  /\ entityState'[q.entity] # NoRecord
                        /\ q.seq <= entityState'[q.entity].seq
                        /\ q.seq = entityState'[q.entity].seq
                               => q = entityState'[q.entity]
    BY DEF StateNotBehind
  <2>2. q \in Record /\ q.entity \in Entities /\ r.entity \in Entities
    BY <1>4, AllRecordsTyped, RecordFields DEF SharedInv
  <2>3. CASE q.entity = r.entity
    <3>1. entityState'[q.entity] = r /\ r # NoRecord
      BY <1>3, <2>2, <2>3, NoRecordAssumption DEF SharedInv, TypeInv, TypeOK
    <3>2. q = r \/ q.seq < r.seq BY <1>4 DEF SharedInv, NumbersAgree
    <3> QED BY <1>4, <1>5, <3>1, <3>2
  <2>4. CASE q.entity # r.entity
    <3>1. entityState'[q.entity] = entityState[q.entity] /\ q \in AllRecords
      BY <1>3, <1>4, <2>2, <2>4 DEF SharedInv, TypeInv, TypeOK
    <3> QED BY <3>1 DEF SharedInv, StateNotBehind
  <2> QED BY <2>3, <2>4
<1>8. KeysAnnounce' /\ ObjectsExist'
  BY <1>3 DEF SharedInv, KeysAnnounce, ObjectsExist, HasObject
<1> QED BY <1>1, <1>2, <1>6, <1>7, <1>8 DEF SharedInv

(* What every step of a flush keeps by making no record.                   *)
LEMMA FlushKeepsRecords ==
    ASSUME SharedInv, NEW p \in Procs, Flush(p)
    PROVE  TypeInv' /\ NumbersAgree' /\ StateNotBehind'
<1>1. UNCHANGED <<nextSeq, entityState>>
  BY DEF Flush, BeginFlush, PutObject, PutFails, RegisterSegment, AbandonFlush
<1>2. AllRecords' \subseteq AllRecords BY FlushMakesNoRecord DEF SharedInv
<1> QED BY <1>1, <1>2, FlushStepTypes, FewerRecordsAgree DEF SharedInv

LEMMA BeginFlushKeepsSharedInv ==
    ASSUME SharedInv, NEW p \in Procs, BeginFlush(p)
    PROVE  SharedInv'
<1>1. PICK first \in pending, last \in pending :
          /\ \A r \in pending : first.seq <= r.seq /\ r.seq <= last.seq
          /\ flush' = [flush EXCEPT ![p] = [phase |-> "putting",
                       start |-> first.seq, end |-> last.seq,
                       rows |-> pending]]
  BY DEF BeginFlush
<1>2. UNCHANGED <<nextSeq, entityState, pending, segments, objects>> BY DEF BeginFlush
<1>3. \A q \in Procs : flush'[q] = IF q = p
          THEN [phase |-> "putting", start |-> first.seq, end |-> last.seq,
                rows |-> pending]
          ELSE flush[q]
  BY <1>1 DEF SharedInv, TypeInv, TypeOK
<1>4. Whole(flush'[p]) BY <1>1, <1>3, SelectionIsWhole DEF SharedInv, Whole
<1>5. KeysAnnounce'
  <2>1. ASSUME NEW q \in Procs, flush'[q].phase # "idle"
        PROVE  Whole(flush'[q])
    BY <1>3, <1>4, <2>1 DEF SharedInv, KeysAnnounce
  <2> QED BY <1>2, <2>1 DEF SharedInv, KeysAnnounce, Whole, SeqsOf
<1>6. ObjectsExist' BY <1>2, <1>3 DEF SharedInv, ObjectsExist, HasObject
<1>7. PendingIsTail' BY <1>2 DEF SharedInv, PendingIsTail, SeqsOf
<1> QED BY <1>5, <1>6, <1>7, FlushKeepsRecords DEF SharedInv, Flush

(* The put, answered or failed, by one of several processes.               *)
LEMMA PutKeepsSharedInv ==
    ASSUME SharedInv, NEW p \in Procs, PutObject(p) \/ PutFails(p)
    PROVE  SharedInv' /\ objects \subseteq objects'
<1>1. /\ flush[p].phase = "putting"
      /\ objects' \in {objects, Stored(flush[p])}
      /\ UNCHANGED <<nextSeq, entityState, pending, segments>>
  BY DEF PutObject, PutFails
<1>2. Whole(flush[p]) BY <1>1 DEF SharedInv, KeysAnnounce
<1>3. ASSUME NEW o \in objects  PROVE o \in objects'
  <2>1. CASE o.start = flush[p].start /\ o.end = flush[p].end
    BY <1>1, <2>1, StoringTwiceIsTheSame DEF Stored
  <2>2. CASE ~(o.start = flush[p].start /\ o.end = flush[p].end)
    BY <1>1, <2>2 DEF Stored
  <2> QED BY <2>1, <2>2
<1>4. ASSUME NEW o \in objects'  PROVE Whole(o)
  <2>1. o \in objects \/ o = [start |-> flush[p].start, end |-> flush[p].end,
                              rows |-> flush[p].rows]
    BY <1>1 DEF Stored
  <2> QED BY <1>2, <2>1 DEF SharedInv, KeysAnnounce, Whole
<1>5. ASSUME NEW q \in Procs
      PROVE  /\ q # p => flush'[q] = flush[q]
             /\ flush'[q].phase # "idle" =>
                   /\ flush[q].phase # "idle"
                   /\ flush'[q].start = flush[q].start
                   /\ flush'[q].end = flush[q].end
                   /\ flush'[q].rows = flush[q].rows
  <2>1. CASE PutObject(p) BY <1>1, <2>1 DEF PutObject, SharedInv, TypeInv, TypeOK
  <2>2. CASE PutFails(p) BY <1>1, <2>2 DEF PutFails, Idle, SharedInv, TypeInv, TypeOK
  <2> QED BY <2>1, <2>2
<1>6. KeysAnnounce'
  <2>1. ASSUME NEW q \in Procs, flush'[q].phase # "idle"
        PROVE  Whole(flush'[q])
    BY <1>5, <2>1 DEF SharedInv, KeysAnnounce, Whole
  <2> QED BY <1>4, <2>1 DEF KeysAnnounce, Whole, SeqsOf
<1>7. ObjectsExist'
  <2>1. \A s \in segments' : HasObject(s)'
    BY <1>1, <1>3 DEF SharedInv, ObjectsExist, HasObject
  <2>2. ASSUME NEW q \in Procs, flush'[q].phase = "registering"
        PROVE  \E o \in objects' : o.start = flush'[q].start /\ o.end = flush'[q].end
    <3>1. CASE q = p
      <4>1. PutObject(p)
        BY <1>1, <2>2, <3>1 DEF PutFails, Idle, SharedInv, TypeInv, TypeOK
      <4>2. [start |-> flush[p].start, end |-> flush[p].end,
             rows |-> flush[p].rows] \in objects'
        BY <4>1 DEF PutObject, Stored
      <4> QED BY <1>5, <2>2, <3>1, <4>2
    <3>2. CASE q # p BY <1>3, <1>5, <2>2, <3>2 DEF SharedInv, ObjectsExist, HasObject
    <3> QED BY <3>1, <3>2
  <2> QED BY <2>1, <2>2 DEF ObjectsExist, HasObject
<1>8. PendingIsTail' BY <1>1 DEF SharedInv, PendingIsTail, SeqsOf
<1> QED BY <1>3, <1>6, <1>7, <1>8, FlushKeepsRecords DEF SharedInv, Flush

LEMMA AbandonKeepsSharedInv ==
    ASSUME SharedInv, NEW p \in Procs, AbandonFlush(p)
    PROVE  SharedInv'
<1>1. UNCHANGED <<nextSeq, entityState, pending, segments, objects>> BY DEF AbandonFlush
<1>2. \A q \in Procs : flush'[q] = IF q = p THEN Idle ELSE flush[q]
  BY DEF AbandonFlush, SharedInv, TypeInv, TypeOK
<1>3. KeysAnnounce' /\ ObjectsExist'
  BY <1>1, <1>2
     DEF SharedInv, KeysAnnounce, ObjectsExist, HasObject, Whole, SeqsOf, Idle
<1>4. PendingIsTail' BY <1>1 DEF SharedInv, PendingIsTail, SeqsOf
<1> QED BY <1>3, <1>4, FlushKeepsRecords DEF SharedInv, Flush

LEMMA RegisterKeepsSharedInv ==
    ASSUME SharedInv, NEW p \in Procs, RegisterSegment(p)
    PROVE  SharedInv'
<1>1. /\ flush[p].phase = "registering"
      /\ segments' = Registered(flush[p])
      /\ UNCHANGED <<nextSeq, entityState, objects>>
  BY DEF RegisterSegment
<1>2. \A q \in Procs : flush'[q] = IF q = p THEN Idle ELSE flush[q]
  BY DEF RegisterSegment, SharedInv, TypeInv, TypeOK
<1>3. KeysAnnounce' BY <1>1, <1>2 DEF SharedInv, KeysAnnounce, Whole, SeqsOf, Idle
<1>4. ObjectsExist'
  <2>1. HasObject(flush[p]) BY <1>1 DEF SharedInv, ObjectsExist
  <2>2. ASSUME NEW s \in segments'  PROVE HasObject(s)
    BY <1>1, <2>1, <2>2 DEF Registered, SharedInv, ObjectsExist, HasObject
  <2> QED BY <1>1, <1>2, <2>2 DEF SharedInv, ObjectsExist, HasObject, Idle
<1>5. PendingIsTail' BY <1>1, FlushEndHandedOut, RegisterKeepsTail DEF SharedInv
<1> QED BY <1>3, <1>4, <1>5, FlushKeepsRecords DEF SharedInv, Flush

(* No step of a flush takes an object away, so neither does any step.      *)
LEMMA NextKeepsSharedInv ==
    ASSUME SharedInv, [Next]_logVars
    PROVE  SharedInv' /\ objects \subseteq objects'
<1>1. CASE \E r \in Record : r.seq = nextSeq /\ AppendRecord(r)
  BY <1>1, AppendKeepsSharedInv DEF AppendRecord
<1>2. CASE \E p \in Procs : Flush(p)
  <2>1. PICK p \in Procs : Flush(p) BY <1>2
  <2>2. CASE PutObject(p) \/ PutFails(p) BY <2>2, PutKeepsSharedInv
  <2>3. CASE BeginFlush(p) \/ RegisterSegment(p) \/ AbandonFlush(p)
    <3>1. UNCHANGED objects BY <2>3 DEF BeginFlush, RegisterSegment, AbandonFlush
    <3> QED
      BY <2>3, <3>1, BeginFlushKeepsSharedInv, RegisterKeepsSharedInv,
         AbandonKeepsSharedInv
  <2> QED BY <2>1, <2>2, <2>3 DEF Flush
<1>3. CASE UNCHANGED logVars
  <2>1. TypeInv' BY <1>3, StutterTypes DEF SharedInv
  <2>2. AllRecords' = AllRecords BY <1>3 DEF logVars, AllRecords
  <2> QED
    BY <1>3, <2>1, <2>2
       DEF logVars, SharedInv, PendingIsTail, KeysAnnounce, ObjectsExist,
           HasObject, Whole, SeqsOf, NumbersAgree, StateNotBehind
<1> QED BY <1>1, <1>2, <1>3, NextCases DEF SharedInv

(* The inductive invariant of a log that any number of processes flush.    *)
THEOREM SharedInvariant == Spec => []SharedInv
<1>1. SharedInv /\ [Next]_logVars => SharedInv' BY NextKeepsSharedInv
<1> QED BY <1>1, InitSharedInv, PTL DEF Spec

(* However many processes append and flush, the unpublished rows are the   *)
(* last numbers handed out, without a hole.                                *)
THEOREM TailIsWhole == Spec => []PendingIsTail
<1>1. SharedInv => PendingIsTail BY DEF SharedInv
<1> QED BY <1>1, SharedInvariant, PTL

(* A registered segment always has its object, and the object exactly the  *)
(* numbers its name announces: readChanges reads no short segment.         *)
THEOREM SegmentsReadable == Spec => []SegmentsAreReadable
<1>1. SharedInv => SegmentsAreReadable
  BY DEF SharedInv, SegmentsAreReadable, ObjectsExist, HasObject,
         KeysAnnounce, Whole
<1> QED BY <1>1, SharedInvariant, PTL

(* No two places ever disagree about what a number was.                    *)
THEOREM NumbersAreUnique == Spec => []OneRecordPerSeq
<1>1. SharedInv => OneRecordPerSeq
  BY DEF SharedInv, OneRecordPerSeq, NumbersAgree, AllRecords
<1> QED BY <1>1, SharedInvariant, PTL

(* The row append() compares with is never older than what can be read     *)
(* back, so nothing is appended that repeats the feed's latest record.     *)
THEOREM StateNeverBehind == Spec => []StateIsNewest
<1>1. SharedInv => StateIsNewest
  <2>1. ASSUME NEW r \in Available  PROVE r \in AllRecords
    BY InPublished, InAllRecords DEF Available
  <2> QED BY <2>1 DEF SharedInv, StateIsNewest, StateNotBehind
<1> QED BY <1>1, SharedInvariant, PTL

(* An object once stored is never replaced by another and never removed: a *)
(* second flush of the same tail stores the same bytes under the same key. *)
THEOREM ObjectsNeverChange == Spec => ObjectsImmutable
<1>1. SharedInv /\ [Next]_logVars => [objects \subseteq objects']_logVars
  BY NextKeepsSharedInv
<1> QED BY <1>1, SharedInvariant, PTL DEF Spec, ObjectsImmutable
-----------------------------------------------------------------------------
(* The copy of a consumer (ExportSync). However many processes flush, what *)
(* starts later ends later: a flush selects all that is pending.           *)
Span(f) == [start |-> f.start, end |-> f.end]
Spans == segments \cup { Span(flush[p]) : p \in { q \in Procs : flush[q].phase # "idle" } }

EndsFollowStarts ==
    /\ \A f, g \in Spans : f.start < g.start => f.end <= g.end
    /\ \A f \in Spans, r \in pending : f.start <= r.seq

(* The number of an entity's row is that of its record and no other.       *)
StatesNumbered ==
    \A e \in Entities : entityState[e] # NoRecord =>
        /\ entityState[e].entity = e /\ entityState[e].seq < nextSeq
        /\ \A r \in AllRecords : r.seq = entityState[e].seq => r = entityState[e]

OrderInv == SharedInv /\ EndsFollowStarts /\ StatesNumbered

LEMMA SpansHandedOut ==
    ASSUME SharedInv, NEW f \in Spans
    PROVE  f.start \in Nat /\ f.end \in Nat /\ f.start <= f.end /\ f.end < nextSeq
<1>0. \A n \in Seqs : n \in Nat BY ExportAssumption DEF Seqs
<1>1. CASE f \in segments
  <2>1. f.start \in Nat /\ f.end \in Nat BY <1>0, <1>1 DEF SharedInv, TypeInv, TypeOK
  <2>2. PICK o \in objects : o.start = f.start /\ o.end = f.end
    BY <1>1 DEF SharedInv, ObjectsExist, HasObject
  <2>3. f.start <= f.end /\ SeqsOf(o.rows) = f.start .. f.end
    BY <2>2 DEF SharedInv, KeysAnnounce, Whole
  <2>4. PICK r \in o.rows : r.seq = f.end BY <2>1, <2>3 DEF SeqsOf
  <2>5. r \in AllRecords BY <2>4, InAllRecords
  <2> QED BY <2>1, <2>3, <2>4, <2>5 DEF SharedInv, NumbersAgree
<1>2. ASSUME NEW p \in Procs, flush[p].phase # "idle", f = Span(flush[p])
      PROVE  f.start \in Nat /\ f.end \in Nat /\ f.start <= f.end /\ f.end < nextSeq
  <2>1. f.start = flush[p].start /\ f.end = flush[p].end BY <1>2 DEF Span
  <2>2. flush[p].start \in Seqs /\ flush[p].start <= flush[p].end
    BY <1>2 DEF SharedInv, TypeInv, KeysAnnounce, Whole
  <2> QED BY <1>0, <1>2, <2>1, <2>2, FlushEndHandedOut
<1> QED BY <1>1, <1>2 DEF Spans

LEMMA LastNumberPending ==
    ASSUME TypeInv, PendingIsTail, pending # {}
    PROVE  \E r \in pending : r.seq = nextSeq - 1
<1>1. PICK from \in 0 .. nextSeq : SeqsOf(pending) = from .. (nextSeq - 1)
  BY DEF PendingIsTail
<1>2. PICK q \in pending : TRUE OBVIOUS
<1>3. q.seq \in from .. (nextSeq - 1) BY <1>1, <1>2 DEF SeqsOf
<1>4. nextSeq - 1 \in SeqsOf(pending) BY <1>1, <1>3, TailBounds
<1> QED BY <1>4 DEF SeqsOf

LEMMA FlushKeepsOrder ==
    ASSUME OrderInv, NEW p \in Procs, Flush(p)
    PROVE  EndsFollowStarts'
<1> USE DEF OrderInv
<1>0. flush \in [Procs -> [phase: {"idle", "putting", "registering"},
                           start: 0 .. MaxSeq, end: 0 .. MaxSeq, rows: SUBSET Record]]
  BY DEF SharedInv, TypeInv, TypeOK
<1>1. CASE PutObject(p) \/ PutFails(p) \/ RegisterSegment(p) \/ AbandonFlush(p)
  <2>1. pending' \subseteq pending
    BY <1>1 DEF PutObject, PutFails, RegisterSegment, AbandonFlush
  <2>2. flush[p].phase # "idle"
    BY <1>1 DEF PutObject, PutFails, RegisterSegment, AbandonFlush
  <2>3. segments' \subseteq segments \cup {Span(flush[p])}
    BY <1>1 DEF PutObject, PutFails, RegisterSegment, AbandonFlush, Registered, Span
  <2>4. ASSUME NEW q \in Procs, flush'[q].phase # "idle"
        PROVE  flush[q].phase # "idle" /\ Span(flush'[q]) = Span(flush[q])
    <3>1. CASE q # p
      <4>1. flush'[q] = flush[q]
        BY <1>0, <1>1, <3>1 DEF PutObject, PutFails, RegisterSegment, AbandonFlush
      <4> QED BY <2>4, <4>1 DEF Span
    <3>2. CASE q = p
      <4>1. PutObject(p)
        BY <1>0, <1>1, <2>4, <3>2 DEF PutFails, RegisterSegment, AbandonFlush, Idle
      <4>2. flush'[p].start = flush[p].start /\ flush'[p].end = flush[p].end
        BY <1>0, <4>1 DEF PutObject
      <4> QED BY <2>2, <3>2, <4>2 DEF Span
    <3> QED BY <3>1, <3>2
  <2>5. ASSUME NEW f \in Spans' PROVE f \in Spans
    <3>1. CASE f \in segments' BY <2>2, <2>3, <3>1 DEF Spans
    <3>2. CASE f \notin segments'
      <4>1. PICK q \in Procs : flush'[q].phase # "idle" /\ f = Span(flush'[q])
        BY <3>2 DEF Spans, Span
      <4> QED BY <2>4, <4>1 DEF Spans
    <3> QED BY <3>1, <3>2
  <2> QED BY <2>1, <2>5 DEF EndsFollowStarts
<1>2. CASE BeginFlush(p)
  <2>1. PICK first \in pending, last \in pending :
           /\ \A r \in pending : first.seq <= r.seq /\ r.seq <= last.seq
           /\ flush' = [flush EXCEPT ![p] = [phase |-> "putting", start |-> first.seq,
                                             end |-> last.seq, rows |-> pending]]
    BY <1>2 DEF BeginFlush
  <2> DEFINE new == [start |-> first.seq, end |-> last.seq]
  <2>2. flush'[p] = [phase |-> "putting", start |-> first.seq, end |-> last.seq, rows |-> pending]
        /\ \A q \in Procs : q # p => flush'[q] = flush[q]
    BY <1>0, <2>1
  <2>3. Span(flush'[p]) = new BY <2>2 DEF Span
  <2>4. UNCHANGED <<pending, segments, nextSeq>> BY <1>2 DEF BeginFlush
  <2>5. ASSUME NEW f \in Spans' PROVE f \in Spans \/ f = new
    <3>1. CASE f \in segments' BY <2>4, <3>1 DEF Spans
    <3>2. CASE f \notin segments'
      <4>1. PICK q \in Procs : flush'[q].phase # "idle" /\ f = Span(flush'[q])
        BY <3>2 DEF Spans, Span
      <4> QED BY <2>2, <2>3, <4>1 DEF Spans
    <3> QED BY <3>1, <3>2
  <2>6. PICK r \in pending : r.seq = nextSeq - 1 BY LastNumberPending DEF SharedInv
  <2>7. nextSeq \in Nat /\ first.seq \in Nat /\ last.seq \in Nat /\ last.seq >= nextSeq - 1
    BY <2>1, <2>6, TailBounds DEF SharedInv
  <2>8. \A f \in Spans : f.start \in Nat /\ f.end \in Nat /\ f.end <= last.seq /\ f.start <= first.seq
    BY <2>7, SpansHandedOut DEF EndsFollowStarts
  <2>9. new.start = first.seq /\ new.end = last.seq OBVIOUS
  <2> HIDE DEF new
  <2>10. ASSUME NEW f \in Spans', NEW g \in Spans', f.start < g.start PROVE f.end <= g.end
    <3>1. f \in Spans \/ f = new BY <2>5
    <3>2. g \in Spans \/ g = new BY <2>5
    <3>3. CASE f \in Spans /\ g \in Spans BY <2>10, <3>3 DEF EndsFollowStarts
    <3>4. CASE g = new BY <2>7, <2>8, <2>9, <3>1, <3>4
    <3>5. CASE f = new /\ g \in Spans BY <2>7, <2>8, <2>9, <2>10, <3>5
    <3> QED BY <3>1, <3>2, <3>3, <3>4, <3>5
  <2>11. ASSUME NEW f \in Spans', NEW q \in pending' PROVE f.start <= q.seq
    BY <2>1, <2>4, <2>5, <2>9 DEF EndsFollowStarts
  <2> QED BY <2>10, <2>11 DEF EndsFollowStarts
<1> QED BY <1>1, <1>2 DEF Flush

LEMMA FlushKeepsNumbers ==
    ASSUME OrderInv, NEW p \in Procs, Flush(p)
    PROVE  StatesNumbered'
<1>1. UNCHANGED <<nextSeq, entityState>>
  BY DEF Flush, BeginFlush, PutObject, PutFails, RegisterSegment, AbandonFlush
<1>2. AllRecords' \subseteq AllRecords BY FlushMakesNoRecord DEF OrderInv, SharedInv
<1> QED BY <1>1, <1>2 DEF OrderInv, StatesNumbered

LEMMA AppendKeepsOrder ==
    ASSUME OrderInv, NEW r \in Record, r.seq = nextSeq, AppendRecord(r)
    PROVE  EndsFollowStarts' /\ StatesNumbered'
<1> USE DEF OrderInv
<1>1. /\ UNCHANGED <<segments, objects, flush>>
      /\ nextSeq' = nextSeq + 1 /\ pending' = pending \cup {r}
      /\ entityState' = [entityState EXCEPT ![r.entity] = r]
  BY DEF AppendRecord
<1>2. Spans' = Spans BY <1>1 DEF Spans, Span
<1>3. nextSeq \in Nat BY TailBounds DEF SharedInv
<1>4. ASSUME NEW f \in Spans, NEW q \in pending' PROVE f.start <= q.seq
  BY <1>1, <1>3, <1>4, SpansHandedOut DEF EndsFollowStarts
<1>5. EndsFollowStarts' BY <1>2, <1>4 DEF EndsFollowStarts
<1>6. \A q : q \in AllRecords' <=> q \in AllRecords \/ q = r
  BY <1>1, InAllRecords, InAllRecordsPrime
<1>7. \A q \in AllRecords : q.seq < nextSeq /\ q.seq \in Nat
  <2>1. \A q \in Record : q.seq \in Nat BY ExportAssumption DEF Record, Seqs
  <2> QED BY <2>1, AllRecordsTyped DEF SharedInv, NumbersAgree
<1>8. ASSUME NEW e \in Entities, entityState'[e] # NoRecord
      PROVE  /\ entityState'[e].entity = e /\ entityState'[e].seq < nextSeq'
             /\ \A q \in AllRecords' : q.seq = entityState'[e].seq => q = entityState'[e]
  <2>0. entityState \in [Entities -> Record \cup {NoRecord}] /\ r.entity \in Entities
    BY DEF SharedInv, TypeInv, TypeOK, Record
  <2>1. CASE e = r.entity
    <3>1. entityState'[e] = r BY <1>1, <2>0, <2>1
    <3>2. nextSeq < nextSeq' BY <1>1, <1>3
    <3>3. \A q \in AllRecords : q.seq # nextSeq BY <1>3, <1>7
    <3> QED BY <1>6, <2>1, <3>1, <3>2, <3>3
  <2>2. CASE e # r.entity
    <3>1. entityState'[e] = entityState[e] BY <1>1, <2>0, <2>2
    <3>2. entityState[e].seq \in Nat
      BY <1>8, <2>0, <3>1, ExportAssumption DEF Record, Seqs
    <3>3. /\ entityState[e].entity = e /\ entityState[e].seq < nextSeq
          /\ \A q \in AllRecords : q.seq = entityState[e].seq => q = entityState[e]
      BY <1>8, <3>1 DEF StatesNumbered
    <3>4. entityState[e].seq < nextSeq' /\ entityState[e].seq # r.seq
      BY <1>1, <1>3, <3>2, <3>3
    <3> QED BY <1>6, <3>1, <3>3, <3>4
  <2> QED BY <2>1, <2>2
<1> QED BY <1>5, <1>8 DEF StatesNumbered

LEMMA NextKeepsOrderInv ==
    ASSUME OrderInv, [Next]_logVars
    PROVE  OrderInv'
<1>0. SharedInv' BY NextKeepsSharedInv DEF OrderInv
<1>1. CASE \E r \in Record : r.seq = nextSeq /\ AppendRecord(r)
  BY <1>0, <1>1, AppendKeepsOrder DEF OrderInv
<1>2. CASE \E p \in Procs : Flush(p)
  BY <1>0, <1>2, FlushKeepsOrder, FlushKeepsNumbers DEF OrderInv
<1>3. CASE UNCHANGED logVars
  <2>1. AllRecords' = AllRecords /\ Spans' = Spans
    BY <1>3 DEF logVars, AllRecords, Spans, Span
  <2> QED BY <1>0, <1>3, <2>1 DEF logVars, OrderInv, EndsFollowStarts, StatesNumbered
<1> QED BY <1>1, <1>2, <1>3, NextCases DEF OrderInv, SharedInv

LEMMA InitOrderInv == Init => OrderInv
<1> SUFFICES ASSUME Init PROVE OrderInv OBVIOUS
<1>1. SharedInv BY InitSharedInv
<1>2. Spans = {} BY DEF Init, Spans, Idle
<1> QED BY <1>1, <1>2 DEF OrderInv, EndsFollowStarts, StatesNumbered, Init
-----------------------------------------------------------------------------
(* Pages of lines. In order, and no two in the same place.                 *)
Orderly(lines) ==
    /\ \A l \in lines : l.at \in 0 .. MaxSeq /\ l.record.seq \in 0 .. MaxSeq
    /\ \A k, l \in lines : k.at = l.at /\ k.record.seq = l.record.seq => k = l

LEMMA GreatestNumber ==
    ASSUME NEW n \in Nat, NEW B \in SUBSET (0 .. n), B # {}
    PROVE  \E m \in B : \A k \in B : k <= m
<1> DEFINE U == { m \in 0 .. n : \A k \in B : k <= m }
<1>1. IsWellFoundedOn(OpToRel(<, Nat), Nat) BY NatLessThanWellFounded
<1>2. U \in SUBSET Nat /\ n \in U OBVIOUS
<1> HIDE DEF U
<1>3. PICK m \in U : \A k \in U : ~(<<k, m>> \in OpToRel(<, Nat)) BY <1>1, <1>2, WFMin
<1>4. \A k \in U : ~(k < m) BY <1>2, <1>3 DEF OpToRel
<1>5. m \in 0 .. n /\ \A k \in B : k <= m BY DEF U
<1>6. m \in B
  <2> SUFFICES ASSUME m \notin B PROVE FALSE OBVIOUS
  <2>1. PICK k \in B : TRUE OBVIOUS
  <2>2. \A j \in B : j <= m - 1 BY <1>5
  <2>3. m - 1 \in 0 .. n BY <1>5, <2>1, <2>2
  <2>4. m - 1 \in U BY <2>2, <2>3 DEF U
  <2> QED BY <1>4, <1>5, <2>4
<1> QED BY <1>5, <1>6

LEMMA LinesHaveALast ==
    ASSUME NEW lines, Orderly(lines), lines # {}
    PROVE  /\ LastOf(lines) \in lines
           /\ \A k \in lines : k = LastOf(lines) \/ Before(k, LastOf(lines))
<1> DEFINE A == { l.at : l \in lines }
<1>1. A \in SUBSET (0 .. MaxSeq) /\ A # {} BY DEF Orderly
<1>2. PICK a \in A : \A b \in A : b <= a
  <2> HIDE DEF A
  <2> QED BY <1>1, GreatestNumber, ExportAssumption
<1> DEFINE there == { l \in lines : l.at = a }
           B == { l.record.seq : l \in there }
<1>3. B \in SUBSET (0 .. MaxSeq) /\ B # {} BY DEF Orderly
<1>4. PICK b \in B : \A c \in B : c <= b
  <2> HIDE DEF B
  <2> QED BY <1>3, GreatestNumber, ExportAssumption
<1>5. PICK l \in lines : l.at = a /\ l.record.seq = b BY <1>4
<1>6. ASSUME NEW k \in lines PROVE k = l \/ Before(k, l)
  <2>1. k.at <= a /\ k.at \in Nat /\ a \in Nat BY <1>1, <1>2 DEF Orderly
  <2>2. CASE k.at = a
    <3>1. k.record.seq <= b /\ k.record.seq \in Nat /\ b \in Nat
      BY <1>3, <1>4, <2>2 DEF Orderly
    <3> QED BY <1>5, <2>2, <3>1 DEF Orderly, Before
  <2>3. CASE k.at # a BY <1>5, <2>1, <2>3 DEF Before
  <2> QED BY <2>2, <2>3
<1>7. \E m \in lines : \A k \in lines : k = m \/ Before(k, m) BY <1>6
<1> QED BY <1>7 DEF LastOf

LEMMA LinesAreFinite ==
    ASSUME NEW lines, Orderly(lines)
    PROVE  IsFiniteSet(lines)
<1> DEFINE places == (0 .. MaxSeq) \X (0 .. MaxSeq)
           f == [l \in lines |-> <<l.at, l.record.seq>>]
<1>1. IsFiniteSet(0 .. MaxSeq) BY FS_Interval, ExportAssumption
<1>2. IsFiniteSet(places) BY <1>1, FS_Product
<1>3. f \in [lines -> places] BY DEF Orderly
<1>4. \A k, l \in lines : f[k] = f[l] => k = l BY DEF Orderly
<1>5. f \in Injection(lines, places) BY <1>3, <1>4 DEF Injection, IsInjective
<1> QED BY <1>2, <1>5, FS_Injection

LEMMA OneIsBefore ==
    ASSUME NEW lines, Orderly(lines), NEW k \in lines, NEW l \in lines
    PROVE  /\ k # l => Before(k, l) \/ Before(l, k)
           /\ Before(k, l) => ~Before(l, k) /\ k # l
           /\ \A j \in lines : Before(j, k) /\ Before(k, l) => Before(j, l)
BY DEF Orderly, Before

(* What is before a line of the page is on the page too.                   *)
LEMMA PageIsFromTheStart ==
    ASSUME NEW lines, Orderly(lines), NEW l \in FirstOf(lines), NEW k \in lines, Before(k, l)
    PROVE  k \in FirstOf(lines)
<1> DEFINE K == { j \in lines : Before(j, k) }
           L == { j \in lines : Before(j, l) }
<1>1. l \in lines /\ Cardinality(L) < Limit BY DEF FirstOf
<1>2. K \subseteq L /\ L \subseteq lines BY <1>1, OneIsBefore
<1>3. IsFiniteSet(L) BY <1>2, LinesAreFinite, FS_Subset
<1>4. Cardinality(K) <= Cardinality(L) /\ IsFiniteSet(K) BY <1>2, <1>3, FS_Subset
<1>5. Cardinality(K) \in Nat /\ Cardinality(L) \in Nat BY <1>3, <1>4, FS_CardinalityType
<1> HIDE DEF K, L
<1>6. Cardinality(K) < Limit BY <1>1, <1>4, <1>5, SyncAssumption
<1> QED BY <1>6 DEF FirstOf, K
-----------------------------------------------------------------------------
(* What a request has read, and where the consumer is.                     *)
ListedIsReadable ==
    /\ request \in [kind: {"none", "snapshot", "changes"}, head: 0 .. MaxSeq,
                    listed: SUBSET [start: Seqs, end: Seqs]]
    /\ request.head <= nextSeq
    /\ \A s \in request.listed : HasObject(s)
    /\ \A s, t \in request.listed : s.start < t.start => s.end <= t.end
    /\ request.kind = "snapshot" => ~snapshotDone
    /\ request.kind = "changes" => snapshotDone

PositionIsKnown ==
    /\ after \in Entities \cup {-1} /\ snapshotDone \in BOOLEAN /\ skipped \subseteq Seqs
    /\ copy \in [Entities -> Record \cup {NoRecord}]
    /\ cursor \in 0 .. MaxSeq \cup {NoCursor}
    /\ IF cursor = NoCursor THEN after = -1 /\ ~snapshotDone ELSE cursor <= nextSeq

(* Nothing was jumped over: what lies behind the consumer, in the snapshot *)
(* and in the changes, is as in the source.                                *)
LiveRow(e) == IF Live(entityState[e]) THEN entityState[e] ELSE NoRecord
Told(e) == entityState[e] = NoRecord \/ entityState[e].seq < cursor
CopyIsTrue ==
    /\ ~snapshotDone => \A e \in Entities : e > after => copy[e] = NoRecord
    /\ skipped = {} /\ cursor # NoCursor =>
          \A e \in Entities : (snapshotDone \/ e <= after) /\ Told(e) => copy[e] = LiveRow(e)

SyncInv == OrderInv /\ ListedIsReadable /\ PositionIsKnown /\ CopyIsTrue

(* The lines a request reads.                                              *)
LinesRead ==
    SegmentLines(request.listed, cursor)
        \cup { Line(Behind, r) :
                 r \in { q \in pending :
                           q.seq >= NextCursor(SegmentLines(request.listed, cursor), cursor) } }

LEMMA LineIs ==
    ASSUME NEW place, NEW r
    PROVE  Line(place, r).at = place /\ Line(place, r).record = r
BY DEF Line

LEMMA InSegmentLines ==
    ASSUME NEW l
    PROVE  l \in SegmentLines(request.listed, cursor) <=>
              \E s \in request.listed, o \in objects :
                  /\ o.start = s.start /\ o.end = s.end
                  /\ \E r \in o.rows : r.seq >= cursor /\ l = Line(s.start, r)
BY DEF SegmentLines, RowsOf

LEMMA SegmentLinesAreTrue ==
    ASSUME OrderInv, ListedIsReadable, cursor \in Nat, NEW l \in SegmentLines(request.listed, cursor)
    PROVE  /\ l.at \in 0 .. (MaxSeq - 1) /\ l.record \in AllRecords /\ l.record.seq >= cursor
           /\ l = Line(l.at, l.record)
           /\ \E s \in request.listed : /\ s.start = l.at /\ l.record.seq \in s.start .. s.end
                                        /\ s.start \in Nat /\ s.end \in Nat
<1>1. PICK s \in request.listed, o \in objects : \E r \in o.rows :
         /\ o.start = s.start /\ o.end = s.end /\ r.seq >= cursor /\ l = Line(s.start, r)
  BY InSegmentLines
<1>2. PICK r \in o.rows : /\ o.start = s.start /\ o.end = s.end
                          /\ r.seq >= cursor /\ l = Line(s.start, r)
  BY <1>1
<1>3. l.at = s.start /\ l.record = r BY <1>2, LineIs
<1>4. s.start \in Seqs /\ s.end \in Seqs BY DEF ListedIsReadable
<1>5. r.seq \in s.start .. s.end
  <2>1. SeqsOf(o.rows) = o.start .. o.end
    BY DEF OrderInv, SharedInv, KeysAnnounce, Whole
  <2>2. r.seq \in SeqsOf(o.rows) BY DEF SeqsOf
  <2> QED BY <1>2, <2>1, <2>2
<1> QED BY <1>2, <1>3, <1>4, <1>5, InAllRecords, ExportAssumption DEF Seqs

LEMMA NextCursorIsBehind ==
    ASSUME OrderInv, ListedIsReadable, cursor \in Nat
    PROVE  LET published == SegmentLines(request.listed, cursor)
           IN  /\ Orderly(published)
               /\ NextCursor(published, cursor) \in Nat /\ NextCursor(published, cursor) >= cursor
               /\ \A k \in published : k = LastOf(published) \/ Before(k, LastOf(published))
<1> DEFINE published == SegmentLines(request.listed, cursor)
<1>1. \A l \in published : /\ l.at \in 0 .. (MaxSeq - 1) /\ l.record \in AllRecords
                           /\ l.record.seq >= cursor /\ l = Line(l.at, l.record)
  BY SegmentLinesAreTrue
<1>2. \A r \in AllRecords : r.seq \in Seqs
  BY AllRecordsTyped, RecordFields DEF OrderInv, SharedInv
<1> HIDE DEF published
<1>3. ASSUME NEW k \in published, NEW l \in published, k.at = l.at, k.record.seq = l.record.seq
      PROVE  k = l
  <2>1. k.record = l.record BY <1>1, <1>3 DEF OrderInv, SharedInv, NumbersAgree
  <2> QED BY <1>1, <1>3, <2>1
<1>4. ASSUME NEW l \in published PROVE l.at \in 0 .. MaxSeq /\ l.record.seq \in 0 .. MaxSeq
  BY <1>1, <1>2, ExportAssumption DEF Seqs
<1>5. Orderly(published) BY <1>3, <1>4 DEF Orderly
<1>6. CASE published = {} BY <1>5, <1>6 DEF NextCursor, published
<1>7. CASE published # {}
  <2>1. LastOf(published) \in published
        /\ \A k \in published : k = LastOf(published) \/ Before(k, LastOf(published))
    BY <1>5, <1>7, LinesHaveALast
  <2>2. LastOf(published).record.seq \in Nat /\ LastOf(published).record.seq >= cursor
    BY <1>1, <1>4, <2>1
  <2>3. NextCursor(published, cursor) = LastOf(published).record.seq + 1
    BY <1>7 DEF NextCursor
  <2>4. NextCursor(published, cursor) \in Nat /\ NextCursor(published, cursor) >= cursor
    BY <2>2, <2>3
  <2> QED BY <1>5, <2>1, <2>4 DEF published
<1> QED BY <1>6, <1>7

LEMMA InLinesRead ==
    ASSUME NEW l
    PROVE  l \in LinesRead <=>
              \/ l \in SegmentLines(request.listed, cursor)
              \/ \E r \in pending :
                    /\ r.seq >= NextCursor(SegmentLines(request.listed, cursor), cursor)
                    /\ l = Line(Behind, r)
BY DEF LinesRead

LEMMA LinesReadAreTrue ==
    ASSUME OrderInv, ListedIsReadable, cursor \in Nat
    PROVE  /\ Orderly(LinesRead)
           /\ \A l \in LinesRead : l.record \in AllRecords /\ l.record.seq >= cursor
<1> DEFINE published == SegmentLines(request.listed, cursor)
<1>1. \A l \in published : /\ l.at \in 0 .. (MaxSeq - 1) /\ l.record \in AllRecords
                           /\ l.record.seq >= cursor /\ l = Line(l.at, l.record)
  BY SegmentLinesAreTrue
<1>2. \A r \in AllRecords : r.seq \in Seqs /\ r.seq \in Nat
  BY AllRecordsTyped, RecordFields, ExportAssumption DEF OrderInv, SharedInv, Seqs
<1>3. NextCursor(published, cursor) \in Nat /\ NextCursor(published, cursor) >= cursor
  BY NextCursorIsBehind
<1>4. \A r \in pending : r \in AllRecords BY InAllRecords
<1>5. \A r : Line(Behind, r).at = MaxSeq /\ Line(Behind, r).record = r
  BY LineIs DEF Behind
<1>6. \A l \in LinesRead : l \in published
          \/ \E r \in pending : r.seq >= NextCursor(published, cursor) /\ l = Line(Behind, r)
  BY InLinesRead
<1> HIDE DEF published
<1>7. ASSUME NEW l \in LinesRead
      PROVE  /\ l.at \in 0 .. MaxSeq /\ l.record \in AllRecords /\ l.record.seq >= cursor
             /\ l = Line(l.at, l.record)
  <2>1. CASE l \in published BY <1>1, <2>1, ExportAssumption
  <2>2. CASE \E r \in pending : r.seq >= NextCursor(published, cursor) /\ l = Line(Behind, r)
    <3>1. PICK r \in pending : r.seq >= NextCursor(published, cursor) /\ l = Line(Behind, r)
      BY <2>2
    <3>2. r.seq \in Nat /\ r.seq >= cursor BY <1>2, <1>3, <1>4, <3>1
    <3>3. l.at = MaxSeq /\ l.record = r BY <1>5, <3>1
    <3> QED BY <1>4, <3>1, <3>2, <3>3, ExportAssumption DEF Behind
  <2> QED BY <1>6, <2>1, <2>2
<1>8. ASSUME NEW k \in LinesRead, NEW l \in LinesRead, k.at = l.at, k.record.seq = l.record.seq
      PROVE  k = l
  <2>1. k.record = l.record BY <1>7, <1>8 DEF OrderInv, SharedInv, NumbersAgree
  <2> QED BY <1>7, <1>8, <2>1
<1>9. \A l \in LinesRead : l.record.seq \in 0 .. MaxSeq
  BY <1>2, <1>7, ExportAssumption DEF Seqs
<1> QED BY <1>7, <1>8, <1>9 DEF Orderly

(* A later source that reaches back to a number has its record as well.    *)
LEMMA LaterLinesRepeat ==
    ASSUME OrderInv, ListedIsReadable, cursor \in Nat, NEW k \in LinesRead, NEW l \in LinesRead,
           k.at < l.at, l.record.seq <= k.record.seq
    PROVE  \E m \in LinesRead : m.at = l.at /\ m.record = k.record
<1> DEFINE published == SegmentLines(request.listed, cursor)
<1>1. \A j \in LinesRead : j.at \in 0 .. MaxSeq /\ j.record \in AllRecords /\ j.record.seq >= cursor
  BY LinesReadAreTrue DEF Orderly
<1>2. \A r \in AllRecords : r.seq \in Nat /\ r.seq < nextSeq
  BY AllRecordsTyped, RecordFields, ExportAssumption DEF OrderInv, SharedInv, Seqs, NumbersAgree
<1>3. k.record.seq \in Nat /\ l.record.seq \in Nat /\ k.record.seq < nextSeq /\ k.record.seq >= cursor
      /\ k.at \in Nat /\ l.at \in 0 .. MaxSeq
  BY <1>1, <1>2
<1>4. ASSUME NEW j \in LinesRead, j \notin published
      PROVE  /\ j.at = MaxSeq /\ j.record \in pending
             /\ j.record.seq >= NextCursor(published, cursor)
  <2>1. PICK r \in pending : r.seq >= NextCursor(published, cursor) /\ j = Line(Behind, r)
    BY <1>4, InLinesRead
  <2> QED BY <2>1, LineIs DEF Behind
<1>5. k \in published
  <2>1. k.at < MaxSeq BY <1>3, ExportAssumption
  <2> QED BY <1>4, <2>1, ExportAssumption
<1>6. CASE l \notin published
  <2>1. /\ l.at = MaxSeq /\ l.record \in pending
        /\ l.record.seq >= NextCursor(published, cursor)
    BY <1>4, <1>6
  <2>2. PICK from \in 0 .. nextSeq : SeqsOf(pending) = from .. (nextSeq - 1)
    BY DEF OrderInv, SharedInv, PendingIsTail
  <2>3. l.record.seq \in from .. (nextSeq - 1) BY <2>1, <2>2 DEF SeqsOf
  <2>4. nextSeq \in Nat BY TailBounds DEF OrderInv, SharedInv
  <2>5. k.record.seq \in from .. (nextSeq - 1) BY <1>3, <2>3, <2>4
  <2>6. PICK r \in pending : r.seq = k.record.seq BY <2>2, <2>5 DEF SeqsOf
  <2>7. r = k.record BY <1>1, <2>6, InAllRecords DEF OrderInv, SharedInv, NumbersAgree
  <2>8. NextCursor(published, cursor) \in Nat BY NextCursorIsBehind
  <2>9. r.seq >= NextCursor(published, cursor) BY <1>3, <2>1, <2>6, <2>8
  <2>10. Line(Behind, r) \in LinesRead BY <2>9, InLinesRead
  <2> QED BY <2>1, <2>7, <2>10, LineIs DEF Behind
<1>7. CASE l \in published
  <2>1. PICK s \in request.listed : /\ s.start = k.at /\ k.record.seq \in s.start .. s.end
                                    /\ s.start \in Nat /\ s.end \in Nat
    BY <1>5, SegmentLinesAreTrue
  <2>2. PICK t \in request.listed : /\ t.start = l.at /\ l.record.seq \in t.start .. t.end
                                    /\ t.start \in Nat /\ t.end \in Nat
    BY <1>7, SegmentLinesAreTrue
  <2>3. s.end <= t.end BY <2>1, <2>2 DEF ListedIsReadable
  <2>4. k.record.seq \in t.start .. t.end BY <1>3, <2>1, <2>2, <2>3
  <2>5. PICK o \in objects : o.start = t.start /\ o.end = t.end
    BY DEF ListedIsReadable, HasObject
  <2>6. SeqsOf(o.rows) = t.start .. t.end
    BY <2>5 DEF OrderInv, SharedInv, KeysAnnounce, Whole
  <2>7. PICK r \in o.rows : r.seq = k.record.seq BY <2>4, <2>6 DEF SeqsOf
  <2>8. r = k.record BY <1>1, <2>7, InAllRecords DEF OrderInv, SharedInv, NumbersAgree
  <2>9. Line(t.start, r) \in published BY <1>3, <2>5, <2>7, InSegmentLines
  <2>10. Line(t.start, r) \in LinesRead BY <2>9, InLinesRead
  <2> QED BY <2>2, <2>8, <2>10, LineIs
<1> QED BY <1>6, <1>7
-----------------------------------------------------------------------------
(* A page of changes.                                                      *)
LEMMA PageOfChanges ==
    ASSUME OrderInv, ListedIsReadable, cursor \in Nat
    PROVE  LET page == FirstOf(LinesRead)
           IN  /\ ChangesPage(request.listed, cursor) = page /\ page \subseteq LinesRead
               /\ Orderly(page)
               /\ page # {} => LastOf(page) \in page
               /\ page # {} => \A k \in page : k = LastOf(page) \/ Before(k, LastOf(page))
<1> DEFINE page == FirstOf(LinesRead)
<1>1. ChangesPage(request.listed, cursor) = page BY DEF ChangesPage, LinesRead
<1>2. page \subseteq LinesRead BY DEF FirstOf
<1>3. Orderly(page) BY <1>2, LinesReadAreTrue DEF Orderly
<1> HIDE DEF page
<1>4. page # {} => LastOf(page) \in page /\ \A k \in page : k = LastOf(page) \/ Before(k, LastOf(page))
  BY <1>3, LinesHaveALast
<1> QED BY <1>1, <1>2, <1>3, <1>4 DEF page

(* A line that is not on the page is behind the last one that is.          *)
LEMMA OffThePage ==
    ASSUME OrderInv, ListedIsReadable, cursor \in Nat, FirstOf(LinesRead) # {},
           NEW m \in LinesRead, m \notin FirstOf(LinesRead)
    PROVE  Before(LastOf(FirstOf(LinesRead)), m)
<1> DEFINE page == FirstOf(LinesRead)
<1>1. Orderly(LinesRead) BY LinesReadAreTrue
<1>2. LastOf(page) \in page /\ LastOf(page) \in LinesRead BY PageOfChanges
<1>3. Before(m, LastOf(page)) => m \in page BY <1>1, <1>2, PageIsFromTheStart
<1>4. LastOf(page) # m BY <1>2
<1> QED BY <1>1, <1>2, <1>3, <1>4, OneIsBefore

(* The number an entity has now, when it is on the page and not jumped     *)
(* over: the last the page says of the entity is its row.                  *)
LEMMA PageTellsTheState ==
    ASSUME OrderInv, ListedIsReadable, cursor \in Nat, NEW e \in Entities,
           NEW k \in FirstOf(LinesRead), k.record = entityState[e],
           k.record.seq <= LastOf(FirstOf(LinesRead)).record.seq,
           entityState[e] # NoRecord
    PROVE  LET lines == { l \in FirstOf(LinesRead) : l.record.entity = e }
           IN  lines # {} /\ LastOf(lines).record = entityState[e]
<1> DEFINE page == FirstOf(LinesRead)
           lines == { l \in page : l.record.entity = e }
           l == LastOf(lines)
           last == LastOf(page)
<1>1. page \subseteq LinesRead /\ Orderly(page)
      /\ (page # {} => last \in page /\ \A j \in page : j = last \/ Before(j, last))
  BY PageOfChanges
<1>2. k.record.entity = e BY DEF OrderInv, StatesNumbered
<1>3. k \in lines /\ Orderly(lines) BY <1>1, <1>2 DEF Orderly
<1>4. l \in lines /\ \A j \in lines : j = l \/ Before(j, l)
  <2> HIDE DEF lines
  <2> QED BY <1>3, LinesHaveALast
<1>5. l \in page /\ l \in LinesRead /\ k \in LinesRead /\ l.record.entity = e
  BY <1>1, <1>4
<1>6. last \in page /\ last \in LinesRead /\ (l = last \/ Before(l, last)) BY <1>1, <1>5
<1>7. \A j \in LinesRead : j.at \in Nat /\ j.record \in AllRecords /\ j.record.seq \in Nat
  BY LinesReadAreTrue, ExportAssumption DEF Orderly
<1>8. l.record.seq <= k.record.seq
      /\ (l.record.seq = k.record.seq => l.record = k.record)
  BY <1>5, <1>7 DEF OrderInv, SharedInv, StateNotBehind, NumbersAgree
<1> HIDE DEF page, lines, l, last
<1>9. ASSUME l.record # entityState[e] PROVE FALSE
  <2>1. k # l /\ Before(k, l) /\ l.record.seq < k.record.seq
    BY <1>3, <1>4, <1>5, <1>7, <1>8, <1>9
  <2>2. k.at < l.at BY <1>5, <1>7, <2>1 DEF Before
  <2>3. PICK m \in LinesRead : m.at = l.at /\ m.record = k.record
    BY <1>5, <1>8, <2>2, LaterLinesRepeat
  <2>4. Before(l, m) /\ m # l /\ ~Before(m, l) BY <1>5, <1>7, <2>1, <2>3 DEF Before
  <2>5. CASE m \in page
    <3>1. m \in lines BY <1>2, <2>3, <2>5 DEF lines
    <3> QED BY <1>4, <2>4, <3>1
  <2>6. CASE m \notin page
    <3>1. Before(last, m) BY <1>5, <2>6, OffThePage DEF page, last
    <3>2. last.record.seq >= m.record.seq BY <2>3, <1>5, <1>6, <1>7 DEF last, page
    <3> QED BY <1>5, <1>6, <1>7, <2>3, <2>1, <3>1, <3>2 DEF Before
  <2> QED BY <2>5, <2>6
<1> QED BY <1>3, <1>9 DEF page, lines, l
-----------------------------------------------------------------------------
(* A page of the snapshot: all rows up to the last one on it.              *)
LEMMA SnapshotPageIs ==
    ASSUME NEW rows, rows \subseteq Entities
    PROVE  LET page == SnapshotPage(rows)
           IN  /\ page \subseteq rows
               /\ page # {} => LastRow(page) \in page /\ \A e \in page : e <= LastRow(page)
               /\ page # {} => \A e \in rows : e <= LastRow(page) => e \in page
               /\ Cardinality(rows) <= Limit => page = rows
<1> DEFINE page == SnapshotPage(rows)
           before == [e \in rows |-> { d \in rows : d < e }]
<1>1. IsFiniteSet(rows) /\ Limit \in Nat /\ \A e \in rows : e \in Nat
  BY FS_Subset, SyncAssumption, ExportAssumption
<1>2. ASSUME NEW e \in rows
      PROVE  /\ IsFiniteSet(before[e]) /\ Cardinality(before[e]) \in Nat
             /\ Cardinality(before[e]) < Cardinality(rows)
  <2>1. before[e] \subseteq rows /\ e \notin before[e] BY <1>1
  <2>2. before[e] # rows BY <2>1
  <2> HIDE DEF before
  <2> QED BY <1>1, <2>1, <2>2, FS_Subset, FS_CardinalityType
<1>3. ASSUME NEW d \in rows, NEW e \in rows, d < e
      PROVE  Cardinality(before[d]) < Cardinality(before[e])
  <2>1. before[d] \subseteq before[e] /\ d \in before[e] /\ d \notin before[d]
    BY <1>1, <1>3
  <2>2. before[d] # before[e] BY <2>1
  <2>3. IsFiniteSet(before[e]) /\ IsFiniteSet(before[d]) BY <1>2
  <2> HIDE DEF before
  <2> QED BY <2>1, <2>2, <2>3, FS_Subset, FS_CardinalityType
<1>4. page = { e \in rows : Cardinality(before[e]) < Limit } BY DEF SnapshotPage
<1> HIDE DEF page, before
<1>5. page \subseteq rows BY <1>4
<1>6. ASSUME Cardinality(rows) <= Limit PROVE page = rows
  <2>1. Cardinality(rows) \in Nat BY <1>1, FS_CardinalityType
  <2>2. \A e \in rows : Cardinality(before[e]) < Limit BY <1>1, <1>2, <1>6, <2>1
  <2> QED BY <1>4, <2>2
<1>7. CASE page # {}
  <2> DEFINE B == { Cardinality(before[e]) : e \in page }
  <2>1. B \subseteq 0 .. Limit /\ B # {} BY <1>1, <1>2, <1>4, <1>7
  <2>2. PICK b \in B : \A c \in B : c <= b
    <3> HIDE DEF B
    <3> QED BY <1>1, <2>1, GreatestNumber
  <2>3. PICK last \in page : Cardinality(before[last]) = b OBVIOUS
  <2>4. \A e \in page : Cardinality(before[e]) <= Cardinality(before[last])
    BY <2>2, <2>3
  <2>5. \A e \in page : e <= last BY <1>1, <1>2, <1>3, <1>5, <2>3, <2>4
  <2>6. LastRow(page) \in page /\ \A e \in page : e <= LastRow(page)
    BY <2>3, <2>5 DEF LastRow
  <2>7. ASSUME NEW e \in rows, e <= LastRow(page) PROVE e \in page
    <3>1. LastRow(page) \in rows /\ Cardinality(before[LastRow(page)]) < Limit
      BY <1>4, <2>6
    <3>2. e = LastRow(page) \/ e < LastRow(page) BY <1>1, <2>7, <3>1
    <3>3. Cardinality(before[e]) <= Cardinality(before[LastRow(page)])
      BY <1>2, <1>3, <3>1, <3>2
    <3>4. Cardinality(before[e]) < Limit BY <1>1, <1>2, <3>1, <3>3
    <3> QED BY <1>4, <3>4
  <2> QED BY <1>5, <1>6, <2>6, <2>7 DEF page
<1>8. CASE page = {} BY <1>5, <1>6, <1>8 DEF page
<1> QED BY <1>7, <1>8

LEMMA NoRequestIsReadable ==
    ASSUME SyncInv, UNCHANGED logVars, request' = NoRequest
    PROVE  OrderInv' /\ ListedIsReadable'
<1>1. OrderInv' BY NextKeepsOrderInv DEF SyncInv
<1>2. nextSeq' \in Nat BY TailBounds DEF logVars, SyncInv, OrderInv, SharedInv
<1>3. request'.kind = "none" /\ request'.head = 0 /\ request'.listed = {}
  BY DEF NoRequest
<1>4. request' \in [kind: {"none", "snapshot", "changes"}, head: 0 .. MaxSeq,
                    listed: SUBSET [start: Seqs, end: Seqs]]
  BY ExportAssumption DEF NoRequest
<1> QED BY <1>1, <1>2, <1>3, <1>4 DEF ListedIsReadable

LEMMA ReadSnapshotRowsKeeps ==
    ASSUME SyncInv, ReadSnapshotRows
    PROVE  SyncInv'
<1> DEFINE rows == { e \in Entities : e > after /\ Live(entityState[e]) }
           page == SnapshotPage(rows)
<1>1. /\ request.kind = "snapshot" /\ request' = NoRequest
      /\ copy' = [e \in Entities |-> IF e \in page THEN entityState[e] ELSE copy[e]]
      /\ after' = IF page = {} THEN after ELSE LastRow(page)
      /\ snapshotDone' = (Cardinality(rows) <= Limit)
      /\ cursor' = IF cursor = NoCursor THEN request.head ELSE cursor
      /\ UNCHANGED <<nextSeq, entityState, pending, segments, objects, flush, skipped>>
  BY DEF ReadSnapshotRows, logVars
<1>2. rows \subseteq Entities OBVIOUS
<1>3. /\ page \subseteq rows
      /\ page # {} => LastRow(page) \in page /\ \A e \in page : e <= LastRow(page)
      /\ page # {} => \A e \in rows : e <= LastRow(page) => e \in page
      /\ Cardinality(rows) <= Limit => page = rows
  <2> HIDE DEF rows
  <2> QED BY <1>2, SnapshotPageIs
<1> HIDE DEF page
<1>4. UNCHANGED logVars BY <1>1 DEF logVars
<1>5. OrderInv' /\ ListedIsReadable' BY <1>1, <1>4, NoRequestIsReadable
<1>6. nextSeq \in Nat /\ nextSeq \in 0 .. MaxSeq /\ entityState \in [Entities -> Record \cup {NoRecord}]
  BY TailBounds DEF SyncInv, OrderInv, SharedInv, TypeInv, TypeOK
<1>7. /\ after \in Entities \cup {-1} /\ skipped \subseteq Seqs
      /\ copy \in [Entities -> Record \cup {NoRecord}]
      /\ cursor \in 0 .. MaxSeq \cup {NoCursor}
      /\ IF cursor = NoCursor THEN after = -1 /\ ~snapshotDone ELSE cursor <= nextSeq
      /\ request.head \in 0 .. MaxSeq /\ request.head <= nextSeq /\ ~snapshotDone
  BY <1>1 DEF SyncInv, PositionIsKnown, ListedIsReadable
<1>8. after' \in Entities \cup {-1} BY <1>1, <1>2, <1>3, <1>7
<1>9. copy' \in [Entities -> Record \cup {NoRecord}] BY <1>1, <1>6, <1>7
<1>10. cursor' \in 0 .. MaxSeq /\ cursor' <= nextSeq' /\ cursor' # NoCursor
  BY <1>1, <1>7, SyncAssumption
<1>11. snapshotDone' \in BOOLEAN BY <1>1
<1>12. PositionIsKnown' BY <1>1, <1>7, <1>8, <1>9, <1>10, <1>11 DEF PositionIsKnown
<1>13. \A e \in Entities : e \in Nat BY ExportAssumption
<1>14. ASSUME NEW e \in Entities, e > after PROVE copy[e] = NoRecord
  BY <1>7, <1>14 DEF SyncInv, CopyIsTrue
<1>15. after' \in Int /\ after \in Int /\ after' >= after
  <2>1. CASE page = {} BY <1>1, <1>7, <1>13, <2>1
  <2>2. CASE page # {} BY <1>1, <1>3, <1>7, <1>13, <2>2
  <2> QED BY <2>1, <2>2
<1>16. ASSUME NEW e \in Entities, e > after' PROVE copy'[e] = NoRecord
  <2>1. e > after BY <1>13, <1>15, <1>16
  <2>2. e \notin page BY <1>1, <1>3, <1>13, <1>15, <1>16
  <2> QED BY <1>1, <1>14, <2>1, <2>2
<1>17. ASSUME skipped = {}, NEW e \in Entities, snapshotDone' \/ e <= after', Told(e)'
       PROVE  copy'[e] = LiveRow(e)
  <2>1. CASE e <= after
    <3>1. e \notin page BY <1>3, <1>7, <1>13, <1>15, <2>1
    <3>2. cursor # NoCursor /\ cursor' = cursor BY <1>1, <1>7, <1>13, <2>1
    <3>3. Told(e) BY <1>1, <1>17, <3>2 DEF Told
    <3> QED BY <1>1, <1>17, <2>1, <3>1, <3>2, <3>3 DEF SyncInv, CopyIsTrue
  <2>2. CASE ~(e <= after)
    <3>1. e > after BY <1>13, <1>15, <2>2
    <3>2. CASE e \in page BY <1>1, <1>3, <3>2 DEF LiveRow
    <3>3. CASE e \notin page
      <4>1. e \notin rows
        <5> SUFFICES ASSUME e \in rows PROVE FALSE OBVIOUS
        <5>1. CASE snapshotDone' BY <1>1, <1>3, <3>3, <5>1
        <5>2. CASE e <= after' BY <1>1, <1>3, <1>13, <1>15, <3>1, <3>3, <5>2
        <5> QED BY <1>17, <5>1, <5>2
      <4>2. ~Live(entityState[e]) BY <3>1, <4>1
      <4> QED BY <1>1, <1>14, <3>1, <3>3, <4>2 DEF LiveRow
    <3> QED BY <3>2, <3>3
  <2> QED BY <2>1, <2>2
<1>18. \A e \in Entities : LiveRow(e)' = LiveRow(e) BY <1>1 DEF LiveRow
<1>19. CopyIsTrue' BY <1>1, <1>16, <1>17, <1>18 DEF CopyIsTrue
<1> QED BY <1>5, <1>12, <1>19 DEF SyncInv

(* The records a page was made of are behind the consumer, and an entity   *)
(* whose number is not behind it is not spoken of.                         *)
LEMMA ReadChangesKeeps ==
    ASSUME SyncInv, ReadChanges
    PROVE  SyncInv'
<1> DEFINE page == FirstOf(LinesRead)
           last == LastOf(page)
           next == NextCursor(page, cursor)
           Of(e) == { l \in page : l.record.entity = e }
<1>1. request.kind = "changes" /\ request' = NoRequest
      /\ UNCHANGED <<nextSeq, entityState, pending, segments, objects, flush, after, snapshotDone>>
  BY DEF ReadChanges, logVars
<1>2. UNCHANGED logVars BY <1>1 DEF logVars
<1>3. OrderInv' /\ ListedIsReadable' BY <1>1, <1>2, NoRequestIsReadable
<1>4. OrderInv /\ ListedIsReadable /\ PositionIsKnown /\ CopyIsTrue /\ snapshotDone
  BY <1>1 DEF SyncInv, ListedIsReadable
<1>5. cursor \in Nat /\ cursor \in 0 .. MaxSeq /\ cursor <= nextSeq /\ cursor # NoCursor
      /\ after \in Entities \cup {-1} /\ skipped \subseteq Seqs
      /\ copy \in [Entities -> Record \cup {NoRecord}]
  BY <1>4, ExportAssumption DEF PositionIsKnown
<1>6. ChangesPage(request.listed, cursor) = page /\ page \subseteq LinesRead
      /\ (page # {} => last \in page /\ \A k \in page : k = last \/ Before(k, last))
  BY <1>4, <1>5, PageOfChanges
<1>7. /\ copy' = Applied(page)
      /\ cursor' = next
      /\ skipped' = skipped \cup ((cursor .. (next - 1)) \ { l.record.seq : l \in page })
  BY <1>6 DEF ReadChanges
<1>8. nextSeq \in Nat /\ nextSeq \in 0 .. MaxSeq /\ MaxSeq \in Nat
      /\ entityState \in [Entities -> Record \cup {NoRecord}]
  BY <1>4, TailBounds, ExportAssumption DEF OrderInv, SharedInv, TypeInv, TypeOK
<1>9. \A l \in LinesRead : /\ l.record \in AllRecords /\ l.record.seq >= cursor
                           /\ l.record.seq \in Nat /\ l.record.seq < nextSeq
                           /\ l.record \in Record
  <2>1. \A l \in LinesRead : l.record \in AllRecords /\ l.record.seq >= cursor
    BY <1>4, <1>5, LinesReadAreTrue
  <2>2. \A r \in AllRecords : r \in Record /\ r.seq \in Nat /\ r.seq < nextSeq
    BY <1>4, AllRecordsTyped, RecordFields, ExportAssumption
       DEF OrderInv, SharedInv, NumbersAgree, Seqs
  <2> QED BY <2>1, <2>2
<1>10. \A e \in Entities : copy'[e] =
          IF Of(e) = {} THEN copy[e]
          ELSE IF LastOf(Of(e)).record.op = "delete" THEN NoRecord ELSE LastOf(Of(e)).record
  BY <1>7 DEF Applied
<1>11. page # {} => next = last.record.seq + 1 BY DEF NextCursor
<1>12. page = {} => next = cursor BY DEF NextCursor
<1> HIDE DEF page, last, next
<1>13. next \in Nat /\ next <= nextSeq /\ next >= cursor
  <2>1. CASE page = {} BY <1>5, <1>12, <2>1
  <2>2. CASE page # {} BY <1>5, <1>6, <1>8, <1>9, <1>11, <2>2
  <2> QED BY <2>1, <2>2
<1>14. \A e \in Entities : Of(e) # {} => LastOf(Of(e)) \in Of(e)
  <2> SUFFICES ASSUME NEW e \in Entities, Of(e) # {} PROVE LastOf(Of(e)) \in Of(e)
    OBVIOUS
  <2>1. Orderly(Of(e)) BY <1>4, <1>5, <1>6, LinesReadAreTrue DEF Orderly
  <2> HIDE DEF Of
  <2> QED BY <2>1, LinesHaveALast
<1>15. copy' \in [Entities -> Record \cup {NoRecord}]
  <2>1. \A e \in Entities : copy'[e] \in Record \cup {NoRecord}
    BY <1>5, <1>6, <1>9, <1>10, <1>14
  <2>2. copy' = [e \in Entities |-> copy'[e]] BY <1>7 DEF Applied
  <2> QED BY <2>1, <2>2
<1>16. skipped' \subseteq Seqs
  <2>1. cursor .. (next - 1) \subseteq Seqs BY <1>5, <1>8, <1>13 DEF Seqs
  <2> QED BY <1>5, <1>7, <2>1
<1>17. cursor' \in 0 .. MaxSeq /\ cursor' <= nextSeq' /\ cursor' # NoCursor
  BY <1>1, <1>7, <1>8, <1>13, SyncAssumption
<1>18. PositionIsKnown' BY <1>1, <1>4, <1>5, <1>15, <1>16, <1>17 DEF PositionIsKnown
<1>19. ASSUME skipped' = {}, NEW e \in Entities, Told(e)' PROVE copy'[e] = LiveRow(e)
  <2>1. skipped = {} BY <1>7, <1>19
  <2>2. CASE Told(e)
    <3>1. copy[e] = LiveRow(e) BY <1>4, <1>5, <2>1, <2>2 DEF CopyIsTrue
    <3>2. ASSUME NEW l \in page PROVE l.record.entity # e
      <4>1. l.record \in AllRecords /\ l.record.seq >= cursor /\ l.record.seq \in Nat
            /\ l.record \in Record
        BY <1>6, <1>9
      <4>2. l.record.entity = e =>
               entityState[e] # NoRecord /\ l.record.seq <= entityState[e].seq
        BY <1>4, <4>1 DEF OrderInv, SharedInv, StateNotBehind
      <4>3. entityState[e] # NoRecord => entityState[e].seq \in Nat
        BY <1>8, RecordFields, ExportAssumption DEF Seqs
      <4> QED BY <1>5, <2>2, <4>1, <4>2, <4>3 DEF Told
    <3>3. Of(e) = {} BY <3>2
    <3> QED BY <1>10, <3>1, <3>3
  <2>3. CASE ~Told(e)
    <3>1. entityState[e] # NoRecord /\ entityState[e].seq \in Nat
          /\ entityState[e].seq >= cursor /\ entityState[e].seq < next
          /\ entityState[e] \in Record
      <4>1. entityState[e] # NoRecord /\ entityState[e] \in Record /\ entityState[e].seq \in Nat
        BY <1>8, <2>3, RecordFields, ExportAssumption DEF Seqs, Told
      <4> QED BY <1>1, <1>5, <1>7, <1>19, <2>3, <4>1 DEF Told
    <3>2. page # {} BY <1>5, <1>12, <3>1
    <3>3. entityState[e].seq \in cursor .. (next - 1) BY <1>5, <1>13, <3>1
    <3>4. PICK k \in page : k.record.seq = entityState[e].seq BY <1>7, <1>19, <3>3
    <3>5. k.record = entityState[e]
      BY <1>4, <1>6, <1>9, <3>1, <3>4 DEF OrderInv, StatesNumbered
    <3>6. k.record.seq <= last.record.seq BY <1>6, <1>9, <1>11, <3>1, <3>2, <3>4
    <3>7. Of(e) # {} /\ LastOf(Of(e)).record = entityState[e]
      BY <1>4, <1>5, <3>1, <3>4, <3>5, <3>6, PageTellsTheState DEF page, last
    <3>8. entityState[e].op = "upsert" \/ entityState[e].op = "delete"
      BY <3>1 DEF Record
    <3> QED BY <1>10, <3>1, <3>7, <3>8 DEF LiveRow, Live
  <2> QED BY <2>2, <2>3
<1>20. \A e \in Entities : LiveRow(e)' = LiveRow(e) BY <1>1 DEF LiveRow
<1>21. CopyIsTrue' BY <1>1, <1>4, <1>19, <1>20 DEF CopyIsTrue
<1> QED BY <1>3, <1>18, <1>21 DEF SyncInv

(* The consumer asks: what it is told of is in storage.                    *)
LEMMA AskingKeeps ==
    ASSUME SyncInv, ReadSnapshotHead \/ ListSegments
    PROVE  SyncInv'
<1>1. UNCHANGED <<logVars, after, cursor, copy, snapshotDone, skipped>>
  BY DEF ReadSnapshotHead, ListSegments
<1>2. OrderInv' BY <1>1, NextKeepsOrderInv DEF SyncInv
<1>3. PositionIsKnown' /\ CopyIsTrue'
  BY <1>1 DEF SyncInv, logVars, PositionIsKnown, CopyIsTrue, Told, LiveRow
<1>4. nextSeq \in 0 .. MaxSeq /\ nextSeq \in Nat /\ segments \subseteq [start: Seqs, end: Seqs]
  BY TailBounds DEF SyncInv, OrderInv, SharedInv, TypeInv, TypeOK
<1>5. CASE ReadSnapshotHead
  <2>1. request' = [kind |-> "snapshot", head |-> nextSeq, listed |-> {}] /\ ~snapshotDone
    BY <1>5 DEF ReadSnapshotHead
  <2>2. ListedIsReadable' BY <1>1, <1>4, <2>1 DEF ListedIsReadable, logVars
  <2> QED BY <1>2, <1>3, <2>2 DEF SyncInv
<1>6. CASE ListSegments
  <2>1. snapshotDone
        /\ request' = [kind |-> "changes", head |-> 0,
                       listed |-> { s \in segments : s.end >= cursor }]
    BY <1>6 DEF ListSegments
  <2>2. \A s \in segments : HasObject(s)' /\ s \in Spans
    BY <1>1 DEF SyncInv, OrderInv, SharedInv, ObjectsExist, HasObject, Spans, logVars
  <2>3. \A s, t \in segments : s.start < t.start => s.end <= t.end
    BY <2>2 DEF SyncInv, OrderInv, EndsFollowStarts
  <2>4. request'.listed \subseteq segments /\ request'.kind = "changes" /\ request'.head = 0
        /\ request' \in [kind: {"none", "snapshot", "changes"}, head: 0 .. MaxSeq,
                         listed: SUBSET [start: Seqs, end: Seqs]]
    BY <1>4, <2>1, ExportAssumption
  <2>5. nextSeq' \in Nat /\ snapshotDone' BY <1>1, <1>4, <2>1 DEF logVars
  <2>6. ListedIsReadable' BY <2>2, <2>3, <2>4, <2>5 DEF ListedIsReadable
  <2> QED BY <1>2, <1>3, <2>6 DEF SyncInv
<1> QED BY <1>5, <1>6

(* The log moves while the consumer does not: objects stay, numbers go up, *)
(* and what is new is not behind the consumer yet.                         *)
LEMMA LogKeepsConsumer ==
    ASSUME SyncInv, [Next]_logVars, UNCHANGED consumerVars
    PROVE  SyncInv'
<1>0. UNCHANGED <<request, after, cursor, copy, snapshotDone, skipped>>
  BY DEF consumerVars
<1>1. OrderInv' /\ OrderInv BY NextKeepsOrderInv DEF SyncInv
<1>2. nextSeq \in Nat /\ nextSeq' \in Nat
      /\ entityState \in [Entities -> Record \cup {NoRecord}]
  BY <1>1, TailBounds, ExportAssumption DEF OrderInv, SharedInv, TypeInv, TypeOK
<1>3. /\ nextSeq' >= nextSeq
      /\ \A f : HasObject(f) => HasObject(f)'
      /\ \A e \in Entities : \/ entityState'[e] = entityState[e]
                             \/ entityState'[e] # NoRecord /\ entityState'[e].seq = nextSeq
  <2>1. CASE \E r \in Record : r.seq = nextSeq /\ AppendRecord(r)
    <3>1. PICK r \in Record : r.seq = nextSeq /\ AppendRecord(r) BY <2>1
    <3>2. nextSeq' = nextSeq + 1 /\ objects' = objects
          /\ entityState' = [entityState EXCEPT ![r.entity] = r]
      BY <3>1 DEF AppendRecord
    <3>3. \A e \in Entities : entityState'[e] = entityState[e] \/ entityState'[e] = r
      BY <1>2, <3>2
    <3> QED BY <1>2, <3>1, <3>2, <3>3, NoRecordAssumption DEF HasObject
  <2>2. CASE \E p \in Procs : Flush(p)
    <3>1. PICK p \in Procs : Flush(p) BY <2>2
    <3>2. UNCHANGED <<nextSeq, entityState>>
      BY <3>1 DEF Flush, BeginFlush, PutObject, PutFails, RegisterSegment, AbandonFlush
    <3>3. objects' = objects \/ objects' = Stored(flush[p])
      BY <3>1 DEF Flush, BeginFlush, PutObject, PutFails, RegisterSegment, AbandonFlush
    <3>4. ASSUME NEW f, HasObject(f) PROVE HasObject(f)'
      <4>1. PICK o \in objects : o.start = f.start /\ o.end = f.end
        BY <3>4 DEF HasObject
      <4>2. CASE o \in objects' BY <4>1, <4>2 DEF HasObject
      <4>3. CASE o \notin objects'
        <5> DEFINE new == [start |-> flush[p].start, end |-> flush[p].end, rows |-> flush[p].rows]
        <5>1. objects' = { q \in objects : q.start # flush[p].start \/ q.end # flush[p].end } \cup {new}
          BY <3>3, <4>3 DEF Stored
        <5>2. new \in objects' /\ new.start = o.start /\ new.end = o.end BY <4>3, <5>1
        <5> QED BY <4>1, <5>2 DEF HasObject
      <4> QED BY <4>2, <4>3
    <3> QED BY <1>2, <3>2, <3>4
  <2>3. CASE UNCHANGED logVars BY <1>2, <2>3 DEF logVars, HasObject
  <2> QED BY <1>1, <2>1, <2>2, <2>3, NextCases DEF OrderInv, SharedInv
<1>4. ListedIsReadable'
  <2>1. request.head <= nextSeq'
    BY <1>2, <1>3, ExportAssumption DEF SyncInv, ListedIsReadable
  <2> QED BY <1>0, <1>3, <2>1 DEF SyncInv, ListedIsReadable
<1>5. PositionIsKnown'
  <2>1. cursor # NoCursor => cursor \in Nat /\ cursor <= nextSeq'
    BY <1>2, <1>3, ExportAssumption DEF SyncInv, PositionIsKnown
  <2> QED BY <1>0, <2>1 DEF SyncInv, PositionIsKnown
<1>6. ASSUME cursor # NoCursor, NEW e \in Entities, Told(e)'
      PROVE  Told(e) /\ LiveRow(e)' = LiveRow(e)
  <2>1. cursor \in Nat /\ cursor <= nextSeq
    BY <1>6, ExportAssumption DEF SyncInv, PositionIsKnown
  <2>2. entityState'[e] = entityState[e] BY <1>0, <1>2, <1>3, <1>6, <2>1 DEF Told
  <2> QED BY <1>0, <1>6, <2>2 DEF Told, LiveRow
<1>7. CopyIsTrue' BY <1>0, <1>6 DEF SyncInv, CopyIsTrue
<1> QED BY <1>1, <1>4, <1>5, <1>7 DEF SyncInv

LEMMA ReadFailsKeeps ==
    ASSUME SyncInv, ReadFails
    PROVE  SyncInv'
<1>1. UNCHANGED <<logVars, after, cursor, copy, snapshotDone, skipped>> /\ request' = NoRequest
  BY DEF ReadFails
<1>2. OrderInv' /\ ListedIsReadable' BY <1>1, NoRequestIsReadable
<1>3. PositionIsKnown' /\ CopyIsTrue'
  BY <1>1 DEF SyncInv, logVars, PositionIsKnown, CopyIsTrue, Told, LiveRow
<1> QED BY <1>2, <1>3 DEF SyncInv

LEMMA InitSyncInv == SyncInit => SyncInv
<1> SUFFICES ASSUME SyncInit PROVE SyncInv OBVIOUS
<1>1. OrderInv /\ nextSeq = 0 BY InitOrderInv DEF SyncInit, Init
<1>2. request.kind = "none" /\ request.head = 0 /\ request.listed = {}
      /\ request \in [kind: {"none", "snapshot", "changes"}, head: 0 .. MaxSeq,
                      listed: SUBSET [start: Seqs, end: Seqs]]
  BY ExportAssumption DEF SyncInit, NoRequest
<1>3. ListedIsReadable BY <1>1, <1>2 DEF ListedIsReadable
<1>4. PositionIsKnown /\ CopyIsTrue BY DEF SyncInit, PositionIsKnown, CopyIsTrue
<1> QED BY <1>1, <1>3, <1>4 DEF SyncInv

LEMMA SyncNextKeeps ==
    ASSUME SyncInv, [SyncNext]_syncVars
    PROVE  SyncInv'
<1>1. CASE Next /\ UNCHANGED consumerVars BY <1>1, LogKeepsConsumer
<1>2. CASE Consume
  BY <1>2, AskingKeeps, ReadSnapshotRowsKeeps, ReadChangesKeeps, ReadFailsKeeps DEF Consume
<1>3. CASE UNCHANGED syncVars BY <1>3, LogKeepsConsumer DEF syncVars
<1> QED BY <1>1, <1>2, <1>3 DEF SyncNext

(* What a consumer knows of the log, and its types, whatever processes     *)
(* flush between the statements of its requests.                           *)
THEOREM ConsumerInvariant == SyncSpec => []SyncInv
<1>1. SyncInit => SyncInv BY InitSyncInv
<1>2. SyncInv /\ [SyncNext]_syncVars => SyncInv' BY SyncNextKeeps
<1> QED BY <1>1, <1>2, PTL DEF SyncSpec

(* The request, the position and the copy of a consumer keep their types.  *)
THEOREM ConsumerTyping == SyncSpec => []SyncTypeOK
<1>1. SyncInv => SyncTypeOK
  BY DEF SyncInv, ListedIsReadable, PositionIsKnown, SyncTypeOK
<1> QED BY <1>1, ConsumerInvariant, PTL

(* A consumer that pages through the snapshot and replays the changes from *)
(* the cursor of its first page has, when it has caught up and no page     *)
(* jumped over a number, exactly the live rows, however the writes, the    *)
(* flushes of any number of processes and its own requests interleave      *)
(* (readSnapshot, readChanges).                                            *)
THEOREM CopiesAddUp == SyncSpec => []InSyncWhenCaughtUp
<1>1. SyncInv => InSyncWhenCaughtUp
  <2> SUFFICES ASSUME SyncInv, CaughtUp, skipped = {}
               PROVE  copy = [e \in Entities |->
                                 IF Live(entityState[e]) THEN entityState[e] ELSE NoRecord]
    BY DEF InSyncWhenCaughtUp
  <2>1. cursor = nextSeq /\ snapshotDone /\ cursor # NoCursor
    BY DEF CaughtUp, SyncInv, PositionIsKnown
  <2>2. ASSUME NEW e \in Entities PROVE copy[e] = LiveRow(e)
    <3>1. Told(e) BY <2>1 DEF Told, SyncInv, OrderInv, StatesNumbered
    <3> QED BY <2>1, <3>1 DEF SyncInv, CopyIsTrue
  <2>3. copy \in [Entities -> Record \cup {NoRecord}] BY DEF SyncInv, PositionIsKnown
  <2> QED BY <2>2, <2>3 DEF LiveRow
<1> QED BY <1>1, ConsumerInvariant, PTL
-----------------------------------------------------------------------------
(* The gaps of a log that one process flushes.                             *)
LEMMA NothingIsJumpedOver ==
    ASSUME LogInv, SyncInv, ReadChanges, request.listed = { s \in segments : s.end >= cursor }
    PROVE  skipped' = skipped
<1> DEFINE page == FirstOf(LinesRead)
           last == LastOf(page)
           next == NextCursor(page, cursor)
           published == SegmentLines(request.listed, cursor)
<1>1. OrderInv /\ ListedIsReadable /\ cursor \in Nat
  BY ExportAssumption DEF ReadChanges, SyncInv, PositionIsKnown, ListedIsReadable
<1>2. ChangesPage(request.listed, cursor) = page /\ page \subseteq LinesRead
      /\ (page # {} => last \in page /\ \A k \in page : k = last \/ Before(k, last))
  BY <1>1, PageOfChanges
<1>3. skipped' = skipped \cup ((cursor .. (next - 1)) \ { l.record.seq : l \in page })
  BY <1>2 DEF ReadChanges
<1>4. page # {} => next = last.record.seq + 1 BY DEF NextCursor
<1>5. page = {} => next = cursor BY DEF NextCursor
<1>6. \A l \in LinesRead : l.at \in 0 .. MaxSeq /\ l.at \in Nat /\ l.record.seq \in Nat
                           /\ l.record \in AllRecords /\ l.record.seq < nextSeq
  <2>1. \A l \in LinesRead : l.at \in 0 .. MaxSeq /\ l.record.seq \in Nat /\ l.record \in AllRecords
    BY <1>1, LinesReadAreTrue, ExportAssumption DEF Orderly
  <2> QED BY <1>1, <2>1, ExportAssumption DEF OrderInv, SharedInv, NumbersAgree
<1>7. PICK from \in 0 .. nextSeq : TailFrom(from) BY DEF LogInv
<1>8. nextSeq \in Nat BY <1>1, TailBounds DEF OrderInv, SharedInv
<1>9. ASSUME NEW l \in published
      PROVE  /\ l.at < MaxSeq /\ l.record.seq < from
             /\ \E s \in segments : s.start = l.at /\ l.record.seq \in s.start .. s.end
                                    /\ s.start \in Nat /\ s.end \in Nat
  <2>1. l.at < MaxSeq BY <1>1, SegmentLinesAreTrue, ExportAssumption
  <2>2. PICK s \in request.listed : s.start = l.at /\ l.record.seq \in s.start .. s.end
                                    /\ s.start \in Nat /\ s.end \in Nat
    BY <1>1, SegmentLinesAreTrue
  <2>3. s \in segments /\ s.end < from BY <1>7 DEF TailFrom
  <2>4. l.record.seq < from BY <1>7, <1>8, <2>2, <2>3
  <2> QED BY <2>1, <2>2, <2>3, <2>4
<1>10. ASSUME NEW l \in LinesRead, l \notin published PROVE l.at = MaxSeq
  <2>1. PICK r \in pending : l = Line(Behind, r) BY <1>10, InLinesRead
  <2> QED BY <2>1, LineIs DEF Behind
<1>11. published \subseteq LinesRead BY InLinesRead
<1> HIDE DEF page, last, next, published
<1>12. ASSUME NEW n \in cursor .. (next - 1), n \notin { l.record.seq : l \in page }
       PROVE  FALSE
  <2>1. page # {} /\ next = last.record.seq + 1 BY <1>1, <1>4, <1>5, <1>12
  <2>2. last \in LinesRead /\ last.record.seq \in Nat /\ last.at \in 0 .. MaxSeq
        /\ last.at \in Nat /\ last.record.seq < nextSeq
    BY <1>2, <1>6, <2>1
  <2>3. n \in Nat /\ n >= cursor /\ n <= last.record.seq /\ n < nextSeq
    BY <1>1, <1>8, <1>12, <2>1, <2>2
  <2>4. ASSUME NEW m \in LinesRead, m.record.seq = n
        PROVE  last.at < m.at
    <3>1. m \notin page BY <1>12, <2>4
    <3>2. Before(last, m) BY <1>1, <2>1, <3>1, OffThePage DEF page, last
    <3> QED BY <1>6, <2>2, <2>3, <2>4, <3>2 DEF Before
  <2>5. CASE n < from
    <3>1. n \in SeqsOf(Published) BY <1>7, <1>8, <2>3, <2>5 DEF TailFrom
    <3>2. PICK r \in Published : r.seq = n BY <3>1 DEF SeqsOf
    <3>3. PICK o \in objects : [start |-> o.start, end |-> o.end] \in segments /\ r \in o.rows
      BY <3>2, InPublished
    <3> DEFINE s == [start |-> o.start, end |-> o.end]
    <3>4. s \in segments /\ s.start = o.start /\ s.end = o.end BY <3>3
    <3> HIDE DEF s
    <3>5. s.start \in Nat /\ s.end \in Nat
      BY <3>4, ExportAssumption DEF LogInv, TypeInv, TypeOK, Seqs
    <3>6. n \in s.start .. s.end
      <4>1. SeqsOf(o.rows) = o.start .. o.end
        BY <1>1, <3>3 DEF OrderInv, SharedInv, KeysAnnounce, Whole
      <4>2. r.seq \in SeqsOf(o.rows) BY <3>3 DEF SeqsOf
      <4> QED BY <3>2, <3>4, <4>1, <4>2
    <3>7. s \in request.listed BY <1>1, <2>3, <3>4, <3>5, <3>6
    <3>8. Line(s.start, r) \in published
      BY <2>3, <3>2, <3>3, <3>4, <3>7, InSegmentLines DEF published
    <3>9. last.at < s.start BY <1>11, <2>4, <3>2, <3>8, LineIs
    <3>10. last \in published
      BY <1>10, <1>11, <1>9, <2>2, <3>5, <3>8, <3>9, LineIs, ExportAssumption
    <3>11. PICK t \in segments : t.start = last.at /\ last.record.seq \in t.start .. t.end
                                 /\ t.start \in Nat /\ t.end \in Nat
      BY <1>9, <3>10
    <3>12. t = s \/ t.end < s.start \/ s.end < t.start
      BY <3>4 DEF LogInv, SegmentsDisjoint
    <3> QED BY <2>2, <2>3, <3>5, <3>6, <3>9, <3>11, <3>12
  <2>6. CASE n >= from
    <3>1. n \in SeqsOf(pending) BY <1>7, <1>8, <2>3, <2>6 DEF TailFrom
    <3>2. PICK r \in pending : r.seq = n BY <3>1 DEF SeqsOf
    <3>3. r.seq >= NextCursor(published, cursor)
      <4>1. CASE published = {} BY <2>3, <3>2, <4>1 DEF NextCursor
      <4>2. CASE published # {}
        <5>1. LastOf(published) \in published
          BY <1>1, <4>2, NextCursorIsBehind, LinesHaveALast DEF published
        <5>2. LastOf(published).record.seq < from /\ LastOf(published).record.seq \in Nat
          BY <1>6, <1>9, <1>11, <5>1
        <5>3. NextCursor(published, cursor) = LastOf(published).record.seq + 1
          BY <4>2 DEF NextCursor
        <5> QED BY <1>8, <2>3, <2>6, <3>2, <5>2, <5>3
      <4> QED BY <4>1, <4>2
    <3>4. Line(Behind, r) \in LinesRead BY <3>3, InLinesRead DEF published
    <3>5. last.at < MaxSeq BY <2>4, <3>2, <3>4, LineIs DEF Behind
    <3>6. last \in published BY <1>10, <2>2, <3>5, ExportAssumption
    <3>7. last.record.seq < from BY <1>9, <3>6
    <3> QED BY <1>8, <2>2, <2>3, <2>6, <3>7
  <2> QED BY <1>8, <2>3, <2>5, <2>6
<1>13. (cursor .. (next - 1)) \ { l.record.seq : l \in page } = {} BY <1>12
<1> QED BY <1>3, <1>13

(* While one process flushes, a page jumps over a number only if a flush   *)
(* registered a segment between the two selects of the request.            *)
THEOREM GapsAreRaces == SingleProcess => (SyncSpec => GapsOnlyWhenFlushRaces)
<1> SUFFICES ASSUME SingleProcess PROVE SyncSpec => GapsOnlyWhenFlushRaces OBVIOUS
<1>1. SyncInit => Init BY DEF SyncInit
<1>2. [SyncNext]_syncVars => [Next]_logVars
  BY DEF SyncNext, syncVars, Consume, ReadSnapshotHead, ReadSnapshotRows, ListSegments,
         ReadChanges, ReadFails
<1>3. LogInv /\ SyncInv /\ [SyncNext]_syncVars =>
         [ skipped' # skipped =>
              request.listed # { s \in segments : s.end >= cursor } ]_syncVars
  <2> SUFFICES ASSUME LogInv, SyncInv, [SyncNext]_syncVars, skipped' # skipped
               PROVE  request.listed # { s \in segments : s.end >= cursor }
    OBVIOUS
  <2>1. ReadChanges
    BY DEF SyncNext, syncVars, consumerVars, Consume, ReadSnapshotHead, ReadSnapshotRows,
           ListSegments, ReadFails
  <2> QED BY <2>1, NothingIsJumpedOver
<1>4. Spec => []LogInv BY LogInvariant
<1> QED BY <1>1, <1>2, <1>3, <1>4, ConsumerInvariant, PTL DEF Spec, SyncSpec, GapsOnlyWhenFlushRaces
=============================================================================
