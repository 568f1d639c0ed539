--------------------------- MODULE ExportRecords ---------------------------
(***************************************************************************)
(* The change records of the export log (src/types.ts ExportChangeRecord,  *)
(* src/exports/log.ts) and what it means for one record to follow another. *)
(*                                                                         *)
(* One source's log is modelled: every table of log.ts is keyed by         *)
(* source_key and no statement touches two sources, so the logs of two     *)
(* sources are independent copies of this one.                             *)
(***************************************************************************)
EXTENDS Integers

CONSTANTS Entities,  (* entity ids of the source; ids are ordered, see     *)
                     (* ExportSync, so they are natural numbers            *)
          Hashes,    (* content hashes of entity payloads                  *)
          NoHash,    (* content_hash NULL: what a tombstone carries        *)
          NoRecord,  (* no row in export_entity_state                      *)
          MaxSeq     (* bound on the sequence numbers handed out           *)

ASSUME ExportAssumption ==
    /\ MaxSeq \in Nat
    /\ NoHash \notin Hashes
    /\ Entities \subseteq Nat
-----------------------------------------------------------------------------
Seqs == 0 .. (MaxSeq - 1)

(* A row of the log. The payload is what the hash identifies; reason,      *)
(* meeting_id, time and commit_id travel along and decide nothing.         *)
Record ==
    [seq: Seqs, entity: Entities, op: {"upsert"}, hash: Hashes]
        \cup [seq: Seqs, entity: Entities, op: {"delete"}, hash: {NoHash}]

ASSUME NoRecordAssumption == NoRecord \notin Record

Upsert(s, e, h) == [seq |-> s, entity |-> e, op |-> "upsert", hash |-> h]
Tombstone(s, e) == [seq |-> s, entity |-> e, op |-> "delete", hash |-> NoHash]

(* The row of export_entity_state says that the entity is there.           *)
Live(row) == row # NoRecord /\ row.op = "upsert"

(* The test append() runs before it hands out a number: a tombstone needs  *)
(* a live entity, an upsert one that is not live with the same content.    *)
IsChange(previous, r) ==
    IF r.op = "delete" THEN Live(previous)
                       ELSE ~(Live(previous) /\ previous.hash = r.hash)

(* The newest record of entity e among the records R, and its absence.     *)
IsLatest(R, e, r) ==
    /\ r \in R
    /\ r.entity = e
    /\ \A q \in R : q.entity = e => q.seq <= r.seq

Unseen(R, e) == \A q \in R : q.entity # e

SeqsOf(R) == { r.seq : r \in R }
=============================================================================
