----------------------------- MODULE ChangeFeed -----------------------------
(***************************************************************************)
(* What the export log promises its consumers: an append-only feed of      *)
(* changes, numbered without gaps from 0, in which every record changes    *)
(* something. There are no processes, no buffering and no object storage   *)
(* here; ExportLog is shown to implement this.                             *)
(***************************************************************************)
EXTENDS ExportRecords

VARIABLE feed

Init == feed = {}

(* r is the next number, and a change relative to its entity's latest.     *)
PublishChange(r) ==
    /\ SeqsOf(feed) = 0 .. (r.seq - 1)
    /\ \/ /\ Unseen(feed, r.entity)
          /\ IsChange(NoRecord, r)
       \/ \E previous \in feed : /\ IsLatest(feed, r.entity, previous)
                                 /\ IsChange(previous, r)
    /\ feed' = feed \cup {r}

Next == \E r \in Record : PublishChange(r)

Spec == Init /\ [][Next]_feed
=============================================================================
