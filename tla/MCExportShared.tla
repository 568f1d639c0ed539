---------------------------- MODULE MCExportShared ----------------------------
(***************************************************************************)
(* The log of one source shared with others, checked in one run: a         *)
(* consumer reads it while one process writes it, or two processes flush   *)
(* it and nobody reads. The initial state says which.                      *)
(***************************************************************************)
EXTENDS ExportSync

CONSTANTS h1, h2, p1, p2

VARIABLE shared

TwoEntities == {1, 2}
TwoHashes == {h1, h2}
TwoProcs == {p1, p2}

SharedInit == shared \in {"consumer", "flusher"} /\ SyncInit

(* What a consumer sees of one content is what it sees of more.            *)
ConsumerStep ==
    /\ shared = "consumer"
    /\ SyncNext
    /\ flush'[p2] = flush[p2]
    /\ \A e \in Entities : entityState'[e] # NoRecord => entityState'[e].hash # h2
    /\ UNCHANGED shared

FlusherStep ==
    /\ shared = "flusher"
    /\ Next
    /\ UNCHANGED <<shared, consumerVars>>

SharedNext == ConsumerStep \/ FlusherStep

SharedSpec ==
    /\ SharedInit
    /\ [][SharedNext]_<<shared, syncVars>>
    /\ shared = "consumer" => SyncFairness

(* The consumer catches up again and again.                                *)
CatchesUp == shared = "consumer" => KeepsCatchingUp
=============================================================================
