----------------------------- MODULE IndexClient -----------------------------
(***************************************************************************)
(* Sending rows to the search index: QuickwitClient.ingestDocuments        *)
(* (src/quickwit/client.ts), called by an import (src/ingest.ts) and by a  *)
(* reindex. Rows are packed into bodies; a body the index answers 413 is   *)
(* halved, whether it was too large or the index was behind; other answers *)
(* are retried a number of times. A request that times out may have put    *)
(* its rows in the index's queue all the same.                             *)
(*                                                                         *)
(* A row is its position; sizes are in units of which the index takes      *)
(* IndexLimit in one request.                                              *)
(***************************************************************************)
EXTENDS Integers, Sequences, FiniteSets

CONSTANTS RowCount, Sizes,
          MaxBody,         (* MAX_INGEST_PAYLOAD_BYTES                     *)
          IndexLimit,      (* what the index takes in one request          *)
          IngestAttempts   (* INGEST_ATTEMPTS                              *)

ASSUME IndexClientAssumption ==
    /\ RowCount \in Nat /\ Sizes \subseteq Nat \ {0}
    /\ MaxBody \in Nat /\ IndexLimit \in Nat /\ IngestAttempts \in Nat \ {0}

VARIABLES
    size,        (* of each row                                            *)
    call,        (* who called, the bodies to send, the attempt, the end   *)
    inIndex,     (* rows the index has                                     *)
    refused,     (* rows it answered 413 on their own                      *)
    oversized    (* rows handed to onOversized                             *)

indexClientVars == <<size, call, inIndex, refused, oversized>>

BatchRows == 1 .. RowCount
Bodies == UNION { [1 .. n -> BatchRows] : n \in 1 .. RowCount }
RangeOf(body) == { body[i] : i \in DOMAIN body }
SizeOf(body) ==
    LET total[i \in 0 .. Len(body)] == IF i = 0 THEN 0 ELSE total[i - 1] + size[body[i]]
    IN  total[Len(body)]

IndexClientTypeOK ==
    /\ size \in [BatchRows -> Sizes]
    /\ call.from \in {"import", "reindex"}
    /\ call.state \in {"packing", "sending", "returned", "threw",
                       "succeeded", "partial", "failed"}
    /\ call.attempt \in 1 .. IngestAttempts
    /\ \A i \in DOMAIN call.bodies : RangeOf(call.bodies[i]) \subseteq BatchRows
    /\ inIndex \subseteq BatchRows /\ oversized \subseteq refused /\ refused \subseteq BatchRows

IndexClientInit ==
    /\ size \in [BatchRows -> Sizes]
    /\ call \in [from: {"import", "reindex"}, bodies: {<<>>}, attempt: {1},
                 state: {"packing"}]
    /\ inIndex = {} /\ refused = {} /\ oversized = {}
-----------------------------------------------------------------------------
(* A row joins the last body unless that would make it too large; a row    *)
(* that is too large by itself has a body of its own.                      *)
Pack(n) ==
    LET packed[i \in 0 .. n] ==
          IF i = 0 THEN <<>>
          ELSE LET done == packed[i - 1]
                   last == Len(done)
               IN  IF last > 0 /\ SizeOf(done[last]) + size[i] <= MaxBody
                   THEN [done EXCEPT ![last] = Append(@, i)]
                   ELSE Append(done, <<i>>)
    IN  packed[n]

PackRows ==
    /\ call.state = "packing"
    /\ call' = [call EXCEPT !.bodies = Pack(RowCount), !.state = "sending"]
    /\ UNCHANGED <<size, inIndex, refused, oversized>>

Body == Head(call.bodies)
Posting == call.state = "sending" /\ call.bodies # <<>>
NextBody(c) == [c EXCEPT !.bodies = Tail(@), !.attempt = 1]

IndexTakes ==
    /\ Posting /\ SizeOf(Body) <= IndexLimit
    /\ inIndex' = inIndex \cup RangeOf(Body)
    /\ call' = NextBody(call)
    /\ UNCHANGED <<size, refused, oversized>>

(* 413: the halves are posted on their own, with attempts of their own.    *)
(* Mutant: the middle row is in neither half.                              *)
HalfBodiesWithoutMiddle(body) ==
    LET middle == Len(body) \div 2
    IN  <<SubSeq(body, 1, middle), SubSeq(body, middle + 2, Len(body))>>
HalfBodies(body) ==
    LET middle == Len(body) \div 2
    IN  <<SubSeq(body, 1, middle), SubSeq(body, middle + 1, Len(body))>>

Halve ==
    /\ Posting /\ Len(Body) > 1
    /\ call' = [call EXCEPT !.bodies = HalfBodies(Body) \o Tail(@), !.attempt = 1]
    /\ UNCHANGED <<size, inIndex, refused, oversized>>

(* A row answered 413 on its own is passed over; only a reindex has given  *)
(* an onOversized, which makes an issue of it.                             *)
PassOver ==
    /\ Posting /\ Len(Body) = 1
    /\ refused' = refused \cup RangeOf(Body)
    /\ oversized' = IF call.from = "reindex" THEN oversized \cup RangeOf(Body)
                    ELSE oversized
    /\ call' = NextBody(call)
    /\ UNCHANGED <<size, inIndex>>

(* An answer worth a retry, or none: a timeout leaves open what happened.  *)
MayHaveTaken ==
    \/ UNCHANGED inIndex
    \/ SizeOf(Body) <= IndexLimit /\ inIndex' = inIndex \cup RangeOf(Body)

Retry ==
    /\ Posting /\ call.attempt < IngestAttempts
    /\ call' = [call EXCEPT !.attempt = @ + 1]
    /\ MayHaveTaken
    /\ UNCHANGED <<size, refused, oversized>>

(* The last attempt failed, or the answer is not worth another.            *)
Throw ==
    /\ Posting
    /\ call' = [call EXCEPT !.state = "threw"]
    /\ MayHaveTaken
    /\ UNCHANGED <<size, refused, oversized>>

ReturnToCaller ==
    /\ call.state = "sending" /\ call.bodies = <<>>
    /\ call' = [call EXCEPT !.state = "returned"]
    /\ UNCHANGED <<size, inIndex, refused, oversized>>

(* A reindex of these rows: what was passed over is an issue of the run.   *)
EndReindex ==
    /\ call.from = "reindex" /\ call.state \in {"returned", "threw"}
    /\ call' = [call EXCEPT !.state =
         IF @ = "threw" THEN "failed" ELSE IF oversized = {} THEN "succeeded" ELSE "partial"]
    /\ UNCHANGED <<size, inIndex, refused, oversized>>

IndexClientNext ==
    \/ PackRows \/ IndexTakes \/ Halve \/ PassOver \/ Retry \/ Throw
    \/ ReturnToCaller \/ EndReindex

IndexClientSpec == IndexClientInit /\ [][IndexClientNext]_indexClientVars
-----------------------------------------------------------------------------
(* One row the index cannot take costs only itself: when the call returns  *)
(* every other row is in the index, and when it throws every row before    *)
(* the body that failed is. A reindex that succeeds has every row in it.    *)
IndexTakesTheRest ==
    /\ call.state = "returned" => inIndex \cup refused = BatchRows
    /\ call.state \in {"sending", "threw"} =>
          1 .. (IF call.bodies = <<>> THEN RowCount ELSE Body[1] - 1)
              \subseteq inIndex \cup refused
    /\ call.state = "succeeded" => inIndex = BatchRows
=============================================================================
