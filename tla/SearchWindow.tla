----------------------------- MODULE SearchWindow -----------------------------
(***************************************************************************)
(* A search read page by page: collectSearchWindow() in web/search_api.ts. *)
(* The index holds several rows per result, so every page scans the rows   *)
(* from the top, in batches sized by the rows per result seen so far,      *)
(* until enough results are collected, the rows run out or the scan budget *)
(* is spent. The reader asks for the next page while there is more.        *)
(*                                                                         *)
(* index is the rows in the order of the query, each named by the result   *)
(* it collapses into; it does not change while the reader pages. The app's *)
(* own sort is left out: for a relevance or date order it keeps the order  *)
(* of the scan when the copies of a result agree on their date.            *)
(***************************************************************************)
EXTENDS Integers, Sequences, FiniteSets, SequencesExt

CONSTANTS Results,       (* results there may be                           *)
          MaxRows,       (* bound: rows in the index                       *)
          Limit,         (* results on a page                              *)
          InitialRatio,  (* INITIAL_ROWS_PER_RESULT                        *)
          MinBatch,      (* MIN_SCAN_BATCH_ROWS                            *)
          MaxBatch,      (* SCAN_BATCH_ROWS                                *)
          ScanBudget     (* MAX_SCAN_ROWS                                  *)

ASSUME SearchWindowAssumption ==
    /\ MaxRows \in Nat /\ Limit \in Nat \ {0} /\ InitialRatio \in Nat \ {0}
    /\ MinBatch \in Nat \ {0} /\ MaxBatch \in Nat \ {0} /\ ScanBudget \in Nat \ {0}

VARIABLES
    index,      (* rows of the query, in its order                         *)
    honest,     (* num_hits counts them all; without count_all it may not  *)
    window,     (* the request: scanning, rows seen, results, how it ended *)
    answers     (* the pages answered                                      *)

windowVars == <<index, honest, window, answers>>

Ready == [scanning |-> FALSE, seen |-> 0, collected |-> <<>>,
          exhausted |-> FALSE, limitReached |-> FALSE]
(* counted: totalCount when it is not approximate, else NoCount.           *)
NoCount == -1
Page == [results: Seq(Results), hasMore: BOOLEAN, counted: Nat \cup {NoCount}]

WindowTypeOK ==
    /\ index \in Seq(Results) /\ honest \in BOOLEAN
    /\ window \in [scanning: BOOLEAN, seen: 0 .. MaxRows, collected: Seq(Results),
                   exhausted: BOOLEAN, limitReached: BOOLEAN]
    /\ answers \in Seq(Page)

WindowInit ==
    /\ index \in UNION { [1 .. n -> Results] : n \in 0 .. MaxRows }
    /\ honest \in BOOLEAN
    /\ window = Ready
    /\ answers = <<>>

Offset == Len(answers) * Limit
TargetCount == Offset + Limit + 1
-----------------------------------------------------------------------------
AskNextPage ==
    /\ ~window.scanning
    /\ answers # <<>> => Last(answers).hasMore
    /\ window' = [Ready EXCEPT !.scanning = TRUE]
    /\ UNCHANGED <<index, honest, answers>>

Smallest(S) == CHOOSE n \in S : \A m \in S : n <= m
CeilDiv(n, d) == (n + d - 1) \div d

(* At most count elements of s, after the first from.                      *)
Slice(s, from, count) ==
    [i \in 1 .. Smallest({count, IF from < Len(s) THEN Len(s) - from ELSE 0}) |-> s[from + i]]

(* Rows to ask for: the missing results times the rows per result.         *)
BatchRows ==
    LET missing == TargetCount - Len(window.collected)
        wanted == IF window.collected = <<>> THEN missing * InitialRatio
                  ELSE CeilDiv(missing * window.seen, Len(window.collected))
    IN  Smallest({ IF wanted > MinBatch THEN wanted ELSE MinBatch,
                   MaxBatch, ScanBudget - window.seen })

(* Deduplication and grouping keep one hit per result, where its first one *)
(* stood; a result of an earlier batch stays as it is. Mutant of Collect:  *)
(* the results of a batch are appended as they come.                       *)
Met(seen, result) == IF Contains(seen, result) THEN seen ELSE Append(seen, result)
Gathered(collected, rows) ==
    LET met[n \in 0 .. Len(rows)] == IF n = 0 THEN collected ELSE Met(met[n - 1], rows[n])
    IN  met[Len(rows)]
CollectPerBatch(collected, rows) == collected \o Gathered(<<>>, rows)

Collect(collected, rows) == Gathered(collected, rows)

(* Mutant of WantsRows: one batch per page, the old fixed window.          *)
WantsOneBatch == ~window.exhausted /\ window.collected = <<>>

WantsRows ==
    /\ ~window.exhausted
    /\ Len(window.collected) < TargetCount
    /\ window.seen < ScanBudget

ScanBatch ==
    /\ window.scanning /\ WantsRows
    /\ LET asked == BatchRows
           hits == Slice(index, window.seen, asked)
           seen == window.seen + Len(hits)
       IN  \E numHits \in IF honest THEN {Len(index)} ELSE seen .. Len(index) :
             LET limitReached == seen >= ScanBudget /\ seen < numHits
             IN  window' = IF hits = <<>> THEN [window EXCEPT !.exhausted = TRUE]
                   ELSE [window EXCEPT
                           !.seen = seen,
                           !.collected = Collect(@, hits),
                           !.limitReached = limitReached,
                           !.exhausted = \/ limitReached
                                         \/ seen >= numHits
                                         \/ Len(hits) < asked]
    /\ UNCHANGED <<index, honest, answers>>

(* The page. Its count is exact when the scan came to the end; the figure  *)
(* of an estimate is left out.                                             *)
Answer ==
    /\ window.scanning /\ ~WantsRows
    /\ LET results == Slice(window.collected, Offset, Limit)
           grouped == Len(window.collected)
           complete == window.exhausted /\ ~window.limitReached
       IN  answers' = Append(answers,
             [results |-> results,
              hasMore |-> /\ results # <<>>
                          /\ grouped > Offset + Limit \/ ~complete,
              counted |-> IF complete THEN grouped ELSE NoCount])
    /\ window' = Ready
    /\ UNCHANGED <<index, honest>>

(* SearchTimeoutError, or Quickwit fails: no page; the reader asks again.  *)
WindowFails ==
    /\ window.scanning
    /\ window' = Ready
    /\ UNCHANGED <<index, honest, answers>>

WindowNext == AskNextPage \/ ScanBatch \/ Answer \/ WindowFails

WindowSpec == WindowInit /\ [][WindowNext]_windowVars
-----------------------------------------------------------------------------
Shown == FlattenSeq([i \in DOMAIN answers |-> answers[i].results])
FirstRow(r) == CHOOSE i \in DOMAIN index :
                  index[i] = r /\ \A j \in 1 .. i - 1 : index[j] # r
Reached == { index[i] : i \in 1 .. IF Len(index) < ScanBudget THEN Len(index) ELSE ScanBudget }

(* However the batches fall, consecutive pages repeat no result and skip   *)
(* none: the pages are the results in the order of their first rows, and   *)
(* all but the last are full, or all that the scan budget reaches is shown *)
(* (a page the budget cuts short says there is more; the next is empty).   *)
PagesAreTheResultsInOrder ==
    /\ \A i, j \in DOMAIN Shown : i < j => FirstRow(Shown[i]) < FirstRow(Shown[j])
    /\ \A i \in DOMAIN Shown : \A r \in Reached :
          FirstRow(r) < FirstRow(Shown[i]) => Contains(Shown, r)
    /\ \A i \in 1 .. Len(answers) - 1 :
          Len(answers[i].results) = Limit \/ ToSet(Shown) = Reached

ExactCounts ==
    \A i \in DOMAIN answers : answers[i].counted \in {NoCount, Cardinality(ToSet(index))}

(* A reader who is told there is no more has seen every result within the  *)
(* scan budget, and an exact count is exact, if Quickwit counts all hits.  *)
NoMoreMeansAllShown ==
    honest => /\ answers # <<>> /\ ~Last(answers).hasMore => ToSet(Shown) = Reached
              /\ ExactCounts
=============================================================================
