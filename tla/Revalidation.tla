----------------------------- MODULE Revalidation -----------------------------
(***************************************************************************)
(* The sweep that asks suppliers whether documents still exist             *)
(* (scripts/revalidate_documents.ts), and the streaks it keeps in the ops  *)
(* database (src/ops/store.ts). It pages through the rows of the search    *)
(* index by offset, and the index may hold several rows of one document.   *)
(* It deletes nothing: a document whose streak reaches the threshold is    *)
(* reported to be taken down by hand.                                      *)
(*                                                                         *)
(* A batch is read in one step. A supplier that is down answers as if all  *)
(* documents of that source were gone.                                     *)
(***************************************************************************)
EXTENDS Integers, Sequences, FiniteSets

CONSTANTS Swept,             (* documents of one supplier                  *)
          KeyOf,             (* the source_key of a document               *)
          Listings,          (* rows the index may list, a document a row  *)
          SweepLimit,        (* --limit                                    *)
          ConfirmThreshold,  (* CONFIRM_THRESHOLD                          *)
          DownSample,        (* ORG_DOWN_MIN_SAMPLE                        *)
          DownPercent,       (* ORG_DOWN_RATIO                             *)
          MaxSweeps          (* bound                                      *)

ASSUME RevalidationAssumption ==
    /\ SweepLimit \in Nat \ {0} /\ ConfirmThreshold \in Nat /\ MaxSweeps \in Nat
    /\ DownSample \in Nat \ {0} /\ DownPercent \in 0 .. 100
    /\ Listings \subseteq Seq(Swept) /\ DOMAIN KeyOf = Swept

VARIABLES
    listing,     (* what the index lists                                   *)
    withdrawn,   (* documents the supplier took down                       *)
    sweep,       (* the sweep: its rows, the answers to the first of them, *)
                 (* the rows still to be recorded, the sources that are    *)
                 (* down meanwhile                                         *)
    cursorAt,    (* revalidation_cursor                                    *)
    streak,      (* document_revalidation                                  *)
    sweeps,      (* sweeps started                                         *)
    goneIn,      (* history: the sweeps that recorded a document gone      *)
                 (* since one recorded it live                             *)
    odd          (* history: what a batch held twice, and the sources that *)
                 (* were down and had too few rows in a batch to tell      *)

revalidationVars == <<listing, withdrawn, sweep, cursorAt, streak, sweeps, goneIn, odd>>

Keys == { KeyOf[d] : d \in Swept }
Presence == {"live", "gone", "unknown"}
NoSweep == [phase |-> "none", batch |-> <<>>, answers |-> <<>>, todo |-> {}, down |-> {}]

RevalidationTypeOK ==
    /\ listing \in Listings /\ withdrawn \subseteq Swept
    /\ cursorAt \in Nat /\ sweeps \in 0 .. MaxSweeps
    /\ sweep.phase \in {"none", "asking", "recording"} /\ sweep.down \subseteq Keys
    /\ Len(sweep.answers) <= Len(sweep.batch) /\ Len(sweep.batch) <= SweepLimit
    /\ sweep.todo \subseteq DOMAIN sweep.answers
    /\ streak \in [Swept -> Nat] /\ goneIn \in [Swept -> SUBSET (1 .. MaxSweeps)]
    /\ odd \subseteq Swept \cup Keys

RevalidationInit ==
    /\ listing \in Listings /\ withdrawn = {}
    /\ sweep = NoSweep /\ cursorAt = 0 /\ sweeps = 0
    /\ streak = [d \in Swept |-> 0] /\ goneIn = [d \in Swept |-> {}] /\ odd = {}
-----------------------------------------------------------------------------
(* Imports and merges change what the index lists, and in which order.     *)
ListingChanges ==
    /\ sweep = NoSweep /\ listing' \in Listings \ {listing}
    /\ UNCHANGED <<withdrawn, sweep, cursorAt, streak, sweeps, goneIn, odd>>

Withdraw(d) ==
    /\ d \notin withdrawn /\ withdrawn' = withdrawn \cup {d}
    /\ UNCHANGED <<listing, sweep, cursorAt, streak, sweeps, goneIn, odd>>

SmallerOf(a, b) == IF a < b THEN a ELSE b
NextRows ==
    SubSeq(listing, cursorAt + 1, SmallerOf(cursorAt + SweepLimit, Len(listing)))

(* The next rows from the cursor; past the end the cursor goes back.       *)
BeginSweep(down) ==
    /\ sweep = NoSweep /\ sweeps < MaxSweeps
    /\ sweeps' = sweeps + 1
    /\ IF NextRows = <<>>
       THEN cursorAt' = 0 /\ UNCHANGED <<sweep, odd>>
       ELSE /\ sweep' = [NoSweep EXCEPT !.phase = "asking", !.batch = NextRows, !.down = down]
            /\ odd' = odd \cup { NextRows[i] : i \in { j \in DOMAIN NextRows :
                          \E k \in 1 .. j - 1 : NextRows[k] = NextRows[j] } }
            /\ UNCHANGED cursorAt
    /\ UNCHANGED <<listing, withdrawn, streak, goneIn>>

(* probeDocumentAtSource() of the next row.                                *)
Probe ==
    /\ sweep.phase = "asking" /\ Len(sweep.answers) < Len(sweep.batch)
    /\ LET d == sweep.batch[Len(sweep.answers) + 1]
       IN  \E presence \in {"unknown", IF d \in withdrawn \/ KeyOf[d] \in sweep.down
                                     THEN "gone" ELSE "live"} :
             sweep' = [sweep EXCEPT !.answers = Append(@, presence)]
    /\ UNCHANGED <<listing, withdrawn, cursorAt, streak, sweeps, goneIn, odd>>

Answered(key, answers) ==
    Cardinality({ i \in DOMAIN sweep.answers :
                    KeyOf[sweep.batch[i]] = key /\ sweep.answers[i] \in answers })

(* (Almost) everything of a source gone is an outage. Mutant: the answers  *)
(* that say nothing count as well.                                         *)
LooksDownCountingAll(key) ==
    LET checked == Answered(key, Presence)
    IN  checked >= DownSample /\ Answered(key, {"gone"}) * 100 >= DownPercent * checked
LooksDown(key) ==
    LET checked == Answered(key, {"live", "gone"})
    IN  checked >= DownSample /\ Answered(key, {"gone"}) * 100 >= DownPercent * checked

Judge ==
    /\ sweep.phase = "asking" /\ Len(sweep.answers) = Len(sweep.batch)
    /\ sweep' = [sweep EXCEPT !.phase = "recording", !.todo =
         { i \in DOMAIN sweep.batch :
             sweep.answers[i] # "unknown" /\ ~LooksDown(KeyOf[sweep.batch[i]]) }]
    /\ odd' = odd \cup { k \in sweep.down : Answered(k, {"live", "gone"}) < DownSample }
    /\ UNCHANGED <<listing, withdrawn, cursorAt, streak, sweeps, goneIn>>

(* Source by source in the order of their first rows, live rows first.     *)
FirstOfKey(i) ==
    CHOOSE f \in DOMAIN sweep.batch :
        /\ KeyOf[sweep.batch[f]] = KeyOf[sweep.batch[i]]
        /\ \A j \in 1 .. f - 1 : KeyOf[sweep.batch[j]] # KeyOf[sweep.batch[i]]
ComesFirst(i, j) ==
    \/ FirstOfKey(i) < FirstOfKey(j)
    \/ /\ FirstOfKey(i) = FirstOfKey(j)
       /\ \/ sweep.answers[i] = "live" /\ sweep.answers[j] = "gone"
          \/ sweep.answers[i] = sweep.answers[j] /\ i <= j

(* recordRevalidationResult(), a statement a row.                          *)
RecordResult ==
    /\ sweep.phase = "recording"
    /\ \E i \in sweep.todo :
         /\ \A j \in sweep.todo : ComesFirst(i, j)
         /\ LET d == sweep.batch[i] IN
            IF sweep.answers[i] = "live"
            THEN /\ streak' = [streak EXCEPT ![d] = 0]
                 /\ goneIn' = [goneIn EXCEPT ![d] = {}]
            ELSE /\ streak' = [streak EXCEPT ![d] = @ + 1]
                 /\ goneIn' = [goneIn EXCEPT ![d] = @ \cup {sweeps}]
         /\ sweep' = [sweep EXCEPT !.todo = @ \ {i}]
    /\ UNCHANGED <<listing, withdrawn, cursorAt, sweeps, odd>>

EndSweep ==
    /\ sweep.phase = "recording" /\ sweep.todo = {}
    /\ cursorAt' = cursorAt + Len(sweep.batch)
    /\ sweep' = NoSweep
    /\ UNCHANGED <<listing, withdrawn, streak, sweeps, goneIn, odd>>

(* Killed: what is recorded stays, the cursor is where it was.             *)
SweepDies ==
    /\ sweep # NoSweep
    /\ sweep' = NoSweep
    /\ UNCHANGED <<listing, withdrawn, cursorAt, streak, sweeps, goneIn, odd>>

RevalidationNext ==
    \/ ListingChanges \/ Probe \/ Judge \/ RecordResult \/ EndSweep \/ SweepDies
    \/ \E d \in Swept : Withdraw(d)
    \/ \E down \in SUBSET Keys : BeginSweep(down)

RevalidationSpec == RevalidationInit /\ [][RevalidationNext]_revalidationVars
-----------------------------------------------------------------------------
(* A document is not counted down by an outage of its source, unless a     *)
(* batch had too few of its rows to tell one; and while no batch held two  *)
(* rows of it, its streak is no longer than the sweeps that found it gone. *)
StreaksAreEarned ==
    \A d \in Swept :
        /\ streak[d] > 0 => d \in withdrawn \/ KeyOf[d] \in odd
        /\ d \in odd \/ streak[d] <= Cardinality(goneIn[d])
=============================================================================
