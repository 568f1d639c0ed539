------------------------------- MODULE Admission -------------------------------
(***************************************************************************)
(* What lets a request into the public API: the token buckets of           *)
(* web/rate_limit.ts, one per client, and the slots for phrase searches of *)
(* web/search_gate.ts, as web/server.ts uses them. A search holds its slot *)
(* across every await of the search and gives it back however it ends.     *)
(*                                                                         *)
(* A tick is the time in which a bucket gains one unit.                    *)
(***************************************************************************)
EXTENDS Integers, FiniteSets

CONSTANTS Clients,
          Capacity,     (* units per minute, and ticks in a minute         *)
          PhraseCost,   (* units of a phrase search: 1 and 1 per word      *)
          Slots,        (* phraseSearchSlots()                             *)
          MaxClock      (* bound                                           *)

ASSUME AdmissionAssumption ==
    /\ Capacity \in Nat \ {0} /\ PhraseCost \in Nat \ {0}
    /\ Slots \in Nat \ {0} /\ MaxClock \in Nat /\ IsFiniteSet(Clients)

VARIABLES
    time,
    buckets,     (* the clients tracked: tokens at the last request        *)
    lastSweep,
    searches,    (* phrase searches under way, per client                  *)
    running,     (* SearchGate.running                                     *)
    refill       (* history: what a bucket that is never dropped holds     *)

admissionVars == <<time, buckets, lastSweep, searches, running, refill>>

Bucket == [tokens: 0 .. Capacity, updatedAt: 0 .. MaxClock]

AdmissionTypeOK ==
    /\ time \in 0 .. MaxClock /\ lastSweep \in 0 .. MaxClock
    /\ DOMAIN buckets \subseteq Clients
    /\ \A c \in DOMAIN buckets : buckets[c] \in Bucket
    /\ searches \in [Clients -> 0 .. Slots]
    /\ running \in 0 .. Slots
    /\ refill \in [Clients -> 0 .. Capacity]

AdmissionInit ==
    /\ time = 0 /\ lastSweep = 0
    /\ buckets = [c \in {} |-> [tokens |-> Capacity, updatedAt |-> 0]]
    /\ searches = [c \in Clients |-> 0]
    /\ running = 0
    /\ refill = [c \in Clients |-> Capacity]

AtMostFull(n) == IF n > Capacity THEN Capacity ELSE n

Tick ==
    /\ time < MaxClock
    /\ time' = time + 1
    /\ refill' = [c \in Clients |-> AtMostFull(refill[c] + 1)]
    /\ UNCHANGED <<buckets, lastSweep, searches, running>>
-----------------------------------------------------------------------------
(* sweep(): at most once a minute, buckets idle for two minutes are        *)
(* dropped.                                                                *)
Idle(c) == time - buckets[c].updatedAt > 2 * Capacity

SweepDue == time - lastSweep >= Capacity
Kept == IF SweepDue THEN { c \in DOMAIN buckets : ~Idle(c) } ELSE DOMAIN buckets

(* What is left in a bucket. Mutant: it fills beyond its capacity.         *)
TokensUncapped(c) ==
    IF c \in Kept
    THEN buckets[c].tokens + (time - buckets[c].updatedAt)
    ELSE Capacity

Tokens(c) ==
    IF c \in Kept
    THEN AtMostFull(buckets[c].tokens + (time - buckets[c].updatedAt))
    ELSE Capacity

(* consume(): the verdict, and the bucket after it.                        *)
Consume(client, cost, allowed) ==
    /\ allowed = (Tokens(client) >= cost)
    /\ lastSweep' = IF SweepDue THEN time ELSE lastSweep
    /\ buckets' = [c \in Kept \cup {client} |->
         IF c = client
         THEN [tokens |-> Tokens(c) - IF allowed THEN cost ELSE 0, updatedAt |-> time]
         ELSE buckets[c]]
    /\ refill' = [refill EXCEPT ![client] = @ - IF refill[client] >= cost THEN cost ELSE 0]
    /\ UNCHANGED time

(* Any other request of the public API.                                    *)
Request ==
    \E client \in Clients, allowed \in BOOLEAN :
       /\ Consume(client, 1, allowed)
       /\ UNCHANGED <<searches, running>>

(* tryAcquire() comes after the charge: a phrase that finds no slot is     *)
(* refused with 503 and has been paid for.                                 *)
PhraseSearch ==
    \E client \in Clients, allowed \in BOOLEAN :
       /\ Consume(client, PhraseCost, allowed)
       /\ IF allowed /\ running < Slots
          THEN /\ searches' = [searches EXCEPT ![client] = @ + 1]
               /\ running' = running + 1
          ELSE UNCHANGED <<searches, running>>

(* The search answers, times out or fails. Mutant of Releases: only an     *)
(* answer gives the slot back.                                             *)
ReleasesOnAnswer(outcome) == outcome = "answered"
Releases(outcome) == outcome \in {"answered", "timeout", "failed"}

PhraseSearchEnds ==
    \E client \in Clients, outcome \in {"answered", "timeout", "failed"} :
       /\ searches[client] > 0
       /\ searches' = [searches EXCEPT ![client] = @ - 1]
       /\ running' = IF Releases(outcome) THEN running - 1 ELSE running
       /\ UNCHANGED <<time, buckets, lastSweep, refill>>

AdmissionNext == Tick \/ Request \/ PhraseSearch \/ PhraseSearchEnds

AdmissionSpec == AdmissionInit /\ [][AdmissionNext]_admissionVars
-----------------------------------------------------------------------------
(* The sum of a count per client.                                          *)
Total(count) ==
    LET sum[S \in SUBSET Clients] ==
          IF S = {} THEN 0
          ELSE LET c == CHOOSE c \in S : TRUE IN count[c] + sum[S \ {c}]
    IN  sum[Clients]

(* Filling a bucket only when it is used, and dropping idle ones, gives a  *)
(* client neither more nor less than a bucket that fills all the time; and *)
(* the slots taken are those of the searches under way.                    *)
AdmissionIsExact ==
    /\ \A c \in Clients : Tokens(c) = refill[c]
    /\ running = Total(searches)
=============================================================================
