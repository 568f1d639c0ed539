------------------------------- MODULE Scheduler -------------------------------
(***************************************************************************)
(* The daily scheduler (src/scheduler.ts): one timer in the web process    *)
(* that enqueues an import of every source at 02:00 Amsterdam time, and on *)
(* Saturdays a sweep of the months before. The time of the next tick is    *)
(* computed anew after every tick and at every start, from the offset of   *)
(* the moment it is computed at; nothing about it is stored.               *)
(*                                                                         *)
(* Time is in hours UTC. Day 0 is a Saturday; on day 1, at 01:00 UTC, the  *)
(* clocks may go back or forward. A run is <<source, window, day>>.        *)
(***************************************************************************)
EXTENDS Integers, FiniteSets

CONSTANTS Sources,
          MaxActive,    (* WOOZI_SCHEDULER_MAX_ACTIVE_RUNS                 *)
          LastDay,      (* bound                                           *)
          MaxDelay      (* bound: hours the process may be late            *)

ASSUME SchedulerAssumption ==
    MaxActive \in Nat /\ LastDay \in Nat /\ MaxDelay \in 0 .. 20

VARIABLES
    season,      (* what the clocks do on day 1                            *)
    hour,
    timer,       (* the process: down, waiting for nextAt, or enqueueing   *)
    active,      (* scheduled runs that are queued or running              *)
    enqueued,    (* history: runs ever enqueued                            *)
    excused      (* history: runs the scheduler could not enqueue          *)

schedulerVars == <<season, hour, timer, active, enqueued, excused>>

Days == 0 .. LastDay
Hours == 0 .. 24 * LastDay + 23
WindowKinds == {"nightly", "sweep"}
ScheduledRun == Sources \X WindowKinds \X Days

SchedulerTypeOK ==
    /\ season \in {"none", "autumn", "spring"}
    /\ hour \in Hours
    /\ timer \in [state: {"down", "waiting", "enqueueing"},
                  nextAt: 0 .. 24 * LastDay + 47, todo: SUBSET ScheduledRun]
    /\ active \subseteq enqueued /\ enqueued \cup excused \subseteq ScheduledRun

SchedulerInit ==
    /\ season \in {"none", "autumn", "spring"}
    /\ hour = 0
    /\ timer = [state |-> "down", nextAt |-> 0, todo |-> {}]
    /\ active = {} /\ enqueued = {} /\ excused = {}
-----------------------------------------------------------------------------
ClockChange == 25
Offset(t) ==
    IF (season = "autumn" /\ t < ClockChange) \/ (season = "spring" /\ t >= ClockChange)
    THEN 2 ELSE 1

ScheduleHour == 2
LocalDay(t) == (t + Offset(t)) \div 24
UtcDay(t) == t \div 24

(* nextScheduledTime(): today's hour by the offset of now, or a day later. *)
(* Mutant: always a day later.                                             *)
NextTickTomorrow(now) == 24 * UtcDay(now) + ScheduleHour - Offset(now) + 24
NextTick(now) ==
    LET candidate == 24 * UtcDay(now) + ScheduleHour - Offset(now)
    IN  IF candidate <= now THEN candidate + 24 ELSE candidate

Wait == [state |-> "waiting", nextAt |-> NextTick(hour), todo |-> {}]

(* What a tick means to enqueue: windows are dated with the UTC day, the   *)
(* sweep goes by the Amsterdam weekday.                                    *)
Wanted(t) ==
    Sources \X (IF LocalDay(t) % 7 = 0 THEN WindowKinds ELSE {"nightly"}) \X {UtcDay(t)}

(* 02:00 on the Amsterdam clock, or the hour it becomes when it is skipped.*)
IsTwo(t) ==
    /\ t > 0
    /\ t + Offset(t) >= 24 * LocalDay(t) + ScheduleHour
    /\ t - 1 + Offset(t - 1) < 24 * LocalDay(t) + ScheduleHour

Start ==
    /\ timer.state = "down"
    /\ timer' = Wait
    /\ UNCHANGED <<season, hour, active, enqueued, excused>>

(* An hour passes, but a due timer is not ignored for longer than MaxDelay.*)
(* A process that is down at two o'clock does not catch up.                *)
HourPasses ==
    /\ hour + 1 \in Hours
    /\ timer.state = "waiting" => hour < timer.nextAt + MaxDelay
    /\ timer.state # "enqueueing"
    /\ hour' = hour + 1
    /\ excused' = IF timer.state = "down" /\ IsTwo(hour')
                  THEN excused \cup Wanted(hour') ELSE excused
    /\ UNCHANGED <<season, timer, active, enqueued>>

(* enqueueDailyScheduledRuns(): skipped altogether while more than         *)
(* MaxActive scheduled runs are queued or running.                         *)
TickFires ==
    /\ timer.state = "waiting"
    /\ hour >= timer.nextAt
    /\ IF Cardinality(active) > MaxActive
       THEN /\ timer' = Wait
            /\ excused' = excused \cup Wanted(hour)
       ELSE /\ timer' = [timer EXCEPT !.state = "enqueueing", !.todo = Wanted(hour)]
            /\ UNCHANGED excused
    /\ UNCHANGED <<season, hour, active, enqueued>>

(* enqueueWindow(): an active run of the same window is left alone, and a  *)
(* source that cannot be enqueued is logged and passed over.               *)
EnqueueNext ==
    /\ timer.state = "enqueueing"
    /\ \E r \in timer.todo :
          /\ timer' = [timer EXCEPT !.todo = @ \ {r}]
          /\ \/ /\ active' = active \cup {r}
                /\ enqueued' = enqueued \cup {r}
                /\ UNCHANGED excused
             \/ /\ r \notin active
                /\ excused' = excused \cup {r}
                /\ UNCHANGED <<active, enqueued>>
    /\ UNCHANGED <<season, hour>>

ScheduleNext ==
    /\ timer.state = "enqueueing"
    /\ timer.todo = {}
    /\ timer' = Wait
    /\ UNCHANGED <<season, hour, active, enqueued, excused>>

(* A deploy in the middle of a tick leaves the rest of it undone.          *)
Stop ==
    /\ timer.state # "down"
    /\ excused' = excused \cup timer.todo
          \cup IF timer.state = "waiting" /\ hour >= timer.nextAt THEN Wanted(hour) ELSE {}
    /\ timer' = [state |-> "down", nextAt |-> 0, todo |-> {}]
    /\ UNCHANGED <<season, hour, active, enqueued>>

(* A worker settles runs; see RunQueue for how it gets there.              *)
RunsSettle ==
    /\ \E r \in active : active' = active \ {r}
    /\ UNCHANGED <<season, hour, timer, enqueued, excused>>

SchedulerNext ==
    Start \/ HourPasses \/ TickFires \/ EnqueueNext \/ ScheduleNext \/ Stop \/ RunsSettle

SchedulerSpec == SchedulerInit /\ [][SchedulerNext]_schedulerVars
-----------------------------------------------------------------------------
(* The scheduler has passed two o'clock of a day and waits for a later one.*)
Passed(t) == hour >= t /\ IsTwo(t) /\ timer.state = "waiting" /\ hour < timer.nextAt

(* No night is lost to the computation of the next tick, whatever the      *)
(* clocks do and whenever the process is started: every run that was due   *)
(* is enqueued, unless the process was down, was stopped half-way, could   *)
(* not insert it, or held back because earlier runs were still active.     *)
NoNightIsLost ==
    \A t \in Hours : Passed(t) => Wanted(t) \subseteq enqueued \cup excused
=============================================================================
