-------------------------------- MODULE Backfill --------------------------------
(***************************************************************************)
(* The backfill of a source's history: enqueue_full_history cuts it into   *)
(* windows, plan_motion_backfill cuts the motions into years when they are *)
(* many, and the re-enqueue of failed windows (a script and an ops job)    *)
(* asks again for what never succeeded. Each looks for an active run of a  *)
(* window before it creates one, in a statement of its own; the daily      *)
(* scheduler, operators and the workers write the same table meanwhile.    *)
(*                                                                         *)
(* One source. A date is the number of its day in a calendar of short      *)
(* months; a window is <<date_from, date_to>>.                             *)
(***************************************************************************)
EXTENDS Integers, Sequences, FiniteSets

CONSTANTS MonthEnds,      (* the last day of each month                    *)
          YearEnds,       (* the last day of each year                     *)
          ChunkMonths,    (* --chunk-months                                *)
          MinWindowDays,  (* --min-window-days                             *)
          Today,          (* the last day any window asks for              *)
          Histories,      (* what --date-from and --date-to may be         *)
          Planners,       (* processes that enqueue                        *)
          MaxPlans, MaxDaily,  (* bounds                                   *)
          ByHand          (* bound: the windows operators ask for, modes   *)
                          (* and dates                                     *)

ASSUME BackfillAssumption ==
    /\ MonthEnds \in Seq(Nat \ {0}) \ {<<>>} /\ YearEnds \in Seq(Nat) \ {<<>>}
    /\ \A m \in DOMAIN MonthEnds : \A l \in 1 .. m - 1 : MonthEnds[l] < MonthEnds[m]
    /\ ChunkMonths \in Nat \ {0} /\ MinWindowDays \in Nat
    /\ Today \in 1 .. MonthEnds[Len(MonthEnds)] /\ Today <= YearEnds[Len(YearEnds)]
    /\ Histories \subseteq (1 .. Today) \X (1 .. Today)
    /\ MaxPlans \in Nat /\ MaxDaily \in Nat

VARIABLES
    table,      (* ingest_run: of each mode and window, how many runs are  *)
                (* active and what the others ended with                   *)
    byHand,     (* windows an operator's own run is active for             *)
    history,    (* --date-from and --date-to                               *)
    planner,    (* what each process is doing                              *)
    plansLeft, dailyLeft   (* bounds                                       *)

backfillVars == <<table, byHand, history, planner, plansLeft, dailyLeft>>

(* A run of an operator that fails or comes back partial is not one the    *)
(* list of the failed looks at: "unlisted".                                *)
WindowOutcomes == {"succeeded", "partial", "failed"}
Endings == WindowOutcomes \cup {"unlisted"}
NoRuns == [active |-> 0, ended |-> {}]
NoPlan == [of |-> "none", state |-> "idle", todo |-> <<>>, found |-> FALSE,
         asked |-> <<1, 1>>, owed |-> {}, tried |-> {}]
-----------------------------------------------------------------------------
MonthStart(m) == IF m = 1 THEN 1 ELSE MonthEnds[m - 1] + 1
MonthOf(day) == CHOOSE m \in DOMAIN MonthEnds : MonthStart(m) <= day /\ day <= MonthEnds[m]

(* setUTCMonth(): the same day of an earlier month, running on into the    *)
(* next when that one is shorter.                                          *)
MonthsBack(day) ==
    LET m == MonthOf(day) IN
    IF m > ChunkMonths THEN MonthStart(m - ChunkMonths) + (day - MonthStart(m)) ELSE 0

(* dateChunks(), newest first. Mutant: only whole chunks.                  *)
WholeDateChunks(from, to) ==
    LET Before[end \in 0 .. to] ==
            IF end <= from \/ MonthsBack(end) <= from THEN <<>>
            ELSE <<<<MonthsBack(end), end>>>> \o Before[MonthsBack(end)]
    IN  Before[to]
DateChunks(from, to) ==
    LET Before[end \in 0 .. to] ==
            IF end <= from THEN <<>>
            ELSE LET start == IF MonthsBack(end) > from THEN MonthsBack(end) ELSE from
                 IN  <<<<start, end>>>> \o Before[start]
    IN  Before[to]

(* yearWindows() from the first year, and one window when it is enough.    *)
YearOf(day) == CHOOSE y \in DOMAIN YearEnds :
    day <= YearEnds[y] /\ \A x \in 1 .. y - 1 : YearEnds[x] < day
YearWindows ==
    [y \in 1 .. YearOf(Today) |->
        <<IF y = 1 THEN 1 ELSE YearEnds[y - 1] + 1,
          IF y = YearOf(Today) THEN Today ELSE YearEnds[y]>>]
MotionWindows(overLimit) == IF overLimit THEN YearWindows ELSE << <<1, Today>> >>

InFull(windows) == [i \in DOMAIN windows |-> <<"full", windows[i]>>]
Daily == <<"full", <<Today, Today>>>>
ChunksOf(h) == { DateChunks(h[1], h[2])[i] : i \in DOMAIN DateChunks(h[1], h[2]) }
WindowModes == {"full", "motions_only"}
WindowKeys ==
    WindowModes \X ((UNION { ChunksOf(h) : h \in Histories })
                      \cup { YearWindows[y] : y \in DOMAIN YearWindows }
                      \cup {<<1, Today>>, <<Today, Today>>})

Wide(key) == key[1] = "full" /\ key[2][2] - key[2][1] > MinWindowDays

BackfillTypeOK ==
    /\ \A key \in WindowKeys :
          table[key].active \in Nat /\ table[key].ended \subseteq Endings
    /\ byHand \subseteq WindowKeys
    /\ history \in Histories
    /\ \A p \in Planners :
          /\ planner[p].of \in {"none", "history", "motions", "retry"}
          /\ planner[p].state \in {"idle", "working", "done"}
          /\ \A i \in DOMAIN planner[p].todo : planner[p].todo[i] \in WindowKeys
    /\ plansLeft \in 0 .. MaxPlans /\ dailyLeft \in 0 .. MaxDaily

BackfillInit ==
    /\ history \in Histories
    /\ table = [key \in WindowKeys |-> NoRuns]
    /\ byHand = {} /\ planner = [p \in Planners |-> NoPlan]
    /\ plansLeft = MaxPlans /\ dailyLeft = MaxDaily
-----------------------------------------------------------------------------
(* A run of these dates succeeded, whatever its mode.                      *)
SomeModeSucceeded(t, key) ==
    \E mode \in WindowModes : "succeeded" \in t[<<mode, key[2]>>].ended

(* listFailedBackfillWindows() with both statuses, newest first. Mutant:   *)
(* the failed alone.                                                       *)
FailedAlone(t) == { key \in WindowKeys :
    Wide(key) /\ "failed" \in t[key].ended /\ ~SomeModeSucceeded(t, key) }
FailedWindows(t) == { key \in WindowKeys :
    Wide(key) /\ t[key].ended \cap {"failed", "partial"} # {} /\ ~SomeModeSucceeded(t, key) }

NewestFirst(keys) ==
    CHOOSE s \in [1 .. Cardinality(keys) -> keys] :
        \A i, j \in DOMAIN s : i < j => s[i] # s[j] /\ s[i][2][1] >= s[j][2][1]

(* What a sweep owes (what the properties compare the list with): the wide *)
(* windows that were tried, are not being tried and never succeeded. Not    *)
(* all of them: a success of the same dates in another mode hides a window *)
(* from the list, and so does having been tried by operators alone.        *)
NeverSucceeded == { key \in WindowKeys :
    /\ Wide(key) /\ table[key].active = 0
    /\ table[key].ended # {} /\ "succeeded" \notin table[key].ended }
HiddenByAnotherMode == { key \in WindowKeys :
    \E mode \in WindowModes \ {key[1]} : "succeeded" \in table[<<mode, key[2]>>].ended }
TriedByHandOnly == { key \in WindowKeys : table[key].ended \subseteq {"unlisted"} }
Owed == NeverSucceeded \ (HiddenByAnotherMode \cup TriedByHandOnly)

BeginPlan(p, of, todo, asked, owed) ==
    /\ planner[p].state # "working" /\ plansLeft > 0 /\ plansLeft' = plansLeft - 1
    /\ planner' = [planner EXCEPT ![p] =
           [NoPlan EXCEPT !.of = of, !.state = "working", !.todo = todo,
                        !.asked = asked, !.owed = owed]]
    /\ UNCHANGED <<table, byHand, history, dailyLeft>>

PlanHistory(p) ==
    BeginPlan(p, "history", InFull(DateChunks(history[1], history[2])), history, {})

PlanRetry(p) ==
    BeginPlan(p, "retry", NewestFirst(FailedWindows(table)), NoPlan.asked, Owed)

(* assertQueueIdle(), unless forced, and then the lists are counted.       *)
PlanMotions(p, overLimit, force) ==
    /\ force \/ \A key \in WindowKeys : table[key].active = 0
    /\ LET windows == MotionWindows(overLimit)
       IN  BeginPlan(p, "motions", [i \in DOMAIN windows |-> <<"motions_only", windows[i]>>],
                <<1, Today>>, {})

(* findActiveRun(). The motions are queued by the server, which refuses    *)
(* what is active; the planner does not survive that.                      *)
LookForRun(p) ==
    LET first == Head(planner[p].todo) IN
    /\ planner[p].state = "working" /\ planner[p].todo # <<>> /\ ~planner[p].found
    /\ planner' =
          IF table[first].active = 0 THEN [planner EXCEPT ![p].found = TRUE]
          ELSE IF planner[p].of = "motions" THEN [planner EXCEPT ![p] = NoPlan]
          ELSE [planner EXCEPT ![p].todo = Tail(@)]
    /\ UNCHANGED <<table, byHand, history, plansLeft, dailyLeft>>

(* createRun(): none was active when it looked.                            *)
CreateWindowRun(p) ==
    LET first == Head(planner[p].todo) IN
    /\ planner[p].state = "working" /\ planner[p].found
    /\ table' = [table EXCEPT ![first].active = @ + 1]
    /\ planner' = [planner EXCEPT ![p].todo = Tail(@), ![p].found = FALSE]
    /\ UNCHANGED <<byHand, history, plansLeft, dailyLeft>>

PlannerEnds(p) ==
    /\ planner[p].state = "working" /\ planner[p].todo = <<>>
    /\ planner' = [planner EXCEPT ![p].state = "done"]
    /\ UNCHANGED <<table, byHand, history, plansLeft, dailyLeft>>

PlannerDies(p) ==
    /\ planner[p].state = "working"
    /\ planner' = [planner EXCEPT ![p] = NoPlan]
    /\ UNCHANGED <<table, byHand, history, plansLeft, dailyLeft>>

(* The daily scheduler's own window; an operator's run of any, refused     *)
(* when one is active (the step between is that of LookForRun); and the    *)
(* end of a run, the operator's own or another.                            *)
ScheduleDaily ==
    /\ dailyLeft > 0 /\ dailyLeft' = dailyLeft - 1
    /\ table' = [table EXCEPT ![Daily].active = @ + 1]
    /\ UNCHANGED <<byHand, history, planner, plansLeft>>

RunByHand(key) ==
    /\ key \in ByHand /\ table[key].active = 0
    /\ dailyLeft > 0 /\ dailyLeft' = dailyLeft - 1
    /\ table' = [table EXCEPT ![key].active = @ + 1] /\ byHand' = byHand \cup {key}
    /\ UNCHANGED <<history, planner, plansLeft>>

WindowEnds(key, ending) ==
    /\ table[key].active > 0
    /\ table' = [table EXCEPT ![key].active = @ - 1, ![key].ended = @ \cup {ending}]
    /\ planner' = [p \in Planners |->
          [planner[p] EXCEPT !.tried = @ \cup ({key} \cap planner[p].owed)]]
    /\ UNCHANGED <<history, plansLeft, dailyLeft>>

SettleWindow(key, outcome) ==
    /\ table[key].active > Cardinality({key} \cap byHand)
    /\ WindowEnds(key, outcome) /\ UNCHANGED byHand

SettleByHand(key, outcome) ==
    /\ key \in byHand /\ byHand' = byHand \ {key}
    /\ WindowEnds(key, IF outcome = "succeeded" THEN outcome ELSE "unlisted")

BackfillNext ==
    \/ \E p \in Planners :
          \/ PlanHistory(p) \/ PlanRetry(p) \/ LookForRun(p) \/ CreateWindowRun(p)
          \/ PlannerEnds(p) \/ PlannerDies(p)
          \/ \E overLimit, force \in BOOLEAN : PlanMotions(p, overLimit, force)
    \/ ScheduleDaily
    \/ \E key \in WindowKeys : RunByHand(key)
    \/ \E key \in WindowKeys, outcome \in WindowOutcomes :
          SettleWindow(key, outcome) \/ SettleByHand(key, outcome)

BackfillSpec == BackfillInit /\ [][BackfillNext]_backfillVars
-----------------------------------------------------------------------------
(* A plan that came to its end left no hole: every two neighbouring days   *)
(* of the history (every day, of the motions) are in one window that was   *)
(* asked for, and no window a sweep of the failed owed when it was planned *)
(* is untried since, whatever else was queued and settled meanwhile. What  *)
(* it owes leaves out what Owed says the list does not see.                *)
NoHoleIsLeft ==
    \A p \in Planners : planner[p].state = "done" =>
        CASE planner[p].of = "history" ->
               \A day \in planner[p].asked[1] .. planner[p].asked[2] - 1 :
                   \E key \in WindowKeys : /\ key[1] = "full" /\ table[key] # NoRuns
                                     /\ key[2][1] <= day /\ day + 1 <= key[2][2]
          [] planner[p].of = "motions" ->
               \A day \in planner[p].asked[1] .. planner[p].asked[2] :
                   \E key \in WindowKeys : /\ key[1] = "motions_only" /\ table[key] # NoRuns
                                     /\ key[2][1] <= day /\ day <= key[2][2]
          [] OTHER ->
               \A key \in planner[p].owed :
                   table[key].active > 0 \/ key \in planner[p].tried
=============================================================================
