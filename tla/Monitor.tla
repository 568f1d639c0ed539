------------------------------- MODULE Monitor -------------------------------
(***************************************************************************)
(* The two monitors of the deployment: scripts/monitor-production.sh,      *)
(* which a timer starts every other minute, and its counterpart            *)
(* scripts/monitor-production.ts. A tick goes through its checks one after *)
(* the other and then tells a webhook what it found, at most once per      *)
(* cooldown for each key; the times are kept in a file that may be lost.   *)
(*                                                                         *)
(* A key stands for all the keys of one check: what is wrong, or that it   *)
(* could not be found out. Troubles come and go between any two steps.     *)
(***************************************************************************)
EXTENDS Integers, FiniteSets

CONSTANTS Troubles,        (* what may be wrong                            *)
          Cooldown,        (* ALERT_COOLDOWN, in ticks of the clock        *)
          SearchStreak,    (* SEARCH_ALERT_AFTER_CONSECUTIVE               *)
          LastTick         (* bound                                        *)

ASSUME MonitorAssumption ==
    /\ Troubles \subseteq {"search", "disk", "docker", "supplier", "backup"}
    /\ Cooldown \in Nat \ {0} /\ SearchStreak \in Nat \ {0} /\ LastTick \in Nat

VARIABLES
    script,      (* which of the two, and its REQUIRE_LOCAL_CHECKS         *)
    trouble,     (* what is wrong                                          *)
    ticks,       (* the clock                                              *)
    tick,        (* the tick: the next check, the alerts, what has been    *)
                 (* wrong since it began                                   *)
    slow,        (* search_degraded_streak                                 *)
    marked,      (* the state file: when a key was last told               *)
    told,        (* history: when the webhook last took a key              *)
    unheard      (* history: what was wrong throughout the latest tick     *)
                 (* that was not killed, nor refused by the webhook, and   *)
                 (* was told neither by it nor in the cooldown before      *)

monitorVars == <<script, trouble, ticks, tick, slow, marked, told, unheard>>

NoTick == [check |-> "none", alerts |-> {}, held |-> {}]
Never == -1 - Cooldown
Times == {Never} \cup 0 .. LastTick

MonitorTypeOK ==
    /\ script \in [of: {"bash", "deno"}, local: BOOLEAN]
    /\ trouble \subseteq Troubles /\ ticks \in 0 .. LastTick
    /\ tick \in [check: {"none", "search", "disk", "docker", "supplier", "tell", "mark"},
                 alerts: SUBSET Troubles, held: SUBSET Troubles]
    /\ slow \in 0 .. LastTick + 1
    /\ marked \in [Troubles -> Times] /\ told \in [Troubles -> Times]
    /\ unheard \subseteq Troubles

MonitorInit ==
    /\ script \in [of: {"bash", "deno"}, local: BOOLEAN]
    /\ script.of = "bash" => script.local
    /\ trouble = {} /\ ticks = 0 /\ tick = NoTick /\ slow = 0
    /\ marked = [k \in Troubles |-> Never] /\ told = marked /\ unheard = {}
-----------------------------------------------------------------------------
TroubleChanges(k) ==
    /\ trouble' = (trouble \ {k}) \cup ({k} \ trouble)
    /\ tick' = [tick EXCEPT !.held = @ \cap trouble']
    /\ UNCHANGED <<script, ticks, slow, marked, told, unheard>>

(* The timer starts no tick while one runs.                                *)
BeginTick ==
    /\ tick = NoTick /\ ticks < LastTick
    /\ ticks' = ticks + 1
    /\ tick' = [check |-> "search", alerts |-> {}, held |-> trouble]
    /\ UNCHANGED <<script, trouble, slow, marked, told, unheard>>

Raised(keys, next) ==
    tick' = [tick EXCEPT !.check = next, !.alerts = @ \cup (keys \cap Troubles)]

(* The shell script waits for a few slow ticks in a row.                   *)
CheckSearch ==
    /\ tick.check = "search"
    /\ slow' = IF script.of = "deno" THEN slow ELSE IF "search" \in trouble THEN slow + 1 ELSE 0
    /\ Raised(IF script.of = "deno" \/ slow' >= SearchStreak
              THEN trouble \cap {"search"} ELSE {},
              IF script.local THEN "disk" ELSE "tell")
    /\ UNCHANGED <<script, trouble, ticks, marked, told, unheard>>

CheckDisk ==
    /\ tick.check = "disk"
    /\ Raised(trouble \cap {"disk"}, "docker")
    /\ UNCHANGED <<script, trouble, ticks, slow, marked, told, unheard>>

(* checkDocker(), check_containers().                                      *)
CheckDocker ==
    /\ tick.check = "docker" /\ script.of = "deno"
    /\ Raised(trouble \cap {"docker"}, "supplier")
    /\ UNCHANGED <<script, trouble, ticks, slow, marked, told, unheard>>

(* The question is put to a container: without docker it has no answer.    *)
CheckSupplierFreshness ==
    /\ tick.check = "supplier"
    /\ Raised(IF trouble \cap {"supplier", "docker"} # {} THEN {"supplier"} ELSE {}, "tell")
    /\ UNCHANGED <<script, trouble, ticks, slow, marked, told, unheard>>

Watched == IF script.local THEN Troubles ELSE Troubles \cap {"search"}
Unheard(when) ==
    { k \in tick.held \cap Watched : ticks - when[k] >= Cooldown }

(* The last line of check_containers() reads an argument it is not given,  *)
(* and the script ends there: set -u.                                      *)
ScriptEnds ==
    /\ tick.check = "docker" /\ script.of = "bash"
    /\ tick' = NoTick /\ unheard' = Unheard(told)
    /\ UNCHANGED <<script, trouble, ticks, slow, marked, told>>

Unsuppressed == { k \in tick.alerts : ticks - marked[k] >= Cooldown }

(* sendWebhook(): nothing to tell, or the webhook takes it.                *)
NothingToTell ==
    /\ tick.check = "tell" /\ Unsuppressed = {}
    /\ tick' = NoTick /\ unheard' = Unheard(told)
    /\ UNCHANGED <<script, trouble, ticks, slow, marked, told>>

Tell ==
    /\ tick.check = "tell" /\ Unsuppressed # {}
    /\ told' = [k \in Troubles |-> IF k \in Unsuppressed THEN ticks ELSE told[k]]
    /\ unheard' = Unheard(told')
    /\ tick' = [tick EXCEPT !.check = "mark"]
    /\ UNCHANGED <<script, trouble, ticks, slow, marked>>

WebhookRefuses ==
    /\ tick.check = "tell" /\ Unsuppressed # {}
    /\ tick' = NoTick /\ unheard' = {}
    /\ UNCHANGED <<script, trouble, ticks, slow, marked, told>>

(* Mutant: every alert of the tick is marked, told or not.                 *)
MarkedAll == [k \in Troubles |-> IF k \in tick.alerts THEN ticks ELSE marked[k]]
Marked == [k \in Troubles |-> IF k \in Unsuppressed THEN ticks ELSE marked[k]]

WriteState ==
    /\ tick.check = "mark"
    /\ marked' = Marked
    /\ tick' = NoTick
    /\ UNCHANGED <<script, trouble, ticks, slow, told, unheard>>

TickDies ==
    /\ tick # NoTick /\ tick' = NoTick
    /\ unheard' = IF tick.check = "mark" THEN unheard ELSE {}
    /\ UNCHANGED <<script, trouble, ticks, slow, marked, told>>

(* The file is in /tmp.                                                    *)
StateLost ==
    /\ tick = NoTick
    /\ marked' = [k \in Troubles |-> Never] /\ slow' = 0
    /\ UNCHANGED <<script, trouble, ticks, tick, told, unheard>>

MonitorNext ==
    \/ \E k \in Troubles : TroubleChanges(k)
    \/ BeginTick \/ CheckSearch \/ CheckDisk \/ CheckDocker \/ CheckSupplierFreshness
    \/ ScriptEnds \/ NothingToTell \/ Tell \/ WebhookRefuses \/ WriteState
    \/ TickDies \/ StateLost

MonitorSpec == MonitorInit /\ [][MonitorNext]_monitorVars
-----------------------------------------------------------------------------
(* What is wrong throughout a tick of the counterpart has been told within *)
(* the cooldown when the tick ends, also when earlier ticks were killed,   *)
(* were refused or lost their file; nothing is suppressed that was not     *)
(* told.                                                                   *)
AlertsAreTold ==
    script.of = "deno" =>
        /\ unheard \subseteq {"backup"}
        /\ \A k \in Troubles : marked[k] <= told[k]
-----------------------------------------------------------------------------
(* A statement of the repository that the code does not keep.              *)

(* "the production monitor alerts when this file goes stale, so a silently *)
(* failing backup timer still pages".                                      *)
StaleBackupIsTold == script.of = "bash" => "backup" \notin unheard
=============================================================================
