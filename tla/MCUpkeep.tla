-------------------------------- MODULE MCUpkeep --------------------------------
(***************************************************************************)
(* The upkeep of the service, checked in one run: the scripts that repair, *)
(* revalidate and back up, and what watches and reports. They share no     *)
(* variable: the initial state picks a component, only that one moves, and *)
(* the others rest in one initial state, so the states add up.             *)
(***************************************************************************)
EXTENDS Revalidation, TimeRepair, StateBackup, Monitor, CoverageCheck, StatusPage,
        IndexClient, AdminPage, Figures, OpsRequests

CONSTANTS d1, d2, d3, g1, g2, m1, m2, m3, k1, k2, e1, e2, e3

VARIABLE component

ThreeDocuments == {d1, d2, d3}

(* Two documents of one source and one of another; the index lists one     *)
(* more than once.                                                         *)
TwoKeys == [d \in ThreeDocuments |-> IF d = d3 THEN g2 ELSE g1]
WithCopies == {<<d1, d2, d3>>, <<d1, d2, d1>>}
TwoRecords == {1, 2}
TwoDatabases == <<"ops", "log">>

(* One meeting stands under another; one entry is not ours.                *)
ThreeMeetings == {m1, m2, m3}
OneUnder == [m \in ThreeMeetings |-> IF m = m1 THEN {m3} ELSE {}]
TwoLists == {k1, k2}
EntriesOfLists == [k \in TwoLists |-> IF k = k1 THEN {e1, e2} ELSE {e3}]
OneEach == [x \in ThreeMeetings \cup {e1, e2, e3} |->
    CASE x = m3 -> {d1} [] x = e1 -> {d2} [] x = e2 -> {d3} [] OTHER -> {}]
OneForeign == {e2}
OneSource == {g1}

(* A deployment takes one source away and switches the other on.           *)
TwoCatalogs ==
    <<[s \in {"a", "b"} |-> IF s = "a" THEN "runnable" ELSE "projectable"],
      [s \in {"a", "b"} |-> IF s = "a" THEN "absent" ELSE "runnable"]>>
OneOfEach == [d \in {"d1", "d2"} |-> IF d = "d1" THEN "a" ELSE "b"]
NumbersOfDocuments == <<"1 documents", "2 documents">>

UpkeepInit ==
    /\ component \in {"revalidation", "times", "backup", "monitor", "coverage", "status", "client", "admin",
                     "stats", "ratios", "previews", "requests"}
    /\ RevalidationInit
    /\ component # "revalidation" => listing = <<d1, d2, d3>>
    /\ TimeRepairInit
    /\ component # "times" =>
          /\ clocks = "still"
          /\ \A e \in TwoRecords : reading[e].latest = 26 /\ logged[e].at = 26
    /\ BackupInit
    /\ MonitorInit
    /\ component # "monitor" => script = [of |-> "bash", local |-> TRUE]
    /\ CoverageInit
    /\ component # "coverage" => siteOf = "ibabs" /\ holding = {}
    /\ StatusInit
    /\ IndexClientInit
    /\ component # "client" => call.from = "import" /\ \A i \in BatchRows : size[i] = 1
    /\ AdminPageInit
    /\ component # "admin" => runTable = <<>>
    /\ FiguresInit
    /\ OpsRequestsInit

Rests(c, vars) == IF component = c THEN TRUE ELSE UNCHANGED vars

OthersRest ==
    /\ UNCHANGED component
    /\ Rests("revalidation", revalidationVars)
    /\ Rests("times", timeRepairVars)
    /\ Rests("backup", backupVars)
    /\ Rests("monitor", monitorVars)
    /\ Rests("coverage", coverageVars)
    /\ Rests("status", statusVars)
    /\ Rests("client", indexClientVars)
    /\ Rests("admin", adminPageVars)
    /\ Rests("requests", opsRequestsVars)
    /\ component \in {"stats", "ratios", "previews"} \/ UNCHANGED figuresVars

RevalidationStep == component = "revalidation" /\ RevalidationNext /\ OthersRest
TimesStep == component = "times" /\ TimeRepairNext /\ OthersRest
BackupStep == component = "backup" /\ BackupNext /\ OthersRest
MonitorStep == component = "monitor" /\ MonitorNext /\ OthersRest
CoverageStep == component = "coverage" /\ CoverageNext /\ OthersRest
StatusStep == component = "status" /\ StatusNext /\ OthersRest
ClientStep == component = "client" /\ IndexClientNext /\ OthersRest
AdminStep == component = "admin" /\ AdminPageNext /\ OthersRest
RequestsStep == component = "requests" /\ OpsRequestsNext /\ OthersRest
FiguresStep ==
    /\ OthersRest
    /\ \/ component = "stats" /\ StatsNext
       \/ component = "ratios" /\ RatioNext
       \/ component = "previews" /\ PreviewNext

UpkeepNext ==
    \/ RevalidationStep \/ TimesStep \/ BackupStep \/ MonitorStep
    \/ CoverageStep \/ StatusStep \/ ClientStep \/ AdminStep
    \/ FiguresStep \/ RequestsStep

upkeepVars ==
    <<component, revalidationVars, timeRepairVars, backupVars, monitorVars,
      coverageVars,
      statusVars, indexClientVars, adminPageVars, figuresVars, opsRequestsVars>>

UpkeepSpec == UpkeepInit /\ [][UpkeepNext]_upkeepVars

(* The variables of the component that moves keep their types.             *)
UpkeepTypeOK ==
    /\ component = "revalidation" => RevalidationTypeOK
    /\ component = "times" => TimeRepairTypeOK
    /\ component = "backup" => BackupTypeOK
    /\ component = "monitor" => MonitorTypeOK
    /\ component = "coverage" => CoverageTypeOK
    /\ component = "status" => StatusTypeOK
    /\ component = "client" => IndexClientTypeOK
    /\ component = "admin" => AdminPageTypeOK
    /\ component = "requests" => OpsRequestsTypeOK
    /\ FiguresTypeOK

(* The scripts that go over what is stored, killed and begun again while   *)
(* other processes write: a streak is one of sweeps that each found the     *)
(* document gone, but for the batches that held it twice or were too small *)
(* to tell an outage; no date is shifted twice; no row is left out of the  *)
(* index but those it refused; and an operator's request does what it      *)
(* named, and to nothing else.                                             *)
SweepsAreSound ==
    /\ component = "revalidation" => StreaksAreEarned
    /\ component = "times" => TimesAreShiftedOnce
    /\ component = "client" => IndexTakesTheRest
    /\ component = "requests" => OpsDoWhatWasNamed

(* What is reported of the system is so: a trouble that lasts is told, and *)
(* what the status page and the coverage check publish was true at some    *)
(* time while they looked, but for what the check read as empty; a list of *)
(* runs read in peace is right, and no figure is shown for longer than it  *)
(* is remembered.                                                          *)
ReportsAreTrue ==
    /\ component = "monitor" => AlertsAreTold
    /\ component = "status" => StatusIsTrue
    /\ component = "coverage" => CoverageIsTrue
    /\ component = "admin" => AlonePutsRight
    /\ FiguresAreRecent
=============================================================================
