------------------------------- MODULE AdminPage -------------------------------
(***************************************************************************)
(* The list of import runs on the admin page (web/src/AdminApp.svelte):    *)
(* loaded and filtered, read further page by page, polled while a run on   *)
(* it is active, with one run opened beside it and imports started from    *)
(* it. Nothing cancels a request or drops its answer: requests of every    *)
(* kind may be under way at once and are answered in any order, while      *)
(* workers queue and settle runs.                                          *)
(*                                                                         *)
(* A request is a few calls the page waits for: for the runs, then for     *)
(* their issues, and a poll first for the summary; each may fail. Runs are *)
(* numbered as they are queued and the page lists the newest first. Of the *)
(* filters one is enough.                                                  *)
(***************************************************************************)
EXTENDS Integers, Sequences, FiniteSets

CONSTANTS RunsPage,        (* RUNS_PAGE_SIZE                               *)
          MaxAdminRuns, MaxUnderWay, MaxImported   (* bounds               *)

ASSUME AdminPageAssumption ==
    /\ RunsPage \in Nat \ {0} /\ MaxAdminRuns \in Nat
    /\ MaxUnderWay \in Nat \ {0} /\ MaxImported \in Nat

VARIABLES
    runTable,     (* ingest_run: whether each run is active                *)
    filter,       (* filterSource and filterStatus                         *)
    runs,
    runsHasMore,
    loadingOlderRuns,
    pollTimer,    (* whether it is set                                     *)
    openRun,      (* id 0 for none                                         *)
    runRequests,  (* the requests under way, by number                     *)
    imported,     (* imports started here, a bound                         *)
    right         (* history: the request that ended last had the page to  *)
                  (* itself, read the list from the top, and nothing was   *)
                  (* done since; what there was to read, and how many of   *)
                  (* it a poll has to show                                 *)

runList == <<runs, runsHasMore, loadingOlderRuns>>
adminPageVars ==
    <<runTable, filter, runList, pollTimer, openRun, runRequests, imported, right>>

AdminFilters == {"all", "active"}
RequestNumbers == 1 .. MaxUnderWay
RunsShown == [id: 1 .. MaxAdminRuns, active: BOOLEAN]
NoneOpen == [id |-> 0, active |-> FALSE]
NoRequest == [kind |-> "none", step |-> "none", filter |-> "all", offset |-> 0,
              limit |-> 0, alone |-> FALSE]
NotKnown == [known |-> FALSE, read |-> <<>>, atLeast |-> 0]

AdminPageTypeOK ==
    /\ Len(runTable) <= MaxAdminRuns
    /\ \A i \in DOMAIN runTable : runTable[i] \in BOOLEAN
    /\ filter \in AdminFilters /\ \A i \in DOMAIN runs : runs[i] \in RunsShown
    /\ runsHasMore \in BOOLEAN /\ loadingOlderRuns \in BOOLEAN /\ pollTimer \in BOOLEAN
    /\ openRun \in RunsShown \cup {NoneOpen} /\ imported \in 0 .. MaxImported
    /\ \A n \in RequestNumbers :
          /\ runRequests[n].kind \in {"none", "replace", "append", "poll", "import"}
          /\ runRequests[n].step \in {"none", "summary", "runs", "issues", "posted"}

AdminPageInit ==
    /\ runTable \in UNION { [1 .. n -> BOOLEAN] : n \in 0 .. MaxAdminRuns }
    /\ filter = "all" /\ runs = <<>> /\ openRun = NoneOpen /\ imported = 0
    /\ runsHasMore = FALSE /\ loadingOlderRuns = FALSE /\ pollTimer = FALSE
    /\ runRequests = [n \in RequestNumbers |-> NoRequest]
    /\ right = NotKnown
-----------------------------------------------------------------------------
Free == { n \in RequestNumbers : runRequests[n] = NoRequest }
Quiet == Free = RequestNumbers

(* What is begun while nothing is under way has the page to itself, unless *)
(* something is begun or done before it ends.                              *)
Disturbed(requests) == [n \in RequestNumbers |-> [requests[n] EXCEPT !.alone = FALSE]]
Begin(n, request) ==
    /\ n \in Free /\ \A m \in Free : n <= m
    /\ runRequests' = [Disturbed(runRequests) EXCEPT
           ![n] = [request EXCEPT !.alone = Quiet]]
    /\ right' = NotKnown

(* Workers queue runs and settle them.                                     *)
RunQueued ==
    /\ Len(runTable) < MaxAdminRuns /\ runTable' = Append(runTable, TRUE)
    /\ UNCHANGED <<filter, runList, pollTimer, openRun, runRequests, imported, right>>
RunSettled(id) ==
    /\ id \in DOMAIN runTable /\ runTable[id]
    /\ runTable' = [runTable EXCEPT ![id] = FALSE]
    /\ UNCHANGED <<filter, runList, pollTimer, openRun, runRequests, imported, right>>

(* loadRuns(): what it will ask for is settled when it begins.             *)
Replacing(f) == [NoRequest EXCEPT !.kind = "replace", !.step = "runs", !.filter = f,
                                  !.limit = RunsPage]

Refresh(n) ==
    /\ Begin(n, Replacing(filter))
    /\ UNCHANGED <<runTable, filter, runList, pollTimer, openRun, imported>>

ChangeFilter(n, f) ==
    /\ f # filter /\ filter' = f
    /\ Begin(n, Replacing(f))
    /\ UNCHANGED <<runTable, runList, pollTimer, openRun, imported>>

LoadOlder(n) ==
    /\ ~loadingOlderRuns /\ runsHasMore
    /\ loadingOlderRuns' = TRUE
    /\ Begin(n, [Replacing(filter) EXCEPT !.kind = "append", !.offset = Len(runs)])
    /\ UNCHANGED <<runTable, filter, runs, runsHasMore, pollTimer, openRun, imported>>

(* refreshPolledState(): the filter and as many runs as the page lists by  *)
(* the time the summary is there. Mutant: a page.                          *)
LargerOf(a, b) == IF a > b THEN a ELSE b
PollLimitOfPage == RunsPage
PollLimit == LargerOf(Len(runs), RunsPage)

Poll(n) ==
    /\ pollTimer
    /\ Begin(n, [NoRequest EXCEPT !.kind = "poll", !.step = "summary"])
    /\ UNCHANGED <<runTable, filter, runList, pollTimer, openRun, imported>>

Summarised(n) ==
    /\ runRequests[n].step = "summary"
    /\ runRequests' = [runRequests EXCEPT
           ![n] = [@ EXCEPT !.step = "runs", !.filter = filter, !.limit = PollLimit]]
    /\ UNCHANGED <<runTable, filter, runList, pollTimer, openRun, imported, right>>

(* listRuns(), and a run more to know whether there is more.               *)
Matching(f) == { id \in DOMAIN runTable : f = "all" \/ runTable[id] }
Listing(f) ==
    LET ids == Matching(f)
    IN  [i \in 1 .. Cardinality(ids) |->
            LET id == CHOOSE x \in ids : Cardinality({ y \in ids : y > x }) = i - 1
            IN  [id |-> id, active |-> runTable[id]]]
LesserOf(a, b) == IF a < b THEN a ELSE b
Fetched(r) == SubSeq(Listing(r.filter), r.offset + 1,
                     LesserOf(r.offset + r.limit, Len(Listing(r.filter))))

TakeRuns(n) ==
    LET r == runRequests[n] IN
    /\ r.step = "runs"
    /\ runs' = IF r.kind = "append" THEN runs \o Fetched(r) ELSE Fetched(r)
    /\ runsHasMore' = (Len(Listing(r.filter)) > r.offset + r.limit)
    /\ runRequests' = [runRequests EXCEPT ![n].step = "issues"]
    /\ right' = IF ~r.alone \/ r.kind = "append" THEN NotKnown ELSE
                    [known |-> FALSE, read |-> Listing(r.filter),
                     atLeast |-> IF r.kind = "poll" THEN Len(runs) ELSE RunsPage]
    /\ UNCHANGED <<runTable, filter, loadingOlderRuns, pollTimer, openRun, imported>>

(* What all requests do with the run that is open: it is found again in    *)
(* the list, or closed. Mutant: it is left open as it is.                  *)
KeptOpen == openRun
FoundAgain ==
    IF openRun # NoneOpen /\ \E i \in DOMAIN runs : runs[i].id = openRun.id
    THEN LET first == CHOOSE i \in DOMAIN runs :
                 /\ runs[i].id = openRun.id
                 /\ \A j \in 1 .. i - 1 : runs[j].id # openRun.id
         IN  runs[first]
    ELSE NoneOpen

ActiveShown == \E i \in DOMAIN runs : runs[i].active

(* mergeRunIssues() is done. A poll stops the polling, it never starts it. *)
EndRequest(n) ==
    LET r == runRequests[n] IN
    /\ r.step = "issues"
    /\ openRun' = FoundAgain
    /\ pollTimer' = IF r.kind = "poll" THEN pollTimer /\ ActiveShown ELSE ActiveShown
    /\ loadingOlderRuns' = IF r.kind = "poll" THEN loadingOlderRuns ELSE FALSE
    /\ runRequests' = [runRequests EXCEPT ![n] = NoRequest]
    /\ right' = IF ~r.alone \/ r.kind = "append" THEN NotKnown
                ELSE [right EXCEPT !.known = TRUE]
    /\ UNCHANGED <<runTable, filter, runs, runsHasMore, imported>>

(* A call fails: the list stays as it is by then.                          *)
RequestFails(n) ==
    LET r == runRequests[n] IN
    /\ r.step \in {"summary", "runs", "issues"}
    /\ loadingOlderRuns' = IF r.kind = "poll" THEN loadingOlderRuns ELSE FALSE
    /\ runRequests' = [runRequests EXCEPT ![n] = NoRequest]
    /\ right' = NotKnown
    /\ UNCHANGED <<runTable, filter, runs, runsHasMore, pollTimer, openRun, imported>>

OpenDetail(i) ==
    /\ i \in DOMAIN runs
    /\ openRun' = runs[i]
    /\ UNCHANGED <<runTable, filter, runList, pollTimer, runRequests, imported, right>>
CloseDetail ==
    /\ openRun # NoneOpen
    /\ openRun' = NoneOpen
    /\ UNCHANGED <<runTable, filter, runList, pollTimer, runRequests, imported, right>>

(* startImport(): the run the server answers with goes on top of the list  *)
(* at once, and the list is loaded again.                                  *)
StartImport(n) ==
    /\ imported < MaxImported /\ imported' = imported + 1
    /\ Begin(n, [NoRequest EXCEPT !.kind = "import", !.step = "posted"])
    /\ UNCHANGED <<runTable, filter, runList, pollTimer, openRun>>

ImportAccepted(n) ==
    /\ runRequests[n].step = "posted" /\ Len(runTable) < MaxAdminRuns
    /\ runTable' = Append(runTable, TRUE)
    /\ runs' = <<[id |-> Len(runTable'), active |-> TRUE]>> \o runs
    /\ pollTimer' = TRUE
    /\ runRequests' = [runRequests EXCEPT
           ![n] = [Replacing(filter) EXCEPT !.alone = runRequests[n].alone]]
    /\ UNCHANGED <<filter, runsHasMore, loadingOlderRuns, openRun, imported, right>>

ImportRefused(n) ==
    /\ runRequests[n].step = "posted"
    /\ runRequests' = [runRequests EXCEPT ![n] = NoRequest]
    /\ UNCHANGED <<runTable, filter, runList, pollTimer, openRun, imported, right>>

AdminPageNext ==
    \/ RunQueued \/ CloseDetail
    \/ \E id \in 1 .. MaxAdminRuns : RunSettled(id)
    \/ \E i \in 1 .. MaxAdminRuns : OpenDetail(i)
    \/ \E n \in RequestNumbers :
          \/ Refresh(n) \/ LoadOlder(n) \/ Poll(n) \/ Summarised(n)
          \/ TakeRuns(n) \/ EndRequest(n)
          \/ RequestFails(n) \/ StartImport(n) \/ ImportAccepted(n) \/ ImportRefused(n)
          \/ \E f \in AdminFilters : ChangeFilter(n, f)

AdminPageSpec == AdminPageInit /\ [][AdminPageNext]_adminPageVars
-----------------------------------------------------------------------------
(* A request from the top of the list that has the page to itself, and     *)
(* does not fail, puts the page right whatever races went before: the list *)
(* is the newest runs of the filter, each once, a page of them or, polled, *)
(* as many as were listed; it says whether there are more, the run that is *)
(* open is one of them, and while one of them is active the page is        *)
(* polled.                                                                 *)
AlonePutsRight ==
    right.known =>
        /\ runs = SubSeq(right.read, 1, Len(runs)) /\ Len(runs) <= Len(right.read)
        /\ Len(runs) >= LesserOf(right.atLeast, Len(right.read))
        /\ runsHasMore <=> Len(runs) < Len(right.read)
        /\ openRun # NoneOpen => \E i \in DOMAIN runs : runs[i] = openRun
        /\ pollTimer <=> ActiveShown
=============================================================================
