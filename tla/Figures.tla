-------------------------------- MODULE Figures --------------------------------
(***************************************************************************)
(* What the web process remembers of the index, in memory: the figures of  *)
(* the home page (web/search_api.ts, getIndexStats), kept on disk too for  *)
(* the next process; the rows per result of a query, for the estimate of   *)
(* how many results there are; and whether a document has a preview.       *)
(* The index changes all the time, the process is restarted several times  *)
(* a day, and several requests ask at once.                                *)
(*                                                                         *)
(* A figure is the time at which it was true; for the home page, 0 stands  *)
(* for the figures of an index that is not there.                          *)
(***************************************************************************)
EXTENDS Integers, Sequences, FiniteSets

CONSTANTS Asked,        (* queries, and documents with a preview           *)
          StatsTTL, RatioTTL, PreviewTTL,
          RatioMax,     (* RATIO_CACHE_MAX                                 *)
          LastMoment    (* bound: the time                                 *)

ASSUME FiguresAssumption ==
    /\ StatsTTL \in Nat /\ RatioTTL \in Nat /\ PreviewTTL \in Nat
    /\ RatioMax \in Nat \ {0} /\ LastMoment \in Nat \ {0}

VARIABLES
    moment,       (* the time                                              *)
    started,      (* when this process began                               *)
    statsFile,    (* the copy on disk, 0 for none that can be read         *)
    cachedStats,
    statsInFlight,   (* whether they are being computed, for how many      *)
    persisting,   (* the copy being written, 0 for none                    *)
    ratioCache,   (* oldest first                                          *)
    sampling,     (* samples under way: the query and when it began        *)
    previews,     (* previewUrlCache: a promise, maybe answered            *)
    shown         (* what was shown last                                   *)

figuresVars == <<moment, started, statsFile, cachedStats, statsInFlight, persisting,
                 ratioCache, sampling, previews, shown>>
processVars == <<cachedStats, statsInFlight, persisting, ratioCache, sampling,
                 previews>>

Moments == 1 .. LastMoment
NoFigure == [at |-> 0, expiresAt |-> 0]
NoShown == [what |-> "nothing", at |-> 0, when |-> 0]

FiguresTypeOK ==
    /\ moment \in Moments /\ started \in Moments
    /\ statsFile \in 0 .. LastMoment
    /\ cachedStats.at \in 0 .. LastMoment /\ persisting \in 0 .. LastMoment
    /\ statsInFlight \in [computing : BOOLEAN, waits : BOOLEAN]
    /\ \A i \in DOMAIN ratioCache :
          ratioCache[i].query \in Asked /\ ratioCache[i].at \in Moments
    /\ sampling \subseteq Asked \X Moments
    /\ shown.what \in {"nothing", "stats", "disk", "ratio", "preview"}

(* loadPersistedStats(): a copy counts as fresh, however old it is.        *)
Loaded(file) ==
    IF file # 0 THEN [at |-> file, expiresAt |-> moment + StatsTTL] ELSE NoFigure

FiguresInit ==
    /\ moment = 1 /\ started = 1 /\ statsFile = 0
    /\ cachedStats = NoFigure
    /\ statsInFlight = [computing |-> TRUE, waits |-> FALSE]
    /\ persisting = 0 /\ ratioCache = <<>> /\ sampling = {}
    /\ previews = [d \in {} |-> 0]
    /\ shown = NoShown

TimePasses ==
    /\ moment < LastMoment /\ moment' = moment + 1
    /\ UNCHANGED <<started, statsFile, processVars, shown>>

(* A deploy, or a crash, which may tear the copy being written;            *)
(* startStatsRefreshLoop() of the next process.                            *)
RestartWeb ==
    /\ started' = moment
    /\ statsFile' \in {statsFile} \cup (IF persisting # 0 THEN {0} ELSE {})
    /\ cachedStats' = Loaded(statsFile')
    /\ statsInFlight' = [computing |-> TRUE, waits |-> FALSE]
    /\ persisting' = 0 /\ ratioCache' = <<>> /\ sampling' = {}
    /\ previews' = [d \in {} |-> 0]
    /\ UNCHANGED <<moment, shown>>
-----------------------------------------------------------------------------
(* refreshStats() by the timer: one computation at a time.                 *)
RefreshTimer ==
    /\ ~statsInFlight.computing
    /\ statsInFlight' = [statsInFlight EXCEPT !.computing = TRUE]
    /\ UNCHANGED <<moment, started, statsFile, cachedStats, persisting, ratioCache,
                   sampling,
                   previews, shown>>

(* getIndexStats(). Mutant: what is remembered is shown for ever.          *)
AnyCached == cachedStats.at # 0
FreshCached == cachedStats.at # 0 /\ moment < cachedStats.expiresAt

AskStats ==
    /\ IF FreshCached
       THEN /\ shown' = [what |-> IF cachedStats.at < started THEN "disk" ELSE "stats",
                         at |-> cachedStats.at, when |-> moment]
            /\ UNCHANGED statsInFlight
       ELSE /\ statsInFlight' = [computing |-> TRUE, waits |-> TRUE]
            /\ UNCHANGED shown
    /\ UNCHANGED <<moment, started, statsFile, cachedStats, persisting, ratioCache,
                   sampling,
                   previews>>

(* computeIndexStats() ends with figures, without an index, or fails;      *)
(* whoever waits is given the same. An empty index is not remembered.      *)
StatsComputed(found) ==
    /\ statsInFlight.computing
    /\ statsInFlight' = [computing |-> FALSE, waits |-> FALSE]
    /\ cachedStats' = IF found THEN [at |-> moment, expiresAt |-> moment + StatsTTL]
                      ELSE cachedStats
    /\ persisting' = IF found THEN moment ELSE persisting
    /\ shown' = IF statsInFlight.waits
                THEN [what |-> "stats", when |-> moment,
                      at |-> IF found THEN moment ELSE 0]
                ELSE shown
    /\ UNCHANGED <<moment, started, statsFile, ratioCache, sampling, previews>>

StatsFail ==
    /\ statsInFlight.computing
    /\ statsInFlight' = [computing |-> FALSE, waits |-> FALSE]
    /\ UNCHANGED <<moment, started, statsFile, cachedStats, persisting, ratioCache,
                   sampling,
                   previews, shown>>

(* persistStats(): best effort.                                            *)
StatsPersisted(written) ==
    /\ persisting # 0 /\ persisting' = 0
    /\ statsFile' = IF written THEN persisting ELSE statsFile
    /\ UNCHANGED <<moment, started, cachedStats, statsInFlight, ratioCache, sampling,
                   previews, shown>>
-----------------------------------------------------------------------------
(* sampledRowsPerResult(). Two searches may sample one query at once.      *)
Remembered(q) == { i \in DOMAIN ratioCache : ratioCache[i].query = q }
FreshRatios(q) == { i \in Remembered(q) : ratioCache[i].expiresAt > moment }

AskRatio(q) ==
    /\ IF FreshRatios(q) # {}
       THEN /\ shown' = [what |-> "ratio", when |-> moment,
                         at |-> ratioCache[CHOOSE i \in FreshRatios(q) : TRUE].at]
            /\ UNCHANGED sampling
       ELSE /\ sampling' = sampling \cup {<<q, moment>>}
            /\ UNCHANGED shown
    /\ UNCHANGED <<moment, started, statsFile, cachedStats, statsInFlight, persisting,
                   ratioCache, previews>>

(* The oldest makes room. A query that is there keeps its place in line.   *)
(* Mutant: nothing makes room.                                             *)
NoRoomMade(cache) == cache
RoomMade(cache) == IF Len(cache) >= RatioMax THEN Tail(cache) ELSE cache

SetRatio(cache, entry) ==
    IF \E i \in DOMAIN cache : cache[i].query = entry.query
    THEN [i \in DOMAIN cache |->
             IF cache[i].query = entry.query THEN entry ELSE cache[i]]
    ELSE Append(cache, entry)

(* The sample is of the index as it was when it was asked for.             *)
SampleTaken(s) ==
    /\ s \in sampling /\ sampling' = sampling \ {s}
    /\ ratioCache' = SetRatio(RoomMade(ratioCache),
           [query |-> s[1], at |-> s[2], expiresAt |-> s[2] + RatioTTL])
    /\ shown' = [what |-> "ratio", at |-> s[2], when |-> s[2]]
    /\ UNCHANGED <<moment, started, statsFile, cachedStats, statsInFlight, persisting,
                   previews>>

SampleFails(s) ==
    /\ s \in sampling /\ sampling' = sampling \ {s}
    /\ UNCHANGED <<moment, started, statsFile, cachedStats, statsInFlight, persisting,
                   ratioCache,
                   previews, shown>>
-----------------------------------------------------------------------------
(* cachedPublicPreviewUrl(): the promise is remembered before it is kept,  *)
(* and a preview that is not there or not there in time as one that is.    *)
AskPreview(d, there) ==
    LET kept == d \in DOMAIN previews /\ previews[d].expiresAt > moment
        promise == IF kept THEN previews[d]
                   ELSE [at |-> moment, there |-> there,
                         expiresAt |-> moment + PreviewTTL]
    IN  /\ previews' = [x \in DOMAIN previews \cup {d} |->
                           IF x = d THEN promise ELSE previews[x]]
        /\ shown' = [what |-> "preview", at |-> promise.at, when |-> moment]
        /\ UNCHANGED <<moment, started, statsFile, cachedStats, statsInFlight,
                       persisting,
                       ratioCache, sampling>>

(* The three share nothing but the time and the process, and are checked   *)
(* one at a time.                                                          *)
StatsNext ==
    \/ TimePasses \/ RestartWeb \/ RefreshTimer \/ AskStats \/ StatsFail
    \/ \E b \in BOOLEAN : StatsComputed(b) \/ StatsPersisted(b)

RatioNext ==
    \/ TimePasses \/ RestartWeb
    \/ \E q \in Asked : AskRatio(q)
    \/ \E s \in Asked \X Moments : SampleTaken(s) \/ SampleFails(s)

PreviewNext ==
    \/ TimePasses \/ RestartWeb
    \/ \E d \in Asked, b \in BOOLEAN : AskPreview(d, b)

FiguresNext == StatsNext \/ RatioNext \/ PreviewNext

FiguresSpec == FiguresInit /\ [][FiguresNext]_figuresVars
-----------------------------------------------------------------------------
(* Nothing is shown for longer than it is remembered: the figures of the   *)
(* home page were true within the last half hour, or are from the disk of  *)
(* a process that began within it; and what is remembered of the queries   *)
(* is bounded, whatever is sampled at once.                                *)
FiguresAreRecent ==
    /\ shown.what = "stats" => shown.at = 0 \/ shown.when - shown.at <= StatsTTL
    /\ shown.what = "disk" => shown.when - started <= StatsTTL \/ shown.when < started
    /\ shown.what = "ratio" => shown.when - shown.at <= RatioTTL
    /\ shown.what = "preview" => shown.when - shown.at <= PreviewTTL
    /\ Len(ratioCache) <= RatioMax
    /\ Cardinality({ ratioCache[i].query : i \in DOMAIN ratioCache }) = Len(ratioCache)
=============================================================================
