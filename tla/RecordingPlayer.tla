---------------------------- MODULE RecordingPlayer ----------------------------
(***************************************************************************)
(* The player of a recording on the page of a meeting                      *)
(* (web/src/MeetingRecordingPlayer.svelte): a video that has no timeline   *)
(* to jump in until its stream is loaded, jumps asked for from the agenda, *)
(* the transcript and the find bar, and a find bar that opens by itself on *)
(* the term the reader searched the site for.                              *)
(*                                                                         *)
(* The term of the find bar is one of Terms; HitsIn says how often each is *)
(* said in each segment. A segment is also the time it begins at.          *)
(***************************************************************************)
EXTENDS Integers, Sequences, FiniteSets, FiniteSetsExt

CONSTANTS Terms, NoTerm,   (* NoTerm: nothing is looked for                *)
          HitsIn           (* of each term, its hits in each segment       *)

ASSUME RecordingPlayerAssumption ==
    /\ NoTerm \notin Terms /\ DOMAIN HitsIn = Terms
    /\ \A t \in Terms : HitsIn[t] \in Seq(Nat) /\ HitsIn[t] # <<>>
    /\ \A t, u \in Terms : Len(HitsIn[t]) = Len(HitsIn[u])

VARIABLES
    medium,       (* what the video element plays                          *)
    timeline,     (* whether the element has metadata                      *)
    pendingSeek,  (* the jump that is held: where to, and whether to play  *)
    playhead, playing,
    incoming,     (* initialQuery                                          *)
    primedFor,    (* the incoming query the find bar was primed for        *)
    priming,      (* primeOnce() calls that wait for a tick                *)
    findBar,      (* query, searchOpen, activeMatch                        *)
    asked,        (* history: the latest jump since which nothing was      *)
                  (* played                                                *)
    dismissed     (* history: the reader closed the find bar it opened on  *)
                  (* the incoming query                                    *)

playerVars == <<medium, timeline, pendingSeek, playhead, playing, incoming, primedFor,
                priming, findBar, asked, dismissed>>
videoVars == <<medium, timeline, pendingSeek, playhead, playing, asked>>
primeVars == <<incoming, primedFor, priming>>

FindQueries == Terms \cup {NoTerm}
SegmentsOf == 1 .. Len(HitsIn[CHOOSE t \in Terms : TRUE])
NoJump == [to |-> 0, play |-> FALSE]
Hits(t, upTo) == IF t = NoTerm THEN 0 ELSE MapThenSumSet(LAMBDA k : HitsIn[t][k], 1 .. upTo)
MatchCount(t) == Hits(t, Cardinality(SegmentsOf))

PlayerTypeOK ==
    /\ medium \in {"none", "importing", "stream", "file"} /\ timeline \in BOOLEAN
    /\ pendingSeek \in [to: {0} \cup SegmentsOf, play: BOOLEAN]
    /\ playhead \in {0} \cup SegmentsOf /\ playing \in BOOLEAN
    /\ incoming \in FindQueries /\ primedFor \in FindQueries \cup {"never"}
    /\ priming \in Seq(FindQueries)
    /\ findBar.open \in BOOLEAN /\ findBar.query \in FindQueries /\ findBar.match \in Nat
    /\ asked \in {0} \cup SegmentsOf /\ dismissed \in BOOLEAN

(* The reader opens a meeting. A browser plays the stream by itself or     *)
(* needs hls.js; a recording may have no stream.                           *)
PlayerInit ==
    /\ medium \in {"file", "stream", "importing"} /\ timeline = FALSE
    /\ pendingSeek = NoJump /\ playhead = 0 /\ playing = FALSE
    /\ incoming \in FindQueries /\ primedFor = incoming /\ priming = <<incoming>>
    /\ findBar = [open |-> FALSE, query |-> NoTerm, match |-> 0]
    /\ asked = 0 /\ dismissed = FALSE
-----------------------------------------------------------------------------
(* attach(), once hls.js is there.                                         *)
LibraryArrives(supported) ==
    /\ medium = "importing"
    /\ medium' = IF supported THEN "stream" ELSE "file"
    /\ UNCHANGED <<timeline, pendingSeek, playhead, playing, asked, primeVars, findBar,
                   dismissed>>

(* moveTo(): a jump is held until there is a timeline. Mutant: it is       *)
(* dropped then, as the element would.                                     *)
HeldNot(jump) == NoJump
Held(jump) == jump

MoveTo(k, play) ==
    /\ asked' = k
    /\ IF timeline
       THEN /\ pendingSeek' = NoJump /\ playhead' = k /\ playing' = (playing \/ play)
       ELSE /\ pendingSeek' = Held([to |-> k, play |-> play])
            /\ UNCHANGED <<playhead, playing>>
    /\ UNCHANGED <<medium, timeline>>

(* applyPendingSeek()                                                      *)
MetadataLoads ==
    /\ medium \in {"stream", "file"} /\ ~timeline /\ timeline' = TRUE
    /\ pendingSeek' = NoJump
    /\ IF pendingSeek # NoJump
       THEN playhead' = pendingSeek.to /\ playing' = (playing \/ pendingSeek.play)
       ELSE UNCHANGED <<playhead, playing>>
    /\ UNCHANGED <<medium, asked, primeVars, findBar, dismissed>>

(* seek(): a heading, a segment or an item of the agenda.                  *)
Seek(k) == MoveTo(k, TRUE) /\ UNCHANGED <<primeVars, findBar, dismissed>>

(* Playing, or moving the playhead by the controls of the element.         *)
PlayOn(k) ==
    /\ timeline /\ playhead' = k /\ asked' = 0 /\ playing' \in BOOLEAN
    /\ UNCHANGED <<medium, timeline, pendingSeek, primeVars, findBar, dismissed>>
-----------------------------------------------------------------------------
(* primeOnce(), for each pair of recording and query once. Mutant: at      *)
(* every rendering.                                                        *)
AnyQuery(query) == TRUE
NewQuery(query) == primedFor # query
PrimeOnce(query) ==
    IF NewQuery(query)
    THEN primedFor' = query /\ priming' = Append(priming, query)
    ELSE UNCHANGED <<primedFor, priming>>

Rerender ==
    /\ PrimeOnce(incoming)
    /\ UNCHANGED <<videoVars, incoming, findBar, dismissed>>

(* The reader searches the site for something else.                        *)
SearchSite(query) ==
    /\ query # incoming /\ incoming' = query /\ dismissed' = FALSE
    /\ PrimeOnce(query)
    /\ UNCHANGED <<videoVars, findBar>>

(* The segment hit m of t is in: segmentOfMatch().                         *)
SegmentOfMatch(t, m) ==
    CHOOSE k \in SegmentsOf :
        HitsIn[t][k] > 0 /\ Hits(t, k - 1) <= m /\ m < Hits(t, k - 1) + HitsIn[t][k]

(* primeFromQuery(), a tick later.                                         *)
Prime ==
    /\ priming # <<>> /\ priming' = Tail(priming)
    /\ LET query == Head(priming) IN
       IF MatchCount(query) = 0
       THEN UNCHANGED <<videoVars, findBar>>
       ELSE /\ findBar' = [open |-> TRUE, query |-> query, match |-> 0]
            /\ MoveTo(SegmentOfMatch(query, 0), FALSE)
    /\ UNCHANGED <<incoming, primedFor, dismissed>>

OpenSearch ==
    /\ priming = <<>> /\ ~findBar.open
    /\ findBar' = [findBar EXCEPT !.open = TRUE] /\ dismissed' = FALSE
    /\ UNCHANGED <<videoVars, primeVars>>

CloseSearch ==
    /\ priming = <<>> /\ findBar.open
    /\ findBar' = [open |-> FALSE, query |-> NoTerm, match |-> 0]
    /\ dismissed' = TRUE
    /\ UNCHANGED <<videoVars, primeVars>>

(* A hit that is not there any more: the first one. Mutant: the number is  *)
(* left as it is.                                                          *)
MatchKept(match, query) == match
MatchWithin(match, query) == IF match >= MatchCount(query) THEN 0 ELSE match

TypeTerm(query) ==
    /\ priming = <<>> /\ findBar.open /\ query # findBar.query
    /\ findBar' = [findBar EXCEPT !.query = query, !.match = MatchWithin(@, query)]
    /\ UNCHANGED <<videoVars, primeVars, dismissed>>

StepMatch(delta) ==
    /\ priming = <<>> /\ findBar.open /\ MatchCount(findBar.query) > 0
    /\ LET count == MatchCount(findBar.query)
           match == (findBar.match + delta + count) % count
       IN  /\ findBar' = [findBar EXCEPT !.match = match]
           /\ MoveTo(SegmentOfMatch(findBar.query, match), FALSE)
    /\ UNCHANGED <<primeVars, dismissed>>

PlayerNext ==
    \/ MetadataLoads \/ Rerender \/ Prime \/ OpenSearch \/ CloseSearch
    \/ \E supported \in BOOLEAN : LibraryArrives(supported)
    \/ \E k \in SegmentsOf : priming = <<>> /\ (Seek(k) \/ PlayOn(k))
    \/ \E query \in FindQueries : TypeTerm(query) \/ (priming = <<>> /\ SearchSite(query))
    \/ \E delta \in {-1, 1} : StepMatch(delta)

PlayerSpec == PlayerInit /\ [][PlayerNext]_playerVars
-----------------------------------------------------------------------------
(* The last jump that was asked for is where the video is, or will be when *)
(* it has a timeline; the counter of the find bar names a hit that exists; *)
(* and a find bar the reader closed stays closed until the reader opens it *)
(* or searches the site for something else.                                *)
JumpsLand ==
    /\ asked # 0 => IF timeline THEN playhead = asked ELSE pendingSeek.to = asked
    /\ timeline => pendingSeek = NoJump
    /\ findBar.match < MatchCount(findBar.query)
       \/ (findBar.match = 0 /\ MatchCount(findBar.query) = 0)
    /\ dismissed => ~findBar.open
=============================================================================
