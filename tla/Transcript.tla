------------------------------ MODULE Transcript ------------------------------
(***************************************************************************)
(* How the spoken word of a recording becomes a text to read: the cues of  *)
(* the subtitles are merged into segments (src/recordings/transcript.ts),  *)
(* the agenda items that were on camera become chapters                    *)
(* (src/notubiz/recordings.ts), and the player writes the chapters between *)
(* the segments as headings (web/src/MeetingRecordingPlayer.svelte). One   *)
(* step takes one cue, or writes one row.                                  *)
(*                                                                         *)
(* Times are in seconds; -1 stands for one that is not given.              *)
(***************************************************************************)
EXTENDS Integers, Sequences, FiniteSets

CONSTANTS BlockLists,     (* of subtitles: [start, end, said], said: any   *)
                          (* text is left of it                            *)
          SpeakerLists,   (* sequences of speakers [from, to, name]        *)
          Agendas,        (* sequences of items [start, end], as offsets   *)
          TargetSeconds,  (* DEFAULT_TARGET_SECONDS                        *)
          MaxGap          (* DEFAULT_GAP_SECONDS                           *)

Seconds == Nat \cup {-1}
ASSUME TranscriptAssumption ==
    /\ TargetSeconds \in Nat \ {0} /\ MaxGap \in Nat \ {0}
    /\ BlockLists \subseteq Seq([start: Seconds, end: Seconds, said: BOOLEAN])
    /\ Agendas \subseteq Seq([start: Seconds, end: Seconds])

VARIABLES
    cues, speakers, agenda,   (* what the supplier publishes               *)
    taken,        (* cues taken so far                                     *)
    segments,     (* of each its times, its speaker and its cues           *)
    nextChapter,  (* the first chapter without a heading                   *)
    written       (* the rows of the player: chapters and segments         *)

transcriptVars == <<cues, speakers, agenda, taken, segments, nextChapter, written>>
publishedVars == <<cues, speakers, agenda>>

TranscriptTypeOK ==
    /\ taken \in 0 .. Len(cues) /\ Len(segments) <= taken
    /\ \A k \in DOMAIN segments :
          segments[k].from \in Nat /\ segments[k].cues \in Seq(1 .. taken)
    /\ nextChapter \in 1 .. Len(agenda) + 1
    /\ written \in Seq([kind: {"chapter", "segment"}, at: Nat])

(* parseTranscriptCues(): headers and blocks without a text are no cues.    *)
CueOf(b) == [start |-> b.start, end |-> IF b.end > b.start THEN b.end ELSE b.start]
ParseTranscriptCues(blocks) ==
    LET kept == { i \in DOMAIN blocks :
                    blocks[i].start # -1 /\ blocks[i].end # -1 /\ blocks[i].said }
    IN  [ n \in 1 .. Cardinality(kept) |->
            CueOf(blocks[CHOOSE i \in kept : Cardinality({ j \in kept : j <= i }) = n]) ]

TranscriptInit ==
    /\ cues \in { ParseTranscriptCues(blocks) : blocks \in BlockLists }
    /\ speakers \in SpeakerLists /\ agenda \in Agendas
    /\ taken = 0 /\ segments = <<>> /\ nextChapter = 1 /\ written = <<>>
-----------------------------------------------------------------------------
(* speakerAt(): the first of those who may be speaking.                    *)
SpeakerAt(second) ==
    LET may == { i \in DOMAIN speakers :
                   /\ second >= speakers[i].from
                   /\ speakers[i].to = -1 \/ second < speakers[i].to }
    IN  IF may = {} THEN "unknown"
        ELSE speakers[CHOOSE i \in may : \A j \in may : i <= j].name

(* Where buildSegments() cuts. Mutant: whoever is speaking.                *)
CutByTime(segment, cue) ==
    \/ cue.end - segment.from >= TargetSeconds
    \/ cue.start - segment.to >= MaxGap
Cut(segment, cue) ==
    CutByTime(segment, cue) \/ SpeakerAt(cue.start) # segment.speaker

TakeCue ==
    /\ taken < Len(cues)
    /\ LET cue == cues[taken + 1]
           last == Len(segments)
       IN  segments' =
             IF last = 0 \/ Cut(segments[last], cue)
             THEN Append(segments, [from |-> cue.start, to |-> cue.end,
                                    speaker |-> SpeakerAt(cue.start),
                                    cues |-> <<taken + 1>>])
             ELSE [segments EXCEPT ![last].to = cue.end,
                                   ![last].cues = Append(@, taken + 1)]
    /\ taken' = taken + 1
    /\ UNCHANGED <<publishedVars, nextChapter, written>>
-----------------------------------------------------------------------------
(* notubizChapters(): the items that were played, in the order they were;  *)
(* those that begin together keep the order of the agenda.                 *)
Played ==
    { i \in DOMAIN agenda :
        agenda[i].start # -1 /\ (agenda[i].end = -1 \/ agenda[i].end > agenda[i].start) }
Before(i, j) ==
    agenda[i].start < agenda[j].start \/ (agenda[i].start = agenda[j].start /\ i <= j)
Chapters ==
    [n \in 1 .. Cardinality(Played) |->
        CHOOSE i \in Played : Cardinality({ j \in Played : Before(j, i) }) = n]

(* withChapterHeadings(): before each segment the chapters that began by   *)
(* then, after the last one those that are left. Mutant: those are not     *)
(* written.                                                                *)
Row(kind, at) == [kind |-> kind, at |-> at]
SegmentsWritten == Cardinality({ r \in DOMAIN written : written[r].kind = "segment" })
BegunBy(at, n) == n <= Len(Chapters) /\ agenda[Chapters[n]].start <= at
LeftUnwritten(n) == FALSE
Left(n) == n <= Len(Chapters)

HeadingIsNext ==
    IF SegmentsWritten < Len(segments)
    THEN BegunBy(segments[SegmentsWritten + 1].from, nextChapter)
    ELSE Left(nextChapter)

WriteHeading ==
    /\ taken = Len(cues) /\ HeadingIsNext
    /\ written' = Append(written, Row("chapter", nextChapter))
    /\ nextChapter' = nextChapter + 1
    /\ UNCHANGED <<publishedVars, taken, segments>>

WriteSegment ==
    /\ taken = Len(cues) /\ SegmentsWritten < Len(segments)
    /\ ~HeadingIsNext
    /\ written' = Append(written, Row("segment", SegmentsWritten + 1))
    /\ UNCHANGED <<publishedVars, taken, segments, nextChapter>>

TranscriptNext == TakeCue \/ WriteHeading \/ WriteSegment

TranscriptSpec == TranscriptInit /\ [][TranscriptNext]_transcriptVars
-----------------------------------------------------------------------------
(* No word is lost, said twice or moved, and no segment puts the words of  *)
(* one speaker in the mouth of another, runs over a silence, or is longer  *)
(* than a segment should be unless one cue is. When all is written, every  *)
(* segment and every item that was played is there once, in its order, and *)
(* words are under the item that was being discussed.                      *)
TakenUpTo(k) ==
    Cardinality(UNION { { <<m, n>> : n \in DOMAIN segments[m].cues } : m \in 1 .. k })
AllWritten ==
    taken = Len(cues) /\ SegmentsWritten = Len(segments) /\ ~HeadingIsNext

WordsStayWithTheirSpeaker ==
    /\ TakenUpTo(Len(segments)) = taken
    /\ \A k \in DOMAIN segments : \A n \in DOMAIN segments[k].cues :
          LET c == segments[k].cues[n]
          IN  /\ c = TakenUpTo(k - 1) + n
              /\ SpeakerAt(cues[c].start) = segments[k].speaker
              /\ n > 1 => /\ cues[c].start - cues[c - 1].end < MaxGap
                          /\ cues[c].end - segments[k].from < TargetSeconds
    /\ AllWritten =>
          /\ \A n \in DOMAIN Chapters :
                Cardinality({ r \in DOMAIN written : written[r] = Row("chapter", n) }) = 1
          /\ \A r \in DOMAIN written : written[r].kind = "segment" =>
                LET above == { n \in DOMAIN Chapters :
                                 \E q \in 1 .. r : written[q] = Row("chapter", n) }
                    from == segments[written[r].at].from
                IN  (\A k \in 2 .. Len(segments) : segments[k - 1].from <= segments[k].from)
                        => above = { n \in DOMAIN Chapters :
                                       agenda[Chapters[n]].start <= from }
=============================================================================
