----------------------------- MODULE EntityDetail -----------------------------
(***************************************************************************)
(* One answer of /api/entities/{id} (web/server.ts): getEntityContent()    *)
(* (web/search_api.ts) reads the entity, its text, for a meeting also its  *)
(* agenda, its motions with the links of their attachments and its         *)
(* recordings with their transcripts, and for a motion the text of its     *)
(* attachment, in as many requests to the index, object storage and the    *)
(* supplier. Each may fail, and imports, takedowns and purges go on in     *)
(* between.                                                                *)
(*                                                                         *)
(* A meeting with one motion and one recording; the motion has a document  *)
(* attached. An import of what changed adds a row for an entity (of all    *)
(* but the document one is enough), or for another motion, recording or    *)
(* attachment of the meeting; a takedown of a document adds a newer        *)
(* marker; a purge empties all.                                            *)
(*                                                                         *)
(* The index is asked for so many rows, in no order: when there are more,  *)
(* any of them may be the answer, and the newest of those is taken.        *)
(***************************************************************************)
EXTENDS Integers, Sequences, FiniteSets

CONSTANTS RowsAsked,    (* rows each read asks the index for: 8 of an      *)
                        (* entity, 100 of motions, 3 for each of their     *)
                        (* attachments, 20 of recordings                   *)
          MaxIndexRows, (* bound: rows of an entity                        *)
          MaxOthers     (* bound: rows of others in a list                 *)

Lists == {"motions", "attachments", "recordings"}
Reads == Lists \cup {"entity"}

ASSUME EntityDetailAssumption ==
    MaxIndexRows \in Nat \ {0} /\ MaxOthers \in Nat /\ RowsAsked \in [Reads -> Nat \ {0}]

VARIABLES
    copies,      (* the rows of each entity, oldest first: live or marker  *)
    beside,      (* the rows of other entities that a list may answer      *)
    objectsKept, (* the objects that are there                             *)
    reply,       (* what the request has so far                            *)
    wasThere, wasGone, (* history: what was there, and what was not, at    *)
    hadRows,           (* some time since the request began; what had live *)
    hadMore            (* rows; what had more rows than a read asks for    *)

worldVars == <<copies, beside, objectsKept>>
historyVars == <<wasThere, wasGone, hadRows, hadMore>>
entityDetailVars == <<worldVars, reply, historyVars>>

Entities == {"meeting", "motion", "recording", "document"}
Texts == {"text", "transcript"}
Parts == Entities \cup Texts \cup {"agenda"}
Unasked == [asked |-> "none", step |-> "idle", own |-> FALSE,
            shown |-> {}, failed |-> {}]
MeetingSteps ==
    {"read", "agenda", "motions", "attachments", "recordings", "transcripts"}
DetailEnded == {"idle", "answered", "not_found", "gone", "failed"}

EntityDetailTypeOK ==
    /\ copies \in [Entities -> Seq(BOOLEAN)]
    /\ \A e \in Entities : Len(copies[e]) <= MaxIndexRows
    /\ beside \in 0 .. MaxOthers
    /\ objectsKept \subseteq Texts
    /\ reply \in [asked: Entities \cup {"none"},
                  step: DetailEnded \cup MeetingSteps \cup {"text", "attachment", "end"},
                  own: BOOLEAN, shown: SUBSET Parts, failed: SUBSET Parts]
    /\ wasThere \subseteq Entities \cup Texts /\ wasGone \subseteq Entities \cup Texts
    /\ hadRows \subseteq Entities /\ hadMore \subseteq Entities

Newest(e) == copies[e] # <<>> /\ copies[e][Len(copies[e])]

(* The rows of an entity that may be among the answer to a read: all, or   *)
(* as many as are asked for less those of others.                          *)
Others(read) == IF read = "entity" THEN 0 ELSE beside
InFullAnswer(e, read) == Len(copies[e]) + Others(read) <= RowsAsked[read]
RowsFound(e, read) ==
    { rows \in SUBSET DOMAIN copies[e] :
        IF InFullAnswer(e, read)
        THEN rows = DOMAIN copies[e]
        ELSE /\ Cardinality(rows) <= RowsAsked[read]
             /\ Cardinality(rows) + Others(read) >= RowsAsked[read] }

(* dedupeLatestHits(): the newest of them, dropped when it is a marker.    *)
(* Mutant: a marker is a row like any other.                               *)
AnyFound(e, rows) == rows # {}
Found(e, rows) == \E i \in rows : copies[e][i] /\ \A j \in rows : j <= i

(* What is there, what has live rows at all, and what has more rows than   *)
(* the read of it asks for: a meeting reads lists, all else goes by id.    *)
There == { e \in Entities : Newest(e) } \cup objectsKept
Indexed == { e \in Entities : \E i \in DOMAIN copies[e] : copies[e][i] }
ReadOf(asked, e) ==
    IF asked # "meeting" THEN "entity"
    ELSE CASE e = "motion" -> "motions"
           [] e = "document" -> "attachments"
           [] e = "recording" -> "recordings"
           [] OTHER -> "entity"
Overfull(asked) == { e \in Entities : ~InFullAnswer(e, ReadOf(asked, e)) }

(* Before and after a change of the world.                                 *)
Remember ==
    /\ wasThere' = wasThere \cup There'
    /\ wasGone' = wasGone \cup ((Entities \cup Texts) \ There')
    /\ hadRows' = hadRows \cup Indexed'
    /\ hadMore' = hadMore \cup Overfull(reply.asked)'

EntityDetailInit ==
    /\ copies = [e \in Entities |-> <<TRUE>>]
    /\ objectsKept \in SUBSET Texts
    /\ beside = 0
    /\ reply = Unasked /\ wasThere = {} /\ wasGone = {} /\ hadRows = {} /\ hadMore = {}
-----------------------------------------------------------------------------
ImportEntity(e) ==
    /\ Len(copies[e]) < (IF e = "document" THEN MaxIndexRows ELSE 1)
    /\ copies' = [copies EXCEPT ![e] = Append(@, TRUE)]
    /\ objectsKept' = objectsKept \cup CASE e = "document" -> {"text"}
                               [] e = "recording" -> {"transcript"}
                               [] OTHER -> {}
    /\ UNCHANGED <<beside, reply>>
    /\ Remember

ImportAnother ==
    /\ beside < MaxOthers
    /\ beside' = beside + 1
    /\ UNCHANGED <<copies, objectsKept, reply>>
    /\ Remember

TakeDownDocument ==
    /\ Newest("document") /\ Len(copies["document"]) < MaxIndexRows
    /\ copies' = [copies EXCEPT !["document"] = Append(@, FALSE)]
    /\ objectsKept' = objectsKept \ {"text"}
    /\ UNCHANGED <<beside, reply>>
    /\ Remember

PurgeAll ==
    /\ \E e \in Entities : copies[e] # <<>>
    /\ copies' = [e \in Entities |-> <<>>] /\ beside' = 0 /\ objectsKept' = {}
    /\ UNCHANGED reply
    /\ Remember
-----------------------------------------------------------------------------
GoTo(step) == reply' = [reply EXCEPT !.step = step]
Show(parts, step) == reply' = [reply EXCEPT !.shown = @ \cup parts, !.step = step]
ShownIf(p, there) == IF there THEN {p} ELSE {}

AskDetail(e) ==
    /\ reply.step \in DetailEnded
    /\ reply' = [Unasked EXCEPT !.asked = e, !.step = "read"]
    /\ wasThere' = There /\ wasGone' = (Entities \cup Texts) \ There
    /\ hadRows' = Indexed /\ hadMore' = Overfull(e)
    /\ UNCHANGED worldVars

(* Nothing found: the export log says whether it was removed, once the     *)
(* tombstone that follows the markers is written.                          *)
NothingFound == GoTo("gone") \/ GoTo("not_found")

ReadEntity ==
    /\ reply.step = "read"
    /\ \E rows \in RowsFound(reply.asked, "entity") :
          IF Found(reply.asked, rows)
          THEN Show({reply.asked}, CASE reply.asked = "document" -> "text"
                                      [] reply.asked = "meeting" -> "agenda"
                                      [] reply.asked = "motion" -> "attachment"
                                      [] OTHER -> "end")
          ELSE NothingFound
    /\ UNCHANGED <<worldVars, historyVars>>

(* A motion shows the text of its attachment; the one of an attachment is  *)
(* not looked for.                                                         *)
ReadAttachment ==
    /\ reply.step = "attachment"
    /\ \E rows \in RowsFound("document", "entity") :
          Show(ShownIf("document", Found("document", rows)),
               IF Found("document", rows) THEN "text" ELSE "end")
    /\ UNCHANGED <<worldVars, historyVars>>

ReadText ==
    /\ reply.step = "text"
    /\ Show(ShownIf("text", "text" \in objectsKept), "end")
    /\ UNCHANGED <<worldVars, historyVars>>

(* The supplier is asked only when the meeting has no agenda of its own,   *)
(* and its failure costs the agenda and no more.                           *)
ReadAgenda(own, answered) ==
    /\ reply.step = "agenda"
    /\ reply' = [reply EXCEPT
           !.step = "motions", !.own = own,
           !.shown = @ \cup ShownIf("agenda", own \/ answered),
           !.failed = @ \cup ShownIf("agenda", ~own /\ ~answered)]
    /\ UNCHANGED <<worldVars, historyVars>>

ReadMotions ==
    /\ reply.step = "motions"
    /\ \E rows \in RowsFound("motion", "motions") :
          Show(ShownIf("motion", Found("motion", rows)),
               IF Found("motion", rows) THEN "attachments" ELSE "recordings")
    /\ UNCHANGED <<worldVars, historyVars>>

(* withAttachmentDownloads(): without the links, the motions are shown.    *)
ReadAttachments(fails) ==
    /\ reply.step = "attachments"
    /\ \E rows \in RowsFound("document", "attachments") :
          reply' = [reply EXCEPT
             !.step = "recordings",
             !.shown = @ \cup ShownIf("document", ~fails /\ Found("document", rows)),
             !.failed = @ \cup ShownIf("document", fails)]
    /\ UNCHANGED <<worldVars, historyVars>>

ReadRecordings ==
    /\ reply.step = "recordings"
    /\ \E rows \in RowsFound("recording", "recordings") :
          Show(ShownIf("recording", Found("recording", rows)),
               IF Found("recording", rows) THEN "transcripts" ELSE "end")
    /\ UNCHANGED <<worldVars, historyVars>>

(* readTranscript(): none or half of one is no transcript; one that cannot *)
(* be read ends the request (DetailRequestFails).                          *)
TranscriptRead(whole) == whole /\ "transcript" \in objectsKept

ReadTranscript(whole) ==
    /\ reply.step = "transcripts"
    /\ reply' = [reply EXCEPT
           !.step = "end",
           !.shown = @ \cup ShownIf("transcript", TranscriptRead(whole)),
           !.failed = @ \cup ShownIf("transcript", ~whole)]
    /\ UNCHANGED <<worldVars, historyVars>>

AnswerDetail ==
    /\ reply.step = "end"
    /\ GoTo("answered")
    /\ UNCHANGED <<worldVars, historyVars>>

(* Any other request of it fails.                                          *)
DetailRequestFails ==
    /\ reply.step \in {"read", "text", "attachment", "motions", "recordings",
                         "transcripts"}
    /\ GoTo("failed")
    /\ UNCHANGED <<worldVars, historyVars>>

EntityDetailNext ==
    \/ TakeDownDocument \/ PurgeAll \/ ImportAnother
    \/ \E e \in Entities : ImportEntity(e) \/ AskDetail(e)
    \/ ReadEntity \/ ReadAttachment \/ ReadText \/ ReadMotions \/ ReadRecordings
    \/ \E b \in BOOLEAN : ReadAttachments(b) \/ ReadTranscript(b)
    \/ \E own, answered \in BOOLEAN : ReadAgenda(own, answered)
    \/ AnswerDetail \/ DetailRequestFails

EntityDetailSpec == EntityDetailInit /\ [][EntityDetailNext]_entityDetailVars
-----------------------------------------------------------------------------
(* What an answer shows was there at some time while it was put together,  *)
(* though the parts need not have been there together; a part of it that   *)
(* is missing was gone at some time, or its own request failed; and an     *)
(* entity that was there all the time is not answered as gone. All this of *)
(* what had no more rows than a read asks for: of what had more, a         *)
(* document may be shown that was taken down, or left out though it is     *)
(* there, but nothing that the index holds no live row of.                 *)
PartsOf(e) ==
    CASE e = "document" -> {"document", "text"}
      [] e = "motion" -> {"motion"} \cup ShownIf("text", "document" \in reply.shown)
      [] e = "meeting" -> {"meeting", "motion", "recording"}
                          \cup ShownIf("document", "motion" \in reply.shown)
                          \cup ShownIf("transcript", "recording" \in reply.shown)
      [] OTHER -> {e}

DetailIsTrue ==
    /\ reply.step = "answered" =>
          /\ reply.shown \ (hadMore \cup {"agenda"}) \subseteq wasThere
          /\ reply.shown \cap Entities \subseteq hadRows
          /\ PartsOf(reply.asked) \ (reply.shown \cup reply.failed \cup hadMore) \subseteq wasGone
          /\ reply.asked = "meeting" /\ "agenda" \notin reply.shown => ~reply.own
    /\ reply.step \in {"not_found", "gone"} => reply.asked \in wasGone \cup hadMore
=============================================================================
