----------------------------- MODULE Materialize -----------------------------
(***************************************************************************)
(* One document through repeated imports: materializeDocument()            *)
(* (src/documents/process.ts), the extraction service it calls             *)
(* (services/extraction/main.py), and what the import then commits and     *)
(* buffers for the index (onEntity in src/ingest.ts); and through the      *)
(* reindexes beside them (src/pipeline/reindex.ts).                        *)
(*                                                                         *)
(* The document's version does not change, so all imports use one set of   *)
(* storage keys. Steps of the service that fail, answers that are lost and *)
(* imports that die leave objects behind that the next import finds.       *)
(***************************************************************************)
EXTENDS Integers, FiniteSets

CONSTANTS MaxRetries,    (* MAX_RETRIES: calls of the extraction service   *)
          MaxImports,    (* bound: imports of the document                 *)
          NoRecord       (* the document was never exported                *)

ASSUME MaterializeAssumption == MaxRetries \in Nat \ {0} /\ MaxImports \in Nat

VARIABLES
    setting,     (* extraction service, automatic quarantine, re-derive    *)
    file,        (* the document: a PDF, its text and pages, a BSN in it   *)
    served,      (* the supplier serves it                                 *)
    objects,     (* what storage holds of it                               *)
    blocklisted,
    work,        (* the import: its step, attempt, fallback and result     *)
    record,      (* shape of the last export record                        *)
    rows,        (* kinds of rows in the index: bare, text, page           *)
    pending,     (* rows buffered for the next flush                       *)
    leftover,    (* history: texts the service stored in calls whose       *)
                 (* answer no import could act on                          *)
    imports

materializeVars == <<setting, file, served, objects, blocklisted, work, record,
                     rows, pending, leftover, imports>>
configuration == <<setting, file>>

(* What a result carries: its text and page chunks, the keys of the stored *)
(* markdown and chunks, and page count and quality.                        *)
Shape == [text: BOOLEAN, chunks: BOOLEAN, markdownKey: BOOLEAN,
          pagesKey: BOOLEAN, verdict: BOOLEAN]
Bare == [text |-> FALSE, chunks |-> FALSE, markdownKey |-> FALSE,
         pagesKey |-> FALSE, verdict |-> FALSE]

Steps == {"idle", "start", "service", "answered", "local", "rederive",
          "emit", "flush"}
Idle0 == [step |-> "idle", attempt |-> 0, fallback |-> FALSE,
          result |-> Bare]

MaterializeTypeOK ==
    /\ setting \in [service: BOOLEAN, quarantine: BOOLEAN, rederive: BOOLEAN]
    /\ file \in [pdf: BOOLEAN, text: BOOLEAN, pages: BOOLEAN, bsn: BOOLEAN]
    /\ objects \subseteq {"file", "markdown", "pages"}
    /\ work \in [step: Steps, attempt: 0 .. MaxRetries, fallback: BOOLEAN,
                 result: Shape]
    /\ record \in Shape \cup {NoRecord}
    /\ rows \cup pending \subseteq {"bare", "text", "page"}
    /\ leftover \subseteq {"markdown", "pages"}
    /\ served \in BOOLEAN /\ blocklisted \in BOOLEAN /\ imports \in 0 .. MaxImports
-----------------------------------------------------------------------------
MaterializeInit ==
    /\ setting \in [service: BOOLEAN, quarantine: BOOLEAN, rederive: BOOLEAN]
    /\ file \in { f \in [pdf: BOOLEAN, text: BOOLEAN, pages: BOOLEAN, bsn: BOOLEAN] :
                    (f.pages => f.pdf /\ f.text) /\ (f.bsn => f.text) }
    /\ served = TRUE
    /\ objects = {}
    /\ blocklisted = FALSE
    /\ work = Idle0
    /\ record = NoRecord
    /\ rows = {}
    /\ pending = {}
    /\ leftover = {}
    /\ imports = 0

At(step) == work.step = step
Goto(step) == work' = [work EXCEPT !.step = step]
Return(result) == work' = [work EXCEPT !.step = "emit", !.result = result]

BeginImport ==
    /\ At("idle")
    /\ imports < MaxImports
    /\ imports' = imports + 1
    /\ work' = [Idle0 EXCEPT !.step = "start"]
    /\ UNCHANGED <<configuration, served, objects, blocklisted, record, rows, pending,
                   leftover>>

SupplierWithdraws ==
    /\ served
    /\ served' = FALSE
    /\ UNCHANGED <<configuration, objects, blocklisted, work, record, rows, pending,
                   leftover, imports>>
-----------------------------------------------------------------------------
(* Where the document comes from.                                          *)
CachedShape == [Bare EXCEPT !.markdownKey = TRUE, !.pagesKey = "pages" \in objects]

IsCached == {"file", "markdown"} \subseteq objects

Downloading == IF setting.service /\ file.pdf THEN "service" ELSE "local"

(* Mutant of Choose: a document without page chunks is extracted again     *)
(* with nothing to fall back on.                                           *)
ChooseWithoutFallback ==
    IF blocklisted THEN Return(Bare)
    ELSE IF setting.rederive /\ ~setting.service
    THEN Goto(IF "file" \in objects THEN "rederive" ELSE Downloading)
    ELSE IF IsCached /\ ~(setting.service /\ file.pdf /\ "pages" \notin objects)
    THEN Return(CachedShape)
    ELSE Goto(IF ~setting.service /\ file.pdf /\ "file" \in objects
              THEN "rederive" ELSE Downloading)

Choose ==
    IF blocklisted THEN Return(Bare)
    ELSE IF setting.rederive /\ ~setting.service
    THEN Goto(IF "file" \in objects THEN "rederive" ELSE Downloading)
    ELSE IF IsCached /\ setting.service /\ file.pdf /\ "pages" \notin objects
    THEN work' = [work EXCEPT !.step = "service", !.fallback = TRUE]
    ELSE IF IsCached
    THEN Return(CachedShape)
    ELSE Goto(IF ~setting.service /\ file.pdf /\ "file" \in objects
              THEN "rederive" ELSE Downloading)

ChooseSource ==
    /\ At("start")
    /\ Choose
    /\ UNCHANGED <<configuration, served, objects, blocklisted, record, rows, pending,
                   leftover, imports>>
-----------------------------------------------------------------------------
(* The service uploads the file, the markdown and the chunks in turn.      *)
Uploads ==
    LET all == {"file"} \cup (IF file.text THEN {"markdown"} ELSE {})
                        \cup (IF file.pages THEN {"pages"} ELSE {})
    IN  { {}, all \cap {"file"}, all \cap {"file", "markdown"}, all }

AllUploads == UNION Uploads

Readable == served \/ work.fallback

ServiceAnswers ==
    /\ At("service")
    /\ Readable
    /\ objects' = objects \cup AllUploads
    /\ Goto("answered")
    /\ UNCHANGED <<configuration, served, blocklisted, record, rows, pending,
                   leftover, imports>>

(* The fallback is what was read before the attempts: no page chunks.      *)
GiveUp ==
    Return(IF work.fallback THEN [CachedShape EXCEPT !.pagesKey = FALSE] ELSE Bare)

AttemptFails(final) ==
    IF final \/ work.attempt + 1 = MaxRetries
    THEN GiveUp
    ELSE work' = [work EXCEPT !.step = "service", !.attempt = @ + 1]

TextsOf(uploaded) == uploaded \ {"file"}

(* 422, 408, 5xx or no answer at all: another attempt. The source's own    *)
(* 4xx and our own timeout: no other attempt. The service may have stored  *)
(* any part by then.                                                       *)
ServiceFails ==
    /\ At("service")
    /\ \E uploaded \in (IF Readable THEN Uploads ELSE {{}}), final \in BOOLEAN :
          /\ objects' = objects \cup uploaded
          /\ leftover' = leftover \cup TextsOf(uploaded)
          /\ AttemptFails(final)
    /\ UNCHANGED <<configuration, served, blocklisted, record, rows, pending, imports>>

(* quarantineBsnDocument(): blocklist, then remove what was written; a     *)
(* failed removal is only an issue. Mutant of Quarantines: a repair of the *)
(* page chunks is not scanned.                                             *)
QuarantinesUnlessRepair ==
    file.text /\ file.bsn /\ setting.quarantine /\ ~work.fallback

Quarantines == file.text /\ file.bsn /\ setting.quarantine

Quarantine(written) ==
    /\ blocklisted' = TRUE
    /\ objects' \in {objects, objects \ written}
    /\ Return(Bare)

ServiceResult == [text |-> file.text, chunks |-> file.pages, markdownKey |-> TRUE,
                  pagesKey |-> file.pages, verdict |-> TRUE]

TakeAnswer ==
    /\ At("answered")
    /\ IF Quarantines
       THEN Quarantine({"file", "markdown", "pages"})
       ELSE /\ Return(ServiceResult)
            /\ UNCHANGED <<objects, blocklisted>>
    /\ UNCHANGED <<configuration, served, record, rows, pending, leftover, imports>>

(* The blocklist cannot be written: to the loop, an attempt that failed.   *)
BlocklistingFails ==
    /\ At("answered")
    /\ Quarantines
    /\ AttemptFails(FALSE)
    /\ leftover' = leftover \cup TextsOf(AllUploads)
    /\ UNCHANGED <<configuration, served, objects, blocklisted, record, rows, pending,
                   imports>>
-----------------------------------------------------------------------------
(* Without the service: download and extract here, store, and carry on. A  *)
(* failed download or put is an issue and the document is not emitted.     *)
LocalResult(text) ==
    [text |-> text, chunks |-> text /\ file.pages, markdownKey |-> text,
     pagesKey |-> text /\ file.pages, verdict |-> text]

LocalUploads(text) == IF text THEN AllUploads ELSE {"file"}

LocalPathFails ==
    /\ At("local") \/ At("rederive")
    /\ \E text \in {FALSE, file.text} :
          /\ ~(text /\ Quarantines)
          /\ objects' \in { objects \cup (part \cap LocalUploads(text)) :
                             part \in IF served \/ At("rederive") THEN Uploads ELSE {{}} }
    /\ work' = Idle0
    /\ UNCHANGED <<configuration, served, blocklisted, record, rows, pending,
                   leftover, imports>>

ExtractLocally ==
    /\ At("local")
    /\ served
    /\ \E text \in {FALSE, file.text} :
          IF text /\ Quarantines
          THEN Quarantine({})
          ELSE /\ objects' = objects \cup LocalUploads(text)
               /\ Return(LocalResult(text))
               /\ UNCHANGED blocklisted
    /\ UNCHANGED <<configuration, served, record, rows, pending, leftover, imports>>

(* rederiveFromStoredFile() gives up when the file cannot be read back; it *)
(* returns the keys and the verdict, not the text.                         *)
StoredFileUnreadable ==
    /\ At("rederive")
    /\ Goto("local")
    /\ UNCHANGED <<configuration, served, objects, blocklisted, record, rows, pending,
                   leftover, imports>>

RederiveLocally ==
    /\ At("rederive")
    /\ \E text \in {FALSE, file.text} :
          IF text /\ Quarantines
          THEN Quarantine({"file", "markdown", "pages"})
          ELSE /\ objects' = objects \cup LocalUploads(text)
               /\ Return([LocalResult(text) EXCEPT !.text = FALSE, !.chunks = FALSE])
               /\ UNCHANGED blocklisted
    /\ UNCHANGED <<configuration, served, record, rows, pending, leftover, imports>>
-----------------------------------------------------------------------------
(* onEntity: a blocklisted document goes no further; the record of any     *)
(* other is appended unless its content hash is that of the last one.      *)
Rows(result) ==
    {IF result.text /\ ~result.chunks THEN "text" ELSE "bare"}
    \cup (IF result.chunks THEN {"page"} ELSE {})

Emit ==
    /\ At("emit")
    /\ IF blocklisted
       THEN /\ work' = Idle0
            /\ UNCHANGED <<record, pending>>
       ELSE /\ record' = work.result
            /\ pending' = Rows(work.result)
            /\ Goto("flush")
    /\ UNCHANGED <<configuration, served, objects, blocklisted, rows,
                   leftover, imports>>

Flush ==
    /\ At("flush")
    /\ rows' = rows \cup pending
    /\ pending' = {}
    /\ work' = Idle0
    /\ UNCHANGED <<configuration, served, objects, blocklisted, record,
                   leftover, imports>>

(* The worker dies, or the index refuses the batch and the run fails: what *)
(* was buffered is gone.                                                   *)
ImportDies ==
    /\ ~At("idle")
    /\ work' = Idle0
    /\ pending' = {}
    /\ leftover' = leftover \cup IF At("answered") THEN TextsOf(AllUploads) ELSE {}
    /\ UNCHANGED <<configuration, served, objects, blocklisted, record, rows, imports>>
-----------------------------------------------------------------------------
(* A reindex puts back the text that the record's keys name: the pages if  *)
(* they are there, else the markdown. It scans nothing, and does not look  *)
(* at the blocklist. An object it cannot read makes it pass the document   *)
(* over; one that dies adds no rows.                                       *)
Rehydrated ==
    [Bare EXCEPT !.text = record.markdownKey /\ "markdown" \in objects,
                 !.chunks = record.pagesKey /\ "pages" \in objects]

Reindex ==
    /\ record # NoRecord
    /\ rows' = rows \cup Rows(Rehydrated)
    /\ UNCHANGED <<configuration, served, objects, blocklisted, work, record, pending,
                   leftover, imports>>

MaterializeNext ==
    \/ BeginImport \/ SupplierWithdraws \/ ChooseSource
    \/ ServiceAnswers \/ ServiceFails \/ TakeAnswer \/ BlocklistingFails
    \/ LocalPathFails \/ ExtractLocally \/ StoredFileUnreadable \/ RederiveLocally
    \/ Emit \/ Flush \/ ImportDies \/ Reindex

MaterializeSpec == MaterializeInit /\ [][MaterializeNext]_materializeVars
-----------------------------------------------------------------------------
(* With automatic quarantine no import sends text that holds a BSN to the  *)
(* index, whatever path it takes and whatever is left of earlier attempts. *)
(* A reindex brings in such text only where a call of the service had      *)
(* stored it and its answer was lost or could not be acted on: what was    *)
(* scanned and cleared, or scanned and removed, is not what it finds.      *)
OnlyLeftoversEscapeTheScan ==
    file.bsn /\ setting.quarantine =>
        /\ pending \cap {"text", "page"} = {}
        /\ "text" \in rows => "markdown" \in leftover
        /\ "page" \in rows => "pages" \in leftover

(* A document whose text is stored and named by its record does not lose   *)
(* it to a later import: a repair that fails keeps the cached markdown.    *)
(* Only a re-derivation whose extraction fails drops the key.              *)
StoredTextIsKept ==
    [][record # NoRecord /\ record' # record /\ ~setting.rederive
          => (record.markdownKey /\ IsCached => record'.markdownKey)]_materializeVars
=============================================================================
