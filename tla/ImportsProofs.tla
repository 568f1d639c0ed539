---------------------------- MODULE ImportsProofs ----------------------------
EXTENDS MCImports, ImportPartsProofs
-----------------------------------------------------------------------------
(* The import run queue is a part of the import side, and what             *)
(* ImportPartsProofs shows of it holds there.                              *)
LEMMA QueueIsAPart == ImportsSpec => Spec
  <1>1. ImportsInit => Init BY DEF ImportsInit
  <1>2. [ImportsNext]_<<component, queueVars, removalsVars, materializeVars, schedulerVars,
                        breakerVars, importVars, transcriptVars, clientVars, linkVars,
                        backfillVars>>
           => [Next]_queueVars
    BY DEF ImportsNext, QueueStep, RemovalsStep, MaterializeStep, SchedulerStep, BreakerStep,
           ExtractionStep, TranscriptStep, ClientStep, LinksStep, BackfillStep
  <1> QED BY <1>1, <1>2, PTL DEF ImportsSpec, Spec

(* ClaimsHold: a run is executed by one claim until a reconcile touches it *)
(* while it runs, and is not taken up more often than the cap allows.      *)
THEOREM ClaimsAreHeld == ImportsSpec => []ClaimsHold
  <1>1. ClaimsAreExclusive /\ AttemptsBounded => ClaimsHold BY DEF ClaimsHold
  <1> QED BY <1>1, QueueIsAPart, ExclusiveClaims, BoundedAttempts, PTL
-----------------------------------------------------------------------------
(* Materialize. What holds of one document through its imports: nothing of *)
(* a text that is to be quarantined gets into a result; and whatever       *)
(* record names a stored text, the text is there until it is blocklisted.  *)
Marked == file.bsn /\ setting.quarantine

NothingMarkedGoesOn ==
    Marked => /\ ~work.result.text /\ ~work.result.chunks
              /\ pending \cap {"text", "page"} = {}

FileIsPossible ==
    /\ file.bsn => file.text
    /\ "markdown" \in objects => file.text
    /\ work.attempt < MaxRetries

AtService == work.step \in {"service", "answered"}

FallbackIsStored ==
    /\ At("start") => ~work.fallback
    /\ ~blocklisted /\ AtService /\ work.fallback => IsCached

AnswerIsStored == ~blocklisted /\ At("answered") => AllUploads \subseteq objects

HasText(r) == r # NoRecord /\ r.markdownKey

NamedTextIsStored ==
    ~blocklisted /\ file.text =>
        /\ HasText(record) => IsCached
        /\ At("emit") /\ work.result.markdownKey => IsCached

ExtractsAnew == work.step \in {"local", "rederive"} \/ (AtService /\ ~work.fallback)

TextStaysNamed ==
    ~blocklisted /\ file.text /\ ~setting.rederive =>
        /\ ExtractsAnew => ~HasText(record)
        /\ At("emit") /\ HasText(record) => work.result.markdownKey

MaterialInvariant ==
    /\ MaterializeTypeOK /\ NothingMarkedGoesOn /\ FileIsPossible /\ FallbackIsStored
    /\ AnswerIsStored /\ NamedTextIsStored /\ TextStaysNamed

LEMMA ShapesAre ==
    /\ Bare \in Shape
    /\ ~Bare.text /\ ~Bare.chunks /\ ~Bare.markdownKey /\ ~Bare.pagesKey
  BY DEF Bare, Shape

LEMMA CachedShapeIs ==
    /\ CachedShape \in Shape
    /\ ~CachedShape.text /\ ~CachedShape.chunks /\ CachedShape.markdownKey
    /\ [CachedShape EXCEPT !.pagesKey = FALSE] \in Shape
    /\ ~[CachedShape EXCEPT !.pagesKey = FALSE].text
    /\ ~[CachedShape EXCEPT !.pagesKey = FALSE].chunks
    /\ [CachedShape EXCEPT !.pagesKey = FALSE].markdownKey
    /\ ~[CachedShape EXCEPT !.pagesKey = FALSE].pagesKey
    /\ CachedShape.pagesKey => "pages" \in objects
  <1>1. Bare \in Shape BY DEF Bare, Shape
  <1>2. CachedShape \in Shape
    <2>1. \A b \in BOOLEAN : [Bare EXCEPT !.markdownKey = TRUE, !.pagesKey = b] \in Shape
      BY <1>1 DEF Shape
    <2>2. ("pages" \in objects) \in BOOLEAN OBVIOUS
    <2> QED BY <2>1, <2>2 DEF CachedShape
  <1>3. /\ ~CachedShape.text /\ ~CachedShape.chunks /\ CachedShape.markdownKey
        /\ CachedShape.pagesKey => "pages" \in objects
    BY <1>1 DEF CachedShape, Bare, Shape
  <1> QED BY <1>2, <1>3 DEF Shape

LEMMA ResultsAre ==
    ASSUME MaterializeTypeOK
    PROVE  /\ ServiceResult \in Shape
           /\ ServiceResult.markdownKey
           /\ \A text \in BOOLEAN :
                 /\ LocalResult(text) \in Shape
                 /\ [LocalResult(text) EXCEPT !.text = FALSE, !.chunks = FALSE] \in Shape
                 /\ ~text => ~LocalResult(text).text /\ ~LocalResult(text).chunks
                 /\ LocalResult(text).markdownKey = text
                 /\ LET r == [LocalResult(text) EXCEPT !.text = FALSE, !.chunks = FALSE]
                    IN  ~r.text /\ ~r.chunks /\ r.markdownKey = text
  BY DEF MaterializeTypeOK, ServiceResult, LocalResult, Shape

LEMMA NoPagesWithoutText ==
    ASSUME MaterializeTypeOK,
           NEW r \in {LocalResult(FALSE),
                     [LocalResult(FALSE) EXCEPT !.text = FALSE, !.chunks = FALSE]}
    PROVE  ~r.pagesKey
  <1>1. file.pages \in BOOLEAN BY DEF MaterializeTypeOK
  <1>2. ~LocalResult(FALSE).pagesKey BY <1>1 DEF LocalResult
  <1>3. ~[LocalResult(FALSE) EXCEPT !.text = FALSE, !.chunks = FALSE].pagesKey
    BY <1>1 DEF LocalResult
  <1> QED BY <1>2, <1>3

LEMMA UploadsAre ==
    /\ AllUploads \subseteq {"file", "markdown", "pages"}
    /\ \A part \in Uploads : part \subseteq AllUploads
    /\ "file" \in AllUploads
    /\ "markdown" \in AllUploads <=> file.text
  BY DEF AllUploads, Uploads

(* An import that ends, and what it then has not yet done.                 *)
LEMMA WorkMoves ==
    ASSUME MaterializeTypeOK
    PROVE  /\ Idle0 \in [step: Steps, attempt: 0 .. MaxRetries, fallback: BOOLEAN,
                         result: Shape]
           /\ Idle0.step = "idle" /\ Idle0.attempt = 0 /\ Idle0.result = Bare
           /\ ~Idle0.fallback
           /\ \A step \in Steps : Goto(step) =>
                 /\ work'.step = step /\ work'.attempt = work.attempt
                 /\ work'.fallback = work.fallback /\ work'.result = work.result
                 /\ work' \in [step: Steps, attempt: 0 .. MaxRetries, fallback: BOOLEAN,
                              result: Shape]
           /\ \A r \in Shape : Return(r) =>
                 /\ work'.step = "emit" /\ work'.attempt = work.attempt
                 /\ work'.fallback = work.fallback /\ work'.result = r
                 /\ work' \in [step: Steps, attempt: 0 .. MaxRetries, fallback: BOOLEAN,
                              result: Shape]
  <1> USE DEF MaterializeTypeOK
  <1>1. /\ Idle0 \in [step: Steps, attempt: 0 .. MaxRetries, fallback: BOOLEAN,
                         result: Shape]
        /\ Idle0.step = "idle" /\ Idle0.attempt = 0 /\ Idle0.result = Bare
        /\ ~Idle0.fallback
    BY MaterializeAssumption, ShapesAre DEF Idle0, Steps
  <1>2. ASSUME NEW step \in Steps, Goto(step)
        PROVE  /\ work'.step = step /\ work'.attempt = work.attempt
               /\ work'.fallback = work.fallback /\ work'.result = work.result
               /\ work' \in [step: Steps, attempt: 0 .. MaxRetries, fallback: BOOLEAN,
                            result: Shape]
    BY <1>2 DEF Goto
  <1>3. ASSUME NEW r \in Shape, Return(r)
        PROVE  /\ work'.step = "emit" /\ work'.attempt = work.attempt
               /\ work'.fallback = work.fallback /\ work'.result = r
               /\ work' \in [step: Steps, attempt: 0 .. MaxRetries, fallback: BOOLEAN,
                            result: Shape]
    BY <1>3 DEF Return, Steps
  <1> QED BY <1>1, <1>2, <1>3

(* What an attempt that fails leaves: another one, or what was read before *)
(* the first.                                                              *)
LEMMA FailureMoves ==
    ASSUME MaterializeTypeOK, work.attempt < MaxRetries, NEW final \in BOOLEAN,
           AttemptFails(final)
    PROVE  /\ work' \in [step: Steps, attempt: 0 .. MaxRetries, fallback: BOOLEAN,
                         result: Shape]
           /\ work'.attempt < MaxRetries /\ work'.fallback = work.fallback
           /\ \/ work'.step = "service" /\ work'.result = work.result
              \/ /\ work'.step = "emit"
                 /\ ~work'.result.text /\ ~work'.result.chunks
                 /\ work'.result.markdownKey = work.fallback
                 /\ ~work'.result.pagesKey
  <1> DEFINE kept == IF work.fallback THEN [CachedShape EXCEPT !.pagesKey = FALSE] ELSE Bare
  <1>1. /\ kept \in Shape /\ ~kept.text /\ ~kept.chunks
        /\ kept.markdownKey = work.fallback /\ ~kept.pagesKey
    <2>1. CASE work.fallback BY <2>1, CachedShapeIs DEF Shape
    <2>2. CASE ~work.fallback BY <2>2, ShapesAre DEF MaterializeTypeOK, Bare
    <2> QED BY <2>1, <2>2
  <1>2. CASE final \/ work.attempt + 1 = MaxRetries
    <2>1. Return(kept) BY <1>2 DEF AttemptFails, GiveUp
    <2> HIDE DEF kept
    <2> QED BY <2>1, <1>1, WorkMoves
  <1>3. CASE ~(final \/ work.attempt + 1 = MaxRetries)
    <2>1. work' = [work EXCEPT !.step = "service", !.attempt = @ + 1]
      BY <1>3 DEF AttemptFails
    <2>2. work.attempt + 1 \in 0 .. MaxRetries /\ work.attempt + 1 < MaxRetries
      BY <1>3, MaterializeAssumption DEF MaterializeTypeOK
    <2> QED BY <2>1, <2>2 DEF MaterializeTypeOK, Steps
  <1> QED BY <1>2, <1>3

LEMMA MaterialKeeps == MaterialInvariant /\ [MaterializeNext]_materializeVars => MaterialInvariant'
  <1> SUFFICES ASSUME MaterialInvariant, [MaterializeNext]_materializeVars
               PROVE  MaterialInvariant'
    OBVIOUS
  <1>0. MaterializeTypeOK /\ MaterializeAssumption
    BY MaterializeAssumption DEF MaterialInvariant
  <1>f. setting' = setting /\ file' = file /\ AllUploads' = AllUploads
    <2>1. UNCHANGED configuration
      BY DEF MaterializeNext, BeginImport, SupplierWithdraws, ChooseSource, ServiceAnswers,
             ServiceFails, TakeAnswer, BlocklistingFails, LocalPathFails, ExtractLocally,
             StoredFileUnreadable, RederiveLocally, Emit, Flush, ImportDies, Reindex,
             materializeVars, configuration
    <2>2. setting' = setting /\ file' = file BY <2>1 DEF configuration
    <2> QED BY <2>2 DEF AllUploads, Uploads
  <1>l. leftover' \subseteq {"markdown", "pages"}
    <2>1. leftover \subseteq {"markdown", "pages"} BY <1>0 DEF MaterializeTypeOK
    <2>2. \A part \in Uploads \cup {AllUploads} : TextsOf(part) \subseteq {"markdown", "pages"}
      BY UploadsAre DEF TextsOf
    <2>3. CASE ServiceFails
      <3>1. PICK part \in Uploads \cup {{}} : leftover' = leftover \cup TextsOf(part)
        BY <2>3 DEF ServiceFails
      <3> QED BY <2>1, <2>2, <3>1 DEF TextsOf
    <2>4. CASE BlocklistingFails \/ ImportDies
      BY <2>1, <2>2, <2>4 DEF BlocklistingFails, ImportDies
    <2>5. CASE leftover' = leftover BY <2>1, <2>5
    <2> QED BY <2>3, <2>4, <2>5
            DEF MaterializeNext, BeginImport, SupplierWithdraws, ChooseSource, ServiceAnswers,
                TakeAnswer, LocalPathFails, ExtractLocally, StoredFileUnreadable,
                RederiveLocally, Emit, Flush, Reindex, materializeVars
  <1> USE DEF MaterialInvariant, NothingMarkedGoesOn, FileIsPossible, FallbackIsStored,
              AnswerIsStored, NamedTextIsStored, TextStaysNamed, At, AtService, ExtractsAnew,
              Marked, HasText
  <1> DEFINE Works == [step: Steps, attempt: 0 .. MaxRetries, fallback: BOOLEAN, result: Shape]
  <1>w. work \in Works BY <1>0 DEF MaterializeTypeOK
  <1>t. ASSUME work' \in Works, UNCHANGED <<served, rows, pending, imports, record>>,
               objects' \subseteq {"file", "markdown", "pages"}, blocklisted' \in BOOLEAN
        PROVE  MaterializeTypeOK'
    BY <1>t, <1>0, <1>f, <1>l DEF MaterializeTypeOK
  <1>1. CASE BeginImport
    <2>1. /\ work'.step = "start" /\ work'.attempt = 0 /\ work'.result = Bare
          /\ ~work'.fallback /\ work' \in Works
      BY <1>1, <1>0, WorkMoves DEF BeginImport, Steps
    <2>2. imports' \in 0 .. MaxImports BY <1>1, <1>0 DEF BeginImport, MaterializeTypeOK
    <2>3. MaterializeTypeOK'
      BY <2>1, <2>2, <1>0, <1>1, <1>l DEF BeginImport, MaterializeTypeOK, configuration
    <2> HIDE DEF Works
    <2> QED BY <2>1, <2>3, <1>0, <1>1, <1>f, ShapesAre DEF BeginImport, IsCached
  <1>2. CASE SupplierWithdraws
    <2>1. MaterializeTypeOK'
      BY <1>2, <1>0, <1>f, <1>l DEF SupplierWithdraws, MaterializeTypeOK
    <2> HIDE DEF Works
    <2> QED BY <2>1, <1>2, <1>f DEF SupplierWithdraws, IsCached
  <1>3. CASE ChooseSource
    <2>1. /\ UNCHANGED <<served, objects, blocklisted, record, rows, pending, imports>>
          /\ At("start") /\ ~work.fallback /\ Choose
      BY <1>3 DEF ChooseSource
    <2>t. ASSUME work' \in Works PROVE MaterializeTypeOK'
      BY <2>t, <2>1, <1>0, <1>t DEF MaterializeTypeOK
    <2>2. CASE blocklisted
      <3>1. Return(Bare) BY <2>1, <2>2 DEF Choose
      <3>2. /\ work'.step = "emit" /\ work'.attempt = work.attempt /\ work'.result = Bare
            /\ work' \in Works
        BY <3>1, <1>0, WorkMoves, ShapesAre
      <3> HIDE DEF Works
      <3> QED BY <3>2, <2>t, <2>1, <2>2, <1>f, ShapesAre DEF IsCached
    <2>3. CASE ~blocklisted /\ setting.rederive /\ ~setting.service
      <3>1. \E step \in {"rederive", "service", "local"} : Goto(step)
        BY <2>1, <2>3 DEF Choose, Downloading
      <3>2. PICK step \in {"rederive", "service", "local"} : Goto(step) BY <3>1
      <3>3. /\ work'.step = step /\ work'.attempt = work.attempt /\ work'.result = work.result
            /\ work'.fallback = work.fallback /\ work' \in Works
        BY <3>2, <1>0, WorkMoves DEF Steps
      <3> HIDE DEF Works
      <3> QED BY <3>3, <2>t, <2>1, <2>3, <1>f DEF IsCached
    <2>4. CASE /\ ~blocklisted /\ ~(setting.rederive /\ ~setting.service)
               /\ IsCached /\ setting.service /\ file.pdf /\ "pages" \notin objects
      <3>1. work' = [work EXCEPT !.step = "service", !.fallback = TRUE]
        BY <2>1, <2>4 DEF Choose
      <3>2. /\ work'.step = "service" /\ work'.attempt = work.attempt
            /\ work'.result = work.result /\ work'.fallback /\ work' \in Works
        BY <3>1, <1>w DEF Steps
      <3> HIDE DEF Works
      <3> QED BY <3>2, <2>t, <2>1, <2>4, <1>f DEF IsCached
    <2>5. CASE /\ ~blocklisted /\ ~(setting.rederive /\ ~setting.service)
               /\ ~(IsCached /\ setting.service /\ file.pdf /\ "pages" \notin objects)
               /\ IsCached
      <3>1. Return(CachedShape) BY <2>1, <2>5 DEF Choose
      <3>2. /\ work'.step = "emit" /\ work'.attempt = work.attempt
            /\ work'.result = CachedShape /\ work' \in Works
        BY <3>1, <1>0, WorkMoves, CachedShapeIs
      <3> HIDE DEF Works
      <3> QED BY <3>2, <2>t, <2>1, <2>5, <1>f, CachedShapeIs DEF IsCached
    <2>6. CASE ~blocklisted /\ ~(setting.rederive /\ ~setting.service) /\ ~IsCached
      <3>1. \E step \in {"rederive", "service", "local"} : Goto(step)
        BY <2>1, <2>6 DEF Choose, Downloading
      <3>2. PICK step \in {"rederive", "service", "local"} : Goto(step) BY <3>1
      <3>3. /\ work'.step = step /\ work'.attempt = work.attempt /\ work'.result = work.result
            /\ work'.fallback = work.fallback /\ work' \in Works
        BY <3>2, <1>0, WorkMoves DEF Steps
      <3> HIDE DEF Works
      <3> QED BY <3>3, <2>t, <2>1, <2>6, <1>f DEF IsCached
    <2> QED BY <2>2, <2>3, <2>4, <2>5, <2>6
  <1>4. CASE ServiceAnswers
    <2>1. /\ work'.step = "answered" /\ work'.attempt = work.attempt
          /\ work'.result = work.result /\ work'.fallback = work.fallback /\ work' \in Works
      BY <1>4, <1>0, WorkMoves DEF ServiceAnswers, Steps
    <2>2. /\ UNCHANGED <<served, blocklisted, record, rows, pending, imports>>
          /\ At("service") /\ objects' = objects \cup AllUploads
      BY <1>4 DEF ServiceAnswers
    <2>3. MaterializeTypeOK' BY <2>1, <2>2, <1>0, <1>t, UploadsAre DEF MaterializeTypeOK
    <2> HIDE DEF Works
    <2> QED BY <2>1, <2>2, <2>3, <1>f, UploadsAre DEF IsCached
  <1>5. ASSUME NEW final \in BOOLEAN, AtService, AttemptFails(final),
               UNCHANGED <<served, blocklisted, record, rows, pending, imports>>,
               objects \subseteq objects', objects' \subseteq objects \cup AllUploads
        PROVE  MaterialInvariant'
    <2>1. /\ work' \in Works /\ work'.attempt < MaxRetries /\ work'.fallback = work.fallback
          /\ \/ work'.step = "service" /\ work'.result = work.result
             \/ /\ work'.step = "emit"
                /\ ~work'.result.text /\ ~work'.result.chunks
                /\ work'.result.markdownKey = work.fallback
      BY <1>0, <1>5, FailureMoves
    <2>2. MaterializeTypeOK' BY <2>1, <1>5, <1>0, <1>t, UploadsAre DEF MaterializeTypeOK
    <2>3. IsCached => IsCached' BY <1>5 DEF IsCached
    <2>4. "markdown" \in objects' => file.text BY <1>5, UploadsAre
    <2> HIDE DEF Works
    <2> QED BY <2>1, <2>2, <2>3, <2>4, <1>5, <1>f
  <1>6. CASE ServiceFails
    <2>1. PICK uploaded \in (IF Readable THEN Uploads ELSE {{}}), final \in BOOLEAN :
             objects' = objects \cup uploaded /\ AttemptFails(final)
      BY <1>6 DEF ServiceFails
    <2>2. uploaded \subseteq AllUploads BY UploadsAre
    <2>3. UNCHANGED <<served, blocklisted, record, rows, pending, imports>> /\ At("service")
      BY <1>6 DEF ServiceFails
    <2> QED BY <2>1, <2>2, <2>3, <1>5
  <1>7. CASE BlocklistingFails
    <2>1. /\ UNCHANGED <<served, objects, blocklisted, record, rows, pending, imports>>
          /\ At("answered") /\ AttemptFails(FALSE)
      BY <1>7 DEF BlocklistingFails
    <2> QED BY <2>1, <1>5
  (* A result that a step returns, and what it leaves stored.               *)
  <1>8. ASSUME NEW r \in Shape, Return(r), UNCHANGED <<served, record, rows, pending, imports>>,
               objects' \subseteq {"file", "markdown", "pages"}, blocklisted' \in BOOLEAN,
               Marked => ~r.text /\ ~r.chunks,
               "markdown" \in objects' => file.text,
               ~blocklisted' => /\ ~blocklisted /\ objects \subseteq objects'
                                /\ (file.text /\ r.markdownKey => IsCached'),
               ~blocklisted' /\ file.text /\ ~setting.rederive /\ HasText(record)
                  => r.markdownKey
        PROVE  MaterialInvariant'
    <2>1. /\ work'.step = "emit" /\ work'.attempt = work.attempt /\ work'.result = r
          /\ work' \in Works
      BY <1>8, <1>0, WorkMoves
    <2>2. MaterializeTypeOK' BY <2>1, <1>8, <1>0, <1>t
    <2>3. ~blocklisted' /\ IsCached => IsCached' BY <1>8 DEF IsCached
    <2> HIDE DEF Works
    <2> QED BY <2>1, <2>2, <2>3, <1>8, <1>f
  <1>9. ASSUME NEW stale, Quarantine(stale),
               UNCHANGED <<served, record, rows, pending, imports>>
        PROVE  MaterialInvariant'
    <2>1. Return(Bare) /\ blocklisted' = TRUE /\ objects' \subseteq objects
      BY <1>9 DEF Quarantine
    <2>2. objects' \subseteq {"file", "markdown", "pages"}
      BY <2>1, <1>0 DEF MaterializeTypeOK
    <2> QED BY <2>1, <2>2, <1>8, <1>9, ShapesAre
  <1>10. CASE TakeAnswer
    <2>1. UNCHANGED <<served, record, rows, pending, imports>> /\ At("answered")
      BY <1>10 DEF TakeAnswer
    <2>2. CASE Quarantines
      <3>1. Quarantine({"file", "markdown", "pages"}) BY <1>10, <2>2 DEF TakeAnswer
      <3> QED BY <3>1, <2>1, <1>9
    <2>3. CASE ~Quarantines
      <3>1. Return(ServiceResult) /\ UNCHANGED <<objects, blocklisted>>
        BY <1>10, <2>3 DEF TakeAnswer
      <3>2. ~Marked BY <2>3 DEF Quarantines
      <3>3. ~blocklisted /\ file.text => IsCached BY <2>1, UploadsAre DEF IsCached
      <3>4. objects' \subseteq {"file", "markdown", "pages"} /\ blocklisted' \in BOOLEAN
        BY <3>1, <1>0 DEF MaterializeTypeOK
      <3>5. IsCached' = IsCached BY <3>1 DEF IsCached
      <3> QED BY <3>1, <3>2, <3>3, <3>4, <3>5, <2>1, <1>0, <1>8, ResultsAre
    <2> QED BY <2>2, <2>3
  <1>11. ASSUME UNCHANGED <<served, blocklisted, record, rows, imports>>, work' = Idle0,
                objects \subseteq objects', objects' \subseteq objects \cup AllUploads,
                pending' \in {pending, {}}
         PROVE  MaterialInvariant'
    <2>1. /\ work' \in Works /\ work'.step = "idle" /\ work'.attempt = 0
          /\ work'.result = Bare
      BY <1>11, <1>0, WorkMoves
    <2>2. objects' \subseteq {"file", "markdown", "pages"}
      BY <1>11, <1>0, UploadsAre DEF MaterializeTypeOK
    <2>3. MaterializeTypeOK'
      BY <2>1, <2>2, <1>0, <1>11, <1>f, <1>l DEF MaterializeTypeOK
    <2>4. IsCached => IsCached' BY <1>11 DEF IsCached
    <2>5. "markdown" \in objects' => file.text BY <1>11, UploadsAre
    <2> HIDE DEF Works
    <2> QED BY <2>1, <2>3, <2>4, <2>5, <1>0, <1>11, <1>f, ShapesAre
  <1>12. CASE LocalPathFails
    <2>1. PICK text \in {FALSE, file.text},
               part \in IF served \/ At("rederive") THEN Uploads ELSE {{}} :
             objects' = objects \cup (part \cap LocalUploads(text))
      BY <1>12 DEF LocalPathFails
    <2>2. part \subseteq AllUploads BY UploadsAre
    <2> QED BY <2>1, <2>2, <1>12, <1>11 DEF LocalPathFails
  (* What the extraction here returns, its text kept or not.               *)
  <1>13. ASSUME NEW text \in {FALSE, file.text}, NEW r \in {LocalResult(text),
                   [LocalResult(text) EXCEPT !.text = FALSE, !.chunks = FALSE]},
                ~(text /\ Quarantines), ExtractsAnew, Return(r),
                objects' = objects \cup LocalUploads(text),
                UNCHANGED <<served, blocklisted, record, rows, pending, imports>>
         PROVE  MaterialInvariant'
    <2>1. text \in BOOLEAN BY <1>0 DEF MaterializeTypeOK
    <2>2. r \in Shape /\ r.markdownKey = text /\ (~text => ~r.text /\ ~r.chunks)
      BY <2>1, <1>0, <1>13, ResultsAre
    <2>3. Marked => ~text BY <1>13 DEF Quarantines
    <2>4. LocalUploads(text) \subseteq AllUploads /\ (text => LocalUploads(text) = AllUploads)
      BY UploadsAre DEF LocalUploads
    <2>5. /\ objects' \subseteq {"file", "markdown", "pages"}
          /\ ("markdown" \in objects' => file.text)
          /\ blocklisted' \in BOOLEAN
      BY <2>4, <1>0, <1>13, UploadsAre DEF MaterializeTypeOK
    <2>6. ASSUME file.text, text PROVE IsCached'
      <3>1. {"file", "markdown"} \subseteq AllUploads BY <2>6, UploadsAre
      <3>2. AllUploads \subseteq objects' BY <2>4, <2>6, <1>13
      <3> QED BY <3>1, <3>2 DEF IsCached
    <2> QED BY <2>2, <2>3, <2>5, <2>6, <1>8, <1>13
  <1>14. CASE ExtractLocally
    <2>1. /\ UNCHANGED <<served, record, rows, pending, imports>>
          /\ At("local")
      BY <1>14 DEF ExtractLocally
    <2>2. PICK text \in {FALSE, file.text} :
             IF text /\ Quarantines
             THEN Quarantine({})
             ELSE /\ objects' = objects \cup LocalUploads(text)
                  /\ Return(LocalResult(text))
                  /\ UNCHANGED blocklisted
      BY <1>14 DEF ExtractLocally
    <2>3. CASE text /\ Quarantines BY <2>1, <2>2, <2>3, <1>9
    <2>4. CASE ~(text /\ Quarantines) BY <2>1, <2>2, <2>4, <1>13
    <2> QED BY <2>3, <2>4
  <1>15. CASE StoredFileUnreadable
    <2>1. /\ UNCHANGED <<served, objects, blocklisted, record, rows, pending, imports>>
          /\ At("rederive") /\ Goto("local")
      BY <1>15 DEF StoredFileUnreadable
    <2>2. /\ work'.step = "local" /\ work'.attempt = work.attempt
          /\ work'.result = work.result /\ work' \in Works
      BY <2>1, <1>0, WorkMoves DEF Steps
    <2>3. MaterializeTypeOK' BY <2>1, <2>2, <1>0, <1>t DEF MaterializeTypeOK
    <2> HIDE DEF Works
    <2> QED BY <2>1, <2>2, <2>3, <1>f DEF IsCached
  <1>16. CASE RederiveLocally
    <2>1. /\ UNCHANGED <<served, record, rows, pending, imports>>
          /\ At("rederive")
      BY <1>16 DEF RederiveLocally
    <2>2. PICK text \in {FALSE, file.text} :
             IF text /\ Quarantines
             THEN Quarantine({"file", "markdown", "pages"})
             ELSE /\ objects' = objects \cup LocalUploads(text)
                  /\ Return([LocalResult(text) EXCEPT !.text = FALSE, !.chunks = FALSE])
                  /\ UNCHANGED blocklisted
      BY <1>16 DEF RederiveLocally
    <2>3. CASE text /\ Quarantines BY <2>1, <2>2, <2>3, <1>9
    <2>4. CASE ~(text /\ Quarantines) BY <2>1, <2>2, <2>4, <1>13
    <2> QED BY <2>3, <2>4
  <1>17. CASE Emit
    <2>1. UNCHANGED <<served, objects, blocklisted, rows, imports>> /\ At("emit")
      BY <1>17 DEF Emit
    <2>2. CASE blocklisted BY <1>17, <2>1, <2>2, <1>11 DEF Emit
    <2>3. CASE ~blocklisted
      <3>1. record' = work.result /\ pending' = Rows(work.result) /\ Goto("flush")
        BY <1>17, <2>3 DEF Emit
      <3>2. /\ work'.step = "flush" /\ work'.attempt = work.attempt
            /\ work'.result = work.result /\ work' \in Works
        BY <3>1, <1>0, WorkMoves DEF Steps
      <3>3. /\ pending' \subseteq {"bare", "text", "page"}
            /\ Marked => pending' \cap {"text", "page"} = {}
        BY <3>1 DEF Rows
      <3>4. MaterializeTypeOK'
        BY <3>1, <3>2, <3>3, <2>1, <1>0, <1>f, <1>l DEF MaterializeTypeOK
      <3>5. IsCached' = IsCached BY <2>1 DEF IsCached
      <3> HIDE DEF Works
      <3> QED BY <3>1, <3>2, <3>3, <3>4, <3>5, <2>1, <2>3, <1>f
    <2> QED BY <2>2, <2>3
  <1>18. CASE Flush
    <2>1. /\ rows' = rows \cup pending /\ pending' = {} /\ work' = Idle0
          /\ UNCHANGED <<served, objects, blocklisted, record, imports>>
      BY <1>18 DEF Flush
    <2>2. /\ work' \in Works /\ work'.step = "idle" /\ work'.attempt = 0
          /\ work'.result = Bare
      BY <2>1, <1>0, WorkMoves
    <2>3. MaterializeTypeOK' BY <2>1, <2>2, <1>0, <1>f, <1>l DEF MaterializeTypeOK
    <2>4. IsCached' = IsCached BY <2>1 DEF IsCached
    <2> HIDE DEF Works
    <2> QED BY <2>1, <2>2, <2>3, <2>4, <1>0, <1>f, ShapesAre
  <1>19. CASE ImportDies BY <1>19, <1>11 DEF ImportDies
  <1>21. CASE Reindex
    <2>1. /\ rows' = rows \cup Rows(Rehydrated) /\ work' = work /\ pending' = pending
          /\ UNCHANGED <<served, objects, blocklisted, record, imports>>
      BY <1>21 DEF Reindex
    <2>2. Rows(Rehydrated) \subseteq {"bare", "text", "page"} BY DEF Rows
    <2>3. MaterializeTypeOK' BY <2>1, <2>2, <1>0, <1>f, <1>l DEF MaterializeTypeOK
    <2>4. IsCached' = IsCached BY <2>1 DEF IsCached
    <2> HIDE DEF Works
    <2> QED BY <2>1, <2>3, <2>4, <1>f
  <1>20. CASE UNCHANGED materializeVars
    BY <1>20, <1>f DEF materializeVars, MaterializeTypeOK, IsCached, configuration
  <1> QED BY <1>1, <1>2, <1>3, <1>4, <1>6, <1>7, <1>10, <1>12, <1>14, <1>15, <1>16, <1>17,
             <1>18, <1>19, <1>20, <1>21 DEF MaterializeNext

(* Of a document to be quarantined a stored text is a leftover, unless its *)
(* answer is still to be looked at or it is blocklisted; and no key of a   *)
(* result or a record names one that is not.                               *)
KeysOf(r) ==
    (IF r.markdownKey THEN {"markdown"} ELSE {}) \cup (IF r.pagesKey THEN {"pages"} ELSE {})

LeftoversAreKnown ==
    /\ "pages" \in objects => file.pages
    /\ AtService \/ work.step \in {"local", "rederive"} => ~blocklisted
    /\ Marked =>
          /\ ~blocklisted /\ ~At("answered") => objects \ {"file"} \subseteq leftover
          /\ AtService /\ work.fallback => "markdown" \in leftover
          /\ KeysOf(work.result) \subseteq leftover
          /\ record # NoRecord => KeysOf(record) \subseteq leftover
          /\ "text" \in rows => "markdown" \in leftover
          /\ "page" \in rows => "pages" \in leftover

LEMMA LeftoversStayKnown ==
    MaterialInvariant /\ MaterialInvariant' /\ LeftoversAreKnown
      /\ [MaterializeNext]_materializeVars => LeftoversAreKnown'
  <1> SUFFICES ASSUME MaterialInvariant, MaterialInvariant', LeftoversAreKnown,
                      [MaterializeNext]_materializeVars
               PROVE  LeftoversAreKnown'
    OBVIOUS
  <1>0. MaterializeTypeOK /\ (Marked => file.text)
    BY DEF MaterialInvariant, FileIsPossible, Marked
  <1>f. setting' = setting /\ file' = file /\ AllUploads' = AllUploads /\ Marked' = Marked
    <2>1. UNCHANGED configuration
      BY DEF MaterializeNext, BeginImport, SupplierWithdraws, ChooseSource, ServiceAnswers,
             ServiceFails, TakeAnswer, BlocklistingFails, LocalPathFails, ExtractLocally,
             StoredFileUnreadable, RederiveLocally, Emit, Flush, ImportDies, Reindex,
             materializeVars, configuration
    <2>2. setting' = setting /\ file' = file BY <2>1 DEF configuration
    <2> QED BY <2>2 DEF AllUploads, Uploads, Marked
  <1>u. /\ objects \subseteq {"file", "markdown", "pages"}
        /\ "pages" \in AllUploads => file.pages
        /\ Marked => objects \subseteq AllUploads \cup {"file"}
        /\ \A part \in Uploads : part \subseteq AllUploads
    <2>1. objects \subseteq {"file", "markdown", "pages"} BY <1>0 DEF MaterializeTypeOK
    <2>2. "pages" \in AllUploads <=> file.pages BY DEF AllUploads, Uploads
    <2> QED BY <1>0, <2>1, <2>2, UploadsAre DEF LeftoversAreKnown
  (* A step that leaves the texts, and comes to a result with no keys or    *)
  (* the one it had.                                                        *)
  <1>k. ASSUME work'.result = work.result \/ KeysOf(work'.result) = {},
               "pages" \in objects' => file.pages,
               AtService' \/ work'.step \in {"local", "rederive"} => ~blocklisted',
               Marked => /\ ~blocklisted' /\ ~At("answered")'
                               => objects' \ {"file"} \subseteq leftover'
                         /\ AtService' /\ work'.fallback => "markdown" \in leftover',
               leftover \subseteq leftover', record' = record,
               rows' = rows
        PROVE  LeftoversAreKnown'
    BY <1>k, <1>f DEF LeftoversAreKnown, KeysOf
  <1> USE DEF At, AtService
  <1>b. KeysOf(Bare) = {} /\ Idle0.step = "idle" /\ Idle0.result = Bare
    BY DEF KeysOf, Bare, Idle0
  <1>1. CASE BeginImport \/ SupplierWithdraws
    <2>1. /\ UNCHANGED <<objects, blocklisted, record, rows, leftover>>
          /\ work'.result = work.result \/ work'.result = Bare
          /\ work' = work \/ (work.step = "idle" /\ work'.step = "start")
      BY <1>1, <1>b DEF BeginImport, SupplierWithdraws, Idle0
    <2> QED BY <2>1, <1>b, <1>f, <1>k DEF LeftoversAreKnown
  <1>2. CASE ChooseSource
    <2>1. /\ UNCHANGED <<objects, blocklisted, record, rows, leftover>>
          /\ work.step = "start" /\ Choose /\ ~work.fallback
      BY <1>2 DEF ChooseSource, MaterialInvariant, FallbackIsStored
    <2>2. CASE blocklisted
      <3>1. work'.step = "emit" /\ work'.result = Bare
        BY <1>0, <2>1, <2>2, WorkMoves, ShapesAre DEF Choose
      <3> QED BY <3>1, <2>1, <2>2, <1>b, <1>f, <1>k DEF LeftoversAreKnown
    <2>3. CASE ~blocklisted /\ Return(CachedShape) /\ IsCached
      <3>1. work'.step = "emit" /\ work'.result = CachedShape
        BY <1>0, <2>3, WorkMoves, CachedShapeIs
      <3>2. KeysOf(CachedShape) \subseteq objects \ {"file"}
        BY <2>3, CachedShapeIs DEF KeysOf, IsCached
      <3> QED BY <3>1, <3>2, <2>1, <2>3, <1>f DEF LeftoversAreKnown
    <2>4. CASE /\ ~blocklisted /\ IsCached
               /\ work' = [work EXCEPT !.step = "service", !.fallback = TRUE]
      <3>1. work'.step = "service" /\ work'.result = work.result
        BY <2>4, <1>0 DEF MaterializeTypeOK
      <3>2. Marked => "markdown" \in leftover
        BY <2>1, <2>4 DEF IsCached, LeftoversAreKnown
      <3> QED BY <3>1, <3>2, <2>1, <2>4, <1>f, <1>k DEF LeftoversAreKnown
    <2>5. CASE ~blocklisted /\ \E step \in {"rederive", "service", "local"} : Goto(step)
      <3>1. /\ work'.step \in {"rederive", "service", "local"}
            /\ work'.result = work.result /\ ~work'.fallback
        BY <1>0, <2>1, <2>5, WorkMoves DEF Steps
      <3> QED BY <3>1, <2>1, <2>5, <1>f, <1>k DEF LeftoversAreKnown
    <2>6. CASE ~blocklisted /\ setting.rederive /\ ~setting.service
      <3>1. \E step \in {"rederive", "service", "local"} : Goto(step)
        BY <2>1, <2>6 DEF Choose, Downloading
      <3> QED BY <3>1, <2>5, <2>6
    <2>7. CASE ~blocklisted /\ ~(setting.rederive /\ ~setting.service) /\ ~IsCached
      <3>1. \E step \in {"rederive", "service", "local"} : Goto(step)
        BY <2>1, <2>7 DEF Choose, Downloading
      <3> QED BY <3>1, <2>5, <2>7
    <2>8. CASE ~blocklisted /\ ~(setting.rederive /\ ~setting.service) /\ IsCached
      BY <2>1, <2>3, <2>4, <2>8 DEF Choose
    <2> QED BY <2>2, <2>6, <2>7, <2>8
  <1>3. CASE ServiceAnswers
    <2>1. /\ UNCHANGED <<blocklisted, record, rows, leftover>> /\ work.step = "service"
          /\ objects' = objects \cup AllUploads
      BY <1>3 DEF ServiceAnswers
    <2>2. work'.step = "answered" /\ work'.result = work.result /\ work'.fallback = work.fallback
      BY <1>3, <1>0, WorkMoves DEF ServiceAnswers, Steps
    <2> QED BY <2>1, <2>2, <1>f, <1>u, <1>k DEF LeftoversAreKnown
  (* A call whose answer comes to nothing.                                  *)
  <1>4. ASSUME NEW parts \in Uploads \cup {AllUploads, {}}, NEW final \in BOOLEAN, AtService,
               AttemptFails(final), UNCHANGED <<blocklisted, record, rows>>,
               leftover' = leftover \cup TextsOf(parts), objects' = objects \cup parts,
               At("answered") => parts = AllUploads
        PROVE  LeftoversAreKnown'
    <2>1. /\ work'.fallback = work.fallback
          /\ \/ work'.step = "service" /\ work'.result = work.result
             \/ /\ work'.step = "emit" /\ ~work'.result.pagesKey
                /\ work'.result.markdownKey = work.fallback
      BY <1>0, <1>4, FailureMoves DEF MaterialInvariant, FileIsPossible
    <2>2. ~blocklisted /\ "pages" \in objects' => file.pages
      BY <1>4, <1>u DEF LeftoversAreKnown
    <2>3. "pages" \in objects' => file.pages BY <1>4, <1>u DEF LeftoversAreKnown
    <2>4. Marked => objects' \ {"file"} \subseteq leftover'
      BY <1>4, <1>u DEF LeftoversAreKnown, TextsOf
    <2>5. Marked /\ work.fallback => "markdown" \in leftover'
      BY <1>4 DEF LeftoversAreKnown
    <2>6. CASE work'.step = "service" /\ work'.result = work.result
      BY <2>1, <2>3, <2>4, <2>5, <2>6, <1>4, <1>f, <1>k DEF LeftoversAreKnown
    <2>7. CASE /\ work'.step = "emit" /\ ~work'.result.pagesKey
               /\ work'.result.markdownKey = work.fallback
      <3>1. Marked => KeysOf(work'.result) \subseteq leftover' BY <2>5, <2>7 DEF KeysOf
      <3> QED BY <3>1, <2>3, <2>4, <2>7, <1>4, <1>f DEF LeftoversAreKnown
    <2> QED BY <2>1, <2>6, <2>7
  <1>5. CASE ServiceFails
    <2>1. PICK uploaded \in (IF Readable THEN Uploads ELSE {{}}), final \in BOOLEAN :
             /\ objects' = objects \cup uploaded /\ leftover' = leftover \cup TextsOf(uploaded)
             /\ AttemptFails(final)
      BY <1>5 DEF ServiceFails
    <2>2. UNCHANGED <<blocklisted, record, rows>> /\ work.step = "service"
      BY <1>5 DEF ServiceFails
    <2> QED BY <2>1, <2>2, <1>4
  <1>6. CASE BlocklistingFails
    <2>1. /\ UNCHANGED <<objects, blocklisted, record, rows>> /\ work.step = "answered"
          /\ AttemptFails(FALSE) /\ leftover' = leftover \cup TextsOf(AllUploads) /\ Quarantines
      BY <1>6 DEF BlocklistingFails
    <2>2. ~blocklisted /\ AllUploads \subseteq objects
      BY <2>1 DEF LeftoversAreKnown, MaterialInvariant, AnswerIsStored
    <2> QED BY <2>1, <2>2, <1>4
  <1>7. ASSUME NEW stale, Quarantine(stale), UNCHANGED <<record, rows, leftover>>
        PROVE  LeftoversAreKnown'
    <2>1. Return(Bare) /\ blocklisted' = TRUE /\ objects' \subseteq objects
      BY <1>7 DEF Quarantine
    <2>2. work'.step = "emit" /\ work'.result = Bare BY <1>0, <2>1, WorkMoves, ShapesAre
    <2> QED BY <2>1, <2>2, <1>b, <1>f, <1>7, <1>k DEF LeftoversAreKnown
  <1>8. CASE TakeAnswer
    <2>1. UNCHANGED <<record, rows, leftover>> /\ work.step = "answered"
      BY <1>8 DEF TakeAnswer
    <2>2. CASE Quarantines
      <3>1. Quarantine({"file", "markdown", "pages"}) BY <1>8, <2>2 DEF TakeAnswer
      <3> QED BY <3>1, <2>1, <1>7
    <2>3. CASE ~Quarantines
      <3>1. Return(ServiceResult) /\ UNCHANGED <<objects, blocklisted>>
        BY <1>8, <2>3 DEF TakeAnswer
      <3>2. ~Marked BY <1>0, <2>3 DEF Quarantines, Marked
      <3>3. work'.step = "emit" BY <3>1, <1>0, WorkMoves, ResultsAre
      <3> QED BY <3>1, <3>2, <3>3, <1>f DEF LeftoversAreKnown
    <2> QED BY <2>2, <2>3
  <1>9. CASE LocalPathFails
    <2>1. PICK text \in {FALSE, file.text},
               part \in IF served \/ At("rederive") THEN Uploads ELSE {{}} :
             ~(text /\ Quarantines) /\ objects' = objects \cup (part \cap LocalUploads(text))
      BY <1>9 DEF LocalPathFails
    <2>2. UNCHANGED <<blocklisted, record, rows, leftover>> /\ work' = Idle0
      BY <1>9 DEF LocalPathFails
    <2>3. Marked => objects' \ {"file"} \subseteq objects
      BY <1>0, <2>1 DEF Quarantines, Marked, LocalUploads
    <2>4. "pages" \in objects' => file.pages BY <1>u, <2>1 DEF LeftoversAreKnown
    <2>5. ~blocklisted /\ ~At("answered") BY <1>9 DEF LocalPathFails, LeftoversAreKnown
    <2> QED BY <2>2, <2>3, <2>4, <2>5, <1>b, <1>f, <1>k DEF LeftoversAreKnown
  <1>10. ASSUME NEW text \in {FALSE, file.text}, NEW r \in {LocalResult(text),
                   [LocalResult(text) EXCEPT !.text = FALSE, !.chunks = FALSE]},
                ~(text /\ Quarantines), work.step \in {"local", "rederive"}, Return(r),
                objects' = objects \cup LocalUploads(text),
                UNCHANGED <<blocklisted, record, rows, leftover>>
         PROVE  LeftoversAreKnown'
    <2>1. text \in BOOLEAN BY <1>0 DEF MaterializeTypeOK
    <2>2. r \in Shape /\ (~text => KeysOf(r) = {})
      <3>1. r \in Shape /\ (~text => ~r.markdownKey) BY <2>1, <1>0, <1>10, ResultsAre
      <3>2. ~text => ~r.pagesKey BY <2>1, <1>0, <1>10, NoPagesWithoutText
      <3> QED BY <3>1, <3>2 DEF KeysOf
    <2>3. Marked => ~text BY <1>0, <1>10 DEF Quarantines, Marked
    <2>4. work'.step = "emit" /\ work'.result = r BY <1>0, <1>10, <2>2, WorkMoves
    <2>5. /\ "pages" \in objects' => file.pages
          /\ Marked => objects' \ {"file"} \subseteq objects
      BY <1>10, <1>u, <2>3 DEF LocalUploads, LeftoversAreKnown
    <2>6. ~blocklisted /\ ~At("answered") BY <1>10 DEF LeftoversAreKnown
    <2> QED BY <2>2, <2>3, <2>4, <2>5, <2>6, <1>10, <1>f DEF LeftoversAreKnown
  <1>11. CASE ExtractLocally
    <2>1. UNCHANGED <<record, rows, leftover>> /\ work.step = "local"
      BY <1>11 DEF ExtractLocally
    <2>2. PICK text \in {FALSE, file.text} :
             IF text /\ Quarantines
             THEN Quarantine({})
             ELSE /\ objects' = objects \cup LocalUploads(text)
                  /\ Return(LocalResult(text))
                  /\ UNCHANGED blocklisted
      BY <1>11 DEF ExtractLocally
    <2> QED BY <2>1, <2>2, <1>7, <1>10
  <1>12. CASE StoredFileUnreadable
    <2>1. /\ UNCHANGED <<objects, blocklisted, record, rows, leftover>>
          /\ work.step = "rederive" /\ work'.step = "local" /\ work'.result = work.result
      BY <1>12, <1>0, WorkMoves DEF StoredFileUnreadable, Steps
    <2> QED BY <2>1, <1>f, <1>k DEF LeftoversAreKnown
  <1>13. CASE RederiveLocally
    <2>1. UNCHANGED <<record, rows, leftover>> /\ work.step = "rederive"
      BY <1>13 DEF RederiveLocally
    <2>2. PICK text \in {FALSE, file.text} :
             IF text /\ Quarantines
             THEN Quarantine({"file", "markdown", "pages"})
             ELSE /\ objects' = objects \cup LocalUploads(text)
                  /\ Return([LocalResult(text) EXCEPT !.text = FALSE, !.chunks = FALSE])
                  /\ UNCHANGED blocklisted
      BY <1>13 DEF RederiveLocally
    <2> QED BY <2>1, <2>2, <1>7, <1>10
  <1>14. CASE Emit
    <2>1. /\ UNCHANGED <<objects, blocklisted, rows, leftover>> /\ work.step = "emit"
          /\ \/ record' = record /\ work' = Idle0
             \/ record' = work.result /\ Goto("flush")
      BY <1>14 DEF Emit
    <2>2. CASE record' = record /\ work' = Idle0
      BY <2>1, <2>2, <1>b, <1>f, <1>k DEF LeftoversAreKnown
    <2>3. CASE record' = work.result /\ Goto("flush")
      <3>1. work'.step = "flush" /\ work'.result = work.result
        BY <2>3, <1>0, WorkMoves DEF Steps
      <3> QED BY <3>1, <2>1, <2>3, <1>f DEF LeftoversAreKnown
    <2> QED BY <2>1, <2>2, <2>3
  <1>15. CASE Flush
    <2>1. /\ UNCHANGED <<objects, blocklisted, record, leftover>> /\ work' = Idle0
          /\ rows' = rows \cup pending /\ work.step = "flush"
      BY <1>15 DEF Flush
    <2>2. Marked => pending \cap {"text", "page"} = {}
      BY DEF MaterialInvariant, NothingMarkedGoesOn
    <2> QED BY <2>1, <2>2, <1>b, <1>f DEF LeftoversAreKnown
  <1>16. CASE ImportDies
    <2>1. /\ UNCHANGED <<objects, blocklisted, record, rows>> /\ work' = Idle0
          /\ leftover' = leftover \cup IF At("answered") THEN TextsOf(AllUploads) ELSE {}
      BY <1>16 DEF ImportDies
    <2>2. Marked /\ ~blocklisted => objects \ {"file"} \subseteq leftover'
      BY <2>1, <1>u DEF LeftoversAreKnown, TextsOf
    <2> QED BY <2>1, <2>2, <1>b, <1>f, <1>k DEF LeftoversAreKnown
  <1>17. CASE Reindex
    <2>1. /\ rows' = rows \cup Rows(Rehydrated) /\ record # NoRecord
          /\ UNCHANGED <<work, objects, blocklisted, record, leftover>>
      BY <1>17 DEF Reindex
    <2>2. /\ "text" \in Rows(Rehydrated) => record.markdownKey
          /\ "page" \in Rows(Rehydrated) => record.pagesKey
      BY DEF Rows, Rehydrated, Bare
    <2>3. /\ record.markdownKey => "markdown" \in KeysOf(record)
          /\ record.pagesKey => "pages" \in KeysOf(record)
      BY DEF KeysOf
    <2> QED BY <2>1, <2>2, <2>3, <1>f DEF LeftoversAreKnown
  <1>18. CASE UNCHANGED materializeVars
    BY <1>18, <1>f DEF materializeVars, LeftoversAreKnown
  <1> QED BY <1>1, <1>2, <1>3, <1>5, <1>6, <1>8, <1>9, <1>11, <1>12, <1>13, <1>14, <1>15,
             <1>16, <1>17, <1>18 DEF MaterializeNext

THEOREM MaterialIsSound == MaterializeSpec => []MaterialInvariant
  <1>1. MaterializeInit => MaterialInvariant
    <2> SUFFICES ASSUME MaterializeInit PROVE MaterialInvariant OBVIOUS
    <2>0. /\ file \in [pdf: BOOLEAN, text: BOOLEAN, pages: BOOLEAN, bsn: BOOLEAN]
          /\ file.bsn => file.text
      BY DEF MaterializeInit
    <2>1. MaterializeTypeOK
      <3>1. Idle0 \in [step: Steps, attempt: 0 .. MaxRetries, fallback: BOOLEAN, result: Shape]
        BY ShapesAre, MaterializeAssumption DEF Idle0, Steps
      <3>2. imports \in 0 .. MaxImports BY MaterializeAssumption DEF MaterializeInit
      <3> QED BY <3>1, <3>2, <2>0 DEF MaterializeInit, MaterializeTypeOK
    <2> QED BY <2>0, <2>1, ShapesAre, MaterializeAssumption
            DEF MaterializeInit, Idle0, MaterialInvariant, NothingMarkedGoesOn,
                FileIsPossible, FallbackIsStored, AnswerIsStored, NamedTextIsStored,
                TextStaysNamed, At, AtService, ExtractsAnew, Marked, HasText
  <1>2. MaterialInvariant /\ [MaterializeNext]_materializeVars => MaterialInvariant'
    BY MaterialKeeps
  <1> QED BY <1>1, <1>2, PTL DEF MaterializeSpec

LEMMA MaterialIsAPart == ImportsSpec => MaterializeSpec
  <1>1. ImportsInit => MaterializeInit BY DEF ImportsInit
  <1>2. [ImportsNext]_<<component, queueVars, removalsVars, materializeVars, schedulerVars,
                        breakerVars, importVars, transcriptVars, clientVars, linkVars,
                        backfillVars>>
           => [MaterializeNext]_materializeVars
    BY DEF ImportsNext, QueueStep, RemovalsStep, MaterializeStep, SchedulerStep, BreakerStep,
           ExtractionStep, TranscriptStep, ClientStep, LinksStep, BackfillStep
  <1> QED BY <1>1, <1>2, PTL DEF ImportsSpec, MaterializeSpec

(* OnlyLeftoversEscapeTheScan: with automatic quarantine no import sends   *)
(* text that holds a BSN to the index, and a reindex only what a call of   *)
(* the service stored whose answer was lost or could not be acted on.      *)
THEOREM MarkedTextIsLeftover == ImportsSpec => []OnlyLeftoversEscapeTheScan
  <1>1. MaterializeInit => LeftoversAreKnown
    BY DEF MaterializeInit, LeftoversAreKnown, Idle0, Bare, KeysOf, At, AtService
  <1>2. MaterialInvariant /\ MaterialInvariant' /\ LeftoversAreKnown
          /\ [MaterializeNext]_materializeVars => LeftoversAreKnown'
    BY LeftoversStayKnown
  <1>3. MaterialInvariant /\ LeftoversAreKnown => OnlyLeftoversEscapeTheScan
    BY DEF MaterialInvariant, NothingMarkedGoesOn, Marked, LeftoversAreKnown,
           OnlyLeftoversEscapeTheScan
  <1> QED BY <1>1, <1>2, <1>3, MaterialIsAPart, MaterialIsSound, PTL DEF MaterializeSpec

(* StoredTextIsKept: a record that names a stored text is only followed by *)
(* one that names it too, but for a re-derivation.                         *)
THEOREM TextIsKept == ImportsSpec => StoredTextIsKept
  <1>1. ASSUME MaterialInvariant, [MaterializeNext]_materializeVars,
               record # NoRecord, record' # record, ~setting.rederive,
               record.markdownKey, IsCached
        PROVE  record'.markdownKey
    <2>1. Emit /\ ~blocklisted
      BY <1>1 DEF MaterializeNext, BeginImport, SupplierWithdraws, ChooseSource, ServiceAnswers,
             ServiceFails, TakeAnswer, BlocklistingFails, LocalPathFails, ExtractLocally,
             StoredFileUnreadable, RederiveLocally, Emit, Flush, ImportDies, Reindex, materializeVars
    <2>2. record' = work.result /\ At("emit") BY <2>1 DEF Emit
    <2>3. file.text BY <1>1 DEF MaterialInvariant, FileIsPossible, IsCached
    <2> QED BY <2>1, <2>2, <2>3, <1>1 DEF MaterialInvariant, TextStaysNamed, HasText
  <1>2. MaterialInvariant /\ [MaterializeNext]_materializeVars =>
           [record # NoRecord /\ record' # record /\ ~setting.rederive
              => (record.markdownKey /\ IsCached => record'.markdownKey)]_materializeVars
    BY <1>1
  <1> QED BY <1>2, MaterialIsAPart, MaterialIsSound, PTL DEF MaterializeSpec, StoredTextIsKept
-----------------------------------------------------------------------------
(* Breaker. A limiter blocks itself at least as long as its own throttles  *)
(* ask; a request that was not past the check when the block began waits   *)
(* until it is over, and there is one at most that was.                    *)
BlocksLastAsLong == \A l \in Limiters : held[l].until <= limiter[l].blockedUntil

NextOneWaits ==
    \A l \in Limiters :
       /\ held[l].until = 0 => held[l].sent = 0
       /\ held[l].sent <= 1
       /\ held[l].sent = 1 =>
             /\ callers[l].step # "slot"
             /\ callers[l].step = "blocked" => held[l].until <= callers[l].wakeAt

LimiterRows == [throttles: Nat, blockedUntil: Nat, nextSlotAt: Nat, trusted: Nat]
CallerRows == [step: {"none", "blocked", "slot"}, wakeAt: Nat, sent: Nat]
HeldRows == [until: Nat, sent: Nat]

BreakerIsTyped ==
    /\ limiter \in [Limiters -> LimiterRows]
    /\ callers \in [Limiters -> CallerRows]
    /\ sharedFile \in Nat /\ writes \in [Limiters -> Nat \cup {NoWrite}]
    /\ held \in [Limiters -> HeldRows]

BreakerInvariant == BreakerIsTyped /\ BlocksLastAsLong /\ NextOneWaits

LEMMA TimesAre ==
    /\ \A t \in Nat : Nearer(t) \in Nat /\ Nearer(t) = IF t = 0 THEN 0 ELSE t - 1
    /\ \A s \in Nat, t \in Int : Later(s, t) \in Nat /\ Later(s, t) >= s /\ Later(s, t) >= t
                         /\ (Later(s, t) = s \/ Later(s, t) = t)
    /\ \A n \in Nat \ {0} : Cooldown(n) \in Int
  <1>1. \A t \in Nat : Nearer(t) \in Nat /\ Nearer(t) = IF t = 0 THEN 0 ELSE t - 1
    BY DEF Nearer, Later
  <1>2. \A s \in Nat, t \in Int : Later(s, t) \in Nat /\ Later(s, t) >= s /\ Later(s, t) >= t
                          /\ (Later(s, t) = s \/ Later(s, t) = t)
    BY DEF Later
  <1>3. ASSUME NEW n \in Nat \ {0} PROVE Cooldown(n) \in Int
    <2>1. 2 ^ (n - 1) \in Int OBVIOUS
    <2>2. BaseCooldown * 2 ^ (n - 1) \in Int /\ MaxCooldown \in Nat
      BY <2>1, BreakerAssumption
    <2> QED BY <2>2 DEF Cooldown, Sooner
  <1> QED BY <1>1, <1>2, <1>3

LEMMA BreakerKeeps == BreakerInvariant /\ [BreakerNext]_breakerVars => BreakerInvariant'
  <1> SUFFICES ASSUME BreakerInvariant, [BreakerNext]_breakerVars PROVE BreakerInvariant'
    OBVIOUS
  <1> USE BreakerAssumption DEF BreakerInvariant
  <1>0. ASSUME NEW l \in Limiters
        PROVE  /\ limiter[l] \in LimiterRows /\ callers[l] \in CallerRows /\ held[l] \in HeldRows
               /\ writes[l] \in Nat \cup {NoWrite} /\ sharedFile \in Nat
    BY DEF BreakerIsTyped
  <1>1. CASE ClockTicks
    <2>1. ASSUME NEW l \in Limiters
          PROVE  /\ limiter'[l] \in LimiterRows /\ callers'[l] \in CallerRows
                 /\ held'[l] \in HeldRows
                 /\ limiter'[l].blockedUntil = Nearer(limiter[l].blockedUntil)
                 /\ callers'[l].step = callers[l].step
                 /\ callers'[l].wakeAt = Nearer(callers[l].wakeAt)
                 /\ held'[l].until = Nearer(held[l].until)
                 /\ held'[l].sent = IF held[l].until <= 1 THEN 0 ELSE held[l].sent
      BY <1>1, <1>0, TimesAre DEF ClockTicks, LimiterRows, CallerRows, HeldRows
    <2>2. /\ limiter' = [l \in Limiters |-> limiter'[l]]
          /\ callers' = [l \in Limiters |-> callers'[l]]
          /\ held' = [l \in Limiters |-> held'[l]]
      BY <1>1 DEF ClockTicks
    <2>3. writes' \in [Limiters -> Nat \cup {NoWrite}] /\ sharedFile' \in Nat
      BY <1>1, TimesAre DEF ClockTicks, BreakerIsTyped, NoWrite
    <2>4. BreakerIsTyped' BY <2>1, <2>2, <2>3 DEF BreakerIsTyped
    <2>5. BlocksLastAsLong'
      <3> SUFFICES ASSUME NEW l \in Limiters
                   PROVE  held'[l].until <= limiter'[l].blockedUntil
        BY DEF BlocksLastAsLong
      <3> DEFINE u == held[l].until
                 b == limiter[l].blockedUntil
      <3>1. u \in Nat /\ b \in Nat /\ u <= b
        BY <1>0 DEF BlocksLastAsLong, LimiterRows, HeldRows
      <3>2. held'[l].until = Nearer(u) /\ limiter'[l].blockedUntil = Nearer(b) BY <2>1
      <3> HIDE DEF u, b
      <3>3. Nearer(u) <= Nearer(b) BY <3>1 DEF Nearer, Later
      <3> QED BY <3>2, <3>3
    <2>6. NextOneWaits'
      <3> SUFFICES ASSUME NEW l \in Limiters
                   PROVE  /\ held'[l].until = 0 => held'[l].sent = 0
                          /\ held'[l].sent <= 1
                          /\ held'[l].sent = 1 =>
                                /\ callers'[l].step # "slot"
                                /\ callers'[l].step = "blocked" =>
                                      held'[l].until <= callers'[l].wakeAt
        BY DEF NextOneWaits
      <3>1. /\ held[l].until = 0 => held[l].sent = 0
            /\ held[l].sent <= 1
            /\ held[l].sent = 1 =>
                  /\ callers[l].step # "slot"
                  /\ callers[l].step = "blocked" => held[l].until <= callers[l].wakeAt
        BY DEF NextOneWaits
      <3> DEFINE u == held[l].until
                 w == callers[l].wakeAt
                 n == held[l].sent
      <3>2. u \in Nat /\ w \in Nat /\ n \in Nat BY <1>0 DEF CallerRows, HeldRows
      <3>3. /\ held'[l].until = Nearer(u) /\ callers'[l].wakeAt = Nearer(w)
            /\ held'[l].sent = (IF u <= 1 THEN 0 ELSE n) /\ callers'[l].step = callers[l].step
        BY <2>1
      <3>4. n <= 1 /\ (n = 1 /\ callers[l].step = "blocked" => u <= w)
            /\ (n = 1 => callers[l].step # "slot")
        BY <3>1
      <3> HIDE DEF u, w, n
      <3>5. (Nearer(u) = 0 => u <= 1) /\ (u <= w => Nearer(u) <= Nearer(w))
        BY <3>2 DEF Nearer, Later
      <3> QED BY <3>2, <3>3, <3>4, <3>5
    <2> QED BY <2>4, <2>5, <2>6
  (* A step of one limiter: the rows of the others stay.                   *)
  <1>2. ASSUME NEW l \in Limiters,
               limiter'[l] \in LimiterRows, callers'[l] \in CallerRows, held'[l] \in HeldRows,
               DOMAIN limiter' = Limiters, limiter' = [m \in Limiters |-> limiter'[m]],
               callers' = [m \in Limiters |-> callers'[m]],
               held' = [m \in Limiters |-> held'[m]],
               \A m \in Limiters \ {l} : /\ limiter'[m] = limiter[m]
                                         /\ callers'[m] = callers[m] /\ held'[m] = held[m],
               sharedFile' \in Nat, writes' \in [Limiters -> Nat \cup {NoWrite}],
               held'[l].until <= limiter'[l].blockedUntil,
               held'[l].until = 0 => held'[l].sent = 0,
               held'[l].sent <= 1,
               held'[l].sent = 1 =>
                  /\ callers'[l].step # "slot"
                  /\ callers'[l].step = "blocked" => held'[l].until <= callers'[l].wakeAt
        PROVE  BreakerInvariant'
    <2>1. BreakerIsTyped'
      <3>1. \A m \in Limiters : /\ limiter'[m] \in LimiterRows /\ callers'[m] \in CallerRows
                                /\ held'[m] \in HeldRows
        BY <1>0, <1>2
      <3> QED BY <3>1, <1>2 DEF BreakerIsTyped
    <2>2. BlocksLastAsLong' BY <1>2 DEF BlocksLastAsLong
    <2>3. NextOneWaits' BY <1>2 DEF NextOneWaits
    <2> QED BY <2>1, <2>2, <2>3
  <1>3. ASSUME NEW l \in Limiters
        PROVE  /\ held[l].until <= limiter[l].blockedUntil
               /\ held[l].until = 0 => held[l].sent = 0
               /\ held[l].sent <= 1
               /\ held[l].sent = 1 =>
                     /\ callers[l].step # "slot"
                     /\ callers[l].step = "blocked" => held[l].until <= callers[l].wakeAt
    BY DEF BlocksLastAsLong, NextOneWaits
  <1>4. ASSUME NEW l \in Limiters, Reserve(l) PROVE BreakerInvariant'
    <2>1. PICK block \in SharedBlocks(l) :
             /\ limiter' = [limiter EXCEPT ![l].blockedUntil = block,
                              ![l].trusted = IF @ > 0 THEN @ ELSE ReadTTL]
             /\ callers' = [callers EXCEPT ![l].step = "blocked", ![l].wakeAt = block]
             /\ held' = [held EXCEPT ![l].until = Later(@, block)]
      BY <1>4 DEF Reserve
    <2>2. block \in Nat /\ block >= limiter[l].blockedUntil
      BY <1>0, TimesAre DEF SharedBlocks, LimiterRows
    <2>3. /\ limiter'[l] \in LimiterRows /\ limiter'[l].blockedUntil = block
          /\ callers'[l] \in CallerRows /\ callers'[l].step = "blocked"
          /\ callers'[l].wakeAt = block
      BY <2>1, <2>2, <1>0 DEF LimiterRows, CallerRows, BreakerIsTyped
    <2>4. /\ writes' = writes /\ sharedFile' = sharedFile
          /\ held'[l] = [held[l] EXCEPT !.until = Later(@, block)]
      BY <1>4, <2>1 DEF Reserve, BreakerIsTyped
    <2>5. held[l].until \in Nat /\ Later(held[l].until, block) = block
      BY <2>2, <1>0, <1>3 DEF LimiterRows, HeldRows, Later
    <2>6. /\ held'[l] \in HeldRows /\ held'[l].until = block /\ held'[l].sent = held[l].sent
          /\ held'[l].until = 0 => held[l].until = 0
      BY <2>2, <2>4, <2>5, <1>0, <1>3 DEF LimiterRows, HeldRows
    <2>7. held' = [m \in Limiters |-> held'[m]] /\ \A m \in Limiters \ {l} : held'[m] = held[m]
      BY <2>1 DEF BreakerIsTyped
    <2>8. /\ held'[l].until <= limiter'[l].blockedUntil /\ held'[l].until <= callers'[l].wakeAt
          /\ held'[l].until = 0 => held'[l].sent = 0
          /\ held'[l].sent <= 1 /\ callers'[l].step # "slot"
      BY <2>2, <2>3, <2>6, <1>3
    <2>9. /\ DOMAIN limiter' = Limiters /\ limiter' = [m \in Limiters |-> limiter'[m]]
          /\ callers' = [m \in Limiters |-> callers'[m]]
          /\ \A m \in Limiters \ {l} : limiter'[m] = limiter[m] /\ callers'[m] = callers[m]
          /\ sharedFile' \in Nat /\ writes' \in [Limiters -> Nat \cup {NoWrite}]
      BY <2>1, <2>4 DEF BreakerIsTyped
    <2> QED BY <2>3, <2>6, <2>7, <2>8, <2>9, <1>2
  (* A request is sent: into a block only by the one that was past the     *)
  (* check.                                                                *)
  <1>5. ASSUME NEW l \in Limiters, Send(l), writes' = writes, sharedFile' = sharedFile,
               callers[l].step = "slot" \/ (callers[l].step = "blocked" /\ callers[l].wakeAt = 0)
        PROVE  BreakerInvariant'
    <2>1. /\ limiter'[l] \in LimiterRows /\ limiter'[l].blockedUntil = limiter[l].blockedUntil
          /\ callers'[l] \in CallerRows /\ callers'[l].step = "none"
          /\ held'[l] \in HeldRows /\ held'[l].until = held[l].until
          /\ held'[l].sent = IF held[l].until > 0 THEN held[l].sent + 1 ELSE held[l].sent
      <3>1. /\ limiter'[l] = [limiter[l] EXCEPT !.nextSlotAt = Interval]
            /\ callers'[l] = [callers[l] EXCEPT !.step = "none", !.wakeAt = 0, !.sent = @ + 1]
            /\ held'[l] = [held[l] EXCEPT !.sent = IF held[l].until > 0 THEN @ + 1 ELSE @]
        BY <1>5 DEF Send, BreakerIsTyped
      <3>2. /\ limiter[l] \in LimiterRows /\ callers[l] \in CallerRows
            /\ held[l] \in HeldRows /\ Interval \in Nat
        BY <1>0
      <3>3. held'[l] \in HeldRows /\ held'[l].until = held[l].until
            /\ held'[l].sent = IF held[l].until > 0 THEN held[l].sent + 1 ELSE held[l].sent
        BY <3>1, <3>2 DEF HeldRows
      <3>4. limiter'[l] \in LimiterRows /\ limiter'[l].blockedUntil = limiter[l].blockedUntil
        BY <3>1, <3>2 DEF LimiterRows
      <3>5. callers'[l] \in CallerRows /\ callers'[l].step = "none"
        <4>1. callers[l].sent + 1 \in Nat BY <3>2 DEF CallerRows
        <4>2. callers'[l] = [step |-> "none", wakeAt |-> 0, sent |-> callers[l].sent + 1]
          BY <3>1, <3>2 DEF CallerRows
        <4> QED BY <4>1, <4>2 DEF CallerRows
      <3> QED BY <3>3, <3>4, <3>5
    <2>2. held[l].until > 0 => held[l].sent = 0 BY <1>5, <1>3, <1>0 DEF HeldRows
    <2>3. /\ DOMAIN limiter' = Limiters /\ limiter' = [m \in Limiters |-> limiter'[m]]
          /\ callers' = [m \in Limiters |-> callers'[m]]
          /\ held' = [m \in Limiters |-> held'[m]]
          /\ \A m \in Limiters \ {l} : /\ limiter'[m] = limiter[m]
                                       /\ callers'[m] = callers[m] /\ held'[m] = held[m]
      BY <1>5 DEF Send, BreakerIsTyped
    <2>4. sharedFile' \in Nat /\ writes' \in [Limiters -> Nat \cup {NoWrite}]
      BY <1>5 DEF BreakerIsTyped
    <2>5. held'[l].sent <= 1 /\ (held'[l].until = 0 => held'[l].sent = 0)
      BY <2>1, <2>2, <1>3, <1>0 DEF HeldRows
    <2>6. held'[l].until <= limiter'[l].blockedUntil BY <2>1, <1>3
    <2> QED BY <2>1, <2>3, <2>4, <2>5, <2>6, <1>2
  <1>6. ASSUME NEW l \in Limiters, BlockIsOver(l) PROVE BreakerInvariant'
    <2>1. CASE limiter[l].nextSlotAt > 0
      <3>1. /\ callers' = [callers EXCEPT ![l].step = "slot", ![l].wakeAt = limiter[l].nextSlotAt]
            /\ UNCHANGED <<limiter, held, sharedFile, writes>>
            /\ callers[l].step = "blocked" /\ callers[l].wakeAt = 0
        BY <1>6, <2>1 DEF BlockIsOver
      <3>2. callers'[l] \in CallerRows
        BY <3>1, <1>0 DEF CallerRows, LimiterRows, BreakerIsTyped
      <3>3. held[l].sent # 1 BY <3>1, <1>3, <1>0 DEF HeldRows
      <3> QED BY <3>1, <3>2, <3>3, <1>0, <1>2, <1>3 DEF BreakerIsTyped
    <2>2. CASE ~(limiter[l].nextSlotAt > 0)
      <3>1. Send(l) /\ writes' = writes /\ sharedFile' = sharedFile
            /\ callers[l].step = "blocked" /\ callers[l].wakeAt = 0
        BY <1>6, <2>2 DEF BlockIsOver
      <3> QED BY <3>1, <1>5
    <2> QED BY <2>1, <2>2
  <1>7. ASSUME NEW l \in Limiters, SlotComes(l) PROVE BreakerInvariant'
    <2>1. Send(l) /\ writes' = writes /\ sharedFile' = sharedFile /\ callers[l].step = "slot"
      BY <1>7 DEF SlotComes
    <2> QED BY <2>1, <1>5
  <1>8. ASSUME NEW l \in Limiters, Throttled(l) PROVE BreakerInvariant'
    <2> DEFINE throttles == Sooner(limiter[l].throttles + 1, MaxThrottles)
               cooldown == Cooldown(throttles)
    <2>1. throttles \in Nat \ {0} /\ cooldown \in Int
      <3>1. throttles \in Nat \ {0} BY <1>0 DEF Sooner, LimiterRows
      <3> QED BY <3>1, TimesAre
    <2>2. /\ limiter' = [limiter EXCEPT ![l].throttles = throttles,
                                        ![l].blockedUntil = Block(l, cooldown)]
          /\ writes' = [writes EXCEPT ![l] = Block(l, cooldown)]
          /\ held' = [held EXCEPT ![l] = [until |-> Later(@.until, cooldown), sent |-> 0]]
          /\ callers' = [callers EXCEPT ![l].sent = @ - 1] /\ sharedFile' = sharedFile
          /\ callers[l].sent > 0
      BY <1>8 DEF Throttled
    <2> HIDE DEF throttles, cooldown
    <2>3. limiter[l].blockedUntil \in Nat /\ held[l].until \in Nat
      BY <1>0 DEF LimiterRows, HeldRows
    <2>4. /\ Block(l, cooldown) \in Nat /\ Later(held[l].until, cooldown) \in Nat
          /\ Later(held[l].until, cooldown) <= Block(l, cooldown)
      BY <2>1, <2>3, <1>3 DEF Block, Later
    <2>5. /\ limiter'[l] \in LimiterRows /\ limiter'[l].blockedUntil = Block(l, cooldown)
          /\ held'[l] \in HeldRows /\ held'[l].until = Later(held[l].until, cooldown)
          /\ held'[l].sent = 0
      BY <2>1, <2>2, <2>4, <1>0 DEF LimiterRows, HeldRows, BreakerIsTyped
    <2>6. callers'[l] \in CallerRows BY <2>2, <1>0 DEF CallerRows, BreakerIsTyped
    <2>7. writes' \in [Limiters -> Nat \cup {NoWrite}] /\ sharedFile' \in Nat
      BY <2>2, <2>4 DEF BreakerIsTyped
    <2>8. /\ DOMAIN limiter' = Limiters /\ limiter' = [m \in Limiters |-> limiter'[m]]
          /\ callers' = [m \in Limiters |-> callers'[m]]
          /\ held' = [m \in Limiters |-> held'[m]]
          /\ \A m \in Limiters \ {l} : /\ limiter'[m] = limiter[m]
                                       /\ callers'[m] = callers[m] /\ held'[m] = held[m]
      BY <2>2 DEF BreakerIsTyped
    <2> QED BY <2>4, <2>5, <2>6, <2>7, <2>8, <1>2
  <1>9. ASSUME NEW l \in Limiters, Answered(l) PROVE BreakerInvariant'
    <2>1. /\ limiter' \in {limiter, Succeeded(l)}
          /\ callers' = [callers EXCEPT ![l].sent = @ - 1] /\ callers[l].sent > 0
          /\ UNCHANGED <<sharedFile, writes, held>>
      BY <1>9 DEF Answered
    <2>2. /\ limiter'[l] \in LimiterRows /\ limiter'[l].blockedUntil = limiter[l].blockedUntil
          /\ DOMAIN limiter' = Limiters /\ limiter' = [m \in Limiters |-> limiter'[m]]
          /\ \A m \in Limiters \ {l} : limiter'[m] = limiter[m]
      <3>1. limiter' = limiter \/ limiter' = [limiter EXCEPT ![l].throttles = 0]
        BY <2>1 DEF Succeeded
      <3>2. [limiter[l] EXCEPT !.throttles = 0] \in LimiterRows BY <1>0 DEF LimiterRows
      <3> QED BY <3>1, <3>2, <1>0 DEF LimiterRows, BreakerIsTyped
    <2>3. /\ callers'[l] \in CallerRows /\ callers'[l].step = callers[l].step
          /\ callers'[l].wakeAt = callers[l].wakeAt
      BY <2>1, <1>0 DEF CallerRows, BreakerIsTyped
    <2>4. /\ callers' = [m \in Limiters |-> callers'[m]]
          /\ held' = [m \in Limiters |-> held'[m]]
          /\ \A m \in Limiters \ {l} : callers'[m] = callers[m] /\ held'[m] = held[m]
          /\ sharedFile' \in Nat /\ writes' \in [Limiters -> Nat \cup {NoWrite}]
      BY <2>1 DEF BreakerIsTyped
    <2>5. /\ held'[l] = held[l] /\ held'[l] \in HeldRows
          /\ held'[l].until <= limiter'[l].blockedUntil
          /\ held'[l].until = 0 => held'[l].sent = 0
          /\ held'[l].sent <= 1
          /\ held'[l].sent = 1 =>
                /\ callers'[l].step # "slot"
                /\ callers'[l].step = "blocked" => held'[l].until <= callers'[l].wakeAt
      <3>1. held' = held BY <2>1
      <3> QED BY <3>1, <2>2, <2>3, <1>0, <1>3
    <2> QED BY <2>2, <2>3, <2>4, <2>5, <1>2
  <1>10. ASSUME NEW l \in Limiters, WriteLands(l) PROVE BreakerInvariant'
    <2>1. /\ writes[l] # NoWrite /\ writes' = [writes EXCEPT ![l] = NoWrite]
          /\ sharedFile' \in {sharedFile, writes[l]}
          /\ UNCHANGED <<limiter, callers, held>>
      BY <1>10 DEF WriteLands
    <2>2. sharedFile' \in Nat /\ writes' \in [Limiters -> Nat \cup {NoWrite}]
      BY <2>1, <1>0 DEF BreakerIsTyped
    <2> QED BY <2>1, <2>2 DEF BreakerIsTyped, BlocksLastAsLong, NextOneWaits
  <1>11. CASE UNCHANGED breakerVars
    BY <1>11 DEF breakerVars, BreakerIsTyped, BlocksLastAsLong, NextOneWaits
  <1> QED BY <1>1, <1>4, <1>6, <1>7, <1>8, <1>9, <1>10, <1>11 DEF BreakerNext

THEOREM BreakerIsSound == BreakerSpec => []BreakerInvariant
  <1>1. BreakerInit => BreakerInvariant
    BY DEF BreakerInit, BreakerInvariant, BreakerIsTyped, BlocksLastAsLong, NextOneWaits,
           LimiterRows, CallerRows, HeldRows
  <1>2. BreakerInvariant /\ [BreakerNext]_breakerVars => BreakerInvariant'
    BY BreakerKeeps
  <1> QED BY <1>1, <1>2, PTL DEF BreakerSpec

LEMMA BreakerIsAPart == ImportsSpec => BreakerSpec
  <1>1. ImportsInit => BreakerInit BY DEF ImportsInit
  <1>2. [ImportsNext]_<<component, queueVars, removalsVars, materializeVars, schedulerVars,
                        breakerVars, importVars, transcriptVars, clientVars, linkVars,
                        backfillVars>>
           => [BreakerNext]_breakerVars
    BY DEF ImportsNext, QueueStep, RemovalsStep, MaterializeStep, SchedulerStep, BreakerStep,
           ExtractionStep, TranscriptStep, ClientStep, LinksStep, BackfillStep
  <1> QED BY <1>1, <1>2, PTL DEF ImportsSpec, BreakerSpec
-----------------------------------------------------------------------------
(* IbabsClient. A call counts what it met: each throttle once, and each    *)
(* lost connection once, until something it does not try again.            *)
Lost == {"dropped", "unread"}
Counted(s, whats) == Cardinality({ i \in DOMAIN s : s[i] \in whats })

LEMMA OneMoreMet ==
    ASSUME NEW s \in Seq(Encounters), NEW w, NEW whats
    PROVE  /\ Counted(s, whats) \in Nat
           /\ w \in whats => Counted(Append(s, w), whats) = Counted(s, whats) + 1
           /\ w \notin whats => Counted(Append(s, w), whats) = Counted(s, whats)
  <1> DEFINE A == { i \in DOMAIN s : s[i] \in whats }
             B == { i \in DOMAIN Append(s, w) : Append(s, w)[i] \in whats }
             n == Len(s) + 1
  <1>1. /\ Len(s) \in Nat /\ DOMAIN s = 1 .. Len(s) /\ DOMAIN Append(s, w) = 1 .. n
        /\ \A i \in 1 .. Len(s) : Append(s, w)[i] = s[i]
        /\ Append(s, w)[n] = w
    OBVIOUS
  <1>2. IsFiniteSet(A) /\ Cardinality(A) \in Nat
    <2>1. IsFiniteSet(1 .. Len(s)) BY <1>1, 1 \in Int, FS_Interval
    <2>2. A \subseteq 1 .. Len(s) BY <1>1
    <2> QED BY <2>1, <2>2, FS_Subset, FS_CardinalityType
  <1>3. n \notin A BY <1>1
  <1>4. CASE w \in whats
    <2>1. B = A \cup {n} BY <1>1, <1>4
    <2>2. Cardinality(A \cup {n}) = Cardinality(A) + 1 BY <1>2, <1>3, FS_AddElement
    <2> QED BY <2>1, <2>2, <1>2, <1>4 DEF Counted
  <1>5. CASE w \notin whats
    <2>1. B = A BY <1>1, <1>5
    <2> QED BY <2>1, <1>2, <1>5 DEF Counted
  <1> QED BY <1>4, <1>5

Calls == [op: SoapOperations \cup {"download"},
          step: {"turn", "sent", "resting", "returned", "failed"},
          throttles: Nat, transports: Nat, rest: Int, rows: SUBSET ClientRows, body: Bodies]

CallIsTyped ==
    /\ call \in Calls /\ met \in Seq(Encounters)
    /\ told \in [throttle: Nat, success: Nat]
    /\ call.op = "download" => call.step # "resting"

CallCounts ==
    call.op # "download" =>
        /\ call.throttles = Counted(met, Throttles) /\ told.throttle = call.throttles
        /\ call.step # "failed" =>
              /\ call.throttles <= ThrottleRetries
              /\ call.transports = Counted(met, Lost) /\ call.transports < TransportTries
        /\ call.step = "failed" =>
              /\ LastMet \in Throttles => call.throttles = ThrottleRetries + 1
              /\ LastMet \in Lost =>
                    call.transports = Counted(met, Lost) /\ call.transports = TransportTries
        /\ call.step = "resting" /\ LastMet = "throttled" => call.rest = 2 ^ (call.throttles - 1)

DownloadsTell ==
    call.op = "download" => told.throttle = Counted(met, {"blocked", "throttled"})

BlocksEndIt ==
    call.op # "download" =>
        \A i \in DOMAIN met : met[i] = "blocked" => i = Len(met) /\ call.step = "failed"

ClientInvariant ==
    CallIsTyped /\ CallCounts /\ DownloadsTell /\ BlocksEndIt /\ ErrorsAreNoAnswers

LEMMA CallMoves ==
    ASSUME call \in Calls, NEW step \in {"turn", "resting", "failed"}, NEW n \in Nat, NEW r \in Int
    PROVE  /\ [call EXCEPT !.step = step, !.rest = r] \in Calls
           /\ [call EXCEPT !.throttles = n, !.step = step, !.rest = r] \in Calls
           /\ [call EXCEPT !.transports = n, !.rest = r, !.step = step] \in Calls
  <1>1. [call EXCEPT !.step = step, !.rest = r] \in Calls BY DEF Calls
  <1>2. [call EXCEPT !.throttles = n, !.step = step, !.rest = r] \in Calls BY DEF Calls
  <1>3. [call EXCEPT !.transports = n, !.rest = r, !.step = step] \in Calls BY DEF Calls
  <1> QED BY <1>1, <1>2, <1>3

LEMMA ClientKeeps == ClientInvariant /\ [ClientNext]_clientVars => ClientInvariant'
  <1> SUFFICES ASSUME ClientInvariant, [ClientNext]_clientVars PROVE ClientInvariant'
    OBVIOUS
  <1> USE ClientAssumption DEF ClientInvariant
  <1>0. /\ call \in Calls /\ met \in Seq(Encounters) /\ told \in [throttle: Nat, success: Nat]
        /\ call.op = "download" => call.step # "resting"
    BY DEF CallIsTyped
  <1>1. ASSUME NEW what \in Encounters, Meets(what)
        PROVE  /\ met' \in Seq(Encounters) /\ LastMet' = what
               /\ DOMAIN met' = 1 .. Len(met) + 1 /\ Len(met') = Len(met) + 1
               /\ Len(met) \in Nat /\ DOMAIN met = 1 .. Len(met)
               /\ \A i \in DOMAIN met : met'[i] = met[i]
               /\ met'[Len(met) + 1] = what
               /\ Counted(met, Throttles) \in Nat /\ Counted(met, Lost) \in Nat
               /\ what \in Throttles => Counted(met', Throttles) = Counted(met, Throttles) + 1
               /\ what \notin Throttles => Counted(met', Throttles) = Counted(met, Throttles)
               /\ what \in Lost => Counted(met', Lost) = Counted(met, Lost) + 1
               /\ what \notin Lost => Counted(met', Lost) = Counted(met, Lost)
    <2>1. met' = Append(met, what) BY <1>1 DEF Meets
    <2>2. /\ Append(met, what) \in Seq(Encounters) /\ Len(met) \in Nat
          /\ DOMAIN met = 1 .. Len(met)
          /\ DOMAIN Append(met, what) = 1 .. Len(met) + 1
          /\ Len(Append(met, what)) = Len(met) + 1
          /\ \A i \in 1 .. Len(met) : Append(met, what)[i] = met[i]
          /\ Append(met, what)[Len(met) + 1] = what
      BY <1>0
    <2> QED BY <2>1, <2>2, <1>0, OneMoreMet DEF LastMet
  (* What was met leaves the call in this shape, for the SOAP operations.   *)
  <1>2. ASSUME Soap, NEW what \in Encounters, Meets(what), call' \in Calls,
               call'.op = call.op, told' \in [throttle: Nat, success: Nat],
               what = "blocked" => call'.step = "failed"
        PROVE  CallIsTyped' /\ BlocksEndIt' /\ DownloadsTell'
    <2>1. CallIsTyped' BY <1>2, <1>1 DEF CallIsTyped, Soap
    <2>2. \A i \in DOMAIN met : met[i] # "blocked" BY <1>2 DEF BlocksEndIt, Soap
    <2>3. BlocksEndIt'
      <3> SUFFICES ASSUME NEW i \in DOMAIN met', met'[i] = "blocked"
                   PROVE  i = Len(met') /\ call'.step = "failed"
        BY DEF BlocksEndIt
      <3>1. i = Len(met) + 1 BY <2>2, <1>1, <1>2
      <3> QED BY <3>1, <1>1, <1>2
    <2>4. DownloadsTell' BY <1>2 DEF DownloadsTell, Soap
    <2> QED BY <2>1, <2>3, <2>4
  <1>3. Soap => /\ call.throttles = Counted(met, Throttles) /\ told.throttle = call.throttles
                /\ call.throttles <= ThrottleRetries
                /\ call.transports = Counted(met, Lost) /\ call.transports < TransportTries
    BY DEF Soap, CallCounts
  <1>4. CASE Request
    <2>1. call.step = "turn" /\ call' = [call EXCEPT !.step = "sent"] /\ met' = met /\ told' = told
      BY <1>4 DEF Request
    <2>2. /\ call' \in Calls /\ call'.step = "sent" /\ call'.op = call.op
          /\ call'.throttles = call.throttles /\ call'.transports = call.transports
          /\ call'.body = call.body
      BY <2>1, <1>0 DEF Calls
    <2> QED BY <2>1, <2>2 DEF CallIsTyped, CallCounts, DownloadsTell, BlocksEndIt, ErrorsAreNoAnswers,
                               LastMet
  <1>5. CASE SoapBlocked
    <2>1. Soap /\ Meets("blocked") /\ call' = [call EXCEPT !.step = "failed"] /\ told' = told
      BY <1>5 DEF SoapBlocked
    <2>2. /\ call' \in Calls /\ call'.step = "failed" /\ call'.op = call.op
          /\ call'.throttles = call.throttles
      BY <2>1, <1>0 DEF Calls
    <2>3. "blocked" \in Encounters /\ "blocked" \notin Throttles /\ "blocked" \notin Lost
      BY DEF Encounters, Throttles, Lost
    <2> QED BY <2>1, <2>2, <2>3, <1>0, <1>1, <1>2, <1>3 DEF CallCounts, ErrorsAreNoAnswers
  <1>6. CASE SoapThrottled
    <2>1. PICK hint \in RetryAfters \cup {Unsaid} :
             /\ Meets(IF hint = Unsaid THEN "throttled" ELSE "hinted")
             /\ call' = AfterThrottle(hint)
      BY <1>6 DEF SoapThrottled
    <2>2. Soap /\ told' = [told EXCEPT !.throttle = @ + 1] BY <1>6 DEF SoapThrottled
    <2> DEFINE what == IF hint = Unsaid THEN "throttled" ELSE "hinted"
               n == call.throttles + 1
    <2>3. what \in Encounters /\ what \in Throttles /\ what \notin Lost /\ what # "blocked"
      BY DEF Encounters, Throttles, Lost
    <2>4. n \in Nat /\ Delay(n, hint) \in Int /\ (what = "throttled" => Delay(n, hint) = 2 ^ (n - 1))
      <3>1. call.throttles \in Nat BY <1>0 DEF Calls
      <3>2. n \in Nat /\ n - 1 \in Nat BY <3>1
      <3> HIDE DEF n
      <3>3. 2 ^ (n - 1) \in Int BY <3>2
      <3> QED BY <3>2, <3>3 DEF Delay
    <2>5. call' = [call EXCEPT !.throttles = n,
                     !.step = IF n > ThrottleRetries THEN "failed" ELSE "resting",
                     !.rest = IF n > ThrottleRetries THEN 0 ELSE Delay(n, hint)]
      BY <2>1 DEF AfterThrottle
    <2> HIDE DEF what
    <2>6. /\ call' \in Calls /\ call'.op = call.op /\ call'.throttles = n
          /\ call'.transports = call.transports
          /\ call'.step = (IF n > ThrottleRetries THEN "failed" ELSE "resting")
          /\ n <= ThrottleRetries => call'.rest = Delay(n, hint)
      <3> DEFINE step == IF n > ThrottleRetries THEN "failed" ELSE "resting"
                 r == IF n > ThrottleRetries THEN 0 ELSE Delay(n, hint)
      <3>1. step \in {"turn", "resting", "failed"} /\ r \in Int BY <2>4
      <3>2. call' = [call EXCEPT !.throttles = n, !.step = step, !.rest = r] BY <2>5
      <3> HIDE DEF step, r, n
      <3>3. call' \in Calls BY <3>1, <3>2, <2>4, <1>0, CallMoves
      <3>4. /\ call'.op = call.op /\ call'.throttles = n /\ call'.transports = call.transports
            /\ call'.step = step /\ call'.rest = r
        BY <3>2, <1>0 DEF Calls
      <3> QED BY <3>3, <3>4, <2>4 DEF step, r
    <2>7. Meets(what) BY <2>1 DEF what
    <2>8. told' \in [throttle: Nat, success: Nat] /\ told'.throttle = told.throttle + 1
      BY <2>2, <1>0
    <2>9. CallCounts'
      BY <2>2, <2>3, <2>4, <2>6, <2>7, <2>8, <1>0, <1>1, <1>3 DEF CallCounts
    <2>10. ErrorsAreNoAnswers' BY <2>6 DEF ErrorsAreNoAnswers
    <2> QED BY <2>2, <2>3, <2>6, <2>7, <2>8, <2>9, <2>10, <1>2
  (* A failure that is no throttle.                                        *)
  <1>7. ASSUME Soap, NEW what \in {"refused", "dropped", "unread"}, Meets(what),
               call' = AfterFailure(what # "refused"),
               told' \in [throttle: Nat, success: Nat], told'.throttle = told.throttle
        PROVE  ClientInvariant'
    <2> DEFINE n == call.transports + 1
               again == n < TransportTries /\ what # "refused"
    <2>1. n \in Nat BY <1>0 DEF Calls
    <2>2. call' = [call EXCEPT !.transports = n, !.rest = 0,
                     !.step = IF again THEN "resting" ELSE "failed"]
      BY <1>7 DEF AfterFailure
    <2>3. /\ call' \in Calls /\ call'.op = call.op /\ call'.throttles = call.throttles
          /\ call'.transports = n /\ call'.step = (IF again THEN "resting" ELSE "failed")
      <3> DEFINE step == IF again THEN "resting" ELSE "failed"
      <3>1. step \in {"turn", "resting", "failed"} /\ 0 \in Int OBVIOUS
      <3>2. call' = [call EXCEPT !.transports = n, !.rest = 0, !.step = step] BY <2>2
      <3> HIDE DEF step, n
      <3>3. call' \in Calls BY <3>1, <3>2, <2>1, <1>0, CallMoves
      <3>4. /\ call'.op = call.op /\ call'.throttles = call.throttles
            /\ call'.transports = n /\ call'.step = step
        BY <3>2, <1>0 DEF Calls
      <3> QED BY <3>3, <3>4 DEF step
    <2>4. what \in Encounters /\ what \notin Throttles /\ (what \in Lost <=> what # "refused")
          /\ what # "blocked"
      BY DEF Encounters, Throttles, Lost
    <2>5. CallCounts'
      BY <2>1, <2>3, <2>4, <1>0, <1>1, <1>3, <1>7 DEF CallCounts, Throttles
    <2>6. ErrorsAreNoAnswers' BY <2>3 DEF ErrorsAreNoAnswers
    <2> QED BY <2>3, <2>4, <2>5, <2>6, <1>2, <1>7
  <1>8. CASE SoapRefused BY <1>8, <1>0, <1>7 DEF SoapRefused
  <1>9. CASE SoapDropped BY <1>9, <1>0, <1>7 DEF SoapDropped
  <1>10. CASE SoapUnread
    <2>1. told' \in [throttle: Nat, success: Nat] /\ told'.throttle = told.throttle
      BY <1>10, <1>0 DEF SoapUnread
    <2> QED BY <2>1, <1>10, <1>7 DEF SoapUnread
  <1>11. CASE Rested
    <2>1. /\ call.step = "resting" /\ call' = [call EXCEPT !.step = "turn", !.rest = 0]
          /\ met' = met /\ told' = told
      BY <1>11 DEF Rested
    <2>2. /\ call' \in Calls /\ call'.step = "turn" /\ call'.op = call.op
          /\ call'.throttles = call.throttles /\ call'.transports = call.transports
      <3>1. call' \in Calls BY <2>1, <1>0, 0 \in Int, CallMoves
      <3> QED BY <3>1, <2>1, <1>0 DEF Calls
    <2> QED BY <2>1, <2>2 DEF CallIsTyped, CallCounts, DownloadsTell, BlocksEndIt, ErrorsAreNoAnswers,
                               LastMet
  <1>12. CASE SoapAnswered
    <2>1. /\ Soap /\ Meets("answered") /\ told' = [told EXCEPT !.success = @ + 1]
      BY <1>12 DEF SoapAnswered
    <2>2. PICK body \in Bodies :
             LET read == Parsed(call.op, body)
             IN  call' = [call EXCEPT !.step = IF read.ok THEN "returned" ELSE "failed",
                                      !.rows = read.rows, !.body = body]
      BY <1>12 DEF SoapAnswered
    <2> DEFINE read == Parsed(call.op, body)
    <2>3. read.rows \subseteq ClientRows BY DEF Parsed, Bodies
    <2>4. read.ok => \/ body.node /\ Empty(call.op, body)
                     \/ body.node /\ ~Erroneous(call.op, body)
      BY DEF Parsed
    <2> HIDE DEF read
    <2>5. /\ call' \in Calls /\ call'.op = call.op /\ call'.throttles = call.throttles
          /\ call'.transports = call.transports /\ call'.body = body
          /\ call'.step = (IF read.ok THEN "returned" ELSE "failed")
      BY <2>2, <2>3, <1>0 DEF Calls, read
    <2>6. "answered" \in Encounters /\ "answered" \notin Throttles /\ "answered" \notin Lost
      BY DEF Encounters, Throttles, Lost
    <2>7. told' \in [throttle: Nat, success: Nat] /\ told'.throttle = told.throttle
      BY <2>1, <1>0
    <2>8. CallCounts'
      BY <2>1, <2>5, <2>6, <2>7, <1>0, <1>1, <1>3 DEF CallCounts, Throttles
    <2>9. ErrorsAreNoAnswers' BY <2>4, <2>5 DEF ErrorsAreNoAnswers, Empty, Erroneous
    <2> QED BY <2>1, <2>5, <2>6, <2>7, <2>8, <2>9, <1>2
  <1>13. CASE Downloads
    <2>1. PICK what \in Encounters \ {"hinted"} :
             /\ Meets(what)
             /\ call' = [call EXCEPT !.step = IF what = "answered" THEN "returned" ELSE "failed"]
             /\ told' = CASE what \in {"blocked", "throttled"} -> [told EXCEPT !.throttle = @ + 1]
                          [] what \in {"unread", "answered"} -> [told EXCEPT !.success = @ + 1]
                          [] OTHER -> told
      BY <1>13 DEF Downloads
    <2>2. /\ call' \in Calls /\ call'.op = "download" /\ call'.step \in {"returned", "failed"}
      BY <2>1, <1>0, <1>13 DEF Downloads, Calls
    <2>3. told' \in [throttle: Nat, success: Nat]
      <3>1. \/ told' = [told EXCEPT !.throttle = @ + 1]
            \/ told' = [told EXCEPT !.success = @ + 1]
            \/ told' = told
        BY <2>1
      <3> QED BY <3>1, <1>0
    <2>4. met' \in Seq(Encounters) BY <2>1, <1>1
    <2>5. told'.throttle = IF what \in {"blocked", "throttled"} THEN told.throttle + 1
                           ELSE told.throttle
      BY <2>1, <1>0 DEF Encounters
    <2>6. /\ call.op = "download"
          /\ told.throttle = Counted(met, {"blocked", "throttled"})
          /\ met' = Append(met, what)
      BY <2>1, <1>13 DEF Downloads, DownloadsTell, Meets
    <2>7. told'.throttle = Counted(met', {"blocked", "throttled"})
      BY <2>5, <2>6, <1>0, OneMoreMet
    <2> QED BY <2>2, <2>3, <2>4, <2>7
            DEF CallIsTyped, CallCounts, DownloadsTell, BlocksEndIt, ErrorsAreNoAnswers
  <1>14. CASE UNCHANGED clientVars
    BY <1>14 DEF clientVars, CallIsTyped, CallCounts, DownloadsTell, BlocksEndIt,
                    ErrorsAreNoAnswers, LastMet
  <1> QED BY <1>4, <1>5, <1>6, <1>8, <1>9, <1>10, <1>11, <1>12, <1>13, <1>14 DEF ClientNext

THEOREM ClientIsSound == ClientSpec => []ClientInvariant
  <1>1. ClientInit => ClientInvariant
    <2> SUFFICES ASSUME ClientInit PROVE ClientInvariant OBVIOUS
    <2>1. NoBody \in Bodies BY DEF NoBody, Bodies, Messages
    <2>2. /\ call \in Calls /\ call.step = "turn" /\ call.throttles = 0 /\ call.transports = 0
      BY <2>1 DEF ClientInit, Calls
    <2>3. /\ Counted(<<>>, Throttles) = 0 /\ Counted(<<>>, Lost) = 0
          /\ Counted(<<>>, {"blocked", "throttled"}) = 0
      BY FS_EmptySet DEF Counted
    <2> QED BY <2>2, <2>3, ClientAssumption
            DEF ClientInit, ClientInvariant, CallIsTyped, CallCounts, DownloadsTell, BlocksEndIt,
                ErrorsAreNoAnswers
  <1>2. ClientInvariant /\ [ClientNext]_clientVars => ClientInvariant' BY ClientKeeps
  <1> QED BY <1>1, <1>2, PTL DEF ClientSpec

LEMMA ClientIsAPart == ImportsSpec => ClientSpec
  <1>1. ImportsInit => ClientInit BY DEF ImportsInit
  <1>2. [ImportsNext]_<<component, queueVars, removalsVars, materializeVars, schedulerVars,
                        breakerVars, importVars, transcriptVars, clientVars, linkVars,
                        backfillVars>>
           => [ClientNext]_clientVars
    BY DEF ImportsNext, QueueStep, RemovalsStep, MaterializeStep, SchedulerStep, BreakerStep,
           ExtractionStep, TranscriptStep, ClientStep, LinksStep, BackfillStep, LaterOnesRest
  <1> QED BY <1>1, <1>2, PTL DEF ImportsSpec, ClientSpec

(* ThrottlesAreHeeded, for any number of limiters and calls: a limiter     *)
(* sends at most one request into a block it knows of, and is told of      *)
(* every throttle; a SOAP call gives up on a throttle and on a lost        *)
(* connection after their own patience, and takes no error for an empty    *)
(* answer, GetLists apart.                                                 *)
THEOREM ThrottlesHeeded == ImportsSpec => []ThrottlesAreHeeded
  <1>1. BreakerInvariant => ThrottleHolds
    BY DEF BreakerInvariant, NextOneWaits, ThrottleHolds
  <1>2. ClientInvariant => ClientIsHonest
    <2> SUFFICES ASSUME ClientInvariant PROVE ClientIsHonest OBVIOUS
    <2>1. CallIsTyped /\ CallCounts /\ DownloadsTell /\ BlocksEndIt /\ ErrorsAreNoAnswers
      BY DEF ClientInvariant
    <2>2. TimesMet(Throttles) = Counted(met, Throttles)
          /\ TimesMet({"dropped", "unread"}) = Counted(met, Lost)
      <3>1. TimesMet(Throttles) = Counted(met, Throttles) BY DEF TimesMet, Counted
      <3>2. TimesMet(Lost) = Counted(met, Lost) BY DEF TimesMet, Counted
      <3> QED BY <3>1, <3>2 DEF Lost
    <2>r. TimesMet({"blocked", "throttled"}) = Counted(met, {"blocked", "throttled"})
      BY DEF TimesMet, Counted
    <2>3. PatienceIsSeparate
      BY <2>1, <2>2 DEF PatienceIsSeparate, CallIsTyped, CallCounts, Lost
    <2>4. BreakerIsToldTheTruth
      BY <2>1, <2>2, <2>r DEF BreakerIsToldTheTruth, CallCounts, DownloadsTell, BlocksEndIt
    <2> QED BY <2>1, <2>3, <2>4 DEF ClientIsHonest
  <1>3. ThrottleHolds /\ ClientIsHonest => ThrottlesAreHeeded BY DEF ThrottlesAreHeeded
  <1> QED BY <1>1, <1>2, <1>3, BreakerIsAPart, BreakerIsSound, ClientIsAPart, ClientIsSound, PTL
-----------------------------------------------------------------------------
(* SourceRemovals. Types, as far as the argument needs them.               *)
Listings == UNION ({ [ms -> SUBSET Documents] : ms \in SUBSET Meetings })

RunRows == [phase: Phases, todo: SUBSET (Meetings \cup Documents \cup Candidate),
            listing: Listings, skipped: SUBSET Documents, plan: SUBSET Candidate,
            gone: SUBSET Candidate, live: SUBSET Candidate,
            control: Documents \cup {NoDocument}]

TrackerRows == [candidates: [Documents -> Meetings \cup {NoMeeting}],
                emitted: SUBSET Documents,
                observed: [Meetings -> (SUBSET Documents) \cup {NotSeen}],
                control: Documents \cup {NoDocument}]

RemovalsAreTyped ==
    /\ supplier \in [lists: [Meetings -> SUBSET Documents], served: SUBSET Documents,
                     refusing: BOOLEAN, changes: Nat]
    /\ clock \in Times
    /\ records \in [Meetings -> SUBSET Documents]
    /\ feed \in [Documents -> {"none", "live", "tombstone"}]
    /\ index \in [Documents -> {"none", "shown", "hidden"}]
    /\ suspects \subseteq [doc: Documents, meeting: Meetings, seen: Times]
    /\ run \in RunRows /\ tracker \in TrackerRows
    /\ blind \in BOOLEAN

(* What a phase holds: nothing is planned before the plan, and only what   *)
(* the plan names is asked, gone or retracted.                             *)
BeforeThePlan == run.phase \in {"idle", "meetings", "documents", "planning"}

PlansAreKept ==
    /\ run.gone \subseteq run.plan
    /\ BeforeThePlan => run.plan = {}
    /\ InPhase("probing") => run.todo \subseteq run.plan
    /\ InPhase("retracting") => run.todo \subseteq Confirmed

(* The log's lists are the run's, once their meetings were emitted; a      *)
(* document that was emitted is on one of them.                            *)
ListsAreWritten ==
    /\ InPhase("meetings") =>
         /\ run.todo \subseteq DOMAIN run.listing
         /\ \A m \in DOMAIN run.listing \ run.todo : records[m] = run.listing[m]
         /\ tracker.emitted = {}
    /\ InPhase("documents") =>
         /\ \A m \in DOMAIN run.listing : records[m] = run.listing[m]
         /\ \A d \in run.todo : \E m \in DOMAIN run.listing : d \in run.listing[m]
    /\ run.phase \in {"documents", "planning"} => tracker.emitted \subseteq Listed(records)

(* Where an unlisted live document is waiting to be named.                 *)
Waiting(d) ==
    \/ d \in Traced
    \/ /\ run.phase \in {"meetings", "documents", "planning"}
       /\ d \in run.skipped \/ tracker.candidates[d] # NoMeeting
    \/ ~BeforeThePlan /\ \E c \in run.plan : c.doc = d

AccountedFor == \A d \in Documents : Unlisted(d) => Waiting(d)

(* While no refusal slipped in behind the control document, every "gone"   *)
(* the run acts on was the truth.                                          *)
Sighted(d, t) == [doc |-> d, at |-> t] \in sightings

SightingsAreTrue ==
    ~blind =>
      /\ \A s \in suspects : Sighted(s.doc, s.seen)
      /\ \A c \in run.plan : c.seen # Never => Sighted(c.doc, c.seen) /\ clock - c.seen >= MinAge
      /\ \A c \in run.gone : Sighted(c.doc, clock)
      /\ InPhase("probing") => ~supplier.refusing

RemovalsInvariant ==
    /\ RemovalsAreTyped
    /\ PlansAreKept
    /\ ListsAreWritten
    /\ AccountedFor
    /\ SightingsAreTrue

LEMMA ListingsAre ==
    /\ <<>> \in Listings
    /\ \A f \in Listings : DOMAIN f \subseteq Meetings /\ \A m \in DOMAIN f : f[m] \subseteq Documents
  <1>1. <<>> \in [{} -> SUBSET Documents] OBVIOUS
  <1>2. {} \in SUBSET Meetings OBVIOUS
  <1>3. <<>> \in Listings BY <1>1, <1>2 DEF Listings
  <1>4. \A f \in Listings : DOMAIN f \subseteq Meetings /\ \A m \in DOMAIN f : f[m] \subseteq Documents
    BY DEF Listings
  <1> QED BY <1>3, <1>4

LEMMA IdleIsTyped ==
    /\ Idle \in RunRows /\ Idle.phase = "idle" /\ Idle.plan = {} /\ Idle.gone = {}
    /\ EmptyTracker \in TrackerRows
    /\ \A d \in Documents : EmptyTracker.candidates[d] = NoMeeting
    /\ EmptyTracker.emitted = {}
  <1>1. Idle \in RunRows /\ Idle.phase = "idle" /\ Idle.plan = {} /\ Idle.gone = {}
    BY ListingsAre DEF Idle, RunRows, Phases
  <1>2. /\ EmptyTracker \in TrackerRows
        /\ \A d \in Documents : EmptyTracker.candidates[d] = NoMeeting
        /\ EmptyTracker.emitted = {}
    BY DEF EmptyTracker, TrackerRows
  <1> QED BY <1>1, <1>2

LEMMA PlannedIsTyped ==
    ASSUME RemovalsAreTyped
    PROVE  /\ Removals \subseteq Candidate
           /\ Remembered \subseteq suspects
           /\ SecondSightings \subseteq Remembered
           /\ \A control \in Controls : control \in Documents \cup {NoDocument}
  <1>1. Remembered \subseteq suspects /\ SecondSightings \subseteq Remembered
    BY DEF Remembered, SecondSightings
  <1>2. \A s \in SecondSightings : /\ s.doc \in Documents /\ s.meeting \in Meetings
                                   /\ s.seen \in Times
    BY <1>1 DEF RemovalsAreTyped
  <1>3. \A d \in Documents : tracker.candidates[d] # NoMeeting => tracker.candidates[d] \in Meetings
    BY DEF RemovalsAreTyped, TrackerRows
  <1>4. Removals \subseteq Candidate
    <2> SUFFICES ASSUME NEW c \in Removals PROVE c \in Candidate OBVIOUS
    <2>1. c \in PendingRemovals BY DEF Removals
    <2>2. \/ \E s \in SecondSightings : c = [doc |-> s.doc, meeting |-> s.meeting, seen |-> s.seen]
          \/ \E d \in Documents : /\ tracker.candidates[d] # NoMeeting
                                  /\ c = [doc |-> d, meeting |-> tracker.candidates[d], seen |-> Never]
      BY <2>1 DEF PendingRemovals
    <2> QED BY <2>2, <1>2, <1>3 DEF Candidate
  <1>5. \A s \in SecondSightings : tracker.observed[s.meeting] \subseteq Documents
    <2> SUFFICES ASSUME NEW s \in SecondSightings
                 PROVE  tracker.observed[s.meeting] \subseteq Documents
      OBVIOUS
    <2>1. tracker.observed[s.meeting] # NotSeen BY DEF SecondSightings, MeetingCameBack
    <2> QED BY <2>1, <1>2 DEF RemovalsAreTyped, TrackerRows
  <1>6. \A control \in Controls : control \in Documents \cup {NoDocument}
    BY <1>5 DEF Controls, RemovalsAreTyped, TrackerRows
  <1> QED BY <1>1, <1>4, <1>6

(* The parts of the invariant that only look at some variables.            *)
LEMMA TypesStay ==
    ASSUME RemovalsAreTyped, run' \in RunRows, tracker' \in TrackerRows,
           records' \in [Meetings -> SUBSET Documents],
           suspects' \subseteq [doc: Documents, meeting: Meetings, seen: Times],
           UNCHANGED <<supplierVars, blind>>,
           feed' \in [Documents -> {"none", "live", "tombstone"}],
           index' \in [Documents -> {"none", "shown", "hidden"}]
    PROVE  RemovalsAreTyped'
  BY DEF RemovalsAreTyped, supplierVars

LEMMA EmptyRunIsKept ==
    ASSUME RemovalsInvariant, EndRun, UNCHANGED <<supplierVars, records, feed, index, blind>>,
           suspects' \subseteq [doc: Documents, meeting: Meetings, seen: Times],
           ~blind => \A s \in suspects' : [doc |-> s.doc, at |-> s.seen] \in sightings',
           \A d \in Documents : Unlisted(d) => d \in Traced'
    PROVE  RemovalsInvariant'
  <1>1. run' = Idle /\ tracker' = EmptyTracker BY DEF EndRun
  <1>2. RemovalsAreTyped'
    BY <1>1, IdleIsTyped, TypesStay DEF RemovalsInvariant, RemovalsAreTyped
  <1>3. PlansAreKept' /\ ListsAreWritten'
    BY <1>1, IdleIsTyped DEF PlansAreKept, ListsAreWritten, InPhase, BeforeThePlan
  <1>4. \A d \in Documents : Unlisted(d)' = Unlisted(d) BY DEF Unlisted, Listed
  <1>5. AccountedFor' BY <1>1, <1>4 DEF AccountedFor, Waiting
  <1>6. SightingsAreTrue' BY <1>1, IdleIsTyped DEF SightingsAreTrue, Sighted, InPhase
  <1> QED BY <1>2, <1>3, <1>5, <1>6 DEF RemovalsInvariant

(* The supplier and the clock.                                             *)
LEMMA ChangesKeep == RemovalsInvariant /\ SupplierChanges => RemovalsInvariant'
  <1> SUFFICES ASSUME RemovalsInvariant, SupplierChanges PROVE RemovalsInvariant'
    OBVIOUS
  <1> USE RemovalsAssumption
  <1>1. /\ RemovalsAreTyped
        /\ UNCHANGED <<clock, storeVars, run, tracker, named, emptied, counted, lost, sightings>>
        /\ blind' = (blind \/ (supplier'.refusing /\ ~supplier.refusing
                             /\ run.phase = "probing"))
    BY DEF SupplierChanges, RemovalsInvariant
  <1>2. PICK new \in Changed : supplier' = [new EXCEPT !.changes = @ + 1]
    BY DEF SupplierChanges
  <1> DEFINE Suppliers == [lists: [Meetings -> SUBSET Documents], served: SUBSET Documents,
                           refusing: BOOLEAN, changes: Nat]
  <1>3. supplier' \in Suppliers
    <2>2. supplier \in Suppliers BY <1>1 DEF RemovalsAreTyped
    <2>3. \A m \in Meetings, d \in Documents :
             [supplier EXCEPT !.lists[m] = (@ \ {d}) \cup ({d} \ @)] \in Suppliers
      BY <2>2
    <2>4. \A d \in Documents : [supplier EXCEPT !.served = (@ \ {d}) \cup ({d} \ @)] \in Suppliers
      BY <2>2
    <2>5. \A b \in BOOLEAN : [supplier EXCEPT !.refusing = b] \in Suppliers BY <2>2
    <2>6. new \in Suppliers
      <3> HIDE DEF Suppliers
      <3> QED BY <1>2, <2>3, <2>4, <2>5 DEF Changed
    <2> QED BY <1>2, <2>6
  <1>4. blind' \in BOOLEAN BY <1>1 DEF RemovalsAreTyped
  <1>5. RemovalsAreTyped' BY <1>1, <1>3, <1>4 DEF RemovalsAreTyped, storeVars
  <1>6. PlansAreKept' /\ ListsAreWritten' /\ AccountedFor'
    BY <1>1 DEF Traced, RemovalsInvariant, PlansAreKept, ListsAreWritten, AccountedFor, InPhase,
                BeforeThePlan, Confirmed, FirstSightings, Listed, Unlisted, Waiting, storeVars
  <1>7. ~blind' => ~blind /\ (run.phase = "probing" => (supplier.refusing \/ ~supplier'.refusing))
    BY <1>1, <1>3 DEF RemovalsAreTyped
  <1>8. SightingsAreTrue'
    BY <1>1, <1>7 DEF RemovalsInvariant, SightingsAreTrue, Sighted, InPhase, storeVars
  <1> QED BY <1>5, <1>6, <1>8 DEF RemovalsInvariant

LEMMA TimeKeeps == RemovalsInvariant /\ TimePasses => RemovalsInvariant'
  <1> SUFFICES ASSUME RemovalsInvariant, TimePasses PROVE RemovalsInvariant' OBVIOUS
  <1>1. /\ RemovalsAreTyped /\ run.phase = "idle"
        /\ clock' = clock + 1 /\ clock < MaxTime
        /\ UNCHANGED <<supplier, storeVars, run, tracker, historyVars>>
    BY DEF TimePasses, RemovalsInvariant, InPhase
  <1>2. clock' \in Times BY <1>1, RemovalsAssumption DEF RemovalsAreTyped, Times
  <1>3. RemovalsAreTyped' BY <1>1, <1>2 DEF RemovalsAreTyped, storeVars, historyVars
  <1>4. PlansAreKept' /\ ListsAreWritten' /\ AccountedFor'
    BY <1>1 DEF Traced, RemovalsInvariant, PlansAreKept, ListsAreWritten, AccountedFor, InPhase,
                BeforeThePlan, Confirmed, FirstSightings, Listed, Unlisted, Waiting,
                storeVars, historyVars
  <1>5. run.plan = {} /\ run.gone = {}
    BY <1>1 DEF RemovalsInvariant, PlansAreKept, BeforeThePlan
  <1>6. SightingsAreTrue'
    BY <1>1, <1>5 DEF RemovalsInvariant, SightingsAreTrue, Sighted, InPhase, storeVars,
                      historyVars
  <1> QED BY <1>3, <1>4, <1>6 DEF RemovalsInvariant

LEMMA StartKeeps == RemovalsInvariant /\ StartRun => RemovalsInvariant'
  <1> SUFFICES ASSUME RemovalsInvariant, StartRun PROVE RemovalsInvariant' OBVIOUS
  <1>1. /\ RemovalsAreTyped /\ run.phase = "idle" /\ tracker' = EmptyTracker
        /\ UNCHANGED <<supplierVars, storeVars, historyVars>>
    BY DEF StartRun, RemovalsInvariant, InPhase
  <1>2. PICK ms \in (SUBSET Meetings) \ {{}} :
          run' = [Idle EXCEPT !.phase = "meetings", !.todo = ms,
                              !.listing = [m \in ms |-> supplier.lists[m]]]
    BY DEF StartRun
  <1>3. [m \in ms |-> supplier.lists[m]] \in Listings
    <2>1. [m \in ms |-> supplier.lists[m]] \in [ms -> SUBSET Documents]
      BY <1>1 DEF RemovalsAreTyped
    <2> QED BY <2>1 DEF Listings
  <1>4. /\ run' \in RunRows /\ run'.phase = "meetings" /\ run'.todo = ms
        /\ run'.plan = {} /\ run'.gone = {}
        /\ DOMAIN run'.listing = ms
    BY <1>2, <1>3, IdleIsTyped DEF RunRows, Phases
  <1>5. RemovalsAreTyped'
    BY <1>1, <1>4, IdleIsTyped, TypesStay
       DEF RemovalsAreTyped, supplierVars, storeVars, historyVars
  <1>6. PlansAreKept' /\ ListsAreWritten'
    BY <1>1, <1>4, IdleIsTyped DEF PlansAreKept, ListsAreWritten, InPhase, BeforeThePlan
  <1>7. AccountedFor'
    BY <1>1 DEF Traced, RemovalsInvariant, AccountedFor, Waiting, Unlisted, Listed, storeVars,
                historyVars, BeforeThePlan
  <1>8. SightingsAreTrue'
    BY <1>1, <1>4 DEF RemovalsInvariant, SightingsAreTrue, Sighted, InPhase, storeVars,
                      historyVars, supplierVars
  <1> QED BY <1>5, <1>6, <1>7, <1>8 DEF RemovalsInvariant

(* The extraction.                                                         *)
LEMMA MeetingKeeps ==
    ASSUME NEW m \in Meetings, RemovalsInvariant, EmitMeeting(m)
    PROVE  RemovalsInvariant'
  <1> USE RemovalsAssumption
  <1>1. /\ RemovalsAreTyped /\ run.phase = "meetings" /\ m \in run.todo
        /\ run \in RunRows /\ tracker \in TrackerRows
        /\ run' = [run EXCEPT
              !.todo = @ \ {m},
              !.skipped = IF AllDropped(m) THEN @ \cup records[m] ELSE @]
        /\ records' = [records EXCEPT ![m] = run.listing[m]]
        /\ named' = named \ run.listing[m] /\ emptied' = emptied \ run.listing[m]
        /\ counted' = counted \ run.listing[m] /\ lost' = lost \ run.listing[m]
        /\ UNCHANGED <<supplierVars, feed, index, stored, suspects, sightings, blind>>
    BY DEF EmitMeeting, RemovalsInvariant, RemovalsAreTyped, InPhase
  <1>2. PICK control \in IF Dropped(m) = {} \/ AllDropped(m)
                         THEN {NoDocument} ELSE records[m] \cap run.listing[m] :
           tracker' = Observed(m, control)
    BY DEF EmitMeeting
  <1>3. /\ m \in DOMAIN run.listing /\ run.listing[m] \subseteq Documents
        /\ records[m] \subseteq Documents
        /\ records \in [Meetings -> SUBSET Documents]
    BY <1>1, ListingsAre DEF RemovalsInvariant, ListsAreWritten, InPhase, RunRows, RemovalsAreTyped
  <1>4. control \in Documents \cup {NoDocument} BY <1>2, <1>3
  <1>5. /\ run' \in RunRows /\ run'.phase = "meetings" /\ run'.todo = run.todo \ {m}
        /\ run'.listing = run.listing /\ run'.plan = run.plan /\ run'.gone = run.gone
        /\ run'.skipped = IF AllDropped(m) THEN run.skipped \cup records[m] ELSE run.skipped
    BY <1>1, <1>3 DEF RunRows
  <1>6. /\ tracker' \in TrackerRows /\ tracker'.emitted = tracker.emitted
        /\ \A d \in Documents :
              tracker'.candidates[d] = IF d \in Dropped(m) /\ ~AllDropped(m)
                                       THEN m ELSE tracker.candidates[d]
    <2> DEFINE obs == [tracker.observed EXCEPT ![m] = run.listing[m]]
               cands == [d \in Documents |-> IF d \in Dropped(m) /\ ~AllDropped(m)
                                             THEN m ELSE tracker.candidates[d]]
               ctrl == IF tracker.control = NoDocument THEN control ELSE tracker.control
    <2>1. obs \in [Meetings -> (SUBSET Documents) \cup {NotSeen}]
      BY <1>1, <1>3 DEF TrackerRows
    <2>2. cands \in [Documents -> Meetings \cup {NoMeeting}] BY <1>1 DEF TrackerRows
    <2>3. ctrl \in Documents \cup {NoDocument} BY <1>1, <1>4 DEF TrackerRows
    <2>4. /\ tracker'.observed = obs /\ tracker'.candidates = cands
          /\ tracker'.control = ctrl /\ tracker'.emitted = tracker.emitted
          /\ tracker' = [candidates |-> cands, emitted |-> tracker.emitted,
                         observed |-> obs, control |-> ctrl]
      BY <1>1, <1>2 DEF Observed, TrackerRows
    <2>5. tracker' \in TrackerRows
      <3> HIDE DEF obs, cands, ctrl
      <3> QED BY <2>1, <2>2, <2>3, <2>4, <1>1 DEF TrackerRows
    <2> QED BY <2>4, <2>5
  <1>7. records' \in [Meetings -> SUBSET Documents] /\ records'[m] = run.listing[m]
        /\ \A n \in Meetings \ {m} : records'[n] = records[n]
    BY <1>1, <1>3
  <1>8. RemovalsAreTyped' BY <1>1, <1>5, <1>6, <1>7, TypesStay DEF RemovalsAreTyped
  <1>9. PlansAreKept'
    BY <1>1, <1>5 DEF RemovalsInvariant, PlansAreKept, BeforeThePlan, InPhase
  <1>10. ListsAreWritten'
    <2>1. \A n \in DOMAIN run.listing \ run.todo : records[n] = run.listing[n]
      BY <1>1 DEF RemovalsInvariant, ListsAreWritten, InPhase
    <2>2. DOMAIN run.listing \subseteq Meetings BY <1>1, ListingsAre DEF RunRows
    <2>3. \A n \in DOMAIN run.listing \ (run.todo \ {m}) : records'[n] = run.listing[n]
      BY <2>1, <2>2, <1>7
    <2>4. tracker.emitted = {} /\ run.todo \subseteq DOMAIN run.listing
      BY <1>1 DEF RemovalsInvariant, ListsAreWritten, InPhase
    <2> QED BY <2>3, <2>4, <1>5, <1>6 DEF ListsAreWritten, InPhase
  <1>11. AccountedFor'
    <2> SUFFICES ASSUME NEW d \in Documents, Unlisted(d)' PROVE Waiting(d)'
      BY DEF AccountedFor
    <2>1. feed[d] = "live" /\ \A n \in Meetings : d \notin records'[n]
      BY <1>1 DEF Unlisted, Listed
    <2>2. d \notin run.listing[m] BY <2>1, <1>7
    <2>3. CASE d \in records[m]
      <3>1. d \in Dropped(m) BY <2>2, <2>3 DEF Dropped
      <3>2. CASE AllDropped(m) BY <3>2, <2>3, <1>5 DEF Waiting
      <3>3. CASE ~AllDropped(m) BY <3>1, <3>3, <1>5, <1>6 DEF Waiting
      <3> QED BY <3>2, <3>3
    <2>4. CASE d \notin records[m]
      <3>1. Unlisted(d) BY <2>1, <2>4, <1>7 DEF Unlisted, Listed
      <3>2. d \in Traced \/ d \in run.skipped \/ tracker.candidates[d] # NoMeeting
        BY <3>1, <1>1 DEF RemovalsInvariant, AccountedFor, Waiting, BeforeThePlan
      <3>3. d \in Traced => d \in Traced' BY <2>2, <1>1 DEF Traced
      <3>4. tracker.candidates[d] # NoMeeting => tracker'.candidates[d] # NoMeeting
        BY <1>6
      <3>5. d \in run.skipped => d \in run'.skipped BY <1>5
      <3> QED BY <3>2, <3>3, <3>4, <3>5, <1>5 DEF Waiting
    <2> QED BY <2>3, <2>4
  <1>12. SightingsAreTrue'
    BY <1>1, <1>5 DEF RemovalsInvariant, SightingsAreTrue, Sighted, InPhase, supplierVars
  <1> QED BY <1>8, <1>9, <1>10, <1>11, <1>12 DEF RemovalsInvariant

LEMMA PhasesKeep ==
    RemovalsInvariant /\ (DocumentsNext \/ PlanNext) => RemovalsInvariant'
  <1> SUFFICES ASSUME RemovalsInvariant, DocumentsNext \/ PlanNext
               PROVE  RemovalsInvariant'
    OBVIOUS
  <1>1. /\ RemovalsAreTyped /\ run \in RunRows /\ run.todo = {}
        /\ UNCHANGED <<supplierVars, storeVars, tracker, historyVars>>
    BY DEF DocumentsNext, PlanNext, RemovalsInvariant, RemovalsAreTyped
  <1>2. /\ DOMAIN run.listing \subseteq Meetings
        /\ \A n \in DOMAIN run.listing : run.listing[n] \subseteq Documents
    BY <1>1, ListingsAre DEF RunRows
  <1>3. /\ run' \in RunRows /\ run'.phase \in {"documents", "planning"}
        /\ run'.listing = run.listing /\ run'.plan = run.plan /\ run'.gone = run.gone
        /\ run'.skipped = run.skipped
        /\ run'.phase = "documents" =>
             /\ run.phase = "meetings"
             /\ run'.todo = UNION { run.listing[n] : n \in DOMAIN run.listing }
        /\ run'.phase = "planning" => run.phase = "documents"
    <2>1. CASE DocumentsNext
      <3>1. UNION { run.listing[n] : n \in DOMAIN run.listing } \subseteq Documents
        BY <1>2
      <3> QED BY <2>1, <3>1, <1>1 DEF DocumentsNext, RunRows, Phases, InPhase
    <2>2. CASE PlanNext BY <2>2, <1>1 DEF PlanNext, RunRows, Phases, InPhase
    <2> QED BY <2>1, <2>2
  <1>4. run.phase \in {"meetings", "documents"} BY <1>3
  <1>5. RemovalsAreTyped'
    BY <1>1, <1>3, TypesStay DEF RemovalsAreTyped, storeVars, historyVars
  <1>6. PlansAreKept'
    BY <1>1, <1>3, <1>4 DEF RemovalsInvariant, PlansAreKept, BeforeThePlan, InPhase
  <1>7. ListsAreWritten'
    <2>1. CASE run'.phase = "documents"
      <3>1. /\ \A n \in DOMAIN run.listing : records[n] = run.listing[n]
            /\ tracker.emitted = {}
        BY <2>1, <1>1, <1>3 DEF RemovalsInvariant, ListsAreWritten, InPhase
      <3>2. \A d \in run'.todo : \E n \in DOMAIN run.listing : d \in run.listing[n]
        BY <2>1, <1>3
      <3> QED BY <2>1, <3>1, <3>2, <1>1, <1>3 DEF ListsAreWritten, InPhase, storeVars
    <2>2. CASE run'.phase = "planning"
      BY <2>2, <1>1, <1>3 DEF RemovalsInvariant, ListsAreWritten, InPhase, storeVars, Listed
    <2> QED BY <2>1, <2>2, <1>3
  <1>8. AccountedFor'
    BY <1>1, <1>3, <1>4 DEF Traced, RemovalsInvariant, AccountedFor, Waiting, Unlisted, Listed,
                            storeVars, historyVars, BeforeThePlan
  <1>9. SightingsAreTrue'
    BY <1>1, <1>3 DEF RemovalsInvariant, SightingsAreTrue, Sighted, InPhase, supplierVars,
                      storeVars, historyVars
  <1> QED BY <1>5, <1>6, <1>7, <1>8, <1>9 DEF RemovalsInvariant

LEMMA DocumentKeeps ==
    ASSUME NEW d \in Documents, RemovalsInvariant, EmitDocument(d) \/ DocumentFails(d)
    PROVE  RemovalsInvariant'
  <1>1. /\ RemovalsAreTyped /\ run \in RunRows /\ tracker \in TrackerRows
        /\ run.phase = "documents" /\ d \in run.todo
        /\ run' = [run EXCEPT !.todo = @ \ {d}]
        /\ UNCHANGED <<supplierVars, records, suspects, named, emptied, counted, sightings, blind>>
    BY DEF EmitDocument, DocumentFails, RemovalsInvariant, RemovalsAreTyped, InPhase, storeVars,
           historyVars
  <1>2. \/ /\ tracker' = [tracker EXCEPT !.emitted = @ \cup {d}]
           /\ feed' = [feed EXCEPT ![d] = "live"]
           /\ index' = [index EXCEPT ![d] = "shown"]
           /\ lost' = lost \ {d}
        \/ UNCHANGED <<tracker, feed, index, lost>>
    BY DEF EmitDocument, DocumentFails, storeVars, historyVars
  <1>3. /\ run' \in RunRows /\ run'.phase = "documents" /\ run'.todo = run.todo \ {d}
        /\ run'.listing = run.listing /\ run'.plan = run.plan /\ run'.gone = run.gone
        /\ run'.skipped = run.skipped
    BY <1>1 DEF RunRows
  <1>4. /\ tracker' \in TrackerRows /\ tracker'.emitted \subseteq tracker.emitted \cup {d}
        /\ tracker'.candidates = tracker.candidates
    BY <1>1, <1>2 DEF TrackerRows
  <1>5. /\ feed' \in [Documents -> {"none", "live", "tombstone"}]
        /\ index' \in [Documents -> {"none", "shown", "hidden"}]
        /\ \A e \in Documents \ {d} : feed'[e] = feed[e]
    BY <1>1, <1>2 DEF RemovalsAreTyped
  <1>6. d \in Listed(records)
    <2>1. PICK n \in DOMAIN run.listing : d \in run.listing[n]
      BY <1>1 DEF RemovalsInvariant, ListsAreWritten, InPhase
    <2>2. n \in Meetings /\ records[n] = run.listing[n]
      BY <2>1, <1>1, ListingsAre DEF RemovalsInvariant, ListsAreWritten, InPhase, RunRows
    <2> QED BY <2>1, <2>2 DEF Listed
  <1>7. RemovalsAreTyped' BY <1>1, <1>3, <1>4, <1>5, TypesStay DEF RemovalsAreTyped
  <1>8. PlansAreKept'
    BY <1>1, <1>3 DEF RemovalsInvariant, PlansAreKept, BeforeThePlan, InPhase
  <1>9. ListsAreWritten'
    <2>1. tracker.emitted \subseteq Listed(records)
      BY <1>1 DEF RemovalsInvariant, ListsAreWritten
    <2>2. tracker'.emitted \subseteq Listed(records)'
      BY <2>1, <1>1, <1>4, <1>6 DEF Listed
    <2> QED BY <2>2, <1>1, <1>3 DEF RemovalsInvariant, ListsAreWritten, InPhase
  <1>10. AccountedFor'
    <2> SUFFICES ASSUME NEW e \in Documents, Unlisted(e)' PROVE Waiting(e)'
      BY DEF AccountedFor
    <2>1. e # d BY <1>6, <1>1 DEF Unlisted, Listed
    <2>2. Unlisted(e) BY <2>1, <1>1, <1>5 DEF Unlisted, Listed
    <2>3. Waiting(e) BY <2>2 DEF RemovalsInvariant, AccountedFor
    <2>4. e \in Traced => e \in Traced' BY <2>1, <1>1, <1>2 DEF Traced, historyVars
    <2> QED BY <2>3, <2>4, <1>1, <1>3, <1>4 DEF Waiting, BeforeThePlan
  <1>11. SightingsAreTrue'
    BY <1>1, <1>3 DEF RemovalsInvariant, SightingsAreTrue, Sighted, InPhase, supplierVars
  <1> QED BY <1>7, <1>8, <1>9, <1>10, <1>11 DEF RemovalsInvariant

(* The plan names every document the log no longer lists, or it is one of  *)
(* those the run asks about.                                               *)
LEMMA PlannedOnes ==
    ASSUME RemovalsInvariant, InPhase("planning")
    PROVE  /\ \A d \in Documents : Unlisted(d) =>
                 d \in Traced \cup run.skipped \/ \E c \in Removals : c.doc = d
           /\ ~blind => \A c \in Removals : c.seen # Never =>
                           Sighted(c.doc, c.seen) /\ clock - c.seen >= MinAge
  <1>1. ASSUME NEW d \in Documents, Unlisted(d), d \notin Traced \cup run.skipped
        PROVE  \E c \in Removals : c.doc = d
    <2>1. tracker.candidates[d] # NoMeeting
      BY <1>1 DEF RemovalsInvariant, AccountedFor, Waiting, InPhase, BeforeThePlan
    <2>2. IsLive(d)
      BY <1>1 DEF RemovalsInvariant, ListsAreWritten, IsLive, Unlisted, InPhase
    <2>3. ~Referenced(d) BY <1>1 DEF Referenced, Unlisted
    <2>4. CASE \E s \in SecondSightings : s.doc = d
      <3>1. PICK s \in SecondSightings : s.doc = d BY <2>4
      <3>2. [doc |-> s.doc, meeting |-> s.meeting, seen |-> s.seen] \in PendingRemovals
        BY <3>1 DEF PendingRemovals
      <3> QED BY <3>1, <3>2, <2>3 DEF Removals
    <2>5. CASE ~\E s \in SecondSightings : s.doc = d
      <3>1. [doc |-> d, meeting |-> tracker.candidates[d], seen |-> Never] \in PendingRemovals
        BY <2>1, <2>2, <2>5 DEF PendingRemovals
      <3> QED BY <3>1, <2>3 DEF Removals
    <2> QED BY <2>4, <2>5
  <1>2. ASSUME ~blind, NEW c \in Removals, c.seen # Never
        PROVE  Sighted(c.doc, c.seen) /\ clock - c.seen >= MinAge
    <2>1. c \in PendingRemovals BY DEF Removals
    <2>2. PICK s \in SecondSightings : c = [doc |-> s.doc, meeting |-> s.meeting, seen |-> s.seen]
      BY <2>1, <1>2 DEF PendingRemovals
    <2>3. s \in suspects /\ clock - s.seen >= MinAge BY DEF SecondSightings, Remembered
    <2> QED BY <2>2, <2>3, <1>2 DEF RemovalsInvariant, SightingsAreTrue
  <1> QED BY <1>1, <1>2

LEMMA PlanKeeps == RemovalsInvariant /\ Plan => RemovalsInvariant'
  <1> SUFFICES ASSUME RemovalsInvariant, Plan PROVE RemovalsInvariant' OBVIOUS
  <1>1. /\ RemovalsAreTyped /\ InPhase("planning")
        /\ suspects' = Remembered \ ClearedByPlan
        /\ emptied' = emptied \cup run.skipped
        /\ UNCHANGED <<supplierVars, records, feed, index, stored, named, lost, sightings, blind>>
    BY DEF Plan, RemovalsInvariant
  <1>2. suspects' \subseteq suspects BY <1>1, PlannedIsTyped
  <1>3. /\ suspects' \subseteq [doc: Documents, meeting: Meetings, seen: Times]
        /\ ~blind => \A s \in suspects' : [doc |-> s.doc, at |-> s.seen] \in sightings'
    BY <1>1, <1>2 DEF RemovalsInvariant, RemovalsAreTyped, SightingsAreTrue, Sighted
  <1>4. CASE Removals = {} \/ Cardinality(Removals) > MaxPerRun
    <2>1. EndRun /\ counted' = counted \cup { c.doc : c \in Removals } BY <1>4 DEF Plan
    <2>2. \A d \in Documents : Unlisted(d) => d \in Traced'
      BY <2>1, <1>1, PlannedOnes DEF Traced
    <2> QED BY <2>1, <2>2, <1>1, <1>3, EmptyRunIsKept
  <1>5. CASE ~(Removals = {} \/ Cardinality(Removals) > MaxPerRun)
    <2>1. counted' = counted /\ tracker' = EmptyTracker BY <1>5 DEF Plan
    <2>2. PICK control \in Controls :
             run' = [Idle EXCEPT !.phase = "control", !.plan = Removals, !.control = control]
      BY <1>5 DEF Plan
    <2>3. control \in Documents \cup {NoDocument} /\ Removals \subseteq Candidate
      BY <1>1, PlannedIsTyped
    <2>4. /\ run' \in RunRows /\ run'.phase = "control" /\ run'.plan = Removals
          /\ run'.gone = {}
      BY <2>2, <2>3, IdleIsTyped DEF RunRows, Phases
    <2>5. RemovalsAreTyped'
      BY <1>1, <1>3, <2>1, <2>4, IdleIsTyped, TypesStay DEF RemovalsAreTyped
    <2>6. PlansAreKept' /\ ListsAreWritten'
      BY <2>4 DEF PlansAreKept, ListsAreWritten, InPhase, BeforeThePlan
    <2>7. AccountedFor'
      <3> SUFFICES ASSUME NEW d \in Documents, Unlisted(d)' PROVE Waiting(d)'
        BY DEF AccountedFor
      <3>1. Unlisted(d) BY <1>1 DEF Unlisted, Listed
      <3>2. d \in Traced \cup run.skipped \/ \E c \in Removals : c.doc = d
        BY <3>1, <1>1, PlannedOnes
      <3>3. d \in Traced' \/ \E c \in run'.plan : c.doc = d
        BY <3>2, <1>1, <2>1, <2>4 DEF Traced
      <3>4. ~BeforeThePlan' BY <2>4 DEF BeforeThePlan
      <3> QED BY <3>3, <3>4 DEF Waiting
    <2>8. SightingsAreTrue'
      BY <1>1, <1>3, <2>4, PlannedOnes DEF SightingsAreTrue, Sighted, InPhase, supplierVars
    <2> QED BY <2>5, <2>6, <2>7, <2>8 DEF RemovalsInvariant
  <1> QED BY <1>4, <1>5

(* The questions to the supplier.                                          *)
LEMMA ControlKeeps == RemovalsInvariant /\ AskControl => RemovalsInvariant'
  <1> SUFFICES ASSUME RemovalsInvariant, AskControl PROVE RemovalsInvariant' OBVIOUS
  <1>1. /\ RemovalsAreTyped /\ run \in RunRows /\ run.phase = "control"
        /\ UNCHANGED <<supplierVars, storeVars, emptied, counted, lost, sightings, blind>>
    BY DEF AskControl, RemovalsInvariant, RemovalsAreTyped, InPhase
  <1>2. PICK answer \in Answers(run.control) :
          IF ControlPasses(answer)
          THEN /\ run' = [run EXCEPT !.phase = "probing", !.todo = run.plan]
               /\ UNCHANGED <<tracker, named>>
          ELSE /\ Names({ c.doc : c \in run.plan })
               /\ EndRun
    BY DEF AskControl
  <1>3. CASE ControlPasses(answer)
    <2>1. /\ run' = [run EXCEPT !.phase = "probing", !.todo = run.plan]
          /\ UNCHANGED <<tracker, named>>
      BY <1>2, <1>3
    <2>2. ~supplier.refusing BY <1>2, <1>3 DEF Answers, ControlPasses
    <2>3. /\ run' \in RunRows /\ run'.phase = "probing" /\ run'.plan = run.plan
          /\ run'.todo = run.plan /\ run'.gone = run.gone
      BY <2>1, <1>1 DEF RunRows, Phases
    <2>4. RemovalsAreTyped'
      BY <1>1, <2>1, <2>3, TypesStay DEF RemovalsAreTyped, storeVars
    <2>5. PlansAreKept' /\ ListsAreWritten'
      BY <2>3 DEF RemovalsInvariant, PlansAreKept, ListsAreWritten, InPhase, BeforeThePlan
    <2>6. AccountedFor'
      BY <1>1, <2>1, <2>3 DEF Traced, RemovalsInvariant, AccountedFor, Waiting, Unlisted, Listed,
                              storeVars, BeforeThePlan
    <2>7. SightingsAreTrue'
      BY <1>1, <2>2, <2>3 DEF RemovalsInvariant, SightingsAreTrue, Sighted, InPhase,
                              supplierVars, storeVars
    <2> QED BY <2>4, <2>5, <2>6, <2>7 DEF RemovalsInvariant
  <1>4. CASE ~ControlPasses(answer)
    <2>1. EndRun /\ named' = named \cup { c.doc : c \in run.plan }
      BY <1>2, <1>4 DEF Names
    <2>2. \A d \in Documents : Unlisted(d) => d \in Traced'
      BY <2>1, <1>1 DEF Traced, RemovalsInvariant, AccountedFor, Waiting
    <2> QED BY <2>1, <2>2, <1>1, EmptyRunIsKept
            DEF RemovalsInvariant, RemovalsAreTyped, SightingsAreTrue, Sighted, storeVars
  <1> QED BY <1>3, <1>4

LEMMA CandidateKeeps ==
    ASSUME NEW c \in run.plan, RemovalsInvariant, AskCandidate(c)
    PROVE  RemovalsInvariant'
  <1>1. /\ RemovalsAreTyped /\ run \in RunRows /\ run.phase = "probing" /\ c \in run.todo
        /\ UNCHANGED <<supplierVars, storeVars, tracker, named, emptied, counted, lost, blind>>
    BY DEF AskCandidate, RemovalsInvariant, RemovalsAreTyped, InPhase
  <1>2. PICK answer \in Answers(c.doc) :
          /\ run' = [run EXCEPT
                !.todo = @ \ {c},
                !.gone = IF answer = "gone" THEN @ \cup {c} ELSE @,
                !.live = IF answer = "live" THEN @ \cup {c} ELSE @]
          /\ sightings' = IF answer = "gone" /\ c.doc \notin supplier.served
                          THEN sightings \cup {[doc |-> c.doc, at |-> clock]}
                          ELSE sightings
    BY DEF AskCandidate
  <1>3. c \in Candidate BY <1>1 DEF RunRows
  <1>4. /\ run' \in RunRows /\ run'.phase = "probing" /\ run'.plan = run.plan
        /\ run'.todo = run.todo \ {c}
        /\ run'.gone = IF answer = "gone" THEN run.gone \cup {c} ELSE run.gone
    BY <1>1, <1>2, <1>3 DEF RunRows
  <1>5. RemovalsAreTyped' BY <1>1, <1>4, TypesStay DEF RemovalsAreTyped, storeVars
  <1>6. PlansAreKept' /\ ListsAreWritten'
    BY <1>1, <1>4 DEF RemovalsInvariant, PlansAreKept, ListsAreWritten, InPhase, BeforeThePlan
  <1>7. AccountedFor'
    BY <1>1, <1>4 DEF Traced, RemovalsInvariant, AccountedFor, Waiting, Unlisted, Listed,
                      storeVars, BeforeThePlan
  <1>8. SightingsAreTrue'
    <2>1. sightings \subseteq sightings' BY <1>2
    <2>2. ~blind /\ answer = "gone" => [doc |-> c.doc, at |-> clock] \in sightings'
      <3>1. ~blind => ~supplier.refusing
        BY <1>1 DEF RemovalsInvariant, SightingsAreTrue, InPhase
      <3>2. answer = "gone" => c.doc \notin supplier.served \/ supplier.refusing
        BY <1>2 DEF Answers
      <3> QED BY <3>1, <3>2, <1>2
    <2> QED BY <2>1, <2>2, <1>1, <1>4
            DEF RemovalsInvariant, SightingsAreTrue, Sighted, InPhase, supplierVars, storeVars
  <1> QED BY <1>5, <1>6, <1>7, <1>8 DEF RemovalsInvariant

LEMMA SightingsKeep == RemovalsInvariant /\ RecordSightings => RemovalsInvariant'
  <1> SUFFICES ASSUME RemovalsInvariant, RecordSightings PROVE RemovalsInvariant'
    OBVIOUS
  <1>1. /\ RemovalsAreTyped /\ run \in RunRows /\ run.phase = "probing" /\ clock \in Times
        /\ UNCHANGED <<supplierVars, records, feed, index, stored, emptied, counted, lost,
                       sightings, blind>>
        /\ named' = named \cup { c.doc : c \in run.plan \ Confirmed }
    BY DEF RecordSightings, RemovalsInvariant, RemovalsAreTyped, InPhase, Names
  <1>2. \A s \in suspects' :
           \/ s \in suspects
           \/ \E c \in run.gone : s = [doc |-> c.doc, meeting |-> c.meeting, seen |-> clock]
    BY DEF RecordSightings, FirstSightings
  <1>3. run.gone \subseteq Candidate BY <1>1 DEF RunRows
  <1>4. suspects' \subseteq [doc: Documents, meeting: Meetings, seen: Times]
    BY <1>1, <1>2, <1>3 DEF RemovalsAreTyped, Candidate
  <1>5. ~blind => \A s \in suspects' : [doc |-> s.doc, at |-> s.seen] \in sightings'
    <2> SUFFICES ASSUME ~blind, NEW s \in suspects'
                 PROVE  [doc |-> s.doc, at |-> s.seen] \in sightings
      BY <1>1
    <2>1. CASE s \in suspects BY <2>1 DEF RemovalsInvariant, SightingsAreTrue, Sighted
    <2>2. ASSUME NEW c \in run.gone, s = [doc |-> c.doc, meeting |-> c.meeting, seen |-> clock]
          PROVE  [doc |-> s.doc, at |-> s.seen] \in sightings
      <3>1. s.doc = c.doc /\ s.seen = clock BY <2>2
      <3> QED BY <3>1 DEF RemovalsInvariant, SightingsAreTrue, Sighted
    <2> QED BY <2>1, <2>2, <1>2
  <1>6. CASE Confirmed = {}
    <2>1. EndRun BY <1>6 DEF RecordSightings
    <2>2. \A d \in Documents : Unlisted(d) => d \in Traced'
      BY <1>1, <1>6 DEF Traced, RemovalsInvariant, AccountedFor, Waiting
    <2> QED BY <2>1, <2>2, <1>1, <1>4, <1>5, EmptyRunIsKept
  <1>7. CASE Confirmed # {}
    <2>1. run' = [run EXCEPT !.phase = "retracting", !.todo = Confirmed] /\ tracker' = tracker
      BY <1>7 DEF RecordSightings
    <2>2. Confirmed \subseteq Candidate BY <1>3 DEF Confirmed
    <2>3. /\ run' \in RunRows /\ run'.phase = "retracting" /\ run'.plan = run.plan
          /\ run'.todo = Confirmed /\ run'.gone = run.gone
      BY <2>1, <2>2, <1>1 DEF RunRows, Phases
    <2>4. RemovalsAreTyped' BY <1>1, <1>4, <2>1, <2>3, TypesStay DEF RemovalsAreTyped
    <2>5. PlansAreKept' /\ ListsAreWritten'
      BY <2>3 DEF RemovalsInvariant, PlansAreKept, ListsAreWritten, InPhase, BeforeThePlan,
                  Confirmed, FirstSightings
    <2>6. AccountedFor'
      BY <1>1, <2>3 DEF Traced, RemovalsInvariant, AccountedFor, Waiting, Unlisted, Listed,
                        BeforeThePlan
    <2>7. SightingsAreTrue'
      BY <1>1, <1>5, <2>3 DEF RemovalsInvariant, SightingsAreTrue, Sighted, InPhase,
                              supplierVars
    <2> QED BY <2>4, <2>5, <2>6, <2>7 DEF RemovalsInvariant
  <1> QED BY <1>6, <1>7

(* The retraction, and a run that ends early.                              *)
LEMMA RetractKeeps ==
    ASSUME NEW c \in run.plan, NEW reached \in Reached, RemovalsInvariant, Retract(c, reached)
    PROVE  RemovalsInvariant'
  <1>1. /\ RemovalsAreTyped /\ run \in RunRows /\ run.phase = "retracting" /\ c \in run.todo
        /\ UNCHANGED <<supplierVars, records, suspects, tracker, historyVars>>
        /\ feed' = IF reached \in {"nothing", "hidden"} THEN feed
                   ELSE [feed EXCEPT ![c.doc] = "tombstone"]
        /\ index' = IF reached = "nothing" THEN index ELSE [index EXCEPT ![c.doc] = "hidden"]
        /\ run' = [run EXCEPT !.todo = @ \ {c},
                              !.gone = IF reached = "deleted" THEN @ ELSE @ \ {c}]
    BY DEF Retract, RemovalsInvariant, RemovalsAreTyped, InPhase
  <1>2. /\ run' \in RunRows /\ run'.phase = "retracting" /\ run'.plan = run.plan
        /\ run'.todo = run.todo \ {c}
        /\ run'.gone \subseteq run.gone /\ run.gone \ {c} \subseteq run'.gone
    BY <1>1 DEF RunRows
  <1>3. /\ feed' \in [Documents -> {"none", "live", "tombstone"}]
        /\ index' \in [Documents -> {"none", "shown", "hidden"}]
        /\ \A d \in Documents : feed'[d] = "live" => feed[d] = "live"
    BY <1>1 DEF RemovalsAreTyped
  <1>4. RemovalsAreTyped'
    BY <1>1, <1>2, <1>3, TypesStay DEF RemovalsAreTyped, historyVars
  <1>5. PlansAreKept' /\ ListsAreWritten'
    BY <1>1, <1>2 DEF RemovalsInvariant, PlansAreKept, ListsAreWritten, InPhase, BeforeThePlan,
                      Confirmed, FirstSightings
  <1>6. AccountedFor'
    BY <1>1, <1>2, <1>3 DEF Traced, RemovalsInvariant, AccountedFor, Waiting, Unlisted, Listed,
                            BeforeThePlan, historyVars
  <1>7. SightingsAreTrue'
    BY <1>1, <1>2 DEF RemovalsInvariant, SightingsAreTrue, Sighted, InPhase, supplierVars,
                      historyVars
  <1> QED BY <1>4, <1>5, <1>6, <1>7 DEF RemovalsInvariant

LEMMA EndsKeep == RemovalsInvariant /\ (Conclude \/ RunEndsEarly) => RemovalsInvariant'
  <1> SUFFICES ASSUME RemovalsInvariant, Conclude \/ RunEndsEarly PROVE RemovalsInvariant'
    OBVIOUS
  <1>1. /\ EndRun
        /\ UNCHANGED <<supplierVars, records, feed, index, stored, sightings, blind>>
        /\ suspects' \subseteq suspects
    BY DEF Conclude, RunEndsEarly, storeVars
  <1>2. \A d \in Documents : Unlisted(d) => d \in Traced'
    <2>1. CASE Conclude
      <3>1. /\ named' = named \cup { c.doc : c \in run.plan }
            /\ UNCHANGED <<emptied, counted, lost>> /\ run.phase = "retracting"
        BY <2>1 DEF Traced, Conclude, Names, InPhase
      <3> QED BY <3>1 DEF Traced, RemovalsInvariant, AccountedFor, Waiting
    <2>2. CASE RunEndsEarly BY <2>2 DEF Traced, RunEndsEarly
    <2> QED BY <2>1, <2>2
  <1>3. /\ suspects' \subseteq [doc: Documents, meeting: Meetings, seen: Times]
        /\ ~blind => \A s \in suspects' : [doc |-> s.doc, at |-> s.seen] \in sightings'
    BY <1>1 DEF RemovalsInvariant, RemovalsAreTyped, SightingsAreTrue, Sighted
  <1> QED BY <1>1, <1>2, <1>3, EmptyRunIsKept

(* Every promise of SourceRemovals in one invariant.                       *)
THEOREM RemovalsAreSound == RemovalsSpec => []RemovalsInvariant
  <1> USE RemovalsAssumption
  <1>1. RemovalsInit => RemovalsInvariant
    <2> SUFFICES ASSUME RemovalsInit PROVE RemovalsInvariant OBVIOUS
    <2>1. PICK lists \in [Meetings -> SUBSET Documents] :
            /\ supplier = [lists |-> lists, served |-> Documents,
                           refusing |-> FALSE, changes |-> 0]
            /\ records = lists
            /\ feed = [d \in Documents |-> IF d \in Listed(lists) THEN "live" ELSE "none"]
            /\ index = [d \in Documents |-> IF d \in Listed(lists) THEN "shown" ELSE "none"]
      BY DEF RemovalsInit
    <2>2. run = Idle /\ tracker = EmptyTracker /\ clock = 0 /\ suspects = {} /\ blind = FALSE
      BY DEF RemovalsInit
    <2>3. RemovalsAreTyped
      <3>1. supplier \in [lists: [Meetings -> SUBSET Documents], served: SUBSET Documents,
                          refusing: BOOLEAN, changes: Nat]
        BY <2>1
      <3>2. /\ feed \in [Documents -> {"none", "live", "tombstone"}]
            /\ index \in [Documents -> {"none", "shown", "hidden"}]
        BY <2>1
      <3>3. clock \in Times BY <2>2 DEF Times
      <3> QED BY <2>1, <2>2, <3>1, <3>2, <3>3, IdleIsTyped DEF RemovalsAreTyped
    <2>4. PlansAreKept /\ ListsAreWritten
      BY <2>2, IdleIsTyped DEF PlansAreKept, ListsAreWritten, InPhase, BeforeThePlan
    <2>5. AccountedFor BY <2>1 DEF AccountedFor, Unlisted
    <2>6. SightingsAreTrue BY <2>2, IdleIsTyped DEF SightingsAreTrue, InPhase
    <2> QED BY <2>3, <2>4, <2>5, <2>6 DEF RemovalsInvariant
  <1>2. RemovalsInvariant /\ [RemovalsNext]_removalsVars => RemovalsInvariant'
    <2> SUFFICES ASSUME RemovalsInvariant, [RemovalsNext]_removalsVars
                 PROVE  RemovalsInvariant'
      OBVIOUS
    <2>1. CASE UNCHANGED removalsVars
      BY <2>1 DEF Traced, removalsVars, supplierVars, storeVars, historyVars, RemovalsInvariant,
                  RemovalsAreTyped, PlansAreKept, ListsAreWritten, AccountedFor,
                  SightingsAreTrue, Sighted, Waiting, Unlisted, Listed, InPhase, BeforeThePlan,
                  Confirmed, FirstSightings
    <2>2. CASE RemovalsNext
      BY <2>2, ChangesKeep, TimeKeeps, StartKeeps, MeetingKeeps, PhasesKeep, DocumentKeeps,
         PlanKeeps, ControlKeeps, CandidateKeeps, SightingsKeep, RetractKeeps, EndsKeep
         DEF RemovalsNext
    <2> QED BY <2>1, <2>2
  <1> QED BY <1>1, <1>2, PTL DEF RemovalsSpec

(* Removals in the imports as composed behave as they do alone: nothing    *)
(* else touches their tables.                                              *)
LEMMA RemovalsAreAPart == ImportsSpec => RemovalsSpec
  <1>1. ImportsInit => RemovalsInit BY DEF ImportsInit
  <1>2. [ImportsNext]_<<component, queueVars, removalsVars, materializeVars, schedulerVars,
                        breakerVars, importVars, transcriptVars, clientVars, linkVars,
                        backfillVars>>
           => [RemovalsNext]_removalsVars
    BY DEF ImportsNext, QueueStep, RemovalsStep, MaterializeStep, SchedulerStep, BreakerStep,
           ExtractionStep, TranscriptStep, ClientStep, LinksStep, BackfillStep
  <1> QED BY <1>1, <1>2, PTL DEF ImportsSpec, RemovalsSpec

(* DropsAreReported, for every number of meetings, documents and runs:     *)
(* once a run is over, each live document that no meeting of the log lists *)
(* was named in an issue, or its emptied meeting was, or it was one of a   *)
(* number of removals an issue gives, or a run that saw it go ended early. *)
THEOREM DropsGetReported == ImportsSpec => []DropsAreReported
  <1>1. RemovalsInvariant => DropsAreReported
    BY DEF RemovalsInvariant, DropsAreReported, AccountedFor, Waiting, InPhase, BeforeThePlan
  <1> QED BY <1>1, RemovalsAreSound, RemovalsAreAPart, PTL

(* RetractedAfterTwoGoneAnswers, likewise: a document is hidden only after *)
(* the supplier truly answered gone for it twice, MinAge apart.            *)
THEOREM GoneTwice == ImportsSpec => RetractedAfterTwoGoneAnswers
  <1> DEFINE TwiceGone ==
        ~blind =>
        \A d \in Documents : index[d] = "shown" /\ index'[d] = "hidden" =>
            \E s, t \in sightings :
                s.doc = d /\ t.doc = d /\ t.at - s.at >= MinAge
  <1>1. RemovalsInvariant /\ [RemovalsNext]_removalsVars => [TwiceGone]_removalsVars
    <2> SUFFICES ASSUME RemovalsInvariant, RemovalsNext, ~blind,
                        NEW d \in Documents, index[d] = "shown", index'[d] = "hidden"
                 PROVE  \E s, t \in sightings :
                           s.doc = d /\ t.doc = d /\ t.at - s.at >= MinAge
      OBVIOUS
    <2>1. \A e \in Documents : index \in [Documents -> {"none", "shown", "hidden"}]
                               /\ [index EXCEPT ![e] = "shown"][d] # "hidden"
      BY DEF RemovalsInvariant, RemovalsAreTyped
    <2>2. PICK c \in run.plan, reached \in Reached : Retract(c, reached)
      BY <2>1 DEF RemovalsNext, SupplierChanges, TimePasses, StartRun, EmitMeeting, DocumentsNext,
             EmitDocument, DocumentFails, PlanNext, Plan, AskControl, AskCandidate,
             RecordSightings, Conclude, RunEndsEarly, storeVars
    <2>3. c \in Confirmed BY <2>2 DEF Retract, RemovalsInvariant, PlansAreKept, InPhase
    <2>4. c \in run.gone /\ c.seen # Never BY <2>3 DEF Confirmed, FirstSightings
    <2>5. Sighted(c.doc, clock) /\ Sighted(c.doc, c.seen) /\ clock - c.seen >= MinAge
      BY <2>4 DEF RemovalsInvariant, SightingsAreTrue
    <2>6. c.doc = d BY <2>2, <2>1 DEF Retract
    <2> QED BY <2>5, <2>6 DEF Sighted
  <1>2. RemovalsSpec => [][TwiceGone]_removalsVars
    BY <1>1, RemovalsAreSound, PTL DEF RemovalsSpec
  <1> QED BY <1>2, RemovalsAreAPart DEF RetractedAfterTwoGoneAnswers
-----------------------------------------------------------------------------
(* Scheduler. Hours and days.                                              *)
LEMMA DaysOf ==
    ASSUME NEW t \in Nat
    PROVE  /\ UtcDay(t) \in Nat /\ 24 * UtcDay(t) <= t /\ t < 24 * UtcDay(t) + 24
           /\ LocalDay(t) \in Nat
           /\ 24 * LocalDay(t) <= t + Offset(t) /\ t + Offset(t) < 24 * LocalDay(t) + 24
           /\ Offset(t) \in {1, 2}
  <1>1. Offset(t) \in {1, 2} BY DEF Offset
  <1>2. \A n \in Nat : /\ n \div 24 \in Nat /\ 24 * (n \div 24) <= n
                       /\ n < 24 * (n \div 24) + 24
    OBVIOUS
  <1>3. t + Offset(t) \in Nat BY <1>1
  <1> QED BY <1>1, <1>2, <1>3 DEF UtcDay, LocalDay

(* Two o'clock is at the beginning of a UTC day, midnight or one.          *)
LEMMA TwoIsEarly ==
    ASSUME NEW t \in Nat, IsTwo(t)
    PROVE  /\ t - 24 * UtcDay(t) \in {0, 1}
           /\ LocalDay(t) = UtcDay(t)
           /\ t - 1 \in Nat /\ t - 1 + Offset(t - 1) < 24 * UtcDay(t) + 2
           /\ t + Offset(t) >= 24 * UtcDay(t) + 2
  <1>1. t - 1 \in Nat /\ t > 0 BY DEF IsTwo
  <1>2. /\ t + Offset(t) >= 24 * LocalDay(t) + 2
        /\ t - 1 + Offset(t - 1) < 24 * LocalDay(t) + 2
    BY DEF IsTwo, ScheduleHour
  <1>3. Offset(t - 1) \in {1, 2} /\ Offset(t) \in {1, 2} BY <1>1, DaysOf
  <1>4. /\ UtcDay(t) \in Nat /\ 24 * UtcDay(t) <= t /\ t < 24 * UtcDay(t) + 24
        /\ LocalDay(t) \in Nat
    BY DaysOf
  <1>5. \A u, l, o, p \in Nat :
           /\ 24 * u <= t /\ t < 24 * u + 24 /\ o \in {1, 2} /\ p \in {1, 2}
           /\ t + o >= 24 * l + 2 /\ t - 1 + p < 24 * l + 2
           => u = l /\ t - 24 * u \in {0, 1}
    OBVIOUS
  <1>6. LocalDay(t) = UtcDay(t) /\ t - 24 * UtcDay(t) \in {0, 1}
    BY <1>2, <1>3, <1>4, <1>5
  <1> QED BY <1>1, <1>2, <1>6

(* The next tick is later, at the beginning of a UTC day, and jumps over   *)
(* no two o'clock, on whichever side of a change of the clocks it is       *)
(* computed.                                                               *)
LEMMA NoTwoIsJumped ==
    ASSUME NEW now \in Nat
    PROVE  /\ NextTick(now) \in Nat /\ now < NextTick(now)
           /\ NextTick(now) - 24 * UtcDay(NextTick(now)) \in {0, 1}
           /\ \A t \in Nat : now < t /\ t < NextTick(now) => ~IsTwo(t)
  <1> DEFINE d == UtcDay(now)
             candidate == 24 * d + 2 - Offset(now)
  <1>1. d \in Nat /\ 24 * d <= now /\ now < 24 * d + 24 /\ Offset(now) \in {1, 2}
    BY DaysOf
  <1>2. NextTick(now) = IF candidate <= now THEN candidate + 24 ELSE candidate
    BY DEF NextTick, ScheduleHour
  <1>3. NextTick(now) \in Nat /\ now < NextTick(now) BY <1>1, <1>2
  <1>4. NextTick(now) - 24 * UtcDay(NextTick(now)) \in {0, 1}
    <2>1. /\ UtcDay(NextTick(now)) \in Nat
          /\ 24 * UtcDay(NextTick(now)) <= NextTick(now)
          /\ NextTick(now) < 24 * UtcDay(NextTick(now)) + 24
      BY <1>3, DaysOf
    <2> HIDE DEF d
    <2> QED BY <2>1, <1>1, <1>2
  <1>5. ASSUME NEW t \in Nat, now < t, t < NextTick(now), IsTwo(t) PROVE FALSE
    <2>1. /\ t - 24 * UtcDay(t) \in {0, 1} /\ UtcDay(t) \in Nat
          /\ t - 1 + Offset(t - 1) < 24 * UtcDay(t) + 2
          /\ t + Offset(t) >= 24 * UtcDay(t) + 2
          /\ t - 1 \in Nat
      BY <1>5, TwoIsEarly, DaysOf
    <2>2. Offset(t) \in {1, 2} /\ Offset(t - 1) \in {1, 2} BY <2>1, DaysOf
    <2>3. \/ t = now + 1 /\ UtcDay(t) = d /\ now = 24 * d
          \/ t = 24 * (d + 1) /\ Offset(now) = 1 /\ candidate <= now
      <3> HIDE DEF d
      <3> QED BY <2>1, <2>2, <1>1, <1>2, <1>5
    <2>4. CASE t = now + 1 /\ UtcDay(t) = d /\ now = 24 * d
      <3>1. Offset(now) = 1 BY <2>4, <2>1, <1>1
      <3>2. NextTick(now) = now + 1 BY <3>1, <2>4, <1>1, <1>2
      <3> QED BY <3>2, <2>4, <1>5
    <2>5. CASE t = 24 * (d + 1) /\ Offset(now) = 1 /\ candidate <= now
      <3>1. Offset(t) = 2 BY <2>5, <2>1, <2>2, <1>1
      <3>2. season = "spring" /\ now < 25 /\ t >= 25
        BY <3>1, <2>5, <1>5, <1>1 DEF Offset, ClockChange
      <3>3. d = 1 /\ now = 24 BY <3>2, <2>5, <1>1
      <3> QED BY <3>3, <2>5
    <2> QED BY <2>3, <2>4, <2>5
  <1> QED BY <1>3, <1>4, <1>5

(* A tick that fires late still fires for the night it is for.             *)
LEMMA LateIsTheSameNight ==
    ASSUME NEW now \in Nat, NEW at \in Nat, NEW t \in Nat, IsTwo(t),
           at - 24 * UtcDay(at) \in {0, 1}, at <= t, t <= now, now <= at + 20
    PROVE  Wanted(t) = Wanted(now)
  <1>1. /\ t - 24 * UtcDay(t) \in {0, 1} /\ LocalDay(t) = UtcDay(t) BY TwoIsEarly
  <1>2. /\ UtcDay(t) \in Nat /\ UtcDay(at) \in Nat
        /\ UtcDay(now) \in Nat /\ 24 * UtcDay(now) <= now /\ now < 24 * UtcDay(now) + 24
        /\ LocalDay(now) \in Nat /\ Offset(now) \in {1, 2}
        /\ 24 * LocalDay(now) <= now + Offset(now) /\ now + Offset(now) < 24 * LocalDay(now) + 24
    BY DaysOf
  <1>3. \A u, v \in Nat : t - 24 * u \in {0, 1} /\ at - 24 * v \in {0, 1} => u = v
    OBVIOUS
  <1>4. UtcDay(t) = UtcDay(at) BY <1>1, <1>2, <1>3
  <1>5. \A u, v, o \in Nat :
           /\ t - 24 * u \in {0, 1} /\ at - 24 * u \in {0, 1} /\ o \in {1, 2}
           /\ 24 * v <= now + o /\ now + o < 24 * v + 24
           => v = u
    OBVIOUS
  <1>6. \A u, v \in Nat :
           /\ t - 24 * u \in {0, 1} /\ at - 24 * u \in {0, 1}
           /\ 24 * v <= now /\ now < 24 * v + 24
           => v = u
    OBVIOUS
  <1>7. UtcDay(now) = UtcDay(t) /\ LocalDay(now) = UtcDay(t)
    BY <1>1, <1>2, <1>4, <1>5, <1>6
  <1> QED BY <1>1, <1>7 DEF Wanted

(* The invariant: each two o'clock that has passed is dealt with, unless   *)
(* the timer has yet to go off for it or its tick is being worked on.      *)
Dealt(t) == Wanted(t) \subseteq enqueued \cup excused

TimerIsTrue ==
    /\ hour \in Nat
    /\ timer \in [state: {"down", "waiting", "enqueueing"}, nextAt: Nat,
                  todo: SUBSET (Sources \X WindowKinds \X Nat)]
    /\ timer.state = "waiting" =>
         /\ timer.nextAt - 24 * UtcDay(timer.nextAt) \in {0, 1}
         /\ hour <= timer.nextAt + MaxDelay
         /\ \A t \in Nat : hour < t /\ t < timer.nextAt => ~IsTwo(t)

NightsAreDealtWith ==
    \A t \in Nat : t <= hour /\ IsTwo(t) =>
        CASE timer.state = "down" -> Dealt(t)
          [] timer.state = "waiting" -> t < timer.nextAt => Dealt(t)
          [] OTHER -> Wanted(t) \subseteq enqueued \cup excused \cup timer.todo

SchedulerInvariant == TimerIsTrue /\ NightsAreDealtWith

LEMMA WaitIsTrue ==
    ASSUME hour \in Nat, timer' = Wait, UNCHANGED <<season, hour>>,
           \A t \in Nat : t <= hour /\ IsTwo(t) => Wanted(t) \subseteq enqueued' \cup excused'
    PROVE  SchedulerInvariant'
  <1>1. /\ timer'.state = "waiting" /\ timer'.nextAt = NextTick(hour) /\ timer'.todo = {}
        /\ timer' = [state |-> "waiting", nextAt |-> NextTick(hour), todo |-> {}]
    BY DEF Wait
  <1>2. /\ NextTick(hour) \in Nat /\ hour < NextTick(hour)
        /\ NextTick(hour) - 24 * UtcDay(NextTick(hour)) \in {0, 1}
        /\ \A t \in Nat : hour < t /\ t < NextTick(hour) => ~IsTwo(t)
    BY NoTwoIsJumped
  <1>3. \A t \in Nat : IsTwo(t)' <=> IsTwo(t)
    BY DEF IsTwo, Offset, LocalDay, ScheduleHour, ClockChange
  <1>4. \A t : Wanted(t)' = Wanted(t)
    BY DEF Wanted, LocalDay, Offset, ClockChange, UtcDay
  <1>5. TimerIsTrue' BY <1>1, <1>2, <1>3, SchedulerAssumption DEF TimerIsTrue, UtcDay
  <1>6. NightsAreDealtWith' BY <1>1, <1>2, <1>3, <1>4 DEF NightsAreDealtWith, Dealt
  <1> QED BY <1>5, <1>6 DEF SchedulerInvariant

LEMMA SchedulerKeeps ==
    SchedulerInvariant /\ [SchedulerNext]_schedulerVars => SchedulerInvariant'
  <1> SUFFICES ASSUME SchedulerInvariant, [SchedulerNext]_schedulerVars
               PROVE  SchedulerInvariant'
    OBVIOUS
  <1>0. /\ hour \in Nat /\ MaxDelay \in Nat /\ MaxDelay <= 20
        /\ timer \in [state: {"down", "waiting", "enqueueing"}, nextAt: Nat,
                      todo: SUBSET (Sources \X WindowKinds \X Nat)]
        /\ TimerIsTrue /\ NightsAreDealtWith
    BY SchedulerAssumption DEF SchedulerInvariant, TimerIsTrue
  <1>1. season' = season
    BY DEF SchedulerNext, Start, HourPasses, TickFires, EnqueueNext, ScheduleNext, Stop,
           RunsSettle, schedulerVars
  <1>2. /\ \A t \in Nat : IsTwo(t)' <=> IsTwo(t)
        /\ \A t : Wanted(t)' = Wanted(t)
    BY <1>1 DEF IsTwo, Offset, LocalDay, ScheduleHour, ClockChange, Wanted, UtcDay
  <1>3. timer.state = "waiting" =>
           \A t \in Nat : /\ hour < t /\ t < timer.nextAt => ~IsTwo(t)
                          /\ t <= hour /\ IsTwo(t) /\ t < timer.nextAt => Dealt(t)
                          /\ t <= hour /\ IsTwo(t) /\ timer.nextAt <= t => Wanted(t) = Wanted(hour)
    <2> SUFFICES ASSUME timer.state = "waiting", NEW t \in Nat, t <= hour, IsTwo(t),
                        timer.nextAt <= t
                 PROVE  Wanted(t) = Wanted(hour)
      BY <1>0 DEF TimerIsTrue, NightsAreDealtWith
    <2>1. timer.nextAt \in Nat /\ hour <= timer.nextAt + 20
          /\ timer.nextAt - 24 * UtcDay(timer.nextAt) \in {0, 1}
      BY <1>0 DEF TimerIsTrue
    <2> QED BY <2>1, <1>0, LateIsTheSameNight
  <1>4. CASE Start \/ ScheduleNext
    <2>1. \A t \in Nat : t <= hour /\ IsTwo(t) => Dealt(t)
      BY <1>0, <1>4 DEF Start, ScheduleNext, NightsAreDealtWith, Dealt
    <2> QED BY <2>1, <1>0, <1>4, WaitIsTrue DEF Start, ScheduleNext, Dealt
  <1>5. CASE HourPasses
    <2>1. /\ hour' = hour + 1 /\ timer' = timer /\ enqueued' = enqueued
          /\ timer.state # "enqueueing" /\ excused \subseteq excused'
          /\ timer.state = "waiting" => hour < timer.nextAt + MaxDelay
          /\ timer.state = "down" /\ IsTwo(hour') => Wanted(hour') \subseteq excused'
      BY <1>5 DEF HourPasses
    <2>2. TimerIsTrue' BY <2>1, <1>0, <1>2, <1>3 DEF TimerIsTrue, UtcDay
    <2>3. ASSUME NEW t \in Nat, t <= hour', IsTwo(t)'
          PROVE  /\ timer.state = "down" => Dealt(t)'
                 /\ timer.state = "waiting" /\ t < timer.nextAt => Dealt(t)'
      <3>1. IsTwo(t) BY <2>3, <1>2
      <3>2. CASE t <= hour BY <3>1, <3>2, <2>1, <1>0, <1>2 DEF NightsAreDealtWith, Dealt
      <3>3. CASE t = hour' BY <3>1, <3>3, <2>1, <1>0, <1>2, <1>3 DEF Dealt
      <3> QED BY <3>2, <3>3, <2>1, <2>3, <1>0
    <2>4. NightsAreDealtWith' BY <2>1, <2>3, <1>0 DEF NightsAreDealtWith
    <2> QED BY <2>2, <2>4 DEF SchedulerInvariant
  <1>6. CASE TickFires
    <2>1. /\ timer.state = "waiting" /\ hour >= timer.nextAt
          /\ UNCHANGED <<season, hour, active, enqueued>>
      BY <1>6 DEF TickFires
    <2>2. \A t \in Nat : t <= hour /\ IsTwo(t) =>
             Wanted(t) \subseteq enqueued \cup excused \cup Wanted(hour)
      BY <2>1, <1>0, <1>3 DEF Dealt
    <2>3. CASE timer' = Wait /\ excused' = excused \cup Wanted(hour)
      BY <2>1, <2>2, <2>3, <1>0, WaitIsTrue
    <2>4. CASE /\ timer' = [timer EXCEPT !.state = "enqueueing", !.todo = Wanted(hour)]
               /\ excused' = excused
      <3>1. Wanted(hour) \in SUBSET (Sources \X WindowKinds \X Nat)
        <4>1. UtcDay(hour) \in Nat BY <1>0, DaysOf
        <4> QED BY <4>1 DEF Wanted, WindowKinds
      <3>2. /\ timer'.state = "enqueueing" /\ timer'.todo = Wanted(hour)
            /\ timer' \in [state: {"down", "waiting", "enqueueing"}, nextAt: Nat,
                           todo: SUBSET (Sources \X WindowKinds \X Nat)]
        BY <2>4, <3>1, <1>0
      <3>3. TimerIsTrue' BY <3>2, <2>1, <1>0 DEF TimerIsTrue
      <3>4. NightsAreDealtWith' BY <3>2, <2>1, <2>2, <2>4, <1>2 DEF NightsAreDealtWith
      <3> QED BY <3>3, <3>4 DEF SchedulerInvariant
    <2> QED BY <1>6, <2>3, <2>4 DEF TickFires
  <1>7. CASE EnqueueNext
    <2>1. PICK r \in timer.todo :
             /\ timer' = [timer EXCEPT !.todo = @ \ {r}]
             /\ enqueued \cup excused \cup {r} \subseteq enqueued' \cup excused'
      BY <1>7 DEF EnqueueNext
    <2>2. timer.state = "enqueueing" /\ hour' = hour BY <1>7 DEF EnqueueNext
    <2>3. /\ timer'.state = "enqueueing" /\ timer'.todo = timer.todo \ {r}
          /\ timer' \in [state: {"down", "waiting", "enqueueing"}, nextAt: Nat,
                         todo: SUBSET (Sources \X WindowKinds \X Nat)]
      BY <2>1, <2>2, <1>0
    <2>4. TimerIsTrue' BY <2>2, <2>3, <1>0 DEF TimerIsTrue
    <2>5. NightsAreDealtWith' BY <2>1, <2>2, <2>3, <1>0, <1>2 DEF NightsAreDealtWith
    <2> QED BY <2>4, <2>5 DEF SchedulerInvariant
  <1>8. CASE Stop
    <2>1. /\ timer' = [state |-> "down", nextAt |-> 0, todo |-> {}]
          /\ timer.state # "down" /\ UNCHANGED <<season, hour, active, enqueued>>
          /\ excused \cup timer.todo \subseteq excused'
          /\ timer.state = "waiting" /\ hour >= timer.nextAt => Wanted(hour) \subseteq excused'
      BY <1>8 DEF Stop
    <2>2. TimerIsTrue' BY <2>1, <1>0 DEF TimerIsTrue
    <2>3. ASSUME NEW t \in Nat, t <= hour, IsTwo(t)
          PROVE  Wanted(t) \subseteq enqueued' \cup excused'
      <3>1. CASE timer.state = "waiting" BY <3>1, <2>1, <2>3, <1>0, <1>3 DEF Dealt
      <3>2. CASE timer.state = "enqueueing"
        BY <3>2, <2>1, <2>3, <1>0 DEF NightsAreDealtWith
      <3> QED BY <3>1, <3>2, <2>1, <1>0
    <2>4. NightsAreDealtWith' BY <2>1, <2>3, <1>2 DEF NightsAreDealtWith, Dealt
    <2> QED BY <2>2, <2>4 DEF SchedulerInvariant
  <1>9. CASE RunsSettle \/ UNCHANGED schedulerVars
    <2>1. UNCHANGED <<season, hour, timer, enqueued, excused>>
      BY <1>9 DEF RunsSettle, schedulerVars
    <2>2. TimerIsTrue' BY <2>1, <1>0, <1>2 DEF TimerIsTrue, UtcDay
    <2>3. NightsAreDealtWith' BY <2>1, <1>0, <1>2 DEF NightsAreDealtWith, Dealt
    <2> QED BY <2>2, <2>3 DEF SchedulerInvariant
  <1> QED BY <1>4, <1>5, <1>6, <1>7, <1>8, <1>9 DEF SchedulerNext

THEOREM SchedulerIsSound == SchedulerSpec => []SchedulerInvariant
  <1>1. SchedulerInit => SchedulerInvariant
    <2> SUFFICES ASSUME SchedulerInit PROVE SchedulerInvariant OBVIOUS
    <2>1. hour = 0 /\ timer = [state |-> "down", nextAt |-> 0, todo |-> {}]
      BY DEF SchedulerInit
    <2>2. TimerIsTrue BY <2>1 DEF TimerIsTrue
    <2>3. NightsAreDealtWith BY <2>1 DEF NightsAreDealtWith, IsTwo
    <2> QED BY <2>2, <2>3 DEF SchedulerInvariant
  <1> QED BY <1>1, SchedulerKeeps, PTL DEF SchedulerSpec

LEMMA SchedulerIsAPart == ImportsSpec => SchedulerSpec
  <1>1. ImportsInit => SchedulerInit BY DEF ImportsInit
  <1>2. [ImportsNext]_<<component, queueVars, removalsVars, materializeVars, schedulerVars,
                        breakerVars, importVars, transcriptVars, clientVars, linkVars,
                        backfillVars>>
           => [SchedulerNext]_schedulerVars
    BY DEF ImportsNext, QueueStep, RemovalsStep, MaterializeStep, SchedulerStep, BreakerStep,
           ExtractionStep, TranscriptStep, ClientStep, LinksStep, BackfillStep
  <1> QED BY <1>1, <1>2, PTL DEF ImportsSpec, SchedulerSpec

(* NoNightIsLost, for every number of days and sources and every delay up  *)
(* to twenty hours: a night the scheduler has passed was enqueued or       *)
(* excused, on both sides of a change of the clocks.                       *)
THEOREM NightsAreKept == ImportsSpec => []NoNightIsLost
  <1>1. SchedulerInvariant => NoNightIsLost
    <2> SUFFICES ASSUME SchedulerInvariant, NEW t \in Hours, Passed(t)
                 PROVE  Wanted(t) \subseteq enqueued \cup excused
      BY DEF NoNightIsLost
    <2>1. t \in Nat BY SchedulerAssumption DEF Hours
    <2>2. /\ hour \in Nat /\ timer.nextAt \in Nat /\ hour >= t /\ IsTwo(t)
          /\ timer.state = "waiting" /\ hour < timer.nextAt
      BY DEF SchedulerInvariant, TimerIsTrue, Passed
    <2> QED BY <2>1, <2>2 DEF SchedulerInvariant, NightsAreDealtWith, Dealt
  <1> QED BY <1>1, SchedulerIsSound, SchedulerIsAPart, PTL
-----------------------------------------------------------------------------
(* The extractors together: the supplier of an import is settled when it   *)
(* begins, and the step of one supplier is disabled in a run of another.   *)
ImportAccounted == SiteInvariant \/ NotubizInvariant \/ IbabsInvariant

LEMMA SuppliersAre ==
  /\ SiteInvariant => plan.supplier \in {"gemeenteoplossingen", "parlaeus"}
  /\ NotubizInvariant => plan.supplier = "notubiz"
  /\ IbabsInvariant => plan.supplier = "ibabs"
  BY DEF SiteInvariant, SiteTypeOK, NotubizInvariant, NotubizTypeOK, IbabsInvariant, IbabsTypeOK

LEMMA StepsAreOfASupplier ==
  /\ SiteNext => plan.supplier \in {"gemeenteoplossingen", "parlaeus"}
  /\ NotubizNext => plan.supplier = "notubiz"
  /\ IbabsNext => plan.supplier = "ibabs"
  BY DEF SiteNext, NotubizNext, IbabsNext

LEMMA ImportsAreAccounted == ImportsSpec => []ImportAccounted
  <1>1. ImportsInit => ImportAccounted
    BY SiteStarts, NotubizStarts, IbabsStarts DEF ImportsInit, ImportAccounted
  <1>2. ASSUME ImportAccounted, IbabsNext \/ NotubizNext \/ SiteNext
        PROVE  ImportAccounted'
    <2>1. CASE SiteNext
      BY <1>2, <2>1, SuppliersAre, StepsAreOfASupplier, SiteStep DEF ImportAccounted
    <2>2. CASE NotubizNext
      BY <1>2, <2>2, SuppliersAre, StepsAreOfASupplier, NotubizStep DEF ImportAccounted
    <2>3. CASE IbabsNext
      BY <1>2, <2>3, SuppliersAre, StepsAreOfASupplier, IbabsStep DEF ImportAccounted
    <2> QED BY <1>2, <2>1, <2>2, <2>3
  <1>3. ASSUME ImportAccounted, UNCHANGED importVars
        PROVE  ImportAccounted'
    BY <1>3, SiteStutters, NotubizStutters, IbabsStutters DEF ImportAccounted
  <1>4. [ImportsNext]_<<component, queueVars, removalsVars, materializeVars, schedulerVars,
                        breakerVars, importVars, transcriptVars, clientVars, linkVars,
                        backfillVars>>
           => [IbabsNext \/ NotubizNext \/ SiteNext]_importVars
    BY DEF ImportsNext, QueueStep, RemovalsStep, MaterializeStep, SchedulerStep, BreakerStep,
           ExtractionStep, TranscriptStep, ClientStep, LinksStep, BackfillStep
  <1> QED BY <1>1, <1>2, <1>3, <1>4, PTL DEF ImportsSpec

LEMMA AccountedImportsLoseNothing ==
  ASSUME ImportAccounted
  PROVE  /\ plan.supplier = "ibabs" => IbabsLosesNothing
         /\ plan.supplier = "notubiz" => NotubizLosesNothing
         /\ plan.supplier \in {"gemeenteoplossingen", "parlaeus"} => SiteLosesNothing
         /\ RunTypeOK /\ (IbabsTypeOK \/ NotubizTypeOK \/ SiteTypeOK)
  <1>1. RunTypeOK /\ (IbabsTypeOK \/ NotubizTypeOK \/ SiteTypeOK)
    BY DEF ImportAccounted, SiteInvariant, NotubizInvariant, IbabsInvariant, RunGoesOn
  <1> QED BY <1>1, SuppliersAre, SiteAccountsForAll, NotubizAccountsForAll, IbabsAccountsForAll
          DEF ImportAccounted
-----------------------------------------------------------------------------
LEMMA LeastNumber ==
    ASSUME NEW B \in SUBSET Nat, B # {}
    PROVE  \E n \in B : \A m \in B : n <= m
  <1>1. IsWellFoundedOn(OpToRel(<, Nat), Nat) BY NatLessThanWellFounded
  <1>2. PICK n \in B : \A m \in B : ~(<<m, n>> \in OpToRel(<, Nat)) BY <1>1, WFMin
  <1>3. \A m \in B : ~(m < n) BY <1>2 DEF OpToRel
  <1> QED BY <1>3

(* The backfill (Backfill). Going back by months goes back, so that the    *)
(* chunks of a history are cut from its end until they reach its first day. *)
LEMMA MonthCalendar ==
    /\ MonthEnds \in Seq(Nat \ {0}) /\ Len(MonthEnds) \in Nat \ {0}
    /\ DOMAIN MonthEnds = 1 .. Len(MonthEnds)
    /\ \A m \in 1 .. Len(MonthEnds) :
          MonthEnds[m] \in Nat /\ MonthEnds[m] > 0
          /\ \A l \in 1 .. m - 1 : MonthEnds[l] < MonthEnds[m]
    /\ YearEnds \in Seq(Nat) /\ Len(YearEnds) \in Nat \ {0}
    /\ DOMAIN YearEnds = 1 .. Len(YearEnds)
    /\ \A y \in 1 .. Len(YearEnds) : YearEnds[y] \in Nat
    /\ ChunkMonths \in Nat \ {0} /\ Today \in Nat /\ Today > 0
    /\ Today <= MonthEnds[Len(MonthEnds)] /\ Today <= YearEnds[Len(YearEnds)]
    /\ Histories \subseteq (1 .. Today) \X (1 .. Today)
  <1>1. /\ MonthEnds \in Seq(Nat \ {0}) /\ MonthEnds # <<>>
        /\ YearEnds \in Seq(Nat) /\ YearEnds # <<>>
        /\ \A m \in DOMAIN MonthEnds : \A l \in 1 .. m - 1 : MonthEnds[l] < MonthEnds[m]
        /\ ChunkMonths \in Nat \ {0}
        /\ Today \in 1 .. MonthEnds[Len(MonthEnds)] /\ Today <= YearEnds[Len(YearEnds)]
        /\ Histories \subseteq (1 .. Today) \X (1 .. Today)
    BY BackfillAssumption DEF BackfillAssumption
  <1>2. Len(MonthEnds) \in Nat \ {0} /\ DOMAIN MonthEnds = 1 .. Len(MonthEnds)
        /\ \A m \in 1 .. Len(MonthEnds) : MonthEnds[m] \in Nat \ {0}
    BY <1>1
  <1>3. Len(YearEnds) \in Nat \ {0} /\ DOMAIN YearEnds = 1 .. Len(YearEnds)
        /\ \A y \in 1 .. Len(YearEnds) : YearEnds[y] \in Nat
    BY <1>1
  <1>4. MonthEnds[Len(MonthEnds)] \in Nat BY <1>2
  <1>5. Today \in Nat /\ Today > 0 /\ Today <= MonthEnds[Len(MonthEnds)] BY <1>1, <1>4
  <1>6. \A m \in 1 .. Len(MonthEnds) :
           MonthEnds[m] \in Nat /\ MonthEnds[m] > 0
           /\ \A l \in 1 .. m - 1 : MonthEnds[l] < MonthEnds[m]
    <2> TAKE m \in 1 .. Len(MonthEnds)
    <2>1. MonthEnds[m] \in Nat /\ MonthEnds[m] > 0 BY <1>2
    <2>2. m \in DOMAIN MonthEnds BY <1>2
    <2> QED BY <1>1, <2>1, <2>2
  <1> QED BY <1>1, <1>2, <1>3, <1>5, <1>6

LEMMA MonthsGoBack ==
    ASSUME NEW day \in 1 .. Today
    PROVE  MonthsBack(day) \in Nat /\ MonthsBack(day) < day
  <1> DEFINE Months == 1 .. Len(MonthEnds)
             B == { m \in Months : day <= MonthEnds[m] }
             m == MonthOf(day)
  <1>1. PICK least \in B : \A l \in B : least <= l
    <2>1. Len(MonthEnds) \in Months BY MonthCalendar
    <2>2. day <= MonthEnds[Len(MonthEnds)]
      <3>1. MonthEnds[Len(MonthEnds)] \in Nat BY <2>1, MonthCalendar
      <3> QED BY <3>1, MonthCalendar
    <2>3. Len(MonthEnds) \in B /\ B \in SUBSET Nat BY <2>1, <2>2
    <2> HIDE DEF B
    <2> QED BY <2>3, LeastNumber
  <1>2. MonthStart(least) <= day
    <2>1. CASE least = 1 BY <2>1 DEF MonthStart
    <2>2. CASE least # 1
      <3>1. least - 1 \in Months /\ least - 1 \notin B BY <1>1, <2>2, MonthCalendar
      <3>2. ~(day <= MonthEnds[least - 1]) /\ MonthEnds[least - 1] \in Nat
        BY <3>1, MonthCalendar
      <3> QED BY <2>2, <3>2 DEF MonthStart
    <2> QED BY <2>1, <2>2
  <1>3. m \in Months /\ MonthStart(m) <= day /\ day <= MonthEnds[m]
    <2>1. least \in DOMAIN MonthEnds /\ MonthStart(least) <= day /\ day <= MonthEnds[least]
      BY <1>1, <1>2, MonthCalendar
    <2>2. m \in DOMAIN MonthEnds /\ MonthStart(m) <= day /\ day <= MonthEnds[m]
      BY <2>1 DEF MonthOf
    <2> QED BY <2>2, MonthCalendar
  <1> HIDE DEF m
  <1>4. \A l \in Months : MonthStart(l) \in Nat /\ MonthStart(l) > 0
    <2> SUFFICES ASSUME NEW l \in Months PROVE MonthStart(l) \in Nat /\ MonthStart(l) > 0
      OBVIOUS
    <2>1. CASE l = 1 BY <2>1 DEF MonthStart
    <2>2. CASE l # 1
      <3>1. l - 1 \in Months BY <2>2, MonthCalendar
      <3> QED BY <2>2, <3>1, MonthCalendar DEF MonthStart
    <2> QED BY <2>1, <2>2
  <1>5. CASE m > ChunkMonths
    <2> DEFINE l == m - ChunkMonths
    <2>1. l \in Months /\ l < m /\ m - 1 \in Months /\ m # 1 /\ l \in Nat /\ m \in Nat
      BY <1>3, <1>5, MonthCalendar
    <2>2. MonthStart(l) < MonthStart(m)
      <3>1. CASE l = 1 BY <2>1, <3>1, MonthCalendar DEF MonthStart
      <3>2. CASE l # 1
        <4>1. l - 1 \in 1 .. (m - 1) - 1 /\ l - 1 \in Months
          BY <2>1, <3>2, MonthCalendar
        <4>2. MonthEnds[l - 1] < MonthEnds[m - 1] BY <2>1, <4>1, MonthCalendar
        <4> HIDE DEF l
        <4>3. MonthEnds[l - 1] \in Nat /\ MonthEnds[m - 1] \in Nat
          BY <2>1, <4>1, MonthCalendar
        <4> QED BY <2>1, <3>2, <4>2, <4>3 DEF MonthStart
      <3> QED BY <3>1, <3>2
    <2>3. MonthsBack(day) = MonthStart(l) + (day - MonthStart(m))
      BY <1>5 DEF MonthsBack, m
    <2>4. MonthStart(l) \in Nat /\ MonthStart(m) \in Nat BY <1>3, <1>4, <2>1
    <2> HIDE DEF l
    <2> QED BY <1>3, <2>2, <2>3, <2>4
  <1>6. CASE ~(m > ChunkMonths)
    <2>1. MonthsBack(day) = 0 BY <1>6 DEF MonthsBack, m
    <2> QED BY <2>1
  <1> QED BY <1>5, <1>6

PlanDays == 0 .. Today
ChunkStart(from, end) == IF MonthsBack(end) > from THEN MonthsBack(end) ELSE from
ChunksTo(f, from, end) ==
    IF end <= from THEN <<>>
    ELSE <<<<ChunkStart(from, end), end>>>> \o f[ChunkStart(from, end)]
Chunking(f, from, to) == f = [end \in 0 .. to |-> ChunksTo(f, from, end)]

Covered(chunks, from, to) ==
    /\ chunks \in Seq(PlanDays \X PlanDays)
    /\ \A day \in from .. to - 1 : \E i \in 1 .. Len(chunks) :
          chunks[i][1] <= day /\ day + 1 <= chunks[i][2]

LEMMA ChunksAreThese == \A from, to : DateChunks(from, to) = (CHOOSE f : Chunking(f, from, to))[to]
  BY DEF DateChunks, Chunking, ChunksTo, ChunkStart

LEMMA ChunkStartsBefore ==
    ASSUME NEW from \in 1 .. Today, NEW end \in PlanDays, from < end
    PROVE  ChunkStart(from, end) \in from .. end - 1 /\ ChunkStart(from, end) \in PlanDays
  <1>1. end \in 1 .. Today /\ Today \in Nat BY MonthCalendar DEF PlanDays
  <1>2. MonthsBack(end) \in Nat /\ MonthsBack(end) < end BY <1>1, MonthsGoBack
  <1> QED BY <1>1, <1>2 DEF ChunkStart, PlanDays

LEMMA OneChunkMore ==
    ASSUME NEW from \in 1 .. Today, NEW end \in PlanDays, NEW f,
           from < end => Covered(f[ChunkStart(from, end)], from, ChunkStart(from, end))
    PROVE  Covered(ChunksTo(f, from, end), from, end)
  <1>0. from \in Nat /\ end \in Nat /\ Today \in Nat BY MonthCalendar DEF PlanDays
  <1>1. CASE end <= from
    <2>1. ChunksTo(f, from, end) = <<>> /\ <<>> \in Seq(PlanDays \X PlanDays)
      BY <1>1 DEF ChunksTo
    <2>2. \A day \in from .. end - 1 : FALSE BY <1>0, <1>1
    <2> QED BY <2>1, <2>2 DEF Covered
  <1>2. CASE ~(end <= from)
    <2> DEFINE start == ChunkStart(from, end)
               rest == f[start]
               first == <<start, end>>
               all == <<first>> \o rest
    <2>1. start \in from .. end - 1 /\ start \in PlanDays
      BY <1>0, <1>2, ChunkStartsBefore
    <2>2. Covered(rest, from, start) BY <1>0, <1>2
    <2>3. ChunksTo(f, from, end) = all BY <1>2 DEF ChunksTo
    <2> HIDE DEF start, rest
    <2>4. rest \in Seq(PlanDays \X PlanDays) /\ Len(rest) \in Nat BY <2>2 DEF Covered
    <2>5. first \in PlanDays \X PlanDays /\ first[1] = start /\ first[2] = end BY <2>1
    <2> HIDE DEF first
    <2>6. <<first>> \in Seq(PlanDays \X PlanDays) /\ Len(<<first>>) = 1 /\ <<first>>[1] = first
      BY <2>5
    <2>7. /\ all \in Seq(PlanDays \X PlanDays) /\ Len(all) = 1 + Len(rest) /\ all[1] = first
          /\ \A i \in 2 .. 1 + Len(rest) : all[i] = rest[i - 1]
      BY <2>4, <2>6, ConcatProperties
    <2> HIDE DEF all
    <2>8. ASSUME NEW day \in from .. end - 1
          PROVE  \E i \in 1 .. Len(all) : all[i][1] <= day /\ day + 1 <= all[i][2]
      <3>1. CASE day < start
        <4>1. day \in from .. start - 1 BY <1>0, <2>1, <3>1
        <4>2. PICK i \in 1 .. Len(rest) : rest[i][1] <= day /\ day + 1 <= rest[i][2]
          BY <2>2, <4>1 DEF Covered
        <4>3. i + 1 \in 2 .. 1 + Len(rest) /\ i + 1 \in 1 .. Len(all) /\ (i + 1) - 1 = i
          BY <2>4, <2>7
        <4>4. all[i + 1] = rest[i] BY <2>7, <4>3
        <4> QED BY <4>2, <4>3, <4>4
      <3>2. CASE ~(day < start)
        <4>1. 1 \in 1 .. Len(all) /\ all[1] = first BY <2>4, <2>7
        <4>2. start <= day /\ day + 1 <= end BY <1>0, <2>1, <3>2
        <4> QED BY <2>5, <4>1, <4>2
      <3> QED BY <3>1, <3>2
    <2> QED BY <2>3, <2>7, <2>8 DEF Covered
  <1> QED BY <1>1, <1>2

LEMMA ChunkingExists ==
    ASSUME NEW from \in 1 .. Today, NEW to \in 1 .. Today
    PROVE  \E f : Chunking(f, from, to)
  <1> DEFINE All == Seq(PlanDays \X PlanDays)
             Cuts(f, m) == \A end \in 0 .. to : end <= m =>
                              f[end] = ChunksTo(f, from, end) /\ Covered(f[end], from, end)
             UpTo(m) == \E f \in [0 .. to -> All] : Cuts(f, m)
             Bad == { m \in 0 .. to : ~UpTo(m) }
  <1>0. Today \in Nat /\ to \in Nat /\ from \in Nat /\ from > 0 /\ 0 .. to \subseteq PlanDays
    BY MonthCalendar DEF PlanDays
  <1>a. ASSUME NEW f, NEW g, NEW end \in 0 .. to,
               from < end => f[ChunkStart(from, end)] = g[ChunkStart(from, end)]
        PROVE  ChunksTo(f, from, end) = ChunksTo(g, from, end)
    <2>1. CASE end <= from BY <2>1 DEF ChunksTo
    <2>2. CASE ~(end <= from)
      <3>1. from < end BY <1>0, <2>2
      <3> QED BY <1>a, <2>2, <3>1 DEF ChunksTo
    <2> QED BY <2>1, <2>2
  <1>1. UpTo(0)
    <2> DEFINE f == [end \in 0 .. to |-> <<>>]
    <2>1. f \in [0 .. to -> All] OBVIOUS
    <2>2. ASSUME NEW end \in 0 .. to, end <= 0
          PROVE  f[end] = ChunksTo(f, from, end) /\ Covered(f[end], from, end)
      <3>1. end = 0 /\ end <= from /\ f[end] = <<>> BY <1>0, <2>2
      <3>2. f[end] = ChunksTo(f, from, end) BY <3>1 DEF ChunksTo
      <3> HIDE DEF f
      <3>3. Covered(ChunksTo(f, from, end), from, end) BY <1>0, <3>1, OneChunkMore
      <3> QED BY <3>2, <3>3
    <2> HIDE DEF f
    <2> QED BY <2>1, <2>2
  <1>2. ASSUME NEW m \in 0 .. to, m # to, UpTo(m)
        PROVE  UpTo(m + 1)
    <2>1. PICK f \in [0 .. to -> All] : Cuts(f, m) BY <1>2
    <2>2. m \in Nat /\ m + 1 \in 0 .. to /\ m + 1 \in PlanDays BY <1>0, <1>2
    <2> DEFINE next == ChunksTo(f, from, m + 1)
               g == [f EXCEPT ![m + 1] = next]
    <2>3. Covered(next, from, m + 1)
      <3>1. ASSUME from < m + 1
            PROVE  Covered(f[ChunkStart(from, m + 1)], from, ChunkStart(from, m + 1))
        <4>1. ChunkStart(from, m + 1) \in from .. m
          BY <1>0, <2>2, <3>1, ChunkStartsBefore
        <4>2. ChunkStart(from, m + 1) \in 0 .. to /\ ChunkStart(from, m + 1) <= m
          BY <1>0, <2>2, <4>1
        <4> QED BY <2>1, <4>2
      <3> QED BY <2>2, <3>1, OneChunkMore
    <2>4. next \in All
      <3> HIDE DEF next
      <3> QED BY <2>3 DEF Covered
    <2> HIDE DEF next
    <2>5. g \in [0 .. to -> All] /\ g[m + 1] = next
          /\ \A i \in 0 .. to : i # m + 1 => g[i] = f[i]
      BY <2>2, <2>4
    <2> HIDE DEF g
    <2>6. ASSUME NEW end \in 0 .. to, end <= m + 1
          PROVE  g[end] = ChunksTo(g, from, end) /\ Covered(g[end], from, end)
      <3>1. from < end => f[ChunkStart(from, end)] = g[ChunkStart(from, end)]
        <4> SUFFICES ASSUME from < end
                     PROVE  f[ChunkStart(from, end)] = g[ChunkStart(from, end)]
          OBVIOUS
        <4>1. ChunkStart(from, end) \in from .. end - 1 BY <1>0, ChunkStartsBefore
        <4>2. ChunkStart(from, end) \in 0 .. to /\ ChunkStart(from, end) # m + 1
          BY <1>0, <2>2, <2>6, <4>1
        <4> QED BY <2>5, <4>2
      <3>2. ChunksTo(f, from, end) = ChunksTo(g, from, end) BY <1>a, <3>1
      <3>3. CASE end = m + 1 BY <2>3, <2>5, <3>2, <3>3 DEF next
      <3>4. CASE end # m + 1
        <4>1. end <= m /\ g[end] = f[end] BY <2>2, <2>5, <2>6, <3>4
        <4> QED BY <2>1, <3>2, <4>1
      <3> QED BY <3>3, <3>4
    <2> QED BY <2>5, <2>6
  <1>3. UpTo(to)
    <2> SUFFICES ASSUME ~UpTo(to) PROVE FALSE OBVIOUS
    <2> HIDE DEF UpTo
    <2>1. to \in Bad /\ Bad \in SUBSET Nat BY <1>0
    <2>2. PICK m \in Bad : \A k \in Bad : m <= k
      <3> HIDE DEF Bad
      <3> QED BY <2>1, LeastNumber
    <2>3. m \in 0 .. to /\ m # 0 BY <1>1, <2>2
    <2>4. m - 1 \in 0 .. to /\ m - 1 # to /\ m - 1 \notin Bad /\ (m - 1) + 1 = m
      BY <1>0, <2>2, <2>3
    <2>5. UpTo(m - 1) BY <2>4
    <2>6. UpTo((m - 1) + 1) BY <1>2, <2>4, <2>5
    <2> QED BY <2>2, <2>4, <2>6
  <1>4. PICK f \in [0 .. to -> All] : Cuts(f, to) BY <1>3
  <1>5. \A end \in 0 .. to : f[end] = ChunksTo(f, from, end)
    <2>1. \A end \in 0 .. to : end <= to BY <1>0
    <2> QED BY <1>4, <2>1
  <1>6. f = [end \in 0 .. to |-> ChunksTo(f, from, end)] BY <1>4, <1>5
  <1> QED BY <1>6 DEF Chunking

(* dateChunks(): every two neighbouring days are in one chunk.             *)
LEMMA HistoryChunksCover ==
    ASSUME NEW from \in 1 .. Today, NEW to \in 1 .. Today
    PROVE  Covered(DateChunks(from, to), from, to)
  <1> DEFINE f == CHOOSE f : Chunking(f, from, to)
             Bad == { m \in 0 .. to : ~Covered(f[m], from, m) }
  <1>0. Today \in Nat /\ to \in Nat /\ from \in Nat /\ from > 0 /\ 0 .. to \subseteq PlanDays
    BY MonthCalendar DEF PlanDays
  <1>1. Chunking(f, from, to) BY ChunkingExists
  <1> HIDE DEF f
  <1>2. \A end \in 0 .. to : f[end] = ChunksTo(f, from, end) BY <1>1 DEF Chunking
  <1>3. Covered(f[to], from, to)
    <2> SUFFICES ASSUME ~Covered(f[to], from, to) PROVE FALSE OBVIOUS
    <2>1. to \in Bad /\ Bad \in SUBSET Nat BY <1>0
    <2>2. PICK m \in Bad : \A k \in Bad : m <= k
      <3> HIDE DEF Bad
      <3> QED BY <2>1, LeastNumber
    <2>3. m \in 0 .. to /\ ~Covered(f[m], from, m) /\ m \in PlanDays BY <1>0, <2>2
    <2>4. ASSUME from < m
          PROVE  Covered(f[ChunkStart(from, m)], from, ChunkStart(from, m))
      <3>1. ChunkStart(from, m) \in from .. m - 1 BY <2>3, <2>4, ChunkStartsBefore
      <3>2. ChunkStart(from, m) \in 0 .. to /\ ~(m <= ChunkStart(from, m))
        BY <1>0, <2>3, <3>1
      <3> QED BY <2>2, <3>2
    <2>5. Covered(ChunksTo(f, from, m), from, m) BY <2>3, <2>4, OneChunkMore
    <2> QED BY <1>2, <2>3, <2>5
  <1> QED BY <1>3, ChunksAreThese DEF f

(* yearWindows(): every day is in one.                                     *)
LEMMA YearsCover ==
    /\ DOMAIN YearWindows = 1 .. YearOf(Today) /\ YearOf(Today) \in Nat \ {0}
    /\ \A y \in 1 .. YearOf(Today) :
          YearWindows[y][1] \in PlanDays /\ YearWindows[y][2] \in PlanDays
          /\ YearWindows[y] = <<YearWindows[y][1], YearWindows[y][2]>>
    /\ \A day \in 1 .. Today : \E y \in 1 .. YearOf(Today) :
          YearWindows[y][1] <= day /\ day <= YearWindows[y][2]
  <1> DEFINE last == YearOf(Today)
             from(y) == IF y = 1 THEN 1 ELSE YearEnds[y - 1] + 1
             to(y) == IF y = last THEN Today ELSE YearEnds[y]
  <1>0. /\ Len(YearEnds) \in Nat \ {0} /\ DOMAIN YearEnds = 1 .. Len(YearEnds)
        /\ Today \in Nat /\ Today > 0 /\ Today <= YearEnds[Len(YearEnds)]
        /\ \A y \in 1 .. Len(YearEnds) : YearEnds[y] \in Nat
    BY MonthCalendar
  <1>1. last \in 1 .. Len(YearEnds) /\ Today <= YearEnds[last]
        /\ \A x \in 1 .. last - 1 : YearEnds[x] < Today
    <2> DEFINE B == { y \in 1 .. Len(YearEnds) : Today <= YearEnds[y] }
    <2>1. Len(YearEnds) \in B /\ B \in SUBSET Nat BY <1>0
    <2>2. PICK y \in B : \A x \in B : y <= x
      <3> HIDE DEF B
      <3> QED BY <2>1, LeastNumber
    <2>3. y \in DOMAIN YearEnds /\ Today <= YearEnds[y]
          /\ \A x \in 1 .. y - 1 : YearEnds[x] < Today
      <3>1. \A x \in 1 .. y - 1 : x \in 1 .. Len(YearEnds) /\ x \notin B BY <1>0, <2>2
      <3>2. \A x \in 1 .. y - 1 : YearEnds[x] \in Nat /\ ~(Today <= YearEnds[x])
        BY <1>0, <3>1
      <3> QED BY <1>0, <2>2, <3>2
    <2>4. last \in DOMAIN YearEnds /\ Today <= YearEnds[last]
          /\ \A x \in 1 .. last - 1 : YearEnds[x] < Today
      BY <2>3 DEF YearOf
    <2> QED BY <1>0, <2>4
  <1> HIDE DEF last
  <1>2. YearWindows = [y \in 1 .. last |-> <<from(y), to(y)>>] BY DEF YearWindows, last
  <1>3. ASSUME NEW y \in 1 .. last
        PROVE  from(y) \in PlanDays /\ to(y) \in PlanDays
    <2>1. from(y) \in PlanDays
      <3>1. CASE y = 1 BY <1>0, <3>1 DEF PlanDays
      <3>2. CASE y # 1
        <4>1. y - 1 \in 1 .. last - 1 /\ y - 1 \in 1 .. Len(YearEnds)
          BY <1>0, <1>1, <3>2
        <4>2. YearEnds[y - 1] < Today /\ YearEnds[y - 1] \in Nat BY <1>0, <1>1, <4>1
        <4> QED BY <1>0, <3>2, <4>2 DEF PlanDays
      <3> QED BY <3>1, <3>2
    <2>2. to(y) \in PlanDays
      <3>1. CASE y = last BY <1>0, <3>1 DEF PlanDays
      <3>2. CASE y # last
        <4>1. y \in 1 .. last - 1 /\ y \in 1 .. Len(YearEnds) BY <1>0, <1>1, <3>2
        <4>2. YearEnds[y] < Today /\ YearEnds[y] \in Nat BY <1>0, <1>1, <4>1
        <4> QED BY <1>0, <3>2, <4>2 DEF PlanDays
      <3> QED BY <3>1, <3>2
    <2> QED BY <2>1, <2>2
  <1>4. ASSUME NEW day \in 1 .. Today
        PROVE  \E y \in 1 .. last : from(y) <= day /\ day <= to(y)
    <2> DEFINE B == { y \in 1 .. last : day <= YearEnds[y] }
    <2>1. last \in B /\ B \in SUBSET Nat
      <3>1. YearEnds[last] \in Nat /\ last \in Nat /\ last \in 1 .. last BY <1>0, <1>1
      <3>2. day <= YearEnds[last] BY <1>0, <1>1, <3>1
      <3> QED BY <3>1, <3>2
    <2>2. PICK y \in B : \A x \in B : y <= x
      <3> HIDE DEF B
      <3> QED BY <2>1, LeastNumber
    <2>3. y \in 1 .. last /\ day <= YearEnds[y] BY <2>2
    <2>4. day <= to(y) BY <2>3
    <2>5. from(y) <= day
      <3>1. CASE y = 1 BY <3>1
      <3>2. CASE y # 1
        <4>1. y - 1 \in 1 .. last /\ y - 1 \in 1 .. Len(YearEnds) /\ y - 1 \notin B
          BY <1>0, <1>1, <2>2, <2>3, <3>2
        <4>2. YearEnds[y - 1] \in Nat /\ ~(day <= YearEnds[y - 1]) BY <1>0, <4>1
        <4> QED BY <3>2, <4>2
      <3> QED BY <3>1, <3>2
    <2> QED BY <2>3, <2>4, <2>5
  <1> HIDE DEF from, to
  <1>5. \A y \in 1 .. last : YearWindows[y] = <<from(y), to(y)>> BY <1>2
  <1>6. \A y \in 1 .. last : YearWindows[y][1] = from(y) /\ YearWindows[y][2] = to(y)
    BY <1>5
  <1>7. DOMAIN YearWindows = 1 .. last BY <1>2
  <1>8. last \in Nat \ {0} BY <1>0, <1>1
  <1> QED BY <1>3, <1>4, <1>5, <1>6, <1>7, <1>8 DEF last

(* What a plan asks for is among the windows, and there are finitely many. *)
LEMMA WindowsAre ==
    /\ \A h \in Histories : \A i \in 1 .. Len(DateChunks(h[1], h[2])) :
          <<"full", DateChunks(h[1], h[2])[i]>> \in WindowKeys
    /\ \A y \in 1 .. YearOf(Today) : <<"motions_only", YearWindows[y]>> \in WindowKeys
    /\ <<"motions_only", <<1, Today>>>> \in WindowKeys /\ Daily \in WindowKeys
    /\ \A key \in WindowKeys : key[2][1] \in Nat
    /\ IsFiniteSet(WindowKeys)
  <1> DEFINE Box == PlanDays \X PlanDays
             chunks(h) == DateChunks(h[1], h[2])
             fulls == (UNION { ChunksOf(h) : h \in Histories })
             years == { YearWindows[y] : y \in DOMAIN YearWindows }
             all == fulls \cup years \cup {<<1, Today>>, <<Today, Today>>}
  <1>3. WindowKeys = WindowModes \X all BY DEF WindowKeys
  <1>0. Today \in PlanDays /\ 1 \in PlanDays /\ PlanDays \subseteq Nat /\ Today \in Nat
    BY MonthCalendar DEF PlanDays
  <1>1. ASSUME NEW h \in Histories
        PROVE  chunks(h) \in Seq(Box)
    <2>1. h[1] \in 1 .. Today /\ h[2] \in 1 .. Today BY MonthCalendar
    <2> QED BY <2>1, HistoryChunksCover DEF Covered
  <1>2. ASSUME NEW h \in Histories
        PROVE  /\ ChunksOf(h) = { chunks(h)[i] : i \in DOMAIN chunks(h) }
               /\ DOMAIN chunks(h) = 1 .. Len(chunks(h))
               /\ \A i \in 1 .. Len(chunks(h)) : chunks(h)[i] \in Box
    <2>1. ChunksOf(h) = { chunks(h)[i] : i \in DOMAIN chunks(h) } BY DEF ChunksOf
    <2> HIDE DEF chunks, Box
    <2> QED BY <1>1, <2>1
  <1>a. "full" \in WindowModes /\ "motions_only" \in WindowModes BY DEF WindowModes
  <1> HIDE DEF chunks, Box
  <1>4. ASSUME NEW h \in Histories, NEW i \in 1 .. Len(chunks(h))
        PROVE  <<"full", chunks(h)[i]>> \in WindowKeys
    <2>1. chunks(h)[i] \in ChunksOf(h) BY <1>2
    <2>2. chunks(h)[i] \in all BY <2>1
    <2> HIDE DEF all
    <2> QED BY <1>3, <1>a, <2>2
  <1>5. \A y \in 1 .. YearOf(Today) : <<"motions_only", YearWindows[y]>> \in WindowKeys
    <2>1. \A y \in 1 .. YearOf(Today) : YearWindows[y] \in all BY YearsCover
    <2> HIDE DEF all
    <2> QED BY <1>3, <1>a, <2>1
  <1>6. <<"motions_only", <<1, Today>>>> \in WindowKeys /\ Daily \in WindowKeys
    <2>1. <<1, Today>> \in all /\ <<Today, Today>> \in all OBVIOUS
    <2> HIDE DEF all
    <2> QED BY <1>3, <1>a, <2>1 DEF Daily
  <1>7. all \subseteq Box
    <2>1. fulls \subseteq Box
      <3>1. ASSUME NEW h \in Histories PROVE ChunksOf(h) \subseteq Box BY <1>2
      <3> QED BY <3>1
    <2>2. years \subseteq Box
      <3>1. ASSUME NEW y \in DOMAIN YearWindows PROVE YearWindows[y] \in Box
        <4>1. y \in 1 .. YearOf(Today) BY YearsCover
        <4>2. YearWindows[y][1] \in PlanDays /\ YearWindows[y][2] \in PlanDays
              /\ YearWindows[y] = <<YearWindows[y][1], YearWindows[y][2]>>
          BY <4>1, YearsCover
        <4> QED BY <4>2 DEF Box
      <3> QED BY <3>1
    <2>3. <<1, Today>> \in Box /\ <<Today, Today>> \in Box BY <1>0 DEF Box
    <2> HIDE DEF fulls, years
    <2> QED BY <2>1, <2>2, <2>3
  <1>8. \A days \in Box : days[1] \in Nat BY <1>0 DEF Box
  <1>9. IsFiniteSet(WindowModes \X Box)
    <2>1. IsFiniteSet(PlanDays) BY <1>0, FS_Interval DEF PlanDays
    <2>2. IsFiniteSet(Box) BY <2>1, FS_Product DEF Box
    <2>3. IsFiniteSet(WindowModes)
      <3>1. IsFiniteSet({"full"}) /\ IsFiniteSet({"motions_only"}) BY FS_Singleton
      <3>2. WindowModes = {"full"} \cup {"motions_only"} BY DEF WindowModes
      <3> QED BY <3>1, <3>2, FS_Union
    <2> QED BY <2>2, <2>3, FS_Product
  <1> HIDE DEF all
  <1>10. IsFiniteSet(WindowKeys)
    <2>1. WindowKeys \subseteq WindowModes \X Box BY <1>3, <1>7
    <2> QED BY <1>9, <2>1, FS_Subset
  <1>11. \A key \in WindowKeys : key[2][1] \in Nat BY <1>3, <1>7, <1>8
  <1> QED BY <1>4, <1>5, <1>6, <1>10, <1>11 DEF chunks

(* Windows can be put in order, the newest first, and an order has all.    *)
InTurn(s, keys) ==
    \A i, j \in DOMAIN s : i < j => s[i] # s[j] /\ s[i][2][1] >= s[j][2][1]

LEMMA OldestIsPicked ==
    ASSUME NEW keys, keys # {}, \A key \in keys : key[2][1] \in Nat
    PROVE  \E key \in keys : \A other \in keys : other[2][1] >= key[2][1]
  <1> DEFINE B == { key[2][1] : key \in keys }
  <1>1. B \in SUBSET Nat /\ B # {} OBVIOUS
  <1>2. PICK b \in B : \A c \in B : b <= c
    <2> HIDE DEF B
    <2> QED BY <1>1, LeastNumber
  <1>3. PICK key \in keys : b = key[2][1] BY <1>2
  <1>4. ASSUME NEW other \in keys PROVE other[2][1] >= key[2][1]
    <2>1. other[2][1] \in B /\ other[2][1] \in Nat /\ key[2][1] \in Nat OBVIOUS
    <2>2. b <= other[2][1] BY <1>2, <2>1
    <2> QED BY <1>3, <2>1, <2>2
  <1> QED BY <1>4

LEMMA OrderExists ==
    ASSUME NEW keys, IsFiniteSet(keys), \A key \in keys : key[2][1] \in Nat
    PROVE  \E s \in [1 .. Cardinality(keys) -> keys] : InTurn(s, keys)
  <1> DEFINE Sorted(K) == \E s \in [1 .. Cardinality(K) -> K] : InTurn(s, K)
             Bad == { n \in 0 .. Cardinality(keys) :
                        \E K \in SUBSET keys : Cardinality(K) = n /\ ~Sorted(K) }
  <1>0. Cardinality(keys) \in Nat
        /\ \A K \in SUBSET keys : IsFiniteSet(K) /\ Cardinality(K) \in Nat
    BY FS_CardinalityType, FS_Subset
  <1> SUFFICES ASSUME ~Sorted(keys) PROVE FALSE OBVIOUS
  <1> HIDE DEF Sorted
  <1>1. Cardinality(keys) \in Bad /\ Bad \in SUBSET Nat BY <1>0
  <1>2. PICK n \in Bad : \A m \in Bad : n <= m
    <2> HIDE DEF Bad
    <2> QED BY <1>1, LeastNumber
  <1>3. PICK K \in SUBSET keys : Cardinality(K) = n /\ ~Sorted(K) BY <1>2
  <1>4. n \in 0 .. Cardinality(keys) /\ n \in Nat BY <1>0, <1>2
  <1>5. CASE n = 0
    <2>1. 1 .. Cardinality(K) = {} BY <1>3, <1>5
    <2> DEFINE s == [i \in 1 .. Cardinality(K) |-> CHOOSE key \in K : TRUE]
    <2>2. s \in [1 .. Cardinality(K) -> K] /\ InTurn(s, K) BY <2>1 DEF InTurn
    <2> QED BY <1>3, <2>2 DEF Sorted
  <1>6. CASE n # 0
    <2>1. K # {} BY <1>3, <1>6, FS_EmptySet
    <2>2. PICK key \in K : \A other \in K : other[2][1] >= key[2][1]
      BY <2>1, OldestIsPicked
    <2> DEFINE rest == K \ {key}
    <2>3. Cardinality(rest) = n - 1 /\ rest \in SUBSET keys
      BY <1>0, <1>3, FS_RemoveElement
    <2>4. n - 1 \in 0 .. Cardinality(keys) /\ n - 1 \notin Bad BY <1>0, <1>2, <1>4, <1>6
    <2>5. Sorted(rest) BY <2>3, <2>4
    <2> HIDE DEF rest
    <2>6. PICK s \in [1 .. n - 1 -> rest] : InTurn(s, rest) BY <2>3, <2>5 DEF Sorted
    <2> DEFINE t == [i \in 1 .. n |-> IF i = n THEN key ELSE s[i]]
    <2>7. \A i \in 1 .. n - 1 : s[i] \in K /\ s[i] # key /\ s[i][2][1] >= key[2][1]
      BY <2>2, <2>6 DEF rest
    <2>8. t \in [1 .. n -> K] /\ t[n] = key /\ \A i \in 1 .. n - 1 : t[i] = s[i]
      BY <1>4, <1>6, <2>7
    <2> HIDE DEF t
    <2>9. ASSUME NEW i \in 1 .. n, NEW j \in 1 .. n, i < j
          PROVE  t[i] # t[j] /\ t[i][2][1] >= t[j][2][1]
      <3>1. i \in 1 .. n - 1 /\ t[i] = s[i] BY <1>4, <2>8, <2>9
      <3>2. CASE j = n BY <2>7, <2>8, <3>1, <3>2
      <3>3. CASE j # n
        <4>1. j \in 1 .. n - 1 /\ t[j] = s[j] BY <1>4, <2>8, <3>3
        <4>2. DOMAIN s = 1 .. n - 1 BY <2>6
        <4> QED BY <2>6, <2>9, <3>1, <4>1, <4>2 DEF InTurn
      <3> QED BY <3>2, <3>3
    <2>10. InTurn(t, K) BY <2>8, <2>9 DEF InTurn
    <2> QED BY <1>3, <2>8, <2>10 DEF Sorted
  <1> QED BY <1>5, <1>6

LEMMA NewestFirstHasAll ==
    ASSUME NEW keys, IsFiniteSet(keys), \A key \in keys : key[2][1] \in Nat
    PROVE  /\ NewestFirst(keys) \in Seq(keys)
           /\ \A key \in keys : \E i \in 1 .. Len(NewestFirst(keys)) : NewestFirst(keys)[i] = key
  <1> DEFINE n == Cardinality(keys)
             s == NewestFirst(keys)
  <1>0. n \in Nat BY FS_CardinalityType
  <1>1. s \in [1 .. n -> keys] /\ InTurn(s, keys) BY OrderExists DEF NewestFirst, InTurn
  <1> HIDE DEF s
  <1>2. s \in Seq(keys) /\ Len(s) = n /\ DOMAIN s = 1 .. n BY <1>0, <1>1
  <1>3. ASSUME NEW i \in 1 .. n, NEW j \in 1 .. n, s[i] = s[j]
        PROVE  i = j
    <2>1. ~(i < j) /\ ~(j < i) BY <1>1, <1>2, <1>3 DEF InTurn
    <2> QED BY <1>0, <2>1
  <1>4. s \in Injection(1 .. n, keys) BY <1>1, <1>3 DEF Injection, IsInjective
  <1>5. IsFiniteSet(1 .. n) /\ Cardinality(1 .. n) = n BY <1>0, FS_Interval
  <1>6. s \in Surjection(1 .. n, keys) BY <1>4, <1>5, FS_Injection
  <1>7. \A key \in keys : \E i \in 1 .. n : s[i] = key BY <1>6 DEF Surjection
  <1> QED BY <1>2, <1>7 DEF s

(* What is known of a plan at every moment: what it asked for stands in    *)
(* the table or still waits in its list, and what a retry owed is being    *)
(* tried, was tried since, or waits.                                       *)
CellRow == [active: Nat, ended: SUBSET Endings]
PlannerRow ==
    [of: {"none", "history", "motions", "retry"}, state: {"idle", "working", "done"},
     todo: Seq(WindowKeys), found: BOOLEAN, asked: Nat \X Nat,
     owed: SUBSET WindowKeys, tried: SUBSET WindowKeys]

BackfillRows ==
    /\ table \in [WindowKeys -> CellRow] /\ history \in Histories
    /\ planner \in [Planners -> PlannerRow]

Waits(p, key) == \E i \in 1 .. Len(planner[p].todo) : planner[p].todo[i] = key

HistoryIsAsked(p) ==
    planner[p].of = "history" =>
        \A day \in planner[p].asked[1] .. planner[p].asked[2] - 1 :
            \E key \in WindowKeys :
                /\ key[1] = "full" /\ key[2][1] <= day /\ day + 1 <= key[2][2]
                /\ table[key] # NoRuns \/ Waits(p, key)
MotionsAreAsked(p) ==
    planner[p].of = "motions" =>
        \A day \in planner[p].asked[1] .. planner[p].asked[2] :
            \E key \in WindowKeys :
                /\ key[1] = "motions_only" /\ key[2][1] <= day /\ day <= key[2][2]
                /\ table[key] # NoRuns \/ Waits(p, key)
OwedAreTried(p) ==
    \A key \in planner[p].owed :
        table[key].active > 0 \/ key \in planner[p].tried \/ Waits(p, key)
PlanStands(p) ==
    /\ planner[p].state = "done" => planner[p].todo = <<>>
    /\ planner[p].found => planner[p].todo # <<>>
    /\ HistoryIsAsked(p) /\ MotionsAreAsked(p) /\ OwedAreTried(p)

BackfillInvariant == BackfillRows /\ \A p \in Planners : PlanStands(p)

LEMMA BackfillFollows == BackfillInvariant => NoHoleIsLeft
  <1> SUFFICES ASSUME BackfillInvariant, NEW p \in Planners, planner[p].state = "done"
               PROVE  IF planner[p].of = "history"
                      THEN \A day \in planner[p].asked[1] .. planner[p].asked[2] - 1 :
                              \E key \in WindowKeys :
                                  /\ key[1] = "full" /\ table[key] # NoRuns
                                  /\ key[2][1] <= day /\ day + 1 <= key[2][2]
                      ELSE IF planner[p].of = "motions"
                      THEN \A day \in planner[p].asked[1] .. planner[p].asked[2] :
                              \E key \in WindowKeys :
                                  /\ key[1] = "motions_only" /\ table[key] # NoRuns
                                  /\ key[2][1] <= day /\ day <= key[2][2]
                      ELSE \A key \in planner[p].owed :
                              table[key].active > 0 \/ key \in planner[p].tried
    BY DEF NoHoleIsLeft
  <1>1. planner[p].todo = <<>> /\ Len(planner[p].todo) = 0
    BY DEF BackfillInvariant, PlanStands
  <1>2. \A key : ~Waits(p, key) BY <1>1 DEF Waits
  <1> QED BY <1>2 DEF BackfillInvariant, PlanStands, HistoryIsAsked, MotionsAreAsked, OwedAreTried

(* A planner that goes on with its plan keeps it, when what stood or       *)
(* waited still does.                                                      *)
LEMMA PlanGoesOn ==
    ASSUME NEW p \in Planners, PlanStands(p),
           planner[p].owed \subseteq WindowKeys,
           planner'[p].of = planner[p].of, planner'[p].asked = planner[p].asked,
           planner'[p].owed = planner[p].owed,
           planner[p].tried \subseteq planner'[p].tried,
           \A key \in WindowKeys : table[key] # NoRuns => table'[key] # NoRuns,
           \A key \in WindowKeys :
              Waits(p, key) => Waits(p, key)' \/ (table'[key] # NoRuns /\ table'[key].active > 0),
           \A key \in planner[p].owed :
              table[key].active > 0 => table'[key].active > 0 \/ key \in planner'[p].tried,
           planner'[p].state = "done" => planner'[p].todo = <<>>,
           planner'[p].found => planner'[p].todo # <<>>
    PROVE  PlanStands(p)'
  <1>1. HistoryIsAsked(p)'
    <2> SUFFICES ASSUME planner[p].of = "history",
                        NEW day \in planner[p].asked[1] .. planner[p].asked[2] - 1
                 PROVE  \E key \in WindowKeys :
                            /\ key[1] = "full" /\ key[2][1] <= day /\ day + 1 <= key[2][2]
                            /\ table'[key] # NoRuns \/ Waits(p, key)'
      BY DEF HistoryIsAsked
    <2>1. PICK key \in WindowKeys :
              /\ key[1] = "full" /\ key[2][1] <= day /\ day + 1 <= key[2][2]
              /\ table[key] # NoRuns \/ Waits(p, key)
      BY DEF PlanStands, HistoryIsAsked
    <2> QED BY <2>1
  <1>2. MotionsAreAsked(p)'
    <2> SUFFICES ASSUME planner[p].of = "motions",
                        NEW day \in planner[p].asked[1] .. planner[p].asked[2]
                 PROVE  \E key \in WindowKeys :
                            /\ key[1] = "motions_only" /\ key[2][1] <= day /\ day <= key[2][2]
                            /\ table'[key] # NoRuns \/ Waits(p, key)'
      BY DEF MotionsAreAsked
    <2>1. PICK key \in WindowKeys :
              /\ key[1] = "motions_only" /\ key[2][1] <= day /\ day <= key[2][2]
              /\ table[key] # NoRuns \/ Waits(p, key)
      BY DEF PlanStands, MotionsAreAsked
    <2> QED BY <2>1
  <1>3. OwedAreTried(p)'
    <2> SUFFICES ASSUME NEW key \in planner[p].owed
                 PROVE  table'[key].active > 0 \/ key \in planner'[p].tried \/ Waits(p, key)'
      BY DEF OwedAreTried
    <2>1. key \in WindowKeys OBVIOUS
    <2>2. table[key].active > 0 \/ key \in planner[p].tried \/ Waits(p, key)
      BY DEF PlanStands, OwedAreTried
    <2> QED BY <2>1, <2>2
  <1> QED BY <1>1, <1>2, <1>3 DEF PlanStands

LEMMA IdleStands ==
    ASSUME NEW p \in Planners, planner[p] = NoPlan
    PROVE  PlanStands(p)
  <1>1. planner[p].of = "none" /\ planner[p].state = "idle" /\ planner[p].owed = {}
        /\ planner[p].found = FALSE
    BY DEF NoPlan
  <1> QED BY <1>1 DEF PlanStands, HistoryIsAsked, MotionsAreAsked, OwedAreTried

LEMMA IdleStandsNext ==
    ASSUME NEW p \in Planners, planner'[p] = NoPlan
    PROVE  PlanStands(p)'
  <1>1. /\ planner'[p].of = "none" /\ planner'[p].state = "idle" /\ planner'[p].owed = {}
        /\ planner'[p].found = FALSE
    BY DEF NoPlan
  <1> QED BY <1>1 DEF PlanStands, HistoryIsAsked, MotionsAreAsked, OwedAreTried

LEMMA IdleIsRow == NoPlan \in PlannerRow
  <1>1. <<>> \in Seq(WindowKeys) /\ <<1, 1>> \in Nat \X Nat OBVIOUS
  <1> QED BY <1>1 DEF NoPlan, PlannerRow

(* The head of a list is what waits first; the rest goes on waiting.       *)
LEMMA HeadAndTail ==
    ASSUME NEW s \in Seq(WindowKeys), s # <<>>
    PROVE  /\ Head(s) \in WindowKeys /\ Tail(s) \in Seq(WindowKeys)
           /\ \A i \in 1 .. Len(s) : s[i] = Head(s)
                 \/ \E j \in 1 .. Len(Tail(s)) : Tail(s)[j] = s[i]
  <1>1. /\ Len(s) \in Nat /\ Len(s) > 0 /\ Head(s) = s[1] /\ Tail(s) \in Seq(WindowKeys)
        /\ Len(Tail(s)) = Len(s) - 1
        /\ \A j \in 1 .. Len(s) - 1 : Tail(s)[j] = s[j + 1]
    OBVIOUS
  <1>2. Head(s) \in WindowKeys OBVIOUS
  <1>3. ASSUME NEW i \in 1 .. Len(s), i # 1
        PROVE  \E j \in 1 .. Len(Tail(s)) : Tail(s)[j] = s[i]
    <2>1. i - 1 \in 1 .. Len(Tail(s)) /\ i - 1 \in 1 .. Len(s) - 1 /\ (i - 1) + 1 = i
      BY <1>1, <1>3
    <2>2. Tail(s)[i - 1] = s[i] BY <1>1, <2>1
    <2> QED BY <2>1, <2>2
  <1> QED BY <1>1, <1>2, <1>3

LEMMA BackfillStarts ==
    ASSUME BackfillInit
    PROVE  BackfillInvariant
  <1>1. /\ history \in Histories /\ table = [key \in WindowKeys |-> NoRuns]
        /\ planner = [p \in Planners |-> NoPlan]
    BY DEF BackfillInit
  <1>2. NoRuns \in CellRow BY DEF NoRuns, CellRow
  <1>3. NoPlan \in PlannerRow /\ \A p \in Planners : PlanStands(p)
    BY <1>1, IdleIsRow, IdleStands
  <1>4. BackfillRows BY <1>1, <1>2, <1>3 DEF BackfillRows
  <1> QED BY <1>3, <1>4 DEF BackfillInvariant

(* What a plan begins with: all it asks for waits.                         *)
LEMMA PlanBegins ==
    ASSUME BackfillInvariant, NEW p \in Planners,
           NEW of \in {"history", "motions", "retry"}, NEW todo \in Seq(WindowKeys),
           NEW asked \in Nat \X Nat, NEW owed \in SUBSET WindowKeys,
           BeginPlan(p, of, todo, asked, owed),
           of = "history" => \A day \in asked[1] .. asked[2] - 1 :
               \E i \in 1 .. Len(todo) :
                   todo[i][1] = "full" /\ todo[i][2][1] <= day /\ day + 1 <= todo[i][2][2],
           of = "motions" => \A day \in asked[1] .. asked[2] :
               \E i \in 1 .. Len(todo) :
                   todo[i][1] = "motions_only" /\ todo[i][2][1] <= day /\ day <= todo[i][2][2],
           \A key \in owed : \E i \in 1 .. Len(todo) : todo[i] = key
    PROVE  BackfillInvariant'
  <1> DEFINE row == [NoPlan EXCEPT !.of = of, !.state = "working", !.todo = todo,
                                 !.asked = asked, !.owed = owed]
  <1>1. UNCHANGED <<table, history>> /\ planner' = [planner EXCEPT ![p] = row]
    BY DEF BeginPlan
  <1>2. row \in PlannerRow BY IdleIsRow DEF PlannerRow
  <1>3. /\ row.of = of /\ row.state = "working" /\ row.todo = todo
        /\ row.found = NoPlan.found /\ row.asked = asked /\ row.owed = owed
    BY IdleIsRow DEF PlannerRow
  <1> HIDE DEF row
  <1>4. planner'[p] = row /\ \A q \in Planners : q # p => planner'[q] = planner[q]
    BY <1>1 DEF BackfillInvariant, BackfillRows
  <1>5. /\ BackfillRows'
        /\ planner'[p].of = of /\ planner'[p].state = "working" /\ planner'[p].todo = todo
        /\ planner'[p].found = FALSE /\ planner'[p].asked = asked /\ planner'[p].owed = owed
    <2>1. NoPlan.found = FALSE BY DEF NoPlan
    <2> QED BY <1>1, <1>2, <1>3, <1>4, <2>1 DEF BackfillInvariant, BackfillRows
  <1>6. \A key : Waits(p, key)' <=> \E i \in 1 .. Len(todo) : todo[i] = key
    BY <1>5 DEF Waits
  <1>7. \A i \in 1 .. Len(todo) : todo[i] \in WindowKeys /\ Waits(p, todo[i])' BY <1>6
  <1>8. HistoryIsAsked(p)' BY <1>5, <1>7 DEF HistoryIsAsked
  <1>9. MotionsAreAsked(p)' BY <1>5, <1>7 DEF MotionsAreAsked
  <1>10. OwedAreTried(p)' BY <1>5, <1>6 DEF OwedAreTried
  <1>11. PlanStands(p)' BY <1>5, <1>8, <1>9, <1>10 DEF PlanStands
  <1>12. ASSUME NEW q \in Planners, q # p PROVE PlanStands(q)'
    BY <1>1, <1>4, <1>12
    DEF BackfillInvariant, PlanStands, HistoryIsAsked, MotionsAreAsked, OwedAreTried, Waits
  <1> QED BY <1>5, <1>11, <1>12 DEF BackfillInvariant

LEMMA HistoryIsPlanned ==
    ASSUME BackfillInvariant, NEW p \in Planners, PlanHistory(p)
    PROVE  BackfillInvariant'
  <1> DEFINE chunks == DateChunks(history[1], history[2])
  <1>1. /\ history \in Histories /\ history[1] \in 1 .. Today /\ history[2] \in 1 .. Today
        /\ history \in Nat \X Nat
    BY MonthCalendar DEF BackfillInvariant, BackfillRows
  <1>2. Covered(chunks, history[1], history[2]) BY <1>1, HistoryChunksCover
  <1>3. \A i \in 1 .. Len(chunks) : <<"full", chunks[i]>> \in WindowKeys
    BY <1>1, WindowsAre
  <1>4. BeginPlan(p, "history", InFull(chunks), history, {}) BY DEF PlanHistory
  <1> HIDE DEF chunks
  <1>5. /\ InFull(chunks) \in Seq(WindowKeys) /\ Len(InFull(chunks)) = Len(chunks)
        /\ \A i \in 1 .. Len(chunks) : InFull(chunks)[i] = <<"full", chunks[i]>>
    <2>1. Len(chunks) \in Nat /\ DOMAIN chunks = 1 .. Len(chunks) BY <1>2 DEF Covered
    <2> QED BY <1>3, <2>1 DEF InFull
  <1>6. ASSUME NEW day \in history[1] .. history[2] - 1
        PROVE  \E i \in 1 .. Len(InFull(chunks)) :
                   /\ InFull(chunks)[i][1] = "full" /\ InFull(chunks)[i][2][1] <= day
                   /\ day + 1 <= InFull(chunks)[i][2][2]
    <2>1. PICK i \in 1 .. Len(chunks) : chunks[i][1] <= day /\ day + 1 <= chunks[i][2]
      BY <1>2 DEF Covered
    <2>2. InFull(chunks)[i] = <<"full", chunks[i]>> /\ i \in 1 .. Len(InFull(chunks))
      BY <1>5
    <2>3. InFull(chunks)[i][1] = "full" /\ InFull(chunks)[i][2] = chunks[i] BY <2>2
    <2> QED BY <2>1, <2>2, <2>3
  <1>7. InFull(chunks) \in Seq(WindowKeys) /\ {} \in SUBSET WindowKeys /\ history \in Nat \X Nat
    BY <1>1, <1>5
  <1> DEFINE todo == InFull(chunks)
  <1>8. BeginPlan(p, "history", todo, history, {}) /\ todo \in Seq(WindowKeys)
    BY <1>4, <1>7
  <1>9. \A day \in history[1] .. history[2] - 1 : \E i \in 1 .. Len(todo) :
           todo[i][1] = "full" /\ todo[i][2][1] <= day /\ day + 1 <= todo[i][2][2]
    BY <1>6
  <1> HIDE DEF todo
  <1> QED BY <1>7, <1>8, <1>9, PlanBegins

LEMMA MotionsArePlanned ==
    ASSUME BackfillInvariant, NEW p \in Planners, NEW overLimit \in BOOLEAN, NEW force \in BOOLEAN,
           PlanMotions(p, overLimit, force)
    PROVE  BackfillInvariant'
  <1> DEFINE windows == MotionWindows(overLimit)
             todo == [i \in DOMAIN windows |-> <<"motions_only", windows[i]>>]
  <1>1. BeginPlan(p, "motions", todo, <<1, Today>>, {}) BY DEF PlanMotions
  <1>2. Today \in Nat /\ <<1, Today>> \in Nat \X Nat /\ {} \in SUBSET WindowKeys
    BY MonthCalendar
  <1>3. \E n \in Nat :
           /\ DOMAIN windows = 1 .. n
           /\ \A i \in 1 .. n : <<"motions_only", windows[i]>> \in WindowKeys
           /\ \A day \in 1 .. Today : \E i \in 1 .. n : windows[i][1] <= day /\ day <= windows[i][2]
    <2>1. CASE overLimit
      <3>1. windows = YearWindows BY <2>1 DEF MotionWindows
      <3> QED BY <3>1, YearsCover, WindowsAre
    <2>2. CASE ~overLimit
      <3>1. windows = << <<1, Today>> >> BY <2>2 DEF MotionWindows
      <3> HIDE DEF windows
      <3>2. DOMAIN windows = 1 .. 1 /\ windows[1] = <<1, Today>> BY <3>1
      <3>3. \A i \in 1 .. 1 : <<"motions_only", windows[i]>> \in WindowKeys
        BY <3>2, WindowsAre
      <3>4. \A day \in 1 .. Today : windows[1][1] <= day /\ day <= windows[1][2]
        BY <1>2, <3>2
      <3>5. 1 \in Nat /\ 1 \in 1 .. 1 OBVIOUS
      <3> QED BY <3>2, <3>3, <3>4, <3>5
    <2> QED BY <2>1, <2>2
  <1> HIDE DEF windows
  <1>4. PICK n \in Nat :
           /\ DOMAIN windows = 1 .. n
           /\ \A i \in 1 .. n : <<"motions_only", windows[i]>> \in WindowKeys
           /\ \A day \in 1 .. Today : \E i \in 1 .. n : windows[i][1] <= day /\ day <= windows[i][2]
    BY <1>3
  <1>5. /\ todo \in Seq(WindowKeys) /\ Len(todo) = n
        /\ \A i \in 1 .. n : todo[i] = <<"motions_only", windows[i]>>
    BY <1>4
  <1> HIDE DEF todo
  <1>6. \A i \in 1 .. n : todo[i][1] = "motions_only" /\ todo[i][2] = windows[i] BY <1>5
  <1> DEFINE asked == <<1, Today>>
  <1>7. asked[1] = 1 /\ asked[2] = Today /\ asked \in Nat \X Nat BY <1>2
  <1>8. BeginPlan(p, "motions", todo, asked, {}) BY <1>1
  <1> HIDE DEF asked
  <1>9. \A day \in asked[1] .. asked[2] : \E i \in 1 .. Len(todo) :
           todo[i][1] = "motions_only" /\ todo[i][2][1] <= day /\ day <= todo[i][2][2]
    BY <1>4, <1>5, <1>6, <1>7
  <1> QED BY <1>2, <1>5, <1>7, <1>8, <1>9, PlanBegins

LEMMA RetryIsPlanned ==
    ASSUME BackfillInvariant, NEW p \in Planners, PlanRetry(p)
    PROVE  BackfillInvariant'
  <1> DEFINE keys == FailedWindows(table)
             todo == NewestFirst(keys)
             asked == NoPlan.asked
  <1>1. BeginPlan(p, "retry", todo, asked, Owed) BY DEF PlanRetry
  <1>2. asked \in Nat \X Nat BY DEF NoPlan
  <1>3. keys \subseteq WindowKeys /\ Owed \subseteq WindowKeys /\ IsFiniteSet(keys)
    BY WindowsAre, FS_Subset DEF FailedWindows, Owed, NeverSucceeded
  <1>4. Owed \subseteq keys
    <2> SUFFICES ASSUME NEW key \in Owed PROVE key \in keys OBVIOUS
    <2>1. /\ key \in WindowKeys /\ Wide(key) /\ "succeeded" \notin table[key].ended
          /\ key \notin HiddenByAnotherMode /\ key \notin TriedByHandOnly
      BY DEF Owed, NeverSucceeded
    <2>2. table[key].ended \subseteq Endings
      BY <2>1 DEF BackfillInvariant, BackfillRows, CellRow
    <2>3. table[key].ended \cap {"failed", "partial"} # {}
      BY <2>1, <2>2 DEF Endings, WindowOutcomes, TriedByHandOnly
    <2>4. ~SomeModeSucceeded(table, key)
      <3>1. key = <<key[1], key[2]>> /\ key[1] \in WindowModes BY <2>1 DEF WindowKeys
      <3>2. ASSUME NEW other \in WindowModes
              PROVE  "succeeded" \notin table[<<other, key[2]>>].ended
        <4>1. CASE other = key[1] BY <2>1, <3>1, <4>1
        <4>2. CASE other # key[1] BY <2>1, <4>2 DEF HiddenByAnotherMode
        <4> QED BY <4>1, <4>2
      <3> QED BY <3>2 DEF SomeModeSucceeded
    <2> QED BY <2>1, <2>3, <2>4 DEF FailedWindows
  <1> HIDE DEF keys
  <1>5. \A key \in keys : key[2][1] \in Nat BY <1>3, WindowsAre
  <1>6. /\ todo \in Seq(keys)
        /\ \A key \in keys : \E i \in 1 .. Len(todo) : todo[i] = key
    BY <1>3, <1>5, NewestFirstHasAll
  <1> HIDE DEF todo, asked
  <1>7. todo \in Seq(WindowKeys) BY <1>3, <1>6
  <1>8. \A key \in Owed : \E i \in 1 .. Len(todo) : todo[i] = key BY <1>4, <1>6
  <1> QED BY <1>1, <1>2, <1>3, <1>7, <1>8, PlanBegins

(* A planner that changes only its own row, and no table.                  *)
LEMMA OthersStand ==
    ASSUME BackfillInvariant, NEW p \in Planners, NEW row \in PlannerRow,
           planner' = [planner EXCEPT ![p] = row], UNCHANGED <<table, history>>,
           PlanStands(p)'
    PROVE  BackfillInvariant'
  <1>1. planner'[p] = row /\ \A q \in Planners : q # p => planner'[q] = planner[q]
    BY DEF BackfillInvariant, BackfillRows
  <1>2. BackfillRows' BY DEF BackfillInvariant, BackfillRows
  <1>3. ASSUME NEW q \in Planners, q # p PROVE PlanStands(q)'
    BY <1>1, <1>3
    DEF BackfillInvariant, PlanStands, HistoryIsAsked, MotionsAreAsked, OwedAreTried, Waits
  <1> QED BY <1>2, <1>3 DEF BackfillInvariant

LEMMA RunIsLookedFor ==
    ASSUME BackfillInvariant, NEW p \in Planners, LookForRun(p)
    PROVE  BackfillInvariant'
  <1> DEFINE todo == planner[p].todo
             first == Head(todo)
  <1>1. /\ table \in [WindowKeys -> CellRow] /\ planner \in [Planners -> PlannerRow]
        /\ planner[p] \in PlannerRow /\ PlanStands(p)
    BY DEF BackfillInvariant, BackfillRows
  <1>2. /\ planner[p].state = "working" /\ todo # <<>> /\ UNCHANGED <<table, history>>
        /\ todo \in Seq(WindowKeys) /\ planner[p].owed \subseteq WindowKeys
        /\ planner[p].found = FALSE
    BY <1>1 DEF LookForRun, PlannerRow
  <1>3. /\ first \in WindowKeys /\ Tail(todo) \in Seq(WindowKeys)
        /\ \A i \in 1 .. Len(todo) : todo[i] = first
              \/ \E j \in 1 .. Len(Tail(todo)) : Tail(todo)[j] = todo[i]
    BY <1>2, HeadAndTail
  <1>4. CASE table[first].active = 0
    <2> DEFINE row == [planner[p] EXCEPT !.found = TRUE]
    <2>1. planner' = [planner EXCEPT ![p] = row] /\ planner'[p] = row
      BY <1>1, <1>4 DEF LookForRun
    <2>2. row \in PlannerRow BY <1>1 DEF PlannerRow
    <2>3. /\ row.of = planner[p].of /\ row.asked = planner[p].asked /\ row.owed = planner[p].owed
          /\ row.tried = planner[p].tried /\ row.todo = todo /\ row.state = "working"
      BY <1>1, <1>2 DEF PlannerRow
    <2> HIDE DEF row
    <2>4. \A key : Waits(p, key) => Waits(p, key)' BY <2>1, <2>3 DEF Waits
    <2>5. PlanStands(p)'
      <3> HIDE DEF todo
      <3> QED BY <1>1, <1>2, <2>1, <2>3, <2>4, PlanGoesOn
    <2> QED BY <1>2, <2>1, <2>2, <2>5, OthersStand
  <1>5. CASE table[first].active # 0 /\ planner[p].of = "motions"
    <2>1. planner' = [planner EXCEPT ![p] = NoPlan] /\ planner'[p] = NoPlan
      BY <1>1, <1>5 DEF LookForRun
    <2>2. PlanStands(p)' /\ NoPlan \in PlannerRow
      <3>1. NoPlan \in PlannerRow BY IdleIsRow
      <3> QED BY <2>1, <3>1, IdleStandsNext
    <2> QED BY <1>2, <2>1, <2>2, OthersStand
  <1>6. CASE table[first].active # 0 /\ planner[p].of # "motions"
    <2> DEFINE row == [planner[p] EXCEPT !.todo = Tail(@)]
    <2>1. planner' = [planner EXCEPT ![p] = row] /\ planner'[p] = row
      BY <1>1, <1>6 DEF LookForRun
    <2>2. row \in PlannerRow BY <1>1, <1>3 DEF PlannerRow
    <2>3. /\ row.of = planner[p].of /\ row.asked = planner[p].asked /\ row.owed = planner[p].owed
          /\ row.tried = planner[p].tried /\ row.todo = Tail(todo) /\ row.state = "working"
          /\ row.found = FALSE
      BY <1>1, <1>2 DEF PlannerRow
    <2> HIDE DEF row
    <2>4. table'[first].active > 0 /\ table'[first] # NoRuns
      BY <1>1, <1>2, <1>3, <1>6 DEF CellRow, NoRuns
    <2>5. \A key : Waits(p, key) => Waits(p, key)' \/ (table'[key] # NoRuns /\ table'[key].active > 0)
      BY <1>3, <2>1, <2>3, <2>4 DEF Waits
    <2>6. PlanStands(p)'
      <3> HIDE DEF todo, first
      <3> QED BY <1>1, <1>2, <2>1, <2>3, <2>5, PlanGoesOn
    <2> QED BY <1>2, <2>1, <2>2, <2>6, OthersStand
  <1> QED BY <1>4, <1>5, <1>6

LEMMA PlannerStops ==
    ASSUME BackfillInvariant, NEW p \in Planners, PlannerEnds(p) \/ PlannerDies(p)
    PROVE  BackfillInvariant'
  <1>1. planner[p] \in PlannerRow /\ PlanStands(p) /\ planner \in [Planners -> PlannerRow]
    BY DEF BackfillInvariant, BackfillRows
  <1>2. CASE PlannerEnds(p)
    <2> DEFINE row == [planner[p] EXCEPT !.state = "done"]
    <2>1. /\ planner' = [planner EXCEPT ![p] = row] /\ planner'[p] = row
          /\ UNCHANGED <<table, history>> /\ planner[p].todo = <<>>
      BY <1>1, <1>2 DEF PlannerEnds
    <2>2. row \in PlannerRow BY <1>1 DEF PlannerRow
    <2>3. /\ row.of = planner[p].of /\ row.asked = planner[p].asked /\ row.owed = planner[p].owed
          /\ row.tried = planner[p].tried /\ row.todo = planner[p].todo
          /\ row.found = planner[p].found
      BY <1>1 DEF PlannerRow
    <2> HIDE DEF row
    <2>4. \A key : Waits(p, key) => Waits(p, key)' BY <2>1, <2>3 DEF Waits
    <2>5. planner[p].owed \subseteq WindowKeys /\ planner[p].found = FALSE
      BY <1>1, <2>1 DEF PlannerRow, PlanStands
    <2>6. PlanStands(p)' BY <1>1, <2>1, <2>3, <2>4, <2>5, PlanGoesOn
    <2> QED BY <2>1, <2>2, <2>6, OthersStand
  <1>3. CASE PlannerDies(p)
    <2>1. /\ planner' = [planner EXCEPT ![p] = NoPlan] /\ planner'[p] = NoPlan
          /\ UNCHANGED <<table, history>>
      BY <1>1, <1>3 DEF PlannerDies
    <2> QED BY <2>1, IdleIsRow, IdleStandsNext, OthersStand
  <1> QED BY <1>2, <1>3

(* The table only gains: a run more, or how one ended.                     *)
LEMMA RunIsAdded ==
    ASSUME NEW t \in [WindowKeys -> CellRow], NEW k \in WindowKeys, NEW n \in Nat
    PROVE  LET u == [t EXCEPT ![k].active = n]
           IN  /\ u \in [WindowKeys -> CellRow] /\ u[k].active = n /\ u[k].ended = t[k].ended
               /\ \A other \in WindowKeys : other # k => u[other] = t[other]
  <1> DEFINE u == [t EXCEPT ![k].active = n]
             row == [t[k] EXCEPT !.active = n]
  <1>1. t[k] \in CellRow OBVIOUS
  <1>2. row \in CellRow /\ row.active = n /\ row.ended = t[k].ended BY <1>1 DEF CellRow
  <1>3. u = [t EXCEPT ![k] = row] OBVIOUS
  <1> HIDE DEF row
  <1>4. /\ u \in [WindowKeys -> CellRow] /\ u[k] = row
        /\ \A other \in WindowKeys : other # k => u[other] = t[other]
    BY <1>2, <1>3
  <1> HIDE DEF u
  <1>5. /\ u \in [WindowKeys -> CellRow] /\ u[k].active = n /\ u[k].ended = t[k].ended
        /\ \A other \in WindowKeys : other # k => u[other] = t[other]
    BY <1>2, <1>4
  <1> QED BY <1>5 DEF u

LEMMA RunIsCreated ==
    ASSUME BackfillInvariant, NEW p \in Planners, CreateWindowRun(p)
    PROVE  BackfillInvariant'
  <1> DEFINE todo == planner[p].todo
             first == Head(todo)
             row == [planner[p] EXCEPT !.todo = Tail(@), !.found = FALSE]
  <1>1. /\ table \in [WindowKeys -> CellRow] /\ planner \in [Planners -> PlannerRow]
        /\ planner[p] \in PlannerRow /\ history \in Histories
        /\ \A q \in Planners : PlanStands(q) /\ planner[q].owed \subseteq WindowKeys
    BY DEF BackfillInvariant, BackfillRows, PlannerRow
  <1>2. /\ planner[p].state = "working" /\ planner[p].found
        /\ table' = [table EXCEPT ![first].active = @ + 1] /\ history' = history
        /\ planner' = [planner EXCEPT ![p] = row]
    BY DEF CreateWindowRun
  <1>3. todo # <<>> /\ todo \in Seq(WindowKeys) BY <1>1, <1>2 DEF PlanStands, PlannerRow
  <1>4. /\ first \in WindowKeys /\ Tail(todo) \in Seq(WindowKeys)
        /\ \A i \in 1 .. Len(todo) : todo[i] = first
              \/ \E j \in 1 .. Len(Tail(todo)) : Tail(todo)[j] = todo[i]
    BY <1>3, HeadAndTail
  <1>5. row \in PlannerRow BY <1>1, <1>4 DEF PlannerRow
  <1>6. /\ row.of = planner[p].of /\ row.asked = planner[p].asked /\ row.owed = planner[p].owed
        /\ row.tried = planner[p].tried /\ row.todo = Tail(todo) /\ row.state = "working"
        /\ row.found = FALSE
    BY <1>1, <1>2 DEF PlannerRow
  <1>7. planner'[p] = row /\ \A q \in Planners : q # p => planner'[q] = planner[q]
    BY <1>1, <1>2
  <1> HIDE DEF row
  <1>8. /\ table' \in [WindowKeys -> CellRow]
        /\ table'[first].active > 0 /\ table'[first] # NoRuns
        /\ \A key \in WindowKeys : key # first => table'[key] = table[key]
    <2> HIDE DEF first
    <2>1. table[first].active \in Nat /\ table[first].ended \in SUBSET Endings
      BY <1>1, <1>4 DEF CellRow
    <2>a. PICK n \in Nat : n = table[first].active + 1 BY <2>1
    <2>b. table' = [table EXCEPT ![first].active = n] BY <1>1, <1>2, <1>4, <2>a
    <2>2. /\ table' \in [WindowKeys -> CellRow] /\ table'[first].active = n
          /\ \A key \in WindowKeys : key # first => table'[key] = table[key]
      BY <1>1, <1>4, <2>a, <2>b, RunIsAdded
    <2>3. n > 0 BY <2>1, <2>a
    <2> QED BY <2>2, <2>3 DEF NoRuns
  <1>9. BackfillRows'
    <2>1. planner' \in [Planners -> PlannerRow] BY <1>1, <1>2, <1>5
    <2> QED BY <1>1, <1>2, <1>8, <2>1 DEF BackfillRows
  <1>10. PlanStands(p)'
    <2>a. planner'[p].todo = Tail(todo) BY <1>6, <1>7
    <2>1. \A key : Waits(p, key) => Waits(p, key)' \/ (table'[key] # NoRuns /\ table'[key].active > 0)
      <3> SUFFICES ASSUME NEW key, Waits(p, key), key # first PROVE Waits(p, key)'
        BY <1>8
      <3>1. PICK i \in 1 .. Len(todo) : todo[i] = key BY DEF Waits
      <3>2. \E j \in 1 .. Len(Tail(todo)) : Tail(todo)[j] = key BY <1>4, <3>1
      <3> HIDE DEF todo
      <3> QED BY <2>a, <3>2 DEF Waits
    <2> HIDE DEF todo, first
    <2>2. \A key \in WindowKeys : table[key] # NoRuns => table'[key] # NoRuns BY <1>8
    <2>3. \A key \in planner[p].owed : table[key].active > 0 => table'[key].active > 0
      BY <1>1, <1>8
    <2> QED BY <1>1, <1>6, <1>7, <2>1, <2>2, <2>3, PlanGoesOn
  <1>11. ASSUME NEW q \in Planners, q # p PROVE PlanStands(q)'
    <2>1. planner'[q] = planner[q] /\ PlanStands(q) BY <1>1, <1>7, <1>11
    <2>2. \A key : Waits(q, key) => Waits(q, key)' BY <2>1 DEF Waits
    <2> HIDE DEF todo, first
    <2>3. \A key \in WindowKeys : table[key] # NoRuns => table'[key] # NoRuns BY <1>8
    <2>4. \A key \in planner[q].owed : table[key].active > 0 => table'[key].active > 0
      BY <1>1, <1>8
    <2>5. /\ planner[q].state = "done" => planner[q].todo = <<>>
          /\ planner[q].found => planner[q].todo # <<>>
      BY <2>1 DEF PlanStands
    <2> QED BY <1>1, <2>1, <2>2, <2>3, <2>4, <2>5, PlanGoesOn
  <1> QED BY <1>9, <1>10, <1>11 DEF BackfillInvariant

LEMMA OthersQueue ==
    ASSUME BackfillInvariant, NEW k \in WindowKeys,
           table' = [table EXCEPT ![k].active = @ + 1], UNCHANGED <<history, planner>>
    PROVE  BackfillInvariant'
  <1>1. /\ table \in [WindowKeys -> CellRow]
        /\ \A q \in Planners : PlanStands(q) /\ planner[q].owed \subseteq WindowKeys
    BY DEF BackfillInvariant, BackfillRows, PlannerRow
  <1>2. table' = [table EXCEPT ![k].active = @ + 1] /\ UNCHANGED <<history, planner>>
    OBVIOUS
  <1>3. /\ table' \in [WindowKeys -> CellRow]
        /\ table'[k].active > 0 /\ table'[k] # NoRuns
        /\ \A key \in WindowKeys : key # k => table'[key] = table[key]
    <2>1. table[k].active \in Nat /\ table[k].ended \in SUBSET Endings
      BY <1>1 DEF CellRow
    <2>a. PICK n \in Nat : n = table[k].active + 1 BY <2>1
    <2>b. table' = [table EXCEPT ![k].active = n] BY <1>1, <1>2, <2>a
    <2>2. /\ table' \in [WindowKeys -> CellRow] /\ table'[k].active = n
          /\ \A key \in WindowKeys : key # k => table'[key] = table[key]
      BY <1>1, <2>a, <2>b, RunIsAdded
    <2>3. n > 0 BY <2>1, <2>a
    <2> QED BY <2>2, <2>3 DEF NoRuns
  <1>4. ASSUME NEW q \in Planners PROVE PlanStands(q)'
    <2>1. planner'[q] = planner[q] /\ PlanStands(q) BY <1>1, <1>2
    <2>2. \A key : Waits(q, key) => Waits(q, key)' BY <2>1 DEF Waits
    <2>3. \A key \in WindowKeys : table[key] # NoRuns => table'[key] # NoRuns BY <1>3
    <2>4. \A key \in planner[q].owed : table[key].active > 0 => table'[key].active > 0
      BY <1>1, <1>3
    <2>5. /\ planner[q].state = "done" => planner[q].todo = <<>>
          /\ planner[q].found => planner[q].todo # <<>>
      BY <2>1 DEF PlanStands
    <2> QED BY <1>1, <2>1, <2>2, <2>3, <2>4, <2>5, PlanGoesOn
  <1> QED BY <1>2, <1>3, <1>4 DEF BackfillInvariant, BackfillRows

LEMMA WindowIsSettled ==
    ASSUME BackfillInvariant, NEW key \in WindowKeys, NEW ending \in Endings,
           WindowEnds(key, ending)
    PROVE  BackfillInvariant'
  <1>1. /\ table \in [WindowKeys -> CellRow] /\ planner \in [Planners -> PlannerRow]
        /\ history \in Histories
        /\ \A q \in Planners : PlanStands(q) /\ planner[q] \in PlannerRow
                               /\ planner[q].owed \subseteq WindowKeys
    BY DEF BackfillInvariant, BackfillRows, PlannerRow
  <1>2. /\ table[key].active > 0 /\ history' = history
        /\ table' = [table EXCEPT ![key].active = @ - 1, ![key].ended = @ \cup {ending}]
        /\ planner' = [p \in Planners |->
              [planner[p] EXCEPT !.tried = @ \cup ({key} \cap planner[p].owed)]]
    BY DEF WindowEnds
  <1>3. /\ table' \in [WindowKeys -> CellRow] /\ table'[key] # NoRuns
        /\ \A k \in WindowKeys : k # key => table'[k] = table[k]
    <2>1. table[key].active \in Nat /\ table[key].active - 1 \in Nat
          /\ table[key].ended \cup {ending} \in SUBSET Endings
      BY <1>1, <1>2 DEF CellRow
    <2>a. PICK n \in Nat, e \in SUBSET Endings :
              n = table[key].active - 1 /\ e = table[key].ended \cup {ending}
      BY <2>1
    <2>b. table' = [table EXCEPT ![key].active = n, ![key].ended = e]
      BY <1>1, <1>2, <2>a
    <2>2. /\ table' \in [WindowKeys -> CellRow] /\ table'[key].ended = e
          /\ \A k \in WindowKeys : k # key => table'[k] = table[k]
      <3> DEFINE row == [table[key] EXCEPT !.active = n, !.ended = e]
      <3>1. table[key] \in CellRow BY <1>1
      <3>2. row \in CellRow /\ row.ended = e BY <3>1 DEF CellRow
      <3>3. table' = [table EXCEPT ![key] = row] BY <1>1, <2>b
      <3> HIDE DEF row
      <3> QED BY <1>1, <3>2, <3>3
    <2>3. e # {} BY <2>a
    <2> QED BY <2>2, <2>3 DEF NoRuns
  <1>4. ASSUME NEW q \in Planners PROVE planner'[q] \in PlannerRow /\ PlanStands(q)'
    <2> DEFINE row == [planner[q] EXCEPT !.tried = @ \cup ({key} \cap planner[q].owed)]
    <2>a. PICK w \in SUBSET WindowKeys : w = planner[q].tried \cup ({key} \cap planner[q].owed)
      BY <1>1 DEF PlannerRow
    <2>b. row \in PlannerRow
      <3>1. row = [planner[q] EXCEPT !.tried = w] BY <2>a
      <3>2. planner[q] \in PlannerRow BY <1>1
      <3> HIDE DEF row
      <3> QED BY <3>1, <3>2 DEF PlannerRow
    <2>1. planner'[q] = row /\ PlanStands(q) /\ row \in PlannerRow BY <1>1, <1>2, <2>b
    <2>2. /\ row.of = planner[q].of /\ row.asked = planner[q].asked /\ row.owed = planner[q].owed
          /\ row.todo = planner[q].todo /\ row.state = planner[q].state
          /\ row.found = planner[q].found
          /\ row.tried = planner[q].tried \cup ({key} \cap planner[q].owed)
      BY <1>1 DEF PlannerRow
    <2> HIDE DEF row
    <2>3. \A k : Waits(q, k) => Waits(q, k)' BY <2>1, <2>2 DEF Waits
    <2>4. \A k \in WindowKeys : table[k] # NoRuns => table'[k] # NoRuns BY <1>3
    <2>5. \A k \in planner[q].owed : table[k].active > 0 => table'[k].active > 0 \/ k \in row.tried
      BY <1>1, <1>3, <2>2
    <2>6. /\ row.state = "done" => row.todo = <<>>
          /\ row.found => row.todo # <<>>
      BY <2>1, <2>2 DEF PlanStands
    <2>7. planner[q].tried \subseteq row.tried BY <2>2
    <2>8. PlanStands(q)' BY <1>1, <2>1, <2>2, <2>3, <2>4, <2>5, <2>6, <2>7, PlanGoesOn
    <2> QED BY <2>1, <2>8
  <1>5. planner' \in [Planners -> PlannerRow] BY <1>2, <1>4
  <1> QED BY <1>1, <1>2, <1>3, <1>4, <1>5 DEF BackfillInvariant, BackfillRows

LEMMA BackfillRests ==
    ASSUME BackfillInvariant, UNCHANGED backfillVars
    PROVE  BackfillInvariant'
  <1>1. UNCHANGED <<table, history, planner>> BY DEF backfillVars
  <1> QED BY <1>1 DEF BackfillInvariant, BackfillRows, PlanStands, HistoryIsAsked,
                      MotionsAreAsked, OwedAreTried, Waits

(* Whatever plans, dies and begins again, and whatever the daily scheduler *)
(* and the workers do to the table meanwhile: a plan that came to its end  *)
(* left no day of what it was asked for out, and no window the list of the *)
(* failed shows untried.                                                   *)
THEOREM PlansStand == BackfillSpec => []BackfillInvariant
  <1>1. BackfillInvariant /\ [BackfillNext]_backfillVars => BackfillInvariant'
    <2> SUFFICES ASSUME BackfillInvariant, [BackfillNext]_backfillVars
                 PROVE  BackfillInvariant'
      OBVIOUS
    <2>1. ASSUME NEW p \in Planners,
                 \/ PlanHistory(p) \/ PlanRetry(p) \/ LookForRun(p) \/ CreateWindowRun(p)
                 \/ PlannerEnds(p) \/ PlannerDies(p)
          PROVE  BackfillInvariant'
      BY <2>1, HistoryIsPlanned, RetryIsPlanned, RunIsLookedFor, RunIsCreated, PlannerStops
    <2>2. ASSUME NEW p \in Planners, NEW overLimit \in BOOLEAN, NEW force \in BOOLEAN,
                 PlanMotions(p, overLimit, force)
          PROVE  BackfillInvariant'
      BY <2>2, MotionsArePlanned
    <2>3. CASE ScheduleDaily BY <2>3, OthersQueue, WindowsAre DEF ScheduleDaily
    <2>4. ASSUME NEW key \in WindowKeys, RunByHand(key)
          PROVE  BackfillInvariant'
      BY <2>4, OthersQueue DEF RunByHand
    <2>5. ASSUME NEW key \in WindowKeys, NEW ending \in WindowOutcomes,
                 SettleWindow(key, ending) \/ SettleByHand(key, ending)
          PROVE  BackfillInvariant'
      <3>1. ending \in Endings /\ "unlisted" \in Endings BY DEF Endings
      <3>2. CASE SettleWindow(key, ending)
        BY <3>1, <3>2, WindowIsSettled DEF SettleWindow
      <3>3. CASE SettleByHand(key, ending)
        <4>1. PICK e \in Endings : WindowEnds(key, e) BY <3>1, <3>3 DEF SettleByHand
        <4> QED BY <4>1, WindowIsSettled
      <3> QED BY <2>5, <3>2, <3>3
    <2>6. CASE UNCHANGED backfillVars BY <2>6, BackfillRests
    <2> QED BY <2>1, <2>2, <2>3, <2>4, <2>5, <2>6 DEF BackfillNext
  <1> QED BY <1>1, BackfillStarts, PTL DEF BackfillSpec
-----------------------------------------------------------------------------
(* The parts together. Extraction, the transcript and the motions are parts *)
(* of the import side.                                                     *)
LEMMA TranscriptIsAPart == ImportsSpec => TranscriptSpec
  <1>1. ImportsInit => TranscriptInit BY DEF ImportsInit
  <1>2. [ImportsNext]_<<component, queueVars, removalsVars, materializeVars, schedulerVars,
                        breakerVars, importVars, transcriptVars, clientVars, linkVars,
                        backfillVars>>
           => [TranscriptNext]_transcriptVars
    BY DEF ImportsNext, QueueStep, RemovalsStep, MaterializeStep, SchedulerStep, BreakerStep,
           ExtractionStep, TranscriptStep, ClientStep, LinksStep, BackfillStep, LaterOnesRest
  <1> QED BY <1>1, <1>2, PTL DEF ImportsSpec, TranscriptSpec

LEMMA LinksIsAPart == ImportsSpec => LinksSpec
  <1>1. ImportsInit => LinksInit BY DEF ImportsInit
  <1>2. [ImportsNext]_<<component, queueVars, removalsVars, materializeVars, schedulerVars,
                        breakerVars, importVars, transcriptVars, clientVars, linkVars,
                        backfillVars>>
           => [LinksNext]_linkVars
    BY DEF ImportsNext, QueueStep, RemovalsStep, MaterializeStep, SchedulerStep, BreakerStep,
           ExtractionStep, TranscriptStep, ClientStep, LinksStep, BackfillStep, LaterOnesRest
  <1> QED BY <1>1, <1>2, PTL DEF ImportsSpec, LinksSpec

LEMMA BackfillIsAPart == ImportsSpec => BackfillSpec
  <1>1. ImportsInit => BackfillInit BY DEF ImportsInit
  <1>2. [ImportsNext]_<<component, queueVars, removalsVars, materializeVars, schedulerVars,
                        breakerVars, importVars, transcriptVars, clientVars, linkVars,
                        backfillVars>>
           => [BackfillNext]_backfillVars
    BY DEF ImportsNext, QueueStep, RemovalsStep, MaterializeStep, SchedulerStep, BreakerStep,
           ExtractionStep, TranscriptStep, ClientStep, LinksStep, BackfillStep, LaterOnesRest
  <1> QED BY <1>1, <1>2, PTL DEF ImportsSpec, BackfillSpec

(* NothingLostSilently: whatever the supplier, an import that does not     *)
(* fail accounts for everything it was to import; no word of a recording   *)
(* is lost or given to another speaker; a motion that is placed is placed  *)
(* under its own meeting, day and outcome; and a plan of a history that    *)
(* came to its end left no hole.                                           *)
THEOREM NothingGetsLost == ImportsSpec => []NothingLostSilently
  <1>1. ImportAccounted /\ TranscriptInvariant /\ LinksInvariant /\ BackfillInvariant
           => NothingLostSilently
    <2>1. TranscriptInvariant => WordsStayWithTheirSpeaker BY TranscriptFollows
    <2>2. LinksInvariant => MotionsFindTheirMeeting BY LinksFollow
    <2>3. ImportAccounted =>
             /\ plan.supplier = "ibabs" => IbabsLosesNothing
             /\ plan.supplier = "notubiz" => NotubizLosesNothing
             /\ plan.supplier \in {"gemeenteoplossingen", "parlaeus"} => SiteLosesNothing
      BY AccountedImportsLoseNothing
    <2> QED BY <2>1, <2>2, <2>3, BackfillFollows DEF NothingLostSilently
  <1> QED BY <1>1, ImportsAreAccounted, TranscriptIsAPart, TranscriptIsSound, LinksIsAPart,
             MotionsFind, BackfillIsAPart, PlansStand, PTL
-----------------------------------------------------------------------------
(* SourceRemovals, the rest of its types: a document is a suspect once, for *)
(* a plan names it once as gone for the first time.                        *)
OncePerDocument(list) == \A s, t \in list : s.doc = t.doc => s = t
FirstOnce(plan1) ==
    \A b, e \in plan1 : b.seen = Never /\ e.seen = Never /\ b.doc = e.doc => b = e
RemovalsBounds ==
    /\ supplier.changes \in 0 .. MaxChanges
    /\ stored \subseteq Documents /\ Traced \subseteq Documents
    /\ OncePerDocument(suspects) /\ FirstOnce(run.plan)

LEMMA RemovalsAreFirstOnce == ASSUME RemovalsAreTyped PROVE FirstOnce(Removals)
  <1> SUFFICES ASSUME NEW b \in Removals, NEW e \in Removals, b.seen = Never, e.seen = Never,
                      b.doc = e.doc
               PROVE  b = e
    BY DEF FirstOnce
  <1>1. SecondSightings \subseteq suspects BY PlannedIsTyped
  <1>2. \A s \in SecondSightings : s.seen # Never
    BY <1>1, RemovalsAssumption DEF RemovalsAreTyped, Times, Never
  <1>3. \A x \in Removals : x.seen = Never =>
           \E d \in Documents :
              x = [doc |-> d, meeting |-> tracker.candidates[d], seen |-> Never]
    BY <1>2 DEF Removals, PendingRemovals
  <1>4. PICK d \in Documents : b = [doc |-> d, meeting |-> tracker.candidates[d], seen |-> Never]
    BY <1>3
  <1>5. PICK f \in Documents : e = [doc |-> f, meeting |-> tracker.candidates[f], seen |-> Never]
    BY <1>3
  <1> QED BY <1>4, <1>5

LEMMA RemovalsBegin == RemovalsInit => RemovalsBounds
  <1> SUFFICES ASSUME RemovalsInit PROVE RemovalsBounds OBVIOUS
  <1>1. PICK lists \in [Meetings -> SUBSET Documents] :
           /\ supplier = [lists |-> lists, served |-> Documents,
                          refusing |-> FALSE, changes |-> 0]
           /\ stored = Listed(lists)
    BY DEF RemovalsInit
  <1>2. stored \subseteq Documents BY <1>1 DEF Listed
  <1>3. suspects = {} /\ run.plan = {} /\ Traced = {} BY DEF RemovalsInit, Idle, Traced
  <1>4. supplier.changes \in 0 .. MaxChanges BY <1>1, RemovalsAssumption
  <1> QED BY <1>2, <1>3, <1>4 DEF RemovalsBounds, OncePerDocument, FirstOnce

LEMMA SightedOnce ==
    ASSUME RemovalsInvariant, RemovalsBounds, RecordSightings
    PROVE  OncePerDocument(suspects')
  <1> DEFINE kept == { s \in suspects : ~\E b \in run.live : b.doc = s.doc /\ b.seen # Never }
             first == { f \in FirstSightings : f.doc \notin SuspectDocs }
             new == { [doc |-> b.doc, meeting |-> b.meeting, seen |-> clock] : b \in first }
  <1>1. suspects' = kept \cup new BY DEF RecordSightings
  <1>2. \A s, t \in kept : s.doc = t.doc => s = t BY DEF RemovalsBounds, OncePerDocument
  <1>3. \A s \in kept, t \in new : s.doc # t.doc BY DEF SuspectDocs
  <1>4. \A s, t \in new : s.doc = t.doc => s = t
    <2> SUFFICES ASSUME NEW s \in new, NEW t \in new, s.doc = t.doc PROVE s = t OBVIOUS
    <2>1. PICK b \in first : s = [doc |-> b.doc, meeting |-> b.meeting, seen |-> clock]
      OBVIOUS
    <2>2. PICK e \in first : t = [doc |-> e.doc, meeting |-> e.meeting, seen |-> clock]
      OBVIOUS
    <2>3. b \in run.plan /\ e \in run.plan /\ b.seen = Never /\ e.seen = Never
      BY DEF FirstSightings, RemovalsInvariant, PlansAreKept
    <2>4. b.doc = e.doc BY <2>1, <2>2
    <2>5. b = e BY <2>3, <2>4 DEF RemovalsBounds, FirstOnce
    <2> QED BY <2>1, <2>2, <2>5
  <1> HIDE DEF kept, new
  <1>5. \A s, t \in kept \cup new : s.doc = t.doc => s = t BY <1>2, <1>3, <1>4
  <1> QED BY <1>1, <1>5 DEF OncePerDocument

LEMMA RemovalsStayBounded ==
    RemovalsInvariant /\ RemovalsBounds /\ [RemovalsNext]_removalsVars => RemovalsBounds'
  <1> SUFFICES ASSUME RemovalsInvariant, RemovalsBounds, [RemovalsNext]_removalsVars
               PROVE  RemovalsBounds'
    OBVIOUS
  <1>0. /\ RemovalsAreTyped /\ supplier.changes \in 0 .. MaxChanges
        /\ stored \subseteq Documents /\ named \subseteq Documents /\ lost \subseteq Documents
        /\ emptied \subseteq Documents /\ counted \subseteq Documents
        /\ OncePerDocument(suspects) /\ FirstOnce(run.plan)
        /\ run.plan \subseteq Candidate /\ run.skipped \subseteq Documents
    BY DEF RemovalsInvariant, RemovalsBounds, RemovalsAreTyped, RunRows, Traced
  <1>i. Idle.plan = {} /\ FirstOnce({}) /\ \A p : [Idle EXCEPT !.plan = p].plan = p
    BY DEF Idle, FirstOnce
  <1>t. ASSUME supplier'.changes \in 0 .. MaxChanges, stored' \subseteq Documents,
               named' \subseteq Documents, lost' \subseteq Documents,
               emptied' \subseteq Documents, counted' \subseteq Documents,
               OncePerDocument(suspects'), FirstOnce(run'.plan)
        PROVE  RemovalsBounds'
    BY <1>t DEF RemovalsBounds, OncePerDocument, FirstOnce, Traced
  <1>p. \A x \in run.plan : x.doc \in Documents BY <1>0 DEF Candidate
  <1>e. DOMAIN run = {"phase", "todo", "listing", "skipped", "plan", "gone", "live", "control"}
    BY <1>0 DEF RemovalsAreTyped, RunRows
  <1>1. CASE SupplierChanges
    <2>1. /\ supplier.changes < MaxChanges
          /\ UNCHANGED <<stored, suspects, run, named, emptied, counted, lost>>
      BY <1>1 DEF SupplierChanges, storeVars
    <2>2. supplier'.changes = supplier.changes + 1
      <3>1. PICK new \in Changed : supplier' = [new EXCEPT !.changes = @ + 1]
        BY <1>1 DEF SupplierChanges
      <3>2. new.changes = supplier.changes /\ "changes" \in DOMAIN new
        BY <1>0 DEF Changed, RemovalsAreTyped
      <3> QED BY <3>1, <3>2
    <2>3. supplier'.changes \in 0 .. MaxChanges BY <1>0, <2>1, <2>2, RemovalsAssumption
    <2> QED BY <1>0, <1>t, <2>1, <2>3
  <1>2. CASE TimePasses BY <1>0, <1>t, <1>2 DEF TimePasses, storeVars, historyVars
  <1>3. CASE StartRun
    <2>1. run'.plan = {} BY <1>3 DEF StartRun, Idle
    <2> QED BY <1>0, <1>i, <1>t, <1>3, <2>1 DEF StartRun, supplierVars, storeVars, historyVars
  <1>4. ASSUME NEW m \in Meetings, EmitMeeting(m) PROVE RemovalsBounds'
    <2>1. run'.plan = run.plan BY <1>4, <1>e DEF EmitMeeting
    <2> QED BY <1>0, <1>t, <1>4, <2>1 DEF EmitMeeting, supplierVars
  <1>5. CASE DocumentsNext
    <2>1. run'.plan = run.plan BY <1>5, <1>e DEF DocumentsNext
    <2> QED BY <1>0, <1>t, <1>5, <2>1 DEF DocumentsNext, supplierVars, storeVars, historyVars
  <1>6. ASSUME NEW d \in Documents, EmitDocument(d) PROVE RemovalsBounds'
    <2>1. run'.plan = run.plan BY <1>6, <1>e DEF EmitDocument
    <2> QED BY <1>0, <1>t, <1>6, <2>1 DEF EmitDocument, supplierVars
  <1>7. ASSUME NEW d \in Documents, DocumentFails(d) PROVE RemovalsBounds'
    <2>1. run'.plan = run.plan BY <1>7, <1>e DEF DocumentFails
    <2> QED BY <1>0, <1>t, <1>7, <2>1 DEF DocumentFails, supplierVars, storeVars, historyVars
  <1>8. CASE PlanNext
    <2>1. run'.plan = run.plan BY <1>8, <1>e DEF PlanNext
    <2> QED BY <1>0, <1>t, <1>8, <2>1 DEF PlanNext, supplierVars, storeVars, historyVars
  <1>9. CASE Plan
    <2>1. UNCHANGED <<supplier, stored, named, lost>> /\ emptied' = emptied \cup run.skipped
      BY <1>9 DEF Plan, supplierVars
    <2>r. emptied' \subseteq Documents BY <2>1, <1>0
    <2>2. OncePerDocument(suspects')
      <3>1. suspects' \subseteq suspects BY <1>9, <1>0, PlannedIsTyped DEF Plan
      <3> QED BY <3>1, <1>0 DEF OncePerDocument
    <2>3. \A x \in Removals : x.doc \in Documents BY <1>0, PlannedIsTyped DEF Candidate
    <2>4. CASE Removals = {} \/ Cardinality(Removals) > MaxPerRun
      <3>1. run'.plan = {} /\ counted' = counted \cup { x.doc : x \in Removals }
        BY <1>9, <2>4, <1>i DEF Plan, EndRun
      <3>2. counted' \subseteq Documents BY <3>1, <1>0, <2>3
      <3> QED BY <1>0, <1>i, <1>t, <2>1, <2>2, <2>r, <3>1, <3>2
    <2>5. CASE ~(Removals = {} \/ Cardinality(Removals) > MaxPerRun)
      <3>1. run'.plan = Removals /\ counted' = counted BY <1>9, <2>5 DEF Plan, Idle
      <3>2. FirstOnce(Removals) BY <1>0, RemovalsAreFirstOnce
      <3> QED BY <1>0, <1>t, <2>1, <2>2, <2>r, <3>1, <3>2
    <2> QED BY <2>4, <2>5
  <1>10. CASE AskControl
    <2>1. UNCHANGED <<supplier, stored, suspects, emptied, counted, lost>>
      BY <1>10 DEF AskControl, supplierVars, storeVars
    <2>2. (run'.plan = run.plan /\ named' = named)
          \/ (run'.plan = {} /\ named' = named \cup { x.doc : x \in run.plan })
      BY <1>10, <1>e, <1>i DEF AskControl, Names, EndRun
    <2>3. named' \subseteq Documents BY <2>2, <1>0, <1>p
    <2>4. FirstOnce(run'.plan) BY <2>2, <1>0, <1>i
    <2> QED BY <1>0, <1>t, <2>1, <2>3, <2>4
  <1>11. ASSUME NEW x \in run.plan, AskCandidate(x) PROVE RemovalsBounds'
    <2>1. run'.plan = run.plan BY <1>11, <1>e DEF AskCandidate
    <2> QED BY <1>0, <1>t, <1>11, <2>1 DEF AskCandidate, supplierVars, storeVars
  <1>12. CASE RecordSightings
    <2>1. UNCHANGED <<supplier, stored, emptied, counted, lost>>
          /\ named' = named \cup { x.doc : x \in run.plan \ Confirmed }
      BY <1>12 DEF RecordSightings, supplierVars, Names
    <2>2. named' \subseteq Documents BY <2>1, <1>0, <1>p
    <2>3. run'.plan = run.plan \/ run'.plan = {}
      BY <1>12, <1>e, <1>i DEF RecordSightings, EndRun
    <2>4. FirstOnce(run'.plan) BY <2>3, <1>0, <1>i
    <2> QED BY <1>0, <1>t, <1>12, <2>1, <2>2, <2>4, SightedOnce
  <1>13. ASSUME NEW x \in run.plan, NEW reached \in Reached, Retract(x, reached)
         PROVE  RemovalsBounds'
    <2>1. run'.plan = run.plan BY <1>13, <1>e DEF Retract
    <2>2. stored' \subseteq Documents BY <1>13, <1>0 DEF Retract
    <2> QED BY <1>0, <1>t, <1>13, <2>1, <2>2 DEF Retract, supplierVars, historyVars
  <1>14. CASE Conclude
    <2>1. UNCHANGED <<supplier, stored, emptied, counted, lost>> /\ run'.plan = {}
          /\ named' = named \cup { x.doc : x \in run.plan } /\ suspects' \subseteq suspects
      BY <1>14, <1>i DEF Conclude, supplierVars, Names, EndRun
    <2>2. named' \subseteq Documents BY <2>1, <1>0, <1>p
    <2>3. OncePerDocument(suspects') BY <2>1, <1>0 DEF OncePerDocument
    <2> QED BY <1>0, <1>i, <1>t, <2>1, <2>2, <2>3
  <1>15. CASE RunEndsEarly
    <2>1. UNCHANGED <<supplier, stored, named, emptied, counted, suspects>> /\ run'.plan = {}
          /\ lost' \subseteq lost \cup Documents
      BY <1>15, <1>i DEF RunEndsEarly, supplierVars, storeVars, EndRun
    <2>2. lost' \subseteq Documents BY <2>1, <1>0
    <2> QED BY <1>0, <1>i, <1>t, <2>1, <2>2
  <1>16. CASE UNCHANGED removalsVars
    BY <1>0, <1>t, <1>16 DEF removalsVars, supplierVars, storeVars, historyVars
  <1> QED
    BY <1>1, <1>2, <1>3, <1>4, <1>5, <1>6, <1>7, <1>8, <1>9, <1>10, <1>11, <1>12, <1>13, <1>14,
       <1>15, <1>16 DEF RemovalsNext

LEMMA RemovalsAreBounded == RemovalsSpec => [](RemovalsInvariant /\ RemovalsBounds)
  <1> QED BY RemovalsBegin, RemovalsStayBounded, RemovalsAreSound, PTL DEF RemovalsSpec

LEMMA RemovalsHaveTypes == RemovalsInvariant /\ RemovalsBounds => RemovalsTypeOK
  <1> SUFFICES ASSUME RemovalsInvariant, RemovalsBounds PROVE RemovalsTypeOK OBVIOUS
  <1>1. RemovalsAreTyped /\ run.gone \subseteq run.plan
    BY DEF RemovalsInvariant, PlansAreKept
  <1>2. run.phase \in Phases /\ run.plan \subseteq Candidate
    BY <1>1 DEF RemovalsAreTyped, RunRows
  <1>3. /\ tracker.emitted \subseteq Documents
        /\ tracker.observed \in [Meetings -> (SUBSET Documents) \cup {NotSeen}]
        /\ tracker.control \in Documents \cup {NoDocument}
    BY <1>1 DEF RemovalsAreTyped, TrackerRows
  <1>4. supplier \in [lists: [Meetings -> SUBSET Documents], served: SUBSET Documents,
                      refusing: BOOLEAN, changes: 0 .. MaxChanges]
    BY <1>1 DEF RemovalsAreTyped, RemovalsBounds
  <1> QED BY <1>1, <1>2, <1>3, <1>4 DEF RemovalsTypeOK, RemovalsAreTyped, RemovalsBounds, OncePerDocument
-----------------------------------------------------------------------------
(* Scheduler, its types: a tick is within a day, and asks for days that    *)
(* are there.                                                              *)
LEMMA TicksAreNear ==
    ASSUME NEW t \in Hours, season \in {"none", "autumn", "spring"}
    PROVE  /\ NextTick(t) \in 0 .. 24 * LastDay + 47
           /\ Wanted(t) \subseteq ScheduledRun
  <1>1. t \in Nat /\ t <= 24 * LastDay + 23 /\ LastDay \in Nat
    BY SchedulerAssumption DEF Hours
  <1>2. UtcDay(t) \in Nat /\ 24 * UtcDay(t) <= t /\ t < 24 * UtcDay(t) + 24
    BY <1>1 DEF UtcDay
  <1>3. Offset(t) \in {1, 2} BY DEF Offset
  <1>4. NextTick(t) \in 0 .. 24 * LastDay + 47
    BY <1>1, <1>2, <1>3 DEF NextTick, ScheduleHour
  <1>5. UtcDay(t) \in Days BY <1>1, <1>2 DEF Days
  <1> QED BY <1>4, <1>5 DEF Wanted, ScheduledRun, WindowKinds

Timers == [state: {"down", "waiting", "enqueueing"}, nextAt: 0 .. 24 * LastDay + 47,
           todo: SUBSET ScheduledRun]

LEMMA SchedulerIsTyped ==
    SchedulerTypeOK /\ [SchedulerNext]_schedulerVars => SchedulerTypeOK'
  <1> SUFFICES ASSUME SchedulerTypeOK, [SchedulerNext]_schedulerVars PROVE SchedulerTypeOK'
    OBVIOUS
  <1>0. /\ season \in {"none", "autumn", "spring"} /\ hour \in Hours /\ timer \in Timers
        /\ active \subseteq enqueued /\ enqueued \subseteq ScheduledRun
        /\ excused \subseteq ScheduledRun
    BY DEF SchedulerTypeOK, Timers
  <1>t. ASSUME UNCHANGED season, hour' \in Hours, timer' \in Timers, active' \subseteq enqueued',
               enqueued' \subseteq ScheduledRun, excused' \subseteq ScheduledRun
        PROVE  SchedulerTypeOK'
    BY <1>0, <1>t DEF SchedulerTypeOK, Timers
  <1>n. NextTick(hour) \in 0 .. 24 * LastDay + 47 /\ Wanted(hour) \subseteq ScheduledRun
    BY <1>0, TicksAreNear
  <1>w. Wait \in Timers BY <1>n DEF Wait, Timers
  <1>d. [state |-> "down", nextAt |-> 0, todo |-> {}] \in Timers
    <2>1. 0 \in 0 .. 24 * LastDay + 47 /\ {} \in SUBSET ScheduledRun
      BY SchedulerAssumption
    <2> QED BY <2>1 DEF Timers
  <1>1. CASE Start BY <1>0, <1>t, <1>w, <1>1 DEF Start
  <1>2. CASE HourPasses
    <2>1. hour' \in Hours /\ UNCHANGED <<season, timer, active, enqueued>>
      BY <1>2 DEF HourPasses
    <2>2. Wanted(hour') \subseteq ScheduledRun
      <3> DEFINE next == hour'
      <3>1. next \in Hours BY <2>1
      <3> HIDE DEF next
      <3>2. Wanted(next) \subseteq ScheduledRun BY <1>0, <3>1, TicksAreNear
      <3> QED BY <3>2 DEF next
    <2>3. excused' \subseteq ScheduledRun BY <1>0, <1>2, <2>2 DEF HourPasses
    <2> QED BY <1>0, <1>t, <2>1, <2>3
  <1>3. CASE TickFires
    <2>1. UNCHANGED <<season, hour, active, enqueued>> BY <1>3 DEF TickFires
    <2>2. [timer EXCEPT !.state = "enqueueing", !.todo = Wanted(hour)] \in Timers
      BY <1>0, <1>n DEF Timers
    <2> QED BY <1>0, <1>t, <1>n, <1>w, <1>3, <2>1, <2>2 DEF TickFires
  <1>4. CASE EnqueueNext
    <2>1. PICK r \in timer.todo :
             /\ timer' = [timer EXCEPT !.todo = @ \ {r}]
             /\ \/ active' = active \cup {r} /\ enqueued' = enqueued \cup {r} /\ UNCHANGED excused
                \/ excused' = excused \cup {r} /\ UNCHANGED <<active, enqueued>>
      BY <1>4 DEF EnqueueNext
    <2>2. r \in ScheduledRun /\ [timer EXCEPT !.todo = @ \ {r}] \in Timers
      BY <1>0 DEF Timers
    <2>3. UNCHANGED <<season, hour>> BY <1>4 DEF EnqueueNext
    <2> QED BY <1>0, <1>t, <2>1, <2>2, <2>3
  <1>5. CASE ScheduleNext BY <1>0, <1>t, <1>w, <1>5 DEF ScheduleNext
  <1>6. CASE Stop
    <2>1. timer.todo \subseteq ScheduledRun BY <1>0 DEF Timers
    <2>2. excused' \subseteq ScheduledRun BY <1>0, <1>n, <1>6, <2>1 DEF Stop
    <2> QED BY <1>0, <1>t, <1>d, <1>6, <2>2 DEF Stop
  <1>7. CASE RunsSettle BY <1>0, <1>t, <1>7 DEF RunsSettle
  <1>8. CASE UNCHANGED schedulerVars BY <1>0, <1>t, <1>8 DEF schedulerVars
  <1> QED BY <1>1, <1>2, <1>3, <1>4, <1>5, <1>6, <1>7, <1>8 DEF SchedulerNext

LEMMA SchedulerHasTypes == SchedulerSpec => []SchedulerTypeOK
  <1>1. SchedulerInit => SchedulerTypeOK
    <2>1. 0 \in Hours /\ 0 \in 0 .. 24 * LastDay + 47 BY SchedulerAssumption DEF Hours
    <2> QED BY <2>1 DEF SchedulerInit, SchedulerTypeOK
  <1> QED BY <1>1, SchedulerIsTyped, PTL DEF SchedulerSpec
-----------------------------------------------------------------------------
(* Breaker, its types: no block is longer than the longest cooldown, and a *)
(* limiter admits no more requests than it may.                            *)
LimiterBounds == [throttles: 0 .. MaxThrottles, blockedUntil: Blocks,
                  nextSlotAt: 0 .. Interval, trusted: 0 .. ReadTTL]
CallerBounds == [step: {"none", "blocked", "slot"}, wakeAt: Blocks \cup 0 .. Interval,
                 sent: 0 .. MaxCallers]
HeldBounds == [until: Blocks, sent: 0 .. MaxCallers]
RoomIsKept == \A l \in Limiters : callers[l].step # "none" => callers[l].sent < MaxCallers
BreakerBounds == BreakerTypeOK /\ RoomIsKept

LEMMA BlocksAreBounded ==
    /\ \A k \in Nat : \A t \in 0 .. k : Nearer(t) \in 0 .. k
    /\ \A s, t \in Blocks : Later(s, t) \in Blocks
    /\ \A s \in Blocks, n \in Nat : Later(s, Cooldown(n)) \in Blocks
    /\ 0 \in Blocks /\ 0 \in 0 .. Interval /\ 0 \in 0 .. MaxCallers /\ 0 \in 0 .. MaxThrottles
    /\ \A n \in 0 .. MaxThrottles : Sooner(n + 1, MaxThrottles) \in 0 .. MaxThrottles
  <1> USE BreakerAssumption
  <1>1. \A k \in Nat : \A t \in 0 .. k : Nearer(t) \in 0 .. k BY DEF Nearer, Later
  <1>2. \A s, t \in Blocks : Later(s, t) \in Blocks BY DEF Later
  <1>3. ASSUME NEW s \in Blocks, NEW n \in Nat PROVE Later(s, Cooldown(n)) \in Blocks
    <2>1. CASE n = 0 BY <2>1 DEF Cooldown, Later, Blocks
    <2>2. CASE n # 0
      <3>1. 2 ^ (n - 1) \in Int BY <2>2
      <3>2. BaseCooldown * 2 ^ (n - 1) \in Int BY <3>1
      <3> DEFINE most == BaseCooldown * 2 ^ (n - 1)
      <3>3. most \in Int BY <3>2
      <3> HIDE DEF most
      <3>4. Sooner(most, MaxCooldown) \in Int /\ Sooner(most, MaxCooldown) <= MaxCooldown
        BY <3>3 DEF Sooner
      <3>5. Cooldown(n) \in Int /\ Cooldown(n) <= MaxCooldown
        BY <2>2, <3>4 DEF Cooldown, most
      <3> QED BY <3>5 DEF Later, Blocks
    <2> QED BY <2>1, <2>2
  <1>4. \A n \in 0 .. MaxThrottles : Sooner(n + 1, MaxThrottles) \in 0 .. MaxThrottles
    BY DEF Sooner
  <1>5. 0 \in Blocks /\ 0 \in 0 .. Interval /\ 0 \in 0 .. MaxCallers /\ 0 \in 0 .. MaxThrottles
    BY DEF Blocks
  <1> QED BY <1>1, <1>2, <1>3, <1>4, <1>5

LEMMA BreakerStaysBounded ==
    BreakerBounds /\ BreakerInvariant /\ BreakerInvariant' /\ [BreakerNext]_breakerVars
       => BreakerBounds'
  <1> SUFFICES ASSUME BreakerBounds, BreakerInvariant, BreakerInvariant',
                      [BreakerNext]_breakerVars
               PROVE  BreakerBounds'
    OBVIOUS
  <1> USE BreakerAssumption
  <1>0. /\ limiter \in [Limiters -> LimiterBounds] /\ callers \in [Limiters -> CallerBounds]
        /\ sharedFile \in Blocks /\ writes \in [Limiters -> Blocks \cup {NoWrite}]
        /\ held \in [Limiters -> HeldBounds] /\ RoomIsKept
    BY DEF BreakerBounds, BreakerTypeOK, LimiterBounds, CallerBounds, HeldBounds
  <1>t. ASSUME limiter' \in [Limiters -> LimiterBounds], callers' \in [Limiters -> CallerBounds],
               sharedFile' \in Blocks, writes' \in [Limiters -> Blocks \cup {NoWrite}],
               held' \in [Limiters -> HeldBounds],
               \A l \in Limiters : callers'[l].step # "none" => callers'[l].sent < MaxCallers
        PROVE  BreakerBounds'
    BY <1>t DEF BreakerBounds, BreakerTypeOK, LimiterBounds, CallerBounds, HeldBounds, RoomIsKept,
                Blocks
  <1>l. ASSUME NEW l \in Limiters
        PROVE  /\ limiter[l] \in LimiterBounds /\ callers[l] \in CallerBounds
               /\ held[l] \in HeldBounds /\ writes[l] \in Blocks \cup {NoWrite}
               /\ limiter[l].throttles \in 0 .. MaxThrottles /\ limiter[l].blockedUntil \in Blocks
               /\ limiter[l].nextSlotAt \in 0 .. Interval /\ limiter[l].trusted \in 0 .. ReadTTL
               /\ callers[l].wakeAt \in Blocks \cup 0 .. Interval
               /\ callers[l].sent \in 0 .. MaxCallers
               /\ held[l].until \in Blocks /\ held[l].sent \in 0 .. MaxCallers
    <2>1. /\ limiter[l] \in LimiterBounds /\ callers[l] \in CallerBounds
          /\ held[l] \in HeldBounds /\ writes[l] \in Blocks \cup {NoWrite}
      BY <1>0
    <2> QED BY <2>1 DEF LimiterBounds, CallerBounds, HeldBounds
  <1>1. CASE ClockTicks
    <2>0. /\ limiter' = [l \in Limiters |-> [limiter[l] EXCEPT
              !.blockedUntil = Nearer(limiter[l].blockedUntil),
              !.nextSlotAt = Nearer(limiter[l].nextSlotAt),
              !.trusted = Nearer(limiter[l].trusted)]]
          /\ callers' = [l \in Limiters |-> [callers[l] EXCEPT !.wakeAt = Nearer(callers[l].wakeAt)]]
          /\ sharedFile' = Nearer(sharedFile)
          /\ writes' = [l \in Limiters |-> IF writes[l] = NoWrite THEN NoWrite ELSE Nearer(writes[l])]
          /\ held' = [l \in Limiters |-> [until |-> Nearer(held[l].until),
                        sent |-> IF held[l].until <= 1 THEN 0 ELSE held[l].sent]]
      BY <1>1 DEF ClockTicks
    <2>n. /\ \A t \in Blocks : Nearer(t) \in Blocks
          /\ \A t \in 0 .. Interval : Nearer(t) \in 0 .. Interval
          /\ \A t \in 0 .. ReadTTL : Nearer(t) \in 0 .. ReadTTL
      BY BlocksAreBounded DEF Blocks
    <2>1. \A l \in Limiters : [limiter[l] EXCEPT
              !.blockedUntil = Nearer(limiter[l].blockedUntil),
              !.nextSlotAt = Nearer(limiter[l].nextSlotAt),
              !.trusted = Nearer(limiter[l].trusted)] \in LimiterBounds
      BY <1>l, <2>n DEF LimiterBounds
    <2>2. \A l \in Limiters : [callers[l] EXCEPT !.wakeAt = Nearer(callers[l].wakeAt)] \in CallerBounds
      BY <1>l, <2>n DEF CallerBounds
    <2>3. \A l \in Limiters : [until |-> Nearer(held[l].until),
                        sent |-> IF held[l].until <= 1 THEN 0 ELSE held[l].sent] \in HeldBounds
      BY <1>l, <2>n, BlocksAreBounded DEF HeldBounds
    <2>4. writes' \in [Limiters -> Blocks \cup {NoWrite}] BY <1>l, <2>0, <2>n
    <2>5. limiter' \in [Limiters -> LimiterBounds] /\ callers' \in [Limiters -> CallerBounds]
          /\ held' \in [Limiters -> HeldBounds]
      BY <2>0, <2>1, <2>2, <2>3
    <2>6. \A l \in Limiters : callers'[l].step = callers[l].step /\ callers'[l].sent = callers[l].sent
      BY <1>l, <2>0 DEF CallerBounds
    <2> QED BY <1>0, <1>t, <2>0, <2>n, <2>4, <2>5, <2>6 DEF RoomIsKept
  <1>2. ASSUME NEW l \in Limiters, Reserve(l) PROVE BreakerBounds'
    <2>1. PICK block \in SharedBlocks(l) :
            /\ limiter' = [limiter EXCEPT ![l].blockedUntil = block,
                             ![l].trusted = IF @ > 0 THEN @ ELSE ReadTTL]
            /\ callers' = [callers EXCEPT ![l].step = "blocked", ![l].wakeAt = block]
            /\ held' = [held EXCEPT ![l].until = Later(@, block)]
      BY <1>2 DEF Reserve
    <2>2. block \in Blocks BY <1>0, <1>l, BlocksAreBounded DEF SharedBlocks
    <2> DEFINE kept == IF limiter[l].trusted > 0 THEN limiter[l].trusted ELSE ReadTTL
               lim == [limiter[l] EXCEPT !.blockedUntil = block, !.trusted = kept]
               cal == [callers[l] EXCEPT !.step = "blocked", !.wakeAt = block]
    <2>k. kept \in 0 .. ReadTTL BY <1>l, BreakerAssumption DEF LimiterBounds
    <2> HIDE DEF kept
    <2>3. lim \in LimiterBounds BY <1>l, <2>2, <2>k DEF LimiterBounds
    <2>4. cal \in CallerBounds /\ cal.sent = callers[l].sent
      BY <1>l, <2>2 DEF CallerBounds
    <2>5. limiter' = [limiter EXCEPT ![l] = lim] /\ callers' = [callers EXCEPT ![l] = cal]
      BY <1>0, <2>1 DEF kept
    <2> HIDE DEF lim, cal
    <2>6. limiter' \in [Limiters -> LimiterBounds] /\ callers' \in [Limiters -> CallerBounds]
      BY <1>0, <2>3, <2>4, <2>5
    <2>7. \A x \in Limiters : callers'[x].step # "none" => callers'[x].sent < MaxCallers
      BY <1>0, <1>2, <2>4, <2>5 DEF RoomIsKept, Reserve
    <2>8. held' \in [Limiters -> HeldBounds]
      <3>1. Later(held[l].until, block) \in Blocks BY <1>l, <2>2 DEF Later
      <3> DEFINE hel == [held[l] EXCEPT !.until = Later(held[l].until, block)]
      <3>2. hel \in HeldBounds BY <1>l, <3>1 DEF HeldBounds
      <3>3. held' = [held EXCEPT ![l] = hel] BY <1>0, <2>1
      <3> HIDE DEF hel
      <3> QED BY <1>0, <3>2, <3>3
    <2>9. sharedFile' = sharedFile /\ writes' = writes BY <1>2 DEF Reserve
    <2> QED BY <1>0, <1>t, <2>6, <2>7, <2>8, <2>9
  <1>s. ASSUME NEW l \in Limiters, Send(l), callers[l].step # "none", UNCHANGED <<sharedFile, writes>>
        PROVE  BreakerBounds'
    <2> DEFINE lim == [limiter[l] EXCEPT !.nextSlotAt = Interval]
               cal == [callers[l] EXCEPT !.step = "none", !.wakeAt = 0, !.sent = callers[l].sent + 1]
               hel == [held[l] EXCEPT !.sent =
                          IF held[l].until > 0 THEN held[l].sent + 1 ELSE held[l].sent]
    <2>1. callers[l].sent < MaxCallers BY <1>0, <1>s DEF RoomIsKept
    <2>2. lim \in LimiterBounds BY <1>l DEF LimiterBounds
    <2>3. callers[l].sent + 1 \in 0 .. MaxCallers BY <1>l, <2>1
    <2>4. cal \in CallerBounds /\ cal.step = "none"
      BY <1>l, <2>3, BlocksAreBounded DEF CallerBounds
    <2>5. /\ limiter' = [limiter EXCEPT ![l] = lim] /\ callers' = [callers EXCEPT ![l] = cal]
          /\ held' = [held EXCEPT ![l] = hel]
      BY <1>0, <1>s DEF Send
    <2>6. held'[l] = hel /\ hel.until = held[l].until /\ DOMAIN hel = {"until", "sent"}
      BY <1>0, <1>l, <2>5 DEF HeldBounds
    <2>7. hel.sent \in Nat BY <1>l DEF HeldBounds
    <2>8. held'[l].sent <= 1 BY <1>s DEF BreakerInvariant, NextOneWaits
    <2>9. hel \in HeldBounds
      <3>1. hel.sent \in 0 .. MaxCallers BY <1>l, <2>1, <2>6, <2>7, <2>8
      <3>2. hel = [until |-> hel.until, sent |-> hel.sent] BY <1>l DEF HeldBounds
      <3> HIDE DEF hel
      <3> QED BY <1>l, <2>6, <3>1, <3>2 DEF HeldBounds
    <2> HIDE DEF lim, cal, hel
    <2>10. /\ limiter' \in [Limiters -> LimiterBounds] /\ callers' \in [Limiters -> CallerBounds]
           /\ held' \in [Limiters -> HeldBounds]
      BY <1>0, <2>2, <2>4, <2>5, <2>9
    <2>11. \A x \in Limiters : callers'[x].step # "none" => callers'[x].sent < MaxCallers
      BY <1>0, <2>4, <2>5 DEF RoomIsKept
    <2> QED BY <1>0, <1>s, <1>t, <2>10, <2>11
  <1>3. ASSUME NEW l \in Limiters, BlockIsOver(l) PROVE BreakerBounds'
    <2>1. CASE limiter[l].nextSlotAt > 0
      <3> DEFINE cal == [callers[l] EXCEPT !.step = "slot", !.wakeAt = limiter[l].nextSlotAt]
      <3>1. callers' = [callers EXCEPT ![l] = cal] /\ UNCHANGED <<limiter, held, sharedFile, writes>>
        BY <1>0, <1>3, <2>1 DEF BlockIsOver
      <3>2. cal \in CallerBounds /\ cal.sent = callers[l].sent BY <1>l DEF CallerBounds
      <3>3. callers[l].sent < MaxCallers BY <1>0, <1>3 DEF BlockIsOver, RoomIsKept
      <3> HIDE DEF cal
      <3>4. callers' \in [Limiters -> CallerBounds] BY <1>0, <3>1, <3>2
      <3>5. \A x \in Limiters : callers'[x].step # "none" => callers'[x].sent < MaxCallers
        BY <1>0, <3>1, <3>2, <3>3 DEF RoomIsKept
      <3> QED BY <1>0, <1>t, <3>1, <3>4, <3>5
    <2>2. CASE ~(limiter[l].nextSlotAt > 0) BY <1>3, <1>s, <2>2 DEF BlockIsOver
    <2> QED BY <2>1, <2>2
  <1>4. ASSUME NEW l \in Limiters, SlotComes(l) PROVE BreakerBounds'
    BY <1>4, <1>s DEF SlotComes
  <1>c. ASSUME NEW l \in Limiters, callers[l].sent > 0,
               callers' = [callers EXCEPT ![l].sent = @ - 1]
        PROVE  /\ callers' \in [Limiters -> CallerBounds]
               /\ \A x \in Limiters : callers'[x].step # "none" => callers'[x].sent < MaxCallers
    <2> DEFINE cal == [callers[l] EXCEPT !.sent = callers[l].sent - 1]
    <2>1. callers' = [callers EXCEPT ![l] = cal] BY <1>0, <1>c
    <2>2. callers[l].sent - 1 \in 0 .. MaxCallers /\ callers[l].sent - 1 < callers[l].sent
      BY <1>c, <1>l
    <2>3. cal \in CallerBounds /\ cal.step = callers[l].step /\ cal.sent = callers[l].sent - 1
      BY <1>l, <2>2 DEF CallerBounds
    <2> HIDE DEF cal
    <2>4. callers' \in [Limiters -> CallerBounds] BY <1>0, <2>1, <2>3
    <2>5. callers[l].sent \in 0 .. MaxCallers BY <1>l
    <2>6. cal.step # "none" => cal.sent < MaxCallers
      BY <1>0, <2>2, <2>3, <2>5 DEF RoomIsKept
    <2>7. \A x \in Limiters : callers'[x].step # "none" => callers'[x].sent < MaxCallers
      BY <1>0, <2>1, <2>6 DEF RoomIsKept
    <2> QED BY <2>4, <2>7
  <1>5. ASSUME NEW l \in Limiters, Throttled(l) PROVE BreakerBounds'
    <2> DEFINE n == Sooner(limiter[l].throttles + 1, MaxThrottles)
               lim == [limiter[l] EXCEPT !.throttles = n, !.blockedUntil = Block(l, Cooldown(n))]
               hel == [until |-> Later(held[l].until, Cooldown(n)), sent |-> 0]
    <2>1. /\ limiter' = [limiter EXCEPT ![l] = lim] /\ held' = [held EXCEPT ![l] = hel]
          /\ writes' = [writes EXCEPT ![l] = Block(l, Cooldown(n))]
          /\ UNCHANGED sharedFile
      BY <1>0, <1>5 DEF Throttled
    <2>2. n \in 0 .. MaxThrottles /\ n \in Nat BY <1>l, BlocksAreBounded
    <2> HIDE DEF n
    <2>3. Block(l, Cooldown(n)) \in Blocks /\ hel.until \in Blocks
      BY <1>l, <2>2, BlocksAreBounded DEF Block
    <2>4. lim \in LimiterBounds BY <1>l, <2>2, <2>3 DEF LimiterBounds
    <2>5. hel \in HeldBounds BY <2>3, BlocksAreBounded DEF HeldBounds
    <2> HIDE DEF lim, hel
    <2>6. /\ limiter' \in [Limiters -> LimiterBounds] /\ held' \in [Limiters -> HeldBounds]
          /\ writes' \in [Limiters -> Blocks \cup {NoWrite}]
      BY <1>0, <2>1, <2>3, <2>4, <2>5
    <2>7. callers[l].sent > 0 /\ callers' = [callers EXCEPT ![l].sent = @ - 1]
      BY <1>5 DEF Throttled
    <2> QED BY <1>0, <1>c, <1>t, <2>1, <2>6, <2>7
  <1>6. ASSUME NEW l \in Limiters, Answered(l) PROVE BreakerBounds'
    <2> DEFINE lim == [limiter[l] EXCEPT !.throttles = 0]
    <2>1. /\ limiter' = limiter \/ limiter' = [limiter EXCEPT ![l] = lim]
          /\ UNCHANGED <<sharedFile, writes, held>>
      BY <1>0, <1>6 DEF Answered, Succeeded
    <2>2. lim \in LimiterBounds BY <1>l, BlocksAreBounded DEF LimiterBounds
    <2> HIDE DEF lim
    <2>3. limiter' \in [Limiters -> LimiterBounds] BY <1>0, <2>1, <2>2
    <2>4. callers[l].sent > 0 /\ callers' = [callers EXCEPT ![l].sent = @ - 1]
      BY <1>6 DEF Answered
    <2> QED BY <1>0, <1>c, <1>t, <2>1, <2>3, <2>4
  <1>7. ASSUME NEW l \in Limiters, WriteLands(l) PROVE BreakerBounds'
    <2>1. sharedFile' \in Blocks /\ writes' \in [Limiters -> Blocks \cup {NoWrite}]
      BY <1>0, <1>l, <1>7 DEF WriteLands
    <2> QED BY <1>0, <1>t, <1>7, <2>1 DEF WriteLands, RoomIsKept
  <1>8. CASE UNCHANGED breakerVars BY <1>0, <1>t, <1>8 DEF breakerVars, RoomIsKept
  <1> QED BY <1>1, <1>2, <1>3, <1>4, <1>5, <1>6, <1>7, <1>8 DEF BreakerNext

LEMMA BreakerHasTypes == BreakerSpec => []BreakerTypeOK
  <1>1. BreakerInit => BreakerBounds
    <2> SUFFICES ASSUME BreakerInit PROVE BreakerBounds OBVIOUS
    <2>1. [throttles |-> 0, blockedUntil |-> 0, nextSlotAt |-> 0, trusted |-> 0] \in LimiterBounds
      BY BlocksAreBounded, BreakerAssumption DEF LimiterBounds
    <2>2. [step |-> "none", wakeAt |-> 0, sent |-> 0] \in CallerBounds
      BY BlocksAreBounded DEF CallerBounds
    <2>3. [until |-> 0, sent |-> 0] \in HeldBounds BY BlocksAreBounded DEF HeldBounds
    <2>4. /\ limiter \in [Limiters -> LimiterBounds] /\ callers \in [Limiters -> CallerBounds]
          /\ held \in [Limiters -> HeldBounds]
      BY <2>1, <2>2, <2>3 DEF BreakerInit
    <2>5. sharedFile \in Blocks /\ writes \in [Limiters -> Blocks \cup {NoWrite}]
      BY BlocksAreBounded DEF BreakerInit
    <2>6. RoomIsKept BY DEF BreakerInit, RoomIsKept
    <2> QED BY <2>4, <2>5, <2>6 DEF BreakerBounds, BreakerTypeOK, LimiterBounds, CallerBounds,
                                    HeldBounds
  <1>2. BreakerBounds => BreakerTypeOK BY DEF BreakerBounds
  <1> QED BY <1>1, <1>2, BreakerStaysBounded, BreakerIsSound, PTL DEF BreakerSpec
-----------------------------------------------------------------------------
(* IbabsClient, its types: a call counts no further than its two budgets   *)
(* and never rests for a negative time.                                    *)
LEMMA PowersOfTwo == ASSUME NEW n \in Nat PROVE 2 ^ n \in Nat
  <1> DEFINE S == 1 .. n
  <1>1. IsFiniteSet(S) /\ Cardinality(S) = n BY FS_Interval
  <1> HIDE DEF S
  <1>2. IsFiniteSet(SUBSET S) /\ Cardinality(SUBSET S) = 2 ^ Cardinality(S)
    BY <1>1, FS_SUBSET
  <1>3. Cardinality(SUBSET S) \in Nat BY <1>2, FS_CardinalityType
  <1> QED BY <1>1, <1>2, <1>3

CallIsBounded(c) ==
    c.throttles <= ThrottleRetries + 1 /\ c.transports <= TransportTries /\ c.rest \in Nat

LEMMA CallMovesWithinBounds ==
    ASSUME call \in Calls, CallIsBounded(call), NEW step, NEW n \in Nat, NEW r \in Nat
    PROVE  /\ CallIsBounded([call EXCEPT !.step = step])
           /\ CallIsBounded([call EXCEPT !.step = step, !.rest = r])
           /\ n <= ThrottleRetries + 1 =>
                 CallIsBounded([call EXCEPT !.throttles = n, !.step = step, !.rest = r])
           /\ n <= TransportTries =>
                 CallIsBounded([call EXCEPT !.transports = n, !.rest = r, !.step = step])
  BY DEF CallIsBounded, Calls

LEMMA CallsStayBounded ==
    ClientInvariant /\ CallIsBounded(call) /\ [ClientNext]_clientVars => CallIsBounded(call')
  <1> SUFFICES ASSUME ClientInvariant, CallIsBounded(call), [ClientNext]_clientVars
               PROVE  CallIsBounded(call')
    OBVIOUS
  <1>0. call \in Calls /\ 0 \in Nat /\ ThrottleRetries \in Nat /\ TransportTries \in Nat
    BY ClientAssumption DEF ClientInvariant, CallIsTyped
  <1>1. /\ call.throttles \in Nat /\ call.transports \in Nat
        /\ Soap => call.throttles <= ThrottleRetries /\ call.transports < TransportTries
    BY <1>0 DEF ClientInvariant, CallCounts, Soap, Calls
  <1>2. \A step : CallIsBounded([call EXCEPT !.step = step])
    BY <1>0, CallMovesWithinBounds
  <1>3. ASSUME Soap, NEW retryable \in BOOLEAN, call' = AfterFailure(retryable)
        PROVE  CallIsBounded(call')
    <2> DEFINE n == call.transports + 1
               step == IF n < TransportTries /\ retryable THEN "resting" ELSE "failed"
    <2>1. n \in Nat /\ n <= TransportTries BY <1>0, <1>1, <1>3
    <2>2. call' = [call EXCEPT !.transports = n, !.rest = 0, !.step = step]
      BY <1>3 DEF AfterFailure
    <2> HIDE DEF n, step
    <2> QED BY <2>1, <2>2, <1>0, CallMovesWithinBounds
  <1>4. CASE Request BY <1>4, <1>2 DEF Request
  <1>5. CASE SoapBlocked BY <1>5, <1>2 DEF SoapBlocked
  <1>6. CASE SoapThrottled
    <2>1. PICK hint \in RetryAfters \cup {Unsaid} : call' = AfterThrottle(hint)
      BY <1>6 DEF SoapThrottled
    <2> DEFINE n == call.throttles + 1
               step == IF n > ThrottleRetries THEN "failed" ELSE "resting"
               r == IF n > ThrottleRetries THEN 0 ELSE Delay(n, hint)
    <2>2. n \in Nat /\ n - 1 \in Nat /\ n <= ThrottleRetries + 1
      BY <1>0, <1>1, <1>6 DEF SoapThrottled
    <2>3. call' = [call EXCEPT !.throttles = n, !.step = step, !.rest = r]
      BY <2>1 DEF AfterThrottle
    <2> HIDE DEF n, step
    <2>4. 2 ^ (n - 1) \in Nat BY <2>2, PowersOfTwo
    <2>5. Delay(n, hint) \in Nat BY <2>4, ClientAssumption DEF Delay
    <2>6. r \in Nat BY <2>5, <1>0
    <2> HIDE DEF r
    <2> QED BY <2>2, <2>3, <2>6, <1>0, CallMovesWithinBounds
  <1>7. CASE SoapRefused BY <1>7, <1>3 DEF SoapRefused
  <1>8. CASE SoapDropped BY <1>8, <1>3 DEF SoapDropped
  <1>9. CASE SoapUnread BY <1>9, <1>3 DEF SoapUnread
  <1>10. CASE Rested BY <1>10, <1>0, CallMovesWithinBounds DEF Rested
  <1>11. CASE SoapAnswered
    <2>1. PICK body \in Bodies :
             LET read == Parsed(call.op, body)
             IN  call' = [call EXCEPT !.step = IF read.ok THEN "returned" ELSE "failed",
                                      !.rows = read.rows, !.body = body]
      BY <1>11 DEF SoapAnswered
    <2>2. /\ call'.throttles = call.throttles /\ call'.transports = call.transports
          /\ call'.rest = call.rest
      BY <2>1, <1>0 DEF Calls
    <2> QED BY <2>2 DEF CallIsBounded
  <1>12. CASE Downloads BY <1>12, <1>2 DEF Downloads
  <1>13. CASE UNCHANGED clientVars BY <1>13 DEF clientVars
  <1> QED BY <1>4, <1>5, <1>6, <1>7, <1>8, <1>9, <1>10, <1>11, <1>12, <1>13 DEF ClientNext

LEMMA ClientHasTypes == ClientSpec => []ClientTypeOK
  <1>1. ClientInit => CallIsBounded(call)
    BY ClientAssumption DEF ClientInit, CallIsBounded
  <1>2. ClientInvariant /\ CallIsBounded(call) /\ [ClientNext]_clientVars
           => CallIsBounded(call)'
    <2>1. CallIsBounded(call') => CallIsBounded(call)' BY DEF CallIsBounded
    <2> QED BY <2>1, CallsStayBounded
  <1>3. ClientInvariant /\ CallIsBounded(call) => ClientTypeOK
    BY ClientAssumption DEF ClientInvariant, CallIsTyped, CallIsBounded, Calls, ClientTypeOK
  <1> QED BY <1>1, <1>2, <1>3, ClientIsSound, PTL DEF ClientSpec

LEMMA BackfillTypes == BackfillSpec => []BackfillTypeOK
  <1> DEFINE PlansLeft == /\ plansLeft \in 0 .. MaxPlans /\ dailyLeft \in 0 .. MaxDaily
                          /\ byHand \subseteq WindowKeys
  <1>0. MaxPlans \in Nat /\ MaxDaily \in Nat BY BackfillAssumption
  <1>1. BackfillInit => PlansLeft BY <1>0 DEF BackfillInit
  <1>2. PlansLeft /\ [BackfillNext]_backfillVars => PlansLeft'
    <2> SUFFICES ASSUME PlansLeft, [BackfillNext]_backfillVars PROVE PlansLeft' OBVIOUS
    <2>1. /\ plansLeft' = plansLeft \/ (plansLeft > 0 /\ plansLeft' = plansLeft - 1)
          /\ dailyLeft' = dailyLeft \/ (dailyLeft > 0 /\ dailyLeft' = dailyLeft - 1)
      BY DEF BackfillNext, backfillVars, PlanHistory, PlanRetry, PlanMotions, BeginPlan, LookForRun,
             CreateWindowRun, PlannerEnds, PlannerDies, ScheduleDaily, RunByHand, WindowEnds,
             SettleWindow, SettleByHand
    <2>2. byHand' \subseteq WindowKeys
      BY DEF BackfillNext, backfillVars, PlanHistory, PlanRetry, PlanMotions, BeginPlan, LookForRun,
             CreateWindowRun, PlannerEnds, PlannerDies, ScheduleDaily, RunByHand,
             SettleWindow, SettleByHand
    <2> QED BY <1>0, <2>1, <2>2
  <1>3. BackfillInvariant /\ PlansLeft => BackfillTypeOK
    <2> SUFFICES ASSUME BackfillInvariant, PlansLeft PROVE BackfillTypeOK OBVIOUS
    <2>1. /\ table \in [WindowKeys -> CellRow] /\ history \in Histories
          /\ planner \in [Planners -> PlannerRow]
      BY DEF BackfillInvariant, BackfillRows
    <2>2. ASSUME NEW p \in Planners
          PROVE  /\ planner[p].of \in {"none", "history", "motions", "retry"}
                 /\ planner[p].state \in {"idle", "working", "done"}
                 /\ \A i \in DOMAIN planner[p].todo : planner[p].todo[i] \in WindowKeys
      <3>1. planner[p] \in PlannerRow BY <2>1
      <3>2. planner[p].todo \in Seq(WindowKeys) BY <3>1 DEF PlannerRow
      <3>3. \A i \in DOMAIN planner[p].todo : planner[p].todo[i] \in WindowKeys BY <3>2
      <3> QED BY <3>1, <3>3 DEF PlannerRow
    <2> QED BY <2>1, <2>2 DEF BackfillTypeOK, CellRow
  <1> HIDE DEF PlansLeft
  <1> QED BY <1>1, <1>2, <1>3, PlansStand, PTL DEF BackfillSpec

(* ImportsTypeOK: whatever the import side does, the state of the part that *)
(* moves is one the program can be in.                                     *)
THEOREM ImportsAreTyped == ImportsSpec => []ImportsTypeOK
  <1>1. ImportAccounted => RunTypeOK /\ (IbabsTypeOK \/ NotubizTypeOK \/ SiteTypeOK)
    BY AccountedImportsLoseNothing
  <1>2. TranscriptInvariant => TranscriptTypeOK BY TranscriptFollows
  <1>3. LinksInvariant => LinksTypeOK BY LinksFollow
  <1>4. MaterialInvariant => MaterializeTypeOK BY DEF MaterialInvariant
  <1>5. (/\ TypeOK /\ RemovalsTypeOK /\ MaterializeTypeOK /\ SchedulerTypeOK /\ BreakerTypeOK
         /\ RunTypeOK /\ (IbabsTypeOK \/ NotubizTypeOK \/ SiteTypeOK)
         /\ TranscriptTypeOK /\ ClientTypeOK /\ LinksTypeOK /\ BackfillTypeOK)
           => ImportsTypeOK
    BY DEF ImportsTypeOK
  <1>6. ImportsSpec => [](TypeOK /\ RemovalsTypeOK /\ MaterializeTypeOK)
    BY <1>4, QueueIsAPart, Typing, RemovalsAreAPart, RemovalsAreBounded, RemovalsHaveTypes,
       MaterialIsAPart, MaterialIsSound, PTL
  <1>7. ImportsSpec => [](SchedulerTypeOK /\ BreakerTypeOK /\ ClientTypeOK)
    BY SchedulerIsAPart, SchedulerHasTypes, BreakerIsAPart, BreakerHasTypes,
       ClientIsAPart, ClientHasTypes, PTL
  <1>8. ImportsSpec => [](RunTypeOK /\ (IbabsTypeOK \/ NotubizTypeOK \/ SiteTypeOK))
    BY <1>1, ImportsAreAccounted, PTL
  <1>9. ImportsSpec => [](TranscriptTypeOK /\ LinksTypeOK)
    BY <1>2, <1>3, TranscriptIsAPart, TranscriptIsSound, LinksIsAPart, MotionsFind, PTL
  <1>10. ImportsSpec => []BackfillTypeOK BY BackfillIsAPart, BackfillTypes, PTL
  <1> QED BY <1>5, <1>6, <1>7, <1>8, <1>9, <1>10, PTL
=============================================================================
