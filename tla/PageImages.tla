------------------------------ MODULE PageImages ------------------------------
(***************************************************************************)
(* The images of a document's pages: rendered when a reader asks for one   *)
(* (web/server.ts), rendered ahead for the first page by an import         *)
(* (src/documents/process.ts), kept in object storage for ever and served  *)
(* from there without another look at the index, and cleared by a takedown *)
(* (src/ops/delete_document.ts).                                           *)
(*                                                                         *)
(* One document. Its versions are numbered; 0 stands for none, of an image *)
(* for one that is not stored.                                             *)
(***************************************************************************)
EXTENDS Integers, FiniteSets

CONSTANTS PageAskers,     (* requests for a page                           *)
          DocPages,       (* pages a version may have                      *)
          MaxVersion      (* bound                                         *)

ASSUME PageImagesAssumption == DocPages \in Nat \ {0} /\ MaxVersion \in Nat \ {0}

VARIABLES
    listedAs,     (* the version the index shows                           *)
    latest,       (* the latest version                                    *)
    lengths,      (* how many pages each version has                       *)
    images,       (* pdf-pages-v4/<id>/<page>.jpg                          *)
    imageCount,   (* pdf-pages-v2/<id>/meta.json: the count it holds       *)
    pdfInMemory,  (* pdfFetchCache                                         *)
    asker,        (* what each request is doing                            *)
    prewarm,      (* what the import is doing                              *)
    clearing,     (* what the takedown is doing                            *)
    overlapped    (* history: which of a render and an import overlapped   *)
                  (* the takedown                                          *)

pageImagesVars ==
    <<listedAs, latest, lengths, images, imageCount, pdfInMemory, asker, prewarm,
      clearing,
      overlapped>>
documentVars == <<listedAs, latest, lengths>>

PageNumbers == 1 .. DocPages
Versions == 0 .. MaxVersion
NotAsking == [step |-> "idle", page |-> 1, version |-> 0]
Answers == {"idle", "given", "not_found", "no_page", "failed"}

PageImagesTypeOK ==
    /\ listedAs \in Versions /\ latest \in Versions
    /\ lengths \in [1 .. MaxVersion -> PageNumbers]
    /\ images \in [PageNumbers -> Versions]
    /\ imageCount \in 0 .. DocPages /\ pdfInMemory \in Versions
    /\ asker \in [PageAskers ->
          [step: Answers \cup {"look_up", "fetch", "render", "put", "put_count"},
           page: PageNumbers, version: Versions]]
    /\ prewarm \in [step: {"idle", "render", "put_count"}, version: Versions]
    /\ clearing \in {"none", "marked", "images_gone", "done"}
    /\ overlapped \subseteq {"render", "import"}

PageImagesInit ==
    /\ listedAs = 0 /\ latest = 0
    /\ lengths \in [1 .. MaxVersion -> PageNumbers]
    /\ images = [p \in PageNumbers |-> 0] /\ imageCount = 0 /\ pdfInMemory = 0
    /\ asker = [a \in PageAskers |-> NotAsking]
    /\ prewarm = [step |-> "idle", version |-> 0]
    /\ clearing = "none" /\ overlapped = {}
-----------------------------------------------------------------------------
(* An import materializes a new version, renders its first page unless an  *)
(* image of it is there, and then indexes it. Rendering and storing may    *)
(* fail, which the import passes over. A document whose takedown is done   *)
(* is on the blocklist.                                                    *)
BeginPrewarm ==
    /\ prewarm.step = "idle" /\ latest < MaxVersion /\ clearing # "done"
    /\ latest' = latest + 1
    /\ prewarm' = [step |-> IF images[1] = 0 THEN "render" ELSE "idle",
                   version |-> latest + 1]
    /\ overlapped' = overlapped \cup IF clearing = "none" THEN {} ELSE {"import"}
    /\ UNCHANGED <<listedAs, lengths, images, imageCount, pdfInMemory, asker, clearing>>

StoreThumbnail ==
    /\ prewarm.step = "render"
    /\ images' = [images EXCEPT ![1] = prewarm.version]
    /\ prewarm' = [prewarm EXCEPT !.step = "put_count"]
    /\ UNCHANGED <<documentVars, imageCount, pdfInMemory, asker, clearing, overlapped>>

StoreThumbnailCount ==
    /\ prewarm.step = "put_count"
    /\ imageCount' = lengths[prewarm.version]
    /\ prewarm' = [prewarm EXCEPT !.step = "idle"]
    /\ UNCHANGED <<documentVars, images, pdfInMemory, asker, clearing, overlapped>>

PrewarmFails ==
    /\ prewarm.step # "idle"
    /\ prewarm' = [prewarm EXCEPT !.step = "idle"]
    /\ UNCHANGED <<documentVars, images, imageCount, pdfInMemory, asker, clearing,
                   overlapped>>

(* An import that would index it again after the markers is another matter *)
(* (Takedown).                                                             *)
IndexVersion ==
    /\ prewarm.step = "idle" /\ listedAs # prewarm.version /\ clearing = "none"
    /\ listedAs' = prewarm.version
    /\ UNCHANGED <<latest, lengths, images, imageCount, pdfInMemory, asker, prewarm,
                   clearing,
                   overlapped>>
-----------------------------------------------------------------------------
(* The request: the image that is stored is given whatever version it is   *)
(* of, and whether or not the index still lists the document.              *)
Busy(a) == asker[a].step \notin Answers
Rendering(a) == asker[a].step \in {"fetch", "render", "put", "put_count"}
GoOnWith(a, step) == asker' = [asker EXCEPT ![a].step = step]

AskPage(a, page) ==
    /\ ~Busy(a)
    /\ asker' = [asker EXCEPT ![a] =
           [page |-> page, version |-> images[page],
            step |-> IF images[page] # 0 THEN "given" ELSE "look_up"]]
    /\ UNCHANGED <<documentVars, images, imageCount, pdfInMemory, prewarm, clearing,
                   overlapped>>

(* getEntityPdfInfo()                                                      *)
LookUpPdf(a) ==
    /\ asker[a].step = "look_up"
    /\ asker' = [asker EXCEPT ![a].step = IF listedAs = 0 THEN "not_found" ELSE "fetch"]
    /\ UNCHANGED <<documentVars, images, imageCount, pdfInMemory, prewarm, clearing,
                   overlapped>>

(* cachedFetchPdf(): one fetch for all who ask within half a minute.       *)
FetchPdf(a) ==
    /\ asker[a].step = "fetch"
    /\ pdfInMemory' = IF pdfInMemory # 0 THEN pdfInMemory ELSE latest
    /\ asker' = [asker EXCEPT ![a].step = "render", ![a].version = pdfInMemory']
    /\ UNCHANGED <<documentVars, images, imageCount, prewarm, clearing, overlapped>>

ForgetPdf ==
    /\ pdfInMemory # 0 /\ pdfInMemory' = 0
    /\ UNCHANGED <<documentVars, images, imageCount, asker, prewarm, clearing,
                   overlapped>>

(* renderPdfPageJpeg() tells a page that is not there from one that cannot *)
(* be rendered. Mutant: it does not look at the length.                    *)
AnyPage(page, version) == TRUE
HasPage(page, version) == page <= lengths[version]

RenderPage(a) ==
    /\ asker[a].step = "render"
    /\ GoOnWith(a, IF HasPage(asker[a].page, asker[a].version)
                   THEN "put" ELSE "no_page")
    /\ UNCHANGED <<documentVars, images, imageCount, pdfInMemory, prewarm, clearing,
                   overlapped>>

StoreImage(a) ==
    /\ asker[a].step = "put"
    /\ images' = [images EXCEPT ![asker[a].page] = asker[a].version]
    /\ GoOnWith(a, "put_count")
    /\ UNCHANGED <<documentVars, imageCount, pdfInMemory, prewarm, clearing,
                   overlapped>>

StoreImageCount(a) ==
    /\ asker[a].step = "put_count"
    /\ imageCount' = lengths[asker[a].version]
    /\ GoOnWith(a, "given")
    /\ UNCHANGED <<documentVars, images, pdfInMemory, prewarm, clearing, overlapped>>

(* A page that was rendered but could not be stored is refused too.        *)
PageFails(a) ==
    /\ Busy(a)
    /\ GoOnWith(a, "failed")
    /\ UNCHANGED <<documentVars, images, imageCount, pdfInMemory, prewarm, clearing,
                   overlapped>>
-----------------------------------------------------------------------------
(* deleteOne(): the markers, the images, their count. Mutant: the count    *)
(* has a prefix of its own and is forgotten.                               *)
MarkDocument ==
    /\ clearing = "none" /\ listedAs # 0
    /\ clearing' = "marked" /\ listedAs' = 0
    /\ overlapped' = (IF prewarm.step = "idle" THEN {} ELSE {"import"}) \cup
                     (IF \E a \in PageAskers : Rendering(a) THEN {"render"} ELSE {})
    /\ UNCHANGED <<latest, lengths, images, imageCount, pdfInMemory, asker, prewarm>>

ClearImages ==
    /\ clearing = "marked" /\ clearing' = "images_gone"
    /\ images' = [p \in PageNumbers |-> 0]
    /\ UNCHANGED <<documentVars, imageCount, pdfInMemory, asker, prewarm, overlapped>>

CountKept == imageCount
CountCleared == 0
ClearCount ==
    /\ clearing = "images_gone" /\ clearing' = "done"
    /\ imageCount' = CountCleared
    /\ UNCHANGED <<documentVars, images, pdfInMemory, asker, prewarm, overlapped>>

PageImagesNext ==
    \/ BeginPrewarm \/ StoreThumbnail \/ StoreThumbnailCount \/ PrewarmFails
    \/ IndexVersion
    \/ ForgetPdf \/ MarkDocument \/ ClearImages \/ ClearCount
    \/ \E a \in PageAskers :
          \/ LookUpPdf(a) \/ FetchPdf(a) \/ RenderPage(a) \/ StoreImage(a)
          \/ StoreImageCount(a) \/ PageFails(a)
          \/ \E page \in PageNumbers : AskPage(a, page)

PageImagesSpec == PageImagesInit /\ [][PageImagesNext]_pageImagesVars
-----------------------------------------------------------------------------
(* A takedown that no render and no import overlapped leaves no image and  *)
(* no count behind; and an image that is stored is a page that the version *)
(* it was rendered from has.                                               *)
ImagesFollowTheDocument ==
    /\ \A p \in PageNumbers : images[p] # 0 => p <= lengths[images[p]]
    /\ clearing = "done" /\ overlapped = {} =>
          imageCount = 0 /\ \A p \in PageNumbers : images[p] = 0

(* src/ops/delete_document.ts: a takedown that no import overlapped deletes*)
(* every object under the prefixes of the document, the rendered pages     *)
(* among them.                                                             *)
ImagesAreTakenDown ==
    clearing = "done" /\ "import" \notin overlapped =>
        \A p \in PageNumbers : images[p] = 0
=============================================================================
