------------------------------- MODULE MCService -------------------------------
(***************************************************************************)
(* The components of the service side, checked in one run. They share no   *)
(* variable: the initial state picks a component, only that one moves, and *)
(* the others rest in one initial state, so the states add up.             *)
(***************************************************************************)
EXTENDS OpsJobs, Takedown, SearchPage, SearchWindow, Admission, PageImages,
        EntityDetail, PdfView, RecordingPlayer

CONSTANTS w1, w2, q1, c1, c2, x1, x2, x3, t1, t2, t3

VARIABLE component

TwoJobs == {1, 2}
TwoWorkers == {w1, w2}
OneQuery == {q1}
TwoClients == {c1, c2}
ThreeResults == {x1, x2, x3}
OneAsker == {1}
SomePages == {2, 4}
TwoEach == [read \in Reads |-> 2]

(* One term is said twice in one segment, one once in another, one never.  *)
ThreeTerms == {t1, t2, t3}
SomeHits ==
    [t \in ThreeTerms |-> CASE t = t1 -> <<0, 2>> [] t = t2 -> <<1,
                                           0>> [] OTHER -> <<0, 0>>]

ServiceInit ==
    /\ component \in {"jobs", "takedown", "page", "window", "admission", "images",
                     "detail", "pdf", "player"}
    /\ Init
    /\ TakedownInit
    /\ PageInit
    /\ WindowInit
    /\ component # "window" => index = <<>> /\ honest
    /\ AdmissionInit
    /\ PageImagesInit
    /\ component # "images" => lengths = [v \in 1 .. MaxVersion |-> DocPages]
    /\ EntityDetailInit
    /\ component # "detail" => objectsKept = {}
    /\ PdfViewInit
    /\ component # "pdf" => initialPage = 2
    /\ PlayerInit
    /\ component # "player" => medium = "file" /\ incoming = NoTerm

JobsStep ==
    /\ component = "jobs" /\ Next
    /\ UNCHANGED <<component, takedownVars, pageVars, windowVars, admissionVars,
                   pageImagesVars, entityDetailVars, pdfViewVars, playerVars>>

TakedownStep ==
    /\ component = "takedown" /\ TakedownNext
    /\ UNCHANGED <<component, opsVars, pageVars, windowVars, admissionVars,
                   pageImagesVars, entityDetailVars, pdfViewVars, playerVars>>

PageStep ==
    /\ component = "page" /\ PageNext
    /\ UNCHANGED <<component, opsVars, takedownVars, windowVars, admissionVars,
                   pageImagesVars, entityDetailVars, pdfViewVars, playerVars>>

WindowStep ==
    /\ component = "window" /\ WindowNext
    /\ UNCHANGED <<component, opsVars, takedownVars, pageVars, admissionVars,
                   pageImagesVars, entityDetailVars, pdfViewVars, playerVars>>

AdmissionStep ==
    /\ component = "admission" /\ AdmissionNext
    /\ UNCHANGED <<component, opsVars, takedownVars, pageVars, windowVars,
                   pageImagesVars, entityDetailVars, pdfViewVars, playerVars>>

PageImagesStep ==
    /\ component = "images" /\ PageImagesNext
    /\ UNCHANGED <<component, opsVars, takedownVars, pageVars, windowVars,
                   admissionVars, entityDetailVars, pdfViewVars, playerVars>>

EntityDetailStep ==
    /\ component = "detail" /\ EntityDetailNext
    /\ UNCHANGED <<component, opsVars, takedownVars, pageVars, windowVars,
                   admissionVars, pageImagesVars, pdfViewVars, playerVars>>

PdfViewStep ==
    /\ component = "pdf" /\ PdfViewNext
    /\ UNCHANGED <<component, opsVars, takedownVars, pageVars, windowVars,
                   admissionVars, pageImagesVars, entityDetailVars, playerVars>>

PlayerStep ==
    /\ component = "player" /\ PlayerNext
    /\ UNCHANGED <<component, opsVars, takedownVars, pageVars, windowVars,
                   admissionVars, pageImagesVars, entityDetailVars, pdfViewVars>>

ServiceNext ==
    \/ JobsStep \/ TakedownStep \/ PageStep \/ WindowStep \/ AdmissionStep
    \/ PageImagesStep \/ EntityDetailStep \/ PdfViewStep \/ PlayerStep

serviceVars ==
    <<component, opsVars, takedownVars, pageVars, windowVars, admissionVars,
      pageImagesVars, entityDetailVars, pdfViewVars, playerVars>>

ServiceSpec == ServiceInit /\ [][ServiceNext]_serviceVars

(* The variables of the component that moves keep their types (those of    *)
(* the job table: TypeOK).                                                 *)
ServiceTypeOK ==
    /\ component = "takedown" => TakedownTypeOK
    /\ component = "page" => PageTypeOK
    /\ component = "window" => WindowTypeOK
    /\ component = "admission" => AdmissionTypeOK
    /\ component = "images" => PageImagesTypeOK
    /\ component = "detail" => EntityDetailTypeOK
    /\ component = "pdf" => PdfViewTypeOK
    /\ component = "player" => PlayerTypeOK

(* What the reader sees is what the address bar says, and no spinner is    *)
(* left turning; what a page of an entity shows was there while it was put *)
(* together and what it misses was not; the pages of a PDF around the one  *)
(* that is read are there or on their way, of the document that is shown;  *)
(* and a recording is where the last jump asked for it to be.              *)
ScreensAreTrue ==
    /\ component = "page" => ResultsAreOfTheAddress /\ SpinnersEnd
    /\ component = "detail" => DetailIsTrue
    /\ component = "pdf" => ReadPageIsThere
    /\ component = "player" => JumpsLand

(* What a takedown removed is gone, the images of its pages included.       *)
NothingTakenDownIsLeft ==
    /\ component = "takedown" => TakenDownIsGone
    /\ component = "images" => ImagesFollowTheDocument

(* However the batches fall, the pages one after the other are the results *)
(* in order, and "no more" comes only when all of them were shown.         *)
PagesAreWhole == component = "window" => PagesAreTheResultsInOrder /\ NoMoreMeansAllShown
=============================================================================
