-------------------------------- MODULE PdfView --------------------------------
(***************************************************************************)
(* The view of a PDF (web/src/PdfDocumentView.svelte): it asks for the     *)
(* image of the page that is read and of its neighbours, and drops those   *)
(* far from it. Requests are answered in any order, may fail, are aborted  *)
(* when their page is dropped or the address changes, and put what they    *)
(* bring under their page number in whatever map is there by then.         *)
(*                                                                         *)
(* A motion has no PDF of its own: its first address answers nothing, and  *)
(* the address of its attachment takes its place when that is known. The   *)
(* length of the document comes with the first page that does.             *)
(***************************************************************************)
EXTENDS Integers, FiniteSets

CONSTANTS PdfLength,    (* pages of the document                           *)
          AskedPages,   (* the pages readers come for: initialPage         *)
          FetchBehind, FetchAhead,   (* PAGE_FETCH_BEHIND, PAGE_FETCH_AHEAD*)
          CacheBuffer,  (* PAGE_CACHE_BUFFER                               *)
          MaxPageRequests   (* bound                                       *)

ASSUME PdfViewAssumption ==
    /\ PdfLength \in Nat \ {0} /\ AskedPages \subseteq Nat \ {0}
    /\ FetchBehind \in Nat /\ FetchAhead \in Nat /\ CacheBuffer \in Nat
    /\ FetchBehind <= CacheBuffer /\ FetchAhead <= CacheBuffer
    /\ MaxPageRequests \in Nat

VARIABLES
    pdfAddress,     (* the address shown: "none", "motion" or "document"   *)
    initialPage,
    pageCount,      (* 0 until it is known                                 *)
    pageEntries,    (* of each page: nothing, loading, an image, an error, *)
                    (* and of which address                                   *)
    controllers,    (* abortControllers: the request of each page, or 0    *)
    pendingCenter,  (* pendingCenterPage, 0 for none                       *)
    activePage,
    pageRequests    (* every request so far                                *)

pdfViewVars == <<pdfAddress, initialPage, pageCount, pageEntries, controllers,
                 pendingCenter, activePage, pageRequests>>

Larger(a, b) == IF a > b THEN a ELSE b
Smaller(a, b) == IF a < b THEN a ELSE b
AllPages == (1 .. PdfLength) \cup AskedPages
NoEntry == [state |-> "nothing", of |-> "none"]
NoEntries == [p \in AllPages |-> NoEntry]
NoControllers == [p \in AllPages |-> 0]
RequestIds == 1 .. MaxPageRequests

PdfViewTypeOK ==
    /\ pdfAddress \in {"none", "motion", "document"} /\ initialPage \in AskedPages
    /\ pageCount \in {0, PdfLength}
    /\ \A p \in AllPages :
          /\ pageEntries[p].state \in {"nothing", "loading", "image", "error"}
          /\ controllers[p] \in 0 .. MaxPageRequests
    /\ pendingCenter \in {0} \cup AskedPages /\ activePage \in {0} \cup AllPages
    /\ DOMAIN pageRequests \subseteq RequestIds
    /\ \A i \in DOMAIN pageRequests :
          pageRequests[i].step \in {"fetching", "decoding", "ended"}

PdfViewInit ==
    /\ pdfAddress = "none" /\ initialPage \in AskedPages
    /\ pageCount = 0 /\ pageEntries = NoEntries /\ controllers = NoControllers
    /\ pendingCenter = 0 /\ activePage = 0
    /\ pageRequests = [i \in {} |-> 0]
-----------------------------------------------------------------------------
(* pageLookahead() and pageCacheRange(). Before the length is known, one   *)
(* page only. Mutant: as if it were known.                                 *)
Around(p, behind, ahead) == Larger(1, p - behind) .. Smaller(PdfLength, p + ahead)
LookaheadUnknown(p, count) == Larger(1, p - FetchBehind) .. p + FetchAhead
Lookahead(p, count) ==
    IF count = 0 THEN {p} ELSE Around(Smaller(p, count), FetchBehind, FetchAhead)
CacheRange(p, count) ==
    IF count = 0 THEN Larger(1, p - CacheBuffer) .. p + CacheBuffer
    ELSE Around(Smaller(p, count), CacheBuffer, CacheBuffer)

(* A view of the pages, for what one event does to it in turn.             *)
View(entries, held, requests) ==
    [entries |-> entries, held |-> held, requests |-> requests]
Now == View(pageEntries, controllers, pageRequests)

(* warmPages(): what is not there and not asked for is asked for.          *)
Missing(v, wanted) ==
    { p \in wanted \cap AllPages :
        v.held[p] = 0 /\ v.entries[p].state \notin {"image", "loading"} }
Numbered(v, p, wanted) ==
    Cardinality(DOMAIN v.requests) + Cardinality({ q \in Missing(v, wanted) : q <= p })
Warmed(v, wanted, of) ==
    LET asked == Missing(v, wanted)
        new == { Numbered(v, p, wanted) : p \in asked }
    IN  View([p \in AllPages |-> IF p \in asked THEN [state |-> "loading", of |-> of]
                                 ELSE v.entries[p]],
             [p \in AllPages |-> IF p \in asked THEN Numbered(v, p, wanted)
                                 ELSE v.held[p]],
             [i \in DOMAIN v.requests \cup new |->
                 IF i \in new
                 THEN [page |-> CHOOSE p \in asked : Numbered(v, p, wanted) = i,
                       of |-> of, step |-> "fetching", aborted |-> FALSE]
                 ELSE v.requests[i]])

(* The requests that are still held are aborted.                           *)
Aborted(requests, held, pages) ==
    [i \in DOMAIN requests |->
        IF \E p \in pages : held[p] = i THEN [requests[i] EXCEPT !.aborted = TRUE]
        ELSE requests[i]]

(* trimPageCache()                                                         *)
Trimmed(v, center, count, pending) ==
    LET dropped == { p \in AllPages : /\ v.entries[p] # NoEntry /\ p # pending
                                      /\ p \notin CacheRange(center, count) }
    IN  View([p \in AllPages |-> IF p \in dropped THEN NoEntry ELSE v.entries[p]],
             [p \in AllPages |-> IF p \in dropped THEN 0 ELSE v.held[p]],
             Aborted(v.requests, v.held, dropped))

(* ensurePageVisible(), and what a scroll does.                            *)
Visible(v, p, count, pending, of) ==
    Trimmed(Warmed(v, Lookahead(p, count), of), p, count, pending)

Becomes(v) ==
    /\ pageEntries' = v.entries /\ controllers' = v.held /\ pageRequests' = v.requests
    /\ Cardinality(DOMAIN v.requests) <= MaxPageRequests

Target(count) == IF count = 0 THEN initialPage ELSE Smaller(count, initialPage)

(* initialize(). Mutant: what is under way goes on.                        *)
AllGoOn(requests, held) == requests
AbortAll(requests, held) == Aborted(requests, held, AllPages)

ChangeAddress(to) ==
    /\ to # pdfAddress /\ (to = "motion" => pdfAddress = "none")
    /\ pdfAddress' = to
    /\ pageCount' = 0 /\ pendingCenter' = Target(0) /\ activePage' = Target(0)
    /\ Becomes(Visible(View(NoEntries, NoControllers,
                            AbortAll(pageRequests, controllers)),
                       Target(0), 0, Target(0), to))
    /\ UNCHANGED initialPage
-----------------------------------------------------------------------------
PageEnded(v, i) ==
    View(v.entries, [v.held EXCEPT ![v.requests[i].page] = 0],
         [v.requests EXCEPT ![i].step = "ended"])
Put(v, i, state) ==
    View([v.entries EXCEPT ![v.requests[i].page] =
              [state |-> state, of |-> v.requests[i].of]], v.held, v.requests)
Underway(i) == i \in DOMAIN pageRequests /\ pageRequests[i].step # "ended"

(* An aborted request leaves, and takes the controller of its page along,  *)
(* whosever it is by then.                                                 *)
AbortedRequestEnds(i) ==
    /\ Underway(i) /\ pageRequests[i].aborted
    /\ Becomes(PageEnded(Now, i))
    /\ UNCHANGED <<pdfAddress, initialPage, pageCount, pendingCenter, activePage>>

PageRequestFails(i) ==
    /\ Underway(i) /\ ~pageRequests[i].aborted
    /\ Becomes(PageEnded(Put(Now, i, "error"), i))
    /\ UNCHANGED <<pdfAddress, initialPage, pageCount, pendingCenter, activePage>>

(* The first answer brings the length, unless the server does not know it, *)
(* and the page asked for is made visible once it is known.                *)
PageAnswered(i, counted) ==
    /\ Underway(i) /\ ~pageRequests[i].aborted
    /\ pageRequests[i].step = "fetching"
    /\ pageRequests[i].of = "document" /\ pageRequests[i].page <= PdfLength
    /\ LET decoding == View(pageEntries, controllers,
                            [pageRequests EXCEPT ![i].step = "decoding"])
           first == pageCount = 0 /\ counted
           target == Target(PdfLength)
       IN  /\ pageCount' = IF first THEN PdfLength ELSE pageCount
           /\ activePage' = IF first THEN target ELSE activePage
           /\ IF first /\ target # activePage
              THEN Becomes(Visible(decoding, target, PdfLength, pendingCenter,
                                   pdfAddress))
              ELSE IF first
              THEN Becomes(Warmed(decoding, Lookahead(target, PdfLength), pdfAddress))
              ELSE Becomes(decoding)
    /\ UNCHANGED <<pdfAddress, initialPage, pendingCenter>>

(* The image is decoded; an abort by then comes too late.                  *)
PageDecoded(i) ==
    /\ Underway(i) /\ pageRequests[i].step = "decoding"
    /\ Becomes(PageEnded(Put(Now, i, "image"), i))
    /\ UNCHANGED <<pdfAddress, initialPage, pageCount, pendingCenter, activePage>>

(* recenterOnLoadedPage()                                                  *)
ImageLoads(p) ==
    /\ p = pendingCenter /\ pageEntries[p].state = "image"
    /\ pendingCenter' = 0 /\ activePage' = p
    /\ Becomes(Visible(Now, p, pageCount, 0, pdfAddress))
    /\ UNCHANGED <<pdfAddress, initialPage, pageCount>>

(* checkScrollPrefetch()                                                   *)
ScrollTo(p) ==
    /\ pendingCenter = 0 /\ p \in 1 .. pageCount /\ p # activePage
    /\ activePage' = p
    /\ Becomes(Visible(Now, p, pageCount, 0, pdfAddress))
    /\ UNCHANGED <<pdfAddress, initialPage, pageCount, pendingCenter>>

(* Another page is asked for from outside.                                 *)
JumpTo(p) ==
    /\ p # initialPage /\ initialPage' = p
    /\ IF pdfAddress # "none" /\ pageCount > 0
       THEN LET target == Smaller(pageCount, p) IN
            /\ activePage' = target
            /\ Becomes(IF target = activePage
                       THEN Warmed(Now, Lookahead(target, pageCount), pdfAddress)
                       ELSE Visible(Now, target, pageCount, pendingCenter, pdfAddress))
       ELSE UNCHANGED <<activePage, pageEntries, controllers, pageRequests>>
    /\ UNCHANGED <<pdfAddress, pageCount, pendingCenter>>

PdfViewNext ==
    \/ \E to \in {"motion", "document"} : ChangeAddress(to)
    \/ \E i \in RequestIds :
          \/ AbortedRequestEnds(i) \/ PageRequestFails(i) \/ PageDecoded(i)
          \/ \E counted \in BOOLEAN : PageAnswered(i, counted)
    \/ \E p \in AllPages : ImageLoads(p) \/ ScrollTo(p)
    \/ \E p \in AskedPages : JumpTo(p)

PdfViewSpec == PdfViewInit /\ [][PdfViewNext]_pdfViewVars
-----------------------------------------------------------------------------
(* The page that is read is there, on its way or known to have failed,     *)
(* and so is what lies around it once the length is known; what is shown   *)
(* is of the document the view is at; and no page beyond the end is asked  *)
(* for but the one the reader came for.                                    *)
ReadPageIsThere ==
    /\ activePage # 0 => pageEntries[activePage].state # "nothing"
    /\ \A p \in AllPages : pageEntries[p] # NoEntry => pageEntries[p].of = pdfAddress
    /\ \A i \in DOMAIN pageRequests : pageRequests[i].page > PdfLength =>
          \A j \in DOMAIN pageRequests :
              j # i /\ pageRequests[j].of = pageRequests[i].of =>
                  pageRequests[j].page <= PdfLength
=============================================================================
