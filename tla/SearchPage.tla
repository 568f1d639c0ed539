------------------------------ MODULE SearchPage ------------------------------
(***************************************************************************)
(* The public search page (web/src/App.svelte): what the reader types and  *)
(* clicks, the address bar, the searches, further pages and details that   *)
(* are under way, and what is on screen. Answers arrive in any order.      *)
(*                                                                         *)
(* A filter setting is one value: a query of Queries, a query of one       *)
(* letter ("short"), a type or a period alone ("few"), or "none". Page n   *)
(* of a search s holds one result, <<s, n>>.                               *)
(***************************************************************************)
EXTENDS Integers, Sequences, FiniteSets

CONSTANTS Queries,      (* queries worth searching for                     *)
          Pages,        (* pages each search has                           *)
          NoItem,       (* no result: nothing open                         *)
          Elsewhere,    (* an entity that is in no search's results        *)
          MaxSearches,  (* bound: searches                                 *)
          MaxDetails    (* bound: details under way                        *)

ASSUME SearchPageAssumption ==
    /\ Pages \in Nat \ {0} /\ MaxSearches \in Nat /\ MaxDetails \in Nat
    /\ Queries \cap {"short", "few", "none"} = {}

VARIABLES
    form,        (* the filters on the page and the entity in view         *)
    address,     (* the same, in the address bar                           *)
    debounce,    (* a search is due 300 ms after the last keystroke        *)
    searched,    (* the page shows results rather than the home page       *)
    loading, loadingMore, hasMore,
    active,      (* activeSearchSignature                                  *)
    nextPage,    (* nextSearchOffset                                       *)
    results,
    detail,      (* the open detail, and whose content it shows            *)
    requestId,   (* searchRequestId                                        *)
    pending      (* calls under way                                        *)

pageVars == <<form, address, debounce, searched, loading, loadingMore, hasMore,
              active, nextPage, results, detail, requestId, pending>>
list == <<hasMore, active, nextPage, results>>

Searchable == Queries \cup {"short"}
Filters == Searchable \cup {"few", "none"}
Items == (Searchable \X (1 .. Pages)) \cup {Elsewhere}
Route == [filters: Filters, view: Items \cup {NoItem}]
Closed == [item |-> NoItem, content |-> NoItem]

Search(id, s) == [kind |-> "search", id |-> id, for |-> s]
More(id, s, page, from) ==
    [kind |-> "more", id |-> id, for |-> s, page |-> page, openAfter |-> from]
(* id: the search that awaits the detail, 0 for a click.                   *)
Open(id, item) == [kind |-> "open", id |-> id, for |-> item]
ById(id, item) == [kind |-> "byId", id |-> id, for |-> item]

Details == { r \in pending : r.kind \in {"open", "byId"} }
Fetches == { r \in pending : r.kind = "search" }

PageTypeOK ==
    /\ form \in Route /\ address \in Route
    /\ debounce \in BOOLEAN /\ searched \in BOOLEAN
    /\ loading \in BOOLEAN /\ loadingMore \in BOOLEAN /\ hasMore \in BOOLEAN
    /\ active \in Filters
    /\ nextPage \in 2 .. Pages + 1
    /\ results \in UNION { [1 .. n -> Items] : n \in 0 .. Pages }
    /\ detail \in [item: Items \cup {NoItem}, content: Items \cup {NoItem}]
    /\ requestId \in 0 .. MaxSearches
    /\ \A r \in pending : r.id \in 0 .. requestId /\ r.for \in Searchable \cup Items

PageInit ==
    /\ form = [filters |-> "none", view |-> NoItem]
    /\ address = form
    /\ debounce = FALSE
    /\ searched = FALSE
    /\ loading = FALSE /\ loadingMore = FALSE /\ hasMore = FALSE
    /\ active = "none"
    /\ nextPage = 2
    /\ results = <<>>
    /\ detail = Closed
    /\ requestId = 0
    /\ pending = {}
-----------------------------------------------------------------------------
EmptyList(signature) ==
    /\ results' = <<>>
    /\ hasMore' = FALSE
    /\ active' = signature

(* searchAbortController.abort(): the search ends, and with it its spinner *)
(* unless it already waits for a detail. Mutant: the spinner stays.        *)
AbortKeepingSpinner ==
    /\ pending' = pending \ Fetches
    /\ UNCHANGED <<requestId, loading, loadingMore>>

Abort ==
    /\ pending' = pending \ Fetches
    /\ loading' = (loading /\ \A r \in Fetches : r.id # requestId)
    /\ UNCHANGED <<requestId, loadingMore>>

(* runSearch() for the filters and the view of route, on a page that shows *)
(* results or not.                                                         *)
RunSearch(route, shown) ==
    /\ form' = route
    /\ address' = route
    /\ \/ /\ route.filters = "none"
          /\ Abort
          /\ searched' = FALSE
          /\ EmptyList("none")
          /\ nextPage' = 2
          /\ detail' = Closed
       \/ /\ route.filters = "few"
          /\ Abort
          /\ searched' = TRUE
          /\ EmptyList("few")
          /\ UNCHANGED <<nextPage, detail>>
       \/ /\ route.filters \in Searchable
          /\ requestId < MaxSearches
          /\ requestId' = requestId + 1
          /\ pending' = (pending \ Fetches) \cup {Search(requestId + 1, route.filters)}
          /\ loading' = TRUE
          /\ loadingMore' = FALSE
          /\ active' = route.filters
          /\ searched' = shown
          /\ UNCHANGED <<hasMore, nextPage, results, detail>>

To(filters) == [form EXCEPT !.filters = filters]

(* onQueryInput()                                                          *)
Type ==
    \E f \in Filters \ {form.filters} :
       \/ /\ ~searched
          /\ form' = To(f)
          /\ UNCHANGED <<address, debounce, searched, loading, loadingMore, list,
                         detail, requestId, pending>>
       \/ /\ searched /\ f \in {"none", "few"}
          /\ RunSearch(To(f), searched)
          /\ UNCHANGED debounce
       \/ /\ searched /\ f = "short"
          /\ form' = To(f)
          /\ pending' = pending \ Fetches
          /\ loading' = FALSE /\ loadingMore' = FALSE
          /\ EmptyList("none")
          /\ nextPage' = 2
          /\ UNCHANGED <<address, debounce, searched, detail, requestId>>
       \/ /\ searched /\ f \in Queries
          /\ form' = To(f)
          /\ debounce' = TRUE
          /\ UNCHANGED <<address, searched, loading, loadingMore, list,
                         detail, requestId, pending>>

DebounceFires ==
    /\ debounce
    /\ debounce' = FALSE
    /\ RunSearch(form, searched)

(* onQuerySearch(): Enter, or a filter chosen on the home page.            *)
Submit ==
    /\ searched \/ form.filters # "none"
    /\ RunSearch(form, TRUE)
    /\ UNCHANGED debounce

(* onFilterChange()                                                        *)
ChangeFilter ==
    /\ searched
    /\ debounce' = FALSE
    /\ \E f \in Filters : RunSearch(To(f), searched)

(* clearToHome()                                                           *)
Home ==
    /\ form' = [filters |-> "none", view |-> NoItem]
    /\ address' = form'
    /\ searched' = FALSE
    /\ results' = <<>>
    /\ nextPage' = 2
    /\ detail' = Closed
    /\ UNCHANGED <<debounce, loading, loadingMore, hasMore, active, requestId, pending>>

(* syncFromUrl(), on arrival at an address and on back and forward.        *)
Links == { route \in Route : \/ route.view \in {NoItem, Elsewhere}
                             \/ route.view[1] = route.filters }

FollowAddress ==
    \E route \in Links :
       /\ IF route.filters = "none" /\ route.view = NoItem
          THEN /\ form' = route
               /\ address' = route
               /\ searched' = FALSE
               /\ EmptyList("none")
               /\ nextPage' = 2
               /\ detail' = Closed
               /\ UNCHANGED <<loading, loadingMore, requestId, pending>>
          ELSE RunSearch(route, TRUE)
       /\ UNCHANGED debounce
-----------------------------------------------------------------------------
Listed == { results[i] : i \in DOMAIN results }

Done(r) == pending' = pending \ {r}

(* The finally of runSearch(): the spinner of a newer search is not its to *)
(* stop.                                                                   *)
EndOfSearch(id) == loading' = (loading /\ id # requestId)

SearchArrives ==
    \E r \in Fetches :
       /\ results' = <<<<r.for, 1>>>>
       /\ hasMore' = (Pages > 1)
       /\ nextPage' = 2
       /\ IF form.view = NoItem
          THEN /\ detail' = Closed
               /\ EndOfSearch(r.id)
               /\ Done(r)
          ELSE IF form.view = <<r.for, 1>>
          THEN /\ detail' = [item |-> form.view, content |-> NoItem]
               /\ pending' = (pending \ {r}) \cup {Open(r.id, form.view)}
               /\ UNCHANGED loading
          ELSE /\ pending' = (pending \ {r}) \cup {ById(r.id, form.view)}
               /\ UNCHANGED <<detail, loading>>
       /\ UNCHANGED <<form, address, debounce, searched, loadingMore, active, requestId>>

SearchFails ==
    \E r \in Fetches :
       /\ results' = <<>>
       /\ hasMore' = FALSE
       /\ nextPage' = 2
       /\ EndOfSearch(r.id)
       /\ Done(r)
       /\ UNCHANGED <<form, address, debounce, searched, loadingMore, active, detail, requestId>>

(* loadMoreResults(), when the end of the list scrolls into view, or from  *)
(* navigateDetail() past the last result, which then opens what came.      *)
LoadMore ==
    /\ searched /\ ~loading /\ ~loadingMore /\ hasMore
    /\ form.filters = active
    /\ loadingMore' = TRUE
    /\ \E from \in {0} \cup (IF results # <<>> /\ detail.item = results[Len(results)]
                             THEN {Len(results)} ELSE {}) :
          pending' = pending \cup {More(requestId, active, nextPage, from)}
    /\ UNCHANGED <<form, address, debounce, searched, loading, list, detail, requestId>>

(* Mutant of Accepts: only the signature of the search is compared.        *)
AcceptsSameSignature(r) == r.for = active
Accepts(r) == r.id = requestId /\ r.for = active

OpenItem(item, others) ==
    /\ detail' = [item |-> item, content |-> NoItem]
    /\ form' = [form EXCEPT !.view = item]
    /\ address' = IF form.view = item THEN address ELSE form'
    /\ pending' = others \cup {Open(0, item)}

MoreArrives ==
    \E r \in { m \in pending : m.kind = "more" } :
       LET fresh == IF <<r.for, r.page>> \in Listed THEN <<>> ELSE <<<<r.for, r.page>>>>
       IN  /\ IF Accepts(r)
              THEN /\ results' = results \o fresh
                   /\ nextPage' = r.page + 1
                   /\ hasMore' = (fresh # <<>> /\ r.page < Pages)
              ELSE UNCHANGED <<results, nextPage, hasMore>>
           /\ loadingMore' = (loadingMore /\ r.id # requestId)
           /\ IF r.openAfter > 0 /\ Len(results') > r.openAfter
              THEN OpenItem(results'[r.openAfter + 1], pending \ {r})
              ELSE Done(r) /\ UNCHANGED <<form, address, detail>>
           /\ UNCHANGED <<debounce, searched, loading, active, requestId>>

MoreFails ==
    \E r \in { m \in pending : m.kind = "more" } :
       /\ loadingMore' = (loadingMore /\ r.id # requestId)
       /\ Done(r)
       /\ UNCHANGED <<form, address, debounce, searched, loading, list, detail, requestId>>
-----------------------------------------------------------------------------
(* The detail: a result, or a document linked from an open detail.         *)
OpenDetail ==
    /\ searched
    /\ Cardinality(Details) < MaxDetails
    /\ \E item \in Listed : OpenItem(item, pending)
    /\ UNCHANGED <<debounce, searched, loading, loadingMore, list, requestId>>

OpenDetailById ==
    /\ detail.item # NoItem
    /\ Cardinality(Details) < MaxDetails
    /\ pending' = pending \cup {ById(0, Elsewhere)}
    /\ UNCHANGED <<form, address, debounce, searched, loading, loadingMore, list,
                   detail, requestId>>

CloseDetail ==
    /\ detail.item # NoItem
    /\ detail' = Closed
    /\ form' = [form EXCEPT !.view = NoItem]
    /\ address' = IF form.view = NoItem THEN address ELSE form'
    /\ UNCHANGED <<debounce, searched, loading, loadingMore, list, requestId, pending>>

Superseded(view, item) == view # NoItem /\ view # item

DetailArrives ==
    \E r \in Details :
       /\ \/ /\ r.kind = "open"
             /\ detail' = IF Superseded(form.view, r.for) THEN detail
                          ELSE [detail EXCEPT !.content = r.for]
             /\ UNCHANGED <<form, address>>
          \/ /\ r.kind = "byId"
             /\ form' = IF r.id = 0 THEN [form EXCEPT !.view = r.for] ELSE form
             /\ address' = IF form' = form THEN address ELSE form'
             /\ detail' = [item |-> r.for, content |->
                             IF Superseded(form'.view, r.for) THEN NoItem ELSE r.for]
          \/ /\ r.kind = "byId"
             /\ detail' = Closed
             /\ UNCHANGED <<form, address>>
       /\ IF r.id = 0 THEN UNCHANGED loading ELSE EndOfSearch(r.id)
       /\ Done(r)
       /\ UNCHANGED <<debounce, searched, loadingMore, list, requestId>>

(* A detail that fails under runSearch() counts as a failed search.        *)
DetailFails ==
    \E r \in Details :
       /\ IF r.id # 0 /\ r.id = requestId
          THEN /\ results' = <<>>
               /\ hasMore' = FALSE
               /\ nextPage' = 2
               /\ EndOfSearch(r.id)
          ELSE UNCHANGED <<results, hasMore, nextPage, loading>>
       /\ Done(r)
       /\ UNCHANGED <<form, address, debounce, searched, loadingMore, active, detail, requestId>>
-----------------------------------------------------------------------------
PageNext ==
    \/ Type \/ DebounceFires \/ Submit \/ ChangeFilter \/ Home \/ FollowAddress
    \/ SearchArrives \/ SearchFails \/ LoadMore \/ MoreArrives \/ MoreFails
    \/ OpenDetail \/ OpenDetailById \/ CloseDetail \/ DetailArrives \/ DetailFails

PageSpec == PageInit /\ [][PageNext]_pageVars
-----------------------------------------------------------------------------
(* Whatever the order in which answers come in, the list on screen is the  *)
(* first pages, in order, of one search: the one the address bar names.    *)
ResultsAreOfTheAddress ==
    searched /\ ~loading /\ ~debounce /\ results # <<>> =>
        /\ active = address.filters
        /\ \A i \in DOMAIN results : results[i] = <<active, i>>

(* The page never shows a spinner for a call that is no longer under way.  *)
SpinnersEnd ==
    /\ loading => \E r \in pending : r.id = requestId /\ r.kind # "more"
    /\ loadingMore => \E r \in pending : r.id = requestId /\ r.kind = "more"

(* "Every meeting and document has an address of its own": once everything *)
(* has arrived, the page at an address that names only an entity shows it. *)
AddressOpensItsEntity ==
    address.filters = "none" /\ address.view # NoItem /\ pending = {}
        => detail.item = address.view
=============================================================================
