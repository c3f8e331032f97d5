----------------------------- MODULE WineSearch -----------------------------
(***************************************************************************)
(* The catalogue page (search_page.dart) and its WineSearchCubit. Requests *)
(* to the catalogue are in flight together and are answered in any order;  *)
(* no answer is matched with the query it is for. A wine is <<q, i>>, the  *)
(* i-th result of query q. WineSearchSuccess always carries _currentWines  *)
(* and _isLastPage as they are when it is emitted, and both only change    *)
(* with an emit, so `status` is all the module keeps of the cubit's state. *)
(*                                                                         *)
(* Two history variables: `session` numbers the calls of searchWines, and  *)
(* a request remembers the one it belongs to; `disturbed` says that the    *)
(* list of the current session may not be what was asked for.              *)
(***************************************************************************)
EXTENDS Naturals, Sequences

CONSTANTS
    Query,       \* texts of the search field
    NoText,      \* the empty one
    Total,       \* Total[q]: how many wines the catalogue has for q
    PageSize,    \* limit: 20
    MaxSession,  \* bound on calls of searchWines
    MaxOffset    \* bound on _currentOffset, which failed requests advance too

ASSUME SearchAssumption ==
    /\ NoText \in Query
    /\ Total \in [Query -> Nat]
    /\ PageSize \in Nat \ {0}
    /\ MaxSession \in Nat
    /\ MaxOffset \in Nat

VARIABLES
    mounted,        \* the page is there
    text,           \* _searchController.text
    debounce,       \* _debounce is active
    lastQuery, currentOffset, isLastPage, isLoadingMore, currentWines,
    status,         \* which WineSearchState is shown
    inFlight,       \* requests not answered yet
    session, disturbed

pageVars == <<mounted, text, debounce>>
historyVars == <<session, disturbed>>
vars == <<pageVars, lastQuery, currentOffset, isLastPage, isLoadingMore,
          currentWines, status, inFlight, historyVars>>

Request == [kind : {"search", "more"}, query : Query, offset : Nat, session : Nat]

(* The wines the catalogue has.                                            *)
Listed == {wine \in Query \X Nat : wine[2] \in 1..Total[wine[1]]}

SearchTypeOK ==
    /\ mounted \in BOOLEAN
    /\ text \in Query
    /\ debounce \in BOOLEAN
    /\ lastQuery \in Query
    /\ currentOffset \in Nat
    /\ isLastPage \in BOOLEAN
    /\ isLoadingMore \in BOOLEAN
    /\ currentWines \in Seq(Listed)
    /\ status \in {"initial", "loading", "success", "error"}
    /\ inFlight \subseteq Request
    /\ session \in Nat
    /\ disturbed \in BOOLEAN

Init ==
    /\ mounted = FALSE /\ text = NoText /\ debounce = FALSE
    /\ lastQuery = NoText /\ currentOffset = 0
    /\ isLastPage = FALSE /\ isLoadingMore = FALSE
    /\ currentWines = <<>>
    /\ status = "initial"
    /\ inFlight = {}
    /\ session = 0 /\ disturbed = FALSE

-----------------------------------------------------------------------------
(* A variant that answers every request with a full page.                  *)
ResultsFull(q, offset, limit) == [i \in 1..limit |-> <<q, offset + i>>]

(* The catalogue: results offset+1 .. offset+limit, as far as they exist.  *)
Results(q, offset, limit) ==
    LET last == IF offset + limit < Total[q] THEN offset + limit ELSE Total[q]
    IN  [i \in 1..(IF offset < last THEN last - offset ELSE 0) |-> <<q, offset + i>>]

(* searchWines up to its await.                                            *)
SearchWines(query) ==
    /\ session < MaxSession
    /\ lastQuery' = query
    /\ currentOffset' = 0
    /\ isLastPage' = FALSE
    /\ status' = "loading"
    /\ session' = session + 1
    /\ inFlight' = inFlight \cup {[kind |-> "search", query |-> query,
                                   offset |-> 0, session |-> session + 1]}
    /\ disturbed' = FALSE
    /\ UNCHANGED <<isLoadingMore, currentWines>>

(* A variant of loadMoreWines that may run twice at a time.                *)
LoadMoreAgain ==
    /\ mounted
    /\ status = "success" /\ currentWines # <<>>
    /\ ~isLastPage
    /\ currentOffset + PageSize <= MaxOffset
    /\ isLoadingMore' = TRUE
    /\ currentOffset' = currentOffset + PageSize
    /\ inFlight' = inFlight \cup {[kind |-> "more", query |-> lastQuery,
                                   offset |-> currentOffset + PageSize,
                                   session |-> session]}
    /\ UNCHANGED <<pageVars, lastQuery, isLastPage, currentWines, status, historyVars>>

(* _onScroll and loadMoreWines up to its await: only a list that is shown  *)
(* can be scrolled. The offset is advanced before the request.             *)
LoadMoreWines ==
    /\ mounted
    /\ status = "success" /\ currentWines # <<>>
    /\ ~isLoadingMore
    /\ ~isLastPage
    /\ currentOffset + PageSize <= MaxOffset
    /\ isLoadingMore' = TRUE
    /\ currentOffset' = currentOffset + PageSize
    /\ inFlight' = inFlight \cup {[kind |-> "more", query |-> lastQuery,
                                   offset |-> currentOffset + PageSize,
                                   session |-> session]}
    /\ UNCHANGED <<pageVars, lastQuery, isLastPage, currentWines, status, historyVars>>

-----------------------------------------------------------------------------
(* The rest of searchWines and loadMoreWines. An answer to a session that  *)
(* is over disturbs the present one until its own answer replaces the      *)
(* list; if the user has scrolled on in the meantime, the pages loaded     *)
(* since are replaced too.                                                 *)

Own(r) == r.session = session

SearchAnswered(r) ==
    LET wines == Results(r.query, 0, PageSize) IN
    /\ r.kind = "search"
    /\ inFlight' = inFlight \ {r}
    /\ currentWines' = wines
    /\ isLastPage' = (Len(wines) < PageSize)
    /\ status' = "success"
    /\ disturbed' = (~Own(r) \/ currentOffset # 0)
    /\ UNCHANGED <<pageVars, lastQuery, currentOffset, isLoadingMore, session>>

(* A variant of searchWines without its catch.                             *)
SearchThrows(r) ==
    /\ r.kind = "search"
    /\ inFlight' = inFlight \ {r}
    /\ UNCHANGED <<pageVars, lastQuery, currentOffset, isLastPage, isLoadingMore,
                   currentWines, status, historyVars>>

(* WineSearchError, whatever is shown; _currentWines is kept.              *)
SearchFailed(r) ==
    /\ r.kind = "search"
    /\ inFlight' = inFlight \ {r}
    /\ status' = "error"
    /\ UNCHANGED <<pageVars, lastQuery, currentOffset, isLastPage, isLoadingMore,
                   currentWines, historyVars>>

(* A variant that takes a full page for the last one.                      *)
MoreAnsweredShort(r) ==
    LET newWines == Results(r.query, r.offset, PageSize) IN
    /\ r.kind = "more"
    /\ inFlight' = inFlight \ {r}
    /\ currentWines' = currentWines \o newWines
    /\ isLastPage' = (isLastPage \/ Len(newWines) <= PageSize)
    /\ status' = "success"
    /\ isLoadingMore' = FALSE
    /\ disturbed' = (disturbed \/ ~Own(r))
    /\ UNCHANGED <<pageVars, lastQuery, currentOffset, session>>

MoreAnswered(r) ==
    LET newWines == Results(r.query, r.offset, PageSize) IN
    /\ r.kind = "more"
    /\ inFlight' = inFlight \ {r}
    /\ currentWines' = currentWines \o newWines
    /\ isLastPage' = (isLastPage \/ Len(newWines) < PageSize)
    /\ status' = "success"
    /\ isLoadingMore' = FALSE
    /\ disturbed' = (disturbed \/ ~Own(r))
    /\ UNCHANGED <<pageVars, lastQuery, currentOffset, session>>

(* The list is shown again without the page, which is not asked for again. *)
MoreFailed(r) ==
    /\ r.kind = "more"
    /\ inFlight' = inFlight \ {r}
    /\ status' = "success"
    /\ isLoadingMore' = FALSE
    /\ disturbed' = TRUE
    /\ UNCHANGED <<pageVars, lastQuery, currentOffset, isLastPage, currentWines, session>>

Answer ==
    \E r \in inFlight :
        SearchAnswered(r) \/ SearchFailed(r) \/ MoreAnswered(r) \/ MoreFailed(r)

-----------------------------------------------------------------------------
(* The page                                                                *)

(* initState: a new cubit, whose first search is for everything. What is   *)
(* still in flight belongs to the cubit of a page that is gone.            *)
OpenPage ==
    /\ ~mounted
    /\ mounted' = TRUE /\ text' = NoText /\ debounce' = FALSE
    /\ lastQuery' = NoText /\ currentOffset' = 0
    /\ isLastPage' = FALSE /\ isLoadingMore' = FALSE
    /\ currentWines' = <<>>
    /\ status' = "loading"
    /\ inFlight' = {[kind |-> "search", query |-> NoText, offset |-> 0, session |-> 1]}
    /\ session' = 1 /\ disturbed' = FALSE

(* A variant that starts the timer only for a new text.                    *)
OnSearchChangedNew(q) ==
    /\ mounted
    /\ text' = q
    /\ debounce' = (q # text)
    /\ UNCHANGED <<mounted, lastQuery, currentOffset, isLastPage, isLoadingMore,
                   currentWines, status, inFlight, historyVars>>

(* _onSearchChanged: typing, or moving the cursor in the same text,        *)
(* restarts the timer.                                                     *)
OnSearchChanged(q) ==
    /\ mounted
    /\ text' = q
    /\ debounce' = TRUE
    /\ UNCHANGED <<mounted, lastQuery, currentOffset, isLastPage, isLoadingMore,
                   currentWines, status, inFlight, historyVars>>

(* The timer searches for what the field holds by then.                    *)
DebounceFires ==
    /\ debounce
    /\ debounce' = FALSE
    /\ SearchWines(text)
    /\ UNCHANGED <<mounted, text>>

(* A suggestion or "clear" sets the text, which starts the timer, and      *)
(* searches at once.                                                       *)
SearchNow(q) ==
    /\ mounted
    /\ text' = q
    /\ debounce' = TRUE
    /\ SearchWines(q)
    /\ UNCHANGED mounted

(* The timer is cancelled; answers still reach the cubit.                  *)
Dispose ==
    /\ mounted
    /\ mounted' = FALSE
    /\ debounce' = FALSE
    /\ UNCHANGED <<text, lastQuery, currentOffset, isLastPage, isLoadingMore,
                   currentWines, status, inFlight, historyVars>>

Next ==
    \/ OpenPage
    \/ \E q \in Query : OnSearchChanged(q) \/ SearchNow(q)
    \/ DebounceFires
    \/ LoadMoreWines
    \/ Answer
    \/ Dispose

(***************************************************************************)
(* Requests end: Dio is configured with 30 s connect and receive timeouts  *)
(* (core/dependencies/module.dart 15-16). Users and timers owe nothing.    *)
(***************************************************************************)
SearchSpec == Init /\ [][Next]_vars /\ WF_vars(Answer)

-----------------------------------------------------------------------------
(* Properties                                                              *)

Searching == \E r \in inFlight : r.kind = "search" /\ Own(r)
More == {r \in inFlight : r.kind = "more"}

(***************************************************************************)
(* The progress indicator of the page stands for the latest search, not    *)
(* for an older one: while it turns, the latest is still to be answered.   *)
(***************************************************************************)
LoadingIsLatest == status = "loading" => Searching

(***************************************************************************)
(* _isLoadingMore is set exactly while one page is under way, over new     *)
(* searches, their answers and failures: paging neither doubles nor stops. *)
(***************************************************************************)
OnePageAtATime ==
    /\ isLoadingMore <=> More # {}
    /\ \A r, s \in More : r = s

(***************************************************************************)
(* Once no timer runs the last query sent is what the field shows: no      *)
(* keystroke, suggestion or "clear" leaves the page on another query.      *)
(***************************************************************************)
FieldSearched == mounted /\ ~debounce => lastQuery = text

(***************************************************************************)
(* What is listed is the beginning of the results of the last query, page  *)
(* after page without gap or repetition, and _isLastPage is set only when  *)
(* nothing is missing. The exceptions are disturbed lists: an answer of an *)
(* earlier search came late, the user scrolled a list left over from it,   *)
(* or a page failed to load.                                               *)
(***************************************************************************)
ListIsResults ==
    LET loading == \E r \in More : Own(r)
        loaded == IF loading THEN currentOffset ELSE currentOffset + PageSize
    IN  status = "success" /\ ~disturbed =>
            /\ currentWines = Results(lastQuery, 0, loaded)
            /\ isLastPage => Len(currentWines) = Total[lastQuery]

(***************************************************************************)
(* The page never stays on the progress indicator.                         *)
(***************************************************************************)
LoadingEnds == status = "loading" ~> status # "loading"

=============================================================================
