-------------------------- MODULE WineSearchProofs ---------------------------
(***************************************************************************)
(* The safety properties of WineSearch, for any catalogue, any page size   *)
(* and any number of overlapping requests.                                 *)
(***************************************************************************)
EXTENDS WineSearch, SequenceTheorems, TLAPS

-----------------------------------------------------------------------------
(* The catalogue                                                           *)

(* How many results a request is answered with.                            *)
PageLen(q, offset, limit) ==
    IF offset + limit < Total[q] THEN limit
    ELSE IF offset < Total[q] THEN Total[q] - offset ELSE 0

(***************************************************************************)
(* A page holds results of the catalogue, as many as there are left and    *)
(* the limit at most.                                                      *)
(***************************************************************************)
LEMMA ResultsProperties ==
    ASSUME NEW q \in Query, NEW offset \in Nat, NEW limit \in Nat
    PROVE  /\ Results(q, offset, limit) \in Seq(Listed)
           /\ Len(Results(q, offset, limit)) = PageLen(q, offset, limit)
           /\ PageLen(q, offset, limit) \in Nat
           /\ \A i \in 1..PageLen(q, offset, limit) :
                  Results(q, offset, limit)[i] = <<q, offset + i>>
<1> DEFINE size == PageLen(q, offset, limit)
           page == Results(q, offset, limit)
<1>1. Total[q] \in Nat
  BY SearchAssumption
<1>2. size \in Nat /\ (size > 0 => offset + size <= Total[q])
  BY <1>1 DEF PageLen
<1>3. page = [i \in 1..size |-> <<q, offset + i>>]
  BY <1>1 DEF Results, PageLen
<1> HIDE DEF size, page
<1>4. ASSUME NEW i \in 1..size PROVE <<q, offset + i>> \in Listed
  BY <1>1, <1>2 DEF Listed
<1>5. page \in [1..size -> Listed]
  BY <1>3, <1>4
<1>6. page \in Seq(Listed) /\ Len(page) = size
  BY <1>2, <1>5
<1> QED
  BY <1>2, <1>3, <1>6 DEF size, page

(***************************************************************************)
(* What has been loaded and the page after it are the beginning of the     *)
(* results again.                                                          *)
(***************************************************************************)
LEMMA NextPage ==
    ASSUME NEW q \in Query, NEW n \in Nat, NEW limit \in Nat
    PROVE  Results(q, 0, n) \o Results(q, n, limit) = Results(q, 0, n + limit)
<1> DEFINE s == Results(q, 0, n)
           t == Results(q, n, limit)
           u == Results(q, 0, n + limit)
           k == PageLen(q, 0, n)
           l == PageLen(q, n, limit)
           m == PageLen(q, 0, n + limit)
<1>1. Total[q] \in Nat /\ n + limit \in Nat
  BY SearchAssumption
<1>2. /\ s \in Seq(Listed) /\ Len(s) = k /\ k \in Nat
      /\ \A i \in 1..k : s[i] = <<q, 0 + i>>
  BY ResultsProperties
<1>3. /\ t \in Seq(Listed) /\ Len(t) = l /\ l \in Nat
      /\ \A i \in 1..l : t[i] = <<q, n + i>>
  BY ResultsProperties
<1>4. /\ u \in Seq(Listed) /\ Len(u) = m /\ m \in Nat
      /\ \A i \in 1..m : u[i] = <<q, 0 + i>>
  BY <1>1, ResultsProperties
<1>5. m = k + l /\ (l > 0 => k = n)
  BY <1>1 DEF PageLen
<1> HIDE DEF s, t, u, k, l, m
<1>6. /\ s \o t \in Seq(Listed)
      /\ Len(s \o t) = k + l
      /\ \A i \in 1..(k + l) : (s \o t)[i] = IF i <= k THEN s[i] ELSE t[i - k]
  BY <1>2, <1>3, ConcatProperties
<1>7. ASSUME NEW i \in 1..(k + l) PROVE (s \o t)[i] = u[i]
  <2>1. u[i] = <<q, i>>
    BY <1>2, <1>3, <1>4, <1>5
  <2>2. CASE i <= k
    <3>1. i \in 1..k /\ 0 + i = i
      BY <1>2, <2>2
    <3> QED
      BY <1>2, <1>6, <2>1, <2>2, <3>1
  <2>3. CASE ~(i <= k)
    <3>1. i - k \in 1..l /\ k = n /\ n + (i - k) = i
      BY <1>2, <1>3, <1>5, <2>3
    <3> QED
      BY <1>3, <1>6, <2>1, <2>3, <3>1
  <2> QED
    BY <2>2, <2>3
<1>8. s \o t = u
  BY <1>4, <1>5, <1>6, <1>7, SeqEqual
<1> QED
  BY <1>8 DEF s, t, u

-----------------------------------------------------------------------------
(* The inductive invariant                                                 *)

(* A page of the current session is under way.                             *)
OwnMore == \E r \in inFlight : r.kind = "more" /\ Own(r)

(* No request is of a session to come, and those of the current one ask    *)
(* for what the cubit records.                                             *)
Requests ==
    \A r \in inFlight :
        /\ r.session <= session
        /\ Own(r) => r.query = lastQuery
        /\ Own(r) /\ r.kind = "more" => r.offset = currentOffset /\ currentOffset # 0

(* ListIsResults also while an older search that failed shows its error    *)
(* and a page that is under way will show the list again.                  *)
ListLoaded ==
    ~disturbed /\ (status = "success" \/ OwnMore) =>
        /\ currentWines = Results(lastQuery, 0, IF OwnMore THEN currentOffset
                                                ELSE currentOffset + PageSize)
        /\ isLastPage => Len(currentWines) = Total[lastQuery]

SearchInv ==
    /\ SearchTypeOK /\ LoadingIsLatest /\ OnePageAtATime /\ FieldSearched
    /\ Requests /\ ListLoaded

LEMMA InitSearch == Init => SearchInv
<1> SUFFICES ASSUME Init PROVE SearchInv
  OBVIOUS
<1> USE SearchAssumption DEF Init
<1>1. SearchTypeOK
  <2>1. currentWines \in Seq(Listed) /\ inFlight \subseteq Request
    OBVIOUS
  <2>2. mounted \in BOOLEAN /\ debounce \in BOOLEAN /\ disturbed \in BOOLEAN
    OBVIOUS
  <2>3. isLastPage \in BOOLEAN /\ isLoadingMore \in BOOLEAN
    OBVIOUS
  <2> QED
    BY <2>1, <2>2, <2>3 DEF SearchTypeOK
<1>2. LoadingIsLatest /\ OnePageAtATime /\ FieldSearched /\ Requests /\ ListLoaded
  BY DEF LoadingIsLatest, OnePageAtATime, More, FieldSearched, Requests,
         ListLoaded, OwnMore
<1> QED
  BY <1>1, <1>2 DEF SearchInv

(***************************************************************************)
(* searchWines begins a session: no request in flight is of it but its own.*)
(***************************************************************************)
LEMMA SearchWinesStep ==
    ASSUME SearchInv, NEW q \in Query, SearchWines(q),
           mounted' \in BOOLEAN, debounce' \in BOOLEAN, text' = q
    PROVE  SearchInv'
<1> DEFINE new == [kind |-> "search", query |-> q, offset |-> 0, session |-> session + 1]
<1> USE DEF SearchInv
<1>1. /\ session \in Nat /\ session + 1 \in Nat /\ inFlight \subseteq Request
      /\ session' = session + 1
      /\ inFlight' = inFlight \cup {new}
      /\ new \in Request /\ new.kind = "search" /\ new.session = session + 1
      /\ new.query = q
      /\ lastQuery' = q /\ currentOffset' = 0 /\ status' = "loading"
      /\ isLoadingMore' = isLoadingMore
  BY DEF SearchTypeOK, SearchWines, Request
<1>2. \A r \in inFlight : r.session \in Nat /\ r.session <= session
  BY <1>1 DEF Requests, Request
<1> HIDE DEF new
<1>3. SearchTypeOK'
  <2>1. inFlight' \subseteq Request
    BY <1>1
  <2>2. disturbed' \in BOOLEAN /\ isLastPage' \in BOOLEAN /\ isLoadingMore' \in BOOLEAN
    BY DEF SearchTypeOK, SearchWines
  <2>3. currentWines' \in Seq(Listed)
    BY DEF SearchTypeOK, SearchWines
  <2> QED
    BY <1>1, <2>1, <2>2, <2>3 DEF SearchTypeOK
<1>4. LoadingIsLatest'
  BY <1>1 DEF LoadingIsLatest, Searching, Own
<1>5. OnePageAtATime'
  <2>1. More' = More
    BY <1>1 DEF More
  <2> QED
    BY <1>1, <2>1 DEF OnePageAtATime
<1>6. FieldSearched'
  BY <1>1 DEF FieldSearched
<1>7. \A r \in inFlight' : r = new \/ (r.session <= session' /\ r.session # session')
  BY <1>1, <1>2
<1>8. Requests'
  BY <1>1, <1>7 DEF Requests, Own
<1>9. ~OwnMore'
  BY <1>1, <1>7 DEF OwnMore, Own
<1>10. ListLoaded'
  BY <1>1, <1>9 DEF ListLoaded
<1> QED
  BY <1>3, <1>4, <1>5, <1>6, <1>8, <1>10

LEMMA OpenPageStep == SearchInv /\ OpenPage => SearchInv'
<1> SUFFICES ASSUME SearchInv, OpenPage PROVE SearchInv'
  OBVIOUS
<1> DEFINE new == [kind |-> "search", query |-> NoText, offset |-> 0, session |-> 1]
<1>1. /\ inFlight' = {new} /\ new \in Request /\ new.kind = "search"
      /\ new.session = 1 /\ new.query = NoText
      /\ session' = 1 /\ lastQuery' = NoText /\ text' = NoText
      /\ status' = "loading" /\ isLoadingMore' = FALSE
  BY SearchAssumption DEF OpenPage, Request
<1> HIDE DEF new
<1>2. SearchTypeOK'
  <2>1. currentWines' \in Seq(Listed) /\ inFlight' \subseteq Request
    BY <1>1 DEF OpenPage
  <2>2. mounted' \in BOOLEAN /\ debounce' \in BOOLEAN /\ disturbed' \in BOOLEAN
    BY DEF OpenPage
  <2>3. isLastPage' \in BOOLEAN /\ isLoadingMore' \in BOOLEAN
    BY DEF OpenPage
  <2>4. currentOffset' \in Nat /\ NoText \in Query
    BY SearchAssumption DEF OpenPage
  <2> QED
    BY <1>1, <2>1, <2>2, <2>3, <2>4 DEF SearchTypeOK
<1>3. LoadingIsLatest'
  BY <1>1 DEF LoadingIsLatest, Searching, Own
<1>4. OnePageAtATime'
  BY <1>1 DEF OnePageAtATime, More
<1>5. FieldSearched' /\ Requests' /\ ~OwnMore'
  BY <1>1 DEF FieldSearched, Requests, OwnMore, Own
<1>6. ListLoaded'
  BY <1>1, <1>5 DEF ListLoaded
<1> QED
  BY <1>2, <1>3, <1>4, <1>5, <1>6 DEF SearchInv

(***************************************************************************)
(* Steps that concern the page only.                                       *)
(***************************************************************************)
LEMMA PageStep ==
    ASSUME SearchInv,
           mounted' \in BOOLEAN, debounce' \in BOOLEAN, text' \in Query, FieldSearched',
           UNCHANGED <<lastQuery, currentOffset, isLastPage, isLoadingMore,
                       currentWines, status, inFlight, historyVars>>
    PROVE  SearchInv'
<1> USE DEF SearchInv, historyVars
<1>1. SearchTypeOK'
  BY DEF SearchTypeOK
<1>2. LoadingIsLatest' /\ OnePageAtATime'
  BY DEF LoadingIsLatest, Searching, Own, OnePageAtATime, More
<1>3. Requests' /\ (OwnMore' <=> OwnMore)
  BY DEF Requests, OwnMore, Own
<1>4. ListLoaded'
  BY <1>3 DEF ListLoaded
<1> QED
  BY <1>1, <1>2, <1>3, <1>4

(***************************************************************************)
(* loadMoreWines: the only page under way is the one after what is listed. *)
(***************************************************************************)
LEMMA LoadMoreStep == SearchInv /\ LoadMoreWines => SearchInv'
<1> SUFFICES ASSUME SearchInv, LoadMoreWines PROVE SearchInv'
  OBVIOUS
<1> DEFINE offset == currentOffset + PageSize
           new == [kind |-> "more", query |-> lastQuery, offset |-> offset,
                   session |-> session]
<1> USE DEF SearchInv, pageVars, historyVars
<1>1. /\ offset \in Nat /\ offset # 0
      /\ inFlight' = inFlight \cup {new} /\ new \in Request
      /\ new.kind = "more" /\ new.session = session /\ new.query = lastQuery
      /\ new.offset = offset /\ currentOffset' = offset
      /\ isLoadingMore' = TRUE /\ status = "success"
      /\ UNCHANGED <<session, disturbed, lastQuery, isLastPage, currentWines, status>>
  BY SearchAssumption DEF LoadMoreWines, Request, SearchTypeOK
<1>2. More = {}
  BY DEF LoadMoreWines, OnePageAtATime
<1>3. \A r \in inFlight : r.kind # "more"
  BY <1>2 DEF More
<1> HIDE DEF new
<1>4. SearchTypeOK'
  BY <1>1 DEF SearchTypeOK, LoadMoreWines
<1>5. LoadingIsLatest' /\ FieldSearched'
  BY <1>1 DEF LoadingIsLatest, FieldSearched, LoadMoreWines
<1>6. OnePageAtATime'
  <2>1. More' = {new}
    BY <1>1, <1>3 DEF More
  <2> QED
    BY <1>1, <2>1 DEF OnePageAtATime
<1>7. Requests'
  <2>1. session \in Nat
    BY DEF SearchTypeOK
  <2> QED
    BY <1>1, <1>3, <2>1 DEF Requests, Own
<1>8. OwnMore' /\ ~OwnMore
  BY <1>1, <1>3 DEF OwnMore, Own
<1>9. ListLoaded'
  BY <1>1, <1>8 DEF ListLoaded
<1> QED
  BY <1>4, <1>5, <1>6, <1>7, <1>9

(***************************************************************************)
(* Taking a request out of flight keeps what is said of the others.        *)
(***************************************************************************)
LEMMA Answers ==
    ASSUME SearchInv, NEW r \in inFlight, inFlight' = inFlight \ {r},
           status' # "loading", UNCHANGED <<session, lastQuery, currentOffset>>,
           UNCHANGED pageVars,
           isLoadingMore' = IF r.kind = "more" THEN FALSE ELSE isLoadingMore
    PROVE  /\ LoadingIsLatest' /\ OnePageAtATime' /\ FieldSearched' /\ Requests'
           /\ OwnMore' <=> (OwnMore /\ r.kind # "more")
<1> USE DEF SearchInv
<1>1. LoadingIsLatest' /\ FieldSearched' /\ Requests'
  BY DEF LoadingIsLatest, FieldSearched, Requests, Own, pageVars
<1>2. CASE r.kind = "more"
  <2>1. More' = {} /\ isLoadingMore' = FALSE
    BY <1>2 DEF OnePageAtATime, More
  <2> QED
    BY <1>1, <1>2, <2>1 DEF OnePageAtATime, More, OwnMore
<1>3. CASE r.kind # "more"
  <2>1. More' = More /\ isLoadingMore' = isLoadingMore
    BY <1>3 DEF More
  <2>2. OwnMore' <=> OwnMore
    BY <1>3 DEF OwnMore, Own
  <2> QED
    BY <1>1, <1>3, <2>1, <2>2 DEF OnePageAtATime
<1> QED
  BY <1>2, <1>3

LEMMA SearchAnsweredStep ==
    ASSUME SearchInv, NEW r \in inFlight, SearchAnswered(r)
    PROVE  SearchInv'
<1> DEFINE wines == Results(r.query, 0, PageSize)
<1> USE DEF SearchInv
<1>1. /\ r \in Request /\ r.query \in Query /\ PageSize \in Nat /\ PageSize # 0
      /\ Total[r.query] \in Nat /\ currentOffset \in Nat
  BY SearchAssumption DEF SearchTypeOK, Request
<1>2. wines \in Seq(Listed) /\ Len(wines) = PageLen(r.query, 0, PageSize)
  BY <1>1, ResultsProperties
<1>3. Len(wines) < PageSize => Len(wines) = Total[r.query]
  BY <1>1, <1>2 DEF PageLen
<1> HIDE DEF wines
<1>4. /\ currentWines' = wines /\ status' = "success" /\ r.kind = "search"
      /\ isLastPage' = (Len(wines) < PageSize)
      /\ disturbed' = (~Own(r) \/ currentOffset # 0)
      /\ UNCHANGED <<pageVars, lastQuery, currentOffset, isLoadingMore, session>>
      /\ inFlight' = inFlight \ {r}
  BY DEF SearchAnswered, wines
<1>5. SearchTypeOK'
  BY <1>2, <1>4 DEF SearchTypeOK, pageVars
<1>6. /\ LoadingIsLatest' /\ OnePageAtATime' /\ FieldSearched' /\ Requests'
      /\ OwnMore' <=> OwnMore
  BY <1>4, Answers
<1>7. ListLoaded'
  <2> SUFFICES ASSUME ~disturbed'
               PROVE  /\ ~OwnMore'
                      /\ currentWines' = Results(lastQuery, 0, currentOffset + PageSize)
                      /\ isLastPage' => Len(currentWines') = Total[lastQuery]
    BY <1>4 DEF ListLoaded, Results
  <2>1. Own(r) /\ currentOffset = 0
    BY <1>4
  <2>2. r.query = lastQuery /\ ~OwnMore
    BY <2>1 DEF Requests, OwnMore
  <2> QED
    BY <1>1, <1>3, <1>4, <1>6, <2>1, <2>2 DEF wines
<1> QED
  BY <1>5, <1>6, <1>7

LEMMA SearchFailedStep ==
    ASSUME SearchInv, NEW r \in inFlight, SearchFailed(r)
    PROVE  SearchInv'
<1> USE DEF SearchInv
<1>1. /\ status' = "error" /\ r.kind = "search" /\ inFlight' = inFlight \ {r}
      /\ UNCHANGED <<pageVars, lastQuery, currentOffset, isLoadingMore, session>>
      /\ UNCHANGED <<currentWines, isLastPage, disturbed>>
  BY DEF SearchFailed, historyVars
<1>2. SearchTypeOK'
  BY <1>1 DEF SearchTypeOK, pageVars
<1>3. /\ LoadingIsLatest' /\ OnePageAtATime' /\ FieldSearched' /\ Requests'
      /\ OwnMore' <=> OwnMore
  BY <1>1, Answers
<1>4. ListLoaded'
  BY <1>1, <1>3 DEF ListLoaded
<1> QED
  BY <1>2, <1>3, <1>4

(***************************************************************************)
(* The page of an undisturbed session is appended where it belongs.        *)
(***************************************************************************)
LEMMA MoreAnsweredStep ==
    ASSUME SearchInv, NEW r \in inFlight, MoreAnswered(r)
    PROVE  SearchInv'
<1> DEFINE newWines == Results(r.query, r.offset, PageSize)
<1> USE DEF SearchInv
<1>1. /\ r \in Request /\ r.query \in Query /\ r.offset \in Nat
      /\ PageSize \in Nat /\ Total[r.query] \in Nat /\ currentOffset \in Nat
      /\ currentWines \in Seq(Listed) /\ isLastPage \in BOOLEAN
  BY SearchAssumption DEF SearchTypeOK, Request
<1>2. newWines \in Seq(Listed) /\ Len(newWines) = PageLen(r.query, r.offset, PageSize)
  BY <1>1, ResultsProperties
<1> HIDE DEF newWines
<1>3. /\ currentWines' = currentWines \o newWines /\ status' = "success"
      /\ isLastPage' = (isLastPage \/ Len(newWines) < PageSize)
      /\ r.kind = "more" /\ isLoadingMore' = FALSE
      /\ disturbed' = (disturbed \/ ~Own(r))
      /\ UNCHANGED <<pageVars, lastQuery, currentOffset, session>>
      /\ inFlight' = inFlight \ {r}
  BY DEF MoreAnswered, newWines
<1>4. SearchTypeOK'
  <2>1. currentWines' \in Seq(Listed)
    BY <1>1, <1>2, <1>3, ConcatProperties
  <2> QED
    BY <1>3, <2>1 DEF SearchTypeOK, pageVars
<1>5. /\ LoadingIsLatest' /\ OnePageAtATime' /\ FieldSearched' /\ Requests'
      /\ ~OwnMore'
  BY <1>3, Answers
<1>6. ListLoaded'
  <2> SUFFICES ASSUME ~disturbed'
               PROVE  /\ currentWines' = Results(lastQuery, 0, currentOffset + PageSize)
                      /\ isLastPage' => Len(currentWines') = Total[lastQuery]
    BY <1>3, <1>5 DEF ListLoaded, Results
  <2>1. ~disturbed /\ Own(r)
    BY <1>3
  <2>2. r.query = lastQuery /\ r.offset = currentOffset /\ OwnMore
    BY <1>3, <2>1 DEF Requests, OwnMore
  <2>3. /\ currentWines = Results(lastQuery, 0, currentOffset)
        /\ isLastPage => Len(currentWines) = Total[lastQuery]
    BY <2>1, <2>2 DEF ListLoaded
  <2>4. currentWines' = Results(lastQuery, 0, currentOffset + PageSize)
    BY <1>1, <1>3, <2>2, <2>3, NextPage DEF newWines
  <2>5. /\ Len(currentWines) = PageLen(lastQuery, 0, currentOffset)
        /\ Len(currentWines') = PageLen(lastQuery, 0, currentOffset + PageSize)
    <3>1. lastQuery \in Query /\ 0 \in Nat /\ currentOffset + PageSize \in Nat
      BY <1>1, <2>2
    <3>2. Len(currentWines) = PageLen(lastQuery, 0, currentOffset)
      BY <1>1, <2>3, <3>1, ResultsProperties
    <3>3. Len(currentWines') = PageLen(lastQuery, 0, currentOffset + PageSize)
      BY <2>4, <3>1, ResultsProperties
    <3> QED
      BY <3>2, <3>3
  <2>6. ASSUME isLastPage' PROVE Len(currentWines') = Total[lastQuery]
    BY <1>1, <1>2, <1>3, <2>2, <2>3, <2>5, <2>6 DEF PageLen
  <2> QED
    BY <2>4, <2>6
<1> QED
  BY <1>4, <1>5, <1>6

LEMMA MoreFailedStep ==
    ASSUME SearchInv, NEW r \in inFlight, MoreFailed(r)
    PROVE  SearchInv'
<1> USE DEF SearchInv
<1>1. /\ status' = "success" /\ r.kind = "more" /\ inFlight' = inFlight \ {r}
      /\ isLoadingMore' = FALSE /\ disturbed' = TRUE
      /\ UNCHANGED <<pageVars, lastQuery, currentOffset, session>>
      /\ UNCHANGED <<currentWines, isLastPage>>
  BY DEF MoreFailed
<1>2. SearchTypeOK'
  BY <1>1 DEF SearchTypeOK, pageVars
<1>3. LoadingIsLatest' /\ OnePageAtATime' /\ FieldSearched' /\ Requests'
  BY <1>1, Answers
<1>4. ListLoaded'
  BY <1>1 DEF ListLoaded
<1> QED
  BY <1>2, <1>3, <1>4

LEMMA SearchStep == SearchInv /\ [Next]_vars => SearchInv'
<1> SUFFICES ASSUME SearchInv, [Next]_vars PROVE SearchInv'
  OBVIOUS
<1>1. CASE OpenPage
  BY <1>1, OpenPageStep
<1>2. ASSUME NEW q \in Query, OnSearchChanged(q) PROVE SearchInv'
  BY <1>2, PageStep DEF OnSearchChanged, SearchInv, SearchTypeOK, FieldSearched
<1>3. ASSUME NEW q \in Query, SearchNow(q) PROVE SearchInv'
  BY <1>3, SearchWinesStep DEF SearchNow, SearchInv, SearchTypeOK
<1>4. CASE DebounceFires
  <2>1. text \in Query /\ mounted \in BOOLEAN
    BY DEF SearchInv, SearchTypeOK
  <2> QED
    BY <1>4, <2>1, SearchWinesStep DEF DebounceFires
<1>5. CASE LoadMoreWines
  BY <1>5, LoadMoreStep
<1>6. CASE Answer
  BY <1>6, SearchAnsweredStep, SearchFailedStep, MoreAnsweredStep, MoreFailedStep DEF Answer
<1>7. CASE Dispose
  BY <1>7, PageStep DEF Dispose, SearchInv, SearchTypeOK, FieldSearched
<1>8. CASE UNCHANGED vars
  BY <1>8, PageStep DEF vars, pageVars, SearchInv, SearchTypeOK, FieldSearched
<1> QED
  BY <1>1, <1>2, <1>3, <1>4, <1>5, <1>6, <1>7, <1>8 DEF Next

-----------------------------------------------------------------------------
(* The theorems                                                            *)

(***************************************************************************)
(* The inductive invariant holds in every state of SearchSpec, whatever    *)
(* the order in which the catalogue answers searchWines and loadMoreWines. *)
(***************************************************************************)
THEOREM SearchInvariant == SearchSpec => []SearchInv
  BY InitSearch, SearchStep, PTL DEF SearchSpec

(***************************************************************************)
(* The cubit and the page keep their types; a listed wine is always one    *)
(* the catalogue has.                                                      *)
(***************************************************************************)
THEOREM SearchTypes == SearchSpec => []SearchTypeOK
<1>1. SearchInv => SearchTypeOK
  BY DEF SearchInv
<1> QED
  BY <1>1, SearchInvariant, PTL

(***************************************************************************)
(* While the progress indicator turns the latest search is under way.      *)
(***************************************************************************)
THEOREM LatestLoading == SearchSpec => []LoadingIsLatest
<1>1. SearchInv => LoadingIsLatest
  BY DEF SearchInv
<1> QED
  BY <1>1, SearchInvariant, PTL

(***************************************************************************)
(* When no debounce timer runs the last search was for what the field      *)
(* shows.                                                                  *)
(***************************************************************************)
THEOREM TextSearched == SearchSpec => []FieldSearched
<1>1. SearchInv => FieldSearched
  BY DEF SearchInv
<1> QED
  BY <1>1, SearchInvariant, PTL

(***************************************************************************)
(* _isLoadingMore stands for exactly one page under way.                   *)
(***************************************************************************)
THEOREM PagingExclusive == SearchSpec => []OnePageAtATime
<1>1. SearchInv => OnePageAtATime
  BY DEF SearchInv
<1> QED
  BY <1>1, SearchInvariant, PTL

(***************************************************************************)
(* An undisturbed list is the beginning of the results of the last query,  *)
(* and complete when _isLastPage is set, for any catalogue and page size.  *)
(***************************************************************************)
THEOREM PagesJoin == SearchSpec => []ListIsResults
<1>1. SearchInv => ListIsResults
  <2>1. OwnMore <=> \E r \in More : Own(r)
    BY DEF OwnMore, More
  <2> QED
    BY <2>1 DEF SearchInv, ListLoaded, ListIsResults
<1> QED
  BY <1>1, SearchInvariant, PTL

=============================================================================
