------------------------------ MODULE DemoSearch ------------------------------
(***************************************************************************)
(* Search and autocomplete on the demo map (demo/app.js): typing starts a  *)
(* debounce timer, the timer or the form starts a request and aborts the   *)
(* one before, and the answer fills a list and puts markers on the map.    *)
(* Choosing a result collapses the list; the clear button re-opens it, or  *)
(* clears everything.  The timer, the network and the user act in any      *)
(* order.                                                                  *)
(***************************************************************************)
EXTENDS Naturals, BrowserFetch

CONSTANTS
  Queries,  \* texts of two characters or more
  MaxRuns   \* bound: requests started

ASSUME RunsAssumption == MaxRuns \in Nat

VARIABLES
  input,      \* searchInput.value, trimmed
  timer,      \* query the pending searchDebounce timer will run
  runs,       \* requests started
  queryOf,    \* request -> its query
  searchPhase,    \* request -> where it is
  searchOk,       \* request -> response.ok
  currentSearch,  \* the request to abort
  lastQuery,  \* lastQuery
  list,       \* request whose answer fills resultsList
  visible,    \* resultsGroup and resultsList are not hidden
  markers,    \* request whose results are on the map
  collapsed,  \* collapsedResults
  loading,    \* the search icon spins
  status,     \* statusEl
  chosen      \* a result was chosen and the user did nothing since

searchVars == <<input, timer, runs, queryOf, searchPhase, searchOk,
                currentSearch, lastQuery, list, visible, markers, collapsed,
                loading, status, chosen>>

Runs        == 1..MaxRuns
StartedRuns == 1..runs
Label == "label"   \* the label of a chosen result
Texts == {"", "short", Label} \cup Queries

SearchInit ==
  /\ input = ""
  /\ timer = None
  /\ runs = 0
  /\ queryOf = [r \in Runs |-> ""]
  /\ searchPhase = [r \in Runs |-> "done"]
  /\ searchOk = [r \in Runs |-> TRUE]
  /\ currentSearch = None
  /\ lastQuery = ""
  /\ list = None
  /\ visible = FALSE
  /\ markers = None
  /\ collapsed = FALSE
  /\ loading = FALSE
  /\ status = ""
  /\ chosen = FALSE

(* Mutant of AbortSearch: the previous request is left running. *)
AbortNoSearch == searchPhase

AbortSearch ==
  [r \in Runs |-> IF r = currentSearch THEN Aborted(searchPhase[r])
                  ELSE searchPhase[r]]

(* clearMapResults and an empty list. *)
EmptyResults == list' = None /\ visible' = FALSE /\ markers' = None

-----------------------------------------------------------------------------
(* What the handlers call *)

(* runQuery up to its first await. *)
RunQuery(text) ==
  /\ runs < MaxRuns
  /\ runs' = runs + 1
  /\ queryOf' = [queryOf EXCEPT ![runs + 1] = text]
  /\ searchPhase' = [AbortSearch EXCEPT ![runs + 1] = "fetch"]
  /\ currentSearch' = runs + 1
  /\ lastQuery' = text
  /\ loading' = TRUE
  /\ EmptyResults
  /\ status' = ""
  /\ UNCHANGED <<input, searchOk, collapsed>>

ClearResults ==
  /\ timer' = None
  /\ searchPhase' = AbortSearch
  /\ loading' = FALSE
  /\ EmptyResults
  /\ collapsed' = FALSE
  /\ status' = ""
  /\ UNCHANGED <<runs, queryOf, searchOk, currentSearch, lastQuery>>

-----------------------------------------------------------------------------
(* User events and the timer *)

(* The "input" handler. *)
Type(text) ==
  /\ TaskMayRun(searchPhase)
  /\ input' = text
  /\ chosen' = FALSE
  /\ \/ text = "" /\ ClearResults
     \/ /\ text = "short"
        /\ timer' = None
        /\ searchPhase' = AbortSearch
        /\ loading' = FALSE
        /\ EmptyResults
        /\ status' = "type more"
        /\ UNCHANGED <<runs, queryOf, searchOk, currentSearch, lastQuery,
                       collapsed>>
     \/ /\ text \in Queries
        /\ timer' = text
        /\ UNCHANGED <<runs, queryOf, searchPhase, searchOk, currentSearch,
                       lastQuery, list, visible, markers, collapsed, loading,
                       status>>

(* 220 ms after the last key. *)
TimerFires ==
  /\ TaskMayRun(searchPhase)
  /\ timer # None
  /\ RunQuery(timer)
  /\ timer' = None
  /\ UNCHANGED chosen

(* The Escape key. *)
Escape ==
  /\ TaskMayRun(searchPhase)
  /\ timer' = None
  /\ searchPhase' = AbortSearch
  /\ loading' = FALSE
  /\ chosen' = FALSE
  /\ UNCHANGED <<input, runs, queryOf, searchOk, currentSearch, lastQuery,
                 list, visible, markers, collapsed, status>>

(* The form: the text in the box, whatever its length. *)
Submit ==
  /\ TaskMayRun(searchPhase)
  /\ chosen' = FALSE
  /\ \/ input = "" /\ ClearResults /\ UNCHANGED input
     \/ input # "" /\ RunQuery(input) /\ timer' = None

(* The clear button: re-open a collapsed list, or clear. *)
PressClear ==
  /\ TaskMayRun(searchPhase)
  /\ input # ""
  /\ chosen' = FALSE
  /\ IF collapsed /\ list # None
     THEN /\ input' = lastQuery
          /\ visible' = TRUE
          /\ collapsed' = FALSE
          /\ UNCHANGED <<timer, runs, queryOf, searchPhase, searchOk,
                         currentSearch, lastQuery, list, markers, loading,
                         status>>
     ELSE input' = "" /\ ClearResults

(* selectResult: neither the timer nor the request is touched. *)
SelectResult ==
  /\ TaskMayRun(searchPhase)
  /\ visible /\ list # None
  /\ input' = Label
  /\ visible' = FALSE
  /\ collapsed' = TRUE
  /\ chosen' = TRUE
  /\ UNCHANGED <<timer, runs, queryOf, searchPhase, searchOk, currentSearch,
                 lastQuery, list, markers, loading, status>>

-----------------------------------------------------------------------------
(* The two ways a request ends, and its finally block *)

(* renderResults: "some" results, or "none" when the payload is empty. *)
RenderResults(r, results) ==
  IF results = "none"
  THEN EmptyResults /\ status' = "empty" /\ UNCHANGED collapsed
  ELSE /\ list' = r
       /\ visible' = TRUE
       /\ markers' = r
       /\ collapsed' = FALSE
       /\ status' = ""

(* The catch block hides the list without emptying it. *)
HideResults ==
  /\ markers' = None
  /\ visible' = FALSE
  /\ status' = "unavailable"
  /\ UNCHANGED <<list, collapsed>>

(* Mutant of FinishSearch: the spinner is only stopped by the user. *)
FinishSearchLoading(r) ==
  /\ searchPhase' = [searchPhase EXCEPT ![r] = "done"]
  /\ currentSearch' = IF currentSearch = r THEN None ELSE currentSearch
  /\ UNCHANGED <<input, timer, runs, queryOf, searchOk, lastQuery, chosen,
                 loading>>

FinishSearch(r) ==
  /\ searchPhase' = [searchPhase EXCEPT ![r] = "done"]
  /\ currentSearch' = IF currentSearch = r THEN None ELSE currentSearch
  /\ loading' = IF currentSearch = r THEN FALSE ELSE loading
  /\ UNCHANGED <<input, timer, runs, queryOf, searchOk, lastQuery, chosen>>

SearchResponds(r, isOk) ==
  /\ TaskMayRun(searchPhase)
  /\ searchPhase[r] = "fetch"
  /\ searchPhase' = [searchPhase EXCEPT ![r] = "body"]
  /\ searchOk' = [searchOk EXCEPT ![r] = isOk]
  /\ UNCHANGED <<input, timer, runs, queryOf, currentSearch, lastQuery, list,
                 visible, markers, collapsed, loading, status, chosen>>

SearchDisconnects(r) ==
  /\ TaskMayRun(searchPhase)
  /\ searchPhase[r] = "fetch"
  /\ HideResults
  /\ FinishSearch(r)

(* The body is read, or reading it fails: {} is used in its place. *)
SearchRead(r, results) ==
  /\ TaskMayRun(searchPhase)
  /\ searchPhase[r] = "body"
  /\ IF searchOk[r] THEN RenderResults(r, results) ELSE HideResults
  /\ FinishSearch(r)

ResumeSearchFetch(r) ==
  /\ searchPhase[r] = "fetch_aborted"
  /\ FinishSearch(r)
  /\ UNCHANGED <<list, visible, markers, collapsed, status>>

(* The AbortError of the body is caught: the payload is {}. *)
ResumeSearchBody(r) ==
  /\ searchPhase[r] = "body_aborted"
  /\ IF searchOk[r] THEN RenderResults(r, "none") ELSE HideResults
  /\ FinishSearch(r)

-----------------------------------------------------------------------------
AnswerSearch(r) ==
  \/ \E isOk \in BOOLEAN : SearchResponds(r, isOk)
  \/ SearchDisconnects(r)
  \/ \E results \in {"some", "none"} : SearchRead(r, results)

ResumeSearch(r) == ResumeSearchFetch(r) \/ ResumeSearchBody(r)

SearchNext ==
  \/ \E text \in Texts \ {Label} : Type(text)
  \/ TimerFires
  \/ Escape
  \/ Submit
  \/ PressClear
  \/ SelectResult
  \/ \E r \in StartedRuns : AnswerSearch(r) \/ ResumeSearch(r)

(* The browser runs the continuations, and every request is answered or     *)
(* fails; nothing makes the user act.                                       *)
SearchFairness ==
  \A r \in Runs :
    WF_searchVars(r <= runs /\ (AnswerSearch(r) \/ ResumeSearch(r)))

SearchSpec == SearchInit /\ [][SearchNext]_searchVars
FairSearchSpec == SearchSpec /\ SearchFairness

-----------------------------------------------------------------------------
(* Properties *)

(* A list, shown or collapsed, answers the last query run: no late answer   *)
(* of an earlier query is listed or put on the map, and the text the clear  *)
(* button restores with the list is the query the list answers.             *)
ListAnswersLastQuery ==
  /\ list # None => list = runs /\ queryOf[list] = lastQuery
  /\ markers # None => markers = list

(* A spinning search icon stops, if only the network answers or fails.      *)
SpinnerStops == loading ~> ~ loading

(* "First press after selecting a result re-opens the collapsed list"       *)
(* (demo/app.js): once a result is chosen and until the user acts, there is *)
(* a collapsed list for the clear button to re-open. The code does not keep *)
(* this: a timer armed before the choice empties it (README, section 5).    *)
ChosenListReopens == chosen => collapsed /\ list # None
=============================================================================
