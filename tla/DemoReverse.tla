----------------------------- MODULE DemoReverse -----------------------------
(***************************************************************************)
(* Reverse geocoding on the demo map (demo/app.js): a click on the map     *)
(* starts a request and aborts the one before; a panel, a marker at the    *)
(* click, a marker at the address found and a line between them show the   *)
(* outcome.  The user can click again or clear the result at any time.     *)
(*                                                                         *)
(* An aborted request whose body was being read is not dropped: the        *)
(* AbortError is caught by `.catch(() => ({}))`, and the handler goes on   *)
(* with an empty payload.                                                  *)
(***************************************************************************)
EXTENDS Naturals, BrowserFetch

CONSTANTS
  MaxClicks   \* bound: clicks on the map

ASSUME ClicksAssumption == MaxClicks \in Nat

(* Requests are numbered by the click that started them; the click's number *)
(* also stands for its coordinates.                                         *)
VARIABLES
  clicks,     \* clicks so far
  reversePhase,    \* request -> where it is
  reverseOk,       \* request -> response.ok
  currentReverse,  \* the request to abort
  panel,      \* reversePanel, reverseLabel, reverseIcon, reverseCoords
  origins,    \* requests whose origin marker is in reverseMarkers
  targets,    \* requests whose target marker is in reverseMarkers
  line,       \* request whose line is drawn
  cleared     \* the last user action was to clear

reverseVars == <<clicks, reversePhase, reverseOk, currentReverse, panel,
                 origins, targets, line, cleared>>

Clicks        == 1..MaxClicks
StartedClicks == 1..clicks

(* A reverse response: an address away from the click, an address at the    *)
(* click, one without a point, or none.  A body that is not JSON is read as *)
(* {}, the same as none.                                                    *)
ReversePayloads == {"far", "near", "unplaced", "none"}

ReverseInit ==
  /\ clicks = 0
  /\ reversePhase = [r \in Clicks |-> "done"]
  /\ reverseOk = [r \in Clicks |-> TRUE]
  /\ currentReverse = None
  /\ panel = [shown |-> FALSE, label |-> "", address |-> None, spinning |-> FALSE,
               coords |-> None]
  /\ origins = {}
  /\ targets = {}
  /\ line = None
  /\ cleared = FALSE

(* Mutant of AbortReverse: the previous request is left running. *)
AbortNoReverse == reversePhase

AbortReverse ==
  [r \in Clicks |-> IF r = currentReverse THEN Aborted(reversePhase[r])
                    ELSE reversePhase[r]]

(* runReverse up to its first await. *)
RunReverse ==
  /\ TaskMayRun(reversePhase)
  /\ clicks < MaxClicks
  /\ LET r == clicks + 1
     IN /\ clicks' = r
        /\ reversePhase' = [AbortReverse EXCEPT ![r] = "fetch"]
        /\ currentReverse' = r
        /\ panel' = [shown |-> TRUE, label |-> "Searching", address |-> None,
                     spinning |-> TRUE, coords |-> r]
        /\ origins' = {r}
  /\ targets' = {}
  /\ line' = None
  /\ cleared' = FALSE
  /\ UNCHANGED reverseOk

(* clearReverseResult; the icon is left as it is. *)
ClearReverseResult ==
  /\ TaskMayRun(reversePhase)
  /\ panel.shown
  /\ reversePhase' = AbortReverse
  /\ currentReverse' = None
  /\ panel' = [panel EXCEPT !.shown = FALSE, !.label = "", !.address = None,
                             !.coords = None]
  /\ origins' = {}
  /\ targets' = {}
  /\ line' = None
  /\ cleared' = TRUE
  /\ UNCHANGED <<clicks, reverseOk>>

-----------------------------------------------------------------------------
(* The two ways a request ends *)

(* renderReverse *)
RenderReverse(r, payload) ==
  /\ panel' = [shown    |-> TRUE,
               label    |-> IF payload = "none" THEN "No address found" ELSE "address",
               address  |-> IF payload = "none" THEN None ELSE r,
               spinning |-> FALSE,
               coords   |-> r]
  /\ targets' = IF payload \in {"far", "near"} THEN targets \cup {r} ELSE targets
  /\ line' = IF payload = "far" THEN r ELSE line

(* renderReverseError *)
RenderReverseError(r) ==
  /\ panel' = [shown |-> TRUE, label |-> "Address unavailable", address |-> None,
               spinning |-> FALSE, coords |-> r]
  /\ UNCHANGED <<targets, line>>

(* The finally block. *)
FinishReverse(r) ==
  /\ reversePhase' = [reversePhase EXCEPT ![r] = "done"]
  /\ currentReverse' = IF currentReverse = r THEN None ELSE currentReverse
  /\ UNCHANGED <<clicks, reverseOk, origins, cleared>>

(* The response headers arrive. *)
ReverseResponds(r, isOk) ==
  /\ TaskMayRun(reversePhase)
  /\ reversePhase[r] = "fetch"
  /\ reversePhase' = [reversePhase EXCEPT ![r] = "body"]
  /\ reverseOk' = [reverseOk EXCEPT ![r] = isOk]
  /\ UNCHANGED <<clicks, currentReverse, panel, origins, targets, line, cleared>>

(* The network fails before the response. *)
ReverseDisconnects(r) ==
  /\ TaskMayRun(reversePhase)
  /\ reversePhase[r] = "fetch"
  /\ RenderReverseError(r)
  /\ FinishReverse(r)

(* Mutant of ReverseRead: an error response is dropped silently. *)
ReverseReadSilently(r, payload) ==
  /\ TaskMayRun(reversePhase)
  /\ reversePhase[r] = "body"
  /\ IF reverseOk[r] THEN RenderReverse(r, payload)
     ELSE UNCHANGED <<panel, targets, line>>
  /\ FinishReverse(r)

(* The body is read, or reading it fails: {} is used in its place. *)
ReverseRead(r, payload) ==
  /\ TaskMayRun(reversePhase)
  /\ reversePhase[r] = "body"
  /\ IF reverseOk[r] THEN RenderReverse(r, payload) ELSE RenderReverseError(r)
  /\ FinishReverse(r)

(* fetch() was aborted: `if (error.name === "AbortError") return`. *)
ResumeReverseFetch(r) ==
  /\ reversePhase[r] = "fetch_aborted"
  /\ FinishReverse(r)
  /\ UNCHANGED <<panel, targets, line>>

(* Reading the body was aborted: the payload is {}. *)
ResumeReverseBody(r) ==
  /\ reversePhase[r] = "body_aborted"
  /\ IF reverseOk[r] THEN RenderReverse(r, "none") ELSE RenderReverseError(r)
  /\ FinishReverse(r)

-----------------------------------------------------------------------------
AnswerReverse(r) ==
  \/ \E isOk \in BOOLEAN : ReverseResponds(r, isOk)
  \/ ReverseDisconnects(r)
  \/ \E payload \in ReversePayloads : ReverseRead(r, payload)

ResumeReverse(r) == ResumeReverseFetch(r) \/ ResumeReverseBody(r)

ReverseNext ==
  \/ RunReverse
  \/ ClearReverseResult
  \/ \E r \in StartedClicks : AnswerReverse(r) \/ ResumeReverse(r)

(* The browser runs the continuations, and every request is answered or     *)
(* fails; nothing makes the user act.                                       *)
ReverseFairness ==
  \A r \in Clicks :
    WF_reverseVars(r <= clicks /\ (AnswerReverse(r) \/ ResumeReverse(r)))

ReverseSpec == ReverseInit /\ [][ReverseNext]_reverseVars
FairReverseSpec == ReverseSpec /\ ReverseFairness

-----------------------------------------------------------------------------
(* Properties *)

(* What the panel says of a request that found nothing. *)
WithoutAddress == {"No address found", "Address unavailable"}

(* The last click decides, whatever answers arrive late.  The markers, the  *)
(* line and any address named are its own, and none is left after a clear.  *)
(* Once it has ended, the panel shows its coordinates and its outcome.      *)
(* Until then, and after a clear, an aborted request whose body was being   *)
(* read may still bring up its own coordinates (CoordsStayShown), but       *)
(* without an address and without a spinner.                                *)
LastClickDecides ==
  /\ origins \cup targets \cup ({line} \ {None})
       \subseteq (IF cleared THEN {} ELSE {clicks})
  /\ line # None => line \in targets
  /\ panel.address # None =>
       panel.shown /\ ~ cleared /\ panel.address = clicks /\ panel.coords = clicks
  /\ panel.shown =>
       \/ ~ cleared /\ panel.coords = clicks
       \/ panel.label \in WithoutAddress /\ ~ panel.spinning
  /\ clicks > 0 /\ ~ cleared /\ reversePhase[clicks] = "done" =>
       panel.shown /\ panel.coords = clicks /\ ~ panel.spinning

(* When the last click has not been cleared, the panel ends up with that    *)
(* click's own outcome and coordinates, late continuations of earlier       *)
(* clicks notwithstanding.                                                  *)
LastClickSettles ==
  []<>(\/ clicks = 0
       \/ cleared
       \/ panel.shown /\ ~ panel.spinning /\ panel.coords = clicks)

(* "The clicked coordinates are known immediately and stay shown for the    *)
(* whole lifetime of the result" (demo/app.js): while a click is being      *)
(* looked up, the panel shows its coordinates. The code does not keep this: *)
(* an aborted body read as {} shows the earlier click (README, section 5).  *)
CoordsStayShown ==
  currentReverse # None => panel.shown /\ panel.coords = currentReverse
=============================================================================
