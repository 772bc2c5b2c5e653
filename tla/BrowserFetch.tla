----------------------------- MODULE BrowserFetch -----------------------------
(***************************************************************************)
(* The life of one fetch() with an AbortController, as the demo pages use  *)
(* it (demo/app.js, demo/store-locator.js):                                *)
(*                                                                         *)
(*   const response = await fetch(url, { signal });                        *)
(*   const payload  = await response.json().catch(() => ({}));             *)
(*                                                                         *)
(* The browser is modelled from that use.  abort() rejects the promise the *)
(* request is waiting on; the continuation that was waiting runs as a      *)
(* microtask, after the handler that aborted and before any other event.   *)
(***************************************************************************)
EXTENDS Naturals

CONSTANT None   \* no request, nothing shown

ASSUME NoneAssumption == None \notin Nat

(* A request waits for the response ("fetch"), then for its body ("body").  *)
(* An aborted one has a rejected promise, whose continuation is still to    *)
(* run, before the next event ("fetch_aborted", "body_aborted").            *)
Interrupted(phase) == phase \in {"fetch_aborted", "body_aborted"}

(* Events, timers and network answers are tasks; interrupted continuations  *)
(* are microtasks and run first.  phase is a page's requests.               *)
TaskMayRun(phase) == \A r \in DOMAIN phase : ~ Interrupted(phase[r])

(* AbortController.abort(): a request that has ended is not affected. *)
Aborted(phase) ==
  IF phase = "fetch" THEN "fetch_aborted"
  ELSE IF phase = "body" THEN "body_aborted"
  ELSE phase

=============================================================================
