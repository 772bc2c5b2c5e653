------------------------------- MODULE PackLog -------------------------------
(***************************************************************************)
(* What a pack build promises, with no files in it.                        *)
(*                                                                         *)
(* A build accepts records and rejections one at a time, each numbered by  *)
(* the order in which it was accepted.  What readers can see is either no  *)
(* pack or exactly the log of one build, made visible in a single step at  *)
(* the end of that build.  A later build first withdraws what is visible.  *)
(* PackWriter implements this specification (PackWriter!Log).              *)
(***************************************************************************)
EXTENDS Naturals

CONSTANTS Layers,   \* layer names a record can be filed under
          Hints,    \* layer hints a rejection can carry
          NoPack    \* what readers see when no complete pack is there

VARIABLES status,   \* "idle" between builds, "open" while a build accepts
          count,    \* records accepted by the current build
          log,      \* record number -> layer
          rejects,  \* rejections accepted by the current build
          hints,    \* rejection number -> layer hint
          visible   \* NoPack, or the content of the published pack

vars == <<status, count, log, rejects, hints, visible>>

(***************************************************************************)
(* A table of n rows numbered from 0, extended by one row.                 *)
(***************************************************************************)
Extend(table, n, row) == [i \in 0..n |-> IF i = n THEN row ELSE table[i]]

EmptyTable == [i \in {} |-> 0]

Init ==
  /\ status = "idle"
  /\ count = 0
  /\ log = EmptyTable
  /\ rejects = 0
  /\ hints = EmptyTable
  /\ visible = NoPack

(* A new build takes the published pack away before it starts. *)
Withdraw ==
  /\ status = "idle"
  /\ visible' = NoPack
  /\ UNCHANGED <<status, count, log, rejects, hints>>

Begin ==
  /\ status = "idle"
  /\ visible = NoPack
  /\ status' = "open"
  /\ count' = 0
  /\ log' = EmptyTable
  /\ rejects' = 0
  /\ hints' = EmptyTable
  /\ UNCHANGED visible

Accept ==
  /\ status = "open"
  /\ \E layer \in Layers : log' = Extend(log, count, layer)
  /\ count' = count + 1
  /\ UNCHANGED <<status, rejects, hints, visible>>

Reject ==
  /\ status = "open"
  /\ \E hint \in Hints : hints' = Extend(hints, rejects, hint)
  /\ rejects' = rejects + 1
  /\ UNCHANGED <<status, count, log, visible>>

Publish ==
  /\ status = "open"
  /\ status' = "idle"
  /\ visible' = [records |-> log, rejections |-> hints]
  /\ UNCHANGED <<count, log, rejects, hints>>

(* The build stops before its end: nothing becomes visible. *)
Abandon ==
  /\ status = "open"
  /\ status' = "idle"
  /\ UNCHANGED <<count, log, rejects, hints, visible>>

Next == Withdraw \/ Begin \/ Accept \/ Reject \/ Publish \/ Abandon

Spec == Init /\ [][Next]_vars
=============================================================================
