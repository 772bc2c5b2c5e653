------------------------------ MODULE ContextTable ------------------------------
(***************************************************************************)
(* What the admin context of a pack promises (src/context.rs): a table     *)
(* from records to contexts, filled while the pack is built, visible all   *)
(* at once, and then only read.  The first context given to a record is    *)
(* its context.                                                            *)
(***************************************************************************)
CONSTANTS
  RecordIds,      \* ids of records
  Contexts,       \* contexts a record may be given
  None            \* no context, nobody asked

VARIABLES
  published,      \* readers see the table
  table,          \* [record, context] entries
  asked,          \* the record a reader asks for
  answer          \* what it is told: {} while waiting

vars == <<published, table, asked, answer>>

Init ==
  /\ published = FALSE
  /\ table = {}
  /\ asked = None
  /\ answer = {}

Add(record, context) ==
  /\ ~ published
  /\ \A entry \in table : entry.record # record
  /\ table' = table \cup {[record |-> record, context |-> context]}
  /\ UNCHANGED <<published, asked, answer>>

Publish ==
  /\ published' = TRUE
  /\ UNCHANGED <<table, asked, answer>>

Ask(record) ==
  /\ published
  /\ asked' = record
  /\ answer' = {}
  /\ UNCHANGED <<published, table>>

ContextOf(record) ==
  IF \E entry \in table : entry.record = record
  THEN {entry.context : entry \in {entry \in table : entry.record = record}}
  ELSE {None}

Reply ==
  /\ asked # None
  /\ answer = {}
  /\ answer' = ContextOf(asked)
  /\ UNCHANGED <<published, table, asked>>

Next ==
  \/ \E record \in RecordIds, context \in Contexts : Add(record, context)
  \/ Publish
  \/ \E record \in RecordIds : Ask(record)
  \/ Reply

Spec == Init /\ [][Next]_vars
=============================================================================
