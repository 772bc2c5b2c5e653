---------------------------- MODULE ReverseCascade ----------------------------
(***************************************************************************)
(* One reverse query (src/reverse.rs).  The geocoder takes the first of    *)
(* four kinds of match that can be had, and fills the context of the       *)
(* answer from three sources: the parents a boundary build stored for the  *)
(* match, the match itself, and the context records nearby.  A field keeps *)
(* the first value it gets, and the records that gave one are listed as    *)
(* evidence.                                                               *)
(*                                                                         *)
(* Candidates come from the spatial index in the order CellDirectory       *)
(* proves of them.  Labels and positions are left out; the house number of *)
(* an estimate is in Interpolation.                                        *)
(***************************************************************************)
EXTENDS Naturals, Sequences, Functions

CONSTANTS
  Ids,            \* record ids
  Values,         \* names and postcodes
  Archive,        \* what the archive holds: a kind and values per id
  BoundaryContext,\* what the admin context holds: parents per id, or None
  Queries,        \* what the spatial index answers to a query
  None,
  Blank           \* a value of spaces only

ContextLayers ==
  {"place", "neighbourhood", "locality", "district", "region", "country", "postcode"}
Fields == {"street"} \cup ContextLayers
Kinds  == {"address", "interpolation", "street"} \cup ContextLayers
MatchKinds == {"explicit_address", "estimated_address", "nearest_street", "context_only"}

(* The order of parent_record_ids.                                          *)
ParentOrder == <<"place", "neighbourhood", "locality", "district", "region", "country">>

Option(S) == S \cup {None}

Contexts == [Fields -> Option(Values)]
Results  == [kind : MatchKinds, primary : Ids, context : Contexts, evidence : Seq(Ids)]

ASSUME ArchiveAssumption ==
  Archive \in [Ids -> [kind : Kinds, values : [Fields -> Values \cup {None, Blank}]]]
ASSUME BoundaryAssumption ==
  BoundaryContext \in [Ids -> Option([ContextLayers -> Option(Ids)])]
ASSUME QueriesAssumption ==
  Queries \subseteq [address : Option(Ids), estimates : Seq(Ids), street : Option(Ids),
                     nearby : Seq(Ids)]
ASSUME NoneAssumption ==
  /\ None \notin Ids /\ None \notin Values /\ None \notin MatchKinds /\ None \notin Results
  /\ Blank \notin Values

VARIABLES
  query,          \* the candidates, and the records nearby
  stage,          \* what the geocoder is at
  tried,          \* interpolations tried
  match, kind,    \* the record matched and how, or None
  list, at,       \* the records a loop goes over
  seen,           \* records it has seen
  context,        \* the fields found so far
  evidence,       \* context_record_ids
  answer          \* None, or the result

loop == <<list, at, seen>>
vars == <<query, stage, tried, match, kind, loop, context, evidence, answer>>

-----------------------------------------------------------------------------
(* The archive *)

(* PackReader::address and its siblings answer only for a row of the kind.  *)
IsA(id, k)    == id # None /\ Archive[id].kind = k
IsContext(id) == id # None /\ Archive[id].kind \in ContextLayers

FieldsOf(k) ==
  CASE k \in {"address", "interpolation"} ->
         {"street", "place", "postcode", "locality", "region", "country"}
    [] k = "street" -> {"street"}
    [] OTHER -> {k}

(* The values a record gives: those of its kind that are not blank.         *)
Gives(id) ==
  [field \in Fields |->
     IF field \in FieldsOf(Archive[id].kind) /\ Archive[id].values[field] # Blank
     THEN Archive[id].values[field] ELSE None]

(* A tuple's parents and the postcode, in their order, gaps included.       *)
Parents(id) ==
  IF BoundaryContext[id] = None THEN <<>>
  ELSE [i \in 1..Len(ParentOrder) + 1 |->
          IF i <= Len(ParentOrder) THEN BoundaryContext[id][ParentOrder[i]]
          ELSE BoundaryContext[id]["postcode"]]

Nothing == [field \in Fields |-> None]

-----------------------------------------------------------------------------
(* Matching *)

Init ==
  /\ query \in Queries
  /\ stage = "address"
  /\ tried = 0
  /\ match = None /\ kind = None
  /\ list = <<>> /\ at = 0 /\ seen = {}
  /\ context = Nothing
  /\ evidence = <<>>
  /\ answer = None

(* set_if_missing, set_option_if_missing *)
Filled(given) ==
  [field \in Fields |-> IF context[field] = None THEN given[field] ELSE context[field]]

(* The loops of enrich_record_context and enrich_context begin alike.       *)
Enrich(records, next) ==
  /\ stage' = next
  /\ list' = records
  /\ at' = 0
  /\ seen' = Range(evidence)

Matched(id, how) ==
  /\ match' = id
  /\ kind' = how
  /\ Enrich(Parents(id), "parents")
  /\ UNCHANGED <<query, evidence, answer>>

FindAddress ==
  /\ stage = "address"
  /\ IsA(query.address, "address")
  /\ Matched(query.address, "explicit_address")
  /\ UNCHANGED <<tried, context>>

NoAddress ==
  /\ stage = "address"
  /\ ~ IsA(query.address, "address")
  /\ stage' = "estimates"
  /\ UNCHANGED <<query, tried, match, kind, loop, context, evidence, answer>>

TryEstimate ==
  /\ stage = "estimates"
  /\ tried < Len(query.estimates)
  /\ tried' = tried + 1
  /\ LET id == query.estimates[tried + 1]
     IN IF IsA(id, "interpolation")
        THEN Matched(id, "estimated_address") /\ UNCHANGED context
        ELSE UNCHANGED <<query, stage, match, kind, loop, context, evidence, answer>>

NoEstimate ==
  /\ stage = "estimates"
  /\ tried = Len(query.estimates)
  /\ stage' = "street"
  /\ UNCHANGED <<query, tried, match, kind, loop, context, evidence, answer>>

(* A street names itself before its parents are asked.                      *)
FindStreet ==
  /\ stage = "street"
  /\ IsA(query.street, "street")
  /\ Matched(query.street, "nearest_street")
  /\ context' = Filled(Gives(query.street))
  /\ UNCHANGED tried

(* Nothing to match: context_only goes straight to the records nearby.      *)
NoStreet ==
  /\ stage = "street"
  /\ ~ IsA(query.street, "street")
  /\ kind' = "context_only"
  /\ Enrich(query.nearby, "nearby")
  /\ UNCHANGED <<query, tried, match, context, evidence, answer>>

-----------------------------------------------------------------------------
(* Filling the context *)

(* Mutant of VisitRecord: a record that has a value is evidence. *)
VisitRecordAgain ==
  /\ stage \in {"parents", "nearby"}
  /\ at < Len(list)
  /\ at' = at + 1
  /\ LET id == list[at + 1]
     IN IF ~ IsContext(id)
        THEN UNCHANGED <<seen, context, evidence>>
        ELSE /\ seen' = seen \cup {id}
             /\ context' = Filled(Gives(id))
             /\ evidence' = IF Gives(id) # Nothing THEN Append(evidence, id) ELSE evidence
  /\ UNCHANGED <<query, stage, tried, match, kind, list, answer>>

(* apply_context_record: evidence is what set a field.                      *)
VisitRecord ==
  /\ stage \in {"parents", "nearby"}
  /\ at < Len(list)
  /\ at' = at + 1
  /\ LET id == list[at + 1]
     IN IF id = None \/ id \in seen
        THEN UNCHANGED <<seen, context, evidence>>
        ELSE /\ seen' = seen \cup {id}
             /\ IF IsContext(id) /\ Filled(Gives(id)) # context
                THEN /\ context' = Filled(Gives(id))
                     /\ evidence' = Append(evidence, id)
                ELSE UNCHANGED <<context, evidence>>
  /\ UNCHANGED <<query, stage, tried, match, kind, list, answer>>

(* Mutant of EndParents: the match is not asked. *)
EndParentsOnly ==
  /\ stage = "parents"
  /\ at = Len(list)
  /\ Enrich(query.nearby, "nearby")
  /\ UNCHANGED <<query, tried, match, kind, context, evidence, answer>>

(* apply_address_context, apply_interpolation_context.                      *)
EndParents ==
  /\ stage = "parents"
  /\ at = Len(list)
  /\ context' = IF kind = "nearest_street" THEN context ELSE Filled(Gives(match))
  /\ Enrich(query.nearby, "nearby")
  /\ UNCHANGED <<query, tried, match, kind, evidence, answer>>

Result(primary) ==
  [kind |-> kind, primary |-> primary, context |-> context, evidence |-> evidence]

(* Mutant of Answer: the nearest record is named, whether it told anything. *)
AnswerNearest ==
  /\ stage = "nearby"
  /\ at = Len(list)
  /\ stage' = "answered"
  /\ answer' = IF match # None THEN Result(match)
               ELSE IF evidence # <<>> THEN Result(list[1])
               ELSE None
  /\ UNCHANGED <<query, tried, match, kind, loop, context, evidence>>

(* Without a match, the first evidence is the primary record.               *)
Answer ==
  /\ stage = "nearby"
  /\ at = Len(list)
  /\ stage' = "answered"
  /\ answer' = IF match # None THEN Result(match)
               ELSE IF evidence # <<>> THEN Result(evidence[1])
               ELSE None
  /\ UNCHANGED <<query, tried, match, kind, loop, context, evidence>>

(* Any read of the archive or the context can be an error.                  *)
Fail ==
  /\ stage \notin {"answered", "failed"}
  /\ stage' = "failed"
  /\ UNCHANGED <<query, tried, match, kind, loop, context, evidence, answer>>

Next ==
  \/ FindAddress \/ NoAddress \/ TryEstimate \/ NoEstimate \/ FindStreet \/ NoStreet
  \/ VisitRecord \/ EndParents \/ Answer \/ Fail

Spec == Init /\ [][Next]_vars

-----------------------------------------------------------------------------
(* Properties *)

Stages == {"address", "estimates", "street", "parents", "nearby", "answered", "failed"}
(* Each variable holds a value of its kind; loops stay in their lists.      *)
TypeOK ==
  /\ query \in Queries
  /\ stage \in Stages
  /\ tried \in 0..Len(query.estimates)
  /\ match \in Option(Ids) /\ kind \in Option(MatchKinds)
  /\ list \in Seq(Option(Ids)) /\ at \in 0..Len(list)
  /\ seen \subseteq Ids
  /\ context \in Contexts
  /\ evidence \in Seq(Ids)
  /\ answer \in Option(Results)

(* Everything that may give a field, in the order of precedence: what a     *)
(* boundary stored goes before what an address says of itself, and that     *)
(* before what is nearby; only a street names itself first.                 *)
Own        == <<[record |-> None, gives |-> Gives(match)]>>
Source(id) == [record |-> id, gives |-> IF IsContext(id) THEN Gives(id) ELSE Nothing]
FromParents == [i \in 1..Len(Parents(match)) |-> Source(Parents(match)[i])]
FromNearby  == [i \in 1..Len(query.nearby) |-> Source(query.nearby[i])]

Sources ==
  CASE kind \in {"explicit_address", "estimated_address"} -> FromParents \o Own \o FromNearby
    [] kind = "nearest_street" -> Own \o FromParents \o FromNearby
    [] OTHER -> FromNearby

(* Source i is the first to give the field.                                 *)
GivesFirst(i, field) ==
  /\ Sources[i].gives[field] # None
  /\ \A j \in 1..i - 1 : Sources[j].gives[field] = None

(* The value a field must have after n sources.                             *)
IsFirstGiven(field, n) ==
  IF context[field] = None
  THEN \A i \in 1..n : Sources[i].gives[field] = None
  ELSE \E i \in 1..n : GivesFirst(i, field) /\ context[field] = Sources[i].gives[field]

(* Every field of an answer has the value of the first source that gives    *)
(* one, although the loops skip what they have seen, start `seen` anew for  *)
(* each list, and share one context across all stages.                      *)
FieldsComeFirst ==
  stage = "answered" => \A field \in Fields : IsFirstGiven(field, Len(Sources))

IsFirstSource(i) == \E field \in Fields : GivesFirst(i, field)

(* The evidence of an answer is exactly the context records that gave one   *)
(* of its fields, each once.                                                *)
EvidenceExact ==
  stage = "answered" =>
    /\ Range(evidence) =
         {Sources[i].record : i \in {i \in 1..Len(Sources) : IsFirstSource(i)}} \ {None}
    /\ IsInjective(evidence)

(* The answer is of the best kind there is, and names the nearest record of *)
(* that kind; without a match it names the nearest record that gives        *)
(* anything, and there is no answer only if none does.                      *)
Usable == {i \in 1..Len(query.estimates) : IsA(query.estimates[i], "interpolation")}
Telling == {i \in 1..Len(query.nearby) : FromNearby[i].gives # Nothing}

NearestOf(positions, records) ==
  \E i \in positions : answer.primary = records[i] /\ \A j \in positions : i <= j

BestMatchNamed ==
  stage = "answered" =>
    IF IsA(query.address, "address")
    THEN answer # None /\ answer.kind = "explicit_address" /\ answer.primary = query.address
    ELSE IF Usable # {}
    THEN answer # None /\ answer.kind = "estimated_address" /\ NearestOf(Usable, query.estimates)
    ELSE IF IsA(query.street, "street")
    THEN answer # None /\ answer.kind = "nearest_street" /\ answer.primary = query.street
    ELSE IF Telling # {}
    THEN answer # None /\ answer.kind = "context_only" /\ NearestOf(Telling, query.nearby)
    ELSE answer = None
=============================================================================
