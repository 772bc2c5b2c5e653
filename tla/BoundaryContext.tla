---------------------------- MODULE BoundaryContext ----------------------------
(***************************************************************************)
(* From boundaries to the context of a point                               *)
(* (src/builder/osm/boundary.rs).  A relation whose ways give a ring joins *)
(* the other boundaries of a build; all get their records and their place  *)
(* in the index.  Those that cover a point come out of an R-tree in an     *)
(* order of its own; in each layer one of them is chosen, the record's own *)
(* address being asked first, and a region lends its country where no      *)
(* country covers the point.                                               *)
(***************************************************************************)
EXTENDS BoundaryRecords, BoundaryRings

CONSTANTS
  Relation,  \* the boundary that the relation stands for
  Others,    \* member ways -> lists of the other boundaries of a build, ways
             \* before relations, each by id
  Sources    \* the names a record's own address may give: layer -> name

Layers == <<"country", "region", "district", "locality", "neighbourhood", "place">>

(* Areas, ids, and codes in their order are numbers.  The admin_level says  *)
(* no more than the layer does.                                             *)
Boundaries ==
  [source : {"way", "relation"} \X Nat, layer : Range(Layers),
   code : Nat \cup {None}, name : STRING, area : Nat]

(* Sources are unique in a build. *)
ASSUME BuildsAssumption ==
  /\ Relation \in Boundaries
  /\ \A ways \in Members : Others[ways] \subseteq Seq(Boundaries)
  /\ \A ways \in Members : \A others \in Others[ways] :
       \A i, j \in 1..Len(others) + 1 :
         LET all == Append(others, Relation)
         IN all[i].source = all[j].source => i = j

ASSUME NoneAssumption == None \notin Nat /\ None \notin Sources

VARIABLES
  built,       \* boundaries with an area, or None before they are written
  accepted,    \* the index: boundaries with their record ids
  names,       \* the record's own address, by layer, or None
  covering,    \* boundaries of the index that cover the point
  found,       \* those the R-tree has returned so far
  assignment   \* [context, ambiguous], or None

pointVars == <<names, covering, found, assignment>>
vars      == <<ringVars, built, accepted, pointVars>>

-----------------------------------------------------------------------------
(* The index *)

(* accepted_boundary: record ids follow the order of writing, derived       *)
(* countries first; a boundary knows the record of its derived country.     *)
Accepted(boundaries) ==
  LET derived == DerivedCountries(boundaries)
      Inferred(code) == {i \in DOMAIN derived : derived[i].code = code}
  IN {[record   |-> Len(derived) + i,
       boundary |-> boundaries[i],
       inferred |-> IF Inferred(boundaries[i].code) = {} THEN None
                    ELSE CHOOSE d \in Inferred(boundaries[i].code) : TRUE]
      : i \in DOMAIN boundaries}

-----------------------------------------------------------------------------
(* Choosing a boundary *)

TypeRank(type) == CASE type = "relation" -> 0 [] type = "way" -> 1

Matches(entry, layer) ==
  layer \in DOMAIN names /\ names[layer] = entry.boundary.name

(* Mutant of CompareKey: of two boundaries of one area, neither is first.   *)
CompareKeyAreaOnly(entry, layer) ==
  <<IF Matches(entry, layer) THEN 0 ELSE 1, entry.boundary.area, 0, 0>>

(* compare_boundary; the source decides before the name would.              *)
CompareKey(entry, layer) ==
  <<IF Matches(entry, layer) THEN 0 ELSE 1, entry.boundary.area,
    TypeRank(entry.boundary.source[1]), entry.boundary.source[2]>>

Below(left, right) ==
  \E i \in 1..4 : left[i] < right[i] /\ \A j \in 1..i - 1 : left[j] = right[j]

(* The matches of a layer, by their place among those found. *)
InLayer(layer) == {i \in DOMAIN found : found[i].boundary.layer = layer}

(* choose_boundary: min_by keeps the first of equals. *)
ChooseBoundary(layer) ==
  LET Key(i) == CompareKey(found[i], layer)
  IN found[CHOOSE i \in InLayer(layer) :
             /\ \A j \in InLayer(layer) : ~Below(Key(j), Key(i))
             /\ \A j \in InLayer(layer) : j < i => Below(Key(i), Key(j))]

(* context_for_point, one layer of the tuple: the region comes after the    *)
(* country and lends its own where there is none.                           *)
LayerRecord(layer) ==
  IF InLayer(layer) # {} THEN ChooseBoundary(layer).record
  ELSE IF layer = "country" /\ InLayer("region") # {}
  THEN ChooseBoundary("region").inferred
  ELSE None

-----------------------------------------------------------------------------
(* Behaviour *)

Init ==
  /\ StitchInit
  /\ built = None /\ accepted = {}
  /\ names = None /\ covering = {} /\ found = <<>> /\ assignment = None

Stitch == StitchNext /\ UNCHANGED <<built, accepted, pointVars>>

(* boundary_from_relation: without a ring there is no boundary; whether the *)
(* rings have an area is left open.                                         *)
WriteBoundaries ==
  /\ StitchDone /\ built = None
  /\ \E others \in Others[members] :
       \/ built' = others
       \/ rings # <<>> /\ built' = Append(others, Relation)
  /\ accepted' = Accepted(built')
  /\ UNCHANGED <<ringVars, pointVars>>

(* A record is written; its point and its address are whatever they are.    *)
Ask ==
  /\ built # None /\ names = None
  /\ covering' \in SUBSET accepted
  /\ names' \in Sources
  /\ UNCHANGED <<ringVars, built, accepted, found, assignment>>

(* locate_in_envelope_intersecting, with the exact test after it. *)
Locate(entry) ==
  /\ entry \in covering \ Range(found)
  /\ found' = Append(found, entry)
  /\ UNCHANGED <<ringVars, built, accepted, names, covering, assignment>>

Assign ==
  /\ names # None /\ assignment = None
  /\ Range(found) = covering
  /\ assignment' =
       [context   |-> [layer \in Range(Layers) |-> LayerRecord(layer)],
        ambiguous |-> \E layer \in Range(Layers) : Cardinality(InLayer(layer)) > 1]
  /\ UNCHANGED <<ringVars, built, accepted, names, covering, found>>

Finished == assignment # None /\ UNCHANGED vars

Next ==
  \/ Stitch \/ WriteBoundaries
  \/ Ask \/ (\E entry \in covering : Locate(entry)) \/ Assign
  \/ Finished

Spec == Init /\ [][Next]_vars

-----------------------------------------------------------------------------
(* Properties *)

(* What should decide between two boundaries of a layer, and what decides   *)
(* where that does not.                                                     *)
Preferred(a, b, layer) ==
  \/ Matches(a, layer) /\ ~Matches(b, layer)
  \/ /\ Matches(a, layer) <=> Matches(b, layer)
     /\ a.boundary.area < b.boundary.area

BySource(a, b) ==
  LET s == a.boundary.source
      t == b.boundary.source
  IN \/ s[1] = "relation" /\ t[1] = "way"
     \/ s[1] = t[1] /\ s[2] < t[2]

(* The order in which the R-tree returns the boundaries does not show: a    *)
(* layer with boundaries around the point has the record of the one that    *)
(* the address names, else of the smallest, and among several as good that  *)
(* of a relation before a way and of the smallest id; and whenever there    *)
(* was a choice the context is flagged as ambiguous.                        *)
ChoiceIgnoresOrder ==
  assignment # None => \A layer \in Range(Layers) :
    LET around == {e \in covering : e.boundary.layer = layer}
    IN /\ around # {} => \E e \in around :
            /\ assignment.context[layer] = e.record
            /\ \A o \in around \ {e} :
                 \/ Preferred(e, o, layer)
                 \/ ~Preferred(o, e, layer) /\ BySource(e, o)
       /\ Cardinality(around) > 1 => assignment.ambiguous

(* The country of a context is never at odds with the boundaries: it is     *)
(* that of a boundary around the point, or, where no country boundary is    *)
(* around it, the record derived for the very code of the chosen region,    *)
(* which then no country boundary of the build has.                         *)
CountryFollowsBoundaries ==
  assignment # None /\ assignment.context["country"] # None =>
    LET country == assignment.context["country"]
        around  == {e \in covering : e.boundary.layer = "country"}
        region  == {e \in covering : e.record = assignment.context["region"]}
    IN IF around # {} THEN country \in {e.record : e \in around}
       ELSE \E e \in region :
              /\ country \in DOMAIN DerivedCountries(built)
              /\ DerivedCountries(built)[country].code = e.boundary.code
              /\ e.boundary.code \notin CountryCodes(built)
=============================================================================
