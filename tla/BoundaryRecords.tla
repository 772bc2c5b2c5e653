---------------------------- MODULE BoundaryRecords ----------------------------
(***************************************************************************)
(* The records written for administrative boundaries                       *)
(* (write_boundary_records in src/builder/osm/boundary.rs): first one      *)
(* derived country for each country that regions name but that has no      *)
(* boundary of its own, then one record for each boundary.  A boundary is  *)
(* a record with at least [source, layer, code], code being the country it *)
(* names or None, and country codes are numbers in their order.            *)
(***************************************************************************)
EXTENDS OsmTags, SequencesExt

CountryCodes(built) == {b.code : b \in {c \in Range(built) : c.layer = "country"}}

(* Mutant of NeedsCountry: a country with a boundary is derived again. *)
NeedsCountryAlways(boundary, built) ==
  boundary.layer = "region" /\ boundary.code # None

NeedsCountry(boundary, built) ==
  /\ boundary.layer = "region"
  /\ boundary.code # None
  /\ boundary.code \notin CountryCodes(built)

(* [code, source], in the order of the codes; of the regions in need of a   *)
(* country the first gives its source.                                      *)
DerivedCountries(built) ==
  LET needy == {i \in DOMAIN built : NeedsCountry(built[i], built)}
      codes == {built[i].code : i \in needy}
      CodeAt(n) == CHOOSE code \in codes : Cardinality({c \in codes : c <= code}) = n
      FirstWith(code) == CHOOSE i \in needy :
                           /\ built[i].code = code
                           /\ \A j \in needy : built[j].code = code => i <= j
  IN [n \in 1..Cardinality(codes) |->
        [code |-> CodeAt(n), source |-> built[FirstWith(CodeAt(n))].source]]
=============================================================================
