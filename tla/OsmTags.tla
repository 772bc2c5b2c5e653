-------------------------------- MODULE OsmTags --------------------------------
(***************************************************************************)
(* What the builder asks of the tags of an OpenStreetMap element           *)
(* (src/builder/osm/tags.rs and the predicates of address.rs, place.rs,    *)
(* street.rs and boundary.rs).  Tags are a function from keys to values; a *)
(* value that whitespace cleaning empties is Blank.                        *)
(***************************************************************************)
EXTENDS Naturals, TLC

CONSTANTS
  Blank,              \* a value of whitespace only
  None,               \* an absent value
  CanonicalPostcode   \* postcode value -> its cleaned form, or None

ASSUME TagsAssumption == Blank # None

AddrKeys == {"addr:housenumber", "addr:street", "addr:place", "addr:unit",
             "addr:city", "addr:state", "addr:postcode", "addr:country",
             "addr:interpolation"}

NoTags == [key \in {} |-> None]

Only(tags, keys) == [key \in DOMAIN tags \cap keys |-> tags[key]]

(* collect_clean_tags: blank values are dropped when an element is read, so *)
(* afterwards a key that is there has a value.                              *)
CleanTags(raw) == Only(raw, {key \in DOMAIN raw : raw[key] # Blank})
Has(tags, key) == key \in DOMAIN tags
Cleaned(tags, key) == IF Has(tags, key) THEN tags[key] ELSE None

AddrTags(tags) == Only(tags, AddrKeys)

-----------------------------------------------------------------------------
(* Addresses *)

(* validate_address_tags: the issue, or None. *)
AddressIssue(addr) ==
  CASE ~Has(addr, "addr:housenumber") -> "missing_housenumber"
    [] Has(addr, "addr:housenumber") /\ ~Has(addr, "addr:street")
                                     /\ ~Has(addr, "addr:place")
         -> "missing_street_or_place"
    [] OTHER -> None

-----------------------------------------------------------------------------
(* Streets *)

MissingStreetNameIssue(tags) ==
  IF Has(tags, "ref") THEN "street_ref_only_name" ELSE "street_missing_name"

-----------------------------------------------------------------------------
(* Places and boundaries *)

PlaceLayer(value) ==
  CASE value = "country" -> "country"
    [] value \in {"state", "province", "region"} -> "region"
    [] value \in {"county", "district", "municipality"} -> "district"
    [] value \in {"city", "town", "village", "hamlet", "locality"} -> "locality"
    [] value \in {"suburb", "neighbourhood", "quarter", "borough"}
         -> "neighbourhood"
    [] value \in {"island", "islet", "farm", "isolated_dwelling"} -> "place"
    [] OTHER -> None

AdminLevelLayer(level) ==
  CASE level = "2"  -> "country"
    [] level = "4"  -> "region"
    [] level = "6"  -> "district"
    [] level = "8"  -> "locality"
    [] level = "10" -> "neighbourhood"
    [] OTHER -> None

(* admin_boundary_parts: the layer of an administrative boundary, or None. *)
BoundaryLayer(tags) ==
  IF Cleaned(tags, "boundary") = "administrative" /\ Has(tags, "name")
  THEN AdminLevelLayer(Cleaned(tags, "admin_level"))
  ELSE None

HasAdminBoundaryTags(tags) == BoundaryLayer(tags) # None

(* country_code_from_tags; the value of ISO3166-2 is already its country    *)
(* part, or None where it has no two letters before a dash.                 *)
CountryCode(tags, layer) ==
  CASE layer = "country" /\ Has(tags, "ISO3166-1:alpha2")
         -> tags["ISO3166-1:alpha2"]
    [] layer = "country" /\ ~Has(tags, "ISO3166-1:alpha2")
         -> Cleaned(tags, "country_code")
    [] layer = "region" -> Cleaned(tags, "ISO3166-2")
    [] OTHER -> None
=============================================================================
