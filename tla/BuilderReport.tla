----------------------------- MODULE BuilderReport -----------------------------
(***************************************************************************)
(* The build report (src/builder/report.rs): what is counted for every     *)
(* accepted and every rejected candidate.  A BTreeMap of counters is a     *)
(* bag; the whole report is one bag of counter names, <<map, key>> pairs,  *)
(* and the samples kept for each bucket, the first SampleCap of each.      *)
(***************************************************************************)
EXTENDS OsmTags, Sequences, FiniteSets, Bags

CONSTANT SampleCap   \* MAX_*_SAMPLES_PER_*BUCKET, 5 in the code

ASSUME SampleAssumption == SampleCap \in Nat

EmptyReport == [counters |-> EmptyBag, samples |-> [key \in {} |-> <<>>]]

Count(report, names) == [report EXCEPT !.counters = @ (+) SetToBag(names)]
Counted(report, name) ==
  IF name \in DOMAIN report.counters THEN report.counters[name] ELSE 0

Samples(report, key) ==
  IF key \in DOMAIN report.samples THEN report.samples[key] ELSE <<>>

AddSample(report, key, sample) ==
  IF Len(Samples(report, key)) < SampleCap
  THEN [report EXCEPT !.samples = (key :> Append(Samples(report, key), sample)) @@ @]
  ELSE report

-----------------------------------------------------------------------------
(* Accepted records *)

AcceptLayer(report, layer, kind) ==
  Count(report, {<<"accepted", "total">>, <<"accepted.by_layer", layer>>,
                 <<"accepted", kind>>})

AcceptInterpolation(report) ==
  AcceptLayer(report, "interpolation", "interpolation_ranges")
AcceptStreet(report)        == AcceptLayer(report, "street", "street_segments")
AcceptPostcode(report)      == AcceptLayer(report, "postcode", "postcode_records")
AcceptPlace(report, layer)  == AcceptLayer(report, layer, "place_nodes")

(* An accepted address is [source, precision, fields], fields being the tag *)
(* keys of the components it has.                                           *)
AddressFields == {"addr:street", "addr:place", "addr:unit", "addr:city",
                  "addr:state", "addr:postcode", "addr:country"}
AdminFields   == {"addr:city", "addr:state", "addr:country"}
SourceFields  == AdminFields \cup {"addr:postcode"}

(* accept_address_with_tags and record_address_quality.  An address always  *)
(* has point geometry, so it is always enrichable by point.                 *)
QualityCounters(address) ==
  LET missing == SourceFields \ address.fields
  IN {<<"quality", "total">>, <<"quality", "enrichable_by_point">>,
      <<"quality.precision", address.precision>>,
      <<"quality.shape", address.fields>>,
      <<"quality.admin", IF AdminFields \subseteq address.fields
                         THEN "full" ELSE "missing_any">>}
     \cup {<<"quality.has", field>> : field \in address.fields}
     \cup {<<"quality.missing", field>> : field \in missing}
     \cup {<<"completeness", field>> : field \in SourceFields \ missing}

QualitySamples(report, address) ==
  LET missing == AdminFields \ address.fields
      sample  == [source |-> address.source, missing |-> missing]
      r1 == IF missing # {}
            THEN AddSample(report, <<"missing_admin_context">>, sample) ELSE report
      r2 == IF "addr:postcode" \notin address.fields
            THEN AddSample(r1, <<"missing_postcode">>,
                           [sample EXCEPT !.missing = {"addr:postcode"}])
            ELSE r1
  IN IF SourceFields \subseteq address.fields
     THEN AddSample(r2, <<"complete_source_context">>,
                    [sample EXCEPT !.missing = {}])
     ELSE r2

AcceptAddress(report, address) ==
  LET kind == IF address.precision = "point"
              THEN "node_addresses" ELSE "way_centroid_addresses"
      accepted == AcceptLayer(report, "address", kind)
  IN QualitySamples(Count(accepted, QualityCounters(address)), address)

-----------------------------------------------------------------------------
(* Rejected candidates *)

InterpolationIssues ==
  {"interpolation_unsupported_value", "interpolation_unsupported_object",
   "interpolation_way_without_nodes", "interpolation_unresolved_geometry",
   "interpolation_missing_anchors", "interpolation_insufficient_numeric_anchors",
   "interpolation_missing_street_or_place", "interpolation_anchor_street_mismatch",
   "interpolation_invalid_number_range", "interpolation_invalid_parity",
   "interpolation_non_numeric_anchor"}
StreetNameIssues == {"street_missing_name", "street_ref_only_name"}
PlaceIssues      == {"place_missing_name", "place_unsupported_value"}
GeometryIssues ==
  {"way_without_resolved_nodes", "interpolation_way_without_nodes",
   "interpolation_unresolved_geometry", "street_unresolved_geometry"}
UnsupportedIssues ==
  {"unsupported_relation", "interpolation_unsupported_value",
   "interpolation_unsupported_object"}

Disposition(issue) ==
  CASE issue \in GeometryIssues                    -> "unresolved_geometry"
    [] issue \in UnsupportedIssues                 -> "unsupported"
    [] issue \in StreetNameIssues \cup PlaceIssues -> "out_of_scope"
    [] OTHER                                       -> "invalid"

(* audit_rejection: the audit an issue belongs to. *)
AuditOf(issue) ==
  CASE issue \in {"missing_housenumber", "missing_street_or_place"} -> issue
    [] issue \in InterpolationIssues                -> "interpolation"
    [] issue \in {"unsupported_relation"} \cup PlaceIssues -> "unsupported_relation"
    [] OTHER                                        -> "unresolved_geometry"

(* The shape a rejection is filed under: what tells the shapes of partial   *)
(* addresses apart is the set of address keys below.                        *)
AddressShape(issue, addr) ==
  LET keys == DOMAIN addr
      rest == keys \cap {"addr:city", "addr:postcode"}
      road == keys \cap {"addr:street", "addr:place"}
  IN CASE issue = "missing_housenumber" ->
            IF "addr:interpolation" \in keys THEN {"addr:interpolation"}
            ELSE IF road # {} THEN road ELSE rest
       [] issue = "missing_street_or_place" ->
            IF "addr:housenumber" \notin keys THEN {}
            ELSE {"addr:housenumber"} \cup
                 (IF "addr:unit" \in keys THEN {"addr:unit"} ELSE rest)
       [] issue = "unsupported_relation" -> keys \cap {"addr:interpolation"}
       [] issue \in InterpolationIssues -> {"interpolation"}
       [] OTHER -> {issue}

PoiKeys == {"aeroway", "amenity", "club", "craft", "emergency",
            "healthcare", "historic", "leisure", "man_made", "natural",
            "office", "public_transport", "railway", "shop", "sport",
            "tourism"}

FeatureContexts(tags) ==
  LET found == {key \in {"building", "name", "highway"} : Has(tags, key)}
                 \cup {poi \in {"poi_or_venue"} : DOMAIN tags \cap PoiKeys # {}}
  IN IF found = {} THEN {"no_feature_context"} ELSE found

AuditCounters(issue, type, tags, addr) ==
  LET audit == AuditOf(issue)
  IN {<<audit, "shape", AddressShape(issue, addr)>>, <<audit, "type", {type}>>}
     \cup {<<audit, "addr_key", {key}>> : key \in DOMAIN addr}
     \cup {<<audit, "context", {context}>> : context \in FeatureContexts(tags)}

(* triage_rejection: the bucket, from the issue and for unnamed highways    *)
(* from the tags.                                                           *)
MinorPaths ==
  {"bridleway", "bus_stop", "corridor", "crossing", "cycleway", "elevator",
   "escape", "footway", "give_way", "path", "platform", "raceway", "rest_area",
   "speed_camera", "steps", "stop", "street_lamp", "track", "trailhead",
   "traffic_mirror", "traffic_signals"}
AddressableRoads ==
  {"living_street", "motorway", "primary", "residential", "road", "secondary",
   "tertiary", "trunk", "unclassified"}
LifecycleKeys == {"construction", "proposed", "abandoned", "disused", "razed"}

UnnamedHighwayBucket(tags) ==
  LET highway == Cleaned(tags, "highway")
      notCurrent == \/ highway \in {"construction", "proposed"}
                    \/ DOMAIN tags \cap LifecycleKeys # {}
  IN IF Has(tags, "addr:housenumber")
     THEN "not_a_street_gap_address_processed_separately"
     ELSE IF notCurrent \/ highway \in MinorPaths \cup {None, "service"}
     THEN "likely_not_useful_for_geocoding"
     ELSE IF highway \in AddressableRoads
     THEN "likely_usable_missing_source_data"
     ELSE "needs_review"

TriageBucket(issue, tags) ==
  CASE issue = "street_missing_name"  -> UnnamedHighwayBucket(tags)
    [] issue = "street_ref_only_name" -> "needs_model_decision"
    [] issue \in {"missing_housenumber", "missing_street_or_place"}
         -> "likely_usable_missing_source_data"
    [] issue \in {"unsupported_relation", "interpolation_unsupported_object"}
         -> "needs_parser_support"
    [] issue \in GeometryIssues -> "needs_geometry_resolution"
    [] issue \in PlaceIssues    -> "likely_not_useful_for_geocoding"
    [] OTHER                    -> "invalid_source_data"

StreetNameGaps(issue, tags, bucket) ==
  IF issue \notin StreetNameIssues THEN {}
  ELSE {<<"gaps.bucket", bucket>>, <<"gaps.highway", Cleaned(tags, "highway")>>}
       \cup {<<"gaps.service", tags[key]>> : key \in DOMAIN tags \cap {"service"}}

(* reject_with_context.  A rejection is [issue, source, tags, addr, hint,   *)
(* write]: addr is None where the caller passes no address tags, which      *)
(* leaves the audit out, and write says whether a row is written for it.    *)
RejectWithContext(report, rejection) ==
  LET issue  == rejection.issue
      bucket == TriageBucket(issue, rejection.tags)
      audit  == IF rejection.addr = None THEN {}
                ELSE AuditCounters(issue, rejection.source[1], rejection.tags,
                                   rejection.addr)
      counters == {<<"rejected", "total">>, <<"rejected.by_reason", issue>>,
                   <<"disposition", Disposition(issue)>>,
                   <<"disposition.by_reason", issue>>,
                   <<"triage.by_bucket", bucket>>, <<"triage", <<issue, bucket>>>>}
                  \cup audit \cup StreetNameGaps(issue, rejection.tags, bucket)
  IN AddSample(Count(report, counters), <<issue, bucket>>,
               [source |-> rejection.source, hint |-> rejection.hint,
                write |-> rejection.write])
=============================================================================
