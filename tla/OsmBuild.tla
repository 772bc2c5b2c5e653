------------------------------- MODULE OsmBuild -------------------------------
(***************************************************************************)
(* The build of a pack from an OSM file (src/builder/osm.rs and the files  *)
(* beside it): after the scan of module Discovery the file is read twice   *)
(* more, for the member ways of boundaries and for node positions, and     *)
(* the records are written stage by stage, each counted in the report.     *)
(*                                                                         *)
(* A position is whether it is known.  Whether a candidate boundary has an *)
(* area, and what becomes of one pair of interpolation anchors, is left    *)
(* open here (modules BoundaryRings and Interpolation); what the pack      *)
(* writer does with a row is module PackWriter.                            *)
(***************************************************************************)
EXTENDS Discovery, BoundaryRecords

CONSTANTS
  HouseNumbers,   \* house numbers that parse_house_number accepts
  PairIssues      \* bound: issues a pair of anchors is rejected for

(* Two anchors are two nodes, so a pair is never without a line. *)
ASSUME PairAssumption ==
  PairIssues \subseteq InterpolationIssues \ {"interpolation_unresolved_geometry"}

(* An absent value is no issue and no layer. *)
ASSUME AbsentAssumption ==
  None \notin {"missing_housenumber", "missing_street_or_place"}
              \cup InterpolationIssues \cup PlaceIssues
              \cup {"address", "street", "postcode", "interpolation"}

(* Country codes and cleaned postcodes are numbers, to have their order. *)
ASSUME CodesAssumption ==
  /\ None \notin DOMAIN CanonicalPostcode
  /\ \A raw \in DOMAIN CanonicalPostcode : CanonicalPostcode[raw] \in Int \cup {None}
  /\ \A f \in Files : \A e \in Range(Elements(f)) :
       LET tags == CleanTags(e.tags)
       IN /\ Cleaned(tags, "ISO3166-2") \in Int \cup {None}
          /\ Has(tags, "addr:postcode") =>
               tags["addr:postcode"] \in DOMAIN CanonicalPostcode

VARIABLES
  stage,          \* what build_osm_pack does next
  at,             \* items of the stage that are done
  pair,           \* pairs of the present interpolation way that are done
  memberRefs,     \* member way of a boundary -> its node refs
  located,        \* nodes whose position is known
  built,          \* candidate boundaries that have an area
  groups,         \* the postcode accumulator: postcode -> addresses
  rows,           \* rows written to the pack, [layer, source, tags]
  rejectionRows,  \* rows of audit/rejections.bin, [issue, source, hint]
  report,         \* the BuilderReport
  reported        \* auxiliary: <<source, issue>> of every reported rejection

output == <<groups, rows, rejectionRows, report, reported>>
places == <<memberRefs, located, built>>
vars == <<scanVars, stage, at, pair, places, output>>

(* The stages before the loops follow in their actions. *)
Following(loop) ==
  CASE loop = "boundaries"    -> "rejections"
    [] loop = "rejections"    -> "places"
    [] loop = "places"        -> "address nodes"
    [] loop = "address nodes" -> "address ways"
    [] loop = "address ways"  -> "postcodes"
    [] loop = "postcodes"     -> "interpolation"
    [] loop = "interpolation" -> "streets"
    [] loop = "streets"       -> "done"

Stubs(kind) == discovery.lists[kind]

Row(layer, source, tags) == [layer |-> layer, source |-> source, tags |-> tags]

-----------------------------------------------------------------------------
(* Writing a row, counting it, and counting a rejection *)

Accept(row, counted) ==
  /\ rows' = Append(rows, row)
  /\ report' = counted
  /\ UNCHANGED <<rejectionRows, reported>>

Emission(issue, source, tags, addr, hint, write) ==
  [issue |-> issue, source |-> source, tags |-> tags, addr |-> addr,
   hint |-> hint, write |-> write]

Reject(rejection) ==
  /\ report' = RejectWithContext(report, rejection)
  /\ reported' = Append(reported, <<rejection.source, rejection.issue>>)
  /\ UNCHANGED rows

RejectedRow(rejection) ==
  [issue |-> rejection.issue, source |-> rejection.source, hint |-> rejection.hint]

WriteRejectedRecord(rejection) ==
  rejectionRows' = Append(rejectionRows, RejectedRow(rejection))

-----------------------------------------------------------------------------
(* The scan and the two passes after it *)

Scan ==
  /\ stage = "scan"
  /\ ScanStep
  /\ UNCHANGED <<stage, at, pair, places, output>>

(* The rejections of the scan are in the report before any row is written.  *)
Discover ==
  /\ stage = "scan"
  /\ FinishScan
  /\ stage' = "members"
  /\ report' = discovery'.report
  /\ reported' = LET rejections == Sorted("rejections", Reduced.lists["rejections"])
                 IN [i \in DOMAIN rejections |->
                       <<rejections[i].source, rejections[i].issue>>]
  /\ UNCHANGED <<at, pair, places, groups, rows, rejectionRows>>

InFile(type) == {e \in Range(Elements(file)) : e.type = type}

RequiredBoundaryWays ==
  UNION {{m.id : m \in Range(stub.members)} :
           stub \in Range(Stubs("boundary_relation_stubs"))}

ResolveBoundaryWays ==
  /\ stage = "members"
  /\ stage' = "locations"
  /\ memberRefs' =
       LET ways == {w \in InFile("way") : w.id \in RequiredBoundaryWays}
       IN [id \in {w.id : w \in ways} |-> (CHOOSE w \in ways : w.id = id).refs]
  /\ UNCHANGED <<scanVars, at, pair, located, built, output>>

RequiredNodes ==
  discovery.required \cup UNION {Range(memberRefs[w]) : w \in DOMAIN memberRefs}

ResolveNodeLocations ==
  /\ stage = "locations"
  /\ stage' = "areas"
  /\ located' = {n.id : n \in InFile("node")} \cap RequiredNodes
  /\ UNCHANGED <<scanVars, at, pair, memberRefs, built, output>>

Resolved(refs) == Range(refs) \subseteq located

-----------------------------------------------------------------------------
(* Boundaries *)

(* boundary_from_way needs a closed way with every node of it; whether it   *)
(* has an area is left open.                                                *)
MayBuildWay(stub) ==
  /\ Len(stub.refs) >= 4 /\ stub.refs[1] = Last(stub.refs)
  /\ Resolved(stub.refs)

(* boundary_from_relation needs every member way, and outer members that    *)
(* close; which rings they give is left open.                               *)
MayBuildRelation(stub) ==
  /\ \A m \in Range(stub.members) : m.id \in DOMAIN memberRefs
  /\ \E m \in Range(stub.members) :
       m.role = "outer" /\ Len(memberRefs[m.id]) >= 2 /\ Resolved(memberRefs[m.id])

Candidate(type, stub) ==
  LET layer == BoundaryLayer(stub.tags)
  IN [source |-> <<type, stub.id>>, layer |-> layer,
      code |-> CountryCode(stub.tags, layer)]

(* Ways come before relations. *)
Candidates ==
  LET Of(type, kind, stubs) ==
        LET kept == Kept(Stubs(kind), stubs)
        IN [i \in DOMAIN kept |-> Candidate(type, kept[i])]
      ways      == {s \in Range(Stubs("boundary_way_stubs")) : MayBuildWay(s)}
      relations == {s \in Range(Stubs("boundary_relation_stubs")) : MayBuildRelation(s)}
  IN Of("way", "boundary_way_stubs", ways)
     \o Of("relation", "boundary_relation_stubs", relations)

BuildBoundaries ==
  /\ stage = "areas"
  /\ stage' = "boundaries"
  /\ \E areas \in SUBSET Range(Candidates) : built' = Kept(Candidates, areas)
  /\ UNCHANGED <<scanVars, at, pair, memberRefs, located, output>>

(* Derived countries come before the boundaries. *)
BoundaryRows ==
  LET derived == DerivedCountries(built)
  IN [i \in DOMAIN derived |->
        Row("country", derived[i].source, [derived_country |-> derived[i].code])]
     \o [i \in DOMAIN built |->
           Row(built[i].layer, built[i].source, [country_code |-> built[i].code])]

-----------------------------------------------------------------------------
(* The loops: one item of one list at a time *)

ListOf ==
  [s \in {"rejections", "places", "address nodes", "address ways", "interpolation",
          "streets"} |->
     CASE s = "rejections"    -> "rejections"
       [] s = "places"        -> "place_node_candidates"
       [] s = "address nodes" -> "address_node_candidates"
       [] s = "address ways"  -> "way_stubs"
       [] s = "interpolation" -> "interpolation_way_stubs"
       [] s = "streets"       -> "street_way_stubs"]
Loops == DOMAIN ListOf \cup {"boundaries", "postcodes"}

Items(s) ==
  CASE s \in DOMAIN ListOf -> Len(Stubs(ListOf[s]))
    [] s = "boundaries"    -> Len(BoundaryRows)
    [] s = "postcodes"     -> Cardinality(DOMAIN groups)

(* One item of a loop. *)
Emit(s) ==
  /\ stage = s
  /\ at < Items(s)
  /\ at' = at + 1
  /\ UNCHANGED <<scanVars, stage, pair, places>>

Item == Stubs(ListOf[stage])[at + 1]

WriteBoundaryRecord ==
  /\ Emit("boundaries")
  /\ LET row == BoundaryRows[at + 1] IN Accept(row, AcceptPlace(report, row.layer))
  /\ UNCHANGED groups

-----------------------------------------------------------------------------
(* emit_normalized_records *)

(* The scan has reported these rejections; now their rows are written. *)
WriteRejections ==
  /\ Emit("rejections")
  /\ WriteRejectedRecord(Item)
  /\ UNCHANGED <<groups, rows, report, reported>>

PlaceIssue(tags) ==
  CASE PlaceLayer(Cleaned(tags, "place")) = None -> "place_unsupported_value"
    [] PlaceLayer(Cleaned(tags, "place")) # None /\ ~Has(tags, "name")
         -> "place_missing_name"
    [] OTHER -> None

WritePlaceNode ==
  /\ Emit("places")
  /\ LET node   == Item
         source == <<"node", node.id>>
         layer  == PlaceLayer(Cleaned(node.tags, "place"))
         issue  == PlaceIssue(node.tags)
     IN \/ issue = None
           /\ Accept(Row(layer, source, NoTags), AcceptPlace(report, layer))
        \/ issue # None
           /\ Reject(Emission(issue, source, node.tags, None, "place", FALSE))
           /\ UNCHANGED rejectionRows
  /\ UNCHANGED groups

(* PostcodeAccumulator::accept_address *)
AcceptPostcodeOf(addr) ==
  LET raw == Cleaned(addr, "addr:postcode")
      postcodes == IF raw = None THEN {} ELSE {CanonicalPostcode[raw]} \ {None}
  IN groups' = [p \in DOMAIN groups \cup postcodes |->
                  (IF p \in DOMAIN groups THEN groups[p] ELSE 0)
                  + (IF p \in postcodes THEN 1 ELSE 0)]

(* write_candidate; the scan has checked the tags it checks again.          *)
WriteCandidate(source, precision, addr) ==
  /\ AddressIssue(addr) = None
  /\ Accept(Row("address", source, addr),
            AcceptAddress(report, [source |-> source, precision |-> precision,
                                   fields |-> DOMAIN addr \cap AddressFields]))
  /\ AcceptPostcodeOf(addr)

WriteAddressNode ==
  /\ Emit("address nodes")
  /\ LET node == Item
     IN WriteCandidate(<<"node", node.id>>, "point", node.tags)

(* Mutant of WriteAddressWay: the postcode of a way is not counted. *)
WriteAddressWayNoPostcode ==
  /\ Emit("address ways")
  /\ LET way == Item
         source == <<"way", way.id>>
     IN /\ Resolved(way.refs)
        /\ Accept(Row("address", source, way.tags),
                  AcceptAddress(report, [source |-> source, precision |-> "centroid",
                                fields |-> DOMAIN way.tags \cap AddressFields]))
  /\ UNCHANGED groups

(* A way with every node of it has a centroid. *)
WriteAddressWay ==
  /\ Emit("address ways")
  /\ LET way == Item
     IN /\ Resolved(way.refs)
        /\ WriteCandidate(<<"way", way.id>>, "centroid", way.tags)

RejectAddressWay ==
  /\ Emit("address ways")
  /\ LET way == Item
         rejection == Emission("way_without_resolved_nodes", <<"way", way.id>>,
                               way.tags, way.tags, "address", TRUE)
     IN /\ ~Resolved(way.refs)
        /\ Reject(rejection)
        /\ WriteRejectedRecord(rejection)
  /\ UNCHANGED groups

(* The postcodes are written in their order. *)
WritePostcode ==
  /\ Emit("postcodes")
  /\ LET postcode == CHOOSE p \in DOMAIN groups :
                       Cardinality({q \in DOMAIN groups : q <= p}) = at + 1
     IN Accept(Row("postcode", <<"postcode", postcode>>,
                   [record_count |-> groups[postcode]]),
               AcceptPostcode(report))
  /\ UNCHANGED groups

-----------------------------------------------------------------------------
(* Interpolation ways *)

(* numeric_anchors *)
Numbered(stub) ==
  {n \in Range(stub.refs) : /\ n \in DOMAIN discovery.addressNodeTags
                            /\ Has(discovery.addressNodeTags[n], "addr:housenumber")}
Anchors(stub) ==
  Kept(stub.refs, {n \in Numbered(stub) :
                     discovery.addressNodeTags[n]["addr:housenumber"] \in HouseNumbers})

(* A rule may also be the number of a step. *)
WayIssue(stub) ==
  IF stub.tags["addr:interpolation"] \notin {"odd", "even", "all"} \cup HouseNumbers
  THEN "interpolation_unsupported_value"
  ELSE IF ~Resolved(stub.refs) THEN "interpolation_unresolved_geometry"
  ELSE IF Anchors(stub) = <<>>
  THEN IF Numbered(stub) # {} THEN "interpolation_non_numeric_anchor"
       ELSE "interpolation_missing_anchors"
  ELSE IF Len(Anchors(stub)) = 1 THEN "interpolation_insufficient_numeric_anchors"
  ELSE None

InterpolationRejection(issue, stub) ==
  Emission(issue, <<"way", stub.id>>, stub.tags, AddrTags(stub.tags),
           "interpolation", TRUE)

RejectInterpolationWay ==
  /\ Emit("interpolation")
  /\ LET stub == Item
         rejection == InterpolationRejection(WayIssue(stub), stub)
     IN /\ WayIssue(stub) # None
        /\ Reject(rejection)
        /\ WriteRejectedRecord(rejection)
  /\ UNCHANGED groups

(* A turn of the loop over two neighbouring anchors. *)
DecidePair ==
  LET last == pair + 2 = Len(Anchors(Item))
  IN /\ stage = "interpolation"
     /\ at < Items("interpolation")
     /\ WayIssue(Item) = None
     /\ pair' = IF last THEN 0 ELSE pair + 1
     /\ at' = IF last THEN at + 1 ELSE at
     /\ UNCHANGED <<scanVars, stage, places, groups>>

WriteInterpolation ==
  /\ DecidePair
  /\ Accept(Row("interpolation", <<"way", Item.id>>, NoTags), AcceptInterpolation(report))

RejectInterpolation(issue) ==
  /\ DecidePair
  /\ Reject(InterpolationRejection(issue, Item))
  /\ WriteRejectedRecord(InterpolationRejection(issue, Item))

-----------------------------------------------------------------------------
(* Streets *)

HasLine(refs) == Resolved(refs) /\ Len(refs) >= 2

WriteStreet ==
  /\ Emit("streets")
  /\ LET stub == Item
     IN /\ HasLine(stub.refs)
        /\ Accept(Row("street", <<"way", stub.id>>, NoTags), AcceptStreet(report))
  /\ UNCHANGED groups

(* Mutant of RejectStreet: the rejection is reported but has no row. *)
RejectStreetReportOnly ==
  /\ Emit("streets")
  /\ LET stub == Item
     IN /\ ~HasLine(stub.refs)
        /\ Reject(Emission("street_unresolved_geometry", <<"way", stub.id>>,
                           stub.tags, NoTags, "street", TRUE))
  /\ UNCHANGED <<groups, rejectionRows>>

RejectStreet ==
  /\ Emit("streets")
  /\ LET stub == Item
         rejection == Emission("street_unresolved_geometry", <<"way", stub.id>>,
                               stub.tags, NoTags, "street", TRUE)
     IN /\ ~HasLine(stub.refs)
        /\ Reject(rejection)
        /\ WriteRejectedRecord(rejection)
  /\ UNCHANGED groups

-----------------------------------------------------------------------------
(* The build *)

NextStage ==
  /\ stage \in Loops
  /\ at = Items(stage)
  /\ stage' = Following(stage)
  /\ at' = 0
  /\ UNCHANGED <<scanVars, pair, places, output>>

Init ==
  /\ ScanInit
  /\ stage = "scan" /\ at = 0 /\ pair = 0
  /\ memberRefs = <<>> /\ located = {} /\ built = <<>> /\ groups = <<>>
  /\ rows = <<>> /\ rejectionRows = <<>> /\ reported = <<>>
  /\ report = EmptyReport

Finished == stage = "done" /\ UNCHANGED vars

Next ==
  \/ Scan \/ Discover
  \/ ResolveBoundaryWays \/ ResolveNodeLocations
  \/ BuildBoundaries \/ WriteBoundaryRecord
  \/ WriteRejections \/ WritePlaceNode
  \/ WriteAddressNode \/ WriteAddressWay \/ RejectAddressWay
  \/ WritePostcode
  \/ RejectInterpolationWay \/ WriteInterpolation
  \/ \E issue \in PairIssues : RejectInterpolation(issue)
  \/ WriteStreet \/ RejectStreet
  \/ NextStage \/ Finished

Spec == Init /\ [][Next]_vars

-----------------------------------------------------------------------------
(* Properties *)

Done == stage = "done"

RowCount(layer) == Cardinality({i \in DOMAIN rows : rows[i].layer = layer})
RejectionCount(issue) ==
  Cardinality({i \in DOMAIN rejectionRows : rejectionRows[i].issue = issue})

(* Issues that only the build report counts. *)
ReportOnlyIssues == StreetNameIssues \cup PlaceIssues
AllIssues == {entry[2] : entry \in Range(reported)}

PlaceLayers == {"country", "region", "district", "locality", "neighbourhood",
                "place"}

(* The accepted counters are the rows of the pack, in total and for each    *)
(* layer, and the quality audit covers every address once, each field of it *)
(* being there or missing.                                                  *)
AcceptedMatchRows ==
  /\ Counted(report, <<"accepted", "total">>) = Len(rows)
  /\ \A layer \in PlaceLayers \cup {"address", "street", "postcode", "interpolation"} :
       Counted(report, <<"accepted.by_layer", layer>>) = RowCount(layer)
  /\ Counted(report, <<"quality", "total">>) = RowCount("address")
  /\ \A field \in SourceFields :
       Counted(report, <<"quality.has", field>>)
         + Counted(report, <<"quality.missing", field>>) = RowCount("address")

(* The rejected counters are the rows of audit/rejections.bin, except for   *)
(* the issues that only the report counts.                                  *)
RejectedMatchRows ==
  /\ Counted(report, <<"rejected", "total">>) = Len(reported)
  /\ \A issue \in AllIssues :
       IF issue \in ReportOnlyIssues THEN RejectionCount(issue) = 0
       ELSE Counted(report, <<"rejected.by_reason", issue>>) = RejectionCount(issue)

(* When the build is done, build-report.json tells how many rows of each    *)
(* kind the pack and its rejections have: the counters are filled in        *)
(* several places, some before and some after the row is written, and for   *)
(* the scan's rejections several stages before their rows.                  *)
ReportMatchesPack == Done => AcceptedMatchRows /\ RejectedMatchRows

(* The rows of a source in some layers, and its reported issues; a derived   *)
(* country is not its source's own.                                         *)
Decisions(source, layers, issues) ==
  Cardinality({i \in DOMAIN rows :
                 /\ rows[i].source = source /\ rows[i].layer \in layers
                 /\ "derived_country" \notin DOMAIN rows[i].tags})
  + Cardinality({i \in DOMAIN reported :
                   reported[i][1] = source /\ reported[i][2] \in issues})

StreetIssues == StreetNameIssues \cup {"street_unresolved_geometry"}
AddressIssues == AllIssues \ (StreetIssues \cup PlaceIssues)

(* Every feature of the file is decided once: a place node, a highway and   *)
(* an address each has one row in the pack or one reported rejection, never *)
(* both and never neither; an interpolation way has one for each pair of    *)
(* anchors, and one if it has no pair.                                      *)
EveryFeatureDecided ==
  Done => \A e \in Range(Elements(file)) :
    LET source == <<e.type, e.id>>
        tags   == CleanTags(e.tags)
        addr   == AddrTags(tags)
        ranged == e.type = "way" /\ Has(addr, "addr:interpolation")
        decided == Decisions(source, {"address", "interpolation"}, AddressIssues)
    IN /\ e.type = "node" /\ Has(tags, "place") =>
            Decisions(source, PlaceLayers, PlaceIssues) = 1
       /\ e.type = "way" /\ Has(tags, "highway") =>
            Decisions(source, {"street"}, StreetIssues) = 1
       /\ addr # NoTags /\ ~(e.type = "relation" /\ HasAdminBoundaryTags(tags)) =>
            IF ranged THEN decided >= 1 ELSE decided = 1

(* No way is dropped for its geometry while the file has its nodes: one     *)
(* rejected as unresolved has no nodes, names a node the file lacks, or is  *)
(* a street of a single node; and a way with a row has all of its nodes in  *)
(* the file.  The positions kept are those the scan and the member ways     *)
(* asked for, collected in three places and long before they are used.      *)
UnresolvedOnlyIfMissing ==
  Done =>
    LET nodes == {n.id : n \in InFile("node")}
        Complete(way) == way.refs # <<>> /\ Range(way.refs) \subseteq nodes
    IN \A way \in InFile("way") :
         LET Unresolved(issue) == <<<<"way", way.id>>, issue>> \in Range(reported)
         IN /\ \/ Unresolved("way_without_resolved_nodes")
               \/ Unresolved("interpolation_unresolved_geometry")
                 => ~Complete(way)
            /\ Unresolved("street_unresolved_geometry") =>
                 ~Complete(way) \/ Len(way.refs) < 2
            /\ (\E row \in Range(rows) : row.source = <<"way", way.id>>)
                 => Complete(way)

(* The postcode records are the cleaned postcodes of the addresses in the   *)
(* pack, nodes and ways, each once and with the number of addresses that    *)
(* have it, however the addresses spell it.                                 *)
AddressesOf(postcode) ==
  Cardinality({i \in DOMAIN rows :
                 /\ rows[i].layer = "address"
                 /\ Has(rows[i].tags, "addr:postcode")
                 /\ CanonicalPostcode[rows[i].tags["addr:postcode"]] = postcode})

PostcodesCountAddresses ==
  Done =>
    LET expected == {p \in {CanonicalPostcode[raw] : raw \in DOMAIN CanonicalPostcode} :
                       p # None /\ AddressesOf(p) > 0}
        records  == {i \in DOMAIN rows : rows[i].layer = "postcode"}
    IN /\ RowCount("postcode") = Cardinality(expected)
       /\ \A i \in records : /\ rows[i].source[2] \in expected
                            /\ rows[i].tags.record_count = AddressesOf(rows[i].source[2])
       /\ \A i, j \in records : rows[i].source = rows[j].source => i = j
=============================================================================
