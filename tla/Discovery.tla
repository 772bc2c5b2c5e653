------------------------------- MODULE Discovery -------------------------------
(***************************************************************************)
(* The first pass over the OSM file (src/builder/osm/collector.rs).  Each  *)
(* element becomes a chunk of stubs, candidates and rejections.  The       *)
(* blocks of the file are decoded by a pool of threads, which fold the     *)
(* chunks of a block in order but join the blocks in any order; the result *)
(* is sorted and the report is started from it.                            *)
(***************************************************************************)
EXTENDS BuilderReport, SequencesExt, Integers

CONSTANT Files   \* files the builder may be given

(* A file is a sequence of blocks, each a sequence of elements              *)
(* [type, dense, id, tags, refs, members]; ids are unique within a type.    *)
Elements(f) == FlattenSeq(f)

ASSUME FilesAssumption ==
  \A f \in Files :
    /\ f \in Seq(Seq(Range(Elements(f))))
    /\ \A e \in Range(Elements(f)) :
         e.type \in {"node", "way", "relation"} /\ e.id \in Int /\ e.refs \in Seq(Int)
    /\ \A i, j \in 1..Len(Elements(f)) :
         LET a == Elements(f)[i]
             b == Elements(f)[j]
         IN a.type = b.type /\ a.id = b.id => i = j

VARIABLES
  file,       \* the input
  unread,     \* numbers of the blocks not yet decoded
  partials,   \* [blocks, chunk]: chunks of the pool not yet joined
  discovery   \* the DiscoveryResult, or None before the scan ends

scanVars == <<file, unread, partials, discovery>>

-----------------------------------------------------------------------------
(* Chunks *)

Kinds == {"place_node_candidates", "address_node_candidates", "way_stubs",
          "interpolation_way_stubs", "street_way_stubs", "boundary_way_stubs",
          "boundary_relation_stubs", "rejections"}

EmptyChunk ==
  [scanned |-> EmptyBag, lists |-> [kind \in Kinds |-> <<>>],
   addressNodeTags |-> <<>>, required |-> {}]

(* HashMap::extend. *)
Extended(old, new) ==
  [key \in DOMAIN old \cup DOMAIN new |-> IF key \in DOMAIN new THEN new[key] ELSE old[key]]

(* Where two chunks have tags of one node, the right one's stay. *)
Merge(left, right) ==
  [scanned         |-> left.scanned (+) right.scanned,
   lists           |-> [kind \in Kinds |-> left.lists[kind] \o right.lists[kind]],
   addressNodeTags |-> Extended(left.addressNodeTags, right.addressNodeTags),
   required        |-> left.required \cup right.required]

Listed(kind, entry) == [EmptyChunk EXCEPT !.lists[kind] = <<entry>>]

(* Mutant of Stub: the positions of the nodes are not asked for. *)
StubWithoutNodes(kind, way, tags) ==
  Listed(kind, [id |-> way.id, refs |-> way.refs, tags |-> tags])

(* A stub waits for the positions of its nodes. *)
Stub(kind, way, tags) ==
  [Listed(kind, [id |-> way.id, refs |-> way.refs, tags |-> tags])
     EXCEPT !.required = Range(way.refs)]

Rejection(issue, element, tags, addr, hint, write) ==
  [issue |-> issue, source |-> <<element.type, element.id>>, tags |-> tags,
   addr |-> addr, hint |-> hint, write |-> write]

AuditedRejection(issue, element, tags, addr, hint) ==
  Listed("rejections", Rejection(issue, element, tags, addr, hint, TRUE))
RejectionRecord(issue, element, tags, hint) ==
  Listed("rejections", Rejection(issue, element, tags, None, hint, TRUE))
ReportOnlyRejection(issue, element, tags) ==
  Listed("rejections", Rejection(issue, element, tags, None, None, FALSE))

-----------------------------------------------------------------------------
(* Elements *)

AddressOfNode(node, tags) ==
  LET addr  == AddrTags(tags)
      issue == AddressIssue(addr)
      known == [EmptyChunk EXCEPT !.addressNodeTags = [id \in {node.id} |-> addr]]
  IN CASE addr = NoTags -> EmptyChunk
       [] Has(addr, "addr:interpolation") ->
            Merge(known, AuditedRejection("interpolation_unsupported_object",
                                          node, tags, addr, "interpolation"))
       [] addr # NoTags /\ ~Has(addr, "addr:interpolation") /\ issue # None ->
            Merge(known, AuditedRejection(issue, node, tags, addr, "address"))
       [] OTHER ->
            Merge(known, Listed("address_node_candidates",
                                [id |-> node.id, tags |-> addr]))

CollectNode(node, tags) ==
  LET place == IF Has(tags, "place")
               THEN Listed("place_node_candidates", [id |-> node.id, tags |-> tags])
               ELSE EmptyChunk
  IN Merge(place, AddressOfNode(node, tags))

BoundaryOfWay(way, tags) ==
  IF HasAdminBoundaryTags(tags) /\ way.refs # <<>>
  THEN Stub("boundary_way_stubs", way, tags)
  ELSE EmptyChunk

StreetOfWay(way, tags) ==
  CASE ~Has(tags, "highway") -> EmptyChunk
    [] Has(tags, "highway") /\ ~Has(tags, "name") ->
         ReportOnlyRejection(MissingStreetNameIssue(tags), way, tags)
    [] Has(tags, "highway") /\ Has(tags, "name") /\ way.refs = <<>> ->
         AuditedRejection("street_unresolved_geometry", way, tags, NoTags, "street")
    [] OTHER -> Stub("street_way_stubs", way, tags)

InterpolationOfWay(way, tags, addr) ==
  IF way.refs = <<>>
  THEN AuditedRejection("interpolation_way_without_nodes", way, tags, addr,
                        "interpolation")
  ELSE Stub("interpolation_way_stubs", way, tags)

AddressOfWay(way, tags) ==
  LET addr  == AddrTags(tags)
      issue == AddressIssue(addr)
  IN IF addr = NoTags THEN EmptyChunk
     ELSE IF Has(addr, "addr:interpolation") THEN InterpolationOfWay(way, tags, addr)
     ELSE IF issue # None THEN AuditedRejection(issue, way, tags, addr, "address")
     ELSE IF way.refs = <<>>
     THEN RejectionRecord("way_without_resolved_nodes", way, tags, "address")
     ELSE Stub("way_stubs", way, addr)

(* Mutant of CollectWay: a way that is a street is nothing else. *)
CollectWayStreetFirst(way, tags) ==
  Merge(BoundaryOfWay(way, tags),
        IF Has(tags, "highway") THEN StreetOfWay(way, tags)
        ELSE AddressOfWay(way, tags))

(* One way may be a boundary, a street and an address at once. *)
CollectWay(way, tags) ==
  Merge(BoundaryOfWay(way, tags),
        Merge(StreetOfWay(way, tags), AddressOfWay(way, tags)))

(* Members that are not ways, or play no part in an area, are left out. *)
BoundaryMembers(relation) ==
  LET roles == [r \in {"", "outer", "inner"} |-> IF r = "" THEN "outer" ELSE r]
      used  == SelectSeq(relation.members, LAMBDA m :
                           m.type = "way" /\ m.role \in DOMAIN roles)
  IN [i \in 1..Len(used) |-> [id |-> used[i].id, role |-> roles[used[i].role]]]

CollectRelation(relation, tags) ==
  LET addr    == AddrTags(tags)
      members == BoundaryMembers(relation)
      ranged  == Has(addr, "addr:interpolation")
  IN CASE HasAdminBoundaryTags(tags) /\ members # <<>> ->
            Listed("boundary_relation_stubs",
                   [id |-> relation.id, members |-> members, tags |-> tags])
       [] ~HasAdminBoundaryTags(tags) /\ addr # NoTags ->
            AuditedRejection(IF ranged THEN "interpolation_unsupported_object"
                             ELSE "unsupported_relation", relation, tags, addr,
                             IF ranged THEN "interpolation" ELSE "address")
       [] OTHER -> EmptyChunk

ScannedAs(element) ==
  IF element.type = "node" /\ element.dense THEN "dense_node" ELSE element.type

CollectElement(element) ==
  LET tags  == CleanTags(element.tags)
      found == CASE element.type = "node"     -> CollectNode(element, tags)
                 [] element.type = "way"      -> CollectWay(element, tags)
                 [] element.type = "relation" -> CollectRelation(element, tags)
  IN [found EXCEPT !.scanned = SetToBag({ScannedAs(element)})]

-----------------------------------------------------------------------------
(* Sorting *)

TypeRank(type) == CASE type = "node" -> 0 [] type = "way" -> 1
                    [] type = "relation" -> 2

(* Rejections of one element differ in their issue.  Issues compare by      *)
(* name; of those one element can have together, only a way's two do:       *)
(* "street_..." comes after "interpolation_..." and "missing_...", and      *)
(* before "way_...".                                                        *)
IssueRank(issue) ==
  CASE issue = "way_without_resolved_nodes" -> 2
    [] issue \in StreetNameIssues \cup {"street_unresolved_geometry"} -> 1
    [] OTHER -> 0

SortKey(kind, entry) ==
  IF kind = "rejections"
  THEN <<TypeRank(entry.source[1]), entry.source[2], IssueRank(entry.issue)>>
  ELSE <<0, entry.id, 0>>

Below(left, right) ==
  \E i \in 1..3 : left[i] < right[i] /\ \A j \in 1..i - 1 : left[j] = right[j]

(* sort_by_key, which keeps the order of entries with equal keys. *)
Sorted(kind, list) ==
  LET Key(i)  == SortKey(kind, list[i])
      Rank(i) == 1 + Cardinality({j \in DOMAIN list :
                       Below(Key(j), Key(i)) \/ (Key(j) = Key(i) /\ j < i)})
  IN [n \in DOMAIN list |-> list[CHOOSE i \in DOMAIN list : Rank(i) = n]]

(* Mutant of SortDiscoveryChunk: the rejections stay as they were joined. *)
SortDiscoveryChunkNotRejections(chunk) ==
  [chunk EXCEPT !.lists = [kind \in Kinds |->
     IF kind = "rejections" THEN @[kind] ELSE Sorted(kind, @[kind])]]

SortDiscoveryChunk(chunk) ==
  [chunk EXCEPT !.lists = [kind \in Kinds |-> Sorted(kind, @[kind])]]

-----------------------------------------------------------------------------
(* discover_address_features *)

(* The items of a list that are in S, in their order. *)
Kept(list, S) ==
  LET upTo[n \in 0..Len(list)] ==
        IF n = 0 THEN <<>>
        ELSE IF list[n] \in S THEN Append(upTo[n - 1], list[n]) ELSE upTo[n - 1]
  IN upTo[Len(list)]

ReportOf(rejections) ==
  LET upTo[n \in 0..Len(rejections)] ==
        IF n = 0 THEN EmptyReport
        ELSE RejectWithContext(upTo[n - 1], rejections[n])
  IN upTo[Len(rejections)]

(* The report counts every rejection; only those with a row go on. *)
DiscoveryResult(chunk) ==
  LET sorted == SortDiscoveryChunk(chunk)
      rejections == sorted.lists["rejections"]
  IN [lists           |-> [sorted.lists EXCEPT !["rejections"] =
                             Kept(rejections, {r \in Range(rejections) : r.write})],
      report          |-> ReportOf(rejections),
      scanned         |-> sorted.scanned,
      addressNodeTags |-> sorted.addressNodeTags,
      required        |-> sorted.required]

(* A block is folded from its first element to its last. *)
BlockChunk(block) ==
  LET upTo[n \in 0..Len(block)] ==
        IF n = 0 THEN EmptyChunk
        ELSE Merge(upTo[n - 1], CollectElement(block[n]))
  IN upTo[Len(block)]

ScanInit ==
  /\ file \in Files
  /\ unread = 1..Len(file)
  /\ partials = {}
  /\ discovery = None

(* A thread of the pool decodes a block. *)
MapBlock(b) ==
  /\ b \in unread
  /\ unread' = unread \ {b}
  /\ partials' = partials \cup {[blocks |-> <<b>>, chunk |-> BlockChunk(file[b])]}
  /\ UNCHANGED <<file, discovery>>

(* Two partial results are joined, either one on the left. *)
JoinPartials(p, q) ==
  /\ p # q
  /\ partials' = (partials \ {p, q}) \cup
       {[blocks |-> p.blocks \o q.blocks, chunk |-> Merge(p.chunk, q.chunk)]}
  /\ UNCHANGED <<file, unread, discovery>>

(* What the pool has reduced the file to; a file without blocks gives an    *)
(* empty chunk.                                                             *)
Reduced == IF partials = {} THEN EmptyChunk
           ELSE (CHOOSE p \in partials : TRUE).chunk

FinishScan ==
  /\ discovery = None
  /\ unread = {}
  /\ Cardinality(partials) <= 1
  /\ discovery' = DiscoveryResult(Reduced)
  /\ partials' = {}
  /\ UNCHANGED <<file, unread>>

ScanStep ==
  \/ \E b \in unread : MapBlock(b)
  \/ \E p, q \in partials : JoinPartials(p, q)

-----------------------------------------------------------------------------
(* Properties *)

(* What the scan hands on, its sorted lists, the report and the samples     *)
(* kept in it, is what reading the file from its first element to its last  *)
(* gives: neither the block a thread took first nor the order in which      *)
(* partial results were joined shows in the pack or in its build report.    *)
MergeOrderInvisible ==
  discovery # None => discovery = DiscoveryResult(BlockChunk(Elements(file)))
=============================================================================
