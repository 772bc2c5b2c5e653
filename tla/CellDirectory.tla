---------------------------- MODULE CellDirectory ----------------------------
(***************************************************************************)
(* The spatial index of a pack (src/spatial_index.rs): points and segments *)
(* are found through a directory of the H3 cells they lie in.  finish()    *)
(* sorts the (cell, id) pairs and merges the points' and the segments'     *)
(* pairs into one entry per cell, whose ranges slice two arrays of ids.  A *)
(* query looks each of its cells up by binary search, filters the ids in   *)
(* the cell's range and returns the nearest.                               *)
(*                                                                         *)
(* One behaviour builds one directory, the fine one or the context one     *)
(* (which has points of context layers only, in coarser cells), and asks   *)
(* it one query.  Where a coordinate lies and how far it is from the query *)
(* are given.                                                              *)
(***************************************************************************)
EXTENDS Naturals, Sequences, Functions

CONSTANTS
  Cells,          \* H3 cell ids
  Layers,         \* SpatialLayer
  ContextLayers,  \* is_context_layer
  Inputs,         \* points and segments a build may hand over
  ChunkSize,      \* SPATIAL_PAIR_CHUNK_SIZE
  IdLimit,        \* u32::MAX
  PairLimit,      \* bound: pairs of points or of segments
  Disks,          \* what h3_query_cell_ids may return
  Limits,         \* limits of a query; 0 means none
  Distances,      \* distances from a query
  Radius          \* radius of a query

ASSUME CellsAssumption == Cells \subseteq Nat
ASSUME LayersAssumption == ContextLayers \subseteq Layers
ASSUME InputsAssumption ==
  \A i \in Inputs :
    /\ i = [points |-> i.points, segments |-> i.segments]
    /\ i.points \in Seq([fine : Cells, coarse : Cells, layer : Layers])
    /\ i.segments \in Seq([cells : SUBSET Cells, layer : Layers])
ASSUME NumbersAssumption ==
  /\ ChunkSize \in Nat \ {0} /\ IdLimit \in Nat /\ PairLimit \in Nat
  /\ Limits \subseteq Nat /\ Distances \subseteq Nat /\ Radius \in Nat
(* grid_disk returns each cell once.                                        *)
ASSUME DisksAssumption ==
  \A d \in Disks : d \in Seq(Cells) /\ IsInjective(d)

VARIABLES
  pc,            \* where the builder, then the reader is
  input,         \* the points and segments
  directory,     \* which directory is built: "fine" or "context"
  pointPairs, segmentPairs,    \* sorted (cell, id) pairs
  pointIndex, segmentIndex,    \* how many of them are merged
  cell,          \* the cell being merged
  pointStart, segmentStart,    \* where its ranges start
  entries,       \* cells.bin
  pointRefs, segmentRefs,      \* cell_points.bin, cell_segments.bin
  query,         \* the query
  todo,          \* index of the query's current cell
  low, high,     \* bounds of the binary search
  refIndex,      \* next of the found cell's refs
  seen,          \* seen_segment_ids
  candidates,    \* ids that match, as they are met
  results        \* the answer

pairs == <<pointPairs, segmentPairs>>
merging == <<pointIndex, segmentIndex, cell, pointStart, segmentStart>>
files == <<entries, pointRefs, segmentRefs>>
search == <<low, high, refIndex>>
found == <<seen, candidates, results>>
vars == <<pc, input, directory, pairs, merging, files, query, todo, search, found>>

NoQuery == [kind |-> "none", disk |-> <<>>, layers |-> {}, limit |-> 0,
            distance |-> <<>>]

Ids(sequence) == 0..Len(sequence) - 1

-----------------------------------------------------------------------------
(* Building: the pairs *)

Init ==
  /\ pc = "pairs"
  /\ input \in Inputs
  /\ directory \in {"fine", "context"}
  /\ pointPairs = <<>> /\ segmentPairs = <<>>
  /\ pointIndex = 0 /\ segmentIndex = 0
  /\ cell = 0 /\ pointStart = 0 /\ segmentStart = 0
  /\ entries = <<>> /\ pointRefs = <<>> /\ segmentRefs = <<>>
  /\ query = NoQuery
  /\ todo = 1
  /\ low = 0 /\ high = 0 /\ refIndex = 0
  /\ seen = {} /\ candidates = <<>> /\ results = <<>>

Pair(c, id) == [cell |-> c, id |-> id]

(* build_point_pairs *)
PointCell(id) == IF directory = "fine" THEN input.points[id + 1].fine
                                       ELSE input.points[id + 1].coarse
PointIds ==
  {id \in Ids(input.points) :
     directory = "context" => input.points[id + 1].layer \in ContextLayers}
PointPairs == {Pair(PointCell(id), id) : id \in PointIds}

(* Mutant of SegmentPairs: ids count from the start of their chunk. *)
SegmentPairsLocal ==
  {Pair(p[1], p[2] % ChunkSize) : p \in
     {p \in Cells \X Ids(input.segments) :
        directory = "fine" /\ p[1] \in input.segments[p[2] + 1].cells}}

(* build_segment_pairs: chunks in parallel, ids from each chunk's base.  The *)
(* context directory has no segments.                                       *)
BaseIndex(id) == ChunkSize * (id \div ChunkSize)
Offset(id)    == id % ChunkSize
SegmentPairs ==
  {Pair(p[1], BaseIndex(p[2]) + Offset(p[2])) : p \in
     {p \in Cells \X Ids(input.segments) :
        directory = "fine" /\ p[1] \in input.segments[p[2] + 1].cells}}

(* sort_dedupe_cell_pairs: the pairs once each, by cell and then by id.     *)
Before(p, q) == p.cell < q.cell \/ (p.cell = q.cell /\ p.id < q.id)
Sorted(set) ==
  {s \in UNION {[1..n -> set] : n \in 0..PairLimit} :
     /\ Range(s) = set
     /\ \A i, j \in 1..Len(s) : i < j => Before(s[i], s[j])}

(* An id that does not fit its 32 bits fails the build.                     *)
SortPairs ==
  /\ pc = "pairs"
  /\ \A id \in Ids(input.points) \cup Ids(input.segments) : id <= IdLimit
  /\ pointPairs' \in Sorted(PointPairs)
  /\ segmentPairs' \in Sorted(SegmentPairs)
  /\ pc' = "cell"
  /\ UNCHANGED <<input, directory, merging, files, query, todo, search, found>>

-----------------------------------------------------------------------------
(* Building: build_cell_directory *)

More(sequence, index) == index < Len(sequence)

Heads ==
  {pointPairs[i + 1].cell : i \in {i \in {pointIndex} : More(pointPairs, i)}} \cup
  {segmentPairs[i + 1].cell : i \in {i \in {segmentIndex} : More(segmentPairs, i)}}

PickCell ==
  /\ pc = "cell"
  /\ cell' \in Heads
  /\ \A head \in Heads : cell' <= head
  /\ pointStart' = Len(pointRefs)
  /\ segmentStart' = Len(segmentRefs)
  /\ pc' = "points"
  /\ UNCHANGED <<input, directory, pairs, pointIndex, segmentIndex, files, query,
                 todo, search, found>>

InCell(sequence, index) ==
  More(sequence, index) /\ sequence[index + 1].cell = cell

TakePoint ==
  /\ pc = "points"
  /\ InCell(pointPairs, pointIndex)
  /\ pointRefs' = Append(pointRefs, pointPairs[pointIndex + 1].id)
  /\ pointIndex' = pointIndex + 1
  /\ UNCHANGED <<pc, input, directory, pairs, segmentIndex, cell, pointStart,
                 segmentStart, entries, segmentRefs, query, todo, search, found>>

EndPoints ==
  /\ pc = "points"
  /\ ~ InCell(pointPairs, pointIndex)
  /\ pc' = "segments"
  /\ UNCHANGED <<input, directory, pairs, merging, files, query, todo, search, found>>

TakeSegment ==
  /\ pc = "segments"
  /\ InCell(segmentPairs, segmentIndex)
  /\ segmentRefs' = Append(segmentRefs, segmentPairs[segmentIndex + 1].id)
  /\ segmentIndex' = segmentIndex + 1
  /\ UNCHANGED <<pc, input, directory, pairs, pointIndex, cell, pointStart,
                 segmentStart, entries, pointRefs, query, todo, search, found>>

EndCell ==
  /\ pc = "segments"
  /\ ~ InCell(segmentPairs, segmentIndex)
  /\ entries' = Append(entries,
       [cell |-> cell,
        pointStart |-> pointStart, pointCount |-> Len(pointRefs) - pointStart,
        segmentStart |-> segmentStart, segmentCount |-> Len(segmentRefs) - segmentStart])
  /\ pc' = "cell"
  /\ UNCHANGED <<input, directory, pairs, merging, pointRefs, segmentRefs, query,
                 todo, search, found>>

EndBuild ==
  /\ pc = "cell"
  /\ Heads = {}
  /\ pc' = "ready"
  /\ UNCHANGED <<input, directory, pairs, merging, files, query, todo, search, found>>

-----------------------------------------------------------------------------
(* Querying *)

Queried(kind) == IF kind = "point" THEN input.points ELSE input.segments

(* point_candidates and segment_candidates ask the fine directory for one   *)
(* layer, context_candidates the other for every context layer.             *)
StartQuery(kind, disk, layers, limit) ==
  /\ pc = "ready"
  /\ \/ directory = "fine" /\ \E layer \in Layers : layers = {layer}
     \/ directory = "context" /\ kind = "point" /\ layers = ContextLayers
  /\ \E distance \in [Ids(Queried(kind)) -> Distances] :
       query' = [kind |-> kind, disk |-> disk, layers |-> layers, limit |-> limit,
                 distance |-> distance]
  /\ pc' = "next"
  /\ UNCHANGED <<input, directory, pairs, merging, files, todo, search, found>>

NextCell ==
  /\ pc = "next"
  /\ IF todo <= Len(query.disk)
     THEN low' = 0 /\ high' = Len(entries) /\ pc' = "find"
     ELSE pc' = "sort" /\ UNCHANGED <<low, high>>
  /\ UNCHANGED <<input, directory, pairs, merging, files, query, todo, refIndex, found>>

(* find_cell *)
Mid == low + (high - low) \div 2

(* Mutant of NarrowSearch: low stays on the entry just compared. *)
NarrowSearchStuck ==
  /\ pc = "find"
  /\ low < high
  /\ LET entry == entries[Mid + 1]
     IN \/ entry.cell < query.disk[todo] /\ low' = Mid /\ UNCHANGED high
        \/ entry.cell > query.disk[todo] /\ high' = Mid /\ UNCHANGED low
  /\ UNCHANGED <<pc, input, directory, pairs, merging, files, query, todo, refIndex,
                 found>>

NarrowSearch ==
  /\ pc = "find"
  /\ low < high
  /\ LET entry == entries[Mid + 1]
     IN \/ entry.cell < query.disk[todo] /\ low' = Mid + 1 /\ UNCHANGED high
        \/ entry.cell > query.disk[todo] /\ high' = Mid /\ UNCHANGED low
  /\ UNCHANGED <<pc, input, directory, pairs, merging, files, query, todo, refIndex,
                 found>>

CellFound ==
  /\ pc = "find"
  /\ low < high
  /\ entries[Mid + 1].cell = query.disk[todo]
  /\ refIndex' = 0
  /\ pc' = "visit"
  /\ UNCHANGED <<input, directory, pairs, merging, files, query, todo, low, high, found>>

CellAbsent ==
  /\ pc = "find"
  /\ low >= high
  /\ todo' = todo + 1
  /\ pc' = "next"
  /\ UNCHANGED <<input, directory, pairs, merging, files, query, search, found>>

(* The refs of the found cell: read_ref_range, over the queried kind's file. *)
Refs  == IF query.kind = "point" THEN pointRefs ELSE segmentRefs
Start == IF query.kind = "point" THEN entries[Mid + 1].pointStart
                                 ELSE entries[Mid + 1].segmentStart
Count == IF query.kind = "point" THEN entries[Mid + 1].pointCount
                                 ELSE entries[Mid + 1].segmentCount
Ref   == Refs[Start + refIndex + 1]

Accepts(id) ==
  /\ Queried(query.kind)[id + 1].layer \in query.layers
  /\ query.distance[id] <= Radius

(* Mutant of VisitRef: a segment is taken in every cell it lies in. *)
VisitRefUnseen ==
  /\ pc = "visit"
  /\ refIndex < Count
  /\ candidates' = IF Accepts(Ref) THEN Append(candidates, Ref) ELSE candidates
  /\ refIndex' = refIndex + 1
  /\ UNCHANGED <<pc, input, directory, pairs, merging, files, query, todo, low, high,
                 seen, results>>

(* A segment lies in several cells and is taken once.                       *)
VisitRef ==
  /\ pc = "visit"
  /\ refIndex < Count
  /\ seen' = IF query.kind = "segment" THEN seen \cup {Ref} ELSE seen
  /\ candidates' = IF Ref \notin seen /\ Accepts(Ref)
                   THEN Append(candidates, Ref) ELSE candidates
  /\ refIndex' = refIndex + 1
  /\ UNCHANGED <<pc, input, directory, pairs, merging, files, query, todo, low, high,
                 results>>

EndVisit ==
  /\ pc = "visit"
  /\ refIndex >= Count
  /\ todo' = todo + 1
  /\ pc' = "next"
  /\ UNCHANGED <<input, directory, pairs, merging, files, query, search, found>>

(* sort_by is stable, by distance; truncate takes a limit of 0 for none.    *)
Farther(i, j) ==
  LET d == query.distance
  IN d[candidates[i]] < d[candidates[j]] \/ (d[candidates[i]] = d[candidates[j]] /\ i < j)

Orders ==
  LET n == Len(candidates)
  IN {p \in Bijection(1..n, 1..n) : \A i, j \in 1..n : i < j => Farther(p[i], p[j])}

Truncated ==
  IF query.limit > 0 /\ Len(candidates) > query.limit THEN query.limit
                                                      ELSE Len(candidates)

Answer ==
  /\ pc = "sort"
  /\ \E order \in Orders :
       results' = [i \in 1..Truncated |-> candidates[order[i]]]
  /\ pc' = "answered"
  /\ UNCHANGED <<input, directory, pairs, merging, files, query, todo, search, seen,
                 candidates>>

-----------------------------------------------------------------------------
Step ==
  \/ SortPairs
  \/ PickCell \/ TakePoint \/ EndPoints \/ TakeSegment \/ EndCell \/ EndBuild
  \/ NextCell \/ NarrowSearch \/ CellFound \/ CellAbsent \/ VisitRef \/ EndVisit
  \/ Answer

Next ==
  \/ Step
  \/ \E kind \in {"point", "segment"}, disk \in Disks, limit \in Limits,
        layers \in SUBSET Layers : StartQuery(kind, disk, layers, limit)

(* The loops of a build and of a query run; nobody need ask a query.        *)
Spec == Init /\ [][Next]_vars /\ WF_vars(Step)

-----------------------------------------------------------------------------
(* Properties *)

Building  == {"pairs", "cell", "points", "segments"}
Searching == {"next", "find", "visit", "sort"}
CellEntries ==
  [cell : Cells, pointStart : Nat, pointCount : Nat, segmentStart : Nat,
   segmentCount : Nat]

(* Each variable holds a value of its kind, and indices stay in the files.  *)
TypeOK ==
  /\ pc \in Building \cup Searching \cup {"ready", "answered"}
  /\ input \in Inputs /\ directory \in {"fine", "context"}
  /\ pointPairs \in Seq([cell : Cells, id : Nat])
  /\ segmentPairs \in Seq([cell : Cells, id : Nat])
  /\ pointIndex \in 0..Len(pointPairs) /\ segmentIndex \in 0..Len(segmentPairs)
  /\ cell \in Nat /\ pointStart \in Nat /\ segmentStart \in Nat
  /\ entries \in Seq(CellEntries)
  /\ pointRefs \in Seq(Nat) /\ segmentRefs \in Seq(Nat)
  /\ todo \in Nat \ {0}
  /\ low \in Nat /\ high \in Nat /\ low <= high /\ high <= Len(entries)
  /\ refIndex \in Nat
  /\ seen \subseteq Nat /\ candidates \in Seq(Nat) /\ results \in Seq(Nat)

(* What build_cell_directory leaves: cells in order, each once, and for     *)
(* every cell the ids of exactly the points and segments that lie in it,    *)
(* each once, whatever chunks they were collected in and however the two    *)
(* merged lists interleave.                                                 *)
PointsIn(c)   == {id \in PointIds : PointCell(id) = c}
SegmentsIn(c) ==
  {id \in Ids(input.segments) : directory = "fine" /\ c \in input.segments[id + 1].cells}

Holds(refs, start, count, ids) ==
  /\ start + count <= Len(refs)
  /\ {refs[k] : k \in start + 1..start + count} = ids
  /\ \A k, l \in start + 1..start + count : refs[k] = refs[l] => k = l

DirectoryExact ==
  pc \notin Building =>
    /\ \A i, j \in 1..Len(entries) : i < j => entries[i].cell < entries[j].cell
    /\ \A i \in 1..Len(entries) :
         LET e == entries[i]
         IN /\ Holds(pointRefs, e.pointStart, e.pointCount, PointsIn(e.cell))
            /\ Holds(segmentRefs, e.segmentStart, e.segmentCount, SegmentsIn(e.cell))
    /\ \A c \in Cells :
         PointsIn(c) \cup SegmentsIn(c) # {} => \E i \in 1..Len(entries) : entries[i].cell = c

(* A query answers with what a scan of everything in its disk would: only   *)
(* entries of its layers within the radius, each once, nearest first; an    *)
(* entry is missing only when the limit is reached by others no farther.    *)
Matches ==
  {id \in Ids(Queried(query.kind)) :
     /\ Accepts(id)
     /\ \E c \in Range(query.disk) :
          IF query.kind = "point" THEN PointCell(id) = c
                                  ELSE c \in input.segments[id + 1].cells}

NearestMatches ==
  pc = "answered" =>
    /\ Range(results) \subseteq Matches
    /\ \A i, j \in 1..Len(results) :
         i < j => /\ results[i] # results[j]
                  /\ query.distance[results[i]] <= query.distance[results[j]]
    /\ \A id \in Matches \ Range(results) :
         /\ query.limit > 0 /\ Len(results) = query.limit
         /\ \A i \in 1..Len(results) : query.distance[results[i]] <= query.distance[id]

(* The merge of the pair lists ends, and so does every query, its binary    *)
(* searches included.                                                       *)
LoopsEnd ==
  /\ pc = "cell" ~> pc = "ready"
  /\ pc = "next" ~> pc = "answered"
=============================================================================
