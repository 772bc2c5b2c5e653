------------------------- MODULE CellDirectoryProofs -------------------------
(***************************************************************************)
(* Proofs about CellDirectory: for any cells, layers, entries and queries, *)
(* the merged directory holds exactly the ids of each cell, and a query    *)
(* answers with the nearest of what lies in its disk.                      *)
(***************************************************************************)
EXTENDS CellDirectory, TLAPS

-----------------------------------------------------------------------------
(* The inductive invariant: the merge *)

CellPairs == [cell : Cells, id : Nat]

Strict(ps) == \A i, j \in 1..Len(ps) : i < j => Before(ps[i], ps[j])

(* The refs are the ids of the first pairs.                                 *)
RefsOf(refs, ps, index) ==
  /\ Len(refs) = index
  /\ \A k \in 1..index : refs[k] = ps[k].id

(* The pairs of a cell are the ones in the range.                           *)
Run(ps, start, count, c) ==
  /\ start + count <= Len(ps)
  /\ \A k \in 1..Len(ps) : ps[k].cell = c <=> (start < k /\ k <= start + count)

HasEntry(c) == \E i \in 1..Len(entries) : entries[i].cell = c

(* Between two cells: merged pairs have their entry, the others come after. *)
Between(ps, index) ==
  /\ \A k \in 1..index : HasEntry(ps[k].cell)
  /\ \A k \in index + 1..Len(ps) : \A i \in 1..Len(entries) : entries[i].cell < ps[k].cell

(* Inside a cell: so too, up to where its range starts.                     *)
Inside(ps, start, index) ==
  /\ start <= index
  /\ \A k \in 1..start : HasEntry(ps[k].cell)
  /\ \A k \in start + 1..index : ps[k].cell = cell
  /\ \A k \in index + 1..Len(ps) : cell <= ps[k].cell

EntriesInv ==
  /\ \A i, j \in 1..Len(entries) : i < j => entries[i].cell < entries[j].cell
  /\ \A i \in 1..Len(entries) :
       /\ Run(pointPairs, entries[i].pointStart, entries[i].pointCount, entries[i].cell)
       /\ Run(segmentPairs, entries[i].segmentStart, entries[i].segmentCount,
              entries[i].cell)

MergeInv ==
  /\ pc = "pairs" => entries = <<>> /\ pointIndex = 0 /\ segmentIndex = 0
  /\ pc = "cell" =>
       Between(pointPairs, pointIndex) /\ Between(segmentPairs, segmentIndex)
  /\ pc \in {"points", "segments"} =>
       /\ \A i \in 1..Len(entries) : entries[i].cell < cell
       /\ Inside(pointPairs, pointStart, pointIndex)
       /\ Inside(segmentPairs, segmentStart, segmentIndex)
       /\ cell \in Cells
  /\ pc = "points" => segmentStart = segmentIndex
  /\ pc = "segments" => ~ InCell(pointPairs, pointIndex)
  /\ pc \notin Building =>
       /\ pointIndex = Len(pointPairs) /\ segmentIndex = Len(segmentPairs)
       /\ \A k \in 1..Len(pointPairs) : HasEntry(pointPairs[k].cell)
       /\ \A k \in 1..Len(segmentPairs) : HasEntry(segmentPairs[k].cell)

BuildInv ==
  /\ TypeOK
  /\ pc # "pairs" =>
       /\ Strict(pointPairs) /\ Range(pointPairs) = PointPairs
       /\ Strict(segmentPairs) /\ Range(segmentPairs) = SegmentPairs
  /\ RefsOf(pointRefs, pointPairs, pointIndex)
  /\ RefsOf(segmentRefs, segmentPairs, segmentIndex)
  /\ EntriesInv
  /\ MergeInv

-----------------------------------------------------------------------------
(* The inductive invariant: the query *)

QueryTyped ==
  /\ query = [kind |-> query.kind, disk |-> query.disk, layers |-> query.layers,
              limit |-> query.limit, distance |-> query.distance]
  /\ query.kind \in {"point", "segment"}
  /\ query.disk \in Disks
  /\ query.limit \in Limits
  /\ query.distance \in [Ids(Queried(query.kind)) -> Distances]
  /\ directory = "context" => query.kind = "point" /\ query.layers = ContextLayers

Members(c) == IF query.kind = "point" THEN PointsIn(c) ELSE SegmentsIn(c)

(* Met in an earlier cell of the disk, or in this one so far.               *)
VisitedBefore(id) == \E t \in 1..todo - 1 : id \in Members(query.disk[t])
VisitedHere(id)   == pc = "visit" /\ \E k \in 1..refIndex : Refs[Start + k] = id
Visited(id)       == VisitedBefore(id) \/ VisitedHere(id)

CandidatesInv ==
  /\ Range(candidates) =
       {id \in Ids(Queried(query.kind)) : Accepts(id) /\ Visited(id)}
  /\ \A i, j \in 1..Len(candidates) : candidates[i] = candidates[j] => i = j
  /\ seen = IF query.kind = "segment"
            THEN {id \in Ids(Queried(query.kind)) : Visited(id)} ELSE {}

SearchInv ==
  /\ \A i \in 1..low : entries[i].cell < query.disk[todo]
  /\ \A i \in high + 1..Len(entries) : query.disk[todo] < entries[i].cell

FoundInv ==
  /\ low < high
  /\ entries[Mid + 1].cell = query.disk[todo]
  /\ refIndex <= Count

QueryInv ==
  /\ pc \in Building \cup {"ready"} => todo = 1 /\ seen = {} /\ candidates = <<>>
  /\ pc \in Searching \cup {"answered"} => QueryTyped
  /\ pc \in Searching => todo <= Len(query.disk) + 1 /\ CandidatesInv
  /\ pc \in {"find", "visit"} => todo <= Len(query.disk) /\ SearchInv
  /\ pc = "visit" => FoundInv
  /\ pc = "sort" => todo = Len(query.disk) + 1
  /\ NearestMatches

CellInv == BuildInv /\ QueryInv

-----------------------------------------------------------------------------
(* Pairs *)

(* An element of a sequence is of the sequence's type.                      *)
LEMMA ElementOf ==
  ASSUME NEW S, NEW s \in Seq(S), NEW i \in 1..Len(s)
  PROVE  s[i] \in S
OBVIOUS

(* The points and segments handed over are of their types.                  *)
LEMMA InputTypes ==
  ASSUME TypeOK
  PROVE  /\ input.points \in Seq([fine : Cells, coarse : Cells, layer : Layers])
         /\ input.segments \in Seq([cells : SUBSET Cells, layer : Layers])
         /\ \A id \in Ids(input.points) : id \in Nat /\ PointCell(id) \in Cells
         /\ \A id \in Ids(input.segments) :
              id \in Nat /\ input.segments[id + 1].cells \in SUBSET Cells
<1>1. /\ input.points \in Seq([fine : Cells, coarse : Cells, layer : Layers])
      /\ input.segments \in Seq([cells : SUBSET Cells, layer : Layers])
  BY InputsAssumption DEF TypeOK
<1>2. ASSUME NEW id \in Ids(input.points)
      PROVE  id \in Nat /\ PointCell(id) \in Cells
  <2>1. id \in Nat /\ id + 1 \in 1..Len(input.points)
    BY <1>1 DEF Ids
  <2>2. input.points[id + 1] \in [fine : Cells, coarse : Cells, layer : Layers]
    BY <1>1, <2>1, ElementOf
  <2> QED
    BY <2>1, <2>2 DEF PointCell
<1>3. ASSUME NEW id \in Ids(input.segments)
      PROVE  id \in Nat /\ input.segments[id + 1].cells \in SUBSET Cells
  <2>1. id \in Nat /\ id + 1 \in 1..Len(input.segments)
    BY <1>1 DEF Ids
  <2>2. input.segments[id + 1] \in [cells : SUBSET Cells, layer : Layers]
    BY <1>1, <2>1, ElementOf
  <2> QED
    BY <2>1, <2>2
<1> QED
  BY <1>1, <1>2, <1>3

LEMMA PairTypes ==
  ASSUME NEW ps \in Seq(CellPairs), NEW k \in 1..Len(ps)
  PROVE  ps[k].cell \in Cells /\ ps[k].cell \in Nat /\ ps[k].id \in Nat
<1>1. ps[k] \in CellPairs
  BY ElementOf
<1> QED
  BY <1>1, CellsAssumption DEF CellPairs

(* Cells do not decrease along sorted pairs.                                *)
LEMMA CellsInOrder ==
  ASSUME NEW ps \in Seq(CellPairs), Strict(ps),
         NEW i \in 1..Len(ps), NEW j \in 1..Len(ps), i <= j
  PROVE  ps[i].cell <= ps[j].cell
<1>1. ps[i].cell \in Nat /\ ps[j].cell \in Nat
  BY PairTypes
<1>2. i = j \/ Before(ps[i], ps[j])
  BY DEF Strict
<1> QED
  BY <1>1, <1>2 DEF Before

(* A chunk's base and the offset in the chunk give the id back.             *)
LEMMA ChunkId == ASSUME NEW id \in Nat PROVE BaseIndex(id) + Offset(id) = id
<1>1. ChunkSize \in Nat \ {0}
  BY NumbersAssumption
<1> QED
  BY <1>1 DEF BaseIndex, Offset

(* The pairs are exactly the ids in each cell.                              *)
LEMMA PairsOfCells ==
  ASSUME TypeOK
  PROVE  /\ PointPairs \subseteq CellPairs /\ SegmentPairs \subseteq CellPairs
         /\ \A c, id : Pair(c, id) \in PointPairs <=> id \in PointsIn(c)
         /\ \A c \in Cells : \A id : Pair(c, id) \in SegmentPairs <=> id \in SegmentsIn(c)
<1> USE InputTypes
<1>1. PointPairs \subseteq CellPairs
  BY DEF PointPairs, CellPairs, Pair, PointIds
<1>2. ASSUME NEW c, NEW id PROVE Pair(c, id) \in PointPairs <=> id \in PointsIn(c)
  BY DEF PointPairs, Pair, PointsIn
<1>3. SegmentPairs =
        {Pair(p[1], p[2]) : p \in
           {p \in Cells \X Ids(input.segments) :
              directory = "fine" /\ p[1] \in input.segments[p[2] + 1].cells}}
  BY ChunkId DEF SegmentPairs
<1>4. SegmentPairs \subseteq CellPairs
  BY <1>3 DEF CellPairs, Pair
<1>5. ASSUME NEW c \in Cells, NEW id
      PROVE  Pair(c, id) \in SegmentPairs <=> id \in SegmentsIn(c)
  <2>1. ASSUME Pair(c, id) \in SegmentPairs PROVE id \in SegmentsIn(c)
    BY <1>3, <2>1 DEF Pair, SegmentsIn
  <2>2. ASSUME id \in SegmentsIn(c) PROVE Pair(c, id) \in SegmentPairs
    <3>1. <<c, id>> \in Cells \X Ids(input.segments)
      BY <2>2 DEF SegmentsIn
    <3> QED
      BY <1>3, <2>2, <3>1 DEF SegmentsIn
  <2> QED
    BY <2>1, <2>2
<1> QED
  BY <1>1, <1>2, <1>4, <1>5

(* Sorted pairs are a sequence of pairs.                                    *)
LEMMA SortedPairs ==
  ASSUME NEW set \in SUBSET CellPairs, NEW ps \in Sorted(set)
  PROVE  ps \in Seq(CellPairs) /\ Strict(ps) /\ Range(ps) = set
<1>1. PICK n \in 0..PairLimit : ps \in [1..n -> set]
  BY DEF Sorted
<1>2. n \in Nat
  BY <1>1, NumbersAssumption
<1>3. ps \in Seq(set)
  BY <1>1, <1>2
<1> QED
  BY <1>3 DEF Sorted, Strict

-----------------------------------------------------------------------------
(* Building *)

buildVars == <<input, directory, pairs, merging, files>>

LEMMA CellInit == Init => CellInv
<1> SUFFICES ASSUME Init PROVE CellInv
  OBVIOUS
<1>1. TypeOK
  BY CellsAssumption DEF Init, TypeOK, Building, Range
<1>2. EntriesInv /\ MergeInv /\ RefsOf(pointRefs, pointPairs, pointIndex)
      /\ RefsOf(segmentRefs, segmentPairs, segmentIndex)
  BY DEF Init, EntriesInv, MergeInv, RefsOf, Building
<1>3. BuildInv
  BY <1>1, <1>2 DEF BuildInv, Init
<1>4. QueryInv
  BY DEF Init, QueryInv, Building, Searching, NearestMatches
<1> QED
  BY <1>3, <1>4 DEF CellInv

(* Ending a cell: its run of pairs is complete and the rest is beyond.      *)
LEMMA RunEnds ==
  ASSUME NEW ps \in Seq(CellPairs), Strict(ps), entries \in Seq(CellEntries),
         NEW start \in Nat, NEW index \in 0..Len(ps), cell \in Cells,
         Inside(ps, start, index), ~ InCell(ps, index),
         \A i \in 1..Len(entries) : entries[i].cell < cell
  PROVE  /\ Run(ps, start, index - start, cell)
         /\ \A k \in index + 1..Len(ps) : cell < ps[k].cell
<1> USE CellsAssumption
<1>1. \A k \in 1..Len(ps) : ps[k].cell \in Nat
  BY PairTypes
<1>2. ASSUME NEW k \in index + 1..Len(ps) PROVE cell < ps[k].cell
  <2>1. index + 1 \in 1..Len(ps) /\ k \in 1..Len(ps) /\ index < Len(ps)
    OBVIOUS
  <2>2. cell <= ps[index + 1].cell /\ ps[index + 1].cell # cell
    BY <2>1 DEF Inside, InCell, More
  <2>3. ps[index + 1].cell <= ps[k].cell
    BY <2>1, CellsInOrder
  <2> QED
    BY <1>1, <2>1, <2>2, <2>3
<1>3. ASSUME NEW k \in 1..start PROVE ps[k].cell < cell
  BY <1>3 DEF Inside, HasEntry
<1>4. start <= index /\ start + (index - start) = index
  BY DEF Inside
<1>5. ASSUME NEW k \in 1..Len(ps)
      PROVE  ps[k].cell = cell <=> (start < k /\ k <= index)
  <2>1. CASE k <= start
    BY <1>1, <1>3, <1>4, <2>1
  <2>2. CASE start < k /\ k <= index
    BY <1>4, <2>2 DEF Inside
  <2>3. CASE index < k
    BY <1>1, <1>2, <1>4, <2>3
  <2> QED
    BY <2>1, <2>2, <2>3
<1> QED
  BY <1>2, <1>4, <1>5 DEF Run

(* A step that touches nothing the build made keeps its invariant.          *)
LEMMA ReadingKeeps ==
  ASSUME BuildInv, UNCHANGED buildVars, pc \notin Building, pc' \notin Building,
         TypeOK'
  PROVE  BuildInv'
<1> USE DEF buildVars, pairs, merging, files
<1>1. PointPairs' = PointPairs /\ SegmentPairs' = SegmentPairs
  BY DEF PointPairs, SegmentPairs, PointIds, PointCell, Ids, Pair, BaseIndex, Offset
<1>2. EntriesInv'
  BY DEF BuildInv, EntriesInv, Run
<1>3. MergeInv'
  BY DEF BuildInv, MergeInv, HasEntry, Building
<1>4. pc # "pairs" /\ pc' # "pairs"
  BY DEF Building
<1> QED
  BY <1>1, <1>2, <1>3, <1>4 DEF BuildInv, RefsOf, Strict, Range

LEMMA SortPairsKeeps == BuildInv /\ SortPairs => BuildInv'
<1> SUFFICES ASSUME BuildInv, SortPairs PROVE BuildInv'
  OBVIOUS
<1> USE DEF merging, files, search, found
<1>1. /\ PointPairs' = PointPairs /\ SegmentPairs' = SegmentPairs
      /\ entries' = <<>> /\ pointIndex' = 0 /\ segmentIndex' = 0
      /\ UNCHANGED <<pointRefs, segmentRefs>>
  BY DEF SortPairs, BuildInv, MergeInv, PointPairs, SegmentPairs, PointIds, PointCell,
         Ids, Pair, BaseIndex, Offset
<1>2. /\ pointPairs' \in Seq(CellPairs) /\ Strict(pointPairs')
      /\ Range(pointPairs') = PointPairs
      /\ segmentPairs' \in Seq(CellPairs) /\ Strict(segmentPairs')
      /\ Range(segmentPairs') = SegmentPairs
  BY SortedPairs, PairsOfCells DEF SortPairs, BuildInv
<1>3. TypeOK'
  BY <1>1, <1>2 DEF SortPairs, BuildInv, TypeOK, Building, CellPairs
<1>4. EntriesInv' /\ MergeInv'
  BY <1>1 DEF EntriesInv, MergeInv, Between, SortPairs, Building
<1>5. RefsOf(pointRefs', pointPairs', pointIndex')
      /\ RefsOf(segmentRefs', segmentPairs', segmentIndex')
  <2>1. Len(pointRefs) = 0 /\ Len(segmentRefs) = 0
    BY DEF BuildInv, RefsOf, SortPairs, MergeInv
  <2> QED
    BY <1>1, <2>1 DEF RefsOf
<1> QED
  BY <1>1, <1>2, <1>3, <1>4, <1>5 DEF BuildInv, Strict, Range

LEMMA PickCellKeeps == BuildInv /\ PickCell => BuildInv'
<1> SUFFICES ASSUME BuildInv, PickCell PROVE BuildInv'
  OBVIOUS
<1> USE DEF pairs, files, search, found
<1>0. /\ PointPairs' = PointPairs /\ SegmentPairs' = SegmentPairs
      /\ UNCHANGED <<pointPairs, segmentPairs, entries, pointRefs, segmentRefs,
                     pointIndex, segmentIndex>>
      /\ pc = "cell" /\ pc' = "points" /\ TypeOK
      /\ pointStart' = pointIndex /\ segmentStart' = segmentIndex
  BY DEF PickCell, BuildInv, PointPairs, SegmentPairs, PointIds, PointCell,
         Ids, Pair, BaseIndex, Offset, RefsOf
<1>1. /\ pointPairs \in Seq(CellPairs) /\ Strict(pointPairs)
      /\ segmentPairs \in Seq(CellPairs) /\ Strict(segmentPairs)
      /\ pointIndex \in 0..Len(pointPairs) /\ segmentIndex \in 0..Len(segmentPairs)
  BY <1>0 DEF BuildInv, TypeOK, CellPairs
<1>2. /\ \A k \in 1..Len(pointPairs) :
           pointPairs[k].cell \in Cells /\ pointPairs[k].cell \in Nat
      /\ \A k \in 1..Len(segmentPairs) :
           segmentPairs[k].cell \in Cells /\ segmentPairs[k].cell \in Nat
  BY <1>1, PairTypes
<1>3. cell' \in Cells
  BY <1>1, <1>2 DEF PickCell, Heads, More
<1>4. \A i \in 1..Len(entries) : entries[i].cell < cell'
  BY <1>0, <1>1 DEF PickCell, Heads, More, BuildInv, MergeInv, Between
<1>5. \A k \in pointIndex + 1..Len(pointPairs) : cell' <= pointPairs[k].cell
  <2> SUFFICES ASSUME NEW k \in pointIndex + 1..Len(pointPairs)
               PROVE  cell' <= pointPairs[k].cell
    OBVIOUS
  <2>1. cell' <= pointPairs[pointIndex + 1].cell
    BY <1>1 DEF PickCell, Heads, More
  <2>2. pointIndex + 1 \in 1..Len(pointPairs) /\ k \in 1..Len(pointPairs)
        /\ pointIndex + 1 <= k
    BY <1>1
  <2>3. pointPairs[pointIndex + 1].cell <= pointPairs[k].cell
    BY <1>1, <2>2, CellsInOrder
  <2> QED
    BY <1>2, <1>3, <2>1, <2>2, <2>3, CellsAssumption
<1>6. \A k \in segmentIndex + 1..Len(segmentPairs) : cell' <= segmentPairs[k].cell
  <2> SUFFICES ASSUME NEW k \in segmentIndex + 1..Len(segmentPairs)
               PROVE  cell' <= segmentPairs[k].cell
    OBVIOUS
  <2>1. cell' <= segmentPairs[segmentIndex + 1].cell
    BY <1>1 DEF PickCell, Heads, More
  <2>2. segmentIndex + 1 \in 1..Len(segmentPairs) /\ k \in 1..Len(segmentPairs)
        /\ segmentIndex + 1 <= k
    BY <1>1
  <2>3. segmentPairs[segmentIndex + 1].cell <= segmentPairs[k].cell
    BY <1>1, <2>2, CellsInOrder
  <2> QED
    BY <1>2, <1>3, <2>1, <2>2, <2>3, CellsAssumption
<1>7. TypeOK'
  BY <1>0, <1>3, CellsAssumption DEF PickCell, TypeOK, Building
<1>8. EntriesInv'
  BY <1>0 DEF BuildInv, EntriesInv, Run
<1>9. Inside(pointPairs, pointStart, pointIndex)'
      /\ Inside(segmentPairs, segmentStart, segmentIndex)'
  BY <1>0, <1>1, <1>5, <1>6 DEF Inside, BuildInv, MergeInv, Between, HasEntry
<1>10. MergeInv'
  BY <1>0, <1>3, <1>4, <1>9 DEF MergeInv, Building
<1> QED
  BY <1>0, <1>7, <1>8, <1>10 DEF BuildInv, RefsOf, Strict, Range

(* What every step of the merge leaves alone.                               *)
mergeKept == <<input, directory, pointPairs, segmentPairs>>

LEMMA MergeStepKeeps ==
  ASSUME BuildInv, UNCHANGED mergeKept, pc \notin {"pairs"}, pc' \notin {"pairs"},
         TypeOK', EntriesInv', MergeInv',
         RefsOf(pointRefs, pointPairs, pointIndex)',
         RefsOf(segmentRefs, segmentPairs, segmentIndex)'
  PROVE  BuildInv'
<1>1. PointPairs' = PointPairs /\ SegmentPairs' = SegmentPairs
  BY DEF mergeKept, PointPairs, SegmentPairs, PointIds, PointCell, Ids, Pair,
         BaseIndex, Offset
<1> QED
  BY <1>1 DEF mergeKept, BuildInv, Strict, Range

(* The ranges of earlier entries are about the pairs alone.                 *)
LEMMA EntriesStay ==
  ASSUME EntriesInv, UNCHANGED <<pointPairs, segmentPairs, entries>>
  PROVE  EntriesInv'
BY DEF EntriesInv, Run

(* Taking the next pair of the cell.                                        *)
LEMMA TakeNext ==
  ASSUME NEW ps \in Seq(CellPairs), NEW start \in Nat, NEW index \in 0..Len(ps),
         NEW refs \in Seq(Nat), Inside(ps, start, index), InCell(ps, index),
         RefsOf(refs, ps, index)
  PROVE  /\ Inside(ps, start, index + 1)
         /\ index + 1 \in 0..Len(ps)
         /\ Append(refs, ps[index + 1].id) \in Seq(Nat)
         /\ RefsOf(Append(refs, ps[index + 1].id), ps, index + 1)
<1>1. index + 1 \in 1..Len(ps) /\ ps[index + 1].cell = cell
  BY DEF InCell, More
<1>2. ps[index + 1].id \in Nat
  BY <1>1, PairTypes
<1>3. Inside(ps, start, index + 1)
  <2>1. \A k \in start + 1..index + 1 : ps[k].cell = cell
    BY <1>1 DEF Inside
  <2> QED
    BY <2>1 DEF Inside
<1>4. RefsOf(Append(refs, ps[index + 1].id), ps, index + 1)
  BY <1>1, <1>2 DEF RefsOf
<1> QED
  BY <1>1, <1>2, <1>3, <1>4

LEMMA TakePointKeeps == BuildInv /\ TakePoint => BuildInv'
<1> SUFFICES ASSUME BuildInv, TakePoint PROVE BuildInv'
  OBVIOUS
<1> USE DEF pairs, search, found
<1>1. /\ pointPairs \in Seq(CellPairs) /\ pointIndex \in 0..Len(pointPairs)
      /\ pointStart \in Nat /\ pointRefs \in Seq(Nat)
      /\ Inside(pointPairs, pointStart, pointIndex)
      /\ InCell(pointPairs, pointIndex) /\ RefsOf(pointRefs, pointPairs, pointIndex)
  BY DEF BuildInv, TypeOK, CellPairs, MergeInv, TakePoint
<1>2. /\ UNCHANGED <<pc, input, directory, pointPairs, segmentPairs, segmentIndex, cell,
                     pointStart, segmentStart, entries, segmentRefs>>
      /\ pc = "points"
      /\ pointIndex' = pointIndex + 1
      /\ pointRefs' = Append(pointRefs, pointPairs[pointIndex + 1].id)
  BY DEF TakePoint
<1>3. /\ pointIndex' \in 0..Len(pointPairs) /\ pointRefs' \in Seq(Nat)
      /\ RefsOf(pointRefs, pointPairs, pointIndex)'
      /\ Inside(pointPairs, pointStart, pointIndex + 1)
  BY <1>1, <1>2, TakeNext DEF RefsOf
<1>4. TypeOK'
  BY <1>2, <1>3 DEF TakePoint, BuildInv, TypeOK
<1>5. EntriesInv'
  BY <1>2, EntriesStay DEF BuildInv
<1>6. RefsOf(segmentRefs, segmentPairs, segmentIndex)'
  BY <1>2 DEF BuildInv, RefsOf
<1>7. MergeInv'
  BY <1>2, <1>3 DEF BuildInv, MergeInv, Inside, HasEntry, Building
<1> QED
  BY <1>2, <1>3, <1>4, <1>5, <1>6, <1>7, MergeStepKeeps DEF mergeKept

LEMMA TakeSegmentKeeps == BuildInv /\ TakeSegment => BuildInv'
<1> SUFFICES ASSUME BuildInv, TakeSegment PROVE BuildInv'
  OBVIOUS
<1> USE DEF pairs, search, found
<1>1. /\ segmentPairs \in Seq(CellPairs) /\ segmentIndex \in 0..Len(segmentPairs)
      /\ segmentStart \in Nat /\ segmentRefs \in Seq(Nat)
      /\ Inside(segmentPairs, segmentStart, segmentIndex)
      /\ InCell(segmentPairs, segmentIndex)
      /\ RefsOf(segmentRefs, segmentPairs, segmentIndex)
  BY DEF BuildInv, TypeOK, CellPairs, MergeInv, TakeSegment
<1>2. /\ UNCHANGED <<pc, input, directory, pointPairs, segmentPairs, pointIndex, cell,
                     pointStart, segmentStart, entries, pointRefs>>
      /\ pc = "segments"
      /\ segmentIndex' = segmentIndex + 1
      /\ segmentRefs' = Append(segmentRefs, segmentPairs[segmentIndex + 1].id)
  BY DEF TakeSegment
<1>3. /\ segmentIndex' \in 0..Len(segmentPairs) /\ segmentRefs' \in Seq(Nat)
      /\ RefsOf(segmentRefs, segmentPairs, segmentIndex)'
      /\ Inside(segmentPairs, segmentStart, segmentIndex + 1)
  BY <1>1, <1>2, TakeNext DEF RefsOf
<1>4. TypeOK'
  BY <1>2, <1>3 DEF TakeSegment, BuildInv, TypeOK
<1>5. EntriesInv'
  BY <1>2, EntriesStay DEF BuildInv
<1>6. RefsOf(pointRefs, pointPairs, pointIndex)'
  BY <1>2 DEF BuildInv, RefsOf
<1>7. MergeInv'
  BY <1>2, <1>3 DEF BuildInv, MergeInv, Inside, HasEntry, Building, InCell, More
<1> QED
  BY <1>2, <1>3, <1>4, <1>5, <1>6, <1>7, MergeStepKeeps DEF mergeKept

LEMMA EndPointsKeeps == BuildInv /\ EndPoints => BuildInv'
<1> SUFFICES ASSUME BuildInv, EndPoints PROVE BuildInv'
  OBVIOUS
<1> USE DEF pairs, merging, files, search, found
<1>1. /\ UNCHANGED <<input, directory, pointPairs, segmentPairs, pointIndex,
                     segmentIndex, cell, pointStart, segmentStart, entries, pointRefs,
                     segmentRefs>>
      /\ pc = "points" /\ pc' = "segments"
  BY DEF EndPoints
<1>2. TypeOK'
  BY DEF EndPoints, BuildInv, TypeOK, Building
<1>3. EntriesInv'
  BY <1>1, EntriesStay DEF BuildInv
<1>4. RefsOf(pointRefs, pointPairs, pointIndex)'
      /\ RefsOf(segmentRefs, segmentPairs, segmentIndex)'
  BY <1>1 DEF BuildInv, RefsOf
<1>5. MergeInv'
  BY <1>1 DEF EndPoints, BuildInv, MergeInv, Inside, HasEntry, Building, InCell, More
<1> QED
  BY <1>1, <1>2, <1>3, <1>4, <1>5, MergeStepKeeps DEF mergeKept

LEMMA EndCellKeeps == BuildInv /\ EndCell => BuildInv'
<1> SUFFICES ASSUME BuildInv, EndCell PROVE BuildInv'
  OBVIOUS
<1> USE DEF pairs, merging, search, found
<1>1. /\ UNCHANGED <<input, directory, pointPairs, segmentPairs, pointIndex,
                     segmentIndex, cell, pointStart, segmentStart, pointRefs,
                     segmentRefs>>
      /\ pc = "segments" /\ pc' = "cell"
  BY DEF EndCell
<1> DEFINE entry ==
             [cell |-> cell,
              pointStart |-> pointStart, pointCount |-> pointIndex - pointStart,
              segmentStart |-> segmentStart, segmentCount |-> segmentIndex - segmentStart]
<1>2. /\ pointPairs \in Seq(CellPairs) /\ segmentPairs \in Seq(CellPairs)
      /\ pointIndex \in 0..Len(pointPairs) /\ segmentIndex \in 0..Len(segmentPairs)
      /\ pointStart \in Nat /\ segmentStart \in Nat
      /\ entries \in Seq(CellEntries) /\ cell \in Cells
      /\ Inside(pointPairs, pointStart, pointIndex)
      /\ Inside(segmentPairs, segmentStart, segmentIndex)
      /\ ~ InCell(pointPairs, pointIndex) /\ ~ InCell(segmentPairs, segmentIndex)
      /\ \A i \in 1..Len(entries) : entries[i].cell < cell
      /\ Strict(pointPairs) /\ Strict(segmentPairs)
  BY <1>1 DEF BuildInv, TypeOK, CellPairs, MergeInv, EndCell
<1>3. entries' = Append(entries, entry)
  BY <1>1 DEF EndCell, BuildInv, RefsOf
<1>4. entry \in CellEntries
  BY <1>2 DEF CellEntries, Inside
<1>5. /\ Run(pointPairs, pointStart, pointIndex - pointStart, cell)
      /\ \A k \in pointIndex + 1..Len(pointPairs) : cell < pointPairs[k].cell
      /\ Run(segmentPairs, segmentStart, segmentIndex - segmentStart, cell)
      /\ \A k \in segmentIndex + 1..Len(segmentPairs) : cell < segmentPairs[k].cell
  BY <1>2, RunEnds
<1> HIDE DEF entry
<1>6. /\ Len(entries') = Len(entries) + 1
      /\ entries' \in Seq(CellEntries)
      /\ \A i \in 1..Len(entries) : entries'[i] = entries[i]
      /\ entries'[Len(entries) + 1] = entry
  BY <1>2, <1>3, <1>4
<1>7. /\ entry.cell = cell
      /\ entry.pointStart = pointStart /\ entry.pointCount = pointIndex - pointStart
      /\ entry.segmentStart = segmentStart
      /\ entry.segmentCount = segmentIndex - segmentStart
  BY DEF entry
<1>8. \A i \in 1..Len(entries') :
        i \in 1..Len(entries) \/ i = Len(entries) + 1
  BY <1>2, <1>6
<1>9. EntriesInv'
  <2>1. \A i, j \in 1..Len(entries') : i < j => entries'[i].cell < entries'[j].cell
    BY <1>2, <1>6, <1>7, <1>8 DEF BuildInv, EntriesInv
  <2>2. \A i \in 1..Len(entries') :
          /\ Run(pointPairs, entries'[i].pointStart, entries'[i].pointCount,
                 entries'[i].cell)
          /\ Run(segmentPairs, entries'[i].segmentStart, entries'[i].segmentCount,
                 entries'[i].cell)
    BY <1>5, <1>6, <1>7, <1>8 DEF BuildInv, EntriesInv
  <2> QED
    BY <1>1, <2>1, <2>2 DEF EntriesInv, Run
<1>10. \A c : HasEntry(c)' <=> (HasEntry(c) \/ c = cell)
  <2> SUFFICES ASSUME NEW c PROVE HasEntry(c)' <=> (HasEntry(c) \/ c = cell)
    OBVIOUS
  <2>1. Len(entries) + 1 \in 1..Len(entries') /\ 1..Len(entries) \subseteq 1..Len(entries')
    BY <1>2, <1>6
  <2> QED
    BY <1>6, <1>7, <1>8, <2>1 DEF HasEntry
<1>11. Between(pointPairs, pointIndex)'
  <2>1. \A k \in 1..pointIndex : HasEntry(pointPairs[k].cell) \/ pointPairs[k].cell = cell
    BY <1>2 DEF Inside
  <2>2. \A k \in pointIndex + 1..Len(pointPairs) : \A i \in 1..Len(entries') :
          entries'[i].cell < pointPairs[k].cell
    <3> SUFFICES ASSUME NEW k \in pointIndex + 1..Len(pointPairs),
                        NEW i \in 1..Len(entries')
                 PROVE  entries'[i].cell < pointPairs[k].cell
      OBVIOUS
    <3>0. entries'[i] \in CellEntries
      BY <1>6, ElementOf
    <3>1. entries'[i].cell <= cell /\ entries'[i].cell \in Nat
      <4>1. entries'[i].cell \in Nat /\ cell \in Nat
        BY <1>2, <3>0, CellsAssumption DEF CellEntries
      <4>2. entries'[i].cell < cell \/ entries'[i].cell = cell
        BY <1>2, <1>6, <1>7, <1>8
      <4> QED
        BY <4>1, <4>2
    <3>2. pointPairs[k].cell \in Nat /\ cell \in Nat
      BY <1>2, PairTypes, CellsAssumption
    <3> QED
      BY <1>5, <3>1, <3>2
  <2> QED
    BY <1>1, <1>10, <2>1, <2>2 DEF Between
<1>12. Between(segmentPairs, segmentIndex)'
  <2>1. \A k \in 1..segmentIndex :
          HasEntry(segmentPairs[k].cell) \/ segmentPairs[k].cell = cell
    BY <1>2 DEF Inside
  <2>2. \A k \in segmentIndex + 1..Len(segmentPairs) : \A i \in 1..Len(entries') :
          entries'[i].cell < segmentPairs[k].cell
    <3> SUFFICES ASSUME NEW k \in segmentIndex + 1..Len(segmentPairs),
                        NEW i \in 1..Len(entries')
                 PROVE  entries'[i].cell < segmentPairs[k].cell
      OBVIOUS
    <3>0. entries'[i] \in CellEntries
      BY <1>6, ElementOf
    <3>1. entries'[i].cell <= cell /\ entries'[i].cell \in Nat
      <4>1. entries'[i].cell \in Nat /\ cell \in Nat
        BY <1>2, <3>0, CellsAssumption DEF CellEntries
      <4>2. entries'[i].cell < cell \/ entries'[i].cell = cell
        BY <1>2, <1>6, <1>7, <1>8
      <4> QED
        BY <4>1, <4>2
    <3>2. segmentPairs[k].cell \in Nat /\ cell \in Nat
      BY <1>2, PairTypes, CellsAssumption
    <3> QED
      BY <1>5, <3>1, <3>2
  <2> QED
    BY <1>1, <1>10, <2>1, <2>2 DEF Between
<1>13. MergeInv'
  BY <1>1, <1>11, <1>12 DEF MergeInv, Building
<1>14. low <= high /\ high <= Len(entries') /\ TypeOK'
  BY <1>1, <1>6 DEF EndCell, BuildInv, TypeOK, Building
<1>15. RefsOf(pointRefs, pointPairs, pointIndex)'
       /\ RefsOf(segmentRefs, segmentPairs, segmentIndex)'
  BY <1>1 DEF BuildInv, RefsOf
<1> QED
  BY <1>1, <1>9, <1>13, <1>14, <1>15, MergeStepKeeps DEF mergeKept

LEMMA EndBuildKeeps == BuildInv /\ EndBuild => BuildInv'
<1> SUFFICES ASSUME BuildInv, EndBuild PROVE BuildInv'
  OBVIOUS
<1> USE DEF pairs, merging, files, search, found
<1>1. /\ UNCHANGED <<input, directory, pointPairs, segmentPairs, pointIndex,
                     segmentIndex, cell, pointStart, segmentStart, entries, pointRefs,
                     segmentRefs>>
      /\ pc = "cell" /\ pc' = "ready"
  BY DEF EndBuild
<1>2. pointIndex = Len(pointPairs) /\ segmentIndex = Len(segmentPairs)
  <2>1. /\ pointIndex \in 0..Len(pointPairs) /\ segmentIndex \in 0..Len(segmentPairs)
        /\ Len(pointPairs) \in Nat /\ Len(segmentPairs) \in Nat
    BY DEF BuildInv, TypeOK
  <2>2. ~ More(pointPairs, pointIndex) /\ ~ More(segmentPairs, segmentIndex)
    BY DEF EndBuild, Heads
  <2> QED
    BY <2>1, <2>2 DEF More
<1>3. TypeOK'
  BY DEF EndBuild, BuildInv, TypeOK, Building
<1>4. EntriesInv'
  BY <1>1, EntriesStay DEF BuildInv
<1>5. RefsOf(pointRefs, pointPairs, pointIndex)'
      /\ RefsOf(segmentRefs, segmentPairs, segmentIndex)'
  BY <1>1 DEF BuildInv, RefsOf
<1>6. MergeInv'
  BY <1>1, <1>2 DEF BuildInv, MergeInv, Between, HasEntry, Building
<1> QED
  BY <1>1, <1>3, <1>4, <1>5, <1>6, MergeStepKeeps DEF mergeKept

-----------------------------------------------------------------------------
(* The directory *)

(* A run of sorted pairs gives each id of its cell once.                    *)
LEMMA RunHolds ==
  ASSUME NEW ps \in Seq(CellPairs), Strict(ps), NEW refs \in Seq(Nat),
         RefsOf(refs, ps, Len(ps)), NEW start \in Nat, NEW count \in Nat, NEW c,
         Run(ps, start, count, c), NEW ids,
         \A id : Pair(c, id) \in Range(ps) <=> id \in ids
  PROVE  Holds(refs, start, count, ids)
<1>1. start + count <= Len(refs) /\ Len(refs) = Len(ps)
  BY DEF Run, RefsOf
<1>2. ASSUME NEW k \in start + 1..start + count
      PROVE  /\ k \in 1..Len(ps) /\ refs[k] = ps[k].id /\ ps[k].id \in Nat
             /\ ps[k] = Pair(c, ps[k].id) /\ ps[k].cell = c
  <2>1. k \in 1..Len(ps) /\ start < k
    BY <1>1
  <2>2. ps[k] \in CellPairs /\ ps[k].cell = c
    BY <2>1, ElementOf DEF Run
  <2> QED
    BY <2>1, <2>2 DEF RefsOf, CellPairs, Pair
<1>3. {refs[k] : k \in start + 1..start + count} \subseteq ids
  BY <1>2 DEF Range
<1>4. ASSUME NEW id \in ids PROVE id \in {refs[k] : k \in start + 1..start + count}
  <2>1. PICK k \in 1..Len(ps) : ps[k] = Pair(c, id)
    BY DEF Range
  <2>2. k \in start + 1..start + count
    BY <2>1 DEF Run, Pair
  <2> QED
    BY <1>2, <2>1, <2>2 DEF Pair
<1>5. ASSUME NEW k \in start + 1..start + count, NEW l \in start + 1..start + count,
             k < l
      PROVE  refs[k] # refs[l]
  <2>1. Before(ps[k], ps[l])
    BY <1>2, <1>5 DEF Strict
  <2>2. k \in 1..Len(ps) /\ ps[k].cell = c /\ ps[l].cell = c
    BY <1>2
  <2>3. c \in Nat
    BY <2>2, PairTypes
  <2> QED
    BY <1>2, <2>1, <2>2, <2>3 DEF Before
<1>6. \A k, l \in start + 1..start + count : refs[k] = refs[l] => k = l
  BY <1>5
<1> QED
  BY <1>1, <1>3, <1>4, <1>6 DEF Holds

LEMMA EntryTypes ==
  ASSUME entries \in Seq(CellEntries), NEW i \in 1..Len(entries)
  PROVE  /\ entries[i].cell \in Cells /\ entries[i].cell \in Nat
         /\ entries[i].pointStart \in Nat /\ entries[i].pointCount \in Nat
         /\ entries[i].segmentStart \in Nat /\ entries[i].segmentCount \in Nat
<1>1. entries[i] \in CellEntries
  BY ElementOf
<1> QED
  BY <1>1, CellsAssumption DEF CellEntries

LEMMA DirectoryHolds == BuildInv => DirectoryExact
<1> SUFFICES ASSUME BuildInv, pc \notin Building PROVE DirectoryExact
  BY DEF DirectoryExact
<1>1. /\ TypeOK /\ entries \in Seq(CellEntries)
      /\ pointPairs \in Seq(CellPairs) /\ Strict(pointPairs)
      /\ segmentPairs \in Seq(CellPairs) /\ Strict(segmentPairs)
      /\ pointRefs \in Seq(Nat) /\ RefsOf(pointRefs, pointPairs, Len(pointPairs))
      /\ segmentRefs \in Seq(Nat) /\ RefsOf(segmentRefs, segmentPairs, Len(segmentPairs))
      /\ Range(pointPairs) = PointPairs /\ Range(segmentPairs) = SegmentPairs
  BY DEF BuildInv, TypeOK, MergeInv, Building, CellPairs
<1>2. \A i, j \in 1..Len(entries) : i < j => entries[i].cell < entries[j].cell
  BY DEF BuildInv, EntriesInv
<1>3. ASSUME NEW i \in 1..Len(entries)
      PROVE  /\ Holds(pointRefs, entries[i].pointStart, entries[i].pointCount,
                      PointsIn(entries[i].cell))
             /\ Holds(segmentRefs, entries[i].segmentStart, entries[i].segmentCount,
                      SegmentsIn(entries[i].cell))
  <2>1. /\ entries[i].cell \in Cells
        /\ entries[i].pointStart \in Nat /\ entries[i].pointCount \in Nat
        /\ entries[i].segmentStart \in Nat /\ entries[i].segmentCount \in Nat
    BY <1>1, EntryTypes
  <2>2. /\ Run(pointPairs, entries[i].pointStart, entries[i].pointCount, entries[i].cell)
        /\ Run(segmentPairs, entries[i].segmentStart, entries[i].segmentCount,
               entries[i].cell)
    BY DEF BuildInv, EntriesInv
  <2>3. /\ \A id : Pair(entries[i].cell, id) \in Range(pointPairs)
               <=> id \in PointsIn(entries[i].cell)
        /\ \A id : Pair(entries[i].cell, id) \in Range(segmentPairs)
               <=> id \in SegmentsIn(entries[i].cell)
    BY <1>1, <2>1, PairsOfCells
  <2>4. Holds(pointRefs, entries[i].pointStart, entries[i].pointCount,
              PointsIn(entries[i].cell))
    BY <1>1, <2>1, <2>2, <2>3, RunHolds
  <2>5. Holds(segmentRefs, entries[i].segmentStart, entries[i].segmentCount,
              SegmentsIn(entries[i].cell))
    BY <1>1, <2>1, <2>2, <2>3, RunHolds
  <2> QED
    BY <2>4, <2>5
<1>4. ASSUME NEW c \in Cells, PointsIn(c) \cup SegmentsIn(c) # {}
      PROVE  \E i \in 1..Len(entries) : entries[i].cell = c
  <2>1. /\ \A k \in 1..Len(pointPairs) : HasEntry(pointPairs[k].cell)
        /\ \A k \in 1..Len(segmentPairs) : HasEntry(segmentPairs[k].cell)
    BY DEF BuildInv, MergeInv
  <2>2. ASSUME NEW id \in PointsIn(c) PROVE HasEntry(c)
    <3>1. PICK k \in 1..Len(pointPairs) : pointPairs[k] = Pair(c, id)
      BY <1>1, PairsOfCells DEF Range
    <3> QED
      BY <2>1, <3>1 DEF Pair
  <2>3. ASSUME NEW id \in SegmentsIn(c) PROVE HasEntry(c)
    <3>1. PICK k \in 1..Len(segmentPairs) : segmentPairs[k] = Pair(c, id)
      BY <1>1, PairsOfCells DEF Range
    <3> QED
      BY <2>1, <3>1 DEF Pair
  <2> QED
    BY <1>4, <2>2, <2>3 DEF HasEntry
<1> QED
  BY <1>2, <1>3, <1>4 DEF DirectoryExact

-----------------------------------------------------------------------------
(* Searching *)

LEMMA MidBetween ==
  ASSUME TypeOK, low < high
  PROVE  Mid \in Nat /\ low <= Mid /\ Mid < high /\ Mid + 1 \in 1..Len(entries)
<1>1. low \in Nat /\ high \in Nat /\ high <= Len(entries) /\ Len(entries) \in Nat
  BY DEF TypeOK
<1>2. (high - low) \div 2 \in Nat /\ (high - low) \div 2 < high - low
  BY <1>1
<1> QED
  BY <1>1, <1>2 DEF Mid

(* The refs of the found cell are the ids in it, each once.                 *)
LEMMA FoundRefs ==
  ASSUME TypeOK, DirectoryExact, pc \notin Building, query.kind \in {"point", "segment"},
         low < high
  PROVE  /\ Start \in Nat /\ Count \in Nat
         /\ Holds(Refs, Start, Count, Members(entries[Mid + 1].cell))
<1>1. Mid + 1 \in 1..Len(entries) /\ entries \in Seq(CellEntries)
  BY MidBetween DEF TypeOK
<1>2. Start \in Nat /\ Count \in Nat
  BY <1>1, EntryTypes DEF Start, Count
<1> QED
  BY <1>1, <1>2 DEF DirectoryExact, Start, Count, Refs, Members

(* A cell between the bounds' neighbours has no entry, so nothing is in it. *)
LEMMA AbsentCell ==
  ASSUME TypeOK, DirectoryExact, pc \notin Building, low >= high, SearchInv,
         query.disk[todo] \in Cells
  PROVE  Members(query.disk[todo]) = {}
<1>1. entries \in Seq(CellEntries) /\ low \in Nat /\ high \in Nat /\ low = high
      /\ Len(entries) \in Nat
  BY DEF TypeOK
<1>2. \A i \in 1..Len(entries) : entries[i].cell # query.disk[todo]
  <2> SUFFICES ASSUME NEW i \in 1..Len(entries) PROVE entries[i].cell # query.disk[todo]
    OBVIOUS
  <2>1. entries[i].cell \in Nat /\ query.disk[todo] \in Nat
    BY <1>1, EntryTypes, CellsAssumption
  <2>2. i \in 1..low \/ i \in high + 1..Len(entries)
    BY <1>1
  <2> QED
    BY <2>1, <2>2 DEF SearchInv
<1> QED
  BY <1>2 DEF DirectoryExact, Members

-----------------------------------------------------------------------------
(* Querying *)

(* The matches of an entry, and of a candidate, do not depend on the search. *)
asked == <<input, directory, query>>

LEMMA AskedStays ==
  ASSUME UNCHANGED asked
  PROVE  /\ \A id : Accepts(id)' <=> Accepts(id)
         /\ \A c : Members(c)' = Members(c)
         /\ Ids(Queried(query.kind))' = Ids(Queried(query.kind))
         /\ QueryTyped' <=> QueryTyped
BY DEF asked, Accepts, Members, PointsIn, SegmentsIn, PointIds, PointCell, Ids, Queried,
       QueryTyped

(* A step that meets nothing new.                                           *)
LEMMA NothingMet ==
  ASSUME UNCHANGED <<asked, seen, candidates>>, CandidatesInv,
         \A id : Visited(id)' <=> Visited(id)
  PROVE  CandidatesInv'
<1>1. {id \in Ids(Queried(query.kind)) : Accepts(id) /\ Visited(id)}' =
        {id \in Ids(Queried(query.kind)) : Accepts(id) /\ Visited(id)}
  BY AskedStays
<1>2. {id \in Ids(Queried(query.kind)) : Visited(id)}' =
        {id \in Ids(Queried(query.kind)) : Visited(id)}
  BY AskedStays
<1>3. query' = query /\ seen' = seen /\ candidates' = candidates
  BY DEF asked
<1> QED
  BY <1>1, <1>2, <1>3 DEF CandidatesInv, Range

LEMMA DiskTypes ==
  ASSUME QueryTyped
  PROVE  /\ query.disk \in Seq(Cells)
         /\ \A i, j \in 1..Len(query.disk) : query.disk[i] = query.disk[j] => i = j
         /\ \A i \in 1..Len(query.disk) : query.disk[i] \in Cells
BY DisksAssumption DEF QueryTyped, IsInjective

(* The search variables of each state: what the query's steps start from.   *)
LEMMA Searches ==
  ASSUME CellInv, pc \in Searching
  PROVE  /\ TypeOK /\ DirectoryExact /\ QueryTyped /\ CandidatesInv
         /\ query.kind \in {"point", "segment"}
         /\ todo \in Nat \ {0} /\ todo <= Len(query.disk) + 1 /\ Len(query.disk) \in Nat
         /\ pc \notin Building
<1>1. TypeOK /\ DirectoryExact
  BY DirectoryHolds DEF CellInv, BuildInv
<1>2. QueryTyped /\ CandidatesInv /\ todo <= Len(query.disk) + 1
  BY DEF CellInv, QueryInv
<1>3. query.kind \in {"point", "segment"} /\ Len(query.disk) \in Nat
  BY <1>2, DiskTypes DEF QueryTyped
<1>4. todo \in Nat \ {0} /\ pc \notin Building
  BY <1>1 DEF TypeOK, Searching, Building
<1> QED
  BY <1>1, <1>2, <1>3, <1>4

LEMMA StartQueryKeeps ==
  ASSUME CellInv, NEW kind \in {"point", "segment"}, NEW disk \in Disks,
         NEW layers \in SUBSET Layers, NEW limit \in Limits,
         StartQuery(kind, disk, layers, limit)
  PROVE  CellInv'
<1> USE DEF pairs, merging, files, search, found
<1>1. pc = "ready" /\ pc' = "next"
      /\ UNCHANGED <<input, directory, buildVars, todo, low, high, refIndex, seen,
                     candidates, results>>
  BY DEF StartQuery, buildVars
<1>2. TypeOK'
  BY DEF StartQuery, CellInv, BuildInv, TypeOK, Building, Searching
<1>3. BuildInv'
  BY <1>1, <1>2, ReadingKeeps DEF CellInv, buildVars, Building
<1>4. todo = 1 /\ seen = {} /\ candidates = <<>>
  BY <1>1 DEF CellInv, QueryInv
<1>5. QueryTyped'
  <2>1. PICK distance \in [Ids(Queried(kind)) -> Distances] :
          query' = [kind |-> kind, disk |-> disk, layers |-> layers, limit |-> limit,
                    distance |-> distance]
    BY DEF StartQuery
  <2>2. query'.kind = kind /\ Ids(Queried(query.kind))' = Ids(Queried(kind))
    BY <1>1, <2>1 DEF Ids, Queried
  <2>3. directory' = "context" => kind = "point" /\ layers = ContextLayers
    BY <1>1 DEF StartQuery
  <2> QED
    BY <2>1, <2>2, <2>3 DEF QueryTyped
<1>6. CandidatesInv'
  <2>1. \A id : ~ Visited(id)'
    BY <1>1, <1>4 DEF Visited, VisitedBefore, VisitedHere
  <2>2. Range(candidates') = {} /\ seen' = {} /\ Len(candidates') = 0
    BY <1>1, <1>4 DEF Range
  <2> QED
    BY <2>1, <2>2 DEF CandidatesInv
<1>7. todo' <= Len(query'.disk) + 1
  BY <1>1, <1>4, <1>5, DisksAssumption DEF QueryTyped
<1> QED
  BY <1>1, <1>3, <1>5, <1>6, <1>7
     DEF CellInv, QueryInv, Building, Searching, NearestMatches

LEMMA NextCellKeeps == CellInv /\ NextCell => CellInv'
<1> SUFFICES ASSUME CellInv, NextCell PROVE CellInv'
  OBVIOUS
<1> USE DEF pairs, merging, files, search, found
<1>1. /\ pc = "next" /\ UNCHANGED <<asked, buildVars, todo, refIndex, seen, candidates, results>>
      /\ pc' \in {"find", "sort"}
  BY DEF NextCell, asked, buildVars
<1>2. /\ TypeOK /\ QueryTyped /\ CandidatesInv /\ todo \in Nat \ {0}
      /\ todo <= Len(query.disk) + 1 /\ Len(query.disk) \in Nat
  BY <1>1, Searches DEF Searching
<1>3. TypeOK'
  BY <1>2 DEF NextCell, TypeOK, Building, Searching
<1>4. BuildInv'
  BY <1>1, <1>3, ReadingKeeps DEF CellInv, Building
<1>5. QueryTyped' /\ query' = query /\ todo' = todo
  BY <1>1, <1>2, AskedStays DEF asked
<1>6. CandidatesInv'
  <2>1. \A id : Visited(id)' <=> Visited(id)
    BY <1>1, AskedStays DEF Visited, VisitedBefore, VisitedHere, asked
  <2> QED
    BY <1>1, <1>2, <2>1, NothingMet
<1>7. CASE pc' = "find"
  <2>1. todo <= Len(query.disk) /\ low' = 0 /\ high' = Len(entries) /\ entries' = entries
    BY <1>1, <1>7 DEF NextCell, buildVars
  <2>2. SearchInv'
    BY <1>2, <2>1 DEF SearchInv, TypeOK
  <2> QED
    BY <1>2, <1>4, <1>5, <1>6, <1>7, <2>1, <2>2
       DEF CellInv, QueryInv, Building, Searching, NearestMatches
<1>8. CASE pc' = "sort"
  <2>1. todo = Len(query.disk) + 1
    BY <1>2, <1>8 DEF NextCell
  <2> QED
    BY <1>2, <1>4, <1>5, <1>6, <1>8, <2>1
       DEF CellInv, QueryInv, Building, Searching, NearestMatches
<1> QED
  BY <1>1, <1>7, <1>8

LEMMA NarrowSearchKeeps == CellInv /\ NarrowSearch => CellInv'
<1> SUFFICES ASSUME CellInv, NarrowSearch PROVE CellInv'
  OBVIOUS
<1> USE DEF pairs, merging, files, search, found
<1>1. /\ pc = "find" /\ pc' = "find" /\ low < high
      /\ UNCHANGED <<asked, buildVars, todo, refIndex, seen, candidates, results>>
  BY DEF NarrowSearch, asked, buildVars
<1>2. /\ TypeOK /\ DirectoryExact /\ QueryTyped /\ CandidatesInv
      /\ todo \in Nat \ {0} /\ todo <= Len(query.disk) /\ Len(query.disk) \in Nat
      /\ SearchInv
  BY <1>1, Searches DEF Searching, CellInv, QueryInv
<1>3. Mid \in Nat /\ low <= Mid /\ Mid < high /\ Mid + 1 \in 1..Len(entries)
  BY <1>1, <1>2, MidBetween
<1>4. /\ entries' = entries /\ query' = query /\ todo' = todo
      /\ low \in Nat /\ high \in Nat /\ high <= Len(entries) /\ Len(entries) \in Nat
  BY <1>1, <1>2 DEF buildVars, asked, TypeOK
<1>5. \/ entries[Mid + 1].cell < query.disk[todo] /\ low' = Mid + 1 /\ high' = high
      \/ query.disk[todo] < entries[Mid + 1].cell /\ high' = Mid /\ low' = low
  BY <1>2, <1>3, <1>4, EntryTypes, DiskTypes, CellsAssumption DEF NarrowSearch, TypeOK
<1>6. TypeOK'
  BY <1>1, <1>2, <1>3, <1>4, <1>5 DEF NarrowSearch, TypeOK
<1>7. BuildInv'
  BY <1>1, <1>6, ReadingKeeps DEF CellInv, Building
<1>8. CandidatesInv' /\ QueryTyped'
  <2>1. \A id : Visited(id)' <=> Visited(id)
    BY <1>1, AskedStays DEF Visited, VisitedBefore, VisitedHere, asked
  <2> QED
    BY <1>1, <1>2, <2>1, NothingMet, AskedStays
<1>9. SearchInv'
  <2>1. \A i \in 1..Len(entries) : entries[i].cell \in Nat
    BY <1>2, EntryTypes DEF TypeOK
  <2>2. query.disk[todo] \in Nat
    <3>1. todo \in 1..Len(query.disk)
      BY <1>2
    <3> QED
      BY <1>2, <3>1, DiskTypes, CellsAssumption
  <2>3. \A i, j \in 1..Len(entries) : i < j => entries[i].cell < entries[j].cell
    BY <1>1, <1>2 DEF DirectoryExact, Building
  <2>4. CASE entries[Mid + 1].cell < query.disk[todo] /\ low' = Mid + 1 /\ high' = high
    <3>1. ASSUME NEW i \in 1..Mid + 1 PROVE entries[i].cell < query.disk[todo]
      <4>1. i = Mid + 1 \/ (i < Mid + 1 /\ i \in 1..Len(entries))
        BY <1>3
      <4> QED
        BY <1>3, <2>1, <2>2, <2>3, <2>4, <4>1
    <3> QED
      BY <1>2, <1>4, <2>4, <3>1 DEF SearchInv
  <2>5. CASE query.disk[todo] < entries[Mid + 1].cell /\ high' = Mid /\ low' = low
    <3>1. ASSUME NEW i \in Mid + 1..Len(entries) PROVE query.disk[todo] < entries[i].cell
      <4>1. i = Mid + 1 \/ (Mid + 1 < i /\ i \in 1..Len(entries))
        BY <1>3
      <4> QED
        BY <1>3, <2>1, <2>2, <2>3, <2>5, <4>1
    <3> QED
      BY <1>2, <1>4, <2>5, <3>1 DEF SearchInv
  <2> QED
    BY <1>5, <2>4, <2>5
<1> QED
  BY <1>1, <1>2, <1>4, <1>7, <1>8, <1>9
     DEF CellInv, QueryInv, Building, Searching, NearestMatches

LEMMA CellFoundKeeps == CellInv /\ CellFound => CellInv'
<1> SUFFICES ASSUME CellInv, CellFound PROVE CellInv'
  OBVIOUS
<1> USE DEF pairs, merging, files, search, found
<1>1. /\ pc = "find" /\ pc' = "visit" /\ low < high /\ refIndex' = 0
      /\ entries[Mid + 1].cell = query.disk[todo]
      /\ UNCHANGED <<asked, buildVars, todo, low, high, seen, candidates, results>>
  BY DEF CellFound, asked, buildVars
<1>2. /\ TypeOK /\ DirectoryExact /\ QueryTyped /\ CandidatesInv
      /\ todo \in Nat \ {0} /\ todo <= Len(query.disk) /\ Len(query.disk) \in Nat
      /\ SearchInv /\ query.kind \in {"point", "segment"} /\ pc \notin Building
  BY <1>1, Searches DEF Searching, CellInv, QueryInv
<1>3. TypeOK'
  BY <1>1, <1>2 DEF CellFound, TypeOK, Searching
<1>4. BuildInv'
  BY <1>1, <1>3, ReadingKeeps DEF CellInv, Building
<1>5. CandidatesInv' /\ QueryTyped'
  <2>1. \A id : Visited(id)' <=> Visited(id)
    BY <1>1, AskedStays DEF Visited, VisitedBefore, VisitedHere, asked
  <2> QED
    BY <1>1, <1>2, <2>1, NothingMet, AskedStays
<1>6. SearchInv' /\ FoundInv'
  <2>1. Count \in Nat
    BY <1>1, <1>2, FoundRefs
  <2>2. entries' = entries /\ query' = query /\ Mid' = Mid /\ Count' = Count
    BY <1>1 DEF buildVars, asked, Mid, Count
  <2> QED
    BY <1>1, <1>2, <2>1, <2>2 DEF SearchInv, FoundInv
<1> QED
  BY <1>1, <1>2, <1>4, <1>5, <1>6
     DEF CellInv, QueryInv, Building, Searching, NearestMatches, asked
(* Going on to the next cell: this one has been met.                        *)
LEMMA VisitedNext ==
  ASSUME todo \in Nat \ {0}, todo' = todo + 1, UNCHANGED asked, NEW id
  PROVE  VisitedBefore(id)' <=> (VisitedBefore(id) \/ id \in Members(query.disk[todo]))
<1>1. 1..todo' - 1 = (1..todo - 1) \cup {todo}
  OBVIOUS
<1>2. query' = query /\ \A c : Members(c)' = Members(c)
  BY AskedStays DEF asked
<1> QED
  BY <1>1, <1>2 DEF VisitedBefore

LEMMA CellAbsentKeeps == CellInv /\ CellAbsent => CellInv'
<1> SUFFICES ASSUME CellInv, CellAbsent PROVE CellInv'
  OBVIOUS
<1> USE DEF pairs, merging, files, search, found
<1>1. /\ pc = "find" /\ pc' = "next" /\ low >= high /\ todo' = todo + 1
      /\ UNCHANGED <<asked, buildVars, low, high, refIndex, seen, candidates, results>>
  BY DEF CellAbsent, asked, buildVars
<1>2. /\ TypeOK /\ DirectoryExact /\ QueryTyped /\ CandidatesInv
      /\ todo \in Nat \ {0} /\ todo <= Len(query.disk) /\ Len(query.disk) \in Nat
      /\ SearchInv /\ pc \notin Building
  BY <1>1, Searches DEF Searching, CellInv, QueryInv
<1>3. TypeOK'
  BY <1>1, <1>2 DEF CellAbsent, TypeOK, Searching
<1>4. BuildInv'
  BY <1>1, <1>3, ReadingKeeps DEF CellInv, Building
<1>5. Members(query.disk[todo]) = {}
  <2>1. todo \in 1..Len(query.disk)
    BY <1>2
  <2> QED
    BY <1>1, <1>2, <2>1, AbsentCell, DiskTypes
<1>6. CandidatesInv' /\ QueryTyped'
  <2>1. \A id : Visited(id)' <=> Visited(id)
    BY <1>1, <1>2, <1>5, VisitedNext DEF Visited, VisitedHere
  <2> QED
    BY <1>1, <1>2, <2>1, NothingMet, AskedStays
<1>7. query' = query /\ todo' <= Len(query'.disk) + 1
  BY <1>1, <1>2 DEF asked
<1> QED
  BY <1>1, <1>4, <1>6, <1>7 DEF CellInv, QueryInv, Building, Searching, NearestMatches

LEMMA EndVisitKeeps == CellInv /\ EndVisit => CellInv'
<1> SUFFICES ASSUME CellInv, EndVisit PROVE CellInv'
  OBVIOUS
<1> USE DEF pairs, merging, files, search, found
<1>1. /\ pc = "visit" /\ pc' = "next" /\ refIndex >= Count /\ todo' = todo + 1
      /\ UNCHANGED <<asked, buildVars, low, high, refIndex, seen, candidates, results>>
  BY DEF EndVisit, asked, buildVars
<1>2. /\ TypeOK /\ DirectoryExact /\ QueryTyped /\ CandidatesInv
      /\ todo \in Nat \ {0} /\ todo <= Len(query.disk) /\ Len(query.disk) \in Nat
      /\ FoundInv /\ pc \notin Building /\ query.kind \in {"point", "segment"}
  BY <1>1, Searches DEF Searching, CellInv, QueryInv
<1>3. TypeOK'
  BY <1>1, <1>2 DEF EndVisit, TypeOK, Searching
<1>4. BuildInv'
  BY <1>1, <1>3, ReadingKeeps DEF CellInv, Building
<1>5. /\ Start \in Nat /\ Count \in Nat
      /\ Holds(Refs, Start, Count, Members(query.disk[todo]))
  BY <1>2, FoundRefs DEF FoundInv
<1>6. refIndex = Count
  BY <1>1, <1>2, <1>5 DEF FoundInv, TypeOK
<1>7. \A id : VisitedHere(id) <=> id \in Members(query.disk[todo])
  <2> SUFFICES ASSUME NEW id
               PROVE  VisitedHere(id) <=> id \in Members(query.disk[todo])
    OBVIOUS
  <2>1. Members(query.disk[todo]) = {Refs[k] : k \in Start + 1..Start + Count}
    BY <1>5 DEF Holds
  <2>2. ASSUME NEW k \in Start + 1..Start + Count
        PROVE  k - Start \in 1..refIndex /\ Start + (k - Start) = k
    BY <1>5, <1>6
  <2>3. ASSUME NEW k \in 1..refIndex PROVE Start + k \in Start + 1..Start + Count
    BY <1>5, <1>6
  <2> QED
    BY <1>1, <2>1, <2>2, <2>3 DEF VisitedHere
<1>8. CandidatesInv' /\ QueryTyped'
  <2>1. \A id : Visited(id)' <=> Visited(id)
    BY <1>1, <1>2, <1>7, VisitedNext DEF Visited, VisitedHere
  <2> QED
    BY <1>1, <1>2, <2>1, NothingMet, AskedStays
<1>9. query' = query /\ todo' <= Len(query'.disk) + 1
  BY <1>1, <1>2 DEF asked
<1> QED
  BY <1>1, <1>4, <1>8, <1>9 DEF CellInv, QueryInv, Building, Searching, NearestMatches
(* What lies in a cell is one of the queried things.                        *)
LEMMA MembersAreIds ==
  ASSUME TypeOK, query.kind \in {"point", "segment"}, NEW c, NEW id \in Members(c)
  PROVE  /\ id \in Ids(Queried(query.kind)) /\ id \in Nat
         /\ query.kind = "point" => PointCell(id) = c
<1>1. id \in Ids(Queried(query.kind))
  BY DEF Members, PointsIn, SegmentsIn, PointIds, Queried
<1>2. id \in Nat
  BY <1>1, InputTypes DEF Queried
<1> QED
  BY <1>1, <1>2 DEF Members, PointsIn

(* The next ref is of the current cell, and was met before only if it is a  *)
(* segment: seen_segment_ids tells.                                         *)
LEMMA NextRef ==
  ASSUME TypeOK, DirectoryExact, QueryTyped, CandidatesInv, FoundInv, pc = "visit",
         refIndex < Count, todo <= Len(query.disk)
  PROVE  /\ Ref \in Members(query.disk[todo])
         /\ Ref \in Ids(Queried(query.kind)) /\ Ref \in Nat
         /\ Ref \in seen <=> Visited(Ref)
<1>1. query.kind \in {"point", "segment"} /\ pc \notin Building
      /\ todo \in 1..Len(query.disk) /\ todo \in Nat /\ Len(query.disk) \in Nat
  BY DiskTypes DEF QueryTyped, Building, TypeOK
<1>2. /\ Start \in Nat /\ Count \in Nat
      /\ Holds(Refs, Start, Count, Members(query.disk[todo]))
  BY <1>1, FoundRefs DEF FoundInv
<1>3. refIndex \in Nat /\ Start + refIndex + 1 \in Start + 1..Start + Count
  BY <1>2 DEF TypeOK
<1>4. Ref \in Members(query.disk[todo])
  BY <1>2, <1>3 DEF Holds, Ref
<1>5. /\ Ref \in Ids(Queried(query.kind)) /\ Ref \in Nat
      /\ query.kind = "point" => PointCell(Ref) = query.disk[todo]
  BY <1>1, <1>4, MembersAreIds
<1>6. CASE query.kind = "segment"
  BY <1>4, <1>5, <1>6 DEF CandidatesInv
<1>7. CASE query.kind = "point"
  <2>1. Ref \notin seen
    BY <1>7 DEF CandidatesInv
  <2>2. ~ VisitedBefore(Ref)
    <3> SUFFICES ASSUME NEW t \in 1..todo - 1, Ref \in Members(query.disk[t])
                 PROVE  FALSE
      BY DEF VisitedBefore
    <3>1. PointCell(Ref) = query.disk[t]
      BY <1>1, <1>7, MembersAreIds
    <3>2. t \in 1..Len(query.disk) /\ t # todo
      BY <1>1
    <3> QED
      BY <1>1, <1>5, <1>7, <3>1, <3>2, DiskTypes
  <2>3. ~ VisitedHere(Ref)
    <3> SUFFICES ASSUME NEW k \in 1..refIndex, Refs[Start + k] = Ref
                 PROVE  FALSE
      BY DEF VisitedHere
    <3>1. /\ Start + k \in Start + 1..Start + Count
          /\ Start + k # Start + refIndex + 1
      BY <1>2, <1>3
    <3> QED
      BY <1>2, <1>3, <3>1 DEF Holds, Ref
  <2> QED
    BY <1>4, <1>5, <2>1, <2>2, <2>3 DEF Visited
<1> QED
  BY <1>1, <1>6, <1>7

LEMMA VisitRefKeeps == CellInv /\ VisitRef => CellInv'
<1> SUFFICES ASSUME CellInv, VisitRef PROVE CellInv'
  OBVIOUS
<1> USE DEF pairs, merging, files, search, found
<1>1. /\ pc = "visit" /\ pc' = "visit" /\ refIndex < Count /\ refIndex' = refIndex + 1
      /\ UNCHANGED <<asked, buildVars, todo, low, high, results>>
  BY DEF VisitRef, asked, buildVars
<1>2. /\ TypeOK /\ DirectoryExact /\ QueryTyped /\ CandidatesInv
      /\ todo \in Nat \ {0} /\ todo <= Len(query.disk) /\ Len(query.disk) \in Nat
      /\ SearchInv /\ FoundInv /\ query.kind \in {"point", "segment"}
      /\ pc \notin Building /\ refIndex \in Nat /\ candidates \in Seq(Nat)
  BY <1>1, Searches DEF Searching, CellInv, QueryInv, TypeOK
<1>3. /\ Ref \in Members(query.disk[todo])
      /\ Ref \in Ids(Queried(query.kind)) /\ Ref \in Nat
      /\ Ref \in seen <=> Visited(Ref)
  BY <1>1, <1>2, NextRef
<1>4. /\ entries' = entries /\ query' = query /\ todo' = todo /\ Mid' = Mid
      /\ Refs' = Refs /\ Start' = Start /\ Count' = Count
  BY <1>1 DEF asked, buildVars, Mid, Refs, Start, Count
<1>5. /\ seen' = IF query.kind = "segment" THEN seen \cup {Ref} ELSE seen
      /\ candidates' = IF ~ Visited(Ref) /\ Accepts(Ref)
                       THEN Append(candidates, Ref) ELSE candidates
  BY <1>3 DEF VisitRef
<1>6. TypeOK'
  BY <1>1, <1>2, <1>3, <1>5 DEF VisitRef, TypeOK
<1>7. BuildInv'
  BY <1>1, <1>6, ReadingKeeps DEF CellInv, Building
<1>8. \A id : Visited(id)' <=> (Visited(id) \/ id = Ref)
  <2> SUFFICES ASSUME NEW id PROVE Visited(id)' <=> (Visited(id) \/ id = Ref)
    OBVIOUS
  <2>1. VisitedBefore(id)' <=> VisitedBefore(id)
    BY <1>1, <1>4, AskedStays DEF VisitedBefore
  <2>2. Start \in Nat /\ Count \in Nat
    BY <1>2, FoundRefs DEF FoundInv
  <2>3. 1..refIndex' = (1..refIndex) \cup {refIndex + 1}
        /\ Start + refIndex + 1 = Start + (refIndex + 1)
    BY <1>1, <1>2, <2>2
  <2>4. VisitedHere(id)' <=> (VisitedHere(id) \/ id = Ref)
    BY <1>1, <1>4, <2>3 DEF VisitedHere, Ref
  <2> QED
    BY <2>1, <2>4 DEF Visited
<1>9. QueryTyped' /\ Ids(Queried(query.kind))' = Ids(Queried(query.kind))
      /\ \A id : Accepts(id)' <=> Accepts(id)
  BY <1>1, <1>2, AskedStays
<1>10. Range(candidates') = {id \in Ids(Queried(query.kind)) : Accepts(id) /\ Visited(id)'}
       /\ \A i, j \in 1..Len(candidates') : candidates'[i] = candidates'[j] => i = j
  <2>0. Range(candidates) = {id \in Ids(Queried(query.kind)) : Accepts(id) /\ Visited(id)}
        /\ \A i, j \in 1..Len(candidates) : candidates[i] = candidates[j] => i = j
    BY <1>2 DEF CandidatesInv
  <2>1. CASE ~ Visited(Ref) /\ Accepts(Ref)
    <3>1. candidates' = Append(candidates, Ref)
      BY <1>5, <2>1
    <3>2. Len(candidates') = Len(candidates) + 1 /\ Len(candidates) \in Nat
      BY <1>2, <1>3, <3>1
    <3>3. /\ \A i \in 1..Len(candidates) : candidates'[i] = candidates[i]
          /\ candidates'[Len(candidates) + 1] = Ref
      BY <1>2, <1>3, <3>1
    <3>4. 1..Len(candidates') = (1..Len(candidates)) \cup {Len(candidates) + 1}
      BY <3>2
    <3>5. Range(candidates') = Range(candidates) \cup {Ref}
      BY <3>3, <3>4 DEF Range
    <3>6. \A i \in 1..Len(candidates) : candidates[i] # Ref
      BY <2>0, <2>1 DEF Range
    <3>7. \A i, j \in 1..Len(candidates') : candidates'[i] = candidates'[j] => i = j
      BY <2>0, <3>3, <3>4, <3>6
    <3> QED
      BY <1>3, <1>8, <2>0, <2>1, <3>5, <3>7
  <2>2. CASE Visited(Ref) \/ ~ Accepts(Ref)
    BY <1>5, <1>8, <2>0, <2>2
  <2> QED
    BY <2>1, <2>2
<1>11. seen' = IF query.kind = "segment"
               THEN {id \in Ids(Queried(query.kind)) : Visited(id)'} ELSE {}
  <2>1. CASE query.kind = "segment"
    <3>1. seen = {id \in Ids(Queried(query.kind)) : Visited(id)}
      BY <1>2, <2>1 DEF CandidatesInv
    <3> QED
      BY <1>3, <1>5, <1>8, <2>1, <3>1
  <2>2. CASE query.kind # "segment"
    BY <1>2, <1>5, <2>2 DEF CandidatesInv
  <2> QED
    BY <2>1, <2>2
<1>12. CandidatesInv'
  <2>1. Range(candidates)' = {id \in Ids(Queried(query.kind)) : Accepts(id) /\ Visited(id)}'
    BY <1>9, <1>10 DEF Range
  <2>2. {id \in Ids(Queried(query.kind)) : Visited(id)'} =
          {id \in Ids(Queried(query.kind)) : Visited(id)}'
    BY <1>9
  <2> QED
    BY <1>4, <1>10, <1>11, <2>1, <2>2 DEF CandidatesInv
<1>13. SearchInv' /\ FoundInv'
  <2>1. Count \in Nat /\ refIndex + 1 <= Count
    BY <1>1, <1>2, FoundRefs DEF FoundInv
  <2> QED
    BY <1>1, <1>2, <1>4, <2>1 DEF SearchInv, FoundInv
<1> QED
  BY <1>1, <1>2, <1>4, <1>7, <1>9, <1>12, <1>13
     DEF CellInv, QueryInv, Building, Searching, NearestMatches
-----------------------------------------------------------------------------
(* The answer *)

(* When every cell of the disk has been met, the candidates are the matches. *)
LEMMA CandidatesMatch ==
  ASSUME TypeOK, QueryTyped, CandidatesInv, pc = "sort", todo = Len(query.disk) + 1
  PROVE  /\ Range(candidates) = Matches
         /\ \A k \in 1..Len(candidates) : query.distance[candidates[k]] \in Nat
<1>1. query.kind \in {"point", "segment"} /\ query.disk \in Seq(Cells)
  BY DiskTypes DEF QueryTyped
<1>2. 1..todo - 1 = 1..Len(query.disk)
  BY <1>1
<1>3. ASSUME NEW id \in Ids(Queried(query.kind)), Accepts(id)
      PROVE  Visited(id) <=> \E c \in Range(query.disk) :
               IF query.kind = "point" THEN PointCell(id) = c
                                       ELSE c \in input.segments[id + 1].cells
  <2>1. Visited(id) <=> \E c \in Range(query.disk) : id \in Members(c)
    BY <1>2 DEF Visited, VisitedBefore, VisitedHere, Range
  <2>2. ASSUME NEW c, query.kind = "point" PROVE id \in Members(c) <=> PointCell(id) = c
    <3>1. id \in PointIds
      BY <1>3, <2>2, LayersAssumption DEF QueryTyped, Accepts, PointIds, Queried
    <3> QED
      BY <2>2, <3>1 DEF Members, PointsIn
  <2>3. ASSUME NEW c, query.kind = "segment"
        PROVE  id \in Members(c) <=> c \in input.segments[id + 1].cells
    <3>1. directory = "fine"
      BY <2>3 DEF QueryTyped, TypeOK
    <3> QED
      BY <2>3, <3>1 DEF Members, SegmentsIn, Queried
  <2> QED
    BY <1>1, <2>1, <2>2, <2>3
<1>4. Range(candidates) = Matches
  BY <1>3 DEF CandidatesInv, Matches
<1>5. ASSUME NEW k \in 1..Len(candidates) PROVE query.distance[candidates[k]] \in Nat
  <2>1. candidates[k] \in Ids(Queried(query.kind))
    BY <1>4 DEF Matches, Range
  <2> QED
    BY <2>1, NumbersAssumption DEF QueryTyped
<1> QED
  BY <1>4, <1>5

(* What an answer should be.                                                *)
NearestOf(answer) ==
  /\ Range(answer) \subseteq Matches
  /\ \A i, j \in 1..Len(answer) :
       i < j => /\ answer[i] # answer[j]
                /\ query.distance[answer[i]] <= query.distance[answer[j]]
  /\ \A id \in Matches \ Range(answer) :
       /\ query.limit > 0 /\ Len(answer) = query.limit
       /\ \A i \in 1..Len(answer) : query.distance[answer[i]] <= query.distance[id]

(* The first of the candidates in order, up to the limit, are the nearest.  *)
LEMMA FirstsAreNearest ==
  ASSUME TypeOK, QueryTyped, CandidatesInv, pc = "sort", todo = Len(query.disk) + 1,
         NEW order \in Orders, NEW firsts,
         firsts = [i \in 1..Truncated |-> candidates[order[i]]]
  PROVE  firsts \in Seq(Nat) /\ NearestOf(firsts)
<1> DEFINE n == Len(candidates)
<1> DEFINE far(i) == query.distance[candidates[i]]
<1>1. /\ n \in Nat /\ candidates \in Seq(Nat) /\ query.limit \in Nat
      /\ \A i, j \in 1..n : candidates[i] = candidates[j] => i = j
  BY NumbersAssumption DEF TypeOK, QueryTyped, CandidatesInv
<1>2. /\ Truncated \in Nat /\ Truncated <= n
      /\ Truncated < n => query.limit > 0 /\ Truncated = query.limit
  BY <1>1 DEF Truncated
<1>3. Range(candidates) = Matches /\ \A k \in 1..n : far(k) \in Nat
  BY CandidatesMatch
<1>4. /\ \A i \in 1..n : order[i] \in 1..n
      /\ \A k \in 1..n : \E i \in 1..n : order[i] = k
      /\ \A i, j \in 1..n : i < j => Farther(order[i], order[j])
  <2>1. order \in Bijection(1..n, 1..n)
    BY DEF Orders
  <2> QED
    BY <2>1 DEF Orders, Bijection, Injection, Surjection
<1>5. /\ Len(firsts) = Truncated /\ firsts \in Seq(Nat)
      /\ \A i \in 1..Truncated : i \in 1..n /\ firsts[i] = candidates[order[i]]
  <2>1. ASSUME NEW i \in 1..Truncated PROVE candidates[order[i]] \in Nat /\ i \in 1..n
    <3>1. i \in 1..n
      BY <1>1, <1>2
    <3>2. order[i] \in 1..n
      BY <1>4, <3>1
    <3> QED
      BY <1>1, <3>1, <3>2, ElementOf
  <2>2. firsts \in [1..Truncated -> Nat]
    BY <2>1
  <2> QED
    BY <1>2, <2>1, <2>2
<1>6. ASSUME NEW i \in 1..n, NEW j \in 1..n, i < j
      PROVE  order[i] # order[j] /\ far(order[i]) <= far(order[j])
  <2>1. Farther(order[i], order[j])
    BY <1>4, <1>6
  <2>2. far(order[i]) \in Nat /\ far(order[j]) \in Nat
        /\ order[i] \in Nat /\ order[j] \in Nat
    <3>1. order[i] \in 1..n /\ order[j] \in 1..n
      BY <1>4
    <3> QED
      BY <1>1, <1>3, <3>1
  <2> QED
    BY <2>1, <2>2 DEF Farther
<1>7. Range(firsts) \subseteq Matches
  BY <1>3, <1>4, <1>5 DEF Range
<1>8. ASSUME NEW i \in 1..Len(firsts), NEW j \in 1..Len(firsts), i < j
      PROVE  /\ firsts[i] # firsts[j]
             /\ query.distance[firsts[i]] <= query.distance[firsts[j]]
  <2>1. i \in 1..n /\ j \in 1..n /\ firsts[i] = candidates[order[i]]
        /\ firsts[j] = candidates[order[j]]
    BY <1>5
  <2>2. order[i] # order[j] /\ far(order[i]) <= far(order[j])
    BY <1>6, <1>8, <2>1
  <2>3. order[i] \in 1..n /\ order[j] \in 1..n
    BY <1>4, <2>1
  <2>4. candidates[order[i]] # candidates[order[j]]
    BY <1>1, <2>2, <2>3
  <2> QED
    BY <2>1, <2>2, <2>4
<1>9. ASSUME NEW id \in Matches \ Range(firsts)
      PROVE  /\ query.limit > 0 /\ Len(firsts) = query.limit
             /\ \A i \in 1..Len(firsts) : query.distance[firsts[i]] <= query.distance[id]
  <2>1. PICK m \in 1..n : candidates[order[m]] = id
    <3>1. PICK k \in 1..n : candidates[k] = id
      BY <1>3 DEF Range
    <3> QED
      BY <1>4, <3>1
  <2>2. m \notin 1..Truncated
    BY <1>5, <2>1 DEF Range
  <2>3. Truncated < m /\ Truncated < n
    BY <1>1, <1>2, <2>2
  <2>4. ASSUME NEW i \in 1..Len(firsts)
        PROVE  query.distance[firsts[i]] <= query.distance[id]
    <3>1. i \in 1..n /\ i < m /\ firsts[i] = candidates[order[i]]
      BY <1>2, <1>5, <2>3
    <3> QED
      BY <1>6, <2>1, <3>1
  <2> QED
    BY <1>2, <1>5, <2>3, <2>4
<1> QED
  BY <1>5, <1>7, <1>8, <1>9 DEF NearestOf

LEMMA AnswerKeeps == CellInv /\ Answer => CellInv'
<1> SUFFICES ASSUME CellInv, Answer PROVE CellInv'
  OBVIOUS
<1> USE DEF pairs, merging, files, search, found
<1>1. /\ pc = "sort" /\ pc' = "answered"
      /\ UNCHANGED <<asked, buildVars, todo, low, high, refIndex, seen, candidates>>
  BY DEF Answer, asked, buildVars
<1>2. /\ TypeOK /\ QueryTyped /\ CandidatesInv /\ todo = Len(query.disk) + 1
  BY <1>1, Searches DEF Searching, CellInv, QueryInv
<1>3. results' \in Seq(Nat) /\ NearestOf(results')
  <2>1. PICK order \in Orders :
          results' = [i \in 1..Truncated |-> candidates[order[i]]]
    BY DEF Answer
  <2> QED
    BY <1>1, <1>2, <2>1, FirstsAreNearest
<1>4. TypeOK'
  BY <1>1, <1>2, <1>3 DEF Answer, TypeOK, Searching
<1>5. BuildInv'
  BY <1>1, <1>4, ReadingKeeps DEF CellInv, Building
<1>6. QueryTyped'
  BY <1>1, <1>2, AskedStays
<1>7. Matches' = Matches /\ query' = query
  BY <1>1 DEF Matches, Accepts, Queried, Ids, PointCell, Range, asked
<1>8. NearestMatches'
  BY <1>3, <1>7 DEF NearestMatches, NearestOf, Range
<1> QED
  BY <1>1, <1>5, <1>6, <1>8 DEF CellInv, QueryInv, Building, Searching
-----------------------------------------------------------------------------
(* The invariant *)

(* A step of the build asks nothing.                                        *)
LEMMA BuildingAsksNothing ==
  ASSUME QueryInv, pc \in Building, pc' \in Building \cup {"ready"},
         UNCHANGED <<todo, seen, candidates>>
  PROVE  QueryInv'
<1>1. pc' \notin Searching /\ pc' # "answered"
  BY DEF Building, Searching
<1> QED
  BY <1>1 DEF QueryInv, Searching, NearestMatches

LEMMA BuildStepKeeps ==
  ASSUME CellInv, SortPairs \/ PickCell \/ TakePoint \/ EndPoints \/ TakeSegment
                  \/ EndCell \/ EndBuild
  PROVE  CellInv'
<1> USE DEF pairs, merging, files, search, found
<1>1. BuildInv'
  BY SortPairsKeeps, PickCellKeeps, TakePointKeeps, EndPointsKeeps, TakeSegmentKeeps,
     EndCellKeeps, EndBuildKeeps DEF CellInv
<1>2. /\ pc \in Building /\ pc' \in Building \cup {"ready"}
      /\ UNCHANGED <<todo, seen, candidates>>
  BY DEF SortPairs, PickCell, TakePoint, EndPoints, TakeSegment, EndCell, EndBuild,
         Building
<1> QED
  BY <1>1, <1>2, BuildingAsksNothing DEF CellInv

LEMMA StutterKeeps == CellInv /\ UNCHANGED vars => CellInv'
<1> SUFFICES ASSUME CellInv, UNCHANGED vars PROVE CellInv'
  OBVIOUS
<1> USE DEF vars, pairs, merging, files, search, found
<1>1. TypeOK'
  BY DEF CellInv, BuildInv, TypeOK
<1>2. EntriesInv' /\ MergeInv'
  BY DEF CellInv, BuildInv, EntriesInv, MergeInv, Run, Between, Inside, HasEntry, InCell,
         More
<1>3. PointPairs' = PointPairs /\ SegmentPairs' = SegmentPairs
  BY DEF PointPairs, SegmentPairs, PointIds, PointCell
<1>4. BuildInv'
  BY <1>1, <1>2, <1>3 DEF CellInv, BuildInv, RefsOf, Strict, Range
<1>5. UNCHANGED <<asked, seen, candidates>> /\ (QueryTyped' <=> QueryTyped)
  BY AskedStays DEF asked
<1>6. CandidatesInv' <=> CandidatesInv
  <2>1. Refs' = Refs /\ Start' = Start
    BY DEF Refs, Start, Mid
  <2>2. \A id : Visited(id)' <=> Visited(id)
    BY <1>5, <2>1, AskedStays DEF Visited, VisitedBefore, VisitedHere
  <2>3. /\ {id \in Ids(Queried(query.kind)) : Accepts(id) /\ Visited(id)}' =
             {id \in Ids(Queried(query.kind)) : Accepts(id) /\ Visited(id)}
        /\ {id \in Ids(Queried(query.kind)) : Visited(id)}' =
             {id \in Ids(Queried(query.kind)) : Visited(id)}
    BY <1>5, <2>2, AskedStays
  <2> QED
    BY <1>5, <2>3 DEF CandidatesInv, Range
<1>7. NearestMatches' <=> NearestMatches
  <2>1. Matches' = Matches
    BY DEF Matches, Accepts, Queried, Ids, PointCell, Range
  <2> QED
    BY <2>1 DEF NearestMatches, Range
<1>8. QueryInv'
  BY <1>5, <1>6, <1>7
     DEF CellInv, QueryInv, SearchInv, FoundInv, Mid, Count
<1> QED
  BY <1>4, <1>8 DEF CellInv

(* The invariant holds of every behaviour of the build and the query.       *)
THEOREM CellInvariant == Spec => []CellInv
<1>1. CellInv /\ [Next]_vars => CellInv'
  <2> SUFFICES ASSUME CellInv, [Next]_vars PROVE CellInv'
    OBVIOUS
  <2>1. CASE Step
    BY <2>1, BuildStepKeeps, NextCellKeeps, NarrowSearchKeeps, CellFoundKeeps,
       CellAbsentKeeps, VisitRefKeeps, EndVisitKeeps, AnswerKeeps DEF Step
  <2>2. CASE \E kind \in {"point", "segment"}, disk \in Disks, limit \in Limits,
                layers \in SUBSET Layers : StartQuery(kind, disk, layers, limit)
    BY <2>2, StartQueryKeeps
  <2>3. CASE UNCHANGED vars
    BY <2>3, StutterKeeps
  <2> QED
    BY <2>1, <2>2, <2>3 DEF Next
<1> QED
  BY <1>1, CellInit, PTL DEF Spec

(* Every variable keeps its kind, indices and search bounds stay in the     *)
(* files.                                                                   *)
THEOREM TypeCorrect == Spec => []TypeOK
<1>1. CellInv => TypeOK
  BY DEF CellInv, BuildInv
<1> QED
  BY <1>1, CellInvariant, PTL

(* build_cell_directory leaves each cell once, in order, with the ids of    *)
(* exactly what lies in it, for any input and any chunk size.               *)
THEOREM DirectoryCorrect == Spec => []DirectoryExact
<1>1. CellInv => DirectoryExact
  BY DirectoryHolds DEF CellInv
<1> QED
  BY <1>1, CellInvariant, PTL

(* A query through the directory answers what a scan of its disk would.     *)
THEOREM AnswersCorrect == Spec => []NearestMatches
<1>1. CellInv => NearestMatches
  BY DEF CellInv, QueryInv
<1> QED
  BY <1>1, CellInvariant, PTL
=============================================================================
