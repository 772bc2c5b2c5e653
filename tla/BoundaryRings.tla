----------------------------- MODULE BoundaryRings -----------------------------
(***************************************************************************)
(* The rings of a boundary relation (stitch_rings and its helpers in       *)
(* src/builder/osm/boundary.rs).  The member ways of one role come in any  *)
(* order and each may run either way round.  A ring is grown from the last *)
(* segment left, with the first segment that touches one of its ends,      *)
(* until it closes; what cannot be closed is dropped.                      *)
(***************************************************************************)
EXTENDS SequencesExt

CONSTANTS
  Nodes,     \* node ids
  Members    \* the lists of member ways that a relation may have

ASSUME MembersAssumption == Members \subseteq Seq(Seq(Nodes))

VARIABLES
  members,    \* node refs of the member ways, as the relation lists them
  seen,       \* members that retain has looked at
  segments,   \* segments not yet used
  ring,       \* the ring that is grown, or <<>> between two rings
  rings       \* closed rings

ringVars == <<members, seen, segments, ring, rings>>

-----------------------------------------------------------------------------
(* Segments *)

First(segment) == segment[1]
Closed(r) == Len(r) >= 4 /\ First(r) = Last(r)

(* Mutant of CanJoin: only the end of the ring is looked at. *)
CanJoinAtEnd(r, segment) == Last(r) = First(segment)

CanJoin(r, segment) ==
  {First(r), Last(r)} \cap {First(segment), Last(segment)} # {}

(* Mutant of Joined: the shared node is kept twice behind the ring. *)
JoinedNodeTwice(r, segment) ==
  IF Last(r) = First(segment) THEN r \o segment
  ELSE IF Last(r) = Last(segment) THEN r \o Reverse(segment)
  ELSE IF First(r) = Last(segment) THEN Front(segment) \o r
  ELSE Front(Reverse(segment)) \o r

(* join_segment, of a segment that touches the ring: it goes behind the     *)
(* ring or before it, turned round where it must, the shared node once.     *)
Joined(r, segment) ==
  IF Last(r) = First(segment) THEN r \o Tail(segment)
  ELSE IF Last(r) = Last(segment) THEN r \o Tail(Reverse(segment))
  ELSE IF First(r) = Last(segment) THEN Front(segment) \o r
  ELSE Front(Reverse(segment)) \o r

(* Vec::swap_remove: the last segment takes the place of the removed one.   *)
SwapRemove(list, i) ==
  [j \in 1..Len(list) - 1 |-> IF j = i THEN Last(list) ELSE list[j]]

-----------------------------------------------------------------------------
(* stitch_rings *)

StitchInit ==
  /\ members \in Members
  /\ seen = 0
  /\ segments = <<>>
  /\ ring = <<>>
  /\ rings = <<>>

(* Vec::retain: a member of one node, or none, is no segment. *)
Retain ==
  /\ seen < Len(members)
  /\ seen' = seen + 1
  /\ segments' = IF Len(members[seen']) >= 2 THEN Append(segments, members[seen'])
                 ELSE segments
  /\ UNCHANGED <<members, ring, rings>>

StartRing ==
  /\ seen = Len(members)
  /\ ring = <<>>
  /\ segments # <<>>
  /\ ring' = Last(segments)
  /\ segments' = Front(segments)
  /\ UNCHANGED <<members, seen, rings>>

CloseRing ==
  /\ ring # <<>>
  /\ Closed(ring)
  /\ rings' = Append(rings, ring)
  /\ ring' = <<>>
  /\ UNCHANGED <<members, seen, segments>>

JoinSegment(i) ==
  /\ ring # <<>>
  /\ ~Closed(ring)
  /\ CanJoin(ring, segments[i])
  /\ \A j \in 1..i - 1 : ~CanJoin(ring, segments[j])
  /\ ring' = Joined(ring, segments[i])
  /\ segments' = SwapRemove(segments, i)
  /\ UNCHANGED <<members, seen, rings>>

DropRing ==
  /\ ring # <<>>
  /\ ~Closed(ring)
  /\ \A j \in 1..Len(segments) : ~CanJoin(ring, segments[j])
  /\ ring' = <<>>
  /\ UNCHANGED <<members, seen, segments, rings>>

StitchDone == seen = Len(members) /\ ring = <<>> /\ segments = <<>>

StitchNext ==
  \/ Retain \/ StartRing \/ CloseRing \/ DropRing
  \/ \E i \in 1..Len(segments) : JoinSegment(i)

StitchSpec == StitchInit /\ [][StitchNext]_ringVars

-----------------------------------------------------------------------------
(* Properties *)

Edges(s) == {{s[i], s[i + 1]} : i \in 1..Len(s) - 1}
EdgesOfAll(list) == UNION {Edges(list[k]) : k \in 1..Len(list)}

(* Every ring is closed, of three corners at least, and each of its edges   *)
(* is an edge of a member way: wherever and whichever way round segments    *)
(* are put together, no ring takes a shortcut across the area.              *)
RingsFollowMembers ==
  \A k \in 1..Len(rings) :
    /\ Closed(rings[k])
    /\ Edges(rings[k]) \subseteq EdgesOfAll(members)

(* The member ways cut up disjoint simple cycles: each edge lies in one     *)
(* member only, and each node on exactly two edges.                         *)
Neighbours(node) == {e \in EdgesOfAll(members) : node \in e}
CutsOfCycles ==
  /\ \A k \in 1..Len(members) :
       Len(members[k]) >= 2 /\ Cardinality(Edges(members[k])) = Len(members[k]) - 1
  /\ \A k, l \in 1..Len(members) :
       Edges(members[k]) \cap Edges(members[l]) # {} => k = l
  /\ \A edge \in EdgesOfAll(members) : \A node \in edge :
       Cardinality(edge) = 2 /\ Cardinality(Neighbours(node)) = 2

(* When the members are such cuts, in whatever order and direction the      *)
(* relation lists them, the rings are the cycles: every edge is in a ring,  *)
(* no two rings share a node, and no ring goes through a node twice.  The   *)
(* order matters to the code, which takes the first segment that touches.   *)
DisjointRingsFound ==
  StitchDone /\ CutsOfCycles =>
    /\ EdgesOfAll(rings) = EdgesOfAll(members)
    /\ \A k \in 1..Len(rings) :
         Cardinality(Range(rings[k])) = Len(rings[k]) - 1
    /\ \A k, l \in 1..Len(rings) :
         Range(rings[k]) \cap Range(rings[l]) # {} => k = l
=============================================================================
