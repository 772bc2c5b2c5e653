------------------------- MODULE BoundaryContextProofs -------------------------
(***************************************************************************)
(* For every relation: the rings stitched from its members are closed and  *)
(* use no edge that is not an edge of a member; where the members are cuts *)
(* of disjoint cycles, the rings are these cycles.  For every list of      *)
(* boundaries of a build and every point: the context has in each layer    *)
(* the best of the boundaries around the point, in whatever order they are *)
(* found, and its country is never at odds with them.                      *)
(***************************************************************************)
EXTENDS BoundaryContext, WellFoundedInduction, FiniteSetTheorems, TLAPS

(* A path is a sequence of at least two nodes; one that lies on the members *)
(* has no other edges than theirs.                                          *)
Path == {s \in Seq(Nodes) : Len(s) >= 2}
OnMembers(s) == Edges(s) \subseteq EdgesOfAll(members)

-----------------------------------------------------------------------------
(* The edges of sequences put together *)

(* A set of edges covers a sequence when it has each pair of neighbours.    *)
LEMMA EdgesCovered ==
  ASSUME NEW s \in Seq(Nodes), NEW E,
         \A i \in 1..Len(s) - 1 : {s[i], s[i + 1]} \in E
  PROVE  Edges(s) \subseteq E
BY DEF Edges

(* Turning a path round keeps its edges and swaps its ends. *)
LEMMA ReversePath ==
  ASSUME NEW s \in Path
  PROVE  /\ Reverse(s) \in Path
         /\ Len(Reverse(s)) = Len(s)
         /\ Reverse(s)[1] = s[Len(s)]
         /\ Reverse(s)[Len(s)] = s[1]
         /\ Edges(Reverse(s)) = Edges(s)
<1> DEFINE r == Reverse(s)
<1>1. s \in Seq(Nodes) /\ Len(s) \in Nat /\ Len(s) >= 2
  BY DEF Path
<1>2. \A i \in 1..Len(s) : s[i] \in Nodes
  BY <1>1
<1>3. r = [i \in 1..Len(s) |-> s[(Len(s) - i) + 1]]
  BY DEF Reverse
<1>4. \A i \in 1..Len(s) : (Len(s) - i) + 1 \in 1..Len(s)
  BY <1>1
<1>5. \A i \in 1..Len(s) : r[i] \in Nodes
  BY <1>2, <1>3, <1>4
<1>6. r \in Seq(Nodes) /\ Len(r) = Len(s)
  BY <1>1, <1>3, <1>5
<1>7. r[1] = s[Len(s)] /\ r[Len(s)] = s[1]
  BY <1>1, <1>3
<1>8. \A i \in 1..Len(r) - 1 : {r[i], r[i + 1]} \in Edges(s)
  <2> SUFFICES ASSUME NEW i \in 1..Len(r) - 1
               PROVE  {r[i], r[i + 1]} \in Edges(s)
    OBVIOUS
  <2>1. i \in 1..Len(s) /\ i + 1 \in 1..Len(s)
    BY <1>1, <1>6
  <2>2. r[i] = s[(Len(s) - i) + 1] /\ r[i + 1] = s[Len(s) - i]
    BY <1>1, <1>3, <2>1
  <2>3. Len(s) - i \in 1..Len(s) - 1
    BY <1>1, <1>6
  <2>4. {s[Len(s) - i], s[(Len(s) - i) + 1]} \in Edges(s)
    BY <2>3 DEF Edges
  <2> QED
    BY <2>2, <2>4
<1>9. \A i \in 1..Len(s) - 1 : {s[i], s[i + 1]} \in Edges(r)
  <2> SUFFICES ASSUME NEW i \in 1..Len(s) - 1
               PROVE  {s[i], s[i + 1]} \in Edges(r)
    OBVIOUS
  <2>1. Len(s) - i \in 1..Len(r) - 1
    BY <1>1, <1>6
  <2>2. r[Len(s) - i] = s[i + 1] /\ r[(Len(s) - i) + 1] = s[i]
    <3>1. /\ Len(s) - i \in 1..Len(s) /\ (Len(s) - i) + 1 \in 1..Len(s)
          /\ (Len(s) - (Len(s) - i)) + 1 = i + 1
          /\ (Len(s) - ((Len(s) - i) + 1)) + 1 = i
      BY <1>1
    <3> QED
      BY <1>3, <3>1
  <2>3. {r[Len(s) - i], r[(Len(s) - i) + 1]} \in Edges(r)
    BY <2>1 DEF Edges
  <2> QED
    BY <2>2, <2>3
<1> HIDE DEF r
<1>10. Edges(r) \subseteq Edges(s) /\ Edges(s) \subseteq Edges(r)
  BY <1>1, <1>6, <1>8, <1>9, EdgesCovered
<1> QED
  BY <1>1, <1>6, <1>7, <1>10 DEF Path, r

LEMMA ConcatLength ==
  ASSUME NEW S, NEW s \in Seq(S), NEW t \in Seq(S)
  PROVE  s \o t \in Seq(S) /\ Len(s \o t) = Len(s) + Len(t)
OBVIOUS

(* A sequence that runs through one path and from its last node through     *)
(* another has the edges of the two.                                        *)
LEMMA JointPath ==
  ASSUME NEW s \in Path, NEW t \in Path, NEW u \in Seq(Nodes),
         Len(u) = (Len(s) + Len(t)) - 1,
         \A i \in 1..Len(s) : u[i] = s[i],
         \A i \in 1..Len(t) : u[(Len(s) - 1) + i] = t[i]
  PROVE  u \in Path /\ Edges(u) = Edges(s) \cup Edges(t)
<1>1. Len(s) \in Nat /\ Len(s) >= 2 /\ Len(t) \in Nat /\ Len(t) >= 2
  BY DEF Path
<1>2. u \in Path
  BY <1>1 DEF Path
<1>3. \A i \in 1..Len(u) - 1 : {u[i], u[i + 1]} \in Edges(s) \cup Edges(t)
  <2> SUFFICES ASSUME NEW i \in 1..Len(u) - 1
               PROVE  {u[i], u[i + 1]} \in Edges(s) \cup Edges(t)
    OBVIOUS
  <2>1. CASE i <= Len(s) - 1
    <3>1. i \in 1..Len(s) - 1 /\ u[i] = s[i] /\ u[i + 1] = s[i + 1]
      BY <1>1, <2>1
    <3>2. {s[i], s[i + 1]} \in Edges(s)
      BY <3>1 DEF Edges
    <3> QED
      BY <3>1, <3>2
  <2>2. CASE i > Len(s) - 1
    <3>1. PICK k \in 1..Len(t) - 1 : i = (Len(s) - 1) + k
      <4>1. i - (Len(s) - 1) \in 1..Len(t) - 1
        BY <1>1, <2>2
      <4>2. i = (Len(s) - 1) + (i - (Len(s) - 1))
        BY <1>1
      <4> QED
        BY <4>1, <4>2
    <3>2. k \in 1..Len(t) /\ k + 1 \in 1..Len(t) /\ i + 1 = (Len(s) - 1) + (k + 1)
      BY <1>1, <3>1
    <3>3. u[i] = t[k] /\ u[i + 1] = t[k + 1]
      BY <3>1, <3>2
    <3>4. {t[k], t[k + 1]} \in Edges(t)
      BY <3>1 DEF Edges
    <3> QED
      BY <3>3, <3>4
  <2>3. i <= Len(s) - 1 \/ i > Len(s) - 1
    BY <1>1
  <2> QED
    BY <2>1, <2>2, <2>3
<1>4. \A i \in 1..Len(s) - 1 : {s[i], s[i + 1]} \in Edges(u)
  <2> SUFFICES ASSUME NEW i \in 1..Len(s) - 1
               PROVE  {s[i], s[i + 1]} \in Edges(u)
    OBVIOUS
  <2>1. i \in 1..Len(u) - 1 /\ u[i] = s[i] /\ u[i + 1] = s[i + 1]
    BY <1>1
  <2>2. {u[i], u[i + 1]} \in Edges(u)
    BY <2>1 DEF Edges
  <2> QED
    BY <2>1, <2>2
<1>5. \A i \in 1..Len(t) - 1 : {t[i], t[i + 1]} \in Edges(u)
  <2> SUFFICES ASSUME NEW i \in 1..Len(t) - 1
               PROVE  {t[i], t[i + 1]} \in Edges(u)
    OBVIOUS
  <2> DEFINE k == (Len(s) - 1) + i
  <2>1. k \in 1..Len(u) - 1 /\ k + 1 = (Len(s) - 1) + (i + 1)
    BY <1>1
  <2>2. u[k] = t[i] /\ u[k + 1] = t[i + 1]
    BY <1>1, <2>1
  <2> HIDE DEF k
  <2>3. {u[k], u[k + 1]} \in Edges(u)
    BY <2>1 DEF Edges
  <2> QED
    BY <2>2, <2>3
<1>6. Edges(u) \subseteq Edges(s) \cup Edges(t)
  BY <1>3, EdgesCovered
<1>7. Edges(s) \subseteq Edges(u) /\ Edges(t) \subseteq Edges(u)
  BY <1>4, <1>5, EdgesCovered DEF Path
<1> QED
  BY <1>2, <1>6, <1>7

(* The two ways the code puts paths together. *)
LEMMA ConcatPath ==
  ASSUME NEW s \in Path, NEW t \in Path, s[Len(s)] = t[1]
  PROVE  /\ s \o Tail(t) \in Path
         /\ Edges(s \o Tail(t)) = Edges(s) \cup Edges(t)
         /\ Len(s \o Tail(t)) = (Len(s) + Len(t)) - 1
<1> DEFINE u == s \o Tail(t)
<1>1. /\ s \in Seq(Nodes) /\ Len(s) \in Nat /\ Len(s) >= 2
      /\ t \in Seq(Nodes) /\ Len(t) \in Nat /\ Len(t) >= 2
  BY DEF Path
<1>2. /\ Tail(t) \in Seq(Nodes) /\ Len(Tail(t)) = Len(t) - 1
      /\ \A i \in 1..Len(t) - 1 : Tail(t)[i] = t[i + 1]
  BY <1>1
<1>3. u \in Seq(Nodes) /\ Len(u) = (Len(s) + Len(t)) - 1
  BY <1>1, <1>2
<1>4. \A i \in 1..Len(s) : u[i] = s[i]
  BY <1>1, <1>2
<1>5. \A i \in 1..Len(t) : u[(Len(s) - 1) + i] = t[i]
  <2> SUFFICES ASSUME NEW i \in 1..Len(t)
               PROVE  u[(Len(s) - 1) + i] = t[i]
    OBVIOUS
  <2>1. CASE i = 1
    BY <1>1, <1>4, <2>1
  <2>2. CASE i # 1
    <3>1. i - 1 \in 1..Len(Tail(t)) /\ (Len(s) - 1) + i = Len(s) + (i - 1)
      BY <1>1, <1>2, <2>2
    <3>2. u[Len(s) + (i - 1)] = Tail(t)[i - 1]
      BY <1>1, <1>2, <3>1
    <3>3. Tail(t)[i - 1] = t[i]
      BY <1>1, <1>2, <3>1
    <3> QED
      BY <3>1, <3>2, <3>3
  <2> QED
    BY <2>1, <2>2
<1> HIDE DEF u
<1>6. u \in Path /\ Edges(u) = Edges(s) \cup Edges(t)
  BY <1>3, <1>4, <1>5, JointPath
<1> QED
  BY <1>3, <1>6 DEF u

LEMMA FrontConcatPath ==
  ASSUME NEW s \in Path, NEW t \in Path, s[Len(s)] = t[1]
  PROVE  /\ Front(s) \o t \in Path
         /\ Edges(Front(s) \o t) = Edges(s) \cup Edges(t)
         /\ Len(Front(s) \o t) = (Len(s) + Len(t)) - 1
<1> DEFINE f == Front(s)
           u == f \o t
<1>1. /\ s \in Seq(Nodes) /\ Len(s) \in Nat /\ Len(s) >= 2
      /\ t \in Seq(Nodes) /\ Len(t) \in Nat /\ Len(t) >= 2
  BY DEF Path
<1>2. /\ f \in Seq(Nodes) /\ Len(f) = Len(s) - 1
      /\ \A i \in 1..Len(s) - 1 : f[i] = s[i]
  BY <1>1 DEF Front
<1> HIDE DEF f
<1>3. u \in Seq(Nodes) /\ Len(u) = (Len(s) + Len(t)) - 1
  <2>1. u \in Seq(Nodes) /\ Len(u) = Len(f) + Len(t)
    BY <1>1, <1>2, ConcatLength
  <2> HIDE DEF u
  <2> QED
    BY <1>1, <1>2, <2>1
<1>4. \A i \in 1..Len(t) : u[(Len(s) - 1) + i] = t[i]
  BY <1>1, <1>2
<1>5. \A i \in 1..Len(s) - 1 : u[i] = s[i]
  BY <1>1, <1>2
<1>6. u[Len(s)] = s[Len(s)]
  <2>1. 1 \in 1..Len(t) /\ (Len(s) - 1) + 1 = Len(s)
    BY <1>1
  <2>2. u[Len(s)] = t[1]
    BY <1>4, <2>1
  <2> QED
    BY <2>2
<1> HIDE DEF u
<1>7. \A i \in 1..Len(s) : u[i] = s[i]
  <2>1. \A i \in 1..Len(s) : i \in 1..Len(s) - 1 \/ i = Len(s)
    BY <1>1
  <2> QED
    BY <1>5, <1>6, <2>1
<1>8. u \in Path /\ Edges(u) = Edges(s) \cup Edges(t)
  BY <1>3, <1>4, <1>7, JointPath
<1> QED
  BY <1>3, <1>8 DEF u, f

-----------------------------------------------------------------------------
(* join_segment *)

(* Whichever ends touch, the joined ring has the edges of the ring and of   *)
(* the segment, and no other.                                               *)
LEMMA JoinedPath ==
  ASSUME NEW r \in Path, NEW s \in Path, CanJoin(r, s)
  PROVE  /\ Joined(r, s) \in Path
         /\ Edges(Joined(r, s)) = Edges(r) \cup Edges(s)
         /\ Len(Joined(r, s)) = (Len(r) + Len(s)) - 1
<1>0. Len(r) \in Nat /\ Len(s) \in Nat
  BY DEF Path
<1>1. /\ Reverse(s) \in Path /\ Len(Reverse(s)) = Len(s)
      /\ Reverse(s)[1] = s[Len(s)] /\ Reverse(s)[Len(s)] = s[1]
      /\ Edges(Reverse(s)) = Edges(s)
  BY ReversePath
<1>2. CASE r[Len(r)] = s[1]
  BY <1>2, ConcatPath DEF Joined, First, Last
<1>3. CASE r[Len(r)] # s[1] /\ r[Len(r)] = s[Len(s)]
  <2>1. /\ r \o Tail(Reverse(s)) \in Path
        /\ Edges(r \o Tail(Reverse(s))) = Edges(r) \cup Edges(Reverse(s))
        /\ Len(r \o Tail(Reverse(s))) = (Len(r) + Len(s)) - 1
    BY <1>1, <1>3, ConcatPath
  <2> QED
    BY <1>1, <1>3, <2>1 DEF Joined, First, Last
<1>4. CASE r[Len(r)] # s[1] /\ r[Len(r)] # s[Len(s)] /\ r[1] = s[Len(s)]
  <2>1. /\ Front(s) \o r \in Path
        /\ Edges(Front(s) \o r) = Edges(s) \cup Edges(r)
        /\ Len(Front(s) \o r) = (Len(s) + Len(r)) - 1
    BY <1>4, FrontConcatPath
  <2> QED
    BY <1>0, <1>4, <2>1 DEF Joined, First, Last
<1>5. CASE r[Len(r)] # s[1] /\ r[Len(r)] # s[Len(s)] /\ r[1] # s[Len(s)]
  <2>1. r[1] = s[1]
    BY <1>5 DEF CanJoin, First, Last
  <2>2. /\ Front(Reverse(s)) \o r \in Path
        /\ Edges(Front(Reverse(s)) \o r) = Edges(Reverse(s)) \cup Edges(r)
        /\ Len(Front(Reverse(s)) \o r) = (Len(s) + Len(r)) - 1
    BY <1>1, <2>1, FrontConcatPath
  <2> QED
    BY <1>0, <1>1, <1>5, <2>2 DEF Joined, First, Last
<1> QED
  BY <1>2, <1>3, <1>4, <1>5

-----------------------------------------------------------------------------
(* The invariant *)

(* Everything the loop holds is a path on the members: this is what makes   *)
(* the next ring one too.                                                   *)
Paths ==
  /\ members \in Members
  /\ seen \in 0..Len(members)
  /\ segments \in Seq(Path)
  /\ \A i \in 1..Len(segments) : OnMembers(segments[i])
  /\ ring = <<>> \/ (ring \in Path /\ OnMembers(ring))
  /\ rings \in Seq(Path)
  /\ \A k \in 1..Len(rings) : Closed(rings[k]) /\ OnMembers(rings[k])

LEMMA InitPaths == StitchInit => Paths
BY MembersAssumption DEF StitchInit, Paths, Edges

LEMMA RetainPaths ==
  ASSUME Paths, Retain
  PROVE  Paths'
<1>1. /\ members \in Seq(Seq(Nodes)) /\ members' = members
      /\ seen + 1 \in 1..Len(members) /\ seen' = seen + 1
  BY MembersAssumption DEF Paths, Retain
<1>2. members[seen + 1] \in Seq(Nodes)
  BY <1>1
<1>3. Edges(members[seen + 1]) \subseteq EdgesOfAll(members)
  BY <1>1 DEF EdgesOfAll
<1>4. CASE Len(members[seen + 1]) >= 2
  <2>1. members[seen + 1] \in Path
    BY <1>2, <1>4 DEF Path
  <2>2. segments' = Append(segments, members[seen + 1])
    BY <1>1, <1>4 DEF Retain
  <2>3. segments' \in Seq(Path)
    BY <2>1, <2>2 DEF Paths
  <2>4. \A i \in 1..Len(segments') : OnMembers(segments'[i])
    BY <1>3, <2>1, <2>2 DEF Paths, OnMembers
  <2>5. seen' \in 0..Len(members')
    BY <1>1
  <2>6. ring' = ring /\ rings' = rings
    BY DEF Retain
  <2> QED
    BY <1>1, <2>3, <2>4, <2>5, <2>6 DEF Paths, OnMembers
<1>5. CASE ~(Len(members[seen + 1]) >= 2)
  BY <1>1, <1>5 DEF Paths, Retain, OnMembers
<1> QED
  BY <1>4, <1>5

LEMMA StartPaths ==
  ASSUME Paths, StartRing
  PROVE  Paths'
<1>1. segments \in Seq(Path) /\ Len(segments) \in Nat /\ Len(segments) >= 1
  BY DEF Paths, StartRing
<1>2. ring' = segments[Len(segments)] /\ segments' = SubSeq(segments, 1, Len(segments) - 1)
  BY DEF StartRing, Last, Front
<1>3. ring' \in Path /\ OnMembers(ring')
  BY <1>1, <1>2 DEF Paths
<1>3a. \A i \in 1..Len(segments) - 1 : segments[i] \in Path /\ i \in 1..Len(segments)
  BY <1>1
<1>3b. segments' = [i \in 1..Len(segments) - 1 |-> segments[i]]
  BY <1>1, <1>2
<1>4. segments' \in Seq(Path) /\ Len(segments') = Len(segments) - 1
  BY <1>1, <1>3a, <1>3b
<1>5. \A i \in 1..Len(segments') : segments'[i] = segments[i] /\ i \in 1..Len(segments)
  BY <1>1, <1>3a, <1>3b, <1>4
<1> QED
  BY <1>3, <1>4, <1>5 DEF Paths, StartRing, OnMembers

LEMMA ClosePaths ==
  ASSUME Paths, CloseRing
  PROVE  Paths'
<1>1. ring \in Path /\ OnMembers(ring) /\ Closed(ring)
  BY DEF Paths, CloseRing
<1>2. rings' \in Seq(Path)
  BY <1>1 DEF Paths, CloseRing
<1>3. \A k \in 1..Len(rings') : Closed(rings'[k]) /\ OnMembers(rings'[k])
  BY <1>1 DEF Paths, CloseRing
<1> QED
  BY <1>2, <1>3 DEF Paths, CloseRing, OnMembers

LEMMA JoinPaths ==
  ASSUME Paths, NEW i \in 1..Len(segments), JoinSegment(i)
  PROVE  Paths'
<1>1. segments \in Seq(Path) /\ Len(segments) \in Nat /\ Len(segments) >= 1
  BY DEF Paths
<1>2. /\ ring \in Path /\ OnMembers(ring)
      /\ segments[i] \in Path /\ OnMembers(segments[i])
  BY <1>1 DEF Paths, JoinSegment
<1>3. ring' \in Path /\ Edges(ring') \subseteq Edges(ring) \cup Edges(segments[i])
  BY <1>2, JoinedPath DEF JoinSegment
<1>4. OnMembers(ring')
  BY <1>2, <1>3 DEF OnMembers
<1>5. segments' = [j \in 1..Len(segments) - 1 |->
                     IF j = i THEN segments[Len(segments)] ELSE segments[j]]
  BY DEF JoinSegment, SwapRemove, Last
<1>6. \A j \in 1..Len(segments) - 1 : segments'[j] \in Path /\ OnMembers(segments'[j])
  BY <1>1, <1>5 DEF Paths
<1>7. segments' \in Seq(Path) /\ Len(segments') = Len(segments) - 1
  BY <1>1, <1>5, <1>6
<1> QED
  BY <1>3, <1>4, <1>6, <1>7 DEF Paths, JoinSegment, OnMembers

LEMMA NextPaths ==
  ASSUME Paths, [StitchNext]_ringVars
  PROVE  Paths'
<1>1. CASE Retain
  BY <1>1, RetainPaths
<1>2. CASE StartRing
  BY <1>2, StartPaths
<1>3. CASE CloseRing
  BY <1>3, ClosePaths
<1>4. CASE DropRing
  BY <1>4 DEF Paths, DropRing, OnMembers
<1>5. CASE \E i \in 1..Len(segments) : JoinSegment(i)
  BY <1>5, JoinPaths
<1>6. CASE UNCHANGED ringVars
  BY <1>6 DEF Paths, ringVars, OnMembers
<1> QED
  BY <1>1, <1>2, <1>3, <1>4, <1>5, <1>6 DEF StitchNext

(* All other steps of a build leave the rings and the ways alone. *)
LEMMA StepStitches ==
  ASSUME [Next]_vars
  PROVE  [StitchNext]_ringVars
<1>1. CASE Stitch
  BY <1>1 DEF Stitch
<1>2. CASE WriteBoundaries
  BY <1>2 DEF WriteBoundaries
<1>3. CASE Ask
  BY <1>3 DEF Ask
<1>4. CASE \E entry \in covering : Locate(entry)
  BY <1>4 DEF Locate
<1>5. CASE Assign
  BY <1>5 DEF Assign
<1>6. CASE Finished
  BY <1>6 DEF Finished, vars
<1>7. CASE UNCHANGED vars
  BY <1>7 DEF vars
<1> QED
  BY <1>1, <1>2, <1>3, <1>4, <1>5, <1>6, <1>7 DEF Next

(* Whatever ways a relation has as members, in whatever order and           *)
(* direction, each ring that stitch_rings returns is closed, has three      *)
(* corners at least, and follows the members edge by edge.                  *)
THEOREM RingsFollow == Spec => []RingsFollowMembers
<1>1. Init => Paths
  BY InitPaths DEF Init
<1>2. Paths /\ [Next]_vars => Paths'
  BY StepStitches, NextPaths
<1>3. Paths => RingsFollowMembers
  BY DEF Paths, RingsFollowMembers, OnMembers
<1> QED
  BY <1>1, <1>2, <1>3, PTL DEF Spec

-----------------------------------------------------------------------------
(* Cuts of disjoint cycles *)

(* A trail uses no edge twice; in a graph of disjoint cycles each node lies *)
(* on two edges, which join two nodes each.                                 *)
Trail(s) == s \in Path /\ Cardinality(Edges(s)) = Len(s) - 1
EdgesAt(node, E) == {e \in E : node \in e}
TwoRegular(E) ==
  /\ IsFiniteSet(E)
  /\ \A edge \in E : \A node \in edge :
       Cardinality(edge) = 2 /\ Cardinality(EdgesAt(node, E)) = 2

LEMMA EdgesFinite ==
  ASSUME NEW s \in Seq(Nodes)
  PROVE  IsFiniteSet(Edges(s))
<1> DEFINE edge == [i \in 1..Len(s) - 1 |-> {s[i], s[i + 1]}]
<1>1. Len(s) \in Nat
  OBVIOUS
<1>2. IsFiniteSet(1..Len(s) - 1)
  BY <1>1, FS_Interval
<1>3. edge \in Surjection(1..Len(s) - 1, Edges(s))
  BY DEF Edges, Surjection
<1> HIDE DEF edge
<1> QED
  BY <1>2, <1>3, FS_Surjection

(* The edges of a trail, told apart by their places. *)
LEMMA TrailEdges ==
  ASSUME NEW s, Trail(s), NEW i \in 1..Len(s) - 1, NEW j \in 1..Len(s) - 1,
         {s[i], s[i + 1]} = {s[j], s[j + 1]}
  PROVE  i = j
<1> DEFINE edge == [k \in 1..Len(s) - 1 |-> {s[k], s[k + 1]}]
<1>1. Len(s) \in Nat /\ Len(s) >= 2
  BY DEF Trail, Path
<1>2. IsFiniteSet(1..Len(s) - 1) /\ Cardinality(1..Len(s) - 1) = Len(s) - 1
  BY <1>1, FS_Interval
<1>3. edge \in Surjection(1..Len(s) - 1, Edges(s))
  BY DEF Edges, Surjection
<1>4. edge[i] = edge[j] /\ DOMAIN edge = 1..Len(s) - 1
  OBVIOUS
<1> HIDE DEF edge
<1>5. edge \in Injection(1..Len(s) - 1, Edges(s))
  BY <1>2, <1>3, FS_SurjSameCardinalityImpliesInj DEF Trail
<1> QED
  BY <1>4, <1>5 DEF Injection, IsInjective

LEMMA OneOfTwo ==
  ASSUME NEW S, IsFiniteSet(S), Cardinality(S) = 2, NEW a \in S
  PROVE  \E b \in S : b # a /\ \A c \in S : c \in {a, b}
<1>1. IsFiniteSet(S \ {a}) /\ Cardinality(S \ {a}) = 1
  BY FS_RemoveElement
<1>2. PICK b : S \ {a} = {b}
  BY <1>1, FS_Singleton
<1> QED
  BY <1>2

(* The two nodes of an edge, and the two edges of a node. *)
LEMMA TwoNodes ==
  ASSUME NEW E, TwoRegular(E), NEW x, NEW y, {x, y} \in E
  PROVE  x # y
<1>1. Cardinality({x, y}) = 2
  BY DEF TwoRegular
<1>2. Cardinality({x}) = 1
  BY FS_Singleton
<1>3. x = y => {x, y} = {x}
  OBVIOUS
<1> QED
  BY <1>1, <1>2, <1>3

LEMMA TwoEdges ==
  ASSUME NEW E, TwoRegular(E), NEW node, NEW a \in E, node \in a
  PROVE  /\ \E b \in E : b # a /\ node \in b
         /\ \A b, c \in E : node \in b /\ node \in c /\ b # a => c \in {a, b}
<1>1. IsFiniteSet(EdgesAt(node, E))
  <2>1. EdgesAt(node, E) \in SUBSET E
    BY DEF EdgesAt
  <2> QED
    BY <2>1, FS_Subset DEF TwoRegular
<1>2. Cardinality(EdgesAt(node, E)) = 2 /\ a \in EdgesAt(node, E)
  BY DEF TwoRegular, EdgesAt
<1>3. \E b \in EdgesAt(node, E) : b # a /\ \A c \in EdgesAt(node, E) : c \in {a, b}
  BY <1>1, <1>2, OneOfTwo
<1> QED
  BY <1>3 DEF EdgesAt

(* A trail through such a graph meets itself at its ends only, and then it  *)
(* is closed.                                                               *)
LEMMA MeetsAtEnds ==
  ASSUME NEW E, TwoRegular(E), NEW s, Trail(s), Edges(s) \subseteq E,
         NEW i \in 1..Len(s), NEW j \in 1..Len(s), i < j, s[i] = s[j]
  PROVE  i = 1 /\ j = Len(s) /\ Closed(s)
<1> DEFINE e(k) == {s[k], s[k + 1]}
<1>1. Len(s) \in Nat /\ Len(s) >= 2
  BY DEF Trail, Path
<1>2. \A k \in 1..Len(s) - 1 : e(k) \in E /\ s[k] # s[k + 1]
  <2>1. \A k \in 1..Len(s) - 1 : e(k) \in E
    BY DEF Edges
  <2> QED
    BY <2>1, TwoNodes
<1>3. \A k, l \in 1..Len(s) - 1 : e(k) = e(l) => k = l
  BY TrailEdges
<1>4. i \in 1..Len(s) - 1 /\ j - 1 \in 1..Len(s) - 1 /\ (j - 1) + 1 = j /\ i # j - 1
  <2>1. i \in 1..Len(s) - 1 /\ j - 1 \in 1..Len(s) - 1 /\ (j - 1) + 1 = j
    BY <1>1
  <2>2. i # j - 1
    BY <1>2, <2>1
  <2> QED
    BY <2>1, <2>2
<1>5. s[i] \in e(i) /\ s[i] \in e(j - 1) /\ e(i) # e(j - 1)
  BY <1>3, <1>4
<1>6. \A k \in 1..Len(s) - 1 : s[i] \in e(k) => k = i \/ k = j - 1
  <2> SUFFICES ASSUME NEW k \in 1..Len(s) - 1, s[i] \in e(k)
               PROVE  k = i \/ k = j - 1
    OBVIOUS
  <2>1. e(k) \in {e(j - 1), e(i)}
    <3>1. e(i) \in E /\ e(j - 1) \in E /\ e(k) \in E
      BY <1>2, <1>4
    <3> HIDE DEF e
    <3> QED
      BY <3>1, <1>5, TwoEdges
  <2> QED
    BY <1>3, <1>4, <2>1
<1>7. i = 1
  <2> SUFFICES ASSUME i # 1
               PROVE  FALSE
    OBVIOUS
  <2>1. i - 1 \in 1..Len(s) - 1 /\ (i - 1) + 1 = i /\ i - 1 # i /\ i - 1 # j - 1
    BY <1>1
  <2> QED
    BY <1>6, <2>1
<1>8. j = Len(s)
  <2> SUFFICES ASSUME j # Len(s)
               PROVE  FALSE
    OBVIOUS
  <2>1. j \in 1..Len(s) - 1 /\ j # i /\ j # j - 1
    BY <1>1
  <2> QED
    BY <1>6, <2>1
<1>9. Len(s) # 2
  BY <1>4, <1>7, <1>8
<1>10. Len(s) # 3
  <2> SUFFICES ASSUME Len(s) = 3
               PROVE  FALSE
    OBVIOUS
  <2>1. e(1) = e(2)
    BY <1>7, <1>8
  <2>2. 1 \in 1..Len(s) - 1 /\ 2 \in 1..Len(s) - 1
    OBVIOUS
  <2> QED
    BY <1>3, <2>1, <2>2
<1> QED
  BY <1>1, <1>7, <1>8, <1>9, <1>10 DEF Closed, First, Last

(* Both edges of a node belong to a trail that runs through it. *)
LEMMA BothEdges ==
  ASSUME NEW E, TwoRegular(E), NEW s, Trail(s), Edges(s) \subseteq E,
         NEW i \in 1..Len(s), (1 < i /\ i < Len(s)) \/ s[1] = s[Len(s)],
         NEW edge \in E, s[i] \in edge
  PROVE  edge \in Edges(s)
<1> DEFINE e(k) == {s[k], s[k + 1]}
<1>1. Len(s) \in Nat /\ Len(s) >= 2
  BY DEF Trail, Path
<1>2. \A k \in 1..Len(s) - 1 : e(k) \in E /\ e(k) \in Edges(s) /\ s[k] # s[k + 1]
  <2>1. \A k \in 1..Len(s) - 1 : e(k) \in E /\ e(k) \in Edges(s)
    BY DEF Edges
  <2> QED
    BY <2>1, TwoNodes
<1>3. \A k, l \in 1..Len(s) - 1 : e(k) = e(l) => k = l
  BY TrailEdges
<1>4. \E k, l \in 1..Len(s) - 1 : k # l /\ s[i] \in e(k) /\ s[i] \in e(l)
  <2>1. CASE 1 < i /\ i < Len(s)
    <3>1. i - 1 \in 1..Len(s) - 1 /\ i \in 1..Len(s) - 1 /\ (i - 1) + 1 = i /\ i - 1 # i
      BY <1>1, <2>1
    <3>2. s[i] \in e(i - 1) /\ s[i] \in e(i)
      BY <3>1
    <3> QED
      BY <3>1, <3>2
  <2>2. CASE ~ (1 < i /\ i < Len(s))
    <3>1. s[1] = s[Len(s)] /\ i \in {1, Len(s)}
      BY <1>1, <2>2
    <3>2. 1 \in 1..Len(s) - 1 /\ Len(s) - 1 \in 1..Len(s) - 1 /\ (Len(s) - 1) + 1 = Len(s)
      BY <1>1
    <3>3. Len(s) - 1 # 1
      BY <1>2, <3>1, <3>2
    <3>4. s[i] \in e(1) /\ s[i] \in e(Len(s) - 1)
      BY <3>1, <3>2
    <3> QED
      BY <3>2, <3>3, <3>4
  <2> QED
    BY <2>1, <2>2
<1>5. PICK k \in 1..Len(s) - 1, l \in 1..Len(s) - 1 :
        k # l /\ s[i] \in e(k) /\ s[i] \in e(l)
  BY <1>4
<1>6. e(k) # e(l) /\ e(k) \in E /\ e(l) \in E
  BY <1>2, <1>3, <1>5
<1>7. edge \in {e(k), e(l)}
  <2> HIDE DEF e
  <2> QED
    BY <1>5, <1>6, TwoEdges
<1> QED
  BY <1>2, <1>7

-----------------------------------------------------------------------------
(* How the loop shares out the members *)

(* Everything the loop holds is a trail, the trails have no edge in common, *)
(* and every edge of a member is in one of them, or in a member that retain *)
(* has not looked at.  No ring is begun before retain is through.           *)
Unseen == seen + 1..Len(members)

Trails ==
  /\ \A i \in 1..Len(segments) : Trail(segments[i])
  /\ ring # <<>> => Trail(ring)
  /\ \A k \in 1..Len(rings) : Trail(rings[k])

Apart ==
  /\ \A i \in 1..Len(segments) :
       /\ \A j \in 1..Len(segments) : Edges(segments[i]) \cap Edges(segments[j]) # {} => i = j
       /\ \A k \in Unseen : Edges(segments[i]) \cap Edges(members[k]) = {}
       /\ \A k \in 1..Len(rings) : Edges(segments[i]) \cap Edges(rings[k]) = {}
       /\ Edges(segments[i]) \cap Edges(ring) = {}
  /\ \A k \in 1..Len(rings) :
       /\ \A l \in 1..Len(rings) : Edges(rings[k]) \cap Edges(rings[l]) # {} => k = l
       /\ Edges(rings[k]) \cap Edges(ring) = {}

Held(edge) ==
  \/ edge \in Edges(ring)
  \/ \E i \in 1..Len(segments) : edge \in Edges(segments[i])
  \/ \E k \in 1..Len(rings) : edge \in Edges(rings[k])
  \/ \E k \in Unseen : edge \in Edges(members[k])

Shares ==
  /\ ring # <<>> \/ rings # <<>> => seen = Len(members)
  /\ Trails
  /\ Apart
  /\ \A edge \in EdgesOfAll(members) : Held(edge)

(* The members of a relation have finitely many edges. *)
LEMMA CutsAreRegular ==
  ASSUME Paths, CutsOfCycles
  PROVE  TwoRegular(EdgesOfAll(members))
<1> DEFINE E == EdgesOfAll(members)
           parts == {Edges(members[k]) : k \in 1..Len(members)}
           part == [k \in 1..Len(members) |-> Edges(members[k])]
<1>1. members \in Seq(Seq(Nodes)) /\ Len(members) \in Nat
  BY MembersAssumption DEF Paths
<1>2. IsFiniteSet(parts)
  <2>1. part \in Surjection(1..Len(members), parts)
    BY DEF Surjection
  <2>2. IsFiniteSet(1..Len(members))
    BY <1>1, FS_Interval
  <2> HIDE DEF part, parts
  <2> QED
    BY <2>1, <2>2, FS_Surjection
<1>3. \A p \in parts : IsFiniteSet(p)
  BY <1>1, EdgesFinite
<1>4. E = UNION parts
  BY DEF EdgesOfAll
<1>5. IsFiniteSet(E)
  <2> HIDE DEF parts, E
  <2> QED
    BY <1>2, <1>3, <1>4, FS_UNION
<1>6. \A edge \in E : \A node \in edge :
        Cardinality(edge) = 2 /\ Cardinality(EdgesAt(node, E)) = 2
  BY DEF CutsOfCycles, Neighbours, EdgesAt
<1> QED
  BY <1>5, <1>6 DEF TwoRegular

(* The places of a sequence but the last, and the places after them.        *)
LEMMA Places ==
  ASSUME NEW n \in Nat
  PROVE  /\ \A i \in 1..n : i # n => i \in 1..n - 1
         /\ \A i \in 1..n - 1 :
              /\ i \in 1..n /\ i # n /\ i < n
              /\ i + 1 \in 1..n /\ i + 1 # 1
              /\ i # n - 1 => i + 1 < n
         /\ n >= 2 => 1 \in 1..n - 1
OBVIOUS

LEMMA NoEdges == Edges(<<>>) = {}
BY DEF Edges

LEMMA InitShares ==
  ASSUME StitchInit
  PROVE  Shares
<1>1. seen = 0 /\ segments = <<>> /\ ring = <<>> /\ rings = <<>>
  BY DEF StitchInit
<1>2. members \in Seq(Seq(Nodes)) /\ Len(members) \in Nat
  BY MembersAssumption DEF StitchInit
<1>3. Unseen = 1..Len(members)
  BY <1>1 DEF Unseen
<1>4. \A edge \in EdgesOfAll(members) : Held(edge)
  BY <1>3 DEF EdgesOfAll, Held
<1>5. Trails /\ Apart
  BY <1>1 DEF Trails, Apart
<1> QED
  BY <1>1, <1>4, <1>5 DEF Shares

LEMMA RetainShares ==
  ASSUME Paths, CutsOfCycles, Shares, Retain
  PROVE  Shares'
<1> DEFINE n == seen + 1
<1>1. /\ members \in Seq(Seq(Nodes)) /\ Len(members) \in Nat /\ seen \in Nat
      /\ n \in 1..Len(members) /\ seen' = n /\ members' = members
      /\ ring = <<>> /\ rings = <<>> /\ ring' = <<>> /\ rings' = <<>>
      /\ segments \in Seq(Path) /\ Len(segments) \in Nat
  BY MembersAssumption DEF Paths, Shares, Retain
<1>2. /\ Len(members[n]) >= 2
      /\ Cardinality(Edges(members[n])) = Len(members[n]) - 1
  BY <1>1 DEF CutsOfCycles
<1>3. segments' = Append(segments, members[n])
  BY <1>1, <1>2 DEF Retain
<1>4. /\ Len(segments') = Len(segments) + 1 /\ segments'[Len(segments) + 1] = members[n]
      /\ \A i \in 1..Len(segments) : segments'[i] = segments[i]
  BY <1>1, <1>3
<1>5. \A i \in 1..Len(segments') : i \in 1..Len(segments) \/ i = Len(segments) + 1
  BY <1>1, <1>4
<1>6. Trail(members[n])
  BY <1>1, <1>2 DEF Trail, Path
<1>7. Unseen = Unseen' \cup {n} /\ n \notin Unseen'
  BY <1>1 DEF Unseen
<1>8. \A k \in Unseen' : Edges(members[n]) \cap Edges(members[k]) = {}
  <2> SUFFICES ASSUME NEW k \in Unseen'
               PROVE  Edges(members[n]) \cap Edges(members[k]) = {}
    OBVIOUS
  <2>1. k \in 1..Len(members) /\ k # n
    BY <1>1 DEF Unseen
  <2> QED
    BY <1>1, <2>1 DEF CutsOfCycles
<1> HIDE DEF n
<1>9. Trails'
  BY <1>1, <1>4, <1>5, <1>6 DEF Trails, Shares
<1>10. Apart'
  <2>1. /\ \A i, j \in 1..Len(segments) :
             Edges(segments[i]) \cap Edges(segments[j]) # {} => i = j
        /\ \A i \in 1..Len(segments) : \A k \in Unseen :
             Edges(segments[i]) \cap Edges(members[k]) = {}
    BY DEF Shares, Apart
  <2>2. \A i, j \in 1..Len(segments') :
          Edges(segments'[i]) \cap Edges(segments'[j]) # {} => i = j
    <3> SUFFICES ASSUME NEW i \in 1..Len(segments'), NEW j \in 1..Len(segments'),
                        Edges(segments'[i]) \cap Edges(segments'[j]) # {}
                 PROVE  i = j
      OBVIOUS
    <3>1. \A m \in 1..Len(segments) : Edges(segments[m]) \cap Edges(members[n]) = {}
      BY <1>7, <2>1
    <3>2. CASE i \in 1..Len(segments) /\ j \in 1..Len(segments)
      BY <1>4, <2>1, <3>2
    <3>3. CASE i \in 1..Len(segments) /\ j = Len(segments) + 1
      BY <1>4, <3>1, <3>3
    <3>4. CASE i = Len(segments) + 1 /\ j \in 1..Len(segments)
      BY <1>4, <3>1, <3>4
    <3> QED
      BY <1>5, <3>2, <3>3, <3>4
  <2>3. \A i \in 1..Len(segments') : \A k \in Unseen' :
          Edges(segments'[i]) \cap Edges(members[k]) = {}
    BY <1>4, <1>5, <1>7, <1>8, <2>1
  <2>4. Edges(ring') = {} /\ 1..Len(rings') = {}
    BY <1>1, NoEdges
  <2> QED
    BY <1>1, <2>2, <2>3, <2>4 DEF Apart
<1>11. \A edge \in EdgesOfAll(members)' : Held(edge)'
  <2> SUFFICES ASSUME NEW edge \in EdgesOfAll(members)
               PROVE  Held(edge)'
    BY <1>1
  <2>1. \/ \E i \in 1..Len(segments) : edge \in Edges(segments[i])
        \/ \E k \in Unseen : edge \in Edges(members[k])
    BY <1>1, NoEdges DEF Shares, Held
  <2>2. 1..Len(segments) \subseteq 1..Len(segments')
        /\ Len(segments) + 1 \in 1..Len(segments')
    BY <1>1, <1>4
  <2>3. \/ \E i \in 1..Len(segments') : edge \in Edges(segments'[i])
        \/ \E k \in Unseen' : edge \in Edges(members[k])
    BY <1>4, <1>7, <2>1, <2>2
  <2> QED
    BY <1>1, <2>3 DEF Held
<1> QED
  BY <1>1, <1>9, <1>10, <1>11 DEF Shares

LEMMA StartShares ==
  ASSUME Paths, Shares, StartRing
  PROVE  Shares'
<1> DEFINE n == Len(segments)
<1>1. /\ segments \in Seq(Path) /\ n \in Nat /\ n >= 1
      /\ ring = <<>> /\ rings' = rings /\ members' = members
      /\ seen = Len(members) /\ seen' = seen
  BY DEF Paths, StartRing
<1>2. ring' = segments[n] /\ segments' = SubSeq(segments, 1, n - 1)
  BY DEF StartRing, Last, Front
<1>3. Len(segments') = n - 1 /\ \A i \in 1..n - 1 : segments'[i] = segments[i]
  <2>1. segments' = [i \in 1..n - 1 |-> segments[i]]
    BY <1>1, <1>2
  <2>2. n - 1 \in Nat
    BY <1>1
  <2> HIDE DEF n
  <2> QED
    BY <2>1, <2>2
<1>4. /\ n \in 1..n /\ \A i \in 1..n - 1 : i \in 1..n /\ i # n
      /\ \A i \in 1..n : i = n \/ i \in 1..n - 1
  BY <1>1
<1>5. Unseen' = Unseen
  BY <1>1 DEF Unseen
<1> HIDE DEF n
<1>6. Trails'
  BY <1>1, <1>2, <1>3, <1>4 DEF Trails, Shares, n
<1>7. Apart'
  <2>1. /\ \A i, j \in 1..n : Edges(segments[i]) \cap Edges(segments[j]) # {} => i = j
        /\ \A i \in 1..n : \A k \in Unseen : Edges(segments[i]) \cap Edges(members[k]) = {}
        /\ \A i \in 1..n : \A k \in 1..Len(rings) :
             Edges(segments[i]) \cap Edges(rings[k]) = {}
        /\ \A k, l \in 1..Len(rings) : Edges(rings[k]) \cap Edges(rings[l]) # {} => k = l
    BY DEF Shares, Apart, n
  <2>2. \A i, j \in 1..n - 1 : Edges(segments'[i]) \cap Edges(segments'[j]) # {} => i = j
    BY <1>3, <1>4, <2>1
  <2>3. \A i \in 1..n - 1 :
          /\ \A k \in Unseen : Edges(segments'[i]) \cap Edges(members[k]) = {}
          /\ \A k \in 1..Len(rings) : Edges(segments'[i]) \cap Edges(rings[k]) = {}
          /\ Edges(segments'[i]) \cap Edges(ring') = {}
    BY <1>2, <1>3, <1>4, <2>1
  <2>4. \A k \in 1..Len(rings) : Edges(rings[k]) \cap Edges(ring') = {}
    BY <1>2, <1>4, <2>1
  <2> QED
    BY <1>1, <1>3, <1>5, <2>1, <2>2, <2>3, <2>4 DEF Apart
<1>8. \A edge \in EdgesOfAll(members)' : Held(edge)'
  <2> SUFFICES ASSUME NEW edge \in EdgesOfAll(members)
               PROVE  Held(edge)'
    BY <1>1
  <2>1. \/ \E i \in 1..n : edge \in Edges(segments[i])
        \/ \E k \in 1..Len(rings) : edge \in Edges(rings[k])
        \/ \E k \in Unseen : edge \in Edges(members[k])
    BY <1>1, NoEdges DEF Shares, Held, n
  <2>2. \/ edge \in Edges(ring')
        \/ \E i \in 1..n - 1 : edge \in Edges(segments'[i])
        \/ \E k \in 1..Len(rings) : edge \in Edges(rings[k])
        \/ \E k \in Unseen : edge \in Edges(members[k])
    BY <1>2, <1>3, <1>4, <2>1
  <2> QED
    BY <1>1, <1>3, <1>5, <2>2 DEF Held
<1> QED
  BY <1>1, <1>6, <1>7, <1>8 DEF Shares

LEMMA CloseShares ==
  ASSUME Paths, Shares, CloseRing
  PROVE  Shares'
<1> DEFINE n == Len(rings) + 1
<1>1. /\ rings \in Seq(Path) /\ Len(rings) \in Nat /\ ring \in Path
      /\ segments' = segments /\ members' = members /\ seen' = seen
      /\ ring # <<>> /\ ring' = <<>> /\ rings' = Append(rings, ring)
      /\ seen = Len(members)
  BY DEF Paths, CloseRing, Shares
<1>2. /\ Len(rings') = n /\ rings'[n] = ring
      /\ \A k \in 1..Len(rings) : rings'[k] = rings[k]
  BY <1>1
<1>3. /\ n \in 1..n /\ \A k \in 1..Len(rings) : k \in 1..n
      /\ \A k \in 1..n : k = n \/ k \in 1..Len(rings)
  BY <1>1
<1>4. Unseen' = Unseen /\ Edges(ring') = {}
  BY <1>1, NoEdges DEF Unseen
<1> HIDE DEF n
<1>5. Trails'
  BY <1>1, <1>2, <1>3 DEF Trails, Shares
<1>6. Apart'
  <2>1. /\ \A i \in 1..Len(segments) :
             /\ \A j \in 1..Len(segments) :
                  Edges(segments[i]) \cap Edges(segments[j]) # {} => i = j
             /\ \A k \in Unseen : Edges(segments[i]) \cap Edges(members[k]) = {}
             /\ \A k \in 1..Len(rings) : Edges(segments[i]) \cap Edges(rings[k]) = {}
             /\ Edges(segments[i]) \cap Edges(ring) = {}
        /\ \A k, l \in 1..Len(rings) : Edges(rings[k]) \cap Edges(rings[l]) # {} => k = l
        /\ \A k \in 1..Len(rings) : Edges(rings[k]) \cap Edges(ring) = {}
    BY DEF Shares, Apart
  <2>2. \A i \in 1..Len(segments) : \A k \in 1..n :
          Edges(segments[i]) \cap Edges(rings'[k]) = {}
    BY <1>2, <1>3, <2>1
  <2>3. \A k, l \in 1..n : Edges(rings'[k]) \cap Edges(rings'[l]) # {} => k = l
    BY <1>2, <1>3, <2>1
  <2> QED
    BY <1>1, <1>2, <1>4, <2>1, <2>2, <2>3 DEF Apart
<1>7. \A edge \in EdgesOfAll(members)' : Held(edge)'
  <2> SUFFICES ASSUME NEW edge \in EdgesOfAll(members)
               PROVE  Held(edge)'
    BY <1>1
  <2>1. Held(edge)
    BY DEF Shares
  <2> QED
    BY <1>1, <1>2, <1>3, <1>4, <2>1 DEF Held
<1> QED
  BY <1>1, <1>5, <1>6, <1>7 DEF Shares

LEMMA JoinShares ==
  ASSUME Paths, Shares, NEW i \in 1..Len(segments), JoinSegment(i)
  PROVE  Shares'
<1> DEFINE n    == Len(segments)
           s    == segments[i]
           at(j) == IF j = i THEN n ELSE j
<1>1. /\ segments \in Seq(Path) /\ n \in Nat /\ i \in 1..n
      /\ rings' = rings /\ members' = members /\ seen' = seen
      /\ ring # <<>> /\ seen = Len(members)
      /\ ring \in Path /\ s \in Path /\ CanJoin(ring, s)
  BY DEF Paths, Shares, JoinSegment
<1>2. /\ ring' \in Path /\ Edges(ring') = Edges(ring) \cup Edges(s)
      /\ Len(ring') = (Len(ring) + Len(s)) - 1
  BY <1>1, JoinedPath DEF JoinSegment
<1>3. segments' = [j \in 1..n - 1 |-> IF j = i THEN segments[n] ELSE segments[j]]
  BY DEF JoinSegment, SwapRemove, Last
<1>4. Len(segments') = n - 1 /\ \A j \in 1..n - 1 : segments'[j] = segments[at(j)]
  BY <1>1, <1>3
<1>5. /\ \A j \in 1..n - 1 : at(j) \in 1..n /\ at(j) # i
      /\ \A j, k \in 1..n - 1 : at(j) = at(k) => j = k
      /\ \A j \in 1..n : j # i => \E k \in 1..n - 1 : at(k) = j
  <2>1. \A j \in 1..n - 1 : at(j) \in 1..n /\ at(j) # i
    BY <1>1
  <2>2. \A j, k \in 1..n - 1 : at(j) = at(k) => j = k
    BY <1>1
  <2>3. ASSUME NEW j \in 1..n, j # i
        PROVE  \E k \in 1..n - 1 : at(k) = j
    <3>1. CASE j = n
      <4>1. i \in 1..n - 1 /\ at(i) = j
        BY <1>1, <2>3, <3>1
      <4> QED
        BY <4>1
    <3>2. CASE j # n
      <4>1. j \in 1..n - 1 /\ at(j) = j
        BY <1>1, <2>3, <3>2
      <4> QED
        BY <4>1
    <3> QED
      BY <3>1, <3>2
  <2> QED
    BY <2>1, <2>2, <2>3
<1>6. Unseen' = Unseen
  BY <1>1 DEF Unseen
<1>7. /\ \A j, k \in 1..n : Edges(segments[j]) \cap Edges(segments[k]) # {} => j = k
      /\ \A j \in 1..n :
           /\ \A k \in Unseen : Edges(segments[j]) \cap Edges(members[k]) = {}
           /\ \A k \in 1..Len(rings) : Edges(segments[j]) \cap Edges(rings[k]) = {}
           /\ Edges(segments[j]) \cap Edges(ring) = {}
      /\ \A k, l \in 1..Len(rings) : Edges(rings[k]) \cap Edges(rings[l]) # {} => k = l
      /\ \A k \in 1..Len(rings) : Edges(rings[k]) \cap Edges(ring) = {}
  BY DEF Shares, Apart
<1>8. Trail(ring')
  <2>1. Trail(ring) /\ Trail(s)
    BY <1>1 DEF Shares, Trails
  <2>2. IsFiniteSet(Edges(ring)) /\ IsFiniteSet(Edges(s))
    BY <1>1, EdgesFinite DEF Path
  <2>3. Edges(ring) \cap Edges(s) = {}
    BY <1>1, <1>7
  <2>4. Cardinality(Edges(ring) \cup Edges(s)) =
          Cardinality(Edges(ring)) + Cardinality(Edges(s)) - Cardinality({})
    BY <2>2, <2>3, FS_Union
  <2>5. Cardinality({}) = 0 /\ Len(ring) \in Nat /\ Len(s) \in Nat
    BY <1>1, FS_EmptySet DEF Path
  <2> HIDE DEF s
  <2> QED
    BY <1>2, <2>1, <2>4, <2>5 DEF Trail
<1>9. Trails'
  <2>1. \A j \in 1..n - 1 : Trail(segments'[j])
    BY <1>4, <1>5 DEF Shares, Trails
  <2> QED
    BY <1>1, <1>4, <1>8, <2>1 DEF Trails, Shares
<1> HIDE DEF n, at
<1>10. Apart'
  <2>1. \A j, k \in 1..n - 1 : Edges(segments'[j]) \cap Edges(segments'[k]) # {} => j = k
    BY <1>4, <1>5, <1>7
  <2>2. \A j \in 1..n - 1 :
          /\ \A k \in Unseen : Edges(segments'[j]) \cap Edges(members[k]) = {}
          /\ \A k \in 1..Len(rings) : Edges(segments'[j]) \cap Edges(rings[k]) = {}
    BY <1>4, <1>5, <1>7
  <2>3. \A j \in 1..n - 1 : Edges(segments'[j]) \cap Edges(ring') = {}
    BY <1>1, <1>2, <1>4, <1>5, <1>7
  <2>4. \A k \in 1..Len(rings) : Edges(rings[k]) \cap Edges(ring') = {}
    BY <1>1, <1>2, <1>7
  <2> QED
    BY <1>1, <1>4, <1>6, <1>7, <2>1, <2>2, <2>3, <2>4 DEF Apart
<1>11. \A edge \in EdgesOfAll(members)' : Held(edge)'
  <2> SUFFICES ASSUME NEW edge \in EdgesOfAll(members)
               PROVE  Held(edge)'
    BY <1>1
  <2>1. \/ edge \in Edges(ring)
        \/ \E j \in 1..n : edge \in Edges(segments[j])
        \/ \E k \in 1..Len(rings) : edge \in Edges(rings[k])
        \/ \E k \in Unseen : edge \in Edges(members[k])
    BY DEF Shares, Held, n
  <2>2. (\E j \in 1..n : edge \in Edges(segments[j]))
          => edge \in Edges(s) \/ \E j \in 1..n - 1 : edge \in Edges(segments'[j])
    BY <1>4, <1>5
  <2>3. \/ edge \in Edges(ring')
        \/ \E j \in 1..n - 1 : edge \in Edges(segments'[j])
        \/ \E k \in 1..Len(rings) : edge \in Edges(rings[k])
        \/ \E k \in Unseen : edge \in Edges(members[k])
    BY <1>2, <2>1, <2>2
  <2> QED
    BY <1>1, <1>4, <1>6, <2>3 DEF Held
<1> QED
  BY <1>1, <1>9, <1>10, <1>11 DEF Shares

(* No ring is dropped: where it ends, the other edge of the node belongs to *)
(* a segment that ends there too.                                           *)
LEMMA NoDrop ==
  ASSUME Paths, CutsOfCycles, Shares, DropRing
  PROVE  FALSE
<1> DEFINE E == EdgesOfAll(members)
           n == Len(ring)
           v == ring[n]
           a == {ring[n - 1], ring[n]}
<1>1. /\ TwoRegular(E) /\ ring # <<>> /\ Trail(ring) /\ Edges(ring) \subseteq E
      /\ seen = Len(members) /\ ~ Closed(ring)
      /\ \A j \in 1..Len(segments) : ~ CanJoin(ring, segments[j])
  BY CutsAreRegular DEF DropRing, Shares, Trails, Paths, OnMembers
<1>2. n \in Nat /\ n >= 2 /\ n - 1 \in 1..n - 1 /\ (n - 1) + 1 = n /\ n \in 1..n
  BY <1>1 DEF Trail, Path
<1>3. a \in Edges(ring)
  BY <1>2 DEF Edges
<1>4. PICK b \in E : b # a /\ v \in b
  <2>1. a \in E /\ v \in a
    BY <1>1, <1>3
  <2> HIDE DEF a, v, E
  <2> QED
    BY <1>1, <2>1, TwoEdges
<1>5. b \notin Edges(ring)
  <2> SUFFICES ASSUME NEW k \in 1..n - 1, b = {ring[k], ring[k + 1]}
               PROVE  FALSE
    BY DEF Edges
  <2>1. k # n - 1
    BY <1>2, <1>4
  <2>2. k \in 1..n /\ k < n /\ k + 1 \in 1..n /\ k + 1 < n /\ k + 1 # 1
    <3> HIDE DEF n
    <3> QED
      BY <1>2, <2>1, Places
  <2>3. v = ring[k] \/ v = ring[k + 1]
    BY <1>4
  <2> HIDE DEF E
  <2> QED
    BY <1>1, <1>2, <2>2, <2>3, MeetsAtEnds
<1>6. \A j \in 1..Len(segments) : b \notin Edges(segments[j])
  <2> SUFFICES ASSUME NEW j \in 1..Len(segments), b \in Edges(segments[j])
               PROVE  FALSE
    OBVIOUS
  <2> DEFINE s == segments[j]
  <2>1. /\ Trail(s) /\ Edges(s) \subseteq E /\ Edges(s) \cap Edges(ring) = {}
        /\ ~ CanJoin(ring, s)
    BY <1>1 DEF Shares, Trails, Apart, Paths, OnMembers
  <2>2. Len(s) \in Nat /\ Len(s) >= 2
    BY <2>1 DEF Trail, Path
  <2>3. PICK m \in 1..Len(s) : s[m] = v
    <3>1. PICK k \in 1..Len(s) - 1 : b = {s[k], s[k + 1]}
      BY DEF Edges
    <3>2. k \in 1..Len(s) /\ k + 1 \in 1..Len(s)
      BY <2>2
    <3> QED
      BY <1>4, <3>1, <3>2
  <2> HIDE DEF s
  <2>4. ~ (1 < m /\ m < Len(s))
    <3> SUFFICES ASSUME 1 < m, m < Len(s)
                 PROVE  FALSE
      OBVIOUS
    <3>1. a \in E /\ s[m] \in a
      BY <1>1, <1>3, <2>3
    <3> HIDE DEF a, v, E
    <3>2. a \in Edges(s)
      BY <1>1, <2>1, <3>1, BothEdges
    <3> QED
      BY <1>3, <2>1, <3>2
  <2>5. v = s[1] \/ v = s[Len(s)]
    BY <2>2, <2>3, <2>4
  <2> QED
    BY <2>1, <2>5 DEF CanJoin, First, Last
<1>7. \A k \in 1..Len(rings) : b \notin Edges(rings[k])
  <2> SUFFICES ASSUME NEW k \in 1..Len(rings), b \in Edges(rings[k])
               PROVE  FALSE
    OBVIOUS
  <2> DEFINE s == rings[k]
  <2>1. /\ Trail(s) /\ Edges(s) \subseteq E /\ Edges(s) \cap Edges(ring) = {}
        /\ s[1] = s[Len(s)]
    BY DEF Shares, Trails, Apart, Paths, OnMembers, Closed, First, Last
  <2>2. Len(s) \in Nat /\ Len(s) >= 2
    BY <2>1 DEF Trail, Path
  <2>3. PICK m \in 1..Len(s) : s[m] = v
    <3>1. PICK l \in 1..Len(s) - 1 : b = {s[l], s[l + 1]}
      BY DEF Edges
    <3>2. l \in 1..Len(s) /\ l + 1 \in 1..Len(s)
      BY <2>2
    <3> QED
      BY <1>4, <3>1, <3>2
  <2>4. a \in E /\ s[m] \in a
    BY <1>1, <1>3, <2>3
  <2> HIDE DEF a, v, E, s
  <2>5. a \in Edges(s)
    BY <1>1, <2>1, <2>4, BothEdges
  <2> QED
    BY <1>3, <2>1, <2>5
<1>8. Held(b) /\ Unseen = {}
  <2>1. Len(members) \in Nat
    BY MembersAssumption DEF Paths
  <2> QED
    BY <1>1, <2>1 DEF Shares, Unseen
<1> QED
  BY <1>5, <1>6, <1>7, <1>8 DEF Held

LEMMA NextShares ==
  ASSUME Paths, CutsOfCycles => Shares, [StitchNext]_ringVars
  PROVE  (CutsOfCycles => Shares)'
<1> SUFFICES ASSUME CutsOfCycles'
             PROVE  Shares'
  OBVIOUS
<1>1. members' = members
  BY DEF StitchNext, Retain, StartRing, CloseRing, JoinSegment, DropRing, ringVars
<1>2. CutsOfCycles /\ Shares
  BY <1>1 DEF CutsOfCycles, Neighbours
<1>3. CASE Retain
  BY <1>2, <1>3, RetainShares
<1>4. CASE StartRing
  BY <1>2, <1>4, StartShares
<1>5. CASE CloseRing
  BY <1>2, <1>5, CloseShares
<1>6. CASE DropRing
  BY <1>2, <1>6, NoDrop
<1>7. CASE \E i \in 1..Len(segments) : JoinSegment(i)
  BY <1>2, <1>7, JoinShares
<1>8. CASE UNCHANGED ringVars
  BY <1>2, <1>8 DEF ringVars, Shares, Trails, Apart, Held, Unseen
<1> QED
  BY <1>3, <1>4, <1>5, <1>6, <1>7, <1>8 DEF StitchNext

(* A closed trail visits each of its nodes once, and two of them that share *)
(* a node share its edges.                                                  *)
LEMMA ClosedTrails ==
  ASSUME NEW E, TwoRegular(E), NEW s, Trail(s), Edges(s) \subseteq E, s[1] = s[Len(s)]
  PROVE  Cardinality(Range(s)) = Len(s) - 1
<1> DEFINE visit == [i \in 1..Len(s) - 1 |-> s[i]]
<1>1. Len(s) \in Nat /\ Len(s) >= 2 /\ DOMAIN s = 1..Len(s)
  BY DEF Trail, Path
<1>2. visit \in Surjection(1..Len(s) - 1, Range(s))
  <2>1. visit \in [1..Len(s) - 1 -> Range(s)]
    <3>1. \A i \in 1..Len(s) - 1 : i \in DOMAIN s
      BY <1>1
    <3> QED
      BY <3>1 DEF Range
  <2>2. ASSUME NEW x \in Range(s)
        PROVE  \E i \in 1..Len(s) - 1 : visit[i] = x
    <3>1. PICK i \in 1..Len(s) : s[i] = x
      BY <1>1 DEF Range
    <3>2. CASE i = Len(s)
      <4>1. 1 \in 1..Len(s) - 1 /\ visit[1] = x
        BY <1>1, <3>1, <3>2
      <4> QED
        BY <4>1
    <3>3. CASE i # Len(s)
      <4>1. i \in 1..Len(s) - 1
        BY <1>1, <3>3, Places
      <4>2. visit[i] = x
        BY <3>1, <4>1
      <4> QED
        BY <4>1, <4>2
    <3> QED
      BY <3>2, <3>3
  <2> HIDE DEF visit
  <2> QED
    BY <2>1, <2>2 DEF Surjection
<1>3. \A i, j \in 1..Len(s) - 1 : visit[i] = visit[j] => i = j
  <2> SUFFICES ASSUME NEW i \in 1..Len(s) - 1, NEW j \in 1..Len(s) - 1, s[i] = s[j]
               PROVE  i = j
    OBVIOUS
  <2>1. i \in 1..Len(s) /\ j \in 1..Len(s) /\ i # Len(s) /\ j # Len(s)
    BY <1>1, Places
  <2>2. ~ (i < j)
    BY <2>1, MeetsAtEnds
  <2>3. ~ (j < i)
    BY <2>1, MeetsAtEnds
  <2> QED
    BY <2>2, <2>3
<1>4. IsFiniteSet(1..Len(s) - 1) /\ Cardinality(1..Len(s) - 1) = Len(s) - 1
  BY <1>1, FS_Interval
<1>5. DOMAIN visit = 1..Len(s) - 1
  OBVIOUS
<1> HIDE DEF visit
<1>6. visit \in Injection(1..Len(s) - 1, Range(s))
  BY <1>2, <1>3, <1>5 DEF Surjection, Injection, IsInjective
<1> QED
  BY <1>2, <1>4, <1>6, FS_Surjection

LEMMA SharedNode ==
  ASSUME NEW E, TwoRegular(E), NEW s, Trail(s), Edges(s) \subseteq E,
         NEW t, Trail(t), Edges(t) \subseteq E, t[1] = t[Len(t)],
         Range(s) \cap Range(t) # {}
  PROVE  Edges(s) \cap Edges(t) # {}
<1>1. /\ Len(s) \in Nat /\ Len(s) >= 2 /\ DOMAIN s = 1..Len(s)
      /\ DOMAIN t = 1..Len(t)
  BY DEF Trail, Path
<1>2. PICK i \in 1..Len(s), j \in 1..Len(t) : s[i] = t[j]
  BY <1>1 DEF Range
<1>3. \E edge \in Edges(s) : s[i] \in edge
  <2>1. CASE i = Len(s)
    <3>1. i - 1 \in 1..Len(s) - 1 /\ (i - 1) + 1 = i
      BY <1>1, <2>1
    <3>2. {s[i - 1], s[i]} \in Edges(s)
      BY <3>1 DEF Edges
    <3> QED
      BY <3>2
  <2>2. CASE i # Len(s)
    <3>1. i \in 1..Len(s) - 1
      BY <1>1, <2>2, Places
    <3>2. {s[i], s[i + 1]} \in Edges(s)
      BY <3>1 DEF Edges
    <3> QED
      BY <3>2
  <2> QED
    BY <2>1, <2>2
<1>4. PICK edge \in Edges(s) : s[i] \in edge
  BY <1>3
<1>5. edge \in Edges(t)
  BY <1>2, <1>4, BothEdges
<1> QED
  BY <1>4, <1>5

(* Of a relation whose members cut up disjoint cycles, in whatever order,   *)
(* direction and number of pieces they are listed, stitch_rings finds these *)
(* cycles: no edge is lost, and no ring touches another or itself.          *)
THEOREM RingsAreTheCycles == Spec => []DisjointRingsFound
<1>1. Init => Paths /\ (CutsOfCycles => Shares)
  BY InitPaths, InitShares DEF Init
<1>2. Paths /\ (CutsOfCycles => Shares) /\ [Next]_vars
        => (Paths /\ (CutsOfCycles => Shares))'
  BY StepStitches, NextPaths, NextShares
<1>3. Paths /\ (CutsOfCycles => Shares) => DisjointRingsFound
  <2> SUFFICES ASSUME Paths, Shares, StitchDone, CutsOfCycles
               PROVE  /\ EdgesOfAll(rings) = EdgesOfAll(members)
                      /\ \A k \in 1..Len(rings) :
                           Cardinality(Range(rings[k])) = Len(rings[k]) - 1
                      /\ \A k, l \in 1..Len(rings) :
                           Range(rings[k]) \cap Range(rings[l]) # {} => k = l
    BY DEF DisjointRingsFound
  <2> DEFINE E == EdgesOfAll(members)
  <2>1. TwoRegular(E)
    BY CutsAreRegular
  <2>2. \A k \in 1..Len(rings) :
          /\ Trail(rings[k]) /\ Edges(rings[k]) \subseteq E
          /\ rings[k][1] = rings[k][Len(rings[k])]
    BY DEF Shares, Trails, Paths, OnMembers, Closed, First, Last
  <2>3. EdgesOfAll(rings) \subseteq E
    BY <2>2 DEF EdgesOfAll
  <2>4. E \subseteq EdgesOfAll(rings)
    <3>1. Len(members) \in Nat /\ seen = Len(members) /\ segments = <<>> /\ ring = <<>>
      BY MembersAssumption DEF Paths, StitchDone
    <3>2. Unseen = {} /\ Edges(ring) = {} /\ 1..Len(segments) = {}
      BY <3>1, NoEdges DEF Unseen
    <3>3. \A edge \in E : \E k \in 1..Len(rings) : edge \in Edges(rings[k])
      BY <3>2 DEF Shares, Held
    <3> HIDE DEF E
    <3> QED
      BY <3>3 DEF EdgesOfAll
  <2> HIDE DEF E
  <2>5. \A k \in 1..Len(rings) : Cardinality(Range(rings[k])) = Len(rings[k]) - 1
    BY <2>1, <2>2, ClosedTrails
  <2>6. \A k, l \in 1..Len(rings) : Range(rings[k]) \cap Range(rings[l]) # {} => k = l
    <3> SUFFICES ASSUME NEW k \in 1..Len(rings), NEW l \in 1..Len(rings),
                        Range(rings[k]) \cap Range(rings[l]) # {}
                 PROVE  k = l
      OBVIOUS
    <3>1. Edges(rings[k]) \cap Edges(rings[l]) # {}
      BY <2>1, <2>2, SharedNode
    <3> QED
      BY <3>1 DEF Shares, Apart
  <2> QED
    BY <2>3, <2>4, <2>5, <2>6 DEF E
<1> QED
  BY <1>1, <1>2, <1>3, PTL DEF Spec

-----------------------------------------------------------------------------
(* Least numbers and ranks *)

LessThan == {p \in Nat \X Nat : p[1] < p[2]}

(* A set of natural numbers that is not empty has a least element. *)
LEMMA LeastNumber ==
  ASSUME NEW S, S \subseteq Nat, NEW s \in S
  PROVE  \E least \in S : \A other \in S : least <= other
<1>1. IsWellFoundedOn(LessThan, Nat)
  BY NatLessThanWellFounded, Zenon DEF OpToRel, LessThan
<1>2. PICK least \in S : \A other \in S : ~ (<<other, least>> \in LessThan)
  BY <1>1, WFMin
<1>3. \A other \in S : ~ (other < least)
  BY <1>2 DEF LessThan
<1> QED
  BY <1>3

(* One component of the keys: some of the candidates have the least.        *)
LEMMA LeastOf ==
  ASSUME NEW I, NEW some \in I, NEW key, \A i \in I : key[i] \in Nat
  PROVE  \E i \in I : \A j \in I : key[i] <= key[j]
<1> DEFINE keys == {key[i] : i \in I}
<1>1. keys \subseteq Nat /\ key[some] \in keys
  OBVIOUS
<1>2. PICK least \in keys : \A other \in keys : least <= other
  BY <1>1, LeastNumber
<1> QED
  BY <1>2

Keys == Nat \X Nat \X Nat \X Nat

(* Below, component by component. *)
LEMMA BelowMeans ==
  ASSUME NEW left, NEW right
  PROVE  Below(left, right) <=>
           \/ left[1] < right[1]
           \/ left[1] = right[1] /\ left[2] < right[2]
           \/ left[1] = right[1] /\ left[2] = right[2] /\ left[3] < right[3]
           \/ /\ left[1] = right[1] /\ left[2] = right[2] /\ left[3] = right[3]
              /\ left[4] < right[4]
<1>1. Below(left, right) <=>
        \/ left[1] < right[1] /\ \A j \in 1..0 : left[j] = right[j]
        \/ left[2] < right[2] /\ \A j \in 1..1 : left[j] = right[j]
        \/ left[3] < right[3] /\ \A j \in 1..2 : left[j] = right[j]
        \/ left[4] < right[4] /\ \A j \in 1..3 : left[j] = right[j]
  BY DEF Below
<1>2. (\A j \in 1..0 : left[j] = right[j]) <=> TRUE
  OBVIOUS
<1>3. (\A j \in 1..1 : left[j] = right[j]) <=> left[1] = right[1]
  OBVIOUS
<1>4. (\A j \in 1..2 : left[j] = right[j]) <=> left[1] = right[1] /\ left[2] = right[2]
  OBVIOUS
<1>5. (\A j \in 1..3 : left[j] = right[j])
        <=> left[1] = right[1] /\ left[2] = right[2] /\ left[3] = right[3]
  OBVIOUS
<1> QED
  BY <1>1, <1>2, <1>3, <1>4, <1>5

(* Among keys there is one that no other is below. *)
LEMMA LeastKey ==
  ASSUME NEW I, NEW some \in I, NEW K, \A i \in I : K[i] \in Keys
  PROVE  \E i \in I : \A j \in I : ~ Below(K[j], K[i])
<1> DEFINE Part(n) == [i \in I |-> K[i][n]]
<1>1. \A i \in I : K[i][1] \in Nat /\ K[i][2] \in Nat /\ K[i][3] \in Nat /\ K[i][4] \in Nat
  BY DEF Keys
<1>2. PICK a \in I : \A j \in I : K[a][1] <= K[j][1]
  <2>1. \E i \in I : \A j \in I : Part(1)[i] <= Part(1)[j]
    BY <1>1, LeastOf
  <2> QED
    BY <2>1
<1> DEFINE I2 == {i \in I : K[i][1] = K[a][1]}
<1>3. PICK b \in I2 : \A j \in I2 : K[b][2] <= K[j][2]
  <2>1. a \in I2 /\ \A i \in I2 : Part(2)[i] \in Nat
    BY <1>1
  <2>2. \E i \in I2 : \A j \in I2 : Part(2)[i] <= Part(2)[j]
    <3> HIDE DEF I2, Part
    <3> QED
      BY <2>1, LeastOf
  <2> QED
    BY <2>2
<1> DEFINE I3 == {i \in I2 : K[i][2] = K[b][2]}
<1>4. PICK c \in I3 : \A j \in I3 : K[c][3] <= K[j][3]
  <2>1. b \in I3 /\ \A i \in I3 : Part(3)[i] \in Nat
    BY <1>1
  <2>2. \E i \in I3 : \A j \in I3 : Part(3)[i] <= Part(3)[j]
    <3> HIDE DEF I3, Part
    <3> QED
      BY <2>1, LeastOf
  <2> QED
    BY <2>2
<1> DEFINE I4 == {i \in I3 : K[i][3] = K[c][3]}
<1>5. PICK d \in I4 : \A j \in I4 : K[d][4] <= K[j][4]
  <2>1. c \in I4 /\ \A i \in I4 : Part(4)[i] \in Nat
    BY <1>1
  <2>2. \E i \in I4 : \A j \in I4 : Part(4)[i] <= Part(4)[j]
    <3> HIDE DEF I4, Part
    <3> QED
      BY <2>1, LeastOf
  <2> QED
    BY <2>2
<1>6. ASSUME NEW j \in I PROVE ~ Below(K[j], K[d])
  <2>1. d \in I /\ K[d][1] = K[a][1] /\ K[d][2] = K[b][2] /\ K[d][3] = K[c][3]
    BY <1>5
  <2>2. K[d][1] <= K[j][1]
    BY <2>1, <1>2
  <2>3. K[j][1] = K[d][1] => K[d][2] <= K[j][2]
    BY <2>1, <1>3
  <2>4. K[j][1] = K[d][1] /\ K[j][2] = K[d][2] => K[d][3] <= K[j][3]
    BY <2>1, <1>4
  <2>5. K[j][1] = K[d][1] /\ K[j][2] = K[d][2] /\ K[j][3] = K[d][3]
          => K[d][4] <= K[j][4]
    BY <2>1, <1>5
  <2>6. ~ \/ K[j][1] < K[d][1]
          \/ K[j][1] = K[d][1] /\ K[j][2] < K[d][2]
          \/ K[j][1] = K[d][1] /\ K[j][2] = K[d][2] /\ K[j][3] < K[d][3]
          \/ /\ K[j][1] = K[d][1] /\ K[j][2] = K[d][2] /\ K[j][3] = K[d][3]
             /\ K[j][4] < K[d][4]
    <3>1. /\ K[j][1] \in Nat /\ K[j][2] \in Nat /\ K[j][3] \in Nat /\ K[j][4] \in Nat
          /\ K[d][1] \in Nat /\ K[d][2] \in Nat /\ K[d][3] \in Nat /\ K[d][4] \in Nat
      BY <2>1, <1>1
    <3> QED
      BY <3>1, <2>2, <2>3, <2>4, <2>5
  <2> QED
    BY <2>6, BelowMeans
<1> QED
  BY <1>5, <1>6

(* Every place in the order of a finite set of numbers is taken: n of them  *)
(* are at most as large as its n-th.                                        *)
LEMMA RanksTaken ==
  ASSUME NEW S \in SUBSET Nat, IsFiniteSet(S), NEW n \in 1..Cardinality(S)
  PROVE  \E s \in S : Cardinality({c \in S : c <= s}) = n
<1> DEFINE UpTo(s) == {c \in S : c <= s}
           N == Cardinality(S)
           rank == [s \in S |-> Cardinality(UpTo(s))]
<1>1. N \in Nat
  BY FS_CardinalityType
<1>2. ASSUME NEW s \in S
      PROVE  /\ IsFiniteSet(UpTo(s)) /\ s \in UpTo(s)
             /\ Cardinality(UpTo(s)) \in 1..N
  <2>1. UpTo(s) \in SUBSET S /\ s \in UpTo(s)
    OBVIOUS
  <2> HIDE DEF UpTo
  <2>2. IsFiniteSet(UpTo(s)) /\ Cardinality(UpTo(s)) <= N
    BY <2>1, FS_Subset
  <2>3. Cardinality(UpTo(s)) \in Nat /\ Cardinality(UpTo(s)) # 0
    BY <2>1, <2>2, FS_CardinalityType, FS_EmptySet
  <2> QED
    BY <2>1, <2>2, <2>3, <1>1
<1>3. ASSUME NEW s \in S, NEW t \in S, s < t
      PROVE  rank[s] < rank[t]
  <2>1. UpTo(s) \in SUBSET UpTo(t) /\ t \notin UpTo(s)
    <3>1. \A c \in S : c \in Nat
      OBVIOUS
    <3>2. \A c \in S : c <= s => c <= t
      BY <3>1, <1>3
    <3>3. ~ (t <= s)
      BY <3>1, <1>3
    <3> QED
      BY <3>2, <3>3
  <2>2. IsFiniteSet(UpTo(t)) /\ t \in UpTo(t)
    BY <1>2
  <2>3. Cardinality(UpTo(s)) \in 1..N /\ Cardinality(UpTo(t)) \in 1..N
    BY <1>2
  <2> HIDE DEF UpTo
  <2>4. /\ Cardinality(UpTo(s)) <= Cardinality(UpTo(t))
        /\ Cardinality(UpTo(t)) # Cardinality(UpTo(s))
    BY <2>1, <2>2, FS_Subset
  <2> QED
    BY <2>3, <2>4, <1>1
<1>4. rank \in Injection(S, 1..N)
  <2>1. rank \in [S -> 1..N]
    BY <1>2
  <2>2. ASSUME NEW s \in S, NEW t \in S, rank[s] = rank[t]
        PROVE  s = t
    <3>1. rank[s] \in 1..N
      BY <2>1
    <3> HIDE DEF rank
    <3>2. ~ (s < t) /\ ~ (t < s)
      BY <3>1, <2>2, <1>3, <1>1
    <3> QED
      BY <3>2
  <2> HIDE DEF rank
  <2> QED
    BY <2>1, <2>2 DEF Injection, IsInjective
<1>5. IsFiniteSet(1..N) /\ Cardinality(1..N) = N
  BY <1>1, FS_Interval
<1> HIDE DEF rank, N
<1>6. rank \in Surjection(S, 1..N)
  BY <1>4, <1>5, FS_Injection DEF N
<1>7. \E s \in S : rank[s] = n
  BY <1>6 DEF Surjection, N
<1> QED
  BY <1>7 DEF rank

-----------------------------------------------------------------------------
(* The records of a build *)

(* A list of the boundaries of a build, with or without the relation.       *)
IsBuild(list) ==
  /\ list \in Seq(Boundaries)
  /\ \A i, j \in 1..Len(list) : list[i].source = list[j].source => i = j

LEMMA ListsAreBuilds ==
  ASSUME NEW ways \in Members, NEW others \in Others[ways]
  PROVE  IsBuild(others) /\ IsBuild(Append(others, Relation))
<1>1. others \in Seq(Boundaries) /\ Relation \in Boundaries
  BY BuildsAssumption
<1> DEFINE all == Append(others, Relation)
<1>2. /\ all \in Seq(Boundaries) /\ Len(all) = Len(others) + 1
      /\ \A i \in 1..Len(others) : all[i] = others[i] /\ i \in 1..Len(others) + 1
  BY <1>1
<1>3. \A i, j \in 1..Len(others) + 1 : all[i].source = all[j].source => i = j
  BY BuildsAssumption
<1> HIDE DEF all
<1>4. IsBuild(all)
  BY <1>2, <1>3 DEF IsBuild
<1>5. IsBuild(others)
  BY <1>1, <1>2, <1>3 DEF IsBuild
<1> QED
  BY <1>4, <1>5 DEF all

(* A derived country has the code of a region that has no country.          *)
LEMMA DerivedAreNeeded ==
  ASSUME NEW list, IsBuild(list), NEW n \in DOMAIN DerivedCountries(list)
  PROVE  \E i \in DOMAIN list :
           /\ NeedsCountry(list[i], list)
           /\ DerivedCountries(list)[n].code = list[i].code
<1> DEFINE needy == {i \in DOMAIN list : NeedsCountry(list[i], list)}
           codes == {list[i].code : i \in needy}
           CodeAt(m) == CHOOSE code \in codes : Cardinality({c \in codes : c <= code}) = m
<1>1. /\ DOMAIN DerivedCountries(list) = 1..Cardinality(codes)
      /\ DerivedCountries(list)[n].code = CodeAt(n)
  BY DEF DerivedCountries
<1>2. Len(list) \in Nat /\ DOMAIN list = 1..Len(list) /\ list \in [1..Len(list) -> Boundaries]
  BY DEF IsBuild
<1>3. codes \in SUBSET Nat
  BY <1>2 DEF NeedsCountry, Boundaries
<1>4. IsFiniteSet(codes)
  <2>1. IsFiniteSet(needy)
    <3>1. IsFiniteSet(1..Len(list)) /\ needy \in SUBSET (1..Len(list))
      BY <1>2, FS_Interval
    <3> HIDE DEF needy
    <3> QED
      BY <3>1, FS_Subset
  <2> DEFINE code == [i \in needy |-> list[i].code]
  <2>2. code \in Surjection(needy, codes)
    BY DEF Surjection
  <2> HIDE DEF needy, codes, code
  <2> QED
    BY <2>1, <2>2, FS_Surjection
<1>5. \E code \in codes : Cardinality({c \in codes : c <= code}) = n
  <2> HIDE DEF codes
  <2> QED
    BY <1>1, <1>3, <1>4, RanksTaken
<1>6. CodeAt(n) \in codes
  <2> HIDE DEF codes
  <2> QED
    BY <1>5
<1> HIDE DEF CodeAt
<1> QED
  BY <1>1, <1>6

(* What is in the index: boundaries of the build, told apart by their       *)
(* sources, each with a record derived for its very code, or none.          *)
LEMMA AcceptedEntries ==
  ASSUME NEW list, IsBuild(list)
  PROVE  /\ \A e \in Accepted(list) :
              /\ e.boundary \in Boundaries
              /\ e.inferred # None =>
                   /\ e.inferred \in DOMAIN DerivedCountries(list)
                   /\ DerivedCountries(list)[e.inferred].code = e.boundary.code
         /\ \A e, o \in Accepted(list) : e.boundary.source = o.boundary.source => e = o
<1> DEFINE derived == DerivedCountries(list)
           Inferred(code) == {i \in DOMAIN derived : derived[i].code = code}
           Entry(i) == [record   |-> Len(derived) + i,
                        boundary |-> list[i],
                        inferred |-> IF Inferred(list[i].code) = {} THEN None
                                     ELSE CHOOSE d \in Inferred(list[i].code) : TRUE]
<1>1. Accepted(list) = {Entry(i) : i \in DOMAIN list}
  BY DEF Accepted
<1>2. DOMAIN list = 1..Len(list) /\ \A i \in DOMAIN list : list[i] \in Boundaries
  BY DEF IsBuild
<1> HIDE DEF derived
<1>3. ASSUME NEW i \in DOMAIN list
      PROVE  /\ Entry(i).boundary = list[i]
             /\ Entry(i).inferred # None => Entry(i).inferred \in Inferred(list[i].code)
  BY <1>3
<1> HIDE DEF Entry
<1>4. \A e \in Accepted(list) :
        /\ e.boundary \in Boundaries
        /\ e.inferred # None =>
             e.inferred \in DOMAIN derived /\ derived[e.inferred].code = e.boundary.code
  BY <1>1, <1>2, <1>3
<1>5. \A e, o \in Accepted(list) : e.boundary.source = o.boundary.source => e = o
  BY <1>1, <1>2, <1>3 DEF IsBuild
<1> QED
  BY <1>4, <1>5 DEF derived

-----------------------------------------------------------------------------
(* The choice in one layer *)

LEMMA KeyParts ==
  ASSUME NEW e, e.boundary \in Boundaries, NEW layer
  PROVE  /\ CompareKey(e, layer) \in Keys
         /\ CompareKey(e, layer)[1] = IF Matches(e, layer) THEN 0 ELSE 1
         /\ CompareKey(e, layer)[2] = e.boundary.area
         /\ CompareKey(e, layer)[4] = e.boundary.source[2]
         /\ \/ e.boundary.source[1] = "relation" /\ CompareKey(e, layer)[3] = 0
            \/ e.boundary.source[1] = "way" /\ CompareKey(e, layer)[3] = 1
         /\ e.boundary.source = <<e.boundary.source[1], e.boundary.source[2]>>
<1> DEFINE named == IF Matches(e, layer) THEN 0 ELSE 1
           rank  == TypeRank(e.boundary.source[1])
           area  == e.boundary.area
           id    == e.boundary.source[2]
<1>1. e.boundary.source \in {"way", "relation"} \X Nat /\ area \in Nat
  BY DEF Boundaries
<1>2. /\ e.boundary.source[1] \in {"way", "relation"} /\ id \in Nat
      /\ e.boundary.source = <<e.boundary.source[1], id>>
  BY <1>1
<1>3. \/ e.boundary.source[1] = "relation" /\ rank = 0
      \/ e.boundary.source[1] = "way" /\ rank = 1
  BY <1>2 DEF TypeRank
<1>4. named \in Nat /\ rank \in Nat
  BY <1>3
<1>5. CompareKey(e, layer) = <<named, area, rank, id>>
  BY DEF CompareKey
<1>6. named = IF Matches(e, layer) THEN 0 ELSE 1
  OBVIOUS
<1> HIDE DEF named, rank
<1>7. CompareKey(e, layer) \in Keys
  BY <1>1, <1>2, <1>4, <1>5 DEF Keys
<1>8. /\ CompareKey(e, layer)[1] = named
      /\ CompareKey(e, layer)[2] = area
      /\ CompareKey(e, layer)[3] = rank
      /\ CompareKey(e, layer)[4] = id
  BY <1>5
<1> QED
  BY <1>2, <1>3, <1>6, <1>7, <1>8

(* No two boundaries of a build have the same key. *)
LEMMA KeysDiffer ==
  ASSUME NEW list, IsBuild(list), NEW e \in Accepted(list), NEW o \in Accepted(list),
         e # o, NEW layer
  PROVE  Below(CompareKey(e, layer), CompareKey(o, layer))
           \/ Below(CompareKey(o, layer), CompareKey(e, layer))
<1> DEFINE k == CompareKey(e, layer)
           l == CompareKey(o, layer)
<1>1. e.boundary \in Boundaries /\ o.boundary \in Boundaries
      /\ e.boundary.source # o.boundary.source
  BY AcceptedEntries
<1>2. k \in Keys /\ l \in Keys /\ ~ (k[3] = l[3] /\ k[4] = l[4])
  BY <1>1, KeyParts
<1> HIDE DEF k, l
<1>3. \/ k[1] < l[1]
      \/ k[1] = l[1] /\ k[2] < l[2]
      \/ k[1] = l[1] /\ k[2] = l[2] /\ k[3] < l[3]
      \/ k[1] = l[1] /\ k[2] = l[2] /\ k[3] = l[3] /\ k[4] < l[4]
      \/ l[1] < k[1]
      \/ l[1] = k[1] /\ l[2] < k[2]
      \/ l[1] = k[1] /\ l[2] = k[2] /\ l[3] < k[3]
      \/ l[1] = k[1] /\ l[2] = k[2] /\ l[3] = k[3] /\ l[4] < k[4]
  BY <1>2 DEF Keys
<1>4. Below(k, l) \/ Below(l, k)
  BY <1>3, BelowMeans
<1> QED
  BY <1>4 DEF k, l

(* A lower key is what the property calls preferred. *)
LEMMA BelowIsPreferred ==
  ASSUME NEW e, NEW o, NEW layer, e.boundary \in Boundaries, o.boundary \in Boundaries,
         Below(CompareKey(e, layer), CompareKey(o, layer))
  PROVE  \/ Preferred(e, o, layer)
         \/ ~Preferred(o, e, layer) /\ BySource(e, o)
<1> DEFINE k == CompareKey(e, layer)
           l == CompareKey(o, layer)
<1>1. /\ k \in Keys /\ l \in Keys
      /\ k[1] = (IF Matches(e, layer) THEN 0 ELSE 1) /\ k[2] = e.boundary.area
      /\ k[4] = e.boundary.source[2]
      /\ l[1] = (IF Matches(o, layer) THEN 0 ELSE 1) /\ l[2] = o.boundary.area
      /\ l[4] = o.boundary.source[2]
  BY KeyParts
<1>2. /\ \/ e.boundary.source[1] = "relation" /\ k[3] = 0
         \/ e.boundary.source[1] = "way" /\ k[3] = 1
      /\ \/ o.boundary.source[1] = "relation" /\ l[3] = 0
         \/ o.boundary.source[1] = "way" /\ l[3] = 1
  BY KeyParts
<1>3. Below(k, l)
  OBVIOUS
<1> HIDE DEF k, l
<1>4. \/ k[1] < l[1]
      \/ k[1] = l[1] /\ k[2] < l[2]
      \/ k[1] = l[1] /\ k[2] = l[2] /\ k[3] < l[3]
      \/ k[1] = l[1] /\ k[2] = l[2] /\ k[3] = l[3] /\ k[4] < l[4]
  BY <1>3, BelowMeans
<1>5. /\ k[1] < l[1] => Matches(e, layer) /\ ~Matches(o, layer)
      /\ k[1] = l[1] => (Matches(e, layer) <=> Matches(o, layer))
  BY <1>1
<1>6. CASE k[1] < l[1]
  BY <1>5, <1>6 DEF Preferred
<1>7. CASE k[1] = l[1] /\ k[2] < l[2]
  BY <1>1, <1>5, <1>7 DEF Preferred
<1>8. CASE k[1] = l[1] /\ k[2] = l[2]
  <2>1. ~Preferred(o, e, layer)
    <3>1. ~ (o.boundary.area < e.boundary.area)
      BY <1>1, <1>8 DEF Keys
    <3> QED
      BY <3>1, <1>5, <1>8 DEF Preferred
  <2>2. k[3] < l[3] => e.boundary.source[1] = "relation" /\ o.boundary.source[1] = "way"
    BY <1>2
  <2>3. k[3] = l[3] => e.boundary.source[1] = o.boundary.source[1]
    BY <1>2
  <2>4. k[3] < l[3] \/ (k[3] = l[3] /\ k[4] < l[4])
    BY <1>1, <1>4, <1>8 DEF Keys
  <2>5. BySource(e, o)
    BY <2>2, <2>3, <2>4, <1>1 DEF BySource
  <2> QED
    BY <2>1, <2>5
<1> QED
  BY <1>4, <1>6, <1>7, <1>8

(* Where boundaries of a layer were found, the one that is chosen is one of *)
(* them, and its key is below that of every other one.                      *)
LEMMA ChosenIsLeast ==
  ASSUME NEW list, IsBuild(list), found \in Seq(Accepted(list)),
         NEW layer, InLayer(layer) # {}
  PROVE  \E i \in InLayer(layer) :
           /\ ChooseBoundary(layer) = found[i]
           /\ \A j \in InLayer(layer) :
                found[j] # found[i] =>
                  Below(CompareKey(found[i], layer), CompareKey(found[j], layer))
<1> DEFINE K == [i \in InLayer(layer) |-> CompareKey(found[i], layer)]
           Least(i) == \A j \in InLayer(layer) :
                         ~Below(CompareKey(found[j], layer), CompareKey(found[i], layer))
<1>1. /\ InLayer(layer) \subseteq Nat
      /\ \A i \in InLayer(layer) : found[i] \in Accepted(list)
  BY DEF InLayer
<1>2. \A i \in InLayer(layer) : K[i] \in Keys
  BY <1>1, AcceptedEntries, KeyParts
<1>3. \E i \in InLayer(layer) : Least(i)
  <2>1. \E i \in InLayer(layer) : \A j \in InLayer(layer) : ~Below(K[j], K[i])
    <3> HIDE DEF K
    <3> QED
      BY <1>2, LeastKey
  <2> QED
    BY <2>1
<1> HIDE DEF Least
<1>4. PICK first \in InLayer(layer) :
        Least(first) /\ \A j \in InLayer(layer) : Least(j) => first <= j
  <2> DEFINE least == {i \in InLayer(layer) : Least(i)}
  <2>1. least \subseteq Nat /\ least # {}
    BY <1>1, <1>3
  <2> HIDE DEF least
  <2>2. \E i \in least : \A j \in least : i <= j
    BY <2>1, LeastNumber
  <2> QED
    BY <2>2 DEF least
<1>5. \A i, j \in InLayer(layer) :
        Least(i) /\ found[j] # found[i] =>
          Below(CompareKey(found[i], layer), CompareKey(found[j], layer))
  BY <1>1, KeysDiffer DEF Least
<1> DEFINE Chosen(i) ==
      /\ \A j \in InLayer(layer) :
           ~Below(CompareKey(found[j], layer), CompareKey(found[i], layer))
      /\ \A j \in InLayer(layer) :
           j < i => Below(CompareKey(found[i], layer), CompareKey(found[j], layer))
<1>6. Chosen(first)
  <2>1. ASSUME NEW j \in InLayer(layer), j < first
        PROVE  found[j] # found[first]
    <3>1. ~ (first <= j)
      BY <1>1, <2>1
    <3> QED
      BY <1>4, <3>1 DEF Least
  <2> QED
    BY <1>4, <1>5, <2>1 DEF Least
<1>7. ChooseBoundary(layer) = found[CHOOSE i \in InLayer(layer) : Chosen(i)]
  BY DEF ChooseBoundary
<1> HIDE DEF Chosen
<1>8. PICK i \in InLayer(layer) : Chosen(i) /\ ChooseBoundary(layer) = found[i]
  BY <1>6, <1>7
<1>9. Least(i)
  BY <1>8 DEF Chosen, Least
<1> QED
  BY <1>5, <1>8, <1>9

-----------------------------------------------------------------------------
(* From the boundaries of a build to the assignment *)

(* What assign makes of the matches, in the words of its code. *)
Context   == [layer \in Range(Layers) |-> LayerRecord(layer)]
Ambiguous == \E layer \in Range(Layers) : Cardinality(InLayer(layer)) > 1

(* The index is that of the boundaries that were written, no point is asked *)
(* for before, what is found covers the point and is in the index, and an   *)
(* assignment was made of all the boundaries around the point.              *)
ContextInv ==
  /\ built # None => IsBuild(built) /\ accepted = Accepted(built)
  /\ built = None => names = None
  /\ names = None => covering = {} /\ found = <<>> /\ assignment = None
  /\ covering \subseteq accepted
  /\ found \in Seq(covering)
  /\ assignment # None =>
       /\ Range(found) = covering
       /\ assignment = [context |-> Context, ambiguous |-> Ambiguous]

LEMMA InitContext == Init => ContextInv
BY DEF Init, ContextInv

LEMMA SameChoice ==
  ASSUME UNCHANGED <<names, found>>
  PROVE  Context' = Context /\ Ambiguous' = Ambiguous
<1>1. ASSUME NEW layer
      PROVE  InLayer(layer)' = InLayer(layer)
  BY DEF InLayer
<1>2. ASSUME NEW layer
      PROVE  LayerRecord(layer)' = LayerRecord(layer)
  BY DEF LayerRecord, ChooseBoundary, CompareKey, Matches, InLayer
<1>3. Context' = Context
  BY <1>2 DEF Context
<1>4. Ambiguous' = Ambiguous
  BY <1>1 DEF Ambiguous
<1> QED
  BY <1>3, <1>4

LEMMA NextContext ==
  ASSUME Paths, ContextInv, [Next]_vars
  PROVE  ContextInv'
<1>1. CASE Stitch
  BY <1>1, SameChoice DEF Stitch, pointVars, ContextInv
<1>2. CASE WriteBoundaries
  <2>1. IsBuild(built')
    BY <1>2, ListsAreBuilds DEF WriteBoundaries, Paths
  <2>2. /\ accepted' = Accepted(built')
        /\ names' = None /\ covering' = {} /\ found' = <<>> /\ assignment' = None
    BY <1>2 DEF WriteBoundaries, pointVars, ContextInv
  <2> QED
    BY <2>1, <2>2 DEF ContextInv
<1>3. CASE Ask
  <2>1. /\ names' # None /\ found' = <<>> /\ assignment' = None
        /\ built' = built /\ accepted' = accepted /\ covering' \subseteq accepted
        /\ built # None
    BY <1>3, NoneAssumption DEF Ask, ContextInv
  <2> QED
    BY <2>1 DEF ContextInv
<1>4. CASE \E entry \in covering : Locate(entry)
  <2>1. PICK entry \in covering : Locate(entry)
    BY <1>4
  <2>2. assignment = None /\ assignment' = None
    BY <2>1 DEF Locate, ContextInv
  <2>3. found' \in Seq(covering)
    BY <2>1 DEF Locate, ContextInv
  <2>4. names # None
    BY <2>1 DEF ContextInv
  <2> QED
    BY <2>1, <2>2, <2>3, <2>4 DEF Locate, ContextInv
<1>5. CASE Assign
  <2>1. assignment' = [context |-> Context, ambiguous |-> Ambiguous]
    BY <1>5 DEF Assign, Context, Ambiguous
  <2>2. Context' = Context /\ Ambiguous' = Ambiguous
    BY <1>5, SameChoice DEF Assign
  <2> QED
    BY <1>5, <2>1, <2>2 DEF Assign, ContextInv
<1>6. CASE Finished
  BY <1>6, SameChoice DEF Finished, vars, pointVars, ContextInv
<1>7. CASE UNCHANGED vars
  BY <1>7, SameChoice DEF vars, pointVars, ContextInv
<1> QED
  BY <1>1, <1>2, <1>3, <1>4, <1>5, <1>6, <1>7 DEF Next

-----------------------------------------------------------------------------
(* What the assignment says *)

(* In every assignment, of whatever boundaries: those found in a layer are  *)
(* those around the point, and the chosen one is the best of them.          *)
LEMMA ChosenAround ==
  ASSUME ContextInv, assignment # None, NEW layer
  PROVE  LET around == {e \in covering : e.boundary.layer = layer}
         IN /\ InLayer(layer) = {} <=> around = {}
            /\ InLayer(layer) # {} =>
                 /\ ChooseBoundary(layer) \in around
                 /\ \A o \in around \ {ChooseBoundary(layer)} :
                      \/ Preferred(ChooseBoundary(layer), o, layer)
                      \/ /\ ~Preferred(o, ChooseBoundary(layer), layer)
                         /\ BySource(ChooseBoundary(layer), o)
<1> DEFINE around == {e \in covering : e.boundary.layer = layer}
<1>1. /\ IsBuild(built) /\ covering \subseteq Accepted(built)
      /\ found \in Seq(covering) /\ Range(found) = covering
  BY DEF ContextInv
<1>2. \A i \in InLayer(layer) : found[i] \in around
  BY <1>1 DEF InLayer
<1>3. \A e \in around : \E i \in InLayer(layer) : found[i] = e
  BY <1>1 DEF InLayer, Range
<1>4. found \in Seq(Accepted(built))
  BY <1>1
<1>5. \A e \in around : e.boundary \in Boundaries
  BY <1>1, AcceptedEntries
<1>6. InLayer(layer) = {} <=> around = {}
  BY <1>2, <1>3
<1>7. ASSUME InLayer(layer) # {}
      PROVE  /\ ChooseBoundary(layer) \in around
             /\ \A o \in around \ {ChooseBoundary(layer)} :
                  \/ Preferred(ChooseBoundary(layer), o, layer)
                  \/ /\ ~Preferred(o, ChooseBoundary(layer), layer)
                     /\ BySource(ChooseBoundary(layer), o)
  <2>1. PICK i \in InLayer(layer) :
          /\ ChooseBoundary(layer) = found[i]
          /\ \A j \in InLayer(layer) :
               found[j] # found[i] =>
                 Below(CompareKey(found[i], layer), CompareKey(found[j], layer))
    BY <1>1, <1>4, <1>7, ChosenIsLeast
  <2> HIDE DEF around
  <2>2. ChooseBoundary(layer) \in around
    BY <1>2, <2>1
  <2>3. ASSUME NEW o \in around \ {ChooseBoundary(layer)}
        PROVE  \/ Preferred(ChooseBoundary(layer), o, layer)
               \/ /\ ~Preferred(o, ChooseBoundary(layer), layer)
                  /\ BySource(ChooseBoundary(layer), o)
    <3>1. Below(CompareKey(ChooseBoundary(layer), layer), CompareKey(o, layer))
      BY <1>3, <2>1, <2>3
    <3> QED
      BY <1>5, <2>2, <2>3, <3>1, BelowIsPreferred
  <2> QED
    BY <2>2, <2>3
<1> QED
  BY <1>6, <1>7

(* More than one boundary around the point: more than one was found. *)
LEMMA SeveralFound ==
  ASSUME ContextInv, assignment # None, NEW layer,
         Cardinality({e \in covering : e.boundary.layer = layer}) > 1
  PROVE  Cardinality(InLayer(layer)) > 1
<1> DEFINE around == {e \in covering : e.boundary.layer = layer}
           at     == [i \in InLayer(layer) |-> found[i]]
<1>1. found \in Seq(covering) /\ Range(found) = covering
  BY DEF ContextInv
<1>2. Len(found) \in Nat /\ DOMAIN found = 1..Len(found)
  BY <1>1
<1>3. IsFiniteSet(1..Len(found)) /\ InLayer(layer) \in SUBSET (1..Len(found))
  BY <1>2, FS_Interval DEF InLayer
<1>4. IsFiniteSet(InLayer(layer))
  BY <1>3, FS_Subset
<1>5. at \in Surjection(InLayer(layer), around)
  BY <1>1 DEF InLayer, Range, Surjection
<1> HIDE DEF at
<1>6. Cardinality(around) <= Cardinality(InLayer(layer)) /\ IsFiniteSet(around)
  BY <1>4, <1>5, FS_Surjection
<1>7. Cardinality(around) \in Nat /\ Cardinality(InLayer(layer)) \in Nat
  BY <1>4, <1>6, FS_CardinalityType
<1>8. Cardinality(around) > 1
  OBVIOUS
<1> HIDE DEF around
<1> QED
  BY <1>6, <1>7, <1>8

(* Whatever boundaries a build has, and in whatever order the R-tree        *)
(* returns those around a point: the record of each layer is that of the    *)
(* best of them, and where there was a choice the context is flagged.       *)
THEOREM ChoiceIsOrderless == Spec => []ChoiceIgnoresOrder
<1>1. ContextInv => ChoiceIgnoresOrder
  <2> SUFFICES ASSUME ContextInv, assignment # None, NEW layer \in Range(Layers)
               PROVE  LET around == {e \in covering : e.boundary.layer = layer}
                      IN /\ around # {} => \E e \in around :
                              /\ assignment.context[layer] = e.record
                              /\ \A o \in around \ {e} :
                                   \/ Preferred(e, o, layer)
                                   \/ ~Preferred(o, e, layer) /\ BySource(e, o)
                         /\ Cardinality(around) > 1 => assignment.ambiguous
    BY DEF ChoiceIgnoresOrder
  <2> DEFINE around == {e \in covering : e.boundary.layer = layer}
  <2>1. assignment = [context |-> Context, ambiguous |-> Ambiguous]
    BY DEF ContextInv
  <2>2. assignment.context = Context /\ assignment.ambiguous = Ambiguous
    BY <2>1
  <2>3. assignment.context[layer] = LayerRecord(layer)
    BY <2>2 DEF Context
  <2>4. ASSUME around # {}
        PROVE  \E e \in around :
                 /\ assignment.context[layer] = e.record
                 /\ \A o \in around \ {e} :
                      \/ Preferred(e, o, layer)
                      \/ ~Preferred(o, e, layer) /\ BySource(e, o)
    <3>1. /\ InLayer(layer) # {}
          /\ ChooseBoundary(layer) \in around
          /\ \A o \in around \ {ChooseBoundary(layer)} :
               \/ Preferred(ChooseBoundary(layer), o, layer)
               \/ /\ ~Preferred(o, ChooseBoundary(layer), layer)
                  /\ BySource(ChooseBoundary(layer), o)
      BY <2>4, ChosenAround
    <3>2. LayerRecord(layer) = ChooseBoundary(layer).record
      BY <3>1 DEF LayerRecord
    <3> HIDE DEF around
    <3> QED
      BY <2>3, <3>1, <3>2
  <2>5. ASSUME Cardinality(around) > 1
        PROVE  assignment.ambiguous
    <3>1. Ambiguous
      BY <2>5, SeveralFound DEF Ambiguous
    <3> QED
      BY <2>2, <3>1
  <2> QED
    BY <2>4, <2>5
<1>2. Init => Paths /\ ContextInv
  BY InitPaths, InitContext DEF Init
<1>3. Paths /\ ContextInv /\ [Next]_vars => (Paths /\ ContextInv)'
  BY StepStitches, NextPaths, NextContext
<1> QED
  BY <1>1, <1>2, <1>3, PTL DEF Spec

(* Whatever boundaries a build has: the country of a context is that of a   *)
(* country around the point, or the one derived for the code of the chosen  *)
(* region, which then no country of the build has.                          *)
THEOREM CountryIsRight == Spec => []CountryFollowsBoundaries
<1>1. ContextInv => CountryFollowsBoundaries
  <2> SUFFICES ASSUME ContextInv, assignment # None,
                      assignment.context["country"] # None
               PROVE  CountryFollowsBoundaries
    BY DEF CountryFollowsBoundaries
  <2> DEFINE country   == assignment.context["country"]
             around(l) == {e \in covering : e.boundary.layer = l}
             chosen    == ChooseBoundary("region")
  <2>1. /\ assignment = [context |-> Context, ambiguous |-> Ambiguous]
        /\ IsBuild(built) /\ covering \subseteq Accepted(built)
    BY DEF ContextInv
  <2>2. "country" \in Range(Layers) /\ "region" \in Range(Layers)
    <3>1. Layers[1] = "country" /\ Layers[2] = "region" /\ {1, 2} \subseteq DOMAIN Layers
      BY DEF Layers
    <3> QED
      BY <3>1 DEF Range
  <2>3. /\ country = LayerRecord("country")
        /\ assignment.context["region"] = LayerRecord("region")
    BY <2>1, <2>2 DEF Context
  <2>4. CASE around("country") # {}
    <3>1. InLayer("country") # {} /\ ChooseBoundary("country") \in around("country")
      BY <2>4, ChosenAround
    <3>2. country = ChooseBoundary("country").record
      BY <2>3, <3>1 DEF LayerRecord
    <3> QED
      BY <2>4, <3>1, <3>2 DEF CountryFollowsBoundaries
  <2>5. CASE around("country") = {}
    <3>1. InLayer("country") = {}
      BY <2>5, ChosenAround
    <3>2. InLayer("region") # {} /\ country = chosen.inferred
      BY <2>3, <3>1 DEF LayerRecord
    <3>3. chosen \in around("region")
      BY <3>2, ChosenAround
    <3>4. assignment.context["region"] = chosen.record
      BY <2>3, <3>2 DEF LayerRecord
    <3>5. /\ country \in DOMAIN DerivedCountries(built)
          /\ DerivedCountries(built)[country].code = chosen.boundary.code
      BY <2>1, <3>2, <3>3, AcceptedEntries
    <3>6. chosen.boundary.code \notin CountryCodes(built)
      BY <2>1, <3>5, DerivedAreNeeded DEF NeedsCountry
    <3> HIDE DEF chosen
    <3> QED
      BY <2>5, <3>3, <3>4, <3>5, <3>6 DEF CountryFollowsBoundaries
  <2> QED
    BY <2>4, <2>5
<1>2. Init => Paths /\ ContextInv
  BY InitPaths, InitContext DEF Init
<1>3. Paths /\ ContextInv /\ [Next]_vars => (Paths /\ ContextInv)'
  BY StepStitches, NextPaths, NextContext
<1> QED
  BY <1>1, <1>2, <1>3, PTL DEF Spec
=============================================================================
