------------------------- MODULE OsmBuildProofs -------------------------
(***************************************************************************)
(* Proofs about what a build makes of the extract.                         *)
(*                                                                         *)
(* Discovery: the result of the scan does not depend on which thread took  *)
(* which block, or on how the partial results were joined, for every file. *)
(*                                                                         *)
(* The build, for every file: no way is dropped for its geometry while the *)
(* file has its nodes; the postcode records are those of the addresses;    *)
(* the report counts the rows of the pack; and every feature is decided    *)
(* once.  Each rests on what the scan found of the file (FoundIs), and on  *)
(* an invariant of the build of its own: ResolvedInv, PostcodeInv,         *)
(* ReportInv and DecidedInv, under BuildInv.                               *)
(***************************************************************************)
EXTENDS OsmBuild, WellFoundedInduction, SequenceTheorems,
        FiniteSetTheorems, TLAPS

-----------------------------------------------------------------------------
(* Sorting the entries of a scan *)

LessThan == {p \in Nat \X Nat : p[1] < p[2]}

(* A set of natural numbers that is not empty has a least element. *)
LEMMA LeastNumber ==
  ASSUME NEW S, S \subseteq Nat, NEW s \in S
  PROVE  \E least \in S : \A other \in S : least <= other
<1>1. IsWellFoundedOn(LessThan, Nat)
  BY NatLessThanWellFounded, Zenon DEF OpToRel, LessThan
<1>2. PICK least \in S : \A other \in S : ~ (<<other, least>> \in LessThan)
  BY <1>1, WFMin
<1>3. \A other \in S : ~ (other < least)
  BY <1>2 DEF LessThan
<1> QED
  BY <1>3

(* A function on the first n numbers is a sequence. *)
LEMMA FunctionIsSeq ==
  ASSUME NEW S, NEW n \in Nat, NEW f \in [1..n -> S]
  PROVE  f \in Seq(S) /\ Len(f) = n
<1>1. [1..n -> S] \in {[1..m -> S] : m \in Nat}
  OBVIOUS
<1>2. f \in Seq(S)
  BY <1>1, SeqDef, Zenon
<1> QED
  BY <1>2

(* The keys the entries are sorted by. *)
Keys == Int \X Int \X Int

(* Keys are compared component by component. *)
LEMMA BelowMeans ==
  ASSUME NEW a \in Keys, NEW b \in Keys
  PROVE  Below(a, b) <=>
           \/ a[1] < b[1]
           \/ a[1] = b[1] /\ a[2] < b[2]
           \/ a[1] = b[1] /\ a[2] = b[2] /\ a[3] < b[3]
<1>1. Below(a, b) <=> \E i \in {1, 2, 3} : a[i] < b[i] /\ \A j \in 1..i - 1 : a[j] = b[j]
  <2>1. 1..3 = {1, 2, 3}
    OBVIOUS
  <2> QED
    BY <2>1 DEF Below
<1>2. 1..1 - 1 = {} /\ 1..2 - 1 = {1} /\ 1..3 - 1 = {1, 2}
  OBVIOUS
<1>3. Below(a, b) <=>
        \/ a[1] < b[1]
        \/ a[2] < b[2] /\ a[1] = b[1]
        \/ a[3] < b[3] /\ a[1] = b[1] /\ a[2] = b[2]
  BY <1>1, <1>2
<1> QED
  BY <1>3

(* A strict order in which different keys are one below the other.          *)
LEMMA BelowOrders ==
  ASSUME NEW a \in Keys, NEW b \in Keys, NEW c \in Keys
  PROVE  /\ ~Below(a, a)
         /\ a # b => Below(a, b) \/ Below(b, a)
         /\ Below(a, b) /\ Below(b, c) => Below(a, c)
<1>1. /\ a = <<a[1], a[2], a[3]>> /\ b = <<b[1], b[2], b[3]>>
      /\ a[1] \in Int /\ a[2] \in Int /\ a[3] \in Int
      /\ b[1] \in Int /\ b[2] \in Int /\ b[3] \in Int
      /\ c[1] \in Int /\ c[2] \in Int /\ c[3] \in Int
  BY DEF Keys
<1>2. ~Below(a, a)
  BY <1>1, BelowMeans
<1>3. a # b => Below(a, b) \/ Below(b, a)
  <2>1. a # b => a[1] # b[1] \/ a[2] # b[2] \/ a[3] # b[3]
    BY <1>1
  <2> QED
    BY <2>1, <1>1, BelowMeans
<1>4. Below(a, b) /\ Below(b, c) => Below(a, c)
  BY <1>1, BelowMeans
<1> QED
  BY <1>2, <1>3, <1>4

(* A list of the entries S, told apart by their keys. *)
Lists(kind, list, S) ==
  /\ list \in Seq(S) /\ Range(list) = S
  /\ \A x \in S : SortKey(kind, x) \in Keys
  /\ \A i, j \in 1..Len(list) : SortKey(kind, list[i]) = SortKey(kind, list[j]) => i = j

(* The place of an entry in the order of the keys. *)
Lower(kind, S, x) == {y \in S : Below(SortKey(kind, y), SortKey(kind, x))}
PlaceOf(kind, S, x) == 1 + Cardinality(Lower(kind, S, x))

(* A list has as many entries as places, each with a key of its own. *)
LEMMA ListCounts ==
  ASSUME NEW kind, NEW S, NEW list, Lists(kind, list, S)
  PROVE  /\ IsFiniteSet(S) /\ Cardinality(S) = Len(list) /\ Len(list) \in Nat
         /\ DOMAIN list = 1..Len(list)
         /\ \A i \in 1..Len(list) : list[i] \in S
         /\ \A x \in S : \E i \in 1..Len(list) : x = list[i]
         /\ \A x, y \in S : SortKey(kind, x) = SortKey(kind, y) => x = y
<1>1. list \in [1..Len(list) -> S] /\ Len(list) \in Nat /\ DOMAIN list = 1..Len(list)
  BY DEF Lists
<1>2. \A x \in S : \E i \in 1..Len(list) : x = list[i]
  BY <1>1 DEF Lists, Range
<1>3. list \in Bijection(1..Len(list), S)
  BY <1>1, <1>2 DEF Lists, Bijection, Injection, Surjection, IsInjective
<1>4. IsFiniteSet(S) /\ Cardinality(S) = Len(list)
  <2>1. ExistsBijection(1..Len(list), S)
    BY <1>3 DEF ExistsBijection
  <2> QED
    BY <1>1, <2>1, FS_NatBijection, FS_CountingElements
<1>5. \A x, y \in S : SortKey(kind, x) = SortKey(kind, y) => x = y
  BY <1>2 DEF Lists
<1> QED
  BY <1>1, <1>2, <1>4, <1>5

(* The places of the entries are the numbers from 1 to their count. *)
LEMMA PlacesDiffer ==
  ASSUME NEW kind, NEW S, IsFiniteSet(S), \A x \in S : SortKey(kind, x) \in Keys,
         \A x, y \in S : SortKey(kind, x) = SortKey(kind, y) => x = y
  PROVE  /\ \A x \in S : PlaceOf(kind, S, x) \in 1..Cardinality(S)
         /\ \A x, y \in S : PlaceOf(kind, S, x) = PlaceOf(kind, S, y) => x = y
         /\ \A n \in 1..Cardinality(S) : \E x \in S : PlaceOf(kind, S, x) = n
<1> DEFINE L(x) == Lower(kind, S, x)
<1>1. ASSUME NEW x \in S
      PROVE  /\ IsFiniteSet(L(x)) /\ Cardinality(L(x)) \in Nat
             /\ x \notin L(x) /\ L(x) \subseteq S
  <2>1. L(x) \in SUBSET S
    BY DEF Lower
  <2>2. x \notin L(x)
    BY BelowOrders DEF Lower
  <2> QED
    BY <2>1, <2>2, FS_Subset, FS_CardinalityType
<1>2. ASSUME NEW x \in S PROVE PlaceOf(kind, S, x) \in 1..Cardinality(S)
  <2>1. L(x) \in SUBSET (S \ {x}) /\ IsFiniteSet(S \ {x})
        /\ Cardinality(S \ {x}) = Cardinality(S) - 1 /\ Cardinality(S) \in Nat
    BY <1>1, FS_RemoveElement, FS_CardinalityType
  <2>2. Cardinality(L(x)) <= Cardinality(S) - 1
    BY <2>1, FS_Subset
  <2> QED
    BY <1>1, <2>1, <2>2 DEF PlaceOf
<1>3. ASSUME NEW x \in S, NEW y \in S, Below(SortKey(kind, x), SortKey(kind, y))
      PROVE  PlaceOf(kind, S, x) < PlaceOf(kind, S, y)
  <2>1. L(x) \cup {x} \in SUBSET L(y)
    BY <1>3, BelowOrders DEF Lower
  <2>2. Cardinality(L(x) \cup {x}) = Cardinality(L(x)) + 1
    BY <1>1, FS_AddElement
  <2>3. Cardinality(L(x) \cup {x}) <= Cardinality(L(y))
    BY <1>1, <2>1, FS_Subset
  <2> QED
    BY <1>1, <2>2, <2>3 DEF PlaceOf
<1>4. ASSUME NEW x \in S, NEW y \in S, PlaceOf(kind, S, x) = PlaceOf(kind, S, y) PROVE x = y
  <2>1. ~Below(SortKey(kind, x), SortKey(kind, y)) /\ ~Below(SortKey(kind, y), SortKey(kind, x))
    BY <1>2, <1>3, <1>4
  <2> QED
    BY <2>1, BelowOrders
<1>5. \A n \in 1..Cardinality(S) : \E x \in S : PlaceOf(kind, S, x) = n
  <2> DEFINE place == [x \in S |-> PlaceOf(kind, S, x)]
             N == 1..Cardinality(S)
  <2>1. place \in Injection(S, N)
    BY <1>2, <1>4 DEF Injection, IsInjective
  <2>2. IsFiniteSet(N) /\ Cardinality(N) = Cardinality(S)
    BY FS_Interval, FS_CardinalityType
  <2>3. place \in Surjection(S, N)
    <3> HIDE DEF place, N
    <3> QED
      BY <2>1, <2>2, FS_Injection
  <2> QED
    BY <2>3 DEF Surjection
<1> QED
  BY <1>2, <1>4, <1>5

(* sort_by_key gives the entries in the order of their keys, whatever the   *)
(* list it is given, if keys are unique.                                    *)
LEMMA SortedByPlace ==
  ASSUME NEW kind, NEW S, NEW list, Lists(kind, list, S)
  PROVE  /\ Sorted(kind, list) =
              [n \in 1..Cardinality(S) |-> CHOOSE x \in S : PlaceOf(kind, S, x) = n]
         /\ Sorted(kind, list) \in Seq(S)
         /\ Range(Sorted(kind, list)) = S
<1> DEFINE Key(i)   == SortKey(kind, list[i])
           Before(i) == {j \in DOMAIN list :
                           Below(Key(j), Key(i)) \/ (Key(j) = Key(i) /\ j < i)}
           Rank(i)  == 1 + Cardinality(Before(i))
           At(n)    == CHOOSE x \in S : PlaceOf(kind, S, x) = n
<1>1. /\ IsFiniteSet(S) /\ Cardinality(S) = Len(list) /\ Len(list) \in Nat
      /\ DOMAIN list = 1..Len(list)
      /\ \A i \in 1..Len(list) : list[i] \in S
      /\ \A x \in S : \E i \in 1..Len(list) : x = list[i]
      /\ \A x, y \in S : SortKey(kind, x) = SortKey(kind, y) => x = y
      /\ \A x \in S : SortKey(kind, x) \in Keys
      /\ \A i, j \in 1..Len(list) : Key(i) = Key(j) => i = j
  BY ListCounts DEF Lists
<1>2. /\ \A x \in S : PlaceOf(kind, S, x) \in 1..Cardinality(S)
      /\ \A x, y \in S : PlaceOf(kind, S, x) = PlaceOf(kind, S, y) => x = y
      /\ \A n \in 1..Cardinality(S) : \E x \in S : PlaceOf(kind, S, x) = n
  BY <1>1, PlacesDiffer
<1>3. ASSUME NEW i \in 1..Len(list) PROVE Rank(i) = PlaceOf(kind, S, list[i])
  <2> DEFINE A == Before(i)
             B == Lower(kind, S, list[i])
             f == [j \in A |-> list[j]]
  <2>1. A = {j \in 1..Len(list) : Below(Key(j), Key(i))}
    BY <1>1
  <2>2. f \in Bijection(A, B)
    <3>1. \A j \in A : list[j] \in B
      BY <2>1, <1>1 DEF Lower
    <3>2. \A y \in B : \E j \in A : list[j] = y
      <4> TAKE y \in B
      <4>1. PICK j \in 1..Len(list) : y = list[j]
        BY <1>1 DEF Lower
      <4>2. j \in A
        BY <4>1, <2>1 DEF Lower
      <4> QED
        BY <4>1, <4>2
    <3>3. \A j, k \in A : list[j] = list[k] => j = k
      BY <2>1, <1>1
    <3> QED
      BY <3>1, <3>2, <3>3 DEF Bijection, Injection, Surjection, IsInjective
  <2>3. IsFiniteSet(A)
    <3>1. A \in SUBSET (1..Len(list))
      BY <2>1
    <3>2. IsFiniteSet(1..Len(list))
      BY <1>1, FS_Interval
    <3> QED
      BY <3>1, <3>2, FS_Subset, Zenon
  <2>4. Cardinality(B) = Cardinality(A)
    <3>1. ExistsBijection(A, B)
      BY <2>2 DEF ExistsBijection
    <3> QED
      BY <3>1, <2>3, FS_Bijection
  <2> QED
    BY <2>4 DEF PlaceOf
<1>4. ASSUME NEW n \in 1..Cardinality(S)
      PROVE  /\ list[CHOOSE i \in DOMAIN list : Rank(i) = n] = At(n)
             /\ At(n) \in S /\ PlaceOf(kind, S, At(n)) = n
  <2> DEFINE pick == CHOOSE i \in DOMAIN list : Rank(i) = n
  <2>1. At(n) \in S /\ PlaceOf(kind, S, At(n)) = n
    BY <1>2
  <2>2. PICK k \in 1..Len(list) : At(n) = list[k]
    BY <2>1, <1>1
  <2>3. Rank(k) = n
    BY <2>1, <2>2, <1>3
  <2>4. pick \in DOMAIN list /\ Rank(pick) = n
    <3> HIDE DEF Rank
    <3> QED
      BY <2>3, <1>1
  <2>5. pick \in 1..Len(list)
    BY <2>4, <1>1
  <2>6. PlaceOf(kind, S, list[pick]) = n /\ list[pick] \in S
    <3> HIDE DEF Rank, pick
    <3> QED
      BY <2>4, <2>5, <1>1, <1>3
  <2> QED
    BY <2>1, <2>6, <1>2
<1>5. Sorted(kind, list) = [n \in DOMAIN list |-> list[CHOOSE i \in DOMAIN list : Rank(i) = n]]
  BY DEF Sorted
<1>6. Sorted(kind, list) = [n \in 1..Cardinality(S) |-> At(n)]
  <2> HIDE DEF Rank, At
  <2> QED
    BY <1>1, <1>4, <1>5
<1>7. Range([n \in 1..Cardinality(S) |-> At(n)]) = S
  <2>1. \A x \in S : \E n \in 1..Cardinality(S) : At(n) = x
    BY <1>2, <1>4
  <2> HIDE DEF At
  <2> QED
    BY <1>4, <2>1 DEF Range
<1>8. [n \in 1..Cardinality(S) |-> At(n)] \in Seq(S)
  <2>1. [n \in 1..Cardinality(S) |-> At(n)] \in [1..Cardinality(S) -> S]
    BY <1>4
  <2> HIDE DEF At
  <2> QED
    BY <1>1, <2>1, FunctionIsSeq
<1> QED
  BY <1>6, <1>7, <1>8

(* Two lists put together, if no key of one is a key of the other. *)
LEMMA ConcatLists ==
  ASSUME NEW kind, NEW S, NEW T, NEW left, NEW right,
         Lists(kind, left, S), Lists(kind, right, T),
         \A x \in S, y \in T : SortKey(kind, x) # SortKey(kind, y)
  PROVE  Lists(kind, left \o right, S \cup T)
<1> DEFINE both == left \o right
<1>1. /\ left \in Seq(S \cup T) /\ right \in Seq(S \cup T)
      /\ Len(left) \in Nat /\ Len(right) \in Nat
  <2>1. left \in Seq(S) /\ right \in Seq(T)
    BY DEF Lists
  <2> QED
    BY <2>1, SeqMonotonic
<1>2. /\ \A i \in 1..Len(left) : left[i] \in S
      /\ \A i \in 1..Len(right) : right[i] \in T
      /\ \A x \in S : \E i \in 1..Len(left) : x = left[i]
      /\ \A x \in T : \E i \in 1..Len(right) : x = right[i]
  BY ListCounts
<1>3. /\ both \in Seq(S \cup T) /\ Len(both) = Len(left) + Len(right)
      /\ \A i \in 1..Len(left) : both[i] = left[i]
      /\ \A i \in 1..Len(right) : both[Len(left) + i] = right[i]
  BY <1>1
<1>4. \A i \in 1..Len(both) : \/ i \in 1..Len(left)
                              \/ i - Len(left) \in 1..Len(right) /\ i = Len(left) + (i - Len(left))
  BY <1>1, <1>3
<1>5. Range(both) = S \cup T
  <2> HIDE DEF both
  <2>1. DOMAIN both = 1..Len(both)
    BY <1>3
  <2>2. \A i \in 1..Len(both) : both[i] \in S \cup T
    BY <1>3
  <2>3. \A x \in S : \E i \in 1..Len(both) : x = both[i]
    <3> TAKE x \in S
    <3>1. PICK i \in 1..Len(left) : x = left[i]
      BY <1>2
    <3>2. i \in 1..Len(both)
      BY <1>1, <1>3
    <3> QED
      BY <3>1, <3>2, <1>3
  <2>4. \A x \in T : \E i \in 1..Len(both) : x = both[i]
    <3> TAKE x \in T
    <3>1. PICK i \in 1..Len(right) : x = right[i]
      BY <1>2
    <3>2. Len(left) + i \in 1..Len(both)
      BY <1>1, <1>3
    <3> QED
      BY <3>1, <3>2, <1>3
  <2> QED
    BY <2>1, <2>2, <2>3, <2>4 DEF Range
<1>6. ASSUME NEW i \in 1..Len(both), NEW j \in 1..Len(both),
             SortKey(kind, both[i]) = SortKey(kind, both[j])
      PROVE  i = j
  <2> HIDE DEF both
  <2>1. CASE i \in 1..Len(left) /\ j \in 1..Len(left)
    BY <2>1, <1>3, <1>6 DEF Lists
  <2>2. CASE i \in 1..Len(left) /\ j \notin 1..Len(left)
    <3>1. both[i] = left[i] /\ both[j] = right[j - Len(left)] /\ left[i] \in S
          /\ right[j - Len(left)] \in T
      BY <2>2, <1>2, <1>3, <1>4
    <3> QED
      BY <3>1, <1>6
  <2>3. CASE i \notin 1..Len(left) /\ j \in 1..Len(left)
    <3>1. both[j] = left[j] /\ both[i] = right[i - Len(left)] /\ left[j] \in S
          /\ right[i - Len(left)] \in T
      BY <2>3, <1>2, <1>3, <1>4
    <3> QED
      BY <3>1, <1>6
  <2>4. CASE i \notin 1..Len(left) /\ j \notin 1..Len(left)
    <3>1. /\ both[i] = right[i - Len(left)] /\ i - Len(left) \in 1..Len(right)
          /\ both[j] = right[j - Len(left)] /\ j - Len(left) \in 1..Len(right)
      BY <2>4, <1>3, <1>4
    <3>2. i - Len(left) = j - Len(left)
      BY <3>1, <1>6 DEF Lists
    <3> QED
      BY <3>2, <1>1, <1>3
  <2> QED
    BY <2>1, <2>2, <2>3, <2>4
<1>7. \A x \in S \cup T : SortKey(kind, x) \in Keys
  BY DEF Lists
<1> QED
  BY <1>3, <1>5, <1>6, <1>7 DEF Lists

(* Lists of one entry and of none. *)
LEMMA ShortLists ==
  ASSUME NEW kind
  PROVE  /\ Lists(kind, <<>>, {})
         /\ \A x : SortKey(kind, x) \in Keys => Lists(kind, <<x>>, {x})
<1>1. Range(<<>>) = {}
  BY DEF Range
<1>2. ASSUME NEW x PROVE Range(<<x>>) = {x} /\ <<x>> \in Seq({x}) /\ Len(<<x>>) = 1
  BY DEF Range
<1> QED
  BY <1>1, <1>2 DEF Lists

-----------------------------------------------------------------------------
(* Chunks *)

(* A function that is known by its domain and values. *)
IsFunction(f) == f = [x \in DOMAIN f |-> f[x]]

(* A chunk has these fields and no others. *)
IsChunk(c) ==
  /\ c = [scanned |-> c.scanned, lists |-> c.lists,
          addressNodeTags |-> c.addressNodeTags, required |-> c.required]
  /\ c.lists = [kind \in Kinds |-> c.lists[kind]]
  /\ IsFunction(c.addressNodeTags)

(* What an element may be listed with: the kinds, and the ranks of its      *)
(* entries there.                                                           *)
KeyOf(kind, element, rank) ==
  <<IF kind = "rejections" THEN TypeRank(element.type) ELSE 0, element.id, rank>>

(* The chunk of one element: its entries have keys of the element, at the   *)
(* given slots.                                                             *)
Keyed(c, element, slots) ==
  /\ IsChunk(c)
  /\ \A kind \in Kinds : Lists(kind, c.lists[kind], Range(c.lists[kind]))
  /\ \A kind \in Kinds : \A x \in Range(c.lists[kind]) :
       \E rank \in Int : /\ SortKey(kind, x) = KeyOf(kind, element, rank)
                         /\ <<kind, rank>> \in slots
  /\ \A id \in DOMAIN c.addressNodeTags : element.type = "node" /\ id = element.id

(* Keys of one element differ in nothing but their rank. *)
LEMMA KeyRank ==
  ASSUME NEW kind, NEW element, NEW r, NEW s, KeyOf(kind, element, r) = KeyOf(kind, element, s)
  PROVE  r = s
<1> DEFINE t == IF kind = "rejections" THEN TypeRank(element.type) ELSE 0
<1>1. <<t, element.id, r>> = <<t, element.id, s>>
  BY DEF KeyOf
<1> HIDE DEF t
<1> QED
  BY <1>1

(* The empty chunk has no entries. *)
LEMMA EmptyKeyed ==
  ASSUME NEW element
  PROVE  Keyed(EmptyChunk, element, {})
<1>1. IsChunk(EmptyChunk)
  BY DEF IsChunk, EmptyChunk, IsFunction
<1>2. \A kind \in Kinds : Range(EmptyChunk.lists[kind]) = {} /\ EmptyChunk.lists[kind] = <<>>
  BY DEF EmptyChunk, Range
<1>3. DOMAIN EmptyChunk.addressNodeTags = {}
  BY DEF EmptyChunk
<1> QED
  BY <1>1, <1>2, <1>3, ShortLists DEF Keyed

(* A chunk at some slots is one at more slots. *)
LEMMA KeyedMonotone ==
  ASSUME NEW c, NEW element, NEW slots, NEW more, Keyed(c, element, slots), slots \subseteq more
  PROVE  Keyed(c, element, more)
BY DEF Keyed

(* A chunk of one entry. *)
LEMMA ListedKeyed ==
  ASSUME NEW element, element.id \in Int, element.type \in {"node", "way", "relation"},
         NEW kind \in Kinds, NEW entry, NEW rank \in Int,
         SortKey(kind, entry) = KeyOf(kind, element, rank)
  PROVE  Keyed(Listed(kind, entry), element, {<<kind, rank>>})
<1> DEFINE c == Listed(kind, entry)
<1>1. IsChunk(c) /\ DOMAIN c.addressNodeTags = {}
  <2>1. c = [scanned |-> EmptyBag,
             lists |-> [other \in Kinds |-> IF other = kind THEN <<entry>> ELSE <<>>],
             addressNodeTags |-> <<>>, required |-> {}]
    <3> DEFINE none == [other \in Kinds |-> <<>>]
    <3>1. [none EXCEPT ![kind] = <<entry>>] =
            [other \in Kinds |-> IF other = kind THEN <<entry>> ELSE <<>>]
      OBVIOUS
    <3>2. c = [[scanned |-> EmptyBag, lists |-> none, addressNodeTags |-> <<>>, required |-> {}]
                 EXCEPT !.lists = [none EXCEPT ![kind] = <<entry>>]]
      BY DEF EmptyChunk, Listed
    <3> HIDE DEF none
    <3> QED
      BY <3>1, <3>2
  <2> QED
    BY <2>1 DEF IsChunk, IsFunction
<1>2. \A other \in Kinds : c.lists[other] = IF other = kind THEN <<entry>> ELSE <<>>
  BY DEF EmptyChunk, Listed
<1>3. Range(<<>>) = {} /\ Range(<<entry>>) = {entry}
  BY DEF Range
<1>4. SortKey(kind, entry) \in Keys
  BY DEF KeyOf, Keys, TypeRank
<1>5. \A other \in Kinds : Lists(other, c.lists[other], Range(c.lists[other]))
  <2> HIDE DEF c
  <2> QED
    BY <1>2, <1>3, <1>4, ShortLists
<1>6. \A other \in Kinds : \A x \in Range(c.lists[other]) : other = kind /\ x = entry
  <2> HIDE DEF c
  <2> QED
    BY <1>2, <1>3
<1> HIDE DEF c
<1>7. \A other \in Kinds : \A x \in Range(c.lists[other]) :
        \E r \in Int : /\ SortKey(other, x) = KeyOf(other, element, r)
                      /\ <<other, r>> \in {<<kind, rank>>}
  BY <1>6
<1> QED
  BY <1>1, <1>5, <1>7 DEF Keyed, c

(* Merging two chunks, in their parts. *)
LEMMA MergeParts ==
  ASSUME NEW c, NEW d, IsChunk(c), IsChunk(d)
  PROVE  /\ IsChunk(Merge(c, d))
         /\ Merge(c, d).scanned = c.scanned (+) d.scanned
         /\ \A kind \in Kinds : Merge(c, d).lists[kind] = c.lists[kind] \o d.lists[kind]
         /\ Merge(c, d).required = c.required \cup d.required
         /\ DOMAIN Merge(c, d).addressNodeTags =
              DOMAIN c.addressNodeTags \cup DOMAIN d.addressNodeTags
         /\ \A id \in DOMAIN Merge(c, d).addressNodeTags :
              Merge(c, d).addressNodeTags[id] =
                IF id \in DOMAIN d.addressNodeTags THEN d.addressNodeTags[id]
                ELSE c.addressNodeTags[id]
BY DEF IsChunk, IsFunction, Merge, Extended

(* Two chunks of an element that have no slot in common. *)
LEMMA MergeKeyed ==
  ASSUME NEW c, NEW d, NEW element, NEW K, NEW M, Keyed(c, element, K), Keyed(d, element, M),
         element.id \in Int, K \cap M = {}
  PROVE  Keyed(Merge(c, d), element, K \cup M)
<1> DEFINE m == Merge(c, d)
<1>1. IsChunk(c) /\ IsChunk(d)
  BY DEF Keyed
<1>2. ASSUME NEW kind \in Kinds
      PROVE  Lists(kind, m.lists[kind], Range(c.lists[kind]) \cup Range(d.lists[kind]))
  <2>1. \A x \in Range(c.lists[kind]), y \in Range(d.lists[kind]) :
           SortKey(kind, x) # SortKey(kind, y)
    <3> SUFFICES ASSUME NEW x \in Range(c.lists[kind]), NEW y \in Range(d.lists[kind]),
                        SortKey(kind, x) = SortKey(kind, y)
                 PROVE  FALSE
      OBVIOUS
    <3>1. PICK r \in Int : SortKey(kind, x) = KeyOf(kind, element, r) /\ <<kind, r>> \in K
      BY DEF Keyed
    <3>2. PICK s \in Int : SortKey(kind, y) = KeyOf(kind, element, s) /\ <<kind, s>> \in M
      BY DEF Keyed
    <3>3. r = s
      BY <3>1, <3>2, KeyRank
    <3> QED
      BY <3>1, <3>2, <3>3
  <2>2. Lists(kind, c.lists[kind], Range(c.lists[kind]))
        /\ Lists(kind, d.lists[kind], Range(d.lists[kind]))
    BY DEF Keyed
  <2>3. Lists(kind, c.lists[kind] \o d.lists[kind], Range(c.lists[kind]) \cup Range(d.lists[kind]))
    BY <2>1, <2>2, ConcatLists
  <2>4. m.lists[kind] = c.lists[kind] \o d.lists[kind]
    BY DEF Merge
  <2> QED
    BY <2>3, <2>4
<1>3. \A kind \in Kinds : Range(m.lists[kind]) = Range(c.lists[kind]) \cup Range(d.lists[kind])
  BY <1>2 DEF Lists
<1>4. /\ IsChunk(m)
      /\ DOMAIN m.addressNodeTags = DOMAIN c.addressNodeTags \cup DOMAIN d.addressNodeTags
  BY <1>1, MergeParts
<1>5. \A kind \in Kinds : Lists(kind, m.lists[kind], Range(m.lists[kind]))
  BY <1>2, <1>3
<1> HIDE DEF m
<1>6. \A kind \in Kinds : \A x \in Range(m.lists[kind]) :
       \E rank \in Int : /\ SortKey(kind, x) = KeyOf(kind, element, rank)
                         /\ <<kind, rank>> \in K \cup M
  BY <1>3 DEF Keyed
<1>7. \A id \in DOMAIN m.addressNodeTags : element.type = "node" /\ id = element.id
  BY <1>4 DEF Keyed
<1> QED
  BY <1>4, <1>5, <1>6, <1>7 DEF Keyed, m

-----------------------------------------------------------------------------
(* Elements *)

(* What the proofs need of an element. *)
IsElement(e) == e.id \in Int /\ e.type \in {"node", "way", "relation"}

(* The ranks of the issues. *)
LEMMA RanksAre ==
  /\ IssueRank("interpolation_unsupported_object") = 0
  /\ IssueRank("interpolation_way_without_nodes") = 0
  /\ IssueRank("missing_housenumber") = 0
  /\ IssueRank("missing_street_or_place") = 0
  /\ IssueRank("unsupported_relation") = 0
  /\ IssueRank("street_missing_name") = 1
  /\ IssueRank("street_ref_only_name") = 1
  /\ IssueRank("street_unresolved_geometry") = 1
  /\ IssueRank("way_without_resolved_nodes") = 2
BY DEF IssueRank, StreetNameIssues

(* A rejection of an element has a key of it. *)
LEMMA RejectionKeyed ==
  ASSUME NEW e, IsElement(e), NEW issue, NEW rank \in Int, IssueRank(issue) = rank,
         NEW tags, NEW addr, NEW hint, NEW write
  PROVE  Keyed(Listed("rejections", Rejection(issue, e, tags, addr, hint, write)), e,
               {<<"rejections", rank>>})
<1> DEFINE entry == Rejection(issue, e, tags, addr, hint, write)
<1>1. entry.source[1] = e.type /\ entry.source[2] = e.id /\ entry.issue = issue
  BY DEF Rejection
<1>2. SortKey("rejections", entry) = KeyOf("rejections", e, rank)
  BY <1>1 DEF SortKey, KeyOf
<1>3. "rejections" \in Kinds
  BY DEF Kinds
<1> HIDE DEF entry
<1>4. Keyed(Listed("rejections", entry), e, {<<"rejections", rank>>})
  BY <1>2, <1>3, ListedKeyed DEF IsElement
<1> QED
  BY <1>4 DEF entry

(* The chunks of each kind of rejection. *)
LEMMA AuditedKeyed ==
  ASSUME NEW e, IsElement(e), NEW issue, NEW rank \in Int, IssueRank(issue) = rank,
         NEW tags, NEW addr, NEW hint
  PROVE  Keyed(AuditedRejection(issue, e, tags, addr, hint), e, {<<"rejections", rank>>})
BY RejectionKeyed DEF AuditedRejection

(* Rejections without a row of the address, or without a row at all. *)
LEMMA UnauditedKeyed ==
  ASSUME NEW e, IsElement(e), NEW issue, NEW rank \in Int, IssueRank(issue) = rank,
         NEW tags, NEW hint
  PROVE  /\ Keyed(RejectionRecord(issue, e, tags, hint), e, {<<"rejections", rank>>})
         /\ Keyed(ReportOnlyRejection(issue, e, tags), e, {<<"rejections", rank>>})
BY RejectionKeyed DEF RejectionRecord, ReportOnlyRejection

(* A candidate of an element has a key of it. *)
LEMMA CandidateKeyed ==
  ASSUME NEW e, IsElement(e), NEW kind \in Kinds \ {"rejections"}, NEW entry, entry.id = e.id
  PROVE  Keyed(Listed(kind, entry), e, {<<kind, 0>>})
<1>1. SortKey(kind, entry) = KeyOf(kind, e, 0)
  BY DEF SortKey, KeyOf
<1> QED
  BY <1>1, ListedKeyed DEF IsElement

(* A chunk that differs in what is asked for, or what was scanned.          *)
LEMMA SameKeyed ==
  ASSUME NEW c, NEW d, NEW e, NEW slots, Keyed(c, e, slots),
         d.lists = c.lists, d.addressNodeTags = c.addressNodeTags,
         d = [scanned |-> d.scanned, lists |-> d.lists,
              addressNodeTags |-> d.addressNodeTags, required |-> d.required]
  PROVE  Keyed(d, e, slots)
<1>1. IsChunk(d)
  BY DEF IsChunk, Keyed
<1> QED
  BY <1>1 DEF Keyed

(* A stub of a way has a key of it. *)
LEMMA StubKeyed ==
  ASSUME NEW e, IsElement(e), NEW kind \in Kinds \ {"rejections"}, NEW tags
  PROVE  Keyed(Stub(kind, e, tags), e, {<<kind, 0>>})
<1> DEFINE entry == [id |-> e.id, refs |-> e.refs, tags |-> tags]
           c == Listed(kind, entry)
           d == Stub(kind, e, tags)
<1>1. entry.id = e.id
  OBVIOUS
<1>2. Keyed(c, e, {<<kind, 0>>})
  <2> HIDE DEF entry
  <2> QED
    BY <1>1, CandidateKeyed
<1>3. d = [c EXCEPT !.required = Range(e.refs)]
  BY DEF Stub
<1>4. c = [scanned |-> c.scanned, lists |-> c.lists,
           addressNodeTags |-> c.addressNodeTags, required |-> c.required]
  <2> HIDE DEF c
  <2> QED
    BY <1>2 DEF Keyed, IsChunk
<1>5. d = [scanned |-> c.scanned, lists |-> c.lists,
           addressNodeTags |-> c.addressNodeTags, required |-> Range(e.refs)]
  <2> HIDE DEF c, d
  <2> QED
    BY <1>3, <1>4
<1> HIDE DEF c, d
<1>6. d.lists = c.lists /\ d.addressNodeTags = c.addressNodeTags
      /\ d = [scanned |-> d.scanned, lists |-> d.lists,
              addressNodeTags |-> d.addressNodeTags, required |-> d.required]
  BY <1>5
<1>7. Keyed(d, e, {<<kind, 0>>})
  BY <1>2, <1>6, SameKeyed
<1> QED
  BY <1>7 DEF d

(* The slots of an element: the lists it may have an entry in, and the      *)
(* rank there.                                                              *)
NodeSlots == {<<"place_node_candidates", 0>>, <<"address_node_candidates", 0>>,
              <<"rejections", 0>>}
WaySlots == {<<"boundary_way_stubs", 0>>, <<"street_way_stubs", 0>>, <<"way_stubs", 0>>,
             <<"interpolation_way_stubs", 0>>, <<"rejections", 0>>,
             <<"rejections", 1>>, <<"rejections", 2>>}
RelationSlots == {<<"boundary_relation_stubs", 0>>, <<"rejections", 0>>}

SlotsOf(e) == CASE e.type = "node" -> NodeSlots [] e.type = "way" -> WaySlots
                [] e.type = "relation" -> RelationSlots

(* The issues of an address. *)
LEMMA AddressIssueIs ==
  ASSUME NEW addr, AddressIssue(addr) # None
  PROVE  AddressIssue(addr) \in {"missing_housenumber", "missing_street_or_place"}
BY DEF AddressIssue

(* A node has at most one entry in each slot. *)
LEMMA NodeKeyed ==
  ASSUME NEW e, IsElement(e), e.type = "node", NEW tags
  PROVE  Keyed(CollectNode(e, tags), e, NodeSlots)
<1> DEFINE addr  == AddrTags(tags)
           issue == AddressIssue(addr)
           known == [EmptyChunk EXCEPT !.addressNodeTags = [id \in {e.id} |-> addr]]
           place == IF Has(tags, "place")
                    THEN Listed("place_node_candidates", [id |-> e.id, tags |-> tags])
                    ELSE EmptyChunk
           slots == {<<"address_node_candidates", 0>>, <<"rejections", 0>>}
<1>1. Keyed(known, e, {})
  <2>1. known = [scanned |-> EmptyBag, lists |-> [kind \in Kinds |-> <<>>],
                 addressNodeTags |-> [id \in {e.id} |-> addr], required |-> {}]
    <3> DEFINE none == [kind \in Kinds |-> <<>>]
               tagged == [id \in {e.id} |-> addr]
    <3>1. EmptyChunk = [scanned |-> EmptyBag, lists |-> none, addressNodeTags |-> <<>>,
                        required |-> {}]
      BY DEF EmptyChunk
    <3>2. known = [EmptyChunk EXCEPT !.addressNodeTags = tagged]
      OBVIOUS
    <3> HIDE DEF none, tagged, known
    <3>3. known = [scanned |-> EmptyBag, lists |-> none, addressNodeTags |-> tagged,
                   required |-> {}]
      BY <3>1, <3>2
    <3> QED
      BY <3>3 DEF none, tagged
  <2> HIDE DEF addr, known
  <2>2. IsChunk(known)
    BY <2>1 DEF IsChunk, IsFunction
  <2>3. \A kind \in Kinds : Range(known.lists[kind]) = {} /\ known.lists[kind] = <<>>
    BY <2>1 DEF Range
  <2>4. DOMAIN known.addressNodeTags = {e.id}
    BY <2>1
  <2>5. \A kind \in Kinds : Lists(kind, known.lists[kind], Range(known.lists[kind]))
    BY <2>3, ShortLists
  <2>6. \A kind \in Kinds : \A x \in Range(known.lists[kind]) : FALSE
    BY <2>3
  <2> QED
    BY <2>2, <2>4, <2>5, <2>6 DEF Keyed
<1>2. "place_node_candidates" \in Kinds \ {"rejections"}
      /\ "address_node_candidates" \in Kinds \ {"rejections"}
  BY DEF Kinds
<1>3. Keyed(place, e, {<<"place_node_candidates", 0>>})
  <2> DEFINE entry == [id |-> e.id, tags |-> tags]
  <2>1. entry.id = e.id
    OBVIOUS
  <2>2. Keyed(Listed("place_node_candidates", entry), e, {<<"place_node_candidates", 0>>})
    <3> HIDE DEF entry
    <3> QED
      BY <2>1, <1>2, CandidateKeyed
  <2>3. Keyed(EmptyChunk, e, {<<"place_node_candidates", 0>>})
    BY EmptyKeyed, KeyedMonotone
  <2> QED
    BY <2>2, <2>3
<1>4. Keyed(AddressOfNode(e, tags), e, slots)
  <2>1. CASE addr = NoTags
    <3>1. AddressOfNode(e, tags) = EmptyChunk
      BY <2>1 DEF AddressOfNode, Has, NoTags
    <3> HIDE DEF slots
    <3> QED
      BY <3>1, EmptyKeyed, KeyedMonotone
  <2>2. CASE addr # NoTags /\ Has(addr, "addr:interpolation")
    <3> DEFINE d == AuditedRejection("interpolation_unsupported_object", e, tags, addr,
                                     "interpolation")
    <3>1. Keyed(d, e, {<<"rejections", 0>>})
      BY AuditedKeyed, RanksAre
    <3>2. Keyed(Merge(known, d), e, {} \cup {<<"rejections", 0>>})
      <4> HIDE DEF known, d
      <4> QED
        BY <3>1, <1>1, MergeKeyed DEF IsElement
    <3>3. AddressOfNode(e, tags) = Merge(known, d)
      BY <2>2 DEF AddressOfNode
    <3> QED
      BY <3>2, <3>3, KeyedMonotone
  <2>3. CASE addr # NoTags /\ ~Has(addr, "addr:interpolation") /\ issue # None
    <3> DEFINE d == AuditedRejection(issue, e, tags, addr, "address")
    <3>1. Keyed(d, e, {<<"rejections", 0>>})
      <4>1. IssueRank(issue) = 0
        BY <2>3, AddressIssueIs, RanksAre
      <4> QED
        BY <4>1, AuditedKeyed
    <3>2. Keyed(Merge(known, d), e, {} \cup {<<"rejections", 0>>})
      <4> HIDE DEF known, d
      <4> QED
        BY <3>1, <1>1, MergeKeyed DEF IsElement
    <3>3. AddressOfNode(e, tags) = Merge(known, d)
      BY <2>3 DEF AddressOfNode
    <3> QED
      BY <3>2, <3>3, KeyedMonotone
  <2>4. CASE addr # NoTags /\ ~Has(addr, "addr:interpolation") /\ issue = None
    <3> DEFINE entry == [id |-> e.id, tags |-> addr]
               d == Listed("address_node_candidates", entry)
    <3>1. Keyed(d, e, {<<"address_node_candidates", 0>>})
      <4>1. entry.id = e.id
        OBVIOUS
      <4> HIDE DEF entry
      <4> QED
        BY <4>1, <1>2, CandidateKeyed
    <3>2. Keyed(Merge(known, d), e, {} \cup {<<"address_node_candidates", 0>>})
      <4> HIDE DEF known, d
      <4> QED
        BY <3>1, <1>1, MergeKeyed DEF IsElement
    <3>3. AddressOfNode(e, tags) = Merge(known, d)
      BY <2>4 DEF AddressOfNode
    <3> QED
      BY <3>2, <3>3, KeyedMonotone
  <2> QED
    BY <2>1, <2>2, <2>3, <2>4
<1>5. Keyed(Merge(place, AddressOfNode(e, tags)), e, {<<"place_node_candidates", 0>>} \cup slots)
  <2>1. {<<"place_node_candidates", 0>>} \cap slots = {}
    OBVIOUS
  <2> HIDE DEF place, slots
  <2> QED
    BY <2>1, <1>3, <1>4, MergeKeyed DEF IsElement
<1>6. CollectNode(e, tags) = Merge(place, AddressOfNode(e, tags))
  BY DEF CollectNode
<1> QED
  BY <1>5, <1>6, KeyedMonotone DEF NodeSlots

(* So has a way, which may be a boundary, a street and an address at        *)
(* once.                                                                    *)
LEMMA WayKeyed ==
  ASSUME NEW e, IsElement(e), e.type = "way", NEW tags
  PROVE  Keyed(CollectWay(e, tags), e, WaySlots)
<1> DEFINE addr == AddrTags(tags)
           boundarySlots == {<<"boundary_way_stubs", 0>>}
           streetSlots == {<<"street_way_stubs", 0>>, <<"rejections", 1>>}
           addressSlots == {<<"way_stubs", 0>>, <<"interpolation_way_stubs", 0>>,
                            <<"rejections", 0>>, <<"rejections", 2>>}
<1>1. /\ \A kind \in {"boundary_way_stubs", "street_way_stubs", "way_stubs",
                      "interpolation_way_stubs"} : kind \in Kinds \ {"rejections"}
  BY DEF Kinds
<1>2. Keyed(BoundaryOfWay(e, tags), e, boundarySlots)
  <2>1. Keyed(Stub("boundary_way_stubs", e, tags), e, boundarySlots)
    BY <1>1, StubKeyed
  <2>2. Keyed(EmptyChunk, e, boundarySlots)
    <3> HIDE DEF boundarySlots
    <3> QED
      BY EmptyKeyed, KeyedMonotone
  <2> HIDE DEF boundarySlots
  <2> QED
    BY <2>1, <2>2 DEF BoundaryOfWay
<1>3. Keyed(StreetOfWay(e, tags), e, streetSlots)
  <2>1. Keyed(EmptyChunk, e, streetSlots)
    <3> HIDE DEF streetSlots
    <3> QED
      BY EmptyKeyed, KeyedMonotone
  <2>2. Keyed(ReportOnlyRejection(MissingStreetNameIssue(tags), e, tags), e, streetSlots)
    <3>1. IssueRank(MissingStreetNameIssue(tags)) = 1
      BY RanksAre DEF MissingStreetNameIssue
    <3>2. Keyed(ReportOnlyRejection(MissingStreetNameIssue(tags), e, tags), e,
                {<<"rejections", 1>>})
      BY <3>1, UnauditedKeyed
    <3> QED
      BY <3>2, KeyedMonotone
  <2>3. Keyed(AuditedRejection("street_unresolved_geometry", e, tags, NoTags, "street"), e,
              streetSlots)
    <3>1. Keyed(AuditedRejection("street_unresolved_geometry", e, tags, NoTags, "street"), e,
                {<<"rejections", 1>>})
      BY AuditedKeyed, RanksAre
    <3> QED
      BY <3>1, KeyedMonotone
  <2>4. Keyed(Stub("street_way_stubs", e, tags), e, streetSlots)
    <3>1. Keyed(Stub("street_way_stubs", e, tags), e, {<<"street_way_stubs", 0>>})
      BY <1>1, StubKeyed
    <3> QED
      BY <3>1, KeyedMonotone
  <2> HIDE DEF streetSlots
  <2> QED
    BY <2>1, <2>2, <2>3, <2>4 DEF StreetOfWay
<1>4. Keyed(AddressOfWay(e, tags), e, addressSlots)
  <2>1. Keyed(EmptyChunk, e, addressSlots)
    <3> HIDE DEF addressSlots
    <3> QED
      BY EmptyKeyed, KeyedMonotone
  <2>2. Keyed(InterpolationOfWay(e, tags, addr), e, addressSlots)
    <3>1. Keyed(AuditedRejection("interpolation_way_without_nodes", e, tags, addr,
                                 "interpolation"), e, {<<"rejections", 0>>})
      BY AuditedKeyed, RanksAre
    <3>2. Keyed(Stub("interpolation_way_stubs", e, tags), e, {<<"interpolation_way_stubs", 0>>})
      BY <1>1, StubKeyed
    <3>3. Keyed(AuditedRejection("interpolation_way_without_nodes", e, tags, addr,
                                 "interpolation"), e, addressSlots)
      BY <3>1, KeyedMonotone
    <3>4. Keyed(Stub("interpolation_way_stubs", e, tags), e, addressSlots)
      BY <3>2, KeyedMonotone
    <3> HIDE DEF addressSlots, addr
    <3> QED
      BY <3>3, <3>4 DEF InterpolationOfWay
  <2>3. ASSUME AddressIssue(addr) # None
        PROVE  Keyed(AuditedRejection(AddressIssue(addr), e, tags, addr, "address"), e,
                     addressSlots)
    <3> HIDE DEF addr
    <3>1. IssueRank(AddressIssue(addr)) = 0
      BY <2>3, AddressIssueIs, RanksAre
    <3>2. Keyed(AuditedRejection(AddressIssue(addr), e, tags, addr, "address"), e,
                {<<"rejections", 0>>})
      BY <3>1, AuditedKeyed
    <3> QED
      BY <3>2, KeyedMonotone
  <2>4. Keyed(RejectionRecord("way_without_resolved_nodes", e, tags, "address"), e, addressSlots)
    <3>1. Keyed(RejectionRecord("way_without_resolved_nodes", e, tags, "address"), e,
                {<<"rejections", 2>>})
      BY UnauditedKeyed, RanksAre
    <3> QED
      BY <3>1, KeyedMonotone
  <2>5. Keyed(Stub("way_stubs", e, addr), e, addressSlots)
    <3>1. Keyed(Stub("way_stubs", e, addr), e, {<<"way_stubs", 0>>})
      BY <1>1, StubKeyed
    <3> QED
      BY <3>1, KeyedMonotone
  <2> HIDE DEF addressSlots
  <2> QED
    BY <2>1, <2>2, <2>3, <2>4, <2>5 DEF AddressOfWay
<1>5. Keyed(Merge(StreetOfWay(e, tags), AddressOfWay(e, tags)), e, streetSlots \cup addressSlots)
  <2>1. streetSlots \cap addressSlots = {}
    OBVIOUS
  <2> HIDE DEF streetSlots, addressSlots
  <2> QED
    BY <2>1, <1>3, <1>4, MergeKeyed DEF IsElement
<1>6. Keyed(Merge(BoundaryOfWay(e, tags), Merge(StreetOfWay(e, tags), AddressOfWay(e, tags))), e,
            boundarySlots \cup (streetSlots \cup addressSlots))
  <2>1. boundarySlots \cap (streetSlots \cup addressSlots) = {}
    OBVIOUS
  <2> HIDE DEF boundarySlots, streetSlots, addressSlots
  <2> QED
    BY <2>1, <1>2, <1>5, MergeKeyed DEF IsElement
<1>7. boundarySlots \cup (streetSlots \cup addressSlots) \subseteq WaySlots
  BY DEF WaySlots
<1> HIDE DEF boundarySlots, streetSlots, addressSlots
<1> QED
  BY <1>6, <1>7, KeyedMonotone DEF CollectWay

(* So has a relation. *)
LEMMA RelationKeyed ==
  ASSUME NEW e, IsElement(e), e.type = "relation", NEW tags
  PROVE  Keyed(CollectRelation(e, tags), e, RelationSlots)
<1> DEFINE addr    == AddrTags(tags)
           members == BoundaryMembers(e)
           entry   == [id |-> e.id, members |-> members, tags |-> tags]
<1>1. Keyed(Listed("boundary_relation_stubs", entry), e, RelationSlots)
  <2>1. entry.id = e.id /\ "boundary_relation_stubs" \in Kinds \ {"rejections"}
    BY DEF Kinds
  <2> HIDE DEF entry
  <2>2. Keyed(Listed("boundary_relation_stubs", entry), e, {<<"boundary_relation_stubs", 0>>})
    BY <2>1, CandidateKeyed
  <2> QED
    BY <2>2, KeyedMonotone DEF RelationSlots
<1>2. ASSUME NEW issue \in {"interpolation_unsupported_object", "unsupported_relation"}, NEW hint
      PROVE  Keyed(AuditedRejection(issue, e, tags, addr, hint), e, RelationSlots)
  <2>1. IssueRank(issue) = 0
    BY RanksAre
  <2>2. Keyed(AuditedRejection(issue, e, tags, addr, hint), e, {<<"rejections", 0>>})
    BY <2>1, AuditedKeyed
  <2> QED
    BY <2>2, KeyedMonotone DEF RelationSlots
<1>3. Keyed(EmptyChunk, e, RelationSlots)
  BY EmptyKeyed, KeyedMonotone
<1>4. CASE HasAdminBoundaryTags(tags) /\ members # <<>>
  <2>1. CollectRelation(e, tags) = Listed("boundary_relation_stubs", entry)
    BY <1>4 DEF CollectRelation
  <2> QED
    BY <2>1, <1>1
<1>5. CASE ~HasAdminBoundaryTags(tags) /\ addr # NoTags
  <2> DEFINE ranged == Has(addr, "addr:interpolation")
             issue == IF ranged THEN "interpolation_unsupported_object" ELSE "unsupported_relation"
             hint == IF ranged THEN "interpolation" ELSE "address"
  <2>1. CollectRelation(e, tags) = AuditedRejection(issue, e, tags, addr, hint)
    BY <1>5 DEF CollectRelation
  <2>2. issue \in {"interpolation_unsupported_object", "unsupported_relation"}
    OBVIOUS
  <2> HIDE DEF issue, hint, addr
  <2> QED
    BY <2>1, <2>2, <1>2
<1>6. CASE /\ ~(HasAdminBoundaryTags(tags) /\ members # <<>>)
           /\ ~(~HasAdminBoundaryTags(tags) /\ addr # NoTags)
  <2>1. CollectRelation(e, tags) = EmptyChunk
    BY <1>6 DEF CollectRelation
  <2> QED
    BY <2>1, <1>3
<1> QED
  BY <1>4, <1>5, <1>6

(* So has every element. *)
LEMMA ElementKeyed ==
  ASSUME NEW e, IsElement(e)
  PROVE  /\ Keyed(CollectElement(e), e, SlotsOf(e))
         /\ CollectElement(e).scanned = SetToBag({ScannedAs(e)})
<1> DEFINE tags  == CleanTags(e.tags)
           found == CASE e.type = "node"     -> CollectNode(e, tags)
                      [] e.type = "way"      -> CollectWay(e, tags)
                      [] e.type = "relation" -> CollectRelation(e, tags)
           bag == SetToBag({ScannedAs(e)})
<1>1. Keyed(found, e, SlotsOf(e))
  <2> HIDE DEF tags
  <2>1. CASE e.type = "node"
    BY <2>1, NodeKeyed DEF SlotsOf
  <2>2. CASE e.type = "way"
    BY <2>2, WayKeyed DEF SlotsOf
  <2>3. CASE e.type = "relation"
    BY <2>3, RelationKeyed DEF SlotsOf
  <2> QED
    BY <2>1, <2>2, <2>3 DEF IsElement
<1>2. CollectElement(e) = [found EXCEPT !.scanned = bag]
  BY DEF CollectElement
<1>3. found = [scanned |-> found.scanned, lists |-> found.lists,
               addressNodeTags |-> found.addressNodeTags, required |-> found.required]
  <2> HIDE DEF found
  <2> QED
    BY <1>1 DEF Keyed, IsChunk
<1> HIDE DEF found, bag
<1>4. CollectElement(e) = [scanned |-> bag, lists |-> found.lists,
               addressNodeTags |-> found.addressNodeTags, required |-> found.required]
  BY <1>2, <1>3
<1>5. Keyed(CollectElement(e), e, SlotsOf(e))
  BY <1>1, <1>4, SameKeyed
<1> QED
  BY <1>4, <1>5 DEF bag

-----------------------------------------------------------------------------
(* What a chunk gathers of a set of elements *)

(* The entries of an element, and the address tags it is known for. *)
Entries(e, kind) == Range(CollectElement(e).lists[kind])
TagsOf(e) == CollectElement(e).addressNodeTags

(* Elements of a file, told apart by type and id. *)
Distinct(E) ==
  /\ \A e \in E : IsElement(e)
  /\ \A e, f \in E : e.type = f.type /\ e.id = f.id => e = f

(* The chunk has of the elements E all they have, in whatever order. *)
Gathers(c, E) ==
  /\ IsChunk(c)
  /\ c.scanned = [t \in {ScannedAs(e) : e \in E} |-> Cardinality({e \in E : ScannedAs(e) = t})]
  /\ \A kind \in Kinds : Lists(kind, c.lists[kind], UNION {Entries(e, kind) : e \in E})
  /\ DOMAIN c.addressNodeTags = UNION {DOMAIN TagsOf(e) : e \in E}
  /\ \A e \in E : \A id \in DOMAIN TagsOf(e) : c.addressNodeTags[id] = TagsOf(e)[id]
  /\ c.required = UNION {CollectElement(e).required : e \in E}

(* The key of an entry tells the element it comes from. *)
LEMMA KeysApart ==
  ASSUME NEW e, IsElement(e), NEW f, IsElement(f), NEW kind \in Kinds,
         NEW x \in Entries(e, kind), NEW y \in Entries(f, kind),
         SortKey(kind, x) = SortKey(kind, y)
  PROVE  e.type = f.type /\ e.id = f.id
<1>1. PICK r \in Int : SortKey(kind, x) = KeyOf(kind, e, r) /\ <<kind, r>> \in SlotsOf(e)
  BY ElementKeyed DEF Keyed, Entries
<1>2. PICK s \in Int : SortKey(kind, y) = KeyOf(kind, f, s) /\ <<kind, s>> \in SlotsOf(f)
  BY ElementKeyed DEF Keyed, Entries
<1> DEFINE t(g) == IF kind = "rejections" THEN TypeRank(g.type) ELSE 0
<1>3. <<t(e), e.id, r>> = <<t(f), f.id, s>>
  BY <1>1, <1>2 DEF KeyOf
<1>4. e.id = f.id /\ t(e) = t(f)
  <2> HIDE DEF t
  <2> QED
    BY <1>3
<1>5. CASE kind = "rejections"
  BY <1>4, <1>5 DEF TypeRank, IsElement
<1>6. CASE kind # "rejections"
  BY <1>1, <1>2, <1>4, <1>6 DEF SlotsOf, NodeSlots, WaySlots, RelationSlots, IsElement
<1> QED
  BY <1>5, <1>6

(* No elements. *)
LEMMA GathersNone == Gathers(EmptyChunk, {})
<1>1. /\ EmptyChunk.scanned = [t \in {} |-> 1] /\ EmptyChunk.required = {}
      /\ DOMAIN EmptyChunk.addressNodeTags = {}
      /\ \A kind \in Kinds : EmptyChunk.lists[kind] = <<>>
  BY DEF EmptyChunk, EmptyBag, SetToBag
<1>2. IsChunk(EmptyChunk)
  BY EmptyKeyed DEF Keyed
<1>3. \A kind \in Kinds : Lists(kind, EmptyChunk.lists[kind], UNION {Entries(e, kind) : e \in {}})
  BY <1>1, ShortLists
<1> QED
  BY <1>1, <1>2, <1>3 DEF Gathers

(* One element. *)
LEMMA GathersOne ==
  ASSUME NEW e, IsElement(e)
  PROVE  Gathers(CollectElement(e), {e})
<1> DEFINE c == CollectElement(e)
<1>1. Keyed(c, e, SlotsOf(e)) /\ c.scanned = SetToBag({ScannedAs(e)})
  BY ElementKeyed
<1>2. IsChunk(c)
  BY <1>1 DEF Keyed
<1>3. c.scanned = [t \in {ScannedAs(f) : f \in {e}} |-> Cardinality({f \in {e} : ScannedAs(f) = t})]
  <2>1. {ScannedAs(f) : f \in {e}} = {ScannedAs(e)}
    OBVIOUS
  <2>2. {f \in {e} : ScannedAs(f) = ScannedAs(e)} = {e}
    OBVIOUS
  <2>3. Cardinality({f \in {e} : ScannedAs(f) = ScannedAs(e)}) = 1
    BY <2>2, FS_Singleton
  <2> QED
    BY <1>1, <2>1, <2>3 DEF SetToBag
<1>4. \A kind \in Kinds : Lists(kind, c.lists[kind], UNION {Entries(f, kind) : f \in {e}})
  <2> TAKE kind \in Kinds
  <2>1. UNION {Entries(f, kind) : f \in {e}} = Range(c.lists[kind])
    BY DEF Entries
  <2> QED
    BY <2>1, <1>1 DEF Keyed
<1> QED
  BY <1>2, <1>3, <1>4 DEF Gathers, TagsOf

(* The elements of two chunks, put together either way. *)
LEMMA GathersBoth ==
  ASSUME NEW c, NEW d, NEW E, NEW F, Gathers(c, E), Gathers(d, F),
         IsFiniteSet(E), IsFiniteSet(F), E \cap F = {}, Distinct(E \cup F)
  PROVE  Gathers(Merge(c, d), E \cup F)
<1> DEFINE m == Merge(c, d)
<1>1. IsChunk(c) /\ IsChunk(d)
  BY DEF Gathers
<1>2. /\ IsChunk(m)
      /\ m.scanned = c.scanned (+) d.scanned
      /\ \A kind \in Kinds : m.lists[kind] = c.lists[kind] \o d.lists[kind]
      /\ m.required = c.required \cup d.required
      /\ DOMAIN m.addressNodeTags = DOMAIN c.addressNodeTags \cup DOMAIN d.addressNodeTags
      /\ \A id \in DOMAIN m.addressNodeTags :
              m.addressNodeTags[id] = IF id \in DOMAIN d.addressNodeTags THEN d.addressNodeTags[id]
                                      ELSE c.addressNodeTags[id]
  BY <1>1, MergeParts, Zenon
<1> HIDE DEF m
<1>3. m.scanned = [t \in {ScannedAs(e) : e \in E \cup F} |->
                     Cardinality({e \in E \cup F : ScannedAs(e) = t})]
  <2> DEFINE In(S, t) == {e \in S : ScannedAs(e) = t}
             As(S) == {ScannedAs(e) : e \in S}
  <2>1. /\ c.scanned = [t \in As(E) |-> Cardinality(In(E, t))]
        /\ d.scanned = [t \in As(F) |-> Cardinality(In(F, t))]
    BY DEF Gathers
  <2>2. m.scanned = [t \in As(E) \cup As(F) |->
                       (IF t \in As(E) THEN Cardinality(In(E, t)) ELSE 0)
                     + (IF t \in As(F) THEN Cardinality(In(F, t)) ELSE 0)]
    <3> HIDE DEF In, As
    <3>1. /\ DOMAIN c.scanned = As(E) /\ DOMAIN d.scanned = As(F)
          /\ \A t \in As(E) : c.scanned[t] = Cardinality(In(E, t))
          /\ \A t \in As(F) : d.scanned[t] = Cardinality(In(F, t))
      BY <2>1
    <3>2. m.scanned = [t \in As(E) \cup As(F) |->
                       (IF t \in As(E) THEN c.scanned[t] ELSE 0)
                     + (IF t \in As(F) THEN d.scanned[t] ELSE 0)]
      BY <1>2, <3>1 DEF (+)
    <3> QED
      BY <3>1, <3>2
  <2>3. As(E) \cup As(F) = As(E \cup F)
    OBVIOUS
  <2>4. ASSUME NEW t
        PROVE  (IF t \in As(E) THEN Cardinality(In(E, t)) ELSE 0)
               + (IF t \in As(F) THEN Cardinality(In(F, t)) ELSE 0) = Cardinality(In(E \cup F, t))
    <3>1. /\ In(E \cup F, t) = In(E, t) \cup In(F, t) /\ In(E, t) \cap In(F, t) = {}
          /\ In(E, t) \in SUBSET E /\ In(F, t) \in SUBSET F
          /\ t \notin As(E) => In(E, t) = {}
          /\ t \notin As(F) => In(F, t) = {}
      OBVIOUS
    <3> HIDE DEF In, As
    <3>2. IsFiniteSet(In(E, t)) /\ IsFiniteSet(In(F, t))
      BY <3>1, FS_Subset
    <3>3. /\ Cardinality(In(E, t)) \in Nat /\ Cardinality(In(F, t)) \in Nat
          /\ Cardinality(In(E, t) \cap In(F, t)) = 0 /\ Cardinality({}) = 0
      BY <3>1, <3>2, FS_CardinalityType, FS_EmptySet
    <3>4. Cardinality(In(E \cup F, t)) = Cardinality(In(E, t)) + Cardinality(In(F, t))
      <4>1. Cardinality(In(E, t) \cup In(F, t)) =
              Cardinality(In(E, t)) + Cardinality(In(F, t)) - Cardinality(In(E, t) \cap In(F, t))
        BY <3>2, FS_Union, Zenon
      <4>2. Cardinality(In(E, t) \cup In(F, t)) = Cardinality(In(E, t)) + Cardinality(In(F, t))
        BY <4>1, <3>3
      <4> QED
        BY <4>2, <3>1
    <3>5. /\ (IF t \in As(E) THEN Cardinality(In(E, t)) ELSE 0) = Cardinality(In(E, t))
          /\ (IF t \in As(F) THEN Cardinality(In(F, t)) ELSE 0) = Cardinality(In(F, t))
      BY <3>1, <3>3
    <3> QED
      BY <3>4, <3>5
  <2>5. m.scanned = [t \in As(E \cup F) |-> Cardinality(In(E \cup F, t))]
    <3> HIDE DEF In, As
    <3> QED
      BY <2>2, <2>3, <2>4
  <2> QED
    BY <2>5
<1>4. ASSUME NEW kind \in Kinds
      PROVE  Lists(kind, m.lists[kind], UNION {Entries(e, kind) : e \in E \cup F})
  <2> DEFINE Of(S) == UNION {Entries(e, kind) : e \in S}
  <2>1. \A x \in Of(E), y \in Of(F) : SortKey(kind, x) # SortKey(kind, y)
    <3> SUFFICES ASSUME NEW e \in E, NEW f \in F, NEW x \in Entries(e, kind),
                        NEW y \in Entries(f, kind), SortKey(kind, x) = SortKey(kind, y)
                 PROVE  FALSE
      OBVIOUS
    <3>1. IsElement(e) /\ IsElement(f)
      BY DEF Distinct
    <3>2. e = f
      BY <3>1, KeysApart DEF Distinct
    <3> QED
      BY <3>2
  <2>2. Lists(kind, c.lists[kind], Of(E)) /\ Lists(kind, d.lists[kind], Of(F))
    BY DEF Gathers
  <2>3. Of(E \cup F) = Of(E) \cup Of(F)
    OBVIOUS
  <2> HIDE DEF Of
  <2>4. Lists(kind, c.lists[kind] \o d.lists[kind], Of(E) \cup Of(F))
    BY <2>1, <2>2, ConcatLists
  <2>5. Lists(kind, m.lists[kind], Of(E \cup F))
    BY <2>3, <2>4, <1>2
  <2> QED
    BY <2>5 DEF Of
<1>5. DOMAIN m.addressNodeTags = UNION {DOMAIN TagsOf(e) : e \in E \cup F}
  BY <1>2 DEF Gathers
<1>6. ASSUME NEW e \in E \cup F, NEW id \in DOMAIN TagsOf(e)
      PROVE  m.addressNodeTags[id] = TagsOf(e)[id]
  <2>1. \A f \in E \cup F : \A other \in DOMAIN TagsOf(f) : f.type = "node" /\ other = f.id
    BY ElementKeyed DEF Keyed, TagsOf, Distinct
  <2>2. \A f \in E \cup F : id \in DOMAIN TagsOf(f) => f = e
    BY <2>1 DEF Distinct
  <2>3. id \in DOMAIN m.addressNodeTags
    BY <1>5
  <2>4. id \in DOMAIN d.addressNodeTags <=> e \in F
    BY <2>2 DEF Gathers
  <2> QED
    BY <2>3, <2>4, <1>2 DEF Gathers
<1>7. m.required = UNION {CollectElement(e).required : e \in E \cup F}
  BY <1>2 DEF Gathers
<1> QED
  BY <1>2, <1>3, <1>4, <1>5, <1>6, <1>7 DEF Gathers, m

(* The result of the scan shows nothing of a chunk but what it has gathered. *)
LEMMA SameGathered ==
  ASSUME NEW c, NEW d, NEW E, Gathers(c, E), Gathers(d, E)
  PROVE  DiscoveryResult(c) = DiscoveryResult(d)
<1>1. IsChunk(c) /\ IsChunk(d)
  BY DEF Gathers
<1>2. c.scanned = d.scanned /\ c.required = d.required
  BY DEF Gathers
<1>3. c.addressNodeTags = d.addressNodeTags
  <2>1. /\ DOMAIN c.addressNodeTags = DOMAIN d.addressNodeTags
        /\ \A id \in DOMAIN c.addressNodeTags : c.addressNodeTags[id] = d.addressNodeTags[id]
    BY DEF Gathers
  <2> DEFINE f == c.addressNodeTags
             g == d.addressNodeTags
  <2>2. f = [id \in DOMAIN f |-> f[id]] /\ g = [id \in DOMAIN g |-> g[id]]
    BY <1>1 DEF IsChunk, IsFunction
  <2> HIDE DEF f, g
  <2>3. f = g
    BY <2>1, <2>2 DEF f, g
  <2> QED
    BY <2>3 DEF f, g
<1>4. \A kind \in Kinds : Sorted(kind, c.lists[kind]) = Sorted(kind, d.lists[kind])
  <2> TAKE kind \in Kinds
  <2> DEFINE S == UNION {Entries(e, kind) : e \in E}
  <2>1. Lists(kind, c.lists[kind], S) /\ Lists(kind, d.lists[kind], S)
    BY DEF Gathers
  <2> HIDE DEF S
  <2> QED
    BY <2>1, SortedByPlace
<1>5. SortDiscoveryChunk(c) = SortDiscoveryChunk(d)
  BY <1>1, <1>2, <1>3, <1>4 DEF SortDiscoveryChunk, IsChunk
<1> QED
  BY <1>5 DEF DiscoveryResult

-----------------------------------------------------------------------------
(* Blocks, and files of blocks *)

(* What holds of 0 and is handed on up to N holds up to N. *)
LEMMA UpTo ==
  ASSUME NEW N \in Nat, NEW S, 0 \in S, \A n \in S \cap (0..N - 1) : n + 1 \in S
  PROVE  0..N \subseteq S
<1> SUFFICES ASSUME NEW m \in 0..N, m \notin S PROVE FALSE
  OBVIOUS
<1> DEFINE T == {n \in 0..N : n \notin S}
<1>1. PICK least \in T : \A other \in T : least <= other
  <2>1. T \subseteq Nat /\ m \in T
    OBVIOUS
  <2> HIDE DEF T
  <2> QED
    BY <2>1, LeastNumber
<1>2. least # 0 /\ least \in 0..N
  BY <1>1
<1>3. least - 1 \in 0..N - 1 /\ least - 1 \notin T
  BY <1>1, <1>2
<1>4. least - 1 \in S
  BY <1>3
<1>5. least \in S
  BY <1>2, <1>3, <1>4
<1> QED
  BY <1>1, <1>5

(* The chunk of a block, element by element. *)
LEMMA BlockChunkSteps ==
  ASSUME NEW block, Len(block) \in Nat
  PROVE  \E g : /\ g[0] = EmptyChunk
                /\ \A n \in 1..Len(block) : g[n] = Merge(g[n - 1], CollectElement(block[n]))
                /\ BlockChunk(block) = g[Len(block)]
<1> DEFINE N == Len(block)
           Steps(g, m) == g = [n \in 0..m |-> IF n = 0 THEN EmptyChunk
                                              ELSE Merge(g[n - 1], CollectElement(block[n]))]
           S == {m \in 0..N : \E g : Steps(g, m)}
<1>1. 0 \in S
  <2> DEFINE g == [n \in 0..0 |-> EmptyChunk]
  <2>1. Steps(g, 0)
    OBVIOUS
  <2>2. 0 \in 0..N
    OBVIOUS
  <2> HIDE DEF g, Steps
  <2> QED
    BY <2>1, <2>2
<1>2. ASSUME NEW m \in S \cap (0..N - 1) PROVE m + 1 \in S
  <2>1. PICK g : Steps(g, m)
    OBVIOUS
  <2> DEFINE h == [n \in 0..m + 1 |-> IF n = m + 1 THEN Merge(g[m], CollectElement(block[m + 1]))
                                      ELSE g[n]]
  <2>2. ASSUME NEW n \in 0..m + 1
        PROVE  h[n] = IF n = 0 THEN EmptyChunk ELSE Merge(h[n - 1], CollectElement(block[n]))
    <3>1. CASE n = m + 1
      BY <3>1
    <3>2. CASE n # m + 1
      <4>1. n \in 0..m /\ h[n] = g[n]
        BY <3>2
      <4>2. g[n] = IF n = 0 THEN EmptyChunk ELSE Merge(g[n - 1], CollectElement(block[n]))
        BY <2>1, <4>1
      <4>3. n # 0 => h[n - 1] = g[n - 1]
        BY <4>1
      <4> QED
        BY <4>1, <4>2, <4>3
    <3> QED
      BY <3>1, <3>2
  <2>3. Steps(h, m + 1)
    <3>1. DOMAIN h = 0..m + 1 /\ h = [n \in 0..m + 1 |-> h[n]]
      OBVIOUS
    <3> HIDE DEF h
    <3> QED
      BY <2>2, <3>1
  <2>4. m + 1 \in 0..N
    OBVIOUS
  <2> HIDE DEF h, Steps
  <2> QED
    BY <2>3, <2>4
<1>3. \E g : Steps(g, N)
  <2> HIDE DEF Steps
  <2>1. 0..N \subseteq S
    <3> HIDE DEF S
    <3> QED
      BY <1>1, <1>2, UpTo
  <2> QED
    BY <2>1
<1> DEFINE g == CHOOSE g : Steps(g, N)
<1>4. Steps(g, N)
  <2> HIDE DEF Steps
  <2> QED
    BY <1>3
<1>5. BlockChunk(block) = g[N]
  BY DEF BlockChunk
<1> HIDE DEF g
<1>6. g[0] = EmptyChunk /\ \A n \in 1..N : g[n] = Merge(g[n - 1], CollectElement(block[n]))
  BY <1>4
<1> QED
  BY <1>5, <1>6

(* FlattenSeq, block by block. *)
LEMMA FlattenSteps ==
  ASSUME NEW f, Len(f) \in Nat \ {0}
  PROVE  \E g : /\ g[1] = f[1]
                /\ \A n \in 2..Len(f) : g[n] = g[n - 1] \o f[n]
                /\ FlattenSeq(f) = g[Len(f)]
<1> DEFINE N == Len(f)
           Steps(g, m) == g = [n \in 1..m |-> IF n = 1 THEN f[n] ELSE g[n - 1] \o f[n]]
           S == {m \in 0..N : \E g : Steps(g, m)}
<1>1. 0 \in S
  <2> DEFINE g == [n \in 1..0 |-> f[n]]
  <2>1. Steps(g, 0)
    OBVIOUS
  <2>2. 0 \in 0..N
    OBVIOUS
  <2> HIDE DEF g, Steps
  <2> QED
    BY <2>1, <2>2
<1>2. ASSUME NEW m \in S \cap (0..N - 1) PROVE m + 1 \in S
  <2>1. PICK g : Steps(g, m)
    OBVIOUS
  <2> DEFINE h == [n \in 1..m + 1 |-> IF n = m + 1 THEN IF n = 1 THEN f[n] ELSE g[m] \o f[m + 1]
                                      ELSE g[n]]
  <2>2. ASSUME NEW n \in 1..m + 1
        PROVE  h[n] = IF n = 1 THEN f[n] ELSE h[n - 1] \o f[n]
    <3>1. CASE n = m + 1
      BY <3>1
    <3>2. CASE n # m + 1
      <4>1. n \in 1..m /\ h[n] = g[n]
        BY <3>2
      <4>2. g[n] = IF n = 1 THEN f[n] ELSE g[n - 1] \o f[n]
        BY <2>1, <4>1
      <4>3. n # 1 => h[n - 1] = g[n - 1]
        BY <4>1
      <4> QED
        BY <4>1, <4>2, <4>3
    <3> QED
      BY <3>1, <3>2
  <2>3. Steps(h, m + 1)
    <3>1. DOMAIN h = 1..m + 1 /\ h = [n \in 1..m + 1 |-> h[n]]
      OBVIOUS
    <3> HIDE DEF h
    <3> QED
      BY <2>2, <3>1
  <2>4. m + 1 \in 0..N
    OBVIOUS
  <2> HIDE DEF h, Steps
  <2> QED
    BY <2>3, <2>4
<1>3. \E g : Steps(g, N)
  <2> HIDE DEF Steps
  <2>1. 0..N \subseteq S
    <3> HIDE DEF S
    <3> QED
      BY <1>1, <1>2, UpTo
  <2> QED
    BY <2>1
<1> DEFINE g == CHOOSE g : Steps(g, N)
<1>4. Steps(g, N)
  <2> HIDE DEF Steps
  <2> QED
    BY <1>3
<1>5. FlattenSeq(f) = g[N]
  BY DEF FlattenSeq
<1> HIDE DEF g
<1>6. g[1] = f[1] /\ \A n \in 2..N : g[n] = g[n - 1] \o f[n]
  <2>1. \A n \in 1..N : g[n] = IF n = 1 THEN f[n] ELSE g[n - 1] \o f[n]
    BY <1>4
  <2>2. 1 \in 1..N /\ \A n \in 2..N : n \in 1..N /\ n # 1
    OBVIOUS
  <2> QED
    BY <2>1, <2>2
<1> QED
  BY <1>5, <1>6

(* Joining two sequences. *)
LEMMA ConcatInjective ==
  ASSUME NEW S, NEW a \in Seq(S), NEW b \in Seq(S)
  PROVE  /\ a \o b \in Seq(S)
         /\ Range(a \o b) = Range(a) \cup Range(b)
         /\ IsInjective(a \o b) => /\ IsInjective(a) /\ IsInjective(b)
                                   /\ Range(a) \cap Range(b) = {}
<1> DEFINE s == a \o b
<1>1. /\ s \in Seq(S) /\ Len(s) = Len(a) + Len(b)
      /\ DOMAIN s = 1..Len(a) + Len(b) /\ DOMAIN a = 1..Len(a) /\ DOMAIN b = 1..Len(b)
      /\ Len(a) \in Nat /\ Len(b) \in Nat
  OBVIOUS
<1>2. /\ \A i \in 1..Len(a) : i \in DOMAIN s /\ s[i] = a[i]
      /\ \A i \in 1..Len(b) : Len(a) + i \in DOMAIN s /\ s[Len(a) + i] = b[i]
  OBVIOUS
<1>3. \A i \in DOMAIN s : \/ i \in 1..Len(a) /\ s[i] = a[i]
                          \/ i - Len(a) \in 1..Len(b) /\ s[i] = b[i - Len(a)]
  OBVIOUS
<1> HIDE DEF s
<1>4. Range(s) = Range(a) \cup Range(b)
  <2>1. \A x \in Range(s) : x \in Range(a) \/ x \in Range(b)
    BY <1>1, <1>3 DEF Range
  <2>2. \A x \in Range(a) : x \in Range(s)
    BY <1>1, <1>2 DEF Range
  <2>3. \A x \in Range(b) : x \in Range(s)
    BY <1>1, <1>2 DEF Range
  <2> QED
    BY <2>1, <2>2, <2>3
<1>5. ASSUME IsInjective(s)
      PROVE  IsInjective(a) /\ IsInjective(b) /\ Range(a) \cap Range(b) = {}
  <2>1. IsInjective(a)
    BY <1>1, <1>2, <1>5 DEF IsInjective
  <2>2. IsInjective(b)
    <3> SUFFICES ASSUME NEW i \in 1..Len(b), NEW j \in 1..Len(b), b[i] = b[j] PROVE i = j
      BY <1>1 DEF IsInjective
    <3>1. s[Len(a) + i] = s[Len(a) + j] /\ Len(a) + i \in DOMAIN s /\ Len(a) + j \in DOMAIN s
      BY <1>2
    <3>2. Len(a) + i = Len(a) + j
      BY <3>1, <1>5 DEF IsInjective
    <3> QED
      BY <1>1, <3>2
  <2>3. Range(a) \cap Range(b) = {}
    <3> SUFFICES ASSUME NEW i \in 1..Len(a), NEW j \in 1..Len(b), a[i] = b[j] PROVE FALSE
      BY <1>1 DEF Range
    <3>1. s[i] = s[Len(a) + j] /\ i \in DOMAIN s /\ Len(a) + j \in DOMAIN s
      BY <1>2
    <3>2. i = Len(a) + j
      BY <3>1, <1>5 DEF IsInjective
    <3> QED
      BY <1>1, <3>2
  <2> QED
    BY <2>1, <2>2, <2>3
<1> QED
  BY <1>1, <1>4, <1>5 DEF s

(* A sequence has finitely many values. *)
LEMMA FiniteRange ==
  ASSUME NEW S, NEW s \in Seq(S)
  PROVE  IsFiniteSet(Range(s))
<1>1. Len(s) \in Nat /\ DOMAIN s = 1..Len(s)
  OBVIOUS
<1>2. IsFiniteSet(1..Len(s))
  BY <1>1, FS_Interval
<1>3. s \in Surjection(1..Len(s), Range(s))
  BY <1>1 DEF Range, Surjection
<1> QED
  BY <1>2, <1>3, FS_Surjection

(* The chunk of a block gathers its elements. *)
LEMMA BlockGathers ==
  ASSUME NEW S, NEW block \in Seq(S), IsInjective(block), Distinct(Range(block))
  PROVE  Gathers(BlockChunk(block), Range(block))
<1> DEFINE N == Len(block)
           First(n) == {block[i] : i \in 1..n}
<1>1. N \in Nat /\ DOMAIN block = 1..N /\ Range(block) = First(N)
  BY DEF Range
<1>2. PICK g : /\ g[0] = EmptyChunk
               /\ \A n \in 1..N : g[n] = Merge(g[n - 1], CollectElement(block[n]))
               /\ BlockChunk(block) = g[N]
  BY <1>1, BlockChunkSteps
<1> DEFINE T == {n \in 0..N : Gathers(g[n], First(n)) /\ IsFiniteSet(First(n))}
<1>3. 0 \in T
  <2>1. First(0) = {} /\ 0 \in 0..N
    BY <1>1
  <2> QED
    BY <2>1, <1>2, GathersNone, FS_EmptySet
<1>4. ASSUME NEW m \in T \cap (0..N - 1) PROVE m + 1 \in T
  <2> DEFINE n == m + 1
  <2>1. n \in 1..N /\ n - 1 = m /\ n \in 0..N /\ m \in 0..N
    BY <1>1
  <2>2. First(n) = First(m) \cup {block[n]} /\ First(m) \cap {block[n]} = {}
    <3>1. 1..n = (1..m) \cup {n} /\ n \notin 1..m /\ (1..n) \subseteq DOMAIN block
      BY <1>1
    <3>2. First(n) = First(m) \cup {block[n]}
      BY <3>1
    <3>3. \A i \in 1..m : block[i] # block[n]
      BY <3>1 DEF IsInjective
    <3> QED
      BY <3>2, <3>3
  <2>3. First(n) \subseteq Range(block) /\ block[n] \in Range(block)
    BY <1>1, <2>1 DEF Range
  <2>4. Distinct(First(n)) /\ IsElement(block[n])
    BY <2>3 DEF Distinct
  <2>5. Gathers(g[m], First(m)) /\ IsFiniteSet(First(m))
    OBVIOUS
  <2>6. g[n] = Merge(g[m], CollectElement(block[n]))
    BY <1>2, <2>1
  <2> HIDE DEF n, First
  <2>7. Gathers(CollectElement(block[n]), {block[n]}) /\ IsFiniteSet({block[n]})
    BY <2>4, GathersOne, FS_Singleton
  <2>8. Gathers(Merge(g[m], CollectElement(block[n])), First(m) \cup {block[n]})
    <3>1. Distinct(First(m) \cup {block[n]})
      BY <2>2, <2>4
    <3> QED
      BY <2>2, <2>5, <2>7, <3>1, GathersBoth
  <2>9. IsFiniteSet(First(n))
    <3>1. IsFiniteSet(First(m) \cup {block[n]})
      BY <2>5, <2>7, FS_Union, Zenon
    <3> QED
      BY <2>2, <3>1
  <2>10. n \in T
    BY <2>1, <2>2, <2>6, <2>8, <2>9
  <2> QED
    BY <2>10 DEF n
<1>5. N \in T
  <2> HIDE DEF T
  <2>1. 0..N \subseteq T
    BY <1>1, <1>3, <1>4, UpTo
  <2> QED
    BY <1>1, <2>1
<1> QED
  BY <1>1, <1>2, <1>5

-----------------------------------------------------------------------------
(* The elements of a file *)

(* The elements of some blocks of a file. *)
InBlocks(f, B) == UNION {Range(f[b]) : b \in B}

(* A file without repetitions is the disjoint union of its blocks. *)
LEMMA Flattened ==
  ASSUME NEW S, NEW f \in Seq(Seq(S)),
         \A i, j \in 1..Len(FlattenSeq(f)) : FlattenSeq(f)[i] = FlattenSeq(f)[j] => i = j
  PROVE  /\ FlattenSeq(f) \in Seq(S)
         /\ Range(FlattenSeq(f)) = InBlocks(f, 1..Len(f))
         /\ IsInjective(FlattenSeq(f))
         /\ \A b \in 1..Len(f) : f[b] \in Seq(S) /\ IsInjective(f[b])
         /\ \A b, c \in 1..Len(f) : b # c => Range(f[b]) \cap Range(f[c]) = {}
<1> DEFINE N == Len(f)
<1>1. N \in Nat /\ DOMAIN f = 1..N /\ \A b \in 1..N : f[b] \in Seq(S)
  OBVIOUS
<1>2. CASE N = 0
  <2>1. f = <<>> /\ FlattenSeq(f) = f
    BY <1>2 DEF FlattenSeq
  <2>2. Range(f) = {} /\ InBlocks(f, 1..0) = {} /\ IsInjective(f)
    BY <2>1 DEF Range, InBlocks, IsInjective
  <2>3. FlattenSeq(f) \in Seq(S)
    <3>1. <<>> \in Seq(S)
      OBVIOUS
    <3> QED
      BY <2>1, <3>1
  <2>4. Range(FlattenSeq(f)) = InBlocks(f, 1..Len(f)) /\ IsInjective(FlattenSeq(f))
    BY <1>2, <2>1, <2>2
  <2>5. 1..Len(f) = {}
    BY <1>2
  <2> QED
    BY <2>3, <2>4, <2>5
<1>3. CASE N # 0
  <2>1. PICK g : /\ g[1] = f[1]
                 /\ \A n \in 2..N : g[n] = g[n - 1] \o f[n]
                 /\ FlattenSeq(f) = g[N]
    BY <1>1, <1>3, FlattenSteps
  <2> DEFINE Apart(n) == /\ \A b \in 1..n : IsInjective(f[b])
                         /\ \A b, c \in 1..n : b # c => Range(f[b]) \cap Range(f[c]) = {}
             Good(n) == /\ g[n] \in Seq(S)
                        /\ Range(g[n]) = InBlocks(f, 1..n)
                        /\ IsInjective(g[n]) => Apart(n)
             T == {n \in 0..N : n = 0 \/ Good(n)}
  <2>2. 0 \in T
    BY <1>1
  <2>3. ASSUME NEW m \in T \cap (0..N - 1) PROVE m + 1 \in T
    <3> DEFINE n == m + 1
    <3>1. n \in 1..N /\ n - 1 = m /\ n \in 0..N
      BY <1>1
    <3>2. CASE m = 0
      <4>1. 1..n = {1} /\ n = 1 /\ g[n] = f[1] /\ f[1] \in Seq(S)
        BY <1>1, <2>1, <3>1, <3>2
      <4>2. InBlocks(f, {1}) = Range(f[1])
        BY DEF InBlocks
      <4>3. Good(n)
        BY <4>1, <4>2
      <4> QED
        BY <3>1, <4>3
    <3>3. CASE m # 0
      <4>1. Good(m)
        BY <3>3
      <4>2. g[n] = g[m] \o f[n] /\ f[n] \in Seq(S)
        <5>1. n \in 2..N
          BY <3>1, <3>3, <1>1
        <5> HIDE DEF n
        <5> QED
          BY <1>1, <2>1, <3>1, <5>1
      <4>3. 1..n = (1..m) \cup {n} /\ n \notin 1..m
        BY <3>1
      <4>4. InBlocks(f, 1..n) = InBlocks(f, 1..m) \cup Range(f[n])
        BY <4>3 DEF InBlocks
      <4>5. \A b \in 1..m : Range(f[b]) \subseteq InBlocks(f, 1..m)
        BY DEF InBlocks
      <4>6. g[m] \o f[n] \in Seq(S) /\ Range(g[m] \o f[n]) = Range(g[m]) \cup Range(f[n])
        BY <4>1, <4>2, ConcatInjective
      <4>7. ASSUME IsInjective(g[n]) PROVE Apart(n)
        <5>1. /\ IsInjective(g[m]) /\ IsInjective(f[n])
              /\ Range(g[m]) \cap Range(f[n]) = {}
          BY <4>1, <4>2, <4>7, ConcatInjective
        <5>2. Apart(m) /\ Range(g[m]) = InBlocks(f, 1..m)
          BY <4>1, <5>1
        <5>3. \A b \in 1..n : b \in 1..m \/ b = n
          BY <4>3
        <5>4. \A b \in 1..m : Range(f[b]) \cap Range(f[n]) = {}
          BY <4>5, <5>1, <5>2
        <5>5. \A b \in 1..n : IsInjective(f[b])
          BY <5>1, <5>2, <5>3
        <5>6. \A b, c \in 1..n : b # c => Range(f[b]) \cap Range(f[c]) = {}
          BY <5>2, <5>3, <5>4
        <5> QED
          BY <5>5, <5>6
      <4>8. Good(n)
        BY <4>1, <4>2, <4>4, <4>6, <4>7
      <4> QED
        BY <3>1, <4>8
    <3> QED
      BY <3>2, <3>3
  <2>4. N \in T
    <3> HIDE DEF T
    <3>1. 0..N \subseteq T
      BY <1>1, <2>2, <2>3, UpTo
    <3> QED
      BY <1>1, <3>1
  <2>5. Good(N)
    BY <2>4, <1>3
  <2>6. DOMAIN g[N] = 1..Len(g[N])
    BY <2>5
  <2>7. IsInjective(g[N])
    BY <2>1, <2>6 DEF IsInjective
  <2> QED
    BY <1>1, <2>1, <2>5, <2>7
<1> QED
  BY <1>2, <1>3

(* The elements of a file are told apart, and so are those of its blocks. *)
LEMMA FileElements ==
  ASSUME NEW f \in Files
  PROVE  /\ Len(f) \in Nat
         /\ Range(Elements(f)) = InBlocks(f, 1..Len(f))
         /\ Distinct(InBlocks(f, 1..Len(f)))
         /\ Gathers(BlockChunk(Elements(f)), InBlocks(f, 1..Len(f)))
         /\ \A b \in 1..Len(f) : /\ IsFiniteSet(Range(f[b]))
                                 /\ Gathers(BlockChunk(f[b]), Range(f[b]))
         /\ \A b, c \in 1..Len(f) : b # c => Range(f[b]) \cap Range(f[c]) = {}
<1> DEFINE es == Elements(f)
           S  == Range(es)
<1>1. f \in Seq(Seq(S))
  BY FilesAssumption
<1>2. \A i, j \in 1..Len(es) : es[i] = es[j] => i = j
  BY FilesAssumption, Zenon
<1>3. /\ es \in Seq(S) /\ IsInjective(es) /\ S = InBlocks(f, 1..Len(f))
      /\ \A b \in 1..Len(f) : f[b] \in Seq(S) /\ IsInjective(f[b])
      /\ \A b, c \in 1..Len(f) : b # c => Range(f[b]) \cap Range(f[c]) = {}
  <2> HIDE DEF S
  <2>1. FlattenSeq(f) = es
    BY DEF Elements
  <2>2. S = Range(es)
    BY DEF S
  <2> HIDE DEF es
  <2>3. /\ FlattenSeq(f) \in Seq(S) /\ IsInjective(FlattenSeq(f))
        /\ Range(FlattenSeq(f)) = InBlocks(f, 1..Len(f))
        /\ \A b \in 1..Len(f) : f[b] \in Seq(S) /\ IsInjective(f[b])
        /\ \A b, c \in 1..Len(f) : b # c => Range(f[b]) \cap Range(f[c]) = {}
    BY <1>1, <1>2, <2>1, Flattened
  <2> QED
    BY <2>1, <2>2, <2>3
<1>4. Distinct(S)
  <2>1. \A e \in S : IsElement(e)
    BY FilesAssumption DEF IsElement
  <2>2. \A i, j \in 1..Len(es) : es[i].type = es[j].type /\ es[i].id = es[j].id => i = j
    BY FilesAssumption, Zenon
  <2>3. DOMAIN es = 1..Len(es)
    BY <1>3
  <2>4. ASSUME NEW e \in S, NEW g \in S, e.type = g.type, e.id = g.id PROVE e = g
    <3>1. PICK i \in DOMAIN es, j \in DOMAIN es : e = es[i] /\ g = es[j]
      BY DEF Range
    <3> HIDE DEF es
    <3> QED
      BY <2>2, <2>3, <2>4, <3>1
  <2> QED
    BY <2>1, <2>4 DEF Distinct
<1>5. Gathers(BlockChunk(es), S)
  <2> HIDE DEF es
  <2> QED
    BY <1>3, <1>4, BlockGathers DEF S
<1>6. ASSUME NEW b \in 1..Len(f)
      PROVE  IsFiniteSet(Range(f[b])) /\ Gathers(BlockChunk(f[b]), Range(f[b]))
  <2> HIDE DEF S
  <2>1. f[b] \in Seq(S) /\ IsInjective(f[b])
    BY <1>3
  <2>2. Range(f[b]) \subseteq S
    BY <2>1 DEF Range
  <2>3. Distinct(Range(f[b]))
    BY <1>4, <2>2 DEF Distinct
  <2>4. IsFiniteSet(Range(f[b]))
    BY <2>1, FiniteRange
  <2> QED
    BY <2>1, <2>3, <2>4, BlockGathers
<1>7. Len(f) \in Nat
  BY <1>1
<1> QED
  BY <1>3, <1>4, <1>5, <1>6, <1>7

-----------------------------------------------------------------------------
(* The scan *)

(* The blocks of a partial result. *)
BlocksOf(p) == Range(p.blocks)

(* The blocks that are read are shared out among the partial results, and   *)
(* each of these gathers its blocks' elements.                              *)
Partitioned ==
  /\ unread \subseteq 1..Len(file) /\ IsFiniteSet(partials)
  /\ \A p \in partials :
       /\ p.blocks \in Seq(Nat) /\ BlocksOf(p) \subseteq 1..Len(file) \ unread
       /\ Gathers(p.chunk, InBlocks(file, BlocksOf(p)))
       /\ IsFiniteSet(InBlocks(file, BlocksOf(p)))
  /\ \A p, q \in partials : p # q => BlocksOf(p) \cap BlocksOf(q) = {}
  /\ \A b \in 1..Len(file) \ unread : \E p \in partials : b \in BlocksOf(p)

(* While the scan runs its parts are kept apart; then its result stays. *)
ScanInv ==
  /\ file \in Files
  /\ stage = "scan" => discovery = None /\ Partitioned
  /\ stage # "scan" => discovery = DiscoveryResult(BlockChunk(Elements(file)))

(* A thread that decodes a block adds a part. *)
LEMMA MapBlockKeeps ==
  ASSUME file \in Files, Partitioned, NEW b \in unread, MapBlock(b)
  PROVE  Partitioned'
<1> DEFINE new == [blocks |-> <<b>>, chunk |-> BlockChunk(file[b])]
<1>1. /\ unread' = unread \ {b} /\ partials' = partials \cup {new} /\ file' = file
      /\ b \in 1..Len(file) /\ Len(file) \in Nat
  BY FileElements DEF MapBlock, Partitioned
<1>2. new.blocks \in Seq(Nat) /\ BlocksOf(new) = {b} /\ new.chunk = BlockChunk(file[b])
  <2>1. b \in Nat
    BY <1>1
  <2>2. <<b>> \in Seq(Nat) /\ Range(<<b>>) = {b}
    BY <2>1 DEF Range
  <2> QED
    BY <2>2 DEF BlocksOf
<1>3. InBlocks(file, {b}) = Range(file[b])
  BY DEF InBlocks
<1>4. /\ Gathers(new.chunk, InBlocks(file, BlocksOf(new)))
      /\ IsFiniteSet(InBlocks(file, BlocksOf(new)))
  BY <1>1, <1>2, <1>3, FileElements
<1> HIDE DEF new
<1>5. IsFiniteSet(partials')
  BY <1>1, FS_AddElement DEF Partitioned
<1>6. \A p \in partials : b \notin BlocksOf(p)
  BY DEF Partitioned
<1>7. \A p \in partials' :
        /\ p.blocks \in Seq(Nat) /\ BlocksOf(p) \subseteq 1..Len(file) \ unread'
        /\ Gathers(p.chunk, InBlocks(file, BlocksOf(p)))
        /\ IsFiniteSet(InBlocks(file, BlocksOf(p)))
  <2> TAKE p \in partials'
  <2>1. CASE p = new
    BY <2>1, <1>1, <1>2, <1>4
  <2>2. CASE p \in partials
    BY <2>2, <1>1 DEF Partitioned
  <2> QED
    BY <2>1, <2>2, <1>1
<1>8. \A p, q \in partials' : p # q => BlocksOf(p) \cap BlocksOf(q) = {}
  BY <1>1, <1>2, <1>6 DEF Partitioned
<1>9. \A c \in 1..Len(file) \ unread' : \E p \in partials' : c \in BlocksOf(p)
  BY <1>1, <1>2 DEF Partitioned
<1>10. unread' \subseteq 1..Len(file)
  BY <1>1 DEF Partitioned
<1> QED
  BY <1>1, <1>5, <1>7, <1>8, <1>9, <1>10 DEF Partitioned, BlocksOf

(* Two partial results that are joined, in either order, make one part. *)
LEMMA JoinKeeps ==
  ASSUME file \in Files, Partitioned, NEW p \in partials, NEW q \in partials,
         JoinPartials(p, q)
  PROVE  Partitioned'
<1> DEFINE new == [blocks |-> p.blocks \o q.blocks, chunk |-> Merge(p.chunk, q.chunk)]
           Of(r) == InBlocks(file, BlocksOf(r))
<1>1. /\ unread' = unread /\ partials' = (partials \ {p, q}) \cup {new} /\ file' = file
      /\ p # q
  BY DEF JoinPartials
<1>2. /\ p.blocks \in Seq(Nat) /\ q.blocks \in Seq(Nat)
      /\ BlocksOf(p) \cap BlocksOf(q) = {}
      /\ BlocksOf(p) \subseteq 1..Len(file) \ unread /\ BlocksOf(q) \subseteq 1..Len(file) \ unread
      /\ Gathers(p.chunk, Of(p)) /\ Gathers(q.chunk, Of(q))
      /\ IsFiniteSet(Of(p)) /\ IsFiniteSet(Of(q))
  BY <1>1 DEF Partitioned
<1>3. /\ new.blocks \in Seq(Nat) /\ BlocksOf(new) = BlocksOf(p) \cup BlocksOf(q)
      /\ new.chunk = Merge(p.chunk, q.chunk)
  BY <1>2, ConcatInjective DEF BlocksOf
<1>4. Of(new) = Of(p) \cup Of(q)
  BY <1>3 DEF InBlocks
<1>5. Of(p) \cap Of(q) = {} /\ Distinct(Of(p) \cup Of(q))
  <2>1. \A b \in BlocksOf(p), c \in BlocksOf(q) : Range(file[b]) \cap Range(file[c]) = {}
    BY <1>2, FileElements
  <2>2. Of(p) \cup Of(q) \subseteq InBlocks(file, 1..Len(file))
    BY <1>2 DEF InBlocks
  <2>3. Of(p) \cap Of(q) = {}
    BY <2>1 DEF InBlocks
  <2>4. Distinct(Of(p) \cup Of(q))
    BY <2>2, FileElements DEF Distinct
  <2> QED
    BY <2>3, <2>4
<1> HIDE DEF new, Of
<1>6. Gathers(new.chunk, Of(new))
  BY <1>2, <1>3, <1>4, <1>5, GathersBoth
<1>7. IsFiniteSet(Of(new))
  <2>1. IsFiniteSet(Of(p) \cup Of(q))
    BY <1>2, FS_Union, Zenon
  <2> QED
    BY <2>1, <1>4
<1>8. IsFiniteSet(partials')
  <2>1. IsFiniteSet(partials \ {p, q})
    BY FS_Subset DEF Partitioned
  <2> QED
    BY <1>1, <2>1, FS_AddElement
<1>9. \A r \in partials' :
        /\ r.blocks \in Seq(Nat) /\ BlocksOf(r) \subseteq 1..Len(file) \ unread'
        /\ Gathers(r.chunk, Of(r)) /\ IsFiniteSet(Of(r))
  <2> TAKE r \in partials'
  <2>1. CASE r = new
    BY <2>1, <1>1, <1>2, <1>3, <1>6, <1>7
  <2>2. CASE r \in partials
    BY <2>2, <1>1 DEF Partitioned, Of
  <2> QED
    BY <2>1, <2>2, <1>1
<1>10. \A r, s \in partials' : r # s => BlocksOf(r) \cap BlocksOf(s) = {}
  <2>1. \A r \in partials \ {p, q} : BlocksOf(r) \cap BlocksOf(new) = {}
    BY <1>3 DEF Partitioned
  <2> QED
    BY <1>1, <2>1 DEF Partitioned
<1>11. \A c \in 1..Len(file) \ unread' : \E r \in partials' : c \in BlocksOf(r)
  BY <1>1, <1>3 DEF Partitioned
<1> QED
  BY <1>1, <1>8, <1>9, <1>10, <1>11 DEF Partitioned, BlocksOf, Of

(* The one part that is left gathers the whole file. *)
LEMMA ReducedGathers ==
  ASSUME ScanInv, Discover
  PROVE  Gathers(Reduced, InBlocks(file, 1..Len(file)))
<1>1. Partitioned /\ unread = {} /\ Cardinality(partials) <= 1
  BY DEF Discover, FinishScan, ScanInv
<1> DEFINE all == InBlocks(file, 1..Len(file))
<1>2. CASE partials = {}
  <2>1. 1..Len(file) = {}
    BY <1>1, <1>2 DEF Partitioned
  <2>2. all = {}
    BY <2>1 DEF InBlocks
  <2> QED
    BY <1>2, <2>2, GathersNone DEF Reduced
<1>3. CASE partials # {}
  <2> DEFINE p == CHOOSE p \in partials : TRUE
  <2>1. p \in partials /\ Reduced = p.chunk
    BY <1>3 DEF Reduced
  <2> HIDE DEF p
  <2>2. partials = {p}
    <3>1. IsFiniteSet(partials) /\ IsFiniteSet(partials \ {p})
      BY <1>1, FS_Subset DEF Partitioned
    <3>2. /\ Cardinality(partials \ {p}) = Cardinality(partials) - 1
          /\ Cardinality(partials) \in Nat /\ Cardinality(partials \ {p}) \in Nat
      BY <3>1, <2>1, FS_RemoveElement, FS_CardinalityType
    <3>3. Cardinality(partials \ {p}) = 0
      BY <3>2, <1>1
    <3>4. partials \ {p} = {}
      BY <3>1, <3>3, FS_EmptySet
    <3> QED
      BY <3>4, <2>1
  <2>3. BlocksOf(p) = 1..Len(file)
    BY <1>1, <2>2 DEF Partitioned
  <2> QED
    BY <1>1, <2>1, <2>3 DEF Partitioned
<1> QED
  BY <1>2, <1>3

(* Then the result of the scan is that of the whole file. *)
LEMMA DiscoverKeeps ==
  ASSUME ScanInv, Discover
  PROVE  ScanInv'
<1>1. /\ stage = "scan" /\ stage' = "members" /\ file' = file
      /\ discovery' = DiscoveryResult(Reduced)
  BY DEF Discover, FinishScan, ScanInv
<1>2. file \in Files /\ Gathers(BlockChunk(Elements(file)), InBlocks(file, 1..Len(file)))
  BY FileElements DEF ScanInv
<1>3. discovery' = DiscoveryResult(BlockChunk(Elements(file)))
  BY <1>1, <1>2, ReducedGathers, SameGathered
<1> QED
  BY <1>1, <1>2, <1>3 DEF ScanInv

(* After the scan neither its result nor the stage before it returns. *)
LEMMA LaterKeeps ==
  ASSUME Next, ~Scan, ~Discover
  PROVE  stage # "scan" /\ stage' # "scan" /\ UNCHANGED scanVars
<1>1. CASE NextStage
  <2>1. stage \in Loops /\ stage' = Following(stage) /\ UNCHANGED scanVars
    BY <1>1 DEF NextStage
  <2>2. stage \in {"boundaries", "rejections", "places", "address nodes", "address ways",
                   "postcodes", "interpolation", "streets"}
    BY <2>1 DEF Loops, ListOf
  <2> QED
    BY <2>1, <2>2 DEF Following
<1>2. CASE ~NextStage
  <2>1. ASSUME NEW s, s # "scan", Emit(s)
        PROVE  stage # "scan" /\ stage' # "scan" /\ UNCHANGED scanVars
    BY <2>1 DEF Emit
  <2>2. CASE WriteRejections
    BY <2>1, <2>2 DEF WriteRejections
  <2>3. CASE WritePlaceNode
    BY <2>1, <2>3 DEF WritePlaceNode
  <2>4. CASE WriteAddressNode
    BY <2>1, <2>4 DEF WriteAddressNode
  <2>5. CASE WriteAddressWay \/ RejectAddressWay
    BY <2>1, <2>5 DEF WriteAddressWay, RejectAddressWay
  <2>6. CASE WriteBoundaryRecord \/ WritePostcode
    BY <2>1, <2>6 DEF WriteBoundaryRecord, WritePostcode
  <2>7. CASE RejectInterpolationWay
    BY <2>1, <2>7 DEF RejectInterpolationWay
  <2>8. CASE WriteInterpolation \/ \E issue \in PairIssues : RejectInterpolation(issue)
    BY <2>8 DEF WriteInterpolation, RejectInterpolation, DecidePair
  <2>9. CASE WriteStreet \/ RejectStreet
    BY <2>1, <2>9 DEF WriteStreet, RejectStreet
  <2>10. CASE ResolveBoundaryWays \/ ResolveNodeLocations \/ BuildBoundaries
    BY <2>10 DEF ResolveBoundaryWays, ResolveNodeLocations, BuildBoundaries
  <2>11. CASE Finished
    BY <2>11 DEF Finished, vars
  <2> QED
    BY <1>2, <2>2, <2>3, <2>4, <2>5, <2>6, <2>7, <2>8, <2>9, <2>10, <2>11 DEF Next
<1> QED
  BY <1>1, <1>2

(* The invariant of the scan. *)
LEMMA ScanInvariant == Spec => []ScanInv
<1>1. Init => ScanInv
  <2> SUFFICES ASSUME Init PROVE ScanInv
    OBVIOUS
  <2>1. file \in Files /\ unread = 1..Len(file) /\ partials = {} /\ discovery = None
        /\ stage = "scan"
    BY DEF Init, ScanInit
  <2>2. Partitioned
    BY <2>1, FS_EmptySet DEF Partitioned
  <2> QED
    BY <2>1, <2>2 DEF ScanInv
<1>2. ScanInv /\ [Next]_vars => ScanInv'
  <2> SUFFICES ASSUME ScanInv, [Next]_vars PROVE ScanInv'
    OBVIOUS
  <2>1. CASE Scan
    <3>1. file \in Files /\ Partitioned /\ stage = "scan"
      BY <2>1 DEF Scan, ScanInv
    <3>2. stage' = stage /\ file' = file /\ discovery' = discovery
      BY <2>1 DEF Scan, ScanStep, MapBlock, JoinPartials
    <3>3. Partitioned'
      BY <2>1, <3>1, MapBlockKeeps, JoinKeeps DEF Scan, ScanStep
    <3> QED
      BY <3>1, <3>2, <3>3 DEF ScanInv
  <2>2. CASE Discover
    BY <2>2, DiscoverKeeps
  <2>3. CASE Next /\ ~Scan /\ ~Discover
    BY <2>3, LaterKeeps DEF ScanInv, scanVars
  <2>4. CASE UNCHANGED vars
    BY <2>4 DEF ScanInv, Partitioned, vars, scanVars, BlocksOf
  <2> QED
    BY <2>1, <2>2, <2>3, <2>4
<1> QED
  BY <1>1, <1>2, PTL DEF Spec

(* In every file and for every order in which threads take blocks and join  *)
(* partial results, what the scan hands on is what reading the file from    *)
(* its first element to its last gives.                                     *)
THEOREM ScanOrder == Spec => []MergeOrderInvisible
<1>1. ScanInv => MergeOrderInvisible
  BY DEF ScanInv, MergeOrderInvisible
<1> QED
  BY <1>1, ScanInvariant, PTL

-----------------------------------------------------------------------------
(* Lists that grow, and what is counted of them *)

IsSeq(s) == s \in Seq(Range(s))

LEMMA SeqIs ==
  ASSUME NEW s, IsSeq(s)
  PROVE  Len(s) \in Nat /\ DOMAIN s = 1..Len(s) /\ \A i \in 1..Len(s) : s[i] \in Range(s)
BY DEF IsSeq

LEMMA ListOver ==
  ASSUME NEW T, NEW s \in Seq(T)
  PROVE  IsSeq(s) /\ Range(s) \subseteq T
<1>1. Len(s) \in Nat /\ DOMAIN s = 1..Len(s) /\ s \in [1..Len(s) -> T]
  OBVIOUS
<1>2. \A i \in 1..Len(s) : s[i] \in Range(s) /\ s[i] \in T
  BY <1>1 DEF Range
<1> DEFINE R == Range(s)
           N == Len(s)
<1>3. s \in [1..N -> R]
  BY <1>1, <1>2
<1>4. s \in Seq(R)
  <2>1. N \in Nat
    BY <1>1
  <2> HIDE DEF R, N
  <2> QED
    BY <1>3, <2>1, FunctionIsSeq
<1> QED
  BY <1>1, <1>2, <1>4 DEF IsSeq, Range

LEMMA NoneIsSeq == IsSeq(<<>>) /\ Len(<<>>) = 0 /\ DOMAIN <<>> = {} /\ Range(<<>>) = {}
BY DEF IsSeq, Range

LEMMA AppendIs ==
  ASSUME NEW s, IsSeq(s), NEW x
  PROVE  /\ IsSeq(Append(s, x)) /\ Len(Append(s, x)) = Len(s) + 1
         /\ DOMAIN Append(s, x) = 1..Len(s) + 1
         /\ \A i \in 1..Len(s) : Append(s, x)[i] = s[i]
         /\ Append(s, x)[Len(s) + 1] = x
         /\ Range(Append(s, x)) = Range(s) \cup {x}
<1> DEFINE T == Range(s) \cup {x}
           t == Append(s, x)
<1>1. s \in Seq(T) /\ x \in T
  BY SeqMonotonic DEF IsSeq
<1>2. /\ t \in Seq(T) /\ Len(t) = Len(s) + 1 /\ Len(s) \in Nat
      /\ DOMAIN t = 1..Len(s) + 1 /\ DOMAIN s = 1..Len(s)
      /\ \A i \in 1..Len(s) : t[i] = s[i]
      /\ t[Len(s) + 1] = x
  <2> HIDE DEF T
  <2> QED
    BY <1>1
<1> HIDE DEF t
<1>3. Range(t) = T
  <2>1. \A i \in 1..Len(s) + 1 : i \in 1..Len(s) \/ i = Len(s) + 1
    BY <1>2
  <2>2. \A y \in Range(t) : y \in T
    BY <1>2, <2>1 DEF Range
  <2>3. \A i \in 1..Len(s) : i \in 1..Len(s) + 1
    BY <1>2
  <2>4. \A y \in Range(s) : y \in Range(t)
    BY <1>2, <2>3 DEF Range
  <2>5. x \in Range(t)
    BY <1>2 DEF Range
  <2> QED
    BY <2>2, <2>4, <2>5
<1>4. IsSeq(t)
  BY <1>2, <1>3 DEF IsSeq
<1> QED
  BY <1>2, <1>3, <1>4 DEF t

(* Numbers of places of a list. *)
LEMMA PlacesCount ==
  ASSUME NEW n \in Nat, NEW I \in SUBSET (1..n)
  PROVE  /\ IsFiniteSet(I) /\ Cardinality(I) \in Nat
         /\ Cardinality(I \cup {n + 1}) = Cardinality(I) + 1
         /\ I = {} <=> Cardinality(I) = 0
<1>1. IsFiniteSet(1..n)
  BY FS_Interval
<1>2. IsFiniteSet(I)
  BY <1>1, FS_Subset
<1>3. n + 1 \notin I
  OBVIOUS
<1> QED
  BY <1>2, <1>3, FS_CardinalityType, FS_AddElement, FS_EmptySet

(* How many items of a list are in P. *)
Times(list, P) == Cardinality({i \in DOMAIN list : list[i] \in P})

LEMMA TimesAppend ==
  ASSUME NEW s, IsSeq(s), NEW x, NEW P
  PROVE  /\ Times(s, P) \in Nat
         /\ Times(Append(s, x), P) = IF x \in P THEN Times(s, P) + 1 ELSE Times(s, P)
<1> DEFINE t == Append(s, x)
           I == {i \in DOMAIN s : s[i] \in P}
           J == {i \in DOMAIN t : t[i] \in P}
<1>1. /\ Len(s) \in Nat /\ DOMAIN s = 1..Len(s) /\ DOMAIN t = 1..Len(s) + 1
      /\ \A i \in 1..Len(s) : t[i] = s[i]
      /\ t[Len(s) + 1] = x
  BY SeqIs, AppendIs
<1> HIDE DEF t
<1>2. I \in SUBSET (1..Len(s))
  BY <1>1
<1>3. \A i \in 1..Len(s) + 1 : i \in 1..Len(s) \/ i = Len(s) + 1
  BY <1>1
<1>4. \A i \in 1..Len(s) : i \in 1..Len(s) + 1
  BY <1>1
<1>5. CASE x \in P
  <2>1. J = I \cup {Len(s) + 1}
    BY <1>1, <1>3, <1>4, <1>5
  <2> HIDE DEF I, J
  <2> QED
    BY <1>1, <1>2, <1>5, <2>1, PlacesCount DEF Times, I, J, t
<1>6. CASE x \notin P
  <2>1. J = I
    BY <1>1, <1>3, <1>4, <1>6
  <2> HIDE DEF I, J
  <2> QED
    BY <1>1, <1>2, <1>6, <2>1, PlacesCount DEF Times, I, J, t
<1> QED
  BY <1>5, <1>6

LEMMA TimesNone ==
  ASSUME NEW P
  PROVE  Times(<<>>, P) = 0
<1>1. {i \in DOMAIN <<>> : <<>>[i] \in P} = {}
  OBVIOUS
<1> QED
  BY <1>1, FS_EmptySet DEF Times

-----------------------------------------------------------------------------
(* The items of a list that are kept *)

LEMMA KeptSteps ==
  ASSUME NEW list, NEW S, Len(list) \in Nat
  PROVE  \E g : /\ g[0] = <<>>
                /\ \A n \in 1..Len(list) :
                     g[n] = IF list[n] \in S THEN Append(g[n - 1], list[n]) ELSE g[n - 1]
                /\ Kept(list, S) = g[Len(list)]
<1> DEFINE N == Len(list)
           Steps(g, m) == g = [n \in 0..m |-> IF n = 0 THEN <<>>
                                              ELSE IF list[n] \in S THEN Append(g[n - 1], list[n])
                                                   ELSE g[n - 1]]
           T == {m \in 0..N : \E g : Steps(g, m)}
<1>1. 0 \in T
  <2> DEFINE g == [n \in 0..0 |-> <<>>]
  <2>1. Steps(g, 0)
    OBVIOUS
  <2>2. 0 \in 0..N
    OBVIOUS
  <2> HIDE DEF g, Steps
  <2> QED
    BY <2>1, <2>2
<1>2. ASSUME NEW m \in T \cap (0..N - 1) PROVE m + 1 \in T
  <2>1. PICK g : Steps(g, m)
    OBVIOUS
  <2> DEFINE h == [n \in 0..m + 1 |->
                     IF n = m + 1
                     THEN IF list[m + 1] \in S THEN Append(g[m], list[m + 1]) ELSE g[m]
                     ELSE g[n]]
  <2>2. ASSUME NEW n \in 0..m + 1
        PROVE  h[n] = IF n = 0 THEN <<>>
                      ELSE IF list[n] \in S THEN Append(h[n - 1], list[n]) ELSE h[n - 1]
    <3>1. CASE n = m + 1
      BY <3>1
    <3>2. CASE n # m + 1
      <4>1. n \in 0..m /\ h[n] = g[n]
        BY <3>2
      <4>2. g[n] = IF n = 0 THEN <<>>
                   ELSE IF list[n] \in S THEN Append(g[n - 1], list[n]) ELSE g[n - 1]
        BY <2>1, <4>1
      <4>3. n # 0 => h[n - 1] = g[n - 1]
        BY <4>1
      <4> QED
        BY <4>1, <4>2, <4>3
    <3> QED
      BY <3>1, <3>2
  <2>3. Steps(h, m + 1)
    <3>1. DOMAIN h = 0..m + 1 /\ h = [n \in 0..m + 1 |-> h[n]]
      OBVIOUS
    <3> HIDE DEF h
    <3> QED
      BY <2>2, <3>1
  <2>4. m + 1 \in 0..N
    OBVIOUS
  <2> HIDE DEF h, Steps
  <2> QED
    BY <2>3, <2>4
<1>3. \E g : Steps(g, N)
  <2> HIDE DEF Steps
  <2>1. 0..N \subseteq T
    <3> HIDE DEF T
    <3> QED
      BY <1>1, <1>2, UpTo
  <2> QED
    BY <2>1
<1> DEFINE g == CHOOSE g : Steps(g, N)
<1>4. Steps(g, N)
  <2> HIDE DEF Steps
  <2> QED
    BY <1>3
<1>5. Kept(list, S) = g[N]
  BY DEF Kept
<1> HIDE DEF g
<1>6. \A n \in 0..N :
        g[n] = IF n = 0 THEN <<>>
               ELSE IF list[n] \in S THEN Append(g[n - 1], list[n]) ELSE g[n - 1]
  BY <1>4
<1>7. /\ g[0] = <<>>
      /\ \A n \in 1..N : g[n] = IF list[n] \in S THEN Append(g[n - 1], list[n]) ELSE g[n - 1]
  <2>1. 0 \in 0..N /\ \A n \in 1..N : n \in 0..N /\ n # 0
    OBVIOUS
  <2> HIDE DEF N
  <2> QED
    BY <1>6, <2>1, Zenon
<1> QED
  BY <1>5, <1>7

LEMMA KeptIs ==
  ASSUME NEW list, IsSeq(list), NEW S
  PROVE  /\ IsSeq(Kept(list, S)) /\ Range(Kept(list, S)) = Range(list) \cap S
         /\ \A P : Times(Kept(list, S), P) = Times(list, S \cap P)
<1> DEFINE N == Len(list)
           First(n) == {list[i] : i \in 1..n}
           In(n, P) == {i \in 1..n : list[i] \in S \cap P}
<1>1. N \in Nat /\ DOMAIN list = 1..N /\ Range(list) = First(N)
  BY SeqIs DEF Range
<1>2. PICK g : /\ g[0] = <<>>
               /\ \A n \in 1..N :
                    g[n] = IF list[n] \in S THEN Append(g[n - 1], list[n]) ELSE g[n - 1]
               /\ Kept(list, S) = g[N]
  BY <1>1, KeptSteps
<1> DEFINE T == {n \in 0..N : /\ IsSeq(g[n]) /\ Range(g[n]) = First(n) \cap S
                              /\ \A P : Times(g[n], P) = Cardinality(In(n, P))}
<1>3. 0 \in T
  <2>1. First(0) = {} /\ 0 \in 0..N /\ \A P : In(0, P) = {}
    BY <1>1
  <2> HIDE DEF First, In
  <2> QED
    BY <1>2, <2>1, NoneIsSeq, TimesNone, FS_EmptySet
<1>4. ASSUME NEW m \in T \cap (0..N - 1) PROVE m + 1 \in T
  <2> DEFINE n == m + 1
  <2>1. n \in 1..N /\ n - 1 = m /\ n \in 0..N /\ m \in 0..N /\ m \in Nat
    BY <1>1
  <2>2. 1..n = (1..m) \cup {n} /\ n \notin 1..m
    BY <2>1
  <2>3. First(n) = First(m) \cup {list[n]}
    BY <2>2
  <2>4. \A P : In(n, P) = IF list[n] \in S \cap P THEN In(m, P) \cup {n} ELSE In(m, P)
    BY <2>2
  <2>5. \A P : In(m, P) \in SUBSET (1..m)
    OBVIOUS
  <2>6. /\ IsSeq(g[m]) /\ Range(g[m]) = First(m) \cap S
        /\ \A P : Times(g[m], P) = Cardinality(In(m, P))
    OBVIOUS
  <2>7. g[n] = IF list[n] \in S THEN Append(g[m], list[n]) ELSE g[m]
    BY <1>2, <2>1
  <2> HIDE DEF First, In
  <2>8. \A P : Cardinality(In(m, P)) \in Nat
               /\ Cardinality(In(m, P) \cup {n}) = Cardinality(In(m, P)) + 1
    BY <2>1, <2>5, PlacesCount
  <2>9. CASE list[n] \in S
    <3>1. g[n] = Append(g[m], list[n])
      BY <2>7, <2>9
    <3>2. IsSeq(g[n]) /\ Range(g[n]) = Range(g[m]) \cup {list[n]}
      BY <2>6, <3>1, AppendIs
    <3>3. ASSUME NEW P PROVE Times(g[n], P) = Cardinality(In(n, P))
      <4>1. Times(g[n], P) = IF list[n] \in P THEN Times(g[m], P) + 1 ELSE Times(g[m], P)
        <5>1. IsSeq(g[m])
          BY <2>6
        <5>2. \A s, x, Q : IsSeq(s) =>
                Times(Append(s, x), Q) = IF x \in Q THEN Times(s, Q) + 1 ELSE Times(s, Q)
          BY TimesAppend
        <5>3. Times(Append(g[m], list[n]), P) =
                IF list[n] \in P THEN Times(g[m], P) + 1 ELSE Times(g[m], P)
          BY <5>1, <5>2
        <5> QED
          BY <3>1, <5>3
      <4>2. Times(g[m], P) = Cardinality(In(m, P))
        BY <2>6
      <4>3. In(n, P) = IF list[n] \in P THEN In(m, P) \cup {n} ELSE In(m, P)
        BY <2>4, <2>9
      <4> QED
        BY <2>8, <4>1, <4>2, <4>3
    <3>4. Range(g[n]) = First(n) \cap S
      BY <2>3, <2>6, <2>9, <3>2
    <3> QED
      BY <2>1, <3>2, <3>3, <3>4
  <2>10. CASE list[n] \notin S
    <3>1. g[n] = g[m] /\ First(n) \cap S = First(m) \cap S
      BY <2>3, <2>7, <2>10
    <3>2. \A P : In(n, P) = In(m, P)
      BY <2>4, <2>10
    <3> QED
      BY <2>1, <2>6, <3>1, <3>2
  <2> QED
    BY <2>9, <2>10
<1>5. N \in T
  <2> HIDE DEF T
  <2>1. 0..N \subseteq T
    BY <1>1, <1>3, <1>4, UpTo
  <2> QED
    BY <1>1, <2>1
<1> QED
  BY <1>1, <1>2, <1>5 DEF Times


-----------------------------------------------------------------------------
(* What a chunk lists *)

(* A list put after another. *)
LEMMA ConcatIs ==
  ASSUME NEW a, IsSeq(a), NEW b, IsSeq(b)
  PROVE  IsSeq(a \o b) /\ Range(a \o b) = Range(a) \cup Range(b)
<1> DEFINE T == Range(a) \cup Range(b)
           c == a \o b
<1>1. a \in Seq(T) /\ b \in Seq(T) /\ Len(a) \in Nat /\ Len(b) \in Nat
      /\ DOMAIN a = 1..Len(a) /\ DOMAIN b = 1..Len(b)
  BY SeqMonotonic, SeqIs DEF IsSeq
<1>2. /\ c \in Seq(T) /\ Len(c) = Len(a) + Len(b) /\ DOMAIN c = 1..Len(a) + Len(b)
      /\ \A i \in 1..Len(a) : c[i] = a[i]
      /\ \A i \in 1..Len(b) : c[Len(a) + i] = b[i]
  <2> HIDE DEF T
  <2> QED
    BY <1>1
<1>3. /\ \A i \in 1..Len(a) : i \in DOMAIN c
      /\ \A i \in 1..Len(b) : Len(a) + i \in DOMAIN c
  BY <1>1, <1>2
<1> HIDE DEF c
<1>4. IsSeq(c) /\ Range(c) \subseteq T
  BY <1>2, ListOver
<1>5. \A x \in Range(a) : x \in Range(c)
  BY <1>1, <1>2, <1>3 DEF Range
<1>6. \A x \in Range(b) : x \in Range(c)
  BY <1>1, <1>2, <1>3 DEF Range
<1> QED
  BY <1>4, <1>5, <1>6 DEF c

(* A chunk whose lists are lists. *)
Good(c) == IsChunk(c) /\ \A kind \in Kinds : IsSeq(c.lists[kind])
Of(c, kind) == Range(c.lists[kind])

LEMMA EmptyIs ==
  /\ Good(EmptyChunk) /\ EmptyChunk.required = {}
  /\ \A kind \in Kinds : Of(EmptyChunk, kind) = {}
<1>1. \A kind \in Kinds : EmptyChunk.lists[kind] = <<>>
  BY DEF EmptyChunk
<1>2. IsChunk(EmptyChunk) /\ EmptyChunk.required = {}
  BY DEF IsChunk, EmptyChunk, IsFunction
<1> QED
  BY <1>1, <1>2, NoneIsSeq DEF Good, Of

LEMMA MergeIs ==
  ASSUME NEW c, NEW d, Good(c), Good(d)
  PROVE  /\ Good(Merge(c, d)) /\ Merge(c, d).required = c.required \cup d.required
         /\ \A kind \in Kinds : Of(Merge(c, d), kind) = Of(c, kind) \cup Of(d, kind)
<1> DEFINE m == Merge(c, d)
<1>1. IsChunk(m) /\ m.required = c.required \cup d.required
      /\ \A kind \in Kinds : m.lists[kind] = c.lists[kind] \o d.lists[kind]
  <2>1. IsChunk(c) /\ IsChunk(d)
    BY DEF Good
  <2> QED
    BY <2>1 DEF IsChunk, IsFunction, Merge, Extended
<1> HIDE DEF m
<1>2. \A kind \in Kinds : IsSeq(c.lists[kind]) /\ IsSeq(d.lists[kind])
  BY DEF Good
<1>3. \A kind \in Kinds : IsSeq(m.lists[kind]) /\ Of(m, kind) = Of(c, kind) \cup Of(d, kind)
  <2> TAKE kind \in Kinds
  <2> DEFINE a == c.lists[kind]
             b == d.lists[kind]
  <2>1. IsSeq(a) /\ IsSeq(b) /\ m.lists[kind] = a \o b
    BY <1>1, <1>2
  <2> HIDE DEF a, b
  <2>2. IsSeq(a \o b) /\ Range(a \o b) = Range(a) \cup Range(b)
    BY <2>1, ConcatIs
  <2> QED
    BY <2>1, <2>2 DEF Of, a, b
<1> QED
  BY <1>1, <1>3 DEF Good, m

LEMMA ListedIs ==
  ASSUME NEW kind \in Kinds, NEW entry
  PROVE  /\ Good(Listed(kind, entry)) /\ Listed(kind, entry).required = {}
         /\ \A k \in Kinds : Of(Listed(kind, entry), k) = IF k = kind THEN {entry} ELSE {}
<1> DEFINE c == Listed(kind, entry)
<1>1. c = [scanned |-> EmptyBag,
           lists |-> [other \in Kinds |-> IF other = kind THEN <<entry>> ELSE <<>>],
           addressNodeTags |-> <<>>, required |-> {}]
  <2> DEFINE none == [other \in Kinds |-> <<>>]
  <2>1. [none EXCEPT ![kind] = <<entry>>] =
          [other \in Kinds |-> IF other = kind THEN <<entry>> ELSE <<>>]
    OBVIOUS
  <2>2. c = [[scanned |-> EmptyBag, lists |-> none, addressNodeTags |-> <<>>, required |-> {}]
               EXCEPT !.lists = [none EXCEPT ![kind] = <<entry>>]]
    BY DEF EmptyChunk, Listed
  <2> HIDE DEF none
  <2> QED
    BY <2>1, <2>2
<1> HIDE DEF c
<1>2. IsChunk(c) /\ c.required = {}
  BY <1>1 DEF IsChunk, IsFunction
<1>3. \A k \in Kinds : c.lists[k] = IF k = kind THEN <<entry>> ELSE <<>>
  BY <1>1
<1>4. IsSeq(<<entry>>) /\ Range(<<entry>>) = {entry}
  BY DEF IsSeq, Range
<1>5. \A k \in Kinds : IsSeq(c.lists[k]) /\ Of(c, k) = IF k = kind THEN {entry} ELSE {}
  BY <1>3, <1>4, NoneIsSeq DEF Of
<1> QED
  BY <1>2, <1>5 DEF Good, c

(* The entry of a stub. *)
StubOf(e, tags) == [id |-> e.id, refs |-> e.refs, tags |-> tags]

LEMMA StubIs ==
  ASSUME NEW kind \in Kinds, NEW e, NEW tags
  PROVE  /\ Good(Stub(kind, e, tags)) /\ Stub(kind, e, tags).required = Range(e.refs)
         /\ \A k \in Kinds : Of(Stub(kind, e, tags), k) =
                               IF k = kind THEN {StubOf(e, tags)} ELSE {}
<1> DEFINE entry == StubOf(e, tags)
           c == Listed(kind, entry)
           d == Stub(kind, e, tags)
<1>1. Good(c) /\ \A k \in Kinds : Of(c, k) = IF k = kind THEN {entry} ELSE {}
  <2> HIDE DEF entry
  <2> QED
    BY ListedIs
<1>2. d = [c EXCEPT !.required = Range(e.refs)]
  BY DEF Stub, StubOf
<1> HIDE DEF c, entry
<1>3. c = [scanned |-> c.scanned, lists |-> c.lists,
           addressNodeTags |-> c.addressNodeTags, required |-> c.required]
  BY <1>1 DEF Good, IsChunk
<1>4. d = [scanned |-> c.scanned, lists |-> c.lists,
           addressNodeTags |-> c.addressNodeTags, required |-> Range(e.refs)]
  <2> HIDE DEF d
  <2> QED
    BY <1>2, <1>3
<1> HIDE DEF d
<1>5. d.lists = c.lists /\ d.required = Range(e.refs) /\ IsChunk(d)
  BY <1>1, <1>4 DEF Good, IsChunk
<1>6. Good(d) /\ \A k \in Kinds : Of(d, k) = Of(c, k)
  BY <1>1, <1>5 DEF Good, Of
<1> QED
  BY <1>1, <1>5, <1>6 DEF d, entry

(* A chunk of an element has the lists of what was found. *)
LEMMA ElementIs ==
  ASSUME NEW e, NEW found, Good(found),
         CollectElement(e) = [found EXCEPT !.scanned = SetToBag({ScannedAs(e)})]
  PROVE  /\ CollectElement(e).required = found.required
         /\ \A kind \in Kinds : Entries(e, kind) = Of(found, kind)
<1> DEFINE bag == SetToBag({ScannedAs(e)})
<1>1. found = [scanned |-> found.scanned, lists |-> found.lists,
               addressNodeTags |-> found.addressNodeTags, required |-> found.required]
  BY DEF Good, IsChunk
<1> HIDE DEF bag
<1>2. CollectElement(e) = [scanned |-> bag, lists |-> found.lists,
               addressNodeTags |-> found.addressNodeTags, required |-> found.required]
  BY <1>1 DEF bag
<1> QED
  BY <1>2 DEF Entries, Of


-----------------------------------------------------------------------------
(* What each element is listed as *)

TagsIn(e) == CleanTags(e.tags)
AddrIn(e) == AddrTags(TagsIn(e))

(* The set of rejections has one, for this issue. *)
Refuses(S, e, issue, write) ==
  \E x : S = {x} /\ x.issue = issue /\ x.source = <<e.type, e.id>> /\ x.write = write

LEMMA RejectionIs ==
  ASSUME NEW e, NEW issue, NEW tags, NEW addr, NEW hint, NEW write
  PROVE  LET c == Listed("rejections", Rejection(issue, e, tags, addr, hint, write))
         IN /\ Good(c) /\ c.required = {} /\ Refuses(Of(c, "rejections"), e, issue, write)
            /\ \A kind \in Kinds \ {"rejections"} : Of(c, kind) = {}
<1> DEFINE x == Rejection(issue, e, tags, addr, hint, write)
           c == Listed("rejections", x)
<1>1. x.issue = issue /\ x.source = <<e.type, e.id>> /\ x.write = write
  BY DEF Rejection
<1>2. "rejections" \in Kinds
  BY DEF Kinds
<1> HIDE DEF x
<1>3. /\ Good(c) /\ c.required = {} /\ Of(c, "rejections") = {x}
      /\ \A kind \in Kinds \ {"rejections"} : Of(c, kind) = {}
  BY <1>2, ListedIs
<1> HIDE DEF c
<1>4. Refuses(Of(c, "rejections"), e, issue, write)
  BY <1>1, <1>3 DEF Refuses
<1> QED
  BY <1>3, <1>4 DEF c, x

LEMMA AuditedIs ==
  ASSUME NEW e, NEW issue, NEW tags, NEW addr, NEW hint
  PROVE  LET c == AuditedRejection(issue, e, tags, addr, hint)
         IN /\ Good(c) /\ c.required = {} /\ Refuses(Of(c, "rejections"), e, issue, TRUE)
            /\ \A kind \in Kinds \ {"rejections"} : Of(c, kind) = {}
BY RejectionIs DEF AuditedRejection

LEMMA UnauditedIs ==
  ASSUME NEW e, NEW issue, NEW tags, NEW hint
  PROVE  /\ LET c == RejectionRecord(issue, e, tags, hint)
            IN /\ Good(c) /\ c.required = {} /\ Refuses(Of(c, "rejections"), e, issue, TRUE)
               /\ \A kind \in Kinds \ {"rejections"} : Of(c, kind) = {}
         /\ LET c == ReportOnlyRejection(issue, e, tags)
            IN /\ Good(c) /\ c.required = {} /\ Refuses(Of(c, "rejections"), e, issue, FALSE)
               /\ \A kind \in Kinds \ {"rejections"} : Of(c, kind) = {}
BY RejectionIs DEF RejectionRecord, ReportOnlyRejection

(* A node's address tags are a candidate or rejected. *)
LEMMA AddressOfNodeIs ==
  ASSUME NEW e, NEW tags
  PROVE  LET c == AddressOfNode(e, tags)
             addr == AddrTags(tags)
             ranged == Has(addr, "addr:interpolation")
         IN /\ Good(c) /\ c.required = {}
            /\ \A kind \in Kinds \ {"rejections", "address_node_candidates"} : Of(c, kind) = {}
            /\ \/ addr = NoTags /\ Of(c, "rejections") = {} /\ Of(c, "address_node_candidates") = {}
               \/ /\ addr # NoTags /\ ranged /\ Of(c, "address_node_candidates") = {}
                  /\ Refuses(Of(c, "rejections"), e, "interpolation_unsupported_object", TRUE)
               \/ /\ addr # NoTags /\ ~ranged /\ AddressIssue(addr) # None
                  /\ Of(c, "address_node_candidates") = {}
                  /\ Refuses(Of(c, "rejections"), e, AddressIssue(addr), TRUE)
               \/ /\ addr # NoTags /\ ~ranged /\ AddressIssue(addr) = None
                  /\ Of(c, "rejections") = {}
                  /\ Of(c, "address_node_candidates") = {[id |-> e.id, tags |-> addr]}
<1> DEFINE addr == AddrTags(tags)
           ranged == Has(addr, "addr:interpolation")
           issue == AddressIssue(addr)
           known == [EmptyChunk EXCEPT !.addressNodeTags = [id \in {e.id} |-> addr]]
           entry == [id |-> e.id, tags |-> addr]
           c == AddressOfNode(e, tags)
<1>1. /\ Good(known) /\ known.required = {} /\ \A kind \in Kinds : Of(known, kind) = {}
  <2>1. EmptyChunk = [scanned |-> EmptyChunk.scanned, lists |-> EmptyChunk.lists,
                      addressNodeTags |-> EmptyChunk.addressNodeTags, required |-> {}]
    BY EmptyIs DEF Good, IsChunk
  <2> DEFINE tagged == [id \in {e.id} |-> addr]
  <2>2. IsFunction(tagged)
    BY DEF IsFunction
  <2>3. known = [EmptyChunk EXCEPT !.addressNodeTags = tagged]
    OBVIOUS
  <2> HIDE DEF tagged, known
  <2>4. known = [scanned |-> EmptyChunk.scanned, lists |-> EmptyChunk.lists,
                 addressNodeTags |-> tagged, required |-> {}]
    BY <2>1, <2>3
  <2>5. known.lists = EmptyChunk.lists /\ IsChunk(known) /\ known.required = {}
    BY <2>2, <2>4, EmptyIs DEF Good, IsChunk
  <2> QED
    BY <2>5, EmptyIs DEF Good, Of
<1>2. "rejections" \in Kinds /\ "address_node_candidates" \in Kinds
  BY DEF Kinds
<1> HIDE DEF known, addr
<1>3. CASE addr = NoTags
  <2>1. c = EmptyChunk
    <3>1. ~Has(AddrTags(tags), "addr:interpolation")
      BY <1>3 DEF addr, NoTags, Has
    <3> QED
      BY <1>3, <3>1 DEF AddressOfNode, addr
  <2> QED
    BY <1>2, <1>3, <2>1, EmptyIs DEF addr
<1>4. CASE addr # NoTags /\ ranged
  <2> DEFINE d == AuditedRejection("interpolation_unsupported_object", e, tags, addr,
                                   "interpolation")
  <2>1. c = Merge(known, d)
    BY <1>4 DEF AddressOfNode, addr, known
  <2>2. /\ Good(d) /\ d.required = {}
        /\ Refuses(Of(d, "rejections"), e, "interpolation_unsupported_object", TRUE)
        /\ \A kind \in Kinds \ {"rejections"} : Of(d, kind) = {}
    BY AuditedIs
  <2> HIDE DEF d
  <2>3. Good(c) /\ c.required = {} /\ \A kind \in Kinds : Of(c, kind) = Of(d, kind)
    <3>1. /\ Good(c) /\ c.required = known.required \cup d.required
          /\ \A kind \in Kinds : Of(c, kind) = Of(known, kind) \cup Of(d, kind)
      BY <1>1, <2>1, <2>2, MergeIs
    <3> QED
      BY <3>1, <1>1, <2>2
  <2> HIDE DEF c
  <2>4. /\ Of(c, "address_node_candidates") = {}
        /\ Refuses(Of(c, "rejections"), e, "interpolation_unsupported_object", TRUE)
        /\ \A kind \in Kinds \ {"rejections"} : Of(c, kind) = {}
    BY <1>2, <2>2, <2>3
  <2> QED
    BY <1>4, <2>3, <2>4 DEF addr, c
<1>5. CASE addr # NoTags /\ ~ranged /\ issue # None
  <2> DEFINE d == AuditedRejection(issue, e, tags, addr, "address")
  <2>1. c = Merge(known, d)
    BY <1>5 DEF AddressOfNode, addr, known
  <2>2. /\ Good(d) /\ d.required = {}
        /\ Refuses(Of(d, "rejections"), e, issue, TRUE)
        /\ \A kind \in Kinds \ {"rejections"} : Of(d, kind) = {}
    BY AuditedIs
  <2> HIDE DEF d
  <2>3. Good(c) /\ c.required = {} /\ \A kind \in Kinds : Of(c, kind) = Of(d, kind)
    <3>1. /\ Good(c) /\ c.required = known.required \cup d.required
          /\ \A kind \in Kinds : Of(c, kind) = Of(known, kind) \cup Of(d, kind)
      BY <1>1, <2>1, <2>2, MergeIs
    <3> QED
      BY <3>1, <1>1, <2>2
  <2> HIDE DEF c
  <2>4. /\ Of(c, "address_node_candidates") = {}
        /\ Refuses(Of(c, "rejections"), e, issue, TRUE)
        /\ \A kind \in Kinds \ {"rejections"} : Of(c, kind) = {}
    BY <1>2, <2>2, <2>3
  <2> QED
    BY <1>5, <2>3, <2>4 DEF addr, c
<1>6. CASE addr # NoTags /\ ~ranged /\ issue = None
  <2> DEFINE d == Listed("address_node_candidates", entry)
  <2>1. c = Merge(known, d)
    BY <1>6 DEF AddressOfNode, addr, known
  <2> HIDE DEF entry
  <2>2. /\ Good(d) /\ d.required = {} /\ Of(d, "address_node_candidates") = {entry}
        /\ \A kind \in Kinds \ {"address_node_candidates"} : Of(d, kind) = {}
    BY <1>2, ListedIs
  <2> HIDE DEF d
  <2>3. Good(c) /\ c.required = {} /\ \A kind \in Kinds : Of(c, kind) = Of(d, kind)
    <3>1. /\ Good(c) /\ c.required = known.required \cup d.required
          /\ \A kind \in Kinds : Of(c, kind) = Of(known, kind) \cup Of(d, kind)
      BY <1>1, <2>1, <2>2, MergeIs
    <3> QED
      BY <3>1, <1>1, <2>2
  <2> HIDE DEF c
  <2>4. /\ Of(c, "address_node_candidates") = {entry} /\ Of(c, "rejections") = {}
        /\ \A kind \in Kinds \ {"rejections", "address_node_candidates"} : Of(c, kind) = {}
    BY <1>2, <2>2, <2>3
  <2> QED
    BY <1>6, <2>3, <2>4 DEF addr, c, entry
<1> QED
  BY <1>3, <1>4, <1>5, <1>6


(* A node may be a place and have an address. *)
LEMMA NodeIs ==
  ASSUME NEW e, e.type = "node"
  PROVE  LET place == Entries(e, "place_node_candidates")
             address == Entries(e, "address_node_candidates")
             refused == Entries(e, "rejections")
             addr == AddrIn(e)
             ranged == Has(addr, "addr:interpolation")
         IN /\ CollectElement(e).required = {}
            /\ \A kind \in Kinds : kind \notin {"place_node_candidates", "rejections",
                                                "address_node_candidates"} => Entries(e, kind) = {}
            /\ place = IF Has(TagsIn(e), "place") THEN {[id |-> e.id, tags |-> TagsIn(e)]} ELSE {}
            /\ \/ addr = NoTags /\ refused = {} /\ address = {}
               \/ /\ addr # NoTags /\ ranged /\ address = {}
                  /\ Refuses(refused, e, "interpolation_unsupported_object", TRUE)
               \/ /\ addr # NoTags /\ ~ranged /\ AddressIssue(addr) # None /\ address = {}
                  /\ Refuses(refused, e, AddressIssue(addr), TRUE)
               \/ /\ addr # NoTags /\ ~ranged /\ AddressIssue(addr) = None
                  /\ refused = {} /\ address = {[id |-> e.id, tags |-> addr]}
<1> DEFINE tags == TagsIn(e)
           entry == [id |-> e.id, tags |-> tags]
           listed == Listed("place_node_candidates", entry)
           place == IF Has(tags, "place") THEN listed ELSE EmptyChunk
           a == AddressOfNode(e, tags)
           found == CollectNode(e, tags)
<1>1. {"place_node_candidates", "rejections", "address_node_candidates"} \subseteq Kinds
  BY DEF Kinds
<1>2. found = Merge(place, a)
  BY DEF CollectNode
<1>3. CollectElement(e) = [found EXCEPT !.scanned = SetToBag({ScannedAs(e)})]
  BY DEF CollectElement, TagsIn
<1>4. /\ Good(place) /\ place.required = {}
      /\ \A kind \in Kinds : Of(place, kind) =
           IF kind = "place_node_candidates" /\ Has(tags, "place")
           THEN {[id |-> e.id, tags |-> tags]} ELSE {}
  <2>1. /\ Good(listed) /\ listed.required = {}
        /\ \A kind \in Kinds : Of(listed, kind) = IF kind = "place_node_candidates" THEN {entry} ELSE {}
    <3> HIDE DEF entry
    <3> QED
      BY <1>1, ListedIs
  <2>2. CASE Has(tags, "place")
    <3>1. place = listed
      BY <2>2
    <3> HIDE DEF place, listed
    <3> QED
      BY <2>1, <2>2, <3>1
  <2>3. CASE ~Has(tags, "place")
    <3>1. place = EmptyChunk
      BY <2>3
    <3> HIDE DEF place
    <3> QED
      BY <2>3, <3>1, EmptyIs
  <2> QED
    BY <2>2, <2>3
<1> HIDE DEF place, found
<1>5. Good(a) /\ a.required = {}
      /\ \A kind \in Kinds \ {"rejections", "address_node_candidates"} : Of(a, kind) = {}
  BY AddressOfNodeIs
<1>6. /\ Good(found) /\ found.required = {}
      /\ \A kind \in Kinds : Of(found, kind) = Of(place, kind) \cup Of(a, kind)
  <2> HIDE DEF a
  <2>1. /\ Good(found) /\ found.required = place.required \cup a.required
        /\ \A kind \in Kinds : Of(found, kind) = Of(place, kind) \cup Of(a, kind)
    BY <1>2, <1>4, <1>5, MergeIs
  <2> QED
    BY <2>1, <1>4, <1>5
<1>7. /\ CollectElement(e).required = found.required
      /\ \A kind \in Kinds : Entries(e, kind) = Of(found, kind)
  BY <1>3, <1>6, ElementIs
<1>8. /\ Entries(e, "rejections") = Of(a, "rejections")
      /\ Entries(e, "address_node_candidates") = Of(a, "address_node_candidates")
      /\ Entries(e, "place_node_candidates") = Of(place, "place_node_candidates")
      /\ \A kind \in Kinds : kind \notin {"place_node_candidates", "rejections",
                                          "address_node_candidates"} => Entries(e, kind) = {}
  <2> HIDE DEF a
  <2> QED
    BY <1>1, <1>4, <1>5, <1>6, <1>7
<1>9. Entries(e, "place_node_candidates") =
        IF Has(tags, "place") THEN {[id |-> e.id, tags |-> tags]} ELSE {}
  BY <1>1, <1>4, <1>8
<1> HIDE DEF tags
<1> QED
  BY <1>6, <1>7, <1>8, <1>9, AddressOfNodeIs DEF a, tags, AddrIn

(* A way with nodes may be a boundary. *)
LEMMA BoundaryOfWayIs ==
  ASSUME NEW e, NEW tags
  PROVE  LET c == BoundaryOfWay(e, tags)
         IN /\ Good(c) /\ \A kind \in Kinds \ {"boundary_way_stubs"} : Of(c, kind) = {}
            /\ \/ c.required = {} /\ Of(c, "boundary_way_stubs") = {}
               \/ /\ e.refs # <<>> /\ c.required = Range(e.refs)
                  /\ Of(c, "boundary_way_stubs") = {StubOf(e, tags)}
<1>1. "boundary_way_stubs" \in Kinds
  BY DEF Kinds
<1>2. CASE HasAdminBoundaryTags(tags) /\ e.refs # <<>>
  <2>1. BoundaryOfWay(e, tags) = Stub("boundary_way_stubs", e, tags)
    BY <1>2 DEF BoundaryOfWay
  <2> QED
    BY <1>1, <1>2, <2>1, StubIs
<1>3. CASE ~(HasAdminBoundaryTags(tags) /\ e.refs # <<>>)
  <2>1. BoundaryOfWay(e, tags) = EmptyChunk
    BY <1>3 DEF BoundaryOfWay
  <2> QED
    BY <1>1, <2>1, EmptyIs
<1> QED
  BY <1>2, <1>3

(* A highway is a stub, or rejected once. *)
LEMMA StreetOfWayIs ==
  ASSUME NEW e, NEW tags
  PROVE  LET c == StreetOfWay(e, tags)
             stubs == Of(c, "street_way_stubs")
             refused == Of(c, "rejections")
         IN /\ Good(c) /\ \A kind \in Kinds \ {"street_way_stubs", "rejections"} : Of(c, kind) = {}
            /\ \/ ~Has(tags, "highway") /\ c.required = {} /\ stubs = {} /\ refused = {}
               \/ /\ Has(tags, "highway") /\ c.required = {} /\ stubs = {}
                  /\ Refuses(refused, e, MissingStreetNameIssue(tags), FALSE)
               \/ /\ Has(tags, "highway") /\ e.refs = <<>> /\ c.required = {} /\ stubs = {}
                  /\ Refuses(refused, e, "street_unresolved_geometry", TRUE)
               \/ /\ Has(tags, "highway") /\ e.refs # <<>> /\ c.required = Range(e.refs)
                  /\ stubs = {StubOf(e, tags)} /\ refused = {}
<1>1. "street_way_stubs" \in Kinds /\ "rejections" \in Kinds
  BY DEF Kinds
<1>2. CASE ~Has(tags, "highway")
  <2>1. StreetOfWay(e, tags) = EmptyChunk
    BY <1>2 DEF StreetOfWay
  <2> QED
    BY <1>1, <1>2, <2>1, EmptyIs
<1>3. CASE Has(tags, "highway") /\ ~Has(tags, "name")
  <2>1. StreetOfWay(e, tags) = ReportOnlyRejection(MissingStreetNameIssue(tags), e, tags)
    BY <1>3 DEF StreetOfWay
  <2> QED
    BY <1>1, <1>3, <2>1, UnauditedIs
<1>4. CASE Has(tags, "highway") /\ Has(tags, "name") /\ e.refs = <<>>
  <2>1. StreetOfWay(e, tags) =
          AuditedRejection("street_unresolved_geometry", e, tags, NoTags, "street")
    BY <1>4 DEF StreetOfWay
  <2> DEFINE c == StreetOfWay(e, tags)
  <2>2. /\ Good(c) /\ c.required = {}
        /\ Refuses(Of(c, "rejections"), e, "street_unresolved_geometry", TRUE)
        /\ \A kind \in Kinds \ {"rejections"} : Of(c, kind) = {}
    BY <2>1, AuditedIs
  <2> HIDE DEF c
  <2>3. Of(c, "street_way_stubs") = {}
    BY <1>1, <2>2
  <2> QED
    BY <1>4, <2>2, <2>3 DEF c
<1>5. CASE Has(tags, "highway") /\ Has(tags, "name") /\ e.refs # <<>>
  <2>1. StreetOfWay(e, tags) = Stub("street_way_stubs", e, tags)
    BY <1>5 DEF StreetOfWay
  <2> DEFINE c == StreetOfWay(e, tags)
  <2>2. /\ Good(c) /\ c.required = Range(e.refs)
        /\ \A kind \in Kinds : Of(c, kind) =
             IF kind = "street_way_stubs" THEN {StubOf(e, tags)} ELSE {}
    BY <1>1, <2>1, StubIs
  <2> HIDE DEF c
  <2>3. Of(c, "street_way_stubs") = {StubOf(e, tags)} /\ Of(c, "rejections") = {}
    BY <1>1, <2>2
  <2> QED
    BY <1>5, <2>2, <2>3 DEF c
<1> QED
  BY <1>2, <1>3, <1>4, <1>5

(* A way's address tags are a stub, or rejected once. *)
LEMMA AddressOfWayIs ==
  ASSUME NEW e, NEW tags
  PROVE  LET c == AddressOfWay(e, tags)
             addr == AddrTags(tags)
             ranged == Has(addr, "addr:interpolation")
             stubs == Of(c, "way_stubs")
             ranges == Of(c, "interpolation_way_stubs")
             refused == Of(c, "rejections")
         IN /\ Good(c)
            /\ \A kind \in Kinds \ {"way_stubs", "interpolation_way_stubs", "rejections"} :
                 Of(c, kind) = {}
            /\ \/ addr = NoTags /\ c.required = {} /\ stubs = {} /\ ranges = {} /\ refused = {}
               \/ /\ addr # NoTags /\ ranged /\ c.required = {} /\ stubs = {} /\ ranges = {}
                  /\ Refuses(refused, e, "interpolation_way_without_nodes", TRUE)
               \/ /\ addr # NoTags /\ ranged /\ e.refs # <<>> /\ c.required = Range(e.refs)
                  /\ stubs = {} /\ ranges = {StubOf(e, tags)} /\ refused = {}
               \/ /\ addr # NoTags /\ ~ranged /\ AddressIssue(addr) # None
                  /\ c.required = {} /\ stubs = {} /\ ranges = {}
                  /\ Refuses(refused, e, AddressIssue(addr), TRUE)
               \/ /\ addr # NoTags /\ ~ranged /\ e.refs = <<>>
                  /\ c.required = {} /\ stubs = {} /\ ranges = {}
                  /\ Refuses(refused, e, "way_without_resolved_nodes", TRUE)
               \/ /\ addr # NoTags /\ ~ranged /\ AddressIssue(addr) = None
                  /\ e.refs # <<>> /\ c.required = Range(e.refs)
                  /\ stubs = {StubOf(e, addr)} /\ ranges = {} /\ refused = {}
<1> DEFINE addr == AddrTags(tags)
           ranged == Has(addr, "addr:interpolation")
           c == AddressOfWay(e, tags)
<1>1. "way_stubs" \in Kinds /\ "interpolation_way_stubs" \in Kinds /\ "rejections" \in Kinds
  BY DEF Kinds
<1>2. CASE addr = NoTags
  <2>1. c = EmptyChunk
    BY <1>2 DEF AddressOfWay
  <2> QED
    BY <1>1, <1>2, <2>1, EmptyIs
<1>3. CASE addr # NoTags /\ ranged /\ e.refs = <<>>
  <2>1. c = AuditedRejection("interpolation_way_without_nodes", e, tags, addr, "interpolation")
    BY <1>3 DEF AddressOfWay, InterpolationOfWay
  <2> QED
    BY <1>1, <1>3, <2>1, AuditedIs
<1>4. CASE addr # NoTags /\ ranged /\ e.refs # <<>>
  <2>1. c = Stub("interpolation_way_stubs", e, tags)
    BY <1>4 DEF AddressOfWay, InterpolationOfWay
  <2>2. /\ Good(c) /\ c.required = Range(e.refs)
        /\ \A kind \in Kinds : Of(c, kind) =
             IF kind = "interpolation_way_stubs" THEN {StubOf(e, tags)} ELSE {}
    BY <1>1, <2>1, StubIs
  <2> HIDE DEF c
  <2>3. Of(c, "way_stubs") = {} /\ Of(c, "interpolation_way_stubs") = {StubOf(e, tags)}
        /\ Of(c, "rejections") = {}
    BY <1>1, <2>2
  <2> HIDE DEF addr
  <2> QED
    BY <1>4, <2>2, <2>3 DEF c, addr
<1>5. CASE addr # NoTags /\ ~ranged /\ AddressIssue(addr) # None
  <2>1. c = AuditedRejection(AddressIssue(addr), e, tags, addr, "address")
    BY <1>5 DEF AddressOfWay
  <2>2. /\ Good(c) /\ c.required = {}
        /\ Refuses(Of(c, "rejections"), e, AddressIssue(addr), TRUE)
        /\ \A kind \in Kinds \ {"rejections"} : Of(c, kind) = {}
    BY <2>1, AuditedIs
  <2> HIDE DEF c
  <2>3. Of(c, "way_stubs") = {} /\ Of(c, "interpolation_way_stubs") = {}
    BY <1>1, <2>2
  <2> HIDE DEF addr
  <2> QED
    BY <1>5, <2>2, <2>3 DEF c, addr
<1>6. CASE addr # NoTags /\ ~ranged /\ AddressIssue(addr) = None /\ e.refs = <<>>
  <2>1. c = RejectionRecord("way_without_resolved_nodes", e, tags, "address")
    BY <1>6 DEF AddressOfWay
  <2>2. /\ Good(c) /\ c.required = {}
        /\ Refuses(Of(c, "rejections"), e, "way_without_resolved_nodes", TRUE)
        /\ \A kind \in Kinds \ {"rejections"} : Of(c, kind) = {}
    BY <2>1, UnauditedIs
  <2> HIDE DEF c
  <2>3. Of(c, "way_stubs") = {} /\ Of(c, "interpolation_way_stubs") = {}
    BY <1>1, <2>2
  <2> HIDE DEF addr
  <2> QED
    BY <1>6, <2>2, <2>3 DEF c, addr
<1>7. CASE addr # NoTags /\ ~ranged /\ AddressIssue(addr) = None /\ e.refs # <<>>
  <2>1. c = Stub("way_stubs", e, addr)
    BY <1>7 DEF AddressOfWay
  <2>2. /\ Good(c) /\ c.required = Range(e.refs)
        /\ \A kind \in Kinds : Of(c, kind) = IF kind = "way_stubs" THEN {StubOf(e, addr)} ELSE {}
    BY <1>1, <2>1, StubIs
  <2> HIDE DEF c
  <2>3. Of(c, "way_stubs") = {StubOf(e, addr)} /\ Of(c, "interpolation_way_stubs") = {}
        /\ Of(c, "rejections") = {}
    BY <1>1, <2>2
  <2> HIDE DEF addr
  <2> QED
    BY <1>7, <2>2, <2>3 DEF c, addr
<1> QED
  BY <1>2, <1>3, <1>4, <1>5, <1>6, <1>7

(* A way may be a boundary, a street and an address at once. *)
LEMMA WayIs ==
  ASSUME NEW e, e.type = "way"
  PROVE  LET boundary == BoundaryOfWay(e, TagsIn(e))
             street == StreetOfWay(e, TagsIn(e))
             address == AddressOfWay(e, TagsIn(e))
         IN /\ CollectElement(e).required =
                 boundary.required \cup street.required \cup address.required
            /\ Entries(e, "boundary_way_stubs") = Of(boundary, "boundary_way_stubs")
            /\ Entries(e, "street_way_stubs") = Of(street, "street_way_stubs")
            /\ Entries(e, "way_stubs") = Of(address, "way_stubs")
            /\ Entries(e, "interpolation_way_stubs") = Of(address, "interpolation_way_stubs")
            /\ Entries(e, "rejections") = Of(street, "rejections") \cup Of(address, "rejections")
            /\ \A kind \in Kinds :
                 kind \notin {"boundary_way_stubs", "street_way_stubs", "way_stubs",
                              "interpolation_way_stubs", "rejections"} => Entries(e, kind) = {}
<1> DEFINE tags == TagsIn(e)
           b == BoundaryOfWay(e, tags)
           s == StreetOfWay(e, tags)
           a == AddressOfWay(e, tags)
           rest == Merge(s, a)
           found == CollectWay(e, tags)
<1>1. {"boundary_way_stubs", "street_way_stubs", "way_stubs", "interpolation_way_stubs",
       "rejections"} \subseteq Kinds
  BY DEF Kinds
<1>2. found = Merge(b, rest)
  BY DEF CollectWay
<1>3. CollectElement(e) = [found EXCEPT !.scanned = SetToBag({ScannedAs(e)})]
  BY DEF CollectElement, TagsIn
<1>4. Good(b) /\ \A kind \in Kinds \ {"boundary_way_stubs"} : Of(b, kind) = {}
  BY BoundaryOfWayIs
<1>5. Good(s) /\ \A kind \in Kinds \ {"street_way_stubs", "rejections"} : Of(s, kind) = {}
  BY StreetOfWayIs
<1>6. /\ Good(a)
      /\ \A kind \in Kinds \ {"way_stubs", "interpolation_way_stubs", "rejections"} : Of(a, kind) = {}
  BY AddressOfWayIs
<1> HIDE DEF b, s, a
<1>7. /\ Good(rest) /\ rest.required = s.required \cup a.required
      /\ \A kind \in Kinds : Of(rest, kind) = Of(s, kind) \cup Of(a, kind)
  BY <1>5, <1>6, MergeIs
<1> HIDE DEF rest
<1>8. /\ Good(found) /\ found.required = b.required \cup rest.required
      /\ \A kind \in Kinds : Of(found, kind) = Of(b, kind) \cup Of(rest, kind)
  BY <1>2, <1>4, <1>7, MergeIs
<1> HIDE DEF found
<1>9. /\ CollectElement(e).required = found.required
      /\ \A kind \in Kinds : Entries(e, kind) = Of(found, kind)
  BY <1>3, <1>8, ElementIs
<1>10. /\ CollectElement(e).required = b.required \cup s.required \cup a.required
       /\ \A kind \in Kinds : Entries(e, kind) = Of(b, kind) \cup Of(s, kind) \cup Of(a, kind)
  BY <1>7, <1>8, <1>9
<1>11. /\ Entries(e, "boundary_way_stubs") = Of(b, "boundary_way_stubs")
       /\ Entries(e, "street_way_stubs") = Of(s, "street_way_stubs")
       /\ Entries(e, "way_stubs") = Of(a, "way_stubs")
       /\ Entries(e, "interpolation_way_stubs") = Of(a, "interpolation_way_stubs")
       /\ Entries(e, "rejections") = Of(s, "rejections") \cup Of(a, "rejections")
       /\ \A kind \in Kinds :
            kind \notin {"boundary_way_stubs", "street_way_stubs", "way_stubs",
                         "interpolation_way_stubs", "rejections"} => Entries(e, kind) = {}
  BY <1>1, <1>4, <1>5, <1>6, <1>10
<1> QED
  BY <1>10, <1>11 DEF b, s, a

(* A relation is a boundary or rejected. *)
LEMMA RelationIs ==
  ASSUME NEW e, e.type = "relation"
  PROVE  LET stubs == Entries(e, "boundary_relation_stubs")
             refused == Entries(e, "rejections")
         IN /\ CollectElement(e).required = {}
            /\ \A kind \in Kinds : kind \notin {"boundary_relation_stubs", "rejections"}
                                     => Entries(e, kind) = {}
            /\ \A stub \in stubs : stub.id = e.id /\ stub.tags = TagsIn(e)
            /\ \/ /\ HasAdminBoundaryTags(TagsIn(e)) \/ AddrIn(e) = NoTags
                  /\ refused = {}
               \/ /\ ~HasAdminBoundaryTags(TagsIn(e)) /\ AddrIn(e) # NoTags
                  /\ \E issue \in {"interpolation_unsupported_object", "unsupported_relation"} :
                       Refuses(refused, e, issue, TRUE)
<1> DEFINE tags == TagsIn(e)
           addr == AddrTags(tags)
           members == BoundaryMembers(e)
           entry == [id |-> e.id, members |-> members, tags |-> tags]
           found == CollectRelation(e, tags)
<1>1. "boundary_relation_stubs" \in Kinds /\ "rejections" \in Kinds
  BY DEF Kinds
<1>2. CollectElement(e) = [found EXCEPT !.scanned = SetToBag({ScannedAs(e)})]
  BY DEF CollectElement, TagsIn
<1>3. /\ Good(found) /\ found.required = {}
      /\ \A kind \in Kinds : kind \notin {"boundary_relation_stubs", "rejections"}
                               => Of(found, kind) = {}
      /\ \A stub \in Of(found, "boundary_relation_stubs") : stub.id = e.id /\ stub.tags = tags
      /\ \/ (HasAdminBoundaryTags(tags) \/ addr = NoTags) /\ Of(found, "rejections") = {}
         \/ /\ ~HasAdminBoundaryTags(tags) /\ addr # NoTags
            /\ \E issue \in {"interpolation_unsupported_object", "unsupported_relation"} :
                 Refuses(Of(found, "rejections"), e, issue, TRUE)
  <2>1. CASE HasAdminBoundaryTags(tags) /\ members # <<>>
    <3>1. found = Listed("boundary_relation_stubs", entry)
      BY <2>1 DEF CollectRelation
    <3>2. entry.id = e.id /\ entry.tags = tags
      OBVIOUS
    <3> HIDE DEF found, entry
    <3>3. /\ Good(found) /\ found.required = {}
          /\ \A kind \in Kinds : Of(found, kind) =
               IF kind = "boundary_relation_stubs" THEN {entry} ELSE {}
      BY <1>1, <3>1, ListedIs
    <3> HIDE DEF tags
    <3> QED
      BY <1>1, <2>1, <3>2, <3>3
  <2>2. CASE ~HasAdminBoundaryTags(tags) /\ addr # NoTags
    <3> DEFINE ranged == Has(addr, "addr:interpolation")
               issue == IF ranged THEN "interpolation_unsupported_object" ELSE "unsupported_relation"
               hint == IF ranged THEN "interpolation" ELSE "address"
    <3>1. found = AuditedRejection(issue, e, tags, addr, hint)
      BY <2>2 DEF CollectRelation
    <3>2. issue \in {"interpolation_unsupported_object", "unsupported_relation"}
      OBVIOUS
    <3> HIDE DEF found, issue, hint
    <3>3. /\ Good(found) /\ found.required = {}
          /\ Refuses(Of(found, "rejections"), e, issue, TRUE)
          /\ \A kind \in Kinds \ {"rejections"} : Of(found, kind) = {}
      BY <3>1, AuditedIs
    <3> QED
      BY <1>1, <2>2, <3>2, <3>3
  <2>3. CASE /\ ~(HasAdminBoundaryTags(tags) /\ members # <<>>)
             /\ ~(~HasAdminBoundaryTags(tags) /\ addr # NoTags)
    <3>1. found = EmptyChunk
      BY <2>3 DEF CollectRelation
    <3> HIDE DEF found, members
    <3> QED
      BY <1>1, <2>3, <3>1, EmptyIs
  <2> QED
    BY <2>1, <2>2, <2>3
<1> HIDE DEF found
<1>4. /\ CollectElement(e).required = found.required
      /\ \A kind \in Kinds : Entries(e, kind) = Of(found, kind)
  BY <1>2, <1>3, ElementIs
<1> QED
  BY <1>1, <1>3, <1>4 DEF AddrIn


-----------------------------------------------------------------------------
(* What the scan hands on *)

All(f, kind) == UNION {Entries(e, kind) : e \in Range(Elements(f))}

(* The rejections of the scan, in their order. *)
Refused(f) == Sorted("rejections", BlockChunk(Elements(f)).lists["rejections"])

LEMMA SortedLists ==
  ASSUME NEW kind, NEW S, NEW list, Lists(kind, list, S)
  PROVE  Lists(kind, Sorted(kind, list), S)
<1> DEFINE At(n) == CHOOSE x \in S : PlaceOf(kind, S, x) = n
           sorted == Sorted(kind, list)
           N == Cardinality(S)
<1>1. /\ sorted = [n \in 1..N |-> At(n)] /\ sorted \in Seq(S) /\ Range(sorted) = S
  BY SortedByPlace
<1>2. /\ IsFiniteSet(S) /\ N \in Nat
      /\ \A x \in S : SortKey(kind, x) \in Keys
      /\ \A x, y \in S : SortKey(kind, x) = SortKey(kind, y) => x = y
  BY ListCounts DEF Lists
<1>3. \A n \in 1..N : At(n) \in S /\ PlaceOf(kind, S, At(n)) = n
  BY <1>2, PlacesDiffer
<1> HIDE DEF At
<1>4. Len(sorted) = N /\ \A n \in 1..N : sorted[n] = At(n)
  <2> HIDE DEF sorted
  <2>0. sorted = [n \in 1..N |-> At(n)] /\ sorted \in Seq(S)
    BY <1>1
  <2> HIDE DEF N
  <2>1. DOMAIN sorted = 1..N /\ \A n \in 1..N : sorted[n] = At(n)
    BY <2>0
  <2>2. DOMAIN sorted = 1..Len(sorted) /\ Len(sorted) \in Nat
    <3>1. sorted \in Seq(S)
      BY <2>0
    <3> QED
      BY <3>1
  <2>3. Len(sorted) = N
    BY <2>1, <2>2, <1>2
  <2> QED
    BY <2>1, <2>3
<1> HIDE DEF sorted
<1>5. ASSUME NEW i \in 1..N, NEW j \in 1..N, SortKey(kind, sorted[i]) = SortKey(kind, sorted[j])
      PROVE  i = j
  <2>1. At(i) = At(j)
    BY <1>2, <1>3, <1>4, <1>5
  <2> QED
    BY <1>3, <2>1
<1>6. Lists(kind, sorted, S)
  BY <1>1, <1>2, <1>4, <1>5 DEF Lists
<1> QED
  BY <1>6 DEF sorted

LEMMA FoundIs ==
  ASSUME NEW f \in Files
  PROVE  LET result == DiscoveryResult(BlockChunk(Elements(f)))
         IN /\ \A kind \in Kinds \ {"rejections"} : Lists(kind, result.lists[kind], All(f, kind))
            /\ Lists("rejections", Refused(f), All(f, "rejections"))
            /\ result.lists["rejections"] =
                 Kept(Refused(f), {r \in Range(Refused(f)) : r.write})
            /\ result.report = ReportOf(Refused(f))
            /\ result.required = UNION {CollectElement(e).required : e \in Range(Elements(f))}
<1> DEFINE c == BlockChunk(Elements(f))
           E == Range(Elements(f))
           result == DiscoveryResult(c)
           sorted == SortDiscoveryChunk(c)
           all(kind) == UNION {Entries(e, kind) : e \in E}
<1>1. Gathers(c, E)
  BY FileElements
<1>2. IsChunk(c) /\ \A kind \in Kinds : Lists(kind, c.lists[kind], all(kind))
  BY <1>1 DEF Gathers
<1> HIDE DEF c, E
<1>3. /\ sorted.lists = [kind \in Kinds |-> Sorted(kind, c.lists[kind])]
      /\ sorted.required = c.required
  BY <1>2 DEF SortDiscoveryChunk, IsChunk
<1>4. "rejections" \in Kinds
  BY DEF Kinds
<1> DEFINE R == Sorted("rejections", c.lists["rejections"])
           kept == Kept(R, {r \in Range(R) : r.write})
<1>5. /\ result.lists = [sorted.lists EXCEPT !["rejections"] = kept]
      /\ result.report = ReportOf(R) /\ result.required = c.required
  <2>1. sorted.lists["rejections"] = R
    BY <1>3, <1>4
  <2> HIDE DEF sorted, R
  <2> QED
    BY <1>3, <2>1 DEF DiscoveryResult, sorted
<1> HIDE DEF sorted, result, kept
<1>6. /\ result.lists["rejections"] = kept
      /\ \A kind \in Kinds \ {"rejections"} : result.lists[kind] = Sorted(kind, c.lists[kind])
  BY <1>3, <1>4, <1>5
<1>7. \A kind \in Kinds : Lists(kind, Sorted(kind, c.lists[kind]), all(kind))
  BY <1>2, SortedLists
<1>8. result.required = UNION {CollectElement(e).required : e \in E}
  BY <1>1, <1>5 DEF Gathers
<1>9. Refused(f) = R
  BY DEF Refused, c
<1> HIDE DEF R
<1>10. Lists("rejections", R, all("rejections"))
  BY <1>4, <1>7 DEF R
<1> QED
  BY <1>5, <1>6, <1>7, <1>8, <1>9, <1>10 DEF result, c, E, All, kept

(* The rejections of the scan are reported as they are. *)
LEMMA ReportedByScan ==
  ASSUME ScanInv, Discover
  PROVE  reported' = [i \in DOMAIN Refused(file) |->
                        <<Refused(file)[i].source, Refused(file)[i].issue>>]
<1> DEFINE c == BlockChunk(Elements(file))
           R == Sorted("rejections", Reduced.lists["rejections"])
           all == UNION {Entries(e, "rejections") : e \in InBlocks(file, 1..Len(file))}
<1>1. file \in Files /\ Gathers(c, InBlocks(file, 1..Len(file)))
  BY FileElements DEF ScanInv
<1>2. Gathers(Reduced, InBlocks(file, 1..Len(file)))
  BY ReducedGathers
<1>3. "rejections" \in Kinds
  BY DEF Kinds
<1>4. Lists("rejections", Reduced.lists["rejections"], all)
  BY <1>2, <1>3 DEF Gathers
<1>5. Lists("rejections", c.lists["rejections"], all)
  BY <1>1, <1>3 DEF Gathers
<1>6. R = Sorted("rejections", c.lists["rejections"])
  <2> HIDE DEF all, c
  <2> QED
    BY <1>4, <1>5, SortedByPlace
<1>7. R = Refused(file)
  BY <1>6 DEF Refused
<1>8. reported' = [i \in DOMAIN R |-> <<R[i].source, R[i].issue>>]
  BY DEF Discover
<1> HIDE DEF R
<1> QED
  BY <1>7, <1>8


-----------------------------------------------------------------------------
(* A build step by step *)

Early == {"scan", "members", "locations", "areas"}

(* Every stub of a way has the nodes of a way of the file, and asks for     *)
(* their positions.                                                         *)
WayKinds == {"way_stubs", "interpolation_way_stubs", "street_way_stubs", "boundary_way_stubs"}

BuildInv ==
  /\ ScanInv
  /\ at \in Nat
  /\ IsSeq(rows) /\ IsSeq(reported) /\ IsSeq(rejectionRows)
  /\ stage \notin {"scan", "members", "locations"} =>
       located = {n.id : n \in InFile("node")} \cap RequiredNodes
  /\ stage \notin Early => IsSeq(built) /\ Range(built) \subseteq Range(Candidates)

LEMMA StubsAre ==
  ASSUME ScanInv, stage # "scan"
  PROVE  /\ \A kind \in Kinds \ {"rejections"} : Lists(kind, Stubs(kind), All(file, kind))
         /\ Lists("rejections", Refused(file), All(file, "rejections"))
         /\ Stubs("rejections") = Kept(Refused(file), {r \in Range(Refused(file)) : r.write})
         /\ discovery.required = UNION {CollectElement(e).required : e \in Range(Elements(file))}
         /\ \A kind \in Kinds : IsSeq(Stubs(kind))
<1>1. /\ \A kind \in Kinds \ {"rejections"} : Lists(kind, Stubs(kind), All(file, kind))
      /\ Lists("rejections", Refused(file), All(file, "rejections"))
      /\ Stubs("rejections") = Kept(Refused(file), {r \in Range(Refused(file)) : r.write})
      /\ discovery.required = UNION {CollectElement(e).required : e \in Range(Elements(file))}
  BY FoundIs DEF ScanInv, Stubs
<1>2. \A kind \in Kinds \ {"rejections"} : IsSeq(Stubs(kind))
  BY <1>1 DEF Lists, IsSeq
<1>3. IsSeq(Refused(file))
  BY <1>1 DEF Lists, IsSeq
<1>4. IsSeq(Stubs("rejections"))
  BY <1>1, <1>3, KeptIs
<1> QED
  BY <1>1, <1>2, <1>4

(* The elements of the file. *)
LEMMA FileIs ==
  ASSUME ScanInv
  PROVE  /\ file \in Files /\ Distinct(Range(Elements(file)))
         /\ \A e \in Range(Elements(file)) :
              e.type \in {"node", "way", "relation"} /\ e.id \in Int /\ e.refs \in Seq(Int)
<1>1. file \in Files
  BY DEF ScanInv
<1>2. Distinct(Range(Elements(file)))
  BY <1>1, FileElements
<1> QED
  BY <1>1, <1>2, FilesAssumption

(* Only ways have stubs of ways. *)
LEMMA WayStubsAre ==
  ASSUME ScanInv, stage # "scan", NEW kind \in WayKinds, NEW stub \in Range(Stubs(kind))
  PROVE  \E w \in InFile("way") :
           /\ stub.id = w.id /\ stub.refs = w.refs /\ w.refs # <<>>
           /\ Range(w.refs) \subseteq discovery.required
           /\ stub.tags = IF kind = "way_stubs" THEN AddrIn(w) ELSE TagsIn(w)
<1>1. kind \in Kinds \ {"rejections"}
  BY DEF WayKinds, Kinds
<1>2. stub \in All(file, kind)
  BY <1>1, StubsAre DEF Lists
<1>3. PICK e \in Range(Elements(file)) : stub \in Entries(e, kind)
  BY <1>2 DEF All
<1>4. e.type = "way"
  <2>1. e.type \in {"node", "way", "relation"}
    BY FileIs
  <2>2. CASE e.type = "node"
    <3>1. Entries(e, kind) = {}
      BY <1>1, <2>2, NodeIs DEF WayKinds
    <3> QED
      BY <1>3, <3>1
  <2>3. CASE e.type = "relation"
    <3>1. Entries(e, kind) = {}
      BY <1>1, <2>3, RelationIs DEF WayKinds
    <3> QED
      BY <1>3, <3>1
  <2> QED
    BY <2>1, <2>2, <2>3
<1> DEFINE tags == TagsIn(e)
           b == BoundaryOfWay(e, tags)
           s == StreetOfWay(e, tags)
           a == AddressOfWay(e, tags)
           Fits(c, k) ==
             \/ Of(c, k) = {}
             \/ /\ e.refs # <<>> /\ c.required = Range(e.refs)
                /\ Of(c, k) = {StubOf(e, IF k = "way_stubs" THEN AddrTags(tags) ELSE tags)}
<1>5. Fits(b, "boundary_way_stubs")
  <2>1. \/ Of(b, "boundary_way_stubs") = {}
        \/ /\ e.refs # <<>> /\ b.required = Range(e.refs)
           /\ Of(b, "boundary_way_stubs") = {StubOf(e, tags)}
    BY BoundaryOfWayIs
  <2> HIDE DEF b, tags
  <2> QED
    BY <2>1
<1>6. Fits(s, "street_way_stubs")
  <2>1. \/ Of(s, "street_way_stubs") = {}
        \/ /\ e.refs # <<>> /\ s.required = Range(e.refs)
           /\ Of(s, "street_way_stubs") = {StubOf(e, tags)}
    BY StreetOfWayIs
  <2> HIDE DEF s, tags
  <2> QED
    BY <2>1
<1>7. Fits(a, "way_stubs") /\ Fits(a, "interpolation_way_stubs")
  <2>1. \/ Of(a, "way_stubs") = {}
        \/ /\ e.refs # <<>> /\ a.required = Range(e.refs)
           /\ Of(a, "way_stubs") = {StubOf(e, AddrTags(tags))}
    BY AddressOfWayIs
  <2>2. \/ Of(a, "interpolation_way_stubs") = {}
        \/ /\ e.refs # <<>> /\ a.required = Range(e.refs)
           /\ Of(a, "interpolation_way_stubs") = {StubOf(e, tags)}
    BY AddressOfWayIs
  <2> HIDE DEF a, tags
  <2> QED
    BY <2>1, <2>2
<1>8. /\ CollectElement(e).required = b.required \cup s.required \cup a.required
      /\ Entries(e, "boundary_way_stubs") = Of(b, "boundary_way_stubs")
      /\ Entries(e, "street_way_stubs") = Of(s, "street_way_stubs")
      /\ Entries(e, "way_stubs") = Of(a, "way_stubs")
      /\ Entries(e, "interpolation_way_stubs") = Of(a, "interpolation_way_stubs")
  BY <1>4, WayIs
<1> HIDE DEF b, s, a
<1>9. \E c \in {b, s, a} : Entries(e, kind) = Of(c, kind) /\ Fits(c, kind)
  BY <1>5, <1>6, <1>7, <1>8 DEF WayKinds
<1>10. /\ e.refs # <<>> /\ Range(e.refs) \subseteq CollectElement(e).required
       /\ stub = StubOf(e, IF kind = "way_stubs" THEN AddrTags(tags) ELSE tags)
  BY <1>3, <1>8, <1>9
<1>11. stub.id = e.id /\ stub.refs = e.refs
       /\ stub.tags = IF kind = "way_stubs" THEN AddrIn(e) ELSE TagsIn(e)
  BY <1>10 DEF StubOf, AddrIn
<1>12. CollectElement(e).required \subseteq discovery.required
  BY StubsAre
<1>13. e \in InFile("way")
  BY <1>4 DEF InFile
<1> QED
  BY <1>10, <1>11, <1>12, <1>13

(* Neither has a relation a stub of another kind than its own. *)
LEMMA CandidatesAre ==
  ASSUME ScanInv, stage # "scan"
  PROVE  /\ IsSeq(Candidates)
         /\ \A c \in Range(Candidates) :
              \/ \E stub \in Range(Stubs("boundary_way_stubs")) :
                   MayBuildWay(stub) /\ c = Candidate("way", stub)
              \/ \E stub \in Range(Stubs("boundary_relation_stubs")) :
                   c = Candidate("relation", stub)
<1> DEFINE In(type, kind, S) ==
             LET kept == Kept(Stubs(kind), S)
             IN [i \in DOMAIN kept |-> Candidate(type, kept[i])]
           ways      == {s \in Range(Stubs("boundary_way_stubs")) : MayBuildWay(s)}
           relations == {s \in Range(Stubs("boundary_relation_stubs")) : MayBuildRelation(s)}
           w == In("way", "boundary_way_stubs", ways)
           r == In("relation", "boundary_relation_stubs", relations)
<1>1. Candidates = w \o r
  BY DEF Candidates
<1>2. ASSUME NEW type, NEW kind \in Kinds, NEW S
      PROVE  /\ IsSeq(In(type, kind, S))
             /\ \A c \in Range(In(type, kind, S)) :
                  \E stub \in Range(Stubs(kind)) \cap S : c = Candidate(type, stub)
  <2> DEFINE kept == Kept(Stubs(kind), S)
             list == In(type, kind, S)
             T == {Candidate(type, stub) : stub \in Range(Stubs(kind)) \cap S}
  <2>1. IsSeq(kept) /\ Range(kept) = Range(Stubs(kind)) \cap S
    BY StubsAre, KeptIs
  <2>2. list = [i \in DOMAIN kept |-> Candidate(type, kept[i])]
    OBVIOUS
  <2> HIDE DEF kept, list
  <2>3. DOMAIN kept = 1..Len(kept) /\ Len(kept) \in Nat /\ \A i \in DOMAIN kept : kept[i] \in Range(kept)
    BY <2>1, SeqIs
  <2>4. list \in [1..Len(kept) -> T]
    BY <2>1, <2>2, <2>3
  <2>5. list \in Seq(T)
    <3> HIDE DEF T
    <3> QED
      BY <2>3, <2>4, FunctionIsSeq
  <2>6. IsSeq(list) /\ Range(list) \subseteq T
    <3> HIDE DEF T
    <3> QED
      BY <2>5, ListOver
  <2> QED
    BY <2>6 DEF list
<1>3. "boundary_way_stubs" \in Kinds /\ "boundary_relation_stubs" \in Kinds
  BY DEF Kinds
<1> HIDE DEF In
<1>4. /\ IsSeq(w) /\ IsSeq(r)
      /\ \A c \in Range(w) : \E stub \in Range(Stubs("boundary_way_stubs")) \cap ways :
           c = Candidate("way", stub)
      /\ \A c \in Range(r) : \E stub \in Range(Stubs("boundary_relation_stubs")) \cap relations :
           c = Candidate("relation", stub)
  BY <1>2, <1>3
<1>5. IsSeq(w \o r) /\ Range(w \o r) = Range(w) \cup Range(r)
  BY <1>4, ConcatIs
<1> HIDE DEF w, r
<1> QED
  BY <1>1, <1>4, <1>5

-----------------------------------------------------------------------------
(* The progress of a build *)

(* The actions after the scan and before the loops. *)
Preparing == Scan \/ Discover \/ ResolveBoundaryWays \/ ResolveNodeLocations \/ BuildBoundaries

(* A list stays or has one more item. *)
Grows(new, old) == new = old \/ \E x : new = Append(old, x)

LEMMA LoopSteps ==
  ASSUME Next, ~Preparing, at \in Nat
  PROVE  /\ UNCHANGED <<scanVars, places>> /\ at' \in Nat
         /\ stage \notin Early /\ stage' \notin Early
         /\ Grows(rows', rows) /\ Grows(reported', reported) /\ Grows(rejectionRows', rejectionRows)
<1>1. CASE NextStage
  <2>1. stage \in Loops /\ stage' = Following(stage) /\ UNCHANGED scanVars /\ at' = 0
        /\ UNCHANGED <<places, output>>
    BY <1>1 DEF NextStage
  <2>2. stage \in {"boundaries", "rejections", "places", "address nodes", "address ways",
                   "postcodes", "interpolation", "streets"}
    BY <2>1 DEF Loops, ListOf
  <2>3. stage' \notin Early /\ stage \notin Early
    BY <2>1, <2>2 DEF Following, Early
  <2> QED
    BY <2>1, <2>3 DEF output, Grows
<1>2. CASE Finished
  BY <1>2 DEF Finished, vars, Early, output, Grows
<1>3. ASSUME NEW s, s \notin Early, Emit(s)
      PROVE  /\ UNCHANGED <<scanVars, places>> /\ at' \in Nat
             /\ stage \notin Early /\ stage' \notin Early
  BY <1>3 DEF Emit
<1>4. "boundaries" \notin Early /\ "rejections" \notin Early /\ "places" \notin Early
      /\ "address nodes" \notin Early /\ "address ways" \notin Early /\ "postcodes" \notin Early
      /\ "interpolation" \notin Early /\ "streets" \notin Early
  BY DEF Early
<1>5. CASE WriteBoundaryRecord \/ WritePostcode
  BY <1>3, <1>4, <1>5 DEF WriteBoundaryRecord, WritePostcode, Accept, Grows
<1>6. CASE WriteRejections
  BY <1>3, <1>4, <1>6 DEF WriteRejections, WriteRejectedRecord, Grows
<1>7. CASE WritePlaceNode
  BY <1>3, <1>4, <1>7 DEF WritePlaceNode, Accept, Reject, Grows
<1>8. CASE WriteAddressNode
  BY <1>3, <1>4, <1>8 DEF WriteAddressNode, WriteCandidate, Accept, Grows
<1>9. CASE WriteAddressWay
  BY <1>3, <1>4, <1>9 DEF WriteAddressWay, WriteCandidate, Accept, Grows
<1>10. CASE RejectAddressWay
  BY <1>3, <1>4, <1>10 DEF RejectAddressWay, Reject, WriteRejectedRecord, Grows
<1>11. CASE RejectInterpolationWay
  BY <1>3, <1>4, <1>11 DEF RejectInterpolationWay, Reject, WriteRejectedRecord, Grows
<1>0. ASSUME DecidePair
      PROVE  /\ UNCHANGED <<scanVars, places>> /\ at' \in Nat
             /\ stage \notin Early /\ stage' \notin Early
  <2>1. UNCHANGED <<scanVars, places>> /\ stage = "interpolation" /\ stage' = stage
    BY <1>0 DEF DecidePair
  <2>2. at' = at + 1 \/ at' = at
    BY <1>0 DEF DecidePair
  <2>3. stage \notin Early /\ stage' \notin Early
    BY <2>1, <1>4
  <2>4. at' \in Nat
    BY <2>2
  <2> QED
    BY <2>1, <2>3, <2>4
<1>12. CASE WriteInterpolation
  <2>1. DecidePair /\ \E row, counted : Accept(row, counted)
    BY <1>12 DEF WriteInterpolation
  <2> QED
    BY <1>0, <2>1 DEF Accept, Grows
<1>13. ASSUME NEW issue, RejectInterpolation(issue)
       PROVE  /\ UNCHANGED <<scanVars, places>> /\ at' \in Nat
              /\ stage \notin Early /\ stage' \notin Early
              /\ Grows(rows', rows) /\ Grows(reported', reported)
              /\ Grows(rejectionRows', rejectionRows)
  <2>1. /\ DecidePair
        /\ \E rejection : Reject(rejection) /\ WriteRejectedRecord(rejection)
    BY <1>13 DEF RejectInterpolation
  <2> QED
    BY <1>0, <2>1 DEF Reject, WriteRejectedRecord, Grows
<1>14. CASE WriteStreet
  BY <1>3, <1>4, <1>14 DEF WriteStreet, Accept, Grows
<1>15. CASE RejectStreet
  BY <1>3, <1>4, <1>15 DEF RejectStreet, Reject, WriteRejectedRecord, Grows
<1> QED
  BY <1>1, <1>2, <1>5, <1>6, <1>7, <1>8, <1>9, <1>10, <1>11, <1>12, <1>13, <1>14, <1>15
     DEF Next, Preparing


LEMMA GrowsIsSeq ==
  ASSUME NEW s, NEW t, IsSeq(s), Grows(t, s)
  PROVE  IsSeq(t)
<1>1. CASE t = s
  BY <1>1
<1>2. CASE \E x : t = Append(s, x)
  <2>1. PICK x : t = Append(s, x)
    BY <1>2
  <2> QED
    BY <2>1, AppendIs
<1> QED
  BY <1>1, <1>2 DEF Grows

LEMMA ScanSteps ==
  ASSUME ScanInv, Scan \/ Discover
  PROVE  /\ stage = "scan" /\ stage' \in {"scan", "members"} /\ UNCHANGED <<at, rows, rejectionRows, groups, places>>
         /\ IsSeq(reported) => IsSeq(reported')
<1>1. CASE Scan
  BY <1>1 DEF Scan, output
<1>2. CASE Discover
  <2> DEFINE R == Refused(file)
             told == [i \in DOMAIN R |-> <<R[i].source, R[i].issue>>]
             T == {<<r.source, r.issue>> : r \in Range(R)}
  <2>1. reported' = told
    BY <1>2, ReportedByScan
  <2>2. IsSeq(R)
    <3>1. file \in Files
      BY DEF ScanInv
    <3>2. Lists("rejections", R, All(file, "rejections"))
      BY <3>1, FoundIs
    <3> QED
      BY <3>2 DEF Lists, IsSeq
  <2> HIDE DEF R
  <2>3. DOMAIN R = 1..Len(R) /\ Len(R) \in Nat /\ \A i \in 1..Len(R) : R[i] \in Range(R)
    BY <2>2, SeqIs
  <2>4. told \in [1..Len(R) -> T]
    BY <2>3
  <2>5. told \in Seq(T)
    <3> HIDE DEF T, told
    <3> QED
      BY <2>3, <2>4, FunctionIsSeq
  <2>6. IsSeq(told)
    <3> HIDE DEF T, told
    <3> QED
      BY <2>5, ListOver
  <2>7. /\ stage = "scan" /\ stage' = "members"
        /\ UNCHANGED <<at, rows, rejectionRows, groups, places>>
    BY <1>2 DEF Discover
  <2> HIDE DEF told
  <2> QED
    BY <2>1, <2>6, <2>7
<1> QED
  BY <1>1, <1>2

(* What is worked out from the scan and the positions stays. *)
LEMMA DerivedStay ==
  ASSUME UNCHANGED <<scanVars, places>>
  PROVE  /\ Candidates' = Candidates /\ RequiredNodes' = RequiredNodes
         /\ \A type : InFile(type)' = InFile(type)
         /\ \A kind : Stubs(kind)' = Stubs(kind)
         /\ \A refs : Resolved(refs)' = Resolved(refs)
         /\ \A stub : WayIssue(stub)' = WayIssue(stub)
         /\ located' = located /\ memberRefs' = memberRefs /\ built' = built /\ file' = file
         /\ discovery' = discovery
<1>1. located' = located /\ memberRefs' = memberRefs /\ built' = built /\ file' = file
      /\ discovery' = discovery
  BY DEF scanVars, places
<1>2. Candidates' = Candidates
  BY <1>1 DEF Candidates, Stubs, MayBuildWay, MayBuildRelation, Resolved, Candidate
<1> QED
  BY <1>1, <1>2 DEF RequiredNodes, InFile, Stubs, Resolved, WayIssue, Anchors, Numbered

LEMMA BuildInvariant == Spec => []BuildInv
<1>1. Init => BuildInv
  <2> SUFFICES ASSUME Init PROVE BuildInv
    OBVIOUS
  <2>1. ScanInv
    <3>1. file \in Files /\ unread = 1..Len(file) /\ partials = {} /\ discovery = None
          /\ stage = "scan"
      BY DEF Init, ScanInit
    <3>2. Partitioned
      BY <3>1, FS_EmptySet DEF Partitioned
    <3> QED
      BY <3>1, <3>2 DEF ScanInv
  <2> QED
    BY <2>1, NoneIsSeq DEF Init, BuildInv, Early
<1>2. BuildInv /\ ScanInv' /\ [Next]_vars => BuildInv'
  <2> SUFFICES ASSUME BuildInv, ScanInv', [Next]_vars PROVE BuildInv'
    OBVIOUS
  <2> USE DEF Early
  <2>1. CASE Scan \/ Discover
    <3>1. ScanInv
      BY DEF BuildInv
    <3>2. /\ stage = "scan" /\ stage' \in {"scan", "members"}
          /\ UNCHANGED <<at, rows, rejectionRows, groups, places>>
          /\ IsSeq(reported')
      BY <2>1, <3>1, ScanSteps DEF BuildInv
    <3> QED
      BY <3>2 DEF BuildInv, IsSeq
  <2>2. CASE ResolveBoundaryWays
    <3>1. stage' = "locations" /\ UNCHANGED <<at, output>>
      BY <2>2 DEF ResolveBoundaryWays
    <3> QED
      BY <3>1 DEF BuildInv, output, IsSeq
  <2>3. CASE ResolveNodeLocations
    <3>1. /\ stage' = "areas" /\ UNCHANGED <<scanVars, at, memberRefs, output>>
          /\ located' = {n.id : n \in InFile("node")} \cap RequiredNodes
      BY <2>3 DEF ResolveNodeLocations
    <3>2. InFile("node")' = InFile("node") /\ RequiredNodes' = RequiredNodes
      BY <3>1 DEF InFile, RequiredNodes, scanVars
    <3> QED
      BY <3>1, <3>2 DEF BuildInv, output, IsSeq
  <2>4. CASE BuildBoundaries
    <3>1. /\ stage = "areas" /\ stage' = "boundaries"
          /\ UNCHANGED <<scanVars, at, memberRefs, located, output>>
      BY <2>4 DEF BuildBoundaries
    <3>2. PICK areas : built' = Kept(Candidates, areas)
      BY <2>4 DEF BuildBoundaries
    <3>3. IsSeq(Candidates)
      BY <3>1, CandidatesAre DEF BuildInv
    <3>4. IsSeq(built') /\ Range(built') \subseteq Range(Candidates)
      BY <3>2, <3>3, KeptIs
    <3>5. Candidates' = Candidates /\ InFile("node")' = InFile("node")
          /\ RequiredNodes' = RequiredNodes
      <4>1. located' = located /\ memberRefs' = memberRefs /\ discovery' = discovery
            /\ file' = file
        BY <3>1 DEF scanVars
      <4> QED
        BY <4>1 DEF Candidates, Stubs, MayBuildWay, MayBuildRelation, Resolved, Candidate,
                    InFile, RequiredNodes
    <3>6. located' = {n.id : n \in InFile("node")'} \cap RequiredNodes'
      BY <3>1, <3>5 DEF BuildInv
    <3> QED
      BY <3>1, <3>4, <3>5, <3>6 DEF BuildInv, output, IsSeq
  <2>5. CASE Next /\ ~Preparing
    <3>1. /\ UNCHANGED <<scanVars, places>> /\ at' \in Nat
          /\ stage \notin Early /\ stage' \notin Early
          /\ Grows(rows', rows) /\ Grows(reported', reported)
          /\ Grows(rejectionRows', rejectionRows)
      BY <2>5, LoopSteps DEF BuildInv
    <3>2. IsSeq(rows') /\ IsSeq(reported') /\ IsSeq(rejectionRows')
      BY <3>1, GrowsIsSeq DEF BuildInv
    <3>3. InFile("node")' = InFile("node") /\ RequiredNodes' = RequiredNodes
          /\ Candidates' = Candidates /\ located' = located /\ built' = built
      BY <3>1, DerivedStay
    <3> QED
      BY <3>1, <3>2, <3>3 DEF BuildInv, IsSeq
  <2>6. CASE UNCHANGED vars
    <3>1. UNCHANGED <<scanVars, places, stage, at, output>>
      BY <2>6 DEF vars
    <3>2. InFile("node")' = InFile("node") /\ RequiredNodes' = RequiredNodes
          /\ Candidates' = Candidates /\ located' = located /\ built' = built
      BY <3>1, DerivedStay
    <3> QED
      BY <3>1, <3>2 DEF BuildInv, output, IsSeq
  <2> QED
    BY <2>1, <2>2, <2>3, <2>4, <2>5, <2>6 DEF Preparing
<1> QED
  BY <1>1, <1>2, ScanInvariant, PTL DEF Spec


-----------------------------------------------------------------------------
(* Numbers in their order *)

(* The places of the numbers of a finite set are the numbers from 1 to      *)
(* their count, each taken once.                                            *)
Rank(S, s) == Cardinality({c \in S : c <= s})

LEMMA RanksTaken ==
  ASSUME NEW S \in SUBSET Int, IsFiniteSet(S)
  PROVE  /\ \A n \in 1..Cardinality(S) : \E s \in S : Rank(S, s) = n
         /\ \A s, t \in S : Rank(S, s) = Rank(S, t) => s = t
<1> DEFINE Under(s) == {c \in S : c <= s}
           N == Cardinality(S)
           rank == [s \in S |-> Cardinality(Under(s))]
<1>1. N \in Nat
  BY FS_CardinalityType
<1>2. ASSUME NEW s \in S
      PROVE  /\ IsFiniteSet(Under(s)) /\ s \in Under(s)
             /\ Cardinality(Under(s)) \in 1..N
  <2>1. Under(s) \in SUBSET S /\ s \in Under(s)
    OBVIOUS
  <2> HIDE DEF Under
  <2>2. IsFiniteSet(Under(s)) /\ Cardinality(Under(s)) <= N
    BY <2>1, FS_Subset
  <2>3. Cardinality(Under(s)) \in Nat /\ Cardinality(Under(s)) # 0
    BY <2>1, <2>2, FS_CardinalityType, FS_EmptySet
  <2> QED
    BY <2>1, <2>2, <2>3, <1>1
<1>3. ASSUME NEW s \in S, NEW t \in S, s < t
      PROVE  rank[s] < rank[t]
  <2>1. Under(s) \in SUBSET Under(t) /\ t \notin Under(s)
    <3>1. \A c \in S : c \in Int
      OBVIOUS
    <3>2. \A c \in S : c <= s => c <= t
      BY <3>1, <1>3
    <3>3. ~ (t <= s)
      BY <3>1, <1>3
    <3> QED
      BY <3>2, <3>3
  <2>2. IsFiniteSet(Under(t)) /\ t \in Under(t)
    BY <1>2
  <2>3. Cardinality(Under(s)) \in 1..N /\ Cardinality(Under(t)) \in 1..N
    BY <1>2
  <2> HIDE DEF Under
  <2>4. /\ Cardinality(Under(s)) <= Cardinality(Under(t))
        /\ Cardinality(Under(t)) # Cardinality(Under(s))
    BY <2>1, <2>2, FS_Subset
  <2> QED
    BY <2>3, <2>4, <1>1
<1>4. rank \in [S -> 1..N] /\ \A s, t \in S : rank[s] = rank[t] => s = t
  <2>1. rank \in [S -> 1..N]
    BY <1>2
  <2>2. ASSUME NEW s \in S, NEW t \in S, rank[s] = rank[t]
        PROVE  s = t
    <3>1. rank[s] \in 1..N
      BY <2>1
    <3> HIDE DEF rank
    <3>2. ~ (s < t) /\ ~ (t < s)
      BY <3>1, <2>2, <1>3, <1>1
    <3> QED
      BY <3>2
  <2> HIDE DEF rank
  <2> QED
    BY <2>1, <2>2
<1>5. IsFiniteSet(1..N) /\ Cardinality(1..N) = N
  BY <1>1, FS_Interval
<1>6. \A s \in S : rank[s] = Rank(S, s)
  BY DEF Rank
<1> HIDE DEF rank, N
<1>7. rank \in Surjection(S, 1..N)
  BY <1>4, <1>5, FS_Injection DEF N, Injection, IsInjective
<1> QED
  BY <1>4, <1>6, <1>7 DEF Surjection, N

(* A country is derived from a boundary that is built. *)
LEMMA DerivedFrom ==
  ASSUME NEW list, IsSeq(list),
         \A b \in Range(list) : b.layer = "region" => b.code \in Int \cup {None}
  PROVE  LET derived == DerivedCountries(list)
         IN /\ IsSeq(derived)
            /\ \A d \in Range(derived) : \E b \in Range(list) : d.source = b.source
<1> DEFINE needy == {i \in DOMAIN list : NeedsCountry(list[i], list)}
           codes == {list[i].code : i \in needy}
           N == Cardinality(codes)
           CodeAt(m) == CHOOSE code \in codes : Cardinality({c \in codes : c <= code}) = m
           First(code) == CHOOSE i \in needy :
                            /\ list[i].code = code
                            /\ \A j \in needy : list[j].code = code => i <= j
           Derived(n) == [code |-> CodeAt(n), source |-> list[First(CodeAt(n))].source]
           derived == DerivedCountries(list)
<1>1. derived = [n \in 1..N |-> Derived(n)]
  BY DEF DerivedCountries
<1>2. Len(list) \in Nat /\ DOMAIN list = 1..Len(list) /\ \A i \in 1..Len(list) : list[i] \in Range(list)
  BY SeqIs
<1>3. needy \in SUBSET (1..Len(list))
  BY <1>2
<1>4. codes \in SUBSET Int
  BY <1>2 DEF NeedsCountry
<1>5. IsFiniteSet(codes) /\ N \in Nat
  <2> DEFINE of == [i \in needy |-> list[i].code]
  <2>1. IsFiniteSet(needy)
    <3>1. IsFiniteSet(1..Len(list))
      BY <1>2, FS_Interval
    <3> HIDE DEF needy
    <3> QED
      BY <1>3, <3>1, FS_Subset
  <2>2. of \in Surjection(needy, codes)
    BY DEF Surjection
  <2> HIDE DEF needy, codes, of
  <2> QED
    BY <2>1, <2>2, FS_Surjection, FS_CardinalityType
<1>6. \A n \in 1..N : CodeAt(n) \in codes
  <2>1. \A n \in 1..N : \E code \in codes : Cardinality({c \in codes : c <= code}) = n
    <3> HIDE DEF codes
    <3> QED
      BY <1>4, <1>5, RanksTaken DEF Rank
  <2> HIDE DEF codes
  <2> QED
    BY <2>1
<1>7. \A code \in codes : First(code) \in needy
  <2> TAKE code \in codes
  <2> DEFINE with == {i \in needy : list[i].code = code}
  <2>1. with \subseteq Nat /\ \E i \in with : TRUE
    BY <1>3
  <2>2. \E least \in with : \A other \in with : least <= other
    <3> HIDE DEF with
    <3> QED
      BY <2>1, LeastNumber
  <2>3. \E i \in needy : /\ list[i].code = code
                         /\ \A j \in needy : list[j].code = code => i <= j
    BY <2>2
  <2> HIDE DEF needy
  <2> QED
    BY <2>3
<1>8. \A n \in 1..N : \E b \in Range(list) : Derived(n).source = b.source
  <2> TAKE n \in 1..N
  <2>1. First(CodeAt(n)) \in needy
    <3>1. CodeAt(n) \in codes
      BY <1>6
    <3> HIDE DEF First, CodeAt, needy
    <3> QED
      BY <1>7, <3>1
  <2> HIDE DEF First, CodeAt, needy
  <2>2. list[First(CodeAt(n))] \in Range(list)
    BY <1>2, <1>3, <2>1
  <2>3. Derived(n).source = list[First(CodeAt(n))].source
    OBVIOUS
  <2> HIDE DEF Derived
  <2> QED
    BY <2>2, <2>3
<1> HIDE DEF Derived, N
<1> DEFINE T == {Derived(n) : n \in 1..N}
<1>9. derived \in [1..N -> T]
  BY <1>1
<1>10. derived \in Seq(T)
  <2> HIDE DEF T, derived
  <2> QED
    BY <1>5, <1>9, FunctionIsSeq
<1>11. IsSeq(derived) /\ Range(derived) \subseteq T
  <2> HIDE DEF T, derived
  <2> QED
    BY <1>10, ListOver
<1> HIDE DEF derived
<1> QED
  BY <1>8, <1>11 DEF derived


-----------------------------------------------------------------------------
(* The item of a loop *)

LEMMA ListNames ==
  /\ DOMAIN ListOf = {"rejections", "places", "address nodes", "address ways",
                      "interpolation", "streets"}
  /\ ListOf["rejections"] = "rejections" /\ ListOf["places"] = "place_node_candidates"
  /\ ListOf["address nodes"] = "address_node_candidates" /\ ListOf["address ways"] = "way_stubs"
  /\ ListOf["interpolation"] = "interpolation_way_stubs"
  /\ ListOf["streets"] = "street_way_stubs"
BY DEF ListOf

LEMMA ItemIs ==
  ASSUME BuildInv, NEW s \in DOMAIN ListOf, stage = s, at < Items(s)
  PROVE  LET list == Stubs(ListOf[s])
         IN /\ ListOf[s] \in Kinds /\ stage \notin Early
            /\ IsSeq(list) /\ at + 1 \in 1..Len(list) /\ Items(s) = Len(list)
            /\ Item = list[at + 1] /\ Item \in Range(list)
<1> DEFINE list == Stubs(ListOf[s])
<1>1. ListOf[s] \in Kinds /\ stage \notin Early
  BY ListNames DEF Kinds, Early
<1>2. IsSeq(list) /\ at \in Nat
  BY <1>1, StubsAre DEF BuildInv, Early
<1>3. Items(s) = Len(list) /\ Item = list[at + 1]
  <2>1. s # "boundaries" /\ s # "postcodes"
    BY ListNames
  <2>2. Items(s) = Len(Stubs(ListOf[s]))
    BY <2>1 DEF Items
  <2> QED
    BY <2>2 DEF Item
<1> HIDE DEF list
<1>4. Len(list) \in Nat /\ \A i \in 1..Len(list) : list[i] \in Range(list)
  BY <1>2, SeqIs
<1>5. at + 1 \in 1..Len(list)
  BY <1>2, <1>3, <1>4
<1> QED
  BY <1>1, <1>2, <1>3, <1>4, <1>5 DEF list

-----------------------------------------------------------------------------
(* Ways without their nodes *)

NodesOf == {n.id : n \in InFile("node")}
Complete(w) == w.refs # <<>> /\ Range(w.refs) \subseteq NodesOf

(* A rejection is for a reason the file has. *)
Justified(source, issue) ==
  \A w \in InFile("way") : source = <<"way", w.id>> =>
    /\ issue \in {"way_without_resolved_nodes", "interpolation_unresolved_geometry"} => ~Complete(w)
    /\ issue = "street_unresolved_geometry" => ~Complete(w) \/ Len(w.refs) < 2

(* The source of a row has its nodes. *)
Sound(source) == \A w \in InFile("way") : source = <<"way", w.id>> => Complete(w)

ResolvedInv ==
  /\ \A p \in Range(reported) : Justified(p[1], p[2])
  /\ \A row \in Range(rows) : Sound(row.source)

LEMMA OneWay ==
  ASSUME ScanInv, NEW w \in InFile("way"), NEW v \in InFile("way"), w.id = v.id
  PROVE  w = v
BY FileIs DEF InFile, Distinct

(* A way is complete when its nodes have positions. *)
LEMMA ResolvedWays ==
  ASSUME BuildInv, stage \notin Early, NEW kind \in WayKinds, NEW stub \in Range(Stubs(kind))
  PROVE  /\ Resolved(stub.refs) => Sound(<<"way", stub.id>>)
         /\ ~Resolved(stub.refs) => \A issue : Justified(<<"way", stub.id>>, issue)
         /\ Len(stub.refs) < 2 => Justified(<<"way", stub.id>>, "street_unresolved_geometry")
<1>1. PICK w \in InFile("way") :
        /\ stub.id = w.id /\ stub.refs = w.refs /\ w.refs # <<>>
        /\ Range(w.refs) \subseteq discovery.required
  BY WayStubsAre DEF BuildInv, Early
<1>2. Resolved(w.refs) <=> Range(w.refs) \subseteq NodesOf
  <2>1. located = NodesOf \cap RequiredNodes
    BY DEF BuildInv, Early, NodesOf
  <2>2. Range(w.refs) \subseteq RequiredNodes
    BY <1>1 DEF RequiredNodes
  <2> QED
    BY <2>1, <2>2 DEF Resolved
<1>3. \A v \in InFile("way") : <<"way", stub.id>> = <<"way", v.id>> => v = w
  BY <1>1, OneWay DEF BuildInv
<1> QED
  BY <1>1, <1>2, <1>3 DEF Sound, Justified, Complete

(* The rejections of the scan name the element they are for. *)
ScanIssues == {"missing_housenumber", "missing_street_or_place", "interpolation_way_without_nodes",
               "street_missing_name", "street_ref_only_name"}

LEMMA WayRefusals ==
  ASSUME NEW e, e.type = "way", NEW r \in Entries(e, "rejections")
  PROVE  /\ r.source = <<"way", e.id>>
         /\ \/ r.issue \in ScanIssues
            \/ e.refs = <<>> /\ r.issue \in {"way_without_resolved_nodes",
                                             "street_unresolved_geometry"}
<1> DEFINE tags == TagsIn(e)
           s == StreetOfWay(e, tags)
           a == AddressOfWay(e, tags)
<1>1. Entries(e, "rejections") = Of(s, "rejections") \cup Of(a, "rejections")
  BY WayIs
<1>2. MissingStreetNameIssue(tags) \in ScanIssues
  BY DEF MissingStreetNameIssue, ScanIssues
<1>3. AddressIssue(AddrTags(tags)) # None => AddressIssue(AddrTags(tags)) \in ScanIssues
  BY AddressIssueIs DEF ScanIssues
<1>4. CASE r \in Of(s, "rejections")
  <2>1. \/ Of(s, "rejections") = {}
        \/ Refuses(Of(s, "rejections"), e, MissingStreetNameIssue(tags), FALSE)
        \/ e.refs = <<>> /\ Refuses(Of(s, "rejections"), e, "street_unresolved_geometry", TRUE)
    BY StreetOfWayIs
  <2> HIDE DEF s, tags
  <2> QED
    BY <1>2, <1>4, <2>1 DEF Refuses
<1>5. CASE r \in Of(a, "rejections")
  <2>1. \/ Of(a, "rejections") = {}
        \/ Refuses(Of(a, "rejections"), e, "interpolation_way_without_nodes", TRUE)
        \/ /\ AddressIssue(AddrTags(tags)) # None
           /\ Refuses(Of(a, "rejections"), e, AddressIssue(AddrTags(tags)), TRUE)
        \/ e.refs = <<>> /\ Refuses(Of(a, "rejections"), e, "way_without_resolved_nodes", TRUE)
    BY AddressOfWayIs
  <2>2. "interpolation_way_without_nodes" \in ScanIssues
    BY DEF ScanIssues
  <2> HIDE DEF a, tags
  <2> QED
    BY <1>3, <1>5, <2>1, <2>2 DEF Refuses
<1> QED
  BY <1>1, <1>4, <1>5

LEMMA NodeRefusals ==
  ASSUME NEW e, e.type \in {"node", "relation"}, NEW r \in Entries(e, "rejections")
  PROVE  r.source = <<e.type, e.id>>
<1>1. CASE e.type = "node"
  <2>1. Entries(e, "rejections") = {} \/ \E issue : Refuses(Entries(e, "rejections"), e, issue, TRUE)
    BY <1>1, NodeIs
  <2> QED
    BY <2>1 DEF Refuses
<1>2. CASE e.type = "relation"
  <2>1. Entries(e, "rejections") = {} \/ \E issue : Refuses(Entries(e, "rejections"), e, issue, TRUE)
    BY <1>2, RelationIs
  <2> QED
    BY <2>1 DEF Refuses
<1> QED
  BY <1>1, <1>2

LEMMA ScanJustified ==
  ASSUME ScanInv, Discover
  PROVE  \A p \in Range(reported') : Justified(p[1], p[2])
<1> DEFINE R == Refused(file)
<1>1. reported' = [i \in DOMAIN R |-> <<R[i].source, R[i].issue>>]
  BY ReportedByScan
<1>2. IsSeq(R) /\ Range(R) = All(file, "rejections")
  <2>1. Lists("rejections", R, All(file, "rejections"))
    BY FoundIs DEF ScanInv
  <2> QED
    BY <2>1 DEF Lists, IsSeq
<1> HIDE DEF R
<1>3. \A p \in Range(reported') : \E r \in All(file, "rejections") :
        p[1] = r.source /\ p[2] = r.issue
  <2> TAKE p \in Range(reported')
  <2>1. PICK i \in DOMAIN R : p = <<R[i].source, R[i].issue>>
    BY <1>1 DEF Range
  <2>2. R[i] \in All(file, "rejections")
    BY <1>2, SeqIs
  <2> QED
    BY <2>1, <2>2
<1>4. ASSUME NEW r \in All(file, "rejections")
      PROVE  Justified(r.source, r.issue)
  <2>1. PICK e \in Range(Elements(file)) : r \in Entries(e, "rejections")
    BY DEF All
  <2>2. e.type \in {"node", "way", "relation"}
    BY FileIs
  <2>3. CASE e.type = "way"
    <3>1. e \in InFile("way")
      BY <2>3 DEF InFile
    <3>2. \A w \in InFile("way") : r.source = <<"way", w.id>> => w = e
      BY <2>1, <2>3, <3>1, WayRefusals, OneWay
    <3>3. \/ r.issue \in ScanIssues
          \/ e.refs = <<>>
      BY <2>1, <2>3, WayRefusals
    <3> QED
      BY <3>2, <3>3 DEF Justified, Complete, ScanIssues
  <2>4. CASE e.type \in {"node", "relation"}
    <3>1. r.source = <<e.type, e.id>>
      BY <2>1, <2>4, NodeRefusals
    <3> QED
      BY <2>4, <3>1 DEF Justified
  <2> QED
    BY <2>2, <2>3, <2>4
<1> QED
  BY <1>3, <1>4


-----------------------------------------------------------------------------
(* The rows of boundaries *)

AdminLayers == {None, "country", "region", "district", "locality", "neighbourhood"}

LEMMA CandidateIs ==
  ASSUME BuildInv, stage \notin Early, NEW b \in Range(built)
  PROVE  /\ b.layer \in AdminLayers
         /\ b.layer = "region" => b.code \in Int \cup {None}
         /\ \/ \E stub \in Range(Stubs("boundary_relation_stubs")) : b.source = <<"relation", stub.id>>
            \/ \E stub \in Range(Stubs("boundary_way_stubs")) :
                 Resolved(stub.refs) /\ b.source = <<"way", stub.id>>
<1>1. /\ ScanInv /\ stage # "scan" /\ b \in Range(Candidates)
  BY DEF BuildInv, Early
<1>2. ASSUME NEW type, NEW stub, NEW e \in Range(Elements(file)),
             stub.tags = TagsIn(e), b = Candidate(type, stub)
      PROVE  /\ b.layer \in AdminLayers /\ b.source = <<type, stub.id>>
             /\ b.layer = "region" => b.code \in Int \cup {None}
  <2>1. Cleaned(TagsIn(e), "ISO3166-2") \in Int \cup {None}
    BY <1>1, CodesAssumption DEF ScanInv, TagsIn
  <2>2. b.layer = BoundaryLayer(TagsIn(e)) /\ b.source = <<type, stub.id>>
        /\ b.code = CountryCode(TagsIn(e), b.layer)
    BY <1>2 DEF Candidate
  <2>3. b.layer \in AdminLayers
    BY <2>2 DEF BoundaryLayer, AdminLevelLayer, AdminLayers
  <2>4. b.layer = "region" => b.code = Cleaned(TagsIn(e), "ISO3166-2")
    BY <2>2 DEF CountryCode
  <2> QED
    BY <2>1, <2>2, <2>3, <2>4
<1>3. CASE \E stub \in Range(Stubs("boundary_way_stubs")) :
             MayBuildWay(stub) /\ b = Candidate("way", stub)
  <2>1. PICK stub \in Range(Stubs("boundary_way_stubs")) :
               MayBuildWay(stub) /\ b = Candidate("way", stub)
    BY <1>3
  <2>2. "boundary_way_stubs" \in WayKinds /\ "boundary_way_stubs" # "way_stubs"
    BY DEF WayKinds
  <2>3. PICK w \in InFile("way") : stub.tags = TagsIn(w)
    BY <1>1, <2>2, WayStubsAre
  <2>4. w \in Range(Elements(file))
    BY DEF InFile
  <2>5. Resolved(stub.refs)
    BY <2>1 DEF MayBuildWay
  <2> QED
    BY <1>2, <2>1, <2>3, <2>4, <2>5
<1>4. CASE \E stub \in Range(Stubs("boundary_relation_stubs")) :
             b = Candidate("relation", stub)
  <2>1. PICK stub \in Range(Stubs("boundary_relation_stubs")) : b = Candidate("relation", stub)
    BY <1>4
  <2>2. "boundary_relation_stubs" \in Kinds \ {"rejections"}
    BY DEF Kinds
  <2>3. PICK e \in Range(Elements(file)) : stub \in Entries(e, "boundary_relation_stubs")
    <3>1. stub \in All(file, "boundary_relation_stubs")
      BY <1>1, <2>1, <2>2, StubsAre DEF Lists
    <3> QED
      BY <3>1 DEF All
  <2>4. stub.tags = TagsIn(e)
    <3>1. e.type \in {"node", "way", "relation"}
      BY <1>1, FileIs
    <3>2. CASE e.type = "relation"
      BY <2>3, <3>2, RelationIs
    <3>3. CASE e.type = "way"
      <4>1. Entries(e, "boundary_relation_stubs") = {}
        BY <2>2, <3>3, WayIs
      <4> QED
        BY <2>3, <4>1
    <3>4. CASE e.type = "node"
      <4>1. Entries(e, "boundary_relation_stubs") = {}
        BY <2>2, <3>4, NodeIs
      <4> QED
        BY <2>3, <4>1
    <3> QED
      BY <3>1, <3>2, <3>3, <3>4
  <2> QED
    BY <1>2, <2>1, <2>4
<1> QED
  BY <1>1, <1>3, <1>4, CandidatesAre

LEMMA BoundaryRowsAre ==
  ASSUME BuildInv, stage \notin Early
  PROVE  /\ IsSeq(BoundaryRows)
         /\ \A row \in Range(BoundaryRows) :
              /\ row.layer \in AdminLayers
              /\ \E b \in Range(built) : row.source = b.source
<1> DEFINE derived == DerivedCountries(built)
           D(i) == Row("country", derived[i].source, [derived_country |-> derived[i].code])
           B(i) == Row(built[i].layer, built[i].source, [country_code |-> built[i].code])
           d == [i \in DOMAIN derived |-> D(i)]
           b == [i \in DOMAIN built |-> B(i)]
           T == {row \in {D(i) : i \in DOMAIN derived} \cup {B(i) : i \in DOMAIN built} :
                   /\ row.layer \in AdminLayers
                   /\ \E c \in Range(built) : row.source = c.source}
<1>1. BoundaryRows = d \o b
  BY DEF BoundaryRows
<1>2. IsSeq(built) /\ \A c \in Range(built) : /\ c.layer \in AdminLayers
                                              /\ c.layer = "region" => c.code \in Int \cup {None}
  BY CandidateIs DEF BuildInv
<1>3. IsSeq(derived) /\ \A c \in Range(derived) : \E e \in Range(built) : c.source = e.source
  BY <1>2, DerivedFrom
<1> HIDE DEF derived
<1>4. /\ Len(derived) \in Nat /\ DOMAIN derived = 1..Len(derived)
      /\ \A i \in 1..Len(derived) : derived[i] \in Range(derived)
      /\ Len(built) \in Nat /\ DOMAIN built = 1..Len(built)
      /\ \A i \in 1..Len(built) : built[i] \in Range(built)
  BY <1>2, <1>3, SeqIs
<1>5. \A i \in 1..Len(derived) : D(i).layer \in AdminLayers /\ D(i).source = derived[i].source
  BY DEF Row, AdminLayers
<1>6. \A i \in 1..Len(built) : D(i).layer \in AdminLayers /\ B(i).source = built[i].source
                               /\ B(i).layer = built[i].layer
  BY DEF Row, AdminLayers
<1> HIDE DEF D, B
<1>7. \A i \in 1..Len(derived) : D(i) \in T
  BY <1>3, <1>4, <1>5
<1>8. \A i \in 1..Len(built) : B(i) \in T
  BY <1>2, <1>4, <1>6
<1>9. d \in [1..Len(derived) -> T] /\ b \in [1..Len(built) -> T]
  <2> HIDE DEF T
  <2> QED
    BY <1>4, <1>7, <1>8
<1>10. \A c \in T : /\ c.layer \in AdminLayers
                    /\ \E e \in Range(built) : c.source = e.source
  OBVIOUS
<1> HIDE DEF T, d, b
<1>11. d \in Seq(T) /\ b \in Seq(T)
  BY <1>4, <1>9, FunctionIsSeq
<1>12. d \o b \in Seq(T)
  BY <1>11
<1>13. IsSeq(d \o b) /\ Range(d \o b) \subseteq T
  BY <1>12, ListOver
<1> QED
  BY <1>1, <1>10, <1>13

-----------------------------------------------------------------------------
(* Unresolved geometry *)

StepSound ==
  /\ rows' = rows \/ \E row : rows' = Append(rows, row) /\ Sound(row.source)
  /\ \/ reported' = reported
     \/ \E p : reported' = Append(reported, p) /\ Justified(p[1], p[2])

LEMMA RowSound ==
  ASSUME NEW layer, NEW source, NEW tags, rows' = Append(rows, Row(layer, source, tags)),
         reported' = reported, Sound(source)
  PROVE  StepSound
<1> DEFINE row == Row(layer, source, tags)
<1>1. row.source = source
  BY DEF Row
<1> HIDE DEF row
<1> QED
  BY <1>1 DEF StepSound, row

LEMMA RefusalSound ==
  ASSUME NEW source, NEW issue, reported' = Append(reported, <<source, issue>>),
         rows' = rows, Justified(source, issue)
  PROVE  StepSound
<1> DEFINE p == <<source, issue>>
<1>1. p[1] = source /\ p[2] = issue
  OBVIOUS
<1> HIDE DEF p
<1> QED
  BY <1>1 DEF StepSound, p

(* An interpolation way is dropped for its geometry only where a node has   *)
(* no position.                                                             *)
LEMMA WayIssueIs ==
  ASSUME NEW stub
  PROVE  /\ WayIssue(stub) = None => Resolved(stub.refs)
         /\ WayIssue(stub) = "interpolation_unresolved_geometry" => ~Resolved(stub.refs)
         /\ WayIssue(stub) \in InterpolationIssues \cup {None}
<1> DEFINE rule == stub.tags["addr:interpolation"] \notin {"odd", "even", "all"} \cup HouseNumbers
           none == Anchors(stub) = <<>>
           numbered == Numbered(stub) # {}
           one == Len(Anchors(stub)) = 1
<1>1. WayIssue(stub) =
        IF rule THEN "interpolation_unsupported_value"
        ELSE IF ~Resolved(stub.refs) THEN "interpolation_unresolved_geometry"
        ELSE IF none
        THEN IF numbered THEN "interpolation_non_numeric_anchor"
             ELSE "interpolation_missing_anchors"
        ELSE IF one THEN "interpolation_insufficient_numeric_anchors" ELSE None
  BY DEF WayIssue
<1> HIDE DEF rule, none, numbered, one
<1>2. \A issue \in InterpolationIssues : issue # None
  BY AbsentAssumption
<1>3. \/ rule /\ WayIssue(stub) = "interpolation_unsupported_value"
      \/ ~Resolved(stub.refs) /\ WayIssue(stub) = "interpolation_unresolved_geometry"
      \/ /\ Resolved(stub.refs)
         /\ WayIssue(stub) \in {"interpolation_non_numeric_anchor", "interpolation_missing_anchors",
                               "interpolation_insufficient_numeric_anchors", None}
  BY <1>1
<1>4. {"interpolation_unsupported_value", "interpolation_unresolved_geometry",
       "interpolation_non_numeric_anchor", "interpolation_missing_anchors",
       "interpolation_insufficient_numeric_anchors"} \subseteq InterpolationIssues
  BY DEF InterpolationIssues
<1> QED
  BY <1>2, <1>3, <1>4

LEMMA LoopSound ==
  ASSUME BuildInv, Next, ~Preparing
  PROVE  StepSound
<1>1. CASE NextStage \/ Finished
  BY <1>1 DEF NextStage, Finished, vars, output, StepSound
<1>2. CASE WriteBoundaryRecord
  <2> DEFINE row == BoundaryRows[at + 1]
  <2>1. stage = "boundaries" /\ at < Len(BoundaryRows) /\ rows' = Append(rows, row)
        /\ reported' = reported /\ stage \notin Early
    <3>1. "boundaries" \notin DOMAIN ListOf
      BY ListNames
    <3>2. Items("boundaries") = Len(BoundaryRows)
      BY <3>1 DEF Items
    <3> QED
      BY <1>2, <3>2 DEF WriteBoundaryRecord, Emit, Accept, Early
  <2>2. row \in Range(BoundaryRows)
    <3>1. IsSeq(BoundaryRows) /\ at \in Nat
      BY <2>1, BoundaryRowsAre DEF BuildInv
    <3>2. Len(BoundaryRows) \in Nat /\ \A i \in 1..Len(BoundaryRows) : BoundaryRows[i] \in Range(BoundaryRows)
      BY <3>1, SeqIs
    <3>3. at + 1 \in 1..Len(BoundaryRows)
      BY <2>1, <3>1, <3>2
    <3> QED
      BY <3>2, <3>3
  <2>3. PICK b \in Range(built) : row.source = b.source
    BY <2>1, <2>2, BoundaryRowsAre
  <2>4. Sound(b.source)
    <3>1. CASE \E stub \in Range(Stubs("boundary_relation_stubs")) : b.source = <<"relation", stub.id>>
      BY <3>1 DEF Sound
    <3>2. CASE \E stub \in Range(Stubs("boundary_way_stubs")) :
                 Resolved(stub.refs) /\ b.source = <<"way", stub.id>>
      <4>1. "boundary_way_stubs" \in WayKinds
        BY DEF WayKinds
      <4> QED
        BY <2>1, <3>2, <4>1, ResolvedWays
    <3> QED
      BY <2>1, <3>1, <3>2, CandidateIs
  <2>5. StepSound
    BY <2>1, <2>3, <2>4 DEF StepSound
  <2> QED
    BY <2>5
<1>3. CASE WriteRejections
  BY <1>3 DEF WriteRejections, StepSound
<1>4. CASE WritePlaceNode
  <2> DEFINE source == <<"node", Item.id>>
  <2>1. Sound(source) /\ \A issue : Justified(source, issue)
    BY DEF Sound, Justified
  <2> HIDE DEF source
  <2>2. \/ /\ \E layer : rows' = Append(rows, Row(layer, source, NoTags))
           /\ reported' = reported
        \/ /\ rows' = rows
           /\ \E issue : reported' = Append(reported, <<source, issue>>)
    BY <1>4 DEF WritePlaceNode, Accept, Reject, Emission, source
  <2> QED
    BY <2>1, <2>2, RowSound, RefusalSound
<1>5. CASE WriteAddressNode
  <2>1. reported' = reported /\ rows' = Append(rows, Row("address", <<"node", Item.id>>, Item.tags))
    BY <1>5 DEF WriteAddressNode, WriteCandidate, Accept
  <2>2. Sound(<<"node", Item.id>>)
    BY DEF Sound
  <2> QED
    BY <2>1, <2>2, RowSound
<1>6. CASE WriteAddressWay \/ RejectAddressWay
  <2>1. Emit("address ways")
    BY <1>6 DEF WriteAddressWay, RejectAddressWay
  <2>2. Item \in Range(Stubs("way_stubs")) /\ "way_stubs" \in WayKinds /\ stage \notin Early
    BY <2>1, ListNames, ItemIs DEF Emit, WayKinds
  <2>3. CASE WriteAddressWay
    <3>1. Resolved(Item.refs) /\ reported' = reported
          /\ rows' = Append(rows, Row("address", <<"way", Item.id>>, Item.tags))
      BY <2>3 DEF WriteAddressWay, WriteCandidate, Accept
    <3>2. Sound(<<"way", Item.id>>)
      BY <2>2, <3>1, ResolvedWays
    <3> QED
      BY <3>1, <3>2, RowSound
  <2>4. CASE RejectAddressWay
    <3>1. ~Resolved(Item.refs) /\ rows' = rows
          /\ reported' = Append(reported, <<<<"way", Item.id>>, "way_without_resolved_nodes">>)
      BY <2>4 DEF RejectAddressWay, Reject, Emission
    <3>2. Justified(<<"way", Item.id>>, "way_without_resolved_nodes")
      BY <2>2, <3>1, ResolvedWays
    <3> QED
      BY <3>1, <3>2, RefusalSound
  <2> QED
    BY <1>6, <2>3, <2>4
<1>7. CASE WritePostcode
  <2> DEFINE postcode == CHOOSE p \in DOMAIN groups :
                           Cardinality({q \in DOMAIN groups : q <= p}) = at + 1
  <2>1. reported' = reported /\ \E tags : rows' = Append(rows, Row("postcode", <<"postcode", postcode>>, tags))
    BY <1>7 DEF WritePostcode, Accept
  <2> HIDE DEF postcode
  <2>2. Sound(<<"postcode", postcode>>)
    BY DEF Sound
  <2> QED
    BY <2>1, <2>2, RowSound
<1>8. ASSUME \/ RejectInterpolationWay \/ WriteInterpolation
             \/ \E issue \in PairIssues : RejectInterpolation(issue)
      PROVE  StepSound
  <2>1. stage = "interpolation" /\ at < Items("interpolation")
    BY <1>8 DEF RejectInterpolationWay, WriteInterpolation, RejectInterpolation, DecidePair, Emit
  <2>2. Item \in Range(Stubs("interpolation_way_stubs")) /\ "interpolation_way_stubs" \in WayKinds
        /\ stage \notin Early
    BY <2>1, ListNames, ItemIs DEF WayKinds
  <2> DEFINE source == <<"way", Item.id>>
  <2> HIDE DEF source
  <2>3. CASE RejectInterpolationWay
    <3>1. rows' = rows /\ reported' = Append(reported, <<source, WayIssue(Item)>>)
      BY <2>3 DEF RejectInterpolationWay, Reject, InterpolationRejection, Emission, source
    <3>2. \/ WayIssue(Item) = "interpolation_unresolved_geometry" /\ ~Resolved(Item.refs)
          \/ WayIssue(Item) \notin {"interpolation_unresolved_geometry", "way_without_resolved_nodes",
                                    "street_unresolved_geometry"}
      <4>1. WayIssue(Item) \in InterpolationIssues
        BY <2>3, WayIssueIs DEF RejectInterpolationWay
      <4>2. \A issue \in InterpolationIssues :
              issue \notin {"way_without_resolved_nodes", "street_unresolved_geometry"}
        BY DEF InterpolationIssues
      <4>3. WayIssue(Item) = "interpolation_unresolved_geometry" => ~Resolved(Item.refs)
        BY WayIssueIs
      <4> QED
        BY <4>1, <4>2, <4>3
    <3>3. Justified(source, WayIssue(Item))
      <4>1. CASE ~Resolved(Item.refs)
        BY <2>2, <4>1, ResolvedWays DEF source
      <4>2. CASE WayIssue(Item) \notin {"interpolation_unresolved_geometry", "way_without_resolved_nodes",
                                    "street_unresolved_geometry"}
        BY <4>2 DEF Justified
      <4> QED
        BY <3>2, <4>1, <4>2
    <3> QED
      BY <3>1, <3>3, RefusalSound
  <2>4. ASSUME DecidePair PROVE Resolved(Item.refs)
    BY <2>4, WayIssueIs DEF DecidePair
  <2>5. CASE WriteInterpolation
    <3>1. rows' = Append(rows, Row("interpolation", source, NoTags)) /\ reported' = reported
          /\ DecidePair
      BY <2>5 DEF WriteInterpolation, Accept, source
    <3>2. Sound(source)
      BY <2>2, <2>4, <3>1, ResolvedWays DEF source
    <3> QED
      BY <3>1, <3>2, RowSound
  <2>6. CASE \E issue \in PairIssues : RejectInterpolation(issue)
    <3>1. PICK issue \in PairIssues : RejectInterpolation(issue)
      BY <2>6
    <3>2. rows' = rows /\ reported' = Append(reported, <<source, issue>>)
      BY <3>1 DEF RejectInterpolation, Reject, InterpolationRejection, Emission, source
    <3>3. issue \notin {"interpolation_unresolved_geometry", "way_without_resolved_nodes",
                        "street_unresolved_geometry"}
      BY PairAssumption DEF InterpolationIssues
    <3>4. Justified(source, issue)
      BY <3>3 DEF Justified
    <3> QED
      BY <3>2, <3>4, RefusalSound
  <2> QED
    BY <1>8, <2>3, <2>5, <2>6
<1>9. CASE WriteStreet \/ RejectStreet
  <2>1. Emit("streets")
    BY <1>9 DEF WriteStreet, RejectStreet
  <2>2. Item \in Range(Stubs("street_way_stubs")) /\ "street_way_stubs" \in WayKinds /\ stage \notin Early
    BY <2>1, ListNames, ItemIs DEF Emit, WayKinds
  <2>3. CASE WriteStreet
    <3>1. Resolved(Item.refs) /\ reported' = reported
          /\ rows' = Append(rows, Row("street", <<"way", Item.id>>, NoTags))
      BY <2>3 DEF WriteStreet, HasLine, Accept
    <3>2. Sound(<<"way", Item.id>>)
      BY <2>2, <3>1, ResolvedWays
    <3> QED
      BY <3>1, <3>2, RowSound
  <2>4. CASE RejectStreet
    <3>1. rows' = rows
          /\ reported' = Append(reported, <<<<"way", Item.id>>, "street_unresolved_geometry">>)
      BY <2>4 DEF RejectStreet, Reject, Emission
    <3>2. ~Resolved(Item.refs) \/ Len(Item.refs) < 2
      <4>1. ~HasLine(Item.refs)
        BY <2>4 DEF RejectStreet
      <4>2. Len(Item.refs) \in Int
        <5>1. PICK w \in InFile("way") : Item.refs = w.refs
          BY <2>2, WayStubsAre DEF BuildInv, Early
        <5>2. w.refs \in Seq(Int)
          BY FileIs DEF BuildInv, InFile
        <5> QED
          BY <5>1, <5>2
      <4> QED
        BY <4>1, <4>2 DEF HasLine
    <3>3. Justified(<<"way", Item.id>>, "street_unresolved_geometry")
      BY <2>2, <3>2, ResolvedWays
    <3> QED
      BY <3>1, <3>3, RefusalSound
  <2> QED
    BY <1>9, <2>3, <2>4
<1> QED
  BY <1>1, <1>2, <1>3, <1>4, <1>5, <1>6, <1>7, <1>8, <1>9 DEF Next, Preparing

LEMMA ResolvedInvariant == Spec => []ResolvedInv
<1>1. Init => ResolvedInv
  BY NoneIsSeq DEF Init, ResolvedInv
<1>2. BuildInv /\ ResolvedInv /\ [Next]_vars => ResolvedInv'
  <2> SUFFICES ASSUME BuildInv, ResolvedInv, [Next]_vars PROVE ResolvedInv'
    OBVIOUS
  <2>1. CASE Next /\ ~Scan /\ ~Discover
    <3>1. file' = file
      BY <2>1, LaterKeeps DEF scanVars
    <3>2. /\ \A source, issue : Justified(source, issue)' <=> Justified(source, issue)
          /\ \A source : Sound(source)' <=> Sound(source)
      BY <3>1 DEF Justified, Sound, Complete, NodesOf, InFile
    <3>3. CASE ~Preparing
      <4>1. /\ rows' = rows \/ \E row : rows' = Append(rows, row) /\ Sound(row.source)
            /\ \/ reported' = reported
               \/ \E p : reported' = Append(reported, p) /\ Justified(p[1], p[2])
        BY <2>1, <3>3, LoopSound DEF StepSound
      <4>0. /\ \A x : Range(Append(rows, x)) = Range(rows) \cup {x}
            /\ \A x : Range(Append(reported, x)) = Range(reported) \cup {x}
        BY AppendIs DEF BuildInv
      <4>2. \A row \in Range(rows') : Sound(row.source)
        <5>1. CASE rows' = rows
          BY <5>1 DEF ResolvedInv
        <5>2. CASE \E row : rows' = Append(rows, row) /\ Sound(row.source)
          <6>1. PICK row : rows' = Append(rows, row) /\ Sound(row.source)
            BY <5>2
          <6>2. Range(rows') = Range(rows) \cup {row}
            BY <4>0, <6>1
          <6> QED
            BY <6>1, <6>2 DEF ResolvedInv
        <5> QED
          BY <4>1, <5>1, <5>2
      <4>3. \A p \in Range(reported') : Justified(p[1], p[2])
        <5>1. CASE reported' = reported
          BY <5>1 DEF ResolvedInv
        <5>2. CASE \E p : reported' = Append(reported, p) /\ Justified(p[1], p[2])
          <6>1. PICK p : reported' = Append(reported, p) /\ Justified(p[1], p[2])
            BY <5>2
          <6>2. Range(reported') = Range(reported) \cup {p}
            BY <4>0, <6>1
          <6> QED
            BY <6>1, <6>2 DEF ResolvedInv
        <5> QED
          BY <4>1, <5>1, <5>2
      <4> QED
        BY <3>2, <4>2, <4>3 DEF ResolvedInv
    <3>4. CASE Preparing
      <4>1. rows' = rows /\ reported' = reported
        BY <2>1, <3>4 DEF Preparing, ResolveBoundaryWays, ResolveNodeLocations, BuildBoundaries, output
      <4> QED
        BY <3>2, <4>1 DEF ResolvedInv
    <3> QED
      BY <3>3, <3>4
  <2>2. CASE Scan \/ UNCHANGED vars
    <3>1. file' = file /\ rows' = rows /\ reported' = reported
      BY <2>2 DEF Scan, ScanStep, MapBlock, JoinPartials, vars, scanVars, output
    <3> QED
      BY <3>1 DEF ResolvedInv, Justified, Sound, Complete, NodesOf, InFile
  <2>3. CASE Discover
    <3>1. file' = file /\ rows' = rows
      BY <2>3 DEF Discover, FinishScan
    <3>2. \A p \in Range(reported') : Justified(p[1], p[2])
      BY <2>3, ScanJustified DEF BuildInv
    <3> QED
      BY <3>1, <3>2 DEF ResolvedInv, Justified, Sound, Complete, NodesOf, InFile
  <2> QED
    BY <2>1, <2>2, <2>3
<1> QED
  BY <1>1, <1>2, BuildInvariant, PTL DEF Spec

(* No way of any file is dropped for its geometry while the file has its    *)
(* nodes, and none without them has a row.                                  *)
THEOREM UnresolvedAreMissing == Spec => []UnresolvedOnlyIfMissing
<1>1. ResolvedInv => UnresolvedOnlyIfMissing
  <2> SUFFICES ASSUME ResolvedInv, NEW w \in InFile("way"),
                      NEW issue, <<<<"way", w.id>>, issue>> \in Range(reported)
               PROVE  Justified(<<"way", w.id>>, issue)
    BY DEF UnresolvedOnlyIfMissing, ResolvedInv, Justified, Sound, Complete, NodesOf
  <2> DEFINE p == <<<<"way", w.id>>, issue>>
  <2>1. p[1] = <<"way", w.id>> /\ p[2] = issue
    OBVIOUS
  <2> QED
    BY <2>1 DEF ResolvedInv
<1> QED
  BY <1>1, ResolvedInvariant, PTL


-----------------------------------------------------------------------------
(* Counting the rows *)

LEMMA CountAppend ==
  ASSUME NEW n \in Nat, NEW I \in SUBSET (1..n), NEW J \in SUBSET (1..n + 1),
         \A i \in 1..n : i \in J <=> i \in I
  PROVE  /\ Cardinality(I) \in Nat
         /\ Cardinality(J) = IF n + 1 \in J THEN Cardinality(I) + 1 ELSE Cardinality(I)
<1>1. 1..n + 1 = 1..n \cup {n + 1}
  OBVIOUS
<1>2. J = IF n + 1 \in J THEN I \cup {n + 1} ELSE I
  <2>1. \A i \in J : i \in 1..n \/ i = n + 1
    BY <1>1
  <2>2. J \subseteq I \cup {n + 1}
    BY <2>1
  <2>3. I \subseteq J
    OBVIOUS
  <2>4. n + 1 \notin I
    OBVIOUS
  <2>5. CASE n + 1 \in J
    <3>1. I \cup {n + 1} \subseteq J
      BY <2>3, <2>5
    <3>2. J = I \cup {n + 1}
      BY <2>2, <3>1
    <3> QED
      BY <2>5, <3>2
  <2>6. CASE n + 1 \notin J
    <3>1. J \subseteq I
      BY <2>1, <2>6
    <3>2. J = I
      BY <2>3, <3>1
    <3> QED
      BY <2>6, <3>2
  <2> QED
    BY <2>5, <2>6
<1>3. Cardinality(I) \in Nat /\ Cardinality(I \cup {n + 1}) = Cardinality(I) + 1
  BY PlacesCount
<1> QED
  BY <1>2, <1>3

LEMMA RowCountNat ==
  ASSUME BuildInv, NEW I \in SUBSET (DOMAIN rows)
  PROVE  IsFiniteSet(I) /\ Cardinality(I) \in Nat /\ (I = {} <=> Cardinality(I) = 0)
<1>1. Len(rows) \in Nat /\ DOMAIN rows = 1..Len(rows)
  BY SeqIs DEF BuildInv
<1> QED
  BY <1>1, PlacesCount

-----------------------------------------------------------------------------
(* Postcodes *)

Codes == {CanonicalPostcode[raw] : raw \in DOMAIN CanonicalPostcode} \ {None}

HasCode(row, p) ==
  /\ row.layer = "address"
  /\ Has(row.tags, "addr:postcode")
  /\ CanonicalPostcode[row.tags["addr:postcode"]] = p

Grouped ==
  /\ IsFunction(groups) /\ IsFiniteSet(DOMAIN groups)
  /\ DOMAIN groups = {p \in Codes : AddressesOf(p) > 0}
  /\ \A p \in DOMAIN groups : groups[p] = AddressesOf(p)

PostcodeRows == {i \in DOMAIN rows : rows[i].layer = "postcode"}
PostcodeAt(i) == rows[i].source[2]

BeforePostcodes == Early \cup {"boundaries", "rejections", "places", "address nodes", "address ways"}
AfterPostcodes == {"interpolation", "streets", "done"}

PostcodeInv ==
  /\ Grouped
  /\ \A i \in PostcodeRows : PostcodeAt(i) \in DOMAIN groups
                             /\ rows[i].tags.record_count = groups[PostcodeAt(i)]
  /\ \A i, j \in PostcodeRows : PostcodeAt(i) = PostcodeAt(j) => i = j
  /\ stage \in BeforePostcodes => PostcodeRows = {}
  /\ stage = "postcodes" => /\ RowCount("postcode") = at
                            /\ \A i \in PostcodeRows : Rank(DOMAIN groups, PostcodeAt(i)) <= at
  /\ stage \in AfterPostcodes => RowCount("postcode") = Cardinality(DOMAIN groups)

LEMMA AddressTags ==
  ASSUME BuildInv, stage \in {"address nodes", "address ways"}, at < Items(stage)
  PROVE  \E e \in Range(Elements(file)) : Item.tags = AddrIn(e)
<1>1. CASE stage = "address nodes"
  <2>1. Item \in Range(Stubs("address_node_candidates")) /\ stage # "scan"
    BY <1>1, ListNames, ItemIs
  <2>2. "address_node_candidates" \in Kinds \ {"rejections"}
    BY DEF Kinds
  <2>3. Item \in All(file, "address_node_candidates")
    BY <2>1, <2>2, StubsAre DEF Lists, BuildInv
  <2>4. PICK e \in Range(Elements(file)) : Item \in Entries(e, "address_node_candidates")
    BY <2>3 DEF All
  <2>5. e.type \in {"node", "way", "relation"}
    BY FileIs DEF BuildInv
  <2>6. CASE e.type = "node"
    <3> DEFINE entry == [id |-> e.id, tags |-> AddrIn(e)]
    <3>1. \/ Entries(e, "address_node_candidates") = {}
          \/ Entries(e, "address_node_candidates") = {entry}
      BY <2>6, NodeIs
    <3>2. entry.tags = AddrIn(e)
      OBVIOUS
    <3> HIDE DEF entry
    <3>3. Item = entry
      BY <2>4, <3>1
    <3> QED
      BY <3>2, <3>3
  <2>7. CASE e.type = "way"
    <3>1. Entries(e, "address_node_candidates") = {}
      BY <2>2, <2>7, WayIs
    <3> QED
      BY <2>4, <3>1
  <2>8. CASE e.type = "relation"
    <3>1. Entries(e, "address_node_candidates") = {}
      BY <2>2, <2>8, RelationIs
    <3> QED
      BY <2>4, <3>1
  <2> QED
    BY <2>5, <2>6, <2>7, <2>8
<1>2. CASE stage = "address ways"
  <2>1. Item \in Range(Stubs("way_stubs")) /\ stage # "scan" /\ "way_stubs" \in WayKinds
    BY <1>2, ListNames, ItemIs DEF WayKinds
  <2>2. PICK w \in InFile("way") : Item.tags = AddrIn(w)
    BY <2>1, WayStubsAre DEF BuildInv
  <2>3. w \in Range(Elements(file))
    BY DEF InFile
  <2> QED
    BY <2>2, <2>3
<1> QED
  BY <1>1, <1>2

LEMMA CodesAre ==
  /\ Codes \subseteq Int /\ None \notin DOMAIN CanonicalPostcode
  /\ \A raw \in DOMAIN CanonicalPostcode : CanonicalPostcode[raw] \in Codes \cup {None}
BY CodesAssumption DEF Codes

LEMMA PostcodeOfAddress ==
  ASSUME ScanInv, NEW e \in Range(Elements(file)), Has(AddrIn(e), "addr:postcode")
  PROVE  AddrIn(e)["addr:postcode"] \in DOMAIN CanonicalPostcode
<1>1. "addr:postcode" \in AddrKeys
  BY DEF AddrKeys
<1>2. Has(TagsIn(e), "addr:postcode") /\ AddrIn(e)["addr:postcode"] = TagsIn(e)["addr:postcode"]
  BY <1>1 DEF AddrIn, AddrTags, Only, Has
<1> QED
  BY <1>2, CodesAssumption DEF ScanInv, TagsIn

(* The postcodes an address adds one to: at most one. *)
NewCodes(addr) ==
  IF Cleaned(addr, "addr:postcode") = None THEN {}
  ELSE {CanonicalPostcode[Cleaned(addr, "addr:postcode")]} \ {None}

LEMMA NewCodesAre ==
  ASSUME ScanInv, NEW e \in Range(Elements(file)), NEW source
  PROVE  /\ NewCodes(AddrIn(e)) \subseteq Codes
         /\ NewCodes(AddrIn(e)) = {} \/ \E p : NewCodes(AddrIn(e)) = {p}
         /\ \A p \in Codes : HasCode(Row("address", source, AddrIn(e)), p) <=> p \in NewCodes(AddrIn(e))
<1> DEFINE addr == AddrIn(e)
           row == Row("address", source, addr)
           raw == Cleaned(addr, "addr:postcode")
<1>1. row.layer = "address" /\ row.tags = addr
  BY DEF Row
<1>2. CASE Has(addr, "addr:postcode")
  <2>1. raw = addr["addr:postcode"] /\ raw # None /\ raw \in DOMAIN CanonicalPostcode
    BY <1>2, CodesAre, PostcodeOfAddress DEF Cleaned
  <2> HIDE DEF addr, row
  <2>2. \A p : HasCode(row, p) <=> CanonicalPostcode[raw] = p
    BY <1>1, <1>2, <2>1 DEF HasCode
  <2>3. NewCodes(addr) = {CanonicalPostcode[raw]} \ {None}
    BY <2>1 DEF NewCodes
  <2> HIDE DEF raw
  <2>4. CanonicalPostcode[raw] \in Codes \cup {None} /\ None \notin Codes
    BY <2>1, CodesAre DEF Codes
  <2>5. NewCodes(addr) = {} \/ \E p : NewCodes(addr) = {p}
    BY <2>3
  <2>6. NewCodes(addr) \subseteq Codes
    BY <2>3, <2>4
  <2>7. \A p \in Codes : HasCode(row, p) <=> p \in NewCodes(addr)
    BY <2>2, <2>3, <2>4
  <2> QED
    BY <2>5, <2>6, <2>7 DEF addr, row
<1>3. CASE ~Has(addr, "addr:postcode")
  <2>1. NewCodes(addr) = {}
    BY <1>3 DEF Cleaned, NewCodes
  <2>2. \A p : ~HasCode(row, p)
    BY <1>1, <1>3 DEF HasCode
  <2> QED
    BY <2>1, <2>2
<1> QED
  BY <1>2, <1>3

LEMMA AcceptIs ==
  ASSUME NEW addr, AcceptPostcodeOf(addr)
  PROVE  groups' = [p \in DOMAIN groups \cup NewCodes(addr) |->
                     (IF p \in DOMAIN groups THEN groups[p] ELSE 0)
                       + (IF p \in NewCodes(addr) THEN 1 ELSE 0)]
BY DEF AcceptPostcodeOf, NewCodes

LEMMA OneMore ==
  ASSUME NEW h \in Nat, NEW one \in BOOLEAN, NEW k, NEW g,
         k = IF one THEN h + 1 ELSE h, g = h + (IF one THEN 1 ELSE 0)
  PROVE  g = k /\ k \in Nat /\ (one \/ h > 0 => k > 0) /\ (k > 0 => one \/ h > 0)
OBVIOUS

LEMMA NatIsPositive ==
  ASSUME NEW h \in Nat, ~(h > 0)
  PROVE  h = 0
OBVIOUS

(* A row more. *)
LEMMA RowAdded ==
  ASSUME BuildInv, NEW row, rows' = Append(rows, row)
  PROVE  /\ Len(rows) \in Nat /\ DOMAIN rows = 1..Len(rows) /\ DOMAIN rows' = 1..Len(rows) + 1
         /\ rows'[Len(rows) + 1] = row /\ Len(rows) + 1 \in 1..Len(rows) + 1
         /\ \A i \in 1..Len(rows) : rows'[i] = rows[i] /\ i # Len(rows) + 1 /\ i \in 1..Len(rows) + 1
         /\ \A i \in 1..Len(rows) + 1 : i \in 1..Len(rows) \/ i = Len(rows) + 1
<1>1. IsSeq(rows) /\ rows' = Append(rows, row)
  BY DEF BuildInv
<1>2. Len(rows) \in Nat /\ DOMAIN rows = 1..Len(rows)
  BY <1>1, SeqIs
<1>3. /\ DOMAIN rows' = 1..Len(rows) + 1
      /\ \A i \in 1..Len(rows) : rows'[i] = rows[i]
      /\ rows'[Len(rows) + 1] = row
  <2>1. \A s, x : IsSeq(s) => /\ DOMAIN Append(s, x) = 1..Len(s) + 1
                              /\ \A i \in 1..Len(s) : Append(s, x)[i] = s[i]
                              /\ Append(s, x)[Len(s) + 1] = x
    BY AppendIs
  <2> QED
    BY <1>1, <2>1
<1>4. \A n \in Nat : /\ n + 1 \in 1..n + 1
                     /\ \A i \in 1..n : i # n + 1 /\ i \in 1..n + 1
                     /\ \A i \in 1..n + 1 : i \in 1..n \/ i = n + 1
  OBVIOUS
<1> QED
  BY <1>2, <1>3, <1>4

(* Appending a row adds it to the rows with its codes. *)
LEMMA RowsOfCode ==
  ASSUME BuildInv, NEW row, rows' = Append(rows, row), NEW p
  PROVE  /\ AddressesOf(p) \in Nat
         /\ AddressesOf(p)' = IF HasCode(row, p) THEN AddressesOf(p) + 1 ELSE AddressesOf(p)
<1> DEFINE Had == {i \in DOMAIN rows : HasCode(rows[i], p)}
           Now == {i \in DOMAIN rows' : HasCode(rows'[i], p)}
           n == Len(rows)
<1>1. AddressesOf(p) = Cardinality(Had) /\ AddressesOf(p)' = Cardinality(Now)
  BY DEF AddressesOf, HasCode
<1>2. Had \in SUBSET (1..n) /\ Now \in SUBSET (1..n + 1) /\ n \in Nat
  BY RowAdded
<1>3. \A i \in 1..n : i \in Now <=> i \in Had
  BY RowAdded
<1>4. n + 1 \in Now <=> HasCode(row, p)
  BY RowAdded
<1> HIDE DEF Had, Now, n
<1>5. Cardinality(Had) \in Nat /\ Cardinality(Now) = IF n + 1 \in Now THEN Cardinality(Had) + 1 ELSE Cardinality(Had)
  BY <1>2, <1>3, CountAppend
<1> QED
  BY <1>1, <1>4, <1>5

(* An address is counted once, under its postcode. *)
LEMMA AddressGrouped ==
  ASSUME BuildInv, Grouped, NEW addr, NEW row,
         rows' = Append(rows, row), AcceptPostcodeOf(addr),
         NewCodes(addr) \subseteq Codes,
         NewCodes(addr) = {} \/ \E p : NewCodes(addr) = {p},
         \A p \in Codes : HasCode(row, p) <=> p \in NewCodes(addr)
  PROVE  Grouped'
<1> DEFINE new == NewCodes(addr)
           h(p) == AddressesOf(p)
           k(p) == AddressesOf(p)'
<1>1. groups' = [p \in DOMAIN groups \cup new |->
                   (IF p \in DOMAIN groups THEN groups[p] ELSE 0) + (IF p \in new THEN 1 ELSE 0)]
  BY AcceptIs
<1>2. \A p \in Codes : h(p) \in Nat /\ k(p) = IF p \in new THEN h(p) + 1 ELSE h(p)
  BY RowsOfCode
<1>3. /\ IsFiniteSet(DOMAIN groups) /\ DOMAIN groups = {p \in Codes : h(p) > 0}
      /\ \A p \in DOMAIN groups : groups[p] = h(p)
  BY DEF Grouped
<1>4. new \subseteq Codes /\ (new = {} \/ \E p : new = {p})
  OBVIOUS
<1> SUFFICES /\ IsFunction(groups') /\ IsFiniteSet(DOMAIN groups')
             /\ DOMAIN groups' = {p \in Codes : k(p) > 0}
             /\ \A p \in DOMAIN groups' : groups'[p] = k(p)
  BY DEF Grouped, Codes, IsFunction
<1> HIDE DEF new, h, k
<1>5. \A p \in Codes : p \notin DOMAIN groups => h(p) = 0
  BY <1>2, <1>3, NatIsPositive
<1>6. DOMAIN groups' = DOMAIN groups \cup new /\ IsFunction(groups')
  BY <1>1 DEF IsFunction
<1>7. \A p \in Codes : /\ k(p) > 0 <=> p \in new \/ p \in DOMAIN groups
                       /\ p \in DOMAIN groups' => groups'[p] = k(p)
  <2> TAKE p \in Codes
  <2> DEFINE one == p \in new
  <2>1. (IF p \in DOMAIN groups THEN groups[p] ELSE 0) = h(p)
    BY <1>3, <1>5
  <2>2. p \in DOMAIN groups' => groups'[p] = h(p) + (IF one THEN 1 ELSE 0)
    BY <1>1, <2>1
  <2>3. h(p) \in Nat /\ k(p) = (IF one THEN h(p) + 1 ELSE h(p)) /\ one \in BOOLEAN
    BY <1>2
  <2>4. h(p) > 0 <=> p \in DOMAIN groups
    BY <1>3
  <2>5. /\ h(p) + (IF one THEN 1 ELSE 0) = k(p)
        /\ k(p) > 0 <=> one \/ h(p) > 0
    <3> HIDE DEF one
    <3>1. \A a \in Nat, o \in BOOLEAN : \A b : b = (IF o THEN a + 1 ELSE a) =>
             a + (IF o THEN 1 ELSE 0) = b /\ (b > 0 <=> o \/ a > 0)
      BY OneMore
    <3> QED
      BY <2>3, <3>1
  <2> QED
    BY <2>2, <2>4, <2>5
<1>8. DOMAIN groups' = {p \in Codes : k(p) > 0}
  BY <1>3, <1>4, <1>6, <1>7
<1>9. \A p \in DOMAIN groups' : groups'[p] = k(p)
  BY <1>7, <1>8
<1>10. IsFiniteSet(DOMAIN groups')
  <2>1. CASE new = {}
    BY <1>3, <1>6, <2>1
  <2>2. CASE \E p : new = {p}
    BY <1>3, <1>6, <2>2, FS_AddElement
  <2> QED
    BY <1>4, <2>1, <2>2
<1> QED
  BY <1>6, <1>8, <1>9, <1>10


(* The rows of places, ranges and streets are neither addresses nor         *)
(* postcodes.                                                               *)
OtherLayers == AdminLayers \cup PlaceLayers \cup {"interpolation", "street"}

LEMMA OtherLayersAre == "address" \notin OtherLayers /\ "postcode" \notin OtherLayers
BY AbsentAssumption DEF OtherLayers, AdminLayers, PlaceLayers

LEMMA PlaceLayerIs ==
  ASSUME NEW value
  PROVE  PlaceLayer(value) \in PlaceLayers \cup {None}
BY DEF PlaceLayer, PlaceLayers

LEMMA PostcodeRowsStay ==
  ASSUME BuildInv, NEW row, rows' = Append(rows, row), row.layer # "postcode"
  PROVE  /\ PostcodeRows' = PostcodeRows
         /\ \A i \in PostcodeRows : rows'[i] = rows[i]
<1>1. \A i \in DOMAIN rows : rows'[i] = rows[i] /\ i \in DOMAIN rows'
  BY RowAdded
<1>2. \A i \in DOMAIN rows' : i \in DOMAIN rows \/ rows'[i] = row
  BY RowAdded
<1> QED
  BY <1>1, <1>2 DEF PostcodeRows

LEMMA RowCountIs == RowCount("postcode") = Cardinality(PostcodeRows)
BY DEF RowCount, PostcodeRows

LEMMA SameGroups ==
  ASSUME BuildInv, PostcodeInv, groups' = groups,
         \A p : AddressesOf(p)' = AddressesOf(p)
  PROVE  Grouped'
BY DEF PostcodeInv, Grouped, Codes, IsFunction

(* No other row changes the postcodes. *)
LEMMA OtherRow ==
  ASSUME BuildInv, PostcodeInv, NEW row, rows' = Append(rows, row), row.layer \in OtherLayers,
         groups' = groups, stage' = stage, stage # "postcodes"
  PROVE  PostcodeInv'
<1>1. row.layer # "address" /\ row.layer # "postcode"
  BY OtherLayersAre
<1>2. \A p : ~HasCode(row, p)
  BY <1>1 DEF HasCode
<1>3. \A p : AddressesOf(p)' = AddressesOf(p)
  BY <1>2, RowsOfCode
<1>4. Grouped'
  BY <1>3, SameGroups
<1>5. PostcodeRows' = PostcodeRows /\ \A i \in PostcodeRows : rows'[i] = rows[i]
  BY <1>1, PostcodeRowsStay
<1>6. RowCount("postcode")' = RowCount("postcode")
  <2>1. RowCount("postcode")' = Cardinality(PostcodeRows')
    BY DEF RowCount, PostcodeRows
  <2> QED
    BY <1>5, <2>1, RowCountIs
<1> DEFINE new(i) == rows'[i].source[2]
<1>7. \A i : PostcodeAt(i)' = new(i)
  BY DEF PostcodeAt
<1>8. /\ \A i \in PostcodeRows' : PostcodeAt(i)' \in DOMAIN groups'
                                 /\ rows'[i].tags.record_count = groups'[PostcodeAt(i)']
      /\ \A i, j \in PostcodeRows' : PostcodeAt(i)' = PostcodeAt(j)' => i = j
  <2>1. \A i \in PostcodeRows : new(i) = PostcodeAt(i)
    BY <1>5 DEF PostcodeAt
  <2> HIDE DEF new
  <2>2. /\ \A i \in PostcodeRows : new(i) \in DOMAIN groups
                                   /\ rows'[i].tags.record_count = groups[new(i)]
        /\ \A i, j \in PostcodeRows : new(i) = new(j) => i = j
    BY <1>5, <2>1 DEF PostcodeInv
  <2> QED
    BY <1>5, <1>7, <2>2
<1>9. /\ stage' \in BeforePostcodes' => PostcodeRows' = {}
      /\ stage' \in AfterPostcodes' => RowCount("postcode")' = Cardinality(DOMAIN groups')
  BY <1>5, <1>6 DEF PostcodeInv, BeforePostcodes, AfterPostcodes
<1> QED
  BY <1>4, <1>8, <1>9 DEF PostcodeInv

(* What the postcodes depend on stays. *)
LEMMA PostcodesStay ==
  ASSUME BuildInv, PostcodeInv, rows' = rows, groups' = groups
  PROVE  /\ Grouped' /\ PostcodeRows' = PostcodeRows /\ RowCount("postcode")' = RowCount("postcode")
         /\ \A i \in PostcodeRows : rows'[i] = rows[i] /\ PostcodeAt(i)' = PostcodeAt(i)
<1>1. \A p : AddressesOf(p)' = AddressesOf(p)
  BY DEF AddressesOf
<1>2. Grouped'
  BY <1>1, SameGroups
<1> QED
  BY <1>2 DEF PostcodeRows, RowCount, PostcodeAt

LEMMA NoRow ==
  ASSUME BuildInv, PostcodeInv, rows' = rows, groups' = groups, stage' = stage, stage # "postcodes"
  PROVE  PostcodeInv'
BY PostcodesStay DEF PostcodeInv, PostcodeAt, BeforePostcodes, AfterPostcodes

(* An address is written before the postcodes. *)
LEMMA AddressRow ==
  ASSUME BuildInv, PostcodeInv, stage \in {"address nodes", "address ways"}, at < Items(stage),
         stage' = stage, NEW source, NEW precision, WriteCandidate(source, precision, Item.tags)
  PROVE  PostcodeInv'
<1>1. PICK e \in Range(Elements(file)) : Item.tags = AddrIn(e)
  BY AddressTags
<1> DEFINE row == Row("address", source, AddrIn(e))
<1>2. rows' = Append(rows, row) /\ AcceptPostcodeOf(AddrIn(e))
  BY <1>1 DEF WriteCandidate, Accept
<1>3. row.layer = "address"
  BY DEF Row
<1>4. Grouped'
  <2>1. /\ NewCodes(AddrIn(e)) \subseteq Codes
        /\ NewCodes(AddrIn(e)) = {} \/ \E p : NewCodes(AddrIn(e)) = {p}
        /\ \A p \in Codes : HasCode(row, p) <=> p \in NewCodes(AddrIn(e))
    BY NewCodesAre DEF BuildInv
  <2> HIDE DEF row
  <2> QED
    BY <1>2, <2>1, AddressGrouped DEF PostcodeInv
<1> HIDE DEF row
<1>5. PostcodeRows' = PostcodeRows
  BY <1>2, <1>3, PostcodeRowsStay
<1>6. PostcodeRows = {}
  BY DEF PostcodeInv, BeforePostcodes
<1> QED
  BY <1>4, <1>5, <1>6 DEF PostcodeInv, AfterPostcodes

(* The postcode that is written next is a new one. *)
LEMMA PostcodeRow ==
  ASSUME BuildInv, PostcodeInv, WritePostcode
  PROVE  PostcodeInv'
<1> DEFINE postcode == CHOOSE p \in DOMAIN groups :
                         Cardinality({q \in DOMAIN groups : q <= p}) = at + 1
           tags == [record_count |-> groups[postcode]]
           row == Row("postcode", <<"postcode", postcode>>, tags)
           n == Len(rows)
<1>1. /\ stage = "postcodes" /\ at < Items("postcodes") /\ at' = at + 1 /\ stage' = stage
      /\ groups' = groups /\ rows' = Append(rows, row)
  BY DEF WritePostcode, Emit, Accept
<1>2. DOMAIN groups \in SUBSET Int /\ IsFiniteSet(DOMAIN groups)
  BY CodesAre DEF PostcodeInv, Grouped
<1>3. at \in Nat /\ Items("postcodes") = Cardinality(DOMAIN groups)
  BY ListNames DEF BuildInv, Items
<1>4. at + 1 \in 1..Cardinality(DOMAIN groups)
  <2>1. Cardinality(DOMAIN groups) \in Nat
    BY <1>2, FS_CardinalityType
  <2> QED
    BY <1>1, <1>3, <2>1
<1>5. postcode \in DOMAIN groups /\ Rank(DOMAIN groups, postcode) = at + 1
  <2>1. \E p \in DOMAIN groups : Cardinality({q \in DOMAIN groups : q <= p}) = at + 1
    BY <1>2, <1>4, RanksTaken DEF Rank
  <2> QED
    BY <2>1 DEF Rank
<1>6. row.layer = "postcode" /\ row.source[2] = postcode /\ row.tags.record_count = groups[postcode]
  <2>1. row.layer = "postcode" /\ row.source = <<"postcode", postcode>> /\ row.tags = tags
    <3> HIDE DEF postcode, tags
    <3> QED
      BY DEF Row
  <2>2. <<"postcode", postcode>>[2] = postcode /\ tags.record_count = groups[postcode]
    OBVIOUS
  <2> HIDE DEF row, postcode
  <2> QED
    BY <2>1, <2>2
<1> HIDE DEF postcode, row
<1>7. /\ n \in Nat /\ DOMAIN rows = 1..n /\ DOMAIN rows' = 1..n + 1
      /\ rows'[n + 1] = row /\ n + 1 \in 1..n + 1
      /\ \A i \in 1..n : rows'[i] = rows[i] /\ i # n + 1 /\ i \in 1..n + 1
      /\ \A i \in 1..n + 1 : i \in 1..n \/ i = n + 1
  BY <1>1, RowAdded
<1> HIDE DEF n
<1>8. /\ PostcodeRows' = PostcodeRows \cup {n + 1} /\ n + 1 \notin PostcodeRows
      /\ \A i \in PostcodeRows : rows'[i] = rows[i]
  BY <1>6, <1>7 DEF PostcodeRows
<1>9. Grouped'
  <2>1. \A p : ~HasCode(row, p)
    BY <1>6 DEF HasCode
  <2>2. \A p : AddressesOf(p)' = AddressesOf(p)
    BY <1>1, <2>1, RowsOfCode
  <2> QED
    BY <1>1, <2>2, SameGroups
<1>10. RowCount("postcode")' = RowCount("postcode") + 1
  <2>1. RowCount("postcode")' = Cardinality(PostcodeRows')
    BY DEF RowCount, PostcodeRows
  <2>2. IsFiniteSet(PostcodeRows)
    BY RowCountNat DEF PostcodeRows
  <2>3. Cardinality(PostcodeRows \cup {n + 1}) = Cardinality(PostcodeRows) + 1
    BY <1>8, <2>2, FS_AddElement
  <2> QED
    BY <1>8, <2>1, <2>3, RowCountIs
<1>11. /\ RowCount("postcode") = at
       /\ \A i \in PostcodeRows : /\ Rank(DOMAIN groups, PostcodeAt(i)) <= at
                                  /\ PostcodeAt(i) \in DOMAIN groups
                                  /\ rows[i].tags.record_count = groups[PostcodeAt(i)]
       /\ \A i, j \in PostcodeRows : PostcodeAt(i) = PostcodeAt(j) => i = j
  BY <1>1 DEF PostcodeInv
<1> DEFINE new(i) == rows'[i].source[2]
<1>12. \A i : PostcodeAt(i)' = new(i)
  BY DEF PostcodeAt
<1>13. /\ \A i \in PostcodeRows : new(i) = PostcodeAt(i) /\ PostcodeAt(i) # postcode
       /\ new(n + 1) = postcode
  <2>1. \A i \in PostcodeRows : PostcodeAt(i) # postcode
    <3> SUFFICES ASSUME NEW i \in PostcodeRows, PostcodeAt(i) = postcode PROVE FALSE
      OBVIOUS
    <3>1. at + 1 <= at
      BY <1>5, <1>11
    <3> QED
      BY <1>3, <3>1
  <2>2. \A i \in PostcodeRows : new(i) = PostcodeAt(i)
    BY <1>8 DEF PostcodeAt
  <2>3. new(n + 1) = postcode
    BY <1>6, <1>7
  <2> QED
    BY <2>1, <2>2, <2>3
<1> HIDE DEF new
<1>14. \A i \in PostcodeRows' : /\ new(i) \in DOMAIN groups
                                /\ rows'[i].tags.record_count = groups[new(i)]
                                /\ Rank(DOMAIN groups, new(i)) <= at + 1
  <2>1. \A i \in PostcodeRows : Rank(DOMAIN groups, PostcodeAt(i)) <= at + 1
    <3> DEFINE r(i) == Rank(DOMAIN groups, PostcodeAt(i))
    <3>1. \A i \in PostcodeRows : r(i) \in Nat
      <4>1. \A i : {c \in DOMAIN groups : c <= PostcodeAt(i)} \in SUBSET (DOMAIN groups)
        OBVIOUS
      <4> QED
        BY <1>2, <4>1, FS_Subset, FS_CardinalityType DEF Rank
    <3>2. \A i \in PostcodeRows : r(i) <= at
      BY <1>11
    <3> HIDE DEF r
    <3>3. \A i \in PostcodeRows : r(i) <= at + 1
      BY <1>3, <3>1, <3>2
    <3> QED
      BY <3>3 DEF r
  <2>2. at + 1 <= at + 1
    BY <1>3
  <2>3. \A i \in PostcodeRows : /\ new(i) \in DOMAIN groups
                                /\ rows'[i].tags.record_count = groups[new(i)]
                                /\ Rank(DOMAIN groups, new(i)) <= at + 1
    BY <1>8, <1>11, <1>13, <2>1
  <2>4. /\ new(n + 1) \in DOMAIN groups
        /\ rows'[n + 1].tags.record_count = groups[new(n + 1)]
        /\ Rank(DOMAIN groups, new(n + 1)) <= at + 1
    BY <1>5, <1>6, <1>7, <1>13, <2>2
  <2> HIDE DEF row, postcode
  <2> QED
    BY <1>8, <2>3, <2>4
<1>15. \A i, j \in PostcodeRows' : new(i) = new(j) => i = j
  BY <1>8, <1>11, <1>13
<1>16. RowCount("postcode")' = at + 1
  BY <1>10, <1>11
<1> QED
  <2>1. \A i \in PostcodeRows' : /\ PostcodeAt(i)' \in DOMAIN groups'
                                 /\ rows'[i].tags.record_count = groups'[PostcodeAt(i)']
                                 /\ Rank(DOMAIN groups', PostcodeAt(i)') <= at'
    BY <1>1, <1>12, <1>14
  <2>2. \A i, j \in PostcodeRows' : PostcodeAt(i)' = PostcodeAt(j)' => i = j
    BY <1>12, <1>15
  <2>3. stage' = "postcodes" /\ RowCount("postcode")' = at'
    BY <1>1, <1>16
  <2> QED
    BY <1>9, <2>1, <2>2, <2>3 DEF PostcodeInv, BeforePostcodes, AfterPostcodes, Early, Rank


(* The next stage finds the postcodes as the last one left them. *)
LEMMA NextStagePostcodes ==
  ASSUME BuildInv, PostcodeInv, NextStage
  PROVE  PostcodeInv'
<1>1. /\ stage \in Loops /\ at = Items(stage) /\ stage' = Following(stage) /\ at' = 0
      /\ rows' = rows /\ groups' = groups
  BY DEF NextStage, output
<1>2. stage \in {"boundaries", "rejections", "places", "address nodes", "address ways",
                 "postcodes", "interpolation", "streets"}
  BY <1>1, ListNames DEF Loops
<1>3. /\ Grouped' /\ PostcodeRows' = PostcodeRows /\ RowCount("postcode")' = RowCount("postcode")
      /\ \A i \in PostcodeRows : rows'[i] = rows[i] /\ PostcodeAt(i)' = PostcodeAt(i)
  BY <1>1, PostcodesStay
<1>4. /\ \A i \in PostcodeRows' : PostcodeAt(i)' \in DOMAIN groups'
                                  /\ rows'[i].tags.record_count = groups'[PostcodeAt(i)']
      /\ \A i, j \in PostcodeRows' : PostcodeAt(i)' = PostcodeAt(j)' => i = j
  BY <1>1, <1>3 DEF PostcodeInv, PostcodeAt
<1>5. CASE stage \in {"boundaries", "rejections", "places", "address nodes"}
  <2>1. stage \in BeforePostcodes /\ stage' \in BeforePostcodes /\ stage' # "postcodes"
        /\ stage' \notin AfterPostcodes
    BY <1>1, <1>5 DEF BeforePostcodes, AfterPostcodes, Following, Early
  <2>2. PostcodeRows' = {}
    BY <1>3, <2>1 DEF PostcodeInv
  <2> QED
    BY <1>3, <1>4, <2>1, <2>2 DEF PostcodeInv, BeforePostcodes, AfterPostcodes
<1>6. CASE stage = "address ways"
  <2>1. stage \in BeforePostcodes /\ stage' = "postcodes" /\ stage' \notin BeforePostcodes
        /\ stage' \notin AfterPostcodes
    BY <1>1, <1>6 DEF BeforePostcodes, AfterPostcodes, Following, Early
  <2>2. PostcodeRows' = {}
    BY <1>3, <2>1 DEF PostcodeInv
  <2>3. RowCount("postcode")' = at'
    BY <1>1, <1>3, <2>2, RowCountIs, FS_EmptySet
  <2>4. \A i \in PostcodeRows' : Rank(DOMAIN groups', PostcodeAt(i)') <= at'
    BY <2>2
  <2> QED
    BY <1>3, <1>4, <2>1, <2>2, <2>3, <2>4 DEF PostcodeInv, BeforePostcodes, AfterPostcodes, Rank
<1>7. CASE stage = "postcodes"
  <2>1. stage' \in AfterPostcodes /\ stage' # "postcodes" /\ stage' \notin BeforePostcodes
    BY <1>1, <1>7 DEF BeforePostcodes, AfterPostcodes, Following, Early
  <2>2. at = Cardinality(DOMAIN groups)
    BY <1>1, <1>7, ListNames DEF Items
  <2>3. RowCount("postcode")' = Cardinality(DOMAIN groups')
    BY <1>1, <1>3, <1>7, <2>2 DEF PostcodeInv
  <2> QED
    BY <1>3, <1>4, <2>1, <2>3 DEF PostcodeInv, BeforePostcodes, AfterPostcodes
<1>8. CASE stage \in {"interpolation", "streets"}
  <2>1. stage \in AfterPostcodes /\ stage' \in AfterPostcodes /\ stage' # "postcodes"
        /\ stage' \notin BeforePostcodes
    BY <1>1, <1>8 DEF BeforePostcodes, AfterPostcodes, Following, Early
  <2>3. RowCount("postcode")' = Cardinality(DOMAIN groups')
    BY <1>1, <1>3, <2>1 DEF PostcodeInv
  <2> QED
    BY <1>3, <1>4, <2>1, <2>3 DEF PostcodeInv, BeforePostcodes, AfterPostcodes
<1> QED
  BY <1>2, <1>5, <1>6, <1>7, <1>8

(* Before the loops there is no postcode. *)
LEMMA PreparingPostcodes ==
  ASSUME BuildInv, PostcodeInv, Preparing
  PROVE  PostcodeInv'
<1>1. stage \in Early /\ stage' \in Early \cup {"boundaries"} /\ rows' = rows /\ groups' = groups
  BY DEF Preparing, Scan, Discover, ResolveBoundaryWays, ResolveNodeLocations, BuildBoundaries,
         output, Early
<1>2. stage \in BeforePostcodes /\ stage' \in BeforePostcodes
      /\ stage' \notin AfterPostcodes /\ stage' # "postcodes"
  BY <1>1 DEF BeforePostcodes, AfterPostcodes, Early
<1>3. Grouped' /\ PostcodeRows' = PostcodeRows
  BY <1>1, PostcodesStay
<1>4. PostcodeRows' = {}
  BY <1>2, <1>3 DEF PostcodeInv
<1> QED
  BY <1>2, <1>3, <1>4 DEF PostcodeInv, BeforePostcodes, AfterPostcodes

LEMMA PostcodeStep ==
  ASSUME BuildInv, PostcodeInv, Next
  PROVE  PostcodeInv'
<1>1. CASE Preparing
  BY <1>1, PreparingPostcodes
<1>2. CASE NextStage
  BY <1>2, NextStagePostcodes
<1>3. CASE WritePostcode
  BY <1>3, PostcodeRow
<1>4. CASE Finished
  <2>1. rows' = rows /\ groups' = groups /\ stage' = stage /\ stage # "postcodes"
    BY <1>4 DEF Finished, vars, output
  <2> QED
    BY <2>1, NoRow
<1>5. CASE WriteBoundaryRecord
  <2> DEFINE row == BoundaryRows[at + 1]
  <2>1. /\ stage = "boundaries" /\ at < Items("boundaries") /\ stage' = stage
        /\ rows' = Append(rows, row) /\ groups' = groups
    BY <1>5 DEF WriteBoundaryRecord, Emit, Accept
  <2>2. row.layer \in AdminLayers
    <3>1. stage \notin Early /\ Items("boundaries") = Len(BoundaryRows)
      BY <2>1, ListNames DEF Early, Items
    <3>2. IsSeq(BoundaryRows) /\ \A r \in Range(BoundaryRows) : r.layer \in AdminLayers
      BY <3>1, BoundaryRowsAre
    <3>3. /\ Len(BoundaryRows) \in Nat
          /\ \A i \in 1..Len(BoundaryRows) : BoundaryRows[i] \in Range(BoundaryRows)
      BY <3>2, SeqIs
    <3>4. at + 1 \in 1..Len(BoundaryRows)
      BY <2>1, <3>1, <3>3 DEF BuildInv
    <3> QED
      BY <3>2, <3>3, <3>4
  <2> HIDE DEF row
  <2>3. row.layer \in OtherLayers /\ stage # "postcodes"
    BY <2>1, <2>2 DEF OtherLayers
  <2> QED
    BY <2>1, <2>3, OtherRow
<1>6. CASE WriteRejections
  <2>1. rows' = rows /\ groups' = groups /\ stage' = stage /\ stage # "postcodes"
    BY <1>6 DEF WriteRejections, Emit
  <2> QED
    BY <2>1, NoRow
<1>7. ASSUME NEW layer, layer \in OtherLayers, NEW source, NEW tags,
             rows' = Append(rows, Row(layer, source, tags)),
             groups' = groups, stage' = stage, stage # "postcodes"
      PROVE  PostcodeInv'
  <2> DEFINE row == Row(layer, source, tags)
  <2>1. row.layer \in OtherLayers
    BY <1>7 DEF Row
  <2> HIDE DEF row
  <2> QED
    BY <1>7, <2>1, OtherRow DEF row
<1>8. CASE WritePlaceNode
  <2>1. stage' = stage /\ groups' = groups /\ stage # "postcodes"
    BY <1>8 DEF WritePlaceNode, Emit
  <2> DEFINE layer == PlaceLayer(Cleaned(Item.tags, "place"))
  <2>2. layer \in OtherLayers
    BY PlaceLayerIs DEF OtherLayers, AdminLayers
  <2>3. \/ rows' = Append(rows, Row(layer, <<"node", Item.id>>, NoTags))
        \/ rows' = rows
    BY <1>8 DEF WritePlaceNode, Accept, Reject
  <2> HIDE DEF layer
  <2> QED
    BY <1>7, <2>1, <2>2, <2>3, NoRow
<1>9. CASE WriteAddressNode
  <2>1. /\ stage = "address nodes" /\ at < Items(stage) /\ stage' = stage
        /\ WriteCandidate(<<"node", Item.id>>, "point", Item.tags)
    BY <1>9 DEF WriteAddressNode, Emit
  <2> QED
    BY <2>1, AddressRow
<1>10. CASE WriteAddressWay
  <2>1. /\ stage = "address ways" /\ at < Items(stage) /\ stage' = stage
        /\ WriteCandidate(<<"way", Item.id>>, "centroid", Item.tags)
    BY <1>10 DEF WriteAddressWay, Emit
  <2> QED
    BY <2>1, AddressRow
<1>11. CASE RejectAddressWay \/ RejectInterpolationWay \/ RejectStreet
  <2>1. rows' = rows /\ groups' = groups /\ stage' = stage /\ stage # "postcodes"
    BY <1>11 DEF RejectAddressWay, RejectInterpolationWay, RejectStreet, Emit, Reject
  <2> QED
    BY <2>1, NoRow
<1>12. CASE WriteInterpolation
  <2>1. /\ stage' = stage /\ groups' = groups /\ stage # "postcodes"
        /\ rows' = Append(rows, Row("interpolation", <<"way", Item.id>>, NoTags))
    BY <1>12 DEF WriteInterpolation, DecidePair, Accept
  <2>2. "interpolation" \in OtherLayers
    BY DEF OtherLayers
  <2> QED
    BY <1>7, <2>1, <2>2
<1>13. CASE \E issue \in PairIssues : RejectInterpolation(issue)
  <2>1. rows' = rows /\ groups' = groups /\ stage' = stage /\ stage # "postcodes"
    BY <1>13 DEF RejectInterpolation, DecidePair, Reject
  <2> QED
    BY <2>1, NoRow
<1>14. CASE WriteStreet
  <2>1. /\ stage' = stage /\ groups' = groups /\ stage # "postcodes"
        /\ rows' = Append(rows, Row("street", <<"way", Item.id>>, NoTags))
    BY <1>14 DEF WriteStreet, Emit, Accept
  <2>2. "street" \in OtherLayers
    BY DEF OtherLayers
  <2> QED
    BY <1>7, <2>1, <2>2
<1> QED
  BY <1>1, <1>2, <1>3, <1>4, <1>5, <1>6, <1>8, <1>9, <1>10, <1>11, <1>12, <1>13, <1>14
     DEF Next, Preparing

LEMMA PostcodeInvariant == Spec => []PostcodeInv
<1>1. Init => PostcodeInv
  <2> SUFFICES ASSUME Init PROVE PostcodeInv
    OBVIOUS
  <2>1. rows = <<>> /\ groups = <<>> /\ stage = "scan"
    BY DEF Init
  <2>2. DOMAIN rows = {} /\ DOMAIN groups = {} /\ IsFunction(groups)
    BY <2>1 DEF IsFunction
  <2>3. \A p : AddressesOf(p) = 0
    <3>1. \A p : {i \in DOMAIN rows : HasCode(rows[i], p)} = {}
      BY <2>2
    <3>2. \A p : AddressesOf(p) = Cardinality({i \in DOMAIN rows : HasCode(rows[i], p)})
      BY DEF AddressesOf, HasCode
    <3> QED
      BY <3>1, <3>2, FS_EmptySet
  <2>4. Grouped
    BY <2>2, <2>3, FS_EmptySet DEF Grouped
  <2>5. PostcodeRows = {}
    BY <2>2 DEF PostcodeRows
  <2> QED
    BY <2>1, <2>4, <2>5 DEF PostcodeInv, AfterPostcodes
<1>2. BuildInv /\ PostcodeInv /\ [Next]_vars => PostcodeInv'
  <2> SUFFICES ASSUME BuildInv, PostcodeInv, UNCHANGED vars PROVE PostcodeInv'
    BY PostcodeStep
  <2>1. rows' = rows /\ groups' = groups /\ stage' = stage /\ at' = at
    BY DEF vars, output
  <2> QED
    BY <2>1, PostcodesStay DEF PostcodeInv, PostcodeAt, BeforePostcodes, AfterPostcodes, Early, Rank
<1> QED
  BY <1>1, <1>2, BuildInvariant, PTL DEF Spec

(* For every file, each postcode of the addresses in the pack has one       *)
(* record, and it counts them.                                              *)
THEOREM PostcodesAreCounted == Spec => []PostcodesCountAddresses
<1>1. PostcodeInv => PostcodesCountAddresses
  <2> SUFFICES ASSUME PostcodeInv, Done PROVE PostcodesCountAddresses
    BY DEF PostcodesCountAddresses
  <2> DEFINE expected == {p \in {CanonicalPostcode[raw] : raw \in DOMAIN CanonicalPostcode} :
                            p # None /\ AddressesOf(p) > 0}
  <2>1. expected = DOMAIN groups
    BY DEF PostcodeInv, Grouped, Codes
  <2> HIDE DEF expected
  <2>2. RowCount("postcode") = Cardinality(expected)
    BY <2>1 DEF PostcodeInv, Done, AfterPostcodes
  <2>3. \A i \in PostcodeRows : /\ rows[i].source[2] \in expected
                                /\ rows[i].tags.record_count = AddressesOf(rows[i].source[2])
    BY <2>1 DEF PostcodeInv, PostcodeAt, Grouped
  <2>4. \A i, j \in PostcodeRows : rows[i].source = rows[j].source => i = j
    BY DEF PostcodeInv, PostcodeAt
  <2> QED
    BY <2>2, <2>3, <2>4 DEF PostcodesCountAddresses, PostcodeRows, expected
<1> QED
  BY <1>1, PostcodeInvariant, PTL


-----------------------------------------------------------------------------
(* The counters of the report *)

IsReport(r) == /\ r = [counters |-> r.counters, samples |-> r.samples]
               /\ \A name \in DOMAIN r.counters : r.counters[name] \in Nat

LEMMA EmptyReportIs == IsReport(EmptyReport) /\ \A name : Counted(EmptyReport, name) = 0
BY DEF IsReport, EmptyReport, Counted, EmptyBag, SetToBag

LEMMA CountIs ==
  ASSUME NEW r, IsReport(r), NEW names
  PROVE  /\ IsReport(Count(r, names))
         /\ \A name : /\ Counted(r, name) \in Nat
                      /\ Counted(Count(r, names), name) =
                           IF name \in names THEN Counted(r, name) + 1 ELSE Counted(r, name)
<1> DEFINE old == r.counters
           bag == SetToBag(names)
           new == old (+) bag
           s == Count(r, names)
<1>1. s = [counters |-> new, samples |-> r.samples]
  <2> HIDE DEF new
  <2>1. s = [r EXCEPT !.counters = new]
    BY DEF Count, new
  <2> QED
    BY <2>1 DEF IsReport
<1>2. /\ DOMAIN new = DOMAIN old \cup names
      /\ \A name \in DOMAIN new : new[name] = (IF name \in DOMAIN old THEN old[name] ELSE 0)
                                              + (IF name \in names THEN 1 ELSE 0)
  BY DEF (+), SetToBag
<1>3. \A name \in DOMAIN old : old[name] \in Nat
  BY DEF IsReport
<1> HIDE DEF old, new
<1>4. \A name : (IF name \in DOMAIN old THEN old[name] ELSE 0) \in Nat
  BY <1>3
<1> DEFINE count(name) == IF name \in DOMAIN old THEN old[name] ELSE 0
           now(name) == IF name \in DOMAIN new THEN new[name] ELSE 0
<1>5. \A name : /\ count(name) \in Nat
                /\ now(name) = IF name \in names THEN count(name) + 1 ELSE count(name)
  <2> TAKE name
  <2>1. count(name) \in Nat
    BY <1>3
  <2>2. CASE name \in names
    <3>1. name \in DOMAIN new /\ new[name] = count(name) + 1
      BY <1>2, <2>2
    <3> QED
      BY <2>1, <2>2, <3>1
  <2>3. CASE name \notin names
    <3>1. name \in DOMAIN new <=> name \in DOMAIN old
      BY <1>2, <2>3
    <3>2. name \in DOMAIN new => new[name] = count(name) + 0
      BY <1>2, <2>3
    <3>3. name \in DOMAIN new => new[name] = count(name)
      BY <2>1, <3>2
    <3> HIDE DEF count
    <3>4. CASE name \in DOMAIN new
      BY <2>1, <2>3, <3>3, <3>4
    <3>5. CASE name \notin DOMAIN new
      BY <2>3, <3>1, <3>5 DEF count
    <3> QED
      BY <2>1, <3>4, <3>5
  <2> QED
    BY <2>2, <2>3
<1>6. \A name : Counted(r, name) = count(name) /\ Counted(s, name) = now(name)
  BY <1>1 DEF Counted, old
<1>7. IsReport(s)
  <2>1. \A name \in DOMAIN new : new[name] = now(name)
    OBVIOUS
  <2>2. \A name : now(name) \in Nat
    BY <1>5
  <2> HIDE DEF now
  <2>3. \A name \in DOMAIN new : new[name] \in Nat
    BY <2>1, <2>2
  <2> QED
    BY <1>1, <2>3 DEF IsReport
<1> HIDE DEF count, now
<1> QED
  BY <1>5, <1>6, <1>7

(* A sample changes no counter. *)
SameCounters(r, s) == IsReport(s) /\ \A name : Counted(s, name) = Counted(r, name)

LEMMA SampleIs ==
  ASSUME NEW r, IsReport(r), NEW key, NEW sample
  PROVE  SameCounters(r, AddSample(r, key, sample))
<1> DEFINE samples == (key :> Append(Samples(r, key), sample)) @@ r.samples
           s == [r EXCEPT !.samples = samples]
<1>1. s = [counters |-> r.counters, samples |-> samples]
  <2> HIDE DEF samples
  <2> QED
    BY DEF IsReport
<1>2. SameCounters(r, s)
  <2> HIDE DEF s
  <2> QED
    BY <1>1 DEF SameCounters, IsReport, Counted
<1>3. AddSample(r, key, sample) = s \/ AddSample(r, key, sample) = r
  BY DEF AddSample
<1> QED
  BY <1>2, <1>3 DEF SameCounters

LEMMA QualitySamplesAre ==
  ASSUME NEW r, IsReport(r), NEW address
  PROVE  SameCounters(r, QualitySamples(r, address))
<1> DEFINE missing == AdminFields \ address.fields
           sample  == [source |-> address.source, missing |-> missing]
           lacking == [sample EXCEPT !.missing = {"addr:postcode"}]
           whole == [sample EXCEPT !.missing = {}]
           r1 == IF missing # {} THEN AddSample(r, <<"missing_admin_context">>, sample) ELSE r
           r2 == IF "addr:postcode" \notin address.fields
                 THEN AddSample(r1, <<"missing_postcode">>, lacking) ELSE r1
           r3 == IF SourceFields \subseteq address.fields
                 THEN AddSample(r2, <<"complete_source_context">>, whole) ELSE r2
<1>1. QualitySamples(r, address) = r3
  BY DEF QualitySamples
<1> HIDE DEF sample, lacking, whole
<1>0. \A q, key, x : IsReport(q) => SameCounters(q, AddSample(q, key, x))
  BY SampleIs
<1>2. SameCounters(r, r1)
  BY <1>0 DEF SameCounters
<1> HIDE DEF r1
<1>3. SameCounters(r1, r2)
  BY <1>0, <1>2 DEF SameCounters
<1> HIDE DEF r2
<1>4. SameCounters(r2, r3)
  BY <1>0, <1>3 DEF SameCounters
<1> HIDE DEF r3
<1> QED
  BY <1>1, <1>2, <1>3, <1>4 DEF SameCounters

-----------------------------------------------------------------------------
(* What a row adds to the report *)

(* The counters that tell the rows, and those that tell the rejections. *)
RowCounters == {"accepted", "accepted.by_layer", "quality", "quality.has", "quality.missing"}

LEMMA OtherAccepted ==
  ASSUME NEW r, IsReport(r), NEW layer, NEW kind, kind # "total"
  PROVE  LET s == AcceptLayer(r, layer, kind)
         IN /\ IsReport(s)
            /\ \A name : Counted(r, name) \in Nat
            /\ Counted(s, <<"accepted", "total">>) = Counted(r, <<"accepted", "total">>) + 1
            /\ \A l : Counted(s, <<"accepted.by_layer", l>>) =
                 IF l = layer THEN Counted(r, <<"accepted.by_layer", l>>) + 1
                 ELSE Counted(r, <<"accepted.by_layer", l>>)
            /\ \A c \in {"quality", "quality.has", "quality.missing", "rejected",
                         "rejected.by_reason"} : \A x :
                 Counted(s, <<c, x>>) = Counted(r, <<c, x>>)
<1> DEFINE names == {<<"accepted", "total">>, <<"accepted.by_layer", layer>>, <<"accepted", kind>>}
           s == Count(r, names)
<1>1. s = AcceptLayer(r, layer, kind)
  BY DEF AcceptLayer
<1>2. /\ <<"accepted", "total">> \in names
      /\ \A l : <<"accepted.by_layer", l>> \in names <=> l = layer
      /\ \A c \in {"quality", "quality.has", "quality.missing", "rejected",
                   "rejected.by_reason"} : \A x : <<c, x>> \notin names
  OBVIOUS
<1> HIDE DEF names
<1>3. IsReport(s) /\ \A name : /\ Counted(r, name) \in Nat
                               /\ Counted(s, name) = IF name \in names THEN Counted(r, name) + 1
                                                     ELSE Counted(r, name)
  BY CountIs
<1> HIDE DEF s
<1> QED
  BY <1>1, <1>2, <1>3


LEMMA AddressAccepted ==
  ASSUME NEW r, IsReport(r), NEW address
  PROVE  LET s == AcceptAddress(r, address)
         IN /\ IsReport(s)
            /\ \A name : Counted(r, name) \in Nat
            /\ Counted(s, <<"accepted", "total">>) = Counted(r, <<"accepted", "total">>) + 1
            /\ Counted(s, <<"quality", "total">>) = Counted(r, <<"quality", "total">>) + 1
            /\ \A l : Counted(s, <<"accepted.by_layer", l>>) =
                 IF l = "address" THEN Counted(r, <<"accepted.by_layer", l>>) + 1
                 ELSE Counted(r, <<"accepted.by_layer", l>>)
            /\ \A f \in SourceFields :
                 /\ Counted(s, <<"quality.has", f>>) =
                      IF f \in address.fields THEN Counted(r, <<"quality.has", f>>) + 1
                      ELSE Counted(r, <<"quality.has", f>>)
                 /\ Counted(s, <<"quality.missing", f>>) =
                      IF f \in address.fields THEN Counted(r, <<"quality.missing", f>>)
                      ELSE Counted(r, <<"quality.missing", f>>) + 1
            /\ \A c \in {"rejected", "rejected.by_reason"} : \A x :
                 Counted(s, <<c, x>>) = Counted(r, <<c, x>>)
<1> DEFINE kind == IF address.precision = "point" THEN "node_addresses" ELSE "way_centroid_addresses"
           q == AcceptLayer(r, "address", kind)
           names == QualityCounters(address)
           t == Count(q, names)
           s == AcceptAddress(r, address)
<1>1. s = QualitySamples(t, address)
  BY DEF AcceptAddress
<1>2. kind # "total"
  OBVIOUS
<1>3. /\ <<"quality", "total">> \in names
      /\ \A f \in SourceFields : /\ <<"quality.has", f>> \in names <=> f \in address.fields
                                 /\ <<"quality.missing", f>> \in names <=> f \notin address.fields
      /\ \A c \in {"accepted", "accepted.by_layer", "rejected", "rejected.by_reason"} : \A x :
           <<c, x>> \notin names
  BY DEF QualityCounters
<1> HIDE DEF kind, names
<1>4. /\ IsReport(q)
      /\ \A name : Counted(r, name) \in Nat
      /\ Counted(q, <<"accepted", "total">>) = Counted(r, <<"accepted", "total">>) + 1
      /\ \A l : Counted(q, <<"accepted.by_layer", l>>) =
                 IF l = "address" THEN Counted(r, <<"accepted.by_layer", l>>) + 1
                 ELSE Counted(r, <<"accepted.by_layer", l>>)
      /\ \A c \in {"quality", "quality.has", "quality.missing", "rejected",
                         "rejected.by_reason"} : \A x :
                 Counted(q, <<c, x>>) = Counted(r, <<c, x>>)
  BY <1>2, OtherAccepted
<1> HIDE DEF q
<1>5. IsReport(t) /\ \A name : /\ Counted(q, name) \in Nat
                               /\ Counted(t, name) = IF name \in names THEN Counted(q, name) + 1
                                                     ELSE Counted(q, name)
  BY <1>4, CountIs
<1> HIDE DEF t
<1>6. IsReport(s) /\ \A name : Counted(s, name) = Counted(t, name)
  BY <1>1, <1>5, QualitySamplesAre DEF SameCounters
<1> HIDE DEF s
<1>7. /\ Counted(s, <<"accepted", "total">>) = Counted(r, <<"accepted", "total">>) + 1
      /\ Counted(s, <<"quality", "total">>) = Counted(r, <<"quality", "total">>) + 1
  BY <1>3, <1>4, <1>5, <1>6
<1>8. \A l : Counted(s, <<"accepted.by_layer", l>>) = Counted(q, <<"accepted.by_layer", l>>)
  BY <1>3, <1>5, <1>6
<1>9. \A f \in SourceFields :
                 /\ Counted(s, <<"quality.has", f>>) =
                      IF f \in address.fields THEN Counted(r, <<"quality.has", f>>) + 1
                      ELSE Counted(r, <<"quality.has", f>>)
                 /\ Counted(s, <<"quality.missing", f>>) =
                      IF f \in address.fields THEN Counted(r, <<"quality.missing", f>>)
                      ELSE Counted(r, <<"quality.missing", f>>) + 1
  BY <1>3, <1>4, <1>5, <1>6
<1>10. \A c \in {"rejected", "rejected.by_reason"} : \A x : Counted(s, <<c, x>>) = Counted(r, <<c, x>>)
  BY <1>3, <1>4, <1>5, <1>6
<1> QED
  BY <1>4, <1>6, <1>7, <1>8, <1>9, <1>10 DEF s

LEMMA AuditOfIs ==
  ASSUME NEW issue
  PROVE  AuditOf(issue) \in {"missing_housenumber", "missing_street_or_place", "interpolation",
                             "unsupported_relation", "unresolved_geometry"}
BY DEF AuditOf

LEMMA RefusalCounted ==
  ASSUME NEW r, IsReport(r), NEW x
  PROVE  LET s == RejectWithContext(r, x)
         IN /\ IsReport(s)
            /\ \A name : Counted(r, name) \in Nat
            /\ Counted(s, <<"rejected", "total">>) = Counted(r, <<"rejected", "total">>) + 1
            /\ \A issue : Counted(s, <<"rejected.by_reason", issue>>) =
                 IF issue = x.issue THEN Counted(r, <<"rejected.by_reason", issue>>) + 1
                 ELSE Counted(r, <<"rejected.by_reason", issue>>)
            /\ \A c \in RowCounters : \A y : Counted(s, <<c, y>>) = Counted(r, <<c, y>>)
<1> DEFINE s == RejectWithContext(r, x)
           bucket == TriageBucket(x.issue, x.tags)
           auditing == AuditCounters(x.issue, x.source[1], x.tags, x.addr)
           audit == IF x.addr = None THEN {} ELSE auditing
           gaps == StreetNameGaps(x.issue, x.tags, bucket)
           names == {<<"rejected", "total">>, <<"rejected.by_reason", x.issue>>,
                     <<"disposition", Disposition(x.issue)>>,
                     <<"disposition.by_reason", x.issue>>,
                     <<"triage.by_bucket", bucket>>, <<"triage", <<x.issue, bucket>>>>}
                    \cup audit \cup gaps
           sample == [source |-> x.source, hint |-> x.hint, write |-> x.write]
           t == Count(r, names)
           Others == RowCounters \cup {"rejected", "rejected.by_reason"}
<1>1. s = AddSample(t, <<x.issue, bucket>>, sample)
  BY DEF RejectWithContext
<1>2. \A c \in Others : \A y : <<c, y>> \notin gaps
  BY DEF StreetNameGaps, RowCounters
<1>3. \A c \in Others : \A y : <<c, y>> \notin audit
  <2>1. \A name \in auditing : name[1] = AuditOf(x.issue)
    BY DEF AuditCounters
  <2> HIDE DEF auditing
  <2>2. \A name \in audit : name[1] = AuditOf(x.issue)
    BY <2>1
  <2>3. \A c \in Others : c # AuditOf(x.issue)
    BY AuditOfIs DEF RowCounters
  <2>4. \A c, y : <<c, y>>[1] = c
    OBVIOUS
  <2> HIDE DEF audit, Others
  <2> QED
    BY <2>2, <2>3, <2>4
<1> HIDE DEF audit, gaps, bucket, auditing
<1>4. /\ <<"rejected", "total">> \in names
      /\ \A issue : <<"rejected.by_reason", issue>> \in names <=> issue = x.issue
      /\ \A c \in RowCounters : \A y : <<c, y>> \notin names
  BY <1>2, <1>3 DEF RowCounters
<1> HIDE DEF names, sample
<1>5. IsReport(t) /\ \A name : /\ Counted(r, name) \in Nat
                               /\ Counted(t, name) = IF name \in names THEN Counted(r, name) + 1
                                                     ELSE Counted(r, name)
  BY CountIs
<1> HIDE DEF t
<1>6. IsReport(s) /\ \A name : Counted(s, name) = Counted(t, name)
  BY <1>1, <1>5, SampleIs DEF SameCounters
<1> HIDE DEF s
<1>7. \A issue : Counted(s, <<"rejected.by_reason", issue>>) =
                 IF issue = x.issue THEN Counted(r, <<"rejected.by_reason", issue>>) + 1
                 ELSE Counted(r, <<"rejected.by_reason", issue>>)
  BY <1>4, <1>5, <1>6
<1>8. \A c \in RowCounters : \A y : Counted(s, <<c, y>>) = Counted(r, <<c, y>>)
  BY <1>4, <1>5, <1>6
<1> QED
  BY <1>4, <1>5, <1>6, <1>7, <1>8 DEF s


-----------------------------------------------------------------------------
(* The report of the scan *)

LEMMA ReportSteps ==
  ASSUME NEW list, Len(list) \in Nat
  PROVE  \E g : /\ g[0] = EmptyReport
                /\ \A n \in 1..Len(list) :
                     g[n] = RejectWithContext(g[n - 1], list[n])
                /\ ReportOf(list) = g[Len(list)]
<1> DEFINE N == Len(list)
           Steps(g, m) == g = [n \in 0..m |-> IF n = 0 THEN EmptyReport
                                              ELSE RejectWithContext(g[n - 1], list[n])]
           T == {m \in 0..N : \E g : Steps(g, m)}
<1>1. 0 \in T
  <2> DEFINE g == [n \in 0..0 |-> EmptyReport]
  <2>1. Steps(g, 0)
    OBVIOUS
  <2>2. 0 \in 0..N
    OBVIOUS
  <2> HIDE DEF g, Steps
  <2> QED
    BY <2>1, <2>2
<1>2. ASSUME NEW m \in T \cap (0..N - 1) PROVE m + 1 \in T
  <2>1. PICK g : Steps(g, m)
    OBVIOUS
  <2> DEFINE h == [n \in 0..m + 1 |->
                     IF n = m + 1
                     THEN RejectWithContext(g[m], list[m + 1])
                     ELSE g[n]]
  <2>2. ASSUME NEW n \in 0..m + 1
        PROVE  h[n] = IF n = 0 THEN EmptyReport
                      ELSE RejectWithContext(h[n - 1], list[n])
    <3>1. CASE n = m + 1
      BY <3>1
    <3>2. CASE n # m + 1
      <4>1. n \in 0..m /\ h[n] = g[n]
        BY <3>2
      <4>2. g[n] = IF n = 0 THEN EmptyReport
                   ELSE RejectWithContext(g[n - 1], list[n])
        BY <2>1, <4>1
      <4>3. n # 0 => h[n - 1] = g[n - 1]
        BY <4>1
      <4> QED
        BY <4>1, <4>2, <4>3
    <3> QED
      BY <3>1, <3>2
  <2>3. Steps(h, m + 1)
    <3>1. DOMAIN h = 0..m + 1 /\ h = [n \in 0..m + 1 |-> h[n]]
      OBVIOUS
    <3> HIDE DEF h
    <3> QED
      BY <2>2, <3>1
  <2>4. m + 1 \in 0..N
    OBVIOUS
  <2> HIDE DEF h, Steps
  <2> QED
    BY <2>3, <2>4
<1>3. \E g : Steps(g, N)
  <2> HIDE DEF Steps
  <2>1. 0..N \subseteq T
    <3> HIDE DEF T
    <3> QED
      BY <1>1, <1>2, UpTo
  <2> QED
    BY <2>1
<1> DEFINE g == CHOOSE g : Steps(g, N)
<1>4. Steps(g, N)
  <2> HIDE DEF Steps
  <2> QED
    BY <1>3
<1>5. ReportOf(list) = g[N]
  BY DEF ReportOf
<1> HIDE DEF g
<1>6. \A n \in 0..N :
        g[n] = IF n = 0 THEN EmptyReport
               ELSE RejectWithContext(g[n - 1], list[n])
  BY <1>4
<1>7. /\ g[0] = EmptyReport
      /\ \A n \in 1..N : g[n] = RejectWithContext(g[n - 1], list[n])
  <2>1. 0 \in 0..N /\ \A n \in 1..N : n \in 0..N /\ n # 0
    OBVIOUS
  <2> HIDE DEF N
  <2> QED
    BY <1>6, <2>1, Zenon
<1> QED
  BY <1>5, <1>7

LEMMA ReportOfIs ==
  ASSUME NEW list, IsSeq(list)
  PROVE  LET r == ReportOf(list)
         IN /\ IsReport(r)
            /\ Counted(r, <<"rejected", "total">>) = Len(list)
            /\ \A issue : Counted(r, <<"rejected.by_reason", issue>>) =
                            Cardinality({i \in DOMAIN list : list[i].issue = issue})
            /\ \A c \in RowCounters : \A y : Counted(r, <<c, y>>) = 0
<1> DEFINE N == Len(list)
           In(n, issue) == {i \in 1..n : list[i].issue = issue}
           Right(r, n) == /\ IsReport(r)
                         /\ Counted(r, <<"rejected", "total">>) = n
                         /\ \A issue : Counted(r, <<"rejected.by_reason", issue>>) =
                                         Cardinality(In(n, issue))
                         /\ \A c \in RowCounters : \A y : Counted(r, <<c, y>>) = 0
<1>1. N \in Nat /\ DOMAIN list = 1..N
  BY SeqIs
<1>2. PICK g : /\ g[0] = EmptyReport
               /\ \A n \in 1..N : g[n] = RejectWithContext(g[n - 1], list[n])
               /\ ReportOf(list) = g[N]
  BY <1>1, ReportSteps
<1> DEFINE T == {n \in 0..N : Right(g[n], n)}
<1>3. 0 \in T
  <2>1. 0 \in 0..N /\ \A issue : In(0, issue) = {}
    BY <1>1
  <2>2. IsReport(g[0]) /\ \A name : Counted(g[0], name) = 0
    BY <1>2, EmptyReportIs
  <2>3. \A issue : Cardinality(In(0, issue)) = 0
    BY <2>1, FS_EmptySet
  <2> HIDE DEF In
  <2> QED
    BY <2>1, <2>2, <2>3
<1>4. ASSUME NEW m \in T \cap (0..N - 1) PROVE m + 1 \in T
  <2> DEFINE n == m + 1
             x == list[n]
  <2>1. n \in 1..N /\ n - 1 = m /\ n \in 0..N /\ m \in Nat
    BY <1>1
  <2>2. g[n] = RejectWithContext(g[m], x)
    BY <1>2, <2>1
  <2>3. Right(g[m], m)
    OBVIOUS
  <2>4. \A issue : /\ Cardinality(In(m, issue)) \in Nat
                   /\ Cardinality(In(n, issue)) =
                        IF issue = x.issue THEN Cardinality(In(m, issue)) + 1
                        ELSE Cardinality(In(m, issue))
    <3> TAKE issue
    <3>1. In(m, issue) \in SUBSET (1..m) /\ In(n, issue) \in SUBSET (1..m + 1)
      OBVIOUS
    <3>2. \A i \in 1..m : i \in In(n, issue) <=> i \in In(m, issue)
      BY <2>1
    <3>3. n \in In(n, issue) <=> issue = x.issue
      BY <2>1
    <3> HIDE DEF In, x
    <3>4. /\ Cardinality(In(m, issue)) \in Nat
          /\ Cardinality(In(n, issue)) = IF n \in In(n, issue) THEN Cardinality(In(m, issue)) + 1
                                         ELSE Cardinality(In(m, issue))
      BY <2>1, <3>1, <3>2, CountAppend
    <3> QED
      BY <3>3, <3>4
  <2>5. LET s == RejectWithContext(g[m], x)
        IN /\ IsReport(s)
           /\ Counted(s, <<"rejected", "total">>) = Counted(g[m], <<"rejected", "total">>) + 1
           /\ \A issue : Counted(s, <<"rejected.by_reason", issue>>) =
                 IF issue = x.issue THEN Counted(g[m], <<"rejected.by_reason", issue>>) + 1
                 ELSE Counted(g[m], <<"rejected.by_reason", issue>>)
           /\ \A c \in RowCounters : \A y : Counted(s, <<c, y>>) = Counted(g[m], <<c, y>>)
    <3> HIDE DEF x
    <3> QED
      BY <2>3, RefusalCounted
  <2> HIDE DEF In, x
  <2>6. Right(g[n], n)
    BY <2>2, <2>3, <2>4, <2>5
  <2> HIDE DEF Right
  <2> QED
    BY <2>1, <2>6
<1>5. N \in T
  <2> HIDE DEF T
  <2>1. 0..N \subseteq T
    BY <1>1, <1>3, <1>4, UpTo
  <2> QED
    BY <1>1, <2>1
<1> QED
  BY <1>1, <1>2, <1>5


-----------------------------------------------------------------------------
(* Counting the rows of a kind *)

LEMMA LayerCounts ==
  ASSUME BuildInv, NEW row, rows' = Append(rows, row)
  PROVE  /\ Len(rows) \in Nat /\ Len(rows') = Len(rows) + 1
         /\ \A layer : /\ RowCount(layer) \in Nat
                       /\ RowCount(layer)' = IF row.layer = layer THEN RowCount(layer) + 1
                                             ELSE RowCount(layer)
<1>1. Len(rows) \in Nat /\ Len(rows') = Len(rows) + 1
  <2>1. IsSeq(rows)
    BY DEF BuildInv
  <2>2. \A s, x : IsSeq(s) => Len(s) \in Nat /\ Len(Append(s, x)) = Len(s) + 1
    BY AppendIs, SeqIs
  <2> QED
    BY <2>1, <2>2
<1>2. ASSUME NEW layer
      PROVE  /\ RowCount(layer) \in Nat
             /\ RowCount(layer)' = IF row.layer = layer THEN RowCount(layer) + 1
                                   ELSE RowCount(layer)
  <2> DEFINE Had == {i \in DOMAIN rows : rows[i].layer = layer}
             Now == {i \in DOMAIN rows' : rows'[i].layer = layer}
             n == Len(rows)
  <2>1. RowCount(layer) = Cardinality(Had) /\ RowCount(layer)' = Cardinality(Now)
    BY DEF RowCount
  <2>2. Had \in SUBSET (1..n) /\ Now \in SUBSET (1..n + 1) /\ n \in Nat
    BY RowAdded
  <2>3. \A i \in 1..n : i \in Now <=> i \in Had
    BY RowAdded
  <2>4. n + 1 \in Now <=> row.layer = layer
    BY RowAdded
  <2> HIDE DEF Had, Now, n
  <2>5. Cardinality(Had) \in Nat /\ Cardinality(Now) = IF n + 1 \in Now THEN Cardinality(Had) + 1 ELSE Cardinality(Had)
    BY <2>2, <2>3, CountAppend
  <2> QED
    BY <2>1, <2>4, <2>5
<1> QED
  BY <1>1, <1>2

(* Items that were reported, and rows of rejections, of an issue. *)
ReportedOf(issue) == Cardinality({i \in DOMAIN reported : reported[i][2] = issue})

LEMMA ItemAdded ==
  ASSUME NEW s, IsSeq(s), NEW x, NEW t, t = Append(s, x)
  PROVE  /\ Len(s) \in Nat /\ DOMAIN s = 1..Len(s) /\ DOMAIN t = 1..Len(s) + 1 /\ Len(t) = Len(s) + 1
         /\ t[Len(s) + 1] = x /\ Len(s) + 1 \in 1..Len(s) + 1
         /\ \A i \in 1..Len(s) : t[i] = s[i] /\ i # Len(s) + 1 /\ i \in 1..Len(s) + 1
         /\ \A i \in 1..Len(s) + 1 : i \in 1..Len(s) \/ i = Len(s) + 1
<1>1. Len(s) \in Nat /\ DOMAIN s = 1..Len(s)
  BY SeqIs
<1>2. /\ DOMAIN t = 1..Len(s) + 1 /\ \A i \in 1..Len(s) : t[i] = s[i]
      /\ t[Len(s) + 1] = x /\ Len(t) = Len(s) + 1
  BY AppendIs
<1>3. \A n \in Nat : /\ n + 1 \in 1..n + 1
                     /\ \A i \in 1..n : i # n + 1 /\ i \in 1..n + 1
                     /\ \A i \in 1..n + 1 : i \in 1..n \/ i = n + 1
  OBVIOUS
<1> QED
  BY <1>1, <1>2, <1>3

LEMMA IssueCounts ==
  ASSUME BuildInv, NEW source, NEW told, reported' = Append(reported, <<source, told>>)
  PROVE  /\ Len(reported) \in Nat /\ Len(reported') = Len(reported) + 1
         /\ \A issue : /\ ReportedOf(issue) \in Nat
                       /\ ReportedOf(issue)' = IF told = issue THEN ReportedOf(issue) + 1
                                               ELSE ReportedOf(issue)
<1> DEFINE n == Len(reported)
           p == <<source, told>>
<1>0. p[2] = told
  OBVIOUS
<1> HIDE DEF p
<1>1. /\ n \in Nat /\ DOMAIN reported = 1..n /\ DOMAIN reported' = 1..n + 1 /\ Len(reported') = n + 1
      /\ reported'[n + 1] = p /\ n + 1 \in 1..n + 1
      /\ \A i \in 1..n : reported'[i] = reported[i] /\ i # n + 1 /\ i \in 1..n + 1
      /\ \A i \in 1..n + 1 : i \in 1..n \/ i = n + 1
  <2>1. IsSeq(reported) /\ reported' = Append(reported, p)
    BY DEF BuildInv, p
  <2> QED
    BY <2>1, ItemAdded
<1> HIDE DEF n
<1>2. ASSUME NEW issue
      PROVE  /\ ReportedOf(issue) \in Nat
             /\ ReportedOf(issue)' = IF told = issue THEN ReportedOf(issue) + 1
                                     ELSE ReportedOf(issue)
  <2> DEFINE Had == {i \in DOMAIN reported : reported[i][2] = issue}
             Now == {i \in DOMAIN reported' : reported'[i][2] = issue}
  <2>1. ReportedOf(issue) = Cardinality(Had) /\ ReportedOf(issue)' = Cardinality(Now)
    BY DEF ReportedOf
  <2>2. Had \in SUBSET (1..n) /\ Now \in SUBSET (1..n + 1) /\ n \in Nat
    BY <1>1
  <2>3. \A i \in 1..n : i \in Now <=> i \in Had
    BY <1>1
  <2>4. n + 1 \in Now <=> told = issue
    BY <1>0, <1>1
  <2> HIDE DEF Had, Now
  <2>5. Cardinality(Had) \in Nat /\ Cardinality(Now) = IF n + 1 \in Now THEN Cardinality(Had) + 1 ELSE Cardinality(Had)
    BY <2>2, <2>3, CountAppend
  <2> QED
    BY <2>1, <2>4, <2>5
<1> QED
  BY <1>1, <1>2 DEF n

LEMMA RejectionCounts ==
  ASSUME BuildInv, NEW x, WriteRejectedRecord(x)
  PROVE  /\ \A issue : /\ RejectionCount(issue) \in Nat
                       /\ RejectionCount(issue)' = IF x.issue = issue THEN RejectionCount(issue) + 1
                                                   ELSE RejectionCount(issue)
         /\ \A i \in DOMAIN rejectionRows' : \/ rejectionRows'[i].issue = x.issue
                                             \/ i \in DOMAIN rejectionRows
                                                /\ rejectionRows'[i] = rejectionRows[i]
<1> DEFINE n == Len(rejectionRows)
           p == RejectedRow(x)
<1>0. p.issue = x.issue
  BY DEF RejectedRow
<1>1. /\ n \in Nat /\ DOMAIN rejectionRows = 1..n /\ DOMAIN rejectionRows' = 1..n + 1
      /\ rejectionRows'[n + 1] = p /\ n + 1 \in 1..n + 1
      /\ \A i \in 1..n : rejectionRows'[i] = rejectionRows[i] /\ i # n + 1 /\ i \in 1..n + 1
      /\ \A i \in 1..n + 1 : i \in 1..n \/ i = n + 1
  <2>1. IsSeq(rejectionRows) /\ rejectionRows' = Append(rejectionRows, p)
    BY DEF BuildInv, WriteRejectedRecord
  <2> HIDE DEF p
  <2> QED
    BY <2>1, ItemAdded
<1> HIDE DEF n, p
<1>2. ASSUME NEW issue
      PROVE  /\ RejectionCount(issue) \in Nat
             /\ RejectionCount(issue)' = IF x.issue = issue THEN RejectionCount(issue) + 1
                                         ELSE RejectionCount(issue)
  <2> DEFINE Had == {i \in DOMAIN rejectionRows : rejectionRows[i].issue = issue}
             Now == {i \in DOMAIN rejectionRows' : rejectionRows'[i].issue = issue}
  <2>1. RejectionCount(issue) = Cardinality(Had) /\ RejectionCount(issue)' = Cardinality(Now)
    BY DEF RejectionCount
  <2>2. Had \in SUBSET (1..n) /\ Now \in SUBSET (1..n + 1) /\ n \in Nat
    BY <1>1
  <2>3. \A i \in 1..n : i \in Now <=> i \in Had
    BY <1>1
  <2>4. n + 1 \in Now <=> x.issue = issue
    BY <1>0, <1>1
  <2> HIDE DEF Had, Now
  <2>5. Cardinality(Had) \in Nat /\ Cardinality(Now) = IF n + 1 \in Now THEN Cardinality(Had) + 1 ELSE Cardinality(Had)
    BY <2>2, <2>3, CountAppend
  <2> QED
    BY <2>1, <2>4, <2>5
<1> QED
  BY <1>0, <1>1, <1>2

-----------------------------------------------------------------------------
(* The rejections of the scan have a row unless only the report counts them *)

LEMMA RefusalsWritten ==
  ASSUME NEW e, e.type \in {"node", "way", "relation"}, NEW r \in Entries(e, "rejections")
  PROVE  r.write <=> r.issue \notin ReportOnlyIssues
<1> DEFINE Rowed(x) == x.write = TRUE /\ x.issue \notin ReportOnlyIssues
           Told(x) == x.write = FALSE /\ x.issue \in ReportOnlyIssues
<1>1. /\ \A issue \in {"interpolation_unsupported_object", "unsupported_relation",
                       "interpolation_way_without_nodes", "way_without_resolved_nodes",
                       "street_unresolved_geometry", "missing_housenumber",
                       "missing_street_or_place"} : issue \notin ReportOnlyIssues
      /\ \A tags : MissingStreetNameIssue(tags) \in ReportOnlyIssues
  BY DEF ReportOnlyIssues, StreetNameIssues, PlaceIssues, MissingStreetNameIssue
<1>2. \A addr : AddressIssue(addr) # None =>
        AddressIssue(addr) \in {"missing_housenumber", "missing_street_or_place"}
  BY AddressIssueIs
<1>3. \A S, f, issue : issue \notin ReportOnlyIssues /\ Refuses(S, f, issue, TRUE) =>
        \A x \in S : Rowed(x)
  BY DEF Refuses
<1>4. \A S, f, issue : issue \in ReportOnlyIssues /\ Refuses(S, f, issue, FALSE) =>
        \A x \in S : Told(x)
  BY DEF Refuses
<1> DEFINE tags == TagsIn(e)
           s == StreetOfWay(e, tags)
           a == AddressOfWay(e, tags)
<1>5. Rowed(r) \/ Told(r)
  <2>1. CASE e.type = "node"
    <3>1. \/ Entries(e, "rejections") = {}
          \/ Refuses(Entries(e, "rejections"), e, "interpolation_unsupported_object", TRUE)
          \/ /\ AddressIssue(AddrIn(e)) # None
             /\ Refuses(Entries(e, "rejections"), e, AddressIssue(AddrIn(e)), TRUE)
      BY <2>1, NodeIs
    <3> QED
      BY <1>1, <1>2, <1>3, <3>1
  <2>2. CASE e.type = "relation"
    <3>1. \/ Entries(e, "rejections") = {}
          \/ \E issue \in {"interpolation_unsupported_object", "unsupported_relation"} :
               Refuses(Entries(e, "rejections"), e, issue, TRUE)
      BY <2>2, RelationIs
    <3> QED
      BY <1>1, <1>3, <3>1
  <2>3. CASE e.type = "way"
    <3>1. r \in Of(s, "rejections") \/ r \in Of(a, "rejections")
      BY <2>3, WayIs
    <3>2. CASE r \in Of(s, "rejections")
      <4>1. \/ Of(s, "rejections") = {}
            \/ Refuses(Of(s, "rejections"), e, MissingStreetNameIssue(tags), FALSE)
            \/ Refuses(Of(s, "rejections"), e, "street_unresolved_geometry", TRUE)
        BY StreetOfWayIs
      <4> HIDE DEF s, tags, Told
      <4> QED
        BY <1>1, <1>3, <1>4, <3>2, <4>1
    <3>3. CASE r \in Of(a, "rejections")
      <4>1. \/ Of(a, "rejections") = {}
            \/ Refuses(Of(a, "rejections"), e, "interpolation_way_without_nodes", TRUE)
            \/ /\ AddressIssue(AddrTags(tags)) # None
               /\ Refuses(Of(a, "rejections"), e, AddressIssue(AddrTags(tags)), TRUE)
            \/ Refuses(Of(a, "rejections"), e, "way_without_resolved_nodes", TRUE)
        BY AddressOfWayIs
      <4> HIDE DEF a, tags
      <4> QED
        BY <1>1, <1>2, <1>3, <3>3, <4>1
    <3> QED
      BY <3>1, <3>2, <3>3
  <2> QED
    BY <2>1, <2>2, <2>3
<1> QED
  BY <1>5


-----------------------------------------------------------------------------
(* The report and the pack *)

(* The scan's rejections that have their row. *)
Waiting == Stubs("rejections")
IssuesIn(list, issue, n) == Cardinality({i \in 1..n : list[i].issue = issue})
WrittenOf(issue, n) == IssuesIn(Waiting, issue, n)
WrittenRows ==
  IF stage \in Early \cup {"boundaries"} THEN 0
  ELSE IF stage = "rejections" THEN at ELSE Len(Waiting)

(* Every row of a rejection but those of the scan is written when it is     *)
(* reported; those of the scan are all reported first.                      *)
RejectedInv ==
  /\ IsReport(report)
  /\ Counted(report, <<"rejected", "total">>) = Len(reported)
  /\ \A issue : Counted(report, <<"rejected.by_reason", issue>>) = ReportedOf(issue)
  /\ \A i \in DOMAIN rejectionRows : rejectionRows[i].issue \notin ReportOnlyIssues
  /\ \A issue : issue \notin ReportOnlyIssues =>
       RejectionCount(issue) + WrittenOf(issue, Len(Waiting))
         = ReportedOf(issue) + WrittenOf(issue, WrittenRows)

ReportInv ==
  /\ stage \in Early => rows = <<>> /\ rejectionRows = <<>>
  /\ stage # "scan" => AcceptedMatchRows /\ RejectedInv

WrittenIn(f) == Kept(Refused(f), {r \in Range(Refused(f)) : r.write})

LEMMA EndsDiffer ==
  ASSUME NEW m \in Nat, NEW n \in Nat, 1..m = 1..n
  PROVE  m = n
<1>1. m \in 1..m \/ m = 0
  OBVIOUS
<1>2. n \in 1..n \/ n = 0
  OBVIOUS
<1>3. m <= n \/ m = 0
  BY <1>1
<1>4. n <= m \/ n = 0
  BY <1>2
<1> QED
  BY <1>3, <1>4

(* What the waiting rejections are. *)
LEMMA WrittenInIs ==
  ASSUME NEW f \in Files
  PROVE  LET list == WrittenIn(f)
         IN /\ Len(list) \in Nat /\ DOMAIN list = 1..Len(list)
            /\ \A i \in 1..Len(list) : list[i].issue \notin ReportOnlyIssues
            /\ \A issue : \A n \in 0..Len(list) : IssuesIn(list, issue, n) \in Nat
            /\ \A issue : IssuesIn(list, issue, 0) = 0
            /\ \A issue : issue \notin ReportOnlyIssues =>
                 IssuesIn(list, issue, Len(list)) =
                   Cardinality({i \in DOMAIN Refused(f) : Refused(f)[i].issue = issue})
<1> DEFINE R == Refused(f)
           S == {r \in Range(R) : r.write}
           list == WrittenIn(f)
           n == Len(list)
<1>1. /\ Lists("rejections", R, All(f, "rejections")) /\ IsSeq(R) /\ list = Kept(R, S)
  <2>1. Lists("rejections", R, All(f, "rejections"))
    BY FoundIs
  <2> QED
    BY <2>1 DEF Lists, IsSeq, WrittenIn
<1>2. \A r \in Range(R) : r.write <=> r.issue \notin ReportOnlyIssues
  <2> TAKE r \in Range(R)
  <2>1. r \in All(f, "rejections")
    BY <1>1 DEF Lists
  <2>2. PICK e \in Range(Elements(f)) : r \in Entries(e, "rejections")
    BY <2>1 DEF All
  <2>3. e.type \in {"node", "way", "relation"}
    BY FilesAssumption
  <2> QED
    BY <2>2, <2>3, RefusalsWritten
<1> HIDE DEF R, list
<1>3. /\ IsSeq(list) /\ Range(list) = S
      /\ \A P : Times(list, P) = Times(R, S \cap P)
  <2>1. /\ IsSeq(Kept(R, S)) /\ Range(Kept(R, S)) = Range(R) \cap S
        /\ \A P : Times(Kept(R, S), P) = Times(R, S \cap P)
    BY <1>1, KeptIs
  <2>2. Range(R) \cap S = S
    OBVIOUS
  <2> QED
    BY <1>1, <2>1, <2>2
<1>4. n \in Nat /\ DOMAIN list = 1..n /\ \A i \in 1..n : list[i] \in S
  BY <1>3, SeqIs
<1>5. \A i \in 1..n : list[i].issue \notin ReportOnlyIssues
  BY <1>2, <1>4
<1>6. ASSUME NEW issue
      PROVE  IssuesIn(list, issue, 0) = 0 /\ \A m \in 0..n : IssuesIn(list, issue, m) \in Nat
  <2>1. {i \in 1..0 : list[i].issue = issue} = {}
    OBVIOUS
  <2>2. \A m \in Nat : {i \in 1..m : list[i].issue = issue} \in SUBSET (1..m)
    OBVIOUS
  <2>3. \A m \in 0..n : m \in Nat
    BY <1>4
  <2> QED
    BY <2>1, <2>2, <2>3, PlacesCount, FS_EmptySet DEF IssuesIn
<1>7. ASSUME NEW issue, issue \notin ReportOnlyIssues
      PROVE  IssuesIn(list, issue, n) = Cardinality({i \in DOMAIN R : R[i].issue = issue})
  <2> DEFINE P == {r \in Range(R) : r.issue = issue}
  <2>1. Times(list, P) = Times(R, S \cap P)
    BY <1>3
  <2>2. S \cap P = P
    BY <1>2, <1>7
  <2>3. DOMAIN R = 1..Len(R) /\ \A i \in DOMAIN R : R[i] \in Range(R)
    BY <1>1, SeqIs
  <2>4. Times(R, P) = Cardinality({i \in DOMAIN R : R[i].issue = issue})
    <3>1. {i \in DOMAIN R : R[i] \in P} = {i \in DOMAIN R : R[i].issue = issue}
      BY <2>3
    <3> QED
      BY <3>1 DEF Times
  <2>5. Times(list, P) = IssuesIn(list, issue, n)
    <3>1. {i \in DOMAIN list : list[i] \in P} = {i \in 1..n : list[i].issue = issue}
      <4>1. \A i \in 1..n : list[i] \in P <=> list[i].issue = issue
        BY <1>4
      <4> HIDE DEF P
      <4> QED
        BY <1>4, <4>1
    <3> QED
      BY <3>1 DEF Times, IssuesIn
  <2> QED
    BY <2>1, <2>2, <2>4, <2>5
<1> QED
  BY <1>4, <1>5, <1>6, <1>7 DEF R, list

LEMMA WaitingIs ==
  ASSUME BuildInv, stage # "scan"
  PROVE  Waiting = WrittenIn(file) /\ file \in Files
BY StubsAre DEF BuildInv, ScanInv, Waiting, WrittenIn

(* The scan hands over a report of its rejections alone. *)
LEMMA ScanReported ==
  ASSUME BuildInv, BuildInv', Discover, rows = <<>>, rejectionRows = <<>>
  PROVE  (AcceptedMatchRows /\ RejectedInv)'
<1> DEFINE R == Refused(file)
<1>1. /\ stage' = "members" /\ report' = discovery'.report /\ rows' = <<>> /\ rejectionRows' = <<>>
      /\ reported' = [i \in DOMAIN R |-> <<R[i].source, R[i].issue>>] /\ file' = file
  <2>1. reported' = [i \in DOMAIN R |-> <<R[i].source, R[i].issue>>]
    BY ReportedByScan DEF BuildInv
  <2> HIDE DEF R
  <2> QED
    BY <2>1 DEF Discover, FinishScan
<1>2. report' = ReportOf(R) /\ IsSeq(R)
  <2>1. file \in Files /\ discovery' = DiscoveryResult(BlockChunk(Elements(file)))
    <3>1. discovery' = DiscoveryResult(BlockChunk(Elements(file')))
      BY <1>1 DEF BuildInv, ScanInv
    <3> QED
      BY <1>1, <3>1 DEF BuildInv, ScanInv
  <2>2. /\ DiscoveryResult(BlockChunk(Elements(file))).report = ReportOf(R)
        /\ Lists("rejections", R, All(file, "rejections"))
    BY <2>1, FoundIs
  <2>3. IsSeq(R)
    BY <2>2 DEF Lists, IsSeq
  <2> QED
    BY <1>1, <2>1, <2>2, <2>3
<1>3. /\ IsReport(report')
      /\ Counted(report', <<"rejected", "total">>) = Len(R)
      /\ \A issue : Counted(report', <<"rejected.by_reason", issue>>) =
                      Cardinality({i \in DOMAIN R : R[i].issue = issue})
      /\ \A c \in RowCounters : \A y : Counted(report', <<c, y>>) = 0
  <2> HIDE DEF R
  <2> QED
    BY <1>2, ReportOfIs
<1>4. \A layer : RowCount(layer)' = 0 /\ Len(rows') = 0
  <2>1. \A layer : {i \in DOMAIN rows' : rows'[i].layer = layer} = {} /\ Len(rows') = 0
    BY <1>1, NoneIsSeq
  <2> QED
    BY <2>1, FS_EmptySet DEF RowCount
<1>5. AcceptedMatchRows'
  <2>1. \A y : /\ Counted(report', <<"accepted", y>>) = 0
               /\ Counted(report', <<"accepted.by_layer", y>>) = 0
               /\ Counted(report', <<"quality", y>>) = 0
               /\ Counted(report', <<"quality.has", y>>) = 0
               /\ Counted(report', <<"quality.missing", y>>) = 0
    BY <1>3 DEF RowCounters
  <2> QED
    BY <1>4, <2>1 DEF AcceptedMatchRows
<1>6. \A issue : ReportedOf(issue)' = Cardinality({i \in DOMAIN R : R[i].issue = issue})
  <2> HIDE DEF R
  <2> TAKE issue
  <2>1. \A i \in DOMAIN R : reported'[i][2] = R[i].issue
    BY <1>1
  <2>2. {i \in DOMAIN reported' : reported'[i][2] = issue} = {i \in DOMAIN R : R[i].issue = issue}
    BY <1>1, <2>1
  <2> QED
    BY <2>2 DEF ReportedOf
<1>7. Len(reported') = Len(R)
  <2> HIDE DEF R
  <2>1. IsSeq(reported')
    BY DEF BuildInv, IsSeq
  <2>2. DOMAIN reported' = 1..Len(reported') /\ Len(reported') \in Nat
        /\ DOMAIN R = 1..Len(R) /\ Len(R) \in Nat
    BY <1>2, <2>1, SeqIs
  <2>3. 1..Len(reported') = 1..Len(R)
    BY <1>1, <2>2
  <2> QED
    BY <2>2, <2>3, EndsDiffer
<1>8. Waiting' = WrittenIn(file) /\ file \in Files
  <2>1. file \in Files /\ discovery' = DiscoveryResult(BlockChunk(Elements(file)))
    <3>1. discovery' = DiscoveryResult(BlockChunk(Elements(file')))
      BY <1>1 DEF BuildInv, ScanInv
    <3> QED
      BY <1>1, <3>1 DEF BuildInv, ScanInv
  <2>2. DiscoveryResult(BlockChunk(Elements(file))).lists["rejections"] = WrittenIn(file)
    BY <2>1, FoundIs DEF WrittenIn
  <2> QED
    BY <2>1, <2>2 DEF Waiting, Stubs
<1> DEFINE W == WrittenIn(file)
<1>9. /\ Len(W) \in Nat /\ \A issue : IssuesIn(W, issue, 0) = 0
      /\ \A issue : issue \notin ReportOnlyIssues =>
           IssuesIn(W, issue, Len(W)) = Cardinality({i \in DOMAIN R : R[i].issue = issue})
  BY <1>8, WrittenInIs
<1> HIDE DEF R, W
<1>10. \A issue : /\ WrittenOf(issue, Len(Waiting))' = IssuesIn(W, issue, Len(W))
                  /\ WrittenOf(issue, WrittenRows)' = 0
                  /\ RejectionCount(issue)' = 0
  <2> TAKE issue
  <2>1. WrittenRows' = 0
    BY <1>1 DEF WrittenRows, Early
  <2>2. {i \in DOMAIN rejectionRows' : rejectionRows'[i].issue = issue} = {}
    BY <1>1
  <2>3. RejectionCount(issue)' = 0
    BY <2>2, FS_EmptySet DEF RejectionCount
  <2> QED
    BY <1>8, <1>9, <2>1, <2>3 DEF WrittenOf, IssuesIn, W
<1>11. \A issue : issue \notin ReportOnlyIssues =>
         RejectionCount(issue)' + WrittenOf(issue, Len(Waiting))'
           = ReportedOf(issue)' + WrittenOf(issue, WrittenRows)'
  <2> TAKE issue
  <2> HAVE issue \notin ReportOnlyIssues
  <2> DEFINE k == Cardinality({i \in DOMAIN R : R[i].issue = issue})
  <2>1. k \in Nat
    <3>1. Len(R) \in Nat /\ DOMAIN R = 1..Len(R)
      BY <1>2, SeqIs
    <3>2. {i \in DOMAIN R : R[i].issue = issue} \in SUBSET (1..Len(R))
      BY <3>1
    <3> QED
      BY <3>1, <3>2, PlacesCount
  <2>2. /\ RejectionCount(issue)' = 0 /\ WrittenOf(issue, Len(Waiting))' = k
        /\ ReportedOf(issue)' = k /\ WrittenOf(issue, WrittenRows)' = 0
    BY <1>6, <1>9, <1>10
  <2> HIDE DEF k
  <2>3. 0 + k = k + 0
    BY <2>1
  <2> QED
    BY <2>2, <2>3
<1>12. RejectedInv'
  <2>1. DOMAIN rejectionRows' = {}
    BY <1>1
  <2>2. \A i \in DOMAIN rejectionRows' : (rejectionRows'[i].issue \notin ReportOnlyIssues)
    BY <2>1
  <2>3. /\ IsReport(report') /\ Counted(report', <<"rejected", "total">>) = Len(reported')
        /\ \A issue : Counted(report', <<"rejected.by_reason", issue>>) = ReportedOf(issue)'
    BY <1>3, <1>6, <1>7
  <2> QED
    BY <1>11, <2>2, <2>3 DEF RejectedInv, ReportOnlyIssues
<1> QED
  BY <1>5, <1>12


(* A row that is no address is counted as it is. *)
LEMMA OtherRowReported ==
  ASSUME BuildInv, AcceptedMatchRows, IsReport(report),
         NEW row, NEW layer, NEW kind, row.layer = layer, layer # "address", kind # "total",
         rows' = Append(rows, row), report' = AcceptLayer(report, layer, kind)
  PROVE  AcceptedMatchRows' /\ IsReport(report')
<1> DEFINE s == AcceptLayer(report, layer, kind)
<1>1. /\ IsReport(s)
      /\ \A name : Counted(report, name) \in Nat
      /\ Counted(s, <<"accepted", "total">>) = Counted(report, <<"accepted", "total">>) + 1
      /\ \A l : Counted(s, <<"accepted.by_layer", l>>) =
           IF l = layer THEN Counted(report, <<"accepted.by_layer", l>>) + 1
           ELSE Counted(report, <<"accepted.by_layer", l>>)
      /\ \A c \in {"quality", "quality.has", "quality.missing"} : \A x :
           Counted(s, <<c, x>>) = Counted(report, <<c, x>>)
  BY OtherAccepted
<1> HIDE DEF s
<1>2. /\ Len(rows') = Len(rows) + 1
      /\ \A l : RowCount(l)' = IF layer = l THEN RowCount(l) + 1 ELSE RowCount(l)
  BY LayerCounts
<1>3. report' = s
  BY DEF s
<1>4. Counted(report', <<"accepted", "total">>) = Len(rows')
  BY <1>1, <1>2, <1>3 DEF AcceptedMatchRows
<1>5. \A l \in PlaceLayers \cup {"address", "street", "postcode", "interpolation"} :
        Counted(report', <<"accepted.by_layer", l>>) = RowCount(l)'
  BY <1>1, <1>2, <1>3 DEF AcceptedMatchRows
<1>6. RowCount("address")' = RowCount("address")
  BY <1>2
<1>7. Counted(report', <<"quality", "total">>) = RowCount("address")'
  BY <1>1, <1>3, <1>6 DEF AcceptedMatchRows
<1>8. \A field \in SourceFields :
        Counted(report', <<"quality.has", field>>) + Counted(report', <<"quality.missing", field>>)
          = RowCount("address")'
  BY <1>1, <1>3, <1>6 DEF AcceptedMatchRows
<1> QED
  BY <1>1, <1>3, <1>4, <1>5, <1>7, <1>8 DEF AcceptedMatchRows, PlaceLayers, SourceFields, AdminFields

LEMMA AddressRowReported ==
  ASSUME BuildInv, AcceptedMatchRows, IsReport(report), NEW row, NEW address, row.layer = "address",
         rows' = Append(rows, row), report' = AcceptAddress(report, address)
  PROVE  AcceptedMatchRows' /\ IsReport(report')
<1> DEFINE s == AcceptAddress(report, address)
<1>1. /\ IsReport(s)
      /\ \A name : Counted(report, name) \in Nat
      /\ Counted(s, <<"accepted", "total">>) = Counted(report, <<"accepted", "total">>) + 1
      /\ Counted(s, <<"quality", "total">>) = Counted(report, <<"quality", "total">>) + 1
      /\ \A l : Counted(s, <<"accepted.by_layer", l>>) =
           IF l = "address" THEN Counted(report, <<"accepted.by_layer", l>>) + 1
           ELSE Counted(report, <<"accepted.by_layer", l>>)
      /\ \A f \in SourceFields :
           /\ Counted(s, <<"quality.has", f>>) =
                IF f \in address.fields THEN Counted(report, <<"quality.has", f>>) + 1
                ELSE Counted(report, <<"quality.has", f>>)
           /\ Counted(s, <<"quality.missing", f>>) =
                IF f \in address.fields THEN Counted(report, <<"quality.missing", f>>)
                ELSE Counted(report, <<"quality.missing", f>>) + 1
  BY AddressAccepted
<1> HIDE DEF s
<1>2. /\ Len(rows') = Len(rows) + 1
      /\ \A l : RowCount(l)' = IF l = "address" THEN RowCount(l) + 1 ELSE RowCount(l)
  BY LayerCounts
<1>3. report' = s
  BY DEF s
<1>4. Counted(report', <<"accepted", "total">>) = Len(rows')
  BY <1>1, <1>2, <1>3 DEF AcceptedMatchRows
<1>5. \A l \in PlaceLayers \cup {"address", "street", "postcode", "interpolation"} :
        Counted(report', <<"accepted.by_layer", l>>) = RowCount(l)'
  BY <1>1, <1>2, <1>3 DEF AcceptedMatchRows
<1>6. RowCount("address")' = RowCount("address") + 1
  BY <1>2
<1>7. Counted(report', <<"quality", "total">>) = RowCount("address")'
  BY <1>1, <1>3, <1>6 DEF AcceptedMatchRows
<1>8. \A field \in SourceFields :
        Counted(report', <<"quality.has", field>>) + Counted(report', <<"quality.missing", field>>)
          = RowCount("address")'
  <2> TAKE field \in SourceFields
  <2> DEFINE has == Counted(report, <<"quality.has", field>>)
             missing == Counted(report, <<"quality.missing", field>>)
             has2 == Counted(s, <<"quality.has", field>>)
             missing2 == Counted(s, <<"quality.missing", field>>)
             there == field \in address.fields
  <2>1. /\ has \in Nat /\ missing \in Nat /\ has + missing = RowCount("address")
        /\ has2 = IF there THEN has + 1 ELSE has
        /\ missing2 = IF there THEN missing ELSE missing + 1
    BY <1>1 DEF AcceptedMatchRows
  <2> HIDE DEF has, missing, has2, missing2, there
  <2>2. has2 + missing2 = (has + missing) + 1
    BY <2>1
  <2> QED
    BY <1>3, <1>6, <2>1, <2>2 DEF has2, missing2
<1> QED
  BY <1>1, <1>3, <1>4, <1>5, <1>7, <1>8 DEF AcceptedMatchRows, PlaceLayers, SourceFields, AdminFields

(* A refusal is counted as it is, and its row with it. *)
LEMMA RefusalReported ==
  ASSUME AcceptedMatchRows, IsReport(report), NEW x, report' = RejectWithContext(report, x),
         rows' = rows
  PROVE  /\ AcceptedMatchRows' /\ IsReport(report')
         /\ Counted(report, <<"rejected", "total">>) \in Nat
         /\ Counted(report', <<"rejected", "total">>) = Counted(report, <<"rejected", "total">>) + 1
         /\ \A issue : Counted(report', <<"rejected.by_reason", issue>>) =
              IF issue = x.issue THEN Counted(report, <<"rejected.by_reason", issue>>) + 1
              ELSE Counted(report, <<"rejected.by_reason", issue>>)
<1> DEFINE s == RejectWithContext(report, x)
<1>1. /\ IsReport(s)
      /\ Counted(report, <<"rejected", "total">>) \in Nat
      /\ Counted(s, <<"rejected", "total">>) = Counted(report, <<"rejected", "total">>) + 1
      /\ \A issue : Counted(s, <<"rejected.by_reason", issue>>) =
              IF issue = x.issue THEN Counted(report, <<"rejected.by_reason", issue>>) + 1
              ELSE Counted(report, <<"rejected.by_reason", issue>>)
      /\ \A c \in RowCounters : \A y : Counted(s, <<c, y>>) = Counted(report, <<c, y>>)
  BY RefusalCounted
<1> HIDE DEF s
<1>2. report' = s
  BY DEF s
<1>3. \A y : /\ Counted(report', <<"accepted", y>>) = Counted(report, <<"accepted", y>>)
             /\ Counted(report', <<"accepted.by_layer", y>>) = Counted(report, <<"accepted.by_layer", y>>)
             /\ Counted(report', <<"quality", y>>) = Counted(report, <<"quality", y>>)
             /\ Counted(report', <<"quality.has", y>>) = Counted(report, <<"quality.has", y>>)
             /\ Counted(report', <<"quality.missing", y>>) = Counted(report, <<"quality.missing", y>>)
  BY <1>1, <1>2 DEF RowCounters
<1>4. \A layer : RowCount(layer)' = RowCount(layer)
  BY DEF RowCount
<1>5. AcceptedMatchRows'
  BY <1>3, <1>4 DEF AcceptedMatchRows, PlaceLayers, SourceFields, AdminFields
<1> QED
  BY <1>1, <1>2, <1>5

-----------------------------------------------------------------------------
(* The rejections in one step *)

(* What stays when no rejection of the scan is written. *)
LEMMA WaitingStay ==
  ASSUME UNCHANGED scanVars, WrittenRows' = WrittenRows
  PROVE  \A issue : /\ WrittenOf(issue, Len(Waiting))' = WrittenOf(issue, Len(Waiting))
                    /\ WrittenOf(issue, WrittenRows)' = WrittenOf(issue, WrittenRows)
<1>1. Waiting' = Waiting
  BY DEF Waiting, Stubs, scanVars
<1> QED
  BY <1>1 DEF WrittenOf, IssuesIn

LEMMA NothingRejected ==
  ASSUME RejectedInv, UNCHANGED scanVars, WrittenRows' = WrittenRows,
         reported' = reported, rejectionRows' = rejectionRows, IsReport(report'),
         \A issue : Counted(report', <<"rejected.by_reason", issue>>) = Counted(report, <<"rejected.by_reason", issue>>),
         Counted(report', <<"rejected", "total">>) = Counted(report, <<"rejected", "total">>)
  PROVE  RejectedInv'
<1>1. \A issue : ReportedOf(issue)' = ReportedOf(issue) /\ RejectionCount(issue)' = RejectionCount(issue)
  BY DEF ReportedOf, RejectionCount
<1>2. \A issue : /\ WrittenOf(issue, Len(Waiting))' = WrittenOf(issue, Len(Waiting))
                 /\ WrittenOf(issue, WrittenRows)' = WrittenOf(issue, WrittenRows)
  BY WaitingStay
<1> QED
  BY <1>1, <1>2 DEF RejectedInv, ReportOnlyIssues


(* A refusal that only the report counts. *)
LEMMA RefusedInReport ==
  ASSUME BuildInv, AcceptedMatchRows, RejectedInv, UNCHANGED scanVars, WrittenRows' = WrittenRows,
         NEW x, x.issue \in ReportOnlyIssues, Reject(x), rejectionRows' = rejectionRows
  PROVE  AcceptedMatchRows' /\ RejectedInv'
<1>1. /\ report' = RejectWithContext(report, x) /\ rows' = rows
      /\ reported' = Append(reported, <<x.source, x.issue>>)
  BY DEF Reject
<1>2. /\ AcceptedMatchRows' /\ IsReport(report')
      /\ Counted(report', <<"rejected", "total">>) = Counted(report, <<"rejected", "total">>) + 1
      /\ \A issue : Counted(report', <<"rejected.by_reason", issue>>) =
           IF issue = x.issue THEN Counted(report, <<"rejected.by_reason", issue>>) + 1
           ELSE Counted(report, <<"rejected.by_reason", issue>>)
  BY <1>1, RefusalReported DEF RejectedInv
<1>3. /\ Len(reported') = Len(reported) + 1
      /\ \A issue : ReportedOf(issue)' = IF x.issue = issue THEN ReportedOf(issue) + 1
                                         ELSE ReportedOf(issue)
  BY <1>1, IssueCounts
<1>4. \A issue : /\ RejectionCount(issue)' = RejectionCount(issue)
                 /\ WrittenOf(issue, Len(Waiting))' = WrittenOf(issue, Len(Waiting))
                 /\ WrittenOf(issue, WrittenRows)' = WrittenOf(issue, WrittenRows)
  BY WaitingStay DEF RejectionCount
<1>5. Counted(report', <<"rejected", "total">>) = Len(reported')
  BY <1>2, <1>3 DEF RejectedInv
<1>6. \A issue : Counted(report', <<"rejected.by_reason", issue>>) = ReportedOf(issue)'
  BY <1>2, <1>3 DEF RejectedInv
<1>7. \A i \in DOMAIN rejectionRows' : (rejectionRows'[i].issue \notin ReportOnlyIssues)
  BY DEF RejectedInv
<1>8. \A issue : issue \notin ReportOnlyIssues =>
        RejectionCount(issue)' + WrittenOf(issue, Len(Waiting))'
          = ReportedOf(issue)' + WrittenOf(issue, WrittenRows)'
  BY <1>3, <1>4 DEF RejectedInv
<1> QED
  BY <1>2, <1>5, <1>6, <1>7, <1>8 DEF RejectedInv, ReportOnlyIssues

(* A refusal and its row. *)
LEMMA RefusedWithRow ==
  ASSUME BuildInv, stage # "scan", AcceptedMatchRows, RejectedInv, UNCHANGED scanVars,
         WrittenRows' = WrittenRows, WrittenRows \in 0..Len(Waiting),
         NEW x, x.issue \notin ReportOnlyIssues, Reject(x), WriteRejectedRecord(x)
  PROVE  AcceptedMatchRows' /\ RejectedInv'
<1>1. /\ report' = RejectWithContext(report, x) /\ rows' = rows
      /\ reported' = Append(reported, <<x.source, x.issue>>)
  BY DEF Reject
<1>2. /\ AcceptedMatchRows' /\ IsReport(report')
      /\ Counted(report', <<"rejected", "total">>) = Counted(report, <<"rejected", "total">>) + 1
      /\ \A issue : Counted(report', <<"rejected.by_reason", issue>>) =
           IF issue = x.issue THEN Counted(report, <<"rejected.by_reason", issue>>) + 1
           ELSE Counted(report, <<"rejected.by_reason", issue>>)
  BY <1>1, RefusalReported DEF RejectedInv
<1>3. /\ Len(reported') = Len(reported) + 1
      /\ \A issue : /\ ReportedOf(issue) \in Nat
                    /\ ReportedOf(issue)' = IF x.issue = issue THEN ReportedOf(issue) + 1
                                            ELSE ReportedOf(issue)
  BY <1>1, IssueCounts
<1>4. /\ \A issue : /\ RejectionCount(issue) \in Nat
                    /\ RejectionCount(issue)' = IF x.issue = issue THEN RejectionCount(issue) + 1
                                                ELSE RejectionCount(issue)
      /\ \A i \in DOMAIN rejectionRows' : \/ rejectionRows'[i].issue = x.issue
                                          \/ i \in DOMAIN rejectionRows
                                             /\ rejectionRows'[i] = rejectionRows[i]
  BY RejectionCounts
<1>5. \A issue : /\ WrittenOf(issue, Len(Waiting))' = WrittenOf(issue, Len(Waiting))
                 /\ WrittenOf(issue, WrittenRows)' = WrittenOf(issue, WrittenRows)
  BY WaitingStay
<1>6. Counted(report', <<"rejected", "total">>) = Len(reported')
  BY <1>2, <1>3 DEF RejectedInv
<1>7. \A issue : Counted(report', <<"rejected.by_reason", issue>>) = ReportedOf(issue)'
  BY <1>2, <1>3 DEF RejectedInv
<1>8. \A i \in DOMAIN rejectionRows' : (rejectionRows'[i].issue \notin ReportOnlyIssues)
  BY <1>4 DEF RejectedInv
<1>9. ASSUME NEW issue, issue \notin ReportOnlyIssues
      PROVE  RejectionCount(issue)' + WrittenOf(issue, Len(Waiting))'
               = ReportedOf(issue)' + WrittenOf(issue, WrittenRows)'
  <2> DEFINE a == RejectionCount(issue)
             b == WrittenOf(issue, Len(Waiting))
             c == ReportedOf(issue)
             d == WrittenOf(issue, WrittenRows)
  <2>1. a \in Nat /\ b \in Nat /\ c \in Nat /\ d \in Nat /\ a + b = c + d
    <3>0. Len(Waiting) \in Nat /\ \A n \in 0..Len(Waiting) : IssuesIn(Waiting, issue, n) \in Nat
      <4>1. Waiting = WrittenIn(file) /\ file \in Files
        BY WaitingIs
      <4> QED
        BY <4>1, WrittenInIs
    <3>1. /\ Len(Waiting) \in 0..Len(Waiting)
          /\ \A n \in 0..Len(Waiting) : IssuesIn(Waiting, issue, n) \in Nat
      BY <3>0
    <3> QED
      BY <1>3, <1>4, <1>9, <3>1 DEF RejectedInv, WrittenOf
  <2>2. /\ RejectionCount(issue)' = IF x.issue = issue THEN a + 1 ELSE a
        /\ ReportedOf(issue)' = IF x.issue = issue THEN c + 1 ELSE c
        /\ WrittenOf(issue, Len(Waiting))' = b /\ WrittenOf(issue, WrittenRows)' = d
    BY <1>3, <1>4, <1>5
  <2> HIDE DEF a, b, c, d
  <2>3. (a + 1) + b = (c + 1) + d
    BY <2>1
  <2> QED
    BY <2>1, <2>2, <2>3
<1> QED
  BY <1>2, <1>6, <1>7, <1>8, <1>9 DEF RejectedInv, ReportOnlyIssues

(* A rejection of the scan gets its row. *)
LEMMA RejectionWritten ==
  ASSUME BuildInv, AcceptedMatchRows, RejectedInv, WriteRejections
  PROVE  AcceptedMatchRows' /\ RejectedInv'
<1> DEFINE x == Item
           n == Len(Waiting)
<1>1. /\ stage = "rejections" /\ at < Items("rejections") /\ stage' = stage /\ at' = at + 1
      /\ UNCHANGED scanVars /\ WriteRejectedRecord(x)
      /\ rows' = rows /\ report' = report /\ reported' = reported
  BY DEF WriteRejections, Emit
<1>2. x = Waiting[at + 1] /\ Items("rejections") = n
  BY <1>1, ListNames DEF Item, Items, Waiting
<1>3. /\ n \in Nat
      /\ \A i \in 1..n : Waiting[i].issue \notin ReportOnlyIssues
      /\ \A issue : \A m \in 0..n : WrittenOf(issue, m) \in Nat
  BY <1>1, WaitingIs, WrittenInIs DEF WrittenOf
<1>4. at \in 0..n /\ at + 1 \in 0..n /\ at + 1 \in 1..n
  BY <1>1, <1>2, <1>3 DEF BuildInv
<1>5. x.issue \notin ReportOnlyIssues
  BY <1>2, <1>3, <1>4
<1>6. Waiting' = Waiting
  BY <1>1 DEF Waiting, Stubs, scanVars
<1>7. WrittenRows = at /\ WrittenRows' = at + 1
  BY <1>1 DEF WrittenRows, Early
<1> HIDE DEF x, n
<1>8. /\ \A issue : /\ RejectionCount(issue) \in Nat
                    /\ RejectionCount(issue)' = IF x.issue = issue THEN RejectionCount(issue) + 1
                                                ELSE RejectionCount(issue)
      /\ \A i \in DOMAIN rejectionRows' : \/ rejectionRows'[i].issue = x.issue
                                          \/ i \in DOMAIN rejectionRows
                                             /\ rejectionRows'[i] = rejectionRows[i]
  BY <1>1, RejectionCounts
<1>9. AcceptedMatchRows'
  BY <1>1 DEF AcceptedMatchRows, RowCount
<1>10. \A issue : ReportedOf(issue)' = ReportedOf(issue)
  BY <1>1 DEF ReportedOf
<1>11. \A i \in DOMAIN rejectionRows' : (rejectionRows'[i].issue \notin ReportOnlyIssues)
  BY <1>5, <1>8 DEF RejectedInv
<1>12. \A issue : WrittenOf(issue, at + 1) = IF x.issue = issue THEN WrittenOf(issue, at) + 1
                                             ELSE WrittenOf(issue, at)
  <2> TAKE issue
  <2> DEFINE I == {i \in 1..at : Waiting[i].issue = issue}
             J == {i \in 1..at + 1 : Waiting[i].issue = issue}
  <2>1. at \in Nat
    BY DEF BuildInv
  <2>2. at + 1 \in J <=> x.issue = issue
    BY <1>2, <2>1
  <2>3. \A i \in 1..at : i \in J <=> i \in I
    BY <2>1
  <2>4. I \in SUBSET (1..at) /\ J \in SUBSET (1..at + 1)
    OBVIOUS
  <2> HIDE DEF I, J
  <2>5. Cardinality(J) = IF at + 1 \in J THEN Cardinality(I) + 1 ELSE Cardinality(I)
    BY <2>1, <2>3, <2>4, CountAppend
  <2> QED
    BY <2>2, <2>5 DEF I, J, WrittenOf, IssuesIn
<1>13. ASSUME NEW issue, issue \notin ReportOnlyIssues
       PROVE  RejectionCount(issue)' + WrittenOf(issue, Len(Waiting))'
                = ReportedOf(issue)' + WrittenOf(issue, WrittenRows)'
  <2> DEFINE a == RejectionCount(issue)
             b == WrittenOf(issue, Len(Waiting))
             c == ReportedOf(issue)
             d == WrittenOf(issue, at)
  <2>0. /\ c \in Nat /\ b \in Nat /\ d \in Nat
    <3>1. DOMAIN reported = 1..Len(reported) /\ Len(reported) \in Nat
      BY SeqIs DEF BuildInv
    <3>2. {i \in DOMAIN reported : reported[i][2] = issue} \in SUBSET (1..Len(reported))
      BY <3>1
    <3>3. c \in Nat
      BY <3>1, <3>2, PlacesCount DEF ReportedOf
    <3>4. n \in 0..n
      BY <1>3
    <3>5. WrittenOf(issue, n) \in Nat /\ WrittenOf(issue, at) \in Nat
      BY <1>3, <1>4, <3>4
    <3> QED
      BY <3>3, <3>5 DEF n
  <2>1. a \in Nat /\ a + b = c + d
    BY <1>7, <1>8, <1>13 DEF RejectedInv
  <2>2. /\ RejectionCount(issue)' = IF x.issue = issue THEN a + 1 ELSE a
        /\ ReportedOf(issue)' = c
        /\ WrittenOf(issue, Len(Waiting))' = b
        /\ WrittenOf(issue, WrittenRows)' = IF x.issue = issue THEN d + 1 ELSE d
    <3>1. /\ WrittenOf(issue, Len(Waiting))' = WrittenOf(issue, Len(Waiting))
          /\ WrittenOf(issue, WrittenRows)' = WrittenOf(issue, at + 1)
      BY <1>6, <1>7 DEF WrittenOf, IssuesIn
    <3> QED
      BY <1>8, <1>10, <1>12, <3>1
  <2> HIDE DEF a, b, c, d
  <2>3. (a + 1) + b = c + (d + 1)
    BY <2>0, <2>1
  <2> QED
    BY <2>1, <2>2, <2>3
<1>14. /\ IsReport(report')
       /\ Counted(report', <<"rejected", "total">>) = Len(reported')
       /\ \A issue : Counted(report', <<"rejected.by_reason", issue>>) = ReportedOf(issue)'
  BY <1>1, <1>10 DEF RejectedInv
<1> QED
  BY <1>9, <1>11, <1>13, <1>14 DEF RejectedInv, ReportOnlyIssues


(* A step that writes and counts nothing. *)
LEMMA ReportStays ==
  ASSUME AcceptedMatchRows, RejectedInv, UNCHANGED scanVars, WrittenRows' = WrittenRows,
         UNCHANGED <<rows, rejectionRows, report, reported>>
  PROVE  AcceptedMatchRows' /\ RejectedInv'
<1>1. AcceptedMatchRows'
  BY DEF AcceptedMatchRows, RowCount
<1>2. IsReport(report')
  BY DEF RejectedInv
<1> QED
  BY <1>1, <1>2, NothingRejected

(* Only the loop over them writes the scan's rejections. *)
LEMMA SameWrittenRows ==
  ASSUME UNCHANGED scanVars, stage' = stage, stage # "rejections"
  PROVE  WrittenRows' = WrittenRows
<1>1. Waiting' = Waiting
  BY DEF Waiting, Stubs, scanVars
<1> QED
  BY <1>1 DEF WrittenRows

LEMMA OtherRowWritten ==
  ASSUME BuildInv, AcceptedMatchRows, RejectedInv, UNCHANGED scanVars,
         stage' = stage, stage # "rejections",
         NEW row, NEW layer, NEW kind, row.layer = layer, layer # "address", kind # "total",
         Accept(row, AcceptLayer(report, layer, kind))
  PROVE  AcceptedMatchRows' /\ RejectedInv'
<1>1. /\ rows' = Append(rows, row) /\ report' = AcceptLayer(report, layer, kind)
      /\ reported' = reported /\ rejectionRows' = rejectionRows
  BY DEF Accept
<1>2. IsReport(report)
  BY DEF RejectedInv
<1>3. AcceptedMatchRows' /\ IsReport(report')
  BY <1>1, <1>2, OtherRowReported
<1>4. \A c \in {"quality", "quality.has", "quality.missing", "rejected", "rejected.by_reason"} :
        \A x : Counted(report', <<c, x>>) = Counted(report, <<c, x>>)
  BY <1>1, <1>2, OtherAccepted
<1>5. WrittenRows' = WrittenRows
  BY SameWrittenRows
<1> QED
  BY <1>1, <1>3, <1>4, <1>5, NothingRejected

LEMMA AddressRowWritten ==
  ASSUME BuildInv, AcceptedMatchRows, RejectedInv, UNCHANGED scanVars,
         stage' = stage, stage # "rejections",
         NEW source, NEW precision, NEW addr, WriteCandidate(source, precision, addr)
  PROVE  AcceptedMatchRows' /\ RejectedInv'
<1> DEFINE row == Row("address", source, addr)
           address == [source |-> source, precision |-> precision,
                       fields |-> DOMAIN addr \cap AddressFields]
<1>1. /\ rows' = Append(rows, row) /\ report' = AcceptAddress(report, address)
      /\ reported' = reported /\ rejectionRows' = rejectionRows
  BY DEF WriteCandidate, Accept
<1>2. row.layer = "address" /\ IsReport(report)
  BY DEF Row, RejectedInv
<1> HIDE DEF row, address
<1>3. AcceptedMatchRows' /\ IsReport(report')
  BY <1>1, <1>2, AddressRowReported
<1>4. \A c \in {"rejected", "rejected.by_reason"} :
        \A x : Counted(report', <<c, x>>) = Counted(report, <<c, x>>)
  <2>1. \A c \in {"rejected", "rejected.by_reason"} : \A x :
          Counted(AcceptAddress(report, address), <<c, x>>) = Counted(report, <<c, x>>)
    BY <1>2, AddressAccepted
  <2> QED
    BY <1>1, <2>1
<1>5. WrittenRows' = WrittenRows
  BY SameWrittenRows
<1> QED
  BY <1>1, <1>3, <1>4, <1>5, NothingRejected

LEMMA EndIn ==
  \A n \in Nat : n \in 0..n
OBVIOUS

LEMMA RefusalWritten ==
  ASSUME BuildInv, AcceptedMatchRows, RejectedInv, UNCHANGED scanVars,
         stage' = stage, stage \in {"address ways", "interpolation", "streets"},
         NEW issue, issue \notin ReportOnlyIssues,
         NEW source, NEW tags, NEW addr, NEW hint,
         Reject(Emission(issue, source, tags, addr, hint, TRUE)),
         WriteRejectedRecord(Emission(issue, source, tags, addr, hint, TRUE))
  PROVE  AcceptedMatchRows' /\ RejectedInv'
<1> DEFINE x == Emission(issue, source, tags, addr, hint, TRUE)
<1>1. x.issue \notin ReportOnlyIssues /\ Reject(x) /\ WriteRejectedRecord(x)
  BY DEF Emission
<1> HIDE DEF x
<1>2. WrittenRows' = WrittenRows
  BY SameWrittenRows
<1>3. WrittenRows = Len(Waiting) /\ stage # "scan"
  BY DEF WrittenRows, Early
<1>4. Len(Waiting) \in Nat
  <2>1. Waiting = WrittenIn(file) /\ file \in Files
    BY <1>3, WaitingIs
  <2> QED
    BY <2>1, WrittenInIs
<1>5. WrittenRows \in 0..Len(Waiting)
  BY <1>3, <1>4, EndIn
<1> QED
  BY <1>1, <1>2, <1>3, <1>5, RefusedWithRow

LEMMA WrittenIssues ==
  /\ "way_without_resolved_nodes" \notin ReportOnlyIssues
  /\ "street_unresolved_geometry" \notin ReportOnlyIssues
  /\ \A issue \in InterpolationIssues : issue \notin ReportOnlyIssues
  /\ PairIssues \subseteq InterpolationIssues
BY PairAssumption DEF ReportOnlyIssues, StreetNameIssues, PlaceIssues, InterpolationIssues

(* The next stage finds the report as the last one left it. *)
LEMMA NextStageReport ==
  ASSUME BuildInv, AcceptedMatchRows, RejectedInv, NextStage
  PROVE  AcceptedMatchRows' /\ RejectedInv'
<1>1. /\ stage \in Loops /\ at = Items(stage) /\ stage' = Following(stage) /\ at' = 0
      /\ UNCHANGED scanVars /\ UNCHANGED <<rows, rejectionRows, report, reported>>
  BY DEF NextStage, output
<1>2. stage \in {"boundaries", "rejections", "places", "address nodes", "address ways",
                 "postcodes", "interpolation", "streets"}
  BY <1>1, ListNames DEF Loops
<1>3. Waiting' = Waiting
  BY <1>1 DEF Waiting, Stubs, scanVars
<1>4. WrittenRows' = WrittenRows
  <2>1. CASE stage = "boundaries"
    BY <1>1, <2>1 DEF WrittenRows, Following, Early
  <2>2. CASE stage = "rejections"
    <3>1. at = Len(Waiting)
      BY <1>1, <2>2, ListNames DEF Items, Waiting
    <3>2. stage' = "places"
      BY <1>1, <2>2 DEF Following
    <3> QED
      BY <1>3, <2>2, <3>1, <3>2 DEF WrittenRows, Early
  <2>3. CASE stage \notin {"boundaries", "rejections"}
    <3>1. stage' \in {"address nodes", "address ways", "postcodes", "interpolation", "streets",
                      "done"}
      BY <1>1, <1>2, <2>3 DEF Following
    <3> QED
      BY <1>2, <1>3, <2>3, <3>1 DEF WrittenRows, Early
  <2> QED
    BY <2>1, <2>2, <2>3
<1> QED
  BY <1>1, <1>4, ReportStays


LEMMA LoopReported ==
  ASSUME BuildInv, AcceptedMatchRows, RejectedInv, Next, ~Preparing
  PROVE  AcceptedMatchRows' /\ RejectedInv'
<1> DEFINE Goal == AcceptedMatchRows' /\ RejectedInv'
<1> HIDE DEF Goal
<1>0. SUFFICES Goal
  BY DEF Goal
<1>1. CASE NextStage
  BY <1>1, NextStageReport DEF Goal
<1>2. CASE Finished
  <2>1. UNCHANGED scanVars /\ UNCHANGED <<rows, rejectionRows, report, reported>>
        /\ stage' = stage /\ stage # "rejections"
    BY <1>2 DEF Finished, vars, output
  <2> QED
    BY <2>1, SameWrittenRows, ReportStays DEF Goal
<1>3. ASSUME NEW row, NEW layer, NEW kind, row.layer = layer, layer # "address", kind # "total",
             UNCHANGED scanVars, stage' = stage, stage # "rejections",
             Accept(row, AcceptLayer(report, layer, kind))
      PROVE  Goal
  BY <1>3, OtherRowWritten DEF Goal
<1>4. CASE WriteBoundaryRecord
  <2> DEFINE row == BoundaryRows[at + 1]
  <2>1. /\ stage = "boundaries" /\ at < Items("boundaries") /\ stage' = stage /\ UNCHANGED scanVars
        /\ Accept(row, AcceptLayer(report, row.layer, "place_nodes"))
    BY <1>4 DEF WriteBoundaryRecord, Emit, AcceptPlace
  <2>2. row.layer \in AdminLayers
    <3>1. stage \notin Early /\ Items("boundaries") = Len(BoundaryRows)
      BY <2>1, ListNames DEF Early, Items
    <3>2. IsSeq(BoundaryRows) /\ \A r \in Range(BoundaryRows) : r.layer \in AdminLayers
      BY <3>1, BoundaryRowsAre
    <3>3. /\ Len(BoundaryRows) \in Nat
          /\ \A i \in 1..Len(BoundaryRows) : BoundaryRows[i] \in Range(BoundaryRows)
      BY <3>2, SeqIs
    <3>4. at + 1 \in 1..Len(BoundaryRows)
      BY <2>1, <3>1, <3>3 DEF BuildInv
    <3> QED
      BY <3>2, <3>3, <3>4
  <2>3. row.layer # "address" /\ stage # "rejections"
    BY <2>1, <2>2, AbsentAssumption DEF AdminLayers
  <2> HIDE DEF row
  <2> QED
    BY <1>3, <2>1, <2>3
<1>5. CASE WriteRejections
  BY <1>5, RejectionWritten DEF Goal
<1>6. CASE WritePlaceNode
  <2> DEFINE source == <<"node", Item.id>>
             tags   == Item.tags
             layer  == PlaceLayer(Cleaned(tags, "place"))
             issue  == PlaceIssue(tags)
             row    == Row(layer, source, NoTags)
             x      == Emission(issue, source, tags, None, "place", FALSE)
  <2>1. /\ stage = "places" /\ stage' = stage /\ UNCHANGED scanVars
        /\ \/ issue = None /\ Accept(row, AcceptLayer(report, layer, "place_nodes"))
           \/ issue # None /\ Reject(x) /\ rejectionRows' = rejectionRows
    BY <1>6 DEF WritePlaceNode, Emit, AcceptPlace
  <2>2. row.layer = layer /\ layer # "address"
    BY PlaceLayerIs, AbsentAssumption DEF Row, PlaceLayers
  <2>3. issue # None => x.issue \in ReportOnlyIssues
    BY DEF PlaceIssue, Emission, ReportOnlyIssues, PlaceIssues
  <2> HIDE DEF row, layer, source, issue, x
  <2>4. CASE Accept(row, AcceptLayer(report, layer, "place_nodes"))
    BY <1>3, <2>1, <2>2, <2>4
  <2>5. CASE issue # None /\ Reject(x) /\ rejectionRows' = rejectionRows
    <3>1. WrittenRows' = WrittenRows
      BY <2>1, SameWrittenRows
    <3> QED
      BY <2>1, <2>3, <2>5, <3>1, RefusedInReport DEF Goal
  <2> QED
    BY <2>1, <2>4, <2>5
<1>7. CASE WriteAddressNode
  <2>1. /\ stage = "address nodes" /\ stage' = stage /\ UNCHANGED scanVars
        /\ WriteCandidate(<<"node", Item.id>>, "point", Item.tags)
    BY <1>7 DEF WriteAddressNode, Emit
  <2> QED
    BY <2>1, AddressRowWritten DEF Goal
<1>8. CASE WriteAddressWay
  <2>1. /\ stage = "address ways" /\ stage' = stage /\ UNCHANGED scanVars
        /\ WriteCandidate(<<"way", Item.id>>, "centroid", Item.tags)
    BY <1>8 DEF WriteAddressWay, Emit
  <2> QED
    BY <2>1, AddressRowWritten DEF Goal
<1>9. CASE RejectAddressWay
  <2> DEFINE x == Emission("way_without_resolved_nodes", <<"way", Item.id>>,
                           Item.tags, Item.tags, "address", TRUE)
  <2>1. /\ stage = "address ways" /\ stage' = stage /\ UNCHANGED scanVars
        /\ Reject(x) /\ WriteRejectedRecord(x)
    BY <1>9 DEF RejectAddressWay, Emit
  <2> QED
    BY <2>1, RefusalWritten, WrittenIssues DEF Goal
<1>10. CASE WritePostcode
  <2>1. /\ stage = "postcodes" /\ stage' = stage /\ UNCHANGED scanVars
        /\ \E source, tags : Accept(Row("postcode", source, tags),
                                    AcceptLayer(report, "postcode", "postcode_records"))
    BY <1>10 DEF WritePostcode, Emit, AcceptPostcode
  <2>2. PICK source, tags : Accept(Row("postcode", source, tags),
                                   AcceptLayer(report, "postcode", "postcode_records"))
    BY <2>1
  <2>3. Row("postcode", source, tags).layer = "postcode"
    BY DEF Row
  <2> QED
    BY <1>3, <2>1, <2>2, <2>3
<1>11. CASE RejectInterpolationWay
  <2> DEFINE issue == WayIssue(Item)
             x == InterpolationRejection(issue, Item)
  <2>1. /\ stage = "interpolation" /\ stage' = stage /\ UNCHANGED scanVars
        /\ issue # None /\ Reject(x) /\ WriteRejectedRecord(x)
    BY <1>11 DEF RejectInterpolationWay, Emit
  <2>2. issue \notin ReportOnlyIssues
    BY <2>1, WayIssueIs, WrittenIssues
  <2> HIDE DEF issue
  <2> QED
    BY <2>1, <2>2, RefusalWritten DEF Goal, InterpolationRejection
<1>12. CASE WriteInterpolation
  <2> DEFINE row == Row("interpolation", <<"way", Item.id>>, NoTags)
  <2>1. /\ stage = "interpolation" /\ stage' = stage /\ UNCHANGED scanVars
        /\ Accept(row, AcceptLayer(report, "interpolation", "interpolation_ranges"))
        /\ row.layer = "interpolation"
    BY <1>12 DEF WriteInterpolation, DecidePair, AcceptInterpolation, Row
  <2> QED
    BY <1>3, <2>1
<1>13. CASE \E issue \in PairIssues : RejectInterpolation(issue)
  <2>1. PICK issue \in PairIssues : RejectInterpolation(issue)
    BY <1>13
  <2> DEFINE x == InterpolationRejection(issue, Item)
  <2>2. /\ stage = "interpolation" /\ stage' = stage /\ UNCHANGED scanVars
        /\ Reject(x) /\ WriteRejectedRecord(x)
    BY <2>1 DEF RejectInterpolation, DecidePair
  <2>3. issue \notin ReportOnlyIssues
    BY <2>1, WrittenIssues
  <2> QED
    BY <2>2, <2>3, RefusalWritten DEF Goal, InterpolationRejection
<1>14. CASE WriteStreet
  <2> DEFINE row == Row("street", <<"way", Item.id>>, NoTags)
  <2>1. /\ stage = "streets" /\ stage' = stage /\ UNCHANGED scanVars
        /\ Accept(row, AcceptLayer(report, "street", "street_segments"))
        /\ row.layer = "street"
    BY <1>14 DEF WriteStreet, Emit, AcceptStreet, Row
  <2> QED
    BY <1>3, <2>1
<1>15. CASE RejectStreet
  <2> DEFINE x == Emission("street_unresolved_geometry", <<"way", Item.id>>,
                           Item.tags, NoTags, "street", TRUE)
  <2>1. /\ stage = "streets" /\ stage' = stage /\ UNCHANGED scanVars
        /\ Reject(x) /\ WriteRejectedRecord(x)
    BY <1>15 DEF RejectStreet, Emit
  <2> QED
    BY <2>1, RefusalWritten, WrittenIssues DEF Goal
<1> QED
  BY <1>1, <1>2, <1>4, <1>5, <1>6, <1>7, <1>8, <1>9, <1>10, <1>11, <1>12, <1>13, <1>14, <1>15
     DEF Next, Preparing


LEMMA ReportStep ==
  ASSUME BuildInv, BuildInv', ReportInv, [Next]_vars
  PROVE  ReportInv'
<1>1. CASE Next /\ ~Preparing
  <2>1. stage \notin Early /\ stage' \notin Early
    BY <1>1, LoopSteps DEF BuildInv
  <2>2. AcceptedMatchRows /\ RejectedInv
    BY <2>1 DEF ReportInv, Early
  <2>3. AcceptedMatchRows' /\ RejectedInv'
    BY <1>1, <2>2, LoopReported
  <2> QED
    BY <2>1, <2>3 DEF ReportInv
<1>2. CASE Scan
  <2>1. stage = "scan" /\ stage' = stage /\ rows' = rows /\ rejectionRows' = rejectionRows
    BY <1>2 DEF Scan, output
  <2> QED
    BY <2>1 DEF ReportInv
<1>3. CASE Discover
  <2>1. stage = "scan" /\ stage' = "members" /\ rows' = rows /\ rejectionRows' = rejectionRows
    BY <1>3 DEF Discover
  <2>2. rows = <<>> /\ rejectionRows = <<>>
    BY <2>1 DEF ReportInv, Early
  <2>3. (AcceptedMatchRows /\ RejectedInv)'
    BY <1>3, <2>2, ScanReported
  <2> QED
    BY <2>1, <2>2, <2>3 DEF ReportInv
<1>4. CASE ResolveBoundaryWays \/ ResolveNodeLocations \/ BuildBoundaries
  <2>1. /\ stage \in Early /\ stage # "scan" /\ stage' \in Early \cup {"boundaries"} /\ stage' # "scan"
        /\ UNCHANGED scanVars /\ UNCHANGED <<rows, rejectionRows, report, reported>>
    BY <1>4 DEF ResolveBoundaryWays, ResolveNodeLocations, BuildBoundaries, output, Early
  <2>2. WrittenRows' = WrittenRows
    BY <2>1 DEF WrittenRows
  <2>3. AcceptedMatchRows' /\ RejectedInv'
    BY <2>1, <2>2, ReportStays DEF ReportInv
  <2> QED
    BY <2>1, <2>3 DEF ReportInv
<1>5. CASE UNCHANGED vars
  <2>1. /\ stage' = stage /\ at' = at /\ UNCHANGED scanVars
        /\ UNCHANGED <<rows, rejectionRows, report, reported>>
    BY <1>5 DEF vars, output
  <2>2. WrittenRows' = WrittenRows
    <3>1. Waiting' = Waiting
      BY <2>1 DEF Waiting, Stubs, scanVars
    <3> QED
      BY <2>1, <3>1 DEF WrittenRows
  <2>3. stage # "scan" => AcceptedMatchRows' /\ RejectedInv'
    BY <2>1, <2>2, ReportStays DEF ReportInv
  <2> QED
    BY <2>1, <2>3 DEF ReportInv
<1> QED
  BY <1>1, <1>2, <1>3, <1>4, <1>5 DEF Preparing

LEMMA ReportInvariant == Spec => []ReportInv
<1>1. Init => ReportInv
  BY DEF Init, ReportInv
<1>2. BuildInv /\ BuildInv' /\ ReportInv /\ [Next]_vars => ReportInv'
  BY ReportStep
<1> QED
  BY <1>1, <1>2, BuildInvariant, PTL DEF Spec

(* For every file, the report of a finished build counts the rows of the    *)
(* pack and of its rejections: those of the scan, reported many stages      *)
(* before their rows are written, and those of the loops.                   *)
THEOREM ReportIsThePack == Spec => []ReportMatchesPack
<1>1. BuildInv /\ ReportInv => ReportMatchesPack
  <2> SUFFICES ASSUME BuildInv, ReportInv, stage = "done"
               PROVE  AcceptedMatchRows /\ RejectedMatchRows
    BY DEF ReportMatchesPack, Done
  <2>1. AcceptedMatchRows /\ RejectedInv
    BY DEF ReportInv
  <2>2. WrittenRows = Len(Waiting)
    BY DEF WrittenRows, Early
  <2>3. ASSUME NEW issue, issue \in ReportOnlyIssues
        PROVE  RejectionCount(issue) = 0
    <3>1. {i \in DOMAIN rejectionRows : rejectionRows[i].issue = issue} = {}
      BY <2>1, <2>3 DEF RejectedInv
    <3> QED
      BY <3>1, FS_EmptySet DEF RejectionCount
  <2>4. ASSUME NEW issue, issue \notin ReportOnlyIssues
        PROVE  Counted(report, <<"rejected.by_reason", issue>>) = RejectionCount(issue)
    <3> DEFINE w == WrittenOf(issue, Len(Waiting))
    <3>1. Counted(report, <<"rejected.by_reason", issue>>) = ReportedOf(issue)
          /\ RejectionCount(issue) + w = ReportedOf(issue) + w
      BY <2>1, <2>2, <2>4 DEF RejectedInv
    <3>2. w \in Nat
      <4>1. Waiting = WrittenIn(file) /\ file \in Files
        BY WaitingIs
      <4>2. /\ Len(Waiting) \in Nat
            /\ \A n \in 0..Len(Waiting) : IssuesIn(Waiting, issue, n) \in Nat
        BY <4>1, WrittenInIs
      <4> QED
        BY <4>2, EndIn DEF WrittenOf
    <3>3. ReportedOf(issue) \in Nat
      <4>1. DOMAIN reported = 1..Len(reported) /\ Len(reported) \in Nat
        BY SeqIs DEF BuildInv
      <4>2. {i \in DOMAIN reported : reported[i][2] = issue} \in SUBSET (1..Len(reported))
        BY <4>1
      <4> QED
        BY <4>1, <4>2, PlacesCount DEF ReportedOf
    <3>4. RejectionCount(issue) \in Nat
      <4>1. DOMAIN rejectionRows = 1..Len(rejectionRows) /\ Len(rejectionRows) \in Nat
        BY SeqIs DEF BuildInv
      <4>2. {i \in DOMAIN rejectionRows : rejectionRows[i].issue = issue}
              \in SUBSET (1..Len(rejectionRows))
        BY <4>1
      <4> QED
        BY <4>1, <4>2, PlacesCount DEF RejectionCount
    <3> HIDE DEF w
    <3>5. RejectionCount(issue) = ReportedOf(issue)
      BY <3>1, <3>2, <3>3, <3>4
    <3> QED
      BY <3>1, <3>5
  <2>5. Counted(report, <<"rejected", "total">>) = Len(reported)
    BY <2>1 DEF RejectedInv
  <2> QED
    BY <2>1, <2>3, <2>4, <2>5 DEF RejectedMatchRows
<1> QED
  BY <1>1, BuildInvariant, ReportInvariant, PTL


-----------------------------------------------------------------------------
(* Decisions about a feature of the file *)

(* What is decided of an element, as a place, a street or an address, and   *)
(* by which rows and issues.                                                *)
Classes == {"place", "street", "address"}
LayersOf(class) ==
  IF class = "place" THEN PlaceLayers
  ELSE IF class = "street" THEN {"street"} ELSE {"address", "interpolation"}
IssueOf(class, issue) ==
  IF class = "place" THEN issue \in PlaceIssues
  ELSE IF class = "street" THEN issue \in StreetIssues
  ELSE issue \notin StreetIssues \cup PlaceIssues

RowDecides(row, class, source) ==
  /\ row.source = source /\ row.layer \in LayersOf(class)
  /\ "derived_country" \notin DOMAIN row.tags
RowsFor(class, source, list) ==
  Cardinality({i \in DOMAIN list : RowDecides(list[i], class, source)})

IssueDecides(p, class, source) == p[1] = source /\ IssueOf(class, p[2])
IssuesFor(class, source, list) ==
  Cardinality({i \in DOMAIN list : IssueDecides(list[i], class, source)})

Decided(class, source) == RowsFor(class, source, rows) + IssuesFor(class, source, reported)

(* The loops that decide, and how many items of theirs are an element's.    *)
Deciding == {"places", "address nodes", "address ways", "interpolation", "streets"}
ClassOf(loop) ==
  IF loop = "places" THEN "place" ELSE IF loop = "streets" THEN "street" ELSE "address"
SourceIn(loop, item) ==
  <<IF loop \in {"places", "address nodes"} THEN "node" ELSE "way", item.id>>
ItemsOf(loop, list, n, source) == Cardinality({i \in 1..n : SourceIn(loop, list[i]) = source})

LEMMA RowsForIs ==
  ASSUME NEW list, IsSeq(list), NEW row, NEW class, NEW source
  PROVE  /\ RowsFor(class, source, list) \in Nat
         /\ RowsFor(class, source, Append(list, row)) =
              IF RowDecides(row, class, source) THEN RowsFor(class, source, list) + 1
              ELSE RowsFor(class, source, list)
<1> DEFINE n == Len(list)
           t == Append(list, row)
           Had == {i \in DOMAIN list : RowDecides(list[i], class, source)}
           Now == {i \in DOMAIN t : RowDecides(t[i], class, source)}
<1>1. /\ n \in Nat /\ DOMAIN list = 1..n /\ DOMAIN t = 1..n + 1
      /\ t[n + 1] = row /\ n + 1 \in 1..n + 1
      /\ \A i \in 1..n : t[i] = list[i] /\ i \in 1..n + 1
  BY ItemAdded
<1> HIDE DEF n, t
<1>2. Had \in SUBSET (1..n) /\ Now \in SUBSET (1..n + 1)
  BY <1>1
<1>3. \A i \in 1..n : i \in Now <=> i \in Had
  BY <1>1
<1>4. n + 1 \in Now <=> RowDecides(row, class, source)
  BY <1>1
<1>5. RowsFor(class, source, list) = Cardinality(Had) /\ RowsFor(class, source, t) = Cardinality(Now)
  BY DEF RowsFor
<1> HIDE DEF Had, Now
<1>6. /\ Cardinality(Had) \in Nat
      /\ Cardinality(Now) = IF n + 1 \in Now THEN Cardinality(Had) + 1 ELSE Cardinality(Had)
  BY <1>1, <1>2, <1>3, CountAppend
<1> QED
  BY <1>4, <1>5, <1>6 DEF t

LEMMA IssuesForIs ==
  ASSUME NEW list, IsSeq(list), NEW p, NEW class, NEW source
  PROVE  /\ IssuesFor(class, source, list) \in Nat
         /\ IssuesFor(class, source, Append(list, p)) =
              IF IssueDecides(p, class, source) THEN IssuesFor(class, source, list) + 1
              ELSE IssuesFor(class, source, list)
<1> DEFINE n == Len(list)
           t == Append(list, p)
           Had == {i \in DOMAIN list : IssueDecides(list[i], class, source)}
           Now == {i \in DOMAIN t : IssueDecides(t[i], class, source)}
<1>1. /\ n \in Nat /\ DOMAIN list = 1..n /\ DOMAIN t = 1..n + 1
      /\ t[n + 1] = p /\ n + 1 \in 1..n + 1
      /\ \A i \in 1..n : t[i] = list[i] /\ i \in 1..n + 1
  BY ItemAdded
<1> HIDE DEF n, t
<1>2. Had \in SUBSET (1..n) /\ Now \in SUBSET (1..n + 1)
  BY <1>1
<1>3. \A i \in 1..n : i \in Now <=> i \in Had
  BY <1>1
<1>4. n + 1 \in Now <=> IssueDecides(p, class, source)
  BY <1>1
<1>5. /\ IssuesFor(class, source, list) = Cardinality(Had)
      /\ IssuesFor(class, source, t) = Cardinality(Now)
  BY DEF IssuesFor
<1> HIDE DEF Had, Now
<1>6. /\ Cardinality(Had) \in Nat
      /\ Cardinality(Now) = IF n + 1 \in Now THEN Cardinality(Had) + 1 ELSE Cardinality(Had)
  BY <1>1, <1>2, <1>3, CountAppend
<1> QED
  BY <1>4, <1>5, <1>6 DEF t

LEMMA ItemsOfIs ==
  ASSUME NEW loop, NEW list, NEW n \in Nat, NEW source
  PROVE  /\ ItemsOf(loop, list, n, source) \in Nat
         /\ ItemsOf(loop, list, 0, source) = 0
         /\ ItemsOf(loop, list, n + 1, source) =
              IF SourceIn(loop, list[n + 1]) = source THEN ItemsOf(loop, list, n, source) + 1
              ELSE ItemsOf(loop, list, n, source)
<1> DEFINE In(m) == {i \in 1..m : SourceIn(loop, list[i]) = source}
<1>1. In(n) \in SUBSET (1..n) /\ In(n + 1) \in SUBSET (1..n + 1)
  OBVIOUS
<1>2. \A i \in 1..n : i \in In(n + 1) <=> i \in In(n)
  OBVIOUS
<1>3. n + 1 \in In(n + 1) <=> SourceIn(loop, list[n + 1]) = source
  OBVIOUS
<1>4. In(0) = {}
  OBVIOUS
<1>5. \A m : ItemsOf(loop, list, m, source) = Cardinality(In(m))
  BY DEF ItemsOf
<1> HIDE DEF In
<1>6. /\ Cardinality(In(n)) \in Nat
      /\ Cardinality(In(n + 1)) = IF n + 1 \in In(n + 1) THEN Cardinality(In(n)) + 1
                                  ELSE Cardinality(In(n))
  BY <1>1, <1>2, CountAppend
<1> QED
  BY <1>3, <1>4, <1>5, <1>6, FS_EmptySet


RefusalsOf(class, source, list) ==
  Cardinality({i \in DOMAIN list : list[i].source = source /\ IssueOf(class, list[i].issue)})
Refusals(class, source) == RefusalsOf(class, source, Refused(file))

(* The stages before a loop, and how many of its items are done. *)
Upcoming(loop) ==
  Early \cup {"boundaries", "rejections"}
  \cup (IF loop = "places" THEN {} ELSE {"places"})
  \cup (IF loop \in {"places", "address nodes"} THEN {} ELSE {"address nodes"})
  \cup (IF loop \in {"places", "address nodes", "address ways"} THEN {}
        ELSE {"address ways", "postcodes"})
  \cup (IF loop = "streets" THEN {"interpolation"} ELSE {})
DoneIn(loop) ==
  IF stage = loop THEN at
  ELSE IF stage \in Upcoming(loop) THEN 0 ELSE Len(Stubs(ListOf[loop]))
Turns(loop, source) == ItemsOf(loop, Stubs(ListOf[loop]), DoneIn(loop), source)

RangedSources == {<<"way", stub.id>> : stub \in Range(Stubs("interpolation_way_stubs"))}

(* All that was decided of an element: what the scan refused, and one       *)
(* decision for each item of its that is done; of an interpolation way more *)
(* than one.                                                                *)
DecidedInv ==
  stage # "scan" => \A source :
    /\ source[1] = "node" =>
         Decided("place", source) = Refusals("place", source) + Turns("places", source)
    /\ Decided("street", source) = Refusals("street", source) + Turns("streets", source)
    /\ LET once == Refusals("address", source) + Turns("address nodes", source)
                   + Turns("address ways", source)
       IN IF source \in RangedSources
          THEN Decided("address", source) >= once + Turns("interpolation", source)
          ELSE Decided("address", source) = once

LEMMA DecidingLists ==
  ASSUME BuildInv, stage # "scan", NEW loop \in Deciding
  PROVE  /\ loop \in DOMAIN ListOf /\ ListOf[loop] \in Kinds \ {"rejections"}
         /\ IsSeq(Stubs(ListOf[loop])) /\ Len(Stubs(ListOf[loop])) \in Nat /\ DoneIn(loop) \in Nat
<1>1. loop \in DOMAIN ListOf /\ ListOf[loop] \in Kinds \ {"rejections"}
  BY ListNames DEF Deciding, Kinds
<1>2. IsSeq(Stubs(ListOf[loop]))
  BY <1>1, StubsAre DEF BuildInv
<1>3. Len(Stubs(ListOf[loop])) \in Nat
  BY <1>2, SeqIs
<1> QED
  BY <1>1, <1>2, <1>3 DEF DoneIn, BuildInv

LEMMA DecisionCounts ==
  ASSUME BuildInv, stage # "scan", NEW source
  PROVE  /\ \A class : /\ RowsFor(class, source, rows) \in Nat
                       /\ IssuesFor(class, source, reported) \in Nat
                       /\ Decided(class, source) \in Nat /\ Refusals(class, source) \in Nat
         /\ \A loop \in Deciding : Turns(loop, source) \in Nat
<1>1. ASSUME NEW class
      PROVE  /\ RowsFor(class, source, rows) \in Nat
             /\ IssuesFor(class, source, reported) \in Nat
  BY RowsForIs, IssuesForIs DEF BuildInv
<1>2. ASSUME NEW class PROVE Decided(class, source) \in Nat
  <2> DEFINE a == RowsFor(class, source, rows)
             b == IssuesFor(class, source, reported)
  <2>1. a \in Nat /\ b \in Nat
    BY <1>1
  <2> HIDE DEF a, b
  <2>2. a + b \in Nat
    BY <2>1
  <2> QED
    BY <2>2 DEF Decided, a, b
<1>3. ASSUME NEW class PROVE Refusals(class, source) \in Nat
  <2> DEFINE R == Refused(file)
  <2>1. Lists("rejections", R, All(file, "rejections"))
    BY StubsAre DEF BuildInv
  <2>2. IsSeq(R)
    BY <2>1 DEF Lists, IsSeq
  <2> HIDE DEF R
  <2>3. Len(R) \in Nat /\ DOMAIN R = 1..Len(R)
    BY <2>2, SeqIs
  <2>4. {i \in DOMAIN R : R[i].source = source /\ IssueOf(class, R[i].issue)} \in SUBSET (1..Len(R))
    BY <2>3
  <2>5. RefusalsOf(class, source, R) \in Nat
    BY <2>3, <2>4, PlacesCount DEF RefusalsOf
  <2> QED
    BY <2>5 DEF Refusals, R
<1>4. ASSUME NEW loop \in Deciding PROVE Turns(loop, source) \in Nat
  BY DecidingLists, ItemsOfIs DEF Turns
<1> QED
  BY <1>1, <1>2, <1>3, <1>4

(* What the scan found stays. *)
LEMMA FoundStays ==
  ASSUME UNCHANGED scanVars
  PROVE  /\ \A class, source : Refusals(class, source)' = Refusals(class, source)
         /\ RangedSources' = RangedSources
         /\ \A kind : Stubs(kind)' = Stubs(kind)
BY DEF Refusals, RangedSources, Stubs, scanVars

(* A step without a decision. *)
LEMMA NothingDecided ==
  ASSUME DecidedInv, stage # "scan", UNCHANGED scanVars,
         \A loop \in Deciding : DoneIn(loop)' = DoneIn(loop),
         \A class \in Classes : \A source :
           (class = "place" => source[1] = "node") => Decided(class, source)' = Decided(class, source)
  PROVE  DecidedInv'
<1>1. /\ \A class, source : Refusals(class, source)' = Refusals(class, source)
      /\ RangedSources' = RangedSources
      /\ \A loop \in Deciding : \A source : Turns(loop, source)' = Turns(loop, source)
  BY FoundStays DEF Turns
<1> QED
  BY <1>1 DEF DecidedInv, Classes, Deciding


(* The decision that a step makes: of this source and class, or none else.  *)
Decides(class, source) ==
  \A c \in Classes : \A s : (c = "place" => s[1] = "node") =>
    Decided(c, s)' = IF c = class /\ s = source THEN Decided(c, s) + 1 ELSE Decided(c, s)

(* The next item of a loop is decided. *)
LEMMA ItemDecided ==
  ASSUME BuildInv, DecidedInv, NEW loop \in Deciding, stage = loop, stage' = stage,
         at < Items(loop), at' = at + 1, UNCHANGED scanVars,
         Decides(ClassOf(loop), SourceIn(loop, Item))
  PROVE  DecidedInv'
<1> DEFINE mine == SourceIn(loop, Item)
<1>0. stage # "scan"
  BY DEF Deciding
<1>1. loop \in DOMAIN ListOf
  BY ListNames DEF Deciding
<1>2. /\ Item = Stubs(ListOf[loop])[at + 1] /\ Item \in Range(Stubs(ListOf[loop]))
      /\ at \in Nat
  BY <1>1, ItemIs DEF BuildInv
<1>3. /\ \A class, source : Refusals(class, source)' = Refusals(class, source)
      /\ RangedSources' = RangedSources /\ \A kind : Stubs(kind)' = Stubs(kind)
  BY FoundStays
<1>4. \A l \in Deciding \ {loop} : \A source : Turns(l, source)' = Turns(l, source)
  <2>1. \A l \in Deciding \ {loop} : DoneIn(l)' = DoneIn(l)
    BY <1>3 DEF DoneIn
  <2> QED
    BY <1>3, <2>1 DEF Turns
<1>5. \A source : Turns(loop, source)' = IF source = mine THEN Turns(loop, source) + 1
                                         ELSE Turns(loop, source)
  <2> TAKE source
  <2>1. DoneIn(loop) = at /\ DoneIn(loop)' = at + 1
    BY DEF DoneIn
  <2>2. /\ Turns(loop, source) = ItemsOf(loop, Stubs(ListOf[loop]), at, source)
        /\ Turns(loop, source)' = ItemsOf(loop, Stubs(ListOf[loop]), at + 1, source)
    BY <1>3, <2>1 DEF Turns
  <2> QED
    BY <1>2, <2>2, ItemsOfIs
<1>6. \A source : /\ \A class : Decided(class, source) \in Nat /\ Refusals(class, source) \in Nat
                  /\ \A l \in Deciding : Turns(l, source) \in Nat
  BY <1>0, DecisionCounts
<1>7. \A c \in Classes : \A s : (c = "place" => s[1] = "node") =>
        Decided(c, s)' = IF c = ClassOf(loop) /\ s = mine THEN Decided(c, s) + 1 ELSE Decided(c, s)
  BY DEF Decides
<1>8. loop = "interpolation" => mine \in RangedSources
  BY <1>2, ListNames DEF SourceIn, RangedSources
<1> HIDE DEF mine
<1>9. ASSUME NEW source
      PROVE  source[1] = "node" =>
               Decided("place", source)' = Refusals("place", source)' + Turns("places", source)'
  <2> HAVE source[1] = "node"
  <2> DEFINE d == Decided("place", source)
             r == Refusals("place", source)
             t == Turns("places", source)
  <2>1. d = r + t /\ d \in Nat /\ r \in Nat /\ t \in Nat
    BY <1>0, <1>6 DEF DecidedInv, Deciding
  <2>2. /\ Decided("place", source)' = IF loop = "places" /\ source = mine THEN d + 1 ELSE d
        /\ Turns("places", source)' = IF loop = "places" /\ source = mine THEN t + 1 ELSE t
        /\ Refusals("place", source)' = r
    BY <1>3, <1>4, <1>5, <1>7 DEF Classes, ClassOf, Deciding
  <2> HIDE DEF d, r, t
  <2>3. d + 1 = r + (t + 1)
    BY <2>1
  <2> QED
    BY <2>1, <2>2, <2>3
<1>10. ASSUME NEW source
       PROVE  Decided("street", source)' = Refusals("street", source)' + Turns("streets", source)'
  <2> DEFINE d == Decided("street", source)
             r == Refusals("street", source)
             t == Turns("streets", source)
  <2>1. d = r + t /\ d \in Nat /\ r \in Nat /\ t \in Nat
    BY <1>0, <1>6 DEF DecidedInv, Deciding
  <2>2. /\ Decided("street", source)' = IF loop = "streets" /\ source = mine THEN d + 1 ELSE d
        /\ Turns("streets", source)' = IF loop = "streets" /\ source = mine THEN t + 1 ELSE t
        /\ Refusals("street", source)' = r
    BY <1>3, <1>4, <1>5, <1>7 DEF Classes, ClassOf, Deciding
  <2> HIDE DEF d, r, t
  <2>3. d + 1 = r + (t + 1)
    BY <2>1
  <2> QED
    BY <2>1, <2>2, <2>3
<1>11. ASSUME NEW source
       PROVE  LET once == Refusals("address", source)' + Turns("address nodes", source)'
                          + Turns("address ways", source)'
              IN IF source \in RangedSources
                 THEN Decided("address", source)' >= once + Turns("interpolation", source)'
                 ELSE Decided("address", source)' = once
  <2> DEFINE d == Decided("address", source)
             r == Refusals("address", source)
             n == Turns("address nodes", source)
             w == Turns("address ways", source)
             i == Turns("interpolation", source)
             ranged == source \in RangedSources
  <2>1. /\ d \in Nat /\ r \in Nat /\ n \in Nat /\ w \in Nat /\ i \in Nat
        /\ IF ranged THEN d >= r + n + w + i ELSE d = r + n + w
    BY <1>0, <1>6 DEF DecidedInv, Deciding
  <2>2. /\ Decided("address", source)' =
             IF loop \in {"address nodes", "address ways", "interpolation"} /\ source = mine
             THEN d + 1 ELSE d
        /\ Turns("address nodes", source)' =
             IF loop = "address nodes" /\ source = mine THEN n + 1 ELSE n
        /\ Turns("address ways", source)' =
             IF loop = "address ways" /\ source = mine THEN w + 1 ELSE w
        /\ Turns("interpolation", source)' =
             IF loop = "interpolation" /\ source = mine THEN i + 1 ELSE i
        /\ Refusals("address", source)' = r
    <3>1. Decided("address", source)' =
            IF ClassOf(loop) = "address" /\ source = mine THEN d + 1 ELSE d
      BY <1>7 DEF Classes
    <3>2. ClassOf(loop) = "address" <=> loop \in {"address nodes", "address ways", "interpolation"}
      BY DEF ClassOf, Deciding
    <3> QED
      BY <1>3, <1>4, <1>5, <3>1, <3>2 DEF Deciding
  <2>3. loop = "interpolation" /\ source = mine => ranged
    BY <1>8
  <2> HIDE DEF d, r, n, w, i, ranged
  <2>4. /\ d >= r + n + w + i => /\ d + 1 >= r + (n + 1) + w + i
                                 /\ d + 1 >= r + n + (w + 1) + i
                                 /\ d + 1 >= r + n + w + (i + 1)
        /\ d = r + n + w => d + 1 = r + (n + 1) + w /\ d + 1 = r + n + (w + 1)
    BY <2>1
  <2>5. IF ranged
        THEN Decided("address", source)' >= Refusals("address", source)'
               + Turns("address nodes", source)' + Turns("address ways", source)'
               + Turns("interpolation", source)'
        ELSE Decided("address", source)' = Refusals("address", source)'
               + Turns("address nodes", source)' + Turns("address ways", source)'
    <3>1. CASE source # mine
      BY <2>1, <2>2, <3>1
    <3>2. CASE source = mine /\ loop = "address nodes"
      BY <2>1, <2>2, <2>4, <3>2
    <3>3. CASE source = mine /\ loop = "address ways"
      BY <2>1, <2>2, <2>4, <3>3
    <3>4. CASE source = mine /\ loop = "interpolation"
      BY <2>1, <2>2, <2>3, <2>4, <3>4
    <3>5. CASE loop \notin {"address nodes", "address ways", "interpolation"}
      BY <2>1, <2>2, <3>5
    <3> QED
      BY <3>1, <3>2, <3>3, <3>4, <3>5
  <2> QED
    BY <2>5 DEF ranged
<1> QED
  BY <1>3, <1>9, <1>10, <1>11 DEF DecidedInv

(* A pair is decided, and the way has another one. *)
LEMMA PairDecided ==
  ASSUME BuildInv, DecidedInv, stage = "interpolation", stage' = stage,
         at < Items(stage), at' = at, UNCHANGED scanVars,
         Decides("address", SourceIn("interpolation", Item))
  PROVE  DecidedInv'
<1> DEFINE mine == SourceIn("interpolation", Item)
<1>2. Item \in Range(Stubs("interpolation_way_stubs"))
  BY ItemIs, ListNames
<1>3. /\ \A class, source : Refusals(class, source)' = Refusals(class, source)
      /\ RangedSources' = RangedSources /\ \A kind : Stubs(kind)' = Stubs(kind)
  BY FoundStays
<1>4. \A l : \A source : Turns(l, source)' = Turns(l, source)
  <2>1. \A l : DoneIn(l)' = DoneIn(l)
    BY <1>3 DEF DoneIn
  <2> QED
    BY <1>3, <2>1 DEF Turns
<1>6. \A source : /\ \A class : Decided(class, source) \in Nat /\ Refusals(class, source) \in Nat
                  /\ \A l \in Deciding : Turns(l, source) \in Nat
  BY DecisionCounts
<1>7. \A c \in Classes : \A s : (c = "place" => s[1] = "node") =>
        Decided(c, s)' = IF c = "address" /\ s = mine THEN Decided(c, s) + 1 ELSE Decided(c, s)
  BY DEF Decides
<1>8. mine \in RangedSources
  BY <1>2 DEF SourceIn, RangedSources
<1> HIDE DEF mine
<1>9. \A source : /\ source[1] = "node" => Decided("place", source)' = Decided("place", source)
                  /\ Decided("street", source)' = Decided("street", source)
                  /\ Decided("address", source)' =
                       IF source = mine THEN Decided("address", source) + 1
                       ELSE Decided("address", source)
  BY <1>7 DEF Classes
<1>10. ASSUME NEW source, source \in RangedSources
       PROVE  Decided("address", source)' >= Refusals("address", source)
               + Turns("address nodes", source) + Turns("address ways", source)
               + Turns("interpolation", source)
  <2> DEFINE d == Decided("address", source)
             sum == Refusals("address", source) + Turns("address nodes", source)
                    + Turns("address ways", source) + Turns("interpolation", source)
  <2>1. d >= sum /\ d \in Nat
    BY <1>6, <1>10 DEF DecidedInv
  <2>2. sum \in Nat
    <3>1. Refusals("address", source) \in Nat /\ Turns("address nodes", source) \in Nat
          /\ Turns("address ways", source) \in Nat /\ Turns("interpolation", source) \in Nat
      BY <1>6 DEF Deciding
    <3>2. \A a, b, c, e : a \in Nat /\ b \in Nat /\ c \in Nat /\ e \in Nat => a + b + c + e \in Nat
      OBVIOUS
    <3> QED
      BY <3>1, <3>2
  <2> HIDE DEF d, sum
  <2>3. d + 1 >= sum
    BY <2>1, <2>2
  <2> QED
    BY <1>9, <2>1, <2>3 DEF d, sum
<1> QED
  BY <1>3, <1>4, <1>8, <1>9, <1>10 DEF DecidedInv


LEMMA RowDecision ==
  ASSUME BuildInv, NEW row, rows' = Append(rows, row), reported' = reported
  PROVE  \A class, source :
           Decided(class, source)' = IF RowDecides(row, class, source) THEN Decided(class, source) + 1
                                     ELSE Decided(class, source)
<1> TAKE class, source
<1> DEFINE a == RowsFor(class, source, rows)
           b == IssuesFor(class, source, reported)
           a2 == RowsFor(class, source, Append(rows, row))
           hit == RowDecides(row, class, source)
<1>1. /\ a \in Nat /\ a2 = IF hit THEN a + 1 ELSE a
  BY RowsForIs DEF BuildInv
<1>2. b \in Nat
  BY IssuesForIs DEF BuildInv
<1>3. Decided(class, source) = a + b /\ Decided(class, source)' = a2 + b
  BY DEF Decided
<1> HIDE DEF a, b, a2, hit
<1>4. a2 + b = IF hit THEN (a + b) + 1 ELSE a + b
  BY <1>1, <1>2
<1> QED
  BY <1>3, <1>4 DEF hit

LEMMA RowDecided ==
  ASSUME BuildInv, NEW row, rows' = Append(rows, row), reported' = reported,
         NEW class \in Classes, NEW source, row.source = source, row.layer \in LayersOf(class),
         "derived_country" \notin DOMAIN row.tags
  PROVE  Decides(class, source)
<1>1. \A c \in Classes : row.layer \in LayersOf(c) => c = class
  BY DEF Classes, LayersOf, PlaceLayers
<1>2. \A c \in Classes : \A s : RowDecides(row, c, s) <=> c = class /\ s = source
  BY <1>1 DEF RowDecides
<1> QED
  BY <1>2, RowDecision DEF Decides

(* A row of another kind decides nothing. *)
LEMMA RowIgnored ==
  ASSUME BuildInv, NEW row, rows' = Append(rows, row), reported' = reported,
         row.layer \notin {"address", "interpolation", "street"},
         row.layer \in PlaceLayers => row.source[1] # "node"
  PROVE  \A class \in Classes : \A source :
           (class = "place" => source[1] = "node") => Decided(class, source)' = Decided(class, source)
<1>1. \A class \in Classes : \A source :
        (class = "place" => source[1] = "node") => ~RowDecides(row, class, source)
  BY DEF Classes, LayersOf, RowDecides
<1> QED
  BY <1>1, RowDecision

LEMMA RefusalDecided ==
  ASSUME BuildInv, NEW source, NEW issue, rows' = rows,
         reported' = Append(reported, <<source, issue>>),
         NEW class \in Classes, IssueOf(class, issue)
  PROVE  Decides(class, source)
<1> DEFINE p == <<source, issue>>
<1>1. \A c \in Classes : IssueOf(c, issue) => c = class
  <2>1. StreetIssues \cap PlaceIssues = {}
    BY DEF StreetIssues, StreetNameIssues, PlaceIssues
  <2> QED
    BY <2>1 DEF Classes, IssueOf
<1>2. \A c \in Classes : \A s : IssueDecides(p, c, s) <=> c = class /\ s = source
  BY <1>1 DEF IssueDecides
<1> HIDE DEF p
<1>3. ASSUME NEW c, NEW s
      PROVE  Decided(c, s)' = IF IssueDecides(p, c, s) THEN Decided(c, s) + 1 ELSE Decided(c, s)
  <2> DEFINE a == RowsFor(c, s, rows)
             b == IssuesFor(c, s, reported)
             b2 == IssuesFor(c, s, Append(reported, p))
             hit == IssueDecides(p, c, s)
  <2>1. /\ b \in Nat /\ b2 = IF hit THEN b + 1 ELSE b
    BY IssuesForIs DEF BuildInv
  <2>2. a \in Nat
    BY RowsForIs DEF BuildInv
  <2>3. Decided(c, s) = a + b /\ Decided(c, s)' = a + b2
    BY DEF Decided, p
  <2> HIDE DEF a, b, b2, hit
  <2>4. a + b2 = IF hit THEN (a + b) + 1 ELSE a + b
    BY <2>1, <2>2
  <2> QED
    BY <2>3, <2>4 DEF hit
<1> QED
  BY <1>2, <1>3 DEF Decides

LEMMA NothingSaid ==
  ASSUME rows' = rows, reported' = reported
  PROVE  \A class, source : Decided(class, source)' = Decided(class, source)
BY DEF Decided

(* The tags of an address are its own. *)
LEMMA AddrTagsAre ==
  ASSUME NEW tags
  PROVE  "derived_country" \notin DOMAIN AddrTags(tags) /\ "derived_country" \notin DOMAIN NoTags
BY DEF AddrTags, Only, AddrKeys, NoTags

LEMMA AddressStubsAre ==
  ASSUME ScanInv, stage # "scan"
  PROVE  /\ \A stub \in Range(Stubs("address_node_candidates")) : \E tags : stub.tags = AddrTags(tags)
         /\ \A stub \in Range(Stubs("way_stubs")) : \E tags : stub.tags = AddrTags(tags)
<1>1. \A stub \in Range(Stubs("way_stubs")) : \E tags : stub.tags = AddrTags(tags)
  BY WayStubsAre DEF WayKinds, AddrIn
<1>2. ASSUME NEW stub \in Range(Stubs("address_node_candidates"))
      PROVE  \E tags : stub.tags = AddrTags(tags)
  <2>1. "address_node_candidates" \in Kinds \ {"rejections"}
    BY DEF Kinds
  <2>2. stub \in All(file, "address_node_candidates")
    BY <2>1, StubsAre DEF Lists
  <2>3. PICK e \in Range(Elements(file)) : stub \in Entries(e, "address_node_candidates")
    BY <2>2 DEF All
  <2>4. e.type \in {"node", "way", "relation"}
    BY FileIs
  <2>5. e.type = "way" \/ e.type = "relation" => Entries(e, "address_node_candidates") = {}
    BY <2>1, WayIs, RelationIs
  <2>6. e.type = "node"
    BY <2>3, <2>4, <2>5
  <2> DEFINE S == Entries(e, "address_node_candidates")
  <2>7. S = {} \/ S = {[id |-> e.id, tags |-> AddrIn(e)]}
    BY <2>6, NodeIs
  <2>8. stub = [id |-> e.id, tags |-> AddrIn(e)]
    BY <2>3, <2>7
  <2> QED
    BY <2>8 DEF AddrIn
<1> QED
  BY <1>1, <1>2


(* The next stage finds as many items done as the last one left. *)
LEMMA NextStageDone ==
  ASSUME BuildInv, NextStage
  PROVE  \A loop \in Deciding : DoneIn(loop)' = DoneIn(loop)
<1>1. /\ stage \in Loops /\ at = Items(stage) /\ stage' = Following(stage) /\ at' = 0
      /\ UNCHANGED scanVars
  BY DEF NextStage
<1>2. stage \in {"boundaries", "rejections", "places", "address nodes", "address ways",
                 "postcodes", "interpolation", "streets"}
  BY <1>1, ListNames DEF Loops
<1>3. \A kind : Stubs(kind)' = Stubs(kind)
  BY <1>1, FoundStays
<1>4. stage \in Deciding => at = Len(Stubs(ListOf[stage]))
  BY <1>1, ListNames DEF Items, Deciding
<1>5. SUFFICES ASSUME NEW loop \in Deciding PROVE DoneIn(loop)' = DoneIn(loop)
  OBVIOUS
<1> USE DEF DoneIn, Upcoming, Early, Deciding
<1>6. CASE stage \in {"boundaries", "rejections", "postcodes"}
  <2>1. \/ stage = "boundaries" /\ stage' = "rejections"
        \/ stage = "rejections" /\ stage' = "places"
        \/ stage = "postcodes" /\ stage' = "interpolation"
    BY <1>1, <1>6 DEF Following
  <2> QED
    BY <1>1, <1>3, <2>1
<1>7. CASE stage \in {"places", "address nodes", "address ways"}
  <2>1. \/ stage = "places" /\ stage' = "address nodes"
        \/ stage = "address nodes" /\ stage' = "address ways"
        \/ stage = "address ways" /\ stage' = "postcodes"
    BY <1>1, <1>7 DEF Following
  <2> QED
    BY <1>1, <1>3, <1>4, <2>1
<1>8. CASE stage \in {"interpolation", "streets"}
  <2>1. \/ stage = "interpolation" /\ stage' = "streets"
        \/ stage = "streets" /\ stage' = "done"
    BY <1>1, <1>8 DEF Following
  <2> QED
    BY <1>1, <1>3, <1>4, <2>1
<1> QED
  BY <1>2, <1>6, <1>7, <1>8

(* A step outside of the loops that decide. *)
LEMMA OtherLoopsDone ==
  ASSUME UNCHANGED scanVars, stage' = stage, stage \notin Deciding
  PROVE  \A loop \in Deciding : DoneIn(loop)' = DoneIn(loop)
<1>1. \A kind : Stubs(kind)' = Stubs(kind)
  BY FoundStays
<1> QED
  BY <1>1 DEF DoneIn

LEMMA PlaceDecided ==
  ASSUME BuildInv, DecidedInv, WritePlaceNode
  PROVE  DecidedInv'
<1> DEFINE source == <<"node", Item.id>>
           tags   == Item.tags
           layer  == PlaceLayer(Cleaned(tags, "place"))
           issue  == PlaceIssue(tags)
           row    == Row(layer, source, NoTags)
<1>1. /\ stage = "places" /\ stage' = stage /\ UNCHANGED scanVars /\ at < Items("places")
      /\ at' = at + 1
      /\ \/ issue = None /\ rows' = Append(rows, row) /\ reported' = reported
         \/ issue # None /\ rows' = rows /\ reported' = Append(reported, <<source, issue>>)
  <2>1. \A x : Reject(Emission(issue, source, x, None, "place", FALSE)) =>
          rows' = rows /\ reported' = Append(reported, <<source, issue>>)
    BY DEF Reject, Emission
  <2>2. /\ Emit("places")
        /\ \/ issue = None /\ Accept(row, AcceptPlace(report, layer))
           \/ issue # None /\ Reject(Emission(issue, source, tags, None, "place", FALSE))
    BY DEF WritePlaceNode
  <2> HIDE DEF issue, row, source, tags, layer
  <2> QED
    BY <2>1, <2>2 DEF Emit, Accept
<1>2. issue = None => layer \in PlaceLayers
  BY PlaceLayerIs, AbsentAssumption DEF PlaceIssue, PlaceIssues
<1>3. issue # None => issue \in PlaceIssues
  BY DEF PlaceIssue, PlaceIssues
<1>4. /\ row.source = source /\ row.layer = layer /\ row.tags = NoTags
  BY DEF Row
<1>5. SourceIn("places", Item) = source /\ ClassOf("places") = "place"
      /\ "place" \in Classes /\ "places" \in Deciding
  BY DEF SourceIn, ClassOf, Classes, Deciding
<1>6. LayersOf("place") = PlaceLayers /\ \A i : IssueOf("place", i) <=> i \in PlaceIssues
  BY DEF LayersOf, IssueOf
<1> HIDE DEF issue, row, source, tags, layer
<1>7. Decides("place", source)
  <2>1. CASE issue = None /\ rows' = Append(rows, row) /\ reported' = reported
    <3>1. row.layer \in LayersOf("place") /\ "derived_country" \notin DOMAIN row.tags
      BY <1>2, <1>4, <1>6, <2>1, AddrTagsAre
    <3> QED
      BY <1>4, <1>5, <2>1, <3>1, RowDecided
  <2>2. CASE issue # None /\ rows' = rows /\ reported' = Append(reported, <<source, issue>>)
    BY <1>3, <1>5, <1>6, <2>2, RefusalDecided
  <2> QED
    BY <1>1, <2>1, <2>2
<1> QED
  BY <1>1, <1>5, <1>7, ItemDecided

LEMMA AddressDecided ==
  ASSUME BuildInv, DecidedInv, WriteAddressNode \/ WriteAddressWay
  PROVE  DecidedInv'
<1> DEFINE source == SourceIn(stage, Item)
           row == Row("address", source, Item.tags)
<1>1. /\ stage \in {"address nodes", "address ways"} /\ stage' = stage /\ UNCHANGED scanVars
      /\ at < Items(stage) /\ at' = at + 1
      /\ rows' = Append(rows, row) /\ reported' = reported
  BY DEF WriteAddressNode, WriteAddressWay, Emit, WriteCandidate, Accept, SourceIn
<1>2. row.source = source /\ row.layer = "address" /\ row.tags = Item.tags
  BY DEF Row
<1>3. stage \in Deciding /\ ClassOf(stage) = "address" /\ "address" \in Classes
      /\ "address" \in LayersOf("address")
  BY <1>1 DEF Deciding, ClassOf, Classes, LayersOf
<1>4. "derived_country" \notin DOMAIN Item.tags
  <2>1. Item \in Range(Stubs(ListOf[stage])) /\ stage \notin Early
    BY <1>1, ItemIs, ListNames
  <2>2. ListOf[stage] \in {"address_node_candidates", "way_stubs"}
    BY <1>1, ListNames
  <2>3. \E tags : Item.tags = AddrTags(tags)
    BY <2>1, <2>2, AddressStubsAre DEF BuildInv, Early
  <2> QED
    BY <2>3, AddrTagsAre
<1> HIDE DEF source, row
<1>5. Decides("address", source)
  BY <1>1, <1>2, <1>3, <1>4, RowDecided
<1> QED
  BY <1>1, <1>3, <1>5, ItemDecided DEF source

LEMMA RefusedDecided ==
  ASSUME BuildInv, DecidedInv, RejectAddressWay \/ RejectStreet \/ RejectInterpolationWay
  PROVE  DecidedInv'
<1> DEFINE source == SourceIn(stage, Item)
<1>1. /\ stage \in {"address ways", "streets", "interpolation"} /\ stage' = stage
      /\ UNCHANGED scanVars /\ at < Items(stage) /\ at' = at + 1 /\ rows' = rows
      /\ \E issue : /\ IssueOf(ClassOf(stage), issue)
                    /\ reported' = Append(reported, <<source, issue>>)
  <2>0. \A issue, s, tags, addr, hint :
          Reject(Emission(issue, s, tags, addr, hint, TRUE)) =>
            rows' = rows /\ reported' = Append(reported, <<s, issue>>)
    BY DEF Reject, Emission
  <2>1. CASE RejectAddressWay
    <3>1. IssueOf("address", "way_without_resolved_nodes")
      BY DEF IssueOf, StreetIssues, StreetNameIssues, PlaceIssues
    <3>2. /\ Emit("address ways")
          /\ Reject(Emission("way_without_resolved_nodes", <<"way", Item.id>>,
                             Item.tags, Item.tags, "address", TRUE))
      BY <2>1 DEF RejectAddressWay
    <3>3. rows' = rows /\ reported' = Append(reported, <<<<"way", Item.id>>, "way_without_resolved_nodes">>)
      BY <2>0, <3>2
    <3> QED
      BY <3>1, <3>2, <3>3 DEF Emit, SourceIn, ClassOf
  <2>2. CASE RejectStreet
    <3>1. IssueOf("street", "street_unresolved_geometry")
      BY DEF IssueOf, StreetIssues
    <3>2. /\ Emit("streets")
          /\ Reject(Emission("street_unresolved_geometry", <<"way", Item.id>>,
                             Item.tags, NoTags, "street", TRUE))
      BY <2>2 DEF RejectStreet
    <3>3. rows' = rows /\ reported' = Append(reported, <<<<"way", Item.id>>, "street_unresolved_geometry">>)
      BY <2>0, <3>2
    <3> QED
      BY <3>1, <3>2, <3>3 DEF Emit, SourceIn, ClassOf
  <2>3. CASE RejectInterpolationWay
    <3> DEFINE issue == WayIssue(Item)
    <3>1. /\ Emit("interpolation") /\ issue # None
          /\ Reject(Emission(issue, <<"way", Item.id>>, Item.tags, AddrTags(Item.tags),
                             "interpolation", TRUE))
      BY <2>3 DEF RejectInterpolationWay, InterpolationRejection
    <3>2. issue \in InterpolationIssues
      BY <3>1, WayIssueIs
    <3> HIDE DEF issue
    <3>3. IssueOf("address", issue)
      BY <3>2 DEF IssueOf, StreetIssues, StreetNameIssues, PlaceIssues, InterpolationIssues
    <3>4. rows' = rows /\ reported' = Append(reported, <<<<"way", Item.id>>, issue>>)
      BY <2>0, <3>1
    <3> QED
      BY <3>1, <3>3, <3>4 DEF Emit, SourceIn, ClassOf
  <2> QED
    BY <2>1, <2>2, <2>3
<1>2. stage \in Deciding /\ ClassOf(stage) \in Classes
  BY <1>1 DEF Deciding, ClassOf, Classes
<1> HIDE DEF source
<1>3. Decides(ClassOf(stage), source)
  BY <1>1, <1>2, RefusalDecided
<1> QED
  BY <1>1, <1>2, <1>3, ItemDecided DEF source

LEMMA StreetDecided ==
  ASSUME BuildInv, DecidedInv, WriteStreet
  PROVE  DecidedInv'
<1> DEFINE source == SourceIn("streets", Item)
           row == Row("street", source, NoTags)
<1>1. /\ stage = "streets" /\ stage' = stage /\ UNCHANGED scanVars
      /\ at < Items("streets") /\ at' = at + 1
      /\ rows' = Append(rows, row) /\ reported' = reported
  BY DEF WriteStreet, Emit, Accept, SourceIn
<1>2. row.source = source /\ row.layer = "street" /\ "derived_country" \notin DOMAIN row.tags
  BY AddrTagsAre DEF Row
<1>3. "streets" \in Deciding /\ ClassOf("streets") = "street" /\ "street" \in Classes
      /\ "street" \in LayersOf("street")
  BY DEF Deciding, ClassOf, Classes, LayersOf
<1> HIDE DEF source, row
<1>4. Decides("street", source)
  BY <1>1, <1>2, <1>3, RowDecided
<1> QED
  BY <1>1, <1>3, <1>4, ItemDecided DEF source

LEMMA RangeDecided ==
  ASSUME BuildInv, DecidedInv,
         WriteInterpolation \/ \E issue \in PairIssues : RejectInterpolation(issue)
  PROVE  DecidedInv'
<1> DEFINE source == SourceIn("interpolation", Item)
           row == Row("interpolation", source, NoTags)
<1>1. /\ stage = "interpolation" /\ stage' = stage /\ UNCHANGED scanVars
      /\ at < Items("interpolation") /\ (at' = at + 1 \/ at' = at)
  BY DEF WriteInterpolation, RejectInterpolation, DecidePair
<1>2. \/ rows' = Append(rows, row) /\ reported' = reported
      \/ rows' = rows /\ \E issue \in PairIssues : reported' = Append(reported, <<source, issue>>)
  <2>1. CASE WriteInterpolation
    BY <2>1 DEF WriteInterpolation, Accept, SourceIn
  <2>2. ASSUME NEW issue \in PairIssues, RejectInterpolation(issue)
        PROVE  rows' = rows /\ reported' = Append(reported, <<source, issue>>)
    <3>1. Reject(Emission(issue, <<"way", Item.id>>, Item.tags, AddrTags(Item.tags),
                          "interpolation", TRUE))
      BY <2>2 DEF RejectInterpolation, InterpolationRejection
    <3>0. \A s, tags, addr, hint :
            Reject(Emission(issue, s, tags, addr, hint, TRUE)) =>
              rows' = rows /\ reported' = Append(reported, <<s, issue>>)
      BY DEF Reject, Emission
    <3> QED
      BY <3>0, <3>1 DEF SourceIn
  <2> QED
    BY <2>1, <2>2
<1>3. row.source = source /\ row.layer = "interpolation" /\ "derived_country" \notin DOMAIN row.tags
  BY AddrTagsAre DEF Row
<1>4. "interpolation" \in Deciding /\ ClassOf("interpolation") = "address" /\ "address" \in Classes
      /\ "interpolation" \in LayersOf("address")
  BY DEF Deciding, ClassOf, Classes, LayersOf
<1>5. \A issue \in PairIssues : IssueOf("address", issue)
  BY PairAssumption DEF IssueOf, StreetIssues, StreetNameIssues, PlaceIssues, InterpolationIssues
<1> HIDE DEF source, row
<1>6. Decides("address", source)
  <2>1. CASE rows' = Append(rows, row) /\ reported' = reported
    BY <1>3, <1>4, <2>1, RowDecided
  <2>2. CASE rows' = rows /\ \E issue \in PairIssues : reported' = Append(reported, <<source, issue>>)
    BY <1>4, <1>5, <2>2, RefusalDecided
  <2> QED
    BY <1>2, <2>1, <2>2
<1>7. CASE at' = at + 1
  BY <1>1, <1>4, <1>6, <1>7, ItemDecided DEF source
<1>8. CASE at' = at
  BY <1>1, <1>6, <1>8, PairDecided DEF source
<1> QED
  BY <1>1, <1>7, <1>8


LEMMA BoundaryDecided ==
  ASSUME BuildInv, DecidedInv, WriteBoundaryRecord \/ WritePostcode
  PROVE  DecidedInv'
<1>1. /\ stage \in {"boundaries", "postcodes"} /\ stage' = stage /\ UNCHANGED scanVars
      /\ stage \notin Deciding /\ stage # "scan" /\ stage \notin Early
  BY DEF WriteBoundaryRecord, WritePostcode, Emit, Deciding, Early
<1>2. \E row : /\ rows' = Append(rows, row) /\ reported' = reported
               /\ row.layer \notin {"address", "interpolation", "street"}
               /\ row.layer \in PlaceLayers => row.source[1] # "node"
  <2>1. CASE WriteBoundaryRecord
    <3> DEFINE row == BoundaryRows[at + 1]
    <3>1. rows' = Append(rows, row) /\ reported' = reported
      BY <2>1 DEF WriteBoundaryRecord, Accept
    <3>2. at < Len(BoundaryRows) /\ at \in Nat
      BY <2>1, ListNames DEF WriteBoundaryRecord, Emit, Items, BuildInv
    <3>3. /\ IsSeq(BoundaryRows)
          /\ \A r \in Range(BoundaryRows) : /\ r.layer \in AdminLayers
                                            /\ \E b \in Range(built) : r.source = b.source
      BY <1>1, BoundaryRowsAre
    <3>4. row \in Range(BoundaryRows)
      BY <3>2, <3>3, SeqIs
    <3>5. row.layer \in AdminLayers /\ \E b \in Range(built) : row.source = b.source
      BY <3>3, <3>4
    <3> HIDE DEF row
    <3>6. row.source[1] # "node"
      <4>1. PICK b \in Range(built) : row.source = b.source
        BY <3>5
      <4>2. (\E id : b.source = <<"relation", id>>) \/ (\E id : b.source = <<"way", id>>)
        BY <1>1, CandidateIs
      <4> QED
        BY <4>1, <4>2
    <3>7. row.layer \notin {"address", "interpolation", "street"}
      BY <3>5, AbsentAssumption DEF AdminLayers
    <3> QED
      BY <3>1, <3>6, <3>7
  <2>2. CASE WritePostcode
    <3>1. \E source, tags : rows' = Append(rows, Row("postcode", source, tags)) /\ reported' = reported
      BY <2>2 DEF WritePostcode, Accept
    <3>2. \A source, tags : Row("postcode", source, tags).layer = "postcode"
      BY DEF Row
    <3>3. "postcode" \notin PlaceLayers
      BY DEF PlaceLayers
    <3> QED
      BY <3>1, <3>2, <3>3
  <2> QED
    BY <2>1, <2>2
<1>3. \A class \in Classes : \A source :
        (class = "place" => source[1] = "node") => Decided(class, source)' = Decided(class, source)
  BY <1>2, RowIgnored
<1>4. \A loop \in Deciding : DoneIn(loop)' = DoneIn(loop)
  BY <1>1, OtherLoopsDone
<1> QED
  BY <1>1, <1>3, <1>4, NothingDecided

LEMMA LoopDecided ==
  ASSUME BuildInv, DecidedInv, Next, ~Preparing
  PROVE  DecidedInv'
<1>1. stage # "scan" /\ UNCHANGED scanVars
  BY LoopSteps DEF BuildInv, Early
<1>2. CASE NextStage
  <2>1. rows' = rows /\ reported' = reported
    BY <1>2 DEF NextStage, output
  <2> QED
    BY <1>1, <1>2, <2>1, NextStageDone, NothingSaid, NothingDecided
<1>3. CASE Finished \/ WriteRejections
  <2>1. rows' = rows /\ reported' = reported /\ stage' = stage /\ stage \notin Deciding
    BY <1>3 DEF Finished, WriteRejections, Emit, vars, output, Deciding
  <2> QED
    BY <1>1, <2>1, OtherLoopsDone, NothingSaid, NothingDecided
<1> QED
  BY <1>2, <1>3, BoundaryDecided, PlaceDecided, AddressDecided, RefusedDecided, StreetDecided,
     RangeDecided DEF Next, Preparing

(* A step before the loops that decides nothing. *)
LEMMA EarlyDecided ==
  ASSUME DecidedInv, stage # "scan", UNCHANGED scanVars, rows' = rows, reported' = reported,
         \/ stage' = stage /\ at' = at
         \/ stage \in Early /\ stage' \in Early \cup {"boundaries"}
  PROVE  DecidedInv'
<1>1. \A kind : Stubs(kind)' = Stubs(kind)
  BY FoundStays
<1>2. \A loop \in Deciding : DoneIn(loop)' = DoneIn(loop)
  BY <1>1 DEF DoneIn, Upcoming, Early, Deciding
<1> QED
  BY <1>2, NothingSaid, NothingDecided

(* After the scan only its refusals are decided. *)
LEMMA ScanDecided ==
  ASSUME BuildInv, BuildInv', Discover, rows = <<>>
  PROVE  DecidedInv'
<1> DEFINE R == Refused(file)
<1>1. /\ reported' = [i \in DOMAIN R |-> <<R[i].source, R[i].issue>>]
      /\ rows' = <<>> /\ stage' = "members" /\ file' = file
  <2>1. reported' = [i \in DOMAIN R |-> <<R[i].source, R[i].issue>>]
    BY ReportedByScan DEF BuildInv
  <2> HIDE DEF R
  <2> QED
    BY <2>1 DEF Discover, FinishScan
<1>2. \A class, source : Decided(class, source)' = Refusals(class, source)'
                           /\ Refusals(class, source)' \in Nat
  <2> HIDE DEF R
  <2> TAKE class, source
  <2>1. {i \in DOMAIN rows' : RowDecides(rows'[i], class, source)} = {}
    BY <1>1
  <2>2. RowsFor(class, source, rows') = 0
    BY <2>1, FS_EmptySet DEF RowsFor
  <2>3. \A i \in DOMAIN R : IssueDecides(reported'[i], class, source)
                              <=> R[i].source = source /\ IssueOf(class, R[i].issue)
    BY <1>1 DEF IssueDecides
  <2>4. {i \in DOMAIN reported' : IssueDecides(reported'[i], class, source)}
          = {i \in DOMAIN R : R[i].source = source /\ IssueOf(class, R[i].issue)}
    BY <1>1, <2>3
  <2>5. IssuesFor(class, source, reported') = RefusalsOf(class, source, R)
    BY <2>4 DEF IssuesFor, RefusalsOf
  <2>6. RefusalsOf(class, source, R) = Refusals(class, source)'
    BY <1>1 DEF Refusals, R
  <2>7. IssuesFor(class, source, reported') \in Nat
    BY IssuesForIs DEF BuildInv
  <2> DEFINE a == IssuesFor(class, source, reported')
  <2>8. a \in Nat /\ Decided(class, source)' = 0 + a
    BY <2>2, <2>7 DEF Decided
  <2> HIDE DEF a
  <2>9. 0 + a = a
    BY <2>8
  <2> QED
    BY <2>5, <2>6, <2>8, <2>9 DEF a
<1>3. \A source : \A loop \in Deciding : Turns(loop, source)' = 0
  <2> HIDE DEF R
  <2> TAKE source
  <2> TAKE loop \in Deciding
  <2>1. DoneIn(loop)' = 0
    BY <1>1 DEF DoneIn, Upcoming, Early, Deciding
  <2>2. \A list : ItemsOf(loop, list, 0, source) = 0
    BY ItemsOfIs
  <2> QED
    BY <2>1, <2>2 DEF Turns
<1> HIDE DEF R
<1>4. \A n : n \in Nat => n + 0 = n /\ n + 0 + 0 = n /\ n >= n
  OBVIOUS
<1>5. "places" \in Deciding /\ "streets" \in Deciding /\ "address nodes" \in Deciding
      /\ "address ways" \in Deciding /\ "interpolation" \in Deciding
  BY DEF Deciding
<1> QED
  BY <1>2, <1>3, <1>4, <1>5 DEF DecidedInv

LEMMA DecidedStep ==
  ASSUME BuildInv, BuildInv', ReportInv, DecidedInv, [Next]_vars
  PROVE  DecidedInv'
<1>1. CASE Next /\ ~Preparing
  BY <1>1, LoopDecided
<1>2. CASE Scan
  BY <1>2 DEF Scan, DecidedInv
<1>3. CASE Discover
  <2>1. rows = <<>>
    BY <1>3 DEF Discover, ReportInv, Early
  <2> QED
    BY <1>3, <2>1, ScanDecided
<1>4. CASE ResolveBoundaryWays \/ ResolveNodeLocations \/ BuildBoundaries
  <2>1. /\ stage \in Early /\ stage # "scan" /\ stage' \in Early \cup {"boundaries"}
        /\ UNCHANGED scanVars /\ rows' = rows /\ reported' = reported
    BY <1>4 DEF ResolveBoundaryWays, ResolveNodeLocations, BuildBoundaries, output, Early
  <2> QED
    BY <2>1, EarlyDecided
<1>5. CASE UNCHANGED vars
  <2>1. /\ stage' = stage /\ at' = at /\ UNCHANGED scanVars /\ rows' = rows /\ reported' = reported
    BY <1>5 DEF vars, output
  <2>2. CASE stage = "scan"
    BY <2>1, <2>2 DEF DecidedInv
  <2> QED
    BY <2>1, <2>2, EarlyDecided
<1> QED
  BY <1>1, <1>2, <1>3, <1>4, <1>5 DEF Preparing

LEMMA DecidedInvariant == Spec => []DecidedInv
<1>1. Init => DecidedInv
  BY DEF Init, DecidedInv
<1>2. BuildInv /\ BuildInv' /\ ReportInv /\ DecidedInv /\ [Next]_vars => DecidedInv'
  BY DecidedStep
<1> QED
  BY <1>1, <1>2, BuildInvariant, ReportInvariant, PTL DEF Spec


AtMostOne(T) == T = {} \/ \E x : T = {x}
OneIn(T) == IF T = {} THEN 0 ELSE 1

(* Entries told apart by their keys are each listed once. *)
LEMMA ListedOnce ==
  ASSUME NEW kind, NEW list, NEW S, Lists(kind, list, S), NEW T \in SUBSET S, AtMostOne(T)
  PROVE  Times(list, T) = OneIn(T)
<1> USE DEF AtMostOne, OneIn, Times
<1> DEFINE At == {i \in DOMAIN list : list[i] \in T}
<1>1. /\ DOMAIN list = 1..Len(list) /\ Range(list) = S
      /\ \A i, j \in 1..Len(list) : SortKey(kind, list[i]) = SortKey(kind, list[j]) => i = j
  BY DEF Lists
<1>2. CASE T = {}
  <2>1. At = {}
    BY <1>2
  <2> QED
    BY <1>2, <2>1, FS_EmptySet
<1>3. CASE T # {}
  <2>1. PICK x : T = {x}
    BY <1>3
  <2>2. PICK i0 \in DOMAIN list : list[i0] = x
    BY <1>1, <2>1 DEF Range
  <2>3. \A i \in DOMAIN list : list[i] \in T => i = i0
    BY <1>1, <2>1, <2>2
  <2>4. At = {i0}
    BY <2>1, <2>2, <2>3
  <2> HIDE DEF At
  <2>5. Cardinality(At) = 1
    BY <2>4, FS_Singleton
  <2> QED
    BY <1>3, <2>5 DEF At
<1> QED
  BY <1>2, <1>3

(* A loop's items are of one type of element. *)
LEMMA EntriesAre ==
  ASSUME NEW loop \in Deciding, NEW e, e.type \in {"node", "way", "relation"},
         NEW x \in Entries(e, ListOf[loop])
  PROVE  SourceIn(loop, x) = <<e.type, e.id>>
<1>1. x.id = e.id /\ e.type = IF loop \in {"places", "address nodes"} THEN "node" ELSE "way"
  <2> DEFINE kind == ListOf[loop]
  <2>0. \/ loop = "places" /\ kind = "place_node_candidates"
        \/ loop = "address nodes" /\ kind = "address_node_candidates"
        \/ loop = "address ways" /\ kind = "way_stubs"
        \/ loop = "interpolation" /\ kind = "interpolation_way_stubs"
        \/ loop = "streets" /\ kind = "street_way_stubs"
    BY ListNames DEF Deciding
  <2>01. kind \in Kinds
    BY <2>0 DEF Kinds
  <2> HIDE DEF kind
  <2>1. CASE e.type = "node"
    <3>1. kind \in {"place_node_candidates", "address_node_candidates"}
      BY <2>0, <2>01, <2>1, NodeIs DEF kind
    <3>2. \A y \in Entries(e, "place_node_candidates") : y.id = e.id
      <4>1. \/ Entries(e, "place_node_candidates") = {}
            \/ \E t : Entries(e, "place_node_candidates") = {[id |-> e.id, tags |-> t]}
        BY <2>1, NodeIs
      <4> QED
        BY <4>1
    <3>3. \A y \in Entries(e, "address_node_candidates") : y.id = e.id
      <4>1. \/ Entries(e, "address_node_candidates") = {}
            \/ \E t : Entries(e, "address_node_candidates") = {[id |-> e.id, tags |-> t]}
        BY <2>1, NodeIs
      <4> QED
        BY <4>1
    <3> QED
      BY <2>0, <2>1, <3>1, <3>2, <3>3 DEF kind
  <2>2. CASE e.type = "way"
    <3>1. kind \in {"way_stubs", "interpolation_way_stubs", "street_way_stubs"}
      BY <2>0, <2>01, <2>2, WayIs DEF kind
    <3>2. \A t : StubOf(e, t).id = e.id
      BY DEF StubOf
    <3>3. \A y \in Entries(e, "street_way_stubs") : y.id = e.id
      <4>1. Entries(e, "street_way_stubs") = Of(StreetOfWay(e, TagsIn(e)), "street_way_stubs")
        BY <2>2, WayIs
      <4>2. \/ Of(StreetOfWay(e, TagsIn(e)), "street_way_stubs") = {}
            \/ Of(StreetOfWay(e, TagsIn(e)), "street_way_stubs") = {StubOf(e, TagsIn(e))}
        BY StreetOfWayIs
      <4> QED
        BY <3>2, <4>1, <4>2
    <3>4. \A k \in {"way_stubs", "interpolation_way_stubs"} : \A y \in Entries(e, k) : y.id = e.id
      <4>1. \A k \in {"way_stubs", "interpolation_way_stubs"} :
              Entries(e, k) = Of(AddressOfWay(e, TagsIn(e)), k)
        BY <2>2, WayIs
      <4>2. \A k \in {"way_stubs", "interpolation_way_stubs"} :
              \/ Of(AddressOfWay(e, TagsIn(e)), k) = {}
              \/ \E t : Of(AddressOfWay(e, TagsIn(e)), k) = {StubOf(e, t)}
        BY AddressOfWayIs
      <4> QED
        BY <3>2, <4>1, <4>2
    <3> QED
      BY <2>0, <2>2, <3>1, <3>3, <3>4 DEF kind
  <2>3. CASE e.type = "relation"
    <3>1. kind \notin {"boundary_relation_stubs", "rejections"}
      BY <2>0
    <3>2. Entries(e, kind) = {}
      BY <2>01, <2>3, <3>1, RelationIs
    <3> QED
      BY <3>2 DEF kind
  <2> QED
    BY <2>1, <2>2, <2>3
<1> QED
  BY <1>1 DEF SourceIn

LEMMA OneElement ==
  ASSUME BuildInv, NEW e \in Range(Elements(file)), NEW f \in Range(Elements(file)),
         <<e.type, e.id>> = <<f.type, f.id>>
  PROVE  e = f
<1>1. e.type = f.type /\ e.id = f.id
  OBVIOUS
<1> QED
  BY <1>1, FileIs DEF BuildInv, Distinct

(* At the end of the build each element has had its turn in each loop.      *)
LEMMA TurnsAre ==
  ASSUME BuildInv, stage = "done", NEW e \in Range(Elements(file)), NEW loop \in Deciding,
         NEW own, own = Entries(e, ListOf[loop]), AtMostOne(own)
  PROVE  Turns(loop, <<e.type, e.id>>) = OneIn(own)
<1> DEFINE list == Stubs(ListOf[loop])
           source == <<e.type, e.id>>
<1>1. stage # "scan"
  OBVIOUS
<1>2. Lists(ListOf[loop], list, All(file, ListOf[loop])) /\ IsSeq(list)
  BY <1>1, DecidingLists, StubsAre DEF BuildInv
<1>3. DoneIn(loop) = Len(list)
  BY DEF DoneIn, Upcoming, Early, Deciding
<1>4. own \in SUBSET All(file, ListOf[loop])
  BY DEF All
<1> HIDE DEF list, source
<1>5. DOMAIN list = 1..Len(list) /\ \A i \in DOMAIN list : list[i] \in All(file, ListOf[loop])
  BY <1>2, SeqIs DEF Lists
<1>6. ASSUME NEW i \in DOMAIN list
      PROVE  SourceIn(loop, list[i]) = source <=> list[i] \in own
  <2>1. PICK f \in Range(Elements(file)) : list[i] \in Entries(f, ListOf[loop])
    BY <1>5 DEF All
  <2>2. SourceIn(loop, list[i]) = <<f.type, f.id>>
    BY <2>1, EntriesAre, FileIs DEF BuildInv
  <2>3. CASE SourceIn(loop, list[i]) = source
    <3>1. e = f
      BY <2>2, <2>3, OneElement DEF source
    <3> QED
      BY <2>1, <2>3, <3>1
  <2>4. CASE list[i] \in own
    BY <2>4, EntriesAre, FileIs DEF BuildInv, source
  <2> QED
    BY <2>3, <2>4
<1>7. {i \in 1..Len(list) : SourceIn(loop, list[i]) = source} = {i \in DOMAIN list : list[i] \in own}
  BY <1>5, <1>6
<1>8. Turns(loop, source) = Times(list, own)
  BY <1>3, <1>7 DEF Turns, ItemsOf, list, Times
<1>9. Times(list, own) = OneIn(own)
  BY <1>2, <1>4, ListedOnce
<1> QED
  BY <1>8, <1>9 DEF source

LEMMA RefusalsAre ==
  ASSUME BuildInv, stage = "done", NEW e \in Range(Elements(file)), NEW class, NEW own,
         own = {r \in Entries(e, "rejections") : IssueOf(class, r.issue)},
         AtMostOne(own)
  PROVE  Refusals(class, <<e.type, e.id>>) = OneIn(own)
<1> DEFINE list == Refused(file)
           source == <<e.type, e.id>>
<1>1. stage # "scan"
  OBVIOUS
<1>2. Lists("rejections", list, All(file, "rejections"))
  BY <1>1, StubsAre DEF BuildInv
<1>4. own \in SUBSET All(file, "rejections")
  BY DEF All
<1> HIDE DEF list, source
<1>5. \A i \in DOMAIN list : list[i] \in All(file, "rejections")
  BY <1>2 DEF Lists, Range
<1>0. \A f \in Range(Elements(file)) : \A r \in Entries(f, "rejections") :
        r.source = <<f.type, f.id>>
  BY FileIs, WayRefusals, NodeRefusals DEF BuildInv
<1>6. ASSUME NEW i \in DOMAIN list
      PROVE  list[i].source = source /\ IssueOf(class, list[i].issue) <=> list[i] \in own
  <2>1. PICK f \in Range(Elements(file)) : list[i] \in Entries(f, "rejections")
    BY <1>5 DEF All
  <2>2. list[i].source = <<f.type, f.id>>
    BY <1>0, <2>1
  <2>3. CASE list[i].source = source /\ IssueOf(class, list[i].issue)
    <3>1. e = f
      BY <2>2, <2>3, OneElement DEF source
    <3> QED
      BY <2>1, <2>3, <3>1
  <2>4. CASE list[i] \in own
    BY <1>0, <2>4 DEF source
  <2> QED
    BY <2>3, <2>4
<1>7. {i \in DOMAIN list : list[i].source = source /\ IssueOf(class, list[i].issue)}
        = {i \in DOMAIN list : list[i] \in own}
  BY <1>6
<1>8. Refusals(class, source) = Times(list, own)
  BY <1>7 DEF Refusals, RefusalsOf, list, Times
<1>9. Times(list, own) = OneIn(own)
  BY <1>2, <1>4, ListedOnce
<1> QED
  BY <1>8, <1>9 DEF source


(* The refusals of an element that decide it. *)
Owned(class, refused) == {r \in refused : IssueOf(class, r.issue)}

LEMMA OwnedIs ==
  ASSUME NEW S, NEW e, NEW issue, NEW write, NEW class, Refuses(S, e, issue, write)
  PROVE  /\ AtMostOne(Owned(class, S))
         /\ OneIn(Owned(class, S)) = IF IssueOf(class, issue) THEN 1 ELSE 0
         /\ \A r \in S : r.issue = issue
         /\ AtMostOne(S) /\ OneIn(S) = 1
<1>1. PICK x : S = {x} /\ x.issue = issue
  BY DEF Refuses
<1>2. CASE IssueOf(class, issue)
  <2>1. Owned(class, S) = {x}
    BY <1>1, <1>2 DEF Owned
  <2> QED
    BY <1>1, <1>2, <2>1 DEF AtMostOne, OneIn
<1>3. CASE ~IssueOf(class, issue)
  <2>1. Owned(class, S) = {}
    BY <1>1, <1>3 DEF Owned
  <2> QED
    BY <1>1, <1>3, <2>1 DEF AtMostOne, OneIn
<1> QED
  BY <1>2, <1>3

LEMMA OneOrNone ==
  /\ \A S : S = {} => AtMostOne(S) /\ OneIn(S) = 0 /\ \A class : Owned(class, S) = {}
  /\ \A S, x : S = {x} => AtMostOne(S) /\ OneIn(S) = 1
BY DEF AtMostOne, OneIn, Owned

LEMMA IssuesAre ==
  /\ \A issue \in {"missing_housenumber", "missing_street_or_place", "unsupported_relation",
                   "interpolation_unsupported_object", "interpolation_way_without_nodes",
                   "way_without_resolved_nodes"} :
       IssueOf("address", issue) /\ ~IssueOf("street", issue) /\ ~IssueOf("place", issue)
  /\ \A issue \in StreetNameIssues \cup {"street_unresolved_geometry"} :
       IssueOf("street", issue) /\ ~IssueOf("address", issue)
BY DEF IssueOf, StreetIssues, StreetNameIssues, PlaceIssues

(* What the end of the build has decided of an element, from its entries.   *)
LEMMA DecidedAre ==
  ASSUME BuildInv, DecidedInv, stage = "done", NEW e \in Range(Elements(file))
  PROVE  LET source == <<e.type, e.id>>
             Own(class) == Owned(class, Entries(e, "rejections"))
             Of1(kind) == AtMostOne(Entries(e, kind))
             N(kind) == OneIn(Entries(e, kind))
         IN /\ /\ e.type = "node"
               /\ AtMostOne(Own("place")) /\ Of1("place_node_candidates")
               => Decided("place", source) = OneIn(Own("place")) + N("place_node_candidates")
            /\ AtMostOne(Own("street")) /\ Of1("street_way_stubs")
               => Decided("street", source) = OneIn(Own("street")) + N("street_way_stubs")
            /\ /\ AtMostOne(Own("address")) /\ Of1("address_node_candidates")
               /\ Of1("way_stubs") /\ Of1("interpolation_way_stubs")
               => LET once == OneIn(Own("address")) + N("address_node_candidates") + N("way_stubs")
                  IN IF source \in RangedSources
                     THEN Decided("address", source) >= once + N("interpolation_way_stubs")
                     ELSE Decided("address", source) = once
<1> DEFINE source == <<e.type, e.id>>
           Own(class) == Owned(class, Entries(e, "rejections"))
<1>1. \A class : AtMostOne(Own(class)) => Refusals(class, source) = OneIn(Own(class))
  <2> TAKE class
  <2> HAVE AtMostOne(Own(class))
  <2> QED
    BY RefusalsAre DEF OneIn, Owned
<1>2. \A loop \in Deciding : AtMostOne(Entries(e, ListOf[loop])) =>
        Turns(loop, source) = OneIn(Entries(e, ListOf[loop]))
  BY TurnsAre DEF OneIn
<1>3. /\ "places" \in Deciding /\ "streets" \in Deciding /\ "address nodes" \in Deciding
      /\ "address ways" \in Deciding /\ "interpolation" \in Deciding
  BY DEF Deciding
<1>4. /\ source[1] = "node" =>
           Decided("place", source) = Refusals("place", source) + Turns("places", source)
      /\ Decided("street", source) = Refusals("street", source) + Turns("streets", source)
      /\ LET once == Refusals("address", source) + Turns("address nodes", source)
                     + Turns("address ways", source)
         IN IF source \in RangedSources
            THEN Decided("address", source) >= once + Turns("interpolation", source)
            ELSE Decided("address", source) = once
  BY DEF DecidedInv
<1>5. source[1] = e.type
  OBVIOUS
<1> HIDE DEF source, Own
<1>6. ASSUME e.type = "node", AtMostOne(Own("place")),
             AtMostOne(Entries(e, "place_node_candidates"))
      PROVE  Decided("place", source) = OneIn(Own("place")) + OneIn(Entries(e, "place_node_candidates"))
  <2>1. Turns("places", source) = OneIn(Entries(e, "place_node_candidates"))
    BY <1>2, <1>3, <1>6, ListNames
  <2> QED
    BY <1>1, <1>4, <1>5, <1>6, <2>1
<1>7. ASSUME AtMostOne(Own("street")), AtMostOne(Entries(e, "street_way_stubs"))
      PROVE  Decided("street", source) = OneIn(Own("street")) + OneIn(Entries(e, "street_way_stubs"))
  <2>1. Turns("streets", source) = OneIn(Entries(e, "street_way_stubs"))
    BY <1>2, <1>3, <1>7, ListNames
  <2> QED
    BY <1>1, <1>4, <1>7, <2>1
<1>8. ASSUME AtMostOne(Own("address")), AtMostOne(Entries(e, "address_node_candidates")),
             AtMostOne(Entries(e, "way_stubs")), AtMostOne(Entries(e, "interpolation_way_stubs"))
      PROVE  LET once == OneIn(Own("address")) + OneIn(Entries(e, "address_node_candidates"))
                         + OneIn(Entries(e, "way_stubs"))
             IN IF source \in RangedSources
                THEN Decided("address", source) >= once + OneIn(Entries(e, "interpolation_way_stubs"))
                ELSE Decided("address", source) = once
  <2>1. /\ Turns("address nodes", source) = OneIn(Entries(e, "address_node_candidates"))
        /\ Turns("address ways", source) = OneIn(Entries(e, "way_stubs"))
        /\ Turns("interpolation", source) = OneIn(Entries(e, "interpolation_way_stubs"))
    BY <1>2, <1>3, <1>8, ListNames
  <2>2. Refusals("address", source) = OneIn(Own("address"))
    BY <1>1, <1>8
  <2> QED
    BY <1>4, <2>1, <2>2
<1> QED
  BY <1>6, <1>7, <1>8 DEF source, Own


Refusing(e) == Entries(e, "rejections")

LEMMA OneOfTwo ==
  ASSUME NEW A, NEW B, A = {}, OneIn(B) = 1
  PROVE  OneIn(A) + OneIn(B) = 1 /\ OneIn(B) + OneIn(A) = 1
<1>1. OneIn(A) = 0
  BY OneOrNone
<1> QED
  BY <1>1

LEMMA NodeRefusalIs ==
  ASSUME NEW e, e.type = "node"
  PROVE  /\ AtMostOne(Refusing(e)) /\ Owned("place", Refusing(e)) = {}
         /\ Owned("address", Refusing(e)) = Refusing(e)
         /\ AtMostOne(Entries(e, "address_node_candidates"))
         /\ AddrIn(e) # NoTags =>
              OneIn(Refusing(e)) + OneIn(Entries(e, "address_node_candidates")) = 1
<1> DEFINE refused == Refusing(e)
           address == Entries(e, "address_node_candidates")
           addr == AddrIn(e)
<1>1. \/ addr = NoTags /\ refused = {} /\ address = {}
      \/ /\ addr # NoTags /\ address = {}
         /\ \E issue \in {"interpolation_unsupported_object", "missing_housenumber",
                          "missing_street_or_place"} : Refuses(refused, e, issue, TRUE)
      \/ /\ addr # NoTags /\ refused = {} /\ \E x : address = {x}
  <2>1. \/ addr = NoTags /\ refused = {} /\ address = {}
        \/ /\ addr # NoTags /\ address = {}
           /\ Refuses(refused, e, "interpolation_unsupported_object", TRUE)
        \/ /\ addr # NoTags /\ AddressIssue(addr) # None /\ address = {}
           /\ Refuses(refused, e, AddressIssue(addr), TRUE)
        \/ addr # NoTags /\ refused = {} /\ \E x : address = {x}
    BY NodeIs DEF Refusing
  <2> HIDE DEF addr, refused, address
  <2> QED
    BY <2>1, AddressIssueIs
<1> HIDE DEF refused, address, addr
<1>2. CASE refused = {}
  <2>1. \A issue : ~Refuses(refused, e, issue, TRUE)
    BY <1>2 DEF Refuses
  <2>2. (address = {} /\ addr = NoTags) \/ \E x : address = {x}
    BY <1>1, <2>1
  <2>3. AtMostOne(refused) /\ OneIn(refused) = 0 /\ \A class : Owned(class, refused) = {}
    BY <1>2, OneOrNone
  <2>4. AtMostOne(address) /\ (addr # NoTags => OneIn(address) = 1)
    BY <2>2, OneOrNone
  <2>5. addr # NoTags => OneIn(refused) + OneIn(address) = 1
    BY <2>3, <2>4
  <2> QED
    BY <1>2, <2>3, <2>4, <2>5 DEF refused, address, addr
<1>3. ASSUME NEW issue \in {"interpolation_unsupported_object", "missing_housenumber",
                            "missing_street_or_place"},
             Refuses(refused, e, issue, TRUE), address = {}
      PROVE  /\ AtMostOne(refused) /\ Owned("place", refused) = {}
             /\ Owned("address", refused) = refused
             /\ AtMostOne(address) /\ OneIn(refused) + OneIn(address) = 1
  <2>1. \A r \in refused : ~IssueOf("place", r.issue) /\ IssueOf("address", r.issue)
    <3>1. ~IssueOf("place", issue) /\ IssueOf("address", issue)
      BY IssuesAre
    <3>2. \A r \in refused : r.issue = issue
      BY <1>3, OwnedIs
    <3> QED
      BY <3>1, <3>2
  <2>2. Owned("place", refused) = {} /\ Owned("address", refused) = refused
    BY <2>1 DEF Owned
  <2>3. AtMostOne(refused) /\ OneIn(refused) = 1
    BY <1>3, OwnedIs
  <2> QED
    BY <1>3, <2>2, <2>3, OneOrNone
<1>4. CASE refused # {}
  BY <1>1, <1>3, <1>4 DEF refused, address, addr
<1> QED
  BY <1>2, <1>4

LEMMA WayRefusalIs ==
  ASSUME NEW e, e.type = "way"
  PROVE  LET street == Of(StreetOfWay(e, TagsIn(e)), "rejections")
             address == Of(AddressOfWay(e, TagsIn(e)), "rejections")
         IN /\ Owned("street", Refusing(e)) = street /\ AtMostOne(street)
            /\ Owned("address", Refusing(e)) = address /\ AtMostOne(address)
<1> DEFINE tags == TagsIn(e)
           street == Of(StreetOfWay(e, tags), "rejections")
           address == Of(AddressOfWay(e, tags), "rejections")
<1>1. Refusing(e) = street \cup address
  BY WayIs DEF Refusing
<1>2. street = {} \/ \E issue \in StreetNameIssues \cup {"street_unresolved_geometry"} :
                       \E w : Refuses(street, e, issue, w)
  <2>1. \/ street = {} \/ Refuses(street, e, MissingStreetNameIssue(tags), FALSE)
        \/ Refuses(street, e, "street_unresolved_geometry", TRUE)
    BY StreetOfWayIs
  <2>2. MissingStreetNameIssue(tags) \in StreetNameIssues
    BY DEF MissingStreetNameIssue, StreetNameIssues
  <2> HIDE DEF street, tags
  <2> QED
    BY <2>1, <2>2
<1>3. address = {} \/ \E issue \in {"missing_housenumber", "missing_street_or_place",
                                    "interpolation_way_without_nodes",
                                    "way_without_resolved_nodes"} :
                        Refuses(address, e, issue, TRUE)
  <2>1. \/ address = {}
        \/ Refuses(address, e, "interpolation_way_without_nodes", TRUE)
        \/ /\ AddressIssue(AddrTags(tags)) # None
           /\ Refuses(address, e, AddressIssue(AddrTags(tags)), TRUE)
        \/ Refuses(address, e, "way_without_resolved_nodes", TRUE)
    BY AddressOfWayIs
  <2> HIDE DEF address, tags
  <2> QED
    BY <2>1, AddressIssueIs
<1> HIDE DEF street, address, tags
<1>4. AtMostOne(street) /\ \A r \in street : IssueOf("street", r.issue) /\ ~IssueOf("address", r.issue)
  <2>1. CASE street = {}
    BY <2>1, OneOrNone
  <2>2. ASSUME NEW issue \in StreetNameIssues \cup {"street_unresolved_geometry"}, NEW w,
               Refuses(street, e, issue, w)
        PROVE  AtMostOne(street) /\ \A r \in street : r.issue = issue
    BY <2>2, OwnedIs
  <2> QED
    BY <1>2, <2>1, <2>2, IssuesAre
<1>5. AtMostOne(address) /\ \A r \in address : IssueOf("address", r.issue) /\ ~IssueOf("street", r.issue)
  <2>1. CASE address = {}
    BY <2>1, OneOrNone
  <2>2. ASSUME NEW issue, Refuses(address, e, issue, TRUE)
        PROVE  AtMostOne(address) /\ \A r \in address : r.issue = issue
    BY <2>2, OwnedIs
  <2> QED
    BY <1>3, <2>1, <2>2, IssuesAre
<1> QED
  BY <1>1, <1>4, <1>5 DEF Owned, street, address, tags

(* Of a way: its street and its address each have one entry. *)
LEMMA WayEntriesAre ==
  ASSUME NEW e, e.type = "way"
  PROVE  LET Own(class) == Owned(class, Refusing(e))
             ranged == Has(AddrIn(e), "addr:interpolation")
             ranges == Entries(e, "interpolation_way_stubs")
         IN /\ \A kind \in {"street_way_stubs", "way_stubs", "interpolation_way_stubs"} :
                 AtMostOne(Entries(e, kind))
            /\ AtMostOne(Own("street")) /\ AtMostOne(Own("address"))
            /\ Entries(e, "address_node_candidates") = {}
            /\ Has(TagsIn(e), "highway") => OneIn(Own("street")) + OneIn(Entries(e, "street_way_stubs")) = 1
            /\ AddrIn(e) # NoTags =>
                 IF ranged THEN /\ OneIn(Own("address")) + OneIn(ranges) = 1
                                /\ Entries(e, "way_stubs") = {}
                 ELSE OneIn(Own("address")) + OneIn(Entries(e, "way_stubs")) = 1 /\ ranges = {}
            /\ \A stub \in ranges : stub.id = e.id
<1> DEFINE tags == TagsIn(e)
           s == StreetOfWay(e, tags)
           a == AddressOfWay(e, tags)
           addr == AddrTags(tags)
           ranged == Has(addr, "addr:interpolation")
<1>1. /\ Entries(e, "street_way_stubs") = Of(s, "street_way_stubs")
      /\ Entries(e, "way_stubs") = Of(a, "way_stubs")
      /\ Entries(e, "interpolation_way_stubs") = Of(a, "interpolation_way_stubs")
      /\ Entries(e, "address_node_candidates") = {}
  BY WayIs DEF Kinds
<1>2. /\ Owned("street", Refusing(e)) = Of(s, "rejections") /\ AtMostOne(Of(s, "rejections"))
      /\ Owned("address", Refusing(e)) = Of(a, "rejections") /\ AtMostOne(Of(a, "rejections"))
  BY WayRefusalIs
<1>3. \/ ~Has(tags, "highway") /\ Of(s, "street_way_stubs") = {}
      \/ \E issue, w : Of(s, "street_way_stubs") = {} /\ Refuses(Of(s, "rejections"), e, issue, w)
      \/ Of(s, "street_way_stubs") = {StubOf(e, tags)} /\ Of(s, "rejections") = {}
  <2>1. \/ ~Has(tags, "highway") /\ Of(s, "street_way_stubs") = {}
        \/ /\ Of(s, "street_way_stubs") = {}
           /\ Refuses(Of(s, "rejections"), e, MissingStreetNameIssue(tags), FALSE)
        \/ /\ Of(s, "street_way_stubs") = {}
           /\ Refuses(Of(s, "rejections"), e, "street_unresolved_geometry", TRUE)
        \/ Of(s, "street_way_stubs") = {StubOf(e, tags)} /\ Of(s, "rejections") = {}
    BY StreetOfWayIs
  <2> HIDE DEF s, tags
  <2> QED
    BY <2>1
<1>4. \/ addr = NoTags /\ Of(a, "way_stubs") = {} /\ Of(a, "interpolation_way_stubs") = {}
      \/ /\ Of(a, "way_stubs") = {} /\ Of(a, "interpolation_way_stubs") = {}
         /\ \E issue : Refuses(Of(a, "rejections"), e, issue, TRUE)
      \/ /\ ranged /\ Of(a, "way_stubs") = {} /\ Of(a, "rejections") = {}
         /\ Of(a, "interpolation_way_stubs") = {StubOf(e, tags)}
      \/ /\ ~ranged /\ Of(a, "interpolation_way_stubs") = {} /\ Of(a, "rejections") = {}
         /\ Of(a, "way_stubs") = {StubOf(e, addr)}
  <2> DEFINE refused == Of(a, "rejections")
             stubs == Of(a, "way_stubs")
             ranges == Of(a, "interpolation_way_stubs")
  <2>1. \/ addr = NoTags /\ stubs = {} /\ ranges = {}
        \/ /\ stubs = {} /\ ranges = {}
           /\ Refuses(refused, e, "interpolation_way_without_nodes", TRUE)
        \/ ranged /\ stubs = {} /\ ranges = {StubOf(e, tags)} /\ refused = {}
        \/ stubs = {} /\ ranges = {} /\ Refuses(refused, e, AddressIssue(addr), TRUE)
        \/ stubs = {} /\ ranges = {} /\ Refuses(refused, e, "way_without_resolved_nodes", TRUE)
        \/ ~ranged /\ stubs = {StubOf(e, addr)} /\ ranges = {} /\ refused = {}
    BY AddressOfWayIs
  <2> HIDE DEF refused, stubs, ranges, addr, tags, ranged
  <2>2. \/ addr = NoTags /\ stubs = {} /\ ranges = {}
        \/ stubs = {} /\ ranges = {} /\ \E issue : Refuses(refused, e, issue, TRUE)
        \/ ranged /\ stubs = {} /\ refused = {} /\ ranges = {StubOf(e, tags)}
        \/ ~ranged /\ ranges = {} /\ refused = {} /\ stubs = {StubOf(e, addr)}
    BY <2>1
  <2> QED
    BY <2>2 DEF refused, stubs, ranges
<1>5. \A t : StubOf(e, t).id = e.id
  BY DEF StubOf
<1> HIDE DEF s, a, tags, addr, ranged
<1>6. /\ AtMostOne(Of(s, "street_way_stubs"))
      /\ Has(tags, "highway") => OneIn(Of(s, "rejections")) + OneIn(Of(s, "street_way_stubs")) = 1
  <2> DEFINE stubs == Of(s, "street_way_stubs")
             refused == Of(s, "rejections")
  <2>1. CASE ~Has(tags, "highway") /\ stubs = {}
    BY <2>1, OneOrNone
  <2>2. ASSUME stubs = {}, NEW issue, NEW w, Refuses(refused, e, issue, w)
        PROVE  AtMostOne(stubs) /\ OneIn(refused) + OneIn(stubs) = 1
    <3>1. OneIn(refused) = 1
      BY <2>2, OwnedIs
    <3> HIDE DEF stubs, refused
    <3> QED
      BY <2>2, <3>1, OneOfTwo, OneOrNone
  <2>3. CASE stubs = {StubOf(e, tags)} /\ refused = {}
    <3> HIDE DEF stubs, refused
    <3>1. AtMostOne(stubs) /\ OneIn(stubs) = 1
      BY <2>3, OneOrNone
    <3>2. OneIn(refused) + OneIn(stubs) = 1
      BY <2>3, <3>1, OneOfTwo
    <3> QED
      BY <3>1, <3>2 DEF stubs, refused
  <2> QED
    BY <1>3, <2>1, <2>2, <2>3
<1> DEFINE stubs == Of(a, "way_stubs")
           ranges == Of(a, "interpolation_way_stubs")
           refused == Of(a, "rejections")
<1>7. \/ addr = NoTags /\ stubs = {} /\ ranges = {}
      \/ stubs = {} /\ ranges = {} /\ \E issue : Refuses(refused, e, issue, TRUE)
      \/ ranged /\ stubs = {} /\ refused = {} /\ ranges = {StubOf(e, tags)}
      \/ ~ranged /\ ranges = {} /\ refused = {} /\ stubs = {StubOf(e, addr)}
  BY <1>4
<1> HIDE DEF stubs, ranges, refused
<1>8. /\ AtMostOne(stubs) /\ AtMostOne(ranges)
      /\ addr # NoTags =>
           IF ranged THEN OneIn(refused) + OneIn(ranges) = 1 /\ stubs = {}
           ELSE OneIn(refused) + OneIn(stubs) = 1 /\ ranges = {}
      /\ \A stub \in ranges : stub.id = e.id
  <2>1. CASE addr = NoTags /\ stubs = {} /\ ranges = {}
    BY <2>1, OneOrNone
  <2>2. CASE stubs = {} /\ ranges = {} /\ \E issue : Refuses(refused, e, issue, TRUE)
    <3>1. OneIn(refused) = 1
      BY <2>2, OwnedIs
    <3>2. OneIn(refused) + OneIn(ranges) = 1 /\ OneIn(refused) + OneIn(stubs) = 1
      BY <2>2, <3>1, OneOfTwo
    <3> QED
      BY <2>2, <3>2, OneOrNone
  <2>3. CASE ranged /\ stubs = {} /\ refused = {} /\ ranges = {StubOf(e, tags)}
    <3>1. AtMostOne(ranges) /\ OneIn(ranges) = 1 /\ AtMostOne(stubs)
      BY <2>3, OneOrNone
    <3>2. OneIn(refused) + OneIn(ranges) = 1
      BY <2>3, <3>1, OneOfTwo
    <3>3. \A stub \in ranges : stub.id = e.id
      BY <1>5, <2>3
    <3> QED
      BY <2>3, <3>1, <3>2, <3>3
  <2>4. CASE ~ranged /\ ranges = {} /\ refused = {} /\ stubs = {StubOf(e, addr)}
    <3>1. AtMostOne(stubs) /\ OneIn(stubs) = 1 /\ AtMostOne(ranges)
      BY <2>4, OneOrNone
    <3>2. OneIn(refused) + OneIn(stubs) = 1
      BY <2>4, <3>1, OneOfTwo
    <3> QED
      BY <2>4, <3>1, <3>2
  <2> QED
    BY <1>7, <2>1, <2>2, <2>3, <2>4
<1>9. /\ \A kind \in {"street_way_stubs", "way_stubs", "interpolation_way_stubs"} :
           AtMostOne(Entries(e, kind))
      /\ AtMostOne(Owned("street", Refusing(e))) /\ AtMostOne(Owned("address", Refusing(e)))
      /\ Entries(e, "address_node_candidates") = {}
  BY <1>1, <1>2, <1>6, <1>8 DEF stubs, ranges
<1>10. Has(tags, "highway") =>
         OneIn(Owned("street", Refusing(e))) + OneIn(Entries(e, "street_way_stubs")) = 1
  BY <1>1, <1>2, <1>6
<1>11. /\ addr # NoTags =>
            IF ranged THEN /\ OneIn(Owned("address", Refusing(e)))
                                + OneIn(Entries(e, "interpolation_way_stubs")) = 1
                           /\ Entries(e, "way_stubs") = {}
            ELSE /\ OneIn(Owned("address", Refusing(e))) + OneIn(Entries(e, "way_stubs")) = 1
                 /\ Entries(e, "interpolation_way_stubs") = {}
       /\ \A stub \in Entries(e, "interpolation_way_stubs") : stub.id = e.id
  BY <1>1, <1>2, <1>8 DEF stubs, ranges, refused
<1> QED
  BY <1>9, <1>10, <1>11 DEF tags, addr, ranged, AddrIn


(* The counts of the property are those of the proof. *)
LEMMA DecisionsAre ==
  ASSUME NEW source
  PROVE  /\ Decisions(source, PlaceLayers, PlaceIssues) = Decided("place", source)
         /\ Decisions(source, {"street"}, StreetIssues) = Decided("street", source)
         /\ Decisions(source, {"address", "interpolation"}, AddressIssues) = Decided("address", source)
<1>1. ASSUME NEW class, NEW layers, layers = LayersOf(class), NEW issues_,
             \A i \in DOMAIN reported : reported[i][2] \in issues_ <=> IssueOf(class, reported[i][2])
      PROVE  Decisions(source, layers, issues_) = Decided(class, source)
  <2>1. {i \in DOMAIN rows : /\ rows[i].source = source /\ rows[i].layer \in layers
                             /\ "derived_country" \notin DOMAIN rows[i].tags}
          = {i \in DOMAIN rows : RowDecides(rows[i], class, source)}
    BY <1>1 DEF RowDecides
  <2>2. {i \in DOMAIN reported : reported[i][1] = source /\ reported[i][2] \in issues_}
          = {i \in DOMAIN reported : IssueDecides(reported[i], class, source)}
    BY <1>1 DEF IssueDecides
  <2> QED
    BY <2>1, <2>2 DEF Decisions, Decided, RowsFor, IssuesFor
<1>2. \A i \in DOMAIN reported : reported[i][2] \in AllIssues
  BY DEF AllIssues, Range
<1>3. /\ PlaceLayers = LayersOf("place") /\ {"street"} = LayersOf("street")
      /\ {"address", "interpolation"} = LayersOf("address")
  BY DEF LayersOf
<1>4. \A issue : /\ issue \in PlaceIssues <=> IssueOf("place", issue)
                 /\ issue \in StreetIssues <=> IssueOf("street", issue)
                 /\ issue \in AllIssues => (issue \in AddressIssues <=> IssueOf("address", issue))
  BY DEF IssueOf, AddressIssues
<1> QED
  BY <1>1, <1>2, <1>3, <1>4

LEMMA NodeDone ==
  ASSUME BuildInv, DecidedInv, stage = "done", NEW e \in Range(Elements(file)), e.type = "node"
  PROVE  /\ Has(TagsIn(e), "place") => Decided("place", <<e.type, e.id>>) = 1
         /\ AddrIn(e) # NoTags => Decided("address", <<e.type, e.id>>) = 1
<1> DEFINE source == <<e.type, e.id>>
<1>1. /\ AtMostOne(Refusing(e)) /\ Owned("place", Refusing(e)) = {}
      /\ Owned("address", Refusing(e)) = Refusing(e)
      /\ AtMostOne(Entries(e, "address_node_candidates"))
      /\ AddrIn(e) # NoTags =>
           OneIn(Refusing(e)) + OneIn(Entries(e, "address_node_candidates")) = 1
  BY NodeRefusalIs
<1>2. /\ Entries(e, "way_stubs") = {} /\ Entries(e, "interpolation_way_stubs") = {}
  BY NodeIs DEF Kinds
<1>3. Has(TagsIn(e), "place") => \E x : Entries(e, "place_node_candidates") = {x}
  BY NodeIs
<1>4. source \notin RangedSources
  BY DEF RangedSources
<1>5. /\ AtMostOne(Entries(e, "way_stubs")) /\ OneIn(Entries(e, "way_stubs")) = 0
      /\ AtMostOne(Entries(e, "interpolation_way_stubs"))
  BY <1>2, OneOrNone
<1>6. Has(TagsIn(e), "place") => Decided("place", source) = 1
  <2> HAVE Has(TagsIn(e), "place")
  <2>1. /\ AtMostOne(Entries(e, "place_node_candidates"))
        /\ OneIn(Entries(e, "place_node_candidates")) = 1
    BY <1>3, OneOrNone
  <2>2. AtMostOne(Owned("place", Refusing(e)))
    BY <1>1, OneOrNone
  <2>3. Decided("place", source) = OneIn(Owned("place", Refusing(e)))
                                   + OneIn(Entries(e, "place_node_candidates"))
    BY <2>1, <2>2, DecidedAre DEF Refusing
  <2>4. OneIn(Owned("place", Refusing(e))) + OneIn(Entries(e, "place_node_candidates")) = 1
    BY <1>1, <2>1, OneOfTwo
  <2> QED
    BY <2>3, <2>4
<1>7. AddrIn(e) # NoTags => Decided("address", source) = 1
  <2> HAVE AddrIn(e) # NoTags
  <2>1. Decided("address", source) = OneIn(Owned("address", Refusing(e)))
          + OneIn(Entries(e, "address_node_candidates")) + OneIn(Entries(e, "way_stubs"))
    BY <1>1, <1>4, <1>5, DecidedAre DEF Refusing
  <2> DEFINE r == OneIn(Refusing(e))
             n == OneIn(Entries(e, "address_node_candidates"))
             w == OneIn(Entries(e, "way_stubs"))
  <2>2. Decided("address", source) = r + n + w /\ r + n = 1 /\ w = 0
    BY <1>1, <1>5, <2>1
  <2> HIDE DEF r, n, w
  <2> QED
    BY <2>2
<1> QED
  BY <1>6, <1>7

LEMMA RelationDone ==
  ASSUME BuildInv, DecidedInv, stage = "done", NEW e \in Range(Elements(file)),
         e.type = "relation", AddrIn(e) # NoTags, ~HasAdminBoundaryTags(TagsIn(e))
  PROVE  Decided("address", <<e.type, e.id>>) = 1
<1> DEFINE source == <<e.type, e.id>>
<1>1. \E issue \in {"interpolation_unsupported_object", "unsupported_relation"} :
        Refuses(Refusing(e), e, issue, TRUE)
  BY RelationIs DEF Refusing
<1>2. AtMostOne(Owned("address", Refusing(e))) /\ OneIn(Owned("address", Refusing(e))) = 1
  <2>1. PICK issue \in {"interpolation_unsupported_object", "unsupported_relation"} :
          Refuses(Refusing(e), e, issue, TRUE)
    BY <1>1
  <2>2. IssueOf("address", issue)
    BY IssuesAre
  <2> QED
    BY <2>1, <2>2, OwnedIs
<1>3. /\ Entries(e, "way_stubs") = {} /\ Entries(e, "interpolation_way_stubs") = {}
      /\ Entries(e, "address_node_candidates") = {}
  BY RelationIs DEF Kinds
<1>4. source \notin RangedSources
  BY DEF RangedSources
<1>5. /\ \A kind \in {"way_stubs", "interpolation_way_stubs", "address_node_candidates"} :
           AtMostOne(Entries(e, kind)) /\ OneIn(Entries(e, kind)) = 0
  BY <1>3, OneOrNone
<1>6. Decided("address", source) = OneIn(Owned("address", Refusing(e)))
        + OneIn(Entries(e, "address_node_candidates")) + OneIn(Entries(e, "way_stubs"))
  BY <1>2, <1>4, <1>5, DecidedAre DEF Refusing
<1> QED
  BY <1>2, <1>5, <1>6

LEMMA WayDone ==
  ASSUME BuildInv, DecidedInv, stage = "done", NEW e \in Range(Elements(file)), e.type = "way"
  PROVE  LET source == <<e.type, e.id>>
         IN /\ Has(TagsIn(e), "highway") => Decided("street", source) = 1
            /\ AddrIn(e) # NoTags =>
                 IF Has(AddrIn(e), "addr:interpolation") THEN Decided("address", source) >= 1
                 ELSE Decided("address", source) = 1
<1> DEFINE source == <<e.type, e.id>>
           o == OneIn(Owned("address", Refusing(e)))
           n == OneIn(Entries(e, "address_node_candidates"))
           w == OneIn(Entries(e, "way_stubs"))
           i == OneIn(Entries(e, "interpolation_way_stubs"))
           ranged == Has(AddrIn(e), "addr:interpolation")
           d == Decided("address", source)
<1>1. /\ \A kind \in {"street_way_stubs", "way_stubs", "interpolation_way_stubs"} :
           AtMostOne(Entries(e, kind))
      /\ AtMostOne(Owned("street", Refusing(e))) /\ AtMostOne(Owned("address", Refusing(e)))
      /\ Entries(e, "address_node_candidates") = {}
      /\ Has(TagsIn(e), "highway") =>
           OneIn(Owned("street", Refusing(e))) + OneIn(Entries(e, "street_way_stubs")) = 1
      /\ AddrIn(e) # NoTags =>
           IF ranged THEN o + i = 1 /\ Entries(e, "way_stubs") = {}
           ELSE o + w = 1 /\ Entries(e, "interpolation_way_stubs") = {}
      /\ \A stub \in Entries(e, "interpolation_way_stubs") : stub.id = e.id
  BY WayEntriesAre
<1>2. Has(TagsIn(e), "highway") => Decided("street", source) = 1
  BY <1>1, DecidedAre DEF Refusing
<1>3. AtMostOne(Entries(e, "address_node_candidates")) /\ n = 0
  BY <1>1, OneOrNone
<1>4. IF source \in RangedSources THEN d >= o + n + w + i ELSE d = o + n + w
  BY <1>1, <1>3, DecidedAre DEF Refusing
<1>5. source \in RangedSources <=> Entries(e, "interpolation_way_stubs") # {}
  <2> DEFINE list == Stubs("interpolation_way_stubs")
  <2>1. Range(list) = All(file, "interpolation_way_stubs")
    <3>1. stage # "scan" /\ "interpolation_way_stubs" \in Kinds \ {"rejections"}
      BY DEF Kinds
    <3>2. Lists("interpolation_way_stubs", list, All(file, "interpolation_way_stubs"))
      BY <3>1, StubsAre DEF BuildInv
    <3> QED
      BY <3>2 DEF Lists
  <2>2. ASSUME NEW stub \in Entries(e, "interpolation_way_stubs") PROVE source \in RangedSources
    BY <1>1, <2>1 DEF RangedSources, All
  <2>3. ASSUME source \in RangedSources PROVE Entries(e, "interpolation_way_stubs") # {}
    <3>1. PICK stub \in Range(list) : source = <<"way", stub.id>>
      BY <2>3 DEF RangedSources
    <3>2. PICK f \in Range(Elements(file)) : stub \in Entries(f, "interpolation_way_stubs")
      BY <2>1, <3>1 DEF All
    <3>3. SourceIn("interpolation", stub) = <<f.type, f.id>>
      <4>1. "interpolation" \in Deciding /\ ListOf["interpolation"] = "interpolation_way_stubs"
        BY ListNames DEF Deciding
      <4>2. f.type \in {"node", "way", "relation"}
        BY FileIs DEF BuildInv
      <4> QED
        BY <3>2, <4>1, <4>2, EntriesAre
    <3>4. e = f
      BY <3>1, <3>3, OneElement DEF SourceIn
    <3> QED
      BY <3>2, <3>4
  <2> QED
    BY <2>2, <2>3
<1>6. /\ o \in {0, 1} /\ w \in {0, 1} /\ i \in {0, 1}
      /\ Entries(e, "way_stubs") = {} => w = 0
      /\ Entries(e, "interpolation_way_stubs") = {} => i = 0
  BY DEF OneIn
<1>7. AddrIn(e) # NoTags => IF ranged THEN d >= 1 ELSE d = 1
  <2> HAVE AddrIn(e) # NoTags
  <2> HIDE DEF source, o, n, w, i, ranged, d
  <2>1. CASE ranged
    <3>1. o + i = 1 /\ w = 0 /\ n = 0
      BY <1>1, <1>3, <1>6, <2>1
    <3>2. CASE source \in RangedSources
      <4>1. d >= o + n + w + i
        BY <1>4, <3>2
      <4>2. o + n + w + i = 1
        BY <1>6, <3>1
      <4> QED
        BY <2>1, <4>1, <4>2
    <3>3. CASE source \notin RangedSources
      <4>1. i = 0 /\ d = o + n + w
        BY <1>4, <1>5, <1>6, <3>3
      <4>2. d = 1
        BY <1>6, <3>1, <4>1
      <4> QED
        BY <2>1, <4>2
    <3> QED
      BY <3>2, <3>3
  <2>2. CASE ~ranged
    <3>1. o + w = 1 /\ n = 0 /\ source \notin RangedSources
      BY <1>1, <1>3, <1>5, <2>2
    <3>2. d = o + n + w
      BY <1>4, <3>1
    <3>3. d = 1
      BY <1>6, <3>1, <3>2
    <3> QED
      BY <2>2, <3>3
  <2> QED
    BY <2>1, <2>2
<1> QED
  BY <1>2, <1>7

(* For every file, a finished build has decided every place, highway and    *)
(* address of it, each once: an interpolation way at least once.            *)
THEOREM FeaturesAreDecided == Spec => []EveryFeatureDecided
<1>1. BuildInv /\ DecidedInv => EveryFeatureDecided
  <2> SUFFICES ASSUME BuildInv, DecidedInv, stage = "done", NEW e \in Range(Elements(file))
               PROVE  LET source == <<e.type, e.id>>
                          tags   == CleanTags(e.tags)
                          addr   == AddrTags(tags)
                          ranged == e.type = "way" /\ Has(addr, "addr:interpolation")
                          decided == Decisions(source, {"address", "interpolation"}, AddressIssues)
                      IN /\ e.type = "node" /\ Has(tags, "place") =>
                              Decisions(source, PlaceLayers, PlaceIssues) = 1
                         /\ e.type = "way" /\ Has(tags, "highway") =>
                              Decisions(source, {"street"}, StreetIssues) = 1
                         /\ addr # NoTags /\ ~(e.type = "relation" /\ HasAdminBoundaryTags(tags)) =>
                              IF ranged THEN decided >= 1 ELSE decided = 1
    BY DEF EveryFeatureDecided, Done
  <2> DEFINE source == <<e.type, e.id>>
  <2>1. /\ Decisions(source, PlaceLayers, PlaceIssues) = Decided("place", source)
        /\ Decisions(source, {"street"}, StreetIssues) = Decided("street", source)
        /\ Decisions(source, {"address", "interpolation"}, AddressIssues) = Decided("address", source)
    BY DecisionsAre
  <2>2. e.type \in {"node", "way", "relation"}
    BY FileIs DEF BuildInv
  <2>3. TagsIn(e) = CleanTags(e.tags) /\ AddrIn(e) = AddrTags(CleanTags(e.tags))
    BY DEF TagsIn, AddrIn
  <2>4. CASE e.type = "node"
    BY <2>1, <2>3, <2>4, NodeDone
  <2>5. CASE e.type = "way"
    BY <2>1, <2>3, <2>5, WayDone
  <2>6. CASE e.type = "relation"
    BY <2>1, <2>3, <2>6, RelationDone
  <2> QED
    BY <2>2, <2>4, <2>5, <2>6
<1> QED
  BY <1>1, BuildInvariant, DecidedInvariant, PTL

=============================================================================
