------------------------- MODULE ReverseCascadeProofs -------------------------
(***************************************************************************)
(* Proofs about ReverseCascade: for any archive, admin context and         *)
(* candidates, an answer has the best match and, field by field, the value *)
(* of the first source that gives one.                                     *)
(*                                                                         *)
(* The last sections are about the house numbers an answer may have from   *)
(* an interpolation way (Interpolation): what the builder checks of a      *)
(* range is what the reverse geocoder's unchecked u32 arithmetic needs,    *)
(* for every way, width of numbers and resolution of positions.            *)
(***************************************************************************)
EXTENDS ReverseCascade, Interpolation, SequenceTheorems, FiniteSetTheorems, TLAPS

-----------------------------------------------------------------------------
(* The inductive invariant *)

Filling == {"parents", "nearby"}

(* What is known of the candidates once a stage is passed.                  *)
MatchInv ==
  /\ stage = "address" => tried = 0
  /\ stage \in {"address", "estimates", "street"} =>
       /\ kind = None /\ match = None
       /\ context = Nothing /\ evidence = <<>>
  /\ stage \in Filling \cup {"answered"} =>
       kind \in MatchKinds /\ (match = None <=> kind = "context_only")
  /\ (stage \in {"estimates", "street"}
        \/ kind \in {"estimated_address", "nearest_street", "context_only"}) =>
       ~ IsA(query.address, "address")
  /\ stage = "estimates" =>
       \A i \in 1..tried : ~ IsA(query.estimates[i], "interpolation")
  /\ (stage = "street" \/ kind \in {"nearest_street", "context_only"}) => Usable = {}
  /\ kind = "explicit_address" => IsA(query.address, "address") /\ match = query.address
  /\ kind = "estimated_address" =>
       \E i \in Usable : match = query.estimates[i] /\ \A j \in Usable : i <= j
  /\ kind = "nearest_street" => IsA(query.street, "street") /\ match = query.street
  /\ kind = "context_only" => ~ IsA(query.street, "street")

(* Sources before the list of the loop, and sources asked so far.           *)
Base ==
  IF stage = "parents" THEN IF kind = "nearest_street" THEN 1 ELSE 0
  ELSE Len(Sources) - Len(query.nearby)
Done == IF stage = "answered" THEN Len(Sources) ELSE Base + at

FirstRecords(n) == {Sources[i].record : i \in {i \in 1..n : IsFirstSource(i)}} \ {None}

LoopInv ==
  /\ stage = "parents" => list = Parents(match) /\ kind # "context_only"
  /\ stage = "nearby" => list = query.nearby
  /\ stage \in Filling =>
       /\ Range(evidence) \subseteq seen
       /\ \A id \in seen : \E j \in 1..Done : Sources[j].record = id

FilledInv ==
  stage \in Filling \cup {"answered"} =>
    /\ \A field \in Fields : IsFirstGiven(field, Done)
    /\ Range(evidence) = FirstRecords(Done)
    /\ IsInjective(evidence)

(* Without a match, the first evidence is the first source that tells       *)
(* anything.                                                                *)
PrimaryInv ==
  stage \in Filling \cup {"answered"} /\ kind = "context_only" =>
    IF evidence = <<>>
    THEN \A i \in 1..Done : Sources[i].gives = Nothing
    ELSE \E i \in 1..Done :
           /\ Sources[i].record = evidence[1] /\ Sources[i].gives # Nothing
           /\ \A j \in 1..i - 1 : Sources[j].gives = Nothing

AnswerInv ==
  IF stage = "answered"
  THEN answer = IF match # None THEN Result(match)
                ELSE IF evidence # <<>> THEN Result(evidence[1])
                ELSE None
  ELSE answer = None

CascadeInv == TypeOK /\ MatchInv /\ LoopInv /\ FilledInv /\ PrimaryInv /\ AnswerInv

-----------------------------------------------------------------------------
(* Records and sources *)

SourceSet == [record : Option(Ids), gives : Contexts]

LEMMA ElementOf ==
  ASSUME NEW S, NEW s \in Seq(S), NEW i \in 1..Len(s)
  PROVE  s[i] \in S
OBVIOUS

LEMMA FunctionIsSeq ==
  ASSUME NEW S, NEW n \in Nat, NEW f \in [1..n -> S]
  PROVE  f \in Seq(S)
OBVIOUS

LEMMA NothingGiven == Nothing \in Contexts
BY DEF Nothing, Contexts, Option

LEMMA GivesType ==
  ASSUME NEW id \in Ids
  PROVE  Gives(id) \in Contexts
<1>1. Archive[id].values \in [Fields -> Values \cup {None, Blank}]
  BY ArchiveAssumption
<1> QED
  BY <1>1 DEF Gives, Contexts, Option

LEMMA SourceType ==
  ASSUME NEW id \in Option(Ids)
  PROVE  Source(id) \in SourceSet /\ Source(id).record = id
         /\ Source(id).gives = (IF IsContext(id) THEN Gives(id) ELSE Nothing)
         /\ (id = None => Source(id).gives = Nothing)
<1>1. IsContext(id) => id \in Ids
  BY DEF IsContext, Option
<1>2. (IF IsContext(id) THEN Gives(id) ELSE Nothing) \in Contexts
  BY <1>1, GivesType, NothingGiven
<1> QED
  BY <1>2 DEF Source, SourceSet, IsContext

LEMMA ParentsType ==
  ASSUME NEW id \in Ids
  PROVE  Parents(id) \in Seq(Option(Ids))
<1>1. CASE BoundaryContext[id] = None
  BY <1>1 DEF Parents
<1>2. CASE BoundaryContext[id] # None
  <2>1. BoundaryContext[id] \in [ContextLayers -> Option(Ids)]
    BY <1>2, BoundaryAssumption DEF Option
  <2>2. Len(ParentOrder) = 6
    BY DEF ParentOrder
  <2>3. ASSUME NEW i \in 1..6 PROVE ParentOrder[i] \in ContextLayers
    BY DEF ParentOrder, ContextLayers
  <2>4. "postcode" \in ContextLayers
    BY DEF ContextLayers
  <2>5. Parents(id) = [i \in 1..7 |-> IF i <= 6 THEN BoundaryContext[id][ParentOrder[i]]
                                      ELSE BoundaryContext[id]["postcode"]]
    BY <1>2, <2>2 DEF Parents
  <2>6. ASSUME NEW i \in 1..7
        PROVE  (IF i <= 6 THEN BoundaryContext[id][ParentOrder[i]]
                ELSE BoundaryContext[id]["postcode"]) \in Option(Ids)
    BY <2>1, <2>3, <2>4
  <2>7. Parents(id) \in [1..7 -> Option(Ids)]
    BY <2>5, <2>6
  <2>8. 7 \in Nat
    OBVIOUS
  <2> QED
    BY <2>7, <2>8, FunctionIsSeq
<1> QED
  BY <1>1, <1>2

LEMMA QueryType ==
  ASSUME query \in Queries
  PROVE  /\ query.address \in Option(Ids) /\ query.street \in Option(Ids)
         /\ query.estimates \in Seq(Ids) /\ query.nearby \in Seq(Ids)
BY QueriesAssumption

LEMMA Joined ==
  ASSUME NEW S, NEW a \in Seq(S), NEW b \in Seq(S), NEW c \in Seq(S),
         NEW s, s = a \o b \o c
  PROVE  /\ s \in Seq(S) /\ Len(s) \in Nat /\ Len(s) = Len(a) + Len(b) + Len(c)
         /\ Len(c) \in Nat /\ Len(c) <= Len(s)
         /\ \A i \in 1..Len(a) : s[i] = a[i]
         /\ \A i \in 1..Len(b) : s[Len(a) + i] = b[i]
         /\ \A i \in 1..Len(c) : s[Len(s) - Len(c) + i] = c[i]
<1>1. Len(a) \in Nat /\ Len(b) \in Nat /\ Len(c) \in Nat
  OBVIOUS
<1>2. /\ s \in Seq(S) /\ Len(s) = Len(a) + Len(b) + Len(c)
      /\ \A i \in 1..Len(a) : s[i] = a[i]
      /\ \A i \in 1..Len(b) : s[Len(a) + i] = b[i]
      /\ \A i \in 1..Len(c) : s[Len(a) + Len(b) + i] = c[i]
  OBVIOUS
<1>3. \A i \in 1..Len(c) : Len(s) - Len(c) + i = Len(a) + Len(b) + i
  BY <1>1, <1>2
<1> QED
  BY <1>1, <1>2, <1>3

(* A match has been made, or there is none to be had.                       *)
Decided == TypeOK /\ kind \in MatchKinds /\ (match = None <=> kind = "context_only")

LEMMA DecidedTypes ==
  ASSUME Decided
  PROVE  /\ query.nearby \in Seq(Ids) /\ Len(query.nearby) \in Nat
         /\ kind \in MatchKinds /\ (match = None <=> kind = "context_only")
         /\ match # None => /\ match \in Ids
                            /\ Parents(match) \in Seq(Option(Ids))
                            /\ Len(Parents(match)) \in Nat
<1>1. query \in Queries /\ match \in Option(Ids) /\ kind \in MatchKinds
      /\ (match = None <=> kind = "context_only")
  BY DEF Decided, TypeOK
<1>2. query.nearby \in Seq(Ids)
  BY <1>1, QueryType
<1>3. match # None => match \in Ids
  BY <1>1 DEF Option
<1>4. match # None => Parents(match) \in Seq(Option(Ids))
  BY <1>3, ParentsType
<1> QED
  BY <1>1, <1>2, <1>3, <1>4

(* Where each source is, for each kind of match.                            *)
LEMMA Shape ==
  ASSUME Decided
  PROVE  /\ Sources \in Seq(SourceSet)
         /\ Len(query.nearby) <= Len(Sources)
         /\ \A i \in 1..Len(query.nearby) :
              Sources[Len(Sources) - Len(query.nearby) + i] = Source(query.nearby[i])
         /\ kind \in {"explicit_address", "estimated_address"} =>
              /\ Len(Sources) = Len(Parents(match)) + 1 + Len(query.nearby)
              /\ \A i \in 1..Len(Parents(match)) : Sources[i] = Source(Parents(match)[i])
              /\ Sources[Len(Parents(match)) + 1] = Own[1]
         /\ kind = "nearest_street" =>
              /\ Len(Sources) = 1 + Len(Parents(match)) + Len(query.nearby)
              /\ Sources[1] = Own[1]
              /\ \A i \in 1..Len(Parents(match)) : Sources[1 + i] = Source(Parents(match)[i])
         /\ kind = "context_only" =>
              Sources = FromNearby /\ Len(Sources) = Len(query.nearby)
         /\ Own[1].record = None /\ (match # None => Own[1].gives = Gives(match))
<1>1. /\ query.nearby \in Seq(Ids) /\ Len(query.nearby) \in Nat
      /\ kind \in MatchKinds /\ (match = None <=> kind = "context_only")
      /\ match # None => /\ match \in Ids
                         /\ Parents(match) \in Seq(Option(Ids))
                         /\ Len(Parents(match)) \in Nat
  BY DecidedTypes
<1>2. FromNearby \in Seq(SourceSet) /\ Len(FromNearby) = Len(query.nearby)
      /\ \A i \in 1..Len(query.nearby) : FromNearby[i] = Source(query.nearby[i])
  <2>1. \A i \in 1..Len(query.nearby) : Source(query.nearby[i]) \in SourceSet
    BY <1>1, ElementOf, SourceType DEF Option
  <2> QED
    BY <1>1, <2>1 DEF FromNearby
<1>3. Own[1].record = None /\ Own[1].gives = Gives(match) /\ Len(Own) = 1
  BY DEF Own
<1>4. CASE kind = "context_only"
  BY <1>1, <1>2, <1>3, <1>4 DEF Sources
<1>5. CASE kind # "context_only"
  <2>1. match \in Ids /\ Len(Parents(match)) \in Nat
    BY <1>1, <1>5
  <2>2. Own \in Seq(SourceSet)
    BY <2>1, GivesType DEF Own, SourceSet, Option
  <2>3. Parents(match) \in Seq(Option(Ids))
    BY <1>1, <1>5
  <2>4. FromParents \in Seq(SourceSet) /\ Len(FromParents) = Len(Parents(match))
        /\ \A i \in 1..Len(Parents(match)) : FromParents[i] = Source(Parents(match)[i])
    <3>1. \A i \in 1..Len(Parents(match)) : Source(Parents(match)[i]) \in SourceSet
      BY <2>3, ElementOf, SourceType
    <3> QED
      BY <2>3, <3>1 DEF FromParents
  <2>5. Len(FromNearby) = Len(query.nearby) /\ Len(FromParents) = Len(Parents(match))
    BY <1>2, <2>4
  <2>6. CASE kind \in {"explicit_address", "estimated_address"}
    <3>1. Sources = FromParents \o Own \o FromNearby
      BY <2>6 DEF Sources
    <3>0. FromParents \in Seq(SourceSet) /\ Own \in Seq(SourceSet) /\ FromNearby \in Seq(SourceSet)
      BY <1>2, <2>2, <2>4
    <3>2. /\ Sources \in Seq(SourceSet)
          /\ Len(Sources) = Len(FromParents) + Len(Own) + Len(FromNearby)
          /\ Len(FromNearby) <= Len(Sources)
          /\ \A i \in 1..Len(FromParents) : Sources[i] = FromParents[i]
          /\ \A i \in 1..Len(Own) : Sources[Len(FromParents) + i] = Own[i]
          /\ \A i \in 1..Len(FromNearby) :
               Sources[Len(Sources) - Len(FromNearby) + i] = FromNearby[i]
      BY <3>0, <3>1, Joined
    <3>3. Sources[Len(FromParents) + 1] = Own[1]
      BY <1>3, <3>2
    <3> QED
      BY <1>2, <1>3, <2>4, <2>5, <2>6, <3>2, <3>3
  <2>7. CASE kind = "nearest_street"
    <3>1. Sources = Own \o FromParents \o FromNearby
      BY <2>7 DEF Sources
    <3>0. FromParents \in Seq(SourceSet) /\ Own \in Seq(SourceSet) /\ FromNearby \in Seq(SourceSet)
      BY <1>2, <2>2, <2>4
    <3>2. /\ Sources \in Seq(SourceSet)
          /\ Len(Sources) = Len(Own) + Len(FromParents) + Len(FromNearby)
          /\ Len(FromNearby) <= Len(Sources)
          /\ \A i \in 1..Len(Own) : Sources[i] = Own[i]
          /\ \A i \in 1..Len(FromParents) : Sources[Len(Own) + i] = FromParents[i]
          /\ \A i \in 1..Len(FromNearby) :
               Sources[Len(Sources) - Len(FromNearby) + i] = FromNearby[i]
      BY <3>0, <3>1, Joined
    <3>3. Sources[1] = Own[1]
      BY <1>3, <3>2
    <3> QED
      BY <1>2, <1>3, <2>4, <2>5, <2>7, <3>2, <3>3
  <2> QED
    BY <1>1, <1>5, <2>6, <2>7 DEF MatchKinds
<1> QED
  BY <1>4, <1>5

(* Where position i of two lists in a row is.                               *)
LEMMA InTwoLists ==
  ASSUME NEW a \in Nat, NEW b \in Nat, NEW i \in 1..a + b
  PROVE  i \in 1..a \/ \E k \in 1..b : a + k = i
<1>1. CASE i > a
  <2>1. i - a \in 1..b /\ a + (i - a) = i
    BY <1>1
  <2> QED
    BY <2>1
<1> QED
  BY <1>1

(* A source with a record gives what that record gives.                     *)
LEMMA SourceOf ==
  ASSUME Decided, NEW i \in 1..Len(Sources)
  PROVE  Sources[i].record # None => Sources[i] = Source(Sources[i].record)
<1>1. /\ query.nearby \in Seq(Ids) /\ Len(query.nearby) \in Nat
      /\ kind \in MatchKinds /\ (match = None <=> kind = "context_only")
      /\ match # None => /\ Parents(match) \in Seq(Option(Ids))
                         /\ Len(Parents(match)) \in Nat
  BY DecidedTypes
<1>2. ASSUME NEW list1 \in Seq(Option(Ids)), NEW k \in 1..Len(list1),
             Sources[i] = Source(list1[k])
      PROVE  Sources[i] = Source(Sources[i].record)
  <2>1. list1[k] \in Option(Ids)
    BY ElementOf
  <2> QED
    BY <1>2, <2>1, SourceType
<1>3. ASSUME NEW k \in 1..Len(query.nearby), Len(Sources) - Len(query.nearby) + k = i
      PROVE  Sources[i] = Source(Sources[i].record)
  <2>1. Sources[i] = Source(query.nearby[k])
    BY <1>3, Shape
  <2>2. query.nearby[k] \in Option(Ids)
    BY <1>1, ElementOf DEF Option
  <2> QED
    BY <2>1, <2>2, SourceType
<1>4. CASE kind = "nearest_street"
  <2>1. PICK p \in Nat : p = Len(Parents(match))
    BY <1>1, <1>4
  <2>2. PICK q \in Nat : q = Len(query.nearby)
    BY <1>1
  <2>3. /\ Len(Sources) = 1 + p + q /\ Sources[1] = Own[1] /\ Own[1].record = None
        /\ \A k \in 1..p : Sources[1 + k] = Source(Parents(match)[k])
    BY <1>4, <2>1, <2>2, Shape
  <2>4. i \in 1..1 + p \/ \E k \in 1..q : (1 + p) + k = i
    BY <2>3, InTwoLists
  <2>5. i \in 1..1 + p => i = 1 \/ \E k \in 1..p : 1 + k = i
    BY InTwoLists
  <2>6. Len(Sources) - Len(query.nearby) = 1 + p
    BY <2>2, <2>3
  <2>7. ASSUME NEW k \in 1..q, (1 + p) + k = i
        PROVE  Sources[i] = Source(Sources[i].record)
    BY <1>3, <2>2, <2>6, <2>7
  <2>8. ASSUME NEW k \in 1..p, 1 + k = i
        PROVE  Sources[i] = Source(Sources[i].record)
    BY <1>1, <1>2, <1>4, <2>1, <2>3, <2>8
  <2> QED
    BY <2>3, <2>4, <2>5, <2>7, <2>8
<1>5. CASE kind \in {"explicit_address", "estimated_address"}
  <2>1. PICK p \in Nat : p = Len(Parents(match))
    BY <1>1, <1>5
  <2>2. PICK q \in Nat : q = Len(query.nearby)
    BY <1>1
  <2>3. /\ Len(Sources) = p + 1 + q /\ Sources[p + 1] = Own[1] /\ Own[1].record = None
        /\ \A k \in 1..p : Sources[k] = Source(Parents(match)[k])
    BY <1>5, <2>1, <2>2, Shape
  <2>0. p + 1 \in Nat /\ i \in 1..(p + 1) + q
    BY <2>3
  <2>4. i \in 1..p + 1 \/ \E k \in 1..q : (p + 1) + k = i
    BY <2>0, InTwoLists
  <2>5. i \in 1..p + 1 => i \in 1..p \/ i = p + 1
    OBVIOUS
  <2>6. Len(Sources) - Len(query.nearby) = p + 1
    BY <2>2, <2>3
  <2>7. ASSUME NEW k \in 1..q, (p + 1) + k = i
        PROVE  Sources[i] = Source(Sources[i].record)
    BY <1>3, <2>2, <2>6, <2>7
  <2>8. ASSUME i \in 1..p
        PROVE  Sources[i] = Source(Sources[i].record)
    BY <1>1, <1>2, <1>5, <2>1, <2>3, <2>8
  <2> QED
    BY <2>3, <2>4, <2>5, <2>7, <2>8
<1>6. CASE kind = "context_only"
  <2>1. Len(Sources) = Len(query.nearby)
    BY <1>6, Shape
  <2>2. Len(Sources) - Len(query.nearby) + i = i /\ i \in 1..Len(query.nearby)
    BY <1>1, <2>1
  <2> QED
    BY <1>3, <2>2
<1> QED
  BY <1>1, <1>4, <1>5, <1>6 DEF MatchKinds

-----------------------------------------------------------------------------
(* One more source *)

LEMMA SourceTypes ==
  ASSUME Decided, NEW i \in 1..Len(Sources)
  PROVE  Sources[i] \in SourceSet /\ Sources[i].gives \in Contexts
<1>1. Sources[i] \in SourceSet
  BY Shape, ElementOf
<1> QED
  BY <1>1 DEF SourceSet

(* Filling the gaps with the next source keeps the values those of the      *)
(* first sources, and changes something exactly if the source is a first.   *)
LEMMA OneMore ==
  ASSUME Decided, context \in Contexts, NEW n \in Nat, n + 1 \in 1..Len(Sources),
         \A field \in Fields : IsFirstGiven(field, n),
         Sources' = Sources, context' = Filled(Sources[n + 1].gives)
  PROVE  /\ \A field \in Fields : IsFirstGiven(field, n + 1)'
         /\ IsFirstSource(n + 1) <=> context' # context
         /\ context' \in Contexts
<1> DEFINE given == Sources[n + 1].gives
<1>1. given \in Contexts
  BY SourceTypes
<1> HIDE DEF given
<1>2. context' = [field \in Fields |-> IF context[field] = None THEN given[field]
                                       ELSE context[field]]
  BY DEF given, Filled
<1>3. context' \in Contexts
  BY <1>1, <1>2 DEF Contexts
<1>4. 1..n + 1 = (1..n) \cup {n + 1} /\ 1..(n + 1) - 1 = 1..n
  OBVIOUS
<1>5. ASSUME NEW field \in Fields
      PROVE  /\ IsFirstGiven(field, n + 1)'
             /\ GivesFirst(n + 1, field) <=> context'[field] # context[field]
  <2>1. context'[field] = IF context[field] = None THEN given[field] ELSE context[field]
    BY <1>2
  <2>2. IsFirstGiven(field, n)
    OBVIOUS
  <2>3. GivesFirst(n + 1, field) <=>
          given[field] # None /\ \A j \in 1..n : Sources[j].gives[field] = None
    BY <1>4 DEF GivesFirst, given
  <2>4. \A i : GivesFirst(i, field)' <=> GivesFirst(i, field)
    BY DEF GivesFirst
  <2>5. CASE context[field] = None
    <3>1. \A i \in 1..n : Sources[i].gives[field] = None
      BY <2>2, <2>5 DEF IsFirstGiven
    <3>2. GivesFirst(n + 1, field) <=> given[field] # None
      BY <2>3, <3>1
    <3>3. CASE given[field] = None
      <4>1. \A i \in 1..n + 1 : Sources'[i].gives[field] = None
        BY <1>4, <3>1, <3>3 DEF given
      <4> QED
        BY <2>1, <2>5, <3>2, <3>3, <4>1 DEF IsFirstGiven
    <3>4. CASE given[field] # None
      <4>1. GivesFirst(n + 1, field)' /\ n + 1 \in 1..n + 1
        BY <1>4, <2>4, <3>2, <3>4
      <4>2. context'[field] = Sources'[n + 1].gives[field] /\ context'[field] # None
        BY <2>1, <2>5, <3>4 DEF given
      <4> QED
        BY <2>5, <3>2, <3>4, <4>1, <4>2 DEF IsFirstGiven
    <3> QED
      BY <3>3, <3>4
  <2>6. CASE context[field] # None
    <3>1. PICK i \in 1..n : GivesFirst(i, field) /\ context[field] = Sources[i].gives[field]
      BY <2>2, <2>6 DEF IsFirstGiven
    <3>2. Sources[i].gives[field] # None
      BY <2>6, <3>1
    <3>3. ~ GivesFirst(n + 1, field)
      BY <2>3, <3>2
    <3>4. context'[field] = context[field]
      BY <2>1, <2>6
    <3>5. i \in 1..n + 1 /\ GivesFirst(i, field)' /\ context'[field] = Sources'[i].gives[field]
      BY <1>4, <2>4, <3>1, <3>4
    <3> QED
      BY <2>6, <3>3, <3>4, <3>5 DEF IsFirstGiven
  <2> QED
    BY <2>5, <2>6
<1>6. context' # context <=> \E field \in Fields : context'[field] # context[field]
  BY <1>3 DEF Contexts
<1> QED
  BY <1>3, <1>5, <1>6 DEF IsFirstSource

LEMMA FirstRecordsNext ==
  ASSUME NEW n \in Nat, Sources' = Sources
  PROVE  /\ FirstRecords(n)' = FirstRecords(n)
         /\ FirstRecords(n + 1)' = FirstRecords(n) \cup
              ((IF IsFirstSource(n + 1) THEN {Sources[n + 1].record} ELSE {}) \ {None})
<1>1. \A i : IsFirstSource(i)' <=> IsFirstSource(i)
  BY DEF IsFirstSource, GivesFirst
<1>2. 1..n + 1 = (1..n) \cup {n + 1}
  OBVIOUS
<1> QED
  BY <1>1, <1>2 DEF FirstRecords

(* What has been told before tells nothing new.                             *)
LEMMA NothingNew ==
  ASSUME Decided, context \in Contexts, NEW n \in Nat, n + 1 \in 1..Len(Sources),
         \A field \in Fields : IsFirstGiven(field, n),
         \/ Sources[n + 1].gives = Nothing
         \/ \E j \in 1..n : Sources[j].gives = Sources[n + 1].gives
  PROVE  Filled(Sources[n + 1].gives) = context
<1> SUFFICES ASSUME NEW field \in Fields, context[field] = None
             PROVE  Sources[n + 1].gives[field] = None
  BY DEF Filled, Contexts
<1>1. \A i \in 1..n : Sources[i].gives[field] = None
  BY DEF IsFirstGiven
<1>2. Nothing[field] = None
  BY DEF Nothing
<1> QED
  BY <1>1, <1>2

(* The record a loop is at is the next source.                              *)
LEMMA Current ==
  ASSUME CascadeInv, stage \in Filling
  PROVE  /\ Decided /\ Done \in Nat /\ context \in Contexts /\ list \in Seq(Option(Ids))
         /\ at < Len(list) =>
              Done + 1 \in 1..Len(Sources) /\ Sources[Done + 1] = Source(list[at + 1])
         /\ stage = "nearby" /\ at = Len(list) => Done = Len(Sources)
         /\ stage = "parents" /\ at = Len(list) /\ kind = "nearest_street" =>
              Done = Len(Sources) - Len(query.nearby)
         /\ stage = "parents" /\ at = Len(list) /\ kind # "nearest_street" =>
              /\ Done + 1 = Len(Sources) - Len(query.nearby)
              /\ Done + 1 \in 1..Len(Sources) /\ Sources[Done + 1] = Own[1]
<1>1. /\ Decided /\ context \in Contexts /\ list \in Seq(Option(Ids)) /\ at \in 0..Len(list)
  BY DEF CascadeInv, Decided, MatchInv, TypeOK
<1>2. /\ Len(query.nearby) \in Nat /\ kind \in MatchKinds
      /\ (match = None <=> kind = "context_only")
      /\ match # None => Len(Parents(match)) \in Nat
  BY <1>1, DecidedTypes
<1>3. Sources \in Seq(SourceSet) /\ Len(query.nearby) <= Len(Sources) /\ Own[1].record = None
  BY <1>1, Shape
<1>4. PICK s \in Nat : s = Len(Sources)
  BY <1>3
<1>5. PICK q \in Nat : q = Len(query.nearby) /\ q <= s
  BY <1>2, <1>3, <1>4
<1>6. PICK l \in Nat : l = Len(list) /\ at \in 0..l
  BY <1>1
<1>7. CASE stage = "nearby"
  <2>1. list = query.nearby /\ l = q
    BY <1>5, <1>6, <1>7 DEF CascadeInv, LoopInv
  <2>2. Done = (s - q) + at
    BY <1>4, <1>5, <1>7 DEF Done, Base
  <2>3. Done \in Nat /\ (at = l => Done = s)
    BY <1>4, <1>5, <1>6, <2>1, <2>2
  <2>4. ASSUME at < l
        PROVE  Done + 1 \in 1..s /\ Sources[Done + 1] = Source(list[at + 1])
    <3>1. at + 1 \in 1..q /\ Done + 1 = (s - q) + (at + 1) /\ Done + 1 \in 1..s
      BY <1>5, <1>6, <2>1, <2>2, <2>4
    <3>2. Sources[(s - q) + (at + 1)] = Source(query.nearby[at + 1])
      BY <1>1, <1>4, <1>5, <3>1, Shape
    <3> QED
      BY <2>1, <3>1, <3>2
  <2> QED
    BY <1>1, <1>4, <1>6, <1>7, <2>3, <2>4
<1>8. CASE stage = "parents"
  <2>1. list = Parents(match) /\ kind # "context_only" /\ match # None
    BY <1>2, <1>8 DEF CascadeInv, LoopInv
  <2>2. CASE kind = "nearest_street"
    <3>1. s = 1 + l + q /\ \A i \in 1..l : Sources[1 + i] = Source(list[i])
      BY <1>1, <1>4, <1>5, <1>6, <2>1, <2>2, Shape
    <3>2. Done = 1 + at
      BY <1>8, <2>2 DEF Done, Base
    <3>3. at \in Nat /\ at \in 0..l /\ s = 1 + l + q
      BY <1>6, <3>1
    <3>4. Done \in Nat /\ (at = l => Done = s - q)
      BY <3>2, <3>3
    <3>5. ASSUME at < l
          PROVE  Done + 1 \in 1..s /\ Sources[Done + 1] = Source(list[at + 1])
      <4>1. at + 1 \in 1..l /\ Done + 1 = 1 + (at + 1) /\ Done + 1 \in 1..s
        BY <3>2, <3>3, <3>5
      <4> QED
        BY <3>1, <4>1
    <3> QED
      BY <1>1, <1>4, <1>5, <1>6, <1>8, <2>2, <3>4, <3>5
  <2>3. CASE kind # "nearest_street"
    <3>0. kind \in {"explicit_address", "estimated_address"}
      BY <1>2, <2>1, <2>3 DEF MatchKinds
    <3>1. /\ s = l + 1 + q /\ Sources[l + 1] = Own[1]
          /\ \A i \in 1..l : Sources[i] = Source(list[i])
      BY <1>1, <1>4, <1>5, <1>6, <2>1, <3>0, Shape
    <3>3. at \in Nat /\ at \in 0..l /\ s = l + 1 + q
      BY <1>6, <3>1
    <3>2. Done = at
      BY <1>8, <2>3, <3>3 DEF Done, Base
    <3>4. Done \in Nat /\ (at = l => Done + 1 = s - q /\ Done + 1 \in 1..s /\ Done + 1 = l + 1)
      BY <3>2, <3>3
    <3>5. ASSUME at < l
          PROVE  Done + 1 \in 1..s /\ Sources[Done + 1] = Source(list[at + 1])
      <4>1. at + 1 \in 1..l /\ Done + 1 = at + 1 /\ Done + 1 \in 1..s
        BY <3>2, <3>3, <3>5
      <4> QED
        BY <3>1, <4>1
    <3> QED
      BY <1>1, <1>4, <1>5, <1>6, <1>8, <2>3, <3>1, <3>4, <3>5
  <2> QED
    BY <2>2, <2>3
<1> QED
  BY <1>7, <1>8 DEF Filling

-----------------------------------------------------------------------------
(* The start of a loop *)

LEMMA Begun == context = Nothing /\ evidence = <<>> /\ Done = 0 => FilledInv /\ PrimaryInv
<1> SUFFICES ASSUME context = Nothing, evidence = <<>>, Done = 0
             PROVE  FilledInv /\ PrimaryInv
  OBVIOUS
<1>1. \A field \in Fields : context[field] = None
  BY DEF Nothing
<1>2. 1..0 = {}
  OBVIOUS
<1>3. \A field \in Fields : IsFirstGiven(field, 0)
  BY <1>1, <1>2 DEF IsFirstGiven
<1>4. Range(evidence) = {} /\ IsInjective(evidence)
  BY DEF Range, IsInjective
<1>5. FirstRecords(0) = {}
  BY <1>2 DEF FirstRecords
<1> QED
  BY <1>2, <1>3, <1>4, <1>5 DEF FilledInv, PrimaryInv

LEMMA StreetBegun ==
  /\ Decided /\ stage = "parents" /\ at = 0 /\ kind = "nearest_street"
  /\ evidence = <<>> /\ context = [field \in Fields |-> Gives(match)[field]]
  => FilledInv /\ PrimaryInv
<1> SUFFICES ASSUME Decided, stage = "parents", at = 0, kind = "nearest_street",
                    evidence = <<>>, context = [field \in Fields |-> Gives(match)[field]]
             PROVE  FilledInv /\ PrimaryInv
  OBVIOUS
<1>1. Done = 1
  BY DEF Done, Base
<1>2. match # None
  BY DEF Decided
<1>3. Sources[1].record = None /\ Sources[1].gives = Gives(match)
  BY <1>2, Shape
<1>4. 1..1 = {1} /\ 1..1 - 1 = {}
  OBVIOUS
<1>5. ASSUME NEW field \in Fields PROVE IsFirstGiven(field, 1)
  <2>1. context[field] = Sources[1].gives[field]
    BY <1>3
  <2>2. context[field] # None => GivesFirst(1, field)
    BY <1>4, <2>1 DEF GivesFirst
  <2> QED
    BY <1>4, <2>1, <2>2 DEF IsFirstGiven
<1>6. Range(evidence) = {} /\ IsInjective(evidence)
  BY DEF Range, IsInjective
<1>7. FirstRecords(1) = {}
  BY <1>3, <1>4 DEF FirstRecords
<1> QED
  BY <1>1, <1>5, <1>6, <1>7 DEF FilledInv, PrimaryInv

LEMMA NearbyBegun ==
  Decided /\ stage = "nearby" /\ at = 0 /\ kind = "context_only" => Done = 0
<1> SUFFICES ASSUME Decided, stage = "nearby", at = 0, kind = "context_only" PROVE Done = 0
  OBVIOUS
<1>1. Len(query.nearby) \in Nat /\ Len(Sources) = Len(query.nearby)
  BY DecidedTypes, Shape
<1> QED
  BY <1>1 DEF Done, Base

-----------------------------------------------------------------------------
(* The steps that match *)

LEMMA NoneGiven ==
  ASSUME NEW given \in Contexts, context = Nothing
  PROVE  Filled(given) = [field \in Fields |-> given[field]] /\ Filled(given) \in Contexts
BY DEF Filled, Nothing, Contexts

LEMMA MatchedId == ASSUME NEW id, NEW k \in Kinds, IsA(id, k), id \in Option(Ids)
                   PROVE  id \in Ids /\ id # None
BY DEF IsA, Option

LEMMA NothingSeen == Range(<<>>) = {}
BY DEF Range

LEMMA EmptyList == ASSUME NEW S PROVE <<>> \in Seq(S)
OBVIOUS

(* What every match sets up.                                                *)
LEMMA MatchSetsUp ==
  ASSUME TypeOK, evidence = <<>>, answer = None, NEW id \in Ids, NEW how,
         how \in MatchKinds \ {"context_only"}, Matched(id, how),
         context' \in Contexts, tried' \in 0..Len(query.estimates)
  PROVE  TypeOK' /\ Decided' /\ LoopInv' /\ AnswerInv'
<1>1. /\ query' = query /\ evidence' = <<>> /\ answer' = None /\ match' = id /\ kind' = how
      /\ stage' = "parents" /\ list' = Parents(id) /\ at' = 0 /\ seen' = {}
  BY NothingSeen DEF Matched, Enrich
<1>2. Parents(id) \in Seq(Option(Ids)) /\ Len(Parents(id)) \in Nat
  BY ParentsType
<1>3. at' \in 0..Len(list') /\ list' \in Seq(Option(Ids))
  BY <1>1, <1>2
<1>4. <<>> \in Seq(Ids)
  BY EmptyList
<1>5. kind' \in Option(MatchKinds) /\ match' \in Option(Ids) /\ match' # None
  BY <1>1, NoneAssumption DEF Option
<1>6. TypeOK'
  BY <1>1, <1>3, <1>4, <1>5 DEF TypeOK, Stages, Option
<1>7. Decided'
  BY <1>1, <1>5, <1>6 DEF Decided
<1>8. Parents(match)' = Parents(id)
  BY <1>1 DEF Parents
<1>9. LoopInv'
  BY <1>1, <1>8, NothingSeen DEF LoopInv
<1> QED
  BY <1>1, <1>6, <1>7, <1>9 DEF AnswerInv

LEMMA FindAddressStep ==
  ASSUME CascadeInv, FindAddress
  PROVE  CascadeInv'
<1>1. /\ stage = "address" /\ IsA(query.address, "address")
      /\ Matched(query.address, "explicit_address") /\ UNCHANGED <<tried, context>>
  BY DEF FindAddress
<1>2. TypeOK /\ context = Nothing /\ evidence = <<>> /\ answer = None
  BY <1>1 DEF CascadeInv, MatchInv, AnswerInv
<1>3. query.address \in Ids
  BY <1>1, <1>2, QueryType, MatchedId DEF TypeOK, Kinds
<1>4. TypeOK' /\ Decided' /\ LoopInv' /\ AnswerInv'
  BY <1>1, <1>2, <1>3, NothingGiven, MatchSetsUp DEF MatchKinds, TypeOK
<1>5. /\ query' = query /\ match' = query.address /\ kind' = "explicit_address"
      /\ stage' = "parents" /\ at' = 0 /\ evidence' = <<>> /\ context' = Nothing
  BY <1>1, <1>2 DEF Matched, Enrich
<1>6. MatchInv'
  BY <1>1, <1>3, <1>5, NoneAssumption DEF MatchInv, MatchKinds, IsA
<1>7. Done' = 0
  BY <1>5 DEF Done, Base
<1>8. (context = Nothing /\ evidence = <<>> /\ Done = 0)' => (FilledInv /\ PrimaryInv)'
  BY Begun, PTL
<1> QED
  BY <1>4, <1>5, <1>6, <1>7, <1>8 DEF CascadeInv, Nothing

(* A step that goes on without a match.                                     *)
LEMMA GoesOn ==
  ASSUME CascadeInv, stage \in {"address", "estimates", "street"},
         stage' \in {"address", "estimates", "street", "failed"},
         UNCHANGED <<query, match, kind, loop, context, evidence, answer>>,
         tried' \in 0..Len(query.estimates)
  PROVE  /\ TypeOK' /\ LoopInv' /\ FilledInv' /\ PrimaryInv' /\ AnswerInv'
         /\ kind' = None /\ match' = None /\ context' = Nothing /\ evidence' = <<>>
<1>1. TypeOK'
  BY DEF CascadeInv, TypeOK, loop, Stages
<1>2. LoopInv' /\ FilledInv' /\ PrimaryInv'
  BY DEF LoopInv, FilledInv, PrimaryInv, Filling
<1>3. AnswerInv'
  BY DEF CascadeInv, AnswerInv
<1>4. kind = None /\ match = None /\ context = Nothing /\ evidence = <<>>
  BY DEF CascadeInv, MatchInv
<1> QED
  BY <1>1, <1>2, <1>3, <1>4

LEMMA NoKind == \A k \in MatchKinds : k # None
BY NoneAssumption

LEMMA NoAddressStep ==
  ASSUME CascadeInv, NoAddress
  PROVE  CascadeInv'
<1>1. /\ stage = "address" /\ stage' = "estimates" /\ ~ IsA(query.address, "address")
      /\ query' = query /\ tried' = tried
      /\ UNCHANGED <<query, match, kind, loop, context, evidence, answer>>
  BY DEF NoAddress
<1>2. /\ TypeOK' /\ LoopInv' /\ FilledInv' /\ PrimaryInv' /\ AnswerInv'
      /\ kind' = None /\ match' = None /\ context' = Nothing /\ evidence' = <<>>
  BY <1>1, GoesOn DEF CascadeInv, TypeOK
<1>3. tried = 0
  BY <1>1 DEF CascadeInv, MatchInv
<1>4. 1..0 = {}
  OBVIOUS
<1>5. MatchInv'
  BY <1>1, <1>2, <1>3, <1>4, NoKind DEF MatchInv, MatchKinds, Nothing, Filling
<1> QED
  BY <1>2, <1>5 DEF CascadeInv

LEMMA NextPosition ==
  ASSUME NEW n \in Nat
  PROVE  1..n + 1 = (1..n) \cup {n + 1}
OBVIOUS

LEMMA TryEstimateStep ==
  ASSUME CascadeInv, TryEstimate
  PROVE  CascadeInv'
<1> DEFINE id == query.estimates[tried + 1]
<1>1. /\ stage = "estimates" /\ tried < Len(query.estimates) /\ tried' = tried + 1
      /\ \/ IsA(id, "interpolation") /\ Matched(id, "estimated_address") /\ UNCHANGED context
         \/ /\ ~ IsA(id, "interpolation")
            /\ UNCHANGED <<query, stage, match, kind, loop, context, evidence, answer>>
  BY DEF TryEstimate
<1>2. /\ TypeOK /\ context = Nothing /\ evidence = <<>> /\ answer = None
      /\ ~ IsA(query.address, "address")
      /\ \A i \in 1..tried : ~ IsA(query.estimates[i], "interpolation")
  BY <1>1 DEF CascadeInv, MatchInv, AnswerInv
<1>3. query.estimates \in Seq(Ids) /\ tried \in 0..Len(query.estimates)
  BY <1>2, QueryType DEF TypeOK
<1>4. PICK n \in Nat : n = Len(query.estimates)
  BY <1>3
<1>5. tried \in Nat /\ tried + 1 \in 1..n /\ tried' \in 0..n
  BY <1>1, <1>3, <1>4
<1>6. id \in Ids
  BY <1>3, <1>4, <1>5, ElementOf
<1>7. CASE IsA(id, "interpolation") /\ Matched(id, "estimated_address") /\ UNCHANGED context
  <2>1. TypeOK' /\ Decided' /\ LoopInv' /\ AnswerInv'
    BY <1>2, <1>4, <1>5, <1>6, <1>7, NothingGiven, MatchSetsUp DEF MatchKinds
  <2>2. /\ query' = query /\ match' = id /\ kind' = "estimated_address"
        /\ stage' = "parents" /\ at' = 0 /\ evidence' = <<>> /\ context' = Nothing
    BY <1>2, <1>7 DEF Matched, Enrich
  <2>3. tried + 1 \in Usable /\ \A j \in Usable : tried + 1 <= j
    <3>1. \A j \in 1..n : j < tried + 1 => j \in 1..tried
      BY <1>5
    <3>2. \A j \in Usable : j \in 1..n /\ j \notin 1..tried
      BY <1>2, <1>4 DEF Usable
    <3>3. \A j \in 1..n : ~ (j < tried + 1) => tried + 1 <= j
      BY <1>5
    <3> QED
      BY <1>4, <1>5, <1>7, <3>1, <3>2, <3>3 DEF Usable
  <2>4. Usable' = Usable
    BY <2>2 DEF Usable
  <2>5. \E i \in Usable' : match' = query'.estimates[i] /\ \A j \in Usable' : i <= j
    BY <2>2, <2>3, <2>4
  <2>6. match' # None
    BY <1>6, <2>2, NoneAssumption
  <2>7. MatchInv'
    BY <1>2, <2>2, <2>5, <2>6 DEF MatchInv, MatchKinds, Filling
  <2>8. Done' = 0
    BY <2>2 DEF Done, Base
  <2>9. (context = Nothing /\ evidence = <<>> /\ Done = 0)' => (FilledInv /\ PrimaryInv)'
    BY Begun, PTL
  <2> QED
    BY <2>1, <2>2, <2>7, <2>8, <2>9 DEF CascadeInv, Nothing
<1>8. CASE /\ ~ IsA(id, "interpolation")
           /\ UNCHANGED <<query, stage, match, kind, loop, context, evidence, answer>>
  <2>1. /\ TypeOK' /\ LoopInv' /\ FilledInv' /\ PrimaryInv' /\ AnswerInv'
        /\ kind' = None /\ match' = None /\ context' = Nothing /\ evidence' = <<>>
    BY <1>1, <1>4, <1>5, <1>8, GoesOn
  <2>2. \A i \in 1..tried' : ~ IsA(query.estimates[i], "interpolation")
    BY <1>1, <1>2, <1>5, <1>8, NextPosition
  <2>3. MatchInv'
    BY <1>1, <1>2, <1>8, <2>1, <2>2, NoKind DEF MatchInv, MatchKinds, Nothing, Filling
  <2> QED
    BY <2>1, <2>3 DEF CascadeInv
<1> QED
  BY <1>1, <1>7, <1>8

LEMMA NoEstimateStep ==
  ASSUME CascadeInv, NoEstimate
  PROVE  CascadeInv'
<1>1. /\ stage = "estimates" /\ stage' = "street" /\ tried = Len(query.estimates)
      /\ query' = query /\ tried' = tried
      /\ UNCHANGED <<query, match, kind, loop, context, evidence, answer>>
  BY DEF NoEstimate
<1>2. /\ TypeOK' /\ LoopInv' /\ FilledInv' /\ PrimaryInv' /\ AnswerInv'
      /\ kind' = None /\ match' = None /\ context' = Nothing /\ evidence' = <<>>
  BY <1>1, GoesOn DEF CascadeInv, TypeOK
<1>3. /\ ~ IsA(query.address, "address")
      /\ \A i \in 1..tried : ~ IsA(query.estimates[i], "interpolation")
  BY <1>1 DEF CascadeInv, MatchInv
<1>4. Usable' = {}
  BY <1>1, <1>3 DEF Usable
<1>5. MatchInv'
  BY <1>1, <1>2, <1>3, <1>4, NoKind DEF MatchInv, MatchKinds, Nothing, Filling
<1> QED
  BY <1>2, <1>5 DEF CascadeInv

LEMMA FindStreetStep ==
  ASSUME CascadeInv, FindStreet
  PROVE  CascadeInv'
<1>1. /\ stage = "street" /\ IsA(query.street, "street")
      /\ Matched(query.street, "nearest_street")
      /\ context' = Filled(Gives(query.street)) /\ tried' = tried
  BY DEF FindStreet
<1>2. /\ TypeOK /\ context = Nothing /\ evidence = <<>> /\ answer = None
      /\ ~ IsA(query.address, "address") /\ Usable = {}
  BY <1>1 DEF CascadeInv, MatchInv, AnswerInv
<1>3. query.street \in Ids
  BY <1>1, <1>2, QueryType, MatchedId DEF TypeOK, Kinds
<1>4. context' = [field \in Fields |-> Gives(query.street)[field]] /\ context' \in Contexts
  BY <1>1, <1>2, <1>3, GivesType, NoneGiven
<1>5. TypeOK' /\ Decided' /\ LoopInv' /\ AnswerInv'
  BY <1>1, <1>2, <1>3, <1>4, MatchSetsUp DEF MatchKinds, TypeOK
<1>6. /\ query' = query /\ match' = query.street /\ kind' = "nearest_street"
      /\ stage' = "parents" /\ at' = 0 /\ evidence' = <<>>
  BY <1>1, <1>2 DEF Matched, Enrich
<1>7. Usable' = {} /\ match' # None
  BY <1>2, <1>3, <1>6, NoneAssumption DEF Usable
<1>8. MatchInv'
  BY <1>1, <1>2, <1>6, <1>7 DEF MatchInv, MatchKinds, Filling
<1>9. (/\ Decided /\ stage = "parents" /\ at = 0 /\ kind = "nearest_street"
       /\ evidence = <<>> /\ context = [field \in Fields |-> Gives(match)[field]])'
      => (FilledInv /\ PrimaryInv)'
  BY StreetBegun, PTL
<1>10. Gives(match)' = Gives(query.street)
  BY <1>6 DEF Gives
<1>11. context' = [field \in Fields |-> Gives(match)[field]]'
  BY <1>4, <1>10
<1> QED
  BY <1>5, <1>6, <1>8, <1>9, <1>11 DEF CascadeInv

LEMMA NoStreetStep ==
  ASSUME CascadeInv, NoStreet
  PROVE  CascadeInv'
<1>1. /\ stage = "street" /\ ~ IsA(query.street, "street")
      /\ kind' = "context_only" /\ stage' = "nearby" /\ list' = query.nearby /\ at' = 0
      /\ seen' = Range(evidence)
      /\ UNCHANGED <<query, tried, match, context, evidence, answer>>
  BY DEF NoStreet, Enrich
<1>2. /\ TypeOK /\ context = Nothing /\ evidence = <<>> /\ answer = None /\ match = None
      /\ ~ IsA(query.address, "address") /\ Usable = {}
  BY <1>1 DEF CascadeInv, MatchInv, AnswerInv
<1>3. query.nearby \in Seq(Option(Ids)) /\ Len(query.nearby) \in Nat
  BY <1>2, QueryType DEF TypeOK, Option
<1>4. at' \in 0..Len(list') /\ list' \in Seq(Option(Ids)) /\ seen' = {}
  BY <1>1, <1>2, <1>3, NothingSeen
<1>5. kind' \in Option(MatchKinds)
  BY <1>1 DEF Option, MatchKinds
<1>6. TypeOK'
  BY <1>1, <1>2, <1>4, <1>5 DEF TypeOK, Stages
<1>7. Usable' = {}
  BY <1>1, <1>2 DEF Usable
<1>8. MatchInv'
  BY <1>1, <1>2, <1>7 DEF MatchInv, MatchKinds, Filling
<1>9. Decided'
  BY <1>1, <1>2, <1>6 DEF Decided, MatchKinds
<1>10. LoopInv'
  BY <1>1, <1>2, <1>4, NothingSeen DEF LoopInv
<1>11. AnswerInv'
  BY <1>1, <1>2 DEF AnswerInv
<1>12. (Decided /\ stage = "nearby" /\ at = 0 /\ kind = "context_only")' => (Done = 0)'
  BY NearbyBegun, PTL
<1>13. (context = Nothing /\ evidence = <<>> /\ Done = 0)' => (FilledInv /\ PrimaryInv)'
  BY Begun, PTL
<1> QED
  BY <1>1, <1>2, <1>6, <1>8, <1>9, <1>10, <1>11, <1>12, <1>13 DEF CascadeInv, Nothing

-----------------------------------------------------------------------------
(* The steps that fill *)

LEMMA AppendToSet ==
  ASSUME NEW S, NEW s \in Seq(S), NEW x \in S
  PROVE  /\ Append(s, x) \in Seq(S) /\ Append(s, x) # <<>>
         /\ s = <<>> => Append(s, x)[1] = x
         /\ s # <<>> => Append(s, x)[1] = s[1]
         /\ Range(Append(s, x)) = Range(s) \cup {x}
         /\ IsInjective(s) /\ x \notin Range(s) => IsInjective(Append(s, x))
<1>1. Append(s, x) \in Seq(S) /\ Len(s) \in Nat /\ Len(Append(s, x)) = Len(s) + 1
  OBVIOUS
<1>2. DOMAIN s = 1..Len(s) /\ DOMAIN Append(s, x) = (1..Len(s)) \cup {Len(s) + 1}
  OBVIOUS
<1>3. Append(s, x)[Len(s) + 1] = x /\ \A i \in 1..Len(s) : Append(s, x)[i] = s[i]
  OBVIOUS
<1>4. Append(s, x) # <<>> /\ (s = <<>> => Append(s, x)[1] = x)
  OBVIOUS
<1>5. s # <<>> => 1 \in 1..Len(s)
  OBVIOUS
<1>6. Range(Append(s, x)) = Range(s) \cup {x}
  BY <1>2, <1>3 DEF Range
<1>7. ASSUME IsInjective(s), x \notin Range(s)
      PROVE  IsInjective(Append(s, x))
  <2>1. \A i \in 1..Len(s) : s[i] # x
    BY <1>2, <1>7 DEF Range
  <2> QED
    BY <1>2, <1>3, <1>7, <2>1 DEF IsInjective
<1> QED
  BY <1>1, <1>3, <1>4, <1>5, <1>6, <1>7

(* The fields and the evidence after one more source.                       *)
LEMMA FilledNext ==
  ASSUME Decided, context \in Contexts, evidence \in Seq(Ids),
         NEW n \in Nat, n + 1 \in 1..Len(Sources),
         \A field \in Fields : IsFirstGiven(field, n),
         Range(evidence) = FirstRecords(n), IsInjective(evidence),
         Sources' = Sources, context' = Filled(Sources[n + 1].gives),
         NEW id \in Option(Ids), id = Sources[n + 1].record,
         context' # context => id \notin Range(evidence),
         evidence' = IF context' # context /\ id # None THEN Append(evidence, id) ELSE evidence
  PROVE  /\ \A field \in Fields : IsFirstGiven(field, n + 1)'
         /\ Range(evidence') = FirstRecords(n + 1)' /\ IsInjective(evidence')
         /\ context' \in Contexts /\ evidence' \in Seq(Ids)
<1>1. /\ \A field \in Fields : IsFirstGiven(field, n + 1)'
      /\ IsFirstSource(n + 1) <=> context' # context
      /\ context' \in Contexts
  BY OneMore
<1>2. FirstRecords(n + 1)' = FirstRecords(n) \cup
        ((IF IsFirstSource(n + 1) THEN {id} ELSE {}) \ {None})
  BY FirstRecordsNext
<1>3. CASE context' # context /\ id # None
  <2>1. id \in Ids /\ evidence' = Append(evidence, id)
    BY <1>3 DEF Option
  <2>2. FirstRecords(n + 1)' = FirstRecords(n) \cup {id} /\ id \notin Range(evidence)
    BY <1>1, <1>2, <1>3
  <2>3. /\ Append(evidence, id) \in Seq(Ids) /\ IsInjective(Append(evidence, id))
        /\ Range(Append(evidence, id)) = Range(evidence) \cup {id}
    BY <2>1, <2>2, AppendToSet
  <2>4. Range(evidence') = FirstRecords(n + 1)' /\ IsInjective(evidence')
        /\ evidence' \in Seq(Ids)
    BY <2>1, <2>2, <2>3
  <2> QED
    BY <1>1, <2>4
<1>4. CASE ~ (context' # context /\ id # None)
  <2>1. FirstRecords(n + 1)' = FirstRecords(n)
    BY <1>1, <1>2, <1>4
  <2> QED
    BY <1>1, <1>4, <2>1
<1> QED
  BY <1>3, <1>4

LEMMA SameSources ==
  ASSUME UNCHANGED <<query, match, kind>>
  PROVE  /\ Sources' = Sources /\ Usable' = Usable /\ Parents(match)' = Parents(match)
         /\ IsA(query.address, "address")' = IsA(query.address, "address")
         /\ IsA(query.street, "street")' = IsA(query.street, "street")
BY DEF Sources, FromParents, FromNearby, Own, Source, Usable, Parents, IsA, IsContext, Gives,
       FieldsOf, Nothing

(* Only the match tells what MatchInv says once there is one.               *)
LEMMA StaysMatched ==
  ASSUME CascadeInv, stage \in Filling, stage' \in Filling \cup {"answered", "failed"},
         UNCHANGED <<query, match, kind>>
  PROVE  MatchInv'
<1>1. /\ kind \in MatchKinds /\ (match = None <=> kind = "context_only") /\ MatchInv
  BY DEF CascadeInv, MatchInv
<1>2. /\ Usable' = Usable
      /\ IsA(query.address, "address")' = IsA(query.address, "address")
      /\ IsA(query.street, "street")' = IsA(query.street, "street")
  BY SameSources
<1>3. stage' \notin {"address", "estimates", "street"}
  BY DEF Filling
<1> QED
  BY <1>1, <1>2, <1>3 DEF MatchInv

(* Either way, a visit fills the gaps with the next source, and its record  *)
(* becomes evidence if that changed something.                              *)
LEMMA VisitFills ==
  ASSUME CascadeInv, VisitRecord, NEW n \in Nat, n = Done,
         NEW id, id = list[at + 1]
  PROVE  /\ Decided /\ stage \in Filling /\ id \in Option(Ids)
         /\ n + 1 \in 1..Len(Sources) /\ Sources[n + 1] = Source(id)
         /\ Sources[n + 1].record = id
         /\ context' = Filled(Sources[n + 1].gives)
         /\ context' # context => id # None /\ id \notin Range(evidence)
         /\ evidence' = IF context' # context /\ id # None THEN Append(evidence, id)
                        ELSE evidence
         /\ seen' = IF id = None THEN seen ELSE seen \cup {id}
         /\ UNCHANGED <<query, stage, tried, match, kind, list, answer>> /\ at' = at + 1
<1>1. /\ stage \in Filling /\ at < Len(list) /\ at' = at + 1
      /\ \/ /\ id = None \/ id \in seen
            /\ UNCHANGED <<seen, context, evidence>>
         \/ /\ ~ (id = None \/ id \in seen) /\ seen' = seen \cup {id}
            /\ IsContext(id) /\ Filled(Gives(id)) # context
            /\ context' = Filled(Gives(id)) /\ evidence' = Append(evidence, id)
         \/ /\ ~ (id = None \/ id \in seen) /\ seen' = seen \cup {id}
            /\ ~ (IsContext(id) /\ Filled(Gives(id)) # context)
            /\ UNCHANGED <<context, evidence>>
      /\ UNCHANGED <<query, stage, tried, match, kind, list, answer>>
  BY DEF VisitRecord, Filling
<1>2. /\ Decided /\ context \in Contexts /\ list \in Seq(Option(Ids))
      /\ n + 1 \in 1..Len(Sources) /\ Sources[n + 1] = Source(id)
  BY <1>1, Current
<1>3. id \in Option(Ids)
  <2>1. at \in 0..Len(list) /\ Len(list) \in Nat
    BY <1>2 DEF CascadeInv, TypeOK
  <2>2. at + 1 \in 1..Len(list)
    BY <1>1, <2>1
  <2> QED
    BY <1>2, <2>2, ElementOf
<1>4. /\ Sources[n + 1].record = id
      /\ Sources[n + 1].gives = IF IsContext(id) THEN Gives(id) ELSE Nothing
      /\ id = None => Sources[n + 1].gives = Nothing
  BY <1>2, <1>3, SourceType
<1>5. /\ \A field \in Fields : IsFirstGiven(field, n)
      /\ Range(evidence) \subseteq seen /\ seen \subseteq Ids
      /\ \A x \in seen : \E j \in 1..n : Sources[j].record = x
  BY <1>1 DEF CascadeInv, FilledInv, LoopInv, TypeOK
<1>6. n \in 0..Len(Sources) /\ Len(Sources) \in Nat
  <2>1. Len(Sources) \in Nat
    BY <1>2, Shape
  <2> QED
    BY <1>2, <2>1
<1>7. (\/ Sources[n + 1].gives = Nothing
       \/ \E j \in 1..n : Sources[j].gives = Sources[n + 1].gives)
      => Filled(Sources[n + 1].gives) = context
  BY <1>2, <1>5, NothingNew
<1>8. ASSUME id \in seen
      PROVE  \E j \in 1..n : Sources[j].gives = Sources[n + 1].gives
  <2>1. PICK j \in 1..n : Sources[j].record = id
    BY <1>5, <1>8
  <2>2. j \in 1..Len(Sources)
    BY <1>6
  <2>3. id # None
    BY <1>5, <1>8, NoneAssumption
  <2>4. Sources[j] = Source(id)
    BY <1>2, <2>1, <2>2, <2>3, SourceOf
  <2> QED
    BY <1>2, <2>4
<1>9. CASE id = None \/ id \in seen
  BY <1>1, <1>2, <1>3, <1>4, <1>7, <1>8, <1>9
<1>10. CASE ~ (id = None \/ id \in seen) /\ IsContext(id) /\ Filled(Gives(id)) # context
  BY <1>1, <1>2, <1>3, <1>4, <1>5, <1>10
<1>11. CASE ~ (id = None \/ id \in seen) /\ ~ (IsContext(id) /\ Filled(Gives(id)) # context)
  BY <1>1, <1>2, <1>3, <1>4, <1>7, <1>11
<1> QED
  BY <1>9, <1>10, <1>11

LEMMA DoneNext ==
  ASSUME Decided, stage \in Filling, at \in Nat, at' = at + 1, Sources' = Sources,
         UNCHANGED <<query, stage, kind>>
  PROVE  Done' = Done + 1
<1>1. Len(Sources) \in Nat /\ Len(query.nearby) \in Nat /\ Len(query.nearby) <= Len(Sources)
  BY DecidedTypes, Shape
<1>2. PICK q \in Nat : q = Len(query.nearby)
  BY <1>1
<1>3. PICK d \in Nat : Len(Sources) = q + d
  <2>1. Len(Sources) - q \in Nat /\ Len(Sources) = q + (Len(Sources) - q)
    BY <1>1, <1>2
  <2> QED
    BY <2>1
<1>4. Base \in Nat /\ Base' = Base
  BY <1>2, <1>3 DEF Base
<1>5. Done = Base + at /\ Done' = Base + (at + 1)
  BY <1>4 DEF Done, Filling
<1> QED
  BY <1>4, <1>5

LEMMA NothingFilled ==
  ASSUME Decided, context \in Contexts, NEW n \in Nat, n + 1 \in 1..Len(Sources),
         \A field \in Fields : IsFirstGiven(field, n),
         \A i \in 1..n : Sources[i].gives = Nothing,
         Filled(Sources[n + 1].gives) = context
  PROVE  Sources[n + 1].gives = Nothing
<1>1. Sources[n + 1].gives \in Contexts
  BY SourceTypes
<1>2. ASSUME NEW field \in Fields
      PROVE  Sources[n + 1].gives[field] = None
  <2>1. \A i \in 1..n : Sources[i].gives[field] = None
    BY DEF Nothing
  <2>2. context[field] = None
    BY <2>1 DEF IsFirstGiven, GivesFirst
  <2>3. Filled(Sources[n + 1].gives)[field] = Sources[n + 1].gives[field]
    BY <2>2 DEF Filled
  <2> QED
    BY <2>2, <2>3
<1> QED
  BY <1>1, <1>2 DEF Nothing, Contexts

LEMMA VisitRecordStep ==
  ASSUME CascadeInv, VisitRecord
  PROVE  CascadeInv'
<1> DEFINE id == list[at + 1]
<1>1. stage \in Filling
  BY DEF VisitRecord, Filling
<1>2. PICK n \in Nat : n = Done
  BY <1>1, Current
<1>3. /\ Decided /\ stage \in Filling /\ id \in Option(Ids)
      /\ n + 1 \in 1..Len(Sources) /\ Sources[n + 1] = Source(id)
      /\ Sources[n + 1].record = id
      /\ context' = Filled(Sources[n + 1].gives)
      /\ context' # context => id # None /\ id \notin Range(evidence)
      /\ evidence' = IF context' # context /\ id # None THEN Append(evidence, id)
                     ELSE evidence
      /\ seen' = IF id = None THEN seen ELSE seen \cup {id}
      /\ UNCHANGED <<query, stage, tried, match, kind, list, answer>> /\ at' = at + 1
  BY <1>2, VisitFills
<1>4. at \in Nat /\ at' \in 0..Len(list) /\ TypeOK
  <2>1. at < Len(list) /\ at \in 0..Len(list) /\ list \in Seq(Option(Ids)) /\ TypeOK
    BY DEF VisitRecord, CascadeInv, TypeOK
  <2> QED
    BY <1>3, <2>1
<1>5. Sources' = Sources /\ Parents(match)' = Parents(match)
  BY <1>3, SameSources
<1>6. Done' = n + 1
  BY <1>2, <1>3, <1>4, <1>5, DoneNext
<1>7. /\ context \in Contexts /\ evidence \in Seq(Ids)
      /\ \A field \in Fields : IsFirstGiven(field, n)
      /\ Range(evidence) = FirstRecords(n) /\ IsInjective(evidence)
  BY <1>1, <1>2 DEF CascadeInv, TypeOK, FilledInv
<1> HIDE DEF id
<1>8. /\ \A field \in Fields : IsFirstGiven(field, n + 1)'
      /\ Range(evidence') = FirstRecords(n + 1)' /\ IsInjective(evidence')
      /\ context' \in Contexts /\ evidence' \in Seq(Ids)
  BY <1>3, <1>5, <1>7, FilledNext
<1>9. FilledInv'
  BY <1>6, <1>8 DEF FilledInv
<1>10. seen' \subseteq Ids
  BY <1>3, <1>4 DEF TypeOK, Option
<1>11. TypeOK'
  BY <1>3, <1>4, <1>8, <1>10 DEF TypeOK
<1>12. MatchInv'
  BY <1>3, StaysMatched
<1>13. LoopInv'
  <2>1. Range(evidence) \subseteq seen /\ \A x \in seen : \E j \in 1..n : Sources[j].record = x
    BY <1>2, <1>3 DEF CascadeInv, LoopInv
  <2>2. Range(evidence') \subseteq seen'
    <3>1. CASE context' # context
      <4>1. id \in Ids /\ evidence' = Append(evidence, id)
        BY <1>3, <3>1 DEF Option
      <4>2. Range(evidence') = Range(evidence) \cup {id}
        BY <1>7, <4>1, AppendToSet
      <4> QED
        BY <1>3, <2>1, <3>1, <4>2
    <3>2. CASE context' = context
      BY <1>3, <2>1, <3>2
    <3> QED
      BY <3>1, <3>2
  <2>3. \A x \in seen' : \E j \in 1..n + 1 : Sources[j].record = x
    <3>1. 1..n + 1 = (1..n) \cup {n + 1}
      BY NextPosition
    <3> QED
      BY <1>3, <2>1, <3>1
  <2>4. /\ stage = "parents" => list = Parents(match) /\ kind # "context_only"
        /\ stage = "nearby" => list = query.nearby
    BY DEF CascadeInv, LoopInv
  <2> QED
    BY <1>3, <1>5, <1>6, <2>2, <2>3, <2>4 DEF LoopInv
<1>14. PrimaryInv'
  <2> SUFFICES ASSUME kind = "context_only"
               PROVE  IF evidence' = <<>>
                      THEN \A i \in 1..n + 1 : Sources[i].gives = Nothing
                      ELSE \E i \in 1..n + 1 :
                             /\ Sources[i].record = evidence'[1] /\ Sources[i].gives # Nothing
                             /\ \A j \in 1..i - 1 : Sources[j].gives = Nothing
    BY <1>3, <1>5, <1>6 DEF PrimaryInv
  <2>1. 1..n + 1 = (1..n) \cup {n + 1} /\ 1..(n + 1) - 1 = 1..n
    BY NextPosition
  <2>2. IF evidence = <<>>
        THEN \A i \in 1..n : Sources[i].gives = Nothing
        ELSE \E i \in 1..n :
               /\ Sources[i].record = evidence[1] /\ Sources[i].gives # Nothing
               /\ \A j \in 1..i - 1 : Sources[j].gives = Nothing
    BY <1>1, <1>2 DEF CascadeInv, PrimaryInv
  <2>3. context' # context =>
          /\ evidence' # <<>>
          /\ evidence = <<>> => evidence'[1] = id
          /\ evidence # <<>> => evidence'[1] = evidence[1]
    <3> SUFFICES ASSUME context' # context
                 PROVE  /\ evidence' # <<>>
                        /\ evidence = <<>> => evidence'[1] = id
                        /\ evidence # <<>> => evidence'[1] = evidence[1]
      OBVIOUS
    <3>1. id \in Ids /\ evidence' = Append(evidence, id)
      BY <1>3 DEF Option
    <3> QED
      BY <1>7, <3>1, AppendToSet
  <2>4. context' = context => evidence' = evidence
    BY <1>3
  <2>5. CASE evidence = <<>> /\ context' = context
    <3>1. Sources[n + 1].gives = Nothing
      BY <1>3, <1>7, <2>2, <2>5, NothingFilled
    <3> QED
      BY <2>1, <2>2, <2>4, <2>5, <3>1
  <2>6. CASE evidence = <<>> /\ context' # context
    <3>1. Sources[n + 1].gives # Nothing
      BY <1>3, <1>7, <2>6, NothingNew
    <3> QED
      BY <1>3, <2>1, <2>2, <2>3, <2>6, <3>1
  <2>7. CASE evidence # <<>>
    BY <2>1, <2>2, <2>3, <2>4, <2>7
  <2> QED
    BY <2>5, <2>6, <2>7
<1>15. AnswerInv'
  BY <1>3 DEF CascadeInv, AnswerInv, Filling
<1> QED
  BY <1>9, <1>11, <1>12, <1>13, <1>14, <1>15 DEF CascadeInv

LEMMA SameFilled ==
  ASSUME NEW n \in Nat, Sources' = Sources, UNCHANGED <<context, evidence>>
  PROVE  /\ \A field \in Fields : IsFirstGiven(field, n)' <=> IsFirstGiven(field, n)
         /\ FirstRecords(n)' = FirstRecords(n)
BY FirstRecordsNext DEF IsFirstGiven, GivesFirst

LEMMA EndParentsStep ==
  ASSUME CascadeInv, EndParents
  PROVE  CascadeInv'
<1>1. /\ stage = "parents" /\ at = Len(list) /\ stage' = "nearby" /\ list' = query.nearby
      /\ at' = 0 /\ seen' = Range(evidence)
      /\ context' = IF kind = "nearest_street" THEN context ELSE Filled(Gives(match))
      /\ UNCHANGED <<query, tried, match, kind, evidence, answer>>
  BY DEF EndParents, Enrich
<1>2. PICK n \in Nat : n = Done
  BY <1>1, Current DEF Filling
<1>3. /\ Decided /\ context \in Contexts
      /\ kind = "nearest_street" => n = Len(Sources) - Len(query.nearby)
      /\ kind # "nearest_street" => /\ n + 1 = Len(Sources) - Len(query.nearby)
                                    /\ n + 1 \in 1..Len(Sources) /\ Sources[n + 1] = Own[1]
  BY <1>1, <1>2, Current DEF Filling
<1>4. kind # "context_only" /\ match # None /\ kind \in MatchKinds
  BY <1>1, <1>3 DEF CascadeInv, LoopInv, Decided
<1>5. Sources' = Sources
  BY <1>1, SameSources
<1>6. /\ evidence \in Seq(Ids) /\ TypeOK
      /\ \A field \in Fields : IsFirstGiven(field, n)
      /\ Range(evidence) = FirstRecords(n) /\ IsInjective(evidence)
  BY <1>1, <1>2 DEF CascadeInv, TypeOK, FilledInv, Filling
<1>7. /\ Base' = Len(Sources) - Len(query.nearby)
      /\ Len(Sources) \in Nat /\ Len(query.nearby) \in Nat
  BY <1>1, <1>3, <1>5, Shape, DecidedTypes DEF Base
<1>8. Done' = Len(Sources) - Len(query.nearby)
  BY <1>1, <1>7 DEF Done
<1>9. PICK m \in Nat :
        /\ m = Done' /\ n <= m
        /\ \A field \in Fields : IsFirstGiven(field, m)'
        /\ Range(evidence') = FirstRecords(m)' /\ IsInjective(evidence')
        /\ context' \in Contexts
  <2>1. CASE kind = "nearest_street"
    <3>1. n = Done' /\ context' = context /\ evidence' = evidence /\ n <= n
      BY <1>1, <1>3, <1>8, <2>1
    <3>2. /\ \A field \in Fields : IsFirstGiven(field, n)' <=> IsFirstGiven(field, n)
          /\ FirstRecords(n)' = FirstRecords(n)
      BY <1>5, <3>1, SameFilled
    <3> QED
      BY <1>3, <1>6, <3>1, <3>2
  <2>2. CASE kind # "nearest_street"
    <3>0. n + 1 \in Nat /\ n <= n + 1
      OBVIOUS
    <3>1. n + 1 = Done' /\ n + 1 \in 1..Len(Sources)
      BY <1>3, <1>8, <2>2
    <3>2. Sources[n + 1].record = None /\ Sources[n + 1].gives = Gives(match)
      BY <1>3, <1>4, <2>2, Shape
    <3>3. context' = Filled(Sources[n + 1].gives)
      BY <1>1, <2>2, <3>2
    <3>4. None \in Option(Ids) /\ None \notin Range(evidence)
      <4>1. \A i \in 1..Len(evidence) : evidence[i] \in Ids
        BY <1>6, ElementOf
      <4> QED
        BY <1>6, <4>1, NoneAssumption DEF Range, Option
    <3>5. /\ \A field \in Fields : IsFirstGiven(field, n + 1)'
          /\ Range(evidence') = FirstRecords(n + 1)' /\ IsInjective(evidence')
          /\ context' \in Contexts
      BY <1>1, <1>3, <1>5, <1>6, <3>1, <3>2, <3>3, <3>4, FilledNext
    <3> QED
      BY <3>0, <3>1, <3>5
  <2> QED
    BY <2>1, <2>2
<1>10. FilledInv'
  BY <1>9 DEF FilledInv
<1>11. Range(evidence) \subseteq Ids
  <2>1. \A i \in 1..Len(evidence) : evidence[i] \in Ids
    BY <1>6, ElementOf
  <2> QED
    BY <1>6, <2>1 DEF Range
<1>12. TypeOK'
  <2>1. query.nearby \in Seq(Option(Ids)) /\ Len(query.nearby) \in Nat
    BY <1>6, QueryType DEF TypeOK, Option
  <2>2. list' \in Seq(Option(Ids)) /\ at' \in 0..Len(list')
    BY <1>1, <2>1
  <2> QED
    BY <1>1, <1>6, <1>9, <1>11, <2>2 DEF TypeOK, Stages
<1>13. MatchInv'
  BY <1>1, StaysMatched DEF Filling
<1>14. LoopInv'
  <2>1. \A x \in Range(evidence) : \E j \in 1..n : Sources[j].record = x
    BY <1>6 DEF FirstRecords
  <2>2. 1..n \subseteq 1..m
    BY <1>9
  <2>3. \A x \in Range(evidence) : \E j \in 1..Done' : Sources[j].record = x
    BY <1>9, <2>1, <2>2
  <2> QED
    BY <1>1, <1>5, <2>3 DEF LoopInv
<1>15. PrimaryInv'
  BY <1>1, <1>4 DEF PrimaryInv
<1>16. AnswerInv'
  BY <1>1 DEF CascadeInv, AnswerInv
<1> QED
  BY <1>10, <1>12, <1>13, <1>14, <1>15, <1>16 DEF CascadeInv

LEMMA AnswerStep ==
  ASSUME CascadeInv, Answer
  PROVE  CascadeInv'
<1>1. /\ stage = "nearby" /\ at = Len(list) /\ stage' = "answered"
      /\ answer' = IF match # None THEN Result(match)
                   ELSE IF evidence # <<>> THEN Result(evidence[1])
                   ELSE None
      /\ UNCHANGED <<query, tried, match, kind, list, at, seen, context, evidence>>
  BY DEF Answer, loop
<1>2. PICK n \in Nat : n = Done
  BY <1>1, Current DEF Filling
<1>3. Sources' = Sources /\ n = Len(Sources) /\ Decided
  BY <1>1, <1>2, SameSources, Current DEF Filling
<1>4. Done' = n
  BY <1>1, <1>3 DEF Done
<1>5. /\ \A field \in Fields : IsFirstGiven(field, n)' <=> IsFirstGiven(field, n)
      /\ FirstRecords(n)' = FirstRecords(n)
  BY <1>1, <1>3, SameFilled
<1>6. FilledInv'
  BY <1>1, <1>2, <1>4, <1>5 DEF CascadeInv, FilledInv, Filling
<1>7. PrimaryInv'
  BY <1>1, <1>2, <1>3, <1>4 DEF CascadeInv, PrimaryInv, Filling
<1>8. AnswerInv'
  BY <1>1 DEF AnswerInv, Result
<1>9. LoopInv'
  BY <1>1 DEF LoopInv, Filling
<1>10. MatchInv'
  BY <1>1, StaysMatched DEF Filling
<1>11. TypeOK /\ kind \in MatchKinds
  BY <1>3 DEF Decided, TypeOK
<1>12. match # None => match \in Ids
  BY <1>11 DEF TypeOK, Option
<1>13. evidence # <<>> => evidence[1] \in Ids
  <2>1. evidence \in Seq(Ids)
    BY <1>11 DEF TypeOK
  <2>2. evidence # <<>> => 1 \in 1..Len(evidence)
    BY <2>1
  <2> QED
    BY <2>1, <2>2, ElementOf
<1>14. ASSUME NEW id \in Ids
       PROVE  Result(id) \in Results
  BY <1>11 DEF Result, Results, TypeOK
<1>15. answer' \in Option(Results)
  BY <1>1, <1>12, <1>13, <1>14 DEF Option
<1>16. TypeOK'
  BY <1>1, <1>11, <1>15 DEF TypeOK, Stages
<1> QED
  BY <1>6, <1>7, <1>8, <1>9, <1>10, <1>16 DEF CascadeInv

LEMMA FailStep ==
  ASSUME CascadeInv, Fail
  PROVE  CascadeInv'
<1>1. /\ stage \notin {"answered", "failed"} /\ stage' = "failed"
      /\ UNCHANGED <<query, tried, match, kind, list, at, seen, context, evidence, answer>>
  BY DEF Fail, loop
<1>2. TypeOK'
  BY <1>1 DEF CascadeInv, TypeOK, Stages
<1>3. LoopInv' /\ FilledInv' /\ PrimaryInv'
  BY <1>1 DEF LoopInv, FilledInv, PrimaryInv, Filling
<1>4. AnswerInv'
  BY <1>1 DEF CascadeInv, AnswerInv
<1>5. MatchInv'
  BY <1>1, SameSources DEF CascadeInv, MatchInv, Filling
<1> QED
  BY <1>2, <1>3, <1>4, <1>5 DEF CascadeInv

LEMMA Stutter ==
  ASSUME CascadeInv, UNCHANGED vars
  PROVE  CascadeInv'
<1>1. UNCHANGED <<query, stage, tried, match, kind, list, at, seen, context, evidence, answer>>
  BY DEF vars, loop
<1>2. Sources' = Sources /\ Parents(match)' = Parents(match)
  BY <1>1, SameSources
<1>3. \A i : IsFirstSource(i)' <=> IsFirstSource(i)
  BY <1>2 DEF IsFirstSource, GivesFirst
<1>4. Done' = Done
  BY <1>1, <1>2 DEF Done, Base
<1>5. FilledInv'
  BY <1>1, <1>2, <1>3, <1>4
     DEF CascadeInv, FilledInv, FirstRecords, IsFirstGiven, GivesFirst, Filling
<1>6. LoopInv' /\ PrimaryInv'
  BY <1>1, <1>2, <1>4 DEF CascadeInv, LoopInv, PrimaryInv, Filling
<1>7. MatchInv'
  BY <1>1, SameSources DEF CascadeInv, MatchInv, Filling, Nothing
<1>8. TypeOK' /\ AnswerInv'
  BY <1>1 DEF CascadeInv, TypeOK, AnswerInv, Result
<1> QED
  BY <1>5, <1>6, <1>7, <1>8 DEF CascadeInv

-----------------------------------------------------------------------------
(* Theorems *)

LEMMA InitInv == Init => CascadeInv
<1> SUFFICES ASSUME Init PROVE CascadeInv
  OBVIOUS
<1>1. /\ query \in Queries /\ stage = "address" /\ tried = 0 /\ match = None /\ kind = None
      /\ list = <<>> /\ at = 0 /\ seen = {} /\ context = Nothing /\ evidence = <<>>
      /\ answer = None
  BY DEF Init
<1>2. query.estimates \in Seq(Ids) /\ Len(query.estimates) \in Nat
  BY <1>1, QueryType
<1>3. tried \in 0..Len(query.estimates) /\ at \in 0..Len(list)
      /\ list \in Seq(Option(Ids)) /\ evidence \in Seq(Ids)
  BY <1>1, <1>2, EmptyList
<1>4. TypeOK
  BY <1>1, <1>3, NothingGiven DEF TypeOK, Stages, Option
<1>5. MatchInv
  BY <1>1, NoKind DEF MatchInv, MatchKinds, Filling
<1>6. LoopInv /\ FilledInv /\ PrimaryInv /\ AnswerInv
  BY <1>1 DEF LoopInv, FilledInv, PrimaryInv, AnswerInv, Filling
<1> QED
  BY <1>4, <1>5, <1>6 DEF CascadeInv

(* The cascade keeps what it has found in order with what it has asked.     *)
THEOREM CascadeInvariant == Spec => []CascadeInv
<1>1. CascadeInv /\ [Next]_vars => CascadeInv'
  BY FindAddressStep, NoAddressStep, TryEstimateStep, NoEstimateStep, FindStreetStep,
     NoStreetStep, VisitRecordStep, EndParentsStep, AnswerStep, FailStep, Stutter DEF Next
<1> QED
  BY InitInv, <1>1, PTL DEF Spec

(* Type correctness (src/reverse.rs, reverse).                              *)
THEOREM TypeCorrect == Spec => []TypeOK
<1>1. CascadeInv => TypeOK
  BY DEF CascadeInv
<1> QED
  BY CascadeInvariant, <1>1, PTL

(* A field of an answer has the value of the first source that gives it     *)
(* (enrich_context and apply_context_record).                               *)
THEOREM FieldsCorrect == Spec => []FieldsComeFirst
<1>1. CascadeInv => FieldsComeFirst
  BY DEF CascadeInv, FilledInv, FieldsComeFirst, Done
<1> QED
  BY CascadeInvariant, <1>1, PTL

(* context_record_ids are exactly the records that gave a field, each once  *)
(* (apply_context_record and the `seen` of its callers).                    *)
THEOREM EvidenceCorrect == Spec => []EvidenceExact
<1>1. CascadeInv => EvidenceExact
  BY DEF CascadeInv, FilledInv, EvidenceExact, FirstRecords, Done
<1> QED
  BY CascadeInvariant, <1>1, PTL

(* The answer is of the best kind and names its record (reverse and its     *)
(* four stages).                                                            *)
THEOREM MatchCorrect == Spec => []BestMatchNamed
<1>1. CascadeInv => BestMatchNamed
  <2> SUFFICES ASSUME CascadeInv, stage = "answered"
               PROVE  BestMatchNamed
    BY DEF BestMatchNamed
  <2>1. /\ TypeOK /\ MatchInv /\ PrimaryInv /\ AnswerInv
        /\ kind \in MatchKinds /\ (match = None <=> kind = "context_only")
    BY DEF CascadeInv, MatchInv
  <2>2. Decided /\ Done = Len(Sources)
    BY <2>1 DEF Decided, Done
  <2>3. ASSUME NEW id \in Ids
        PROVE  /\ Result(id) # None /\ Result(id).kind = kind /\ Result(id).primary = id
    <3>1. Result(id) \in Results
      BY <2>1 DEF Result, Results, TypeOK
    <3> QED
      BY <3>1, NoneAssumption DEF Result
  <2>4. CASE kind # "context_only"
    <3>1. match \in Ids /\ answer = Result(match)
      BY <2>1, <2>4 DEF AnswerInv, TypeOK, Option
    <3>2. answer # None /\ answer.kind = kind /\ answer.primary = match
      BY <2>3, <3>1
    <3>3. CASE kind = "explicit_address"
      BY <2>1, <3>2, <3>3 DEF MatchInv, BestMatchNamed
    <3>4. CASE kind = "estimated_address"
      BY <2>1, <3>2, <3>4 DEF MatchInv, BestMatchNamed, NearestOf
    <3>5. CASE kind = "nearest_street"
      BY <2>1, <3>2, <3>5 DEF MatchInv, BestMatchNamed
    <3> QED
      BY <2>1, <2>4, <3>3, <3>4, <3>5 DEF MatchKinds
  <2>5. CASE kind = "context_only"
    <3>1. /\ ~ IsA(query.address, "address") /\ Usable = {} /\ ~ IsA(query.street, "street")
          /\ match = None
      BY <2>1, <2>5 DEF MatchInv
    <3>2. /\ Sources = FromNearby /\ Len(Sources) = Len(query.nearby)
          /\ Len(query.nearby) \in Nat
      BY <2>2, <2>5, Shape, DecidedTypes
    <3>3. CASE evidence = <<>>
      <4>1. answer = None
        BY <2>1, <3>1, <3>3 DEF AnswerInv
      <4>2. Telling = {}
        BY <2>1, <2>2, <2>5, <3>2, <3>3 DEF PrimaryInv, Telling
      <4> QED
        BY <3>1, <4>1, <4>2 DEF BestMatchNamed
    <3>4. CASE evidence # <<>>
      <4>1. PICK i \in 1..Len(query.nearby) :
              /\ FromNearby[i].record = evidence[1] /\ FromNearby[i].gives # Nothing
              /\ \A j \in 1..i - 1 : FromNearby[j].gives = Nothing
        BY <2>1, <2>2, <2>5, <3>2, <3>4 DEF PrimaryInv
      <4>2. query.nearby[i] = evidence[1] /\ evidence[1] \in Ids
        <5>1. query.nearby \in Seq(Ids)
          BY <2>2, DecidedTypes
        <5>2. FromNearby[i].record = query.nearby[i]
          BY DEF FromNearby, Source
        <5> QED
          BY <4>1, <5>1, <5>2, ElementOf
      <4>3. answer = Result(evidence[1])
        BY <2>1, <3>1, <3>4 DEF AnswerInv
      <4>4. answer # None /\ answer.kind = "context_only" /\ answer.primary = query.nearby[i]
        BY <2>3, <2>5, <4>2, <4>3
      <4>5. i \in Telling /\ \A j \in Telling : j \notin 1..i - 1
        BY <4>1 DEF Telling
      <4>6. \A j \in 1..Len(query.nearby) : j \notin 1..i - 1 => i <= j
        BY <3>2
      <4>7. \A j \in Telling : i <= j
        BY <4>5, <4>6 DEF Telling
      <4> QED
        BY <3>1, <4>4, <4>5, <4>7 DEF BestMatchNamed, NearestOf
    <3> QED
      BY <3>3, <3>4
  <2> QED
    BY <2>4, <2>5
<1> QED
  BY CascadeInvariant, <1>1, PTL


-----------------------------------------------------------------------------
(* Integer division *)

(* Multiplication by a natural number keeps the order. *)
LEMMA MulMono ==
  ASSUME NEW a \in Nat, NEW b \in Nat, NEW c \in Nat, a <= b
  PROVE  a * c <= b * c
BY Z3

(* A quotient is below m when the dividend is below m times the divisor. *)
LEMMA DivLess ==
  ASSUME NEW a \in Nat, NEW d \in Nat \ {0}, NEW m \in Nat, a < m * d
  PROVE  a \div d \in 0..m - 1
OBVIOUS

(* Division by a positive number keeps the order. *)
LEMMA DivMono ==
  ASSUME NEW a \in Nat, NEW b \in Nat, NEW d \in Nat \ {0}, a <= b
  PROVE  a \div d \in Nat /\ b \div d \in Nat /\ a \div d <= b \div d
OBVIOUS

(* A remainder smaller than the divisor does not change the quotient. *)
LEMMA DivExact ==
  ASSUME NEW m \in Nat, NEW r \in Nat, NEW d \in Nat \ {0}, r < d
  PROVE  (m * d + r) \div d = m
OBVIOUS

(* A number without remainder is its quotient times the divisor. *)
LEMMA ModZero ==
  ASSUME NEW a \in Nat, NEW d \in Nat \ {0}, a % d = 0
  PROVE  a \div d \in Nat /\ a = (a \div d) * d
OBVIOUS

(* A multiple has no remainder. *)
LEMMA MulMod ==
  ASSUME NEW k \in Nat, NEW d \in Nat \ {0}
  PROVE  (k * d) % d = 0
OBVIOUS

-----------------------------------------------------------------------------
(* The reverse geocoder's estimate *)

(* What the estimate relies on and never checks. *)
ValidRange(range) ==
  /\ range.start \in 1..NumberLimit - 1
  /\ range.end \in 1..NumberLimit - 1
  /\ range.step \in 1..NumberLimit - 1
  /\ range.start < range.end
  /\ (range.end - range.start) % range.step = 0

StepsIn(range) == (range.end - range.start) \div range.step
StepsAt(range, position) ==
  (2 * position * (range.end - range.start) + Scale * range.step)
    \div (2 * Scale * range.step)

(* A valid range is a whole number of steps long. *)
LEMMA SpanIsSteps ==
  ASSUME NEW range, ValidRange(range)
  PROVE  /\ StepsIn(range) \in Nat
         /\ range.end - range.start = StepsIn(range) * range.step
<1>1. range.step \in Nat \ {0} /\ range.end - range.start \in Nat
  BY NumbersAssumption DEF ValidRange
<1> QED
  BY <1>1, ModZero DEF ValidRange, StepsIn

(* The rounded number of steps lies between none and all of them, is none   *)
(* at the start of the line and all at its end.                             *)
LEMMA StepsBounded ==
  ASSUME NEW range, ValidRange(range), NEW p \in Positions
  PROVE  /\ StepsIn(range) \in Nat
         /\ StepsAt(range, p) \in 0..StepsIn(range)
         /\ p = 0 => StepsAt(range, p) = 0
         /\ p = Scale => StepsAt(range, p) = StepsIn(range)
<1> DEFINE span == range.end - range.start
           n    == StepsIn(range)
           d    == 2 * Scale * range.step
<1>1. /\ range.step \in Nat \ {0} /\ span \in Nat
      /\ Scale \in Nat \ {0} /\ p \in Nat /\ p <= Scale
  BY NumbersAssumption DEF ValidRange, Positions
<1>2. n \in Nat /\ span = n * range.step
  BY SpanIsSteps
<1>3. d \in Nat \ {0} /\ Scale * range.step \in Nat /\ Scale * range.step < d
  <2>1. Scale * range.step \in Nat \ {0}
    BY <1>1
  <2>2. d = 2 * (Scale * range.step)
    BY <1>1
  <2> QED
    BY <2>1, <2>2
<1>4. 2 * p * span + Scale * range.step < (n + 1) * d
  <2>1. p * span <= Scale * span
    BY <1>1, MulMono
  <2>2. 2 * p * span = 2 * (p * span)
    BY <1>1
  <2>3. Scale * span = n * (Scale * range.step)
    BY <1>1, <1>2
  <2>4. (n + 1) * d = 2 * (n * (Scale * range.step)) + d
    BY <1>1, <1>2
  <2>5. p * span \in Nat /\ Scale * span \in Nat /\ n * (Scale * range.step) \in Nat
    BY <1>1, <1>2, <1>3
  <2> HIDE DEF span, n, d
  <2> QED
    BY <1>3, <2>1, <2>2, <2>3, <2>4, <2>5
<1>5. 2 * p * span + Scale * range.step \in Nat
  BY <1>1, <1>3
<1>6. StepsAt(range, p) \in 0..n
  <2>1. (2 * p * span + Scale * range.step) \div d \in 0..(n + 1) - 1
    <3> HIDE DEF span, n, d
    <3> QED
      BY <1>2, <1>3, <1>4, <1>5, DivLess
  <2> QED
    BY <2>1, <1>2 DEF StepsAt
<1>7. p = 0 => StepsAt(range, p) = 0
  <2> HAVE p = 0
  <2>1. 2 * p * span + Scale * range.step = Scale * range.step
    BY <1>1, <1>3
  <2>2. (Scale * range.step) \div d \in 0..1 - 1
    <3> HIDE DEF d
    <3> QED
      BY <1>3, DivLess
  <2> QED
    BY <2>1, <2>2 DEF StepsAt
<1>8. p = Scale => StepsAt(range, p) = n
  <2> HAVE p = Scale
  <2>1. 2 * p * span = n * d
    BY <1>1, <1>2
  <2>2. (n * d + Scale * range.step) \div d = n
    <3> HIDE DEF n, d
    <3> QED
      BY <1>2, <1>3, DivExact
  <2> QED
    BY <2>1, <2>2 DEF StepsAt
<1> QED
  BY <1>2, <1>6, <1>7, <1>8

(* In a valid range the u32 arithmetic never wraps and the cap at the end   *)
(* of the range is never needed: the estimate is the start plus the rounded *)
(* number of steps.                                                         *)
LEMMA EstimateIsExact ==
  ASSUME NEW range, ValidRange(range), NEW p \in Positions
  PROVE  /\ StepsAt(range, p) \in 0..StepsIn(range)
         /\ EstimatedNumber(range, p)
              = range.start + StepsAt(range, p) * range.step
         /\ EstimatedNumber(range, p) \in range.start..range.end
<1> DEFINE k == StepsAt(range, p)
           n == StepsIn(range)
<1>1. k \in Nat /\ n \in Nat /\ k <= n
  BY StepsBounded
<1>2. /\ range.step \in Nat \ {0} /\ range.start \in Nat /\ range.end \in Nat
      /\ range.start < range.end /\ range.end < NumberLimit /\ NumberLimit \in Nat
  BY NumbersAssumption DEF ValidRange
<1>3. range.end - range.start = n * range.step
  BY SpanIsSteps
<1>4. k * range.step \in Nat /\ k * range.step <= range.end - range.start
  <2> HIDE DEF k, n
  <2> QED
    BY <1>1, <1>2, <1>3, MulMono
<1>5. Wrap(k * range.step) = k * range.step
  <2> HIDE DEF k, n
  <2> QED
    BY <1>2, <1>4 DEF Wrap
<1>6. Wrap(range.start + k * range.step) = range.start + k * range.step
  <2> HIDE DEF k, n
  <2> QED
    BY <1>2, <1>4 DEF Wrap
<1>7. EstimatedNumber(range, p) = range.start + k * range.step
  <2>1. EstimatedNumber(range, p)
          = IF Wrap(range.start + Wrap(k * range.step)) < range.end
            THEN Wrap(range.start + Wrap(k * range.step)) ELSE range.end
    BY DEF EstimatedNumber, StepsAt
  <2> HIDE DEF k, n
  <2> QED
    BY <2>1, <1>2, <1>4, <1>5, <1>6
<1> HIDE DEF k, n
<1>8. EstimatedNumber(range, p) \in range.start..range.end
  BY <1>2, <1>4, <1>7
<1> QED
  BY <1>1, <1>7, <1>8 DEF k, n

-----------------------------------------------------------------------------
(* What the builder accepts *)

AcceptedPairs ==
  {p \in Indices \X Indices : Neighbours(p[1], p[2]) /\ Accepted(p[1], p[2])}
AcceptedRanges == {RangeOf(p[1], p[2]) : p \in AcceptedPairs}

(* Every range written is the range of two accepted neighbours. *)
BuilderInv ==
  /\ pc \in {"way", "pairs", "done"}
  /\ way \in Ways
  /\ pc = "pairs" => anchor \in Indices /\ Numeric(anchor)
  /\ records \in Seq(AcceptedRanges)

(* The range of two accepted neighbours is valid, its ends are the anchors' *)
(* own numbers, and they have the parity the way asks for.                  *)
LEMMA AcceptedIsValid ==
  ASSUME way \in Ways, NEW range \in AcceptedRanges
  PROVE  /\ ValidRange(range)
         /\ \E p \in AcceptedPairs :
              /\ range = RangeOf(p[1], p[2])
              /\ {range.from, range.to} = {p[1], p[2]}
         /\ way.nodes[range.from].number = range.start
         /\ way.nodes[range.to].number = range.end
         /\ way.rule = "odd"  => range.step = 2 /\ range.start % 2 = 1
         /\ way.rule = "even" => range.step = 2 /\ range.start % 2 = 0
<1>1. PICK p \in AcceptedPairs : range = RangeOf(p[1], p[2])
  BY DEF AcceptedRanges
<1> DEFINE i == p[1]
           j == p[2]
           a == way.nodes[i].number
           b == way.nodes[j].number
<1>2. i \in Indices /\ j \in Indices /\ Neighbours(i, j) /\ Accepted(i, j)
  BY DEF AcceptedPairs
<1>3. a \in 1..NumberLimit - 1 /\ b \in 1..NumberLimit - 1
  BY <1>2, WaysAssumption, NumbersAssumption DEF Neighbours, Numeric, Indices
<1>4. Step \in 1..NumberLimit - 1 /\ (way.rule \in {"odd", "even"} => Step = 2)
  BY WaysAssumption, NumbersAssumption DEF Step
<1>5. {Low(i, j), High(i, j)} = {i, j}
  BY DEF Low, High
<1>6. RangeIsValid(way.nodes[Low(i, j)].number, way.nodes[High(i, j)].number)
  BY <1>2 DEF Accepted
<1>7. /\ range.start = way.nodes[Low(i, j)].number
      /\ range.end = way.nodes[High(i, j)].number
      /\ range.step = Step
      /\ range.from = Low(i, j) /\ range.to = High(i, j)
  BY <1>1 DEF RangeOf
<1>8. {range.start, range.end} \subseteq 1..NumberLimit - 1
  BY <1>3, <1>5, <1>7
<1>9. ValidRange(range)
  BY <1>4, <1>6, <1>7, <1>8 DEF ValidRange, RangeIsValid
<1>10. /\ way.rule = "odd"  => range.start % 2 = 1
       /\ way.rule = "even" => range.start % 2 = 0
  BY <1>6, <1>7 DEF RangeIsValid
<1> QED
  BY <1>1, <1>4, <1>5, <1>7, <1>9, <1>10

(* The builder's invariant holds at every step. *)
LEMMA BuilderInvariant == WaySpec => []BuilderInv
<1>1. WayInit => BuilderInv
  <2> SUFFICES ASSUME WayInit PROVE BuilderInv
    OBVIOUS
  <2>1. records \in Seq(AcceptedRanges)
    BY DEF WayInit
  <2> QED
    BY <2>1 DEF WayInit, BuilderInv
<1>2. BuilderInv /\ [WayNext]_wayVars => BuilderInv'
  <2> SUFFICES ASSUME BuilderInv, [WayNext]_wayVars PROVE BuilderInv'
    OBVIOUS
  <2>1. way' = way
    BY DEF WayNext, wayVars, RejectWay, StartPairs, WritePair, RejectPair, Finish
  <2>2. /\ AcceptedRanges' = AcceptedRanges /\ Indices' = Indices
        /\ \A i : Numeric(i)' <=> Numeric(i)
    BY <2>1 DEF AcceptedRanges, AcceptedPairs, Indices, Numeric, Neighbours,
                Accepted, RangeIsValid, Low, High, Step, AddressAgrees, Agrees,
                Street, Place, AgreedValue, RangeOf
  <2> USE <2>1, <2>2 DEF BuilderInv
  <2>3. CASE RejectWay
    BY <2>3 DEF RejectWay
  <2>4. ASSUME NEW first \in Indices, StartPairs(first) PROVE BuilderInv'
    BY <2>4 DEF StartPairs
  <2>5. ASSUME NEW next \in Indices, WritePair(next) PROVE BuilderInv'
    <3>1. RangeOf(anchor, next) \in AcceptedRanges
      <4>1. <<anchor, next>> \in AcceptedPairs
        BY <2>5 DEF WritePair, AcceptedPairs
      <4> QED
        BY <4>1 DEF AcceptedRanges
    <3>2. records' \in Seq(AcceptedRanges)
      BY <2>5, <3>1 DEF WritePair
    <3>3. Numeric(next)
      BY <2>5 DEF WritePair, Neighbours
    <3> QED
      BY <2>5, <3>2, <3>3 DEF WritePair
  <2>6. ASSUME NEW next \in Indices, RejectPair(next) PROVE BuilderInv'
    <3>1. Numeric(next)
      BY <2>6 DEF RejectPair, Neighbours
    <3> QED
      BY <2>6, <3>1 DEF RejectPair
  <2>7. CASE Finish
    BY <2>7 DEF Finish
  <2>8. CASE UNCHANGED wayVars
    BY <2>8 DEF wayVars
  <2> QED
    BY <2>3, <2>4, <2>5, <2>6, <2>7, <2>8 DEF WayNext
<1> QED
  BY <1>1, <1>2, PTL DEF WaySpec

-----------------------------------------------------------------------------
(* The theorems *)

(* Each range written has numbers and a step within u32, and the loop only  *)
(* stands on numeric nodes.                                                 *)
THEOREM RangesTypeCorrect == WaySpec => []RangesTypeOK
<1>1. BuilderInv => RangesTypeOK
  <2> SUFFICES ASSUME BuilderInv PROVE RangesTypeOK
    OBVIOUS
  <2>1. ASSUME NEW n \in 1..Len(records) PROVE ValidRange(records[n])
    <3>1. records[n] \in AcceptedRanges
      BY <2>1 DEF BuilderInv
    <3> QED
      BY <3>1, AcceptedIsValid DEF BuilderInv
  <2> QED
    BY <2>1 DEF BuilderInv, RangesTypeOK, ValidRange
<1> QED
  BY <1>1, BuilderInvariant, PTL

(* Every estimate of the reverse geocoder is a house of the range, for any  *)
(* way, width of numbers and resolution of positions.                       *)
THEOREM EstimatesCorrect == WaySpec => []EstimatesAreHouses
<1>1. BuilderInv => EstimatesAreHouses
  <2> SUFFICES ASSUME BuilderInv,
                      NEW n \in 1..Len(records), NEW p \in Positions
               PROVE  LET range  == records[n]
                          number == EstimatedNumber(range, p)
                      IN /\ number \in range.start..range.end
                         /\ (number - range.start) % range.step = 0
                         /\ way.rule = "odd"  => number % 2 = 1
                         /\ way.rule = "even" => number % 2 = 0
    BY DEF EstimatesAreHouses
  <2> DEFINE range  == records[n]
             number == EstimatedNumber(range, p)
             k      == StepsAt(range, p)
  <2>1. range \in AcceptedRanges /\ way \in Ways
    BY DEF BuilderInv
  <2>2. /\ ValidRange(range)
        /\ way.rule = "odd"  => range.step = 2 /\ range.start % 2 = 1
        /\ way.rule = "even" => range.step = 2 /\ range.start % 2 = 0
    BY <2>1, AcceptedIsValid
  <2>3. /\ k \in 0..StepsIn(range)
        /\ number = range.start + k * range.step
        /\ number \in range.start..range.end
    BY <2>2, EstimateIsExact
  <2>4. k \in Nat
    BY <2>2, <2>3, StepsBounded
  <2>5. range.start \in Nat /\ range.step \in Nat \ {0}
    BY <2>2, NumbersAssumption DEF ValidRange
  <2> HIDE DEF range, number, k
  <2>6. number - range.start = k * range.step
    BY <2>3, <2>4, <2>5
  <2>7. (number - range.start) % range.step = 0
    BY <2>4, <2>5, <2>6, MulMod
  <2>8. way.rule = "odd" => number % 2 = 1
    BY <2>2, <2>3, <2>4, <2>5
  <2>9. way.rule = "even" => number % 2 = 0
    BY <2>2, <2>3, <2>4, <2>5
  <2> QED
    BY <2>3, <2>7, <2>8, <2>9 DEF range, number
<1> QED
  BY <1>1, BuilderInvariant, PTL

(* The line of a range runs from the anchor with the lower number to the    *)
(* one with the higher, whichever comes first along the way.                *)
THEOREM LineCorrect == WaySpec => []LineRunsFromLowToHigh
<1>1. BuilderInv => LineRunsFromLowToHigh
  <2> SUFFICES ASSUME BuilderInv, NEW n \in 1..Len(records)
               PROVE  LET range == records[n]
                      IN /\ way.nodes[range.from].number = EstimatedNumber(range, 0)
                         /\ way.nodes[range.to].number = EstimatedNumber(range, Scale)
                         /\ \A i \in Indices :
                              (range.from < i /\ i < range.to)
                                \/ (range.to < i /\ i < range.from)
                              => ~ Numeric(i)
    BY DEF LineRunsFromLowToHigh
  <2> DEFINE range == records[n]
  <2>1. range \in AcceptedRanges /\ way \in Ways
    BY DEF BuilderInv
  <2>2. /\ ValidRange(range)
        /\ way.nodes[range.from].number = range.start
        /\ way.nodes[range.to].number = range.end
    BY <2>1, AcceptedIsValid
  <2>3. 0 \in Positions /\ Scale \in Positions
    BY NumbersAssumption DEF Positions
  <2>4. EstimatedNumber(range, 0) = range.start
    <3>1. EstimatedNumber(range, 0) = range.start + 0 * range.step
      BY <2>2, <2>3, EstimateIsExact, StepsBounded
    <3> QED
      BY <3>1, <2>2 DEF ValidRange
  <2>5. EstimatedNumber(range, Scale) = range.end
    <3>1. EstimatedNumber(range, Scale)
            = range.start + StepsIn(range) * range.step
      BY <2>2, <2>3, EstimateIsExact, StepsBounded
    <3>2. range.end - range.start = StepsIn(range) * range.step
      BY <2>2, SpanIsSteps
    <3> HIDE DEF range
    <3> QED
      BY <3>1, <3>2, <2>2, NumbersAssumption DEF ValidRange
  <2>6. ASSUME NEW i \in Indices,
               (range.from < i /\ i < range.to) \/ (range.to < i /\ i < range.from)
        PROVE  ~ Numeric(i)
    <3>1. PICK p \in AcceptedPairs : {range.from, range.to} = {p[1], p[2]}
      BY <2>1, AcceptedIsValid
    <3>2. p[1] \in Nat /\ p[2] \in Nat /\ i \in Nat /\ p[1] < p[2]
      BY <2>1, WaysAssumption DEF AcceptedPairs, Neighbours, Indices
    <3>3. \/ range.from = p[1] /\ range.to = p[2]
          \/ range.from = p[2] /\ range.to = p[1]
      BY <3>1
    <3>4. i \in p[1] + 1..p[2] - 1
      BY <2>6, <3>2, <3>3
    <3> QED
      BY <3>4 DEF AcceptedPairs, Neighbours
  <2> QED
    BY <2>2, <2>4, <2>5, <2>6
<1> QED
  BY <1>1, BuilderInvariant, PTL

(* Farther along the line of a range, the estimate is never lower. *)
THEOREM EstimatesMonotone == WaySpec => []EstimatesGrow
<1>1. BuilderInv => EstimatesGrow
  <2> SUFFICES ASSUME BuilderInv, NEW n \in 1..Len(records),
                      NEW p \in Positions, NEW q \in Positions, p <= q
               PROVE  EstimatedNumber(records[n], p) <= EstimatedNumber(records[n], q)
    BY DEF EstimatesGrow
  <2> DEFINE range == records[n]
             span  == range.end - range.start
  <2>1. ValidRange(range)
    BY AcceptedIsValid DEF BuilderInv
  <2>2. /\ span \in Nat /\ range.step \in Nat \ {0} /\ Scale \in Nat \ {0}
        /\ p \in Nat /\ q \in Nat /\ range.start \in Nat
    BY <2>1, NumbersAssumption DEF ValidRange, Positions
  <2>3. 2 * p * span <= 2 * q * span
    <3>1. 2 * p \in Nat /\ 2 * q \in Nat /\ 2 * p <= 2 * q
      BY <2>2
    <3> QED
      BY <3>1, <2>2, MulMono
  <2>4. StepsAt(range, p) \in Nat /\ StepsAt(range, q) \in Nat
          /\ StepsAt(range, p) <= StepsAt(range, q)
    <3>1. /\ 2 * p * span + Scale * range.step \in Nat
          /\ 2 * q * span + Scale * range.step \in Nat
          /\ 2 * p * span + Scale * range.step <= 2 * q * span + Scale * range.step
      <4>1. 2 * p * span \in Nat /\ 2 * q * span \in Nat /\ Scale * range.step \in Nat
        BY <2>2
      <4> HIDE DEF span, range
      <4> QED
        BY <4>1, <2>3
    <3>2. 2 * Scale * range.step \in Nat \ {0}
      BY <2>2
    <3> QED
      BY <3>1, <3>2, DivMono DEF StepsAt
  <2>5. /\ EstimatedNumber(range, p) = range.start + StepsAt(range, p) * range.step
        /\ EstimatedNumber(range, q) = range.start + StepsAt(range, q) * range.step
    BY <2>1, EstimateIsExact
  <2> HIDE DEF range
  <2>6. StepsAt(range, p) * range.step <= StepsAt(range, q) * range.step
    BY <2>2, <2>4, MulMono
  <2>7. EstimatedNumber(range, p) <= EstimatedNumber(range, q)
    BY <2>2, <2>4, <2>5, <2>6
  <2> QED
    BY <2>7 DEF range
<1> QED
  BY <1>1, BuilderInvariant, PTL

(* Along a range's line the estimates go from one anchor's house number to  *)
(* the other's and never back.                                              *)
THEOREM EstimatesFollow == WaySpec => []EstimatesFollowTheLine
BY LineCorrect, EstimatesMonotone, PTL DEF EstimatesFollowTheLine

(* Values that agree are one, if any, and what they give a range is that    *)
(* one.                                                                     *)
LEMMA AgreedIsOne ==
  ASSUME NEW own, NEW start, NEW end, Agrees(own, start, end)
  PROVE  /\ Cardinality({own, start, end} \ {Untagged}) <= 1
         /\ AgreedValue(own, start, end) \in {own, start, end} \cup {Untagged}
<1> DEFINE S == {own, start, end} \ {Untagged}
<1>1. S \subseteq {own} \/ S \subseteq {start} \/ S \subseteq {end}
  BY DEF Agrees
<1>2. PICK x : S \subseteq {x}
  BY <1>1
<1> DEFINE T == {x}
<1>3. IsFiniteSet(T) /\ Cardinality(T) = 1 /\ S \in SUBSET T
  BY <1>2, FS_Singleton
<1> HIDE DEF S, T
<1>4. IsFiniteSet(S) /\ Cardinality(S) <= Cardinality(T)
  BY <1>3, FS_Subset
<1>5. Cardinality(S) <= 1
  BY <1>3, <1>4
<1>6. AgreedValue(own, start, end) \in {own, start, end} \cup {Untagged}
  BY DEF AgreedValue
<1> QED
  BY <1>5, <1>6 DEF S

(* The way and the two anchors of a range name no two streets and no two    *)
(* places, and the range has those they name (segment_address).             *)
THEOREM AddressCorrect == WaySpec => []AddressNotContradicted
<1>1. BuilderInv => AddressNotContradicted
  <2> SUFFICES ASSUME BuilderInv, NEW n \in 1..Len(records)
               PROVE  LET range   == records[n]
                          streets == {way.street, way.nodes[range.from].street,
                                      way.nodes[range.to].street}
                          places  == {way.place, way.nodes[range.from].place,
                                      way.nodes[range.to].place}
                      IN /\ range.street # Untagged \/ range.place # Untagged
                         /\ Cardinality(streets \ {Untagged}) <= 1
                         /\ range.street \in streets \cup {Untagged}
                         /\ Cardinality(places \ {Untagged}) <= 1
                         /\ range.place \in places \cup {Untagged}
    BY DEF AddressNotContradicted
  <2> DEFINE range == records[n]
  <2>1. range \in AcceptedRanges
    BY DEF BuilderInv
  <2>2. PICK p \in AcceptedPairs : range = RangeOf(p[1], p[2])
    BY <2>1 DEF AcceptedRanges
  <2> DEFINE low  == Low(p[1], p[2])
             high == High(p[1], p[2])
  <2>3. AddressAgrees(low, high)
    BY DEF AcceptedPairs, Accepted
  <2>4. /\ range.from = low /\ range.to = high
        /\ range.street = Street(low, high) /\ range.place = Place(low, high)
    BY <2>2 DEF RangeOf
  <2> HIDE DEF range, low, high
  <2>5. range.street # Untagged \/ range.place # Untagged
    BY <2>3, <2>4 DEF AddressAgrees
  <2>6. LET streets == {way.street, way.nodes[low].street, way.nodes[high].street}
        IN /\ Cardinality(streets \ {Untagged}) <= 1
           /\ range.street \in streets \cup {Untagged}
    BY <2>3, <2>4, AgreedIsOne DEF AddressAgrees, Street
  <2>7. LET places == {way.place, way.nodes[low].place, way.nodes[high].place}
        IN /\ Cardinality(places \ {Untagged}) <= 1
           /\ range.place \in places \cup {Untagged}
    BY <2>3, <2>4, AgreedIsOne DEF AddressAgrees, Place
  <2> QED
    BY <2>4, <2>5, <2>6, <2>7 DEF range
<1> QED
  BY <1>1, BuilderInvariant, PTL

-----------------------------------------------------------------------------
(* The outcome of every pair *)

LessThan == {p \in Nat \X Nat : p[1] < p[2]}

(* A set of natural numbers that is not empty has a least element. *)
LEMMA LeastNumber ==
  ASSUME NEW S, S \subseteq Nat, NEW s \in S
  PROVE  \E least \in S : \A other \in S : least <= other
<1>1. IsWellFoundedOn(LessThan, Nat)
  BY NatLessThanWellFounded, Zenon DEF OpToRel, LessThan
<1>2. PICK least \in S : \A other \in S : ~ (<<other, least>> \in LessThan)
  BY <1>1, WFMin
<1>3. \A other \in S : ~ (other < least)
  BY <1>2 DEF LessThan
<1> QED
  BY <1>3

Pairs == {p \in Indices \X Indices : Neighbours(p[1], p[2])}
Written(p) ==
  {n \in 1..Len(records) : {records[n].from, records[n].to} = {p[1], p[2]}}
Rejected(p) == {n \in 1..Len(issues) : issues[n] = p}

(* Of two neighbours the second is the next numeric node after the first:   *)
(* pairs are apart, and none reaches past a numeric node.                   *)
LEMMA PairsAreApart ==
  ASSUME NEW p \in Pairs, NEW i \in Indices, Numeric(i), way \in Ways
  PROVE  /\ p[1] \in Nat /\ p[2] \in Nat /\ i \in Nat /\ p[1] < p[2]
         /\ i <= p[1] \/ p[2] <= i
         /\ \A q \in Pairs : q[2] = p[2] => q[1] = p[1]
         /\ p = <<p[1], p[2]>>
<1>1. p \in Indices \X Indices /\ Neighbours(p[1], p[2])
  BY DEF Pairs
<1>2. p[1] \in Nat /\ p[2] \in Nat /\ i \in Nat /\ p[1] < p[2] /\ p = <<p[1], p[2]>>
  BY <1>1, WaysAssumption DEF Indices, Neighbours
<1>3. ASSUME NEW k \in Indices, Numeric(k) PROVE k <= p[1] \/ p[2] <= k
  <2>1. k \notin p[1] + 1..p[2] - 1
    BY <1>1, <1>3 DEF Neighbours
  <2>2. k \in Nat
    BY DEF Indices
  <2> QED
    BY <2>1, <2>2, <1>2
<1>4. ASSUME NEW q \in Pairs, q[2] = p[2] PROVE q[1] = p[1]
  <2>1. q \in Indices \X Indices /\ Neighbours(q[1], q[2])
    BY DEF Pairs
  <2>2. /\ q[1] \in Indices /\ Numeric(q[1]) /\ q[1] \in Nat /\ q[1] < q[2]
        /\ p[1] \in Indices /\ Numeric(p[1])
    BY <2>1, <1>1 DEF Neighbours, Indices
  <2>3. q[1] <= p[1]
    BY <2>2, <1>2, <1>3, <1>4
  <2>4. p[1] \notin q[1] + 1..q[2] - 1
    BY <2>1, <2>2 DEF Neighbours
  <2> QED
    BY <2>2, <2>3, <2>4, <1>2, <1>4
<1> QED
  BY <1>2, <1>3, <1>4

(* Pairs up to the node the loop is at have one outcome, the others none,   *)
(* and at the end no pair is left.                                          *)
OutcomesInv ==
  /\ pc = "way" => records = <<>> /\ issues = <<>>
  /\ pc = "pairs" => IssueOfWay = "none"
  /\ pc = "done" /\ IssueOfWay # "none" => records = <<>> /\ Len(issues) = 1
  /\ pc # "way" /\ IssueOfWay = "none" =>
       /\ issues \in Seq(Pairs)
       /\ \A n \in 1..Len(records) : \E q \in Pairs :
            q[2] <= anchor /\ {records[n].from, records[n].to} = {q[1], q[2]}
       /\ \A n \in 1..Len(issues) : issues[n][2] <= anchor
       /\ \A p \in Pairs : p[2] <= anchor =>
            Cardinality(Written(p)) + Cardinality(Rejected(p)) = 1
       /\ pc = "done" => \A p \in Pairs : p[2] <= anchor

(* The loop at the first anchor of a pair that has no outcome yet.          *)
LEMMA NextPair ==
  ASSUME BuilderInv, OutcomesInv, pc = "pairs",
         NEW next \in Indices, Neighbours(anchor, next)
  PROVE  /\ <<anchor, next>> \in Pairs /\ anchor \in Nat /\ next \in Nat /\ anchor < next
         /\ Written(<<anchor, next>>) = {} /\ Rejected(<<anchor, next>>) = {}
         /\ \A p \in Pairs : p[2] <= next => p[2] <= anchor \/ p = <<anchor, next>>
<1>1. anchor \in Indices /\ Numeric(anchor) /\ way \in Ways /\ Numeric(next)
  BY DEF BuilderInv, Neighbours
<1>2. <<anchor, next>> \in Pairs
  BY <1>1 DEF Pairs
<1>3. anchor \in Nat /\ next \in Nat /\ anchor < next
  BY <1>1 DEF Neighbours, Indices
<1>4. Written(<<anchor, next>>) = {}
  <2> SUFFICES ASSUME NEW n \in 1..Len(records),
                      {records[n].from, records[n].to} = {anchor, next}
               PROVE  FALSE
    BY DEF Written
  <2>1. PICK q \in Pairs : q[2] <= anchor /\ {records[n].from, records[n].to} = {q[1], q[2]}
    BY DEF OutcomesInv
  <2>2. q[1] \in Nat /\ q[2] \in Nat /\ q[1] < q[2]
    BY <1>1, PairsAreApart
  <2>3. next = q[1] \/ next = q[2]
    BY <2>1
  <2> QED
    BY <2>1, <2>2, <2>3, <1>3
<1>5. Rejected(<<anchor, next>>) = {}
  BY <1>3 DEF OutcomesInv, Rejected
<1>6. ASSUME NEW p \in Pairs, p[2] <= next, ~ (p[2] <= anchor)
      PROVE  p = <<anchor, next>>
  <2>1. /\ p[1] \in Nat /\ p[2] \in Nat /\ p[1] < p[2] /\ p = <<p[1], p[2]>>
        /\ anchor <= p[1] \/ p[2] <= anchor
    BY <1>1, PairsAreApart
  <2>2. p[2] \in Indices /\ Numeric(p[2])
    BY DEF Pairs, Neighbours
  <2>3. p[2] <= anchor \/ next <= p[2]
    BY <1>2, <2>2, <1>1, PairsAreApart
  <2>4. p[2] = next
    BY <2>1, <2>3, <1>3, <1>6
  <2>5. p[1] = anchor
    BY <2>4, <1>2, <1>1, PairsAreApart
  <2> QED
    BY <2>1, <2>4, <2>5
<1> QED
  BY <1>2, <1>3, <1>4, <1>5, <1>6

(* Steps that write nothing leave the outcomes of all pairs as they are.    *)
LEMMA SamePairs ==
  ASSUME way' = way
  PROVE  /\ Pairs' = Pairs /\ (IssueOfWay' = IssueOfWay) /\ Indices' = Indices
         /\ \A i : Numeric(i)' <=> Numeric(i)
BY DEF Pairs, Indices, Neighbours, Numeric, HasNumber, IssueOfWay

(* What Append does. *)
LEMMA Appended ==
  ASSUME NEW S, NEW s \in Seq(S), NEW e
  PROVE  /\ 1..Len(Append(s, e)) = 1..Len(s) \cup {Len(s) + 1}
         /\ Len(s) + 1 \notin 1..Len(s)
         /\ Append(s, e)[Len(s) + 1] = e
         /\ \A n \in 1..Len(s) : Append(s, e)[n] = s[n]
<1>1. Len(s) \in Nat /\ Len(Append(s, e)) = Len(s) + 1
  OBVIOUS
<1>2. 1..Len(s) + 1 = 1..Len(s) \cup {Len(s) + 1} /\ Len(s) + 1 \notin 1..Len(s)
  BY <1>1
<1> QED
  BY <1>1, <1>2

LEMMA StartPairsOutcomes ==
  ASSUME BuilderInv, OutcomesInv, NEW first \in Indices, StartPairs(first)
  PROVE  OutcomesInv'
<1>1. /\ pc = "way" /\ IssueOfWay = "none" /\ pc' = "pairs" /\ anchor' = first /\ Numeric(first)
      /\ \A i \in 1..first - 1 : ~ Numeric(i)
      /\ way' = way /\ records' = records /\ issues' = issues
  BY DEF StartPairs
<1>2. records' = <<>> /\ issues' = <<>>
  BY <1>1 DEF OutcomesInv
<1>3. Pairs' = Pairs /\ IssueOfWay' = IssueOfWay
  BY <1>1, SamePairs
<1>4. ASSUME NEW p \in Pairs PROVE ~ (p[2] <= first)
  <2>1. p[1] \in Nat /\ p[2] \in Nat /\ first \in Nat /\ p[1] < p[2]
    BY <1>1, PairsAreApart DEF BuilderInv
  <2>2. p[1] \in Indices /\ Numeric(p[1]) /\ p[1] >= 1
    BY <2>1 DEF Pairs, Neighbours, Indices
  <2>3. p[1] \notin 1..first - 1
    BY <1>1, <2>2
  <2> QED
    BY <2>1, <2>2, <2>3
<1>5. issues' \in Seq(Pairs) /\ Len(records') = 0 /\ Len(issues') = 0
  BY <1>2
<1> QED
  BY <1>1, <1>2, <1>3, <1>4, <1>5 DEF OutcomesInv

LEMMA WritePairOutcomes ==
  ASSUME BuilderInv, OutcomesInv, NEW next \in Indices, WritePair(next)
  PROVE  OutcomesInv'
<1>1. /\ pc = "pairs" /\ pc' = pc /\ Neighbours(anchor, next) /\ anchor' = next
      /\ way' = way /\ issues' = issues /\ records' = Append(records, RangeOf(anchor, next))
  BY DEF WritePair
<1>2. /\ <<anchor, next>> \in Pairs /\ anchor \in Nat /\ next \in Nat /\ anchor < next
      /\ Written(<<anchor, next>>) = {} /\ Rejected(<<anchor, next>>) = {}
      /\ \A p \in Pairs : p[2] <= next => p[2] <= anchor \/ p = <<anchor, next>>
  BY <1>1, NextPair
<1>3. Pairs' = Pairs /\ IssueOfWay' = IssueOfWay /\ IssueOfWay = "none"
  BY <1>1, SamePairs DEF OutcomesInv
<1>4. /\ issues \in Seq(Pairs)
      /\ \A n \in 1..Len(records) : \E q \in Pairs :
           q[2] <= anchor /\ {records[n].from, records[n].to} = {q[1], q[2]}
      /\ \A n \in 1..Len(issues) : issues[n][2] <= anchor
      /\ \A p \in Pairs : p[2] <= anchor =>
           Cardinality(Written(p)) + Cardinality(Rejected(p)) = 1
  BY <1>1, <1>3 DEF OutcomesInv
<1> DEFINE new == RangeOf(anchor, next)
<1>5. {new.from, new.to} = {anchor, next}
  BY DEF RangeOf, Low, High
<1> DEFINE old == 1..Len(records)
           last == Len(records) + 1
<1>6. /\ 1..Len(records') = old \cup {last} /\ last \notin old
      /\ records'[last] = new
      /\ \A n \in old : records'[n] = records[n]
  BY <1>1, Appended DEF BuilderInv
<1> HIDE DEF new, old, last
<1>7. ASSUME NEW q \in Pairs PROVE q[1] \in Nat /\ q[2] \in Nat /\ q[1] < q[2]
  <2>1. anchor \in Indices /\ Numeric(anchor) /\ way \in Ways
    BY <1>1 DEF BuilderInv
  <2> QED
    BY <2>1, PairsAreApart
<1>8. \A n \in 1..Len(records') : \E q \in Pairs :
        q[2] <= next /\ {records'[n].from, records'[n].to} = {q[1], q[2]}
  <2> TAKE n \in 1..Len(records')
  <2>1. CASE n = last
    <3>1. <<anchor, next>>[2] <= next
      BY <1>2
    <3>2. {records'[n].from, records'[n].to} = {<<anchor, next>>[1], <<anchor, next>>[2]}
      BY <2>1, <1>5, <1>6
    <3> QED
      BY <3>1, <3>2, <1>2
  <2>2. CASE n \in old
    <3>1. PICK q \in Pairs : q[2] <= anchor /\ {records[n].from, records[n].to} = {q[1], q[2]}
      BY <2>2, <1>4 DEF old
    <3>2. q[2] <= next
      BY <3>1, <1>2, <1>7
    <3> QED
      BY <3>1, <3>2, <2>2, <1>6
  <2> QED
    BY <2>1, <2>2, <1>6
<1>9. \A n \in 1..Len(issues) : issues[n][2] <= next
  <2> TAKE n \in 1..Len(issues)
  <2>1. issues[n] \in Pairs
    BY <1>4
  <2> QED
    BY <2>1, <1>2, <1>4, <1>7
<1>10. ASSUME NEW p \in Pairs, p[2] <= next
       PROVE  Cardinality(Written(p)') + Cardinality(Rejected(p)') = 1
  <2>1. Rejected(p)' = Rejected(p)
    BY <1>1 DEF Rejected
  <2>2. CASE p[2] <= anchor
    <3>1. {new.from, new.to} # {p[1], p[2]}
      BY <2>2, <1>2, <1>5, <1>7
    <3>2. Written(p)' = Written(p)
      <4>1. \A n \in 1..Len(records') :
              n \in Written(p)' <=> n \in old /\ n \in Written(p)
        BY <3>1, <1>6 DEF Written, old
      <4> QED
        BY <4>1, <1>6 DEF Written, old
    <3> QED
      BY <2>1, <2>2, <3>2, <1>4
  <2>3. CASE p = <<anchor, next>>
    <3>1. Written(p)' = {last}
      <4>1. p[1] = anchor /\ p[2] = next
        BY <2>3
      <4>2. \A n \in old : {records[n].from, records[n].to} # {p[1], p[2]}
        BY <2>3, <1>2 DEF Written, old
      <4> QED
        BY <4>1, <4>2, <1>5, <1>6 DEF Written
    <3>2. Rejected(p) = {}
      BY <2>3, <1>2
    <3>3. Cardinality(Written(p)') = 1 /\ Cardinality(Rejected(p)') = 0
      BY <2>1, <3>1, <3>2, FS_Singleton, FS_EmptySet
    <3> QED
      BY <3>3
  <2> QED
    BY <2>2, <2>3, <1>2, <1>10
<1> QED
  BY <1>1, <1>3, <1>4, <1>8, <1>9, <1>10 DEF OutcomesInv

LEMMA RejectPairOutcomes ==
  ASSUME BuilderInv, OutcomesInv, NEW next \in Indices, RejectPair(next)
  PROVE  OutcomesInv'
<1>1. /\ pc = "pairs" /\ pc' = pc /\ Neighbours(anchor, next) /\ anchor' = next
      /\ way' = way /\ records' = records /\ issues' = Append(issues, <<anchor, next>>)
  BY DEF RejectPair
<1>2. /\ <<anchor, next>> \in Pairs /\ anchor \in Nat /\ next \in Nat /\ anchor < next
      /\ Written(<<anchor, next>>) = {} /\ Rejected(<<anchor, next>>) = {}
      /\ \A p \in Pairs : p[2] <= next => p[2] <= anchor \/ p = <<anchor, next>>
  BY <1>1, NextPair
<1>3. Pairs' = Pairs /\ IssueOfWay' = IssueOfWay /\ IssueOfWay = "none"
  BY <1>1, SamePairs DEF OutcomesInv
<1>4. /\ issues \in Seq(Pairs)
      /\ \A n \in 1..Len(records) : \E q \in Pairs :
           q[2] <= anchor /\ {records[n].from, records[n].to} = {q[1], q[2]}
      /\ \A n \in 1..Len(issues) : issues[n][2] <= anchor
      /\ \A p \in Pairs : p[2] <= anchor =>
           Cardinality(Written(p)) + Cardinality(Rejected(p)) = 1
  BY <1>1, <1>3 DEF OutcomesInv
<1>5. ASSUME NEW q \in Pairs PROVE q[1] \in Nat /\ q[2] \in Nat /\ q[1] < q[2]
  <2>1. anchor \in Indices /\ Numeric(anchor) /\ way \in Ways
    BY <1>1 DEF BuilderInv
  <2> QED
    BY <2>1, PairsAreApart
<1> DEFINE old == 1..Len(issues)
           last == Len(issues) + 1
<1>6. /\ issues' \in Seq(Pairs)
      /\ 1..Len(issues') = old \cup {last} /\ last \notin old
      /\ issues'[last] = <<anchor, next>>
      /\ \A n \in old : issues'[n] = issues[n]
  BY <1>1, <1>2, <1>4, Appended
<1> HIDE DEF old, last
<1>7. \A n \in 1..Len(records') : \E q \in Pairs :
        q[2] <= next /\ {records'[n].from, records'[n].to} = {q[1], q[2]}
  <2> TAKE n \in 1..Len(records')
  <2>1. PICK q \in Pairs : q[2] <= anchor /\ {records[n].from, records[n].to} = {q[1], q[2]}
    BY <1>1, <1>4
  <2>2. q[2] <= next
    BY <2>1, <1>2, <1>5
  <2> QED
    BY <2>1, <2>2, <1>1
<1>8. \A n \in 1..Len(issues') : issues'[n][2] <= next
  <2> TAKE n \in 1..Len(issues')
  <2>1. CASE n = last
    BY <2>1, <1>2, <1>6
  <2>2. CASE n \in old
    <3>1. issues[n] \in Pairs /\ issues[n][2] <= anchor
      BY <2>2, <1>4 DEF old
    <3> QED
      BY <3>1, <2>2, <1>2, <1>5, <1>6
  <2> QED
    BY <2>1, <2>2, <1>6
<1>9. ASSUME NEW p \in Pairs, p[2] <= next
      PROVE  Cardinality(Written(p)') + Cardinality(Rejected(p)') = 1
  <2>1. Written(p)' = Written(p)
    BY <1>1 DEF Written
  <2>2. CASE p[2] <= anchor
    <3>1. p # <<anchor, next>>
      BY <2>2, <1>2, <1>5
    <3>2. Rejected(p)' = Rejected(p)
      <4>1. \A n \in 1..Len(issues') :
              n \in Rejected(p)' <=> n \in old /\ n \in Rejected(p)
        BY <3>1, <1>6 DEF Rejected, old
      <4> QED
        BY <4>1, <1>6 DEF Rejected, old
    <3> QED
      BY <2>1, <2>2, <3>2, <1>4
  <2>3. CASE p = <<anchor, next>>
    <3>1. Rejected(p)' = {last}
      <4>1. \A n \in old : issues[n] # p
        BY <2>3, <1>2 DEF Rejected, old
      <4> QED
        BY <4>1, <2>3, <1>6 DEF Rejected
    <3>2. Written(p) = {}
      BY <2>3, <1>2
    <3>3. Cardinality(Written(p)') = 0 /\ Cardinality(Rejected(p)') = 1
      BY <2>1, <3>1, <3>2, FS_Singleton, FS_EmptySet
    <3> QED
      BY <3>3
  <2> QED
    BY <2>2, <2>3, <1>2, <1>9
<1> QED
  BY <1>1, <1>3, <1>6, <1>7, <1>8, <1>9 DEF OutcomesInv

(* Where the last numeric node is reached, no pair begins at it or later:   *)
(* the node after it that is numeric and comes first would be its neighbour.*)
LEMMA FinishOutcomes ==
  ASSUME BuilderInv, OutcomesInv, Finish
  PROVE  OutcomesInv'
<1>1. /\ pc = "pairs" /\ pc' = "done" /\ anchor' = anchor /\ way' = way
      /\ records' = records /\ issues' = issues
      /\ \A i \in Indices : ~ Neighbours(anchor, i)
  BY DEF Finish
<1>2. Pairs' = Pairs /\ IssueOfWay' = IssueOfWay /\ IssueOfWay = "none"
  BY <1>1, SamePairs DEF OutcomesInv
<1>3. anchor \in Indices /\ Numeric(anchor) /\ way \in Ways
  BY <1>1 DEF BuilderInv
<1>4. ASSUME NEW p \in Pairs PROVE p[2] <= anchor
  <2> SUFFICES ASSUME ~ (p[2] <= anchor) PROVE FALSE
    OBVIOUS
  <2>1. p[1] \in Nat /\ p[2] \in Nat /\ anchor \in Nat /\ anchor < p[2]
    BY <1>3, PairsAreApart
  <2> DEFINE later == {i \in Indices : anchor < i /\ Numeric(i)}
  <2>2. p[2] \in later /\ later \subseteq Nat
    BY <2>1 DEF Pairs, Neighbours, Indices
  <2>3. PICK least \in later : \A other \in later : least <= other
    <3> HIDE DEF later
    <3> QED
      BY <2>2, LeastNumber
  <2>4. \A k \in anchor + 1..least - 1 : ~ Numeric(k)
    <3> SUFFICES ASSUME NEW k \in anchor + 1..least - 1, Numeric(k) PROVE FALSE
      OBVIOUS
    <3>1. least \in Indices /\ least \in Nat /\ Len(way.nodes) \in Nat
      BY <2>2, <1>3, WaysAssumption
    <3>2. k \in later /\ k < least
      BY <3>1, <2>1 DEF Indices
    <3> QED
      BY <3>1, <3>2, <2>1, <2>3
  <2>5. Neighbours(anchor, least)
    BY <2>4, <1>3 DEF Neighbours
  <2> QED
    BY <2>5, <1>1
<1>5. \A p : Written(p)' = Written(p) /\ Rejected(p)' = Rejected(p)
  BY <1>1 DEF Written, Rejected
<1> QED
  BY <1>1, <1>2, <1>4, <1>5 DEF OutcomesInv

LEMMA OutcomesInvariant == WaySpec => []OutcomesInv
<1>1. WayInit => OutcomesInv
  BY DEF WayInit, OutcomesInv
<1>2. BuilderInv /\ OutcomesInv /\ [WayNext]_wayVars => OutcomesInv'
  <2> SUFFICES ASSUME BuilderInv, OutcomesInv, [WayNext]_wayVars PROVE OutcomesInv'
    OBVIOUS
  <2>1. CASE RejectWay
    <3>1. /\ pc' = "done" /\ records' = <<>> /\ issues' = <<<<0, 0>>>>
          /\ way' = way /\ IssueOfWay # "none"
      BY <2>1 DEF RejectWay, OutcomesInv
    <3>2. IssueOfWay' = IssueOfWay
      BY <3>1, SamePairs
    <3> QED
      BY <3>1, <3>2 DEF OutcomesInv
  <2>2. CASE \E first \in Indices : StartPairs(first)
    BY <2>2, StartPairsOutcomes
  <2>3. CASE \E next \in Indices : WritePair(next)
    BY <2>3, WritePairOutcomes
  <2>4. CASE \E next \in Indices : RejectPair(next)
    BY <2>4, RejectPairOutcomes
  <2>5. CASE Finish
    BY <2>5, FinishOutcomes
  <2>6. CASE UNCHANGED wayVars
    <3>1. Pairs' = Pairs /\ IssueOfWay' = IssueOfWay
      BY <2>6, SamePairs DEF wayVars
    <3>2. \A p : Written(p)' = Written(p) /\ Rejected(p)' = Rejected(p)
      BY <2>6 DEF Written, Rejected, wayVars
    <3> QED
      BY <2>6, <3>1, <3>2 DEF OutcomesInv, wayVars
  <2> QED
    BY <2>1, <2>2, <2>3, <2>4, <2>5, <2>6 DEF WayNext
<1> QED
  BY <1>1, <1>2, BuilderInvariant, PTL DEF WaySpec

(* When a way is done, each pair of neighbouring anchors is one range or    *)
(* one rejection, for a way of any length, and a way that has no pairs is   *)
(* one rejection.                                                           *)
THEOREM PairsDecided == WaySpec => []EveryPairDecided
<1>1. BuilderInv /\ OutcomesInv => EveryPairDecided
  <2> SUFFICES ASSUME BuilderInv, OutcomesInv, pc = "done"
               PROVE  IF IssueOfWay = "none"
                      THEN \A p \in Pairs :
                             Cardinality(Written(p)) + Cardinality(Rejected(p)) = 1
                      ELSE records = <<>> /\ Len(issues) = 1
    BY DEF EveryPairDecided, Pairs, Written, Rejected
  <2> QED
    BY DEF OutcomesInv
<1> QED
  BY <1>1, BuilderInvariant, OutcomesInvariant, PTL
=============================================================================
