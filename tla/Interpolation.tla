---------------------------- MODULE Interpolation ----------------------------
(***************************************************************************)
(* House numbers along an OSM interpolation way.                           *)
(*                                                                         *)
(* The builder (src/builder/osm/interpolation.rs) walks the nodes of a way *)
(* and turns every two neighbouring nodes with a numeric house number into *)
(* one range of numbers, or into a rejection.  The reverse geocoder        *)
(* (src/reverse.rs) later turns a position on the line of a range back     *)
(* into a house number, in u32 arithmetic and without checking the range   *)
(* again.  The two halves meet only in the record.                         *)
(***************************************************************************)
EXTENDS Naturals, Sequences, FiniteSets

CONSTANTS
  Ways,         \* interpolation ways the builder may meet
  NumberLimit,  \* 2^32: house numbers are u32
  Scale,        \* bound: positions on a line are multiples of 1/Scale
  Untagged,     \* an absent tag
  Text          \* a house number that is not a positive u32, such as "12a"

(* A way has a rule, its addr:street and addr:place, whether every node of  *)
(* it has a known position, and its nodes.  Names stand for their           *)
(* normalized form: two spellings that compare equal are one value.         *)
ASSUME WaysAssumption ==
  \A w \in Ways :
    /\ w.rule \in {"odd", "even", "all", "step", "unsupported"}
    /\ w.step \in 1..NumberLimit - 1
    /\ w.located \in BOOLEAN
    /\ Len(w.nodes) \in Nat
    /\ \A i \in 1..Len(w.nodes) :
         w.nodes[i].number \in (1..NumberLimit - 1) \cup {Untagged, Text}

ASSUME NumbersAssumption ==
  /\ NumberLimit \in Nat \ 0..2 /\ Scale \in Nat \ {0}
  /\ Untagged \notin Nat /\ Text \notin Nat

VARIABLES
  pc,       \* "way": checking the way; "pairs": in the loop; "done"
  way,      \* the way
  anchor,   \* index of the pair's first anchor
  records,  \* ranges written
  issues    \* rejections written

wayVars == <<pc, way, anchor, records, issues>>

-----------------------------------------------------------------------------
(* The way *)

(* numeric_anchors: nodes whose house number parse_house_number accepts. *)
Numeric(i) == way.nodes[i].number \in Nat
HasNumber(i) == way.nodes[i].number # Untagged
Indices == 1..Len(way.nodes)

(* anchors.windows(2): neighbours among the numeric nodes.                  *)
Neighbours(i, j) ==
  /\ i < j
  /\ Numeric(i) /\ Numeric(j)
  /\ \A k \in i + 1..j - 1 : ~ Numeric(k)

(* interpolation_rule *)
Step == CASE way.rule \in {"odd", "even"} -> 2
          [] way.rule = "all" -> 1
          [] OTHER -> way.step

(* The checks on the whole way, in the code's order.                        *)
IssueOfWay ==
  IF way.rule = "unsupported" THEN "unsupported_value"
  ELSE IF way.nodes = <<>> THEN "way_without_nodes"
  ELSE IF ~ way.located THEN "unresolved_geometry"
  ELSE IF \A i \in Indices : ~ Numeric(i)
       THEN IF \E i \in Indices : HasNumber(i) THEN "non_numeric_anchor"
            ELSE "missing_anchors"
  ELSE IF \A i, j \in Indices : Numeric(i) /\ Numeric(j) => i = j
       THEN "insufficient_anchors"
  ELSE "none"

-----------------------------------------------------------------------------
(* A pair of anchors *)

Low(i, j)  == IF way.nodes[i].number < way.nodes[j].number THEN i ELSE j
High(i, j) == IF way.nodes[i].number < way.nodes[j].number THEN j ELSE i

(* Mutant of RangeIsValid: the parity of the numbers is not looked at. *)
RangeIsValidAnyParity(start, end) ==
  /\ start < end
  /\ (end - start) % Step = 0

(* validate_range; equal numbers never get there. *)
RangeIsValid(start, end) ==
  /\ start < end
  /\ way.rule = "odd"  => start % 2 = 1 /\ end % 2 = 1
  /\ way.rule = "even" => start % 2 = 0 /\ end % 2 = 0
  /\ (end - start) % Step = 0

(* required_context: the way's own value, which no anchor may contradict,   *)
(* or the value both anchors have.                                          *)
Agrees(own, start, end) ==
  IF own # Untagged THEN {start, end} \subseteq {own, Untagged}
  ELSE start = end \/ Untagged \in {start, end}
AgreedValue(own, start, end) ==
  IF own # Untagged THEN own
  ELSE IF start = end THEN start ELSE Untagged

Street(low, high) ==
  AgreedValue(way.street, way.nodes[low].street, way.nodes[high].street)
Place(low, high) ==
  AgreedValue(way.place, way.nodes[low].place, way.nodes[high].place)

(* Mutant of AddressAgrees: anchors of two streets are accepted, without a  *)
(* street, where there is a place.                                          *)
AddressAgreesByPlace(low, high) ==
  /\ way.street # Untagged
     => Agrees(way.street, way.nodes[low].street, way.nodes[high].street)
  /\ Agrees(way.place, way.nodes[low].place, way.nodes[high].place)
  /\ Street(low, high) # Untagged \/ Place(low, high) # Untagged

(* segment_address *)
AddressAgrees(low, high) ==
  /\ Agrees(way.street, way.nodes[low].street, way.nodes[high].street)
  /\ Agrees(way.place, way.nodes[low].place, way.nodes[high].place)
  /\ Street(low, high) # Untagged \/ Place(low, high) # Untagged

Accepted(i, j) ==
  /\ RangeIsValid(way.nodes[Low(i, j)].number, way.nodes[High(i, j)].number)
  /\ AddressAgrees(Low(i, j), High(i, j))

(* Mutant of RangeOf: the line is left in the order of the way. *)
RangeOfForward(i, j) ==
  [start  |-> way.nodes[Low(i, j)].number,
   end    |-> way.nodes[High(i, j)].number,
   step   |-> Step,
   street |-> Street(Low(i, j), High(i, j)),
   place  |-> Place(Low(i, j), High(i, j)),
   from   |-> i,
   to     |-> j]

(* interpolation_record_from_segment: the range runs from the lower number  *)
(* to the higher, and its line from the one anchor to the other.            *)
RangeOf(i, j) ==
  [start  |-> way.nodes[Low(i, j)].number,
   end    |-> way.nodes[High(i, j)].number,
   step   |-> Step,
   street |-> Street(Low(i, j), High(i, j)),
   place  |-> Place(Low(i, j), High(i, j)),
   from   |-> Low(i, j),
   to     |-> High(i, j)]

-----------------------------------------------------------------------------
(* write_interpolation_records *)

WayInit ==
  /\ pc = "way"
  /\ way \in Ways
  /\ anchor = 0
  /\ records = <<>>
  /\ issues = <<>>

RejectWay ==
  /\ pc = "way"
  /\ IssueOfWay # "none"
  /\ issues' = Append(issues, <<0, 0>>)
  /\ pc' = "done"
  /\ UNCHANGED <<way, anchor, records>>

StartPairs(first) ==
  /\ pc = "way"
  /\ IssueOfWay = "none"
  /\ Numeric(first)
  /\ \A i \in 1..first - 1 : ~ Numeric(i)
  /\ anchor' = first
  /\ pc' = "pairs"
  /\ UNCHANGED <<way, records, issues>>

WritePair(next) ==
  /\ pc = "pairs"
  /\ Neighbours(anchor, next)
  /\ Accepted(anchor, next)
  /\ records' = Append(records, RangeOf(anchor, next))
  /\ anchor' = next
  /\ UNCHANGED <<pc, way, issues>>

(* Mutant of RejectPair: a rejected pair ends the way, as a rejected way    *)
(* does.                                                                    *)
RejectPairEndsWay(next) ==
  /\ pc = "pairs"
  /\ Neighbours(anchor, next)
  /\ ~ Accepted(anchor, next)
  /\ issues' = Append(issues, <<anchor, next>>)
  /\ pc' = "done"
  /\ UNCHANGED <<way, anchor, records>>

(* A rejected pair does not end the loop: its second anchor starts the next *)
(* pair.                                                                    *)
RejectPair(next) ==
  /\ pc = "pairs"
  /\ Neighbours(anchor, next)
  /\ ~ Accepted(anchor, next)
  /\ issues' = Append(issues, <<anchor, next>>)
  /\ anchor' = next
  /\ UNCHANGED <<pc, way, records>>

Finish ==
  /\ pc = "pairs"
  /\ \A i \in Indices : ~ Neighbours(anchor, i)
  /\ pc' = "done"
  /\ UNCHANGED <<way, anchor, records, issues>>

WayNext ==
  \/ RejectWay
  \/ \E i \in Indices : StartPairs(i) \/ WritePair(i) \/ RejectPair(i)
  \/ Finish

WaySpec == WayInit /\ [][WayNext]_wayVars

-----------------------------------------------------------------------------
(* The reverse geocoder *)

Wrap(n) == n % NumberLimit

(* estimated_number: position/Scale of the way along the line, rounded to   *)
(* the nearest step, halves up.                                             *)
EstimatedNumber(range, position) ==
  LET span  == range.end - range.start
      index == (2 * position * span + Scale * range.step)
                 \div (2 * Scale * range.step)
      raw   == Wrap(range.start + Wrap(index * range.step))
  IN IF raw < range.end THEN raw ELSE range.end

Positions == 0..Scale

-----------------------------------------------------------------------------
(* Properties *)

(* Each variable holds a value of its kind, and the loop stands on a        *)
(* numeric node of the way.                                                 *)
RangesTypeOK ==
  /\ pc \in {"way", "pairs", "done"}
  /\ way \in Ways
  /\ pc = "pairs" => anchor \in Indices /\ Numeric(anchor)
  /\ \A n \in 1..Len(records) :
       /\ records[n].start \in 1..NumberLimit - 1
       /\ records[n].end \in 1..NumberLimit - 1
       /\ records[n].step \in 1..NumberLimit - 1

(* Wherever on the line the reverse geocoder looks, the number it returns   *)
(* is one of the range's: a whole number of steps from its start, at most   *)
(* its end, of the way's parity.  This needs the builder's checks: with a   *)
(* range that the step does not divide, the last estimates leave the        *)
(* sequence, and near 2^32 they wrap.                                       *)
EstimatesAreHouses ==
  \A n \in 1..Len(records) : \A position \in Positions :
    LET range  == records[n]
        number == EstimatedNumber(range, position)
    IN /\ number \in range.start..range.end
       /\ (number - range.start) % range.step = 0
       /\ way.rule = "odd"  => number % 2 = 1
       /\ way.rule = "even" => number % 2 = 0

(* The line of a range starts at the node whose own house number is the     *)
(* estimate there, ends at the node whose number is the estimate at its     *)
(* end, and no node between the two has a numeric number.                   *)
LineRunsFromLowToHigh ==
  \A n \in 1..Len(records) :
    LET range == records[n]
    IN /\ way.nodes[range.from].number = EstimatedNumber(range, 0)
       /\ way.nodes[range.to].number = EstimatedNumber(range, Scale)
       /\ \A i \in Indices :
            (range.from < i /\ i < range.to) \/ (range.to < i /\ i < range.from)
              => ~ Numeric(i)

(* Farther along the line, the number is never lower. *)
EstimatesGrow ==
  \A n \in 1..Len(records) : \A p, q \in Positions :
    p <= q => EstimatedNumber(records[n], p) <= EstimatedNumber(records[n], q)

(* The numbers estimated along a range's line go from its one anchor's to   *)
(* the other's and never back, whichever anchor the way meets first.        *)
EstimatesFollowTheLine == LineRunsFromLowToHigh /\ EstimatesGrow

(* The way and the two anchors of a range name no two streets between them, *)
(* also when the range only has a place, and no two places; a range has one *)
(* of the two, and no other street or place than they name.                 *)
AddressNotContradicted ==
  \A n \in 1..Len(records) :
    LET range   == records[n]
        streets == {way.street, way.nodes[range.from].street, way.nodes[range.to].street}
        places  == {way.place, way.nodes[range.from].place, way.nodes[range.to].place}
    IN /\ range.street # Untagged \/ range.place # Untagged
       /\ Cardinality(streets \ {Untagged}) <= 1 /\ range.street \in streets \cup {Untagged}
       /\ Cardinality(places \ {Untagged}) <= 1 /\ range.place \in places \cup {Untagged}

(* When the builder is done with a way, every two neighbouring anchors have *)
(* one outcome, a range or a rejection, and a way with fewer than two       *)
(* anchors has exactly one rejection: no pair is lost and none is both.     *)
EveryPairDecided ==
  pc = "done" =>
    LET pairs == {p \in Indices \X Indices : Neighbours(p[1], p[2])}
        Written(p)  == {n \in 1..Len(records) :
                          {records[n].from, records[n].to} = {p[1], p[2]}}
        Rejected(p) == {n \in 1..Len(issues) : issues[n] = p}
    IN IF IssueOfWay = "none"
       THEN \A p \in pairs : Cardinality(Written(p)) + Cardinality(Rejected(p)) = 1
       ELSE records = <<>> /\ Len(issues) = 1
=============================================================================
