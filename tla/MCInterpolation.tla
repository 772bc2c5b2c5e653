--------------------------- MODULE MCInterpolation ---------------------------
(* Ways of up to four nodes, with u32 shrunk to three bits.                 *)
EXTENDS Interpolation

Way(rule, step, street, place, located, nodes) ==
  [rule |-> rule, step |-> step, street |-> street, place |-> place,
   located |-> located, nodes |-> nodes]
Node(number, street, place) ==
  [number |-> number, street |-> street, place |-> place]

Numbers == 1..NumberLimit - 1
Rules   == {<<"odd", 1>>, <<"even", 1>>, <<"all", 1>>, <<"unsupported", 1>>}
             \cup {<<"step", n>> : n \in {1, 3, NumberLimit - 1}}

Upto(n, S) == UNION {[1..k -> S] : k \in 0..n}

(* Every sequence of numbers, on one street. *)
NumberedWays ==
  {Way(r[1], r[2], "A", Untagged, located, nodes) :
     r \in Rules, located \in BOOLEAN,
     nodes \in Upto(3, {Node(n, Untagged, Untagged) : n \in Numbers \cup {Untagged, Text}})
               \cup [1..4 -> {Node(n, Untagged, Untagged) : n \in {1, 2, 3, 5, Untagged}}]}

(* Every way to put a street and a place on a way of two or three anchors. *)
AddressedWays ==
  {Way("all", 1, street, place, TRUE, nodes) :
     street \in {Untagged, "A"}, place \in {Untagged, "P"},
     nodes \in UNION {{[i \in 1..k |-> Node(n[i], tags[i][1], tags[i][2])] :
                         n \in {<<1, 3, 2>>, <<3, 1, 5>>},
                         tags \in [1..k -> {Untagged, "A", "B"} \X {Untagged, "P"}]} :
                      k \in 2..3}}

MCWays == NumberedWays \cup AddressedWays
=============================================================================
