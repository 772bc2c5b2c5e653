-------------------------- MODULE MCBoundaryContext --------------------------
(* Two cycles of four and three nodes cut into members in every way below,  *)
(* lists of members that are no cuts of cycles, and, beside a relation of   *)
(* no member or of one, lists of up to five boundaries of a pool with two   *)
(* countries, four regions (ties in area, one code without a boundary of    *)
(* its own) and three localities (ties between a way and relations).        *)
EXTENDS BoundaryContext

MCNodes == 1..7

(* Every order and direction of the pieces. *)
Arrangements(pieces) ==
  {[i \in DOMAIN order |-> IF i \in turns THEN Reverse(order[i]) ELSE order[i]] :
     order \in SetToSeqs(pieces), turns \in SUBSET (1..Cardinality(pieces))}

Squares   == {{<<1, 2, 3, 4, 1>>}, {<<1, 2, 3>>, <<3, 4, 1>>},
              {<<1, 2>>, <<2, 3>>, <<3, 4, 1>>}}
Triangles == {{}, {<<5, 6, 7, 5>>}, {<<5, 6>>, <<6, 7, 5>>},
              {<<5, 6>>, <<6, 7>>, <<7, 5>>}}

(* Open chains, loops of two nodes, single nodes, and rings that touch.     *)
Chains == {{<<1, 2, 3>>, <<3, 4>>, <<5>>}, {<<1, 2>>, <<2, 1>>, <<1, 3, 2>>},
           {<<1, 2, 1>>, <<1, 3, 4, 1>>}, {<<1, 2>>, <<3, 4>>, <<>>},
           {<<2, 3, 1>>, <<1, 2>>, <<4, 5, 1>>, <<1, 4>>}}

Boundary(type, id, layer, code, name, area) ==
  [source |-> <<type, id>>, layer |-> layer, code |-> code, name |-> name,
   area |-> area]

MCRelation == Boundary("relation", 7, "region", 1, "C", 3)

Pool ==
  <<Boundary("way", 1, "country", None, "A", 9),
    Boundary("way", 2, "region", 1, "B", 4),
    Boundary("way", 9, "locality", None, "A", 2),
    Boundary("relation", 1, "country", 1, "C", 9),
    Boundary("relation", 2, "region", 1, "A", 4),
    Boundary("relation", 3, "region", 2, "B", 4),
    Boundary("relation", 4, "region", 2, "C", 3),
    Boundary("relation", 5, "locality", None, "B", 2),
    Boundary("relation", 6, "locality", None, "C", 2)>>

Lists(most) ==
  {[i \in 1..Cardinality(S) |-> Pool[SetToSortSeq(S, <)[i]]] :
     S \in UNION {kSubset(n, DOMAIN Pool) : n \in 0..most}}

Single == <<<<5, 6, 7, 5>>>>

MCMembers ==
  {<<>>, Single}
    \cup UNION {Arrangements(pieces) :
           pieces \in {p \in {s \cup t : s \in Squares, t \in Triangles} :
                        Cardinality(p) <= 5} \cup Chains}

MCOthers == [ways \in MCMembers |-> CASE ways = <<>> -> Lists(5)
                                      [] ways = Single -> Lists(3)
                                      [] OTHER -> {<<>>}]

MCSources ==
  {<<>>, "country" :> "A", "country" :> "C" @@ "locality" :> "B",
   "region" :> "B" @@ "locality" :> "A"}
=============================================================================
