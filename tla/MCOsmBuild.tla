------------------------------ MODULE MCOsmBuild ------------------------------
(* Files of one block with up to three nodes, two ways and two relations:   *)
(* every shape of the first way against nodes that are there, tagged or     *)
(* missing.  And files of three and four blocks whose elements are rejected *)
(* for the same reasons, with fewer samples kept than there are rejections. *)
(* Postcodes and country codes are numbers, to have their order.            *)
EXTENDS OsmBuild

Element(type, id, tags, refs, members) ==
  [type |-> type, dense |-> type = "node" /\ id % 2 = 0, id |-> id, tags |-> tags, refs |-> refs,
   members |-> members]
Node(id, tags)      == Element("node", id, tags, <<>>, <<>>)
Way(id, tags, refs) == Element("way", id, tags, refs, <<>>)
Relation(id, tags, ways) ==
  Element("relation", id, tags, <<>>,
          [i \in DOMAIN ways |-> [type |-> "way", id |-> ways[i], role |-> "outer"]])

House(number) == "addr:housenumber" :> number @@ "addr:street" :> "Main"
Posted(raw)   == "addr:postcode" :> raw
Named         == "highway" :> "residential" @@ "name" :> "Main"
Ranged(rule)  == "addr:interpolation" :> rule @@ "addr:street" :> "Main"
Admin(lv)     == "boundary" :> "administrative" @@ "admin_level" :> lv @@ "name" :> "A"
Region        == Admin("4") @@ "ISO3166-2" :> 1

-----------------------------------------------------------------------------
(* Files of one block *)

(* An element that is there or not. *)
Maybe(S) == {<<>>} \cup {<<e>> : e \in S}

Nodes1 == Maybe({Node(1, House("1") @@ Posted("k1a")),
                 Node(1, "place" :> "city" @@ "name" :> "A" @@ House("x"))})
Nodes2 == Maybe({Node(2, House("3") @@ Posted("K1A") @@ "addr:city" :> "A"),
                 Node(2, "place" :> "sea" @@ "addr:street" :> "Main")})
Nodes3 == {<<Node(3, NoTags)>>, <<Node(3, House("2") @@ "place" :> "town")>>}

WayTags == {Named, Named @@ House("7") @@ Posted("k1a"),
            "highway" :> "path" @@ "ref" :> "9" @@ House("8") @@ Posted("-"),
            Ranged("odd") @@ Named, Ranged("none"), Ranged("2"),
            Admin("2") @@ "country_code" :> 1, Region @@ Named}
WayRefs == {<<>>, <<3>>, <<1, 2, 3>>, <<1, 2, 3, 1>>}
Ways1   == {<<Way(1, tags, refs)>> : tags \in WayTags, refs \in WayRefs}

Rest ==
  {<<>>,
   <<Way(2, NoTags, <<3, 2, 1, 3>>), Relation(1, Region, <<2>>),
     Relation(2, Admin("2") @@ "ISO3166-1:alpha2" :> 2, <<1, 2>>)>>,
   <<Way(2, House("9"), <<4, 3>>), Relation(1, Ranged("odd"), <<1>>),
     Relation(2, Region @@ House("1"), <<1>>)>>}

SmallFiles ==
  {<<n1 \o n2 \o n3 \o w1 \o rest>> :
     n1 \in Nodes1, n2 \in Nodes2, n3 \in Nodes3, w1 \in Ways1, rest \in Rest}

-----------------------------------------------------------------------------
(* Files of more blocks *)

HouseOnly  == "addr:housenumber" :> "1" @@ "addr:unit" :> Blank
StreetOnly == "addr:street" :> "Main"
Unnamed    == "highway" :> "residential"
Area       == Element("relation", 2, Admin("4"), <<>>,
                      <<[type |-> "way", id |-> 2, role |-> ""],
                        [type |-> "way", id |-> 3, role |-> "label"],
                        [type |-> "node", id |-> 1, role |-> "outer"]>>)

FirstBlocks ==
  {<<Node(3, House("1")), Node(1, HouseOnly)>>,
   <<Way(4, Unnamed @@ StreetOnly, <<4, 5>>),
     Node(2, Ranged("odd") @@ "place" :> "city")>>}
SecondBlocks ==
  {<<Node(4, HouseOnly), Way(1, Unnamed @@ "service" :> "alley", <<1, 2>>)>>,
   <<Way(2, Admin("6") @@ Named, <<2, 3>>),
     Way(1, Unnamed @@ House("1"), <<1, 2>>)>>}
ThirdBlocks ==
  {<<Way(3, Unnamed @@ StreetOnly, <<3, 4>>), Relation(1, StreetOnly, <<2>>)>>,
   <<Way(3, Named @@ House("1"), <<>>), Way(7, Named @@ Ranged("odd"), <<7, 8>>), Area>>,
   <<Way(5, Ranged("odd") @@ Unnamed, <<>>), Node(7, HouseOnly),
     Relation(3, Ranged("odd"), <<2>>)>>}
FourthBlocks == {<<>>, <<Way(6, Unnamed @@ HouseOnly, <<6, 7>>), Node(6, StreetOnly)>>}

MCFiles ==
  SmallFiles \cup {<<>>}
    \cup {SelectSeq(<<b, c, d, e>>, LAMBDA block : block # <<>>) :
            b \in FirstBlocks, c \in SecondBlocks, d \in ThirdBlocks, e \in FourthBlocks}

MCHouseNumbers == {"1", "2", "3"}
MCPairIssues == {"interpolation_invalid_parity", "interpolation_anchor_street_mismatch"}
MCCanonicalPostcode == "k1a" :> 1 @@ "K1A" :> 1 @@ "-" :> None
=============================================================================
