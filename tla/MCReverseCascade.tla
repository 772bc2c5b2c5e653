--------------------------- MODULE MCReverseCascade ---------------------------
(* Two localities, a blank one, a country, a postcode, a street that is also *)
(* a boundary's parent by mistake, two addresses and an interpolation.       *)
EXTENDS ReverseCascade

Says(given) == [field \in Fields |-> IF field \in DOMAIN given THEN given[field] ELSE None]
Row(k, given) == [kind |-> k, values |-> Says(given)]

MCIds == 1..9
MCValues == {"a", "b", "c"}

MCArchive == [id \in MCIds |->
  CASE id = 1 -> Row("locality", [locality |-> "a"])
    [] id = 2 -> Row("locality", [locality |-> "b"])
    [] id = 3 -> Row("locality", [locality |-> Blank])
    [] id = 4 -> Row("country", [country |-> "c"])
    [] id = 5 -> Row("postcode", [postcode |-> "a", country |-> "b"])
    [] id = 6 -> Row("street", [street |-> "a", locality |-> "c"])
    [] id = 7 -> Row("address", [street |-> "b", locality |-> "c", postcode |-> Blank])
    [] id = 8 -> Row("address", [place |-> "a", country |-> "a"])
    [] id = 9 -> Row("interpolation", [street |-> Blank, postcode |-> "c"])]

Under(parents) ==
  [layer \in ContextLayers |-> IF layer \in DOMAIN parents THEN parents[layer] ELSE None]

MCBoundaryContext == [id \in MCIds |->
  CASE id = 6 -> Under([locality |-> 3, region |-> 1, country |-> 4])
    [] id = 7 -> Under([locality |-> 2, country |-> 4, postcode |-> 5])
    [] id = 9 -> Under([locality |-> 1, region |-> 1, country |-> 6])
    [] OTHER -> None]

Nearby == (UNION {[1..n -> 1..6] : n \in 0..2}) \cup {<<3, 1, 2>>, <<5, 5, 4>>, <<4, 2, 4>>}

MCQueries ==
  [address : {None, 6, 7, 8}, estimates : {<<>>, <<9>>, <<8, 9>>}, street : {None, 6, 7},
   nearby : Nearby]
=============================================================================
