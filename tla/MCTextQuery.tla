------------------------------ MODULE MCTextQuery ------------------------------
(* One record of each layer for every street or place name of up to three   *)
(* characters and some longer ones (a word the tokenizer drops, before and  *)
(* after others; a name with the letter it cuts), house numbers of one and  *)
(* two words, and postcodes of one and two words.                           *)
EXTENDS TextQuery

Characters == {"a", "b", "1", " ", "-"}
Short == {<<x, y, z>> : x \in {"a", "1"}, y \in Characters, z \in {"a", "b"}}
Long  == {<<"a", "b", " ", "1", "a">>, <<"1", "a", "-", "a", " ", "b">>,
          <<"b", "1", " ", "b", "1", "a">>, <<"a", " ", "b", "a", "b", "b", " ", "b">>,
          <<"b", "I", "a">>, <<"a", "b", " ", "I">>}
Names     == Short \cup Long
Numbers   == {<<"1">>, <<"1", "a">>, <<"1", "-", "2">>, <<"b", "1">>, <<"2", " ", "a">>}
Postcodes == {None, <<"b", "1", " ", "1", "a">>, <<"2", "1", "2">>, <<"1", "b", "-", "2">>}

MCRank == [c \in Alphanumeric |->
  CHOOSE n \in 1..6 : <<"1", "2", "a", "b", "c", "I">>[n] = c]

MCRecords ==
  {[layer |-> "address", number |-> n, name |-> s, postcode |-> p] :
     n \in Numbers, s \in Names, p \in Postcodes}
  \cup {[layer |-> l, number |-> None, name |-> s, postcode |-> None] :
          l \in {"street", "place"}, s \in Names}
  \cup {[layer |-> "interpolation", number |-> None, name |-> s, postcode |-> p] :
          s \in Long, p \in Postcodes}
  \cup {[layer |-> "postcode", number |-> None, name |-> None, postcode |-> p] :
          p \in Postcodes \ {None}}
=============================================================================
