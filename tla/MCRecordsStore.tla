---------------------------- MODULE MCRecordsStore ----------------------------
(* Three kinds of record (two of them of one width), two characters.       *)
EXTENDS RecordsStore, TLC

MCKinds    == {0, 1, 2}
MCInterned == 0 :> <<FALSE, TRUE>> @@ 1 :> <<TRUE>> @@ 2 :> <<TRUE>>
MCWidth    == 0 :> 2 @@ 1 :> 1 @@ 2 :> 1

Record(kind, texts, line) == [kind |-> kind, texts |-> texts, line |-> line]

(* Addresses with and without their second text, streets with a line (one   *)
(* with a text too long for its span), places.                              *)
MCRecords ==
  {Record(0, <<<<8>>, <<>>>>, NoLine), Record(0, <<<<7, 8>>, <<7, 8>>>>, NoLine),
   Record(1, <<<<7, 8>>>>, <<5, 6>>), Record(1, <<<<8, 7, 8>>>>, <<5>>),
   Record(2, <<<<7>>>>, NoLine), Record(2, <<<<7, 8>>>>, NoLine)}
=============================================================================
