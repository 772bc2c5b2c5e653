----------------------------- MODULE MCPackServing -----------------------------
(* Three builds: the first two have as many records, committed in two       *)
(* segments and in one, in different orders; the third has more.            *)
EXTENDS PackServing

MCSegments == <<<<<<2>>, <<1>>>>, <<<<1, 2>>>>, <<<<1>>, <<3, 2>>>>>>
=============================================================================
