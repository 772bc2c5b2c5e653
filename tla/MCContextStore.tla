---------------------------- MODULE MCContextStore ----------------------------
(* Three records; two parents, two tuples that share one, and the empty one. *)
EXTENDS ContextStore

Tuple(country, place) == [parent \in Parents |-> IF parent = "country" THEN country ELSE place]

MCTuples == {Tuple(None, None), Tuple(0, None), Tuple(0, 1)}
MCPostcodes == {None, 2}
=============================================================================
