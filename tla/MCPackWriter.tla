----------------------------- MODULE MCPackWriter -----------------------------
(* A small instance of PackWriter: two admin layers, one leaf layer.        *)
EXTENDS PackWriter

MCAdminLayers == {"country", "region"}
MCLeafLayers  == {"address"}
=============================================================================
