------------------------------ MODULE MCObjects ------------------------------
(* Pages for the root and the objects, each of the larger class.           *)
EXTENDS Objects

MCTramps == 1 .. 24
=============================================================================
