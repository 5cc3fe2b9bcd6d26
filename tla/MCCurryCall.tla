----------------------------- MODULE MCCurryCall -----------------------------
(* Two values for the registers: a small one, and one with bits above the  *)
(* lowest 32, which a 32-bit move would lose.                              *)
EXTENDS CurryCall

CONSTANTS small, large

MCLow == [v \in {small, large} |-> small]
==============================================================================
