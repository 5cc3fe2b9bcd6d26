------------------------------- MODULE MCRope -------------------------------
(* Values for checking Rope with TLC: one character of one byte and one of *)
(* two, so that a node of three bytes can be cut beside a character and    *)
(* never inside it.                                                        *)
EXTENDS StringClass

CONSTANTS narrow, wide, r1, r2

MCRopes == {r1, r2}
MCChars == {narrow, wide}
MCSize == [c \in MCChars |-> IF c = narrow THEN 1 ELSE 2]

(* Bounds: one rope is edited up to MaxChars, and a copy of it one short   *)
(* character at a time while the two hold MaxBoth characters.  A string is *)
(* set to more than a node takes, and to what is not UTF-8.                *)
MaxBoth == 3
MCTexts == {<<wide, wide>>, <<Bad>>}
Bounds ==
  Live(r2) =>
    /\ Live(r1) /\ num_chars[r1] + num_chars[r2] <= MaxBoth
    /\ call # NoCall => call.of = r2
    /\ call.do = "insert" => call.str = <<narrow>>
=============================================================================
