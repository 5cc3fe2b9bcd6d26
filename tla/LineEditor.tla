------------------------------ MODULE LineEditor ------------------------------
(***************************************************************************)
(* What an editor of an input of several lines promises: a text, a cursor  *)
(* in its last line, and keys that do what the list of LOGICAL_KEYS in     *)
(* fancyreadline/fancyreadline.c says of them.                             *)
(***************************************************************************)
EXTENDS Integers, Sequences, SequencesExt

CONSTANTS Char, Space, Newline, MaxText

VARIABLES
  text,    \* the input so far
  cursor   \* how many of its characters are before the cursor

(* The characters before the last line, and the spaces it begins with.     *)
LineStart(s) == SelectLastInSeq(s, LAMBDA c : c = Newline)
Indent(s) ==
  LET line == SubSeq(s, LineStart(s) + 1, Len(s))
      end  == SelectInSeq(line, LAMBDA c : c # Space)
  IN  IF end = 0 THEN Len(line) ELSE end - 1

Init == text = <<>> /\ cursor = 0

Insert(s) ==
  /\ Len(text) + Len(s) <= MaxText
  /\ text' = SubSeq(text, 1, cursor) \o s \o SubSeq(text, cursor + 1, Len(text))
  /\ cursor' = cursor + Len(s)

Type == \E c \in Char : Insert(<<c>>)

Enter == Insert(<<Newline>> \o [i \in 1 .. Indent(text) |-> Space])

(* Delete the character before the cursor, unless it starts the line.      *)
Backspace ==
  /\ cursor > LineStart(text)
  /\ text' = RemoveAt(text, cursor) /\ cursor' = cursor - 1

Left == cursor > LineStart(text) /\ cursor' = cursor - 1 /\ UNCHANGED text
Right == cursor < Len(text) /\ cursor' = cursor + 1 /\ UNCHANGED text

Next == Type \/ Enter \/ Backspace \/ Left \/ Right

Spec == Init /\ [][Next]_<<text, cursor>>
=============================================================================
