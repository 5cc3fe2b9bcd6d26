------------------------------ MODULE RopeText ------------------------------
(***************************************************************************)
(* What librope promises (include/mutant/librope/rope.h): a rope is a text *)
(* of characters that can be spliced, cut, copied and freed, with          *)
(* positions and lengths clamped to the text, and an insertion of invalid  *)
(* UTF-8 changing nothing.  The arguments of an insertion or a deletion    *)
(* are part of what can be seen, so that an implementation has to do what  *)
(* was asked for, where it was asked for.                                  *)
(***************************************************************************)
EXTENDS Integers, Sequences

CONSTANTS
  Ropes,      \* the ropes a program holds
  Chars,      \* the characters
  Bad,        \* a byte sequence that is not UTF-8, inside an inserted string
  NoRope,     \* a rope variable that holds no rope
  MaxChars,   \* bound: characters in a rope
  MaxInsert   \* bound: characters in one inserted string

VARIABLES
  text,   \* what each rope holds, or NoRope
  call    \* the rope_insert or rope_del that was called, or NoCall

NoCall == [do |-> "nothing"]

Minimum(x, y) == IF x > y THEN y ELSE x

(* The strings a caller passes, one of them not UTF-8.  Positions and      *)
(* lengths reach one past what a text can hold, so that they are clamped   *)
(* in every state.                                                         *)
Valid(s) == \A i \in DOMAIN s : s[i] # Bad
Strings == (UNION {[1 .. n -> Chars] : n \in 0 .. MaxInsert}) \cup {<<Bad>>}
Positions == 0 .. MaxChars + 1
Calls == [do : {"insert"}, of : Ropes, pos : Positions, str : Strings]
           \cup [do : {"del"}, of : Ropes, pos : Positions, length : Positions]

TextTypeOK ==
  /\ text \in [Ropes -> Seq(Chars) \cup {NoRope}]
  /\ call \in Calls \cup {NoCall}

Spliced(t, pos, s) ==
  LET p == Minimum(pos, Len(t))
  IN  SubSeq(t, 1, p) \o s \o SubSeq(t, p + 1, Len(t))

Cut(t, pos, length) ==
  LET p == Minimum(pos, Len(t))
      n == Minimum(length, Len(t) - p)
  IN  SubSeq(t, 1, p) \o SubSeq(t, p + n + 1, Len(t))

TextInit == text = [r \in Ropes |-> NoRope] /\ call = NoCall

New(r) ==
  /\ call = NoCall /\ text[r] = NoRope
  /\ text' = [text EXCEPT ![r] = <<>>] /\ UNCHANGED call

Copy(r, other) ==
  /\ call = NoCall /\ text[r] = NoRope /\ text[other] # NoRope
  /\ text' = [text EXCEPT ![r] = text[other]] /\ UNCHANGED call

Free(r) ==
  /\ call = NoCall /\ text[r] # NoRope
  /\ text' = [text EXCEPT ![r] = NoRope] /\ UNCHANGED call

Call ==
  /\ call = NoCall
  /\ call' \in {c \in Calls : text[c.of] # NoRope}
  /\ UNCHANGED text

Insert ==
  /\ call.do = "insert"
  /\ text' = [text EXCEPT ![call.of] =
                IF Valid(call.str) THEN Spliced(@, call.pos, call.str) ELSE @]
  /\ call' = NoCall

Del ==
  /\ call.do = "del"
  /\ text' = [text EXCEPT ![call.of] = Cut(@, call.pos, call.length)]
  /\ call' = NoCall

TextNext ==
  \/ Call \/ Insert \/ Del
  \/ \E r \in Ropes : New(r) \/ Free(r)
  \/ \E r, other \in Ropes : Copy(r, other)

TextSpec == TextInit /\ [][TextNext]_<<text, call>>
=============================================================================
