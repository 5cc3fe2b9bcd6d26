---------------------------- MODULE FancyReadline ----------------------------
(***************************************************************************)
(* The line editor of fancyreadline/fancyreadline.c: a C string that grows *)
(* by realloc, and counters that say where in it, and on which column of   *)
(* the screen, the cursor is.  What it prints is left out.                 *)
(***************************************************************************)
EXTENDS Integers, Sequences, SequencesExt

CONSTANTS
  Presses,        \* what the user presses: sequences of the bytes it sends
  EditsInside,    \* does the user change the text where it does not end?
  frl_prompt_len,
  Junk,           \* what realloc leaves in memory
  MaxInput        \* bound: the length of the input

ASSUME ReadlineAssumption ==
  /\ \A p \in Presses : p \in Seq(0 .. 255) /\ Len(p) = IF p[1] = 27 THEN 3 ELSE 1
  /\ Junk \notin 0 .. 255
  /\ EditsInside \in BOOLEAN /\ frl_prompt_len \in Nat /\ MaxInput \in Nat

VARIABLES
  cur_frl_input,      \* the memory of the string, <<>> before the first realloc
  cur_frl_input_len,
  cur_cursor_offs,    \* how many characters are before the cursor
  cur_cursor_col,     \* the screen column of the cursor
  reading,            \* do_fancy_readline is still in its loop
  fault               \* "none", a "null" pointer passed to rindex, or a write "outside"

counters == <<cur_frl_input_len, cur_cursor_offs, cur_cursor_col>>
vars == <<cur_frl_input, counters, reading, fault>>

Home == frl_prompt_len + 2

Init ==
  /\ cur_frl_input = <<>> /\ cur_frl_input_len = 0
  /\ cur_cursor_offs = 0 /\ cur_cursor_col = Home
  /\ reading = TRUE /\ fault = "none"

(* The string in the memory, which runs to the first zero.                 *)
CString(mem) ==
  LET end == SelectInSeq(mem, LAMBDA c : c = 0)
  IN  SubSeq(mem, 1, IF end = 0 THEN Len(mem) ELSE end - 1)

-----------------------------------------------------------------------------
(* addchar writes only if the cursor is at the end, and counts anyway.     *)
editor == [mem |-> cur_frl_input, len |-> cur_frl_input_len, offs |-> cur_cursor_offs]

realloc(mem, size) == [i \in 1 .. size |-> IF i <= Len(mem) THEN mem[i] ELSE Junk]

addchar(ed, c) ==
  [mem  |-> IF ed.offs = ed.len
              THEN [realloc(ed.mem, ed.len + 2) EXCEPT ![ed.len + 1] = c, ![ed.len + 2] = 0]
              ELSE ed.mem,
   len  |-> ed.len + 1,
   offs |-> ed.offs + 1]

Becomes(ed, col) ==
  /\ cur_frl_input' = ed.mem /\ cur_frl_input_len' = ed.len /\ cur_cursor_offs' = ed.offs
  /\ cur_cursor_col' = col
  /\ UNCHANGED <<reading, fault>>

Nothing == UNCHANGED vars

Ascii(c) ==
  /\ cur_frl_input_len < MaxInput
  /\ Becomes(addchar(editor, c), cur_cursor_col + 1)

(* strspn of the last line.                                                *)
calc_indent(s) ==
  LET line == SubSeq(s, SelectLastInSeq(s, LAMBDA c : c = 10) + 1, Len(s))
      end  == SelectInSeq(line, LAMBDA c : c # 32)
  IN  IF end = 0 THEN Len(line) ELSE end - 1

(* A new line, and then a space at a time.                                 *)
NewLine(ed, indent) ==
  LET typed[i \in 0 .. indent] ==
        IF i = 0 THEN addchar(ed, 10) ELSE addchar(typed[i - 1], 32)
  IN  typed[indent]

IndentKept ==   \* mutant: the column does not go back to the start of the line
  \/ /\ cur_frl_input # <<>>
     /\ LET indent == calc_indent(CString(cur_frl_input))
        IN  /\ cur_frl_input_len + indent < MaxInput
            /\ Becomes(NewLine(editor, indent), cur_cursor_col + indent)
  \/ cur_frl_input = <<>> /\ fault' = "null" /\ UNCHANGED <<cur_frl_input, counters, reading>>

Enter ==
  \/ /\ cur_frl_input # <<>>
     /\ LET indent == calc_indent(CString(cur_frl_input))
        IN  /\ cur_frl_input_len + indent < MaxInput
            /\ Becomes(NewLine(editor, indent), Home + indent)
  \/ cur_frl_input = <<>> /\ fault' = "null" /\ UNCHANGED <<cur_frl_input, counters, reading>>

AnyColumn ==   \* mutant: backspace without the test of the column
  IF cur_cursor_offs = 0 THEN Nothing
  ELSE Becomes([mem  |-> [cur_frl_input EXCEPT ![cur_cursor_offs] = 0],
                len  |-> cur_frl_input_len - 1,
                offs |-> cur_cursor_offs - 1], cur_cursor_col - 1)

backspace ==
  IF cur_cursor_col <= Home \/ cur_frl_input_len = 0 THEN Nothing
  ELSE IF cur_cursor_offs > Len(cur_frl_input)
    THEN fault' = "outside" /\ UNCHANGED <<cur_frl_input, counters, reading>>
  ELSE Becomes([mem  |-> [cur_frl_input EXCEPT ![cur_cursor_offs] = 0],
                len  |-> cur_frl_input_len - 1,
                offs |-> cur_cursor_offs - 1], cur_cursor_col - 1)

moveleft ==
  IF cur_cursor_col <= Home THEN Nothing
  ELSE Becomes([editor EXCEPT !.offs = @ - 1], cur_cursor_col - 1)

moveright ==
  IF cur_cursor_offs = cur_frl_input_len THEN Nothing
  ELSE Becomes([editor EXCEPT !.offs = @ + 1], cur_cursor_col + 1)

-----------------------------------------------------------------------------
(* Escape sequences: a letter, or a digit that the code does not know yet. *)
UnknownIsInvalid(x, y) ==   \* mutant: what is not known is an error
  CASE x = 91 /\ y = 65 -> "UP"
    [] x = 91 /\ y = 66 -> "DOWN"
    [] x = 91 /\ y = 67 -> "RIGHT"
    [] x = 91 /\ y = 68 -> "LEFT"
    [] x \in {91, 79} /\ y = 72 -> "HOME"
    [] x \in {91, 79} /\ y = 70 -> "END"
    [] OTHER -> "INVALID"

read_esc(x, y) ==
  CASE x = 91 /\ y \in 48 .. 57 -> "INVALID"
    [] x = 91 /\ y = 65 -> "UP"
    [] x = 91 /\ y = 66 -> "DOWN"
    [] x = 91 /\ y = 67 -> "RIGHT"
    [] x = 91 /\ y = 68 -> "LEFT"
    [] x \in {91, 79} /\ y = 72 -> "HOME"
    [] x \in {91, 79} /\ y = 70 -> "END"
    [] OTHER -> "UNKNOWN"

handle_raw_char(p) ==
  CASE p[1] \in {3, 4} -> "FINISHED"
    [] p[1] = 27 -> read_esc(p[2], p[3])
    [] p[1] = 13 -> "ENTER"
    [] p[1] = 127 -> "BACKSPACE"
    [] p[1] \in 32 .. 126 -> "ASCII"
    [] OTHER -> "UNKNOWN"

Finish == reading' = FALSE /\ UNCHANGED <<cur_frl_input, counters, fault>>

handle_logical_char(key, c) ==
  \/ key \in {"FINISHED", "INVALID"} /\ Finish
  \/ key = "ASCII" /\ Ascii(c)
  \/ key = "BACKSPACE" /\ backspace
  \/ key = "LEFT" /\ moveleft
  \/ key = "RIGHT" /\ moveright
  \/ key = "ENTER" /\ Enter
  \/ key \in {"UNKNOWN", "UP", "DOWN", "HOME", "END"} /\ Nothing

Press(p) ==
  /\ reading /\ fault = "none"
  /\ \/ EditsInside \/ cur_cursor_offs = cur_frl_input_len
     \/ handle_raw_char(p) \notin {"ASCII", "BACKSPACE", "ENTER"}
  /\ handle_logical_char(handle_raw_char(p), p[1])

Next == \E p \in Presses : Press(p)

Spec == Init /\ [][Next]_vars

-----------------------------------------------------------------------------
(* The editor does with the text what LineEditor says, whatever is pressed.*)
Editor == INSTANCE LineEditor WITH
  Char <- 32 .. 126, Space <- 32, Newline <- 10, MaxText <- MaxInput,
  text <- CString(cur_frl_input), cursor <- cur_cursor_offs
EditsText == Editor!Spec

(* The counters agree with the text: the length is that of the C string,   *)
(* which ends inside its memory ("always remember the NULL terminator"),   *)
(* and the cursor is on the column where its character is shown.  Nothing  *)
(* is written outside the memory.                                          *)
CountersRight ==
  LET s == CString(cur_frl_input)
  IN  /\ cur_frl_input = <<>> \/ 0 \in ToSet(cur_frl_input)
      /\ fault # "outside"
      /\ cur_frl_input_len = Len(s) /\ cur_cursor_offs <= Len(s)
      /\ cur_cursor_col = Home + cur_cursor_offs - SelectLastInSeq(s, LAMBDA c : c = 10)

(* "if the key was ctrl-c or ctrl-d we return false to indicate reading    *)
(* should finish": no other key ends it.                                   *)
OnlyControlFinishes ==
  [][\A p \in Presses : Press(p) /\ p[1] \notin {3, 4} => reading']_vars
=============================================================================
