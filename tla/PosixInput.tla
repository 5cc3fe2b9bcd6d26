------------------------------ MODULE PosixInput ------------------------------
(***************************************************************************)
(* Reading keys from a terminal in raw mode: read_key and get_cur_pos of   *)
(* src/fancyrl/posix_terminal.c.  Both read the same stream one byte at a  *)
(* time, and in it lie what the user types and what the terminal answers,  *)
(* in the order they came.                                                 *)
(*                                                                         *)
(* Module TermKey shows that the keys do not depend on how bytes reach     *)
(* libtermkey's buffer, so here that buffer is the sequence it holds.      *)
(***************************************************************************)
EXTENDS TermKeyDecode

CONSTANTS
  Keystrokes,  \* what the user can press: [bytes it sends -> logical key]
  Positions,   \* the <<row, column>> pairs where the cursor may be
  TypesAhead,  \* may the user type while get_cur_pos waits for its answer?
  BufSize,     \* the size of libtermkey's buffer: 256
  MaxTty,      \* bound: unread bytes in the terminal
  MaxOwed      \* bound: unanswered keystrokes that are remembered

ASSUME InputAssumption ==
  /\ TypesAhead \in BOOLEAN
  /\ BufSize \in Nat \ {0} /\ MaxTty \in Nat /\ MaxOwed \in Nat \ {0}

VARIABLES
  tty,      \* bytes sent by the terminal and not read yet
  closed,   \* the terminal has hung up
  pc,       \* "idle", or inside "read_key" or "get_cur_pos"
  raw_char, \* retval.raw_char and raw_c of read_key
  raw_c,
  pending,  \* the bytes in libtermkey's buffer, of which
  hightide, \* the first hightide belong to the last unknown CSI sequence
  buf,      \* what get_cur_pos has read
  asked,    \* ESC [ 6 n was written and not answered yet
  cursor,   \* history: where the terminal said the cursor was
  owed,     \* history: the keystrokes no read_key has returned yet
  last      \* what the last call returned

reading == <<raw_char, raw_c, pending, hightide>>
asking == <<buf, asked, cursor>>
vars == <<tty, closed, pc, reading, asking, owed, last>>

Init ==
  /\ tty = <<>> /\ closed = FALSE /\ pc = "idle"
  /\ raw_char = 0 /\ raw_c = 0 /\ pending = <<>> /\ hightide = 0
  /\ buf = <<>> /\ asked = FALSE /\ cursor \in Positions
  /\ owed = <<>> /\ last = <<>>

-----------------------------------------------------------------------------
(* The user and the terminal.                                              *)
Bounded(s) == IF Len(s) > MaxOwed THEN SubSeq(s, 1, MaxOwed) ELSE s

Type ==
  /\ ~closed /\ (TypesAhead \/ pc # "get_cur_pos")
  /\ \E k \in DOMAIN Keystrokes :
       /\ Len(tty) + Len(k) <= MaxTty
       /\ tty' = tty \o k
       /\ owed' = Bounded(Append(owed, [logical_key |-> Keystrokes[k], raw_char |-> k[1]]))
  /\ UNCHANGED <<closed, pc, reading, asking, last>>

Digits(n) == IF n < 10 THEN <<48 + n>> ELSE <<48 + n \div 10, 48 + (n % 10)>>
Report(p) == <<ESC, 91>> \o Digits(p[1]) \o <<59>> \o Digits(p[2]) \o <<82>>

Answer ==
  /\ asked /\ ~closed
  /\ \E p \in Positions : cursor' = p /\ tty' = tty \o Report(p)
  /\ asked' = FALSE
  /\ UNCHANGED <<closed, pc, reading, buf, owed, last>>

Hangup ==
  /\ ~closed /\ closed' = TRUE
  /\ UNCHANGED <<tty, pc, reading, asking, owed, last>>

-----------------------------------------------------------------------------
(* read(2) of one byte: blocks on an empty terminal; after a hangup it     *)
(* gives nothing and leaves the variable what it was.                      *)
Reads(c, was) ==
  \/ tty # <<>> /\ c = Head(tty) /\ tty' = Tail(tty)
  \/ tty = <<>> /\ closed /\ c = was /\ UNCHANGED tty

termkey_sym_to_logicalkey(sym) ==
  IF sym \in {"TAB", "ENTER", "DEL", "BACKSPACE", "UP", "DOWN", "LEFT", "RIGHT", "HOME", "END"}
    THEN sym ELSE "UNKNOWN"

(* The switch on the type of the key.                                      *)
LogicalKey(key) ==
  CASE key.type = "UNICODE" /\ CTRL \in key.mods /\ key.code = 108 -> "CTRL_L"
    [] key.type = "UNICODE" /\ CTRL \in key.mods /\ key.code = 99 -> "CTRL_C"
    [] key.type = "KEYSYM" -> termkey_sym_to_logicalkey(key.code)
    [] OTHER -> "UNKNOWN"

Returned(logical, raw) ==
  /\ pc' = "idle"
  /\ last' = [logical_key |-> logical, raw_char |-> raw]
  /\ owed' = IF owed = <<>> THEN owed ELSE Tail(owed)

(* termkey_push_bytes, whose answer nobody looks at, and termkey_getkey,   *)
(* which has something to look at and so answers KEY or AGAIN.             *)
Pushed(c) == IF Len(pending) < BufSize THEN Append(pending, c) ELSE pending

Decode(bytes, raw) ==
  \E look \in {peekkey(Rest(bytes, hightide), FALSE, FALSE)} :
    \/ /\ look.res = "AGAIN"
       /\ pending' = Rest(bytes, hightide)
       /\ hightide' = KeptBy(peekkey(Rest(bytes, hightide), TRUE, FALSE))
       /\ pc' = "read_key" /\ UNCHANGED <<owed, last>>
    \/ /\ look.res # "AGAIN"
       /\ pending' = Rest(bytes, hightide + look.n) /\ hightide' = look.keep
       /\ Returned(LogicalKey(look.key), raw)

DelIsAscii(c) == c \in 32 .. 127   \* mutant: the bound of the fast path is one too far
IsAscii(c) == c \in 32 .. 126

read_key ==
  /\ pc = "idle"
  /\ \E c \in {0} \cup ToSet(tty) :
       /\ Reads(c, 0)
       /\ raw_c' = c /\ raw_char' = c
       /\ \/ IsAscii(c) /\ Returned("ASCII", c) /\ UNCHANGED <<pending, hightide>>
          \/ ~IsAscii(c) /\ Decode(Pushed(c), c)
  /\ UNCHANGED <<closed, asking>>

RepeatsFirst ==   \* mutant: the loop pushes the first byte again
  /\ pc = "read_key"
  /\ \E c \in {raw_c} \cup ToSet(tty) :
       /\ Reads(c, raw_c)
       /\ raw_c' = c
       /\ Decode(Pushed(raw_char), raw_char)
  /\ UNCHANGED <<closed, raw_char, asking>>

(* One turn of its loop.                                                   *)
read_key_again ==
  /\ pc = "read_key"
  /\ \E c \in {raw_c} \cup ToSet(tty) :
       /\ Reads(c, raw_c)
       /\ raw_c' = c
       /\ Decode(Pushed(c), raw_char)
  /\ UNCHANGED <<closed, raw_char, asking>>

-----------------------------------------------------------------------------
(* get_cur_pos asks the terminal and reads until an 'R', the end of the    *)
(* file or a full buffer; sscanf then takes "%d;%d" behind two bytes, and  *)
(* a number it does not find stays what was on the stack.                  *)
Number(s) == FoldLeft(LAMBDA n, d : n * 10 + d - 48, 0, s)
Digit == 48 .. 57
NumberAt(s) ==
  LET beyond == SelectInSeq(s, LAMBDA b : b \notin Digit)
  IN  IF beyond = 0 THEN s ELSE SubSeq(s, 1, beyond - 1)

LateScan(s) ==   \* mutant: three bytes are skipped
  LET row == NumberAt(Rest(s, 3))
      col == NumberAt(Rest(s, 3 + Len(row) + 1))
  IN  IF row = <<>> \/ col = <<>> THEN Leftover ELSE <<Number(row), Number(col)>>

Scan(s) ==
  LET row  == NumberAt(Rest(s, 2))
      rest == Rest(s, 2 + Len(row))
      col  == IF rest # <<>> /\ rest[1] = 59 THEN NumberAt(Rest(rest, 1)) ELSE <<>>
  IN  IF row = <<>> \/ col = <<>> THEN Leftover ELSE <<Number(row), Number(col)>>

get_cur_pos ==
  /\ pc = "idle" /\ ~asked /\ (TypesAhead \/ tty = <<>>)
  /\ pc' = "get_cur_pos" /\ asked' = TRUE /\ buf' = <<>>
  /\ UNCHANGED <<tty, closed, reading, cursor, owed, last>>

get_cur_pos_read ==
  /\ pc = "get_cur_pos"
  /\ \/ /\ tty # <<>> /\ Head(tty) # 82 /\ Len(buf) < 31
        /\ buf' = Append(buf, Head(tty)) /\ tty' = Tail(tty)
        /\ UNCHANGED <<pc, last>>
     \/ /\ tty # <<>> /\ Head(tty) = 82 /\ Len(buf) < 31
        /\ tty' = Tail(tty) /\ pc' = "idle" /\ last' = [position |-> Scan(buf)] /\ UNCHANGED buf
     \/ /\ Len(buf) = 31 \/ (tty = <<>> /\ closed)
        /\ pc' = "idle" /\ last' = [position |-> Scan(buf)] /\ UNCHANGED <<tty, buf>>
  /\ UNCHANGED <<closed, reading, asked, cursor, owed>>

Program == read_key \/ read_key_again \/ get_cur_pos_read
Next == Type \/ Answer \/ Hangup \/ Program \/ get_cur_pos

(* The program reads on while there is something to read: whatever it is   *)
(* doing, its next step takes a byte.  And the terminal answers.           *)
TakesByte == tty # <<>> /\ tty' = Tail(tty)
Fairness == WF_tty(TakesByte) /\ WF_vars(get_cur_pos_read) /\ WF_vars(Answer)

Spec == Init /\ [][Next]_vars /\ Fairness

-----------------------------------------------------------------------------
(* Every read_key returns the next key the user pressed, once: no byte of  *)
(* a key that is decoded leaks into the one after it or is left behind in  *)
(* libtermkey, and no key is taken for another.                            *)
KeysInOrder ==
  [][(read_key \/ read_key_again) /\ tty # <<>> /\ pc' = "idle"
       => owed # <<>> /\ last' = Head(owed)]_vars

(* Every call comes back.  A read_key that has seen the start of a key     *)
(* never waits for more than the key the user pressed, though it may read  *)
(* on for ever once the terminal hung up; get_cur_pos waits for no more    *)
(* than what the terminal answers.                                         *)
CallsReturn ==
  /\ pc = "read_key" ~> pc # "read_key" \/ closed
  /\ pc = "get_cur_pos" ~> pc # "get_cur_pos"

(* get_cur_pos returns with what the terminal answered.                    *)
PositionReported ==
  [][pc = "get_cur_pos" /\ pc' = "idle" /\ ~closed => last' = [position |-> cursor]]_vars
=============================================================================
