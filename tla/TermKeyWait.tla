----------------------------- MODULE TermKeyWait -----------------------------
(***************************************************************************)
(* termkey_waitkey of libtermkey/termkey.c: get a key, reading the         *)
(* terminal when there is none, and when there is only the start of one    *)
(* waiting a while for the rest of it.                                     *)
(*                                                                         *)
(* The bytes of a key may be delayed on their way.  As in PosixInput the   *)
(* buffer is the sequence of bytes it holds.                               *)
(***************************************************************************)
EXTENDS TermKeyDecode

CONSTANTS
  Keystrokes, \* what the user can press: [bytes it sends -> key]
  Hasty,      \* the keystrokes the user does not wait for before pressing the next
  Timely,     \* do the bytes of a key follow each other within waittime?
  FlagEintr,  \* TERMKEY_FLAG_EINTR
  BufSize,    \* the size of the buffer
  MaxOwed     \* bound: keys pressed and not answered

ASSUME WaitAssumption ==
  /\ DOMAIN Keystrokes \subseteq Seq(0 .. 255) \ {<<>>}
  /\ Hasty \subseteq DOMAIN Keystrokes /\ {Timely, FlagEintr} \subseteq BOOLEAN
  /\ BufSize \in Nat \ {0} /\ MaxOwed \in Nat \ {0}

(* The bytes of a keystroke are its key, and the beginning of them is the  *)
(* beginning of a key.  Those of a keystroke after which the user waits    *)
(* may be the beginning of another key, too.                               *)
TakesAll(look, k) ==
  look.res = "KEY" /\ look.key = Keystrokes[k] /\ look.n + look.keep = Len(k)
ASSUME KeystrokesAssumption ==
  \A k \in DOMAIN Keystrokes, closed \in BOOLEAN :
    /\ \A n \in 1 .. Len(k) - 1 : peekkey(SubSeq(k, 1, n), FALSE, closed).res = "AGAIN"
    /\ \/ TakesAll(peekkey(k, FALSE, closed), k)
       \/ k \notin Hasty /\ peekkey(k, FALSE, closed).res = "AGAIN"
                         /\ TakesAll(peekkey(k, TRUE, closed), k)
    /\ k \notin Hasty => \A h \in Hasty : Keystrokes[h] # Keystrokes[k]

VARIABLES
  coming,     \* the bytes of the pressed keys that are still on their way
  wire,       \* the bytes that can be read from fd
  hung,       \* the terminal has hung up
  pending, hightide, is_closed,   \* the termkey instance
  pc,         \* where waitkey is: "out", or at one of its calls
  owed,       \* history: the keys pressed and not returned yet
  cut,        \* history: did the hangup cut off a key?
  res, last   \* what the last waitkey answered, and its key

waitvars == <<coming, wire, hung, pending, hightide, is_closed, pc, owed, cut, res, last>>

NoAnswer == "none"

WaitInit ==
  /\ coming = <<>> /\ wire = <<>> /\ hung = FALSE
  /\ pending = <<>> /\ hightide = 0 /\ is_closed = FALSE
  /\ pc = "out" /\ owed = <<>> /\ cut = FALSE /\ res = NoAnswer /\ last = NoAnswer

-----------------------------------------------------------------------------
(* The user, and the line to the terminal.                                 *)
Press ==
  /\ ~hung /\ coming = <<>> /\ Len(owed) < MaxOwed
  /\ \A i \in DOMAIN owed : owed[i] \in {Keystrokes[k] : k \in Hasty}
  /\ \E k \in DOMAIN Keystrokes : coming' = k /\ owed' = Append(owed, Keystrokes[k])
  /\ UNCHANGED <<wire, hung, pending, hightide, is_closed, pc, cut, res, last>>

Arrive ==
  /\ coming # <<>>
  /\ \E n \in 1 .. Len(coming) : wire' = wire \o SubSeq(coming, 1, n) /\ coming' = Rest(coming, n)
  /\ UNCHANGED <<hung, pending, hightide, is_closed, pc, owed, cut, res, last>>

Hangup ==
  /\ ~hung /\ hung' = TRUE /\ coming' = <<>>
  /\ cut' = (coming # <<>>)
  /\ owed' = IF coming = <<>> THEN owed ELSE Front(owed)
  /\ UNCHANGED <<wire, pending, hightide, is_closed, pc, res, last>>

Line == UNCHANGED <<coming, hung, cut>>

-----------------------------------------------------------------------------
Returns(result) == pc' = "out" /\ res' = result /\ UNCHANGED <<owed, last>>
Reaches(to) == pc' = to /\ UNCHANGED <<owed, res, last>>

waitkey ==
  /\ pc = "out" /\ Reaches("getkey")
  /\ Line /\ UNCHANGED <<wire, pending, hightide, is_closed>>

Undecoded == Rest(pending, hightide)

ReturnsKey(look) ==
  /\ pending' = Rest(Undecoded, look.n) /\ hightide' = look.keep
  /\ pc' = "out" /\ res' = "KEY" /\ last' = look.key
  /\ owed' = IF owed = <<>> THEN owed ELSE Tail(owed)

Drops == pending' = Undecoded /\ hightide' = 0

(* An AGAIN looks a second time, forced, at what it leaves in the buffer.  *)
LeavesBytes ==
  /\ pending' = Undecoded
  /\ hightide' = KeptBy(peekkey(Undecoded, TRUE, is_closed))

ForcesAtOnce ==   \* mutant: half a key is taken for what it is without waiting
  /\ pc = "getkey"
  /\ \E look \in {peekkey(Undecoded, TRUE, is_closed)} :
       \/ look.res = "KEY" /\ ReturnsKey(look)
       \/ look.res = "EOF" /\ Drops /\ Returns("EOF")
       \/ look.res = "NONE" /\ Drops /\ Reaches("read")
  /\ Line /\ UNCHANGED <<wire, is_closed>>

getkey ==
  /\ pc = "getkey"
  /\ \E look \in {peekkey(Undecoded, FALSE, is_closed)} :
       \/ look.res = "KEY" /\ ReturnsKey(look)
       \/ look.res = "EOF" /\ Drops /\ Returns("EOF")
       \/ look.res = "NONE" /\ Drops /\ Reaches("read")
       \/ look.res = "AGAIN" /\ ~is_closed /\ LeavesBytes /\ Reaches("poll")
       \/ look.res = "AGAIN" /\ is_closed /\ LeavesBytes /\ Reaches("force")
  /\ Line /\ UNCHANGED <<wire, is_closed>>

getkey_force ==
  /\ pc = "force"
  /\ \E look \in {peekkey(Undecoded, TRUE, is_closed)} : ReturnsKey(look)
  /\ Line /\ UNCHANGED <<wire, is_closed>>

(* advisereadable: a read takes what is there, as far as there is room.    *)
Room == BufSize - Len(pending)
advisereadable(more, none) ==
  \/ /\ wire # <<>>
     /\ LET n == IF Len(wire) < Room THEN Len(wire) ELSE Room
        IN  pending' = pending \o SubSeq(wire, 1, n) /\ wire' = Rest(wire, n)
     /\ Reaches(more) /\ UNCHANGED is_closed
  \/ /\ wire = <<>> /\ hung
     /\ is_closed' = TRUE /\ Reaches(none) /\ UNCHANGED <<wire, pending>>

(* With nothing pending there is room, and a read with nothing to read     *)
(* blocks until a signal interrupts it.                                    *)
read ==
  /\ pc = "read" /\ advisereadable("getkey", "getkey")
  /\ Line /\ UNCHANGED hightide

read_interrupted ==
  /\ pc = "read" /\ wire = <<>> /\ ~hung /\ FlagEintr /\ Returns("EINTR")
  /\ Line /\ UNCHANGED <<wire, pending, hightide, is_closed>>

(* The start of a key may fill the buffer.                                 *)
poll_full ==
  /\ pc = "poll" /\ (wire # <<>> \/ hung) /\ Room <= 0
  /\ Returns("ENOMEM")
  /\ Line /\ UNCHANGED <<wire, pending, hightide, is_closed>>

HangupIsEof ==   \* mutant: POLLHUP taken for the end of the file
  /\ pc = "poll" /\ Room > 0
  /\ \/ ~hung /\ advisereadable("getkey", "force")
     \/ hung /\ Returns("EOF") /\ UNCHANGED <<wire, pending, is_closed>>
  /\ Line /\ UNCHANGED hightide

poll_readable ==
  /\ pc = "poll" /\ Room > 0
  /\ advisereadable("getkey", "force")
  /\ Line /\ UNCHANGED hightide

NoTimeout ==   \* mutant: after a timeout it polls again
  /\ pc = "poll" /\ wire = <<>> /\ ~hung
  /\ Timely => coming = <<>>
  /\ Reaches("getkey")
  /\ Line /\ UNCHANGED <<wire, pending, hightide, is_closed>>

poll_timeout ==
  /\ pc = "poll" /\ wire = <<>> /\ ~hung
  /\ Timely => coming = <<>>
  /\ Reaches("force")
  /\ Line /\ UNCHANGED <<wire, pending, hightide, is_closed>>

poll_interrupted ==
  /\ pc = "poll" /\ FlagEintr /\ Returns("EINTR")
  /\ Line /\ UNCHANGED <<wire, pending, hightide, is_closed>>

Waits ==
  \/ getkey \/ getkey_force
  \/ read \/ read_interrupted \/ poll_full \/ poll_readable \/ poll_timeout \/ poll_interrupted
WaitNext == Press \/ Arrive \/ Hangup \/ waitkey \/ Waits

(* The line delivers, and a waitkey that has a step to take takes it.      *)
Fairness ==
  /\ WF_waitvars(Arrive)
  /\ WF_pc(pc = "getkey" /\ pc' \in {"out", "read", "poll", "force"})
  /\ WF_pc(pc = "force" /\ pc' = "out")
  /\ WF_waitvars(read) /\ WF_waitvars(poll_full) /\ WF_waitvars(poll_readable) /\ WF_waitvars(poll_timeout)
WaitSpec == WaitInit /\ [][WaitNext]_waitvars /\ Fairness

-----------------------------------------------------------------------------
(* Each waitkey that answers KEY answers with the next key the user        *)
(* pressed, a lone Escape included, however its bytes were delayed.  The   *)
(* beginning of a key that a hangup cut off comes after all whole ones.    *)
KeysInOrder ==
  [][getkey \/ getkey_force =>
       (res' = "KEY" /\ pc' = "out" =>
          IF owed = <<>> THEN cut ELSE last' = Head(owed))]_waitvars

(* A waitkey returns once there is something to answer: bytes of a key,    *)
(* enough to tell which or not, or the end of the file.                    *)
WaitReturns ==
  pc # "out" /\ (coming # <<>> \/ wire # <<>> \/ Undecoded # <<>> \/ hung) ~> pc = "out"

(* EOF is answered when "no key events are ready and the terminal has been *)
(* closed": a hangup drops nothing that was typed before it, not even the  *)
(* beginning of a key.                                                     *)
EofIsLast ==
  [][pc # "out" /\ res' = "EOF" /\ pc' = "out" => hung /\ wire = <<>> /\ Undecoded = <<>>]_waitvars
=============================================================================
