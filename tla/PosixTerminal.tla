---------------------------- MODULE PosixTerminal ----------------------------
(***************************************************************************)
(* The life of a posix_terminal (src/fancyrl/posix_terminal.c): setup_term *)
(* puts the terminal in raw mode and installs a handler for SIGWINCH,      *)
(* restore_term undoes both, deleting the object frees it.  Window resizes *)
(* come at any time, so setup_term is cut where one can be seen.           *)
(*                                                                         *)
(* The handler runs on the thread it interrupts, with SIGWINCH blocked, as *)
(* signal(2) arranges; the object's memory is as new() zero-filled it.     *)
(***************************************************************************)
EXTENDS Naturals

CONSTANTS
  Host,    \* what the program does with SIGWINCH before: "DFL", "IGN" or "host"
  Windows, \* the sizes the window may have
  Does     \* of "setup twice", "restore unset", "delete unset", "delete in use",
           \* "resize in setup": what this program and its user do

ASSUME TerminalAssumption ==
  /\ Host \in {"DFL", "IGN", "host"}
  /\ Windows # {} /\ 0 \notin Windows
  /\ Does \subseteq {"setup twice", "restore unset", "delete unset", "delete in use",
                   "resize in setup"}

VARIABLES
  object,   \* "live" or "deleted"
  at,       \* where the program is: "out" of the object's methods, or at a step
  cur_size, orig_sig_handler, output_speed, tk,    \* members of the object
  orig_stdin, cur_stdout,                          \* termios members: a mode, a speed
  stdin, handler,                                  \* what the kernel has
  window, winch,  \* the size of the window; a SIGWINCH is pending
  in_handler,     \* where sig_handle is, "out" if it does not run
  size, old, hsize, \* temporaries of setup_term and sig_handle
  up,       \* history: set up and not restored
  crashed

members == <<cur_size, orig_sig_handler, output_speed, tk, orig_stdin, cur_stdout>>
kernel == <<stdin, handler>>
temps == <<size, old, hsize>>
termvars == <<object, at, members, kernel, window, winch, in_handler, temps, up, crashed>>

Modes == {"cooked", "raw"}
TypeOK ==
  /\ object \in {"live", "deleted"}
  /\ at \in {"out", "131", "132", "132 assigns", "138", "190"}
  /\ in_handler \in {"out", "200", "201", "201 assigns"}
  /\ cur_size \in Windows \cup {0} /\ {size, hsize} \subseteq Windows \cup {0}
  /\ orig_sig_handler \in {"DFL", "IGN", "host", "own"}
  /\ {handler, old} \subseteq {"DFL", "IGN", "host", "own"}
  /\ output_speed \in {0, 1} /\ cur_stdout \in {0, 1}
  /\ tk \in {"NULL", "started", "stopped"}
  /\ orig_stdin \in Modes \cup {"zero"} /\ stdin \in Modes \cup {"zero"}
  /\ window \in Windows
  /\ {winch, up, crashed} \subseteq BOOLEAN

TermInit ==
  /\ object = "live" /\ at = "out" /\ in_handler = "out"
  /\ cur_size = 0 /\ orig_sig_handler = "DFL" /\ output_speed = 0 /\ tk = "NULL"
  /\ orig_stdin = "zero" /\ cur_stdout = 0
  /\ stdin = "cooked" /\ handler = Host
  /\ window \in Windows /\ winch = FALSE
  /\ size = 0 /\ old = "DFL" /\ hsize = 0
  /\ up = FALSE /\ crashed = FALSE

(* The program goes from one step to another, unless it is interrupted.    *)
Goes(from, to) ==
  /\ ~crashed /\ in_handler = "out"
  /\ at = from /\ at' = to
  /\ UNCHANGED <<window, winch, in_handler, hsize>>

-----------------------------------------------------------------------------
(* The speed is taken from a member that tcgetattr fills only later; then  *)
(* the size is asked for.                                                  *)
setup_term ==
  /\ Goes("out", "131") /\ object = "live" /\ (up => "setup twice" \in Does)
  /\ output_speed' = cur_stdout
  /\ size' = window
  /\ UNCHANGED <<object, cur_size, orig_sig_handler, tk, orig_stdin, cur_stdout, kernel, old,
                 up, crashed>>

setup_term_size ==
  /\ Goes("131", "132")
  /\ cur_size' = size
  /\ UNCHANGED <<object, orig_sig_handler, output_speed, tk, orig_stdin, cur_stdout, kernel,
                 size, old, up, crashed>>

setup_term_signal ==
  /\ Goes("132", "132 assigns")
  /\ handler' = "own" /\ old' = handler
  /\ UNCHANGED <<object, members, stdin, size, up, crashed>>

setup_term_orig ==
  /\ Goes("132 assigns", "138")
  /\ orig_sig_handler' = old
  /\ UNCHANGED <<object, cur_size, output_speed, tk, orig_stdin, cur_stdout, kernel, size, old,
                 up, crashed>>

SavesRaw ==   \* mutant: the settings are saved after they were changed
  /\ Goes("138", "out")
  /\ cur_stdout' = 1 /\ stdin' = "raw" /\ orig_stdin' = stdin'
  /\ tk' = "started" /\ up' = TRUE
  /\ UNCHANGED <<object, cur_size, orig_sig_handler, output_speed, handler, size, old, crashed>>

setup_term_raw ==
  /\ Goes("138", "out")
  /\ cur_stdout' = 1
  /\ orig_stdin' = stdin /\ stdin' = "raw"
  /\ tk' = "started" /\ up' = TRUE
  /\ UNCHANGED <<object, cur_size, orig_sig_handler, output_speed, handler, size, old, crashed>>

KeepsHandler ==   \* mutant: restore_term leaves the handler
  /\ Goes("out", "190") /\ object = "live" /\ (tk = "NULL" => "restore unset" \in Does)
  /\ UNCHANGED <<object, members, kernel, size, old, up, crashed>>

(* Nothing keeps a program from restoring again, or what it never set up:  *)
(* that gives the terminal the settings of zero-filled memory and stops a  *)
(* NULL tk.                                                                *)
restore_term ==
  /\ Goes("out", "190") /\ object = "live" /\ (tk = "NULL" => "restore unset" \in Does)
  /\ handler' = orig_sig_handler
  /\ UNCHANGED <<object, members, stdin, size, old, up, crashed>>

restore_term_modes ==
  /\ Goes("190", "out")
  /\ stdin' = orig_stdin /\ up' = FALSE
  /\ IF tk = "NULL" THEN crashed' = TRUE /\ UNCHANGED tk
                     ELSE tk' = "stopped" /\ UNCHANGED crashed
  /\ UNCHANGED <<object, cur_size, orig_sig_handler, output_speed, orig_stdin, cur_stdout,
                 handler, size, old>>

(* delete: destroy frees the trampolines, sig_handle among them, and calls *)
(* termkey_destroy, which looks into tk.  Neither restores the terminal.   *)
delete ==
  /\ Goes("out", "out") /\ object = "live"
  /\ tk = "NULL" => "delete unset" \in Does
  /\ up => "delete in use" \in Does
  /\ object' = "deleted" /\ crashed' = (tk = "NULL")
  /\ UNCHANGED <<members, kernel, size, old, up>>

-----------------------------------------------------------------------------
(* A resize raises SIGWINCH, which by default, or when ignored, is lost.   *)
Resize ==
  /\ ~crashed /\ (at \in {"out", "190"} \/ "resize in setup" \in Does)
  /\ window' \in Windows \ {window}
  /\ winch' = IF handler \in {"host", "own"} THEN TRUE ELSE FALSE
  /\ UNCHANGED <<object, at, members, kernel, in_handler, temps, up, crashed>>

(* The kernel runs the handler, which may be in memory that was freed.     *)
Signal ==
  /\ ~crashed /\ winch /\ in_handler = "out"
  /\ winch' = FALSE
  /\ in_handler' = IF handler = "own" THEN "200" ELSE "out"
  /\ crashed' = (handler = "own" /\ object = "deleted")
  /\ UNCHANGED <<object, at, members, kernel, window, temps, up>>

Handles(from, to) ==
  /\ ~crashed /\ in_handler = from /\ in_handler' = to
  /\ UNCHANGED <<object, at, kernel, window, winch, size, old, up>>

(* The handler found before is called if it is not NULL, which SIG_DFL is. *)
(* SIG_IGN is no function, and calling itself never ends.                  *)
sig_handle ==
  /\ Handles("200", "201")
  /\ crashed' = (orig_sig_handler \in {"IGN", "own"})
  /\ UNCHANGED <<members, hsize>>

sig_handle_size ==
  /\ Handles("201", "201 assigns")
  /\ hsize' = window
  /\ UNCHANGED <<members, crashed>>

AssignsStale ==   \* mutant: the size is kept from the first look
  /\ Handles("201 assigns", "out")
  /\ UNCHANGED <<members, hsize, crashed>>

sig_handle_assign ==
  /\ Handles("201 assigns", "out")
  /\ cur_size' = hsize
  /\ UNCHANGED <<orig_sig_handler, output_speed, tk, orig_stdin, cur_stdout, hsize, crashed>>

TermNext ==
  \/ setup_term \/ setup_term_size \/ setup_term_signal \/ setup_term_orig \/ setup_term_raw
  \/ restore_term \/ restore_term_modes \/ delete
  \/ Resize \/ Signal \/ sig_handle \/ sig_handle_size \/ sig_handle_assign

TermSpec == TermInit /\ [][TermNext]_termvars

-----------------------------------------------------------------------------
(* restore_term "restores original terminal settings": whenever the        *)
(* program is on its own, stdin is in the mode, and SIGWINCH is handled in *)
(* the way, that it was before, however often it was set up.               *)
TerminalRestored ==
  at = "out" /\ ~up => stdin = "cooked" /\ handler = Host

(* cur_size is the "currently known terminal size": once the signals of    *)
(* all resizes have been handled it is that of the window.                 *)
SizeKnown ==
  up /\ at = "out" /\ ~winch /\ in_handler = "out" => cur_size = window

(* A signal never brings the program down: no handler is called that was   *)
(* freed, that is no function or that calls itself.                        *)
NoCrash == ~crashed
=============================================================================
