---------------------------- MODULE TermKeyLife ----------------------------
(***************************************************************************)
(* The life of libtermkey instances (termkey.c, driver-ti.c, driver-csi.c) *)
(* that may share one terminal: termkey_new, start, stop and destroy, the  *)
(* settings and the keypad mode of the terminal they change and undo, the  *)
(* memory they own, and what may fail on the way: an allocation, terminfo, *)
(* fstat, a write.                                                         *)
(*                                                                         *)
(* The library is called by one thread, so a call runs through its steps   *)
(* before the next one starts.  A setting is a flag of struct termios that *)
(* start clears.  The terminfo driver comes with the library but not with  *)
(* every terminal, and what terminfo says of one need not be usable.       *)
(***************************************************************************)
EXTENDS Integers, Sequences, FiniteSets

CONSTANTS
  Inst,      \* the instances
  Fds,       \* the kinds of descriptor: "none" is -1, "bad" no longer open
  FlagSets,  \* the flags a program uses: sets of "NOTERMIOS", "CTRLC", "NOSTART"
  MaxTrouble,  \* bounds how many different things go wrong
  None       \* no instance

ASSUME LifeAssumption ==
  /\ None \notin Inst
  /\ "none" \in Fds /\ Fds \subseteq {"tty", "pipe", "none", "bad"}
  /\ FlagSets \subseteq SUBSET {"NOTERMIOS", "CTRLC", "NOSTART"}
  /\ MaxTrouble \in Nat

VARIABLES
  tk,       \* per instance, its members
  heap,     \* per instance, what is allocated for it
  leaked,   \* history: memory was given up that was not freed
  modes,    \* the terminal: its settings
  keypad,   \* the terminal: "local", "xmit" or "torn", after half of a string
  at, of, by,   \* the step, the instance and the kind of the call in progress
  stack,    \* history: the instances whose settings are in force, the oldest first
  hist,     \* history: what went wrong or was done against the rules
  crashed

vars == <<tk, heap, leaked, modes, keypad, at, of, by, stack, hist, crashed>>

Settings == {"ICANON", "ISIG", "VQUIT"}
Events == {"start failed", "stop failed", "load failed", "no memory",
           "key lost", "unusable keys", "no stop string",
           "unordered", "flags changed", "never started"}

(* root: no terminfo driver, a NULL trie or one; strings: not yet assigned *)
(* or which of the start and stop strings are copies of terminfo's and not *)
(* NULL; begun, history: termkey_start was called.                         *)
Strings == {"start", "stop"}
Unassigned == {"unset"}
Members == [fd : Fds, flags : SUBSET {"NOTERMIOS", "CTRLC", "NOSTART"},
            started : BOOLEAN, valid : BOOLEAN, saved : SUBSET Settings,
            root : {"none", "NULL", "trie"}, strings : {Unassigned} \cup SUBSET Strings,
            begun : BOOLEAN]

Instance(fd, flags, root) ==
  [fd |-> fd, flags |-> flags, started |-> FALSE, valid |-> FALSE, saved |-> {},
   root |-> root, strings |-> Unassigned, begun |-> FALSE]

AllocUncleared == Instance("junk", {}, "none")   \* mutant: fd is not defaulted

termkey_alloc == Instance("none", {}, "none")

Own == {"tk", "buffer", "keynames"}
Ti == {"ti", "ti node"}
Csi == {"csi", "csi node"}
Parts == Own \cup Ti \cup Csi \cup Strings \cup {"term", "trie"}

InCharge == {stack[i] : i \in 1..Len(stack)}

TypeOK ==
  /\ tk \in [Inst -> Members] /\ heap \in [Inst -> SUBSET Parts] /\ leaked \in BOOLEAN
  /\ modes \in SUBSET Settings /\ keypad \in {"local", "xmit", "torn"}
  /\ at \in {"out", "termios", "load", "write", "stop drivers", "stop termios", "free"}
  /\ of \in Inst \cup {None}
  /\ by \in {"none", "new", "start", "stop", "destroy"}
  /\ stack \in Seq(Inst) /\ hist \in SUBSET Events /\ crashed \in BOOLEAN

Init ==
  /\ tk = [t \in Inst |-> termkey_alloc] /\ heap = [t \in Inst |-> {}] /\ leaked = FALSE
  /\ modes = Settings /\ keypad = "local"
  /\ at = "out" /\ of = None /\ by = "none"
  /\ stack = <<>> /\ hist = {} /\ crashed = FALSE

-----------------------------------------------------------------------------
Live(t) == "tk" \in heap[t]

(* A call of the program, and the steps it takes.                          *)
Calls(t, call, step) ==
  /\ ~crashed /\ at = "out"
  /\ at' = step
  /\ IF step = "out" THEN of' = None /\ by' = "none" ELSE of' = t /\ by' = call

Goes(t, from, to) ==
  /\ ~crashed /\ at = from /\ of = t
  /\ at' = to
  /\ IF to = "out" THEN of' = None /\ by' = "none" ELSE UNCHANGED <<of, by>>

Troubles(events) ==
  /\ hist' = hist \cup events
  /\ Cardinality(hist') <= MaxTrouble
Trouble(what) == Troubles({what})

Terminal == <<modes, keypad>>

(* termkey_new, or termkey_new_abstract for no fd, with the drivers that   *)
(* could be loaded; csi's only fails to for want of memory.                *)
termkey_new(t, fd, flags) ==
  \E ti, csi \in BOOLEAN :
    /\ ~Live(t) /\ (ti \/ csi)
    /\ Calls(t, "new", IF "NOSTART" \in flags THEN "out" ELSE "termios")
    /\ tk' = [tk EXCEPT ![t] = Instance(fd, flags, IF ti THEN "NULL" ELSE "none")]
    /\ heap' = [heap EXCEPT ![t] = Own \cup (IF ti THEN Ti \cup {"term"} ELSE {})
                                        \cup (IF csi THEN Csi ELSE {})]
    /\ IF csi THEN UNCHANGED hist ELSE Trouble("no memory")
    /\ UNCHANGED <<leaked, Terminal, stack, crashed>>

ForgetsBuffer == {{"buffer"}, {"ti", "term"}, {"csi"}}  \* mutant: the buffer is kept

(* What stays allocated when termkey_init gives up: nothing before the     *)
(* drivers or when none was loaded, else the one that got no list node.    *)
LeftByInit == {{}, {"ti", "term"}, {"csi"}}

(* With the terminfo driver in the list already, its NULL trie is freed.   *)
termkey_init_fails(t) ==
  /\ Calls(t, "new", "out") /\ ~Live(t)
  /\ \E left \in LeftByInit :
       /\ leaked' = (leaked \/ left # {})
       /\ crashed' \in IF left = {"csi"} THEN BOOLEAN ELSE {FALSE}
       /\ IF left \cap {"ti", "csi"} = {} THEN UNCHANGED hist ELSE Trouble("no memory")
  /\ UNCHANGED <<tk, heap, Terminal, stack>>

(* A started instance answers 1 at once.                                   *)
termkey_start(t) ==
  /\ Calls(t, "start", "termios") /\ Live(t) /\ ~tk[t].started
  /\ UNCHANGED <<tk, heap, leaked, Terminal, stack, hist, crashed>>

ClearedForgets(flags) == IF "CTRLC" \in flags THEN {"ISIG"} ELSE {"VQUIT"}   \* mutant

Cleared(flags) == {"ICANON", IF "CTRLC" \in flags THEN "ISIG" ELSE "VQUIT"}

Changes(t) == tk[t].fd = "tty" /\ "NOTERMIOS" \notin tk[t].flags

start_termios(t) ==
  /\ Goes(t, "termios", IF tk[t].root = "NULL" THEN "load" ELSE "write")
  /\ IF Changes(t)
       THEN /\ tk' = [tk EXCEPT ![t] = [@ EXCEPT !.begun = TRUE, !.valid = TRUE, !.saved = modes]]
            /\ modes' = modes \ Cleared(tk[t].flags)
            /\ stack' = Append(stack, t)
       ELSE /\ tk' = [tk EXCEPT ![t] = [@ EXCEPT !.begun = TRUE]]
            /\ UNCHANGED <<modes, stack>>
  /\ UNCHANGED <<heap, leaked, keypad, hist, crashed>>

(* A key_ string that is empty, is another's or begins an earlier one is   *)
(* not put into the trie, nor is its node freed.                           *)
KeysLost == {{}, {"key lost"}}

(* The strings that terminfo has and there is memory for are kept.         *)
Loads(t) ==
  \E kept \in SUBSET Strings, lost \in KeysLost :
    /\ tk' = [tk EXCEPT ![t] = [@ EXCEPT !.root = "trie", !.strings = kept]]
    /\ heap' = [heap EXCEPT ![t] = (@ \ {"term"}) \cup {"trie"} \cup kept]
    /\ leaked' = (leaked \/ lost # {})
    /\ Troubles(lost \cup (IF kept = {"start"} THEN {"no stop string"} ELSE {}))
    /\ UNCHANGED crashed

(* setupterm fails, or there is no memory for the root or a node under it. *)
LoadFails(t) ==
  \/ Trouble("load failed") /\ UNCHANGED <<tk, heap, leaked, crashed>>
  \/ \E lost \in KeysLost :
       /\ tk' = [tk EXCEPT ![t] = [@ EXCEPT !.root = "trie"]]
       /\ heap' = [heap EXCEPT ![t] = @ \cup {"trie"}]
       /\ leaked' = (leaked \/ lost # {})
       /\ Troubles(lost \cup {"load failed"})
       /\ UNCHANGED crashed

(* A key_ string that begins with an earlier one aborts the program, with  *)
(* none that is usable it searches for ever, and without memory it writes  *)
(* through NULL.                                                           *)
NeverLoads ==
  /\ Trouble("unusable keys") \/ Trouble("no memory")
  /\ crashed' = TRUE /\ UNCHANGED <<tk, heap, leaked>>

(* start_driver goes on when it failed.                                    *)
load_terminfo(t) ==
  /\ Goes(t, "load", "write")
  /\ Loads(t) \/ LoadFails(t) \/ NeverLoads
  /\ UNCHANGED <<Terminal, stack>>

(* What writing a string leaves the terminal's keypad in: the write goes   *)
(* through, fails, or fails half way; memory that was never assigned is    *)
(* NULL, points to something, or to nothing, which crashes.                *)
Driven(t) == tk[t].root # "none" /\ tk[t].fd # "none"
Unset(t) == Driven(t) /\ tk[t].strings = Unassigned
Writes(t, string) == Unset(t) \/ (Driven(t) /\ string \in tk[t].strings)
WritesOn(t, string, mode) ==
  /\ keypad' \in IF tk[t].fd # "tty" \/ ~Writes(t, string) THEN {keypad}
                 ELSE IF Unset(t) THEN {keypad, "torn"} ELSE {mode}
  /\ crashed' \in IF tk[t].fd = "tty" /\ Unset(t) THEN BOOLEAN ELSE {FALSE}

start_driver(t) ==
  /\ Goes(t, "write", "out")
  /\ tk[t].fd = "bad" => ~Writes(t, "start") \/ Unset(t)
  /\ WritesOn(t, "start", "xmit")
  /\ tk' = [tk EXCEPT ![t] = [@ EXCEPT !.started = TRUE]]
  /\ UNCHANGED <<heap, leaked, modes, stack, hist>>

(* The pointer to an instance is forgotten once these parts were freed.    *)
Abandons(t, freed) ==
  /\ leaked' = (leaked \/ heap[t] \ freed # {})
  /\ heap' = [heap EXCEPT ![t] = {}] /\ tk' = [tk EXCEPT ![t] = termkey_alloc]

(* termkey_start then answers 0, and termkey_new frees nothing but tk.     *)
start_driver_fails(t) ==
  /\ Goes(t, "write", "out") /\ Writes(t, "start") /\ tk[t].fd \in {"tty", "bad"}
  /\ keypad' \in IF tk[t].fd = "tty" THEN {keypad, "torn"} ELSE {keypad}
  /\ Trouble("start failed")
  /\ stack' = IF Changes(t) THEN SubSeq(stack, 1, Len(stack) - 1) ELSE stack
  /\ IF by = "new" THEN Abandons(t, {"tk"}) ELSE UNCHANGED <<tk, heap, leaked>>
  /\ UNCHANGED <<modes, crashed>>

-----------------------------------------------------------------------------
ForgetsDrivers(t) ==   \* mutant: termkey_stop only restores the settings
  /\ Calls(t, "stop", "stop termios") /\ Live(t) /\ tk[t].started
  /\ UNCHANGED <<tk, heap, leaked, Terminal, stack, hist, crashed>>

(* termkey_stop and termkey_destroy: an instance that is not started is    *)
(* not stopped.                                                            *)
termkey_stop(t) ==
  /\ Calls(t, "stop", "stop drivers") /\ Live(t) /\ tk[t].started
  /\ UNCHANGED <<tk, heap, leaked, Terminal, stack, hist, crashed>>

termkey_destroy(t) ==
  /\ Calls(t, "destroy", IF tk[t].started THEN "stop drivers" ELSE "free") /\ Live(t)
  /\ IF tk[t].begun THEN UNCHANGED hist ELSE Trouble("never started")
  /\ UNCHANGED <<tk, heap, leaked, Terminal, stack, crashed>>

FreesStrings(t) ==   \* mutant: the strings are given up with the keypad mode
  /\ Goes(t, "stop drivers", "stop termios")
  /\ WritesOn(t, "stop", "local")
  /\ heap' = [heap EXCEPT ![t] = @ \ Strings]
  /\ UNCHANGED <<tk, leaked, modes, stack, hist>>

(* Whether it could be written is not asked.                               *)
stop_driver(t) ==
  /\ Goes(t, "stop drivers", "stop termios")
  /\ \/ WritesOn(t, "stop", "local") /\ UNCHANGED hist
     \/ /\ Writes(t, "stop") /\ tk[t].fd = "tty"
        /\ keypad' \in {keypad, "torn"} /\ Trouble("stop failed") /\ UNCHANGED crashed
  /\ UNCHANGED <<tk, heap, leaked, modes, stack>>

(* With t's settings come back those that hold for the instances below it, *)
(* and the ones above it are no longer in charge.                          *)
Position(t) == CHOOSE i \in 1..Len(stack) : stack[i] = t

stop_termios(t) ==
  /\ Goes(t, "stop termios", IF by = "destroy" THEN "free" ELSE "out")
  /\ modes' = IF tk[t].valid THEN tk[t].saved ELSE modes
  /\ tk' = [tk EXCEPT ![t] = [@ EXCEPT !.started = FALSE]]
  /\ stack' = IF t \in InCharge THEN SubSeq(stack, 1, Position(t) - 1) ELSE stack
  /\ IF t \in InCharge /\ Position(t) < Len(stack) THEN Trouble("unordered") ELSE UNCHANGED hist
  /\ UNCHANGED <<heap, leaked, keypad, crashed>>

Frees(t) ==
  Own \cup (IF Csi \subseteq heap[t] THEN Csi ELSE {})
      \cup (IF tk[t].root = "none" THEN {}
            ELSE Ti \cup {"trie"} \cup (tk[t].strings \cap Strings))

(* termkey_free: a NULL trie is looked into, and strings never assigned    *)
(* are freed; so is what was freed before.                                 *)
termkey_free(t) ==
  /\ Goes(t, "free", "out")
  /\ \/ /\ tk[t].root = "NULL" \/ (tk[t].root = "trie" /\ tk[t].strings = Unassigned)
           \/ ~(Frees(t) \subseteq heap[t])
        /\ crashed' = TRUE /\ UNCHANGED <<tk, heap, leaked>>
     \/ /\ tk[t].root # "NULL" /\ Frees(t) \subseteq heap[t]
        /\ Abandons(t, Frees(t)) /\ UNCHANGED crashed
  /\ UNCHANGED <<Terminal, stack, hist>>

termkey_set_flags(t, flags) ==
  /\ Calls(t, "none", "out") /\ Live(t)
  /\ tk' = [tk EXCEPT ![t] = [@ EXCEPT !.flags = flags]]
  /\ IF "NOTERMIOS" \in flags \ tk[t].flags /\ tk[t].begun
       THEN Trouble("flags changed") ELSE UNCHANGED hist
  /\ UNCHANGED <<heap, leaked, Terminal, stack, crashed>>

(* termkey_getkey with bytes in the buffer: the trie is looked into; an    *)
(* instance that is not started answers TERMKEY_RES_ERROR.                 *)
termkey_getkey(t) ==
  /\ Calls(t, "none", "out") /\ Live(t) /\ tk[t].started
  /\ crashed' = (tk[t].root = "NULL")
  /\ UNCHANGED <<tk, heap, leaked, Terminal, stack, hist>>

Next ==
  \E t \in Inst :
    \/ \E fd \in Fds, flags \in FlagSets : termkey_new(t, fd, flags)
    \/ termkey_init_fails(t)
    \/ termkey_start(t) \/ start_termios(t) \/ load_terminfo(t)
    \/ start_driver(t) \/ start_driver_fails(t)
    \/ termkey_stop(t) \/ termkey_destroy(t)
    \/ stop_driver(t) \/ stop_termios(t) \/ termkey_free(t)
    \/ \E flags \in FlagSets : termkey_set_flags(t, flags)
    \/ termkey_getkey(t)

Spec == Init /\ [][Next]_vars

-----------------------------------------------------------------------------
Orderly == hist \cap {"unordered", "flags changed"} = {}

(* termkey_stop "restores the terminal": however instances are created,    *)
(* started, stopped and destroyed, as long as the one that changed the     *)
(* settings last is stopped first, the settings are those of before when   *)
(* none runs, and the keypad is back in its mode in whatever order, unless *)
(* a start, a load of terminfo or a write of the stop string failed, or an *)
(* instance has a start string and no stop string.                         *)
KeypadTroubles == {"start failed", "stop failed", "load failed", "no stop string"}
TerminalRestored ==
  at = "out" /\ (\A t \in Inst : ~tk[t].started) =>
    /\ Orderly /\ "start failed" \notin hist => modes = Settings
    /\ hist \cap KeypadTroubles = {} => keypad = "local"

(* An instance in charge of the settings finds the terminal raw, whichever *)
(* others are started and stopped, in any order, or could not be: an       *)
(* instance only ever restores what it found raw while another runs.       *)
RawWhileStarted ==
  "flags changed" \notin hist /\ InCharge # {} => "ICANON" \notin modes

(* What termkey_new or termkey_destroy is done with is freed, all of it,   *)
(* however often it was started and stopped and whichever drivers it has,  *)
(* unless a start failed inside termkey_new, memory ran out, terminfo      *)
(* could not be loaded, or it has a key_ string that is empty, another's   *)
(* or the beginning of an earlier one, whose node is lost.                 *)
LeakTroubles == {"start failed", "no memory", "load failed", "key lost"}
NothingLeaked == leaked => hist \cap LeakTroubles # {}

(* No sequence of calls looks into a trie that is not there, or frees what *)
(* is not allocated, unless an instance is destroyed that never was        *)
(* started, memory or terminfo failed, or terminfo's key_ strings begin    *)
(* with one another or none is usable.                                     *)
CrashTroubles == {"never started", "load failed", "no memory", "unusable keys"}
NoCrash == crashed => hist \cap CrashTroubles # {}
=============================================================================
