# MutantC in TLA+

A verification development for MutantC (`GarethNelson/mutant_c`): TLA+ modules
translated from its C source, TLC runs that check them on small instances, and
TLAPS proofs of what can be shown for every instance.

Paths below are those of the repository; `src/rope.c` is the file `src/rope.c`
of the repository, which `PROJECT.json` calls `src/src/rope.c`.

1. [Inventory](#1-inventory)
2. [Plan](#2-plan)
3. [Modules and the code](#3-modules-and-the-code)
4. [Runs, bounds and fairness](#4-runs-bounds-and-fairness)
5. [Proofs](#5-proofs)
6. [Known deviations](#6-known-deviations)
7. [What is not modelled](#7-what-is-not-modelled)


## 1. Inventory

MutantC is a C program for x86-64: an object system whose methods are curried
through generated machine code and whose memory belongs to the Boehm collector,
a rope for its strings, and two line-editing fronts, an older stand-alone one
and a newer one that reads keys through a vendored, locally changed libtermkey.

| component | source | state | operations |
|---|---|---|---|
| input buffer of libtermkey | `libtermkey/termkey.c` | `buffer`, `buffstart`, `buffcount`, `buffsize`, `hightide`, `is_closed`, `is_started` | `push_bytes`, `advisereadable`, `getkey`, `getkey_force`, `set_buffer_size`, `start`, `stop` |
| key recognition | `termkey.c` (`peekkey*`, `emit_codepoint`, `parse_utf8`), `driver-csi.c`, `driver-ti.c` | none of its own but the tables of the drivers and the trie | `peekkey` with two drivers, a simple one and the mouse |
| waiting for a key | `termkey.c` 1049-1107 | that of the buffer, and where the call is | `waitkey`: decode, read, poll with a timeout, force |
| life of an instance | `termkey.c` 267-551, `driver-ti.c` 284-402 | flags, drivers, saved terminal settings, heap blocks | `new`, `new_abstract`, `start`, `stop`, `free`, `destroy` |
| terminfo trie | `driver-ti.c` 101-282 | the trie | `load_terminfo`, `insert_seq`, `compress_trie`, `lookup_next` |
| names and formats of keys | `termkey.c` 1173-1552 | constant tables | `strfkey`, `strpkey`, `keycmp`, `keyname2sym` |
| terminal, keys | `src/fancyrl/posix_terminal.c` 160-178, 231-316 | `raw_c` and the termkey instance | `read_key`, `get_cur_pos` |
| terminal, settings | `posix_terminal.c` 66-202 | saved termios and handler, `cur_size`, `tk` | `setup_term`, `restore_term`, `destroy`, the handler of SIGWINCH |
| terminal, output | `posix_terminal.c` 204-229 | none | `write_char`, `write_cstr` |
| rope | `src/rope.c`, `include/mutant/librope/rope.h` | a skip list of nodes, `num_chars`, `num_bytes` | `rope_new2`, `rope_insert`, `rope_del`, `rope_copy`, `rope_free`, `rope_write_cstr` |
| string class | `src/string_class.c` | method slots, a rope | `init`, `destroy`, `get_length`, `set`, `insert_cstr_at`, `append_cstr`, `print` |
| allocator class | `src/gc_allocator_class.c` | method slots | `init_root_allocator`, `init`, `destroy`, `new`, `delete`, `alloc` and its variants |
| trampolines | `src/curry_func.c` | pages of machine code and their protection | `curry_func`, `free_curry` |
| fancy_readline | `fancyreadline/fancyreadline.c` | the input string and three counters | one handler for each key |
| fancyrl library | `src/fancyrl/fancyrl.c` | none: a stub | none yet |
| s-expression parser | `sexp_parse/sexp_parse.c` | token and list nodes | `read_form`, `read_list`, `dump` |
| examples, demos, `utlist.h` | `examples/`, `libtermkey/demo.c`, `sexp_parse/` | | |

How they interact. An object's methods are slots that hold *trampolines*
(`curry_func`); an allocator makes objects (`new` calls its own `alloc`, then
the class's `init`, which curries each slot); a string keeps a pointer to its
allocator, and its rope keeps the allocator's `alloc`, `realloc` and `free`
trampolines for itself. The collector runs inside any allocation. A terminal is
such an object; it owns a termkey instance, and `read_key` pushes each byte it
reads into that instance's buffer by hand and asks it for a key. Inside
libtermkey the buffer offers its bytes to the terminfo driver, then to the CSI
driver, then to the simple decoder. The terminal answers a cursor query on the
stream on which the user's keys come. The kernel calls the curried signal
handler between any two instructions.

What is hard, and what makes each part correct:

- *the buffer*: bytes move (`memmove`, a slide by half the buffer, resizes)
  while some of them are already promised to the caller (`hightide`). Correct:
  nothing is lost, repeated or reordered, nothing outside the memory is touched,
  an AGAIN takes nothing, EOF comes last.
- *recognition*: it is asked after any number of bytes. Correct: the keys do not
  depend on how the bytes were delivered, and a forced look always answers.
- *waitkey*: a timeout races the bytes it waits for; signals, hangups and a full
  buffer cut in. Correct: keys in order, once each; the call always comes back.
- *read_key and get_cur_pos*: two readers of one stream that is also read a byte
  at a time. Correct: the next key, the terminal's own answer, both return.
- *settings and signals*: a signal between any two steps. Correct: settings and
  handler come back, the size is the current one, no freed code runs.
- *the rope*: a pointer structure whose levels must agree after any edit.
  Correct: it is the text it stands for, and no node is shared or leaked.
- *objects and trampolines*: reachability is through machine code the collector
  cannot read. Correct: live objects have callable methods, pages come back
  writable, none is left behind.
- *fancy_readline*: four pieces of state that must agree. Correct: it edits
  the text as an editor does, and only ctrl-c and ctrl-d end it.
- *life of an instance*: instances share a terminal, each saves what it finds,
  and any step of a start can fail. Correct: the terminal comes back, is raw
  while it is used, nothing is leaked, nothing missing is touched.
- *the trie*: strings of many terminals, loaded in the order of terminfo, some
  beginning with others, memory running out half way. Correct: a lookup answers
  what the strings say, and every capability finds its key.
- *names and formats*: a text is written by one function and taken apart by
  another that guesses what begins it; four bytes hold what does not fit them.
  Correct: what is written is read back, and comparing keys is an order.


## 2. Plan

The order is that of what the rest stands on.

| step | modules | state |
|---|---|---|
| 1 | `TermKeyBuffer`; `TermKeyDecode` and the lemmas about its looks (`TermKeyDecode_proofs`); `TermKey` (refines the buffer); proofs in `TermKey_proofs` | done |
| 2 | `TermKeyWait`, `PosixInput` (both use `TermKeyDecode`); the first one's proofs stand in `TermKeyLife_proofs` | done |
| 3 | `RopeText` and `Rope` (refines it), and their proofs | done |
| 4 | `CurryCall`, `Objects` and their proofs | done |
| 5 | `PosixTerminal` and its proofs (in `Fancyrl_proofs`) | done |
| 6 | `LineEditor` and `FancyReadline` (refines it), and their proofs (in `Fancyrl_proofs`) | done |
| 7 | `TermKeyLife` and its proofs: several instances on one terminal, every failure of theirs | done |
| 8 | `TerminfoTrie` and its proofs (in `TermKeyTables_proofs`): loading, compressing and looking up, against the table that `TermKeyDecode` takes as a constant | done |
| 9 | `StringClass`: the methods of a string as calls of `Rope` | done |
| 10 | `KeyNames` and its proofs (in `TermKeyTables_proofs`): formats, names, comparison, packing of mouse positions | done |

*Composition.* `TermKey` EXTENDS `TermKeyBuffer` and `TermKeyDecode` and replaces
the buffer's nondeterministic driver by the real ones. `TermKeyWait` and
`PosixInput` EXTEND `TermKeyDecode`. `Objects` takes of a trampoline that it runs
the function with the parameter it was curried for, which `CurryCall` is about.
`StringClass` EXTENDS `Rope`: a method is a call of the rope's operations, which
take their own steps. `TerminfoTrie` and `KeyNames` take `TermKeyDecode` as an
INSTANCE: the first for the driver its trie must answer like, the second for the
canonical form of a key.

*Abstract specifications.* `TermKeyBuffer` is the one of `TermKey` (property
`BufferSpec`: each step of the real drivers is one the buffer allows), `RopeText`
that of `Rope` (`IsText`), `LineEditor` that of `FancyReadline` (`EditsText`).
`TerminfoTrie` shows of its trie what `TermKeyDecode` assumes of the terminfo
driver: that it is a table from strings to keys (`KeysOfTerminal`, which is also
proved for every terminal).

*Theorems still worth proving.* Every invariant a run checks is a theorem now, and every
action property but two: `KeysInOrder` and `PositionReported` of `PosixInput`, whose two
readers take each other's bytes. The argument of `KeysComeInOrder` is the beginning of
one for the first, but `read_key` never forces and may leave bytes behind. Of the rope, that a heap with
`MaxChars` blocks for each rope is enough, which the run checks and the theorems avoid
by a heap without end.


## 3. Modules and the code

Each definition that stands for code is listed in `PROJECT.json` with its lines.
A definition marked `\* mutant` is a plausible mistake in the definition that
follows it, kept to show that a property can fail; no specification uses it.

### TermKeyBuffer

The variables are the fields of `struct _TermKey` of the same names. `received`
and `eaten` are histories: every byte accepted, and how many have left. One
action per function of the API; `getkey` is the whole call, with the forced
second look behind an AGAIN. What a driver says is a choice: KEY after some of
the bytes, perhaps behind Escapes it was reached through, perhaps keeping the
bytes of an unknown CSI sequence (`hightide`), or AGAIN, or NONE. A read outside
the memory gives `Junk`. `advisereadable` gives every outcome `read(2)` has.

### TermKeyDecode, TermKey

`TermKeyDecode` has no state. `peekkey(bytes, force, closed)` is the code of
`peekkey`, `peekkey_simple` and `peekkey_mouse` with the terminfo driver
(`ti_peekkey`, the loaded trie given as the constant `Terminfo`, a function from
byte strings to keys, and `MouseIntro`) and the CSI driver (`csi_peekkey`, with
its argument parser and every handler of its table). It answers a record: the
result, the key, the bytes it takes, the bytes it keeps and the driver, which
decides whether and where the buffer slides. `TermKey` puts it on the buffer.

Abstractions: modifiers a handler does not set are `{}`; a DCS or OSC string is
its bytes, with no saved copy to interpret later; an argument the parser never
wrote is `Leftover`; the parser's limit of sixteen arguments, a negative code
point from an empty argument of `CSI u`, and an intermediate byte after which
the SS3 table would be indexed past its end, are left out.

### TermKeyWait

`waitkey` as the loop it is: `pc` is "getkey", "read", "poll" or "force", one
action for each outcome of each call. `wire` is what can be read, `coming` what
the user pressed and is still on its way, `hung` that the terminal is gone. The
buffer is the sequence of bytes it holds: that it behaves as one is what
`NothingLost` and `SameKeysHoweverDelivered` say. `malloc` does not fail and the
instance has a descriptor. What a keystroke is comes as a constant, and
`KeystrokesAssumption` says of it that its bytes are a key to libtermkey and the
beginning of them the beginning of one; one that is also the beginning of another key
(a lone Escape) is not `Hasty`: the user waits after it. `Timely` is that the bytes of a
key follow each other within `waittime`.

### PosixInput

`read_key` reads one byte and answers it if it is printable; otherwise it pushes
it and reads on while libtermkey answers AGAIN (`read_key_again`). `get_cur_pos`
writes the query and reads up to an `R`, 31 bytes or the end. `tty` is the
stream both read. `owed` is the history of keys pressed and not answered.

### PosixTerminal

`at` is the source line the program has reached inside `setup_term` or
`restore_term`; a signal can come at each. The handler has its own position,
because a resize can come between the `ioctl` in it and the assignment of its
result. `stdin` and `handler` are what the kernel has; `orig_stdin` and
`orig_sig_handler` what the object saved, "zero" while it is the zero-filled memory.
None of the methods has a guard of its own: `Does` names the orders of calls the
object does not bear (section 6), which the run leaves out; restoring again is not
one of them.

### TermKeyLife

`tk[t]` holds the members of instance t that its life is about; `strings` says which
of the keypad's two strings it has, or that nothing was assigned to them yet.
`heap[t]` names the blocks that are allocated for it, and `leaked` records that one
was given up. `modes` and `keypad` are the
terminal's, "torn" after half of a string was written. A call is a chain of steps
(`at`, `of`, `by`), one for each function that can fail or touches the terminal:
`termkey_new` or `termkey_start`, `start_termios`, `load_terminfo`, `start_driver`;
`termkey_stop` or `termkey_destroy`, `stop_driver`, `stop_termios`, `termkey_free`.
The program is single-threaded, so no two calls overlap; that a call is cut into
steps is what lets each of them fail on its own. Failing is a choice where the code
tests for it: an allocation inside `termkey_init`, `setupterm`, the allocations
behind it, `fstat`, a `write` that fails at once or half way (one that is interrupted
counts as failed, one that is short goes on). `load_terminfo` has the outcomes that
the strings of a terminal decide, which `TerminfoTrie` derives from them: the trie is
made, with or without keys whose node `insert_seq` neither links nor frees (`KeysLost`),
and with either, both or none of the keypad's strings, which terminfo may not have or
`strdup` find no memory for (`Loads`); it is given up (`LoadFails`); or the program
aborts, searches for ever or writes through NULL (`NeverLoads`).
`stack` is a history of who changed the settings and has not given them back;
`hist` names what went wrong or was done out of turn, because each property holds
but for some of that. Of `struct termios` the model keeps the three settings that
start may clear, of the flags the three that steer these functions.

### TerminfoTrie

A node is known by the bytes that lead to it, and `trie` maps those to nodes: the
array of a node is which longer paths there are, so two parents cannot share a
node, as in the code, where each node is made for one place. Of a node the model
keeps the type, the key and the range `compress_trie` gives it. One turn of the
loop of `load_terminfo` is one step (`load_key`, `load_no_key`, `load_fails`);
`given` records the strings in the order they came. `funcname2keysym` is the search
by halves over the code's table, entry by entry, as a recursive function. Names are
compared by their place in `Sorted`, the order of `strcmp`; which names are an `f`
and a number, or an `s` before a name, is given by constants. `TableAssumption` says
what those of terminfo are like; the table itself is the code's, all 42 entries.

### KeyNames

The state is the table of names, which `termkey_register_keyname` writes over or
lengthens, and the canonical flags. The rest are functions of keys: a text is a
sequence of words, separators and characters, because what can go wrong is which of
them is taken for the beginning of what. `set_linecol`, `get_linecol`, the bytes of
a mode report and `strncmp` are the arithmetic of the code, bit by bit. `strpkey`
answers the key and what is left of the text, or nothing. `strfkey` writes into a
buffer that is long enough; mouse, position, mode and DCS texts are never read back
and are left out. The address that two control strings are compared by is, too.
The built-in table has an entry for each symbol in use; the code's starts with room
for 64 and NULL behind the last, which is what a symbol without a name answers, and
`Legible` leaves such symbols out.

### RopeText, Rope

The heap is explicit: `node` maps blocks to nodes, so a node shared by two ropes,
leaked or freed twice is visible. A node of height h has `nexts[1..h]`, the
code's levels 0 .. h-1. `rope_insert` and `rope_del` are a `Call`, which records
the arguments, and the operation, one step each: the specification of a text
then says which edit must have been made. Heights are a choice of all that
`random_height` can return. Characters have a size in bytes, so that a node is
cut between two of them; `Bad` is an invalid sequence. A loop of the code is
`Loop`: what its body has made of the first state after as many rounds as it can
take, where a round behind the end changes nothing (`Walk` for `iter_at_char_pos`,
`Delete` for `rope_del_at_iter`). The walks along the lowest list that free, copy or
write a whole rope are the recursive functions `Behind` and `Written`.

### StringClass

A method is one or two calls of librope: `append_cstr` inserts at `get_length`,
`set` deletes everything and then inserts (`setting` holds the text meanwhile). The
calls are those of `Rope`, records and steps included, so the string's rope is the
rope that is checked there and every insertion of the run goes through a method.
`print` is not modelled: it changes nothing, and no property is about what it writes
(it prints each node with `%s`, though nothing puts a zero behind a node's bytes).

### CurryCall

The bytes are decoded as the processor decodes them, not as their comments read.
One step executes one instruction. Its specification is `CallSpec`, so that
`Objects_proofs` can extend it beside `Objects`.

### Objects

An object is its slots, its allocator and, for a string, the `free` its rope
kept; a trampoline is a page with a protection, a function and a parameter.
`init` of either class is a step for each slot (`NextSlot`), between which the
collector may run; `delete` is `destroy` and everything after it in one step, for
it allocates nothing. `collect` takes whatever the program's pointers, the static
root and the object under construction do not reach; the parameter inside a
trampoline is at an odd address and is no reference. A page goes back with the
protection it has. Which free page is taken next is a CHOOSE: pages differ only
in their protection history, and the properties quantify over all of them.
`misused` records what a program did that it should not: forget an object
without deleting it, initialise the root twice, delete an allocator.

### LineEditor, FancyReadline

`cur_frl_input` is the memory `realloc` gave, with junk where nothing was
written; the text is what is before its first zero. One `Press` is one turn of
`do_fancy_readline`. Output is left out. An Escape key of its own, behind which
`read_esc` would take the next two keys, is not among the keys.


## 4. Runs, bounds and fairness

| run | asks | bounds | states |
|---|---|---|---|
| `buffer` | is the buffer a queue of bytes, whatever the calls | sizes 2 and 4, 6 bytes received, 2 at a time, 1 Escape | 111 419 |
| `termkey` | do the real drivers on it give the same keys however bytes come | size 4, 5 bytes of one subject | 180 960 |
| `termkey_wait` | does `waitkey` answer each key once, in order, and return | 9 keys of 1 to 7 bytes, 2 owed, buffer of 6 | 145 642 |
| `termkey_life` | is the terminal raw meanwhile and itself afterwards, and is memory | 2 instances, terminal or no descriptor, 3 sets of flags, one kind of trouble | 2 277 125 |
| `terminfo_trie` | does the loaded trie answer what the strings say, whichever they are | 7 capabilities, 7 strings of up to 3 bytes, look-ups of up to 3 | 13 689 |
| `key_names` | is what is written read back, is comparing an order | 8 symbolic keys, 2 names registered, 12 formats, 57 keys, 19 events | 856 |
| `posix_input` | do `read_key` and `get_cur_pos` answer in order and return | 7 keys, 5 bytes unread, two positions | 113 798 |
| `posix_terminal` | do settings, handler and size survive signals | 3 sizes | 1 668 |
| `rope` | is a rope its text, are two ropes apart, do a string's methods what they say | 4 characters, nodes of 3 bytes, heights up to 3 | 754 172 |
| `curry_call` | do the arguments arrive | 2 values a register can hold, all registers | 1 408 |
| `objects` | are methods callable, pages clean, under a collector | root and 2 objects, 24 pages | 3 588 |
| `fancyreadline` | is it a line editor | 6 characters, 11 keys, edits at the end | 8 419 |

Why the bounds are enough.

- *buffer*: at size 4 the slide (half the buffer) happens with one and with two
  bytes behind it, at size 2 with one; six bytes go round a buffer of four with a
  slide, a move to the front and a resize on the way. The bytes are symmetric:
  the buffer never looks at one.
- *termkey*: the alphabet is split by subject (CSI, mouse, SS3, strings with
  UTF-8, and an 8-bit CSI that is shorter and so runs longer). Within one subject
  every string up to the bound is tried with every delivery. Four bytes hold a
  whole sequence of each kind, five one and the beginning of the next; the 8-bit
  subject reaches the slide and the wrap. `Bounds` lets the terminal close and
  the instance stop only early, since the buffer run does both at any time.
- *termkey_wait*: two keys at once, each cut at every place and delayed at each;
  one control string is longer than the buffer.
- *termkey_life*: two instances are the outer and the inner one of every nesting
  that matters (started, stopped, destroyed in either order, again and again); the
  theorems are for any number. The sets of flags are none, ctrl-c left as a key, and
  neither settings nor a start at once; `termkey_set_flags` changes one into another. One kind of trouble at a time (`MaxTrouble`), as often
  as it comes, so that each exemption of a property is seen by itself. A pipe and a
  closed descriptor are left to the theorems.
- *terminfo_trie*: a capability of every kind (in the table, at its end, the one out
  of order, numbered, F0, two with an s, the mouse), with strings that are equal,
  empty, begin with one another or part at the first, second or third byte, at both
  ends of a node's range. Look-ups have every string up to three of the bytes used.
- *key_names*: two registrations put a name over another's and one beside it; the
  new names begin others, are begun by them, or are others' already. The characters
  are those a text has a meaning for. The events have one byte beside another, at
  the bounds of each field. No loop of these functions runs over more than that.
- *posix_input*: the keys are one of each kind of decision `read_key` makes. Five
  unread bytes are one sequence and the start of another; the position report
  has one and two digits in each place.
- *posix_terminal*: the property compares two sizes, and a third tells a stale
  size from an older one. The host has a handler; the theorem covers the others.
- *rope*: nodes of three bytes and characters of one and two make every case of
  filling, cutting and splitting a node, and a fourth character a rope of up to
  four nodes, which is more than the levels. Positions and lengths go one past
  the end. A string is set to a text that needs two nodes or to an invalid one
  (`Texts`). `RopeCheck` is asked between two calls, as the code's own
  `_rope_check` is. A second rope is a copy that is edited while both hold at most three
  characters (`MaxBoth`).
- *objects*: the root, an allocator or string of its own, and one more, so that
  an object can be deleted under another; 24 pages are one for each slot. States
  behind the deletion of an allocator are cut off, since every property is about
  programs that have not.
- *fancyreadline*: six characters hold two lines, the second with an indent
  taken from the first.

Each property has a mutant in `PROJECT.json`: a mistake in one definition under
which TLC refutes that property in that run.

Fairness. `termkey_wait`: the line delivers what was sent, and each call that can
return returns; a `poll` is not required to be interrupted and a user never has to
press anything. Weak fairness is on the change of `pc`, which is what a running
thread gives. `posix_input`: the program takes a byte that is there, its loop goes
on, and the terminal answers its query. Nothing is assumed of the user. The other
runs check safety only.

`CHECK_DEADLOCK FALSE` is given where a program stops by itself: after the jump of
a trampoline, after a fault or with all pages in use in `objects`, after ctrl-c in
`fancyreadline`, after a crash in `termkey_life`, and when `terminfo_trie` has
loaded.


## 5. Proofs

All proofs are checked by `tlapm` down to the last leaf. Liveness and ENABLED are
out of its reach, and so is induction over data with a predicate as a parameter;
where a proof needs what a recursive function computes, it takes the least
counterexample (`HasLeast`) of the statement at hand. With TLC stay the three properties
of `PosixInput` and `WaitReturns` of `TermKeyWait`, the liveness among them for good.
Types are proved of `TermKeyWait` as a part of its invariant (`WaitTypes`). Type
correctness of `Objects` and `PosixTerminal` is part of their inductive invariants and
is not checked by a run of its own.

| theorem | says | for |
|---|---|---|
| `BufferBounds` | `TypeOK` and `WithinBuffer` always | every set of sizes, even or odd; a host that never shrinks the buffer, at most one Escape before an unfinished key (`GentleHost`) |
| `BytesSurvive` | `NothingLost` always | the same, and even sizes (`EvenSizes`) |
| `AgainLeavesBytes` | `AgainTakesNothing` always | the same as `BytesSurvive` |
| `BufferTyped` | `TypeOK` always | every set of sizes, a host that shrinks the buffer under its bytes, any number of Escapes |
| `DriversKeepPromises` | `BufferSpec`: each step of `TermKey` is one of the buffer | any bytes and flags; a buffer that allows as many Escapes as fit in it (`AnyEscapes`); a terminal none of whose strings begins with two Escapes or with Escape and the 8-bit CSI, and whose mouse's is not a lone Escape (`NoMetaStrings`) |
| `ForceAlwaysAnswers` | `ForceAnswers` always | any bytes, flags and strings of the terminal |
| `RealDriversLoseNothing` | `NothingLost` of the real drivers always | any bytes; a terminal as above, no two Escapes received in a row (`LoneEscapes`), even sizes, a host that never shrinks the buffer |
| `KeysAsDelivered` | `SameKeysHoweverDelivered` always | the same, and a CSI driver that finds no key where the terminfo driver waits for more (`OneDriver`) |
| `KeptCsiInterpretable` | `CsiInterpretable` always | the same as `RealDriversLoseNothing` |
| `EofComesLast` | `EofIsLast` | any keystrokes, flags and size of the buffer, any delays; a terminal as above (`NoMetaStrings`) |
| `KeysComeInOrder` | `KeysInOrder` | the same, `OneDriver`, and bytes of a key that follow each other within the waiting time (`Timely`) |
| `TrieIsTable` | `KeysOfTerminal` always | every list of capabilities, every set of strings for each of them, every pending bytes |
| `LoadingEnds` | `LoadsUnlessClash` always | the same |
| `NamesAreFound` | `NamesFound` always | every list of capabilities whose names are like those of terminfo: none but "begin" is out of order in the table, none stands behind "up", and behind an s is a name of the table or one without a key (`TableAssumption`) |
| `EventsCompared` | `ComparesEvents` always | every set of keys as the drivers make them (`EventsAssumption`), every table of symbols, any registrations and canonical flags |
| `TextsRoundTrip` | `RoundTrip` always | every set of keys that are written, every alphabet, table of names and set of formats, any registrations; words of names are not modifiers, and characters, modifiers and numbers are each written in their own way (`NamesAssumption`) |
| `RopesAreTexts` | `IsText` | every number of ropes, every alphabet, size of a node, height and sequence of calls; an allocator that always has another block (`HeapAssumption`) |
| `RopesPassTheirCheck` | `RopeCheck` always | the same |
| `RopesOwnTheirNodes` | `OneOwner` always | the same |
| `SetsReplaceTexts` | `SetReplaces` | the same |
| `RopeTypes` | `TypeOK` (of `Rope`) always | the same |
| `FirstArgumentsArrive` | `FirstArguments` always | every set of register values |
| `MethodsStayCallable`, `RopesStayFreeable` | `MethodsCallable`, `RopesFreeable` always | every number of objects and pages |
| `PagesComeBackWritable` | `FreePagesWritable` always, and no fault while nothing was misused | the same |
| `NoTrampolineLeft` | `NoOrphans` always | the same |
| `RestoresTerminal` | `TerminalRestored` always | a program that does not set up twice, restores and deletes only what was set up, and not in use (`InTurn`); every set of sizes and every earlier handler |
| `SignalsHarmless` | `NoCrash` always | the same, and SIGWINCH not ignored before |
| `SizeStaysKnown` | `SizeKnown` always | the same as the first, and no resize inside `setup_term` (`Patient`) |
| `CountersStayRight` | `CountersRight` always | every text and order of keys of a user who edits at the end of the text (`EditsInside = FALSE`) |
| `EditorRefines` | `EditsText` | the same |
| `OnlyControlEnds` | `OnlyControlFinishes` always | no key that sends Escape, `[` and a digit |
| `RestoresTerminal` (of `TermKeyLife`) | `TerminalRestored` always | every number of instances, every set of flags, every kind of descriptor, failures of any number and kind |
| `StaysRaw` | `RawWhileStarted` always | the same |
| `FreesAll` | `NothingLeaked` always | the same |
| `CrashesOnlyForCause` | `NoCrash` always | the same |
| `TypeCorrect` | `TypeOK` always | the same |

The assumptions are not conveniences: without each of them the statement is false
of the code, as section 6 says.

*The buffer.* `WithinBuffer` with `TypeOK` is inductive by itself. `NothingLost`
needs both, and the arithmetic of the slide: `buffstart` is at least half the
size when it happens, and with an even size what is behind the half fits in it
(`SlideReads`). Each action is reduced to three ways in which cells change (a
move to the front, an append, a slide) with a lemma each. `AgainTakesNothing`
follows: before the step and after it the bytes not yet decoded are the received ones
from the same place on.

`BufferTyped` has no assumption: `CountInv` forgets where the bytes are and keeps that
there are no more of them than the largest size and no more promised than there are.

*The drivers.* Bottom up, each function of `TermKeyDecode` is shown to take at least
one byte and at most what is there, to keep no more than it leaves (`Fits`), and to
answer a forced look with a key (`...Forced`). `peekkey` calls itself on the bytes behind
an Escape; `Looks` says that from the last place back as a function (`AtPlace`), which is
the one the module's recursive function equals (`PeekkeyLooks`), and the least distance
from the end at which an answer would be wrong gives the contradiction (`LooksAnswer`).
`PlaceForced` and `LooksForced` compare two looks at the same bytes, for the second look
of `getkey` behind an AGAIN: it keeps nothing that the first one waited for, and this is
where `NoMetaStrings` is needed. `StepRefines` then goes through the actions, with
`CountInv` for what is pending.

`BytesSurvive` asks of every driver that it leaves at most one Escape in front of an
unfinished key; `OneEscape` shows it of the real ones when the bytes received have no two
Escapes in a row, and `RealDriversLoseNothing` follows. For `KeysAsDelivered` a look has
to be *stable*: a key found in some bytes is the key found in them with more behind
(`PeekkeyStable`), for which each function of the drivers has its lemma. It fails only
where the terminfo driver, asked first, waits for more and the CSI driver answers at
once, which `OneDriver` rules out. `Reads` says that taking keys from some bytes one
after the other takes so many of them and answers these keys; it goes on where it
stopped (`ReadsOn`) and holds for more bytes (`ReadsStable`), so that `KeysInv`, that
the bytes received read as the keys answered up to where the instance is, is inductive
until a look is forced. `ReadsPrefix` turns it into a prefix of `KeysOf`. `KeptInv`, for
`KeptCsiInterpretable`, says that what is kept at the front of the buffer is one whole
control sequence and the last key its command: `parse_csi` reads the same sequence
at another place and with other bytes behind it (`ParseCsiShift`).

*Waiting for a key.* `WaitInv` says that a blocking read happens with nothing pending,
that `waitkey` polls, or forces a key, only when there are bytes of one, and that
libtermkey knows of the end only when the line is empty; the second look behind an AGAIN
keeps nothing (`NoMetaStrings`), or the forced look could find no bytes. `EofIsLast`
follows. For `KeysInOrder`, `OwedInv` says that what libtermkey has not decoded, what can
be read and what is on its way (`Sent`) are the keystrokes that are owed, one after the
other, and behind them at most what a hangup left of one. An unforced look finds no key
before a keystroke is whole and then exactly that (`FindsNext`, by `PeekkeyStable`).
`ForceInv` says what a timeout or the end forces: the beginning of a key cut off, with
nothing owed, or the last keystroke, when it is one after which the user waits, so that
nothing can have followed it. This is where `Timely` is needed.

*The line editor.* `EditInv`: the memory holds a text of `cur_frl_input_len` characters
and its zero (`Holds`), the cursor is in the last line of it, on the column that says so,
and nothing was written outside. Enter copies the indent with a loop of insertions
(`TypedExists`, the state after each of them), and `LastNewline` of the text before and
after is what ties the loop of the code to the one step of `LineEditor`.

*The trie.* `TrieInv` says what the nodes are. `Paths`: with a node all those on the
way to it are there, and they are arrays, so no key hides another. `KeysThere` and
`HeardThere`: the nodes that are not arrays are those of the strings that are heard,
which needs that while loading every string given leads somewhere (`StringsThere`).
`NothingElse`: every node leads on to a string that is heard, which is what makes
asking for more bytes right. `Uncompressed` and then `Ranges`: an array's bounds take
in all its bytes. A new string either is there already, leaves the trie at an array,
or clashes; the three cases have a lemma each. `Ranges` holds behind `compress_trie`
because a bounded set of bytes has a least and a greatest one (`HasLeast`,
`HasGreatest`), and along a string the nodes that are there are a beginning of it
(`ReachedLongest`); so at most one string that is heard begins the pending bytes, and
the walk ends at it (`FoundAtEnd`).

*The search by halves.* The table is not in order, "begin" standing before "beg", and
its range ends with the NULL entry, so the usual argument does not apply. `SearchHalves`
turns the recursive function into an equation between a range and its halves. For an
entry in order (`OrderedFound`) the shortest range that has it and misses it gives the
contradiction: each comparison goes the right way, the two entries that are out of order
being on one side of it. `BegFound` follows the one way that leads to "beg";
`OthersNotFound` says that other names end in a range of one, before the NULL entry.
`KeyOfTail` then says why the call behind an s does not go on for ever: there it finds
an entry or nothing.

*Comparing keys.* `termkey_keycmp` takes canonical forms, which are keys of the same
kind and as well said by their bytes (`CanonicalEvent`), so it is enough to look at
those. `Rank` gives each key of a type one number, made of what is compared in the order
in which it is, and `Precedes` puts the types before it. For each type a lemma
(`NumbersRank`, `SymsRank`, `MiceRank`, `PositionsRank`, `ModesRank`) shows that the sign
of the first difference is that of the ranks and that equal ranks are equal keys. The
latter is where the bytes count: eight bits are told by their number (`BytesTell`), a
place is what `get_linecol` reads back (`PlaceKept`), and `strncmp` stops at a zero
(`StringsCompared`).

*Writing and reading keys.* `NamesKept` says that every name in the table has words and
none goes beyond the symbols; all else holds of each state alone. A text is modifiers
with their separators (`ModPrefix`, built up by `ModsWritten`) and a body. `ReadingMods`
shows that exactly those are read: the separator may be a typed "-" or " " and a typed
letter the name of a modifier, but never both of the two tokens a modifier needs.
`FirstLookedUp` and `NothingLookedUp` say of the table of names what `Legible` asks, that
nothing before the key's own name takes the text, and so the body is read as the key
(`ReadingBody`, one lemma for each type). A caret and its character are read without
the flag they were written with (`ReadingCaret`), and that the key read differs at most
by its canonical form, taken twice, is `CanonicalTwice`.

*The rope.* `HeapAssumption` is that the blocks are numbers without end, other than
the ropes and NULL, and that a node, a free block and a missing rope are not taken for
one another: `rope.c` does not test what its allocator answers, so a heap that runs out
is outside what it does; the run of section 4 has a finite one, just large enough.
`RopeRows_proofs` holds the lemmas about one rope, insertion into it included;
`Rope_proofs` stands on it with deletion, the heap, the calls and the theorems.

`StringInv` is the inductive invariant. Its core, `Good`, says of every rope that there
is a *row* (`Row`, `Shape`): a start, an end and a height for each of its nodes, such
that the nodes lie behind each other and fill the text, and the link of a node on each
of its levels is to the next one in the row that is tall enough (`Linked`, `LinkFor`),
with the skip that their starts give. `RopeCheck` says as much, but by way of `Behind`
and `Written`, which are functions only as long as the lowest list is in order; a row
needs no list, so that a step which moves links can be followed node by node, those of
the lists that pass over the place included. Rows of two ropes have no node in common
and every used block is in one (`Fine`). `CallOK` and `SettingOK` say of the call and of
the `set` under way that they fit: that a `set` clears as much as there is, and that
what it fills is empty.

Each loop is one about `Loop`, whose rounds are a function (`RoundsExist`); what they
keep is shown upwards from the first (`Upward`). `Walk` is at the last node of its level
that begins before the position, so its iterator passes over it on every level (`Over`,
`At`). An edit of a node (`Resized`), a new node (`Inserted`) and one taken out each
turn a row into a row, and the links the code writes into those of that row; a string
in pieces is that lemma for each piece, a deletion the two lemmas of `TrimNode` and
`UnlinkNode` for each round, until nothing is left to delete. Copying renames the nodes
of a row (`Renamed`). `Behind` and `Written` are what the row says from the last node
back (`Reached`), so the text of a rope is the text of the invariant, and each operation
is seen to turn it as `RopeText` does (`Turns`, `Changes`).

*The trampoline* (`CurryCall`, in `Objects_proofs`). `Holds` says for each instruction which registers already hold
their final value and which still hold the caller's. The moves run backwards, so
that a step never overwrites a register a later one reads.

*Objects.* `MethodsCallable` is not inductive: during `init` a slot is still NULL,
and the collector must not take the object under construction. `IInv` adds that a
non-NULL slot holds the trampoline of its own method, that after `init` none is
NULL, that the missing ones are those still to do, and that a string's allocator is
ready. It is preserved by every step behind which no allocator has been deleted.
`misused` only grows, so `KeepsAllocators => IInv` is an invariant of every
behaviour and the theorems need no assumption. For `NoOrphans` and
`FreePagesWritable`, `Clean` adds that nothing crashed, that every object is held,
the root or being built, and that the slots still to curry are NULL and distinct:
that currying a slot loses nothing.

*The terminal.* `Settings` gives for each place in the two methods what the kernel
has and what the object saved; `Callable` that the saved handler is one that may be
called; `Sizes` that a size which is not the window's is about to be corrected by a
pending signal or by the handler that is running.

*Life of instances.* What restores the terminal is that the instances in charge of
it form a stack: each saved the settings the one below left, and the lowest saved
the original ones. `StackInv` says so, and that an instance which is not in the stack
saves nothing it would restore but after `unordered` or `flags changed`; `LevelInv`
says which settings are in force on each level, so that all but the lowest saved a
terminal that was raw, which is why even stopping out of order leaves it raw for
those that remain. `KeypadInv` ties the keypad to the instances that switched it on;
`HeapInv` ties the blocks of an instance to its members (a trie when the root is
one, strings when they are set), which is what `termkey_free` frees by; `CallInv`
says what the step a call has reached knows of its instance, and `MemberInv` which
members go together, a start string without a stop string being on record. None is inductive without the others: `IInv` is all of them
with `TypeOK` and `NoCrash`. Each action has a lemma that says what it changes
(`...Effect`), and each part of the invariant is shown to survive those effects.


## 6. Known deviations

Where the code does not do what its documents say, or what a caller would expect,
as met while modelling. Each run leaves them out by its constants, by a precondition
of its property that names them, or by what a program is assumed to do; the entry
says which where changing one constant shows it.

libtermkey:

- *Two Escapes and a slide* (`termkey.c:880`): the slide moves a `buffstart` that
  `peekkey_simple` had moved past the Escapes, and the outer `buffstart--` then
  leaves the instance before its data. `MaxEscapes = 2` in `MCTermKeyBuffer.cfg`
  violates `AgainTakesNothing`.
- *Odd sizes* (`termkey.c:879`): the slide copies half the size rounded down and
  loses the last byte. `Sizes = {3}` there violates `NothingLost`.
- *Shrinking* (`termkey.c:608`): `buffcount` stays what it was, though
  `man/termkey_set_buffer_size.3:14` says the bytes are truncated. `HostShrinks =
  TRUE` there violates `WithinBuffer`.
- *EINTR* (`termkey.c:1124`) is reported when FLAG_EINTR is set;
  `man/termkey_advisereadable.3:28` says when it is not.
- *Terminal strings that begin with two Escapes*, or with Escape and the 8-bit CSI, or
  a mouse string that is a lone Escape: the forced look behind an AGAIN (`termkey.c:1031`)
  can then meet an unknown CSI sequence behind an Escape and set `hightide`, so that the
  next look drops bytes that were never answered. `NoMetaStrings` excludes them.
- *Linux console keys* (`termkey.c:857`): with `ESC [ [ A` read byte by byte the
  CSI driver answers an unknown sequence at the second `[` while the terminfo
  driver still waits, so the keys depend on the delivery. `OneDriver` excludes such
  terminals; it is true of xterm's strings.
- *Partial sequences* (`driver-csi.c:551`) come out as Alt-[ and text;
  `man/termkey.7:132` says Escape and text.
- *Life* (`TermKeyLife`; each is an exemption the properties name): an instance made
  with TERMKEY_FLAG_NOSTART and destroyed unstarted frees a NULL trie
  (`driver-ti.c:393`; `man/termkey_new.3:20,28` allow it: "never started"). A failed
  start leaves the terminal raw with `is_started` 0, and the next one saves the raw
  settings ("start failed"). The node of a key_ string that is empty, another's or the
  beginning of an earlier one is neither put into the trie nor freed
  (`driver-ti.c:563-571`), so that such a terminal leaks with every instance ("key
  lost"); strings that begin with an earlier one abort the program and a terminal with
  none searches for ever ("unusable keys"). With a start string and no stop string the
  keypad stays on ("no stop string"). `termkey_new` that fails behind `termkey_init`
  leaks the buffer, the names and the drivers ("start failed"). `start_driver` goes on
  when `load_terminfo` failed, and reads and frees strings that were never assigned
  ("load failed"). A driver that gets no list node is freed in a state in which its
  trie is NULL ("no memory"). After `set_flags(NOTERMIOS)` the next stop restores
  settings saved by an earlier start ("flags changed"). A nested instance's stop
  switches the keypad off for the outer one: `keypad` is only asked for when none
  runs.
- *The trie* (`TerminfoTrie`): a string that begins with another key's aborts the
  program (`driver-ti.c:106`), one that another begins with or equals is lost with its
  node; a terminal without a usable key_ string makes `compress_trie` search for ever
  (line 154), and it does not test its allocation; a key without memory for its node
  is passed over in silence. F0 is taken for TERMKEY_SYM_NONE and dropped. "begin"
  stands before "beg" in the table and is not found: no terminfo has it. A name behind
  "up" would be compared with the table's NULL end: none is.
- *Names and formats* (`KeyNames`; `Legible` and `Expressible` name these): with
  LOWERSPACE a capital that begins a name, typed or behind a caret, reads as that symbol
  with nothing taken ("B" as Backspace), and "f5" is not read; a name that a name with a smaller number
  begins is not found; WRAPBRACKET is not read, as `man/termkey_strpkey.3` says.
  `termkey_keycmp` of two mouse keys with a zero byte, as of a pressed left button, is
  0 wherever they were, though its manual promises a total ordering; of two control
  strings it compares addresses. Lines from 1024 on lose a bit (`termkey-internal.h:91`)
  and columns from 4096 on are cut to 4095.
  A mode whose low byte is 128 or more (2004) comes out negative, and one from 32768 on
  has a high byte that does. `strfkey` of a mode
  report falls through and writes "DCS"; into a buffer shorter than its text it goes on
  with a length that wraps. A symbol without a name has a NULL one.
- *A control string longer than the buffer* makes `waitkey` answer ERROR with
  ENOMEM (`termkey.c:1097`), which `man/termkey_waitkey.3:28` does not mention. The
  run has this case; its properties allow it.

posix_terminal:

- *Escape* (`src/fancyrl/posix_terminal.c:290`): `read_key` never forces, so a lone
  Escape is answered only with the next key, as Alt. `Keystrokes <- Escape` in
  `MCPosixInput.cfg` violates `CallsReturn`. *Alt-P* starts a control string that
  swallows all later keys (`<- AltP`); *Alt-O* leaves the key after it in libtermkey
  and every key comes one late (`<- AltO`, `KeysInOrder`); *Delete* is UNKNOWN,
  since the table has TERMKEY_SYM_DEL (line 231; `<- Delete`, `KeysInOrder`).
- *Typing ahead* (line 168): `get_cur_pos` takes keys typed before the terminal
  answers for part of the answer. `TypesAhead = TRUE` violates `PositionReported`.
- *End of file* (line 272) is answered as a key and not as LOGICAL_KEY_INVALID
  (`include/fancyrl/posix_terminal.h:55`).
- *SIGWINCH ignored before* (line 200): the handler calls SIG_IGN. `Host = "IGN"` in
  `MCPosixTerminal.cfg` violates `NoCrash`.
- *Set up twice* (line 134) the saved settings are the raw ones: `Does = {"setup
  twice"}` violates `TerminalRestored`. *Deleted without being set up* (line 107),
  `termkey_destroy(NULL)`: `{"delete unset"}`, `NoCrash`. *Deleted while set up*
  (line 82) the handler is left in the kernel and its trampoline is freed, so that the
  next resize crashes: `{"delete in use"}`, `NoCrash`. *Restored without being set up*
  (line 188) the terminal gets the settings of zero-filled memory and `termkey_stop` a
  NULL: `{"restore unset"}`, `TerminalRestored`. *Resized inside
  `setup_term`* (line 131), the size is stale: `{"resize in setup"}`, `SizeKnown`.
- Each `setup_term` makes a new termkey instance and loses the one before (line
  155); `output_speed` is read from settings that are fetched later (line 118).

Strings: `set` with a text that is not UTF-8 leaves the string empty, for the rope
refuses the text when everything is deleted already (`src/string_class.c:101`).

Trampolines: the fourth argument is lost (`src/curry_func.c:62`): the bytes f9 89 c8
are `stc; mov eax, ecx` and not the `mov r8, rcx` that the comment at line 44 asks for,
so r8 keeps the caller's fifth argument, which is what `FirstArguments` says. A
trampoline that is collected without `free_curry` is still read-only when its page is
handed out again, and the next allocation of that page faults (line 99; `misused`).

Objects: `destroy` of an allocator leaves the trampoline of `alloc_atomic` behind,
and an allocator that deletes itself calls `free` through a slot it has just set to
NULL (`src/gc_allocator_class.c:84`, `:136`). Objects made by a deleted allocator
keep its dead trampolines. These are why the properties say `misused`.

fancy_readline: backspace inside the text cuts off all that follows the cursor
(`fancyreadline.c:228`, where the comment at 53 says "delete character before
cursor"); typing inside the text stores nothing and counts the character
(`fancyreadline.c:202`); Enter as the very first key searches a NULL string (218;
the model stops there); the Delete key ends the reading (147, 340). The first two are
left out by `EditsInside`, the last because Delete is not among the keys.


## 7. What is not modelled

- **Terminal output** (`write_char`, `redisplay`, `print`): no state is kept.
- **`fancyrl.c`**: has no bodies. **`sexp_parse`**: a stand-alone experiment that
  builds and dumps a list; no other part of the program uses it, and its one hazard
  (`read_list` past the last token of an unterminated list) is listed without a
  property. **Examples, demos, `utlist.h`**: callers and third-party macros.
- **Texts of keys that are only written**: mouse, position, mode and control string
  texts of `termkey_strfkey`, and the length it answers.
- **`termkey_interpret_csi`, `termkey_interpret_string`**: accessors of what the
  decoder kept; that the bytes are still there is `CsiInterpretable`.
- The `ROPE_WCHAR` and Windows variants are not built; the unibilium variant of the
  terminfo driver differs only in how it looks up a string.
- Allocation fails in `TermKeyLife`, `TerminfoTrie` and `KeyNames`, and where the
  source's own limit does (ENOMEM of a full buffer); in no other model.
