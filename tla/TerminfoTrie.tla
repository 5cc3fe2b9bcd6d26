---------------------------- MODULE TerminfoTrie ----------------------------
(***************************************************************************)
(* How the terminfo driver of libtermkey (driver-ti.c) loads a terminal's  *)
(* keys: one key_ capability after the other gets its key by name and its  *)
(* string is put into a trie, which is compressed at the end and then      *)
(* looked up by peekkey.                                                   *)
(*                                                                         *)
(* A node of the trie is known by the bytes that lead to it from the root, *)
(* so its array holds a node for byte b when there is a node one b longer. *)
(* A capability is known by its name without key_, a string is a sequence  *)
(* of bytes without the NUL that ends it.                                  *)
(***************************************************************************)
EXTENDS Integers, Sequences, SequencesExt, FiniteSetsExt

CONSTANTS
  Caps,       \* the key_ capabilities in the order of terminfo
  StringsOf,  \* per capability, the strings terminals have for it
  NoString,   \* a terminal has none
  Sorted,     \* the names in the order of strcmp
  FNumber,    \* of the names that are an f and a number, the number
  AfterS,     \* of the names that begin with an s, the name behind it
  Buffers     \* the pending bytes peekkey may find

Byte == 0 .. 255
Names == {Sorted[i] : i \in DOMAIN Sorted}

ASSUME TrieAssumption ==
  /\ Caps \in Seq(Names)
  /\ \A cap \in Names : StringsOf[cap] \ {NoString} \subseteq Seq(Byte \ {0})
  /\ NoString \notin Seq(Byte)
  /\ Buffers \subseteq Seq(Byte) \ {<<>>}

VARIABLES
  trie,    \* the nodes: [the bytes that lead to a node -> the node]
  i,       \* which capability is next
  given,   \* history: the nodes made and their strings, in order
  status   \* of load_terminfo: "loading", or how it came to an end

trievars == <<trie, i, given, status>>

-----------------------------------------------------------------------------
(* The keys, as peekkey answers them.                                      *)
KEYMOD_SHIFT == 0
KeySym(sym, mods) == [type |-> "KEYSYM", code |-> sym, mods |-> mods]
FunctionKey(n) == [type |-> "FUNCTION", code |-> n, mods |-> {}]
Shifted(key) == [key EXCEPT !.mods = @ \cup {KEYMOD_SHIFT}]
(* TERMKEY_SYM_NONE is 0, and so is the number of F0.                      *)
IsNone(key) == IF key.type = "FUNCTION" THEN key.code = 0 ELSE key.code = "NONE"

Entry(name, sym) == [funcname |-> name, key |-> KeySym(sym, {})]
funcs ==
  << Entry("backspace", "BACKSPACE"), Entry("begin", "BEGIN"), Entry("beg", "BEGIN"),
     [funcname |-> "btab", key |-> KeySym("TAB", {KEYMOD_SHIFT})],
     Entry("cancel", "CANCEL"), Entry("clear", "CLEAR"), Entry("close", "CLOSE"),
     Entry("command", "COMMAND"), Entry("copy", "COPY"), Entry("dc", "DELETE"),
     Entry("down", "DOWN"), Entry("end", "END"), Entry("enter", "ENTER"),
     Entry("exit", "EXIT"), Entry("find", "FIND"), Entry("help", "HELP"),
     Entry("home", "HOME"), Entry("ic", "INSERT"), Entry("left", "LEFT"),
     Entry("mark", "MARK"), Entry("message", "MESSAGE"), Entry("mouse", "NONE"),
     Entry("move", "MOVE"), Entry("next", "PAGEDOWN"), Entry("npage", "PAGEDOWN"),
     Entry("open", "OPEN"), Entry("options", "OPTIONS"), Entry("ppage", "PAGEUP"),
     Entry("previous", "PAGEUP"), Entry("print", "PRINT"), Entry("redo", "REDO"),
     Entry("reference", "REFERENCE"), Entry("refresh", "REFRESH"),
     Entry("replace", "REPLACE"), Entry("restart", "RESTART"), Entry("resume", "RESUME"),
     Entry("right", "RIGHT"), Entry("save", "SAVE"), Entry("select", "SELECT"),
     Entry("suspend", "SUSPEND"), Entry("undo", "UNDO"), Entry("up", "UP") >>

Position(name) == CHOOSE p \in DOMAIN Sorted : Sorted[p] = name

(* The search by halves of len entries from the one behind start on: the   *)
(* entry found, or none.  The NULL entry behind the names is one of those  *)
(* searched, and to compare with it is a crash.                            *)
Crash == Entry("NULL", "CRASH")
SearchFrom(name, entries) ==
  LET search[len \in 1 .. entries] ==
        [start \in 0 .. entries - len |->
           LET mid == start + len \div 2
               found == funcs[mid + 1]
           IN  IF mid = Len(funcs) THEN {Crash}
               ELSE IF found.funcname = name THEN {found}
               ELSE IF len = 1 THEN {}
               ELSE IF Position(name) > Position(found.funcname)
                 THEN search[len - len \div 2][mid]
               ELSE search[len \div 2][start]]
  IN  search[entries][0]
ShortSearch(name) == SearchFrom(name, Len(funcs) - 1)   \* mutant: the end is off by two
Search(name) == SearchFrom(name, Len(funcs) + 1)

(* The key of a name, or none.                                             *)
funcname2keysym(funcname) ==
  LET key[name \in Names] ==
        IF Search(name) # {} THEN {e.key : e \in Search(name)}
        ELSE IF name \in DOMAIN FNumber THEN {FunctionKey(FNumber[name])}
        ELSE IF name \in DOMAIN AfterS THEN {Shifted(k) : k \in key[AfterS[name]]}
        ELSE {}
  IN  key[funcname]

(* What terminfo's names are like: the table has them in their order but   *)
(* for "begin", which is no capability; none comes behind "up"; and behind *)
(* an s there is a name of the table, or one that means nothing.           *)
Table == {funcs[p].funcname : p \in DOMAIN funcs}
Tails == {AfterS[name] : name \in DOMAIN AfterS \ Table}
Loaded == {Caps[n] : n \in DOMAIN Caps}
ASSUME TableAssumption ==
  /\ Sorted \in Seq(Names) /\ \A p, q \in DOMAIN Sorted : Sorted[p] = Sorted[q] => p = q
  /\ Table \cup Tails \subseteq Names
  /\ \A p, q \in DOMAIN funcs :
       p < q /\ <<p, q>> # <<2, 3>> => Position(funcs[p].funcname) < Position(funcs[q].funcname)
  /\ Position("beg") < Position("begin")
  /\ "begin" \notin Loaded \cup Tails \cup DOMAIN AfterS
  /\ \A name \in Loaded \cup Tails : Position(name) <= Position("up")
  /\ (Tails \ Table) \cap (DOMAIN FNumber \cup DOMAIN AfterS) = {}

-----------------------------------------------------------------------------
ArrNode(min, max) == [type |-> "ARR", min |-> min, max |-> max]
KeyNode(key) == [type |-> "KEY", key |-> key]
MouseNode == [type |-> "MOUSE"]

(* The node load_terminfo makes for a capability, or none.                 *)
NodeOf(cap) ==
  IF cap = "mouse" THEN {MouseNode}
  ELSE {KeyNode(key) : key \in {k \in funcname2keysym(cap) : ~IsNone(k)}}

Upto(s, n) == SubSeq(s, 1, n)

(* lookup_next: byte n of s leads on from the node before it.              *)
Leads(s, n) ==
  LET p == trie[Upto(s, n - 1)]
  IN  p.type = "ARR" /\ s[n] \in p.min .. p.max /\ Upto(s, n) \in DOMAIN trie

(* How far the trie leads along s.                                         *)
Reached(s) ==
  CHOOSE n \in 0 .. Len(s) :
    /\ \A m \in 1 .. n : Upto(s, m - 1) \in DOMAIN trie /\ Leads(s, m)
    /\ n < Len(s) => ~Leads(s, n + 1)

TrieInit ==
  /\ trie = [p \in {<<>>} |-> ArrNode(0, 255)]
  /\ i = 1 /\ given = <<>> /\ status = "loading"

(* The trie with nodes for the bytes of seq up to byte to.                 *)
Extended(seq, to, node) ==
  [p \in DOMAIN trie \cup {Upto(seq, n) : n \in 0 .. to} |->
     IF p \in DOMAIN trie THEN trie[p] ELSE IF p = seq THEN node ELSE ArrNode(0, 255)]

TakenAborts(seq, node) ==   \* mutant: a string that is another key's already aborts, too
  IF trie[Upto(seq, Reached(seq))].type # "ARR"
    THEN status' = "aborted" /\ UNCHANGED trie
    ELSE trie' = Extended(seq, Len(seq), node) /\ UNCHANGED status

(* insert_seq: to look below a key aborts the program; a string that leads *)
(* to a node already changes nothing, and its own is lost.                 *)
insert_seq(seq, node) ==
  LET n == Reached(seq)
  IN  IF n < Len(seq) /\ trie[Upto(seq, n)].type # "ARR"
        THEN status' = "aborted" /\ UNCHANGED trie
        ELSE trie' = Extended(seq, Len(seq), node) /\ UNCHANGED status

Turn(cap) == status = "loading" /\ i \in DOMAIN Caps /\ cap = Caps[i] /\ i' = i + 1

(* One turn of load_terminfo's loop.  Without a string, a key, or memory   *)
(* for the node of a key, the capability is passed over.                   *)
load_key(cap, value) ==
  /\ Turn(cap)
  /\ \E node \in NodeOf(cap) :
       insert_seq(value, node) /\ given' = Append(given, [string |-> value, node |-> node])

load_no_key(cap) ==
  /\ Turn(cap) /\ (cap # "mouse" \/ NoString \in StringsOf[cap])
  /\ UNCHANGED <<trie, given, status>>

(* There is no memory for the node of the mouse, or for one on the way to  *)
(* a node: those before it stay, and load_terminfo answers 0.              *)
load_fails(cap, value) ==
  /\ Turn(cap)
  /\ \/ cap = "mouse" /\ UNCHANGED trie
     \/ \E node \in NodeOf(cap), to \in Reached(value) .. Len(value) - 2 :
          /\ trie[Upto(value, Reached(value))].type = "ARR"
          /\ trie' = Extended(value, to, node)
  /\ status' = "failed" /\ UNCHANGED given

Children(p) == {b \in Byte : Append(p, b) \in DOMAIN trie}

OneByteShort(p) ==   \* mutant: the end of the range is taken to be exclusive
  ArrNode(Min(Children(p)), Max(Children(p)) - 1)

Bounds(p) == ArrNode(Min(Children(p)), Max(Children(p)))

(* Only the root may have nothing below it: the search for its bounds then *)
(* never ends.  Without memory for a new node the program crashes.         *)
compress_trie ==
  /\ status = "loading" /\ i \notin DOMAIN Caps
  /\ IF Children(<<>>) = {}
       THEN status' = "searching" /\ UNCHANGED trie
       ELSE \/ /\ trie' = [p \in DOMAIN trie |->
                             IF trie[p].type = "ARR" THEN Bounds(p) ELSE trie[p]]
               /\ status' = "loaded"
            \/ status' = "crashed" /\ UNCHANGED trie
  /\ UNCHANGED <<i, given>>

TrieNext ==
  \/ \E cap \in Names :
       \/ \E value \in StringsOf[cap] \ {NoString} : load_key(cap, value) \/ load_fails(cap, value)
       \/ load_no_key(cap)
  \/ compress_trie
TrieSpec == TrieInit /\ [][TrieNext]_trievars

-----------------------------------------------------------------------------
(* What the strings of a terminal say: one is heard unless it is empty, or *)
(* an earlier one is or begins with it.                                    *)
Heard == {k \in DOMAIN given :
            /\ given[k].string # <<>>
            /\ \A j \in 1 .. k - 1 : ~IsPrefix(given[k].string, given[j].string)}
Said(s) == given[CHOOSE k \in Heard : given[k].string = s].node
Saying(type) == {given[k].string : k \in {h \in Heard : given[h].node.type = type}}

Driver == INSTANCE TermKeyDecode WITH
       Flags <- {}, Leftover <- 0,
       Terminfo <- [s \in Saying("KEY") |-> Said(s).key], MouseIntro <- Saying("MOUSE")

peekkey(s, force) ==
  LET n == Reached(s)
      p == trie[Upto(s, n)]
  IN  CASE p.type = "KEY" -> Driver!Key(p.key, n)
        [] p.type = "MOUSE" -> Driver!peekkey_mouse(s, n)
        [] p.type = "ARR" -> IF n = Len(s) /\ ~force THEN Driver!Again ELSE Driver!NoKey

(* Whatever strings a terminal has, in whatever order they come, looking   *)
(* bytes up in the loaded trie is looking them up in the table of the      *)
(* strings that are heard: the keys, and whether more bytes may make one.  *)
(* When loading stopped half way for want of memory, the keys before that  *)
(* are known.                                                              *)
KeysOfTerminal ==
  \A s \in Buffers, force \in BOOLEAN :
    \/ status = "loaded"
    \/ status = "failed" /\ \E k \in Heard : IsPrefix(given[k].string, s)
    => peekkey(s, force) = Driver!ti_peekkey(s, force)

(* The table funcs, read from its beginning to its end.                    *)
InTable(name) == {e.key : e \in {funcs[p] : p \in {q \in DOMAIN funcs : funcs[q].funcname = name}}}
KeyByName(name) ==
  CASE InTable(name) # {} -> InTable(name)
    [] InTable(name) = {} /\ name \in DOMAIN FNumber -> {FunctionKey(FNumber[name])}
    [] InTable(name) = {} /\ name \in DOMAIN AfterS \ DOMAIN FNumber ->
         {Shifted(k) : k \in InTable(AfterS[name])}
    [] OTHER -> {}

(* Searched by halves, the table gives every capability the key it has for *)
(* it although "begin" stands before "beg" in it, and the NULL entry at    *)
(* its end, which is part of the range, is never compared with.            *)
NamesFound ==
  \A n \in 1 .. i - 1 : Caps[n] # "mouse" => funcname2keysym(Caps[n]) = KeyByName(Caps[n])

(* Loading aborts the program only if the string of one key begins with    *)
(* that of another loaded before it, and only searches for ever if no      *)
(* string leads anywhere.                                                  *)
LoadsUnlessClash ==
  /\ status = "aborted" => \E k \in DOMAIN given, j \in Heard :
       j < k /\ IsStrictPrefix(given[j].string, given[k].string)
  /\ status = "searching" => Heard = {}
=============================================================================
