------------------------- MODULE TermKeyLife_proofs -------------------------
(***************************************************************************)
(* Theorems about TermKeyLife, for any set of instances and of flags.  The *)
(* inductive invariant adds to the type what a call in progress relies on, *)
(* what each instance owns, and, for the settings of the terminal, that    *)
(* the instances in charge of them form a stack in which each one saved    *)
(* what the one below it left.                                             *)
(*                                                                         *)
(* Behind them, theorems about TermKeyWait, for any keystrokes: what is on *)
(* its way to a waitkey are the keystrokes that are not answered yet.      *)
(***************************************************************************)
EXTENDS TermKeyLife, TermKeyWait, TermKeyDecode_proofs, TLAPS

(* The call in progress is on an instance that is there.                   *)
CallInv ==
  /\ at # "out" => of \in Inst /\ Live(of)
  /\ at \in {"termios", "load", "write", "free"} => ~tk[of].started
  /\ at \in {"load", "write", "stop drivers", "stop termios"} => tk[of].begun
  /\ at = "load" => tk[of].root = "NULL"
  /\ at \in {"stop drivers", "stop termios"} => tk[of].started
  /\ at = "free" => tk[of].begun \/ "never started" \in hist

(* Once termkey_start was called, only a failed load leaves no trie, or    *)
(* strings that were not assigned; a start string without a stop string is *)
(* on record.                                                              *)
MemberOK(t) ==
  /\ tk[t].started => tk[t].begun /\ Live(t)
  /\ tk[t].strings # Unassigned => tk[t].root = "trie"
  /\ tk[t].root = "trie" /\ tk[t].strings = Unassigned => "load failed" \in hist
  /\ tk[t].strings # Unassigned /\ "start" \in tk[t].strings /\ "stop" \notin tk[t].strings =>
       "no stop string" \in hist
  /\ tk[t].root = "NULL" /\ tk[t].begun =>
       "load failed" \in hist \/ crashed \/ (at = "load" /\ of = t)
MemberInv == \A t \in Inst : MemberOK(t)

(* What an instance owns, but for the csi driver, follows from its members.*)
Owned(t) ==
  Own \cup (IF tk[t].root = "none" THEN {} ELSE Ti \cup (tk[t].strings \cap Strings))
      \cup (IF tk[t].root = "trie" THEN {"trie"} ELSE {})
      \cup (IF tk[t].root # "none" /\ tk[t].strings = Unassigned THEN {"term"} ELSE {})

OwnsRight(t) ==
  heap[t] = IF Live(t) THEN Owned(t) \cup (IF Csi \subseteq heap[t] THEN Csi ELSE {}) ELSE {}

HeapInv == NothingLeaked /\ \A t \in Inst : OwnsRight(t)

(* The instances in charge are the ones that saved settings and run, or    *)
(* are about to; the others have nothing to restore unless their flags     *)
(* were changed.                                                           *)
RunsInCharge(i) ==
  /\ tk[stack[i]].valid
  /\ tk[stack[i]].started \/ (at \in {"load", "write"} /\ of = stack[i] /\ i = Len(stack))

Saver(t) ==
  tk[t].valid =>
    /\ tk[t].fd = "tty" /\ tk[t].begun /\ Live(t)
    /\ "NOTERMIOS" \in tk[t].flags => "flags changed" \in hist
    /\ tk[t].started /\ t \notin InCharge => ~Orderly

StackInv ==
  /\ \A i, j \in 1..Len(stack) : stack[i] = stack[j] => i = j
  /\ \A i \in 1..Len(stack) : RunsInCharge(i)
  /\ at \in {"load", "write"} => (Changes(of) <=> (Len(stack) > 0 /\ stack[Len(stack)] = of))
  /\ \A t \in Inst : Saver(t)

First(t) == Len(stack) > 0 /\ stack[1] = t
Above(t) == \E i \in 2..Len(stack) : stack[i] = t   \* others are in charge below t

(* What an instance saved is what holds for the instances below it.        *)
LevelInv ==
  /\ "flags changed" \notin hist =>
       /\ InCharge # {} => "ICANON" \notin modes
       /\ \A t \in Inst : tk[t].valid /\ (Above(t) \/ (tk[t].started /\ t \notin InCharge)) =>
            "ICANON" \notin tk[t].saved
  /\ Orderly /\ "start failed" \notin hist =>
       /\ InCharge = {} => modes = Settings
       /\ \A t \in Inst : First(t) => tk[t].saved = Settings

(* The keypad is switched on for an instance that runs.                    *)
KeypadInv ==
  hist \cap KeypadTroubles = {} =>
    /\ keypad # "torn"
    /\ keypad = "xmit" => \E t \in Inst :
         /\ tk[t].started /\ tk[t].fd = "tty" /\ tk[t].strings # Unassigned
         /\ "stop" \in tk[t].strings /\ ~(at = "stop termios" /\ of = t)

IInv == TypeOK /\ CallInv /\ MemberInv /\ HeapInv /\ StackInv /\ LevelInv /\ KeypadInv /\ NoCrash

-----------------------------------------------------------------------------
(* What the steps that assign members leave in them.                       *)
LEMMA RecordsAreMembers ==
  ASSUME NEW r \in Members, NEW s \in SUBSET Settings, NEW b \in BOOLEAN,
         NEW g \in SUBSET Strings, NEW f \in SUBSET {"NOTERMIOS", "CTRLC", "NOSTART"}
  PROVE  /\ [r EXCEPT !.begun = TRUE, !.valid = TRUE, !.saved = s] \in Members
         /\ [r EXCEPT !.begun = TRUE] \in Members
         /\ [r EXCEPT !.root = "trie", !.strings = g] \in Members
         /\ [r EXCEPT !.root = "trie"] \in Members
         /\ [r EXCEPT !.started = b] \in Members
         /\ [r EXCEPT !.flags = f] \in Members
BY DEF Members

(* The members of an instance that does not exist are in their types.      *)
LEMMA AllocIsMembers == termkey_alloc \in Members
<1>1. "none" \in Fds
  BY LifeAssumption
<1>2. QED
  BY <1>1 DEF termkey_alloc, Instance, Members, Settings

(* Only t changes.                                                         *)
Others(t) == \A u \in Inst : u # t => tk'[u] = tk[u]

(* What termkey_new assigns.                                               *)
LEMMA NewMembers ==
  ASSUME TypeOK, NEW t \in Inst, NEW fd \in Fds, NEW f \in SUBSET {"NOTERMIOS", "CTRLC", "NOSTART"},
         NEW root \in {"NULL", "none"}, tk' = [tk EXCEPT ![t] = Instance(fd, f, root)]
  PROVE  /\ tk' \in [Inst -> Members] /\ Others(t)
         /\ tk'[t].fd = fd /\ tk'[t].flags = f /\ tk'[t].root = root
         /\ ~tk'[t].started /\ ~tk'[t].valid /\ ~tk'[t].begun /\ tk'[t].strings = Unassigned
<1>1. Instance(fd, f, root) \in Members
  BY DEF Members, Instance, Settings
<1>2. tk' \in [Inst -> Members] /\ tk'[t] = Instance(fd, f, root) /\ Others(t)
  BY <1>1 DEF TypeOK, Others
<1>3. QED
  BY <1>2 DEF Instance

(* What is left of an instance that was given up.                          *)
LEMMA AllocMembers ==
  ASSUME TypeOK, NEW t \in Inst, tk' = [tk EXCEPT ![t] = termkey_alloc]
  PROVE  /\ tk' \in [Inst -> Members] /\ Others(t)
         /\ ~tk'[t].started /\ ~tk'[t].valid /\ ~tk'[t].begun
         /\ tk'[t].strings = Unassigned /\ tk'[t].root = "none"
<1>1. tk' \in [Inst -> Members] /\ tk'[t] = termkey_alloc /\ Others(t)
  BY AllocIsMembers DEF TypeOK, Others
<1>2. QED
  BY <1>1 DEF termkey_alloc, Instance

(* What start assigns when it changes the settings.                        *)
LEMMA TermiosMembers ==
  ASSUME TypeOK, NEW t \in Inst,
         tk' = [tk EXCEPT ![t] = [@ EXCEPT !.begun = TRUE, !.valid = TRUE, !.saved = modes]]
  PROVE  /\ tk' \in [Inst -> Members] /\ Others(t)
         /\ tk'[t].begun /\ tk'[t].valid /\ tk'[t].saved = modes
         /\ tk'[t].fd = tk[t].fd /\ tk'[t].flags = tk[t].flags /\ tk'[t].started = tk[t].started
         /\ tk'[t].root = tk[t].root /\ tk'[t].strings = tk[t].strings
<1>1. [tk[t] EXCEPT !.begun = TRUE, !.valid = TRUE, !.saved = modes] \in Members
  BY RecordsAreMembers DEF TypeOK
<1>2. QED
  BY <1>1 DEF TypeOK, Others, Members

(* What start assigns when it leaves the settings alone.                   *)
LEMMA BegunMembers ==
  ASSUME TypeOK, NEW t \in Inst, tk' = [tk EXCEPT ![t] = [@ EXCEPT !.begun = TRUE]]
  PROVE  /\ tk' \in [Inst -> Members] /\ Others(t)
         /\ tk'[t].begun /\ tk'[t].valid = tk[t].valid /\ tk'[t].saved = tk[t].saved
         /\ tk'[t].fd = tk[t].fd /\ tk'[t].flags = tk[t].flags /\ tk'[t].started = tk[t].started
         /\ tk'[t].root = tk[t].root /\ tk'[t].strings = tk[t].strings
<1>1. [tk[t] EXCEPT !.begun = TRUE] \in Members
  BY RecordsAreMembers DEF TypeOK
<1>2. QED
  BY <1>1 DEF TypeOK, Others, Members

(* What load_terminfo assigns.                                             *)
LEMMA LoadedMembers ==
  ASSUME TypeOK, NEW t \in Inst, NEW g \in SUBSET Strings,
         tk' = [tk EXCEPT ![t] = [@ EXCEPT !.root = "trie", !.strings = g]]
  PROVE  /\ tk' \in [Inst -> Members] /\ Others(t)
         /\ tk'[t].begun = tk[t].begun /\ tk'[t].valid = tk[t].valid /\ tk'[t].saved = tk[t].saved
         /\ tk'[t].fd = tk[t].fd /\ tk'[t].flags = tk[t].flags /\ tk'[t].started = tk[t].started
         /\ tk'[t].root = "trie" /\ tk'[t].strings = g
<1>1. [tk[t] EXCEPT !.root = "trie", !.strings = g] \in Members
  BY RecordsAreMembers DEF TypeOK
<1>2. QED
  BY <1>1 DEF TypeOK, Others, Members

(* What load_terminfo assigns when it fails after it made the root.        *)
LEMMA HalfLoadedMembers ==
  ASSUME TypeOK, NEW t \in Inst, tk' = [tk EXCEPT ![t] = [@ EXCEPT !.root = "trie"]]
  PROVE  /\ tk' \in [Inst -> Members] /\ Others(t)
         /\ tk'[t].begun = tk[t].begun /\ tk'[t].valid = tk[t].valid /\ tk'[t].saved = tk[t].saved
         /\ tk'[t].fd = tk[t].fd /\ tk'[t].flags = tk[t].flags /\ tk'[t].started = tk[t].started
         /\ tk'[t].root = "trie" /\ tk'[t].strings = tk[t].strings
<1>1. [tk[t] EXCEPT !.root = "trie"] \in Members
  BY RecordsAreMembers DEF TypeOK
<1>2. QED
  BY <1>1 DEF TypeOK, Others, Members

(* What the end of a start or of a stop assigns.                           *)
LEMMA StartedMembers ==
  ASSUME TypeOK, NEW t \in Inst, NEW b \in BOOLEAN,
         tk' = [tk EXCEPT ![t] = [@ EXCEPT !.started = b]]
  PROVE  /\ tk' \in [Inst -> Members] /\ Others(t)
         /\ tk'[t].begun = tk[t].begun /\ tk'[t].valid = tk[t].valid /\ tk'[t].saved = tk[t].saved
         /\ tk'[t].fd = tk[t].fd /\ tk'[t].flags = tk[t].flags /\ tk'[t].started = b
         /\ tk'[t].root = tk[t].root /\ tk'[t].strings = tk[t].strings
<1>1. [tk[t] EXCEPT !.started = b] \in Members
  BY RecordsAreMembers DEF TypeOK
<1>2. QED
  BY <1>1 DEF TypeOK, Others, Members

(* What termkey_set_flags assigns.                                         *)
LEMMA FlagsMembers ==
  ASSUME TypeOK, NEW t \in Inst, NEW f \in SUBSET {"NOTERMIOS", "CTRLC", "NOSTART"},
         tk' = [tk EXCEPT ![t] = [@ EXCEPT !.flags = f]]
  PROVE  /\ tk' \in [Inst -> Members] /\ Others(t)
         /\ tk'[t].begun = tk[t].begun /\ tk'[t].valid = tk[t].valid /\ tk'[t].saved = tk[t].saved
         /\ tk'[t].fd = tk[t].fd /\ tk'[t].flags = f /\ tk'[t].started = tk[t].started
         /\ tk'[t].root = tk[t].root /\ tk'[t].strings = tk[t].strings
<1>1. [tk[t] EXCEPT !.flags = f] \in Members
  BY RecordsAreMembers DEF TypeOK
<1>2. QED
  BY <1>1 DEF TypeOK, Others, Members

(* A step that records events.                                             *)
LEMMA TroublesRecorded ==
  ASSUME NEW events \in SUBSET Events, hist \in SUBSET Events, Troubles(events)
  PROVE  hist' = hist \cup events /\ hist' \in SUBSET Events
BY DEF Troubles

(* A step that records an event.                                           *)
LEMMA TroubleRecorded ==
  ASSUME NEW what \in Events, hist \in SUBSET Events, Trouble(what)
  PROVE  hist' = hist \cup {what} /\ hist' \in SUBSET Events
BY DEF Trouble, Troubles

(* The events, as SMT needs them.                                          *)
LEMMA EventNames ==
  {"start failed", "stop failed", "load failed", "no memory", "key lost", "unusable keys",
   "no stop string", "unordered", "flags changed", "never started"} = Events
BY DEF Events

(* The events that load_terminfo records.                                  *)
LEMMA LoadEvents ==
  ASSUME NEW t \in Inst, hist \in SUBSET Events, load_terminfo(t)
  PROVE  hist' \in SUBSET Events
<1>1. \A lost \in KeysLost : lost \in SUBSET Events
  BY EventNames DEF KeysLost
<1>2. {"load failed", "no stop string", "unusable keys", "no memory"} \subseteq Events
  BY EventNames
<1>3. CASE Loads(t)
  <2>1. PICK kept \in SUBSET Strings, lost \in KeysLost :
          Troubles(lost \cup (IF kept = {"start"} THEN {"no stop string"} ELSE {}))
    BY <1>3 DEF Loads
  <2>2. lost \cup (IF kept = {"start"} THEN {"no stop string"} ELSE {}) \in SUBSET Events
    BY <1>1, <1>2
  <2>3. QED
    BY <2>1, <2>2, TroublesRecorded
<1>4. CASE LoadFails(t)
  <2>1. CASE Trouble("load failed")
    BY <1>2, <2>1, TroubleRecorded
  <2>2. CASE \E lost \in KeysLost : Troubles(lost \cup {"load failed"})
    <3>1. PICK lost \in KeysLost : Troubles(lost \cup {"load failed"})
      BY <2>2
    <3>2. lost \cup {"load failed"} \in SUBSET Events
      BY <1>1, <1>2
    <3>3. QED
      BY <3>1, <3>2, TroublesRecorded
  <2>3. QED
    BY <1>4, <2>1, <2>2 DEF LoadFails
<1>5. CASE NeverLoads
  BY <1>2, <1>5, TroubleRecorded DEF NeverLoads
<1>6. QED
  BY <1>3, <1>4, <1>5 DEF load_terminfo

(* The part of a sequence of instances up to a place.                      *)
LEMMA BelowIsSequence ==
  ASSUME NEW s \in Seq(Inst), NEW n \in Int, -1 <= n, n <= Len(s)
  PROVE  /\ SubSeq(s, 1, n) \in Seq(Inst)
         /\ Len(SubSeq(s, 1, n)) = IF n < 0 THEN 0 ELSE n
         /\ \A i \in 1..Len(SubSeq(s, 1, n)) : SubSeq(s, 1, n)[i] = s[i]
OBVIOUS

(* The place of an instance in charge.                                     *)
LEMMA PositionFound ==
  ASSUME TypeOK, NEW t \in InCharge
  PROVE  Position(t) \in 1..Len(stack) /\ stack[Position(t)] = t
BY DEF InCharge, Position

(* Every step keeps the instances' members in their types.                 *)
LEMMA MembersStep ==
  ASSUME TypeOK, LifeAssumption, [Next]_vars
  PROVE  tk' \in [Inst -> Members]
<1>1. ASSUME NEW t \in Inst, NEW fd \in Fds, NEW flags \in FlagSets, termkey_new(t, fd, flags)
      PROVE  tk' \in [Inst -> Members]
  <2>1. PICK ti, csi \in BOOLEAN : tk' = [tk EXCEPT ![t] = Instance(fd, flags, IF ti THEN "NULL" ELSE "none")]
    BY <1>1 DEF termkey_new
  <2>2. QED
    BY <2>1, NewMembers DEF LifeAssumption
<1>2. ASSUME NEW t \in Inst, termkey_init_fails(t)
      PROVE  tk' \in [Inst -> Members]
  BY <1>2 DEF termkey_init_fails, TypeOK
<1>3. ASSUME NEW t \in Inst, termkey_start(t)
      PROVE  tk' \in [Inst -> Members]
  BY <1>3 DEF termkey_start, TypeOK
<1>4. ASSUME NEW t \in Inst, start_termios(t)
      PROVE  tk' \in [Inst -> Members]
  BY <1>4, TermiosMembers, BegunMembers DEF start_termios, Changes
<1>5. ASSUME NEW t \in Inst, load_terminfo(t)
      PROVE  tk' \in [Inst -> Members]
  BY <1>5, LoadedMembers, HalfLoadedMembers DEF load_terminfo, Loads, LoadFails, NeverLoads, TypeOK
<1>6. ASSUME NEW t \in Inst, start_driver(t)
      PROVE  tk' \in [Inst -> Members]
  BY <1>6, StartedMembers DEF start_driver
<1>7. ASSUME NEW t \in Inst, start_driver_fails(t)
      PROVE  tk' \in [Inst -> Members]
  BY <1>7, AllocMembers DEF start_driver_fails, Abandons, TypeOK
<1>8. ASSUME NEW t \in Inst, termkey_stop(t)
      PROVE  tk' \in [Inst -> Members]
  BY <1>8 DEF termkey_stop, TypeOK
<1>9. ASSUME NEW t \in Inst, termkey_destroy(t)
      PROVE  tk' \in [Inst -> Members]
  BY <1>9 DEF termkey_destroy, TypeOK
<1>10. ASSUME NEW t \in Inst, stop_driver(t)
      PROVE  tk' \in [Inst -> Members]
  BY <1>10 DEF stop_driver, TypeOK
<1>11. ASSUME NEW t \in Inst, stop_termios(t)
      PROVE  tk' \in [Inst -> Members]
  BY <1>11, StartedMembers DEF stop_termios
<1>12. ASSUME NEW t \in Inst, termkey_free(t)
      PROVE  tk' \in [Inst -> Members]
  BY <1>12, AllocMembers DEF termkey_free, Abandons, TypeOK
<1>13. ASSUME NEW t \in Inst, NEW flags \in FlagSets, termkey_set_flags(t, flags)
      PROVE  tk' \in [Inst -> Members]
  BY <1>13, FlagsMembers DEF termkey_set_flags, LifeAssumption
<1>14. ASSUME NEW t \in Inst, termkey_getkey(t)
      PROVE  tk' \in [Inst -> Members]
  BY <1>14 DEF termkey_getkey, TypeOK
<1>15. CASE UNCHANGED vars
  BY <1>15 DEF vars, TypeOK
<1>16. QED
  BY <1>1, <1>2, <1>3, <1>4, <1>5, <1>6, <1>7, <1>8, <1>9, <1>10, <1>11, <1>12, <1>13, <1>14, <1>15 DEF Next

(* Every step keeps the variables in their types.                          *)
LEMMA TypeStep ==
  ASSUME TypeOK, LifeAssumption, [Next]_vars
  PROVE  TypeOK'
<1>1. ASSUME NEW t \in Inst, NEW fd \in Fds, NEW flags \in FlagSets, termkey_new(t, fd, flags)
      PROVE  TypeOK'
  <2>1. heap' \in [Inst -> SUBSET Parts]
    <3>1. PICK ti, csi \in BOOLEAN :
            heap' = [heap EXCEPT ![t] = Own \cup (IF ti THEN Ti \cup {"term"} ELSE {})
                                            \cup (IF csi THEN Csi ELSE {})]
      BY <1>1 DEF termkey_new
    <3>2. Own \cup (IF ti THEN Ti \cup {"term"} ELSE {}) \cup (IF csi THEN Csi ELSE {}) \in SUBSET Parts
      BY DEF Parts
    <3>3. \A parts \in SUBSET Parts : [heap EXCEPT ![t] = parts] \in [Inst -> SUBSET Parts]
      BY DEF TypeOK
    <3>4. heap \in [Inst -> SUBSET Parts]
      BY DEF TypeOK
    <3>5. QED
      BY <3>1, <3>2, <3>3, <3>4
  <2>2. stack' \in Seq(Inst)
    BY <1>1 DEF termkey_new, Terminal, TypeOK
  <2>3. leaked' \in BOOLEAN /\ crashed' \in BOOLEAN
    BY <1>1 DEF termkey_new, Calls, Terminal, Live, TypeOK
  <2>4. modes' \in SUBSET Settings /\ keypad' \in {"local", "xmit", "torn"}
    BY <1>1, MembersStep DEF termkey_new, Calls, Terminal, Live, TypeOK, Members
  <2>5. hist' \in SUBSET Events
    BY <1>1, TroubleRecorded, EventNames DEF termkey_new, Calls, Terminal, Live, TypeOK
  <2>6. /\ at' \in {"out", "termios", "load", "write", "stop drivers", "stop termios", "free"}
        /\ of' \in Inst \cup {None} /\ by' \in {"none", "new", "start", "stop", "destroy"}
    BY <1>1, ZenonT(40) DEF termkey_new, Calls, Terminal, Live, TypeOK
  <2>7. QED
    BY <2>1, <2>2, <2>3, <2>4, <2>5, <2>6, MembersStep DEF TypeOK
<1>2. ASSUME NEW t \in Inst, termkey_init_fails(t)
      PROVE  TypeOK'
  <2>1. heap' \in [Inst -> SUBSET Parts]
    BY <1>2 DEF termkey_init_fails, Terminal, TypeOK
  <2>2. stack' \in Seq(Inst)
    BY <1>2 DEF termkey_init_fails, Terminal, TypeOK
  <2>3. leaked' \in BOOLEAN /\ crashed' \in BOOLEAN
    BY <1>2 DEF termkey_init_fails, Calls, Terminal, Live, LeftByInit, TypeOK
  <2>4. modes' \in SUBSET Settings /\ keypad' \in {"local", "xmit", "torn"}
    BY <1>2, MembersStep DEF termkey_init_fails, Calls, Terminal, Live, LeftByInit, TypeOK, Members
  <2>5. hist' \in SUBSET Events
    BY <1>2, TroubleRecorded, EventNames DEF termkey_init_fails, Calls, Terminal, Live, LeftByInit, TypeOK
  <2>6. /\ at' \in {"out", "termios", "load", "write", "stop drivers", "stop termios", "free"}
        /\ of' \in Inst \cup {None} /\ by' \in {"none", "new", "start", "stop", "destroy"}
    BY <1>2 DEF termkey_init_fails, Calls, Terminal, Live, LeftByInit, TypeOK
  <2>7. QED
    BY <2>1, <2>2, <2>3, <2>4, <2>5, <2>6, MembersStep DEF TypeOK
<1>3. ASSUME NEW t \in Inst, termkey_start(t)
      PROVE  TypeOK'
  <2>1. heap' \in [Inst -> SUBSET Parts]
    BY <1>3 DEF termkey_start, Terminal, TypeOK
  <2>2. stack' \in Seq(Inst)
    BY <1>3 DEF termkey_start, Terminal, TypeOK
  <2>3. leaked' \in BOOLEAN /\ crashed' \in BOOLEAN
    BY <1>3 DEF termkey_start, Calls, Terminal, Live, TypeOK
  <2>4. modes' \in SUBSET Settings /\ keypad' \in {"local", "xmit", "torn"}
    BY <1>3, MembersStep DEF termkey_start, Calls, Terminal, Live, TypeOK, Members
  <2>5. hist' \in SUBSET Events
    BY <1>3 DEF termkey_start, Calls, Terminal, Live, TypeOK
  <2>6. /\ at' \in {"out", "termios", "load", "write", "stop drivers", "stop termios", "free"}
        /\ of' \in Inst \cup {None} /\ by' \in {"none", "new", "start", "stop", "destroy"}
    BY <1>3 DEF termkey_start, Calls, Terminal, Live, TypeOK
  <2>7. QED
    BY <2>1, <2>2, <2>3, <2>4, <2>5, <2>6, MembersStep DEF TypeOK
<1>4. ASSUME NEW t \in Inst, start_termios(t)
      PROVE  TypeOK'
  <2>1. heap' \in [Inst -> SUBSET Parts]
    BY <1>4 DEF start_termios, Terminal, TypeOK
  <2>2. stack' \in Seq(Inst)
    <3>1. stack \in Seq(Inst)
      BY DEF TypeOK
    <3>2. QED
      BY <1>4, <3>1 DEF start_termios
  <2>3. leaked' \in BOOLEAN /\ crashed' \in BOOLEAN
    BY <1>4 DEF start_termios, Goes, Cleared, TypeOK
  <2>4. modes' \in SUBSET Settings /\ keypad' \in {"local", "xmit", "torn"}
    BY <1>4, MembersStep DEF start_termios, Goes, Cleared, TypeOK, Members
  <2>5. hist' \in SUBSET Events
    BY <1>4 DEF start_termios, Goes, Cleared, TypeOK
  <2>6. /\ at' \in {"out", "termios", "load", "write", "stop drivers", "stop termios", "free"}
        /\ of' \in Inst \cup {None} /\ by' \in {"none", "new", "start", "stop", "destroy"}
    BY <1>4 DEF start_termios, Goes, Cleared, TypeOK
  <2>7. QED
    BY <2>1, <2>2, <2>3, <2>4, <2>5, <2>6, MembersStep DEF TypeOK
<1>5. ASSUME NEW t \in Inst, load_terminfo(t)
      PROVE  TypeOK'
  <2>1. heap' \in [Inst -> SUBSET Parts]
    <3>1. /\ \A kept \in SUBSET Strings :
               (heap[t] \ {"term"}) \cup {"trie"} \cup kept \in SUBSET Parts
          /\ heap[t] \cup {"trie"} \in SUBSET Parts
      BY DEF TypeOK, Parts
    <3>2. \/ UNCHANGED heap
          \/ \E kept \in SUBSET Strings :
               heap' = [heap EXCEPT ![t] = (heap[t] \ {"term"}) \cup {"trie"} \cup kept]
          \/ heap' = [heap EXCEPT ![t] = heap[t] \cup {"trie"}]
      BY <1>5 DEF load_terminfo, Loads, LoadFails, NeverLoads
    <3>3. \A parts \in SUBSET Parts : [heap EXCEPT ![t] = parts] \in [Inst -> SUBSET Parts]
      BY DEF TypeOK
    <3>4. heap \in [Inst -> SUBSET Parts]
      BY DEF TypeOK
    <3>5. QED
      BY <3>1, <3>2, <3>3, <3>4
  <2>2. stack' \in Seq(Inst)
    BY <1>5 DEF load_terminfo, Terminal, TypeOK
  <2>3. leaked' \in BOOLEAN /\ crashed' \in BOOLEAN
    BY <1>5 DEF load_terminfo, Loads, LoadFails, NeverLoads, Goes, Terminal, TypeOK
  <2>4. modes' \in SUBSET Settings /\ keypad' \in {"local", "xmit", "torn"}
    BY <1>5, MembersStep DEF load_terminfo, Goes, Terminal, TypeOK, Members
  <2>5. hist' \in SUBSET Events
    BY <1>5, LoadEvents DEF TypeOK
  <2>6. /\ at' \in {"out", "termios", "load", "write", "stop drivers", "stop termios", "free"}
        /\ of' \in Inst \cup {None} /\ by' \in {"none", "new", "start", "stop", "destroy"}
    BY <1>5 DEF load_terminfo, Goes, Terminal, TypeOK
  <2>7. QED
    BY <2>1, <2>2, <2>3, <2>4, <2>5, <2>6, MembersStep DEF TypeOK
<1>6. ASSUME NEW t \in Inst, start_driver(t)
      PROVE  TypeOK'
  <2>1. heap' \in [Inst -> SUBSET Parts]
    BY <1>6 DEF start_driver, Terminal, TypeOK
  <2>2. stack' \in Seq(Inst)
    BY <1>6 DEF start_driver, Terminal, TypeOK
  <2>3. leaked' \in BOOLEAN /\ crashed' \in BOOLEAN
    BY <1>6 DEF start_driver, Goes, WritesOn, Writes, Unset, Driven, TypeOK
  <2>4. modes' \in SUBSET Settings /\ keypad' \in {"local", "xmit", "torn"}
    BY <1>6, MembersStep DEF start_driver, Goes, WritesOn, Writes, Unset, Driven, TypeOK, Members
  <2>5. hist' \in SUBSET Events
    BY <1>6 DEF start_driver, Goes, WritesOn, Writes, Unset, Driven, TypeOK
  <2>6. /\ at' \in {"out", "termios", "load", "write", "stop drivers", "stop termios", "free"}
        /\ of' \in Inst \cup {None} /\ by' \in {"none", "new", "start", "stop", "destroy"}
    BY <1>6 DEF start_driver, Goes, WritesOn, Writes, Unset, Driven, TypeOK
  <2>7. QED
    BY <2>1, <2>2, <2>3, <2>4, <2>5, <2>6, MembersStep DEF TypeOK
<1>7. ASSUME NEW t \in Inst, start_driver_fails(t)
      PROVE  TypeOK'
  <2>1. heap' \in [Inst -> SUBSET Parts]
    <3>1. UNCHANGED heap \/ heap' = [heap EXCEPT ![t] = {}]
      BY <1>7 DEF start_driver_fails, Abandons
    <3>2. heap \in [Inst -> SUBSET Parts]
      BY DEF TypeOK
    <3>3. QED
      BY <3>1, <3>2
  <2>2. stack' \in Seq(Inst)
    <3>1. stack \in Seq(Inst)
      BY DEF TypeOK
    <3>2. SubSeq(stack, 1, Len(stack) - 1) \in Seq(Inst)
      BY <3>1, BelowIsSequence
    <3>3. QED
      BY <1>7, <3>1, <3>2 DEF start_driver_fails
  <2>3. leaked' \in BOOLEAN /\ crashed' \in BOOLEAN
    BY <1>7 DEF start_driver_fails, Goes, Abandons, TypeOK
  <2>4. modes' \in SUBSET Settings /\ keypad' \in {"local", "xmit", "torn"}
    BY <1>7, MembersStep DEF start_driver_fails, Goes, Abandons, TypeOK, Members
  <2>5. hist' \in SUBSET Events
    BY <1>7, TroubleRecorded, EventNames DEF start_driver_fails, Goes, Abandons, TypeOK
  <2>6. /\ at' \in {"out", "termios", "load", "write", "stop drivers", "stop termios", "free"}
        /\ of' \in Inst \cup {None} /\ by' \in {"none", "new", "start", "stop", "destroy"}
    BY <1>7 DEF start_driver_fails, Goes, Abandons, TypeOK
  <2>7. QED
    BY <2>1, <2>2, <2>3, <2>4, <2>5, <2>6, MembersStep DEF TypeOK
<1>8. ASSUME NEW t \in Inst, termkey_stop(t)
      PROVE  TypeOK'
  <2>1. heap' \in [Inst -> SUBSET Parts]
    BY <1>8 DEF termkey_stop, Terminal, TypeOK
  <2>2. stack' \in Seq(Inst)
    BY <1>8 DEF termkey_stop, Terminal, TypeOK
  <2>3. leaked' \in BOOLEAN /\ crashed' \in BOOLEAN
    BY <1>8 DEF termkey_stop, Calls, Terminal, Live, TypeOK
  <2>4. modes' \in SUBSET Settings /\ keypad' \in {"local", "xmit", "torn"}
    BY <1>8, MembersStep DEF termkey_stop, Calls, Terminal, Live, TypeOK, Members
  <2>5. hist' \in SUBSET Events
    BY <1>8 DEF termkey_stop, Calls, Terminal, Live, TypeOK
  <2>6. /\ at' \in {"out", "termios", "load", "write", "stop drivers", "stop termios", "free"}
        /\ of' \in Inst \cup {None} /\ by' \in {"none", "new", "start", "stop", "destroy"}
    BY <1>8, ZenonT(40) DEF termkey_stop, Calls, Terminal, Live, TypeOK
  <2>7. QED
    BY <2>1, <2>2, <2>3, <2>4, <2>5, <2>6, MembersStep DEF TypeOK
<1>9. ASSUME NEW t \in Inst, termkey_destroy(t)
      PROVE  TypeOK'
  <2>1. heap' \in [Inst -> SUBSET Parts]
    BY <1>9 DEF termkey_destroy, Terminal, TypeOK
  <2>2. stack' \in Seq(Inst)
    BY <1>9 DEF termkey_destroy, Terminal, TypeOK
  <2>3. leaked' \in BOOLEAN /\ crashed' \in BOOLEAN
    BY <1>9 DEF termkey_destroy, Calls, Terminal, Live, TypeOK
  <2>4. modes' \in SUBSET Settings /\ keypad' \in {"local", "xmit", "torn"}
    BY <1>9, MembersStep DEF termkey_destroy, Calls, Terminal, Live, TypeOK, Members
  <2>5. hist' \in SUBSET Events
    BY <1>9, TroubleRecorded, EventNames DEF termkey_destroy, Calls, Terminal, Live, TypeOK
  <2>6. /\ at' \in {"out", "termios", "load", "write", "stop drivers", "stop termios", "free"}
        /\ of' \in Inst \cup {None} /\ by' \in {"none", "new", "start", "stop", "destroy"}
    BY <1>9, ZenonT(40) DEF termkey_destroy, Calls, Terminal, Live, TypeOK
  <2>7. QED
    BY <2>1, <2>2, <2>3, <2>4, <2>5, <2>6, MembersStep DEF TypeOK
<1>10. ASSUME NEW t \in Inst, stop_driver(t)
      PROVE  TypeOK'
  <2>1. heap' \in [Inst -> SUBSET Parts]
    BY <1>10 DEF stop_driver, Terminal, TypeOK
  <2>2. stack' \in Seq(Inst)
    BY <1>10 DEF stop_driver, Terminal, TypeOK
  <2>3. leaked' \in BOOLEAN /\ crashed' \in BOOLEAN
    BY <1>10 DEF stop_driver, Goes, WritesOn, Writes, Unset, Driven, TypeOK
  <2>4. modes' \in SUBSET Settings /\ keypad' \in {"local", "xmit", "torn"}
    BY <1>10, MembersStep DEF stop_driver, Goes, WritesOn, Writes, Unset, Driven, TypeOK, Members
  <2>5. hist' \in SUBSET Events
    BY <1>10, TroubleRecorded, EventNames DEF stop_driver, Goes, WritesOn, Writes, Unset, Driven, TypeOK
  <2>6. /\ at' \in {"out", "termios", "load", "write", "stop drivers", "stop termios", "free"}
        /\ of' \in Inst \cup {None} /\ by' \in {"none", "new", "start", "stop", "destroy"}
    BY <1>10 DEF stop_driver, Goes, WritesOn, Writes, Unset, Driven, TypeOK
  <2>7. QED
    BY <2>1, <2>2, <2>3, <2>4, <2>5, <2>6, MembersStep DEF TypeOK
<1>11. ASSUME NEW t \in Inst, stop_termios(t)
      PROVE  TypeOK'
  <2>1. heap' \in [Inst -> SUBSET Parts]
    BY <1>11 DEF stop_termios, Terminal, TypeOK
  <2>2. stack' \in Seq(Inst)
    <3>1. stack \in Seq(Inst)
      BY DEF TypeOK
    <3>2. t \in InCharge => Position(t) \in 1..Len(stack)
      BY PositionFound
    <3>3. t \in InCharge => SubSeq(stack, 1, Position(t) - 1) \in Seq(Inst)
      BY <3>1, <3>2, BelowIsSequence
    <3>4. QED
      BY <1>11, <3>1, <3>3 DEF stop_termios
  <2>3. leaked' \in BOOLEAN /\ crashed' \in BOOLEAN
    BY <1>11 DEF stop_termios, Goes, TypeOK
  <2>4. modes' \in SUBSET Settings /\ keypad' \in {"local", "xmit", "torn"}
    BY <1>11, MembersStep DEF stop_termios, Goes, TypeOK, Members
  <2>5. hist' \in SUBSET Events
    BY <1>11, TroubleRecorded, EventNames DEF stop_termios, Goes, TypeOK
  <2>6. /\ at' \in {"out", "termios", "load", "write", "stop drivers", "stop termios", "free"}
        /\ of' \in Inst \cup {None} /\ by' \in {"none", "new", "start", "stop", "destroy"}
    BY <1>11 DEF stop_termios, Goes, TypeOK
  <2>7. QED
    BY <2>1, <2>2, <2>3, <2>4, <2>5, <2>6, MembersStep DEF TypeOK
<1>12. ASSUME NEW t \in Inst, termkey_free(t)
      PROVE  TypeOK'
  <2>1. heap' \in [Inst -> SUBSET Parts]
    <3>1. UNCHANGED heap \/ heap' = [heap EXCEPT ![t] = {}]
      BY <1>12 DEF termkey_free, Abandons
    <3>2. heap \in [Inst -> SUBSET Parts]
      BY DEF TypeOK
    <3>3. QED
      BY <3>1, <3>2
  <2>2. stack' \in Seq(Inst)
    BY <1>12 DEF termkey_free, Terminal, TypeOK
  <2>3. leaked' \in BOOLEAN /\ crashed' \in BOOLEAN
    BY <1>12 DEF termkey_free, Goes, Abandons, Frees, Terminal, TypeOK
  <2>4. modes' \in SUBSET Settings /\ keypad' \in {"local", "xmit", "torn"}
    BY <1>12, MembersStep DEF termkey_free, Goes, Abandons, Frees, Terminal, TypeOK, Members
  <2>5. hist' \in SUBSET Events
    BY <1>12 DEF termkey_free, Goes, Abandons, Frees, Terminal, TypeOK
  <2>6. /\ at' \in {"out", "termios", "load", "write", "stop drivers", "stop termios", "free"}
        /\ of' \in Inst \cup {None} /\ by' \in {"none", "new", "start", "stop", "destroy"}
    BY <1>12 DEF termkey_free, Goes, Abandons, Frees, Terminal, TypeOK
  <2>7. QED
    BY <2>1, <2>2, <2>3, <2>4, <2>5, <2>6, MembersStep DEF TypeOK
<1>13. ASSUME NEW t \in Inst, NEW flags \in FlagSets, termkey_set_flags(t, flags)
      PROVE  TypeOK'
  <2>1. heap' \in [Inst -> SUBSET Parts]
    BY <1>13 DEF termkey_set_flags, Terminal, TypeOK
  <2>2. stack' \in Seq(Inst)
    BY <1>13 DEF termkey_set_flags, Terminal, TypeOK
  <2>3. leaked' \in BOOLEAN /\ crashed' \in BOOLEAN
    BY <1>13 DEF termkey_set_flags, Calls, Live, Terminal, TypeOK
  <2>4. modes' \in SUBSET Settings /\ keypad' \in {"local", "xmit", "torn"}
    BY <1>13, MembersStep DEF termkey_set_flags, Calls, Live, Terminal, TypeOK, Members
  <2>5. hist' \in SUBSET Events
    BY <1>13, TroubleRecorded, EventNames DEF termkey_set_flags, Calls, Live, Terminal, TypeOK
  <2>6. /\ at' \in {"out", "termios", "load", "write", "stop drivers", "stop termios", "free"}
        /\ of' \in Inst \cup {None} /\ by' \in {"none", "new", "start", "stop", "destroy"}
    BY <1>13 DEF termkey_set_flags, Calls, Live, Terminal, TypeOK
  <2>7. QED
    BY <2>1, <2>2, <2>3, <2>4, <2>5, <2>6, MembersStep DEF TypeOK
<1>14. ASSUME NEW t \in Inst, termkey_getkey(t)
      PROVE  TypeOK'
  <2>1. heap' \in [Inst -> SUBSET Parts]
    BY <1>14 DEF termkey_getkey, Terminal, TypeOK
  <2>2. stack' \in Seq(Inst)
    BY <1>14 DEF termkey_getkey, Terminal, TypeOK
  <2>3. leaked' \in BOOLEAN /\ crashed' \in BOOLEAN
    BY <1>14 DEF termkey_getkey, Calls, Live, Terminal, TypeOK
  <2>4. modes' \in SUBSET Settings /\ keypad' \in {"local", "xmit", "torn"}
    BY <1>14, MembersStep DEF termkey_getkey, Calls, Live, Terminal, TypeOK, Members
  <2>5. hist' \in SUBSET Events
    BY <1>14 DEF termkey_getkey, Calls, Live, Terminal, TypeOK
  <2>6. /\ at' \in {"out", "termios", "load", "write", "stop drivers", "stop termios", "free"}
        /\ of' \in Inst \cup {None} /\ by' \in {"none", "new", "start", "stop", "destroy"}
    BY <1>14 DEF termkey_getkey, Calls, Live, Terminal, TypeOK
  <2>7. QED
    BY <2>1, <2>2, <2>3, <2>4, <2>5, <2>6, MembersStep DEF TypeOK
<1>15. CASE UNCHANGED vars
  BY <1>15 DEF vars, TypeOK
<1>16. QED BY <1>1, <1>2, <1>3, <1>4, <1>5, <1>6, <1>7, <1>8, <1>9, <1>10, <1>11, <1>12, <1>13, <1>14, <1>15 DEF Next

(* What a step that assigns one heap leaves in it.                         *)
LEMMA HeapAssigned ==
  ASSUME TypeOK, NEW t \in Inst, NEW parts, heap' = [heap EXCEPT ![t] = parts]
  PROVE  heap'[t] = parts /\ \A u \in Inst : u # t => heap'[u] = heap[u]
BY DEF TypeOK

(* The history, out of the type invariant.                                 *)
LEMMA HistTyped == ASSUME TypeOK PROVE hist \in SUBSET Events
BY DEF TypeOK

(* Only t changes, in its members and in its heap.                         *)
KeepsOthers(t) == \A u \in Inst : u # t => tk'[u] = tk[u] /\ heap'[u] = heap[u]

(* The effect of termkey_new.                                              *)
NewEffect(t, fd, flags) ==
  /\ ~crashed /\ at = "out" /\ ~Live(t)
  /\ at' = IF "NOSTART" \in flags THEN "out" ELSE "termios"
  /\ at' # "out" => of' = t
  /\ KeepsOthers(t)
  /\ Live(t)'
  /\ tk'[t].fd = fd /\ tk'[t].flags = flags /\ tk'[t].root \in {"none", "NULL"}
  /\ ~tk'[t].started /\ ~tk'[t].valid /\ ~tk'[t].begun /\ tk'[t].strings = Unassigned
  /\ hist' = hist \/ hist' = hist \cup {"no memory"}
  /\ UNCHANGED <<leaked, modes, keypad, stack, crashed>>

(* What a step of termkey_new does.                                        *)
LEMMA NewEffectHolds ==
  ASSUME TypeOK, LifeAssumption, NEW t \in Inst, NEW fd \in Fds, NEW flags \in FlagSets, termkey_new(t, fd, flags)
  PROVE  NewEffect(t, fd, flags)
<1>a. PICK root \in {"NULL", "none"} : tk' = [tk EXCEPT ![t] = Instance(fd, flags, root)]
  BY DEF termkey_new
<1>b. PICK parts : heap' = [heap EXCEPT ![t] = parts] /\ "tk" \in parts
  <2>1. PICK ti, csi \in BOOLEAN :
          heap' = [heap EXCEPT ![t] = Own \cup (IF ti THEN Ti \cup {"term"} ELSE {})
                                          \cup (IF csi THEN Csi ELSE {})]
    BY DEF termkey_new
  <2>2. "tk" \in Own \cup (IF ti THEN Ti \cup {"term"} ELSE {}) \cup (IF csi THEN Csi ELSE {})
    BY DEF Own
  <2>3. QED
    BY <2>1, <2>2
<1>c. flags \in SUBSET {"NOTERMIOS", "CTRLC", "NOSTART"}
  BY DEF LifeAssumption
<1>d. /\ Others(t) /\ tk'[t].fd = fd /\ tk'[t].flags = flags /\ tk'[t].root = root
      /\ ~tk'[t].started /\ ~tk'[t].valid /\ ~tk'[t].begun /\ tk'[t].strings = Unassigned
  <2>1. flags \in SUBSET {"NOTERMIOS", "CTRLC", "NOSTART"} /\ root \in {"NULL", "none"}
    BY <1>c
  <2>2. tk' = [tk EXCEPT ![t] = Instance(fd, flags, root)]
    BY <1>a
  <2>3. QED
    BY <2>1, <2>2, NewMembers, ZenonT(60)
<1>e. "tk" \in heap'[t] /\ \A u \in Inst : u # t => heap'[u] = heap[u]
  BY <1>b, HeapAssigned
<1>1. ~crashed /\ at = "out" /\ ~Live(t)
  BY HeapAssigned DEF termkey_new, Calls, Terminal, Live, Own
<1>2. at' = IF "NOSTART" \in flags THEN "out" ELSE "termios"
  BY DEF termkey_new, Calls, Terminal, Live
<1>3. at' # "out" => of' = t
  BY DEF termkey_new, Calls, Terminal, Live
<1>4. KeepsOthers(t)
  BY <1>d, <1>e DEF KeepsOthers, Others, Live
<1>5. Live(t)'
  BY <1>e DEF Live
<1>6. tk'[t].fd = fd /\ tk'[t].flags = flags /\ tk'[t].root \in {"none", "NULL"}
  BY <1>d
<1>7. ~tk'[t].started /\ ~tk'[t].valid /\ ~tk'[t].begun /\ tk'[t].strings = Unassigned
  BY <1>d
<1>8. hist' = hist \/ hist' = hist \cup {"no memory"}
  BY TroubleRecorded, EventNames, HistTyped DEF termkey_new, Calls, Terminal, Live
<1>9. UNCHANGED <<leaked, modes, keypad, stack, crashed>>
  BY DEF termkey_new, Calls, Terminal, Live
<1>10. QED BY <1>1, <1>2, <1>3, <1>4, <1>5, <1>6, <1>7, <1>8, <1>9 DEF NewEffect

(* The effect of termkey_init_fails.                                       *)
InitFailsEffect(t) ==
  /\ ~crashed /\ at = "out" /\ ~Live(t)
  /\ at' = "out" /\ of' = None
  /\ hist' = hist \/ hist' = hist \cup {"no memory"}
  /\ leaked' => leaked \/ "no memory" \in hist'
  /\ crashed' => "no memory" \in hist'
  /\ UNCHANGED <<tk, heap, modes, keypad, stack>>

(* What a step of termkey_init_fails does.                                 *)
LEMMA InitFailsEffectHolds ==
  ASSUME TypeOK, LifeAssumption, NEW t \in Inst, termkey_init_fails(t)
  PROVE  InitFailsEffect(t)
<1>a. PICK left \in LeftByInit :
        /\ leaked' = (leaked \/ left # {})
        /\ crashed' \in IF left = {"csi"} THEN BOOLEAN ELSE {FALSE}
        /\ IF left \cap {"ti", "csi"} = {} THEN UNCHANGED hist ELSE Trouble("no memory")
  BY DEF termkey_init_fails
<1>b. left # {} => left \cap {"ti", "csi"} # {}
  BY DEF LeftByInit
<1>c. left # {} => "no memory" \in hist'
  BY <1>a, <1>b DEF Trouble, Troubles
<1>d. leaked' = (leaked \/ left # {})
  BY <1>a
<1>e. crashed' => left # {}
  BY <1>a
<1>1. ~crashed /\ at = "out" /\ ~Live(t)
  BY HeapAssigned DEF termkey_init_fails, Calls, Terminal, Live, LeftByInit, Own
<1>2. at' = "out" /\ of' = None
  BY DEF termkey_init_fails, Calls, Terminal, Live, LeftByInit
<1>3. hist' = hist \/ hist' = hist \cup {"no memory"}
  BY TroubleRecorded, EventNames, HistTyped DEF termkey_init_fails, Calls, Terminal, Live, LeftByInit
<1>4. leaked' => leaked \/ "no memory" \in hist'
  BY <1>c, <1>d
<1>5. crashed' => "no memory" \in hist'
  BY <1>c, <1>e
<1>6. UNCHANGED <<tk, heap, modes, keypad, stack>>
  BY DEF termkey_init_fails, Calls, Terminal, Live, LeftByInit
<1>7. QED BY <1>1, <1>2, <1>3, <1>4, <1>5, <1>6 DEF InitFailsEffect

(* The effect of termkey_start.                                            *)
StartEffect(t) ==
  /\ ~crashed /\ at = "out" /\ Live(t) /\ ~tk[t].started
  /\ at' = "termios" /\ of' = t
  /\ UNCHANGED <<tk, heap, leaked, modes, keypad, stack, hist, crashed>>

(* What a step of termkey_start does.                                      *)
LEMMA StartEffectHolds ==
  ASSUME TypeOK, LifeAssumption, NEW t \in Inst, termkey_start(t)
  PROVE  StartEffect(t)
<1>1. ~crashed /\ at = "out" /\ Live(t) /\ ~tk[t].started
  BY HeapAssigned DEF termkey_start, Calls, Terminal, Live, Own
<1>2. at' = "termios" /\ of' = t
  BY DEF termkey_start, Calls, Terminal, Live
<1>3. UNCHANGED <<tk, heap, leaked, modes, keypad, stack, hist, crashed>>
  BY DEF termkey_start, Calls, Terminal, Live
<1>4. QED BY <1>1, <1>2, <1>3 DEF StartEffect

(* The effect of start_termios.                                            *)
StartTermiosEffect(t) ==
  /\ ~crashed /\ at = "termios" /\ of = t
  /\ at' = IF tk[t].root = "NULL" THEN "load" ELSE "write"
  /\ of' = t
  /\ KeepsOthers(t)
  /\ tk'[t].begun
  /\ tk'[t].fd = tk[t].fd /\ tk'[t].flags = tk[t].flags /\ tk'[t].started = tk[t].started /\ tk'[t].root = tk[t].root
  /\ tk'[t].strings = tk[t].strings
  /\ Changes(t) => /\ tk'[t].valid /\ tk'[t].saved = modes /\ stack' = Append(stack, t)
                   /\ modes' = modes \ Cleared(tk[t].flags)
  /\ ~Changes(t) => /\ tk'[t].valid = tk[t].valid /\ tk'[t].saved = tk[t].saved
                    /\ stack' = stack /\ modes' = modes
  /\ UNCHANGED <<heap, leaked, keypad, hist, crashed>>

(* What a step of start_termios does.                                      *)
LEMMA StartTermiosEffectHolds ==
  ASSUME TypeOK, LifeAssumption, NEW t \in Inst, start_termios(t)
  PROVE  StartTermiosEffect(t)
<1>1. ~crashed /\ at = "termios" /\ of = t
  BY DEF start_termios, Goes, Cleared
<1>2. at' = IF tk[t].root = "NULL" THEN "load" ELSE "write"
  BY TermiosMembers, BegunMembers DEF start_termios, Goes, Cleared
<1>3. of' = t
  BY DEF start_termios, Goes, Cleared
<1>4. KeepsOthers(t)
  <2>1. tk' = [tk EXCEPT ![t] = [@ EXCEPT !.begun = TRUE, !.valid = TRUE, !.saved = modes]]
        \/ tk' = [tk EXCEPT ![t] = [@ EXCEPT !.begun = TRUE]]
    BY DEF start_termios
  <2>2. Others(t)
    BY <2>1, TermiosMembers, BegunMembers
  <2>3. heap' = heap
    BY DEF start_termios
  <2>4. QED
    BY <2>2, <2>3 DEF KeepsOthers, Others
<1>5. tk'[t].begun
  BY TermiosMembers, BegunMembers DEF start_termios, Goes, Cleared
<1>6. tk'[t].fd = tk[t].fd /\ tk'[t].flags = tk[t].flags /\ tk'[t].started = tk[t].started /\ tk'[t].root = tk[t].root
  BY TermiosMembers, BegunMembers DEF start_termios, Goes, Cleared
<1>7. tk'[t].strings = tk[t].strings
  BY TermiosMembers, BegunMembers DEF start_termios, Goes, Cleared
<1>8. Changes(t) => /\ tk'[t].valid /\ tk'[t].saved = modes /\ stack' = Append(stack, t)
                    /\ modes' = modes \ Cleared(tk[t].flags)
  BY TermiosMembers, BegunMembers DEF start_termios, Goes, Cleared, Changes
<1>9. ~Changes(t) => /\ tk'[t].valid = tk[t].valid /\ tk'[t].saved = tk[t].saved
                     /\ stack' = stack /\ modes' = modes
  BY TermiosMembers, BegunMembers DEF start_termios, Goes, Cleared, Changes
<1>10. UNCHANGED <<heap, leaked, keypad, hist, crashed>>
  BY DEF start_termios, Goes, Cleared
<1>11. QED BY <1>1, <1>2, <1>3, <1>4, <1>5, <1>6, <1>7, <1>8, <1>9, <1>10 DEF StartTermiosEffect

(* The effect of load_terminfo.                                            *)
LoadTerminfoEffect(t) ==
  /\ ~crashed /\ at = "load" /\ of = t
  /\ at' = "write" /\ of' = t
  /\ KeepsOthers(t)
  /\ Live(t)' <=> Live(t)
  /\ tk'[t].fd = tk[t].fd /\ tk'[t].flags = tk[t].flags /\ tk'[t].started = tk[t].started /\ tk'[t].valid = tk[t].valid
  /\ tk'[t].saved = tk[t].saved /\ tk'[t].begun = tk[t].begun
  /\ \/ /\ tk'[t].root = "trie" /\ tk'[t].strings \in SUBSET Strings
        /\ "start" \in tk'[t].strings /\ "stop" \notin tk'[t].strings => "no stop string" \in hist'
     \/ /\ "load failed" \in hist' /\ tk'[t].strings = tk[t].strings
        /\ tk'[t].root = "trie" \/ tk'[t].root = tk[t].root
     \/ crashed' /\ tk'[t] = tk[t]
  /\ hist \subseteq hist'
  /\ leaked' => leaked \/ "key lost" \in hist'
  /\ crashed' => "unusable keys" \in hist' \/ "no memory" \in hist'
  /\ UNCHANGED <<modes, keypad, stack>>

(* What a step of load_terminfo does.                                      *)
LEMMA LoadTerminfoEffectHolds ==
  ASSUME TypeOK, LifeAssumption, NEW t \in Inst, load_terminfo(t)
  PROVE  LoadTerminfoEffect(t)
<1>a. \/ \E kept \in SUBSET Strings :
           /\ tk' = [tk EXCEPT ![t] = [@ EXCEPT !.root = "trie", !.strings = kept]]
           /\ heap' = [heap EXCEPT ![t] = (heap[t] \ {"term"}) \cup {"trie"} \cup kept]
      \/ UNCHANGED <<tk, heap>>
      \/ /\ tk' = [tk EXCEPT ![t] = [@ EXCEPT !.root = "trie"]]
         /\ heap' = [heap EXCEPT ![t] = heap[t] \cup {"trie"}]
  BY DEF load_terminfo, Loads, LoadFails, NeverLoads
<1>b. \A u \in Inst : u # t => heap'[u] = heap[u]
  <2>1. UNCHANGED heap \/ \E parts : heap' = [heap EXCEPT ![t] = parts]
    BY <1>a
  <2>2. QED
    BY <2>1, HeapAssigned
<1>c. "tk" \in heap'[t] <=> "tk" \in heap[t]
  <2>1. CASE \E kept \in SUBSET Strings :
               heap' = [heap EXCEPT ![t] = (heap[t] \ {"term"}) \cup {"trie"} \cup kept]
    <3>1. PICK kept \in SUBSET Strings :
            heap' = [heap EXCEPT ![t] = (heap[t] \ {"term"}) \cup {"trie"} \cup kept]
      BY <2>1
    <3>2. heap'[t] = (heap[t] \ {"term"}) \cup {"trie"} \cup kept
      BY <3>1, HeapAssigned
    <3>3. "tk" \notin kept
      BY <3>1 DEF Strings
    <3>4. QED
      BY <3>2, <3>3
  <2>2. CASE heap' = [heap EXCEPT ![t] = heap[t] \cup {"trie"}]
    <3>1. heap'[t] = heap[t] \cup {"trie"}
      BY <2>2, HeapAssigned
    <3>2. QED
      BY <3>1
  <2>3. QED
    BY <1>a, <2>1, <2>2
<1>d. Others(t)
  BY <1>a, LoadedMembers, HalfLoadedMembers DEF Others
<1>1. ~crashed /\ at = "load" /\ of = t
  BY DEF load_terminfo, Goes, Terminal
<1>2. at' = "write" /\ of' = t
  BY DEF load_terminfo, Goes, Terminal
<1>3. KeepsOthers(t)
  BY <1>b, <1>d DEF KeepsOthers, Others, Live
<1>4. Live(t)' <=> Live(t)
  BY <1>c DEF Live
<1>5. tk'[t].fd = tk[t].fd /\ tk'[t].flags = tk[t].flags /\ tk'[t].started = tk[t].started /\ tk'[t].valid = tk[t].valid
  BY <1>a, LoadedMembers, HalfLoadedMembers
<1>6. tk'[t].saved = tk[t].saved /\ tk'[t].begun = tk[t].begun
  BY <1>a, LoadedMembers, HalfLoadedMembers
<1>8. UNCHANGED <<modes, keypad, stack>>
  BY DEF load_terminfo, Terminal
<1>7. CASE Loads(t)
  <2>1. PICK kept \in SUBSET Strings, lost \in KeysLost :
          /\ tk' = [tk EXCEPT ![t] = [@ EXCEPT !.root = "trie", !.strings = kept]]
          /\ leaked' = (leaked \/ lost # {})
          /\ hist' = hist \cup (lost \cup (IF kept = {"start"} THEN {"no stop string"} ELSE {}))
          /\ crashed' = crashed
    <3>1. PICK kept \in SUBSET Strings, lost \in KeysLost :
            /\ tk' = [tk EXCEPT ![t] = [@ EXCEPT !.root = "trie", !.strings = kept]]
            /\ leaked' = (leaked \/ lost # {})
            /\ Troubles(lost \cup (IF kept = {"start"} THEN {"no stop string"} ELSE {}))
            /\ crashed' = crashed
      BY <1>7 DEF Loads
    <3>2. QED
      BY <3>1 DEF Troubles
  <2>2. tk'[t].root = "trie" /\ tk'[t].strings = kept
    BY <2>1, LoadedMembers
  <2>3. "start" \in kept /\ "stop" \notin kept => kept = {"start"}
    <3>1. \A x \in kept : x = "start" \/ x = "stop"
      BY <2>1 DEF Strings
    <3>2. QED
      BY <3>1
  <2>4. lost # {} => "key lost" \in lost
    BY <2>1 DEF KeysLost
  <2>5. QED
    BY <1>1, <1>2, <1>3, <1>4, <1>5, <1>6, <2>1, <2>2, <2>3, <2>4, <1>8 DEF LoadTerminfoEffect
<1>9. CASE LoadFails(t)
  <2>1. /\ "load failed" \in hist' /\ hist \subseteq hist' /\ crashed' = crashed
        /\ leaked' => leaked \/ "key lost" \in hist'
    <3>1. CASE Trouble("load failed") /\ UNCHANGED <<tk, heap, leaked, crashed>>
      BY <3>1 DEF Trouble, Troubles
    <3>2. CASE \E lost \in KeysLost : /\ leaked' = (leaked \/ lost # {}) /\ crashed' = crashed
                                       /\ Troubles(lost \cup {"load failed"})
      <4>1. PICK lost \in KeysLost : /\ leaked' = (leaked \/ lost # {}) /\ crashed' = crashed
                                      /\ hist' = hist \cup (lost \cup {"load failed"})
        BY <3>2 DEF Troubles
      <4>2. lost # {} => "key lost" \in lost
        BY <4>1 DEF KeysLost
      <4>3. QED
        BY <4>1, <4>2
    <3>3. QED
      BY <1>9, <3>1, <3>2 DEF LoadFails
  <2>2. tk' = tk \/ tk' = [tk EXCEPT ![t] = [@ EXCEPT !.root = "trie"]]
    BY <1>9 DEF LoadFails
  <2>3. tk'[t].strings = tk[t].strings /\ (tk'[t].root = "trie" \/ tk'[t].root = tk[t].root)
    BY <2>2, HalfLoadedMembers
  <2>4. QED
    BY <1>1, <1>2, <1>3, <1>4, <1>5, <1>6, <2>1, <2>3, <1>8 DEF LoadTerminfoEffect
<1>10. CASE NeverLoads
  <2>1. /\ hist \subseteq hist' /\ ("unusable keys" \in hist' \/ "no memory" \in hist')
        /\ crashed' /\ tk' = tk /\ leaked' = leaked
    BY <1>10 DEF NeverLoads, Trouble, Troubles
  <2>2. QED
    BY <1>1, <1>2, <1>3, <1>4, <1>5, <1>6, <2>1, <1>8 DEF LoadTerminfoEffect
<1>11. QED
  BY <1>7, <1>9, <1>10 DEF load_terminfo

(* The effect of start_driver.                                             *)
StartDriverEffect(t) ==
  /\ ~crashed /\ at = "write" /\ of = t
  /\ at' = "out" /\ of' = None
  /\ KeepsOthers(t)
  /\ tk'[t].started
  /\ tk'[t].fd = tk[t].fd /\ tk'[t].flags = tk[t].flags /\ tk'[t].valid = tk[t].valid /\ tk'[t].saved = tk[t].saved
  /\ tk'[t].root = tk[t].root /\ tk'[t].strings = tk[t].strings /\ tk'[t].begun = tk[t].begun
  /\ keypad' = keypad \/ (keypad' = "torn" /\ Unset(t))
     \/ (keypad' = "xmit" /\ tk[t].fd = "tty" /\ Writes(t, "start") /\ ~Unset(t))
  /\ crashed' => Unset(t)
  /\ UNCHANGED <<heap, leaked, modes, stack, hist>>

(* What a step of start_driver does.                                       *)
LEMMA StartDriverEffectHolds ==
  ASSUME TypeOK, LifeAssumption, NEW t \in Inst, start_driver(t)
  PROVE  StartDriverEffect(t)
<1>1. ~crashed /\ at = "write" /\ of = t
  BY DEF start_driver, Goes, WritesOn, Writes, Unset, Driven
<1>2. at' = "out" /\ of' = None
  BY DEF start_driver, Goes, WritesOn, Writes, Unset, Driven
<1>3. KeepsOthers(t)
  BY StartedMembers, HeapAssigned DEF start_driver, Goes, WritesOn, Writes, Unset, Driven, KeepsOthers, Others, Live
<1>4. tk'[t].started
  BY StartedMembers DEF start_driver, Goes, WritesOn, Writes, Unset, Driven
<1>5. tk'[t].fd = tk[t].fd /\ tk'[t].flags = tk[t].flags /\ tk'[t].valid = tk[t].valid /\ tk'[t].saved = tk[t].saved
  BY StartedMembers DEF start_driver, Goes, WritesOn, Writes, Unset, Driven
<1>6. tk'[t].root = tk[t].root /\ tk'[t].strings = tk[t].strings /\ tk'[t].begun = tk[t].begun
  BY StartedMembers DEF start_driver, Goes, WritesOn, Writes, Unset, Driven
<1>7. keypad' = keypad \/ (keypad' = "torn" /\ Unset(t))
      \/ (keypad' = "xmit" /\ tk[t].fd = "tty" /\ Writes(t, "start") /\ ~Unset(t))
  BY StartedMembers DEF start_driver, Goes, WritesOn, Writes, Unset, Driven
<1>8. crashed' => Unset(t)
  BY DEF start_driver, Goes, WritesOn, Writes, Unset, Driven
<1>9. UNCHANGED <<heap, leaked, modes, stack, hist>>
  BY DEF start_driver, Goes, WritesOn, Writes, Unset, Driven
<1>10. QED BY <1>1, <1>2, <1>3, <1>4, <1>5, <1>6, <1>7, <1>8, <1>9 DEF StartDriverEffect

(* The effect of start_driver_fails.                                       *)
StartDriverFailsEffect(t) ==
  /\ ~crashed /\ at = "write" /\ of = t
  /\ at' = "out" /\ of' = None
  /\ KeepsOthers(t)
  /\ hist' = hist \cup {"start failed"}
  /\ stack' = IF Changes(t) THEN SubSeq(stack, 1, Len(stack) - 1) ELSE stack
  /\ \/ UNCHANGED <<tk, heap, leaked>>
     \/ /\ ~Live(t)' /\ heap'[t] = {} /\ ~tk'[t].started /\ ~tk'[t].valid /\ ~tk'[t].begun
        /\ tk'[t].strings = Unassigned /\ tk'[t].root = "none"
  /\ UNCHANGED <<modes, crashed>>

(* What a step of start_driver_fails does.                                 *)
LEMMA StartDriverFailsEffectHolds ==
  ASSUME TypeOK, LifeAssumption, NEW t \in Inst, start_driver_fails(t)
  PROVE  StartDriverFailsEffect(t)
<1>a. \/ UNCHANGED <<tk, heap, leaked>>
      \/ tk' = [tk EXCEPT ![t] = termkey_alloc] /\ heap' = [heap EXCEPT ![t] = {}]
  BY DEF start_driver_fails, Abandons
<1>b. Others(t) /\ \A u \in Inst : u # t => heap'[u] = heap[u]
  BY <1>a, AllocMembers, HeapAssigned DEF Others
<1>1. ~crashed /\ at = "write" /\ of = t
  BY DEF start_driver_fails, Goes, Abandons
<1>2. at' = "out" /\ of' = None
  BY DEF start_driver_fails, Goes, Abandons
<1>3. KeepsOthers(t)
  BY <1>b DEF KeepsOthers, Others, Live
<1>4. hist' = hist \cup {"start failed"}
  BY TroubleRecorded, EventNames, HistTyped DEF start_driver_fails, Goes, Abandons
<1>5. stack' = IF Changes(t) THEN SubSeq(stack, 1, Len(stack) - 1) ELSE stack
  BY DEF start_driver_fails, Goes, Abandons, Changes
<1>6. \/ UNCHANGED <<tk, heap, leaked>>
      \/ /\ ~Live(t)' /\ heap'[t] = {} /\ ~tk'[t].started /\ ~tk'[t].valid /\ ~tk'[t].begun
         /\ tk'[t].strings = Unassigned /\ tk'[t].root = "none"
  BY <1>a, AllocMembers, HeapAssigned DEF Live
<1>7. UNCHANGED <<modes, crashed>>
  BY DEF start_driver_fails, Goes, Abandons
<1>8. QED BY <1>1, <1>2, <1>3, <1>4, <1>5, <1>6, <1>7 DEF StartDriverFailsEffect

(* The effect of termkey_stop.                                             *)
StopEffect(t) ==
  /\ ~crashed /\ at = "out" /\ Live(t) /\ tk[t].started
  /\ at' = "stop drivers" /\ of' = t
  /\ UNCHANGED <<tk, heap, leaked, modes, keypad, stack, hist, crashed>>

(* What a step of termkey_stop does.                                       *)
LEMMA StopEffectHolds ==
  ASSUME TypeOK, LifeAssumption, NEW t \in Inst, termkey_stop(t)
  PROVE  StopEffect(t)
<1>1. ~crashed /\ at = "out" /\ Live(t) /\ tk[t].started
  BY HeapAssigned DEF termkey_stop, Calls, Terminal, Live, Own
<1>2. at' = "stop drivers" /\ of' = t
  BY DEF termkey_stop, Calls, Terminal, Live
<1>3. UNCHANGED <<tk, heap, leaked, modes, keypad, stack, hist, crashed>>
  BY DEF termkey_stop, Calls, Terminal, Live
<1>4. QED BY <1>1, <1>2, <1>3 DEF StopEffect

(* The effect of termkey_destroy.                                          *)
DestroyEffect(t) ==
  /\ ~crashed /\ at = "out" /\ Live(t)
  /\ at' = (IF tk[t].started THEN "stop drivers" ELSE "free") /\ of' = t
  /\ IF tk[t].begun THEN hist' = hist ELSE hist' = hist \cup {"never started"}
  /\ UNCHANGED <<tk, heap, leaked, modes, keypad, stack, crashed>>

(* What a step of termkey_destroy does.                                    *)
LEMMA DestroyEffectHolds ==
  ASSUME TypeOK, LifeAssumption, NEW t \in Inst, termkey_destroy(t)
  PROVE  DestroyEffect(t)
<1>1. ~crashed /\ at = "out" /\ Live(t)
  BY HeapAssigned DEF termkey_destroy, Calls, Terminal, Live, Own
<1>2. at' = (IF tk[t].started THEN "stop drivers" ELSE "free") /\ of' = t
  BY DEF termkey_destroy, Calls, Terminal, Live
<1>3. IF tk[t].begun THEN hist' = hist ELSE hist' = hist \cup {"never started"}
  BY TroubleRecorded, EventNames, HistTyped DEF termkey_destroy, Calls, Terminal, Live
<1>4. UNCHANGED <<tk, heap, leaked, modes, keypad, stack, crashed>>
  BY DEF termkey_destroy, Calls, Terminal, Live
<1>5. QED BY <1>1, <1>2, <1>3, <1>4 DEF DestroyEffect

(* The effect of stop_driver.                                              *)
StopDriverEffect(t) ==
  /\ ~crashed /\ at = "stop drivers" /\ of = t
  /\ at' = "stop termios" /\ of' = t
  /\ \/ /\ hist' = hist
        /\ keypad' = keypad \/ keypad' = "local" \/ Unset(t)
        /\ tk[t].fd = "tty" /\ Writes(t, "stop") /\ ~Unset(t) => keypad' = "local"
     \/ hist' = hist \cup {"stop failed"}
  /\ crashed' => Unset(t)
  /\ hist \subseteq hist'
  /\ UNCHANGED <<tk, heap, leaked, modes, stack>>

(* What a step of stop_driver does.                                        *)
LEMMA StopDriverEffectHolds ==
  ASSUME TypeOK, LifeAssumption, NEW t \in Inst, stop_driver(t)
  PROVE  StopDriverEffect(t)
<1>1. ~crashed /\ at = "stop drivers" /\ of = t
  BY DEF stop_driver, Goes, WritesOn, Writes, Unset, Driven
<1>2. at' = "stop termios" /\ of' = t
  BY DEF stop_driver, Goes, WritesOn, Writes, Unset, Driven
<1>3. \/ /\ hist' = hist
         /\ keypad' = keypad \/ keypad' = "local" \/ Unset(t)
         /\ tk[t].fd = "tty" /\ Writes(t, "stop") /\ ~Unset(t) => keypad' = "local"
      \/ hist' = hist \cup {"stop failed"}
  BY TroubleRecorded, EventNames, HistTyped DEF stop_driver, Goes, WritesOn, Writes, Unset, Driven
<1>4. crashed' => Unset(t)
  BY DEF stop_driver, Goes, WritesOn, Writes, Unset, Driven
<1>5. hist \subseteq hist'
  BY <1>3
<1>6. UNCHANGED <<tk, heap, leaked, modes, stack>>
  BY DEF stop_driver, Goes, WritesOn, Writes, Unset, Driven
<1>7. QED BY <1>1, <1>2, <1>3, <1>4, <1>5, <1>6 DEF StopDriverEffect

(* The effect of stop_termios.                                             *)
StopTermiosEffect(t) ==
  /\ ~crashed /\ at = "stop termios" /\ of = t
  /\ at' \in {"free", "out"} /\ (at' = "free" => of' = t)
  /\ KeepsOthers(t)
  /\ ~tk'[t].started
  /\ tk'[t].fd = tk[t].fd /\ tk'[t].flags = tk[t].flags /\ tk'[t].valid = tk[t].valid /\ tk'[t].saved = tk[t].saved
  /\ tk'[t].root = tk[t].root /\ tk'[t].strings = tk[t].strings /\ tk'[t].begun = tk[t].begun
  /\ modes' = IF tk[t].valid THEN tk[t].saved ELSE modes
  /\ stack' = IF t \in InCharge THEN SubSeq(stack, 1, Position(t) - 1) ELSE stack
  /\ IF t \in InCharge /\ Position(t) < Len(stack) THEN hist' = hist \cup {"unordered"} ELSE hist' = hist
  /\ UNCHANGED <<heap, leaked, keypad, crashed>>

(* What a step of stop_termios does.                                       *)
LEMMA StopTermiosEffectHolds ==
  ASSUME TypeOK, LifeAssumption, NEW t \in Inst, stop_termios(t)
  PROVE  StopTermiosEffect(t)
<1>1. ~crashed /\ at = "stop termios" /\ of = t
  BY DEF stop_termios, Goes
<1>2. at' \in {"free", "out"} /\ (at' = "free" => of' = t)
  BY DEF stop_termios, Goes
<1>3. KeepsOthers(t)
  BY StartedMembers, HeapAssigned DEF stop_termios, Goes, KeepsOthers, Others, Live
<1>4. ~tk'[t].started
  BY StartedMembers DEF stop_termios, Goes
<1>5. tk'[t].fd = tk[t].fd /\ tk'[t].flags = tk[t].flags /\ tk'[t].valid = tk[t].valid /\ tk'[t].saved = tk[t].saved
  BY StartedMembers DEF stop_termios, Goes
<1>6. tk'[t].root = tk[t].root /\ tk'[t].strings = tk[t].strings /\ tk'[t].begun = tk[t].begun
  BY StartedMembers DEF stop_termios, Goes
<1>7. modes' = IF tk[t].valid THEN tk[t].saved ELSE modes
  BY StartedMembers DEF stop_termios, Goes
<1>8. stack' = IF t \in InCharge THEN SubSeq(stack, 1, Position(t) - 1) ELSE stack
  BY DEF stop_termios, Goes
<1>9. IF t \in InCharge /\ Position(t) < Len(stack) THEN hist' = hist \cup {"unordered"} ELSE hist' = hist
  BY TroubleRecorded, EventNames, HistTyped DEF stop_termios, Goes
<1>10. UNCHANGED <<heap, leaked, keypad, crashed>>
  BY DEF stop_termios, Goes
<1>11. QED BY <1>1, <1>2, <1>3, <1>4, <1>5, <1>6, <1>7, <1>8, <1>9, <1>10 DEF StopTermiosEffect

(* The effect of termkey_free.                                             *)
FreeEffect(t) ==
  /\ ~crashed /\ at = "free" /\ of = t
  /\ at' = "out" /\ of' = None
  /\ KeepsOthers(t)
  /\ \/ crashed' /\ UNCHANGED <<tk, heap, leaked>>
     \/ /\ ~crashed' /\ tk[t].root # "NULL" /\ leaked' = (leaked \/ heap[t] \ Frees(t) # {})
        /\ ~Live(t)' /\ heap'[t] = {} /\ ~tk'[t].started /\ ~tk'[t].valid /\ ~tk'[t].begun
        /\ tk'[t].strings = Unassigned /\ tk'[t].root = "none"
  /\ crashed' => \/ tk[t].root = "NULL" \/ (tk[t].root = "trie" /\ tk[t].strings = Unassigned)
                 \/ ~(Frees(t) \subseteq heap[t])
  /\ UNCHANGED <<modes, keypad, stack, hist>>

(* What a step of termkey_free does.                                       *)
LEMMA FreeEffectHolds ==
  ASSUME TypeOK, LifeAssumption, NEW t \in Inst, termkey_free(t)
  PROVE  FreeEffect(t)
<1>1. ~crashed /\ at = "free" /\ of = t
  BY DEF termkey_free, Goes, Abandons, Frees, Terminal
<1>2. at' = "out" /\ of' = None
  BY DEF termkey_free, Goes, Abandons, Frees, Terminal
<1>3. KeepsOthers(t)
  BY AllocMembers, HeapAssigned DEF termkey_free, Goes, Abandons, Frees, Terminal, KeepsOthers, Others, Live
<1>4. \/ crashed' /\ UNCHANGED <<tk, heap, leaked>>
      \/ /\ ~crashed' /\ tk[t].root # "NULL" /\ leaked' = (leaked \/ heap[t] \ Frees(t) # {})
         /\ ~Live(t)' /\ heap'[t] = {} /\ ~tk'[t].started /\ ~tk'[t].valid /\ ~tk'[t].begun
         /\ tk'[t].strings = Unassigned /\ tk'[t].root = "none"
  BY AllocMembers, HeapAssigned DEF termkey_free, Goes, Abandons, Frees, Terminal, Live, Own
<1>5. crashed' => \/ tk[t].root = "NULL" \/ (tk[t].root = "trie" /\ tk[t].strings = Unassigned)
                  \/ ~(Frees(t) \subseteq heap[t])
  BY AllocMembers DEF termkey_free, Goes, Abandons, Frees, Terminal
<1>6. UNCHANGED <<modes, keypad, stack, hist>>
  BY DEF termkey_free, Goes, Abandons, Frees, Terminal
<1>7. QED BY <1>1, <1>2, <1>3, <1>4, <1>5, <1>6 DEF FreeEffect

(* The effect of termkey_set_flags.                                        *)
SetFlagsEffect(t, flags) ==
  /\ ~crashed /\ at = "out" /\ Live(t)
  /\ at' = "out" /\ of' = None
  /\ KeepsOthers(t)
  /\ tk'[t].flags = flags
  /\ tk'[t].fd = tk[t].fd /\ tk'[t].started = tk[t].started /\ tk'[t].valid = tk[t].valid /\ tk'[t].saved = tk[t].saved
  /\ tk'[t].root = tk[t].root /\ tk'[t].strings = tk[t].strings /\ tk'[t].begun = tk[t].begun
  /\ IF "NOTERMIOS" \in flags \ tk[t].flags /\ tk[t].begun
       THEN hist' = hist \cup {"flags changed"} ELSE hist' = hist
  /\ UNCHANGED <<heap, leaked, modes, keypad, stack, crashed>>

(* What a step of termkey_set_flags does.                                  *)
LEMMA SetFlagsEffectHolds ==
  ASSUME TypeOK, LifeAssumption, NEW t \in Inst, NEW flags \in FlagSets, termkey_set_flags(t, flags)
  PROVE  SetFlagsEffect(t, flags)
<1>1. ~crashed /\ at = "out" /\ Live(t)
  BY HeapAssigned DEF termkey_set_flags, Calls, Live, Terminal, Own
<1>2. at' = "out" /\ of' = None
  BY DEF termkey_set_flags, Calls, Live, Terminal
<1>3. KeepsOthers(t)
  BY FlagsMembers, HeapAssigned, ZenonT(40) DEF termkey_set_flags, Calls, Live, Terminal, KeepsOthers, Others
<1>4. tk'[t].flags = flags
  BY FlagsMembers DEF termkey_set_flags, Calls, Live, Terminal
<1>5. tk'[t].fd = tk[t].fd /\ tk'[t].started = tk[t].started /\ tk'[t].valid = tk[t].valid /\ tk'[t].saved = tk[t].saved
  BY FlagsMembers DEF termkey_set_flags, Calls, Live, Terminal
<1>6. tk'[t].root = tk[t].root /\ tk'[t].strings = tk[t].strings /\ tk'[t].begun = tk[t].begun
  BY FlagsMembers DEF termkey_set_flags, Calls, Live, Terminal
<1>7. IF "NOTERMIOS" \in flags \ tk[t].flags /\ tk[t].begun
        THEN hist' = hist \cup {"flags changed"} ELSE hist' = hist
  BY FlagsMembers, TroubleRecorded, EventNames, HistTyped DEF termkey_set_flags, Calls, Live, Terminal
<1>8. UNCHANGED <<heap, leaked, modes, keypad, stack, crashed>>
  BY DEF termkey_set_flags, Calls, Live, Terminal
<1>9. QED BY <1>1, <1>2, <1>3, <1>4, <1>5, <1>6, <1>7, <1>8 DEF SetFlagsEffect

(* The effect of termkey_getkey.                                           *)
GetkeyEffect(t) ==
  /\ ~crashed /\ at = "out" /\ Live(t) /\ tk[t].started
  /\ at' = "out" /\ of' = None
  /\ crashed' => tk[t].root = "NULL"
  /\ UNCHANGED <<tk, heap, leaked, modes, keypad, stack, hist>>

(* What a step of termkey_getkey does.                                     *)
LEMMA GetkeyEffectHolds ==
  ASSUME TypeOK, LifeAssumption, NEW t \in Inst, termkey_getkey(t)
  PROVE  GetkeyEffect(t)
<1>1. ~crashed /\ at = "out" /\ Live(t) /\ tk[t].started
  BY HeapAssigned DEF termkey_getkey, Calls, Live, Terminal, Own
<1>2. at' = "out" /\ of' = None
  BY DEF termkey_getkey, Calls, Live, Terminal
<1>3. crashed' => tk[t].root = "NULL"
  BY DEF termkey_getkey, Calls, Live, Terminal
<1>4. UNCHANGED <<tk, heap, leaked, modes, keypad, stack, hist>>
  BY DEF termkey_getkey, Calls, Live, Terminal
<1>5. QED BY <1>1, <1>2, <1>3, <1>4 DEF GetkeyEffect

(* A step keeps what is known of each instance.                            *)
LEMMA MemberStep ==
  ASSUME TypeOK, LifeAssumption, CallInv, MemberInv, [Next]_vars
  PROVE  MemberInv'
<1>1. ASSUME NEW t \in Inst, NEW fd \in Fds, NEW flags \in FlagSets, termkey_new(t, fd, flags)
      PROVE  MemberInv'
  <2>1. NewEffect(t, fd, flags)
    BY <1>1, NewEffectHolds
  <2>2. ASSUME NEW u \in Inst PROVE MemberOK(u)'
    <3>1. CASE u = t
      BY <2>1, <3>1 DEF NewEffect, MemberInv, MemberOK, CallInv, Live
    <3>2. CASE u # t
      <4>1. MemberOK(u)
        BY DEF MemberInv
      <4>2. /\ tk'[u] = tk[u] /\ heap'[u] = heap[u] /\ hist \subseteq hist'
            /\ ~crashed /\ ~(at = "load" /\ of = u)
        BY <2>1, <3>2 DEF NewEffect, KeepsOthers
      <4>3. QED BY <4>1, <4>2 DEF MemberOK, Live
    <3>3. QED BY <3>1, <3>2
  <2>3. QED BY <2>2 DEF MemberInv
<1>2. ASSUME NEW t \in Inst, termkey_init_fails(t)
      PROVE  MemberInv'
  <2>1. InitFailsEffect(t)
    BY <1>2, InitFailsEffectHolds
  <2>2. ASSUME NEW u \in Inst PROVE MemberOK(u)'
    <3>1. CASE u = t
      BY <2>1, <3>1 DEF InitFailsEffect, MemberInv, MemberOK, CallInv, Live
    <3>2. CASE u # t
      <4>1. MemberOK(u)
        BY DEF MemberInv
      <4>2. /\ tk'[u] = tk[u] /\ heap'[u] = heap[u] /\ hist \subseteq hist'
            /\ ~crashed /\ ~(at = "load" /\ of = u)
        BY <2>1, <3>2 DEF InitFailsEffect, KeepsOthers
      <4>3. QED BY <4>1, <4>2 DEF MemberOK, Live
    <3>3. QED BY <3>1, <3>2
  <2>3. QED BY <2>2 DEF MemberInv
<1>3. ASSUME NEW t \in Inst, termkey_start(t)
      PROVE  MemberInv'
  <2>1. StartEffect(t)
    BY <1>3, StartEffectHolds
  <2>2. ASSUME NEW u \in Inst PROVE MemberOK(u)'
    <3>1. CASE u = t
      BY <2>1, <3>1 DEF StartEffect, MemberInv, MemberOK, CallInv, Live
    <3>2. CASE u # t
      <4>1. MemberOK(u)
        BY DEF MemberInv
      <4>2. /\ tk'[u] = tk[u] /\ heap'[u] = heap[u] /\ hist \subseteq hist'
            /\ ~crashed /\ ~(at = "load" /\ of = u)
        BY <2>1, <3>2 DEF StartEffect, KeepsOthers
      <4>3. QED BY <4>1, <4>2 DEF MemberOK, Live
    <3>3. QED BY <3>1, <3>2
  <2>3. QED BY <2>2 DEF MemberInv
<1>4. ASSUME NEW t \in Inst, start_termios(t)
      PROVE  MemberInv'
  <2>1. StartTermiosEffect(t)
    BY <1>4, StartTermiosEffectHolds
  <2>2. ASSUME NEW u \in Inst PROVE MemberOK(u)'
    <3>1. CASE u = t
      BY <2>1, <3>1, ZenonT(40) DEF StartTermiosEffect, MemberInv, MemberOK, CallInv, Live
    <3>2. CASE u # t
      <4>1. MemberOK(u)
        BY DEF MemberInv
      <4>2. /\ tk'[u] = tk[u] /\ heap'[u] = heap[u] /\ hist \subseteq hist'
            /\ ~crashed /\ ~(at = "load" /\ of = u)
        BY <2>1, <3>2 DEF StartTermiosEffect, KeepsOthers
      <4>3. QED BY <4>1, <4>2 DEF MemberOK, Live
    <3>3. QED BY <3>1, <3>2
  <2>3. QED BY <2>2 DEF MemberInv
<1>5. ASSUME NEW t \in Inst, load_terminfo(t)
      PROVE  MemberInv'
  <2>1. LoadTerminfoEffect(t)
    BY <1>5, LoadTerminfoEffectHolds
  <2>2. ASSUME NEW u \in Inst PROVE MemberOK(u)'
    <3>1. CASE u = t
      <4>1. MemberOK(t) /\ tk[t].root = "NULL" /\ tk[t].strings = Unassigned /\ at' = "write"
        BY <2>1 DEF LoadTerminfoEffect, MemberInv, MemberOK, CallInv
      <4>2. /\ tk'[t].started = tk[t].started /\ tk'[t].begun = tk[t].begun /\ (Live(t)' <=> Live(t))
            /\ hist \subseteq hist'
        BY <2>1 DEF LoadTerminfoEffect
      <4>3. CASE /\ tk'[t].root = "trie" /\ tk'[t].strings \in SUBSET Strings
                 /\ "start" \in tk'[t].strings /\ "stop" \notin tk'[t].strings => "no stop string" \in hist'
        <5>1. tk'[t].strings # Unassigned
          BY <4>3 DEF Unassigned, Strings
        <5>2. QED
          BY <3>1, <4>1, <4>2, <4>3, <5>1 DEF MemberOK
      <4>4. CASE /\ "load failed" \in hist' /\ tk'[t].strings = tk[t].strings
                 /\ tk'[t].root = "trie" \/ tk'[t].root = tk[t].root
        BY <3>1, <4>1, <4>2, <4>4 DEF MemberOK
      <4>5. CASE crashed' /\ tk'[t] = tk[t]
        BY <3>1, <4>1, <4>2, <4>5 DEF MemberOK
      <4>6. QED
        BY <2>1, <4>3, <4>4, <4>5 DEF LoadTerminfoEffect
    <3>2. CASE u # t
      <4>1. MemberOK(u)
        BY DEF MemberInv
      <4>2. /\ tk'[u] = tk[u] /\ heap'[u] = heap[u] /\ hist \subseteq hist'
            /\ ~crashed /\ ~(at = "load" /\ of = u)
        BY <2>1, <3>2 DEF LoadTerminfoEffect, KeepsOthers
      <4>3. QED BY <4>1, <4>2 DEF MemberOK, Live
    <3>3. QED BY <3>1, <3>2
  <2>3. QED BY <2>2 DEF MemberInv
<1>6. ASSUME NEW t \in Inst, start_driver(t)
      PROVE  MemberInv'
  <2>1. StartDriverEffect(t)
    BY <1>6, StartDriverEffectHolds
  <2>2. ASSUME NEW u \in Inst PROVE MemberOK(u)'
    <3>1. CASE u = t
      BY <2>1, <3>1, ZenonT(40) DEF StartDriverEffect, MemberInv, MemberOK, CallInv, Live
    <3>2. CASE u # t
      <4>1. MemberOK(u)
        BY DEF MemberInv
      <4>2. /\ tk'[u] = tk[u] /\ heap'[u] = heap[u] /\ hist \subseteq hist'
            /\ ~crashed /\ ~(at = "load" /\ of = u)
        BY <2>1, <3>2 DEF StartDriverEffect, KeepsOthers
      <4>3. QED BY <4>1, <4>2 DEF MemberOK, Live
    <3>3. QED BY <3>1, <3>2
  <2>3. QED BY <2>2 DEF MemberInv
<1>7. ASSUME NEW t \in Inst, start_driver_fails(t)
      PROVE  MemberInv'
  <2>1. StartDriverFailsEffect(t)
    BY <1>7, StartDriverFailsEffectHolds
  <2>2. ASSUME NEW u \in Inst PROVE MemberOK(u)'
    <3>1. CASE u = t
      BY <2>1, <3>1 DEF StartDriverFailsEffect, MemberInv, MemberOK, CallInv, Live
    <3>2. CASE u # t
      <4>1. MemberOK(u)
        BY DEF MemberInv
      <4>2. /\ tk'[u] = tk[u] /\ heap'[u] = heap[u] /\ hist \subseteq hist'
            /\ ~crashed /\ ~(at = "load" /\ of = u)
        BY <2>1, <3>2 DEF StartDriverFailsEffect, KeepsOthers
      <4>3. QED BY <4>1, <4>2 DEF MemberOK, Live
    <3>3. QED BY <3>1, <3>2
  <2>3. QED BY <2>2 DEF MemberInv
<1>8. ASSUME NEW t \in Inst, termkey_stop(t)
      PROVE  MemberInv'
  <2>1. StopEffect(t)
    BY <1>8, StopEffectHolds
  <2>2. ASSUME NEW u \in Inst PROVE MemberOK(u)'
    <3>1. CASE u = t
      BY <2>1, <3>1 DEF StopEffect, MemberInv, MemberOK, CallInv, Live
    <3>2. CASE u # t
      <4>1. MemberOK(u)
        BY DEF MemberInv
      <4>2. /\ tk'[u] = tk[u] /\ heap'[u] = heap[u] /\ hist \subseteq hist'
            /\ ~crashed /\ ~(at = "load" /\ of = u)
        BY <2>1, <3>2 DEF StopEffect, KeepsOthers
      <4>3. QED BY <4>1, <4>2 DEF MemberOK, Live
    <3>3. QED BY <3>1, <3>2
  <2>3. QED BY <2>2 DEF MemberInv
<1>9. ASSUME NEW t \in Inst, termkey_destroy(t)
      PROVE  MemberInv'
  <2>1. DestroyEffect(t)
    BY <1>9, DestroyEffectHolds
  <2>2. ASSUME NEW u \in Inst PROVE MemberOK(u)'
    <3>1. CASE u = t
      BY <2>1, <3>1 DEF DestroyEffect, MemberInv, MemberOK, CallInv, Live
    <3>2. CASE u # t
      <4>1. MemberOK(u)
        BY DEF MemberInv
      <4>2. /\ tk'[u] = tk[u] /\ heap'[u] = heap[u] /\ hist \subseteq hist'
            /\ ~crashed /\ ~(at = "load" /\ of = u)
        BY <2>1, <3>2 DEF DestroyEffect, KeepsOthers
      <4>3. QED BY <4>1, <4>2 DEF MemberOK, Live
    <3>3. QED BY <3>1, <3>2
  <2>3. QED BY <2>2 DEF MemberInv
<1>10. ASSUME NEW t \in Inst, stop_driver(t)
      PROVE  MemberInv'
  <2>1. StopDriverEffect(t)
    BY <1>10, StopDriverEffectHolds
  <2>2. hist \subseteq hist' /\ UNCHANGED <<tk, heap>> /\ at # "load" /\ ~crashed
    BY <2>1 DEF StopDriverEffect
  <2>3. QED BY <2>2 DEF MemberInv, MemberOK, Live
<1>11. ASSUME NEW t \in Inst, stop_termios(t)
      PROVE  MemberInv'
  <2>1. StopTermiosEffect(t)
    BY <1>11, StopTermiosEffectHolds
  <2>2. ASSUME NEW u \in Inst PROVE MemberOK(u)'
    <3>1. CASE u = t
      BY <2>1, <3>1, ZenonT(40) DEF StopTermiosEffect, MemberInv, MemberOK, CallInv, Live
    <3>2. CASE u # t
      <4>1. MemberOK(u)
        BY DEF MemberInv
      <4>2. /\ tk'[u] = tk[u] /\ heap'[u] = heap[u] /\ hist \subseteq hist'
            /\ ~crashed /\ ~(at = "load" /\ of = u)
        BY <2>1, <3>2 DEF StopTermiosEffect, KeepsOthers
      <4>3. QED BY <4>1, <4>2 DEF MemberOK, Live
    <3>3. QED BY <3>1, <3>2
  <2>3. QED BY <2>2 DEF MemberInv
<1>12. ASSUME NEW t \in Inst, termkey_free(t)
      PROVE  MemberInv'
  <2>1. FreeEffect(t)
    BY <1>12, FreeEffectHolds
  <2>2. ASSUME NEW u \in Inst PROVE MemberOK(u)'
    <3>1. CASE u = t
      BY <2>1, <3>1 DEF FreeEffect, MemberInv, MemberOK, CallInv, Live
    <3>2. CASE u # t
      <4>1. MemberOK(u)
        BY DEF MemberInv
      <4>2. /\ tk'[u] = tk[u] /\ heap'[u] = heap[u] /\ hist \subseteq hist'
            /\ ~crashed /\ ~(at = "load" /\ of = u)
        BY <2>1, <3>2 DEF FreeEffect, KeepsOthers
      <4>3. QED BY <4>1, <4>2 DEF MemberOK, Live
    <3>3. QED BY <3>1, <3>2
  <2>3. QED BY <2>2 DEF MemberInv
<1>13. ASSUME NEW t \in Inst, NEW flags \in FlagSets, termkey_set_flags(t, flags)
      PROVE  MemberInv'
  <2>1. SetFlagsEffect(t, flags)
    BY <1>13, SetFlagsEffectHolds
  <2>2. hist \subseteq hist' /\ KeepsOthers(t) /\ at = "out" /\ ~crashed
    BY <2>1 DEF SetFlagsEffect
  <2>3. ASSUME NEW u \in Inst PROVE MemberOK(u)'
    <3>1. CASE u = t
      BY <2>1, <3>1, ZenonT(40) DEF SetFlagsEffect, MemberInv, MemberOK, CallInv, Live
    <3>2. CASE u # t
      BY <2>2, <3>2 DEF KeepsOthers, MemberInv, MemberOK, Live
    <3>3. QED BY <3>1, <3>2
  <2>4. QED BY <2>3 DEF MemberInv
<1>14. ASSUME NEW t \in Inst, termkey_getkey(t)
      PROVE  MemberInv'
  <2>1. GetkeyEffect(t)
    BY <1>14, GetkeyEffectHolds
  <2>2. ASSUME NEW u \in Inst PROVE MemberOK(u)'
    <3>1. CASE u = t
      BY <2>1, <3>1 DEF GetkeyEffect, MemberInv, MemberOK, CallInv, Live
    <3>2. CASE u # t
      <4>1. MemberOK(u)
        BY DEF MemberInv
      <4>2. /\ tk'[u] = tk[u] /\ heap'[u] = heap[u] /\ hist \subseteq hist'
            /\ ~crashed /\ ~(at = "load" /\ of = u)
        BY <2>1, <3>2 DEF GetkeyEffect, KeepsOthers
      <4>3. QED BY <4>1, <4>2 DEF MemberOK, Live
    <3>3. QED BY <3>1, <3>2
  <2>3. QED BY <2>2 DEF MemberInv
<1>15. CASE UNCHANGED vars
  BY <1>15 DEF vars, MemberInv, MemberOK, Live
<1>16. QED BY <1>1, <1>2, <1>3, <1>4, <1>5, <1>6, <1>7, <1>8, <1>9, <1>10, <1>11, <1>12, <1>13, <1>14, <1>15 DEF Next

(* A step keeps what is known of the call in progress.                     *)
LEMMA CallStep ==
  ASSUME TypeOK, LifeAssumption, CallInv, MemberInv, [Next]_vars
  PROVE  CallInv'
<1>1. ASSUME NEW t \in Inst, NEW fd \in Fds, NEW flags \in FlagSets, termkey_new(t, fd, flags)
      PROVE  CallInv'
  <2>1. NewEffect(t, fd, flags)
    BY <1>1, NewEffectHolds
  <2>2. MemberOK(t)
    BY DEF MemberInv
  <2>3. QED BY <2>1, <2>2 DEF NewEffect, KeepsOthers, MemberOK, CallInv, Live
<1>2. ASSUME NEW t \in Inst, termkey_init_fails(t)
      PROVE  CallInv'
  <2>1. InitFailsEffect(t)
    BY <1>2, InitFailsEffectHolds
  <2>2. MemberOK(t)
    BY DEF MemberInv
  <2>3. QED BY <2>1, <2>2 DEF InitFailsEffect, KeepsOthers, MemberOK, CallInv, Live
<1>3. ASSUME NEW t \in Inst, termkey_start(t)
      PROVE  CallInv'
  <2>1. StartEffect(t)
    BY <1>3, StartEffectHolds
  <2>2. MemberOK(t)
    BY DEF MemberInv
  <2>3. QED BY <2>1, <2>2 DEF StartEffect, KeepsOthers, MemberOK, CallInv, Live
<1>4. ASSUME NEW t \in Inst, start_termios(t)
      PROVE  CallInv'
  <2>1. StartTermiosEffect(t)
    BY <1>4, StartTermiosEffectHolds
  <2>2. MemberOK(t)
    BY DEF MemberInv
  <2>3. QED BY <2>1, <2>2 DEF StartTermiosEffect, KeepsOthers, MemberOK, CallInv, Live
<1>5. ASSUME NEW t \in Inst, load_terminfo(t)
      PROVE  CallInv'
  <2>1. LoadTerminfoEffect(t)
    BY <1>5, LoadTerminfoEffectHolds
  <2>2. MemberOK(t)
    BY DEF MemberInv
  <2>3. QED BY <2>1, <2>2 DEF LoadTerminfoEffect, KeepsOthers, MemberOK, CallInv, Live
<1>6. ASSUME NEW t \in Inst, start_driver(t)
      PROVE  CallInv'
  <2>1. StartDriverEffect(t)
    BY <1>6, StartDriverEffectHolds
  <2>2. MemberOK(t)
    BY DEF MemberInv
  <2>3. QED BY <2>1, <2>2 DEF StartDriverEffect, KeepsOthers, MemberOK, CallInv, Live
<1>7. ASSUME NEW t \in Inst, start_driver_fails(t)
      PROVE  CallInv'
  <2>1. StartDriverFailsEffect(t)
    BY <1>7, StartDriverFailsEffectHolds
  <2>2. MemberOK(t)
    BY DEF MemberInv
  <2>3. QED BY <2>1, <2>2 DEF StartDriverFailsEffect, KeepsOthers, MemberOK, CallInv, Live
<1>8. ASSUME NEW t \in Inst, termkey_stop(t)
      PROVE  CallInv'
  <2>1. StopEffect(t)
    BY <1>8, StopEffectHolds
  <2>2. MemberOK(t)
    BY DEF MemberInv
  <2>3. QED BY <2>1, <2>2 DEF StopEffect, KeepsOthers, MemberOK, CallInv, Live
<1>9. ASSUME NEW t \in Inst, termkey_destroy(t)
      PROVE  CallInv'
  <2>1. DestroyEffect(t)
    BY <1>9, DestroyEffectHolds
  <2>2. MemberOK(t)
    BY DEF MemberInv
  <2>3. QED BY <2>1, <2>2 DEF DestroyEffect, KeepsOthers, MemberOK, CallInv, Live
<1>10. ASSUME NEW t \in Inst, stop_driver(t)
      PROVE  CallInv'
  <2>1. StopDriverEffect(t)
    BY <1>10, StopDriverEffectHolds
  <2>2. MemberOK(t)
    BY DEF MemberInv
  <2>3. QED BY <2>1, <2>2 DEF StopDriverEffect, KeepsOthers, MemberOK, CallInv, Live
<1>11. ASSUME NEW t \in Inst, stop_termios(t)
      PROVE  CallInv'
  <2>1. StopTermiosEffect(t)
    BY <1>11, StopTermiosEffectHolds
  <2>2. MemberOK(t)
    BY DEF MemberInv
  <2>3. QED BY <2>1, <2>2 DEF StopTermiosEffect, KeepsOthers, MemberOK, CallInv, Live
<1>12. ASSUME NEW t \in Inst, termkey_free(t)
      PROVE  CallInv'
  <2>1. FreeEffect(t)
    BY <1>12, FreeEffectHolds
  <2>2. MemberOK(t)
    BY DEF MemberInv
  <2>3. QED BY <2>1, <2>2 DEF FreeEffect, KeepsOthers, MemberOK, CallInv, Live
<1>13. ASSUME NEW t \in Inst, NEW flags \in FlagSets, termkey_set_flags(t, flags)
      PROVE  CallInv'
  <2>1. SetFlagsEffect(t, flags)
    BY <1>13, SetFlagsEffectHolds
  <2>2. MemberOK(t)
    BY DEF MemberInv
  <2>3. QED BY <2>1, <2>2 DEF SetFlagsEffect, KeepsOthers, MemberOK, CallInv, Live
<1>14. ASSUME NEW t \in Inst, termkey_getkey(t)
      PROVE  CallInv'
  <2>1. GetkeyEffect(t)
    BY <1>14, GetkeyEffectHolds
  <2>2. MemberOK(t)
    BY DEF MemberInv
  <2>3. QED BY <2>1, <2>2 DEF GetkeyEffect, KeepsOthers, MemberOK, CallInv, Live
<1>15. CASE UNCHANGED vars
  BY <1>15 DEF vars, CallInv, Live
<1>16. QED BY <1>1, <1>2, <1>3, <1>4, <1>5, <1>6, <1>7, <1>8, <1>9, <1>10, <1>11, <1>12, <1>13, <1>14, <1>15 DEF Next

(* What an instance owns follows its members: where neither its root nor its*)
(* strings change, where it is new, and where terminfo is loaded for it.   *)
LEMMA OwnsKept ==
  ASSUME NEW u \in Inst, OwnsRight(u), heap'[u] = heap[u],
         tk'[u].root = tk[u].root, tk'[u].strings = tk[u].strings
  PROVE  OwnsRight(u)'
BY DEF OwnsRight, Owned, Live

(* What a new instance owns.                                               *)
LEMMA NewOwns ==
  ASSUME TypeOK, NEW t \in Inst, NEW fd \in Fds, NEW flags \in FlagSets,
         LifeAssumption, termkey_new(t, fd, flags)
  PROVE  OwnsRight(t)'
<1>1. PICK ti, csi \in BOOLEAN :
        /\ tk' = [tk EXCEPT ![t] = Instance(fd, flags, IF ti THEN "NULL" ELSE "none")]
        /\ heap' = [heap EXCEPT ![t] = Own \cup (IF ti THEN Ti \cup {"term"} ELSE {})
                                            \cup (IF csi THEN Csi ELSE {})]
  BY DEF termkey_new
<1>2. heap'[t] = Own \cup (IF ti THEN Ti \cup {"term"} ELSE {}) \cup (IF csi THEN Csi ELSE {})
  <2>1. heap \in [Inst -> SUBSET Parts]
    BY DEF TypeOK
  <2>2. QED
    BY <1>1, <2>1
<1>3. tk'[t].root = (IF ti THEN "NULL" ELSE "none") /\ tk'[t].strings = Unassigned
  <2>1. flags \in SUBSET {"NOTERMIOS", "CTRLC", "NOSTART"}
    BY DEF LifeAssumption
  <2>2. PICK root \in {"NULL", "none"} :
          tk' = [tk EXCEPT ![t] = Instance(fd, flags, root)] /\ root = IF ti THEN "NULL" ELSE "none"
    BY <1>1
  <2>3. QED
    BY <2>1, <2>2, NewMembers
<1>4. "tk" \in heap'[t] /\ (Csi \subseteq heap'[t] <=> csi)
  BY <1>2 DEF Own, Ti, Csi
<1>5. Owned(t)' = Own \cup (IF ti THEN Ti \cup {"term"} ELSE {})
  <2>1. Unassigned \cap Strings = {}
    BY DEF Unassigned, Strings
  <2>2. QED
    BY <1>3, <2>1 DEF Owned
<1>6. QED
  BY <1>2, <1>4, <1>5 DEF OwnsRight, Live

(* What an instance owns after terminfo was loaded for it.                 *)
LEMMA LoadOwns ==
  ASSUME TypeOK, NEW t \in Inst, load_terminfo(t), MemberOK(t), OwnsRight(t), tk[t].root = "NULL", Live(t)
  PROVE  OwnsRight(t)'
<1>1. tk[t].strings = Unassigned
  BY DEF MemberOK
<1>2. CASE UNCHANGED <<tk, heap>>
  BY <1>2, OwnsKept
<1>3. CASE /\ tk' = [tk EXCEPT ![t] = [@ EXCEPT !.root = "trie"]]
           /\ heap' = [heap EXCEPT ![t] = heap[t] \cup {"trie"}]
  <2>1. tk'[t].root = "trie" /\ tk'[t].strings = Unassigned
    BY <1>1, <1>3, HalfLoadedMembers
  <2>2. heap'[t] = heap[t] \cup {"trie"}
    BY <1>3, HeapAssigned
  <2>3. QED
    BY <1>1, <2>1, <2>2, ZenonT(40) DEF OwnsRight, Owned, Live, Csi
<1>4. ASSUME NEW g \in SUBSET Strings,
             tk' = [tk EXCEPT ![t] = [@ EXCEPT !.root = "trie", !.strings = g]],
             heap' = [heap EXCEPT ![t] = (heap[t] \ {"term"}) \cup {"trie"} \cup g]
      PROVE  OwnsRight(t)'
  <2>1. tk'[t].root = "trie" /\ tk'[t].strings = g
    BY <1>4, LoadedMembers
  <2>2. heap'[t] = (heap[t] \ {"term"}) \cup {"trie"} \cup g
    BY <1>4, HeapAssigned
  <2>3. heap[t] = Own \cup Ti \cup {"term"} \cup (IF Csi \subseteq heap[t] THEN Csi ELSE {})
    <3>1. Unassigned \cap Strings = {}
      BY DEF Unassigned, Strings
    <3>2. QED
      BY <1>1, <3>1 DEF OwnsRight, Owned
  <2>4. "tk" \in heap'[t] /\ (Csi \subseteq heap'[t] <=> Csi \subseteq heap[t])
    BY <2>2, <2>3 DEF Own, Ti, Csi, Strings
  <2>5. Owned(t)' = Own \cup Ti \cup {"trie"} \cup g
    <3>1. g # Unassigned /\ g \cap Strings = g
      BY DEF Unassigned, Strings
    <3>2. QED
      BY <2>1, <3>1 DEF Owned
  <2>6. heap'[t] = Own \cup Ti \cup {"trie"} \cup g
                      \cup (IF Csi \subseteq heap[t] THEN Csi ELSE {})
    BY <2>2, <2>3 DEF Own, Ti, Csi, Strings
  <2>7. QED
    BY <2>4, <2>5, <2>6 DEF OwnsRight, Live
<1>5. QED
  BY <1>2, <1>3, <1>4 DEF load_terminfo, Loads, LoadFails, NeverLoads

(* termkey_free frees all an instance owns.                                *)
LEMMA FreeLeavesNothing ==
  ASSUME TypeOK, NEW t \in Inst, MemberOK(t), OwnsRight(t), Live(t),
         tk[t].root # "NULL", "load failed" \notin hist
  PROVE  heap[t] \subseteq Frees(t)
<1>1. tk[t].root = "none" \/ (tk[t].root = "trie" /\ tk[t].strings # Unassigned)
  BY DEF TypeOK, Members, MemberOK
<1>2. tk[t].root = "none" => tk[t].strings = Unassigned
  BY DEF TypeOK, Members, MemberOK
<1>3. heap[t] = Owned(t) \cup (IF Csi \subseteq heap[t] THEN Csi ELSE {})
  BY DEF OwnsRight
<1>4. Owned(t) \subseteq Own \cup (IF tk[t].root = "none" THEN {}
                                 ELSE Ti \cup {"trie"} \cup (tk[t].strings \cap Strings))
  BY <1>1, <1>2 DEF Owned
<1>5. QED
  BY <1>3, <1>4 DEF Frees

(* A step keeps what each instance owns, and leaks nothing but for a reason.*)
LEMMA HeapStep ==
  ASSUME TypeOK, LifeAssumption, CallInv, MemberInv, HeapInv, [Next]_vars
  PROVE  HeapInv'
<1>1. ASSUME NEW t \in Inst, NEW fd \in Fds, NEW flags \in FlagSets, termkey_new(t, fd, flags)
      PROVE  HeapInv'
  <2>1. NewEffect(t, fd, flags)
    BY <1>1, NewEffectHolds
  <2>2. OwnsRight(t)'
    BY <1>1, NewOwns
  <2>3. ASSUME NEW u \in Inst, u # t PROVE OwnsRight(u)'
    <3>1. tk'[u] = tk[u] /\ heap'[u] = heap[u]
      BY <2>1, <2>3 DEF NewEffect, KeepsOthers
    <3>2. QED
      BY <3>1, <2>3, OwnsKept DEF HeapInv
  <2>4. NothingLeaked'
    BY <2>1 DEF NewEffect, HeapInv, NothingLeaked, LeakTroubles
  <2>5. QED BY <2>2, <2>3, <2>4 DEF HeapInv
<1>2. ASSUME NEW t \in Inst, termkey_init_fails(t)
      PROVE  HeapInv'
  <2>1. InitFailsEffect(t)
    BY <1>2, InitFailsEffectHolds
  <2>2. ASSUME NEW u \in Inst PROVE OwnsRight(u)'
    <3>1. CASE u = t
      BY <2>1, <3>1, OwnsKept DEF InitFailsEffect, HeapInv
    <3>2. CASE u # t
      BY <2>1, <3>2, OwnsKept DEF InitFailsEffect, KeepsOthers, HeapInv
    <3>3. QED BY <3>1, <3>2
  <2>3. NothingLeaked'
    BY <2>1 DEF InitFailsEffect, HeapInv, NothingLeaked, LeakTroubles
  <2>4. QED BY <2>2, <2>3 DEF HeapInv
<1>3. ASSUME NEW t \in Inst, termkey_start(t)
      PROVE  HeapInv'
  <2>1. StartEffect(t)
    BY <1>3, StartEffectHolds
  <2>2. ASSUME NEW u \in Inst PROVE OwnsRight(u)'
    <3>1. CASE u = t
      BY <2>1, <3>1, OwnsKept DEF StartEffect, HeapInv
    <3>2. CASE u # t
      BY <2>1, <3>2, OwnsKept DEF StartEffect, KeepsOthers, HeapInv
    <3>3. QED BY <3>1, <3>2
  <2>3. NothingLeaked'
    BY <2>1 DEF StartEffect, HeapInv, NothingLeaked, LeakTroubles
  <2>4. QED BY <2>2, <2>3 DEF HeapInv
<1>4. ASSUME NEW t \in Inst, start_termios(t)
      PROVE  HeapInv'
  <2>1. StartTermiosEffect(t)
    BY <1>4, StartTermiosEffectHolds
  <2>2. ASSUME NEW u \in Inst PROVE OwnsRight(u)'
    <3>1. CASE u = t
      BY <2>1, <3>1, OwnsKept DEF StartTermiosEffect, HeapInv
    <3>2. CASE u # t
      BY <2>1, <3>2, OwnsKept DEF StartTermiosEffect, KeepsOthers, HeapInv
    <3>3. QED BY <3>1, <3>2
  <2>3. NothingLeaked'
    BY <2>1 DEF StartTermiosEffect, HeapInv, NothingLeaked, LeakTroubles
  <2>4. QED BY <2>2, <2>3 DEF HeapInv
<1>5. ASSUME NEW t \in Inst, load_terminfo(t)
      PROVE  HeapInv'
  <2>1. LoadTerminfoEffect(t)
    BY <1>5, LoadTerminfoEffectHolds
  <2>2. OwnsRight(t)'
    <3>1. MemberOK(t) /\ OwnsRight(t) /\ tk[t].root = "NULL" /\ Live(t)
      BY <2>1 DEF LoadTerminfoEffect, CallInv, MemberInv, HeapInv
    <3>2. QED
      BY <1>5, <3>1, LoadOwns
  <2>3. ASSUME NEW u \in Inst, u # t PROVE OwnsRight(u)'
    <3>1. tk'[u] = tk[u] /\ heap'[u] = heap[u]
      BY <2>1, <2>3 DEF LoadTerminfoEffect, KeepsOthers
    <3>2. QED
      BY <3>1, <2>3, OwnsKept DEF HeapInv
  <2>4. NothingLeaked'
    BY <2>1 DEF LoadTerminfoEffect, HeapInv, NothingLeaked, LeakTroubles
  <2>5. QED BY <2>2, <2>3, <2>4 DEF HeapInv
<1>6. ASSUME NEW t \in Inst, start_driver(t)
      PROVE  HeapInv'
  <2>1. StartDriverEffect(t)
    BY <1>6, StartDriverEffectHolds
  <2>2. OwnsRight(t)'
    BY <2>1, OwnsKept DEF StartDriverEffect, HeapInv
  <2>3. ASSUME NEW u \in Inst, u # t PROVE OwnsRight(u)'
    <3>1. tk'[u] = tk[u] /\ heap'[u] = heap[u]
      BY <2>1, <2>3 DEF StartDriverEffect, KeepsOthers
    <3>2. QED
      BY <3>1, <2>3, OwnsKept DEF HeapInv
  <2>4. NothingLeaked'
    BY <2>1 DEF StartDriverEffect, HeapInv, NothingLeaked, LeakTroubles
  <2>5. QED BY <2>2, <2>3, <2>4 DEF HeapInv
<1>7. ASSUME NEW t \in Inst, start_driver_fails(t)
      PROVE  HeapInv'
  <2>1. StartDriverFailsEffect(t)
    BY <1>7, StartDriverFailsEffectHolds
  <2>2. OwnsRight(t)'
    <3>1. CASE UNCHANGED <<tk, heap, leaked>>
      BY <3>1, OwnsKept DEF HeapInv
    <3>2. CASE heap'[t] = {}
      BY <3>2 DEF OwnsRight, Live
    <3>3. QED
      BY <2>1, <3>1, <3>2 DEF StartDriverFailsEffect
  <2>3. ASSUME NEW u \in Inst, u # t PROVE OwnsRight(u)'
    <3>1. tk'[u] = tk[u] /\ heap'[u] = heap[u]
      BY <2>1, <2>3 DEF StartDriverFailsEffect, KeepsOthers
    <3>2. QED
      BY <3>1, <2>3, OwnsKept DEF HeapInv
  <2>4. NothingLeaked'
    BY <2>1 DEF StartDriverFailsEffect, NothingLeaked, LeakTroubles
  <2>5. QED BY <2>2, <2>3, <2>4 DEF HeapInv
<1>8. ASSUME NEW t \in Inst, termkey_stop(t)
      PROVE  HeapInv'
  <2>1. StopEffect(t)
    BY <1>8, StopEffectHolds
  <2>2. ASSUME NEW u \in Inst PROVE OwnsRight(u)'
    <3>1. CASE u = t
      BY <2>1, <3>1, OwnsKept DEF StopEffect, HeapInv
    <3>2. CASE u # t
      BY <2>1, <3>2, OwnsKept DEF StopEffect, KeepsOthers, HeapInv
    <3>3. QED BY <3>1, <3>2
  <2>3. NothingLeaked'
    BY <2>1 DEF StopEffect, HeapInv, NothingLeaked, LeakTroubles
  <2>4. QED BY <2>2, <2>3 DEF HeapInv
<1>9. ASSUME NEW t \in Inst, termkey_destroy(t)
      PROVE  HeapInv'
  <2>1. DestroyEffect(t)
    BY <1>9, DestroyEffectHolds
  <2>2. ASSUME NEW u \in Inst PROVE OwnsRight(u)'
    <3>1. CASE u = t
      BY <2>1, <3>1, OwnsKept DEF DestroyEffect, HeapInv
    <3>2. CASE u # t
      BY <2>1, <3>2, OwnsKept DEF DestroyEffect, KeepsOthers, HeapInv
    <3>3. QED BY <3>1, <3>2
  <2>3. NothingLeaked'
    BY <2>1 DEF DestroyEffect, HeapInv, NothingLeaked, LeakTroubles
  <2>4. QED BY <2>2, <2>3 DEF HeapInv
<1>10. ASSUME NEW t \in Inst, stop_driver(t)
      PROVE  HeapInv'
  <2>1. StopDriverEffect(t)
    BY <1>10, StopDriverEffectHolds
  <2>2. UNCHANGED <<tk, heap, leaked>> /\ hist \subseteq hist'
    BY <2>1 DEF StopDriverEffect
  <2>3. QED
    BY <2>2, OwnsKept DEF HeapInv, NothingLeaked, LeakTroubles
<1>11. ASSUME NEW t \in Inst, stop_termios(t)
      PROVE  HeapInv'
  <2>1. StopTermiosEffect(t)
    BY <1>11, StopTermiosEffectHolds
  <2>2. ASSUME NEW u \in Inst PROVE OwnsRight(u)'
    <3>1. CASE u = t
      BY <2>1, <3>1, OwnsKept DEF StopTermiosEffect, HeapInv
    <3>2. CASE u # t
      BY <2>1, <3>2, OwnsKept DEF StopTermiosEffect, KeepsOthers, HeapInv
    <3>3. QED BY <3>1, <3>2
  <2>3. NothingLeaked'
    BY <2>1 DEF StopTermiosEffect, HeapInv, NothingLeaked, LeakTroubles
  <2>4. QED BY <2>2, <2>3 DEF HeapInv
<1>12. ASSUME NEW t \in Inst, termkey_free(t)
      PROVE  HeapInv'
  <2>1. FreeEffect(t)
    BY <1>12, FreeEffectHolds
  <2>2. OwnsRight(t)'
    <3>1. CASE UNCHANGED <<tk, heap, leaked>>
      BY <3>1, OwnsKept DEF HeapInv
    <3>2. CASE heap'[t] = {}
      BY <3>2 DEF OwnsRight, Live
    <3>3. QED
      BY <2>1, <3>1, <3>2 DEF FreeEffect
  <2>3. ASSUME NEW u \in Inst, u # t PROVE OwnsRight(u)'
    <3>1. tk'[u] = tk[u] /\ heap'[u] = heap[u]
      BY <2>1, <2>3 DEF FreeEffect, KeepsOthers
    <3>2. QED
      BY <3>1, <2>3, OwnsKept DEF HeapInv
  <2>4. NothingLeaked'
    <3>1. MemberOK(t) /\ OwnsRight(t) /\ Live(t) /\ NothingLeaked
      BY <2>1 DEF FreeEffect, CallInv, MemberInv, HeapInv
    <3>2. /\ hist' = hist
          /\ \/ leaked' = leaked
             \/ tk[t].root # "NULL" /\ leaked' = (leaked \/ heap[t] \ Frees(t) # {})
      BY <2>1 DEF FreeEffect
    <3>3. QED
      BY <3>1, <3>2, FreeLeavesNothing DEF NothingLeaked, LeakTroubles
  <2>5. QED BY <2>2, <2>3, <2>4 DEF HeapInv
<1>13. ASSUME NEW t \in Inst, NEW flags \in FlagSets, termkey_set_flags(t, flags)
      PROVE  HeapInv'
  <2>1. SetFlagsEffect(t, flags)
    BY <1>13, SetFlagsEffectHolds
  <2>2. OwnsRight(t)'
    BY <2>1, OwnsKept DEF SetFlagsEffect, HeapInv
  <2>3. ASSUME NEW u \in Inst, u # t PROVE OwnsRight(u)'
    <3>1. tk'[u] = tk[u] /\ heap'[u] = heap[u]
      BY <2>1, <2>3 DEF SetFlagsEffect, KeepsOthers
    <3>2. QED
      BY <3>1, <2>3, OwnsKept DEF HeapInv
  <2>4. NothingLeaked'
    BY <2>1 DEF SetFlagsEffect, HeapInv, NothingLeaked, LeakTroubles
  <2>5. QED BY <2>2, <2>3, <2>4 DEF HeapInv
<1>14. ASSUME NEW t \in Inst, termkey_getkey(t)
      PROVE  HeapInv'
  <2>1. GetkeyEffect(t)
    BY <1>14, GetkeyEffectHolds
  <2>2. ASSUME NEW u \in Inst PROVE OwnsRight(u)'
    <3>1. CASE u = t
      BY <2>1, <3>1, OwnsKept DEF GetkeyEffect, HeapInv
    <3>2. CASE u # t
      BY <2>1, <3>2, OwnsKept DEF GetkeyEffect, KeepsOthers, HeapInv
    <3>3. QED BY <3>1, <3>2
  <2>3. NothingLeaked'
    BY <2>1 DEF GetkeyEffect, HeapInv, NothingLeaked, LeakTroubles
  <2>4. QED BY <2>2, <2>3 DEF HeapInv
<1>15. CASE UNCHANGED vars
  BY <1>15 DEF vars, HeapInv, OwnsRight, Owned, Live, NothingLeaked, LeakTroubles
<1>16. QED BY <1>1, <1>2, <1>3, <1>4, <1>5, <1>6, <1>7, <1>8, <1>9, <1>10, <1>11, <1>12, <1>13, <1>14, <1>15 DEF Next

(* The stack is a sequence of instances.                                   *)
LEMMA StackTyped ==
  ASSUME TypeOK
  PROVE  stack \in Seq(Inst) /\ Len(stack) \in Nat /\ \A i \in 1..Len(stack) : stack[i] \in Inst
<1>1. stack \in Seq(Inst)
  BY DEF TypeOK
<1>2. \A s \in Seq(Inst) : Len(s) \in Nat /\ \A i \in 1..Len(s) : s[i] \in Inst
  OBVIOUS
<1>3. QED
  BY <1>1, <1>2

(* A step that leaves the stack as it is, between other steps than those   *)
(* of a start, keeps its invariant when whoever is in charge still runs.   *)
LEMMA StackKept ==
  ASSUME TypeOK, StackInv, stack' = stack,
         at \notin {"load", "write"}, at' \notin {"load", "write"},
         \A u \in InCharge : tk[u].valid /\ tk[u].started => tk'[u].valid /\ tk'[u].started,
         \A u \in Inst : Saver(u)'
  PROVE  StackInv'
<1>1. ASSUME NEW i \in 1..Len(stack') PROVE RunsInCharge(i)'
  <2>1. tk[stack[i]].valid /\ tk[stack[i]].started
    BY <1>1 DEF StackInv, RunsInCharge
  <2>2. stack[i] \in InCharge
    BY <1>1 DEF InCharge
  <2>3. QED
    BY <2>1, <2>2 DEF RunsInCharge
<1>2. QED
  BY <1>1 DEF StackInv

(* An instance that does not change keeps what is known of its saved settings.*)
LEMMA SaverKept ==
  ASSUME TypeOK, NEW u \in Inst, Saver(u), stack' = stack, hist \subseteq hist',
         tk'[u] = tk[u], heap'[u] = heap[u]
  PROVE  Saver(u)'
BY DEF Saver, Live, InCharge, Orderly

(* So does one that keeps those members, even when it loses its charge out of order.*)
LEMMA SaverFrame ==
  ASSUME NEW u \in Inst, Saver(u), hist \subseteq hist',
         tk'[u].fd = tk[u].fd, tk'[u].flags = tk[u].flags, tk'[u].valid = tk[u].valid,
         tk'[u].begun = tk[u].begun, tk'[u].started = tk[u].started,
         Live(u) => Live(u)', u \in InCharge => u \in InCharge' \/ ~Orderly'
  PROVE  Saver(u)'
BY DEF Saver, Live, Orderly

(* Between the steps of a start, who is in charge is started.              *)
LEMMA InChargeRuns ==
  ASSUME TypeOK, StackInv, NEW u \in InCharge
  PROVE  u \in Inst /\ tk[u].valid /\ (at \notin {"load", "write"} => tk[u].started)
BY StackTyped DEF StackInv, InCharge, RunsInCharge

(* Without its top, or from one of its instances on, the stack is one.     *)
LEMMA StackCut ==
  ASSUME TypeOK, StackInv, NEW n \in 0..(Len(stack) - 1), stack' = SubSeq(stack, 1, n),
         \A i \in 1..n : tk'[stack[i]] = tk[stack[i]],
         at' \notin {"load", "write"}, \A u \in Inst : Saver(u)'
  PROVE  StackInv'
<1>1. stack \in Seq(Inst) /\ Len(stack) \in Nat
  BY StackTyped
<1>2. Len(stack') = n /\ \A i \in 1..n : stack'[i] = stack[i]
  BY <1>1, BelowIsSequence
<1>3. ASSUME NEW i \in 1..n PROVE RunsInCharge(i)'
  <2>1. i \in 1..Len(stack) /\ i # Len(stack)
    BY <1>1
  <2>2. tk[stack[i]].valid /\ tk[stack[i]].started
    BY <2>1 DEF StackInv, RunsInCharge
  <2>3. QED
    BY <1>2, <2>2 DEF RunsInCharge
<1>4. \A i, j \in 1..n : stack'[i] = stack'[j] => i = j
  BY <1>1, <1>2 DEF StackInv
<1>5. QED
  BY <1>2, <1>3, <1>4 DEF StackInv

(* Who is in charge after a cut.                                           *)
LEMMA CutInCharge ==
  ASSUME TypeOK, StackInv, NEW n \in 0..(Len(stack) - 1), stack' = SubSeq(stack, 1, n)
  PROVE  InCharge' = {stack[i] : i \in 1..n} /\ stack[n + 1] \notin InCharge'
<1>1. stack \in Seq(Inst) /\ Len(stack) \in Nat
  BY StackTyped
<1>2. Len(stack') = n /\ \A i \in 1..n : stack'[i] = stack[i]
  BY <1>1, BelowIsSequence
<1>3. InCharge' = {stack[i] : i \in 1..n}
  BY <1>2 DEF InCharge
<1>4. \A i \in 1..n : stack[i] # stack[n + 1]
  BY <1>1 DEF StackInv
<1>5. QED
  BY <1>3, <1>4

(* A step keeps the instances in charge of the settings in their order.    *)
LEMMA StackStep ==
  ASSUME TypeOK, LifeAssumption, CallInv, MemberInv, StackInv, [Next]_vars
  PROVE  StackInv'
<1>1. ASSUME NEW t \in Inst, NEW fd \in Fds, NEW flags \in FlagSets, termkey_new(t, fd, flags)
      PROVE  StackInv'
  <2>1. NewEffect(t, fd, flags)
    BY <1>1, NewEffectHolds
  <2>2. stack' = stack /\ hist \subseteq hist' /\ at \notin {"load", "write"} /\ at' \notin {"load", "write"}
    BY <2>1 DEF NewEffect
  <2>3. t \notin InCharge
    BY <2>1, InChargeRuns DEF NewEffect, CallInv, MemberInv, MemberOK, StackInv, Saver
  <2>4. ASSUME NEW u \in Inst PROVE Saver(u)'
    <3>1. CASE tk'[u] = tk[u] /\ heap'[u] = heap[u]
      BY <2>2, <3>1, SaverKept DEF StackInv
    <3>2. CASE ~(tk'[u].valid)
      BY <3>2 DEF Saver
    <3>3. QED
      BY <2>1, <3>1, <3>2 DEF NewEffect, KeepsOthers
  <2>5. \A u \in InCharge : tk'[u] = tk[u]
    BY <2>1, <2>3, InChargeRuns DEF NewEffect, KeepsOthers
  <2>6. QED
    BY <2>2, <2>4, <2>5, StackKept
<1>2. ASSUME NEW t \in Inst, termkey_init_fails(t)
      PROVE  StackInv'
  <2>1. InitFailsEffect(t)
    BY <1>2, InitFailsEffectHolds
  <2>2. stack' = stack /\ hist \subseteq hist' /\ at \notin {"load", "write"} /\ at' \notin {"load", "write"}
    BY <2>1 DEF InitFailsEffect
  <2>3. ASSUME NEW u \in Inst PROVE Saver(u)'
    BY <2>1, <2>2, SaverKept DEF InitFailsEffect, StackInv
  <2>4. QED
    BY <2>1, <2>2, <2>3, StackKept DEF InitFailsEffect
<1>3. ASSUME NEW t \in Inst, termkey_start(t)
      PROVE  StackInv'
  <2>1. StartEffect(t)
    BY <1>3, StartEffectHolds
  <2>2. stack' = stack /\ hist \subseteq hist' /\ at \notin {"load", "write"} /\ at' \notin {"load", "write"}
    BY <2>1 DEF StartEffect
  <2>3. ASSUME NEW u \in Inst PROVE Saver(u)'
    BY <2>1, <2>2, SaverKept DEF StartEffect, StackInv
  <2>4. QED
    BY <2>1, <2>2, <2>3, StackKept DEF StartEffect
<1>4. ASSUME NEW t \in Inst, start_termios(t)
      PROVE  StackInv'
  <2>1. StartTermiosEffect(t)
    BY <1>4, StartTermiosEffectHolds
  <2>2. t \notin InCharge
    BY <2>1, InChargeRuns DEF StartTermiosEffect, CallInv
  <2>3. stack \in Seq(Inst) /\ Len(stack) \in Nat /\ at' \in {"load", "write"} /\ of' = t
    BY <2>1 DEF StartTermiosEffect, TypeOK
  <2>4. ASSUME NEW u \in Inst, u # t PROVE Saver(u)'
    <3>1. tk'[u] = tk[u] /\ heap'[u] = heap[u] /\ hist' = hist
      BY <2>1, <2>4 DEF StartTermiosEffect, KeepsOthers
    <3>2. InCharge \subseteq InCharge'
      BY <2>1, <2>3 DEF StartTermiosEffect, InCharge
    <3>3. QED
      BY <3>1, <3>2 DEF StackInv, Saver, Live, Orderly
  <2>5. Saver(t)'
    BY <2>1 DEF StartTermiosEffect, CallInv, Saver, StackInv, Changes, Live
  <2>6. \A i \in 1..Len(stack) : tk'[stack[i]] = tk[stack[i]] /\ tk[stack[i]].valid /\ tk[stack[i]].started
    <3>1. ASSUME NEW i \in 1..Len(stack)
          PROVE  tk'[stack[i]] = tk[stack[i]] /\ tk[stack[i]].valid /\ tk[stack[i]].started
      <4>1. stack[i] \in InCharge
        BY DEF InCharge
      <4>2. QED
        BY <2>1, <2>2, <4>1, InChargeRuns DEF StartTermiosEffect, KeepsOthers
    <3>2. QED
      BY <3>1
  <2>7. CASE Changes(t)
    <3>1. stack' = Append(stack, t) /\ tk'[t].valid
      BY <2>1, <2>7 DEF StartTermiosEffect
    <3>2. /\ Len(stack') = Len(stack) + 1 /\ stack'[Len(stack) + 1] = t
          /\ \A i \in 1..Len(stack) : stack'[i] = stack[i]
      BY <2>3, <3>1
    <3>3. \A i, j \in 1..Len(stack') : stack'[i] = stack'[j] => i = j
      <4>1. \A i \in 1..Len(stack) : stack[i] # t
        BY <2>2 DEF InCharge
      <4>2. \A i, j \in 1..Len(stack) : stack[i] = stack[j] => i = j
        BY DEF StackInv
      <4>3. QED
        BY <2>3, <3>2, <4>1, <4>2
    <3>4. \A i \in 1..Len(stack') : RunsInCharge(i)'
      BY <2>3, <2>6, <3>1, <3>2 DEF RunsInCharge
    <3>5. Changes(of)' /\ Len(stack') > 0 /\ stack'[Len(stack')] = of'
      BY <2>1, <2>3, <2>7, <3>2 DEF StartTermiosEffect, Changes
    <3>6. QED
      BY <2>4, <2>5, <3>3, <3>4, <3>5 DEF StackInv
  <2>8. CASE ~Changes(t)
    <3>1. stack' = stack
      BY <2>1, <2>8 DEF StartTermiosEffect
    <3>2. \A i \in 1..Len(stack') : RunsInCharge(i)'
      BY <2>6, <3>1 DEF RunsInCharge
    <3>3. ~Changes(of)' /\ ~(Len(stack') > 0 /\ stack'[Len(stack')] = of')
      <4>1. ~Changes(of)'
        BY <2>1, <2>3, <2>8 DEF StartTermiosEffect, Changes
      <4>2. Len(stack) > 0 => stack[Len(stack)] \in InCharge
        BY <2>3 DEF InCharge
      <4>3. QED
        BY <2>2, <2>3, <3>1, <4>1, <4>2
    <3>4. QED
      BY <2>4, <2>5, <3>1, <3>2, <3>3 DEF StackInv
  <2>9. QED
    BY <2>7, <2>8
<1>5. ASSUME NEW t \in Inst, load_terminfo(t)
      PROVE  StackInv'
  <2>1. LoadTerminfoEffect(t)
    BY <1>5, LoadTerminfoEffectHolds
  <2>2. /\ stack' = stack /\ hist \subseteq hist' /\ at = "load" /\ at' = "write" /\ of' = of /\ of = t
        /\ \A u \in Inst : /\ tk'[u].fd = tk[u].fd /\ tk'[u].flags = tk[u].flags
                           /\ tk'[u].valid = tk[u].valid /\ tk'[u].started = tk[u].started
                           /\ tk'[u].begun = tk[u].begun /\ (Live(u) => Live(u)')
    BY <2>1 DEF LoadTerminfoEffect, KeepsOthers, Live
  <2>3. ASSUME NEW u \in Inst PROVE Saver(u)'
    <3>1. Saver(u) /\ (u \in InCharge => u \in InCharge')
      BY <2>2 DEF StackInv, InCharge
    <3>2. QED
      BY <2>2, <3>1, SaverFrame
  <2>4. \A i \in 1..Len(stack) : stack[i] \in Inst
    BY StackTyped
  <2>5. \A i \in 1..Len(stack') : RunsInCharge(i)'
    BY <2>2, <2>4 DEF StackInv, RunsInCharge
  <2>6. QED
    BY <2>2, <2>3, <2>5 DEF StackInv, Changes
<1>6. ASSUME NEW t \in Inst, start_driver(t)
      PROVE  StackInv'
  <2>1. StartDriverEffect(t)
    BY <1>6, StartDriverEffectHolds
  <2>2. /\ stack' = stack /\ hist' = hist /\ at = "write" /\ at' = "out" /\ of = t /\ tk'[t].started
        /\ \A u \in Inst : /\ tk'[u].fd = tk[u].fd /\ tk'[u].flags = tk[u].flags
                           /\ tk'[u].valid = tk[u].valid /\ (u # t => tk'[u].started = tk[u].started)
                           /\ tk'[u].begun = tk[u].begun /\ (Live(u) => Live(u)')
    BY <2>1 DEF StartDriverEffect, KeepsOthers, Live
  <2>3. stack \in Seq(Inst) /\ Len(stack) \in Nat /\ \A i \in 1..Len(stack) : stack[i] \in Inst
    BY StackTyped
  <2>4. ASSUME NEW u \in Inst PROVE Saver(u)'
    <3>1. CASE u = t
      <4>1. t \notin InCharge => ~Changes(t)
        BY <2>2, <2>3 DEF StackInv, InCharge
      <4>2. tk[t].valid /\ t \notin InCharge => "flags changed" \in hist
        BY <4>1 DEF StackInv, Saver, Changes
      <4>3. tk[t].valid => /\ tk[t].fd = "tty" /\ tk[t].begun /\ Live(t)
                          /\ ("NOTERMIOS" \in tk[t].flags => "flags changed" \in hist)
        BY DEF StackInv, Saver
      <4>4. InCharge' = InCharge /\ ("flags changed" \in hist => ~Orderly')
        <5>1. InCharge' = InCharge
          BY <2>2 DEF InCharge
        <5>2. "flags changed" \in hist => ~Orderly'
          BY <2>2 DEF Orderly
        <5>3. QED
          BY <5>1, <5>2
      <4>5. QED
        BY <2>2, <3>1, <4>2, <4>3, <4>4 DEF Saver, Live
    <3>2. CASE u # t
      <4>1. Saver(u) /\ (u \in InCharge => u \in InCharge')
        BY <2>2 DEF StackInv, InCharge
      <4>2. QED
        BY <2>2, <3>2, <4>1, SaverFrame
    <3>3. QED
      BY <3>1, <3>2
  <2>5. \A i \in 1..Len(stack') : RunsInCharge(i)'
    BY <2>2, <2>3 DEF StackInv, RunsInCharge
  <2>6. QED
    BY <2>2, <2>4, <2>5 DEF StackInv
<1>7. ASSUME NEW t \in Inst, start_driver_fails(t)
      PROVE  StackInv'
  <2>1. StartDriverFailsEffect(t)
    BY <1>7, StartDriverFailsEffectHolds
  <2>2. /\ hist \subseteq hist' /\ at = "write" /\ at' = "out" /\ of = t /\ ~tk[t].started
        /\ stack \in Seq(Inst) /\ Len(stack) \in Nat
    BY <2>1, StackTyped DEF StartDriverFailsEffect, CallInv
  <2>3. Changes(t) <=> (Len(stack) > 0 /\ stack[Len(stack)] = t)
    BY <2>2 DEF StackInv
  <2>4. stack' = IF Changes(t) THEN SubSeq(stack, 1, Len(stack) - 1) ELSE stack
    BY <2>1 DEF StartDriverFailsEffect
  <2>5. InCharge' = InCharge \ {t}
    <3>1. CASE Changes(t)
      <4>1. Len(stack) - 1 \in 0..(Len(stack) - 1) /\ stack' = SubSeq(stack, 1, Len(stack) - 1)
        BY <2>2, <2>3, <2>4, <3>1
      <4>2. InCharge' = {stack[i] : i \in 1..(Len(stack) - 1)} /\ t \notin InCharge'
        <5>1. Len(stack) \in Nat /\ stack[Len(stack)] = t
          BY <2>2, <2>3, <3>1
        <5>2. (Len(stack) - 1) + 1 = Len(stack)
          BY <5>1
        <5>3. QED
          BY <4>1, <5>1, <5>2, CutInCharge
      <4>3. Len(stack) \in Nat /\ stack[Len(stack)] = t
        BY <2>2, <2>3, <3>1
      <4>4. InCharge = {stack[i] : i \in 1..(Len(stack) - 1)} \cup {t}
        BY <4>1, <4>3 DEF InCharge
      <4>5. QED
        BY <4>2, <4>4
    <3>2. CASE ~Changes(t)
      <4>1. stack' = stack
        BY <2>1, <3>2 DEF StartDriverFailsEffect
      <4>2. t \notin InCharge
        BY <2>2, <2>3, <3>2 DEF StackInv, RunsInCharge, InCharge
      <4>3. QED
        BY <4>1, <4>2 DEF InCharge
    <3>3. QED
      BY <3>1, <3>2
  <2>6. ASSUME NEW u \in Inst PROVE Saver(u)'
    <3>1. CASE tk'[u] = tk[u] /\ heap'[u] = heap[u]
      BY <2>2, <2>5, <3>1 DEF StackInv, Saver, Live, Orderly
    <3>2. CASE ~(tk'[u].valid)
      BY <3>2 DEF Saver
    <3>3. QED
      BY <2>1, <3>1, <3>2 DEF StartDriverFailsEffect, KeepsOthers
  <2>7. CASE Changes(t)
    <3>1. Len(stack) - 1 \in 0..(Len(stack) - 1) /\ stack' = SubSeq(stack, 1, Len(stack) - 1)
      BY <2>2, <2>3, <2>4, <2>7
    <3>2. ASSUME NEW i \in 1..(Len(stack) - 1) PROVE tk'[stack[i]] = tk[stack[i]]
      <4>1. stack[i] \in Inst /\ stack[i] # t
        BY <2>2, <2>3, <2>7 DEF StackInv
      <4>2. QED
        BY <2>1, <4>1 DEF StartDriverFailsEffect, KeepsOthers
    <3>3. QED
      BY <2>2, <2>6, <3>1, <3>2, StackCut
  <2>8. CASE ~Changes(t)
    <3>1. stack' = stack /\ t \notin InCharge
      <4>1. stack' = stack
        BY <2>4, <2>8
      <4>2. InCharge' = InCharge
        BY <4>1 DEF InCharge
      <4>3. QED
        BY <2>5, <4>1, <4>2
    <3>2. ASSUME NEW i \in 1..Len(stack) PROVE RunsInCharge(i)'
      <4>1. stack[i] \in Inst /\ stack[i] # t
        BY <2>2, <3>1 DEF InCharge
      <4>2. tk'[stack[i]] = tk[stack[i]]
        BY <2>1, <4>1 DEF StartDriverFailsEffect, KeepsOthers
      <4>3. QED
        BY <2>2, <3>1, <4>1, <4>2 DEF StackInv, RunsInCharge
    <3>3. QED
      BY <2>2, <2>6, <3>1, <3>2 DEF StackInv
  <2>9. QED
    BY <2>7, <2>8
<1>8. ASSUME NEW t \in Inst, termkey_stop(t)
      PROVE  StackInv'
  <2>1. StopEffect(t)
    BY <1>8, StopEffectHolds
  <2>2. stack' = stack /\ hist \subseteq hist' /\ at \notin {"load", "write"} /\ at' \notin {"load", "write"}
    BY <2>1 DEF StopEffect
  <2>3. ASSUME NEW u \in Inst PROVE Saver(u)'
    BY <2>1, <2>2, SaverKept DEF StopEffect, StackInv
  <2>4. QED
    BY <2>1, <2>2, <2>3, StackKept DEF StopEffect
<1>9. ASSUME NEW t \in Inst, termkey_destroy(t)
      PROVE  StackInv'
  <2>1. DestroyEffect(t)
    BY <1>9, DestroyEffectHolds
  <2>2. stack' = stack /\ hist \subseteq hist' /\ at \notin {"load", "write"} /\ at' \notin {"load", "write"}
    BY <2>1 DEF DestroyEffect
  <2>3. ASSUME NEW u \in Inst PROVE Saver(u)'
    BY <2>1, <2>2, SaverKept DEF DestroyEffect, StackInv
  <2>4. QED
    BY <2>1, <2>2, <2>3, StackKept DEF DestroyEffect
<1>10. ASSUME NEW t \in Inst, stop_driver(t)
      PROVE  StackInv'
  <2>1. StopDriverEffect(t)
    BY <1>10, StopDriverEffectHolds
  <2>2. stack' = stack /\ hist \subseteq hist' /\ at \notin {"load", "write"} /\ at' \notin {"load", "write"}
    BY <2>1 DEF StopDriverEffect
  <2>3. ASSUME NEW u \in Inst PROVE Saver(u)'
    BY <2>1, <2>2, SaverKept DEF StopDriverEffect, StackInv
  <2>4. QED
    BY <2>1, <2>2, <2>3, StackKept DEF StopDriverEffect
<1>11. ASSUME NEW t \in Inst, stop_termios(t)
      PROVE  StackInv'
  <2>1. StopTermiosEffect(t)
    BY <1>11, StopTermiosEffectHolds
  <2>0. stack \in Seq(Inst) /\ Len(stack) \in Nat /\ hist \subseteq hist'
    BY <2>1, StackTyped DEF StopTermiosEffect
  <2>2. /\ at = "stop termios" /\ at' \notin {"load", "write"} /\ ~tk'[t].started
        /\ \A u \in Inst : /\ tk'[u].fd = tk[u].fd /\ tk'[u].flags = tk[u].flags
                           /\ tk'[u].valid = tk[u].valid /\ (u # t => tk'[u].started = tk[u].started)
                           /\ tk'[u].begun = tk[u].begun /\ (Live(u) => Live(u)')
    BY <2>1 DEF StopTermiosEffect, KeepsOthers, Live
  <2>3. CASE t \in InCharge
    <3>1. Position(t) \in 1..Len(stack) /\ stack[Position(t)] = t
      BY <2>3, PositionFound
    <3>2. PICK n \in 0..(Len(stack) - 1) : n = Position(t) - 1
      BY <2>0, <3>1
    <3>3. stack' = SubSeq(stack, 1, n) /\ (n + 1 < Len(stack) => "unordered" \in hist') /\ stack[n + 1] = t
      <4>1. n + 1 = Position(t) /\ n = Position(t) - 1
        BY <2>0, <3>1, <3>2
      <4>2. stack' = SubSeq(stack, 1, Position(t) - 1)
        BY <2>1, <2>3 DEF StopTermiosEffect
      <4>3. Position(t) < Len(stack) => "unordered" \in hist'
        BY <2>1, <2>3 DEF StopTermiosEffect
      <4>4. QED
        BY <3>1, <4>1, <4>2, <4>3
    <3>4. InCharge' = {stack[i] : i \in 1..n}
      BY <3>3, CutInCharge
    <3>5. ASSUME NEW u \in Inst PROVE Saver(u)'
      <4>1. CASE u = t
        BY <2>0, <2>2, <4>1, ZenonT(40) DEF StackInv, Saver, Live
      <4>2. CASE u # t /\ u \in InCharge /\ u \notin InCharge'
        <5>1. PICK i \in 1..Len(stack) : stack[i] = u /\ i \notin 1..n /\ i # n + 1
          BY <3>3, <3>4, <4>2 DEF InCharge
        <5>2. n + 1 < Len(stack)
          BY <2>0, <3>2, <5>1
        <5>3. ~Orderly'
          BY <3>3, <5>2 DEF Orderly
        <5>4. Saver(u)
          BY DEF StackInv
        <5>5. QED
          BY <2>0, <2>2, <4>2, <5>3, <5>4, SaverFrame
      <4>3. CASE u # t /\ (u \in InCharge' \/ u \notin InCharge)
        <5>1. Saver(u)
          BY DEF StackInv
        <5>2. QED
          BY <2>0, <2>2, <4>3, <5>1, SaverFrame
      <4>4. QED
        BY <4>1, <4>2, <4>3
    <3>6. ASSUME NEW i \in 1..n PROVE tk'[stack[i]] = tk[stack[i]]
      <4>1. i \in 1..Len(stack) /\ n + 1 \in 1..Len(stack) /\ i # n + 1
        BY <2>0, <3>2
      <4>2. stack[i] # t
        BY <3>3, <4>1 DEF StackInv
      <4>3. stack[i] \in Inst
        BY <4>1, StackTyped
      <4>4. QED
        BY <2>1, <4>2, <4>3 DEF StopTermiosEffect, KeepsOthers
    <3>7. QED
      BY <2>2, <3>3, <3>5, <3>6, StackCut
  <2>4. CASE t \notin InCharge
    <3>1. stack' = stack
      BY <2>1, <2>4 DEF StopTermiosEffect
    <3>2. ASSUME NEW u \in Inst PROVE Saver(u)'
      <4>1. Saver(u) /\ InCharge' = InCharge
        BY <3>1 DEF StackInv, InCharge
      <4>2. CASE u = t
        BY <2>0, <2>2, <4>1, <4>2 DEF Saver, Live
      <4>3. CASE u # t
        BY <2>0, <2>2, <4>1, <4>3, SaverFrame
      <4>4. QED
        BY <4>2, <4>3
    <3>3. \A u \in InCharge : tk'[u] = tk[u]
      BY <2>1, <2>4, InChargeRuns DEF StopTermiosEffect, KeepsOthers
    <3>4. QED
      BY <2>2, <3>1, <3>2, <3>3, StackKept
  <2>5. QED
    BY <2>3, <2>4
<1>12. ASSUME NEW t \in Inst, termkey_free(t)
      PROVE  StackInv'
  <2>1. FreeEffect(t)
    BY <1>12, FreeEffectHolds
  <2>2. stack' = stack /\ hist \subseteq hist' /\ at \notin {"load", "write"} /\ at' \notin {"load", "write"}
    BY <2>1 DEF FreeEffect
  <2>3. t \notin InCharge
    BY <2>1, InChargeRuns DEF FreeEffect, CallInv, MemberInv, MemberOK, StackInv, Saver
  <2>4. ASSUME NEW u \in Inst PROVE Saver(u)'
    <3>1. CASE tk'[u] = tk[u] /\ heap'[u] = heap[u]
      BY <2>2, <3>1, SaverKept DEF StackInv
    <3>2. CASE ~(tk'[u].valid)
      BY <3>2 DEF Saver
    <3>3. QED
      BY <2>1, <3>1, <3>2 DEF FreeEffect, KeepsOthers
  <2>5. \A u \in InCharge : tk'[u] = tk[u]
    BY <2>1, <2>3, InChargeRuns DEF FreeEffect, KeepsOthers
  <2>6. QED
    BY <2>2, <2>4, <2>5, StackKept
<1>13. ASSUME NEW t \in Inst, NEW flags \in FlagSets, termkey_set_flags(t, flags)
      PROVE  StackInv'
  <2>1. SetFlagsEffect(t, flags)
    BY <1>13, SetFlagsEffectHolds
  <2>2. /\ stack' = stack /\ hist \subseteq hist' /\ at \notin {"load", "write"} /\ at' \notin {"load", "write"}
        /\ \A u \in Inst : /\ tk'[u].fd = tk[u].fd /\ (u # t => tk'[u].flags = tk[u].flags)
                           /\ tk'[u].valid = tk[u].valid /\ tk'[u].started = tk[u].started
                           /\ tk'[u].begun = tk[u].begun /\ (Live(u) => Live(u)')
    BY <2>1 DEF SetFlagsEffect, KeepsOthers, Live
  <2>3. ASSUME NEW u \in Inst PROVE Saver(u)'
    <3>0. Saver(u) /\ InCharge' = InCharge /\ (~Orderly => ~Orderly')
      <4>1. Saver(u)
        BY DEF StackInv
      <4>2. InCharge' = InCharge
        BY <2>2 DEF InCharge
      <4>3. ~Orderly => ~Orderly'
        BY <2>2 DEF Orderly
      <4>4. QED
        BY <4>1, <4>2, <4>3
    <3>1. CASE u = t
      <4>1. tk'[t].flags = flags
            /\ ("NOTERMIOS" \in flags /\ "NOTERMIOS" \notin tk[t].flags /\ tk[t].begun
                  => "flags changed" \in hist')
        BY <2>1 DEF SetFlagsEffect
      <4>2. QED
        BY <2>2, <3>0, <3>1, <4>1 DEF Saver, Live
    <3>2. CASE u # t
      BY <2>2, <3>0, <3>2, SaverFrame
    <3>3. QED
      BY <3>1, <3>2
  <2>4. \A u \in InCharge : u \in Inst
    BY InChargeRuns
  <2>5. QED
    BY <2>2, <2>3, <2>4, StackKept
<1>14. ASSUME NEW t \in Inst, termkey_getkey(t)
      PROVE  StackInv'
  <2>1. GetkeyEffect(t)
    BY <1>14, GetkeyEffectHolds
  <2>2. stack' = stack /\ hist \subseteq hist' /\ at \notin {"load", "write"} /\ at' \notin {"load", "write"}
    BY <2>1 DEF GetkeyEffect
  <2>3. ASSUME NEW u \in Inst PROVE Saver(u)'
    BY <2>1, <2>2, SaverKept DEF GetkeyEffect, StackInv
  <2>4. QED
    BY <2>1, <2>2, <2>3, StackKept DEF GetkeyEffect
<1>15. CASE UNCHANGED vars
  <2>1. ASSUME NEW u \in Inst PROVE Saver(u)'
    BY <1>15, SaverKept DEF vars, StackInv
  <2>2. QED
    BY <1>15, <2>1 DEF vars, StackInv, RunsInCharge, Changes
<1>16. QED BY <1>1, <1>2, <1>3, <1>4, <1>5, <1>6, <1>7, <1>8, <1>9, <1>10, <1>11, <1>12, <1>13, <1>14, <1>15 DEF Next

(* Who is the first in charge, and who is above another, after a push and  *)
(* after a cut; the cut instance goes with those above it.                 *)
LEMMA SameOrder ==
  ASSUME stack' = stack
  PROVE  InCharge' = InCharge /\ \A u \in Inst : (First(u)' <=> First(u)) /\ (Above(u)' <=> Above(u))
BY DEF InCharge, First, Above

(* Who has a place in the order is in charge.                              *)
LEMMA OrderedInCharge ==
  ASSUME TypeOK
  PROVE  \A u \in Inst : First(u) \/ Above(u) => u \in InCharge
<1>1. Len(stack) \in Nat
  BY StackTyped
<1>2. ASSUME NEW u \in Inst, First(u) PROVE u \in InCharge
  BY <1>1, <1>2 DEF First, InCharge
<1>3. ASSUME NEW u \in Inst, Above(u) PROVE u \in InCharge
  BY <1>1, <1>3 DEF Above, InCharge
<1>4. QED
  BY <1>2, <1>3

(* The order after a push.                                                 *)
LEMMA PushOrder ==
  ASSUME TypeOK, NEW t \in Inst, stack' = Append(stack, t)
  PROVE  /\ InCharge' = InCharge \cup {t}
         /\ \A u \in Inst : First(u)' => First(u) \/ (u = t /\ InCharge = {})
         /\ \A u \in Inst : Above(u)' => Above(u) \/ (u = t /\ InCharge # {})
<1>1. stack \in Seq(Inst) /\ Len(stack) \in Nat
  BY StackTyped
<1>2. /\ Len(stack') = Len(stack) + 1 /\ stack'[Len(stack) + 1] = t
      /\ \A i \in 1..Len(stack) : stack'[i] = stack[i]
  BY <1>1
<1>3. InCharge = {} <=> Len(stack) = 0
  BY <1>1 DEF InCharge
<1>4. InCharge' = InCharge \cup {t}
  BY <1>1, <1>2 DEF InCharge
<1>5. \A u \in Inst : First(u)' => First(u) \/ (u = t /\ InCharge = {})
  BY <1>1, <1>2, <1>3 DEF First
<1>6. \A u \in Inst : Above(u)' => Above(u) \/ (u = t /\ InCharge # {})
  BY <1>1, <1>2, <1>3 DEF Above
<1>7. QED
  BY <1>4, <1>5, <1>6

(* The order after a cut.                                                  *)
LEMMA CutOrder ==
  ASSUME TypeOK, StackInv, NEW n \in 0..(Len(stack) - 1), stack' = SubSeq(stack, 1, n),
         NEW t \in Inst, stack[n + 1] = t
  PROVE  /\ InCharge' \subseteq InCharge \ {t} /\ t \in InCharge
         /\ \A u \in Inst : (First(u)' => First(u)) /\ (Above(u)' => Above(u))
         /\ IF InCharge' = {} THEN First(t) ELSE Above(t)
         /\ \A u \in InCharge : u \in InCharge' \/ u = t \/ Above(u)
<1>1. stack \in Seq(Inst) /\ Len(stack) \in Nat /\ n \in Nat /\ n + 1 \in 1..Len(stack)
  BY StackTyped
<1>2. Len(stack') = n /\ \A i \in 1..n : stack'[i] = stack[i]
  BY <1>1, BelowIsSequence
<1>3. InCharge' = {stack[i] : i \in 1..n} /\ t \notin InCharge'
  BY CutInCharge
<1>4. InCharge' \subseteq InCharge \ {t} /\ t \in InCharge
  BY <1>1, <1>3 DEF InCharge
<1>5. \A u \in Inst : (First(u)' => First(u)) /\ (Above(u)' => Above(u))
  BY <1>1, <1>2 DEF First, Above
<1>6. InCharge' = {} => n = 0
  BY <1>1, <1>3
<1>7. InCharge' # {} => n + 1 \in 2..Len(stack)
  BY <1>1, <1>3
<1>8. IF InCharge' = {} THEN First(t) ELSE Above(t)
  BY <1>1, <1>6, <1>7 DEF First, Above
<1>9. \A i \in 1..Len(stack) : i \in 1..n \/ i = n + 1 \/ i \in 2..Len(stack)
  BY <1>1
<1>10. \A u \in InCharge : u \in InCharge' \/ u = t \/ Above(u)
  BY <1>3, <1>9 DEF InCharge, Above
<1>11. QED
  BY <1>4, <1>5, <1>8, <1>10

(* A step that changes neither the stack nor the settings.                 *)
LEMMA LevelKept ==
  ASSUME TypeOK, StackInv, LevelInv, stack' = stack, modes' = modes, hist \subseteq hist',
         \A u \in InCharge : tk'[u].saved = tk[u].saved /\ tk[u].valid,
         \A u \in Inst : tk'[u].started /\ tk'[u].valid /\ u \notin InCharge =>
           tk'[u].saved = tk[u].saved /\ tk[u].valid /\ (tk[u].started \/ "flags changed" \in hist)
  PROVE  LevelInv'
<1>1. InCharge' = InCharge /\ \A u \in Inst : (First(u)' <=> First(u)) /\ (Above(u)' <=> Above(u))
  BY SameOrder
<1>2. \A u \in Inst : First(u) \/ Above(u) => u \in InCharge
  BY OrderedInCharge
<1>3. ~Orderly \/ "start failed" \in hist => ~Orderly' \/ "start failed" \in hist'
  BY DEF Orderly
<1>4. ASSUME "flags changed" \notin hist'
      PROVE  /\ InCharge' # {} => "ICANON" \notin modes'
             /\ \A u \in Inst : tk'[u].valid /\ (Above(u)' \/ (tk'[u].started /\ u \notin InCharge')) =>
                  "ICANON" \notin tk'[u].saved
  BY <1>1, <1>2, <1>4 DEF LevelInv
<1>5. ASSUME Orderly', "start failed" \notin hist'
      PROVE  /\ InCharge' = {} => modes' = Settings
             /\ \A u \in Inst : First(u)' => tk'[u].saved = Settings
  BY <1>1, <1>2, <1>3, <1>5 DEF LevelInv
<1>6. QED
  BY <1>4, <1>5 DEF LevelInv

(* A step keeps what the settings are below and above each instance.       *)
LEMMA LevelStep ==
  ASSUME TypeOK, LifeAssumption, CallInv, MemberInv, StackInv, LevelInv, [Next]_vars
  PROVE  LevelInv'
<1>1. ASSUME NEW t \in Inst, NEW fd \in Fds, NEW flags \in FlagSets, termkey_new(t, fd, flags)
      PROVE  LevelInv'
  <2>1. NewEffect(t, fd, flags)
    BY <1>1, NewEffectHolds
  <2>2. stack' = stack /\ modes' = modes /\ hist \subseteq hist' /\ at \notin {"load", "write"}
    BY <2>1 DEF NewEffect
  <2>3. t \notin InCharge
    BY <2>1, InChargeRuns DEF NewEffect, CallInv, MemberInv, MemberOK, StackInv, Saver
  <2>4. \A u \in InCharge : tk'[u] = tk[u] /\ tk[u].valid
    BY <2>1, <2>3, InChargeRuns DEF NewEffect, KeepsOthers
  <2>5. \A u \in Inst : tk'[u].started => tk'[u] = tk[u]
    BY <2>1 DEF NewEffect, KeepsOthers
  <2>6. QED
    BY <2>2, <2>4, <2>5, LevelKept
<1>2. ASSUME NEW t \in Inst, termkey_init_fails(t)
      PROVE  LevelInv'
  <2>1. InitFailsEffect(t)
    BY <1>2, InitFailsEffectHolds
  <2>2. stack' = stack /\ modes' = modes /\ hist \subseteq hist'
    BY <2>1 DEF InitFailsEffect
  <2>3. \A u \in Inst : tk'[u] = tk[u]
    BY <2>1 DEF InitFailsEffect
  <2>4. \A u \in InCharge : u \in Inst /\ tk[u].valid
    BY InChargeRuns
  <2>5. QED
    BY <2>2, <2>3, <2>4, LevelKept
<1>3. ASSUME NEW t \in Inst, termkey_start(t)
      PROVE  LevelInv'
  <2>1. StartEffect(t)
    BY <1>3, StartEffectHolds
  <2>2. stack' = stack /\ modes' = modes /\ hist \subseteq hist'
    BY <2>1 DEF StartEffect
  <2>3. \A u \in Inst : tk'[u] = tk[u]
    BY <2>1 DEF StartEffect
  <2>4. \A u \in InCharge : u \in Inst /\ tk[u].valid
    BY InChargeRuns
  <2>5. QED
    BY <2>2, <2>3, <2>4, LevelKept
<1>4. ASSUME NEW t \in Inst, start_termios(t)
      PROVE  LevelInv'
  <2>1. StartTermiosEffect(t)
    BY <1>4, StartTermiosEffectHolds
  <2>2. t \notin InCharge
    BY <2>1, InChargeRuns DEF StartTermiosEffect, CallInv
  <2>3. \A u \in Inst : u # t => tk'[u] = tk[u]
    BY <2>1 DEF StartTermiosEffect, KeepsOthers
  <2>4. \A u \in InCharge : u \in Inst /\ tk'[u] = tk[u] /\ tk[u].valid
    BY <2>2, <2>3, InChargeRuns
  <2>5. ~tk'[t].started /\ hist' = hist
    BY <2>1 DEF StartTermiosEffect, CallInv
  <2>6. CASE ~Changes(t)
    <3>1. stack' = stack /\ modes' = modes
      BY <2>1, <2>6 DEF StartTermiosEffect
    <3>2. QED
      BY <2>3, <2>4, <2>5, <3>1, LevelKept
  <2>7. CASE Changes(t)
    <3>1. stack' = Append(stack, t) /\ tk'[t].saved = modes /\ modes' = modes \ Cleared(tk[t].flags)
      BY <2>1, <2>7 DEF StartTermiosEffect
    <3>2. /\ InCharge' = InCharge \cup {t}
          /\ \A u \in Inst : First(u)' => First(u) \/ (u = t /\ InCharge = {})
          /\ \A u \in Inst : Above(u)' => Above(u) \/ (u = t /\ InCharge # {})
      BY <3>1, PushOrder
    <3>3. "ICANON" \notin modes'
      BY <3>1 DEF Cleared
    <3>4. ASSUME "flags changed" \notin hist', NEW u \in Inst, tk'[u].valid,
                 Above(u)' \/ (tk'[u].started /\ u \notin InCharge')
          PROVE  "ICANON" \notin tk'[u].saved
      <4>1. CASE u = t
        <5>1. Above(t) => t \in InCharge
          BY StackTyped DEF Above, InCharge
        <5>2. InCharge # {}
          BY <2>2, <2>5, <3>2, <3>4, <4>1, <5>1
        <5>3. QED
          BY <2>5, <3>1, <3>4, <4>1, <5>2 DEF LevelInv
      <4>2. CASE u # t
        BY <2>3, <2>5, <3>2, <3>4, <4>2 DEF LevelInv
      <4>3. QED
        BY <4>1, <4>2
    <3>5. ASSUME Orderly', "start failed" \notin hist', NEW u \in Inst, First(u)'
          PROVE  tk'[u].saved = Settings
      <4>1. Orderly /\ "start failed" \notin hist
        BY <2>5, <3>5 DEF Orderly
      <4>2. CASE u = t
        <5>1. First(t) => t \in InCharge
          BY StackTyped DEF First, InCharge
        <5>2. InCharge = {}
          BY <2>2, <3>2, <3>5, <4>2, <5>1
        <5>3. QED
          BY <3>1, <4>1, <4>2, <5>2 DEF LevelInv
      <4>3. CASE u # t
        BY <2>3, <3>2, <3>5, <4>1, <4>3 DEF LevelInv
      <4>4. QED
        BY <4>2, <4>3
    <3>6. QED
      BY <3>2, <3>3, <3>4, <3>5 DEF LevelInv
  <2>8. QED
    BY <2>6, <2>7
<1>5. ASSUME NEW t \in Inst, load_terminfo(t)
      PROVE  LevelInv'
  <2>1. LoadTerminfoEffect(t)
    BY <1>5, LoadTerminfoEffectHolds
  <2>2. stack' = stack /\ modes' = modes /\ hist \subseteq hist'
    BY <2>1 DEF LoadTerminfoEffect
  <2>3. \A u \in Inst : /\ tk'[u].saved = tk[u].saved /\ tk'[u].valid = tk[u].valid
                        /\ tk'[u].started = tk[u].started
    BY <2>1 DEF LoadTerminfoEffect, KeepsOthers
  <2>4. \A u \in InCharge : u \in Inst /\ tk[u].valid
    BY InChargeRuns
  <2>5. QED
    BY <2>2, <2>3, <2>4, LevelKept
<1>6. ASSUME NEW t \in Inst, start_driver(t)
      PROVE  LevelInv'
  <2>1. StartDriverEffect(t)
    BY <1>6, StartDriverEffectHolds
  <2>2. stack' = stack /\ modes' = modes /\ hist' = hist /\ at = "write" /\ of = t
    BY <2>1 DEF StartDriverEffect
  <2>3. \A u \in Inst : /\ tk'[u].saved = tk[u].saved /\ tk'[u].valid = tk[u].valid
                        /\ (u # t => tk'[u].started = tk[u].started)
    BY <2>1 DEF StartDriverEffect, KeepsOthers
  <2>4. tk[t].valid /\ t \notin InCharge => "flags changed" \in hist
    <3>1. t \notin InCharge => ~Changes(t)
      BY <2>2, StackTyped DEF StackInv, InCharge
    <3>2. QED
      BY <3>1 DEF StackInv, Saver, Changes
  <2>5. \A u \in InCharge : u \in Inst /\ tk[u].valid
    BY InChargeRuns
  <2>6. QED
    BY <2>2, <2>3, <2>4, <2>5, LevelKept
<1>7. ASSUME NEW t \in Inst, start_driver_fails(t)
      PROVE  LevelInv'
  <2>1. StartDriverFailsEffect(t)
    BY <1>7, StartDriverFailsEffectHolds
  <2>2. /\ "start failed" \in hist' /\ hist \subseteq hist' /\ at = "write" /\ of = t /\ ~tk[t].started
        /\ modes' = modes
    BY <2>1 DEF StartDriverFailsEffect, CallInv
  <2>3. stack' = IF Changes(t) THEN SubSeq(stack, 1, Len(stack) - 1) ELSE stack
    BY <2>1 DEF StartDriverFailsEffect
  <2>4. Changes(t) <=> (Len(stack) > 0 /\ stack[Len(stack)] = t)
    BY <2>2 DEF StackInv
  <2>5. \A u \in Inst : u # t => tk'[u] = tk[u]
    BY <2>1 DEF StartDriverFailsEffect, KeepsOthers
  <2>6. ~tk'[t].started
    BY <2>1, <2>2 DEF StartDriverFailsEffect
  <2>7. \A u \in InCharge : u \in Inst /\ tk[u].valid
    BY InChargeRuns
  <2>8. CASE ~Changes(t)
    <3>1. stack' = stack
      BY <2>3, <2>8
    <3>2. \A i \in 1..Len(stack) : stack[i] = t => i = Len(stack)
      BY <2>2 DEF StackInv, RunsInCharge
    <3>3. Len(stack) \in Nat
      BY StackTyped
    <3>4. t \notin InCharge
      BY <2>4, <2>8, <3>2, <3>3 DEF InCharge
    <3>5. \A u \in InCharge : tk'[u] = tk[u]
      BY <2>5, <2>7, <3>4
    <3>6. QED
      BY <2>2, <2>5, <2>6, <2>7, <3>1, <3>5, LevelKept
  <2>9. CASE Changes(t)
    <3>1. Len(stack) \in Nat /\ Len(stack) > 0 /\ stack[Len(stack)] = t
      BY <2>4, <2>9, StackTyped
    <3>2. PICK n \in 0..(Len(stack) - 1) : n = Len(stack) - 1 /\ n + 1 = Len(stack)
      BY <3>1
    <3>3. stack' = SubSeq(stack, 1, n) /\ stack[n + 1] = t
      BY <2>3, <2>9, <3>1, <3>2
    <3>4. /\ InCharge' \subseteq InCharge \ {t} /\ t \in InCharge
          /\ \A u \in Inst : (First(u)' => First(u)) /\ (Above(u)' => Above(u))
      BY <3>3, CutOrder
    <3>5. InCharge' = InCharge \ {t}
      <4>1. \A i \in 1..Len(stack) : i \in 1..n \/ i = n + 1
        BY <3>1, <3>2
      <4>2. InCharge' = {stack[i] : i \in 1..n}
        BY <3>3, CutInCharge
      <4>3. QED
        BY <3>3, <3>4, <4>1, <4>2 DEF InCharge
    <3>6. \A u \in Inst : Above(u)' => u \in InCharge'
      BY DEF Above, InCharge
    <3>7. ASSUME "flags changed" \notin hist', NEW u \in Inst, tk'[u].valid,
                 Above(u)' \/ (tk'[u].started /\ u \notin InCharge')
          PROVE  "ICANON" \notin tk'[u].saved
      <4>1. u # t
        BY <2>6, <3>4, <3>6, <3>7
      <4>2. "flags changed" \notin hist /\ tk'[u] = tk[u]
        BY <2>2, <2>5, <3>7, <4>1
      <4>3. Above(u) \/ (tk[u].started /\ u \notin InCharge)
        BY <3>4, <3>5, <3>7, <4>1, <4>2
      <4>4. QED
        BY <3>7, <4>2, <4>3 DEF LevelInv
    <3>8. "flags changed" \notin hist' /\ InCharge' # {} => "ICANON" \notin modes'
      BY <2>2, <3>4 DEF LevelInv
    <3>9. QED
      BY <2>2, <3>7, <3>8 DEF LevelInv
  <2>10. QED
    BY <2>8, <2>9
<1>8. ASSUME NEW t \in Inst, termkey_stop(t)
      PROVE  LevelInv'
  <2>1. StopEffect(t)
    BY <1>8, StopEffectHolds
  <2>2. stack' = stack /\ modes' = modes /\ hist \subseteq hist'
    BY <2>1 DEF StopEffect
  <2>3. \A u \in Inst : tk'[u] = tk[u]
    BY <2>1 DEF StopEffect
  <2>4. \A u \in InCharge : u \in Inst /\ tk[u].valid
    BY InChargeRuns
  <2>5. QED
    BY <2>2, <2>3, <2>4, LevelKept
<1>9. ASSUME NEW t \in Inst, termkey_destroy(t)
      PROVE  LevelInv'
  <2>1. DestroyEffect(t)
    BY <1>9, DestroyEffectHolds
  <2>2. stack' = stack /\ modes' = modes /\ hist \subseteq hist'
    BY <2>1 DEF DestroyEffect
  <2>3. \A u \in Inst : tk'[u] = tk[u]
    BY <2>1 DEF DestroyEffect
  <2>4. \A u \in InCharge : u \in Inst /\ tk[u].valid
    BY InChargeRuns
  <2>5. QED
    BY <2>2, <2>3, <2>4, LevelKept
<1>10. ASSUME NEW t \in Inst, stop_driver(t)
      PROVE  LevelInv'
  <2>1. StopDriverEffect(t)
    BY <1>10, StopDriverEffectHolds
  <2>2. stack' = stack /\ modes' = modes /\ hist \subseteq hist'
    BY <2>1 DEF StopDriverEffect
  <2>3. \A u \in Inst : tk'[u] = tk[u]
    BY <2>1 DEF StopDriverEffect
  <2>4. \A u \in InCharge : u \in Inst /\ tk[u].valid
    BY InChargeRuns
  <2>5. QED
    BY <2>2, <2>3, <2>4, LevelKept
<1>11. ASSUME NEW t \in Inst, stop_termios(t)
      PROVE  LevelInv'
  <2>1. StopTermiosEffect(t)
    BY <1>11, StopTermiosEffectHolds
  <2>2. hist \subseteq hist' /\ ~tk'[t].started /\ tk[t].started
    BY <2>1 DEF StopTermiosEffect, CallInv
  <2>3. \A u \in Inst : /\ tk'[u].saved = tk[u].saved /\ tk'[u].valid = tk[u].valid
                        /\ (u # t => tk'[u].started = tk[u].started)
    BY <2>1 DEF StopTermiosEffect, KeepsOthers
  <2>4. modes' = IF tk[t].valid THEN tk[t].saved ELSE modes
    BY <2>1 DEF StopTermiosEffect
  <2>5. \A u \in InCharge : u \in Inst /\ tk[u].valid
    BY InChargeRuns
  <2>6. CASE t \in InCharge
    <3>1. Position(t) \in 1..Len(stack) /\ stack[Position(t)] = t /\ Len(stack) \in Nat
      BY <2>6, PositionFound, StackTyped
    <3>2. PICK n \in 0..(Len(stack) - 1) : n = Position(t) - 1 /\ n + 1 = Position(t)
      BY <3>1
    <3>3. stack' = SubSeq(stack, 1, n) /\ stack[n + 1] = t
      BY <2>1, <2>6, <3>1, <3>2 DEF StopTermiosEffect
    <3>4. /\ InCharge' \subseteq InCharge \ {t}
          /\ \A u \in Inst : (First(u)' => First(u)) /\ (Above(u)' => Above(u))
          /\ IF InCharge' = {} THEN First(t) ELSE Above(t)
          /\ \A u \in InCharge : u \in InCharge' \/ u = t \/ Above(u)
      BY <3>3, CutOrder
    <3>5. tk[t].valid /\ modes' = tk[t].saved
      BY <2>4, <2>5, <2>6
    <3>6. ASSUME "flags changed" \notin hist', NEW u \in Inst, tk'[u].valid,
                 Above(u)' \/ (tk'[u].started /\ u \notin InCharge')
          PROVE  "ICANON" \notin tk'[u].saved
      <4>1. "flags changed" \notin hist /\ tk[u].valid /\ tk'[u].saved = tk[u].saved
        BY <2>2, <2>3, <3>6
      <4>2. Above(u) \/ (tk[u].started /\ u \notin InCharge)
        BY <2>2, <2>3, <3>4, <3>6
      <4>3. QED
        BY <4>1, <4>2 DEF LevelInv
    <3>7. "flags changed" \notin hist' /\ InCharge' # {} => "ICANON" \notin modes'
      BY <2>2, <3>4, <3>5 DEF LevelInv
    <3>8. ASSUME Orderly', "start failed" \notin hist'
          PROVE  /\ InCharge' = {} => modes' = Settings
                 /\ \A u \in Inst : First(u)' => tk'[u].saved = Settings
      <4>1. Orderly /\ "start failed" \notin hist
        BY <2>2, <3>8 DEF Orderly
      <4>2. QED
        BY <2>3, <3>4, <3>5, <4>1 DEF LevelInv
    <3>9. QED
      BY <3>6, <3>7, <3>8 DEF LevelInv
  <2>7. CASE t \notin InCharge
    <3>1. stack' = stack
      BY <2>1, <2>7 DEF StopTermiosEffect
    <3>2. CASE ~tk[t].valid
      BY <2>2, <2>3, <2>4, <2>5, <3>1, <3>2, LevelKept
    <3>3. CASE tk[t].valid
      <4>1. ~Orderly'
        <5>1. ~Orderly
          BY <2>2, <2>7, <3>3 DEF StackInv, Saver
        <5>2. QED
          BY <2>2, <5>1 DEF Orderly
      <4>2. InCharge' = InCharge /\ \A u \in Inst : (First(u)' <=> First(u)) /\ (Above(u)' <=> Above(u))
        BY <3>1, SameOrder
      <4>3. "flags changed" \notin hist' => "ICANON" \notin modes'
        BY <2>2, <2>4, <2>7, <3>3 DEF LevelInv
      <4>4. ASSUME "flags changed" \notin hist', NEW u \in Inst, tk'[u].valid,
                   Above(u)' \/ (tk'[u].started /\ u \notin InCharge')
            PROVE  "ICANON" \notin tk'[u].saved
        <5>1. "flags changed" \notin hist /\ tk[u].valid /\ tk'[u].saved = tk[u].saved
          BY <2>2, <2>3, <4>4
        <5>2. Above(u) \/ (tk[u].started /\ u \notin InCharge)
          BY <2>2, <2>3, <4>2, <4>4
        <5>3. QED
          BY <5>1, <5>2 DEF LevelInv
      <4>5. QED
        BY <4>1, <4>3, <4>4 DEF LevelInv
    <3>4. QED
      BY <3>2, <3>3
  <2>8. QED
    BY <2>6, <2>7
<1>12. ASSUME NEW t \in Inst, termkey_free(t)
      PROVE  LevelInv'
  <2>1. FreeEffect(t)
    BY <1>12, FreeEffectHolds
  <2>2. stack' = stack /\ modes' = modes /\ hist \subseteq hist' /\ at \notin {"load", "write"}
    BY <2>1 DEF FreeEffect
  <2>3. t \notin InCharge
    BY <2>1, InChargeRuns DEF FreeEffect, CallInv, MemberInv, MemberOK, StackInv, Saver
  <2>4. \A u \in InCharge : tk'[u] = tk[u] /\ tk[u].valid
    BY <2>1, <2>3, InChargeRuns DEF FreeEffect, KeepsOthers
  <2>5. \A u \in Inst : tk'[u].started => tk'[u] = tk[u]
    BY <2>1 DEF FreeEffect, KeepsOthers
  <2>6. QED
    BY <2>2, <2>4, <2>5, LevelKept
<1>13. ASSUME NEW t \in Inst, NEW flags \in FlagSets, termkey_set_flags(t, flags)
      PROVE  LevelInv'
  <2>1. SetFlagsEffect(t, flags)
    BY <1>13, SetFlagsEffectHolds
  <2>2. stack' = stack /\ modes' = modes /\ hist \subseteq hist'
    BY <2>1 DEF SetFlagsEffect
  <2>3. \A u \in Inst : /\ tk'[u].saved = tk[u].saved /\ tk'[u].valid = tk[u].valid
                        /\ tk'[u].started = tk[u].started
    BY <2>1 DEF SetFlagsEffect, KeepsOthers
  <2>4. \A u \in InCharge : u \in Inst /\ tk[u].valid
    BY InChargeRuns
  <2>5. QED
    BY <2>2, <2>3, <2>4, LevelKept
<1>14. ASSUME NEW t \in Inst, termkey_getkey(t)
      PROVE  LevelInv'
  <2>1. GetkeyEffect(t)
    BY <1>14, GetkeyEffectHolds
  <2>2. stack' = stack /\ modes' = modes /\ hist \subseteq hist'
    BY <2>1 DEF GetkeyEffect
  <2>3. \A u \in Inst : tk'[u] = tk[u]
    BY <2>1 DEF GetkeyEffect
  <2>4. \A u \in InCharge : u \in Inst /\ tk[u].valid
    BY InChargeRuns
  <2>5. QED
    BY <2>2, <2>3, <2>4, LevelKept
<1>15. CASE UNCHANGED vars
  <2>1. stack' = stack /\ modes' = modes /\ tk' = tk /\ hist' = hist
    BY <1>15 DEF vars
  <2>2. \A u \in InCharge : u \in Inst /\ tk[u].valid
    BY InChargeRuns
  <2>3. QED
    BY <2>1, <2>2, LevelKept
<1>16. QED BY <1>1, <1>2, <1>3, <1>4, <1>5, <1>6, <1>7, <1>8, <1>9, <1>10, <1>11, <1>12, <1>13, <1>14, <1>15 DEF Next

(* An instance that switched the keypad on, and is not about to be done.   *)
SwitchedOn(u) == /\ tk[u].started /\ tk[u].fd = "tty" /\ tk[u].strings # Unassigned
                 /\ "stop" \in tk[u].strings /\ ~(at = "stop termios" /\ of = u)

(* A step that leaves the keypad as it is, and whoever switched it on.     *)
LEMMA KeypadKept ==
  ASSUME KeypadInv, keypad' = keypad, hist \subseteq hist',
         \A u \in Inst : SwitchedOn(u) => SwitchedOn(u)'
  PROVE  KeypadInv'
BY DEF KeypadInv, SwitchedOn

(* Strings that were not assigned are there only when terminfo failed.     *)
LEMMA UnsetExcused ==
  ASSUME TypeOK, NEW t \in Inst, MemberOK(t), Unset(t), tk[t].begun, at # "load", ~crashed
  PROVE  "load failed" \in hist
<1>1. tk[t].root \in {"none", "NULL", "trie"}
  BY DEF TypeOK, Members
<1>2. QED
  BY <1>1 DEF MemberOK, Unset, Driven

(* A step keeps the keypad in the mode of an instance that runs, or local. *)
LEMMA KeypadStep ==
  ASSUME TypeOK, LifeAssumption, CallInv, MemberInv, KeypadInv, [Next]_vars
  PROVE  KeypadInv'
<1>1. ASSUME NEW t \in Inst, NEW fd \in Fds, NEW flags \in FlagSets, termkey_new(t, fd, flags)
      PROVE  KeypadInv'
  <2>1. NewEffect(t, fd, flags)
    BY <1>1, NewEffectHolds
  <2>2. keypad' = keypad /\ hist \subseteq hist' /\ at' # "stop termios"
    BY <2>1 DEF NewEffect
  <2>3. \A u \in Inst : SwitchedOn(u) => SwitchedOn(u)'
    <3>1. \A u \in Inst : SwitchedOn(u) => u # t
      BY <2>1 DEF NewEffect, SwitchedOn, MemberInv, MemberOK
    <3>2. \A u \in Inst : u # t => tk'[u] = tk[u]
      BY <2>1 DEF NewEffect, KeepsOthers
    <3>3. QED
      BY <2>2, <3>1, <3>2 DEF SwitchedOn
  <2>4. QED
    BY <2>2, <2>3, KeypadKept
<1>2. ASSUME NEW t \in Inst, termkey_init_fails(t)
      PROVE  KeypadInv'
  <2>1. InitFailsEffect(t)
    BY <1>2, InitFailsEffectHolds
  <2>2. keypad' = keypad /\ hist \subseteq hist' /\ at' # "stop termios"
    BY <2>1 DEF InitFailsEffect
  <2>3. \A u \in Inst : SwitchedOn(u) => SwitchedOn(u)'
    BY <2>1, <2>2 DEF InitFailsEffect, KeepsOthers, SwitchedOn, CallInv, MemberInv, MemberOK
  <2>4. QED
    BY <2>2, <2>3, KeypadKept
<1>3. ASSUME NEW t \in Inst, termkey_start(t)
      PROVE  KeypadInv'
  <2>1. StartEffect(t)
    BY <1>3, StartEffectHolds
  <2>2. keypad' = keypad /\ hist \subseteq hist' /\ at' # "stop termios"
    BY <2>1 DEF StartEffect
  <2>3. \A u \in Inst : SwitchedOn(u) => SwitchedOn(u)'
    BY <2>1, <2>2 DEF StartEffect, KeepsOthers, SwitchedOn, CallInv, MemberInv, MemberOK
  <2>4. QED
    BY <2>2, <2>3, KeypadKept
<1>4. ASSUME NEW t \in Inst, start_termios(t)
      PROVE  KeypadInv'
  <2>1. StartTermiosEffect(t)
    BY <1>4, StartTermiosEffectHolds
  <2>2. keypad' = keypad /\ hist \subseteq hist' /\ at' # "stop termios"
    BY <2>1 DEF StartTermiosEffect
  <2>3. \A u \in Inst : SwitchedOn(u) => SwitchedOn(u)'
    BY <2>1, <2>2 DEF StartTermiosEffect, KeepsOthers, SwitchedOn, CallInv, MemberInv, MemberOK
  <2>4. QED
    BY <2>2, <2>3, KeypadKept
<1>5. ASSUME NEW t \in Inst, load_terminfo(t)
      PROVE  KeypadInv'
  <2>1. LoadTerminfoEffect(t)
    BY <1>5, LoadTerminfoEffectHolds
  <2>2. keypad' = keypad /\ hist \subseteq hist' /\ at' # "stop termios"
    BY <2>1 DEF LoadTerminfoEffect
  <2>3. \A u \in Inst : SwitchedOn(u) => SwitchedOn(u)'
    BY <2>1, <2>2 DEF LoadTerminfoEffect, KeepsOthers, SwitchedOn, CallInv, MemberInv, MemberOK
  <2>4. QED
    BY <2>2, <2>3, KeypadKept
<1>6. ASSUME NEW t \in Inst, start_driver(t)
      PROVE  KeypadInv'
  <2>1. StartDriverEffect(t)
    BY <1>6, StartDriverEffectHolds
  <2>2. /\ ~crashed /\ hist' = hist /\ at = "write" /\ at' = "out" /\ tk[t].begun
        /\ \A u \in Inst : SwitchedOn(u) => SwitchedOn(u)'
    BY <2>1 DEF StartDriverEffect, KeepsOthers, SwitchedOn, CallInv
  <2>3. CASE keypad' = keypad
    BY <2>2, <2>3, KeypadKept
  <2>4. CASE Unset(t)
    <3>1. "load failed" \in hist
      BY <2>2, <2>4, UnsetExcused DEF MemberInv
    <3>2. QED
      BY <2>2, <3>1 DEF KeypadInv, KeypadTroubles
  <2>5. CASE keypad' = "xmit" /\ tk[t].fd = "tty" /\ Writes(t, "start") /\ ~Unset(t)
    <3>1. tk[t].strings # Unassigned /\ "start" \in tk[t].strings
      BY <2>5 DEF Writes, Unset
    <3>2. "stop" \in tk[t].strings \/ "no stop string" \in hist
      BY <3>1 DEF MemberInv, MemberOK
    <3>3. /\ tk'[t].started /\ tk'[t].fd = "tty" /\ tk'[t].strings # Unassigned
          /\ "stop" \in tk'[t].strings \/ "no stop string" \in hist'
      BY <2>1, <2>2, <2>5, <3>1, <3>2 DEF StartDriverEffect
    <3>4. QED
      BY <2>2, <2>5, <3>3 DEF KeypadInv, KeypadTroubles
  <2>6. QED
    BY <2>1, <2>3, <2>4, <2>5 DEF StartDriverEffect
<1>7. ASSUME NEW t \in Inst, start_driver_fails(t)
      PROVE  KeypadInv'
  <2>1. StartDriverFailsEffect(t)
    BY <1>7, StartDriverFailsEffectHolds
  <2>2. "start failed" \in hist'
    BY <2>1 DEF StartDriverFailsEffect
  <2>3. QED
    BY <2>2 DEF KeypadInv, KeypadTroubles
<1>8. ASSUME NEW t \in Inst, termkey_stop(t)
      PROVE  KeypadInv'
  <2>1. StopEffect(t)
    BY <1>8, StopEffectHolds
  <2>2. keypad' = keypad /\ hist \subseteq hist' /\ at' # "stop termios"
    BY <2>1 DEF StopEffect
  <2>3. \A u \in Inst : SwitchedOn(u) => SwitchedOn(u)'
    BY <2>1, <2>2 DEF StopEffect, KeepsOthers, SwitchedOn, CallInv, MemberInv, MemberOK
  <2>4. QED
    BY <2>2, <2>3, KeypadKept
<1>9. ASSUME NEW t \in Inst, termkey_destroy(t)
      PROVE  KeypadInv'
  <2>1. DestroyEffect(t)
    BY <1>9, DestroyEffectHolds
  <2>2. keypad' = keypad /\ hist \subseteq hist' /\ at' # "stop termios"
    BY <2>1 DEF DestroyEffect
  <2>3. \A u \in Inst : SwitchedOn(u) => SwitchedOn(u)'
    BY <2>1, <2>2 DEF DestroyEffect, KeepsOthers, SwitchedOn, CallInv, MemberInv, MemberOK
  <2>4. QED
    BY <2>2, <2>3, KeypadKept
<1>10. ASSUME NEW t \in Inst, stop_driver(t)
      PROVE  KeypadInv'
  <2>1. StopDriverEffect(t)
    BY <1>10, StopDriverEffectHolds
  <2>2. /\ tk' = tk /\ hist \subseteq hist' /\ at = "stop drivers" /\ at' = "stop termios" /\ of' = t
        /\ tk[t].begun /\ ~crashed
    BY <2>1 DEF StopDriverEffect, CallInv
  <2>3. CASE "stop failed" \in hist'
    BY <2>3 DEF KeypadInv, KeypadTroubles
  <2>4. CASE Unset(t)
    <3>1. "load failed" \in hist'
      BY <2>2, <2>4, UnsetExcused DEF MemberInv
    <3>2. QED
      BY <3>1 DEF KeypadInv, KeypadTroubles
  <2>5. CASE keypad' = "local"
    BY <2>5 DEF KeypadInv
  <2>6. CASE /\ keypad' = keypad /\ keypad' # "local" /\ ~Unset(t)
             /\ (tk[t].fd = "tty" /\ Writes(t, "stop") /\ ~Unset(t) => keypad' = "local")
    <3>1. ~(tk[t].fd = "tty" /\ tk[t].strings # Unassigned /\ "stop" \in tk[t].strings)
      BY <2>6 DEF MemberInv, MemberOK, Writes, Unset, Driven
    <3>2. \A u \in Inst : SwitchedOn(u) => SwitchedOn(u)'
      BY <2>2, <3>1 DEF SwitchedOn
    <3>3. QED
      BY <2>2, <2>6, <3>2, KeypadKept
  <2>7. QED
    BY <2>1, <2>3, <2>4, <2>5, <2>6 DEF StopDriverEffect
<1>11. ASSUME NEW t \in Inst, stop_termios(t)
      PROVE  KeypadInv'
  <2>1. StopTermiosEffect(t)
    BY <1>11, StopTermiosEffectHolds
  <2>2. keypad' = keypad /\ hist \subseteq hist' /\ at' # "stop termios" /\ at = "stop termios" /\ of = t
    BY <2>1 DEF StopTermiosEffect
  <2>3. \A u \in Inst : SwitchedOn(u) => SwitchedOn(u)'
    BY <2>1, <2>2 DEF StopTermiosEffect, KeepsOthers, SwitchedOn
  <2>4. QED
    BY <2>2, <2>3, KeypadKept
<1>12. ASSUME NEW t \in Inst, termkey_free(t)
      PROVE  KeypadInv'
  <2>1. FreeEffect(t)
    BY <1>12, FreeEffectHolds
  <2>2. keypad' = keypad /\ hist \subseteq hist' /\ at' # "stop termios"
    BY <2>1 DEF FreeEffect
  <2>3. \A u \in Inst : SwitchedOn(u) => SwitchedOn(u)'
    BY <2>1, <2>2 DEF FreeEffect, KeepsOthers, SwitchedOn, CallInv, MemberInv, MemberOK
  <2>4. QED
    BY <2>2, <2>3, KeypadKept
<1>13. ASSUME NEW t \in Inst, NEW flags \in FlagSets, termkey_set_flags(t, flags)
      PROVE  KeypadInv'
  <2>1. SetFlagsEffect(t, flags)
    BY <1>13, SetFlagsEffectHolds
  <2>2. keypad' = keypad /\ hist \subseteq hist' /\ at' # "stop termios"
    BY <2>1 DEF SetFlagsEffect
  <2>3. \A u \in Inst : SwitchedOn(u) => SwitchedOn(u)'
    <3>1. ASSUME NEW u \in Inst, u # t, SwitchedOn(u) PROVE SwitchedOn(u)'
      BY <2>1, <2>2, <3>1 DEF SetFlagsEffect, KeepsOthers, SwitchedOn
    <3>2. SwitchedOn(t) => SwitchedOn(t)'
      BY <2>1, <2>2 DEF SetFlagsEffect, SwitchedOn
    <3>3. QED
      BY <3>1, <3>2
  <2>4. QED
    BY <2>2, <2>3, KeypadKept
<1>14. ASSUME NEW t \in Inst, termkey_getkey(t)
      PROVE  KeypadInv'
  <2>1. GetkeyEffect(t)
    BY <1>14, GetkeyEffectHolds
  <2>2. keypad' = keypad /\ hist \subseteq hist' /\ at' # "stop termios"
    BY <2>1 DEF GetkeyEffect
  <2>3. \A u \in Inst : SwitchedOn(u) => SwitchedOn(u)'
    BY <2>1, <2>2 DEF GetkeyEffect, KeepsOthers, SwitchedOn, CallInv, MemberInv, MemberOK
  <2>4. QED
    BY <2>2, <2>3, KeypadKept
<1>15. CASE UNCHANGED vars
  <2>1. keypad' = keypad /\ hist \subseteq hist' /\ \A u \in Inst : SwitchedOn(u) => SwitchedOn(u)'
    BY <1>15 DEF vars, SwitchedOn
  <2>2. QED
    BY <2>1, KeypadKept
<1>16. QED BY <1>1, <1>2, <1>3, <1>4, <1>5, <1>6, <1>7, <1>8, <1>9, <1>10, <1>11, <1>12, <1>13, <1>14, <1>15 DEF Next

(* A step crashes for a reason.                                            *)
LEMMA CrashStep ==
  ASSUME TypeOK, LifeAssumption, CallInv, MemberInv, HeapInv, NoCrash, [Next]_vars
  PROVE  NoCrash'
<1>1. ASSUME NEW t \in Inst, NEW fd \in Fds, NEW flags \in FlagSets, termkey_new(t, fd, flags)
      PROVE  NoCrash'
  <2>1. NewEffect(t, fd, flags)
    BY <1>1, NewEffectHolds
  <2>2. crashed' = crashed /\ hist \subseteq hist'
    BY <2>1 DEF NewEffect
  <2>3. QED
    BY <2>2 DEF NoCrash
<1>2. ASSUME NEW t \in Inst, termkey_init_fails(t)
      PROVE  NoCrash'
  <2>1. InitFailsEffect(t)
    BY <1>2, InitFailsEffectHolds
  <2>2. QED
    BY <2>1 DEF InitFailsEffect, NoCrash, CrashTroubles
<1>3. ASSUME NEW t \in Inst, termkey_start(t)
      PROVE  NoCrash'
  <2>1. StartEffect(t)
    BY <1>3, StartEffectHolds
  <2>2. crashed' = crashed /\ hist \subseteq hist'
    BY <2>1 DEF StartEffect
  <2>3. QED
    BY <2>2 DEF NoCrash
<1>4. ASSUME NEW t \in Inst, start_termios(t)
      PROVE  NoCrash'
  <2>1. StartTermiosEffect(t)
    BY <1>4, StartTermiosEffectHolds
  <2>2. crashed' = crashed /\ hist \subseteq hist'
    BY <2>1 DEF StartTermiosEffect
  <2>3. QED
    BY <2>2 DEF NoCrash
<1>5. ASSUME NEW t \in Inst, load_terminfo(t)
      PROVE  NoCrash'
  <2>1. LoadTerminfoEffect(t)
    BY <1>5, LoadTerminfoEffectHolds
  <2>2. crashed' => "unusable keys" \in hist' \/ "no memory" \in hist'
    BY <2>1 DEF LoadTerminfoEffect
  <2>3. QED
    BY <2>2 DEF NoCrash, CrashTroubles
<1>6. ASSUME NEW t \in Inst, start_driver(t)
      PROVE  NoCrash'
  <2>1. StartDriverEffect(t)
    BY <1>6, StartDriverEffectHolds
  <2>2. hist \subseteq hist' /\ ~crashed /\ at # "load" /\ tk[t].begun /\ (crashed' => Unset(t))
    BY <2>1 DEF StartDriverEffect, CallInv
  <2>3. QED
    BY <2>2, UnsetExcused DEF NoCrash, CrashTroubles, MemberInv
<1>7. ASSUME NEW t \in Inst, start_driver_fails(t)
      PROVE  NoCrash'
  <2>1. StartDriverFailsEffect(t)
    BY <1>7, StartDriverFailsEffectHolds
  <2>2. crashed' = crashed /\ hist \subseteq hist'
    BY <2>1 DEF StartDriverFailsEffect
  <2>3. QED
    BY <2>2 DEF NoCrash
<1>8. ASSUME NEW t \in Inst, termkey_stop(t)
      PROVE  NoCrash'
  <2>1. StopEffect(t)
    BY <1>8, StopEffectHolds
  <2>2. crashed' = crashed /\ hist \subseteq hist'
    BY <2>1 DEF StopEffect
  <2>3. QED
    BY <2>2 DEF NoCrash
<1>9. ASSUME NEW t \in Inst, termkey_destroy(t)
      PROVE  NoCrash'
  <2>1. DestroyEffect(t)
    BY <1>9, DestroyEffectHolds
  <2>2. crashed' = crashed /\ hist \subseteq hist'
    BY <2>1 DEF DestroyEffect
  <2>3. QED
    BY <2>2 DEF NoCrash
<1>10. ASSUME NEW t \in Inst, stop_driver(t)
      PROVE  NoCrash'
  <2>1. StopDriverEffect(t)
    BY <1>10, StopDriverEffectHolds
  <2>2. hist \subseteq hist' /\ ~crashed /\ at # "load" /\ tk[t].begun /\ (crashed' => Unset(t))
    BY <2>1 DEF StopDriverEffect, CallInv
  <2>3. QED
    BY <2>2, UnsetExcused DEF NoCrash, CrashTroubles, MemberInv
<1>11. ASSUME NEW t \in Inst, stop_termios(t)
      PROVE  NoCrash'
  <2>1. StopTermiosEffect(t)
    BY <1>11, StopTermiosEffectHolds
  <2>2. crashed' = crashed /\ hist \subseteq hist'
    BY <2>1 DEF StopTermiosEffect
  <2>3. QED
    BY <2>2 DEF NoCrash
<1>12. ASSUME NEW t \in Inst, termkey_free(t)
      PROVE  NoCrash'
  <2>1. FreeEffect(t)
    BY <1>12, FreeEffectHolds
  <2>2. /\ ~crashed /\ at = "free" /\ hist' = hist /\ Live(t) /\ (tk[t].begun \/ "never started" \in hist)
        /\ crashed' => \/ tk[t].root = "NULL" \/ (tk[t].root = "trie" /\ tk[t].strings = Unassigned)
                       \/ ~(Frees(t) \subseteq heap[t])
    BY <2>1 DEF FreeEffect, CallInv
  <2>3. MemberOK(t) /\ OwnsRight(t) /\ tk[t].root \in {"none", "NULL", "trie"}
    BY DEF MemberInv, HeapInv, TypeOK, Members
  <2>4. CASE tk[t].root = "NULL"
    BY <2>2, <2>3, <2>4 DEF MemberOK, NoCrash, CrashTroubles
  <2>5. CASE tk[t].root = "trie" /\ tk[t].strings = Unassigned
    BY <2>2, <2>3, <2>5 DEF MemberOK, NoCrash, CrashTroubles
  <2>6. CASE tk[t].root = "none" \/ (tk[t].root = "trie" /\ tk[t].strings # Unassigned)
    <3>1. heap[t] = Owned(t) \cup (IF Csi \subseteq heap[t] THEN Csi ELSE {})
      BY <2>2, <2>3 DEF OwnsRight
    <3>2. Own \cup (IF tk[t].root = "none" THEN {}
                    ELSE Ti \cup {"trie"} \cup (tk[t].strings \cap Strings))
            \subseteq Owned(t)
      BY <2>6 DEF Owned
    <3>3. Frees(t) \subseteq heap[t]
      BY <3>1, <3>2 DEF Frees
    <3>4. QED
      BY <2>2, <2>6, <3>3 DEF NoCrash
  <2>7. QED
    BY <2>3, <2>4, <2>5, <2>6
<1>13. ASSUME NEW t \in Inst, NEW flags \in FlagSets, termkey_set_flags(t, flags)
      PROVE  NoCrash'
  <2>1. SetFlagsEffect(t, flags)
    BY <1>13, SetFlagsEffectHolds
  <2>2. crashed' = crashed /\ hist \subseteq hist'
    BY <2>1 DEF SetFlagsEffect
  <2>3. QED
    BY <2>2 DEF NoCrash
<1>14. ASSUME NEW t \in Inst, termkey_getkey(t)
      PROVE  NoCrash'
  <2>1. GetkeyEffect(t)
    BY <1>14, GetkeyEffectHolds
  <2>2. ~crashed /\ at = "out" /\ tk[t].started /\ hist' = hist /\ (crashed' => tk[t].root = "NULL")
    BY <2>1 DEF GetkeyEffect
  <2>3. MemberOK(t)
    BY DEF MemberInv
  <2>4. QED
    BY <2>2, <2>3 DEF NoCrash, CrashTroubles, MemberOK
<1>15. CASE UNCHANGED vars
  BY <1>15 DEF vars, NoCrash
<1>16. QED BY <1>1, <1>2, <1>3, <1>4, <1>5, <1>6, <1>7, <1>8, <1>9, <1>10, <1>11, <1>12, <1>13, <1>14, <1>15 DEF Next

(* The invariant is inductive.                                             *)
LEMMA IInvStep == LifeAssumption /\ IInv /\ [Next]_vars => IInv'
BY TypeStep, CallStep, MemberStep, HeapStep, StackStep, LevelStep, KeypadStep, CrashStep DEF IInv

(* The invariant holds initially.                                          *)
LEMMA IInvInit == LifeAssumption /\ Init => IInv
<1> SUFFICES ASSUME LifeAssumption, Init PROVE IInv
  OBVIOUS
<1>1. /\ tk = [t \in Inst |-> termkey_alloc] /\ heap = [t \in Inst |-> {}] /\ leaked = FALSE
      /\ modes = Settings /\ keypad = "local" /\ at = "out" /\ of = None /\ by = "none"
      /\ stack = <<>> /\ hist = {} /\ crashed = FALSE
  BY DEF Init
<1>2. TypeOK
  <2>1. tk \in [Inst -> Members] /\ heap \in [Inst -> SUBSET Parts]
    BY <1>1, AllocIsMembers
  <2>2. <<>> \in Seq(Inst)
    OBVIOUS
  <2>3. /\ modes \in SUBSET Settings /\ keypad \in {"local", "xmit", "torn"} /\ leaked \in BOOLEAN
        /\ at \in {"out", "termios", "load", "write", "stop drivers", "stop termios", "free"}
        /\ of \in Inst \cup {None} /\ by \in {"none", "new", "start", "stop", "destroy"}
        /\ hist \in SUBSET Events /\ crashed \in BOOLEAN
    BY <1>1
  <2>4. QED
    BY <1>1, <2>1, <2>2, <2>3 DEF TypeOK
<1>3. \A t \in Inst : /\ ~tk[t].started /\ ~tk[t].valid /\ tk[t].strings = Unassigned /\ tk[t].root = "none"
                      /\ ~Live(t) /\ heap[t] = {}
  BY <1>1 DEF termkey_alloc, Instance, Live
<1>4. CallInv /\ MemberInv
  BY <1>1, <1>3 DEF CallInv, MemberInv, MemberOK
<1>5. HeapInv /\ NoCrash /\ KeypadInv
  BY <1>1, <1>3 DEF HeapInv, OwnsRight, NothingLeaked, LeakTroubles, NoCrash, KeypadInv
<1>6. Len(stack) = 0 /\ InCharge = {}
  BY <1>1 DEF InCharge
<1>7. StackInv
  BY <1>1, <1>3, <1>6 DEF StackInv, Saver
<1>8. LevelInv
  BY <1>1, <1>3, <1>6 DEF LevelInv, First, Above
<1>9. QED
  BY <1>2, <1>4, <1>5, <1>7, <1>8 DEF IInv

(* The invariant holds in every state.                                     *)
LEMMA IInvAlways == Spec => []IInv
<1>1. Init => IInv
  BY IInvInit, LifeAssumption
<1>2. IInv /\ [Next]_vars => IInv'
  BY IInvStep, LifeAssumption
<1>3. QED
  BY <1>1, <1>2, PTL DEF Spec

(* Every variable stays in its type.                                       *)
THEOREM TypeCorrect == Spec => []TypeOK
<1>1. IInv => TypeOK
  BY DEF IInv
<1>2. QED BY <1>1, IInvAlways, PTL

(* The terminal is restored once no instance runs: the first in charge     *)
(* saved the settings of before, and is the last to give up its charge.    *)
THEOREM RestoresTerminal == Spec => []TerminalRestored
<1>1. IInv => TerminalRestored
  <2>1. SUFFICES ASSUME IInv, at = "out", \A t \in Inst : ~tk[t].started
                 PROVE  /\ Orderly /\ "start failed" \notin hist => modes = Settings
                        /\ hist \cap KeypadTroubles = {} => keypad = "local"
    BY DEF TerminalRestored
  <2>2. InCharge = {}
    BY <2>1, InChargeRuns DEF IInv
  <2>3. Orderly /\ "start failed" \notin hist => modes = Settings
    BY <2>1, <2>2 DEF IInv, LevelInv
  <2>4. hist \cap KeypadTroubles = {} => keypad = "local"
    BY <2>1 DEF IInv, TypeOK, KeypadInv
  <2>5. QED
    BY <2>3, <2>4
<1>2. QED BY <1>1, IInvAlways, PTL

(* Whoever is in charge of the settings finds the terminal raw.            *)
THEOREM StaysRaw == Spec => []RawWhileStarted
<1>1. IInv => RawWhileStarted
  BY DEF IInv, LevelInv, RawWhileStarted
<1>2. QED BY <1>1, IInvAlways, PTL

(* All the memory of an instance is freed with it.                         *)
THEOREM FreesAll == Spec => []NothingLeaked
<1>1. IInv => NothingLeaked
  BY DEF IInv, HeapInv
<1>2. QED BY <1>1, IInvAlways, PTL

(* No sequence of calls on any number of instances crashes, but for the    *)
(* reasons NoCrash names.                                                  *)
THEOREM CrashesOnlyForCause == Spec => []NoCrash
<1>1. IInv => NoCrash
  BY DEF IInv
<1>2. QED BY <1>1, IInvAlways, PTL

-----------------------------------------------------------------------------
(* Waiting for a key (TermKeyWait).  The look that is content to wait for  *)
(* more bytes, and the forced one.                                         *)
Early(str, closed) == peekkey(str, FALSE, closed)
Late(str, closed) == peekkey(str, TRUE, closed)

KeyWithin(look, str) ==
  look.res = "KEY" => look.n \in 1 .. Len(str) /\ look.keep \in 0 .. Len(str) - look.n

LEMMA AnswersWithin ==
  ASSUME NEW S, NEW str \in Seq(S), NEW force \in BOOLEAN, NEW look,
         Answers(look, 0, Len(str), force)
  PROVE  KeyWithin(look, str) /\ look.res \in {"KEY", "AGAIN"}
         /\ (On(force) => look.res # "AGAIN")
<1>1. Len(str) \in Nat
  BY LenProperties
<1>2. CASE look = Again /\ ~force
  BY <1>2 DEF Again, KeyWithin, On
<1>3. CASE \E key : \E n \in 1 .. Len(str) - 0 : \E keep \in 0 .. Len(str) - 0 - n :
             \E alt \in 0 .. 0 + n - 1 : \E driver \in BOOLEAN :
               look = [res |-> "KEY", key |-> key, n |-> n, keep |-> keep,
                       alt |-> alt, driver |-> driver]
  BY <1>1, <1>3 DEF KeyWithin
<1> QED
  BY <1>2, <1>3 DEF Answers

LEMMA EmptyLook ==
  ASSUME NEW S, NEW force, NEW closed
  PROVE  /\ peekkey(<<>>, force, closed).res \in {"NONE", "EOF"}
         /\ peekkey(<<>>, force, closed).res = "EOF" => On(closed)
<1>1. <<>> \in Seq(S) /\ Len(<<>>) = 0
  BY EmptySeq
<1>2. PICK looks : Looks(<<>>, force, closed, looks) /\ peekkey(<<>>, force, closed) = looks[0]
  BY <1>1, PeekkeyLooks
<1>3. looks[0] = AtPlace(<<>>, force, closed, 0, looks[0 + 1])
  BY <1>1, <1>2 DEF Looks
<1>4. Rest(<<>>, 0) = <<>>
  <2>1. 0 \in 0 .. Len(<<>>) /\ 0 = Len(<<>>)
    BY <1>1
  <2> QED
    BY <1>1, <2>1, RestIs
<1>5. looks[0] = IF closed THEN [res |-> "EOF"] ELSE NoKey
  BY <1>3, <1>4 DEF AtPlace
<1> QED
  BY <1>2, <1>5 DEF NoKey, On

LEMMA EarlyLook ==
  ASSUME NEW S, NEW str \in Seq(S), NEW closed
  PROVE  /\ str = <<>> => Early(str, closed).res \in {"NONE", "EOF"}
         /\ str # <<>> => Early(str, closed).res \in {"KEY", "AGAIN"}
         /\ KeyWithin(Early(str, closed), str)
         /\ Early(str, closed).res = "EOF" => On(closed)
<1>1. PICK no \in BOOLEAN : Early(str, closed) = peekkey(str, no, closed)
  BY Zenon DEF Early
<1>2. CASE str = <<>>
  <2>1. /\ Early(str, closed).res \in {"NONE", "EOF"}
        /\ Early(str, closed).res = "EOF" => On(closed)
    BY <1>1, <1>2, EmptyLook
  <2> QED
    BY <1>2, <2>1 DEF KeyWithin
<1>3. CASE str # <<>>
  <2>1. Answers(Early(str, closed), 0, Len(str), no)
    BY <1>1, <1>3, PeekkeyAnswers
  <2>2. KeyWithin(Early(str, closed), str) /\ Early(str, closed).res \in {"KEY", "AGAIN"}
    BY <2>1, AnswersWithin
  <2> QED
    BY <1>3, <2>2
<1> QED
  BY <1>2, <1>3

LEMMA LateLook ==
  ASSUME NEW S, NEW str \in Seq(S), NEW closed
  PROVE  /\ str = <<>> => Late(str, closed).res \in {"NONE", "EOF"}
         /\ str # <<>> => Late(str, closed).res = "KEY"
         /\ KeyWithin(Late(str, closed), str)
<1>1. PICK yes \in BOOLEAN : On(yes) /\ Late(str, closed) = peekkey(str, yes, closed)
  BY Zenon DEF Late, On
<1>2. CASE str = <<>>
  <2>1. Late(str, closed).res \in {"NONE", "EOF"}
    BY <1>1, <1>2, EmptyLook
  <2> QED
    BY <1>2, <2>1 DEF KeyWithin
<1>3. CASE str # <<>>
  <2>1. Answers(Late(str, closed), 0, Len(str), yes)
    BY <1>1, <1>3, PeekkeyAnswers
  <2>2. /\ KeyWithin(Late(str, closed), str) /\ Late(str, closed).res \in {"KEY", "AGAIN"}
        /\ On(yes) => Late(str, closed).res # "AGAIN"
    BY <2>1, AnswersWithin
  <2> QED
    BY <1>1, <1>3, <2>2
<1> QED
  BY <1>2, <1>3

(* A key that is found without force is found whatever follows it, and a   *)
(* look that waits for more waits whether or not the end has come.         *)
LEMMA EarlyStable ==
  ASSUME NEW Byte, OneDriver(Byte), NEW str \in Seq(Byte), NEW all \in Seq(Byte),
         Continues(all, str), NEW c1, NEW c2, Early(str, c1).res = "KEY"
  PROVE  Early(all, c2) = Early(str, c1)
<1>1. PICK no \in BOOLEAN :
        ~On(no) /\ Early(str, c1) = peekkey(str, no, c1) /\ Early(all, c2) = peekkey(all, no, c2)
  BY Zenon DEF Early, On
<1>2. peekkey(str, no, c1).res = "KEY"
  BY <1>1
<1>3. peekkey(all, no, c2) = peekkey(str, no, c1)
  BY <1>1, <1>2, PeekkeyStable
<1> QED
  BY <1>1, <1>3

LEMMA EarlyAgain ==
  ASSUME NEW Byte, OneDriver(Byte), NEW str \in Seq(Byte), NEW c1, NEW c2,
         Early(str, c1).res = "AGAIN"
  PROVE  str # <<>> /\ Early(str, c2).res = "AGAIN"
<1>1. str # <<>>
  BY EarlyLook
<1>2. Continues(str, str)
  BY LenProperties DEF Continues
<1>3. Early(str, c2).res # "KEY"
  <2>1. Early(str, c2).res = "KEY" => Early(str, c1) = Early(str, c2)
    BY <1>2, EarlyStable
  <2> QED
    BY <2>1
<1>4. Early(str, c2).res \in {"KEY", "AGAIN"}
  BY <1>1, EarlyLook
<1> QED
  BY <1>1, <1>3, <1>4

LEMMA EarlyForced ==
  ASSUME NEW S, NEW str \in Seq(S), NEW closed, NoMetaStrings, Early(str, closed).res = "AGAIN"
  PROVE  KeptBy(Late(str, closed)) = 0
<1>1. str # <<>>
  BY EarlyLook
<1>2. PICK no \in BOOLEAN, yes \in BOOLEAN :
        /\ On(yes) /\ Early(str, closed) = peekkey(str, no, closed)
        /\ Late(str, closed) = peekkey(str, yes, closed)
  BY Zenon DEF Early, Late, On
<1>3. peekkey(str, no, closed).res = "AGAIN"
  BY <1>2
<1>4. peekkey(str, yes, closed).keep = 0
  BY <1>1, <1>2, <1>3, PeekkeyForced
<1> QED
  BY <1>2, <1>4 DEF KeptBy
-----------------------------------------------------------------------------
(* The bytes on their way: undecoded ones, those that can be read, those   *)
(* still coming.                                                           *)
LEMMA JoinReads ==
  ASSUME NEW Byte, NEW a \in Seq(Byte), NEW b \in Seq(Byte)
  PROVE  /\ a \o b \in Seq(Byte) /\ Len(a \o b) = Len(a) + Len(b)
         /\ \A i \in 1 .. Len(a) : (a \o b)[i] = a[i]
         /\ \A i \in Len(a) + 1 .. Len(a) + Len(b) : (a \o b)[i] = b[i - Len(a)]
OBVIOUS

(* Two ways to split a sequence in two.                                    *)
SplitsAs(a, b, k, t) ==
  /\ Len(k) <= Len(a) => Continues(a, k) /\ Rest(a, Len(k)) \o b = t
  /\ Len(a) <= Len(k) => a = SubSeq(k, 1, Len(a))

LEMMA SplitTwice ==
  ASSUME NEW Byte, NEW a \in Seq(Byte), NEW b \in Seq(Byte),
         NEW k \in Seq(Byte), NEW t \in Seq(Byte), a \o b = k \o t
  PROVE  SplitsAs(a, b, k, t)
<1>1. Len(a) \in Nat /\ Len(b) \in Nat /\ Len(k) \in Nat /\ Len(t) \in Nat
  BY LenProperties
<1>2. Len(a) + Len(b) = Len(k) + Len(t)
  <2>1. Len(a \o b) = Len(a) + Len(b) /\ Len(k \o t) = Len(k) + Len(t)
    BY JoinReads
  <2> QED
    BY <2>1
<1>3. \A i \in 1 .. Len(a) : i <= Len(k) => a[i] = k[i]
  <2> SUFFICES ASSUME NEW i \in 1 .. Len(a), i <= Len(k) PROVE a[i] = k[i]
    OBVIOUS
  <2>1. (a \o b)[i] = a[i]
    BY JoinReads
  <2>2. i \in 1 .. Len(k)
    BY <1>1
  <2>3. (k \o t)[i] = k[i]
    BY <2>2, JoinReads
  <2> QED
    BY <2>1, <2>3
<1>4. ASSUME Len(k) <= Len(a)
      PROVE  Continues(a, k) /\ Rest(a, Len(k)) \o b = t
  <2>1. Continues(a, k)
    BY <1>1, <1>3, <1>4, LenProperties DEF Continues
  <2>2. PICK n \in 0 .. Len(a) : n = Len(k)
    BY <1>1, <1>4
  <2>3. PICK r : r = Rest(a, n)
    OBVIOUS
  <2>4. /\ r \in Seq(Byte) /\ Len(r) = Len(a) - n
        /\ \A i \in 1 .. Len(a) - n : r[i] = a[n + i]
    BY <2>3, RestIs
  <2>5. /\ r \o b \in Seq(Byte) /\ Len(r \o b) = Len(r) + Len(b)
        /\ \A i \in 1 .. Len(r) : (r \o b)[i] = r[i]
        /\ \A i \in Len(r) + 1 .. Len(r) + Len(b) : (r \o b)[i] = b[i - Len(r)]
    BY <2>4, JoinReads
  <2>6. Len(r \o b) = Len(t)
    BY <1>1, <1>2, <2>2, <2>4, <2>5
  <2>7. \A i \in 1 .. Len(t) : (r \o b)[i] = t[i]
    <3> SUFFICES ASSUME NEW i \in 1 .. Len(t) PROVE (r \o b)[i] = t[i]
      OBVIOUS
    <3>1. i + n \in Len(k) + 1 .. Len(k) + Len(t) /\ (i + n) - Len(k) = i
      BY <1>1, <2>2
    <3>2. (k \o t)[i + n] = t[i]
      BY <3>1, JoinReads
    <3>3. CASE i <= Len(r)
      <4>1. i \in 1 .. Len(r) /\ i \in 1 .. Len(a) - n /\ n + i = i + n /\ i + n \in 1 .. Len(a)
        BY <1>1, <2>2, <2>4, <3>3
      <4>2. (r \o b)[i] = a[i + n]
        BY <2>4, <2>5, <4>1
      <4>3. (a \o b)[i + n] = a[i + n]
        BY <4>1, JoinReads
      <4> QED
        BY <3>2, <4>2, <4>3
    <3>4. CASE ~(i <= Len(r))
      <4>1. /\ i \in Len(r) + 1 .. Len(r) + Len(b) /\ i + n \in Len(a) + 1 .. Len(a) + Len(b)
            /\ (i + n) - Len(a) = i - Len(r)
        BY <1>1, <1>2, <2>2, <2>4, <3>4
      <4>2. (r \o b)[i] = b[i - Len(r)]
        BY <2>5, <4>1
      <4>3. PICK j \in Len(a) + 1 .. Len(a) + Len(b) : j = i + n
        BY <4>1
      <4>4. (a \o b)[j] = b[j - Len(a)]
        BY JoinReads
      <4> QED
        BY <3>2, <4>1, <4>2, <4>3, <4>4
    <3> QED
      BY <3>3, <3>4
  <2>8. r \o b = t
    BY <2>5, <2>6, <2>7, SeqEqual
  <2> QED
    BY <2>1, <2>2, <2>3, <2>8
<1>5. ASSUME Len(a) <= Len(k)
      PROVE  a = SubSeq(k, 1, Len(a))
  <2>1. \A i \in 1 .. Len(a) : k[i] \in Byte
    BY <1>1, <1>5, ElementOfSeq
  <2>2. PICK n \in Nat : n = Len(a)
    BY <1>1
  <2>3. PICK s : s = SubSeq(k, 1, n)
    OBVIOUS
  <2>4. s \in Seq(Byte) /\ Len(s) = n /\ \A i \in 1 .. n : s[i] = k[i]
    BY <1>1, <1>5, <2>1, <2>2, <2>3, SubSeqProperties
  <2>5. \A i \in 1 .. Len(a) : a[i] = s[i]
    BY <1>1, <1>3, <1>5, <2>2, <2>4
  <2>6. a = s
    BY <2>2, <2>4, <2>5, SeqEqual
  <2> QED
    BY <2>2, <2>3, <2>6
<1> QED
  BY <1>4, <1>5 DEF SplitsAs

(* Bytes that are taken from the front of one sequence to the end of       *)
(* another.                                                                *)
LEMMA MovesOver ==
  ASSUME NEW Byte, NEW a \in Seq(Byte), NEW b \in Seq(Byte), NEW n \in 0 .. Len(b)
  PROVE  /\ SubSeq(b, 1, n) \in Seq(Byte) /\ Rest(b, n) \in Seq(Byte)
         /\ (a \o SubSeq(b, 1, n)) \o Rest(b, n) = a \o b
<1>1. Len(b) \in Nat
  BY LenProperties
<1>2. \A i \in 1 .. n : b[i] \in Byte
  BY <1>1, ElementOfSeq
<1>3. PICK f : f = SubSeq(b, 1, n)
  OBVIOUS
<1>4. f \in Seq(Byte) /\ Len(f) = n /\ \A i \in 1 .. n : f[i] = b[i]
  BY <1>1, <1>2, <1>3, SubSeqProperties
<1>5. PICK r : r = Rest(b, n)
  OBVIOUS
<1>6. r \in Seq(Byte) /\ Len(r) = Len(b) - n /\ \A i \in 1 .. Len(b) - n : r[i] = b[n + i]
  BY <1>5, RestIs
<1>7. /\ f \o r \in Seq(Byte) /\ Len(f \o r) = Len(f) + Len(r)
      /\ \A i \in 1 .. Len(f) : (f \o r)[i] = f[i]
      /\ \A i \in Len(f) + 1 .. Len(f) + Len(r) : (f \o r)[i] = r[i - Len(f)]
  BY <1>4, <1>6, JoinReads
<1>8. Len(f \o r) = Len(b)
  BY <1>1, <1>4, <1>6, <1>7
<1>9. \A i \in 1 .. Len(b) : (f \o r)[i] = b[i]
  <2> SUFFICES ASSUME NEW i \in 1 .. Len(b) PROVE (f \o r)[i] = b[i]
    OBVIOUS
  <2>1. CASE i <= n
    BY <1>1, <1>4, <1>7, <2>1
  <2>2. CASE ~(i <= n)
    <3>1. i \in Len(f) + 1 .. Len(f) + Len(r) /\ i - Len(f) \in 1 .. Len(b) - n
          /\ n + (i - Len(f)) = i
      BY <1>1, <1>4, <1>6, <2>2
    <3> QED
      BY <1>6, <1>7, <3>1
  <2> QED
    BY <2>1, <2>2
<1>10. f \o r = b
  BY <1>7, <1>8, <1>9, SeqEqual
<1>11. (a \o f) \o r = a \o (f \o r)
  <2>1. f \in Seq(Byte) /\ r \in Seq(Byte)
    BY <1>4, <1>6
  <2> QED
    BY ONLY <2>1, a \in Seq(Byte), ConcatAssociative
<1> QED
  BY <1>3, <1>4, <1>5, <1>6, <1>10, <1>11

LEMMA ReadsMore ==
  ASSUME NEW Byte, NEW p \in Seq(Byte), NEW h \in 0 .. Len(p), NEW b \in Seq(Byte)
  PROVE  p \o b \in Seq(Byte) /\ h \in 0 .. Len(p \o b) /\ Rest(p \o b, h) = Rest(p, h) \o b
<1>1. Len(p) \in Nat /\ Len(b) \in Nat
  BY LenProperties
<1>2. /\ p \o b \in Seq(Byte) /\ Len(p \o b) = Len(p) + Len(b)
      /\ \A i \in 1 .. Len(p) : (p \o b)[i] = p[i]
      /\ \A i \in Len(p) + 1 .. Len(p) + Len(b) : (p \o b)[i] = b[i - Len(p)]
  BY JoinReads
<1>3. h \in 0 .. Len(p \o b)
  BY <1>1, <1>2
<1>4. PICK pb, l : pb \in Seq(Byte) /\ pb = p \o b /\ l = Rest(pb, h)
  BY <1>2
<1>5. /\ l \in Seq(Byte) /\ Len(l) = Len(p \o b) - h
      /\ \A i \in 1 .. Len(p \o b) - h : l[i] = (p \o b)[h + i]
  <2>1. PICK k \in 0 .. Len(pb) : k = h
    BY <1>3, <1>4
  <2>2. /\ Rest(pb, k) \in Seq(Byte) /\ Len(Rest(pb, k)) = Len(pb) - k
        /\ \A i \in 1 .. Len(pb) - k : Rest(pb, k)[i] = pb[k + i]
    <3>1. pb \in Seq(Byte) /\ k \in 0 .. Len(pb)
      BY <1>4, <2>1
    <3> QED
      BY ONLY <3>1, RestIs
  <2> QED
    BY <1>4, <2>1, <2>2
<1>6. PICK r : r = Rest(p, h)
  OBVIOUS
<1>7. r \in Seq(Byte) /\ Len(r) = Len(p) - h /\ \A i \in 1 .. Len(p) - h : r[i] = p[h + i]
  BY <1>6, RestIs
<1>8. /\ r \o b \in Seq(Byte) /\ Len(r \o b) = Len(r) + Len(b)
      /\ \A i \in 1 .. Len(r) : (r \o b)[i] = r[i]
      /\ \A i \in Len(r) + 1 .. Len(r) + Len(b) : (r \o b)[i] = b[i - Len(r)]
  BY <1>7, JoinReads
<1>9. Len(l) = Len(r \o b)
  BY <1>1, <1>2, <1>5, <1>7, <1>8
<1>10. \A i \in 1 .. Len(l) : l[i] = (r \o b)[i]
  <2> SUFFICES ASSUME NEW i \in 1 .. Len(l) PROVE l[i] = (r \o b)[i]
    OBVIOUS
  <2>1. l[i] = (p \o b)[h + i]
    BY <1>5
  <2>2. CASE i <= Len(p) - h
    <3>1. i \in 1 .. Len(p) - h /\ h + i \in 1 .. Len(p)
      BY <1>1, <1>5, <2>2
    <3> QED
      BY <1>2, <1>7, <1>8, <2>1, <3>1
  <2>3. CASE ~(i <= Len(p) - h)
    <3>1. /\ i \in Len(r) + 1 .. Len(r) + Len(b) /\ h + i \in Len(p) + 1 .. Len(p) + Len(b)
          /\ (h + i) - Len(p) = i - Len(r)
      BY <1>1, <1>2, <1>5, <1>7, <2>3
    <3> QED
      BY <1>2, <1>8, <2>1, <3>1
  <2> QED
    BY <2>2, <2>3
<1>11. l = r \o b
  BY <1>5, <1>8, <1>9, <1>10, SeqEqual
<1> QED
  BY <1>2, <1>3, <1>4, <1>6, <1>11

-----------------------------------------------------------------------------
(* What holds of the bytes and of the end of the file: after a hangup      *)
(* nothing is coming any more, libtermkey knows the end only once it has   *)
(* read everything before it; it blocks in a read with nothing pending,    *)
(* and waits for more, or forces a key, only when there are bytes of one.  *)
Octets == 0 .. 255
Keys == {Keystrokes[k] : k \in DOMAIN Keystrokes}

LEMMA KeystrokeBytes == \A k \in DOMAIN Keystrokes : k \in Seq(Octets) /\ k # <<>>
BY WaitAssumption DEF Octets

WaitTypes ==
  /\ coming \in Seq(Octets) /\ wire \in Seq(Octets) /\ pending \in Seq(Octets)
  /\ hightide \in 0 .. Len(pending) /\ owed \in Seq(Keys)
  /\ hung \in BOOLEAN /\ is_closed \in BOOLEAN /\ cut \in BOOLEAN
  /\ pc \in {"out", "getkey", "force", "read", "poll"}

EndInv ==
  /\ hung => coming = <<>>
  /\ cut => hung
  /\ is_closed => hung /\ wire = <<>>
  /\ pc = "read" => pending = <<>> /\ hightide = 0
  /\ pc \in {"poll", "force"} => Undecoded # <<>>

WaitInv == WaitTypes /\ EndInv

LEMMA UndecodedBytes ==
  ASSUME WaitTypes
  PROVE  Undecoded \in Seq(Octets) /\ Len(Undecoded) = Len(pending) - hightide
<1>1. pending \in Seq(Octets) /\ hightide \in 0 .. Len(pending)
  BY DEF WaitTypes
<1> QED
  BY <1>1, RestIs DEF Undecoded

(* Bytes that are kept before the rest are all there is of it.             *)
LEMMA DropsAll ==
  ASSUME WaitTypes, Undecoded = <<>>, Drops
  PROVE  pending' = <<>> /\ hightide' = 0
BY DEF Drops

(* A key is taken: what is left are the bytes behind it and behind those   *)
(* it keeps.                                                               *)
LEMMA TakesFrom ==
  ASSUME WaitTypes, NEW look, look.res = "KEY", KeyWithin(look, Undecoded), ReturnsKey(look)
  PROVE  /\ pending' \in Seq(Octets) /\ hightide' \in 0 .. Len(pending')
         /\ Undecoded' = Rest(Undecoded, look.n + look.keep)
<1>1. PICK u : u = Undecoded /\ u \in Seq(Octets)
  BY UndecodedBytes
<1>2. Len(u) \in Nat
  BY <1>1, LenProperties
<1>3. look.n \in 0 .. Len(u) /\ look.keep \in 0 .. Len(u) - look.n
      /\ look.n \in Nat /\ look.keep \in Nat /\ look.n + look.keep <= Len(u)
  BY <1>1, <1>2 DEF KeyWithin
<1>4. pending' = Rest(u, look.n) /\ hightide' = look.keep
  BY <1>1 DEF ReturnsKey
<1>5. Rest(u, look.n) \in Seq(Octets) /\ Len(Rest(u, look.n)) = Len(u) - look.n
  BY <1>1, <1>3, RestIs
<1>6. Undecoded' = Rest(Rest(u, look.n), look.keep)
  BY <1>4 DEF Undecoded
<1>7. Rest(Rest(u, look.n), look.keep) = Rest(u, look.n + look.keep)
  BY <1>1, <1>3, RestRest
<1> QED
  BY <1>1, <1>3, <1>4, <1>5, <1>6, <1>7

(* The buffer is left as it is by an AGAIN, but for the bytes the forced   *)
(* look would keep.                                                        *)
LEMMA LeavesWithin ==
  ASSUME WaitTypes, LeavesBytes
  PROVE  /\ pending' \in Seq(Octets) /\ hightide' \in 0 .. Len(pending')
         /\ KeptBy(Late(Undecoded, is_closed)) = 0 => Undecoded' = Undecoded
<1>1. PICK u : u = Undecoded /\ u \in Seq(Octets)
  BY UndecodedBytes
<1>2. pending' = u /\ hightide' = KeptBy(Late(u, is_closed))
  BY <1>1 DEF LeavesBytes, Late
<1>3. KeptBy(Late(u, is_closed)) \in 0 .. Len(u)
  <2>1. Len(u) \in Nat
    BY <1>1, LenProperties
  <2>2. KeyWithin(Late(u, is_closed), u)
    BY <1>1, LateLook
  <2> QED
    BY <2>1, <2>2 DEF KeyWithin, KeptBy
<1>4. hightide' = 0 => Undecoded' = u
  <2>1. 0 \in 0 .. Len(u)
    BY <1>1, LenProperties
  <2>2. Rest(u, 0) = u
    <3>1. Rest(u, 0) \in Seq(Octets) /\ Len(Rest(u, 0)) = Len(u) - 0
          /\ \A i \in 1 .. Len(u) - 0 : Rest(u, 0)[i] = u[0 + i]
      BY <1>1, <2>1, RestIs
    <3> QED
      BY <1>1, <3>1, LenProperties, SeqEqual
  <2> QED
    BY <1>2, <2>2 DEF Undecoded
<1> QED
  BY <1>1, <1>2, <1>3, <1>4

LEMMA LessOwed ==
  ASSUME NEW S, NEW s \in Seq(S), s # <<>>
  PROVE  /\ Tail(s) \in Seq(S) /\ Len(Tail(s)) = Len(s) - 1 /\ Len(s) \in Nat \ {0}
         /\ \A i \in 1 .. Len(s) - 1 : Tail(s)[i] = s[i + 1]
         /\ Front(s) \in Seq(S) /\ Len(Front(s)) = Len(s) - 1
         /\ \A i \in 1 .. Len(s) - 1 : Front(s)[i] = s[i]
<1>1. Len(s) \in Nat \ {0}
  BY LenProperties, EmptySeq
<1>2. \A i \in 1 .. Len(s) - 1 : s[i] \in S
  BY <1>1, ElementOfSeq
<1>3. /\ Front(s) \in Seq(S) /\ Len(Front(s)) = Len(s) - 1
      /\ \A i \in 1 .. Len(s) - 1 : Front(s)[i] = s[i]
  <2>1. PICK n \in Nat : n = Len(s) - 1
    BY <1>1
  <2>2. \A i \in 1 .. n : s[i] \in S
    BY <1>2, <2>1
  <2>3. /\ SubSeq(s, 1, n) \in Seq(S) /\ Len(SubSeq(s, 1, n)) = n
        /\ \A i \in 1 .. n : SubSeq(s, 1, n)[i] = s[i]
    BY <2>2, SubSeqProperties
  <2>4. Front(s) = SubSeq(s, 1, n)
    BY <2>1 DEF Front
  <2> QED
    BY <2>1, <2>3, <2>4
<1> QED
  BY <1>1, <1>3, HeadTailProperties

LEMMA PressTypes == ASSUME WaitInv, Press PROVE WaitInv'
<1>1. PICK k \in DOMAIN Keystrokes : coming' = k /\ owed' = Append(owed, Keystrokes[k])
  BY DEF Press
<1>2. coming' \in Seq(Octets) /\ owed' \in Seq(Keys)
  BY <1>1, KeystrokeBytes, AppendProperties DEF Keys, WaitInv, WaitTypes
<1> QED
  BY <1>2 DEF Press, WaitInv, WaitTypes, EndInv, Undecoded

LEMMA ArriveTypes == ASSUME WaitInv, Arrive PROVE WaitInv'
<1>1. PICK n \in 1 .. Len(coming) : wire' = wire \o SubSeq(coming, 1, n) /\ coming' = Rest(coming, n)
  BY DEF Arrive
<1>2. coming \in Seq(Octets) /\ n \in 0 .. Len(coming) /\ wire \in Seq(Octets)
  BY <1>1 DEF WaitInv, WaitTypes
<1>3. SubSeq(coming, 1, n) \in Seq(Octets) /\ Rest(coming, n) \in Seq(Octets)
  BY <1>2, MovesOver
<1>4. wire' \in Seq(Octets) /\ coming' \in Seq(Octets)
  BY <1>1, <1>2, <1>3, ConcatProperties
<1> QED
  BY <1>4 DEF Arrive, WaitInv, WaitTypes, EndInv, Undecoded

LEMMA HangupTypes == ASSUME WaitInv, Hangup PROVE WaitInv'
<1>1. owed' \in Seq(Keys)
  <2>1. owed \in Seq(Keys) /\ (owed' = owed \/ owed' = Front(owed))
    BY DEF Hangup, WaitInv, WaitTypes
  <2>2. Front(<<>>) = <<>>
    BY SubSeqEmpty, EmptySeq DEF Front
  <2> QED
    BY <2>1, <2>2, LessOwed
<1>2. coming' \in Seq(Octets) /\ cut' \in BOOLEAN
  BY EmptySeq DEF Hangup
<1> QED
  BY <1>1, <1>2 DEF Hangup, WaitInv, WaitTypes, EndInv, Undecoded

LEMMA ReturnsKeyTypes ==
  ASSUME WaitInv, NEW look, look.res = "KEY", KeyWithin(look, Undecoded), ReturnsKey(look),
         Line, UNCHANGED <<wire, is_closed>>
  PROVE  WaitInv'
<1>1. pending' \in Seq(Octets) /\ hightide' \in 0 .. Len(pending')
  BY TakesFrom DEF WaitInv
<1>2. owed' \in Seq(Keys) /\ pc' = "out"
  BY LessOwed DEF ReturnsKey, WaitInv, WaitTypes
<1> QED
  BY <1>1, <1>2 DEF Line, WaitInv, WaitTypes, EndInv

LEMMA DropsTypes ==
  ASSUME WaitInv, Undecoded = <<>>, Drops, pc' \in {"out", "read"}, owed' = owed,
         Line, UNCHANGED <<wire, is_closed>>
  PROVE  WaitInv'
<1>1. pending' = <<>> /\ hightide' = 0
  BY DropsAll DEF WaitInv
<1>2. <<>> \in Seq(Octets) /\ 0 \in 0 .. Len(<<>>)
  BY EmptySeq
<1>3. pc' \in {"out", "getkey", "force", "read", "poll"}
  OBVIOUS
<1> QED
  BY <1>1, <1>2, <1>3 DEF Line, WaitInv, WaitTypes, EndInv

LEMMA LeavesTypes ==
  ASSUME WaitInv, NoMetaStrings, Early(Undecoded, is_closed).res = "AGAIN",
         LeavesBytes, pc' \in {"force", "poll"}, owed' = owed,
         Line, UNCHANGED <<wire, is_closed>>
  PROVE  WaitInv' /\ Undecoded' = Undecoded
<1>1. Undecoded # <<>> /\ KeptBy(Late(Undecoded, is_closed)) = 0
  <2>1. Undecoded \in Seq(Octets)
    BY UndecodedBytes DEF WaitInv
  <2> QED
    BY <2>1, EarlyLook, EarlyForced
<1>2. pending' \in Seq(Octets) /\ hightide' \in 0 .. Len(pending') /\ Undecoded' = Undecoded
  BY <1>1, LeavesWithin DEF WaitInv
<1>3. pc' \in {"out", "getkey", "force", "read", "poll"} /\ pc' # "read"
  OBVIOUS
<1> QED
  BY <1>1, <1>2, <1>3 DEF Line, WaitInv, WaitTypes, EndInv

(* What a look that is content to wait leads to.                           *)
LEMMA GetkeyCases ==
  ASSUME WaitTypes, getkey, NEW look, look = Early(Undecoded, is_closed)
  PROVE  /\ Line /\ UNCHANGED <<wire, is_closed>> /\ KeyWithin(look, Undecoded)
         /\ \/ look.res = "KEY" /\ ReturnsKey(look) /\ Undecoded # <<>>
            \/ /\ look.res = "EOF" /\ Drops /\ Returns("EOF")
               /\ Undecoded = <<>> /\ is_closed
            \/ look.res = "NONE" /\ Drops /\ Reaches("read") /\ Undecoded = <<>>
            \/ /\ look.res = "AGAIN" /\ LeavesBytes /\ Undecoded # <<>>
               /\ \/ ~is_closed /\ Reaches("poll")
                  \/ is_closed /\ Reaches("force")
<1>1. PICK u : u = Undecoded /\ u \in Seq(Octets) /\ look = Early(u, is_closed)
  BY UndecodedBytes
<1>2. /\ u = <<>> => look.res \in {"NONE", "EOF"}
      /\ u # <<>> => look.res \in {"KEY", "AGAIN"}
      /\ KeyWithin(look, u)
      /\ look.res = "EOF" => On(is_closed)
  BY <1>1, EarlyLook
<1>3. /\ Line /\ UNCHANGED <<wire, is_closed>>
      /\ \/ look.res = "KEY" /\ ReturnsKey(look)
         \/ look.res = "EOF" /\ Drops /\ Returns("EOF")
         \/ look.res = "NONE" /\ Drops /\ Reaches("read")
         \/ look.res = "AGAIN" /\ ~is_closed /\ LeavesBytes /\ Reaches("poll")
         \/ look.res = "AGAIN" /\ is_closed /\ LeavesBytes /\ Reaches("force")
  BY DEF getkey, Early
<1> QED
  BY <1>1, <1>2, <1>3 DEF On

LEMMA GetkeyTypes == ASSUME WaitInv, NoMetaStrings, getkey PROVE WaitInv'
<1>1. PICK look : look = Early(Undecoded, is_closed)
  OBVIOUS
<1>2. /\ Line /\ UNCHANGED <<wire, is_closed>> /\ KeyWithin(look, Undecoded)
      /\ \/ look.res = "KEY" /\ ReturnsKey(look) /\ Undecoded # <<>>
         \/ look.res = "EOF" /\ Drops /\ Returns("EOF") /\ Undecoded = <<>> /\ is_closed
         \/ look.res = "NONE" /\ Drops /\ Reaches("read") /\ Undecoded = <<>>
         \/ /\ look.res = "AGAIN" /\ LeavesBytes /\ Undecoded # <<>>
            /\ \/ ~is_closed /\ Reaches("poll")
               \/ is_closed /\ Reaches("force")
  BY <1>1, GetkeyCases DEF WaitInv
<1>3. CASE look.res = "KEY" /\ ReturnsKey(look)
  BY <1>2, <1>3, ReturnsKeyTypes
<1>4. CASE Undecoded = <<>> /\ Drops /\ (Returns("EOF") \/ Reaches("read"))
  BY <1>2, <1>4, DropsTypes DEF Returns, Reaches
<1>5. CASE look.res = "AGAIN" /\ LeavesBytes /\ (Reaches("poll") \/ Reaches("force"))
  BY <1>1, <1>2, <1>5, LeavesTypes DEF Reaches
<1> QED
  BY <1>2, <1>3, <1>4, <1>5

LEMMA ForceCases ==
  ASSUME WaitInv, getkey_force, NEW look, look = Late(Undecoded, is_closed)
  PROVE  /\ look.res = "KEY" /\ KeyWithin(look, Undecoded) /\ ReturnsKey(look)
         /\ Line /\ UNCHANGED <<wire, is_closed>>
<1>1. ReturnsKey(look) /\ Line /\ UNCHANGED <<wire, is_closed>> /\ pc = "force"
  BY Zenon DEF getkey_force, Late
<1>2. PICK u : u = Undecoded /\ u \in Seq(Octets) /\ u # <<>>
  BY <1>1, UndecodedBytes DEF WaitInv, EndInv
<1>3. look.res = "KEY" /\ KeyWithin(look, u)
  BY <1>2, LateLook
<1> QED
  BY <1>1, <1>2, <1>3

(* A read takes n bytes of those that can be read, or learns that there    *)
(* are no more to come.                                                    *)
LEMMA ReadableCases ==
  ASSUME WaitTypes, NEW more, NEW none, advisereadable(more, none), Room > 0
  PROVE  \/ /\ \E n \in 0 .. Len(wire) :
                 pending' = pending \o SubSeq(wire, 1, n) /\ wire' = Rest(wire, n)
            /\ Reaches(more) /\ UNCHANGED is_closed
         \/ /\ wire = <<>> /\ hung /\ is_closed' = TRUE
            /\ Reaches(none) /\ UNCHANGED <<wire, pending>>
<1>1. Len(wire) \in Nat /\ Room \in Int
  BY LenProperties, WaitAssumption DEF WaitTypes, Room
<1>2. CASE wire # <<>>
  <2> DEFINE n == IF Len(wire) < Room THEN Len(wire) ELSE Room
  <2>1. n \in 0 .. Len(wire)
    BY <1>1
  <2>2. pending' = pending \o SubSeq(wire, 1, n) /\ wire' = Rest(wire, n)
        /\ Reaches(more) /\ UNCHANGED is_closed
    BY <1>2 DEF advisereadable
  <2> HIDE DEF n
  <2> QED
    BY <2>1, <2>2
<1>3. CASE wire = <<>>
  BY <1>3 DEF advisereadable
<1> QED
  BY <1>2, <1>3

(* Either way the bytes on their way stay the same.                        *)
LEMMA ReadableTypes ==
  ASSUME WaitInv, NEW more, NEW none, advisereadable(more, none), Room > 0,
         Line, UNCHANGED hightide, more = "getkey", none \in {"getkey", "force"},
         none = "force" => Undecoded # <<>>
  PROVE  WaitInv' /\ Undecoded' \o wire' = Undecoded \o wire
<1>1. /\ pending \in Seq(Octets) /\ wire \in Seq(Octets) /\ hightide \in 0 .. Len(pending)
  BY DEF WaitInv, WaitTypes
<1>2. ASSUME NEW n \in 0 .. Len(wire),
             pending' = pending \o SubSeq(wire, 1, n), wire' = Rest(wire, n),
             Reaches(more), UNCHANGED is_closed
      PROVE  WaitInv' /\ Undecoded' \o wire' = Undecoded \o wire
  <2>1. PICK b : b = SubSeq(wire, 1, n) /\ b \in Seq(Octets) /\ wire' \in Seq(Octets)
    BY <1>1, <1>2, MovesOver
  <2>2. /\ pending' \in Seq(Octets) /\ hightide' \in 0 .. Len(pending')
        /\ Undecoded' = Undecoded \o b
    <3>1. /\ pending \o b \in Seq(Octets) /\ hightide \in 0 .. Len(pending \o b)
          /\ Rest(pending \o b, hightide) = Rest(pending, hightide) \o b
      <4>1. pending \in Seq(Octets) /\ b \in Seq(Octets) /\ hightide \in 0 .. Len(pending)
        BY <1>1, <2>1
      <4> QED
        BY ONLY <4>1, ReadsMore
    <3>2. pending' = pending \o b /\ hightide' = hightide
      BY <1>2, <2>1
    <3>3. Undecoded' = Rest(pending \o b, hightide)
      BY <3>2 DEF Undecoded
    <3> QED
      BY <3>1, <3>2, <3>3 DEF Undecoded
  <2>3. (Undecoded \o b) \o wire' = Undecoded \o wire
    <3>1. (Undecoded \o SubSeq(wire, 1, n)) \o Rest(wire, n) = Undecoded \o wire
      <4>1. Undecoded \in Seq(Octets) /\ wire \in Seq(Octets) /\ n \in 0 .. Len(wire)
        BY <1>1, UndecodedBytes DEF WaitInv
      <4> QED
        BY ONLY <4>1, MovesOver
    <3> QED
      BY <1>2, <2>1, <3>1
  <2>4. wire = <<>> => wire' = <<>>
    <3>1. wire = <<>> => n = 0 /\ n = Len(wire)
      BY <1>2, EmptySeq
    <3> QED
      BY <1>1, <1>2, <3>1, RestIs
  <2>5. pc' = "getkey" /\ owed' = owed
    BY <1>2 DEF Reaches
  <2> QED
    BY <1>2, <2>1, <2>2, <2>3, <2>4, <2>5 DEF Line, WaitInv, WaitTypes, EndInv
<1>3. ASSUME wire = <<>>, hung, is_closed' = TRUE, Reaches(none), UNCHANGED <<wire, pending>>
      PROVE  WaitInv' /\ Undecoded' \o wire' = Undecoded \o wire
  <2>1. Undecoded' = Undecoded
    BY <1>3 DEF Undecoded
  <2>2. pc' \in {"getkey", "force"} /\ pc' = none /\ owed' = owed
    BY <1>3 DEF Reaches
  <2> QED
    BY <1>3, <2>1, <2>2 DEF Line, WaitInv, WaitTypes, EndInv
<1> QED
  BY <1>2, <1>3, ReadableCases DEF WaitInv

-----------------------------------------------------------------------------
(* What is on its way are the keystrokes that have not been answered, one  *)
(* after the other, and behind them what a hangup left of one; rest[i] is  *)
(* what follows the first i of them.  Only the last one can be one after   *)
(* which the user waits.                                                   *)
Sent == (Undecoded \o wire) \o coming

Splits(strokes, rest) ==
  /\ rest \in [0 .. Len(strokes) -> Seq(Octets)] /\ rest[0] = Sent
  /\ \A i \in 1 .. Len(strokes) : rest[i - 1] = strokes[i] \o rest[i]
  /\ ~cut => rest[Len(strokes)] = <<>>

OwedAre(strokes) ==
  /\ strokes \in Seq(DOMAIN Keystrokes) /\ Len(strokes) = Len(owed)
  /\ \A i \in 1 .. Len(strokes) : owed[i] = Keystrokes[strokes[i]]
  /\ \A i \in 1 .. Len(strokes) : i < Len(strokes) \/ cut => strokes[i] \in Hasty

(* The bytes still coming are those of the last keystroke.                 *)
ComesLast(strokes, rest) ==
  coming # <<>> =>
    /\ ~cut /\ Len(strokes) > 0
    /\ \A i \in 0 .. Len(strokes) - 1 : Len(coming) <= Len(rest[i])

OwedInv ==
  \E strokes, rest : OwedAre(strokes) /\ Splits(strokes, rest) /\ ComesLast(strokes, rest)

(* A look that waits for more of a key waits until the timeout or the end, *)
(* and then all that was sent has been read.                               *)
ForceInv ==
  /\ pc \in {"poll", "force"} => Early(Undecoded, is_closed).res = "AGAIN"
  /\ pc = "force" =>
       \/ owed = <<>> /\ cut
       \/ \E k \in DOMAIN Keystrokes \ Hasty :
            owed = <<Keystrokes[k]>> /\ Undecoded = k /\ wire = <<>> /\ coming = <<>>

KeystrokesInv == WaitInv /\ OwedInv /\ ForceInv

LEMMA KeystrokeLooks ==
  ASSUME NEW k \in DOMAIN Keystrokes, NEW c \in BOOLEAN
  PROVE  /\ \A n \in 1 .. Len(k) - 1 : Early(SubSeq(k, 1, n), c).res = "AGAIN"
         /\ \/ TakesAll(Early(k, c), k)
            \/ k \notin Hasty /\ Early(k, c).res = "AGAIN" /\ TakesAll(Late(k, c), k)
BY KeystrokesAssumption, Zenon DEF Early, Late

LEMMA SentSplits ==
  ASSUME WaitTypes
  PROVE  /\ Undecoded \in Seq(Octets) /\ wire \o coming \in Seq(Octets)
         /\ Sent = Undecoded \o (wire \o coming) /\ Sent \in Seq(Octets)
<1>1. Undecoded \in Seq(Octets) /\ wire \in Seq(Octets) /\ coming \in Seq(Octets)
  BY UndecodedBytes DEF WaitTypes
<1> QED
  BY ONLY <1>1, ConcatProperties, ConcatAssociative DEF Sent

(* Everything sent is undecoded when nothing more is to be read.           *)
LEMMA AllRead ==
  ASSUME WaitTypes, wire = <<>>, coming = <<>>
  PROVE  Sent = Undecoded
BY UndecodedBytes, ConcatEmptySeq DEF Sent

(* A look without force finds no key before all bytes of the next          *)
(* keystroke are there, and then finds its key.                            *)
LEMMA FindsNext ==
  ASSUME WaitTypes, OneDriver(Octets), NEW k \in DOMAIN Keystrokes, NEW t \in Seq(Octets),
         Sent = k \o t, k \notin Hasty => t = <<>>,
         NEW look, look = Early(Undecoded, is_closed)
  PROVE  /\ look.res = "KEY" => TakesAll(look, k) /\ Len(k) <= Len(Undecoded)
         /\ look.res = "AGAIN" /\ Sent = Undecoded => k \notin Hasty /\ Undecoded = k
<1>1. PICK u : u = Undecoded /\ u \in Seq(Octets) /\ look = Early(u, is_closed)
  BY UndecodedBytes
<1>2. PICK v : v \in Seq(Octets) /\ u \o v = k \o t
  BY <1>1, SentSplits
<1>3. k \in Seq(Octets) /\ k # <<>> /\ is_closed \in BOOLEAN
  BY KeystrokeBytes DEF WaitTypes
<1>4. Len(u) \in Nat /\ Len(k) \in Nat /\ Len(t) \in Nat /\ Len(v) \in Nat
  BY <1>1, <1>2, <1>3, LenProperties
<1>5. /\ Len(k) <= Len(u) => Continues(u, k)
      /\ Len(u) <= Len(k) => u = SubSeq(k, 1, Len(u))
  <2>1. u \in Seq(Octets) /\ v \in Seq(Octets) /\ k \in Seq(Octets) /\ t \in Seq(Octets)
    BY <1>1, <1>2, <1>3
  <2>2. \A a \in Seq(Octets), b \in Seq(Octets), q \in Seq(Octets), r \in Seq(Octets) :
          a \o b = q \o r => SplitsAs(a, b, q, r)
    BY SplitTwice
  <2> QED
    BY ONLY <1>2, <2>1, <2>2, Zenon DEF SplitsAs
<1>6. Len(u) + Len(v) = Len(k) + Len(t)
  BY <1>1, <1>2, <1>3, ConcatProperties
<1>7. CASE Len(k) <= Len(u)
  <2>1. Early(k, is_closed).res = "KEY" => look = Early(k, is_closed)
    BY <1>1, <1>3, <1>5, <1>7, EarlyStable
  <2>2. CASE TakesAll(Early(k, is_closed), k)
    <3>1. look = Early(k, is_closed) /\ look.res = "KEY"
      BY <2>1, <2>2 DEF TakesAll
    <3> QED
      BY <1>1, <1>7, <2>2, <3>1
  <2>3. CASE k \notin Hasty /\ Early(k, is_closed).res = "AGAIN"
    <3>1. Len(t) = 0
      BY <2>3, EmptySeq
    <3>2. Len(u) <= Len(k) /\ Len(u) = Len(k)
      BY <1>4, <1>6, <1>7, <3>1
    <3>3. u = k
      BY <1>1, <1>3, <1>5, <1>7, <3>2, SeqEqual DEF Continues
    <3> QED
      BY <1>1, <2>3, <3>3
  <2> QED
    BY <1>3, <2>2, <2>3, KeystrokeLooks
<1>8. CASE Len(u) < Len(k)
  <2>1. u = <<>> => look.res \in {"NONE", "EOF"}
    BY <1>1, EarlyLook
  <2>2. ASSUME u # <<>> PROVE look.res = "AGAIN"
    <3>1. Len(u) \in 1 .. Len(k) - 1
      BY <1>1, <1>4, <1>8, <2>2, EmptySeq
    <3>2. u = SubSeq(k, 1, Len(u))
      BY <1>4, <1>5, <1>8
    <3>3. Early(SubSeq(k, 1, Len(u)), is_closed).res = "AGAIN"
      BY <1>3, <3>1, KeystrokeLooks
    <3> QED
      BY <1>1, <3>2, <3>3
  <2>3. Sent # Undecoded
    <3>1. Len(k \o t) = Len(k) + Len(t)
      BY <1>3, ConcatProperties
    <3> QED
      BY <1>1, <1>4, <1>8, <3>1
  <2> QED
    BY <2>1, <2>2, <2>3
<1>9. Len(k) <= Len(u) \/ Len(u) < Len(k)
  BY ONLY <1>4
<1> QED
  BY <1>7, <1>8, <1>9, Zenon

(* The next keystroke is the first owed, and all others follow it.         *)
LEMMA NextOwed ==
  ASSUME WaitTypes, NEW strokes, NEW rest, OwedAre(strokes), Splits(strokes, rest), owed # <<>>
  PROVE  /\ Len(strokes) \in Nat \ {0} /\ strokes[1] \in DOMAIN Keystrokes
         /\ rest[1] \in Seq(Octets) /\ Sent = strokes[1] \o rest[1]
         /\ Head(owed) = Keystrokes[strokes[1]]
         /\ strokes[1] \notin Hasty => Len(strokes) = 1 /\ rest[1] = <<>>
<1>1. Len(strokes) \in Nat \ {0}
  BY LenProperties, EmptySeq DEF OwedAre, WaitTypes
<1>2. 1 \in 1 .. Len(strokes) /\ 1 \in 0 .. Len(strokes) /\ 1 - 1 = 0
  BY <1>1
<1>3. strokes[1] \in DOMAIN Keystrokes /\ owed[1] = Keystrokes[strokes[1]]
  BY <1>2, ElementOfSeq DEF OwedAre
<1>4. rest[1] \in Seq(Octets) /\ Sent = strokes[1] \o rest[1]
  BY <1>2 DEF Splits
<1>5. Head(owed) = owed[1]
  BY DEF WaitTypes
<1>6. strokes[1] \notin Hasty => Len(strokes) = 1 /\ ~cut
  BY <1>1, <1>2 DEF OwedAre
<1> QED
  BY <1>1, <1>3, <1>4, <1>5, <1>6 DEF Splits

LEMMA FindsOwed ==
  ASSUME WaitTypes, OneDriver(Octets), NEW strokes, NEW rest,
         OwedAre(strokes), Splits(strokes, rest), owed # <<>>,
         NEW look, look = Early(Undecoded, is_closed)
  PROVE  /\ look.res = "KEY" => TakesAll(look, strokes[1]) /\ Len(strokes[1]) <= Len(Undecoded)
         /\ look.res = "AGAIN" /\ Sent = Undecoded =>
              \E k \in DOMAIN Keystrokes \ Hasty : owed = <<Keystrokes[k]>> /\ Undecoded = k
<1>1. /\ Len(strokes) \in Nat \ {0} /\ strokes[1] \in DOMAIN Keystrokes
      /\ rest[1] \in Seq(Octets) /\ Sent = strokes[1] \o rest[1]
      /\ strokes[1] \notin Hasty => Len(strokes) = 1 /\ rest[1] = <<>>
  BY NextOwed
<1>2. /\ look.res = "KEY" => TakesAll(look, strokes[1]) /\ Len(strokes[1]) <= Len(Undecoded)
      /\ look.res = "AGAIN" /\ Sent = Undecoded =>
           strokes[1] \notin Hasty /\ Undecoded = strokes[1]
  BY <1>1, FindsNext
<1>3. ASSUME strokes[1] \notin Hasty PROVE owed = <<Keystrokes[strokes[1]]>>
  <2>1. Len(owed) = 1 /\ owed[1] = Keystrokes[strokes[1]] /\ owed \in Seq(Keys)
    BY <1>1, <1>3 DEF OwedAre, WaitTypes
  <2> QED
    BY <2>1, OneElement
<1> QED
  BY <1>1, <1>2, <1>3

(* Without force a key is only found when one is owed, unless a hangup cut *)
(* one off.                                                                *)
LEMMA FindsNothingElse ==
  ASSUME WaitTypes, NEW strokes, NEW rest, OwedAre(strokes), Splits(strokes, rest),
         owed = <<>>, Undecoded # <<>>
  PROVE  cut
<1>1. Len(strokes) = 0
  BY EmptySeq DEF OwedAre
<1>2. ~cut => Sent = <<>>
  BY <1>1 DEF Splits
<1>3. Sent = <<>> => Undecoded = <<>>
  <2>1. \A u \in Seq(Octets), v \in Seq(Octets) : u \o v = <<>> => u = <<>>
    BY ConcatEqualIffEmpty
  <2> QED
    BY <2>1, SentSplits
<1> QED
  BY <1>2, <1>3 DEF WaitTypes

(* Once all that was sent is read and a look still waits for more, only a  *)
(* keystroke the user waits after is owed, or what a hangup left is there. *)
LEMMA WaitsForLast ==
  ASSUME WaitTypes, OwedInv, OneDriver(Octets), wire = <<>>, coming = <<>>,
         Early(Undecoded, is_closed).res = "AGAIN"
  PROVE  \/ owed = <<>> /\ cut
         \/ \E k \in DOMAIN Keystrokes \ Hasty :
              owed = <<Keystrokes[k]>> /\ Undecoded = k /\ wire = <<>> /\ coming = <<>>
<1>1. PICK strokes, rest : OwedAre(strokes) /\ Splits(strokes, rest)
  BY DEF OwedInv
<1>2. Sent = Undecoded /\ Undecoded # <<>>
  BY AllRead, UndecodedBytes, EarlyAgain
<1>3. CASE owed = <<>>
  BY <1>1, <1>2, <1>3, FindsNothingElse
<1>4. CASE owed # <<>>
  BY <1>1, <1>2, <1>4, FindsOwed
<1> QED
  BY <1>3, <1>4

(* A step that leaves the keys owed and the bytes on their way alone.      *)
LEMMA SameOwed ==
  ASSUME OwedInv, Sent' = Sent, UNCHANGED <<owed, cut>>,
         coming' = coming \/ (coming \in Seq(Octets) /\ coming # <<>> /\ coming' \in Seq(Octets)
                                /\ Len(coming') <= Len(coming))
  PROVE  OwedInv'
<1>1. PICK strokes, rest : OwedAre(strokes) /\ Splits(strokes, rest) /\ ComesLast(strokes, rest)
  BY DEF OwedInv
<1>2. OwedAre(strokes)' /\ Splits(strokes, rest)'
  BY <1>1 DEF OwedAre, Splits
<1>3. ComesLast(strokes, rest)'
  <2>1. CASE coming' = coming
    BY <1>1, <2>1 DEF ComesLast
  <2>2. CASE coming \in Seq(Octets) /\ coming # <<>> /\ coming' \in Seq(Octets)
             /\ Len(coming') <= Len(coming)
    <3>1. /\ ~cut /\ Len(strokes) > 0
          /\ \A i \in 0 .. Len(strokes) - 1 : Len(coming) <= Len(rest[i])
      BY <1>1, <2>2 DEF ComesLast
    <3>2. \A i \in 0 .. Len(strokes) - 1 : rest[i] \in Seq(Octets)
      <4>1. Len(strokes) \in Nat
        BY <1>1, LenProperties DEF OwedAre
      <4> QED
        BY <1>1, <4>1 DEF Splits
    <3>3. Len(coming) \in Nat /\ Len(coming') \in Nat
          /\ \A i \in 0 .. Len(strokes) - 1 : Len(rest[i]) \in Nat
      BY <2>2, <3>2, LenProperties
    <3>4. \A i \in 0 .. Len(strokes) - 1 : Len(coming') <= Len(rest[i])
      BY <2>2, <3>1, <3>3
    <3> QED
      BY <3>1, <3>4 DEF ComesLast
  <2> QED
    BY <2>1, <2>2
<1> QED
  BY <1>2, <1>3 DEF OwedInv

LEMMA OctetsJoin ==
  \A a \in Seq(Octets), b \in Seq(Octets), c \in Seq(Octets) :
    a \o b \in Seq(Octets) /\ (a \o b) \o c = a \o (b \o c)
BY ConcatProperties, ConcatAssociative

LEMMA ArriveSent ==
  ASSUME WaitInv, Arrive
  PROVE  Sent' = Sent /\ coming \in Seq(Octets) /\ coming' \in Seq(Octets) /\ coming # <<>>
         /\ Len(coming') <= Len(coming)
<1>1. PICK n \in 1 .. Len(coming) : wire' = wire \o SubSeq(coming, 1, n) /\ coming' = Rest(coming, n)
  BY DEF Arrive
<1>2. /\ coming \in Seq(Octets) /\ Undecoded \in Seq(Octets) /\ wire \in Seq(Octets)
      /\ n \in 0 .. Len(coming) /\ Len(coming) \in Nat
  BY <1>1, UndecodedBytes, LenProperties DEF WaitInv, WaitTypes
<1>3. PICK a : a = SubSeq(coming, 1, n) /\ a \in Seq(Octets) /\ coming' \in Seq(Octets)
  BY <1>1, <1>2, MovesOver
<1>4. Len(coming') <= Len(coming)
  BY <1>1, <1>2, RestIs
<1>5. Undecoded' = Undecoded
  BY DEF Arrive, Undecoded
<1>6. wire \o a \in Seq(Octets) /\ (wire \o a) \o coming' = wire \o coming
  <2>1. /\ SubSeq(coming, 1, n) \in Seq(Octets)
        /\ (wire \o SubSeq(coming, 1, n)) \o Rest(coming, n) = wire \o coming
    <3>1. \A a0 \in Seq(Octets), b \in Seq(Octets) : \A i \in 0 .. Len(b) :
            /\ SubSeq(b, 1, i) \in Seq(Octets)
            /\ (a0 \o SubSeq(b, 1, i)) \o Rest(b, i) = a0 \o b
      BY MovesOver
    <3> QED
      BY <1>2, <3>1, Zenon
  <2> QED
    BY <1>1, <1>2, <1>3, <2>1, OctetsJoin
<1>7. (Undecoded \o (wire \o a)) \o coming' = Undecoded \o ((wire \o a) \o coming')
  <2>1. Undecoded \in Seq(Octets) /\ wire \o a \in Seq(Octets) /\ coming' \in Seq(Octets)
    BY <1>2, <1>3, <1>6
  <2> QED
    BY ONLY <2>1, OctetsJoin, Zenon
<1>8. Undecoded \o (wire \o coming) = (Undecoded \o wire) \o coming
  BY <1>2, OctetsJoin, Zenon
<1>9. Sent' = (Undecoded \o (wire \o a)) \o coming'
  BY <1>1, <1>3, <1>5 DEF Sent
<1> QED
  BY <1>2, <1>3, <1>4, <1>6, <1>7, <1>8, <1>9 DEF Arrive, Sent

(* A keystroke goes behind all that was sent.                              *)
LEMMA PressOwed ==
  ASSUME WaitInv, OwedInv, Press
  PROVE  OwedInv'
<1>1. PICK ks, rest : OwedAre(ks) /\ Splits(ks, rest) /\ ComesLast(ks, rest)
  BY DEF OwedInv
<1>2. PICK k \in DOMAIN Keystrokes : coming' = k /\ owed' = Append(owed, Keystrokes[k])
  BY DEF Press
<1>3. k \in Seq(Octets) /\ k # <<>> /\ <<>> \in Seq(Octets) /\ owed \in Seq(Keys)
  BY KeystrokeBytes, EmptySeq DEF WaitInv, WaitTypes
<1>4. Len(ks) \in Nat /\ Len(k) \in Nat /\ ks \in Seq(DOMAIN Keystrokes) /\ Len(owed) = Len(ks)
  BY <1>1, <1>3, LenProperties DEF OwedAre
<1>5. ~cut /\ ~cut'
  BY DEF Press, WaitInv, WaitTypes, EndInv
<1> DEFINE m == Len(ks)
           ks2 == Append(ks, k)
           rest2 == [i \in 0 .. m + 1 |-> IF i <= m THEN rest[i] \o k ELSE <<>>]
<1>6. /\ ks2 \in Seq(DOMAIN Keystrokes) /\ Len(ks2) = m + 1 /\ ks2[m + 1] = k
      /\ \A i \in 1 .. m : ks2[i] = ks[i]
  BY <1>4, AppendProperties
<1>7. /\ Len(owed') = m + 1 /\ owed'[m + 1] = Keystrokes[k]
      /\ \A i \in 1 .. m : owed'[i] = owed[i]
  BY <1>2, <1>3, <1>4, AppendProperties DEF Keys
<1>8. \A i \in 1 .. m : ks[i] \in Hasty
  <2> SUFFICES ASSUME NEW i \in 1 .. m PROVE ks[i] \in Hasty
    OBVIOUS
  <2>1. i \in DOMAIN owed
    BY <1>3, <1>4, LenProperties
  <2>2. PICK h \in Hasty : owed[i] = Keystrokes[h]
    BY <2>1 DEF Press
  <2>3. ks[i] \in DOMAIN Keystrokes /\ owed[i] = Keystrokes[ks[i]]
    BY <1>1, <1>4, ElementOfSeq DEF OwedAre
  <2>4. ks[i] \notin Hasty => Keystrokes[h] # Keystrokes[ks[i]]
    <3>1. \E c : c \in BOOLEAN
      OBVIOUS
    <3> QED
      BY <2>2, <2>3, <3>1, KeystrokesAssumption, Zenon
  <2> QED
    BY <2>2, <2>3, <2>4
<1>9. OwedAre(ks2)'
  <2>1. \A i \in 1 .. m + 1 : i = m + 1 \/ i \in 1 .. m
    BY <1>4
  <2>2. \A i \in 1 .. m + 1 : owed'[i] = Keystrokes[ks2[i]]
    BY <1>1, <1>6, <1>7, <2>1 DEF OwedAre
  <2>3. \A i \in 1 .. m + 1 : i < m + 1 => ks2[i] \in Hasty
    BY <1>4, <1>6, <1>8, <2>1
  <2> QED
    BY <1>5, <1>6, <1>7, <2>2, <2>3 DEF OwedAre
<1>10. \A i \in 0 .. m : rest[i] \in Seq(Octets) /\ Len(rest[i]) \in Nat
  BY <1>1, LenProperties DEF Splits
<1>11. \A i \in 0 .. m : rest2[i] = rest[i] \o k /\ rest2[i] \in Seq(Octets)
                         /\ Len(rest2[i]) = Len(rest[i]) + Len(k)
  BY <1>3, <1>4, <1>10, ConcatProperties
<1>12. rest2[m + 1] = <<>> /\ rest2 \in [0 .. m + 1 -> Seq(Octets)]
  <2>1. \A i \in 0 .. m + 1 : i \in 0 .. m \/ (i = m + 1 /\ ~(i <= m))
    BY <1>4
  <2>2. m + 1 \in 0 .. m + 1 /\ ~(m + 1 <= m)
    BY <1>4
  <2>3. rest2[m + 1] = <<>>
    BY <2>2
  <2>4. \A i \in 0 .. m + 1 : rest2[i] \in Seq(Octets)
    BY <1>3, <1>11, <2>1, <2>3
  <2> HIDE DEF m
  <2> QED
    BY <2>3, <2>4
<1> HIDE DEF rest2, ks2
<1>13. Sent' = Sent \o k
  <2>1. coming = <<>> /\ UNCHANGED <<wire, pending, hightide>>
    BY DEF Press
  <2>2. Sent = Undecoded \o wire
    <3>1. Undecoded \o wire \in Seq(Octets)
      BY UndecodedBytes, ConcatProperties DEF WaitInv, WaitTypes
    <3> QED
      BY <2>1, <3>1, ConcatEmptySeq DEF Sent
  <2>3. Undecoded' = Undecoded
    BY <2>1 DEF Undecoded
  <2> QED
    BY <1>2, <2>1, <2>2, <2>3 DEF Sent
<1>14. rest2[0] = Sent'
  <2>1. 0 \in 0 .. m
    BY <1>4
  <2>2. rest2[0] = rest[0] \o k /\ rest[0] = Sent
    BY <1>1, <1>11, <2>1 DEF Splits
  <2> QED
    BY <1>13, <2>2
<1>15. \A i \in 1 .. m + 1 : rest2[i - 1] = ks2[i] \o rest2[i]
  <2> SUFFICES ASSUME NEW i \in 1 .. m + 1 PROVE rest2[i - 1] = ks2[i] \o rest2[i]
    OBVIOUS
  <2>1. CASE i = m + 1
    <3>1. rest[m] = <<>>
      BY <1>1, <1>5 DEF Splits
    <3>2. m \in 0 .. m /\ (m + 1) - 1 = m
      BY <1>4
    <3>3. rest2[m] = k
      BY <1>3, <1>11, <3>1, <3>2, ConcatEmptySeq
    <3> QED
      BY <1>3, <1>6, <1>12, <2>1, <3>2, <3>3, ConcatEmptySeq
  <2>2. CASE i # m + 1
    <3>1. i \in 1 .. m /\ i \in 0 .. m /\ i - 1 \in 0 .. m
      BY <1>4, <2>2
    <3>2. rest[i - 1] = ks[i] \o rest[i]
      BY <1>1, <3>1 DEF Splits
    <3>3. PICK s : s = ks[i] /\ s \in Seq(Octets)
      BY <1>4, <3>1, ElementOfSeq, KeystrokeBytes
    <3>4. PICK r : r = rest[i] /\ r \in Seq(Octets)
      BY <1>10, <3>1
    <3>5. (s \o r) \o k = s \o (r \o k)
      <4>1. s \in Seq(Octets) /\ r \in Seq(Octets) /\ k \in Seq(Octets)
        BY <1>3, <3>3, <3>4
      <4> QED
        BY ONLY <4>1, OctetsJoin, Zenon
    <3> QED
      BY <1>6, <1>11, <3>1, <3>2, <3>3, <3>4, <3>5
  <2> QED
    BY <2>1, <2>2
<1>16. Splits(ks2, rest2)'
  BY <1>6, <1>12, <1>14, <1>15 DEF Splits
<1>17. ComesLast(ks2, rest2)'
  <2>1. \A i \in 0 .. Len(ks2) - 1 : Len(k) <= Len(rest2[i])
    <3>1. \A i \in 0 .. Len(ks2) - 1 : i \in 0 .. m
      BY <1>4, <1>6
    <3>2. \A i \in 0 .. m : Len(k) <= Len(rest2[i])
      BY <1>4, <1>10, <1>11
    <3> QED
      BY <3>1, <3>2
  <2>2. Len(ks2) > 0
    BY <1>4, <1>6
  <2> QED
    BY <1>2, <1>5, <2>1, <2>2 DEF ComesLast
<1> QED
  BY <1>9, <1>16, <1>17 DEF OwedInv

(* All but the last c bytes.                                               *)
Chop(s, c) == SubSeq(s, 1, Len(s) - c)

LEMMA ChopIs ==
  ASSUME NEW Byte, NEW s \in Seq(Byte), NEW c \in 0 .. Len(s)
  PROVE  /\ Chop(s, c) \in Seq(Byte) /\ Len(Chop(s, c)) = Len(s) - c
         /\ \A i \in 1 .. Len(s) - c : Chop(s, c)[i] = s[i]
<1>1. PICK n \in Nat : n = Len(s) - c
  BY LenProperties
<1>2. \A i \in 1 .. n : s[i] \in Byte
  BY <1>1, LenProperties, ElementOfSeq
<1>3. /\ SubSeq(s, 1, n) \in Seq(Byte) /\ Len(SubSeq(s, 1, n)) = n
      /\ \A i \in 1 .. n : SubSeq(s, 1, n)[i] = s[i]
  BY <1>2, SubSeqProperties
<1> QED
  BY <1>1, <1>3 DEF Chop

LEMMA ChopJoin ==
  ASSUME NEW Byte, NEW a \in Seq(Byte), NEW b \in Seq(Byte), NEW c \in 0 .. Len(b)
  PROVE  Chop(a \o b, c) = a \o Chop(b, c)
<1>1. Len(a) \in Nat /\ Len(b) \in Nat
  BY LenProperties
<1>2. PICK ab : ab = a \o b
  OBVIOUS
<1>3. /\ ab \in Seq(Byte) /\ Len(ab) = Len(a) + Len(b)
      /\ \A i \in 1 .. Len(a) : ab[i] = a[i]
      /\ \A i \in Len(a) + 1 .. Len(a) + Len(b) : ab[i] = b[i - Len(a)]
  BY <1>2, JoinReads
<1>4. PICK l : /\ l = Chop(ab, c) /\ l \in Seq(Byte) /\ Len(l) = Len(ab) - c
               /\ \A i \in 1 .. Len(ab) - c : l[i] = ab[i]
  <2>1. PICK d \in 0 .. Len(ab) : d = c
    BY <1>1, <1>3
  <2>2. /\ Chop(ab, d) \in Seq(Byte) /\ Len(Chop(ab, d)) = Len(ab) - d
        /\ \A i \in 1 .. Len(ab) - d : Chop(ab, d)[i] = ab[i]
    BY <1>3, ChopIs
  <2> QED
    BY <2>1, <2>2
<1>5. PICK r : /\ r = Chop(b, c) /\ r \in Seq(Byte) /\ Len(r) = Len(b) - c
               /\ \A i \in 1 .. Len(b) - c : r[i] = b[i]
  BY ChopIs
<1>6. PICK ar : ar = a \o r
  OBVIOUS
<1>7. /\ ar \in Seq(Byte) /\ Len(ar) = Len(a) + Len(r)
      /\ \A i \in 1 .. Len(a) : ar[i] = a[i]
      /\ \A i \in Len(a) + 1 .. Len(a) + Len(r) : ar[i] = r[i - Len(a)]
  <2>1. a \in Seq(Byte) /\ r \in Seq(Byte)
    BY <1>5
  <2> QED
    BY ONLY <1>6, <2>1, JoinReads
<1>8. Len(l) = Len(ar)
  BY <1>1, <1>3, <1>4, <1>5, <1>7
<1>9. \A i \in 1 .. Len(l) : l[i] = ar[i]
  <2> SUFFICES ASSUME NEW i \in 1 .. Len(l) PROVE l[i] = ar[i]
    OBVIOUS
  <2>1. l[i] = ab[i]
    BY <1>4
  <2>2. CASE i <= Len(a)
    BY <1>1, <1>3, <1>4, <1>7, <2>1, <2>2
  <2>3. CASE ~(i <= Len(a))
    <3>1. /\ i \in Len(a) + 1 .. Len(a) + Len(b) /\ i \in Len(a) + 1 .. Len(a) + Len(r)
          /\ i - Len(a) \in 1 .. Len(b) - c
      BY <1>1, <1>3, <1>4, <1>5, <1>7, <2>3
    <3>2. ab[i] = b[i - Len(a)]
      BY <1>3, <3>1
    <3>3. ar[i] = r[i - Len(a)]
      BY <1>7, <3>1
    <3>4. r[i - Len(a)] = b[i - Len(a)]
      BY <1>5, <3>1
    <3> QED
      BY <2>1, <3>2, <3>3, <3>4
  <2> QED
    BY <2>2, <2>3
<1>10. l = ar
  BY <1>4, <1>7, <1>8, <1>9, SeqEqual
<1> QED
  BY <1>2, <1>4, <1>5, <1>6, <1>10

(* A hangup cuts the bytes still coming off what follows every keystroke   *)
(* before the last, and the last one is not owed any more.                 *)
LEMMA HangupOwed ==
  ASSUME WaitInv, OwedInv, Hangup
  PROVE  OwedInv' /\ (coming # <<>> => owed # <<>>)
<1>1. PICK ks, rest : OwedAre(ks) /\ Splits(ks, rest) /\ ComesLast(ks, rest)
  BY DEF OwedInv
<1>2. Undecoded' = Undecoded /\ coming' = <<>> /\ wire' = wire
  BY DEF Hangup, Undecoded
<1>3. CASE coming = <<>>
  <2>1. ~cut /\ cut' = FALSE
    BY <1>3 DEF Hangup, WaitInv, EndInv
  <2>2. cut' = cut
    BY <2>1 DEF WaitInv, WaitTypes
  <2>3. Sent' = Sent /\ owed' = owed
    BY <1>2, <1>3 DEF Sent, Hangup
  <2> QED
    BY <1>2, <1>3, <2>2, <2>3, SameOwed
<1>4. CASE coming # <<>>
  <2> DEFINE n == Len(ks)
             c == Len(coming)
             rest2 == [i \in 0 .. n - 1 |-> Chop(rest[i], c)]
  <2>1. /\ n \in Nat /\ n > 0 /\ Len(owed) = n /\ c \in Nat /\ coming \in Seq(Octets)
        /\ \A i \in 0 .. n - 1 : c <= Len(rest[i])
    BY <1>1, <1>4, LenProperties DEF ComesLast, OwedAre, WaitInv, WaitTypes
  <2>2. owed # <<>> /\ ks # <<>>
    BY <2>1, EmptySeq
  <2>3. cut' /\ owed' = Front(owed)
    BY <1>4 DEF Hangup
  <2>4. PICK ks2 : /\ ks2 = Front(ks) /\ ks2 \in Seq(DOMAIN Keystrokes) /\ Len(ks2) = n - 1
                   /\ \A i \in 1 .. n - 1 : ks2[i] = ks[i]
    BY <1>1, <2>2, LessOwed DEF OwedAre
  <2>5. Len(owed') = n - 1 /\ \A i \in 1 .. n - 1 : owed'[i] = owed[i]
    BY <2>1, <2>2, <2>3, LessOwed DEF WaitInv, WaitTypes
  <2>6. OwedAre(ks2)'
    <3>1. \A i \in 1 .. n - 1 : i \in 1 .. n /\ i < n
      BY <2>1
    <3> QED
      BY <1>1, <2>3, <2>4, <2>5, <3>1 DEF OwedAre
  <2>7. \A i \in 0 .. n : rest[i] \in Seq(Octets) /\ Len(rest[i]) \in Nat
    BY <1>1, LenProperties DEF Splits
  <2>8. \A i \in 0 .. n - 1 : i \in 0 .. n /\ c \in 0 .. Len(rest[i])
    BY <2>1, <2>7
  <2>9. \A i \in 0 .. n - 1 : rest2[i] = Chop(rest[i], c) /\ rest2[i] \in Seq(Octets)
    BY <2>7, <2>8, ChopIs
  <2>10. rest2 \in [0 .. n - 1 -> Seq(Octets)]
    BY <2>9
  <2> HIDE DEF rest2
  <2>11. rest2[0] = Sent'
    <3>1. PICK uw : uw = Undecoded \o wire /\ uw \in Seq(Octets)
      BY UndecodedBytes, ConcatProperties DEF WaitInv, WaitTypes
    <3>2. rest[0] = uw \o coming
      BY <1>1, <3>1 DEF Splits, Sent
    <3>3. c \in 0 .. Len(coming)
      BY <2>1
    <3>4. Chop(uw \o coming, c) = uw \o Chop(coming, c)
      <4>1. uw \in Seq(Octets) /\ coming \in Seq(Octets)
        BY <2>1, <3>1
      <4> QED
        BY ONLY <3>3, <4>1, ChopJoin
    <3>5. Chop(coming, c) = <<>>
      BY <2>1, <3>3, ChopIs, EmptySeq
    <3>6. 0 \in 0 .. n - 1
      BY <2>1
    <3>7. Sent' = uw \o <<>>
      BY <1>2, <3>1 DEF Sent
    <3> QED
      BY <2>9, <3>2, <3>4, <3>5, <3>6, <3>7
  <2>12. \A i \in 1 .. n - 1 : rest2[i - 1] = ks2[i] \o rest2[i]
    <3> SUFFICES ASSUME NEW i \in 1 .. n - 1 PROVE rest2[i - 1] = ks2[i] \o rest2[i]
      OBVIOUS
    <3>1. i \in 1 .. n /\ i \in 0 .. n - 1 /\ i - 1 \in 0 .. n - 1 /\ i \in 0 .. n
      BY <2>1
    <3>2. rest[i - 1] = ks[i] \o rest[i]
      BY <1>1, <3>1 DEF Splits
    <3>3. PICK s : s = ks[i] /\ s \in Seq(Octets)
      BY <1>1, <2>1, <3>1, ElementOfSeq, KeystrokeBytes DEF OwedAre
    <3>4. PICK r : r = rest[i] /\ r \in Seq(Octets) /\ c \in 0 .. Len(r)
      BY <2>7, <2>8, <3>1
    <3>5. Chop(s \o r, c) = s \o Chop(r, c)
      BY <3>3, <3>4, ChopJoin
    <3> QED
      BY <2>4, <2>9, <3>1, <3>2, <3>3, <3>4, <3>5
  <2>13. Splits(ks2, rest2)'
    <3>1. rest2 \in [0 .. Len(ks2) -> Seq(Octets)]
      BY <2>4, <2>10
    <3>2. \A i \in 1 .. Len(ks2) : rest2[i - 1] = ks2[i] \o rest2[i]
      BY <2>4, <2>12
    <3> QED
      BY <2>3, <2>11, <3>1, <3>2 DEF Splits
  <2>14. ComesLast(ks2, rest2)'
    BY <1>2 DEF ComesLast
  <2> QED
    BY <2>2, <2>6, <2>13, <2>14 DEF OwedInv
<1> QED
  BY <1>3, <1>4

(* The keystroke that is answered leaves what follows it.                  *)
LEMMA TakesOwed ==
  ASSUME WaitInv, OwedInv, OneDriver(Octets), NEW look, look = Early(Undecoded, is_closed),
         look.res = "KEY", KeyWithin(look, Undecoded), ReturnsKey(look),
         owed # <<>>, Line, wire' = wire
  PROVE  OwedInv' /\ look.key = Head(owed)
<1>1. PICK ks, rest : OwedAre(ks) /\ Splits(ks, rest) /\ ComesLast(ks, rest)
  BY DEF OwedInv
<1>2. /\ Len(ks) \in Nat \ {0} /\ ks[1] \in DOMAIN Keystrokes
      /\ rest[1] \in Seq(Octets) /\ Sent = ks[1] \o rest[1]
      /\ Head(owed) = Keystrokes[ks[1]]
  BY <1>1, NextOwed DEF WaitInv
<1>3. TakesAll(look, ks[1]) /\ Len(ks[1]) <= Len(Undecoded)
  BY <1>1, FindsOwed DEF WaitInv
<1>4. look.key = Head(owed)
  BY <1>2, <1>3 DEF TakesAll
<1>5. PICK u : u = Undecoded /\ u \in Seq(Octets)
  BY UndecodedBytes DEF WaitInv
<1>6. PICK v : v = wire \o coming /\ v \in Seq(Octets) /\ Sent = u \o v
  BY <1>5, SentSplits DEF WaitInv
<1>7. PICK k : k = ks[1] /\ k \in Seq(Octets)
  BY <1>2, KeystrokeBytes
<1>8. Undecoded' = Rest(u, Len(k))
  BY <1>3, <1>5, <1>7, TakesFrom DEF WaitInv, TakesAll
<1>9. Sent' = rest[1]
  <2>1. SplitsAs(u, v, k, rest[1])
    <3>1. \A a \in Seq(Octets), b \in Seq(Octets), q \in Seq(Octets), r \in Seq(Octets) :
            a \o b = q \o r => SplitsAs(a, b, q, r)
      BY SplitTwice
    <3>2. u \o v = k \o rest[1]
      BY <1>2, <1>6, <1>7
    <3> QED
      BY <1>2, <1>5, <1>6, <1>7, <3>1, <3>2, Zenon
  <2>2. Rest(u, Len(k)) \o v = rest[1]
    BY <1>3, <1>5, <1>7, <2>1 DEF SplitsAs
  <2>3. PICK un : un = Rest(u, Len(k)) /\ un \in Seq(Octets)
    <3>1. Len(k) \in 0 .. Len(u)
      BY <1>3, <1>5, <1>7, LenProperties
    <3> QED
      BY <1>5, <3>1, RestIs
  <2>4. wire \in Seq(Octets) /\ coming \in Seq(Octets) /\ un \in Seq(Octets)
    BY <2>3 DEF WaitInv, WaitTypes
  <2>5. (un \o wire) \o coming = un \o (wire \o coming)
    BY ONLY <2>4, OctetsJoin, Zenon
  <2>6. Sent' = (un \o wire) \o coming
    BY <1>8, <2>3 DEF Sent, Line
  <2> QED
    BY <1>6, <2>2, <2>3, <2>5, <2>6
<1> DEFINE n == Len(ks)
           rest2 == [i \in 0 .. n - 1 |-> rest[i + 1]]
<1>10. Len(owed) = n /\ owed \in Seq(Keys) /\ owed' = Tail(owed) /\ n \in Nat /\ n > 0
  BY <1>1, <1>2 DEF OwedAre, WaitInv, WaitTypes, ReturnsKey
<1>11. ks # <<>> /\ ks \in Seq(DOMAIN Keystrokes)
  BY <1>1, <1>10, EmptySeq DEF OwedAre
<1>12. PICK ks2 : /\ ks2 = Tail(ks) /\ ks2 \in Seq(DOMAIN Keystrokes) /\ Len(ks2) = n - 1
                  /\ \A i \in 1 .. n - 1 : ks2[i] = ks[i + 1]
  BY <1>11, LessOwed
<1>13. Len(owed') = n - 1 /\ \A i \in 1 .. n - 1 : owed'[i] = owed[i + 1]
  BY <1>10, LessOwed
<1>14. \A i \in 1 .. n - 1 : i + 1 \in 1 .. n /\ (i < n - 1 => i + 1 < n)
  BY <1>10
<1>15. cut' = cut /\ coming' = coming
  BY DEF Line
<1>16. OwedAre(ks2)'
  BY <1>1, <1>12, <1>13, <1>14, <1>15 DEF OwedAre
<1>17. \A i \in 0 .. n - 1 : i + 1 \in 0 .. n /\ rest2[i] = rest[i + 1]
  BY <1>10
<1>18. rest2 \in [0 .. n - 1 -> Seq(Octets)]
  BY <1>1, <1>17 DEF Splits
<1> HIDE DEF rest2
<1>19. Splits(ks2, rest2)'
  <2>1. rest2 \in [0 .. Len(ks2) -> Seq(Octets)]
    BY <1>12, <1>18
  <2>2. rest2[0] = Sent'
    <3>1. 0 \in 0 .. n - 1 /\ 0 + 1 = 1
      BY <1>10
    <3> QED
      BY <1>9, <1>17, <3>1
  <2>3. \A i \in 1 .. Len(ks2) : rest2[i - 1] = ks2[i] \o rest2[i]
    <3> SUFFICES ASSUME NEW i \in 1 .. n - 1 PROVE rest2[i - 1] = ks2[i] \o rest2[i]
      BY <1>12
    <3>1. /\ i - 1 \in 0 .. n - 1 /\ i \in 0 .. n - 1 /\ i + 1 \in 1 .. n
          /\ (i - 1) + 1 = i /\ (i + 1) - 1 = i
      BY <1>10
    <3>2. rest2[i - 1] = rest[i] /\ rest2[i] = rest[i + 1] /\ ks2[i] = ks[i + 1]
      BY <1>12, <1>17, <3>1
    <3>3. rest[(i + 1) - 1] = ks[i + 1] \o rest[i + 1]
      BY <1>1, <3>1 DEF Splits
    <3> QED
      BY <3>1, <3>2, <3>3
  <2>4. ~cut => rest2[Len(ks2)] = <<>>
    <3>1. n - 1 \in 0 .. n - 1 /\ (n - 1) + 1 = n
      BY <1>10
    <3>2. rest2[n - 1] = rest[n]
      BY <1>17, <3>1
    <3> QED
      BY <1>1, <1>12, <3>2 DEF Splits
  <2> QED
    BY <1>15, <2>1, <2>2, <2>3, <2>4 DEF Splits
<1>20. ComesLast(ks2, rest2)'
  <2> SUFFICES ASSUME coming # <<>>
               PROVE  ~cut /\ Len(ks2) > 0
                      /\ \A i \in 0 .. Len(ks2) - 1 : Len(coming) <= Len(rest2[i])
    BY <1>15 DEF ComesLast
  <2>1. ~cut /\ \A i \in 0 .. n - 1 : Len(coming) <= Len(rest[i])
    BY <1>1 DEF ComesLast
  <2>2. n # 1
    <3> SUFFICES ASSUME n = 1 PROVE FALSE
      OBVIOUS
    <3>1. rest[1] = <<>>
      BY <1>1, <2>1 DEF Splits
    <3>2. Rest(u, Len(k)) \o v = <<>>
      <4>1. SplitsAs(u, v, k, rest[1])
        <5>1. \A a \in Seq(Octets), b \in Seq(Octets), q \in Seq(Octets), r \in Seq(Octets) :
                a \o b = q \o r => SplitsAs(a, b, q, r)
          BY SplitTwice
        <5>2. u \o v = k \o rest[1]
          BY <1>2, <1>6, <1>7
        <5> QED
          BY <1>2, <1>5, <1>6, <1>7, <5>1, <5>2, Zenon
      <4> QED
        BY <1>3, <1>5, <1>7, <3>1, <4>1 DEF SplitsAs
    <3>3. Len(k) \in 0 .. Len(u)
      BY <1>3, <1>5, <1>7, LenProperties
    <3>4. PICK un : un = Rest(u, Len(k)) /\ un \in Seq(Octets)
      BY <1>5, <3>3, RestIs
    <3>5. Len(un) + Len(v) = 0 /\ Len(v) = Len(wire) + Len(coming)
      BY <1>6, <3>2, <3>4, ConcatProperties, EmptySeq DEF WaitInv, WaitTypes
    <3>6. Len(coming) \in Nat \ {0} /\ Len(un) \in Nat /\ Len(wire) \in Nat
      BY <3>4, LenProperties, EmptySeq DEF WaitInv, WaitTypes
    <3> QED
      BY <3>5, <3>6
  <2>3. Len(ks2) > 0
    BY <1>10, <1>12, <2>2
  <2>4. \A i \in 0 .. Len(ks2) - 1 : i \in 0 .. n - 1 /\ i + 1 \in 0 .. n - 1
    BY <1>10, <1>12
  <2> QED
    BY <1>17, <2>1, <2>3, <2>4
<1> QED
  BY <1>4, <1>16, <1>19, <1>20 DEF OwedInv

(* What is left when no key is owed: the beginning of one, cut off, or     *)
(* nothing.                                                                *)
LEMMA NoneOwed ==
  ASSUME WaitInv', owed' = <<>>, coming' = <<>>, cut' \/ Sent' = <<>>
  PROVE  OwedInv'
<1>0. PICK sent : sent = Sent'
  OBVIOUS
<1> DEFINE rest == [i \in 0 .. 0 |-> sent]
<1>1. PICK ks \in Seq(DOMAIN Keystrokes) : Len(ks) = 0
  BY EmptySeq
<1>2. Sent' \in Seq(Octets)
  <2>1. /\ pending' \in Seq(Octets) /\ hightide' \in 0 .. Len(pending')
        /\ wire' \in Seq(Octets) /\ coming' \in Seq(Octets)
    BY DEF WaitInv, WaitTypes
  <2>2. Undecoded' \in Seq(Octets)
    BY <2>1, RestIs DEF Undecoded
  <2> QED
    BY <2>1, <2>2, OctetsJoin DEF Sent
<1>3. rest \in [0 .. 0 -> Seq(Octets)] /\ rest[0] = Sent'
  BY <1>0, <1>2
<1> HIDE DEF rest
<1>4. OwedAre(ks)'
  BY <1>1, EmptySeq DEF OwedAre
<1>5. Splits(ks, rest)'
  <2>1. rest \in [0 .. Len(ks) -> Seq(Octets)]
    BY <1>1, <1>3
  <2>2. \A i \in 1 .. Len(ks) : FALSE
    BY <1>1
  <2>3. ~cut' => rest[Len(ks)] = <<>>
    BY <1>0, <1>1, <1>3
  <2> QED
    BY <1>3, <2>1, <2>2, <2>3 DEF Splits
<1>6. ComesLast(ks, rest)'
  BY DEF ComesLast
<1> QED
  BY <1>4, <1>5, <1>6 DEF OwedInv

-----------------------------------------------------------------------------
(* The steps of TermKeyWait.                                               *)
LEMMA ForceTypes == ASSUME WaitInv, getkey_force PROVE WaitInv'
<1>1. PICK look : look = Late(Undecoded, is_closed)
  OBVIOUS
<1>2. /\ look.res = "KEY" /\ KeyWithin(look, Undecoded) /\ ReturnsKey(look)
      /\ Line /\ UNCHANGED <<wire, is_closed>>
  BY <1>1, ForceCases
<1> QED
  BY <1>2, ReturnsKeyTypes

(* There is room for a read with nothing pending.                          *)
LEMMA ReadRoom == ASSUME WaitInv, pc = "read" PROVE Room > 0
<1>1. pending = <<>> /\ BufSize \in Nat \ {0}
  BY WaitAssumption DEF WaitInv, EndInv
<1>2. Len(<<>>) = 0
  BY EmptySeq
<1> QED
  BY <1>1, <1>2 DEF Room

LEMMA ReadTypes ==
  ASSUME WaitInv, read \/ poll_readable
  PROVE  WaitInv' /\ Undecoded' \o wire' = Undecoded \o wire
<1>1. CASE read
  BY <1>1, ReadRoom, ReadableTypes DEF read
<1>2. CASE poll_readable
  BY <1>2, ReadableTypes DEF poll_readable, WaitInv, EndInv
<1> QED
  BY <1>1, <1>2

(* The steps that touch no bytes.                                          *)
LEMMA IdleSteps ==
  ASSUME read_interrupted \/ poll_full \/ poll_timeout \/ poll_interrupted \/ waitkey
  PROVE  /\ UNCHANGED <<coming, hung, cut, wire, pending, hightide, is_closed, owed, last>>
         /\ \/ pc' = "out" /\ res' \in {"EINTR", "ENOMEM"}
            \/ pc = "poll" /\ pc' = "force" /\ poll_timeout
            \/ pc' = "getkey"
BY DEF read_interrupted, poll_full, poll_timeout, poll_interrupted, waitkey,
       Line, Returns, Reaches

LEMMA IdleTypes ==
  ASSUME WaitInv, read_interrupted \/ poll_full \/ poll_timeout \/ poll_interrupted \/ waitkey
  PROVE  WaitInv'
<1>1. /\ UNCHANGED <<coming, hung, cut, wire, pending, hightide, is_closed, owed>>
      /\ pc' \in {"out", "getkey", "force"} /\ (pc' = "force" => pc = "poll")
  BY IdleSteps
<1>2. Undecoded' = Undecoded
  BY <1>1 DEF Undecoded
<1>3. pc' # "read" /\ pc' # "poll"
  BY <1>1
<1> QED
  BY <1>1, <1>2, <1>3 DEF WaitInv, WaitTypes, EndInv

LEMMA WaitStep ==
  ASSUME NoMetaStrings, WaitInv, [WaitNext]_waitvars
  PROVE  WaitInv'
<1>1. CASE Press \/ Arrive \/ Hangup
  BY <1>1, PressTypes, ArriveTypes, HangupTypes
<1>2. CASE getkey \/ getkey_force
  BY <1>2, GetkeyTypes, ForceTypes
<1>3. CASE read \/ poll_readable
  BY <1>3, ReadTypes
<1>4. CASE read_interrupted \/ poll_full \/ poll_timeout \/ poll_interrupted \/ waitkey
  BY <1>4, IdleTypes
<1>5. CASE UNCHANGED waitvars
  BY <1>5 DEF waitvars, WaitInv, WaitTypes, EndInv, Undecoded
<1> QED
  BY <1>1, <1>2, <1>3, <1>4, <1>5 DEF WaitNext, Waits

LEMMA WaitStarts == ASSUME WaitInit PROVE WaitInv
<1>1. <<>> \in Seq(Octets) /\ <<>> \in Seq(Keys) /\ 0 \in 0 .. Len(<<>>)
  BY EmptySeq
<1> QED
  BY <1>1 DEF WaitInit, WaitInv, WaitTypes, EndInv

EofStep == pc # "out" /\ res' = "EOF" /\ pc' = "out" => hung /\ wire = <<>> /\ Undecoded = <<>>

LEMMA EofAnswered ==
  ASSUME WaitInv, [WaitNext]_waitvars
  PROVE  EofStep
<1>1. CASE Press \/ Arrive \/ Hangup
  BY <1>1 DEF Press, Arrive, Hangup, EofStep
<1>2. CASE getkey
  <2>1. PICK look : look = Early(Undecoded, is_closed)
    OBVIOUS
  <2>2. \/ ReturnsKey(look) \/ Reaches("read") \/ Reaches("poll") \/ Reaches("force")
        \/ Undecoded = <<>> /\ is_closed
    BY <1>2, <2>1, GetkeyCases DEF WaitInv
  <2> QED
    BY <2>2 DEF ReturnsKey, Reaches, EofStep, WaitInv, EndInv
<1>3. CASE getkey_force
  <2>1. PICK look : look = Late(Undecoded, is_closed)
    OBVIOUS
  <2>2. ReturnsKey(look)
    BY <1>3, <2>1, ForceCases
  <2> QED
    BY <2>2 DEF ReturnsKey, EofStep
<1>4. CASE read \/ poll_readable
  BY <1>4 DEF read, poll_readable, advisereadable, Reaches, EofStep
<1>5. CASE read_interrupted \/ poll_full \/ poll_timeout \/ poll_interrupted \/ waitkey
  BY <1>5, IdleSteps DEF EofStep
<1>6. CASE UNCHANGED waitvars
  BY <1>6 DEF waitvars, EofStep
<1> QED
  BY <1>1, <1>2, <1>3, <1>4, <1>5, <1>6 DEF WaitNext, Waits

(* A waitkey answers EOF only after the hangup, with every byte that came  *)
(* before it read and decoded: the end of the file overtakes nothing that  *)
(* was typed, not even the beginning of a key.                             *)
THEOREM EofComesLast == ASSUME NoMetaStrings PROVE WaitSpec => EofIsLast
<1>1. WaitInit => WaitInv
  BY WaitStarts
<1>2. WaitInv /\ [WaitNext]_waitvars => WaitInv'
  BY WaitStep
<1>3. WaitInv /\ [WaitNext]_waitvars => [EofStep]_waitvars
  BY EofAnswered
<1> QED
  BY <1>1, <1>2, <1>3, PTL DEF WaitSpec, EofIsLast, EofStep

(* A forced look at a keystroke after which the user waits takes it.       *)
LEMMA ForceOwed ==
  ASSUME WaitInv, ForceInv, getkey_force, NEW look, look = Late(Undecoded, is_closed)
  PROVE  /\ owed' = <<>> /\ coming = <<>> /\ coming' = <<>>
         /\ \/ owed = <<>> /\ cut /\ cut'
            \/ owed # <<>> /\ look.key = Head(owed) /\ Sent' = <<>>
<1>1. /\ look.res = "KEY" /\ KeyWithin(look, Undecoded) /\ ReturnsKey(look)
      /\ Line /\ UNCHANGED <<wire, is_closed>>
  BY ForceCases
<1>2. pc = "force"
  BY DEF getkey_force
<1>3. CASE owed = <<>> /\ cut
  BY <1>1, <1>3 DEF ReturnsKey, Line, WaitInv, EndInv
<1>4. ASSUME NEW k \in DOMAIN Keystrokes \ Hasty,
             owed = <<Keystrokes[k]>>, Undecoded = k, wire = <<>>, coming = <<>>
      PROVE  /\ owed' = <<>> /\ coming' = <<>> /\ owed # <<>>
             /\ look.key = Head(owed) /\ Sent' = <<>>
  <2>1. owed # <<>> /\ Head(owed) = Keystrokes[k] /\ Tail(owed) = <<>>
    BY <1>4
  <2>2. TakesAll(look, k)
    <3>1. Early(k, is_closed).res = "AGAIN" /\ is_closed \in BOOLEAN
      BY <1>2, <1>4 DEF ForceInv, WaitInv, WaitTypes
    <3>2. \/ TakesAll(Early(k, is_closed), k)
          \/ TakesAll(Late(k, is_closed), k)
      BY <3>1, KeystrokeLooks
    <3> QED
      BY <1>4, <3>1, <3>2 DEF TakesAll
  <2>3. k \in Seq(Octets) /\ Len(k) \in 0 .. Len(k)
    BY KeystrokeBytes, LenProperties
  <2>4. Undecoded' = Rest(k, Len(k))
    BY <1>1, <1>4, <2>2, TakesFrom DEF TakesAll, WaitInv
  <2>5. Undecoded' = <<>>
    BY <2>3, <2>4, RestIs
  <2>6. Sent' = (<<>> \o <<>>) \o <<>>
    BY <1>1, <1>4, <2>5 DEF Sent, Line
  <2>7. <<>> \o <<>> = <<>>
    BY EmptySeq, ConcatEmptySeq
  <2> QED
    BY <1>1, <1>4, <2>1, <2>2, <2>6, <2>7 DEF TakesAll, ReturnsKey, Line
<1> QED
  BY <1>1, <1>2, <1>3, <1>4 DEF ForceInv

LEMMA GetkeyOwed ==
  ASSUME NoMetaStrings, OneDriver(Octets), KeystrokesInv, getkey
  PROVE  OwedInv' /\ ForceInv' /\ (pc' = "out" /\ res' = "KEY" =>
                                     IF owed = <<>> THEN cut ELSE last' = Head(owed))
<1>1. PICK look : look = Early(Undecoded, is_closed)
  OBVIOUS
<1>2. WaitInv /\ OwedInv /\ WaitInv'
  BY GetkeyTypes DEF KeystrokesInv
<1>3. /\ Line /\ UNCHANGED <<wire, is_closed>> /\ KeyWithin(look, Undecoded)
      /\ \/ look.res = "KEY" /\ ReturnsKey(look) /\ Undecoded # <<>>
         \/ look.res = "EOF" /\ Drops /\ Returns("EOF") /\ Undecoded = <<>> /\ is_closed
         \/ look.res = "NONE" /\ Drops /\ Reaches("read") /\ Undecoded = <<>>
         \/ /\ look.res = "AGAIN" /\ LeavesBytes /\ Undecoded # <<>>
            /\ \/ ~is_closed /\ Reaches("poll")
               \/ is_closed /\ Reaches("force")
  BY <1>1, <1>2, GetkeyCases DEF WaitInv
<1>4. coming' = coming /\ cut' = cut /\ hung' = hung /\ wire' = wire /\ is_closed' = is_closed
  BY <1>3 DEF Line
<1>5. CASE look.res = "KEY" /\ ReturnsKey(look) /\ Undecoded # <<>>
  <2>1. pc' = "out" /\ last' = look.key /\ (owed = <<>> => owed' = <<>>)
    BY <1>5 DEF ReturnsKey
  <2>2. ForceInv'
    BY <2>1 DEF ForceInv
  <2>3. CASE owed = <<>>
    <3>1. cut /\ coming = <<>>
      BY <1>2, <1>5, <2>3, FindsNothingElse DEF OwedInv, WaitInv, EndInv
    <3>2. OwedInv'
      BY <1>2, <1>4, <2>1, <2>3, <3>1, NoneOwed
    <3> QED
      BY <2>2, <2>3, <3>1, <3>2
  <2>4. CASE owed # <<>>
    <3>1. OwedInv' /\ look.key = Head(owed)
      BY <1>1, <1>2, <1>3, <1>5, <2>4, TakesOwed
    <3> QED
      BY <2>1, <2>2, <2>4, <3>1
  <2> QED
    BY <2>3, <2>4
<1>6. CASE Undecoded = <<>> /\ Drops /\ (Returns("EOF") \/ Reaches("read"))
  <2>1. owed' = owed /\ (pc' = "read" \/ (pc' = "out" /\ res' = "EOF"))
    BY <1>6 DEF Returns, Reaches
  <2>2. Undecoded' = Rest(<<>>, 0)
    BY <1>2, <1>6, DropsAll DEF Undecoded, WaitInv
  <2>3. Rest(<<>>, 0) = <<>>
    <3>1. <<>> \in Seq(Octets) /\ 0 \in 0 .. Len(<<>>) /\ 0 = Len(<<>>)
      BY EmptySeq
    <3> QED
      BY <3>1, RestIs
  <2>4. Sent' = Sent
    BY <1>4, <1>6, <2>2, <2>3 DEF Sent
  <2>5. OwedInv'
    BY <1>2, <1>4, <2>1, <2>4, SameOwed
  <2> QED
    BY <2>1, <2>5 DEF ForceInv
<1>7. CASE look.res = "AGAIN" /\ LeavesBytes
           /\ ((~is_closed /\ Reaches("poll")) \/ (is_closed /\ Reaches("force")))
  <2>1. owed' = owed /\ (pc' = "poll" \/ (pc' = "force" /\ is_closed))
    BY <1>7 DEF Reaches
  <2>2. Undecoded' = Undecoded
    BY <1>1, <1>2, <1>3, <1>7, <2>1, LeavesTypes
  <2>3. Sent' = Sent
    BY <1>4, <2>2 DEF Sent
  <2>4. OwedInv'
    BY <1>2, <1>4, <2>1, <2>3, SameOwed
  <2>5. Early(Undecoded, is_closed)' = look
    BY <1>1, <1>4, <2>2 DEF Early
  <2>6. pc' = "force" => \/ owed = <<>> /\ cut
                         \/ \E k \in DOMAIN Keystrokes \ Hasty :
                              /\ owed = <<Keystrokes[k]>> /\ Undecoded = k
                              /\ wire = <<>> /\ coming = <<>>
    <3>1. pc' = "force" => wire = <<>> /\ coming = <<>>
      BY <1>2, <2>1 DEF WaitInv, EndInv
    <3> QED
      BY <1>1, <1>2, <1>7, <3>1, WaitsForLast DEF WaitInv
  <2>7. ForceInv'
    BY <1>4, <1>7, <2>1, <2>2, <2>5, <2>6 DEF ForceInv
  <2> QED
    BY <2>1, <2>4, <2>7
<1> QED
  BY <1>3, <1>5, <1>6, <1>7, Zenon

LEMMA TimeoutForces ==
  ASSUME Timely, OneDriver(Octets), KeystrokesInv, poll_timeout
  PROVE  \/ owed = <<>> /\ cut
         \/ \E k \in DOMAIN Keystrokes \ Hasty :
              owed = <<Keystrokes[k]>> /\ Undecoded = k /\ wire = <<>> /\ coming = <<>>
<1>1. pc = "poll" /\ wire = <<>> /\ coming = <<>>
  BY DEF poll_timeout
<1>2. Early(Undecoded, is_closed).res = "AGAIN"
  BY <1>1 DEF KeystrokesInv, ForceInv
<1> QED
  BY <1>1, <1>2, WaitsForLast DEF KeystrokesInv, WaitInv

LEMMA IdleOwed ==
  ASSUME Timely, OneDriver(Octets), KeystrokesInv,
         read_interrupted \/ poll_full \/ poll_timeout \/ poll_interrupted \/ waitkey
  PROVE  OwedInv' /\ ForceInv'
<1>1. /\ UNCHANGED <<coming, hung, cut, wire, pending, hightide, is_closed, owed>>
      /\ \/ pc' = "out" \/ pc' = "getkey"
         \/ pc = "poll" /\ pc' = "force" /\ poll_timeout
  BY IdleSteps
<1>2. Undecoded' = Undecoded
  BY <1>1 DEF Undecoded
<1>3. Sent' = Sent
  BY <1>1, <1>2 DEF Sent
<1>4. OwedInv'
  BY <1>1, <1>3, SameOwed DEF KeystrokesInv
<1>5. Early(Undecoded, is_closed)' = Early(Undecoded, is_closed)
  BY <1>1, <1>2 DEF Early
<1>6. ForceInv'
  <2>1. pc' \in {"poll", "force"} => pc = "poll" /\ pc' = "force" /\ poll_timeout
    BY <1>1
  <2>2. pc' = "force" => Early(Undecoded, is_closed).res = "AGAIN"
    BY <2>1 DEF KeystrokesInv, ForceInv
  <2> QED
    BY <1>1, <1>2, <1>5, <2>1, <2>2, TimeoutForces DEF ForceInv
<1> QED
  BY <1>4, <1>6

LEMMA ReadOwed ==
  ASSUME OneDriver(Octets), KeystrokesInv, read \/ poll_readable
  PROVE  OwedInv' /\ ForceInv'
<1>1. /\ Undecoded' \o wire' = Undecoded \o wire /\ WaitInv /\ WaitTypes
      /\ Line /\ owed' = owed
  BY ReadTypes DEF KeystrokesInv, WaitInv, read, poll_readable, advisereadable, Reaches
<1>2. coming' = coming /\ cut' = cut
  BY <1>1 DEF Line
<1>3. Sent' = Sent
  BY <1>1, <1>2 DEF Sent
<1>4. OwedInv'
  BY <1>1, <1>2, <1>3, SameOwed DEF KeystrokesInv
<1>5. CASE pc' = "getkey"
  BY <1>4, <1>5 DEF ForceInv
<1>6. CASE pc' # "getkey"
  <2>1. /\ pc = "poll" /\ pc' = "force" /\ wire = <<>> /\ hung
        /\ UNCHANGED <<wire, pending, hightide>>
    BY <1>6 DEF read, poll_readable, advisereadable, Reaches
  <2>2. coming = <<>> /\ Undecoded' = Undecoded /\ wire' = wire
    BY <1>1, <2>1 DEF WaitInv, EndInv, Undecoded
  <2>3. Early(Undecoded, is_closed).res = "AGAIN"
    BY <2>1 DEF KeystrokesInv, ForceInv
  <2>4. Early(Undecoded, is_closed').res = "AGAIN"
    BY <1>1, <2>3, UndecodedBytes, EarlyAgain
  <2>5. Early(Undecoded, is_closed)' = Early(Undecoded, is_closed')
    BY <2>2 DEF Early
  <2>6. \/ owed = <<>> /\ cut
        \/ \E k \in DOMAIN Keystrokes \ Hasty :
             owed = <<Keystrokes[k]>> /\ Undecoded = k /\ wire = <<>> /\ coming = <<>>
    BY <1>1, <2>1, <2>2, <2>3, WaitsForLast DEF KeystrokesInv
  <2>7. ForceInv'
    BY <1>1, <1>2, <2>1, <2>2, <2>4, <2>5, <2>6 DEF ForceInv
  <2> QED
    BY <1>4, <2>7
<1> QED
  BY <1>5, <1>6

(* While a key is forced nothing is pressed, comes or is cut off.          *)
LEMMA LineOwed ==
  ASSUME KeystrokesInv, Press \/ Arrive \/ Hangup
  PROVE  OwedInv' /\ ForceInv'
<1>1. WaitInv /\ OwedInv
  BY DEF KeystrokesInv
<1>2. OwedInv'
  <2>1. CASE Arrive
    <3>1. Sent' = Sent /\ coming \in Seq(Octets) /\ coming' \in Seq(Octets) /\ coming # <<>>
          /\ Len(coming') <= Len(coming)
      BY <1>1, <2>1, ArriveSent
    <3>2. UNCHANGED <<owed, cut>>
      BY <2>1 DEF Arrive
    <3> QED
      BY <1>1, <3>1, <3>2, SameOwed
  <2> QED
    BY <1>1, <2>1, PressOwed, HangupOwed
<1>3. /\ UNCHANGED <<pc, pending, hightide, is_closed>>
      /\ Undecoded' = Undecoded /\ Early(Undecoded, is_closed)' = Early(Undecoded, is_closed)
  BY DEF Press, Arrive, Hangup, Undecoded, Early
<1>4. CASE pc # "force"
  BY <1>2, <1>3, <1>4 DEF ForceInv, KeystrokesInv
<1>5. ASSUME pc = "force", cut PROVE FALSE
  <2>1. hung /\ coming = <<>>
    BY <1>1, <1>5 DEF WaitInv, EndInv
  <2> QED
    BY <2>1 DEF Press, Arrive, Hangup
<1>6. ASSUME pc = "force", NEW k \in DOMAIN Keystrokes \ Hasty,
             owed = <<Keystrokes[k]>>, Undecoded = k, wire = <<>>, coming = <<>>
      PROVE  ForceInv'
  <2>1. ~Press
    <3> SUFFICES ASSUME Press PROVE FALSE
      OBVIOUS
    <3>1. 1 \in DOMAIN owed /\ owed[1] = Keystrokes[k]
      BY <1>6
    <3>2. PICK h \in Hasty : owed[1] = Keystrokes[h]
      BY <3>1 DEF Press
    <3>3. \E c : c \in BOOLEAN
      OBVIOUS
    <3>4. Keystrokes[h] # Keystrokes[k]
      BY <1>6, <3>2, <3>3, KeystrokesAssumption, Zenon
    <3> QED
      BY <3>1, <3>2, <3>4
  <2>2. owed' = owed /\ coming' = <<>> /\ wire' = wire
    BY <1>6, <2>1 DEF Arrive, Hangup
  <2>3. Early(Undecoded, is_closed).res = "AGAIN"
    BY <1>6 DEF KeystrokesInv, ForceInv
  <2> QED
    BY <1>3, <1>6, <2>2, <2>3 DEF ForceInv
<1> QED
  BY <1>2, <1>4, <1>5, <1>6 DEF KeystrokesInv, ForceInv

LEMMA ForcedOwed ==
  ASSUME KeystrokesInv, getkey_force
  PROVE  OwedInv' /\ ForceInv' /\ (IF owed = <<>> THEN cut ELSE last' = Head(owed))
<1>1. PICK look : look = Late(Undecoded, is_closed)
  OBVIOUS
<1>2. WaitInv /\ WaitInv' /\ ForceInv
  BY ForceTypes DEF KeystrokesInv
<1>3. /\ owed' = <<>> /\ coming = <<>> /\ coming' = <<>>
      /\ \/ owed = <<>> /\ cut /\ cut'
         \/ owed # <<>> /\ look.key = Head(owed) /\ Sent' = <<>>
  BY <1>1, <1>2, ForceOwed
<1>4. OwedInv'
  BY <1>2, <1>3, NoneOwed
<1>5. pc' = "out" /\ last' = look.key
  BY <1>1, <1>2, ForceCases DEF ReturnsKey
<1>6. ForceInv'
  BY <1>5 DEF ForceInv
<1> QED
  BY <1>3, <1>4, <1>5, <1>6

KeyStep ==
  getkey \/ getkey_force =>
    (res' = "KEY" /\ pc' = "out" => IF owed = <<>> THEN cut ELSE last' = Head(owed))

LEMMA KeystrokesStep ==
  ASSUME NoMetaStrings, OneDriver(Octets), Timely, KeystrokesInv, [WaitNext]_waitvars
  PROVE  KeystrokesInv'
<1>1. WaitInv'
  BY WaitStep DEF KeystrokesInv
<1>2. CASE Press \/ Arrive \/ Hangup
  BY <1>1, <1>2, LineOwed DEF KeystrokesInv
<1>3. CASE getkey
  BY <1>1, <1>3, GetkeyOwed DEF KeystrokesInv
<1>4. CASE getkey_force
  BY <1>1, <1>4, ForcedOwed DEF KeystrokesInv
<1>5. CASE read \/ poll_readable
  BY <1>1, <1>5, ReadOwed DEF KeystrokesInv
<1>6. CASE read_interrupted \/ poll_full \/ poll_timeout \/ poll_interrupted \/ waitkey
  BY <1>1, <1>6, IdleOwed DEF KeystrokesInv
<1>7. CASE UNCHANGED waitvars
  <2>1. /\ UNCHANGED <<coming, wire, pending, hightide, is_closed, pc, owed, cut>>
        /\ Undecoded' = Undecoded
    BY <1>7 DEF waitvars, Undecoded
  <2>2. Sent' = Sent /\ Early(Undecoded, is_closed)' = Early(Undecoded, is_closed)
    BY <2>1 DEF Sent, Early
  <2>3. OwedInv'
    BY <2>1, <2>2, SameOwed DEF KeystrokesInv
  <2>4. ForceInv'
    BY <2>1, <2>2 DEF KeystrokesInv, ForceInv
  <2> QED
    BY <1>1, <2>3, <2>4 DEF KeystrokesInv
<1> QED
  BY <1>2, <1>3, <1>4, <1>5, <1>6, <1>7 DEF WaitNext, Waits

LEMMA KeystrokesStart == ASSUME WaitInit PROVE KeystrokesInv
<1>1. PICK ks \in Seq(DOMAIN Keystrokes) : Len(ks) = 0
  BY EmptySeq
<1>2. WaitInv
  BY WaitStarts
<1>3. Sent = <<>> /\ Sent \in Seq(Octets)
  <2>1. wire = <<>> /\ coming = <<>> /\ pending = <<>> /\ hightide = 0
    BY DEF WaitInit
  <2>2. 0 \in 0 .. Len(pending) /\ pending \in Seq(Octets) /\ 0 = Len(pending)
    BY <2>1, EmptySeq
  <2>3. Undecoded = <<>>
    BY <2>1, <2>2, RestIs DEF Undecoded
  <2>4. Sent = Undecoded
    BY <1>2, <2>1, AllRead DEF WaitInv
  <2> QED
    BY <2>3, <2>4, EmptySeq
<1> DEFINE rest == [i \in 0 .. 0 |-> Sent]
<1>4. rest \in [0 .. 0 -> Seq(Octets)] /\ rest[0] = Sent
  BY <1>3
<1> HIDE DEF rest
<1>5. OwedAre(ks)
  BY <1>1, EmptySeq DEF OwedAre, WaitInit
<1>6. Splits(ks, rest)
  <2>1. rest \in [0 .. Len(ks) -> Seq(Octets)] /\ rest[Len(ks)] = <<>>
    BY <1>1, <1>3, <1>4
  <2>2. \A i \in 1 .. Len(ks) : FALSE
    BY <1>1
  <2> QED
    BY <1>4, <2>1, <2>2 DEF Splits
<1>7. ComesLast(ks, rest)
  BY DEF ComesLast, WaitInit
<1> QED
  BY <1>2, <1>5, <1>6, <1>7 DEF KeystrokesInv, OwedInv, ForceInv, WaitInit

LEMMA KeyAnswered ==
  ASSUME NoMetaStrings, OneDriver(Octets), KeystrokesInv
  PROVE  KeyStep
<1>1. CASE getkey
  BY <1>1, GetkeyOwed DEF KeyStep
<1>2. CASE getkey_force
  BY <1>2, ForcedOwed DEF KeyStep
<1> QED
  BY <1>1, <1>2 DEF KeyStep

(* Each waitkey that answers KEY answers with the next key the user        *)
(* pressed, however its bytes were delayed: if the bytes of a key follow   *)
(* each other within waittime, no timeout and no end of the file makes two *)
(* keys of one, and none is lost.  Only the beginning of a key that a      *)
(* hangup cut off comes as something else, after all whole ones.           *)
THEOREM KeysComeInOrder ==
  ASSUME NoMetaStrings, OneDriver(0 .. 255), Timely
  PROVE  WaitSpec => KeysInOrder
<1>1. WaitInit => KeystrokesInv
  BY KeystrokesStart
<1>2. KeystrokesInv /\ [WaitNext]_waitvars => KeystrokesInv'
  BY KeystrokesStep DEF Octets
<1>3. KeystrokesInv /\ [WaitNext]_waitvars => [KeyStep]_waitvars
  BY KeyAnswered DEF Octets
<1> QED
  BY <1>1, <1>2, <1>3, PTL DEF WaitSpec, KeysInOrder, KeyStep
=============================================================================
