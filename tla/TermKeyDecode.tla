---------------------------- MODULE TermKeyDecode ----------------------------
(***************************************************************************)
(* How libtermkey recognises a key at the front of the bytes it holds:     *)
(* the terminfo driver (driver-ti.c), the CSI driver (driver-csi.c) and    *)
(* what peekkey of termkey.c makes of the two.  Nothing here has a state:  *)
(* s is the pending bytes, as numbers, first one first.                    *)
(*                                                                         *)
(* A peek answers "KEY" (with the key, the bytes it takes and those it     *)
(* asks to be kept), "AGAIN", "NONE" or "EOF".                             *)
(***************************************************************************)
EXTENDS Integers, Sequences, SequencesExt

CONSTANTS
  Flags,      \* of "UTF8", "NOINTERPRET", "CONVERTKP", and of the canonflags
              \* "SPACESYMBOL", "DELBS"
  Terminfo,   \* the keys of the terminal: [sequence -> key]
  MouseIntro, \* its key_mouse: a set of sequences, of one or none
  Leftover    \* what an argument slot on the stack holds that nobody wrote

(* A key whose string is absent or empty gets no node in the trie.         *)
ASSUME StringsAssumption ==
  DOMAIN Terminfo \cup MouseIntro \subseteq Seq(0 .. 255) \ {<<>>}

ESC == 27
SHIFT == 0   \* a modifier is the number of its bit
ALT   == 1
CTRL  == 2
Bits(n) == {b \in 0 .. 7 : (n \div 2^b) % 2 = 1}
INVALID == 65533

Rest(s, n) == SubSeq(s, n + 1, Len(s))
Again == [res |-> "AGAIN"]
NoKey == [res |-> "NONE"]
Key(key, n) == [res |-> "KEY", key |-> key, n |-> n, keep |-> 0]
Sym(sym, mods) == [type |-> "KEYSYM", code |-> sym, mods |-> mods]
Unicode(cp, mods) == [type |-> "UNICODE", code |-> cp, mods |-> mods]
Function(n, mods) == [type |-> "FUNCTION", code |-> n, mods |-> mods]
With(key, mods) == [key EXCEPT !.mods = @ \cup mods]

-----------------------------------------------------------------------------
(* termkey.c: a code point becomes a key.                                  *)
termkey_canonicalise(key) ==
  IF "SPACESYMBOL" \in Flags /\ key.type = "UNICODE" /\ key.code = 32
    THEN Sym("SPACE", key.mods)
  ELSE IF "SPACESYMBOL" \notin Flags /\ key.type = "KEYSYM" /\ key.code = "SPACE"
    THEN Unicode(32, key.mods)
  ELSE IF "DELBS" \in Flags /\ key.type = "KEYSYM" /\ key.code = "DEL"
    THEN Sym("BACKSPACE", key.mods)
  ELSE key

c0 == (9 :> "TAB") @@ (13 :> "ENTER") @@ (27 :> "ESCAPE")

emit_codepoint(cp) ==
  LET interpret == "NOINTERPRET" \notin Flags
  IN  termkey_canonicalise(
        CASE cp = 0 -> Sym("SPACE", {CTRL})
          [] cp \in DOMAIN c0 /\ interpret -> Sym(c0[cp], {})
          [] cp \in 1 .. 31 /\ ~(cp \in DOMAIN c0 /\ interpret) ->
               Unicode(cp + (IF cp \in 1 .. 26 THEN 96 ELSE 64), {CTRL})
          [] cp = 127 /\ interpret -> Sym("DEL", {})
          [] cp \in 128 .. 159 -> Unicode(cp - 64, {CTRL, ALT})
          [] OTHER -> Unicode(cp, {}))

(* parse_utf8, of a first byte that is not ASCII.                          *)
SequenceLength(b0) ==
  CASE b0 \in 192 .. 223 -> 2 [] b0 \in 224 .. 239 -> 3 [] b0 \in 240 .. 247 -> 4
    [] b0 \in 248 .. 251 -> 5 [] b0 \in 252 .. 253 -> 6 [] OTHER -> 1

utf8_seqlen(cp) ==
  CASE cp < 128 -> 1 [] cp < 2048 -> 2 [] cp < 65536 -> 3 [] cp < 2097152 -> 4
    [] cp < 67108864 -> 5 [] OTHER -> 6

CodePoint(s) ==
  LET n == Len(s)
      cp[i \in 1 .. n] == IF i = 1 THEN s[1] % 2^(7 - n) ELSE cp[i - 1] * 64 + (s[i] % 64)
      surrogate == cp[n] \in 55296 .. 57343 \/ cp[n] \in {65534, 65535}
  IN  IF n > utf8_seqlen(cp[n]) \/ surrogate THEN INVALID ELSE cp[n]

parse_utf8(s) ==
  LET n   == SequenceLength(s[1])
      bad == SelectInSubSeq(s, 2, IF n < Len(s) THEN n ELSE Len(s),
                            LAMBDA b : b \notin 128 .. 191)
  IN  IF n = 1 THEN [res |-> "KEY", cp |-> INVALID, n |-> 1]
      ELSE IF bad # 0 THEN [res |-> "KEY", cp |-> INVALID, n |-> bad - 1]
      ELSE IF Len(s) < n THEN Again
      ELSE [res |-> "KEY", cp |-> CodePoint(SubSeq(s, 1, n)), n |-> n]

-----------------------------------------------------------------------------
(* driver-csi.c: the letters after CSI or SS3, the numbers before CSI ~,   *)
(* and the keypad letters after SS3 with what CONVERTKP makes of them.     *)
csi_ss3s ==
  (65 :> Sym("UP", {})) @@ (66 :> Sym("DOWN", {})) @@ (67 :> Sym("RIGHT", {}))
    @@ (68 :> Sym("LEFT", {})) @@ (69 :> Sym("BEGIN", {})) @@ (70 :> Sym("END", {}))
    @@ (72 :> Sym("HOME", {})) @@ (90 :> Sym("TAB", {SHIFT}))
    @@ [c \in 80 .. 83 |-> Function(c - 79, {})]

csifuncs ==
  (1 :> Sym("FIND", {})) @@ (2 :> Sym("INSERT", {})) @@ (3 :> Sym("DELETE", {}))
    @@ (4 :> Sym("SELECT", {})) @@ (5 :> Sym("PAGEUP", {})) @@ (6 :> Sym("PAGEDOWN", {}))
    @@ (7 :> Sym("HOME", {})) @@ (8 :> Sym("END", {}))
    @@ [i \in 11 .. 15 |-> Function(i - 10, {})] @@ [i \in 17 .. 21 |-> Function(i - 11, {})]
    @@ [i \in 23 .. 26 |-> Function(i - 12, {})] @@ [i \in 28 .. 29 |-> Function(i - 13, {})]
    @@ [i \in 31 .. 34 |-> Function(i - 14, {})]

Keypad == <<"KP0", "KP1", "KP2", "KP3", "KP4", "KP5", "KP6", "KP7", "KP8", "KP9">>
ss3s ==
  (77 :> Sym("KPENTER", {})) @@ (88 :> Sym("KPEQUALS", {})) @@ (106 :> Sym("KPMULT", {}))
    @@ (107 :> Sym("KPPLUS", {})) @@ (108 :> Sym("KPCOMMA", {})) @@ (109 :> Sym("KPMINUS", {}))
    @@ (110 :> Sym("KPPERIOD", {})) @@ (111 :> Sym("KPDIV", {}))
    @@ [c \in 112 .. 121 |-> Sym(Keypad[c - 111], {})]
(* The code of the alternative: '=' for 'X', and c - 0x40 for the others.  *)
ss3_kpalts == [c \in DOMAIN ss3s \ {77} |-> IF c = 88 THEN 61 ELSE c - 64]

(* parse_csi: the command is the first byte of 0x40 .. 0x7f; before it     *)
(* come an initial byte, numbers between semicolons (-1 where one is       *)
(* missing) and, ending them, an intermediate byte.                        *)
Initials == 60 .. 63
Intermediates == 32 .. 47

AddByte(acc, c) ==
  CASE c \in 48 .. 57 /\ acc.present ->
         [acc EXCEPT !.args[Len(acc.args)] = @ * 10 + c - 48]
    [] c \in 48 .. 57 /\ ~acc.present ->
         [present |-> TRUE, args |-> Append(acc.args, c - 48)]
    [] c = 59 -> [present |-> FALSE,
                  args |-> IF acc.present THEN acc.args ELSE Append(acc.args, -1)]
    [] OTHER -> acc

Initial(body) == IF body # <<>> /\ body[1] \in Initials THEN body[1] ELSE 0
(* at is where the intermediate byte of the body is, or 0.                 *)
Arguments(body, at) ==
  LET numbers == SubSeq(body, IF Initial(body) = 0 THEN 1 ELSE 2,
                        IF at = 0 THEN Len(body) ELSE at)
  IN  FoldLeft(AddByte, [present |-> FALSE, args |-> <<>>], numbers).args

Parsed(cmd, csi_len, body, at) ==
  [res |-> "KEY", cmd |-> cmd, csi_len |-> csi_len, initial |-> Initial(body),
   intermediate |-> IF at = 0 THEN 0 ELSE body[at], args |-> Arguments(body, at)]

parse_csi(s, introlen) ==
  LET Upto(csi_end) == SubSeq(s, introlen + 1, csi_end - 1)
      ParsedTo(csi_end) ==
        IF csi_end = 0 THEN Again
        ELSE Parsed(s[csi_end], csi_end, Upto(csi_end),
                    SelectInSeq(Upto(csi_end), LAMBDA b : b \in Intermediates))
  IN  ParsedTo(SelectInSubSeq(s, introlen + 1, Len(s), LAMBDA b : b \in 64 .. 127))

Arg(csi, i) == IF i < Len(csi.args) THEN csi.args[i + 1] ELSE Leftover
ArgMods(csi) == IF Len(csi.args) > 1 /\ csi.args[2] # -1 THEN Bits(csi.args[2] - 1) ELSE {}
Command(csi) == csi.cmd + 256 * csi.initial + 65536 * csi.intermediate

(* The handlers of csi_handlers, each with the CSI sequences it has a key  *)
(* for.  Those of csi_ss3s index their table with the whole command, so an *)
(* initial or intermediate byte sends them past the end of it: what they   *)
(* find there is taken to be no key.                                       *)
Plain(csi) == csi.initial = 0 /\ csi.intermediate = 0

handle_csi_ss3_full(csi) ==
  IF Plain(csi) /\ csi.cmd \in DOMAIN csi_ss3s
    THEN {With(csi_ss3s[csi.cmd], ArgMods(csi))} ELSE {}

handle_csifunc(csi) ==
  CASE Arg(csi, 0) = 27 -> {With(emit_codepoint(Arg(csi, 2)), ArgMods(csi))}
    [] Arg(csi, 0) \in DOMAIN csifuncs -> {With(csifuncs[Arg(csi, 0)], ArgMods(csi))}
    [] OTHER -> {}

handle_csi_u(csi) ==
  IF Plain(csi) THEN {With(emit_codepoint(Arg(csi, 0)), ArgMods(csi))} ELSE {}

handle_csi_m(csi) ==
  IF Len(csi.args) >= 3 /\ csi.intermediate = 0 /\ csi.initial \in {0, 60}
    THEN {[type |-> "MOUSE", mods |-> {b - 2 : b \in Bits(csi.args[1]) \cap 2 .. 4},
           code |-> [buttons |-> Bits(csi.args[1]) \ 2 .. 4,
                     at |-> <<csi.args[2], csi.args[3]>>,
                     released |-> csi.initial = 60 /\ csi.cmd = 109]]}
    ELSE {}

handle_csi_R(csi) ==
  CASE csi.initial # 63 \/ csi.intermediate # 0 -> handle_csi_ss3_full(csi)
    [] csi.initial = 63 /\ csi.intermediate = 0 /\ csi.args = <<>> -> {Function(3, {})}
    [] csi.initial = 63 /\ csi.intermediate = 0 /\ Len(csi.args) = 2 ->
         {[type |-> "POSITION", code |-> <<csi.args[2], csi.args[1]>>, mods |-> {}]}
    [] OTHER -> {}

handle_csi_y(csi) ==
  IF csi.intermediate = 36 /\ csi.initial \in {0, 63} /\ Len(csi.args) >= 2
    THEN {[type |-> "MODEREPORT", code |-> <<csi.initial, csi.args[1], csi.args[2]>>,
           mods |-> {}]}
    ELSE {}

csi_handlers(csi) ==
  CASE csi.cmd = 126 -> handle_csifunc(csi)
    [] csi.cmd = 117 -> handle_csi_u(csi)
    [] csi.cmd \in {77, 109} -> handle_csi_m(csi)
    [] csi.cmd = 82 -> handle_csi_R(csi)
    [] csi.cmd = 121 -> handle_csi_y(csi)
    [] OTHER -> handle_csi_ss3_full(csi)

-----------------------------------------------------------------------------
(* The drivers: what each makes of s, an introducer of introlen bytes      *)
(* before it.  peekkey_mouse is the X10 encoding, three bytes more.        *)
peekkey_mouse(s, n) ==
  IF Len(s) < n + 3 THEN Again
  ELSE Key([type |-> "MOUSE", mods |-> {b - 2 : b \in Bits(s[n + 1] - 32) \cap 2 .. 4},
            code |-> [buttons |-> Bits(s[n + 1] - 32) \ 2 .. 4,
                      at |-> <<s[n + 2] - 32, s[n + 3] - 32>>, released |-> FALSE]], n + 3)

KeepsIntroducer(csi, introlen) ==  \* mutant: keeps as many bytes as the whole sequence has
  [Key([type |-> "UNKNOWN_CSI", code |-> Command(csi), mods |-> {}], introlen)
     EXCEPT !.keep = csi.csi_len]

KeepsNoCommand(csi, introlen) ==  \* mutant: keeps all but the command byte
  [Key([type |-> "UNKNOWN_CSI", code |-> Command(csi), mods |-> {}], introlen)
     EXCEPT !.keep = csi.csi_len - introlen - 1]

UnknownCsi(csi, introlen) ==
  [Key([type |-> "UNKNOWN_CSI", code |-> Command(csi), mods |-> {}], introlen)
     EXCEPT !.keep = csi.csi_len - introlen]

CsiKey(s, introlen, csi, keys) ==
  IF Plain(csi) /\ csi.cmd = 77 /\ Len(csi.args) < 3
    THEN peekkey_mouse(s, csi.csi_len)
  ELSE IF keys = {} THEN UnknownCsi(csi, introlen)
  ELSE Key(CHOOSE key \in keys : TRUE, csi.csi_len)

peekkey_csi(s, introlen, force) ==
  LET KeyOf(csi) ==
        IF csi # Again THEN CsiKey(s, introlen, csi, csi_handlers(csi))
        ELSE IF force THEN Key(With(emit_codepoint(91), {ALT}), introlen)
        ELSE Again
  IN  KeyOf(parse_csi(s, introlen))

peekkey_ss3(s, introlen, force) ==
  LET c == s[introlen + 1]
  IN  IF Len(s) < introlen + 1
        THEN IF force THEN Key(With(emit_codepoint(79), {ALT}), Len(s)) ELSE Again
      ELSE IF c \in DOMAIN csi_ss3s THEN Key(csi_ss3s[c], introlen + 1)
      ELSE IF "CONVERTKP" \in Flags /\ c \in DOMAIN ss3_kpalts
        THEN Key(Unicode(ss3_kpalts[c], {}), introlen + 1)
      ELSE IF c \in DOMAIN ss3s THEN Key(ss3s[c], introlen + 1)
      ELSE NoKey

(* A control string ends with ST, of one byte or of two.                   *)
peekkey_ctrlstring(s, introlen) ==
  LET Ends(i) == s[i] = 156 \/ (s[i] = ESC /\ i < Len(s) /\ s[i + 1] = 92)
      KeyTo(str_end) ==
        IF str_end = 0 THEN Again
        ELSE Key([type |-> IF s[introlen] \in {80, 144} THEN "DCS" ELSE "OSC", mods |-> {},
                  code |-> SubSeq(s, introlen + 1, str_end - 1)],
                 IF s[str_end] = ESC THEN str_end + 1 ELSE str_end)
  IN  KeyTo(SelectInSubSeq([i \in DOMAIN s |-> i], introlen + 1, Len(s), Ends))

csi_peekkey(s, force) ==
  LET escaped(c) == s[1] = ESC /\ Len(s) > 1 /\ s[2] = c
  IN  CASE escaped(79) -> peekkey_ss3(s, 2, force)
        [] escaped(80) \/ escaped(93) -> peekkey_ctrlstring(s, 2)
        [] escaped(91) -> peekkey_csi(s, 2, force)
        [] s[1] = 143 -> peekkey_ss3(s, 1, force)
        [] s[1] \in {144, 157} -> peekkey_ctrlstring(s, 1)
        [] s[1] = 155 -> peekkey_csi(s, 1, force)
        [] OTHER -> NoKey

(* The terminfo driver walks its trie as far as s leads.                   *)
ti_peekkey(s, force) ==
  LET KeyAt(q) ==
        IF q \in MouseIntro THEN peekkey_mouse(s, Len(q)) ELSE Key(Terminfo[q], Len(q))
      known == DOMAIN Terminfo \cup MouseIntro
      found == {q \in known : IsPrefix(q, s)}
  IN  IF found # {} THEN KeyAt(CHOOSE q \in found : \A other \in found : Len(q) <= Len(other))
      ELSE IF ~force /\ \E long \in known : IsPrefix(s, long) THEN Again
      ELSE NoKey

-----------------------------------------------------------------------------
(* peekkey and peekkey_simple: the drivers first; then, if none wants more *)
(* bytes, an Escape gives way to the key behind it, which gets ALT, and    *)
(* other bytes stand for themselves.  alt is how many Escapes were passed  *)
(* when a driver found the key.                                            *)
SimpleKey(s, force) ==
  LET KeyOf(utf8) ==
        IF utf8 # Again THEN Key(emit_codepoint(utf8.cp), utf8.n)
        ELSE IF force THEN Key(emit_codepoint(INVALID), Len(s))
        ELSE Again
  IN  CASE s[1] < 160 -> Key(emit_codepoint(s[1]), 1)
        [] s[1] >= 160 /\ "UTF8" \notin Flags -> Key(Unicode(s[1], {}), 1)
        [] OTHER -> KeyOf(parse_utf8(s))

AgainThoughForced(t, c, force) ==  \* mutant: a forced look waits for more bytes too
  "AGAIN" \in {t.res, c.res}

WantsMore(t, c, force) == ~force /\ "AGAIN" \in {t.res, c.res}

Deeper(peek) ==
  IF peek.res = "KEY" THEN [peek EXCEPT !.n = @ + 1, !.key = With(@, {ALT})] ELSE peek

KeptBy(look) == IF look.res = "KEY" THEN look.keep ELSE 0

Found(look, alt, driver) ==
  IF look.res # "KEY" THEN look
  ELSE [res |-> "KEY", key |-> look.key, n |-> look.n, keep |-> look.keep,
        alt |-> alt, driver |-> driver]

(* t and c are what the drivers make of s, and beyond is the look behind   *)
(* its first byte.                                                         *)
PeekAt(s, alt, force, t, c, beyond) ==
  IF t.res = "KEY" THEN Found(t, alt, TRUE)
  ELSE IF c.res = "KEY" THEN Found(c, alt, TRUE)
  ELSE IF WantsMore(t, c, force) \/ (s = <<ESC>> /\ ~force) THEN Again
  ELSE IF s[1] = ESC /\ Len(s) > 1 THEN Deeper(beyond)
  ELSE Found(SimpleKey(s, force), alt, FALSE)

peekkey(str, force, closed) ==
  LET at[k \in 0 .. Len(str)] ==
        LET s == Rest(str, k)
        IN  IF s # <<>>
              THEN PeekAt(s, k, force, ti_peekkey(s, force), csi_peekkey(s, force), at[k + 1])
            ELSE IF closed THEN [res |-> "EOF"] ELSE NoKey
  IN  at[0]
=============================================================================
