------------------------------ MODULE KeyNames ------------------------------
(***************************************************************************)
(* How libtermkey (termkey.c) writes a key as text, reads it back and      *)
(* compares keys: termkey_strfkey, termkey_strpkey and termkey_keycmp over *)
(* the table of names that termkey_register_keyname fills, and the four    *)
(* bytes in which a key keeps what the terminal said of the mouse, the     *)
(* cursor or a mode.                                                       *)
(*                                                                         *)
(* A text is a sequence of tokens: the name of a modifier, the character   *)
(* behind it, the words of a key's name ("Page" and "Up" of PageUp), a     *)
(* typed character, a number.  A name begins another if its words do.      *)
(***************************************************************************)
EXTENDS Integers, Sequences, SequencesExt, FiniteSetsExt

CONSTANTS
  Syms,      \* the symbolic keys in the order of their numbers, from 0
  BuiltIn,   \* the name each of the first ones comes with
  NewNames,  \* names a program registers
  NoName,    \* a symbolic key without a name
  Char,      \* the character of a code point
  Lower,     \* a word in lower case
  Capital,   \* the letter a word begins with
  Formats,   \* sets of flags: "LONGMOD", "CARETCTRL", "ALTISMETA",
             \* "WRAPBRACKET", "SPACEMOD", "LOWERMOD", "LOWERSPACE"
  TextKeys,  \* keys that are written and read: UNICODE, KEYSYM and FUNCTION
  Events,    \* keys that are compared
  MaxRegistered   \* bounds the calls of termkey_register_keyname

Words == DOMAIN Capital
SymSet == {Syms[n] : n \in DOMAIN Syms}
ModWords == {"Shift", "Ctrl", "Alt", "Meta", "S", "C", "A", "M"}
ModTexts == ModWords \cup {Lower[w] : w \in ModWords}
NameTexts == Words \cup {Lower[w] : w \in Words}

(* The words of names are other than those of modifiers, and each          *)
(* character, number and modifier is written in its own way.               *)
ASSUME NamesAssumption ==
  /\ Syms \in Seq(SymSet) /\ \A n, m \in DOMAIN Syms : Syms[n] = Syms[m] => n = m
  /\ {"SPACE", "DEL", "BACKSPACE"} \subseteq SymSet
  /\ NoName \notin Seq(Words)
  /\ BuiltIn \in Seq(Seq(Words) \ {<<>>}) /\ Len(BuiltIn) < Len(Syms)
  /\ NewNames \subseteq Seq(Words) \ {<<>>}
  /\ ModWords \cup Words \subseteq DOMAIN Lower
  /\ (NameTexts \cup {"F", "^"}) \cap ModTexts = {} /\ "^" \notin NameTexts
  /\ \A v, w \in ModWords : Lower[v] = Lower[w] => v = w
  /\ \A v, w \in Words : Lower[v] # Capital[w]
  /\ DOMAIN Char \subseteq Nat /\ \A c, d \in DOMAIN Char : Char[c] = Char[d] => c = d
  /\ \A n, m \in 0 .. 63 : ToString(n) = ToString(m) => n = m

SHIFT == 0
ALT   == 1
CTRL  == 2

(* The keys that are written have their characters, the caret's included.  *)
ASSUME TextKeysAssumption ==
  \A key \in TextKeys :
    /\ key = [type |-> key.type, code |-> key.code, mods |-> key.mods]
    /\ key.mods \subseteq {SHIFT, ALT, CTRL}
    /\ \/ key.type = "UNICODE" /\ key.code \in DOMAIN Char
       \/ key.type = "KEYSYM" /\ key.code \in SymSet
       \/ key.type = "FUNCTION" /\ key.code \in 0 .. 63
    /\ key.type = "UNICODE" /\ key.code \in 97 .. 122 => key.code - 32 \in DOMAIN Char

(* The keys the drivers make of what a terminal sends.                     *)
ASSUME EventsAssumption ==
  \A key \in Events :
    /\ key = [type |-> key.type, code |-> key.code, mods |-> key.mods]
    /\ key.mods \subseteq {SHIFT, ALT, CTRL}
    /\ \/ key.type \in {"UNICODE", "FUNCTION", "UNKNOWN_CSI"} /\ key.code \in Nat
       \/ key.type = "KEYSYM" /\ key.code \in SymSet
       \/ /\ key.type = "MOUSE"
          /\ key.code \in [buttons : SUBSET (0 .. 7), at : Nat \X Nat, released : BOOLEAN]
       \/ key.type = "POSITION" /\ key.code \in Nat \X Nat /\ key.mods = {}
       \/ /\ key.type = "MODEREPORT" /\ key.mods = {}
          /\ key.code \in (0 .. 255) \X Nat \X (0 .. 127)

VARIABLES
  keynames,    \* by number, the names of the symbolic keys
  canonflags,  \* of "SPACESYMBOL", "DELBS"
  registered   \* bounds the run

vars == <<keynames, canonflags, registered>>

D == INSTANCE TermKeyDecode WITH
       Flags <- canonflags, Terminfo <- <<>>, MouseIntro <- {}, Leftover <- 0
Canonical(key) == D!termkey_canonicalise(key)

Number(sym) == CHOOSE n \in 0 .. Len(Syms) - 1 : Syms[n + 1] = sym

Init == keynames = BuiltIn /\ canonflags = {} /\ registered = 0

(* Without a number the name gets the next one; one beyond the names there *)
(* are leaves numbers without a name.  Failing to grow changes nothing.    *)
termkey_register_keyname(sym, name) ==
  LET n == IF sym = 0 THEN Len(keynames) ELSE sym
  IN  /\ registered < MaxRegistered /\ registered' = registered + 1
      /\ n < Len(Syms)
      /\ keynames' = [p \in 1 .. Max({n + 1, Len(keynames)}) |->
                        IF p = n + 1 THEN name
                        ELSE IF p <= Len(keynames) THEN keynames[p] ELSE NoName]
      /\ UNCHANGED canonflags

termkey_set_canonflags(flags) ==
  canonflags' = flags /\ UNCHANGED <<keynames, registered>>

Next ==
  \/ \E sym \in 0 .. Len(Syms) - 1, name \in NewNames : termkey_register_keyname(sym, name)
  \/ \E flags \in SUBSET {"SPACESYMBOL", "DELBS"} : termkey_set_canonflags(flags)

Spec == Init /\ [][Next]_vars

-----------------------------------------------------------------------------
(* modnames: the name of a modifier.                                       *)
modname(mod, format) ==
  LET long  == CASE mod = SHIFT -> "Shift" [] mod = CTRL -> "Ctrl"
                 [] mod = ALT -> IF "ALTISMETA" \in format THEN "Meta" ELSE "Alt"
      short == CASE mod = SHIFT -> "S" [] mod = CTRL -> "C"
                 [] mod = ALT -> IF "ALTISMETA" \in format THEN "M" ELSE "A"
      name  == IF "LONGMOD" \in format THEN long ELSE short
  IN  IF "LOWERMOD" \in format THEN Lower[name] ELSE name

Sep(format) == IF "SPACEMOD" \in format THEN " " ELSE "-"

(* snprint_cameltospaces.                                                  *)
CamelToSpaces(name) ==
  [p \in 1 .. 2 * Len(name) - 1 |-> IF p % 2 = 1 THEN Lower[name[(p + 1) \div 2]] ELSE " "]

termkey_get_keyname(sym) ==
  IF Number(sym) < Len(keynames) THEN keynames[Number(sym) + 1] ELSE <<"UNKNOWN">>

(* What comes behind the modifiers.                                        *)
KeyText(key, format) ==
  CASE key.type = "UNICODE" -> <<Char[key.code]>>
    [] key.type = "FUNCTION" ->
         <<IF "LOWERSPACE" \in format THEN "f" ELSE "F", ToString(key.code)>>
    [] key.type = "KEYSYM" /\ "LOWERSPACE" \in format ->
         CamelToSpaces(termkey_get_keyname(key.code))
    [] key.type = "KEYSYM" /\ "LOWERSPACE" \notin format -> termkey_get_keyname(key.code)

ModText(key, mod, format) ==
  IF mod \in key.mods THEN <<modname(mod, format), Sep(format)>> ELSE <<>>

(* A control character that has a caret form: a letter, or one of @[\]^_.  *)
HasCaret(key, format) ==
  /\ "CARETCTRL" \in format /\ key.type = "UNICODE" /\ key.mods = {CTRL}
  /\ key.code \in (97 .. 122) \cup {64} \cup (91 .. 95)

wrapbracket(key, format) ==
  "WRAPBRACKET" \in format /\ (key.type # "UNICODE" \/ key.mods # {})

CaretText(key) == <<Char[IF key.code >= 97 THEN key.code - 32 ELSE key.code]>>

termkey_strfkey(key, format) ==
  LET text ==
        IF HasCaret(key, format) THEN <<"^">> \o CaretText(key)
          ELSE ModText(key, ALT, format) \o ModText(key, CTRL, format)
                 \o ModText(key, SHIFT, format) \o KeyText(key, format)
  IN  IF wrapbracket(key, format) THEN <<"<">> \o text \o <<">">> ELSE text

-----------------------------------------------------------------------------
BehindBegun(name, str, format) ==   \* mutant: with spaces the text may go on, too
  LET spaced == IF "LOWERSPACE" \in format THEN CamelToSpaces(name) ELSE name
  IN  IF IsPrefix(spaced, str) THEN {SubSeq(str, Len(spaced) + 1, Len(str))} ELSE {}

(* What is left of a text behind a name, or nothing if the name does not   *)
(* begin it.  With spaces it has to be all of the text; but strpncmp_camel *)
(* finds no difference either when it stops at a capital that the text has *)
(* too: in a text that termkey_strfkey writes with spaces, a capital that  *)
(* was typed and is all there is.                                          *)
Behind(name, str, format) ==
  CASE "LOWERSPACE" \notin format /\ IsPrefix(name, str) -> {SubSeq(str, Len(name) + 1, Len(str))}
    [] "LOWERSPACE" \in format /\ str = CamelToSpaces(name) -> {<<>>}
    [] "LOWERSPACE" \in format /\ str # <<>> /\ str[1] = Capital[name[1]] -> {str}
    [] OTHER -> {}

(* The first of the names that the text begins with.                       *)
termkey_lookup_keyname_format(str, format) ==
  LET found == {p \in DOMAIN keynames :
                  keynames[p] # NoName /\ Behind(keynames[p], str, format) # {}}
  IN  {[sym |-> Syms[Min(found)], rest |-> rest] :
         rest \in IF found = {} THEN {} ELSE Behind(keynames[Min(found)], str, format)}

(* A name that is all of the text.                                         *)
termkey_keyname2sym(keyname) ==
  LET found == {f \in termkey_lookup_keyname_format(keyname, {}) : f.rest = <<>>}
  IN  IF found = {} THEN "UNKNOWN" ELSE (CHOOSE f \in found : TRUE).sym

(* The modifiers the text begins with, each with the separator behind it.  *)
ModsBefore(str, format) ==
  Max({n \in 0 .. Len(str) \div 2 : \A k \in 1 .. n :
         /\ str[2 * k - 1] \in {modname(mod, format) : mod \in {SHIFT, ALT, CTRL}}
         /\ str[2 * k] = Sep(format)})

Digits == {ToString(n) : n \in 0 .. 63}
Value(digits) == CHOOSE n \in 0 .. 63 : ToString(n) = digits
CodeOf(char) == CHOOSE cp \in DOMAIN Char : Char[cp] = char

(* A key without modifiers, of none of the names: none is made of a text   *)
(* that goes on with a word.                                               *)
PlainKey(str, format) ==
  LET named == termkey_lookup_keyname_format(str, format)
  IN  IF named # {}
        THEN {[key |-> [type |-> "KEYSYM", code |-> n.sym, mods |-> {}], rest |-> n.rest] :
                n \in named}
      ELSE IF Len(str) > 1 /\ str[1] = "F" /\ str[2] \in Digits
        THEN {[key |-> [type |-> "FUNCTION", code |-> Value(str[2]), mods |-> {}],
               rest |-> SubSeq(str, 3, Len(str))]}
      ELSE IF str # <<>> /\ \E cp \in DOMAIN Char : Char[cp] = str[1]
        THEN {[key |-> [type |-> "UNICODE", code |-> CodeOf(str[1]), mods |-> {}],
               rest |-> Tail(str)]}
      ELSE {}

KeyWithMods(str, format) ==
  LET n == ModsBefore(str, format)
      mods == {mod \in {SHIFT, ALT, CTRL} : \E k \in 1 .. n : str[2 * k - 1] = modname(mod, format)}
  IN  {[key |-> Canonical([p.key EXCEPT !.mods = mods]), rest |-> p.rest] :
         p \in PlainKey(SubSeq(str, 2 * n + 1, Len(str)), format)}

CaretCode(cp) == IF cp \in 65 .. 90 THEN cp + 32 ELSE cp

KeyBehindCaret(str, format) ==
  {[key |-> [type |-> "UNICODE", code |-> CaretCode(p.key.code), mods |-> {CTRL}], rest |-> p.rest] :
     p \in {q \in KeyWithMods(str, format) :
              q.key.type = "UNICODE" /\ q.key.mods = {} /\ q.key.code \in 64 .. 95}}

(* The key of a text and what is left of it, or nothing.                   *)
termkey_strpkey(str, format) ==
  IF "CARETCTRL" \in format /\ Len(str) > 1 /\ str[1] = "^" THEN KeyBehindCaret(Tail(str), format)
  ELSE KeyWithMods(str, format)

-----------------------------------------------------------------------------
(* The bytes of a key: mouse[0] to mouse[3], as numbers.                   *)
ByteOf(bits) ==
  (IF 0 \in bits THEN 1 ELSE 0) + (IF 1 \in bits THEN 2 ELSE 0) + (IF 2 \in bits THEN 4 ELSE 0)
    + (IF 3 \in bits THEN 8 ELSE 0) + (IF 4 \in bits THEN 16 ELSE 0) + (IF 5 \in bits THEN 32 ELSE 0)
    + (IF 6 \in bits THEN 64 ELSE 0) + (IF 7 \in bits THEN 128 ELSE 0)
ModBits(key) == ByteOf(key.mods)
AtMost(n, max) == IF n > max THEN max ELSE n

HighLine(line) == (line \div 256) % 4   \* mutant: where the column's bits are

(* Of a line only two of the three high bits that are read are kept.       *)
KeptLine(line) == ((line \div 256) % 4) * 16

set_linecol(col, line) ==
  LET c == AtMost(col, 4095)
      l == AtMost(line, 2047)
  IN  <<c % 256, l % 256, (c \div 256) + KeptLine(l)>>

get_linecol(m) ==
  [col |-> m[2] + (m[4] % 16) * 256, line |-> m[3] + ((m[4] \div 16) % 8) * 256]

mouse(key) ==
  CASE key.type = "MOUSE" ->
         LET at == set_linecol(key.code.at[1], key.code.at[2])
         IN  <<ByteOf(key.code.buttons), at[1], at[2], at[3] + IF key.code.released THEN 128 ELSE 0>>
    [] key.type = "POSITION" ->
         LET at == set_linecol(key.code[1], key.code[2])
         IN  <<0, at[1], at[2], at[3]>>
    [] key.type = "MODEREPORT" ->
         <<key.code[1], (key.code[2] \div 256) % 256, key.code[2] % 256, key.code[3]>>

(* A byte is a char, which has a sign: one from 128 on takes the place of  *)
(* all the bits before it.                                                 *)
interpret_mode(m) == IF m[3] >= 128 THEN m[3] - 256 ELSE m[2] * 256 + m[3]

(* strncmp stops where both have a zero.                                   *)
strncmp(a, b) ==
  LET ends == {n \in 1 .. 4 : a[n] # b[n] \/ a[n] = 0}
  IN  IF ends = {} THEN 0 ELSE a[Min(ends)] - b[Min(ends)]

Types == <<"UNKNOWN_CSI", "UNICODE", "FUNCTION", "KEYSYM", "MOUSE", "POSITION", "MODEREPORT">>
TypeNumber(key) == (CHOOSE n \in DOMAIN Types : Types[n] = key.type) - 2

FirstDifference(differences) ==
  LET other == {n \in DOMAIN differences : differences[n] # 0}
  IN  IF other = {} THEN 0 ELSE differences[Min(other)]

(* The differences that count between keys of one type, in their order.    *)
Differences(a, b) ==
  LET mods == ModBits(a) - ModBits(b)
      at == [k \in {1, 2} |-> get_linecol(mouse(IF k = 1 THEN a ELSE b))]
  IN  CASE a.type = "KEYSYM" -> <<Number(a.code) - Number(b.code), mods>>
        [] a.type = "MOUSE" -> <<strncmp(mouse(a), mouse(b)), mods>>
        [] a.type = "POSITION" -> <<at[1].line - at[2].line, at[1].col - at[2].col>>
        [] a.type = "MODEREPORT" ->
             <<mouse(a)[1] - mouse(b)[1], interpret_mode(mouse(a)) - interpret_mode(mouse(b)),
               mouse(a)[4] - mouse(b)[4]>>
        [] OTHER -> <<a.code - b.code, mods>>

termkey_keycmp(key1, key2) ==
  LET a == Canonical(key1)
      b == Canonical(key2)
  IN  IF a.type # b.type THEN TypeNumber(a) - TypeNumber(b)
      ELSE FirstDifference(Differences(a, b))

-----------------------------------------------------------------------------
(* What is read behind the modifiers, or behind the caret.                 *)
OwnText(key, format) == IF HasCaret(key, format) THEN CaretText(key) ELSE KeyText(key, format)

(* The key has a name or a number that is read, and nothing else is read   *)
(* where its text begins: no name with a smaller number, no capital that   *)
(* begins a name.                                                          *)
Hides(name, text, format) ==
  IF "LOWERSPACE" \in format THEN text \in {CamelToSpaces(name), <<Capital[name[1]]>>}
  ELSE IsPrefix(name, text)

Legible(key, format) ==
  /\ key.type = "KEYSYM" =>
       Number(key.code) < Len(keynames) /\ keynames[Number(key.code) + 1] # NoName
  /\ key.type = "FUNCTION" => "LOWERSPACE" \notin format
  /\ \A p \in DOMAIN keynames :
       /\ keynames[p] # NoName
       /\ key.type = "KEYSYM" => p <= Number(key.code)
       => ~Hides(keynames[p], OwnText(key, format), format)

(* What termkey_strfkey writes of a key termkey_strpkey reads as the same  *)
(* key, to the end of the text and whatever the format, unless it is put   *)
(* in brackets or its name is hidden by another; and the names of symbolic *)
(* keys and their numbers are each other's inverse.  Names may have been   *)
(* registered over others and canonflags set meanwhile.                    *)
RoundTrip ==
  \A key \in TextKeys, format \in Formats :
    Legible(key, format) =>
      /\ ~wrapbracket(key, format) =>
           \E read \in termkey_strpkey(termkey_strfkey(key, format), format) :
             read.rest = <<>> /\ termkey_keycmp(read.key, key) = 0
      /\ key.type = "KEYSYM" /\ format = {} =>
           termkey_keyname2sym(termkey_get_keyname(key.code)) = key.code

(* The bytes can say it: a column has twelve bits and a line ten, a mode   *)
(* fifteen of which one is lost, and no byte of the mouse is zero.         *)
Expressible(key) ==
  /\ key.type = "POSITION" => key.code[1] < 4096 /\ key.code[2] < 1024
  /\ key.type = "MOUSE" =>
       key.code.at[1] < 4096 /\ key.code.at[2] < 1024 /\ \A n \in 1 .. 3 : mouse(key)[n] # 0
  /\ key.type = "MODEREPORT" => key.code[2] \div 256 < 128 /\ key.code[2] % 256 < 128

(* termkey_keycmp is a total order on the keys whose bytes can say what    *)
(* the terminal sent: 0 for the same key only, of whichever canonical form *)
(* it is, and never for two places, buttons or modes.                      *)
ComparesEvents ==
  LET said == {key \in Events : Expressible(key)}
      less == {p \in said \X said : termkey_keycmp(p[1], p[2]) < 0}
      same == {p \in said \X said : Canonical(p[1]) = Canonical(p[2])}
  IN  \A a, b \in said :
        /\ termkey_keycmp(a, b) = 0 <=> <<a, b>> \in same
        /\ termkey_keycmp(a, b) > 0 <=> <<b, a>> \in less
        /\ \A c \in said : <<a, b>> \in less /\ <<b, c>> \in less => <<a, c>> \in less
=============================================================================
