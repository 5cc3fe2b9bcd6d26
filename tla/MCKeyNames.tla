----------------------------- MODULE MCKeyNames -----------------------------
(***************************************************************************)
(* Some of the symbolic keys, in the order of their numbers: NONE, those   *)
(* canonicalise trades for each other, names of one word and of two, a     *)
(* number without a name; new names that begin others, are begun by them,  *)
(* or are others' already.  The characters are those a text has a meaning  *)
(* for, and of either case.                                                *)
(***************************************************************************)
EXTENDS KeyNames

MCSyms == <<"NONE", "BACKSPACE", "SPACE", "DEL", "UP", "PAGEUP", "NEW1", "NEW2">>
MCBuiltIn == << <<"NONE">>, <<"Backspace">>, <<"Space">>, <<"DEL">>, <<"Up">>, <<"Page", "Up">> >>
MCNewNames == {<<"Page">>, <<"Page", "Up", "Space">>, <<"Up">>}

MCChar ==
  [cp \in {32, 45, 64, 65, 66, 67, 70, 94, 97, 99, 102} |->
     CASE cp = 32 -> " " [] cp = 45 -> "-" [] cp = 64 -> "@" [] cp = 65 -> "A" [] cp = 66 -> "B" [] cp = 67 -> "C"
       [] cp = 70 -> "F" [] cp = 94 -> "^" [] cp = 97 -> "a" [] cp = 99 -> "c"
       [] cp = 102 -> "f"]

MCLower ==
  [word \in {"NONE", "Backspace", "Space", "DEL", "Up", "Page", "Shift", "Alt", "Meta", "Ctrl",
             "S", "A", "M", "C"} |->
     CASE word = "NONE" -> "none" [] word = "Backspace" -> "backspace" [] word = "Space" -> "space"
       [] word = "DEL" -> "del" [] word = "Up" -> "up" [] word = "Page" -> "page"
       [] word = "Shift" -> "shift" [] word = "Alt" -> "alt" [] word = "Meta" -> "meta"
       [] word = "Ctrl" -> "ctrl" [] word = "S" -> "s" [] word = "A" -> "a" [] word = "M" -> "m"
       [] word = "C" -> "c"]
MCCapital ==
  [word \in {"NONE", "Backspace", "Space", "DEL", "Up", "Page"} |->
     CASE word = "NONE" -> "N" [] word = "Backspace" -> "B" [] word = "Space" -> "S"
       [] word = "DEL" -> "D" [] word = "Up" -> "U" [] word = "Page" -> "P"]

(* The names of modifiers in their shortest and longest forms, with every  *)
(* other flag.                                                             *)
MCFormats ==
  {mods \cup rest :
     mods \in {{}, {"LONGMOD", "ALTISMETA", "LOWERMOD"}},
     rest \in {{}, {"CARETCTRL"}, {"SPACEMOD"}, {"LOWERSPACE"}, {"SPACEMOD", "LOWERSPACE"},
               {"WRAPBRACKET"}}}

MCMods == {{}, {CTRL}, {SHIFT, ALT}}
MCTextKeys ==
  {[type |-> "UNICODE", code |-> cp, mods |-> mods] : cp \in DOMAIN MCChar \ {65}, mods \in MCMods}
    \cup {[type |-> "KEYSYM", code |-> MCSyms[n], mods |-> mods] :
            n \in DOMAIN MCSyms, mods \in MCMods}
    \cup {[type |-> "FUNCTION", code |-> 12, mods |-> mods] : mods \in MCMods}

MCMouse(button, col, line, released) ==
  [type |-> "MOUSE", mods |-> {},
   code |-> [buttons |-> {button}, at |-> <<col, line>>, released |-> released]]
MCEvents ==
  {[type |-> "UNICODE", code |-> 32, mods |-> {}], [type |-> "UNICODE", code |-> 97, mods |-> {CTRL}],
   [type |-> "KEYSYM", code |-> "SPACE", mods |-> {}], [type |-> "KEYSYM", code |-> "DEL", mods |-> {}],
   [type |-> "KEYSYM", code |-> "BACKSPACE", mods |-> {}],
   [type |-> "FUNCTION", code |-> 1, mods |-> {SHIFT}], [type |-> "UNKNOWN_CSI", code |-> 97, mods |-> {}],
   MCMouse(0, 5, 5, FALSE), MCMouse(0, 5, 5, TRUE), MCMouse(1, 5, 261, FALSE)}
    \cup {[type |-> "POSITION", code |-> at, mods |-> {}] :
            at \in {<<1, 1>>, <<1, 257>>, <<257, 1>>, <<1, 1023>>, <<4095, 1>>}}
    \cup {[type |-> "MODEREPORT", code |-> m, mods |-> {}] :
            m \in {<<63, 1, 1>>, <<0, 1, 1>>, <<63, 257, 1>>, <<63, 1, 2>>}}
=============================================================================
