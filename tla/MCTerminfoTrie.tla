--------------------------- MODULE MCTerminfoTrie ---------------------------
(***************************************************************************)
(* Keys of every kind: from the table, its last entry and the one out of   *)
(* order; by number, with F0; of two with an s, one of which the table     *)
(* does not have; the mouse.  Their strings part at the first, second and  *)
(* third byte, begin with one another, are equal or empty.                 *)
(***************************************************************************)
EXTENDS TerminfoTrie

MCSorted ==
  <<"ave", "backspace", "beg", "begin", "btab", "cancel", "clear", "close", "command", "copy",
    "dc", "down", "elect", "end", "enter", "exit", "f0", "f1", "find", "help", "home", "ic", "left",
    "mark", "message", "mouse", "move", "next", "npage", "open", "options", "ppage",
    "previous", "print", "redo", "reference", "refresh", "replace", "restart", "resume",
    "right", "rsume", "save", "select", "sright", "srsume", "suspend", "undo", "up", "uspend">>

MCCaps == <<"f0", "f1", "up", "mouse", "beg", "sright", "srsume">>

MCStrings ==
  {<<>>, <<27>>, <<255>>, <<27, 27>>, <<27, 255>>, <<255, 91>>, <<27, 255, 91>>}
MCStringsOf ==
  [name \in Names |->
     CASE name \in {"f1", "up", "sright"} -> MCStrings \cup {NoString}
       [] name = "beg" -> {<<91>>, <<27, 255, 91, 27>>, NoString}
       [] name = "mouse" -> {<<91>>, <<27, 91>>, NoString}
       [] OTHER -> {<<91>>, NoString}]

MCFNumber == [name \in {"f0", "f1"} |-> IF name = "f0" THEN 0 ELSE 1]
MCAfterS ==
  [name \in {"sright", "srsume", "save", "select", "suspend"} |->
     CASE name = "sright" -> "right" [] name = "srsume" -> "rsume" [] name = "save" -> "ave"
       [] name = "select" -> "elect" [] name = "suspend" -> "uspend"]
MCBuffers == UNION {[1 .. n -> {0, 27, 91, 255}] : n \in 1 .. 3}
=============================================================================
