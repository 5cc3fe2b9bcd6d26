---------------------------- MODULE MCTermKeyWait ----------------------------
(* Keystrokes for checking TermKeyWait with TLC.                           *)
EXTENDS TermKeyWait

Xterm == (<<127>> :> Sym("BACKSPACE", {})) @@ (<<27, 79, 65>> :> Sym("UP", {}))
XtermMouse == {<<27, 91, 77>>}

(* Escape, a, Alt-a, Up, Up with Shift, a mouse press, e with an acute     *)
(* accent in UTF-8, and control strings, one longer than the buffer        *)
Pressed ==
  (<<27>> :> Sym("ESCAPE", {})) @@ (<<97>> :> Unicode(97, {}))
    @@ (<<27, 97>> :> Unicode(97, {ALT})) @@ (<<27, 79, 65>> :> Sym("UP", {}))
    @@ (<<27, 91, 49, 59, 50, 65>> :> Sym("UP", {SHIFT}))
    @@ (<<27, 91, 77, 32, 35, 36>> :>
          [type |-> "MOUSE", mods |-> {},
           code |-> [buttons |-> {}, at |-> <<3, 4>>, released |-> FALSE]])
    @@ (<<195, 169>> :> Unicode(233, {}))
    @@ (<<27, 80, 97, 27, 92>> :> [type |-> "DCS", mods |-> {}, code |-> <<97>>])
    @@ (<<27, 80, 97, 97, 97, 27, 92>> :> [type |-> "DCS", mods |-> {}, code |-> <<97, 97, 97>>])
(* A lone Escape cannot be told from Alt and the next key: one waits.      *)
TellApart == DOMAIN Pressed \ {<<27>>}
=============================================================================
