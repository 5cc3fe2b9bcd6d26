------------------------------ MODULE MCTermKey ------------------------------
(* The terminal and the alphabets for checking TermKey with TLC.           *)
EXTENDS TermKey

(* An xterm's cursor key and mouse.                                        *)
Xterm == <<27, 79, 65>> :> Sym("UP", {})
XtermMouse == {<<27, 91, 77>>}

(* Bounds: the bytes of one behaviour are those of one subject: CSI, mouse *)
(* and SS3 sequences, 8-bit sequences long enough for the buffer to slide  *)
(* and wrap, or control strings and UTF-8.  The terminal is closed and the *)
(* instance stopped only behind the first few of them.                     *)
Csi == {27, 91, 65}
Mouse == {27, 91, 77}
Ss3 == {27, 79, 65}
Long == {155, 65, 91}
Strings == {144, 156, 195, 169}
MCByte == Csi \cup Mouse \cup Ss3 \cup Long \cup Strings
Bounds ==
  /\ \/ Range(received) \subseteq Long
     \/ /\ Len(received) <= 4
        /\ \E subject \in {Csi, Mouse, Ss3, Strings} : Range(received) \subseteq subject
  /\ is_closed => Len(received) <= 2
  /\ ~is_started => Len(received) <= 1
=============================================================================
