----------------------------- MODULE MCPosixInput -----------------------------
(* Terminals and keystrokes for checking PosixInput with TLC.              *)
EXTENDS PosixInput

(* An xterm: the Backspace key sends 127.                                  *)
Xterm == (<<127>> :> Sym("BACKSPACE", {})) @@ (<<27, 79, 65>> :> Sym("UP", {}))
NoMouse == {}

(* a, Tab, Backspace, Up, Alt-a, End in application mode and Focus, which  *)
(* libtermkey does not know                                                *)
Usual == (<<97>> :> "ASCII") @@ (<<9>> :> "TAB") @@ (<<127>> :> "BACKSPACE")
           @@ (<<27, 91, 65>> :> "UP") @@ (<<27, 97>> :> "UNKNOWN")
           @@ (<<27, 79, 70>> :> "END") @@ (<<27, 91, 73>> :> "UNKNOWN")
(* Keys that the passing run leaves out: Escape, Alt-P and Alt-O, which    *)
(* are the beginning of longer sequences, and Delete.                      *)
Escape == (<<27>> :> "UNKNOWN") @@ (<<97>> :> "ASCII")
AltP == (<<27, 80>> :> "UNKNOWN") @@ (<<97>> :> "ASCII")
AltO == (<<27, 79>> :> "UNKNOWN") @@ (<<122>> :> "ASCII") @@ (<<9>> :> "TAB")
Delete == <<27, 91, 51, 126>> :> "DEL"

Corner == {<<1, 1>>, <<12, 80>>}
=============================================================================
