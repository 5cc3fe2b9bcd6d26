--------------------------- MODULE MCPosixTerminal ---------------------------
(* Sizes for the window: a third tells a stale one from an older one.      *)
EXTENDS PosixTerminal
=============================================================================
