-------------------------- MODULE MCTermKeyBuffer --------------------------
(* Model values and symmetry for checking TermKeyBuffer with TLC. *)
EXTENDS TermKeyBuffer, TLC

CONSTANTS a, b

MCByte == {a, b}
ByteSymmetry == Permutations(MCByte)
=============================================================================
