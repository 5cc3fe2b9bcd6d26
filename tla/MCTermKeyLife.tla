---------------------------- MODULE MCTermKeyLife ----------------------------
(* The flags in use: none, ctrl-c left as a key, or neither settings nor a *)
(* start at once; termkey_set_flags gives the rest.                        *)
(* A pipe differs from no descriptor in nothing these properties ask of.   *)
EXTENDS TermKeyLife, TLC
MCFds == {"tty", "none"}
MCFlagSets == {{}, {"CTRLC"}, {"NOTERMIOS", "NOSTART"}}
MCInstPermutations == Permutations(Inst)
=============================================================================
