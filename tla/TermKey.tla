------------------------------- MODULE TermKey -------------------------------
(***************************************************************************)
(* A libtermkey instance: the input buffer of TermKeyBuffer with the real  *)
(* drivers of TermKeyDecode looking at it.  The host pushes bytes or reads *)
(* them from a terminal, a few at a time, and takes keys when it likes,    *)
(* forcing one out if it has waited long enough.                           *)
(***************************************************************************)
EXTENDS TermKeyBuffer, TermKeyDecode

VARIABLES
  keys,    \* history: the keys the host was given
  forced   \* history: was any of them taken with getkey_force?

tkvars == <<vars, keys, forced>>

TKInit == Init /\ keys = <<>> /\ forced = FALSE

-----------------------------------------------------------------------------
Look(closed) == peekkey(Undecoded, FALSE, closed)
ForcedLook(closed) == peekkey(Undecoded, TRUE, closed)

Takes(look) ==
  /\ EatKey(look.n, look.alt, look.keep, look.driver)
  /\ res' = "KEY" /\ keys' = Append(keys, look.key)

(* The second look of getkey, which may slide the bytes and set hightide,  *)
(* and the key it puts in the caller's structure.                          *)
LeavesBytes(look) ==
  /\ buffer' = IF look.res = "KEY" /\ Slides(look.driver, start0 + look.alt)
                 THEN SlideData ELSE buffer
  /\ buffstart' = IF look.res = "KEY" /\ Slides(look.driver, start0 + look.alt)
                    THEN start0 - Half ELSE start0
  /\ buffcount' = count0
  /\ hightide' = KeptBy(look)
  /\ eaten' = eaten + hightide
  /\ UNCHANGED buffsize

termkey_getkey ==
  /\ \/ NotStarted /\ UNCHANGED keys
     \/ is_started /\ \E look \in {Look(is_closed)} :
          \/ look.res = "KEY" /\ Takes(look)
          \/ look.res \in {"NONE", "EOF"} /\ FoundNothing /\ UNCHANGED keys
          \/ /\ look.res = "AGAIN" /\ res' = "AGAIN" /\ UNCHANGED keys
             /\ \E second \in {ForcedLook(is_closed)} : LeavesBytes(second)
  /\ UNCHANGED <<is_closed, is_started, received, forced>>

termkey_getkey_force ==
  /\ \/ NotStarted /\ UNCHANGED <<keys, forced>>
     \/ is_started /\ \E look \in {ForcedLook(is_closed)} :
          \/ look.res = "KEY" /\ Takes(look) /\ forced' = TRUE
          \/ look.res \in {"NONE", "EOF"} /\ FoundNothing /\ UNCHANGED <<keys, forced>>
          \/ /\ look.res = "AGAIN" /\ res' = "AGAIN" /\ UNCHANGED <<keys, forced>>
             /\ LeavesBytes(look)
  /\ UNCHANGED <<is_closed, is_started, received>>

Bytes ==
  /\ push_bytes \/ advisereadable \/ stop \/ start
       \/ \E size \in Sizes : set_buffer_size(size)
  /\ UNCHANGED <<keys, forced>>

TKNext == Bytes \/ termkey_getkey \/ termkey_getkey_force

TKSpec == TKInit /\ [][TKNext]_tkvars

-----------------------------------------------------------------------------
(* The keys of a string that is all there.                                 *)
KeysOf(str) ==
  LET from[i \in 0 .. Len(str)] ==
        LET Then(look) ==
              IF look.res = "KEY" THEN <<look.key>> \o from[i + look.n + look.keep] ELSE <<>>
        IN  Then(peekkey(Rest(str, i), FALSE, FALSE))
  IN  from[0]

(* What the buffer promises of its drivers is true of these: they take at  *)
(* least one byte and at most what is there, keep no more than they leave, *)
(* never answer a forced look with AGAIN, and an AGAIN takes nothing.      *)
BufferSpec == Spec

(* The keys do not depend on how the bytes arrived: as long as none was    *)
(* forced out, they are those of the bytes taken all at once, whatever was *)
(* looked at too early, slid, moved or retried.                            *)
SameKeysHoweverDelivered ==
  ~forced => IsPrefix(keys, KeysOf(received))

(* An unknown CSI sequence can be interpreted until the next look: its     *)
(* bytes are at the front of the buffer, complete, and make the command    *)
(* the key reports, though more bytes arrive and move them.                *)
CsiInterpretable ==
  hightide > 0 =>
    \E csi \in {parse_csi([i \in 1 .. buffcount |-> CHARAT(i - 1)], 0)} :
      /\ keys[Len(keys)].type = "UNKNOWN_CSI"
      /\ csi # Again /\ Command(csi) = keys[Len(keys)].code /\ csi.csi_len = hightide

(* A host that has waited long enough gets its key: a forced look at       *)
(* pending bytes answers KEY whatever they are, an unfinished mouse report *)
(* or control string or half a character included.                         *)
ForceAnswers ==
  [][termkey_getkey_force /\ is_started /\ count0 > 0 => res' = "KEY"]_tkvars
=============================================================================
