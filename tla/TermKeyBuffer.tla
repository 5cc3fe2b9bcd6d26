--------------------------- MODULE TermKeyBuffer ---------------------------
(***************************************************************************)
(* The input buffer of a libtermkey instance (libtermkey/termkey.c): the   *)
(* bytes between push_bytes / advisereadable, which append to it, and      *)
(* getkey / getkey_force, which decode keys from its front.                *)
(*                                                                         *)
(* The drivers that recognise a key are abstracted here to the only thing  *)
(* the buffer sees of them: how many bytes the key takes, and how many     *)
(* bytes of an unknown CSI sequence they ask to be kept for                *)
(* termkey_interpret_csi (hightide).  Module TermKey has the real drivers  *)
(* and implements this one.                                                *)
(***************************************************************************)
EXTENDS Integers, Sequences

CONSTANTS
  Byte,         \* the values a byte takes; the buffer never looks at them
  Junk,         \* what malloc or realloc leaves in a cell nobody wrote
  Top,          \* the largest size termkey_set_buffer_size is called with
  Sizes,        \* the sizes the host gives the buffer
  HostShrinks,  \* may the host ask for a smaller buffer than it has?
  HasFd,        \* termkey_new(fd), or termkey_new_abstract (fd = -1)?
  FlagEintr,    \* TERMKEY_FLAG_EINTR
  MaxEscapes,   \* Escapes that may wait in front of an unfinished key
  MaxChunk,     \* bound: bytes in one call of push_bytes or read(2)
  MaxReceived   \* bound: bytes the buffer ever accepts

ASSUME BufferAssumption ==
  /\ Junk \notin Byte
  /\ Top \in Nat /\ Sizes # {} /\ Sizes \subseteq 1 .. Top
  /\ HostShrinks \in BOOLEAN /\ HasFd \in BOOLEAN /\ FlagEintr \in BOOLEAN
  /\ MaxEscapes \in Nat /\ MaxChunk \in Nat /\ MaxReceived \in Nat

VARIABLES
  buffer, buffstart, buffcount, buffsize, hightide,
  is_closed, is_started,
  received,   \* history: every byte the buffer accepted, in order
  eaten,      \* history: how many of them have left the buffer
  res         \* what the last call returned, errno included

bufvars == <<buffer, buffstart, buffcount, buffsize, hightide>>
vars == <<bufvars, is_closed, is_started, received, eaten, res>>

Results == {"OK", "KEY", "AGAIN", "NONE", "EOF",
            "EINVAL", "ENOMEM", "EBADF", "EINTR", "EIO"}

Cells == 0 .. Top - 1

TypeOK ==
  /\ buffer \in [Cells -> Byte \cup {Junk}]
  /\ buffstart \in Int /\ buffcount \in Nat /\ hightide \in Nat
  /\ buffsize \in Sizes
  /\ is_closed \in BOOLEAN /\ is_started \in BOOLEAN
  /\ received \in Seq(Byte) /\ eaten \in Nat
  /\ res \in Results

(* termkey_alloc, termkey_init and termkey_start *)
Init ==
  /\ buffer = [i \in Cells |-> Junk]
  /\ buffstart = 0 /\ buffcount = 0 /\ hightide = 0
  /\ buffsize \in Sizes
  /\ is_closed = FALSE /\ is_started = TRUE
  /\ received = <<>> /\ eaten = 0
  /\ res = "OK"

-----------------------------------------------------------------------------
(* A read outside the buffer may give anything, which junk stands for. *)
Cell(i) == IF i \in Cells THEN buffer[i] ELSE Junk
CHARAT(i) == Cell(buffstart + i)

(* The first lines of push_bytes and advisereadable: move the pending      *)
(* bytes to the front of the buffer, leaving what lies beyond as it was.   *)
AtFront ==
  [i \in Cells |-> IF i < buffcount THEN CHARAT(i) ELSE buffer[i]]

(* Append the bytes of s behind the pending ones. *)
AppendBytes(s) ==
  /\ buffer' = [i \in Cells |->
                  IF i \in buffcount .. buffcount + Len(s) - 1
                    THEN s[i - buffcount + 1] ELSE AtFront[i]]
  /\ buffstart' = 0
  /\ buffcount' = buffcount + Len(s)
  /\ received' = received \o s
  /\ UNCHANGED <<buffsize, hightide, eaten>>

MoveOnly ==
  /\ buffer' = AtFront /\ buffstart' = 0
  /\ UNCHANGED <<buffcount, buffsize, hightide, received, eaten>>

Chunks == UNION {[1 .. n -> Byte] : n \in 1 .. MaxChunk}

(* Mutant: push_bytes without the test that clips the length. *)
UnclippedPush ==
  /\ buffcount < buffsize
  /\ \E s \in Chunks : Len(received) + Len(s) <= MaxReceived /\ AppendBytes(s)
  /\ res' = "OK"
  /\ UNCHANGED <<is_closed, is_started>>

(* termkey_push_bytes: a full buffer refuses, otherwise as much of the     *)
(* chunk as there is room for is taken.                                    *)
push_bytes ==
  /\ \/ /\ buffcount >= buffsize
        /\ MoveOnly /\ res' = "ENOMEM"
     \/ /\ buffcount < buffsize
        /\ \E s \in Chunks :
             LET n == IF Len(s) > buffsize - buffcount
                        THEN buffsize - buffcount ELSE Len(s)
             IN  /\ Len(received) + n <= MaxReceived
                 /\ AppendBytes([i \in 1 .. n |-> s[i]])
        /\ res' = "OK"
  /\ UNCHANGED <<is_closed, is_started>>

(* termkey_advisereadable: read(2) gives some bytes, nothing yet (EAGAIN), *)
(* end of file, a signal or an error.  An interrupted read is retried,     *)
(* which is invisible here, unless FLAG_EINTR asks for an error.           *)
advisereadable ==
  /\ \/ /\ ~HasFd
        /\ res' = "EBADF" /\ UNCHANGED <<bufvars, received, eaten, is_closed>>
     \/ /\ HasFd /\ buffcount >= buffsize
        /\ MoveOnly /\ res' = "ENOMEM" /\ UNCHANGED is_closed
     \/ /\ HasFd /\ buffcount < buffsize
        /\ \/ /\ MoveOnly
              /\ \/ res' \in {"NONE", "EIO"} /\ UNCHANGED is_closed
                 \/ FlagEintr /\ res' = "EINTR" /\ UNCHANGED is_closed
                 \/ res' = "NONE" /\ is_closed' = TRUE
           \/ /\ \E s \in Chunks :
                   /\ Len(s) <= buffsize - buffcount
                   /\ Len(received) + Len(s) <= MaxReceived
                   /\ AppendBytes(s)
              /\ res' = "AGAIN" /\ UNCHANGED is_closed
  /\ UNCHANGED is_started

-----------------------------------------------------------------------------
(* peekkey begins by dropping the bytes of the last unknown CSI sequence.  *)
start0 == buffstart + hightide
count0 == buffcount - hightide

(* peekkey slides the data down when a driver has found a key beyond the   *)
(* middle of the buffer; `at' is where it was looking, which behind Escape *)
(* prefixes is not the start of the pending bytes.  A key peekkey_simple   *)
(* finds slides nothing.  buffstart is a size_t: a negative number here    *)
(* stands for the value it wraps to.                                       *)
Half == buffsize \div 2
Slides(driver, at) == driver /\ at > Half
(* Mutant: the slide copies one byte too few. *)
ShortSlide == [i \in Cells |->
                 IF i < Half - 1 THEN Cell(i + Half) ELSE buffer[i]]

SlideData == [i \in Cells |->
                IF i < Half THEN Cell(i + Half) ELSE buffer[i]]

(* A key of n bytes is found after alt Escape prefixes and eaten; the next *)
(* `keep' bytes stay for termkey_interpret_csi.                            *)
EatKey(n, alt, keep, driver) ==
  /\ buffer' = IF Slides(driver, start0 + alt) THEN SlideData ELSE buffer
  /\ \/ /\ n >= count0
        /\ buffstart' = 0 /\ buffcount' = 0
     \/ /\ n < count0
        /\ buffstart' = n + IF Slides(driver, start0 + alt)
                              THEN start0 - Half ELSE start0
        /\ buffcount' = count0 - n
  /\ hightide' = keep
  /\ eaten' = eaten + hightide + n
  /\ UNCHANGED buffsize

(* Mutant: a slide that moves buffstart and not the data. *)
MoveWithoutData(alt, driver) ==
  /\ buffstart' = IF Slides(driver, start0 + alt) THEN start0 - Half ELSE start0
  /\ buffcount' = count0
  /\ hightide' = 0
  /\ eaten' = eaten + hightide
  /\ UNCHANGED <<buffer, buffsize>>

(* No key yet: getkey looks again with force to say what it would be, and  *)
(* leaves the bytes where they are, though they may slide.                 *)
KeepBytes(alt, driver) ==
  /\ buffer' = IF Slides(driver, start0 + alt) THEN SlideData ELSE buffer
  /\ buffstart' = IF Slides(driver, start0 + alt) THEN start0 - Half ELSE start0
  /\ buffcount' = count0
  /\ hightide' = 0
  /\ eaten' = eaten + hightide
  /\ UNCHANGED buffsize

NotStarted ==
  /\ ~is_started
  /\ res' = "EINVAL" /\ UNCHANGED <<bufvars, eaten>>

FoundKey ==
  /\ is_started
  /\ \E n \in 1 .. count0 : \E alt \in 0 .. n - 1 : \E keep \in 0 .. count0 - n :
       \E driver \in BOOLEAN : EatKey(n, alt, keep, driver)
  /\ res' = "KEY"

(* An empty buffer is at its end of file once the file is closed. *)
FoundNothing ==
  /\ is_started /\ count0 = 0
  /\ buffstart' = start0 /\ buffcount' = 0 /\ hightide' = 0
  /\ eaten' = eaten + hightide
  /\ res' = IF is_closed THEN "EOF" ELSE "NONE"
  /\ UNCHANGED <<buffer, buffsize>>

FoundPart ==
  /\ is_started /\ count0 > 0
  /\ \E alt \in 0 .. count0 - 1, driver \in BOOLEAN :
       alt <= MaxEscapes /\ KeepBytes(alt, driver)
  /\ res' = "AGAIN"

getkey ==
  /\ NotStarted \/ FoundKey \/ FoundNothing \/ FoundPart
  /\ UNCHANGED <<is_closed, is_started, received>>

getkey_force ==
  /\ NotStarted \/ FoundKey \/ FoundNothing
  /\ UNCHANGED <<is_closed, is_started, received>>

-----------------------------------------------------------------------------
(* Mutant: room for a terminating zero is counted as buffer space. *)
RoomForZero(size) ==
  /\ HostShrinks \/ size >= buffsize
  /\ buffsize' = size + 1
  /\ buffer' = [i \in Cells |-> IF i < size /\ i < buffsize
                                  THEN buffer[i] ELSE Junk]
  /\ res' = "OK"
  /\ UNCHANGED <<buffstart, buffcount, hightide, is_closed, is_started,
                 received, eaten>>

(* realloc keeps the cells both sizes have and leaves junk in new ones. *)
set_buffer_size(size) ==
  /\ HostShrinks \/ size >= buffsize
  /\ buffsize' = size
  /\ buffer' = [i \in Cells |-> IF i < size /\ i < buffsize
                                  THEN buffer[i] ELSE Junk]
  /\ res' = "OK"
  /\ UNCHANGED <<buffstart, buffcount, hightide, is_closed, is_started,
                 received, eaten>>

stop ==
  /\ is_started' = FALSE /\ res' = "OK"
  /\ UNCHANGED <<bufvars, is_closed, received, eaten>>

start ==
  /\ is_started' = TRUE /\ res' = "OK"
  /\ UNCHANGED <<bufvars, is_closed, received, eaten>>

Next ==
  \/ push_bytes \/ advisereadable
  \/ getkey \/ getkey_force
  \/ \E size \in Sizes : set_buffer_size(size)
  \/ stop \/ start

Spec == Init /\ [][Next]_vars

-----------------------------------------------------------------------------
(* The pending bytes lie inside the malloc'ed space and the kept bytes of  *)
(* an unknown CSI sequence are among them: every CHARAT(i) a driver makes, *)
(* and every memmove, stays inside the buffer whatever the calls before.   *)
WithinBuffer ==
  /\ 0 <= buffstart /\ buffstart + buffcount <= buffsize
  /\ hightide <= buffcount

(* No byte is lost, repeated or reordered: what is pending is exactly what *)
(* was accepted and not yet eaten, across moves, slides and resizes.       *)
NothingLost ==
  /\ Len(received) = eaten + buffcount
  /\ \A i \in 0 .. buffcount - 1 :
       CHARAT(i) = received[eaten + i + 1]

(* The bytes a driver has not yet decoded. *)
Undecoded == [i \in 1 .. count0 |-> Cell(start0 + i - 1)]

(* A getkey that answers AGAIN takes nothing: the bytes still to be        *)
(* decoded are the same ones, in the same order, although the forced look  *)
(* behind the answer may have slid them.                                   *)
AgainTakesNothing ==
  [][getkey /\ res' = "AGAIN" => Undecoded' = Undecoded]_vars

=============================================================================
