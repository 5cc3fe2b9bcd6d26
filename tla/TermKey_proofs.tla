--------------------------- MODULE TermKey_proofs ---------------------------
(***************************************************************************)
(* Proofs about the input buffer of module TermKeyBuffer, for every buffer *)
(* size, every chunk of input and every sequence of calls, and about the   *)
(* real drivers of module TermKey that look at it, for every terminal.     *)
(***************************************************************************)
EXTENDS TermKey, TermKeyDecode_proofs

(* The host never asks for a smaller buffer, and at most one Escape waits  *)
(* in front of an unfinished key.  Without either the claims are false.    *)
GentleHost == ~HostShrinks /\ MaxEscapes \in {0, 1}

BoundsInv == TypeOK /\ WithinBuffer

(* The numbers of a state that is within its bounds, and what the middle   *)
(* of the buffer is: arithmetic facts used by every step.                  *)
LEMMA Typing ==
  ASSUME BoundsInv
  PROVE  /\ buffstart \in Nat /\ buffcount \in Nat /\ hightide \in Nat /\ eaten \in Nat
         /\ buffsize \in Nat /\ buffsize >= 1 /\ Top \in Nat /\ buffsize <= Top
         /\ buffstart + buffcount <= buffsize /\ hightide <= buffcount
         /\ Half \in Nat /\ 2 * Half <= buffsize /\ buffsize <= 2 * Half + 1
         /\ start0 \in Nat /\ count0 \in Nat /\ start0 + count0 = buffstart + buffcount
<1>1. /\ buffstart \in Int /\ buffcount \in Nat /\ hightide \in Nat
      /\ eaten \in Nat /\ buffsize \in Sizes
  BY DEF BoundsInv, TypeOK
<1>2. buffsize \in Nat /\ buffsize >= 1 /\ Top \in Nat /\ buffsize <= Top
  BY <1>1, BufferAssumption
<1>3. 0 <= buffstart /\ buffstart + buffcount <= buffsize /\ hightide <= buffcount
  BY DEF BoundsInv, WithinBuffer
<1>4. Half \in Nat /\ 2 * Half <= buffsize /\ buffsize <= 2 * Half + 1
  BY <1>2 DEF Half
<1> QED
  BY <1>1, <1>2, <1>3, <1>4 DEF start0, count0

(* Reading a cell gives a byte or junk, so the moved and the slid buffer   *)
(* are buffers.                                                            *)
LEMMA BufferTypes ==
  ASSUME TypeOK
  PROVE  /\ AtFront \in [Cells -> Byte \cup {Junk}]
         /\ SlideData \in [Cells -> Byte \cup {Junk}]
<1>1. \A i : Cell(i) \in Byte \cup {Junk}
  BY DEF TypeOK, Cell
<1>2. \A i \in Cells : buffer[i] \in Byte \cup {Junk}
  BY DEF TypeOK
<1> QED
  BY <1>1, <1>2 DEF AtFront, SlideData, CHARAT

(* A new instance has an empty buffer of its full size (termkey_alloc). *)
LEMMA InitBounds == Init => BoundsInv
<1> SUFFICES ASSUME Init PROVE BoundsInv
  OBVIOUS
<1>1. buffer \in [Cells -> Byte \cup {Junk}]
  BY DEF Init
<1>2. received \in Seq(Byte)
  BY DEF Init
<1>3. /\ buffstart \in Int /\ buffcount \in Nat /\ hightide \in Nat
      /\ eaten \in Nat /\ buffsize \in Sizes
  BY DEF Init
<1>4. res \in Results /\ is_closed \in BOOLEAN /\ is_started \in BOOLEAN
  BY Zenon DEF Init, Results
<1>5. WithinBuffer
  BY BufferAssumption DEF Init, WithinBuffer
<1> QED
  BY <1>1, <1>2, <1>3, <1>4, <1>5 DEF BoundsInv, TypeOK

(* Appending a chunk there is room for. *)
LEMMA AppendBounds ==
  ASSUME BoundsInv, NEW n \in Nat, NEW s \in [1 .. n -> Byte],
         n <= buffsize - buffcount, AppendBytes(s)
  PROVE  /\ buffer' \in [Cells -> Byte \cup {Junk}]
         /\ received' \in Seq(Byte)
         /\ buffstart' = 0 /\ buffcount' = buffcount + n
         /\ buffsize' = buffsize /\ hightide' = hightide /\ eaten' = eaten
<1>1. s \in Seq(Byte) /\ Len(s) = n
  OBVIOUS
<1>2. AtFront \in [Cells -> Byte \cup {Junk}]
  BY BufferTypes DEF BoundsInv
<1>3. received' \in Seq(Byte)
  BY <1>1 DEF AppendBytes, BoundsInv, TypeOK
<1>4. ASSUME NEW i \in Cells, i \in buffcount .. buffcount + Len(s) - 1
      PROVE  s[i - buffcount + 1] \in Byte
  <2>0. i \in Int /\ buffcount \in Int /\ Len(s) = n
    BY <1>1, <1>4, Typing DEF Cells
  <2>1. i - buffcount + 1 \in 1 .. n
    BY <2>0, <1>4
  <2> QED
    BY <2>1
<1>5. buffer' \in [Cells -> Byte \cup {Junk}]
  BY <1>2, <1>4 DEF AppendBytes
<1> QED
  BY <1>1, <1>3, <1>5 DEF AppendBytes

(* Moving the data to the front of the buffer keeps it inside (memmove of
   push_bytes and advisereadable). *)
LEMMA MoveBounds ==
  ASSUME BoundsInv, MoveOnly
  PROVE  /\ buffer' \in [Cells -> Byte \cup {Junk}]
         /\ buffstart' = 0
         /\ UNCHANGED <<buffcount, buffsize, hightide, received, eaten>>
  BY BufferTypes DEF BoundsInv, MoveOnly

(* What a step has to establish to keep the bounds. *)
LEMMA BoundsFromParts ==
  ASSUME buffer' \in [Cells -> Byte \cup {Junk}], received' \in Seq(Byte),
         buffstart' \in Nat, buffcount' \in Nat, hightide' \in Nat, eaten' \in Nat,
         buffsize' \in Sizes, res' \in Results,
         is_closed' \in BOOLEAN, is_started' \in BOOLEAN,
         buffstart' + buffcount' <= buffsize', hightide' <= buffcount'
  PROVE  BoundsInv'
  BY DEF BoundsInv, TypeOK, WithinBuffer

(* push_bytes clips what it is given to the room that is left. *)
LEMMA PushBounds == BoundsInv /\ push_bytes => BoundsInv'
<1> SUFFICES ASSUME BoundsInv, push_bytes PROVE BoundsInv'
  OBVIOUS
<1>1. res' \in Results /\ UNCHANGED <<is_closed, is_started>>
  BY DEF push_bytes, Results
<1>2. /\ buffsize \in Sizes /\ received \in Seq(Byte)
      /\ is_closed \in BOOLEAN /\ is_started \in BOOLEAN
  BY DEF BoundsInv, TypeOK
<1>3. CASE MoveOnly
  BY <1>1, <1>2, <1>3, MoveBounds, Typing, BoundsFromParts, SMTT(20)
<1>4. ASSUME buffcount < buffsize, NEW s \in Chunks,
             AppendBytes([i \in 1 .. (IF Len(s) > buffsize - buffcount
                                        THEN buffsize - buffcount ELSE Len(s)) |-> s[i]])
      PROVE  BoundsInv'
  <2>1. PICK m \in 1 .. MaxChunk : s \in [1 .. m -> Byte]
    BY DEF Chunks
  <2>2. Len(s) = m /\ m \in Nat
    BY <2>1, BufferAssumption
  <2>3. PICK n \in Nat : /\ n = IF Len(s) > buffsize - buffcount
                                  THEN buffsize - buffcount ELSE Len(s)
                         /\ n <= m /\ n <= buffsize - buffcount
    BY <1>4, <2>2, Typing, SMTT(20)
  <2>4. [i \in 1 .. n |-> s[i]] \in [1 .. n -> Byte]
    BY <2>1, <2>2, <2>3
  <2>5. AppendBytes([i \in 1 .. n |-> s[i]])
    BY <1>4, <2>3
  <2>6. /\ buffer' \in [Cells -> Byte \cup {Junk}]
        /\ received' \in Seq(Byte)
        /\ buffstart' = 0 /\ buffcount' = buffcount + n
        /\ buffsize' = buffsize /\ hightide' = hightide /\ eaten' = eaten
    BY <2>3, <2>4, <2>5, AppendBounds
  <2>7. /\ buffstart' \in Nat /\ buffcount' \in Nat /\ hightide' \in Nat /\ eaten' \in Nat
        /\ buffstart' + buffcount' <= buffsize' /\ hightide' <= buffcount'
    <3>1. n \in Nat /\ n <= buffsize - buffcount
      BY <2>3
    <3>2. /\ buffstart' = 0 /\ buffcount' = buffcount + n
          /\ buffsize' = buffsize /\ hightide' = hightide /\ eaten' = eaten
      BY <2>6
    <3> QED
      BY <3>1, <3>2, Typing
  <2> QED
    BY <1>1, <1>2, <2>6, <2>7, BoundsFromParts
<1> QED
  BY <1>3, <1>4 DEF push_bytes

(* advisereadable reads no more than the room that is left. *)
LEMMA AdviseBounds == BoundsInv /\ advisereadable => BoundsInv'
<1> SUFFICES ASSUME BoundsInv, advisereadable PROVE BoundsInv'
  OBVIOUS
<1>1. res' \in Results
  BY DEF advisereadable, Results
<1>2. is_closed' \in BOOLEAN /\ is_started' \in BOOLEAN
  BY DEF advisereadable, BoundsInv, TypeOK
<1>3. buffsize \in Sizes /\ received \in Seq(Byte)
  BY DEF BoundsInv, TypeOK
<1>4. CASE MoveOnly
  BY <1>1, <1>2, <1>3, <1>4, MoveBounds, Typing, BoundsFromParts
<1>5. CASE UNCHANGED <<bufvars, received, eaten>>
  BY <1>1, <1>2, <1>3, <1>5, Typing, BoundsFromParts DEF bufvars, BoundsInv, TypeOK
<1>6. ASSUME NEW s \in Chunks, Len(s) <= buffsize - buffcount, AppendBytes(s)
      PROVE  BoundsInv'
  <2>1. PICK m \in 1 .. MaxChunk : s \in [1 .. m -> Byte]
    BY DEF Chunks
  <2>2. Len(s) = m /\ m \in Nat
    BY <2>1, BufferAssumption
  <2>3. m \in Nat /\ m <= buffsize - buffcount
    BY <1>6, <2>2
  <2>4. /\ buffer' \in [Cells -> Byte \cup {Junk}]
        /\ received' \in Seq(Byte)
        /\ buffstart' = 0 /\ buffcount' = buffcount + m
        /\ buffsize' = buffsize /\ hightide' = hightide /\ eaten' = eaten
    BY <1>6, <2>1, <2>3, AppendBounds
  <2>5. /\ buffstart' \in Nat /\ buffcount' \in Nat /\ hightide' \in Nat /\ eaten' \in Nat
        /\ buffstart' + buffcount' <= buffsize' /\ hightide' <= buffcount'
    <3>1. /\ buffstart' = 0 /\ buffcount' = buffcount + m
          /\ buffsize' = buffsize /\ hightide' = hightide /\ eaten' = eaten
      BY <2>4
    <3> QED
      BY <2>3, <3>1, Typing
  <2> QED
    BY <1>1, <1>2, <1>3, <2>4, <2>5, BoundsFromParts
<1> QED
  BY <1>4, <1>5, <1>6 DEF advisereadable

(* Eating a key keeps the bounds even when the slide happened behind       *)
(* Escape prefixes: the key is longer than its prefixes.                   *)
LEMMA EatBounds ==
  ASSUME BoundsInv, NEW n \in 1 .. count0, NEW alt \in 0 .. n - 1,
         NEW keep \in 0 .. count0 - n, NEW driver \in BOOLEAN,
         EatKey(n, alt, keep, driver)
  PROVE  /\ buffer' \in [Cells -> Byte \cup {Junk}]
         /\ buffstart' \in Nat /\ buffcount' \in Nat /\ hightide' \in Nat /\ eaten' \in Nat
         /\ buffsize' = buffsize
         /\ buffstart' + buffcount' <= buffsize' /\ hightide' <= buffcount'
<1>1. buffer' \in [Cells -> Byte \cup {Junk}]
  BY BufferTypes DEF EatKey, BoundsInv, TypeOK
<1>2. /\ n \in Nat /\ 1 <= n /\ n <= count0
      /\ alt \in Nat /\ alt <= n - 1 /\ keep \in Nat /\ keep <= count0 - n
  BY Typing
<1>3. hightide' = keep /\ eaten' = eaten + hightide + n /\ buffsize' = buffsize
  BY DEF EatKey
<1>4. \/ n >= count0 /\ buffstart' = 0 /\ buffcount' = 0
      \/ /\ n < count0 /\ buffcount' = count0 - n
         /\ \/ start0 + alt > Half /\ buffstart' = n + (start0 - Half)
            \/ buffstart' = n + start0
  BY DEF EatKey, Slides
<1>5. CASE n >= count0 /\ buffstart' = 0 /\ buffcount' = 0
  BY <1>1, <1>2, <1>3, <1>5, Typing
<1>6. CASE n < count0 /\ buffcount' = count0 - n /\ buffstart' = n + start0
  BY <1>1, <1>2, <1>3, <1>6, Typing
<1>7. CASE /\ n < count0 /\ buffcount' = count0 - n
           /\ start0 + alt > Half /\ buffstart' = n + (start0 - Half)
  BY <1>1, <1>2, <1>3, <1>7, Typing
<1> QED
  BY <1>4, <1>5, <1>6, <1>7

(* Keeping an unfinished key keeps them only if at most one Escape waits   *)
(* in front of it.                                                         *)
LEMMA KeepBounds ==
  ASSUME BoundsInv, NEW alt \in 0 .. count0 - 1, NEW driver \in BOOLEAN,
         alt <= 1, KeepBytes(alt, driver)
  PROVE  /\ buffer' \in [Cells -> Byte \cup {Junk}]
         /\ buffstart' \in Nat /\ buffcount' \in Nat /\ hightide' \in Nat /\ eaten' \in Nat
         /\ buffsize' = buffsize
         /\ buffstart' + buffcount' <= buffsize' /\ hightide' <= buffcount'
<1>1. buffer' \in [Cells -> Byte \cup {Junk}]
  BY BufferTypes DEF KeepBytes, BoundsInv, TypeOK
<1>2. alt \in Nat /\ alt <= 1
  BY Typing
<1>3. /\ hightide' = 0 /\ eaten' = eaten + hightide /\ buffsize' = buffsize
      /\ buffcount' = count0
      /\ \/ start0 + alt > Half /\ buffstart' = start0 - Half
         \/ buffstart' = start0
  BY DEF KeepBytes, Slides
<1> QED
  BY <1>1, <1>2, <1>3, Typing

(* A look, forced or not, with at most one Escape in front of what it left. *)
GentlePart ==
  /\ is_started /\ res' = "AGAIN"
  /\ \E alt \in 0 .. count0 - 1, driver \in BOOLEAN : alt <= 1 /\ KeepBytes(alt, driver)

Looked ==
  /\ NotStarted \/ FoundKey \/ FoundNothing \/ GentlePart
  /\ UNCHANGED <<is_closed, is_started, received>>

LEMMA GentleLooks ==
  ASSUME GentleHost, BoundsInv, getkey \/ getkey_force
  PROVE  Looked
<1>1. CASE FoundPart
  <2>1. PICK alt \in 0 .. count0 - 1, driver \in BOOLEAN :
               alt <= MaxEscapes /\ KeepBytes(alt, driver)
    BY <1>1 DEF FoundPart
  <2>2. alt <= 1
    BY <2>1, Typing DEF GentleHost
  <2> QED
    BY <1>1, <2>1, <2>2 DEF FoundPart, GentlePart, Looked, getkey, getkey_force
<1> QED
  BY <1>1 DEF Looked, getkey, getkey_force

(* getkey and its forced form take and slide what is inside the buffer. *)
LEMMA GetkeyBounds ==
  ASSUME BoundsInv, Looked
  PROVE  BoundsInv'
<1>1. res' \in Results
  BY DEF Looked, NotStarted, FoundKey, FoundNothing, GentlePart, Results
<1>2. /\ buffsize \in Sizes /\ received' \in Seq(Byte)
      /\ is_closed' \in BOOLEAN /\ is_started' \in BOOLEAN
  BY DEF Looked, BoundsInv, TypeOK
<1>3. CASE NotStarted
  BY <1>1, <1>2, <1>3, Typing, BoundsFromParts DEF NotStarted, bufvars, BoundsInv, TypeOK
<1>4. CASE FoundKey
  <2>1. PICK n \in 1 .. count0 :
               \E alt \in 0 .. n - 1 : \E keep \in 0 .. count0 - n :
                 \E driver \in BOOLEAN : EatKey(n, alt, keep, driver)
    BY <1>4 DEF FoundKey
  <2>2. PICK alt \in 0 .. n - 1 : \E keep \in 0 .. count0 - n :
               \E driver \in BOOLEAN : EatKey(n, alt, keep, driver)
    BY <2>1
  <2>3. PICK keep \in 0 .. count0 - n, driver \in BOOLEAN : EatKey(n, alt, keep, driver)
    BY <2>2
  <2> QED
    BY <1>1, <1>2, <2>3, EatBounds, BoundsFromParts
<1>5. CASE FoundNothing
  <2>1. /\ buffstart' = start0 /\ buffcount' = 0 /\ hightide' = 0
        /\ eaten' = eaten + hightide /\ buffsize' = buffsize
        /\ buffer' \in [Cells -> Byte \cup {Junk}]
    BY <1>5 DEF FoundNothing, BoundsInv, TypeOK
  <2>2. /\ buffstart' \in Nat /\ eaten' \in Nat /\ buffstart' + buffcount' <= buffsize'
    BY <1>5, <2>1, Typing DEF FoundNothing
  <2> QED
    BY <1>1, <1>2, <2>1, <2>2, BoundsFromParts
<1>6. CASE GentlePart
  <2>1. PICK alt \in 0 .. count0 - 1, driver \in BOOLEAN : alt <= 1 /\ KeepBytes(alt, driver)
    BY <1>6 DEF GentlePart
  <2> QED
    BY <1>1, <1>2, <2>1, KeepBounds, BoundsFromParts
<1> QED
  BY <1>3, <1>4, <1>5, <1>6 DEF Looked

(* set_buffer_size to no less than before leaves the pending bytes inside. *)
LEMMA ResizeBounds ==
  ASSUME ~HostShrinks, BoundsInv, NEW size \in Sizes, set_buffer_size(size)
  PROVE  BoundsInv'
<1>1. buffer' \in [Cells -> Byte \cup {Junk}]
  BY DEF set_buffer_size, BoundsInv, TypeOK
<1>2. /\ buffsize' = size /\ size >= buffsize
      /\ UNCHANGED <<buffstart, buffcount, hightide, is_closed, is_started, received, eaten>>
  BY DEF set_buffer_size
<1>3. res' \in Results
  BY DEF set_buffer_size, Results
<1>4. received \in Seq(Byte) /\ is_closed \in BOOLEAN /\ is_started \in BOOLEAN
  BY DEF BoundsInv, TypeOK
<1>5. buffstart' + buffcount' <= buffsize' /\ hightide' <= buffcount'
  BY <1>2, Typing, BufferAssumption
<1> QED
  BY <1>1, <1>2, <1>3, <1>4, <1>5, Typing, BoundsFromParts

(* start and stop leave the buffer as it is. *)
LEMMA StartStopBounds ==
  ASSUME BoundsInv, stop \/ start
  PROVE  BoundsInv'
  BY Typing, BoundsFromParts DEF stop, start, bufvars, BoundsInv, TypeOK, Results

(* Every reachable state of the buffer is well typed and within its        *)
(* malloc'ed space, for every set of sizes, even or odd.                   *)
THEOREM BufferBounds ==
  ASSUME GentleHost
  PROVE  Spec => [](TypeOK /\ WithinBuffer)
<1>1. Init => BoundsInv
  BY InitBounds
<1>2. BoundsInv /\ [Next]_vars => BoundsInv'
  <2> SUFFICES ASSUME BoundsInv, [Next]_vars PROVE BoundsInv'
    OBVIOUS
  <2>1. CASE push_bytes
    BY <2>1, PushBounds
  <2>2. CASE advisereadable
    BY <2>2, AdviseBounds
  <2>3. CASE getkey \/ getkey_force
    BY <2>3, GentleLooks, GetkeyBounds
  <2>4. ASSUME NEW size \in Sizes, set_buffer_size(size) PROVE BoundsInv'
    BY <2>4, ResizeBounds DEF GentleHost
  <2>5. CASE stop \/ start
    BY <2>5, StartStopBounds
  <2>6. CASE UNCHANGED vars
    BY <2>6 DEF vars, bufvars, BoundsInv, TypeOK, WithinBuffer
  <2> QED
    BY <2>1, <2>2, <2>3, <2>4, <2>5, <2>6 DEF Next
<1>3. BoundsInv => TypeOK /\ WithinBuffer
  BY DEF BoundsInv
<1> QED
  BY <1>1, <1>2, <1>3, PTL DEF Spec

-----------------------------------------------------------------------------
(* peekkey slides half a buffer, rounded down: with an odd size the last   *)
(* byte stays behind, and the claim below is false.                        *)
EvenSizes == \A size \in Sizes : size % 2 = 0

FullInv == BoundsInv /\ NothingLost

(* Where a pending byte is. *)
LEMMA PendingByte ==
  ASSUME FullInv, NEW i \in Int, 0 <= i, i < buffcount
  PROVE  /\ buffstart + i \in Cells
         /\ CHARAT(i) = buffer[buffstart + i]
         /\ buffer[buffstart + i] = received[eaten + i + 1]
<1>1. BoundsInv
  BY DEF FullInv
<1>2. buffstart + i \in Cells
  BY <1>1, Typing DEF Cells
<1>3. CHARAT(i) = buffer[buffstart + i]
  BY <1>2 DEF CHARAT, Cell
<1>4. i \in 0 .. buffcount - 1
  BY <1>1, Typing
<1> QED
  BY <1>2, <1>3, <1>4 DEF FullInv, NothingLost

(* What a step has to establish for nothing to be lost. *)
LEMMA LostFromParts ==
  ASSUME BoundsInv', Len(received') = eaten' + buffcount',
         \A i \in 0 .. buffcount' - 1 :
           /\ buffstart' + i \in Cells
           /\ buffer'[buffstart' + i] = received'[eaten' + i + 1]
  PROVE  FullInv'
<1>1. \A i \in 0 .. buffcount' - 1 :
        (CHARAT(i))' = buffer'[buffstart' + i]
  BY DEF CHARAT, Cell
<1> QED
  BY <1>1 DEF FullInv, NothingLost

(* With an even size the slide moves every byte beyond the middle. *)
LEMMA SlideReads ==
  ASSUME BoundsInv, EvenSizes, NEW p \in Int, Half <= p, p < buffsize
  PROVE  /\ p \in Cells /\ p - Half \in Cells
         /\ SlideData[p - Half] = buffer[p]
<1>1. buffsize = 2 * Half
  <2>1. buffsize \in Sizes /\ buffsize \in Nat
    BY Typing DEF BoundsInv, TypeOK
  <2>2. buffsize % 2 = 0
    BY <2>1 DEF EvenSizes
  <2> QED
    BY <2>1, <2>2 DEF Half
<1>2. p \in Cells /\ p - Half \in Cells /\ p - Half < Half /\ (p - Half) + Half = p
  BY <1>1, Typing DEF Cells
<1>3. Cell(p) = buffer[p]
  BY <1>2 DEF Cell
<1>4. SlideData[p - Half] = Cell((p - Half) + Half)
  BY <1>2 DEF SlideData
<1> QED
  BY <1>2, <1>3, <1>4

(* The data moved to the front is the data that was pending (memmove). *)
LEMMA MoveLoses ==
  ASSUME FullInv, MoveOnly, BoundsInv'
  PROVE  FullInv'
<1>1. /\ buffer' = AtFront /\ buffstart' = 0 /\ buffcount' = buffcount
      /\ received' = received /\ eaten' = eaten
  BY DEF MoveOnly
<1>2. BoundsInv /\ Len(received) = eaten + buffcount
  BY DEF FullInv, NothingLost
<1>3. ASSUME NEW i \in 0 .. buffcount' - 1
      PROVE  /\ buffstart' + i \in Cells
             /\ buffer'[buffstart' + i] = received'[eaten' + i + 1]
  <2>1. i \in Int /\ 0 <= i /\ i < buffcount /\ 0 + i = i
    BY <1>1, <1>2, <1>3, Typing, SMTT(20)
  <2>2. i \in Cells
    BY <2>1, <1>2, Typing, SMTT(20) DEF Cells
  <2>3. AtFront[i] = CHARAT(i)
    BY <2>1, <2>2 DEF AtFront
  <2> QED
    BY <1>1, <2>1, <2>2, <2>3, PendingByte
<1> QED
  BY <1>1, <1>2, <1>3, LostFromParts

(* Bytes put behind the pending ones follow them, in their order. *)
LEMMA AppendLoses ==
  ASSUME FullInv, NEW n \in Nat, NEW s \in [1 .. n -> Byte],
         n <= buffsize - buffcount, AppendBytes(s), BoundsInv'
  PROVE  FullInv'
<1>1. s \in Seq(Byte) /\ Len(s) = n
  OBVIOUS
<1>2. BoundsInv /\ Len(received) = eaten + buffcount /\ received \in Seq(Byte)
  BY DEF FullInv, NothingLost, BoundsInv, TypeOK
<1>3. /\ buffstart' = 0 /\ buffcount' = buffcount + n /\ eaten' = eaten
      /\ received' = received \o s
  BY <1>1 DEF AppendBytes
<1>4. /\ Len(received \o s) = Len(received) + Len(s)
      /\ \A k \in 1 .. Len(received) : (received \o s)[k] = received[k]
      /\ \A k \in 1 .. Len(s) : (received \o s)[Len(received) + k] = s[k]
  <2>1. received \in Seq(Byte) /\ s \in Seq(Byte)
    BY <1>1, <1>2
  <2> QED
    BY <2>1, ConcatReads, SMTT(30)
<1>5. /\ Len(received') = Len(received) + n
      /\ \A k \in 1 .. Len(received) : received'[k] = received[k]
      /\ \A k \in 1 .. n : received'[Len(received) + k] = s[k]
  BY <1>1, <1>3, <1>4
<1>6. ASSUME NEW i \in 0 .. buffcount' - 1
      PROVE  /\ buffstart' + i \in Cells
             /\ buffer'[buffstart' + i] = received'[eaten' + i + 1]
  <2>1. /\ i \in Int /\ 0 <= i /\ i < buffcount + n /\ 0 + i = i
        /\ buffcount \in Nat /\ eaten \in Nat
    BY <1>2, <1>3, <1>6, Typing
  <2>2. i \in Cells
    BY <1>2, <2>1, Typing, SMTT(20) DEF Cells
  <2>3. CASE i < buffcount
    <3>1. buffer'[i] = CHARAT(i)
      BY <1>1, <2>1, <2>2, <2>3 DEF AppendBytes, AtFront
    <3>2. eaten + i + 1 \in 1 .. Len(received)
      BY <1>2, <2>1, <2>3
    <3> QED
      BY <1>3, <1>5, <2>1, <2>2, <2>3, <3>1, <3>2, PendingByte
  <2>4. CASE i >= buffcount
    <3>1. /\ i \in buffcount .. buffcount + Len(s) - 1
          /\ i - buffcount + 1 \in 1 .. n
          /\ eaten + i + 1 = Len(received) + (i - buffcount + 1)
      BY <1>1, <1>2, <2>1, <2>4
    <3>2. buffer'[i] = s[i - buffcount + 1]
      BY <2>2, <3>1 DEF AppendBytes
    <3> QED
      BY <1>3, <1>5, <2>1, <2>2, <3>1, <3>2
  <2> QED
    BY <2>1, <2>3, <2>4
<1> QED
  <2>1. Len(received') = eaten' + buffcount'
    <3>1. Len(received') = (eaten + buffcount) + n
      BY <1>2, <1>5
    <3>2. eaten' = eaten /\ buffcount' = buffcount + n
      BY <1>3
    <3>3. eaten \in Nat /\ buffcount \in Nat
      BY <1>2, Typing
    <3> QED
      BY <3>1, <3>2, <3>3
  <2> QED
    BY <2>1, <1>6, LostFromParts

(* Taking d bytes from the front, with or without a slide, leaves the rest *)
(* where they can be read.                                                 *)
LEMMA TakeLoses ==
  ASSUME FullInv, EvenSizes, NEW d \in Nat, hightide <= d, d <= buffcount,
         received' = received, eaten' = eaten + d, buffcount' = buffcount - d,
         \/ buffer' = buffer /\ buffstart' = buffstart + d
         \/ /\ buffer' = SlideData /\ buffstart' = buffstart + d - Half
            /\ Half <= buffstart + d
         \/ buffcount' = 0,
         BoundsInv'
  PROVE  FullInv'
<1>1. BoundsInv /\ Len(received) = eaten + buffcount
  BY DEF FullInv, NothingLost
<1>2. ASSUME NEW i \in 0 .. buffcount' - 1
      PROVE  /\ buffstart' + i \in Cells
             /\ buffer'[buffstart' + i] = received'[eaten' + i + 1]
  <2>1. /\ i \in Int /\ 0 <= i /\ i < buffcount - d /\ buffcount' # 0
        /\ buffcount \in Nat /\ eaten \in Nat /\ buffstart \in Nat /\ Half \in Nat
    <3>1. buffcount \in Nat /\ eaten \in Nat /\ buffstart \in Nat /\ Half \in Nat
      BY <1>1, Typing
    <3>2. buffcount' = buffcount - d /\ i \in 0 .. buffcount' - 1
      BY <1>2
    <3> QED
      BY <3>1, <3>2
  <2>2. /\ d + i \in Int /\ 0 <= d + i /\ d + i < buffcount
        /\ eaten' + i + 1 = eaten + (d + i) + 1
    BY <2>1
  <2>3. /\ buffstart + (d + i) \in Cells
        /\ buffer[buffstart + (d + i)] = received[eaten + (d + i) + 1]
    BY <2>2, PendingByte
  <2>4. CASE buffer' = buffer /\ buffstart' = buffstart + d
    <3>1. buffstart' + i = buffstart + (d + i)
      BY <2>1, <2>4
    <3> QED
      BY <2>2, <2>3, <2>4, <3>1
  <2>5. CASE /\ buffer' = SlideData /\ buffstart' = buffstart + d - Half
             /\ Half <= buffstart + d
    <3>1. PICK p \in Int : p = buffstart + (d + i)
      BY <2>1, <2>2
    <3>2. Half <= p /\ p < buffsize
      BY <1>1, <2>1, <2>2, <2>5, <3>1, Typing
    <3>3. p - Half \in Cells /\ SlideData[p - Half] = buffer[p]
      BY <1>1, <3>2, SlideReads
    <3>4. buffstart' + i = p - Half
      BY <2>1, <2>5, <3>1
    <3>5. buffer[p] = received[eaten + (d + i) + 1]
      BY <2>3, <3>1
    <3>6. received'[eaten' + i + 1] = received[eaten + (d + i) + 1]
      BY <2>2
    <3> QED
      BY <2>5, <3>3, <3>4, <3>5, <3>6
  <2> QED
    BY <2>1, <2>4, <2>5
<1>3. Len(received') = eaten' + buffcount'
  BY <1>1, Typing, SMTT(20)
<1> QED
  BY <1>2, <1>3, LostFromParts

(* Taking a key takes the oldest bytes, and the slide that follows moves the rest
   as they are (eat_bytes and peekkey's slide, of an even size). *)
LEMMA EatLoses ==
  ASSUME FullInv, EvenSizes, NEW n \in 1 .. count0, NEW alt \in 0 .. n - 1,
         NEW keep \in 0 .. count0 - n, NEW driver \in BOOLEAN,
         EatKey(n, alt, keep, driver),
         received' = received, BoundsInv'
  PROVE  FullInv'
<1>1. BoundsInv
  BY DEF FullInv
<1>2. PICK d \in Nat : d = hightide + n
  BY <1>1, Typing
<1>3. /\ n \in Nat /\ n <= count0 /\ alt \in Nat /\ alt < n
      /\ hightide \in Nat /\ buffcount \in Nat /\ buffstart \in Nat /\ eaten \in Nat
      /\ start0 = buffstart + hightide /\ count0 = buffcount - hightide /\ Half \in Nat
  BY <1>1, Typing DEF start0, count0
<1>4. hightide <= d /\ d <= buffcount
  BY <1>2, <1>3
<1>5. eaten' = eaten + hightide + n
  BY DEF EatKey
<1>6. eaten' = eaten + d
  BY <1>2, <1>3, <1>5
<1>7. \/ n >= count0 /\ buffcount' = 0
      \/ /\ n < count0 /\ buffcount' = count0 - n
         /\ \/ start0 + alt > Half /\ buffstart' = n + (start0 - Half) /\ buffer' = SlideData
            \/ buffstart' = n + start0 /\ buffer' = buffer
  BY DEF EatKey, Slides
<1>8. /\ buffcount' = buffcount - d
      /\ \/ buffer' = buffer /\ buffstart' = buffstart + d
         \/ /\ buffer' = SlideData /\ buffstart' = buffstart + d - Half
            /\ Half <= buffstart + d
         \/ buffcount' = 0
  <2>1. CASE n >= count0 /\ buffcount' = 0
    BY <1>2, <1>3, <2>1
  <2>2. CASE n < count0 /\ buffcount' = count0 - n /\ buffstart' = n + start0 /\ buffer' = buffer
    BY <1>2, <1>3, <2>2
  <2>3. CASE /\ n < count0 /\ buffcount' = count0 - n /\ start0 + alt > Half
             /\ buffstart' = n + (start0 - Half) /\ buffer' = SlideData
    BY <1>2, <1>3, <2>3
  <2> QED
    BY <1>7, <2>1, <2>2, <2>3
<1> QED
  BY <1>4, <1>6, <1>8, TakeLoses

(* Bytes kept for an unknown CSI sequence are dropped by the next look, as if
   they had been taken with their key (hightide). *)
LEMMA KeepLoses ==
  ASSUME FullInv, EvenSizes, NEW alt \in 0 .. count0 - 1, NEW driver \in BOOLEAN,
         alt <= 1, KeepBytes(alt, driver),
         received' = received, BoundsInv'
  PROVE  FullInv'
<1>1. BoundsInv
  BY DEF FullInv
<1>2. /\ alt \in Nat /\ hightide \in Nat /\ buffcount \in Nat /\ buffstart \in Nat
      /\ start0 = buffstart + hightide /\ count0 = buffcount - hightide /\ Half \in Nat
      /\ hightide <= buffcount
  BY <1>1, Typing DEF start0, count0
<1>3. /\ eaten' = eaten + hightide /\ buffcount' = buffcount - hightide
      /\ \/ /\ start0 + alt > Half
            /\ buffstart' = buffstart + hightide - Half /\ buffer' = SlideData
         \/ buffstart' = buffstart + hightide /\ buffer' = buffer
  BY <1>2 DEF KeepBytes, Slides
<1>4. \/ buffer' = buffer /\ buffstart' = buffstart + hightide
      \/ /\ buffer' = SlideData /\ buffstart' = buffstart + hightide - Half
         /\ Half <= buffstart + hightide
      \/ buffcount' = 0
  BY <1>2, <1>3
<1> QED
  BY <1>2, <1>3, <1>4, TakeLoses

(* getkey and getkey_force take bytes from the front only. *)
LEMMA GetkeyLoses ==
  ASSUME EvenSizes, FullInv, Looked
  PROVE  FullInv'
<1>1. BoundsInv /\ BoundsInv'
  BY GetkeyBounds DEF FullInv
<1>2. received' = received
  BY DEF Looked
<1>3. CASE NotStarted
  <2>1. UNCHANGED <<bufvars, received, eaten>>
    BY <1>2, <1>3 DEF NotStarted
  <2> QED
    BY <1>1, <2>1 DEF bufvars, FullInv, NothingLost, CHARAT, Cell
<1>4. CASE FoundKey
  <2>1. PICK n \in 1 .. count0 :
               \E alt \in 0 .. n - 1 : \E keep \in 0 .. count0 - n :
                 \E driver \in BOOLEAN : EatKey(n, alt, keep, driver)
    BY <1>4 DEF FoundKey
  <2>2. PICK alt \in 0 .. n - 1 : \E keep \in 0 .. count0 - n :
               \E driver \in BOOLEAN : EatKey(n, alt, keep, driver)
    BY <2>1
  <2>3. PICK keep \in 0 .. count0 - n, driver \in BOOLEAN : EatKey(n, alt, keep, driver)
    BY <2>2
  <2> QED
    BY <1>1, <1>2, <2>3, EatLoses
<1>5. CASE FoundNothing
  <2>1. /\ hightide = buffcount /\ hightide \in Nat /\ hightide <= buffcount
        /\ eaten' = eaten + hightide /\ buffcount' = 0
    BY <1>1, <1>5, Typing DEF FoundNothing, count0
  <2>2. buffcount' = buffcount - hightide
    BY <2>1
  <2> QED
    BY <1>1, <1>2, <2>1, <2>2, TakeLoses
<1>6. CASE GentlePart
  <2>1. PICK alt \in 0 .. count0 - 1, driver \in BOOLEAN : alt <= 1 /\ KeepBytes(alt, driver)
    BY <1>6 DEF GentlePart
  <2> QED
    BY <1>1, <1>2, <2>1, KeepLoses
<1> QED
  BY <1>3, <1>4, <1>5, <1>6 DEF Looked

(* A buffer that grows keeps what is pending where it was (realloc). *)
LEMMA ResizeLoses ==
  ASSUME ~HostShrinks, FullInv, NEW size \in Sizes, set_buffer_size(size)
  PROVE  FullInv'
<1>1. BoundsInv /\ BoundsInv' /\ Len(received) = eaten + buffcount
  BY ResizeBounds DEF FullInv, NothingLost
<1>2. /\ UNCHANGED <<buffstart, buffcount, received, eaten>>
      /\ size >= buffsize /\ size \in Nat
  BY BufferAssumption DEF set_buffer_size
<1>3. ASSUME NEW i \in 0 .. buffcount - 1
      PROVE  /\ buffstart + i \in Cells
             /\ buffer'[buffstart + i] = received[eaten + i + 1]
  <2>1. i \in Int /\ 0 <= i /\ i < buffcount
    BY <1>1, Typing
  <2>2. buffstart + i \in Cells /\ buffer[buffstart + i] = received[eaten + i + 1]
    BY <2>1, PendingByte
  <2>3. buffstart + i < buffsize /\ buffstart + i < size
    <3>1. /\ buffstart \in Nat /\ buffcount \in Nat /\ buffsize \in Nat
          /\ buffstart + buffcount <= buffsize
      BY <1>1, Typing
    <3> QED
      BY <1>2, <2>1, <3>1
  <2>4. buffer'[buffstart + i] = buffer[buffstart + i]
    BY <2>2, <2>3 DEF set_buffer_size
  <2> QED
    BY <2>2, <2>4
<1> QED
  BY <1>1, <1>2, <1>3, LostFromParts

(* push_bytes loses nothing of what it says it has taken. *)
LEMMA PushLoses == FullInv /\ push_bytes => FullInv'
<1> SUFFICES ASSUME FullInv, push_bytes PROVE FullInv'
  OBVIOUS
<1>1. BoundsInv /\ BoundsInv'
  BY PushBounds DEF FullInv
<1>2. CASE MoveOnly
  BY <1>1, <1>2, MoveLoses
<1>3. ASSUME buffcount < buffsize, NEW s \in Chunks,
             AppendBytes([i \in 1 .. (IF Len(s) > buffsize - buffcount
                                        THEN buffsize - buffcount ELSE Len(s)) |-> s[i]])
      PROVE  FullInv'
  <2>1. PICK m \in 1 .. MaxChunk : s \in [1 .. m -> Byte]
    BY DEF Chunks
  <2>2. Len(s) = m /\ m \in Nat
    BY <2>1, BufferAssumption
  <2>3. PICK n \in Nat : /\ n = IF Len(s) > buffsize - buffcount
                                  THEN buffsize - buffcount ELSE Len(s)
                         /\ n <= m /\ n <= buffsize - buffcount
    BY <1>1, <1>3, <2>2, Typing, SMTT(20)
  <2>4. [i \in 1 .. n |-> s[i]] \in [1 .. n -> Byte]
    BY <2>1, <2>2, <2>3
  <2>5. AppendBytes([i \in 1 .. n |-> s[i]])
    BY <1>3, <2>3
  <2> QED
    BY <1>1, <2>3, <2>4, <2>5, AppendLoses
<1> QED
  BY <1>2, <1>3 DEF push_bytes

(* advisereadable loses nothing of what it has read. *)
LEMMA AdviseLoses == FullInv /\ advisereadable => FullInv'
<1> SUFFICES ASSUME FullInv, advisereadable PROVE FullInv'
  OBVIOUS
<1>1. BoundsInv /\ BoundsInv'
  BY AdviseBounds DEF FullInv
<1>2. CASE MoveOnly
  BY <1>1, <1>2, MoveLoses
<1>3. CASE UNCHANGED <<bufvars, received, eaten>>
  BY <1>1, <1>3 DEF bufvars, FullInv, NothingLost, CHARAT, Cell
<1>4. ASSUME NEW s \in Chunks, Len(s) <= buffsize - buffcount, AppendBytes(s)
      PROVE  FullInv'
  <2>1. PICK m \in 1 .. MaxChunk : s \in [1 .. m -> Byte]
    BY DEF Chunks
  <2>2. Len(s) = m /\ m \in Nat
    BY <2>1, BufferAssumption
  <2> QED
    BY <1>1, <1>4, <2>1, <2>2, AppendLoses
<1> QED
  BY <1>2, <1>3, <1>4 DEF advisereadable

(* A new instance has lost nothing.                                        *)
LEMMA FullInit == Init => FullInv
<1> SUFFICES ASSUME Init PROVE FullInv
  OBVIOUS
<1>1. BoundsInv
  BY InitBounds
<1>2. received = <<>> /\ eaten = 0 /\ buffcount = 0
  BY DEF Init
<1> QED
  BY <1>1, <1>2 DEF FullInv, NothingLost

(* No call loses anything.                                                 *)
LEMMA FullStep ==
  ASSUME GentleHost, EvenSizes
  PROVE  FullInv /\ [Next]_vars => FullInv'
<1> SUFFICES ASSUME FullInv, [Next]_vars PROVE FullInv'
  OBVIOUS
<1>1. CASE push_bytes
  BY <1>1, PushLoses
<1>2. CASE advisereadable
  BY <1>2, AdviseLoses
<1>3. CASE getkey \/ getkey_force
  BY <1>3, GentleLooks, GetkeyLoses DEF FullInv
<1>4. ASSUME NEW size \in Sizes, set_buffer_size(size) PROVE FullInv'
  BY <1>4, ResizeLoses DEF GentleHost
<1>5. CASE stop \/ start
  BY <1>5, StartStopBounds DEF FullInv, NothingLost, CHARAT, Cell, stop, start, bufvars
<1>6. CASE UNCHANGED vars
  BY <1>6 DEF vars, bufvars, FullInv, BoundsInv, TypeOK, WithinBuffer,
              NothingLost, CHARAT, Cell
<1> QED
  BY <1>1, <1>2, <1>3, <1>4, <1>5, <1>6 DEF Next

(* No sequence of calls makes an even-sized buffer lose, repeat or reorder *)
(* a byte: what is pending is what was accepted and not yet eaten.         *)
THEOREM BytesSurvive ==
  ASSUME GentleHost, EvenSizes
  PROVE  Spec => []NothingLost
<1>1. Init => FullInv
  BY FullInit
<1>2. FullInv /\ [Next]_vars => FullInv'
  BY FullStep
<1>3. FullInv => NothingLost
  BY DEF FullInv
<1> QED
  BY <1>1, <1>2, <1>3, PTL DEF Spec

-----------------------------------------------------------------------------
(* What a driver has not decoded yet are the bytes behind the kept ones.   *)
StillReceived == [i \in 1 .. buffcount - hightide |-> received[eaten + hightide + i]]

LEMMA UndecodedReceived == FullInv => Undecoded = StillReceived
<1> SUFFICES ASSUME FullInv PROVE Undecoded = StillReceived
  OBVIOUS
<1>1. BoundsInv
  BY DEF FullInv
<1>2. /\ buffcount \in Nat /\ hightide \in Nat /\ eaten \in Nat /\ buffstart \in Nat
      /\ hightide <= buffcount
  BY <1>1, Typing
<1>3. ASSUME NEW i \in 1 .. buffcount - hightide
      PROVE  Cell(start0 + i - 1) = received[eaten + hightide + i]
  <2>1. hightide + i - 1 \in 0 .. buffcount - 1
    BY <1>2
  <2>2. CHARAT(hightide + i - 1) = received[eaten + (hightide + i - 1) + 1]
    BY <2>1 DEF FullInv, NothingLost
  <2>3. start0 + i - 1 = buffstart + (hightide + i - 1)
    BY <1>2 DEF start0
  <2>4. eaten + (hightide + i - 1) + 1 = eaten + hightide + i
    BY <1>2
  <2> QED
    BY <2>2, <2>3, <2>4 DEF CHARAT
<1> QED
  BY <1>3 DEF Undecoded, count0, StillReceived

(* An AGAIN counts the kept bytes as taken and no other.                   *)
LEMMA AgainTakes ==
  ASSUME getkey, res' = "AGAIN"
  PROVE  /\ hightide' = 0 /\ buffcount' = count0
         /\ eaten' = eaten + hightide /\ received' = received
<1>1. FoundPart /\ received' = received
  BY DEF getkey, NotStarted, FoundKey, FoundNothing
<1>2. PICK alt \in 0 .. count0 - 1, driver \in BOOLEAN : KeepBytes(alt, driver)
  BY <1>1 DEF FoundPart
<1> QED
  BY <1>1, <1>2 DEF KeepBytes

(* A getkey that answers AGAIN leaves the bytes to be decoded as they are, *)
(* in their order, wherever the forced look behind the answer slid them.   *)
THEOREM AgainLeavesBytes ==
  ASSUME GentleHost, EvenSizes
  PROVE  Spec => AgainTakesNothing
<1>1. Init => FullInv
  BY FullInit
<1>2. FullInv /\ [Next]_vars => FullInv'
  BY FullStep
<1>3. FullInv' => (Undecoded = StillReceived)'
  BY UndecodedReceived, PTL
<1>4. FullInv /\ FullInv' /\ [Next]_vars =>
        [getkey /\ res' = "AGAIN" => Undecoded' = Undecoded]_vars
  <2> SUFFICES ASSUME FullInv, FullInv', getkey, res' = "AGAIN"
               PROVE  Undecoded' = Undecoded
    OBVIOUS
  <2>1. Undecoded = StillReceived
    BY UndecodedReceived
  <2>2. Undecoded' = StillReceived'
    BY <1>3
  <2>3. /\ hightide' = 0 /\ buffcount' = buffcount - hightide
        /\ eaten' = eaten + hightide /\ received' = received
    BY AgainTakes DEF count0
  <2>4. /\ buffcount' \in Nat /\ eaten' \in Nat
        /\ buffcount' - hightide' = buffcount - hightide /\ eaten' + hightide' = eaten + hightide
    <3>1. buffcount \in Nat /\ hightide \in Nat /\ eaten \in Nat /\ hightide <= buffcount
      BY Typing DEF FullInv
    <3> QED
      BY <2>3, <3>1
  <2> QED
    BY <2>1, <2>2, <2>3, <2>4 DEF StillReceived
<1> QED
  BY <1>1, <1>2, <1>4, PTL DEF Spec, AgainTakesNothing

-----------------------------------------------------------------------------
(* Whatever the host does, and though a slide may have moved buffstart out *)
(* of the buffer, no more is pending than the largest buffer holds and the *)
(* kept bytes are pending ones.                                            *)
CountInv == TypeOK /\ hightide <= buffcount /\ buffcount <= Top

LEMMA CountFacts ==
  ASSUME CountInv
  PROVE  /\ buffstart \in Int /\ buffcount \in Nat /\ hightide \in Nat /\ eaten \in Nat
         /\ buffsize \in Sizes /\ buffsize \in Nat /\ buffsize <= Top /\ Top \in Nat
         /\ hightide <= buffcount /\ buffcount <= Top
         /\ start0 \in Int /\ Half \in Nat
         /\ count0 \in Nat /\ count0 = buffcount - hightide /\ count0 <= Top
<1>1. /\ buffstart \in Int /\ buffcount \in Nat /\ hightide \in Nat /\ eaten \in Nat
      /\ buffsize \in Sizes /\ hightide <= buffcount /\ buffcount <= Top
  BY DEF CountInv, TypeOK
<1>2. buffsize \in Nat /\ buffsize >= 1 /\ buffsize <= Top /\ Top \in Nat
  BY <1>1, BufferAssumption
<1>3. Half \in Nat
  BY <1>2 DEF Half
<1> QED
  BY <1>1, <1>2, <1>3 DEF start0, count0

LEMMA CountFromParts ==
  ASSUME buffer' \in [Cells -> Byte \cup {Junk}], received' \in Seq(Byte),
         buffstart' \in Int, buffcount' \in Nat, hightide' \in Nat, eaten' \in Nat,
         buffsize' \in Sizes, res' \in Results,
         is_closed' \in BOOLEAN, is_started' \in BOOLEAN,
         hightide' <= buffcount', buffcount' <= Top
  PROVE  CountInv'
  BY DEF CountInv, TypeOK

LEMMA CountInit == Init => CountInv
<1> SUFFICES ASSUME Init PROVE CountInv
  OBVIOUS
<1>1. TypeOK
  BY InitBounds DEF BoundsInv
<1>2. hightide = 0 /\ buffcount = 0 /\ Top \in Nat
  BY BufferAssumption DEF Init
<1> QED
  BY <1>1, <1>2 DEF CountInv

(* What push_bytes and advisereadable append there is room for.            *)
LEMMA AppendCounts ==
  ASSUME CountInv, NEW n \in Nat, NEW s \in [1 .. n -> Byte],
         n <= buffsize - buffcount, AppendBytes(s), res' \in Results,
         is_closed' \in BOOLEAN, is_started' \in BOOLEAN
  PROVE  CountInv'
<1>1. s \in Seq(Byte) /\ Len(s) = n
  OBVIOUS
<1>2. AtFront \in [Cells -> Byte \cup {Junk}]
  BY BufferTypes DEF CountInv
<1>3. received' \in Seq(Byte)
  BY <1>1 DEF AppendBytes, CountInv, TypeOK
<1>4. ASSUME NEW i \in Cells, i \in buffcount .. buffcount + Len(s) - 1
      PROVE  s[i - buffcount + 1] \in Byte
  <2>0. i \in Int /\ buffcount \in Int /\ Len(s) = n
    BY <1>1, <1>4, CountFacts DEF Cells
  <2>1. i - buffcount + 1 \in 1 .. n
    BY <2>0, <1>4
  <2> QED
    BY <2>1
<1>5. buffer' \in [Cells -> Byte \cup {Junk}]
  BY <1>2, <1>4 DEF AppendBytes
<1>6. /\ buffstart' = 0 /\ buffcount' = buffcount + n /\ buffsize' = buffsize
      /\ hightide' = hightide /\ eaten' = eaten
  BY <1>1 DEF AppendBytes
<1>7. buffcount' \in Nat /\ buffcount' <= Top /\ hightide' <= buffcount'
  BY <1>6, CountFacts
<1> QED
  BY <1>3, <1>5, <1>6, <1>7, CountFacts, CountFromParts

LEMMA MoveCounts ==
  ASSUME CountInv, MoveOnly, res' \in Results,
         is_closed' \in BOOLEAN, is_started' \in BOOLEAN
  PROVE  CountInv'
<1>1. AtFront \in [Cells -> Byte \cup {Junk}]
  BY BufferTypes DEF CountInv
<1>2. received \in Seq(Byte)
  BY DEF CountInv, TypeOK
<1>3. /\ buffer' = AtFront /\ buffstart' = 0 /\ buffcount' = buffcount
      /\ buffsize' = buffsize /\ hightide' = hightide /\ received' = received
      /\ eaten' = eaten
  BY DEF MoveOnly
<1> QED
  BY <1>1, <1>2, <1>3, CountFacts, CountFromParts

LEMMA PushCounts == CountInv /\ push_bytes => CountInv'
<1> SUFFICES ASSUME CountInv, push_bytes PROVE CountInv'
  OBVIOUS
<1>1. res' \in Results
  BY DEF push_bytes, Results
<1>2. is_closed' \in BOOLEAN /\ is_started' \in BOOLEAN
  BY DEF push_bytes, CountInv, TypeOK
<1>3. CASE MoveOnly
  BY <1>1, <1>2, <1>3, MoveCounts
<1>4. ASSUME buffcount < buffsize, NEW s \in Chunks,
             AppendBytes([i \in 1 .. (IF Len(s) > buffsize - buffcount
                                        THEN buffsize - buffcount ELSE Len(s)) |-> s[i]])
      PROVE  CountInv'
  <2>1. PICK m \in 1 .. MaxChunk : s \in [1 .. m -> Byte]
    BY DEF Chunks
  <2>2. Len(s) = m /\ m \in Nat
    BY <2>1, BufferAssumption
  <2>3. PICK n \in Nat : /\ n = IF Len(s) > buffsize - buffcount
                                  THEN buffsize - buffcount ELSE Len(s)
                         /\ n <= m /\ n <= buffsize - buffcount
    BY <1>4, <2>2, CountFacts
  <2>4. [i \in 1 .. n |-> s[i]] \in [1 .. n -> Byte]
    BY <2>1, <2>2, <2>3
  <2>5. AppendBytes([i \in 1 .. n |-> s[i]])
    BY <1>4, <2>3
  <2> QED
    BY <1>1, <1>2, <2>3, <2>4, <2>5, AppendCounts
<1> QED
  BY <1>3, <1>4 DEF push_bytes

LEMMA AdviseCounts == CountInv /\ advisereadable => CountInv'
<1> SUFFICES ASSUME CountInv, advisereadable PROVE CountInv'
  OBVIOUS
<1>1. res' \in Results
  BY DEF advisereadable, Results
<1>2. is_closed' \in BOOLEAN /\ is_started' \in BOOLEAN
  BY DEF advisereadable, CountInv, TypeOK
<1>3. CASE MoveOnly
  BY <1>1, <1>2, <1>3, MoveCounts
<1>4. CASE UNCHANGED <<bufvars, received, eaten>>
  BY <1>1, <1>2, <1>4 DEF bufvars, CountInv, TypeOK
<1>5. ASSUME NEW s \in Chunks, Len(s) <= buffsize - buffcount, AppendBytes(s)
      PROVE  CountInv'
  <2>1. PICK m \in 1 .. MaxChunk : s \in [1 .. m -> Byte]
    BY DEF Chunks
  <2>2. Len(s) = m /\ m \in Nat
    BY <2>1, BufferAssumption
  <2>3. m <= buffsize - buffcount
    BY <1>5, <2>2
  <2> QED
    BY <1>1, <1>2, <1>5, <2>1, <2>2, <2>3, AppendCounts
<1> QED
  BY <1>3, <1>4, <1>5 DEF advisereadable

LEMMA GetkeyCounts ==
  ASSUME CountInv, getkey \/ getkey_force
  PROVE  CountInv'
<1>1. res' \in Results
  BY DEF getkey, getkey_force, NotStarted, FoundKey, FoundNothing, FoundPart, Results
<1>2. received' \in Seq(Byte) /\ is_closed' \in BOOLEAN /\ is_started' \in BOOLEAN
  BY DEF getkey, getkey_force, CountInv, TypeOK
<1>3. buffer \in [Cells -> Byte \cup {Junk}] /\ SlideData \in [Cells -> Byte \cup {Junk}]
  BY BufferTypes DEF CountInv, TypeOK
<1>4. CASE NotStarted
  BY <1>1, <1>2, <1>4 DEF NotStarted, bufvars, CountInv, TypeOK
<1>5. CASE FoundKey
  <2>1. PICK n \in 1 .. count0 :
               \E alt \in 0 .. n - 1 : \E keep \in 0 .. count0 - n :
                 \E driver \in BOOLEAN : EatKey(n, alt, keep, driver)
    BY <1>5 DEF FoundKey
  <2>2. PICK alt \in 0 .. n - 1 : \E keep \in 0 .. count0 - n :
               \E driver \in BOOLEAN : EatKey(n, alt, keep, driver)
    BY <2>1
  <2>3. PICK keep \in 0 .. count0 - n, driver \in BOOLEAN : EatKey(n, alt, keep, driver)
    BY <2>2
  <2>4. /\ n \in Nat /\ 1 <= n /\ n <= count0 /\ keep \in Nat /\ keep <= count0 - n
    BY CountFacts
  <2>5. buffer' \in [Cells -> Byte \cup {Junk}]
    BY <1>3, <2>3 DEF EatKey
  <2>6. hightide' = keep /\ eaten' = eaten + hightide + n /\ buffsize' = buffsize
    BY <2>3 DEF EatKey
  <2>7. buffstart' \in Int /\ buffcount' = count0 - n
    <3>1. CASE n >= count0 /\ buffstart' = 0 /\ buffcount' = 0
      BY <2>4, <3>1, CountFacts
    <3>2. CASE /\ n < count0 /\ buffcount' = count0 - n
               /\ buffstart' = n + (start0 - Half) \/ buffstart' = n + start0
      BY <2>4, <3>2, CountFacts
    <3> QED
      BY <2>3, <3>1, <3>2 DEF EatKey
  <2>8. /\ hightide' \in Nat /\ eaten' \in Nat /\ buffcount' \in Nat
        /\ hightide' <= buffcount' /\ buffcount' <= Top /\ buffsize' \in Sizes
    <3>1. /\ count0 \in Nat /\ count0 <= Top /\ Top \in Nat /\ eaten \in Nat /\ hightide \in Nat
          /\ buffsize \in Sizes
      BY CountFacts
    <3> QED
      BY <2>4, <2>6, <2>7, <3>1
  <2> QED
    BY <1>1, <1>2, <2>5, <2>7, <2>8, CountFromParts
<1>6. CASE FoundNothing
  BY <1>1, <1>2, <1>3, <1>6, CountFacts, CountFromParts DEF FoundNothing
<1>7. CASE FoundPart
  <2>1. PICK alt \in 0 .. count0 - 1, driver \in BOOLEAN : KeepBytes(alt, driver)
    BY <1>7 DEF FoundPart
  <2>2. /\ buffer' \in [Cells -> Byte \cup {Junk}]
        /\ buffstart' = start0 - Half \/ buffstart' = start0
        /\ buffcount' = count0 /\ hightide' = 0 /\ eaten' = eaten + hightide
        /\ buffsize' = buffsize
    BY <1>3, <2>1 DEF KeepBytes
  <2> QED
    BY <1>1, <1>2, <2>2, CountFacts, CountFromParts, SMTT(20)
<1> QED
  BY <1>4, <1>5, <1>6, <1>7 DEF getkey, getkey_force

LEMMA CountStep == CountInv /\ [Next]_vars => CountInv'
<1> SUFFICES ASSUME CountInv, [Next]_vars PROVE CountInv'
  OBVIOUS
<1>1. CASE push_bytes
  BY <1>1, PushCounts
<1>2. CASE advisereadable
  BY <1>2, AdviseCounts
<1>3. CASE getkey \/ getkey_force
  BY <1>3, GetkeyCounts
<1>4. ASSUME NEW size \in Sizes, set_buffer_size(size) PROVE CountInv'
  <2>1. buffer' \in [Cells -> Byte \cup {Junk}]
    BY <1>4 DEF set_buffer_size, CountInv, TypeOK
  <2>2. res' \in Results
    BY <1>4 DEF set_buffer_size, Results
  <2>3. /\ buffsize' = size
        /\ UNCHANGED <<buffstart, buffcount, hightide, is_closed, is_started, received, eaten>>
    BY <1>4 DEF set_buffer_size
  <2> QED
    BY <2>1, <2>2, <2>3 DEF CountInv, TypeOK
<1>5. CASE stop \/ start
  BY <1>5 DEF stop, start, bufvars, CountInv, TypeOK, Results
<1>6. CASE UNCHANGED vars
  BY <1>6 DEF vars, bufvars, CountInv, TypeOK
<1> QED
  BY <1>1, <1>2, <1>3, <1>4, <1>5, <1>6 DEF Next

(* The buffer is well typed whatever the host does: shrinks it under its   *)
(* bytes, or leaves any number of Escapes waiting when it slides.          *)
THEOREM BufferTyped == Spec => []TypeOK
<1>1. CountInv => TypeOK
  BY DEF CountInv
<1> QED
  BY <1>1, CountInit, CountStep, PTL DEF Spec

-----------------------------------------------------------------------------
(* The real drivers on the buffer: what is left to decode are the cells    *)
(* behind what was kept, and each look of theirs is one the buffer allows. *)
LEMMA UndecodedIs ==
  ASSUME CountInv
  PROVE  /\ Undecoded \in Seq(Byte \cup {Junk}) /\ Len(Undecoded) = count0
         /\ Undecoded = <<>> <=> count0 = 0
<1>1. count0 \in Nat
  BY CountFacts
<1>2. \A i : Cell(i) \in Byte \cup {Junk}
  BY DEF CountInv, TypeOK, Cell
<1>3. Undecoded \in [1 .. count0 -> Byte \cup {Junk}]
  BY <1>2 DEF Undecoded
<1>4. Undecoded \in Seq(Byte \cup {Junk}) /\ Len(Undecoded) = count0
  BY <1>1, <1>3
<1> QED
  BY <1>4, EmptySeq

LEMMA LookIs ==
  ASSUME NEW closed
  PROVE  \E no \in BOOLEAN, yes \in BOOLEAN :
           /\ ~On(no) /\ Look(closed) = peekkey(Undecoded, no, closed)
           /\ On(yes) /\ ForcedLook(closed) = peekkey(Undecoded, yes, closed)
<1>1. FALSE \in BOOLEAN /\ ~On(FALSE) /\ TRUE \in BOOLEAN /\ On(TRUE)
  BY DEF On
<1> QED
  BY <1>1, Zenon DEF Look, ForcedLook

(* A look at pending bytes answers a key that lies inside them, or, when   *)
(* it is not forced, that it wants more; a forced look behind such an      *)
(* answer keeps nothing.                                                   *)
LEMMA LookAnswers ==
  ASSUME CountInv
  PROVE  /\ count0 = 0 => /\ Look(is_closed).res \in {"NONE", "EOF"}
                          /\ ForcedLook(is_closed).res \in {"NONE", "EOF"}
         /\ count0 # 0 =>
              /\ Look(is_closed) = Again \/ Look(is_closed).res = "KEY"
              /\ ForcedLook(is_closed).res = "KEY"
         /\ \A look \in {Look(is_closed), ForcedLook(is_closed)} :
              look.res = "KEY" =>
                \E key : \E n \in 1 .. count0 : \E keep \in 0 .. count0 - n :
                  \E alt \in 0 .. n - 1 : \E driver \in BOOLEAN :
                    look = [res |-> "KEY", key |-> key, n |-> n, keep |-> keep,
                            alt |-> alt, driver |-> driver]
         /\ NoMetaStrings /\ Look(is_closed).res = "AGAIN" => ForcedLook(is_closed).keep = 0
<1> DEFINE In(look) == \E key : \E n \in 1 .. count0 : \E keep \in 0 .. count0 - n :
                         \E alt \in 0 .. n - 1 : \E driver \in BOOLEAN :
                           look = [res |-> "KEY", key |-> key, n |-> n, keep |-> keep,
                                   alt |-> alt, driver |-> driver]
           empty == Undecoded = <<>>
<1>1. PICK no \in BOOLEAN, yes \in BOOLEAN :
        /\ ~On(no) /\ Look(is_closed) = peekkey(Undecoded, no, is_closed)
        /\ On(yes) /\ ForcedLook(is_closed) = peekkey(Undecoded, yes, is_closed)
  BY LookIs
<1>2. /\ Undecoded \in Seq(Byte \cup {Junk}) /\ Len(Undecoded) = count0
      /\ empty <=> count0 = 0
      /\ count0 \in Nat
  BY UndecodedIs, CountFacts
<1>3. empty => /\ Look(is_closed).res \in {"NONE", "EOF"}
               /\ ForcedLook(is_closed).res \in {"NONE", "EOF"}
  BY <1>1, <1>2, PeekkeyAnswers
<1>4. ~empty => /\ Answers(Look(is_closed), 0, count0, no)
                /\ Answers(ForcedLook(is_closed), 0, count0, yes)
  BY <1>1, <1>2, PeekkeyAnswers
<1>5. ~empty => (NoMetaStrings /\ Look(is_closed).res = "AGAIN" => ForcedLook(is_closed).keep = 0)
  BY <1>1, <1>2, PeekkeyForced
<1> HIDE DEF empty
<1>6. ASSUME NEW look, NEW force \in BOOLEAN, Answers(look, 0, count0, force)
      PROVE  (look = Again /\ ~On(force)) \/ (In(look) /\ look.res = "KEY")
  <2>1. count0 - 0 = count0 /\ \A n \in 1 .. count0 : 0 + n - 1 = n - 1
    BY <1>2
  <2>2. \/ look = Again /\ ~force
        \/ \E key : \E n \in 1 .. count0 : \E keep \in 0 .. count0 - n :
             \E alt \in 0 .. n - 1 : \E driver \in BOOLEAN :
               look = [res |-> "KEY", key |-> key, n |-> n, keep |-> keep,
                       alt |-> alt, driver |-> driver]
    BY <1>2, <1>6, <2>1 DEF Answers
  <2>3. In(look) => look.res = "KEY"
    OBVIOUS
  <2> HIDE DEF In
  <2> QED
    BY <2>2, <2>3 DEF On, In
<1> HIDE DEF In
<1>7. ~empty => /\ Look(is_closed) = Again \/ (In(Look(is_closed)) /\ Look(is_closed).res = "KEY")
                /\ In(ForcedLook(is_closed)) /\ ForcedLook(is_closed).res = "KEY"
  BY <1>1, <1>4, <1>6
<1>8. Again.res # "KEY"
  BY DEF Again
<1>9. \A look \in {Look(is_closed), ForcedLook(is_closed)} : look.res = "KEY" => In(look)
  BY <1>3, <1>7, <1>8
<1>10. empty => Look(is_closed).res # "AGAIN"
  BY <1>3
<1> QED
  BY <1>2, <1>3, <1>5, <1>7, <1>9, <1>10 DEF In

(* The host lets as many Escapes wait as the largest buffer can hold in    *)
(* front of a key.                                                         *)
AnyEscapes == MaxEscapes >= Top - 1

LEMMA TakesIsFound ==
  ASSUME CountInv, is_started, count0 # 0,
         NEW look \in {Look(is_closed), ForcedLook(is_closed)}, look.res = "KEY", Takes(look)
  PROVE  FoundKey
<1>1. PICK key : \E n \in 1 .. count0 : \E keep \in 0 .. count0 - n :
        \E alt \in 0 .. n - 1 : \E driver \in BOOLEAN :
          look = [res |-> "KEY", key |-> key, n |-> n, keep |-> keep,
                  alt |-> alt, driver |-> driver]
  BY LookAnswers
<1>2. PICK n \in 1 .. count0 : \E keep \in 0 .. count0 - n :
        \E alt \in 0 .. n - 1 : \E driver \in BOOLEAN :
          look = [res |-> "KEY", key |-> key, n |-> n, keep |-> keep,
                  alt |-> alt, driver |-> driver]
  BY <1>1
<1>3. PICK keep \in 0 .. count0 - n, alt \in 0 .. n - 1, driver \in BOOLEAN :
        look = [res |-> "KEY", key |-> key, n |-> n, keep |-> keep,
                alt |-> alt, driver |-> driver]
  BY <1>2
<1>4. EatKey(n, alt, keep, driver) /\ res' = "KEY"
  BY <1>3 DEF Takes
<1> QED
  BY <1>4 DEF FoundKey

LEMMA GetkeyCases ==
  ASSUME CountInv, termkey_getkey
  PROVE  \/ getkey
         \/ /\ is_started /\ Look(is_closed).res = "AGAIN" /\ res' = "AGAIN" /\ count0 # 0
            /\ LeavesBytes(ForcedLook(is_closed))
            /\ UNCHANGED <<is_closed, is_started, received>>
<1>1. UNCHANGED <<is_closed, is_started, received>>
  BY DEF termkey_getkey
<1>2. CASE NotStarted \/ FoundNothing
  BY <1>1, <1>2 DEF getkey
<1>3. CASE is_started /\ Look(is_closed).res = "KEY" /\ Takes(Look(is_closed))
  <2>1. count0 # 0
    BY <1>3, LookAnswers
  <2>2. FoundKey
    BY <1>3, <2>1, TakesIsFound
  <2> QED
    BY <1>1, <2>2 DEF getkey
<1>4. CASE /\ is_started /\ Look(is_closed).res = "AGAIN" /\ res' = "AGAIN"
           /\ LeavesBytes(ForcedLook(is_closed))
  <2>1. count0 # 0
    BY <1>4, LookAnswers
  <2> QED
    BY <1>1, <1>4, <2>1
<1> QED
  BY <1>2, <1>3, <1>4 DEF termkey_getkey

(* Every getkey with the real drivers is one the buffer is ready for.      *)
LEMMA GetkeyRefines ==
  ASSUME CountInv, AnyEscapes, NoMetaStrings, termkey_getkey
  PROVE  getkey
<1>1. CASE /\ is_started /\ Look(is_closed).res = "AGAIN" /\ res' = "AGAIN" /\ count0 # 0
           /\ LeavesBytes(ForcedLook(is_closed))
           /\ UNCHANGED <<is_closed, is_started, received>>
  <2> DEFINE look == ForcedLook(is_closed)
  <2>1. look.res = "KEY" /\ look.keep = 0
    BY <1>1, LookAnswers
  <2>2. PICK key : \E n \in 1 .. count0 : \E keep \in 0 .. count0 - n :
          \E alt \in 0 .. n - 1 : \E driver \in BOOLEAN :
            look = [res |-> "KEY", key |-> key, n |-> n, keep |-> keep,
                    alt |-> alt, driver |-> driver]
    BY <1>1, <2>1, LookAnswers
  <2>3. PICK alt \in 0 .. count0 - 1, driver \in BOOLEAN :
               look.alt = alt /\ look.driver = driver
    BY <2>2, CountFacts
  <2> HIDE DEF look
  <2>4. KeepBytes(alt, driver)
    BY <1>1, <2>1, <2>3 DEF LeavesBytes, KeepBytes, KeptBy, look
  <2>5. /\ count0 \in Nat /\ count0 <= Top /\ Top \in Nat /\ MaxEscapes \in Nat
        /\ MaxEscapes >= Top - 1
    BY CountFacts, BufferAssumption DEF AnyEscapes
  <2>6. alt \in 0 .. count0 - 1 /\ alt <= MaxEscapes /\ count0 > 0
    BY <1>1, <2>3, <2>5
  <2>7. FoundPart
    BY <1>1, <2>4, <2>6 DEF FoundPart
  <2> QED
    BY <1>1, <2>7 DEF getkey
<1> QED
  BY <1>1, GetkeyCases

(* Whatever the strings of the terminal are, the counts stay right.        *)
LEMMA LeavesCounts ==
  ASSUME CountInv, count0 # 0, res' = "AGAIN", LeavesBytes(ForcedLook(is_closed)),
         UNCHANGED <<is_closed, is_started, received>>
  PROVE  CountInv'
<1> DEFINE look == ForcedLook(is_closed)
<1>1. PICK key : \E n \in 1 .. count0 : \E keep \in 0 .. count0 - n :
        \E alt \in 0 .. n - 1 : \E driver \in BOOLEAN :
          look = [res |-> "KEY", key |-> key, n |-> n, keep |-> keep,
                  alt |-> alt, driver |-> driver]
  BY LookAnswers
<1>2. KeptBy(look) \in Nat /\ KeptBy(look) <= count0
  BY <1>1, CountFacts DEF KeptBy
<1>3. buffer \in [Cells -> Byte \cup {Junk}] /\ SlideData \in [Cells -> Byte \cup {Junk}]
  BY BufferTypes DEF CountInv, TypeOK
<1> HIDE DEF look
<1>4. /\ buffer' = SlideData \/ buffer' = buffer
      /\ buffstart' = start0 - Half \/ buffstart' = start0
      /\ buffcount' = count0 /\ hightide' = KeptBy(look) /\ eaten' = eaten + hightide
      /\ buffsize' = buffsize
  BY DEF LeavesBytes, look
<1>5. /\ received' \in Seq(Byte) /\ is_closed' \in BOOLEAN /\ is_started' \in BOOLEAN
      /\ res' \in Results
  BY DEF CountInv, TypeOK, Results
<1>6. buffer' \in [Cells -> Byte \cup {Junk}]
  BY <1>3, <1>4
<1>7. /\ buffstart' \in Int /\ buffcount' \in Nat /\ hightide' \in Nat /\ eaten' \in Nat
      /\ buffsize' \in Sizes /\ hightide' <= buffcount' /\ buffcount' <= Top
  <2>1. PICK keep : keep = KeptBy(look)
    OBVIOUS
  <2>2. keep \in Nat /\ keep <= count0 /\ hightide' = keep
    BY <1>2, <1>4, <2>1
  <2> QED
    BY <1>4, <2>2, CountFacts
<1> QED
  BY <1>5, <1>6, <1>7, CountFromParts

(* A forced look at pending bytes finds a key.                             *)
LEMMA ForcedFinds ==
  ASSUME CountInv, termkey_getkey_force, is_started, count0 > 0
  PROVE  /\ ForcedLook(is_closed).res = "KEY"
         /\ Takes(ForcedLook(is_closed)) /\ res' = "KEY"
<1>1. count0 # 0
  BY CountFacts
<1>2. ForcedLook(is_closed).res = "KEY"
  BY <1>1, LookAnswers
<1>3. Takes(ForcedLook(is_closed))
  BY <1>2 DEF termkey_getkey_force, NotStarted
<1> QED
  BY <1>2, <1>3 DEF Takes

LEMMA ForceRefines ==
  ASSUME CountInv, termkey_getkey_force
  PROVE  getkey_force
<1>1. UNCHANGED <<is_closed, is_started, received>>
  BY DEF termkey_getkey_force
<1>2. CASE NotStarted \/ FoundNothing
  BY <1>1, <1>2 DEF getkey_force
<1>3. CASE is_started /\ count0 # 0
  <2>1. count0 > 0
    BY <1>3, CountFacts
  <2>2. ForcedLook(is_closed).res = "KEY" /\ Takes(ForcedLook(is_closed))
    BY <1>3, <2>1, ForcedFinds
  <2>3. FoundKey
    BY <1>3, <2>2, TakesIsFound
  <2> QED
    BY <1>1, <2>3 DEF getkey_force
<1>4. CASE is_started /\ count0 = 0
  <2>1. ForcedLook(is_closed).res \in {"NONE", "EOF"}
    BY <1>4, LookAnswers
  <2>2. FoundNothing
    BY <1>4, <2>1 DEF termkey_getkey_force, NotStarted
  <2> QED
    BY <1>1, <2>2 DEF getkey_force
<1> QED
  BY <1>2, <1>3, <1>4 DEF termkey_getkey_force

(* The drivers keep the promises the buffer's model makes for them.        *)
LEMMA StepRefines ==
  ASSUME AnyEscapes, NoMetaStrings
  PROVE  CountInv /\ [TKNext]_tkvars => [Next]_vars
<1> SUFFICES ASSUME CountInv, [TKNext]_tkvars PROVE [Next]_vars
  OBVIOUS
<1>1. CASE Bytes
  BY <1>1 DEF Bytes, Next
<1>2. CASE termkey_getkey
  BY <1>2, GetkeyRefines DEF Next
<1>3. CASE termkey_getkey_force
  BY <1>3, ForceRefines DEF Next
<1>4. CASE UNCHANGED tkvars
  BY <1>4 DEF tkvars
<1> QED
  BY <1>1, <1>2, <1>3, <1>4 DEF TKNext

(* The buffer with the real drivers implements the buffer with any drivers *)
(* that keep to its promises: they take at least one byte and at most what *)
(* is pending, keep no more than they leave, answer a forced look with a   *)
(* key, and take nothing with an AGAIN.                                    *)
THEOREM DriversKeepPromises ==
  ASSUME AnyEscapes, NoMetaStrings
  PROVE  TKSpec => BufferSpec
<1>1. TKInit => Init
  BY DEF TKInit
<1>2. CountInv /\ [TKNext]_tkvars => [Next]_vars
  BY StepRefines
<1>3. CountInv /\ [TKNext]_tkvars => CountInv'
  BY <1>2, CountStep
<1>4. TKInit => CountInv
  BY <1>1, CountInit
<1> QED
  BY <1>1, <1>2, <1>3, <1>4, PTL DEF TKSpec, BufferSpec, Spec

LEMMA TKCountStep == CountInv /\ [TKNext]_tkvars => CountInv'
<1> SUFFICES ASSUME CountInv, [TKNext]_tkvars PROVE CountInv'
  OBVIOUS
<1>1. CASE Bytes \/ UNCHANGED tkvars
  BY <1>1, CountStep DEF Bytes, Next, tkvars
<1>2. CASE termkey_getkey
  BY <1>2, GetkeyCases, LeavesCounts, GetkeyCounts
<1>3. CASE termkey_getkey_force
  BY <1>3, ForceRefines, GetkeyCounts
<1> QED
  BY <1>1, <1>2, <1>3 DEF TKNext

(* A host that has waited long enough gets its key, whatever the pending   *)
(* bytes and the strings of the terminal are.                              *)
THEOREM ForceAlwaysAnswers == TKSpec => ForceAnswers
<1>1. TKInit => CountInv
  BY CountInit DEF TKInit
<1>2. CountInv /\ [TKNext]_tkvars => CountInv'
  BY TKCountStep
<1>3. CountInv /\ [TKNext]_tkvars =>
        [termkey_getkey_force /\ is_started /\ count0 > 0 => res' = "KEY"]_tkvars
  BY ForcedFinds
<1> QED
  BY <1>1, <1>2, <1>3, PTL DEF TKSpec, ForceAnswers

LEMMA KeysOfIs ==
  ASSUME NEW str \in Seq(Byte)
  PROVE  \E f : /\ KeysOf(str) = f[0]
                /\ \A i \in 0 .. Len(str) :
                     /\ f[i] \in Seq(KeysIn(str))
                     /\ At(str, i).res = "KEY" => f[i] = <<At(str, i).key>> \o f[After(str, i)]
<1> DEFINE len == Len(str)
           K == KeysIn(str)
           hit == [i \in 0 .. len |-> At(str, i).res = "KEY"]
           key == [i \in 0 .. len |-> At(str, i).key]
           jump == [i \in 0 .. len |-> After(str, i)]
           Is(f) == f = [i \in 0 .. Len(str) |->
                           IF At(str, i).res = "KEY"
                             THEN <<At(str, i).key>> \o f[After(str, i)] ELSE <<>>]
           chosen == CHOOSE f : Is(f)
<1>1. len \in Nat
  BY LenProperties
<1>2. \A i \in 0 .. len : At(str, i).res = "KEY" => At(str, i).key \in K /\ After(str, i) \in i + 1 .. len
  BY AfterIn DEF KeysIn
<1>3. \A i \in 0 .. len : hit[i] => key[i] \in K /\ jump[i] \in i + 1 .. len
  <2> HIDE DEF K
  <2> QED
    BY <1>2
<1>4. \A f : Is(f) <=> ReadsOff(f, len, hit, key, jump)
  <2> SUFFICES ASSUME NEW f PROVE Is(f) <=> ReadsOff(f, len, hit, key, jump)
    OBVIOUS
  <2>1. \A i \in 0 .. len :
          (IF At(str, i).res = "KEY" THEN <<At(str, i).key>> \o f[After(str, i)] ELSE <<>>)
            = (IF hit[i] THEN <<key[i]>> \o f[jump[i]] ELSE <<>>)
    OBVIOUS
  <2>2. [i \in 0 .. len |->
           IF At(str, i).res = "KEY" THEN <<At(str, i).key>> \o f[After(str, i)] ELSE <<>>]
          = [i \in 0 .. len |-> IF hit[i] THEN <<key[i]>> \o f[jump[i]] ELSE <<>>]
    BY <2>1
  <2> HIDE DEF hit, key, jump
  <2> QED
    BY <2>2 DEF ReadsOff
<1>5. KeysOf(str) = chosen[0]
  BY DEF KeysOf, At, After
<1> HIDE DEF len, K, hit, key, jump, Is
<1>6. \E f : Is(f)
  BY <1>1, <1>3, <1>4, ReaderExists
<1>7. Is(chosen)
  BY <1>6
<1> HIDE DEF chosen
<1>8. ReadsOff(chosen, len, hit, key, jump)
  BY <1>4, <1>7
<1>9. \A i \in 0 .. len : chosen[i] \in Seq(K)
  BY <1>1, <1>3, <1>8, ReaderTyped
<1>10. \A i \in 0 .. len :
         At(str, i).res = "KEY" => chosen[i] = <<At(str, i).key>> \o chosen[After(str, i)]
  BY <1>7 DEF Is, len
<1> QED
  BY <1>5, <1>9, <1>10 DEF len, K

LEMMA ReadsPrefix ==
  ASSUME NEW str \in Seq(Byte), NEW ks, NEW p, Reads(str, ks, p)
  PROVE  IsPrefix(ks, KeysOf(str))
<1>1. PICK f : /\ KeysOf(str) = f[0]
               /\ \A i \in 0 .. Len(str) :
                    /\ f[i] \in Seq(KeysIn(str))
                    /\ At(str, i).res = "KEY" => f[i] = <<At(str, i).key>> \o f[After(str, i)]
  BY KeysOfIs
<1>2. PICK at \in [1 .. Len(ks) + 1 -> 0 .. Len(str)] :
        /\ at[1] = 0 /\ at[Len(ks) + 1] = p
        /\ \A j \in 1 .. Len(ks) :
             /\ At(str, at[j]).res = "KEY" /\ ks[j] = At(str, at[j]).key
             /\ at[j + 1] = After(str, at[j])
  BY DEF Reads
<1>3. ks \in Seq(KeysIn(str)) /\ Len(ks) \in Nat /\ Len(str) \in Nat
  BY LenProperties DEF Reads
<1>4. ASSUME NEW j \in 1 .. Len(ks) PROVE f[at[j]] = <<ks[j]>> \o f[at[j + 1]]
  <2>1. at[j] \in 0 .. Len(str)
    BY <1>3
  <2> QED
    BY <1>1, <1>2, <2>1
<1>5. IsPrefix(ks, f[0])
  BY <1>1, <1>2, <1>3, <1>4, ReadIsPrefix
<1> QED
  BY <1>1, <1>5

-----------------------------------------------------------------------------
(* What was received continues what was received before, and what is to be *)
(* decoded is what follows the bytes that were taken or kept.              *)
LEMMA AppendContinues ==
  ASSUME BoundsInv, NEW n \in Nat, NEW s \in [1 .. n -> Byte], received' = received \o s
  PROVE  received' \in Seq(Byte) /\ Continues(received', received)
<1>1. s \in Seq(Byte) /\ received \in Seq(Byte)
  BY DEF BoundsInv, TypeOK
<1>2. PICK t \in Seq(Byte) : t = received
  BY <1>1
<1>3. PICK a \in Seq(Byte) : a = s
  BY <1>1
<1>4. /\ Len(t \o a) = Len(t) + Len(a)
      /\ \A i \in 1 .. Len(t) : (t \o a)[i] = t[i]
  BY ConcatReads, SMTT(30)
<1>5. t \o a \in Seq(Byte)
  BY ConcatProperties
<1>6. PICK r : r = t \o a /\ received' = r
  BY <1>2, <1>3
<1>7. /\ Len(t) \in Nat /\ Len(r) \in Nat /\ Len(a) \in Nat
      /\ DOMAIN t = 1 .. Len(t) /\ DOMAIN r = 1 .. Len(r)
  <2>1. r \in Seq(Byte)
    BY <1>5, <1>6
  <2> QED
    BY <2>1, LenProperties
<1>8. Len(t) <= Len(r)
  BY <1>4, <1>6, <1>7
<1> QED
  BY <1>2, <1>4, <1>5, <1>6, <1>7, <1>8 DEF Continues

LEMMA SameContinues ==
  ASSUME BoundsInv, received' = received
  PROVE  received' \in Seq(Byte) /\ Continues(received', received)
<1>1. received \in Seq(Byte)
  BY DEF BoundsInv, TypeOK
<1>2. Len(received) \in Nat /\ DOMAIN received = 1 .. Len(received)
  BY <1>1, LenProperties
<1> QED
  BY <1>1, <1>2 DEF Continues

LEMMA BytesContinue ==
  ASSUME BoundsInv, Bytes
  PROVE  /\ received' \in Seq(Byte) /\ Continues(received', received)
         /\ UNCHANGED <<eaten, hightide, keys, forced>>
<1>1. UNCHANGED <<keys, forced>>
  BY DEF Bytes
<1> SUFFICES /\ received' \in Seq(Byte) /\ Continues(received', received)
             /\ UNCHANGED <<eaten, hightide>>
  BY <1>1
<1>2. CASE MoveOnly
  BY <1>2, SameContinues DEF MoveOnly
<1>3. CASE UNCHANGED <<bufvars, received, eaten>>
  BY <1>3, SameContinues DEF bufvars
<1>4. ASSUME NEW s \in Chunks, NEW n, n <= Len(s), n \in Nat,
             AppendBytes([i \in 1 .. n |-> s[i]])
      PROVE  /\ received' \in Seq(Byte) /\ Continues(received', received)
             /\ UNCHANGED <<eaten, hightide>>
  <2>1. PICK m \in 1 .. MaxChunk : s \in [1 .. m -> Byte]
    BY DEF Chunks
  <2>2. Len(s) = m /\ m \in Nat
    BY <2>1, BufferAssumption
  <2>3. [i \in 1 .. n |-> s[i]] \in [1 .. n -> Byte]
    BY <1>4, <2>1, <2>2
  <2>4. received' = received \o [i \in 1 .. n |-> s[i]] /\ UNCHANGED <<eaten, hightide>>
    BY <1>4 DEF AppendBytes
  <2> QED
    BY <1>4, <2>3, <2>4, AppendContinues
<1>5. CASE push_bytes
  <2>1. ASSUME buffcount < buffsize, NEW s \in Chunks,
               AppendBytes([i \in 1 .. (IF Len(s) > buffsize - buffcount
                                          THEN buffsize - buffcount ELSE Len(s)) |-> s[i]])
        PROVE  /\ received' \in Seq(Byte) /\ Continues(received', received)
               /\ UNCHANGED <<eaten, hightide>>
    <3>1. PICK m \in 1 .. MaxChunk : s \in [1 .. m -> Byte]
      BY DEF Chunks
    <3>2. Len(s) = m /\ m \in Nat
      BY <3>1, BufferAssumption
    <3>3. PICK n \in Nat : /\ n = IF Len(s) > buffsize - buffcount
                                    THEN buffsize - buffcount ELSE Len(s)
                           /\ n <= Len(s)
      BY <2>1, <3>2, Typing, SMTT(20)
    <3>4. AppendBytes([i \in 1 .. n |-> s[i]])
      BY <2>1, <3>3
    <3> QED
      BY <1>4, <3>3, <3>4
  <2> QED
    BY <1>2, <1>5, <2>1 DEF push_bytes
<1>6. CASE advisereadable
  <2>1. ASSUME NEW s \in Chunks, AppendBytes(s)
        PROVE  /\ received' \in Seq(Byte) /\ Continues(received', received)
               /\ UNCHANGED <<eaten, hightide>>
    <3>1. PICK m \in 1 .. MaxChunk : s \in [1 .. m -> Byte]
      BY DEF Chunks
    <3>2. m \in Nat
      BY BufferAssumption
    <3>3. received' = received \o s /\ UNCHANGED <<eaten, hightide>>
      BY <2>1 DEF AppendBytes
    <3> QED
      BY <3>1, <3>2, <3>3, AppendContinues
  <2> QED
    BY <1>2, <1>3, <1>6, <2>1 DEF advisereadable
<1>7. CASE stop \/ start
  BY <1>3, <1>7 DEF stop, start
<1>8. ASSUME NEW size \in Sizes, set_buffer_size(size)
      PROVE  /\ received' \in Seq(Byte) /\ Continues(received', received)
             /\ UNCHANGED <<eaten, hightide>>
  BY <1>8, SameContinues DEF set_buffer_size
<1> QED
  BY <1>5, <1>6, <1>7, <1>8 DEF Bytes

LEMMA UndecodedRest ==
  ASSUME FullInv
  PROVE  /\ Undecoded = Rest(received, eaten + hightide)
         /\ eaten + hightide \in 0 .. Len(received)
         /\ count0 = Len(received) - (eaten + hightide)
         /\ [i \in 1 .. buffcount |-> CHARAT(i - 1)] = Rest(received, eaten)
         /\ eaten \in 0 .. Len(received)
<1>1. /\ buffcount \in Nat /\ hightide \in Nat /\ eaten \in Nat /\ hightide <= buffcount
      /\ count0 = buffcount - hightide
      /\ received \in Seq(Byte) /\ Len(received) \in Nat
  BY Typing, LenProperties DEF FullInv, BoundsInv, TypeOK, count0
<1>2. Len(received) = eaten + buffcount
  BY DEF FullInv, NothingLost
<1>3. eaten + hightide \in 0 .. Len(received) /\ eaten \in 0 .. Len(received)
  BY <1>1, <1>2
<1>4. Undecoded = Rest(received, eaten + hightide)
  <2>1. PICK p \in 0 .. Len(received) : p = eaten + hightide
    BY <1>3
  <2>2. PICK a : a = Rest(received, p)
    OBVIOUS
  <2>3. /\ a \in Seq(Byte) /\ Len(a) = Len(received) - p
        /\ \A i \in 1 .. Len(received) - p : a[i] = received[p + i]
    <3>1. /\ Rest(received, p) \in Seq(Byte) /\ Len(Rest(received, p)) = Len(received) - p
          /\ \A i \in 1 .. Len(received) - p : Rest(received, p)[i] = received[p + i]
      BY ONLY <1>1, RestIs, p \in 0 .. Len(received)
    <3> QED
      BY ONLY <2>2, <3>1
  <2>4. PICK n \in Nat : n = buffcount - hightide /\ n = Len(received) - p
    BY <1>1, <1>2, <2>1
  <2>5. \A i \in 1 .. n : eaten + hightide + i = p + i
    BY <2>1
  <2>6. StillReceived = [i \in 1 .. n |-> received[p + i]]
    BY <2>4, <2>5 DEF StillReceived
  <2>7. DOMAIN a = 1 .. n /\ a = [i \in 1 .. n |-> a[i]]
    BY <2>3, <2>4, LenProperties
  <2>8. a = [i \in 1 .. n |-> received[p + i]]
    BY <2>3, <2>4, <2>7
  <2> QED
    BY <2>1, <2>2, <2>6, <2>8, UndecodedReceived
<1>5. [i \in 1 .. buffcount |-> CHARAT(i - 1)] = Rest(received, eaten)
  <2>1. PICK a : a = Rest(received, eaten)
    OBVIOUS
  <2>2. /\ a \in Seq(Byte) /\ Len(a) = buffcount
        /\ \A i \in 1 .. buffcount : a[i] = received[eaten + i]
    <3>1. Len(received) - eaten = buffcount
      BY <1>1, <1>2
    <3>2. /\ a \in Seq(Byte) /\ Len(a) = Len(received) - eaten
          /\ \A i \in 1 .. Len(received) - eaten : a[i] = received[eaten + i]
      <4>1. PICK k \in 0 .. Len(received) : k = eaten
        BY <1>3
      <4>2. /\ Rest(received, k) \in Seq(Byte) /\ Len(Rest(received, k)) = Len(received) - k
            /\ \A i \in 1 .. Len(received) - k : Rest(received, k)[i] = received[k + i]
        BY ONLY <1>1, RestIs, k \in 0 .. Len(received)
      <4> QED
        BY ONLY <2>1, <4>1, <4>2
    <3> QED
      BY <3>1, <3>2
  <2>3. ASSUME NEW i \in 1 .. buffcount PROVE CHARAT(i - 1) = received[eaten + i]
    <3>1. i - 1 \in 0 .. buffcount - 1 /\ eaten + (i - 1) + 1 = eaten + i
      BY <1>1
    <3> QED
      BY <3>1 DEF FullInv, NothingLost
  <2>4. DOMAIN a = 1 .. buffcount /\ a = [i \in 1 .. buffcount |-> a[i]]
    BY <2>2, LenProperties
  <2>5. a = [i \in 1 .. buffcount |-> CHARAT(i - 1)]
    BY <2>2, <2>3, <2>4
  <2> QED
    BY <2>1, <2>5
<1>6. count0 = Len(received) - (eaten + hightide)
  BY <1>1, <1>2
<1> QED
  BY <1>3, <1>4, <1>5, <1>6

-----------------------------------------------------------------------------
(* No two Escapes come one behind the other.  peekkey's slide does not     *)
(* allow for the bytes a look has passed when they do: bytes are lost.     *)
LoneEscapes ==
  \A i \in 1 .. Len(received) - 1 : ~(received[i] = ESC /\ received[i + 1] = ESC)

(* So a look passes one Escape at most.                                    *)
LEMMA OneEscape ==
  ASSUME FullInv, LoneEscapes, NEW force \in BOOLEAN, NEW look,
         look = peekkey(Undecoded, force, is_closed), look.res = "KEY"
  PROVE  look.alt \in {0, 1}
<1>1. PICK str \in Seq(Byte) : str = Undecoded
  <2>1. received \in Seq(Byte)
    BY DEF FullInv, BoundsInv, TypeOK
  <2>2. PICK p \in 0 .. Len(received) : p = eaten + hightide
    BY UndecodedRest
  <2>3. Rest(received, p) \in Seq(Byte)
    BY <2>1, RestIs
  <2> QED
    BY <2>2, <2>3, UndecodedRest
<1>2. PICK p \in 0 .. Len(received) : str = Rest(received, p)
  BY <1>1, UndecodedRest
<1>3. PICK f : Looks(str, force, is_closed, f) /\ look = f[0]
  BY <1>1, PeekkeyLooks
<1>4. \A k \in 0 .. Len(str) - 1 :
        f[k] = AtPlace(str, force, is_closed, k, f[k + 1]) /\ Answers(f[k], k, Len(str), force)
  BY <1>3, LooksAnswer
<1>5. Len(str) \in Nat \ {0}
  <2>1. str # <<>>
    BY <1>1, PeekkeyAnswers
  <2> QED
    BY <2>1, LenProperties, EmptySeq
<1>6. PICK a : a = f[1]
  OBVIOUS
<1>7. /\ f[0] = AtPlace(str, force, is_closed, 0, a)
      /\ 0 + 1 < Len(str) => Answers(a, 0 + 1, Len(str), force)
  <2>1. 0 \in 0 .. Len(str) - 1 /\ 0 + 1 = 1 /\ (1 < Len(str) => 1 \in 0 .. Len(str) - 1)
    BY <1>5
  <2> QED
    BY <1>4, <1>6, <2>1
<1>8. CASE look.alt # 0
  <2>1. /\ 0 + 1 < Len(str) /\ str[0 + 1] = ESC
        /\ a.res = "KEY" /\ look.alt = a.alt
    <3>1. 0 \in 0 .. Len(str) - 1
      BY <1>5
    <3> QED
      BY <1>3, <1>7, <1>8, <3>1, PlaceAlt
  <2>2. 1 \in 0 .. Len(str) - 1 /\ 1 < Len(str) /\ str[1] = ESC
    BY <1>5, <2>1
  <2>3. PICK b : b = f[2]
    OBVIOUS
  <2>4. /\ a = AtPlace(str, force, is_closed, 1, b)
        /\ 1 + 1 < Len(str) => Answers(b, 1 + 1, Len(str), force)
    <3>1. 1 + 1 = 2 /\ (2 < Len(str) => 2 \in 0 .. Len(str) - 1)
      BY <1>5
    <3> QED
      BY <1>4, <1>6, <2>2, <2>3, <3>1
  <2>5. a.alt = 1 \/ (1 + 1 < Len(str) /\ str[1 + 1] = ESC)
    BY <2>1, <2>2, <2>4, PlaceAlt
  <2>6. ~(1 + 1 < Len(str) /\ str[1 + 1] = ESC)
    <3> SUFFICES ASSUME 2 < Len(str), str[2] = ESC PROVE FALSE
      OBVIOUS
    <3>1. received \in Seq(Byte)
      BY DEF FullInv, BoundsInv, TypeOK
    <3>2. /\ Len(Rest(received, p)) = Len(received) - p
          /\ \A i \in 1 .. Len(received) - p : Rest(received, p)[i] = received[p + i]
      BY <3>1, RestIs
    <3>3. Len(received) \in Nat
      BY <3>1, LenProperties
    <3>4. 1 \in 1 .. Len(received) - p /\ 2 \in 1 .. Len(received) - p
      BY <1>2, <3>2, <3>3
    <3>5. received[p + 1] = ESC /\ received[p + 2] = ESC
      BY <1>2, <2>2, <3>2, <3>4
    <3>6. p + 1 \in 1 .. Len(received) - 1 /\ (p + 1) + 1 = p + 2
      BY <3>3, <3>4
    <3> QED
      BY <3>5, <3>6 DEF LoneEscapes
  <2> QED
    BY <2>1, <2>5, <2>6
<1> QED
  BY <1>8

(* Every getkey with the real drivers leaves a buffer that is what it was. *)
LEMMA LookedStep ==
  ASSUME FullInv, LoneEscapes, NoMetaStrings, termkey_getkey \/ termkey_getkey_force
  PROVE  Looked
<1>1. CountInv
  BY Typing DEF FullInv, BoundsInv, CountInv
<1>2. CASE termkey_getkey_force
  BY <1>1, <1>2, ForceRefines DEF getkey_force, Looked
<1>3. CASE termkey_getkey
  <2>1. UNCHANGED <<is_closed, is_started, received>>
    BY <1>3 DEF termkey_getkey
  <2>2. CASE NotStarted \/ FoundNothing
    BY <2>1, <2>2 DEF Looked
  <2>3. CASE is_started /\ Look(is_closed).res = "KEY" /\ Takes(Look(is_closed))
    <3>1. count0 # 0
      BY <1>1, <2>3, LookAnswers
    <3> QED
      BY <1>1, <2>1, <2>3, <3>1, TakesIsFound DEF Looked
  <2>4. CASE /\ is_started /\ Look(is_closed).res = "AGAIN" /\ res' = "AGAIN"
             /\ LeavesBytes(ForcedLook(is_closed))
    <3> DEFINE look == ForcedLook(is_closed)
    <3>1. count0 # 0
      BY <1>1, <2>4, LookAnswers
    <3>2. look.res = "KEY" /\ look.keep = 0
      BY <1>1, <2>4, <3>1, LookAnswers
    <3>3. PICK key : \E n \in 1 .. count0 : \E keep \in 0 .. count0 - n :
            \E alt \in 0 .. n - 1 : \E driver \in BOOLEAN :
              look = [res |-> "KEY", key |-> key, n |-> n, keep |-> keep,
                      alt |-> alt, driver |-> driver]
      BY <1>1, <3>2, LookAnswers
    <3>4. PICK alt \in 0 .. count0 - 1, driver \in BOOLEAN :
                 look.alt = alt /\ look.driver = driver
      BY <1>1, <3>3, CountFacts
    <3>5. look.alt \in {0, 1}
      <4>1. PICK yes \in BOOLEAN : look = peekkey(Undecoded, yes, is_closed)
        BY LookIs
      <4> HIDE DEF look
      <4> QED
        BY <3>2, <4>1, OneEscape
    <3> HIDE DEF look
    <3>6. KeepBytes(alt, driver)
      BY <2>4, <3>2, <3>4 DEF LeavesBytes, KeepBytes, KeptBy, look
    <3>7. alt <= 1
      BY <3>4, <3>5
    <3>8. GentlePart
      BY <2>4, <3>6, <3>7 DEF GentlePart
    <3> QED
      BY <2>1, <3>8 DEF Looked
  <2> QED
    BY <1>3, <2>2, <2>3, <2>4 DEF termkey_getkey
<1> QED
  BY <1>2, <1>3

(* So no byte is lost with the real drivers either.                        *)
LEMMA TKFullStep ==
  ASSUME ~HostShrinks, EvenSizes, NoMetaStrings
  PROVE  FullInv /\ LoneEscapes /\ [TKNext]_tkvars => FullInv'
<1> SUFFICES ASSUME FullInv, LoneEscapes, [TKNext]_tkvars PROVE FullInv'
  OBVIOUS
<1>1. CASE push_bytes
  BY <1>1, PushLoses
<1>2. CASE advisereadable
  BY <1>2, AdviseLoses
<1>3. CASE termkey_getkey \/ termkey_getkey_force
  BY <1>3, LookedStep, GetkeyLoses
<1>4. ASSUME NEW size \in Sizes, set_buffer_size(size) PROVE FullInv'
  BY <1>4, ResizeLoses
<1>5. CASE stop \/ start
  BY <1>5, StartStopBounds DEF FullInv, NothingLost, CHARAT, Cell, stop, start, bufvars
<1>6. CASE UNCHANGED tkvars
  BY <1>6 DEF tkvars, vars, bufvars, FullInv, BoundsInv, TypeOK, WithinBuffer,
              NothingLost, CHARAT, Cell
<1> QED
  BY <1>1, <1>2, <1>3, <1>4, <1>5, <1>6 DEF TKNext, Bytes

-----------------------------------------------------------------------------
(* The keys the host has are those read from the first byte received up to *)
(* the first one that is neither taken nor kept.                           *)
KeysInv == ~forced => Reads(received, keys, eaten + hightide)

LEMMA LookAt ==
  ASSUME FullInv, OneDriver(Byte), Look(is_closed).res = "KEY"
  PROVE  At(received, eaten + hightide) = Look(is_closed)
<1>1. received \in Seq(Byte) /\ eaten + hightide \in 0 .. Len(received)
  BY UndecodedRest DEF FullInv, BoundsInv, TypeOK
<1>2. PICK str : str = Rest(received, eaten + hightide) /\ str = Undecoded
  BY UndecodedRest
<1>3. str \in Seq(Byte)
  <2>1. PICK p \in 0 .. Len(received) : p = eaten + hightide
    BY <1>1
  <2>2. Rest(received, p) \in Seq(Byte)
    BY <1>1, RestIs
  <2> QED
    BY <1>2, <2>1, <2>2
<1>4. Continues(str, str)
  BY <1>3, LenProperties DEF Continues
<1>5. PICK no \in BOOLEAN :
        /\ ~On(no) /\ Look(is_closed) = peekkey(str, no, is_closed)
        /\ \E c : At(received, eaten + hightide) = peekkey(str, no, c)
  <2>1. FALSE \in BOOLEAN /\ ~On(FALSE)
    BY DEF On
  <2>2. Look(is_closed) = peekkey(str, FALSE, is_closed)
    BY <1>2 DEF Look
  <2>3. At(received, eaten + hightide) = peekkey(str, FALSE, FALSE)
    BY <1>2 DEF At
  <2> QED
    BY <2>1, <2>2, <2>3, Zenon
<1>6. peekkey(str, no, is_closed).res = "KEY"
  BY <1>5
<1>7. PICK c : At(received, eaten + hightide) = peekkey(str, no, c)
  BY <1>5
<1>8. peekkey(str, no, c) = peekkey(str, no, is_closed)
  BY <1>3, <1>4, <1>5, <1>6, PeekkeyStable
<1> QED
  BY <1>5, <1>7, <1>8

(* A key that is taken is the next one read.                               *)
LEMMA TakesReads ==
  ASSUME FullInv, OneDriver(Byte), Look(is_closed).res = "KEY", Takes(Look(is_closed)),
         received' = received, Reads(received, keys, eaten + hightide)
  PROVE  Reads(received', keys', eaten' + hightide')
<1> DEFINE look == Look(is_closed)
           p == eaten + hightide
<1>1. At(received, p) = look
  BY LookAt
<1>2. received \in Seq(Byte)
  BY DEF FullInv, BoundsInv, TypeOK
<1>3. Reads(received, Append(keys, look.key), After(received, p))
  BY <1>1, <1>2, ReadsOn
<1>4. keys' = Append(keys, look.key) /\ hightide' = look.keep /\ eaten' = p + look.n
  BY DEF Takes, EatKey
<1>5. After(received, p) = p + look.n + look.keep
  BY <1>1 DEF After
<1> HIDE DEF look, p
<1>6. After(received, p) = eaten' + hightide'
  BY <1>4, <1>5
<1> QED
  BY <1>3, <1>4, <1>6

LEMMA KeysStep ==
  ASSUME OneDriver(Byte), NoMetaStrings
  PROVE  FullInv /\ KeysInv /\ [TKNext]_tkvars => KeysInv'
<1> SUFFICES ASSUME FullInv, KeysInv, [TKNext]_tkvars, ~forced'
             PROVE  Reads(received', keys', eaten' + hightide')
  BY DEF KeysInv
<1>1. /\ CountInv /\ BoundsInv /\ received \in Seq(Byte)
      /\ eaten \in Nat /\ hightide \in Nat
  <2>1. CountInv /\ BoundsInv
    BY Typing DEF FullInv, BoundsInv, CountInv
  <2> QED
    BY <2>1, Typing DEF CountInv, TypeOK
<1>2. ASSUME ~forced, keys' = keys, received' = received, eaten' + hightide' = eaten + hightide
      PROVE  Reads(received', keys', eaten' + hightide')
  BY <1>2 DEF KeysInv
<1>3. CASE Bytes
  <2>1. /\ received' \in Seq(Byte) /\ Continues(received', received)
        /\ UNCHANGED <<eaten, hightide, keys, forced>>
    BY <1>1, <1>3, BytesContinue
  <2>2. Reads(received, keys, eaten + hightide)
    BY <2>1 DEF KeysInv
  <2>3. Reads(received', keys, eaten + hightide)
    BY <1>1, <2>1, <2>2, ReadsStable
  <2> QED
    BY <2>1, <2>3
<1>4. CASE termkey_getkey
  <2>1. received' = received /\ ~forced
    BY <1>4 DEF termkey_getkey
  <2>2. CASE NotStarted /\ UNCHANGED keys
    BY <1>2, <2>1, <2>2 DEF NotStarted, bufvars
  <2>3. CASE FoundNothing /\ UNCHANGED keys
    <3>1. eaten' = eaten + hightide /\ hightide' = 0
      BY <2>3 DEF FoundNothing
    <3>2. eaten' + hightide' = eaten + hightide
      BY <1>1, <3>1
    <3> QED
      BY <1>2, <2>1, <2>3, <3>2
  <2>4. CASE Look(is_closed).res = "KEY" /\ Takes(Look(is_closed))
    BY <2>1, <2>4, TakesReads DEF KeysInv
  <2>5. CASE /\ Look(is_closed).res = "AGAIN" /\ UNCHANGED keys
             /\ LeavesBytes(ForcedLook(is_closed))
    <3>1. ForcedLook(is_closed).keep = 0
      BY <1>1, <2>5, LookAnswers
    <3>2. eaten' = eaten + hightide /\ hightide' = 0
      BY <2>5, <3>1 DEF LeavesBytes, KeptBy
    <3>3. eaten' + hightide' = eaten + hightide
      BY <1>1, <3>2
    <3> QED
      BY <1>2, <2>1, <2>5, <3>3
  <2> QED
    BY <1>4, <2>2, <2>3, <2>4, <2>5 DEF termkey_getkey
<1>5. CASE termkey_getkey_force
  <2>1. received' = received
    BY <1>5 DEF termkey_getkey_force
  <2>2. CASE NotStarted /\ UNCHANGED <<keys, forced>>
    BY <1>2, <2>1, <2>2 DEF NotStarted, bufvars
  <2>3. CASE FoundNothing /\ UNCHANGED <<keys, forced>>
    <3>1. eaten' = eaten + hightide /\ hightide' = 0
      BY <2>3 DEF FoundNothing
    <3>2. eaten' + hightide' = eaten + hightide
      BY <1>1, <3>1
    <3> QED
      BY <1>2, <2>1, <2>3, <3>2
  <2>4. CASE ForcedLook(is_closed).res = "AGAIN"
    <3>1. ForcedLook(is_closed).res \in {"KEY", "NONE", "EOF"}
      BY <1>1, LookAnswers
    <3> QED
      BY <2>4, <3>1
  <2> QED
    BY <1>5, <2>2, <2>3, <2>4 DEF termkey_getkey_force
<1>6. CASE UNCHANGED tkvars
  BY <1>2, <1>6 DEF tkvars, vars, bufvars
<1> QED
  BY <1>3, <1>4, <1>5, <1>6 DEF TKNext

LEMMA KeysInit == TKInit => KeysInv
<1> SUFFICES ASSUME TKInit PROVE KeysInv
  OBVIOUS
<1>1. received = <<>> /\ keys = <<>> /\ eaten + hightide = 0
  BY DEF TKInit, Init
<1>2. <<>> \in Seq(Byte)
  BY EmptySeq
<1>3. Reads(<<>>, <<>>, 0)
  BY <1>2, ReadsNothing
<1> QED
  BY <1>1, <1>3 DEF KeysInv

(* No byte of the input is lost, repeated or reordered by peekkey and the  *)
(* drivers either, whatever the terminal's strings and the pending bytes   *)
(* are, as long as no two Escapes come one behind the other.               *)
THEOREM RealDriversLoseNothing ==
  ASSUME ~HostShrinks, EvenSizes, NoMetaStrings
  PROVE  TKSpec /\ []LoneEscapes => []NothingLost
<1>1. TKInit => FullInv
  BY FullInit DEF TKInit
<1>2. FullInv /\ LoneEscapes /\ [TKNext]_tkvars => FullInv'
  BY TKFullStep
<1>3. FullInv => NothingLost
  BY DEF FullInv
<1> QED
  BY <1>1, <1>2, <1>3, PTL DEF TKSpec

(* The keys a host gets without forcing one are those of its input taken   *)
(* all at once, however the bytes were delivered, whenever it looked at    *)
(* them, and wherever they were moved and slid meanwhile.                  *)
THEOREM KeysAsDelivered ==
  ASSUME ~HostShrinks, EvenSizes, NoMetaStrings, OneDriver(Byte)
  PROVE  TKSpec /\ []LoneEscapes => []SameKeysHoweverDelivered
<1>1. TKInit => FullInv /\ KeysInv
  BY FullInit, KeysInit DEF TKInit
<1>2. FullInv /\ LoneEscapes /\ [TKNext]_tkvars => FullInv'
  BY TKFullStep
<1>3. FullInv /\ KeysInv /\ [TKNext]_tkvars => KeysInv'
  BY KeysStep
<1>4. FullInv /\ KeysInv => SameKeysHoweverDelivered
  <2> SUFFICES ASSUME FullInv, KeysInv, ~forced
               PROVE  IsPrefix(keys, KeysOf(received))
    BY DEF SameKeysHoweverDelivered
  <2>1. received \in Seq(Byte)
    BY DEF FullInv, BoundsInv, TypeOK
  <2>2. Reads(received, keys, eaten + hightide)
    BY DEF KeysInv
  <2> QED
    BY <2>1, <2>2, ReadsPrefix
<1> QED
  BY <1>1, <1>2, <1>3, <1>4, PTL DEF TKSpec

(* The bytes kept are those of the last key the host was given.            *)
KeptInv ==
  /\ \E K : keys \in Seq(K)
  /\ hightide > 0 =>
       \E csi \in {parse_csi(Rest(received, eaten), 0)} :
         /\ keys[Len(keys)].type = "UNKNOWN_CSI"
         /\ csi # Again /\ Command(csi) = keys[Len(keys)].code /\ csi.csi_len = hightide

LEMMA TakesKeep ==
  ASSUME FullInv, KeptInv, NEW look \in {Look(is_closed), ForcedLook(is_closed)},
         look.res = "KEY", Takes(look), received' = received
  PROVE  KeptInv'
<1>1. /\ Undecoded = Rest(received, eaten + hightide)
      /\ eaten + hightide \in 0 .. Len(received)
      /\ received \in Seq(Byte) /\ Len(received) \in Nat
  BY UndecodedRest, LenProperties DEF FullInv, BoundsInv, TypeOK
<1>2. PICK p \in 0 .. Len(received) : p = eaten + hightide
  BY <1>1
<1>3. PICK str : str = Undecoded /\ str = Rest(received, p)
  BY <1>1, <1>2
<1>4. str \in Seq(Byte) /\ Len(str) = Len(received) - p
  <2>1. Rest(received, p) \in Seq(Byte) /\ Len(Rest(received, p)) = Len(received) - p
    BY <1>1, RestIs
  <2> QED
    BY <1>3, <2>1
<1>5. PICK force \in BOOLEAN : look = peekkey(str, force, is_closed)
  BY <1>3, LookIs
<1>6. keys' = Append(keys, look.key) /\ hightide' = look.keep /\ eaten' = eaten + hightide + look.n
  BY DEF Takes, EatKey
<1>7. PICK n \in 1 .. Len(str) : n = look.n
  <2>1. str # <<>>
    BY <1>4, <1>5, PeekkeyAnswers
  <2>2. Answers(look, 0, Len(str), force)
    BY <1>4, <1>5, <2>1, PeekkeyAnswers
  <2>3. PICK key : \E n \in 1 .. Len(str) - 0 : \E keep, alt, driver :
          look = [res |-> "KEY", key |-> key, n |-> n, keep |-> keep,
                  alt |-> alt, driver |-> driver]
    BY <2>2 DEF Answers, Again
  <2>4. \E n \in 1 .. Len(str) - 0 : n = look.n
    BY <2>3
  <2>5. Len(str) - 0 = Len(str)
    BY <1>1, <1>4
  <2> QED
    BY <2>4, <2>5
<1>8. eaten' = p + n
  BY <1>2, <1>6, <1>7
<1>9. Rest(received', eaten') = Rest(str, n)
  <2>1. p \in Nat /\ n \in Nat /\ p + n <= Len(received)
    BY <1>1, <1>4, <1>7
  <2>2. Rest(Rest(received, p), n) = Rest(received, p + n)
    BY <1>1, <2>1, RestRest
  <2> QED
    BY <1>3, <1>8, <2>2
<1>10. (\E K : keys' \in Seq(K)) /\ keys'[Len(keys')] = look.key
  <2>1. PICK K : keys \in Seq(K)
    BY DEF KeptInv
  <2> QED
    BY <1>6, <2>1, AppendKeys
<1>11. ASSUME hightide' > 0
       PROVE  \E csi \in {parse_csi(Rest(received', eaten'), 0)} :
                /\ keys'[Len(keys')].type = "UNKNOWN_CSI"
                /\ csi # Again /\ Command(csi) = keys'[Len(keys')].code /\ csi.csi_len = hightide'
  <2>1. look.keep # 0
    BY <1>6, <1>11
  <2>2. Kept(Rest(str, n), look)
    BY <1>4, <1>5, <1>7, <2>1, PeekkeyKept
  <2>3. PICK csi : csi = parse_csi(Rest(str, n), 0)
    OBVIOUS
  <2>4. PICK code, mods :
          /\ look.key = [type |-> "UNKNOWN_CSI", code |-> code, mods |-> mods]
          /\ csi # Again /\ Command(csi) = code /\ csi.csi_len = look.keep
    BY <2>2, <2>3 DEF Kept
  <2>5. look.key.type = "UNKNOWN_CSI" /\ look.key.code = code
    BY ONLY <2>4
  <2> QED
    BY <1>6, <1>9, <1>10, <2>3, <2>4, <2>5
<1> QED
  BY <1>10, <1>11 DEF KeptInv

LEMMA KeptStep ==
  ASSUME NoMetaStrings
  PROVE  FullInv /\ KeptInv /\ [TKNext]_tkvars => KeptInv'
<1> SUFFICES ASSUME FullInv, KeptInv, [TKNext]_tkvars PROVE KeptInv'
  OBVIOUS
<1>1. CountInv /\ BoundsInv
  BY Typing DEF FullInv, BoundsInv, CountInv
<1>2. received \in Seq(Byte)
  BY <1>1 DEF BoundsInv, TypeOK
<1>3. ASSUME keys' = keys, hightide' = 0 PROVE KeptInv'
  BY <1>3 DEF KeptInv
<1>4. ASSUME UNCHANGED <<keys, hightide, eaten, received>> PROVE KeptInv'
  BY <1>4 DEF KeptInv
<1>5. CASE Bytes
  <2>1. /\ received' \in Seq(Byte) /\ Continues(received', received)
        /\ UNCHANGED <<eaten, hightide, keys>>
    BY <1>1, <1>5, BytesContinue
  <2>2. CASE hightide > 0
    <3>1. PICK s, r : s = Rest(received, eaten) /\ r = Rest(received', eaten)
      OBVIOUS
    <3>2. Continues(r, s)
      <4>1. PICK p \in 0 .. Len(received) : p = eaten
        BY UndecodedRest
      <4>2. Continues(Rest(received', p), Rest(received, p))
        BY <1>2, <2>1, RestContinues
      <4> QED
        BY <3>1, <4>1, <4>2
    <3>3. parse_csi(s, 0) # Again
      BY <2>2, <3>1 DEF KeptInv
    <3>4. parse_csi(r, 0) = parse_csi(s, 0)
      <4>1. 0 \in 0 .. 2
        OBVIOUS
      <4> QED
        BY <3>2, <3>3, <4>1, ParseCsiStable
    <3> QED
      BY <2>1, <3>1, <3>4 DEF KeptInv
  <2>3. CASE ~(hightide > 0)
    BY <2>1, <2>3 DEF KeptInv
  <2> QED
    BY <2>2, <2>3
<1>6. CASE termkey_getkey
  <2>1. received' = received
    BY <1>6 DEF termkey_getkey
  <2>2. CASE NotStarted /\ UNCHANGED keys
    BY <1>4, <2>1, <2>2 DEF NotStarted, bufvars
  <2>3. CASE FoundNothing /\ UNCHANGED keys
    BY <1>3, <2>3 DEF FoundNothing
  <2>4. CASE Look(is_closed).res = "KEY" /\ Takes(Look(is_closed))
    BY <2>1, <2>4, TakesKeep
  <2>5. CASE /\ Look(is_closed).res = "AGAIN" /\ UNCHANGED keys
             /\ LeavesBytes(ForcedLook(is_closed))
    <3>1. ForcedLook(is_closed).keep = 0
      BY <1>1, <2>5, LookAnswers
    <3>2. hightide' = 0
      BY <2>5, <3>1 DEF LeavesBytes, KeptBy
    <3> QED
      BY <1>3, <2>5, <3>2
  <2> QED
    BY <1>6, <2>2, <2>3, <2>4, <2>5 DEF termkey_getkey
<1>7. CASE termkey_getkey_force
  <2>1. received' = received
    BY <1>7 DEF termkey_getkey_force
  <2>2. CASE NotStarted /\ UNCHANGED keys
    BY <1>4, <2>1, <2>2 DEF NotStarted, bufvars
  <2>3. CASE FoundNothing /\ UNCHANGED keys
    BY <1>3, <2>3 DEF FoundNothing
  <2>4. CASE ForcedLook(is_closed).res = "KEY" /\ Takes(ForcedLook(is_closed))
    BY <2>1, <2>4, TakesKeep
  <2>5. CASE ForcedLook(is_closed).res = "AGAIN"
    <3>1. ForcedLook(is_closed).res \in {"KEY", "NONE", "EOF"}
      BY <1>1, LookAnswers
    <3> QED
      BY <2>5, <3>1
  <2> QED
    BY <1>7, <2>2, <2>3, <2>4, <2>5 DEF termkey_getkey_force
<1>8. CASE UNCHANGED tkvars
  BY <1>4, <1>8 DEF tkvars, vars, bufvars
<1> QED
  BY <1>5, <1>6, <1>7, <1>8 DEF TKNext

(* An unknown CSI sequence can be interpreted until the next look, however *)
(* many bytes arrive and move it meanwhile: what is kept at the front of   *)
(* the buffer is the sequence of the last key, complete.                   *)
THEOREM KeptCsiInterpretable ==
  ASSUME ~HostShrinks, EvenSizes, NoMetaStrings
  PROVE  TKSpec /\ []LoneEscapes => []CsiInterpretable
<1>1. TKInit => FullInv /\ KeptInv
  <2> SUFFICES ASSUME TKInit PROVE FullInv /\ KeptInv
    OBVIOUS
  <2>1. keys = <<>> /\ hightide = 0 /\ Init
    BY DEF TKInit, Init
  <2>2. <<>> \in Seq({})
    BY EmptySeq
  <2> QED
    BY <2>1, <2>2, FullInit DEF KeptInv
<1>2. FullInv /\ LoneEscapes /\ [TKNext]_tkvars => FullInv'
  BY TKFullStep
<1>3. FullInv /\ KeptInv /\ [TKNext]_tkvars => KeptInv'
  BY KeptStep
<1>4. FullInv /\ KeptInv => CsiInterpretable
  BY UndecodedRest DEF KeptInv, CsiInterpretable
<1> QED
  BY <1>1, <1>2, <1>3, <1>4, PTL DEF TKSpec
=============================================================================
