--------------------------- MODULE Fancyrl_proofs ---------------------------
(***************************************************************************)
(* Proofs about the line editor of module FancyReadline, for every keyboard*)
(* and every bound on the input: as long as the user changes the text only *)
(* where it ends, the counters agree with the text and the text is edited  *)
(* as LineEditor says.  And about the terminal it runs on, PosixTerminal:  *)
(* what setup_term and restore_term promise a program that calls them in   *)
(* turn.                                                                   *)
(***************************************************************************)
EXTENDS FancyReadline, PosixTerminal, SequenceTheorems, WellFoundedInduction, TLAPS

-----------------------------------------------------------------------------
(* Sets of numbers, and the searches in a sequence.                        *)
LEMMA HasLeast ==
  ASSUME NEW T, T \subseteq Nat, T # {}
  PROVE  \E x \in T : \A y \in T : x <= y
<1>1. PICK x \in T : \A y \in T : <<y, x>> \notin OpToRel(<, Nat)
  BY WFMin, NatLessThanWellFounded
<1>2. \A y \in T : ~(y < x)
  BY <1>1 DEF OpToRel
<1>3. QED
  BY <1>2

LEMMA HasGreatest ==
  ASSUME NEW top \in Nat, NEW T, T \subseteq 0 .. top, T # {}
  PROVE  \E x \in T : \A y \in T : y <= x
<1> DEFINE U == {top - x : x \in T}
<1>1. U \subseteq Nat /\ U # {}
  <2>1. \A x \in T : top - x \in Nat
    OBVIOUS
  <2>2. U \subseteq Nat
    BY <2>1
  <2>3. U # {}
    OBVIOUS
  <2>4. QED
    BY <2>2, <2>3
<1> HIDE DEF U
<1>2. PICK d \in U : \A e \in U : d <= e
  BY <1>1, HasLeast
<1>3. PICK x \in T : d = top - x
  BY DEF U
<1>4. ASSUME NEW y \in T PROVE y <= x
  <2>1. top - y \in U
    BY DEF U
  <2>2. top - x <= top - y
    BY <2>1, <1>2, <1>3
  <2>3. x \in Nat /\ y \in Nat
    OBVIOUS
  <2>4. QED
    BY <2>2, <2>3
<1>5. QED
  BY <1>4

LEMMA MinFacts ==
  ASSUME NEW T, T \subseteq Nat, T # {}
  PROVE  Min(T) \in T /\ \A y \in T : Min(T) <= y
BY HasLeast DEF Min

LEMMA MaxFacts ==
  ASSUME NEW top \in Nat, NEW T, T \subseteq 0 .. top, T # {}
  PROVE  Max(T) \in T /\ \A y \in T : y <= Max(T)
<1>1. \E x \in T : \A y \in T : x >= y
  <2>1. PICK x \in T : \A y \in T : y <= x
    BY HasGreatest
  <2>2. \A y \in T : x >= y
    BY <2>1
  <2>3. QED
    BY <2>2
<1>2. Max(T) \in T /\ \A y \in T : Max(T) >= y
  BY <1>1 DEF Max
<1>3. QED
  BY <1>2

(* The C string of a memory runs to the first zero.                        *)
LEMMA CStringIs ==
  ASSUME NEW mem \in Seq(Int), NEW n \in Nat, n < Len(mem), mem[n + 1] = 0,
         \A i \in 1 .. n : mem[i] # 0
  PROVE  CString(mem) = SubSeq(mem, 1, n)
<1> DEFINE Zeros == {i \in 1 .. Len(mem) : mem[i] = 0}
<1>1. n + 1 \in Zeros
  OBVIOUS
<1>2. Zeros \subseteq Nat /\ Zeros # {}
  BY <1>1
<1>3. Min(Zeros) \in Zeros /\ \A y \in Zeros : Min(Zeros) <= y
  BY <1>2, MinFacts
<1>4. Min(Zeros) = n + 1
  BY <1>1, <1>3
<1>5. SelectInSeq(mem, LAMBDA c : c = 0) = n + 1
  BY <1>2, <1>4 DEF SelectInSeq
<1>6. QED
  BY <1>5 DEF CString

LEMMA CStringOfNothing == CString(<<>>) = <<>>
<1>1. SelectInSeq(<<>>, LAMBDA c : c = 0) = 0
  BY DEF SelectInSeq
<1>2. SubSeq(<<>>, 1, Len(<<>>)) = <<>>
  OBVIOUS
<1>3. QED
  BY <1>1, <1>2 DEF CString

(* The last line begins after the last newline.                            *)
LastNewline(s) == SelectLastInSeq(s, LAMBDA c : c = 10)

LEMMA LastNewlineIs ==
  ASSUME NEW s \in Seq(Int), NEW k \in 0 .. Len(s), k = 0 \/ s[k] = 10,
         \A i \in 1 .. Len(s) : i > k => s[i] # 10
  PROVE  LastNewline(s) = k
<1> DEFINE T == {i \in 1 .. Len(s) : s[i] = 10}
<1>1. LastNewline(s) = IF T # {} THEN Max(T) ELSE 0
  BY DEF LastNewline, SelectLastInSeq
<1>2. CASE k = 0
  <2>1. T = {}
    BY <1>2
  <2>2. QED
    BY <2>1, <1>1, <1>2
<1>3. CASE k # 0
  <2>1. k \in T
    BY <1>3
  <2>2. T \subseteq 0 .. Len(s) /\ T # {} /\ Len(s) \in Nat
    BY <2>1
  <2>3. Max(T) \in T /\ \A y \in T : y <= Max(T)
    BY <2>2, MaxFacts
  <2>4. k <= Max(T) /\ Max(T) \in 1 .. Len(s) /\ s[Max(T)] = 10
    BY <2>1, <2>3
  <2>5. Max(T) = k
    BY <2>4
  <2>6. QED
    BY <2>2, <2>5, <1>1
<1>4. QED
  BY <1>2, <1>3

LEMMA LastNewlineFacts ==
  ASSUME NEW s \in Seq(Int)
  PROVE  /\ LastNewline(s) \in 0 .. Len(s)
         /\ LastNewline(s) = 0 \/ s[LastNewline(s)] = 10
         /\ \A i \in 1 .. Len(s) : i > LastNewline(s) => s[i] # 10
<1> DEFINE T == {i \in 1 .. Len(s) : s[i] = 10}
<1>1. LastNewline(s) = IF T # {} THEN Max(T) ELSE 0
  BY DEF LastNewline, SelectLastInSeq
<1>2. CASE T = {}
  BY <1>1, <1>2
<1>3. CASE T # {}
  <2>1. T \subseteq 0 .. Len(s) /\ Len(s) \in Nat
    OBVIOUS
  <2>2. Max(T) \in T /\ \A y \in T : y <= Max(T)
    BY <2>1, <1>3, MaxFacts
  <2>3. LastNewline(s) = Max(T)
    BY <1>1, <1>3
  <2>4. LastNewline(s) \in 1 .. Len(s) /\ s[LastNewline(s)] = 10
    BY <2>2, <2>3
  <2>5. ASSUME NEW i \in 1 .. Len(s), i > LastNewline(s) PROVE s[i] # 10
    BY <2>2, <2>3, <2>4, <2>5
  <2>6. QED
    BY <2>4, <2>5
<1>4. QED
  BY <1>2, <1>3

-----------------------------------------------------------------------------
(* The memory holds a text of n characters and the zero after them.        *)
TextChar == {10} \cup 32 .. 126

Holds(mem, n) ==
  \/ mem = <<>> /\ n = 0
  \/ /\ mem \in Seq(0 .. 255) /\ n \in Nat /\ n < Len(mem)
     /\ mem[n + 1] = 0
     /\ \A i \in 1 .. n : mem[i] \in TextChar

LEMMA HoldsText ==
  ASSUME NEW mem, NEW n, Holds(mem, n)
  PROVE  /\ n \in Nat /\ CString(mem) \in Seq(TextChar) /\ Len(CString(mem)) = n
         /\ \A i \in 1 .. n : CString(mem)[i] = mem[i]
         /\ mem = <<>> \/ 0 \in ToSet(mem)
<1>1. CASE mem = <<>> /\ n = 0
  <2>1. CString(mem) = <<>>
    BY <1>1, CStringOfNothing
  <2>2. <<>> \in Seq(TextChar) /\ Len(<<>>) = 0
    OBVIOUS
  <2>3. QED
    BY <1>1, <2>1, <2>2
<1>2. CASE /\ mem \in Seq(0 .. 255) /\ n \in Nat /\ n < Len(mem)
           /\ mem[n + 1] = 0
           /\ \A i \in 1 .. n : mem[i] \in TextChar
  <2>1. mem \in Seq(Int) /\ \A i \in 1 .. n : mem[i] # 0
    <3>1. mem \in Seq(0 .. 255) /\ \A i \in 1 .. n : mem[i] \in TextChar
      BY <1>2
    <3>2. 0 .. 255 \subseteq Int /\ 0 \notin TextChar
      BY DEF TextChar
    <3>3. mem \in Seq(Int)
      BY <3>1, <3>2, SeqMonotonic
    <3>4. QED
      BY <3>1, <3>2, <3>3
  <2>2. CString(mem) = SubSeq(mem, 1, n)
    BY <2>1, <1>2, CStringIs
  <2>3. /\ SubSeq(mem, 1, n) \in Seq(TextChar) /\ Len(SubSeq(mem, 1, n)) = n
        /\ \A i \in 1 .. n : SubSeq(mem, 1, n)[i] = mem[i]
    BY <1>2, SubSeqProperties
  <2>4. n + 1 \in DOMAIN mem
    BY <1>2
  <2>5. 0 \in ToSet(mem)
    BY <2>4, <1>2 DEF ToSet
  <2>6. QED
    BY <1>2, <2>2, <2>3, <2>5
<1>3. QED
  BY <1>1, <1>2 DEF Holds

LEMMA SameSequence ==
  ASSUME NEW S, NEW s \in Seq(S), NEW t \in Seq(S), Len(s) = Len(t),
         \A k \in 1 .. Len(s) : s[k] = t[k]
  PROVE  s = t
OBVIOUS

(* addchar, with the cursor at the end, adds the character to the text.    *)
AtEnd(ed) == ed.offs = ed.len /\ Holds(ed.mem, ed.len)

LEMMA AddcharAtEnd ==
  ASSUME NEW ed, AtEnd(ed), NEW c \in TextChar
  PROVE  /\ AtEnd(addchar(ed, c)) /\ addchar(ed, c).len = ed.len + 1
         /\ CString(addchar(ed, c).mem) = Append(CString(ed.mem), c)
<1> DEFINE n == ed.len
           new == addchar(ed, c).mem
           grown == realloc(ed.mem, n + 2)
<1>1. /\ n \in Nat /\ CString(ed.mem) \in Seq(TextChar) /\ Len(CString(ed.mem)) = n
      /\ \A i \in 1 .. n : CString(ed.mem)[i] = ed.mem[i]
  BY HoldsText DEF AtEnd
<1>2. \/ ed.mem = <<>> /\ n = 0
      \/ /\ ed.mem \in Seq(0 .. 255) /\ n < Len(ed.mem)
         /\ \A i \in 1 .. n : ed.mem[i] \in TextChar
  BY DEF AtEnd, Holds
<1>3. addchar(ed, c).len = n + 1 /\ addchar(ed, c).offs = n + 1
      /\ new = [grown EXCEPT ![n + 1] = c, ![n + 2] = 0]
  BY DEF addchar, AtEnd
<1>4. grown = [i \in 1 .. n + 2 |-> IF i <= Len(ed.mem) THEN ed.mem[i] ELSE Junk]
  BY DEF realloc
<1> HIDE DEF new, grown, n
<1>5. new = [i \in 1 .. n + 2 |-> IF i = n + 2 THEN 0 ELSE IF i = n + 1 THEN c
                                 ELSE IF i <= Len(ed.mem) THEN ed.mem[i] ELSE Junk]
  BY <1>1, <1>3, <1>4
<1>6. \A i \in 1 .. n : new[i] = ed.mem[i] /\ new[i] \in TextChar
  BY <1>1, <1>2, <1>5
<1>7. new[n + 1] = c /\ new[n + 2] = 0
  BY <1>1, <1>5
<1>8. \A i \in 1 .. n + 2 : new[i] \in 0 .. 255
  <2>1. TextChar \subseteq 0 .. 255
    BY DEF TextChar
  <2>2. \A i \in 1 .. n + 2 : i \in 1 .. n \/ i = n + 1 \/ i = n + 2
    BY <1>1
  <2>3. \A i \in 1 .. n : new[i] \in 0 .. 255
    BY <1>6, <2>1
  <2>4. new[n + 1] \in 0 .. 255
    BY <1>7, <2>1
  <2>5. new[n + 2] \in 0 .. 255
    BY <1>7
  <2>6. QED
    BY <2>2, <2>3, <2>4, <2>5, Zenon
<1>9. new \in Seq(0 .. 255) /\ Len(new) = n + 2
  BY <1>1, <1>5, <1>8
<1>10. \A i \in 1 .. n + 1 : new[i] \in TextChar
  BY <1>1, <1>6, <1>7
<1>11. Holds(new, n + 1)
  BY <1>1, <1>7, <1>9, <1>10 DEF Holds
<1>12. /\ CString(new) \in Seq(TextChar) /\ Len(CString(new)) = n + 1
       /\ \A i \in 1 .. n + 1 : CString(new)[i] = new[i]
  BY <1>11, HoldsText
<1>13. /\ Append(CString(ed.mem), c) \in Seq(TextChar)
       /\ Len(Append(CString(ed.mem), c)) = n + 1
       /\ \A i \in 1 .. n : Append(CString(ed.mem), c)[i] = CString(ed.mem)[i]
       /\ Append(CString(ed.mem), c)[n + 1] = c
  BY <1>1, AppendProperties
<1>14. \A i \in 1 .. n + 1 : CString(new)[i] = Append(CString(ed.mem), c)[i]
  BY <1>1, <1>6, <1>7, <1>12, <1>13
<1>15. CString(new) = Append(CString(ed.mem), c)
  BY <1>12, <1>13, <1>14, SameSequence
<1>16. QED
  BY <1>3, <1>11, <1>15 DEF AtEnd, new, n

(* The loop that types the spaces of a new line ends.                      *)
Typed(ed, n, f) ==
  f = [i \in 0 .. n |-> IF i = 0 THEN addchar(ed, 10) ELSE addchar(f[i - 1], 32)]

LEMMA TypedExists ==
  ASSUME NEW ed, NEW n \in Nat
  PROVE  \E f : Typed(ed, n, f)
<1> DEFINE Bad == {m \in Nat : ~ \E f : Typed(ed, m, f)}
<1>1. SUFFICES ASSUME Bad # {} PROVE FALSE
  BY <1>1
<1>2. PICK m \in Bad : \A k \in Bad : m <= k
  BY <1>1, HasLeast
<1>3. m # 0
  <2> DEFINE f == [i \in 0 .. 0 |-> addchar(ed, 10)]
  <2>1. f = [i \in 0 .. 0 |-> IF i = 0 THEN addchar(ed, 10) ELSE addchar(f[i - 1], 32)]
    OBVIOUS
  <2> HIDE DEF f
  <2>2. Typed(ed, 0, f)
    BY <2>1 DEF Typed
  <2>3. QED
    BY <2>2
<1>4. m \in Nat /\ m - 1 \in Nat /\ m - 1 \notin Bad
  BY <1>2, <1>3
<1>5. PICK f : Typed(ed, m - 1, f)
  BY <1>4
<1> DEFINE g == [i \in 0 .. m |-> IF i = m THEN addchar(f[m - 1], 32) ELSE f[i]]
<1>6. ASSUME NEW i \in 0 .. m
      PROVE  g[i] = IF i = 0 THEN addchar(ed, 10) ELSE addchar(g[i - 1], 32)
  <2>1. CASE i = m
    BY <2>1, <1>3, <1>4
  <2>2. CASE i # m
    <3>1. i \in 0 .. m - 1
      BY <2>2, <1>4
    <3>2. f[i] = IF i = 0 THEN addchar(ed, 10) ELSE addchar(f[i - 1], 32)
      BY <3>1, <1>5 DEF Typed
    <3>3. g[i] = f[i]
      BY <2>2
    <3>4. i # 0 => i - 1 \in 0 .. m /\ i - 1 # m
      BY <3>1, <1>4
    <3>5. i # 0 => g[i - 1] = f[i - 1]
      BY <3>4
    <3>6. QED
      BY <3>2, <3>3, <3>5
  <2>3. QED
    BY <2>1, <2>2
<1>7. g = [i \in 0 .. m |-> g[i]]
  OBVIOUS
<1> HIDE DEF g
<1>8. g = [i \in 0 .. m |-> IF i = 0 THEN addchar(ed, 10) ELSE addchar(g[i - 1], 32)]
  BY <1>6, <1>7
<1>9. Typed(ed, m, g)
  BY <1>8 DEF Typed
<1>10. QED
  BY <1>2, <1>9

-----------------------------------------------------------------------------
(* What Enter types: a new line and spaces.                                *)
NewLineText(k) == <<10>> \o [i \in 1 .. k |-> 32]

LEMMA NewLineTextFacts ==
  ASSUME NEW k \in Nat
  PROVE  /\ NewLineText(k) \in Seq(TextChar) /\ Len(NewLineText(k)) = k + 1
         /\ NewLineText(k)[1] = 10
         /\ \A i \in 2 .. k + 1 : NewLineText(k)[i] = 32
<1> DEFINE spaces == [i \in 1 .. k |-> 32]
<1>1. spaces \in Seq(TextChar) /\ Len(spaces) = k /\ \A i \in 1 .. k : spaces[i] = 32
  BY DEF TextChar
<1>2. <<10>> \in Seq(TextChar) /\ Len(<<10>>) = 1 /\ <<10>>[1] = 10
  BY DEF TextChar
<1> HIDE DEF spaces
<1>3. /\ <<10>> \o spaces \in Seq(TextChar) /\ Len(<<10>> \o spaces) = 1 + k
      /\ \A i \in 1 .. 1 + k : (<<10>> \o spaces)[i] =
                             IF i <= 1 THEN <<10>>[i] ELSE spaces[i - 1]
  BY <1>1, <1>2, ConcatProperties
<1>4. NewLineText(k) = <<10>> \o spaces
  BY DEF NewLineText, spaces
<1>5. QED
  BY <1>1, <1>2, <1>3, <1>4

LEMMA NewLineTextGrows ==
  ASSUME NEW s \in Seq(TextChar), NEW k \in Nat
  PROVE  Append(s \o NewLineText(k), 32) = s \o NewLineText(k + 1)
<1> DEFINE t == NewLineText(k)
           u == NewLineText(k + 1)
<1>1. /\ t \in Seq(TextChar) /\ Len(t) = k + 1 /\ t[1] = 10
      /\ \A i \in 2 .. k + 1 : t[i] = 32
  BY NewLineTextFacts
<1>2. /\ u \in Seq(TextChar) /\ Len(u) = k + 2 /\ u[1] = 10
      /\ \A i \in 2 .. k + 2 : u[i] = 32
  <2>1. k + 1 \in Nat /\ (k + 1) + 1 = k + 2
    OBVIOUS
  <2>2. /\ u \in Seq(TextChar) /\ Len(u) = (k + 1) + 1 /\ u[1] = 10
        /\ \A i \in 2 .. (k + 1) + 1 : u[i] = 32
    BY <2>1, NewLineTextFacts
  <2>3. QED
    BY <2>1, <2>2
<1> HIDE DEF t, u
<1>3. /\ s \o t \in Seq(TextChar) /\ Len(s \o t) = Len(s) + k + 1
      /\ \A i \in 1 .. Len(s) + k + 1 :
           (s \o t)[i] = IF i <= Len(s) THEN s[i] ELSE t[i - Len(s)]
  <2>1. Len(s) \in Nat /\ Len(s) + Len(t) = Len(s) + k + 1
    BY <1>1
  <2>2. /\ s \o t \in Seq(TextChar) /\ Len(s \o t) = Len(s) + Len(t)
        /\ \A i \in 1 .. Len(s) + Len(t) :
             (s \o t)[i] = IF i <= Len(s) THEN s[i] ELSE t[i - Len(s)]
    BY <1>1, ConcatProperties, Zenon
  <2>3. QED
    BY <2>1, <2>2
<1>4. /\ s \o u \in Seq(TextChar) /\ Len(s \o u) = Len(s) + k + 2
      /\ \A i \in 1 .. Len(s) + k + 2 :
           (s \o u)[i] = IF i <= Len(s) THEN s[i] ELSE u[i - Len(s)]
  <2>1. Len(s) \in Nat /\ Len(s) + Len(u) = Len(s) + k + 2
    BY <1>2
  <2>2. /\ s \o u \in Seq(TextChar) /\ Len(s \o u) = Len(s) + Len(u)
        /\ \A i \in 1 .. Len(s) + Len(u) :
             (s \o u)[i] = IF i <= Len(s) THEN s[i] ELSE u[i - Len(s)]
    BY <1>2, ConcatProperties, Zenon
  <2>3. QED
    BY <2>1, <2>2
<1>5. 32 \in TextChar
  BY DEF TextChar
<1>6. /\ Append(s \o t, 32) \in Seq(TextChar)
      /\ Len(Append(s \o t, 32)) = Len(s) + k + 2
      /\ \A i \in 1 .. Len(s) + k + 1 : Append(s \o t, 32)[i] = (s \o t)[i]
      /\ Append(s \o t, 32)[Len(s) + k + 2] = 32
  BY <1>3, <1>5, AppendProperties
<1>7. ASSUME NEW i \in 1 .. Len(s) + k + 2
      PROVE  Append(s \o t, 32)[i] = (s \o u)[i]
  <2>1. CASE i <= Len(s)
    <3>1. i \in 1 .. Len(s) + k + 1 /\ i \in 1 .. Len(s) + k + 2
      BY <2>1
    <3>2. (s \o t)[i] = s[i] /\ (s \o u)[i] = s[i]
      BY <2>1, <3>1, <1>3, <1>4
    <3>3. QED
      BY <3>1, <3>2, <1>6
  <2>2. CASE i = Len(s) + 1
    BY <2>2, <1>1, <1>2, <1>3, <1>4, <1>6
  <2>3. CASE i > Len(s) + 1 /\ i <= Len(s) + k + 1
    <3>1. i - Len(s) \in 2 .. k + 1 /\ i - Len(s) \in 2 .. k + 2 /\ i \in 1 .. Len(s) + k + 1
      BY <2>3
    <3>2. t[i - Len(s)] = 32 /\ u[i - Len(s)] = 32
      BY <3>1, <1>1, <1>2
    <3>3. ~(i <= Len(s)) /\ i \in 1 .. Len(s) + k + 2
      BY <2>3
    <3>4. (s \o t)[i] = 32 /\ (s \o u)[i] = 32
      BY <3>1, <3>2, <3>3, <1>3, <1>4
    <3>5. QED
      BY <3>1, <3>4, <1>6
  <2>4. CASE i = Len(s) + k + 2
    <3>1. i - Len(s) \in 2 .. k + 2 /\ ~(i <= Len(s))
      BY <2>4
    <3>2. QED
      BY <2>4, <3>1, <1>2, <1>4, <1>6
  <2>5. Len(s) \in Nat
    OBVIOUS
  <2>6. \/ i <= Len(s) \/ i = Len(s) + 1 \/ i = Len(s) + k + 2
        \/ i > Len(s) + 1 /\ i <= Len(s) + k + 1
    BY <2>5
  <2>7. QED
    BY <2>1, <2>2, <2>3, <2>4, <2>6
<1>8. Append(s \o t, 32) = s \o u
  BY <1>4, <1>6, <1>7, SameSequence
<1>9. QED
  BY <1>8 DEF t, u

LEMMA NewLineTypes ==
  ASSUME NEW ed, AtEnd(ed), NEW n \in Nat
  PROVE  /\ AtEnd(NewLine(ed, n)) /\ NewLine(ed, n).len = ed.len + 1 + n
         /\ CString(NewLine(ed, n).mem) = CString(ed.mem) \o NewLineText(n)
<1>1. PICK f : Typed(ed, n, f) /\ NewLine(ed, n) = f[n]
  BY TypedExists DEF Typed, NewLine
<1>2. ed.len \in Nat /\ CString(ed.mem) \in Seq(TextChar)
  BY HoldsText DEF AtEnd
<1> DEFINE Right(k) == /\ AtEnd(f[k]) /\ f[k].len = ed.len + 1 + k
                       /\ CString(f[k].mem) = CString(ed.mem) \o NewLineText(k)
           Bad == {k \in 0 .. n : ~Right(k)}
<1>3. Right(0)
  <2>1. f[0] = addchar(ed, 10)
    BY <1>1 DEF Typed
  <2>2. 10 \in TextChar
    BY DEF TextChar
  <2>3. /\ AtEnd(f[0]) /\ f[0].len = ed.len + 1
        /\ CString(f[0].mem) = Append(CString(ed.mem), 10)
    BY <2>1, <2>2, AddcharAtEnd
  <2>4. NewLineText(0) = <<10>>
    BY DEF NewLineText
  <2>5. Append(CString(ed.mem), 10) = CString(ed.mem) \o <<10>>
    BY <1>2, <2>2, AppendIsConcat
  <2>6. ed.len + 1 + 0 = ed.len + 1
    BY <1>2
  <2>7. QED
    BY <2>3, <2>4, <2>5, <2>6
<1>4. ASSUME NEW k \in 1 .. n, Right(k - 1)
      PROVE  Right(k)
  <2>1. f[k] = addchar(f[k - 1], 32)
    BY <1>1 DEF Typed
  <2>2. 32 \in TextChar
    BY DEF TextChar
  <2>3. /\ AtEnd(f[k]) /\ f[k].len = f[k - 1].len + 1
        /\ CString(f[k].mem) = Append(CString(f[k - 1].mem), 32)
    BY <1>4, <2>1, <2>2, AddcharAtEnd
  <2>4. k - 1 \in Nat /\ k - 1 + 1 = k
    OBVIOUS
  <2>5. Append(CString(ed.mem) \o NewLineText(k - 1), 32) = CString(ed.mem) \o NewLineText(k)
    BY <1>2, <2>4, NewLineTextGrows
  <2>6. f[k - 1].len = ed.len + 1 + (k - 1)
    BY <1>4
  <2>7. f[k].len = ed.len + 1 + k
    BY <1>2, <2>3, <2>6
  <2>8. CString(f[k].mem) = CString(ed.mem) \o NewLineText(k)
    BY <1>4, <2>3, <2>5
  <2>9. QED
    BY <2>3, <2>7, <2>8
<1> HIDE DEF Right
<1>5. SUFFICES ASSUME Bad # {} PROVE FALSE
  <2>1. Right(n)
    BY <1>5
  <2>2. QED
    BY <1>1, <2>1 DEF Right
<1>6. PICK k \in Bad : \A m \in Bad : k <= m
  <2>1. Bad \subseteq Nat
    OBVIOUS
  <2>2. QED
    BY <2>1, <1>5, HasLeast
<1>7. k \in 0 .. n /\ ~Right(k) /\ k # 0
  BY <1>3, <1>6
<1>8. k \in 1 .. n /\ k - 1 \in 0 .. n /\ k - 1 \notin Bad
  BY <1>6, <1>7
<1>9. Right(k - 1)
  BY <1>8
<1>10. QED
  BY <1>4, <1>7, <1>8, <1>9

-----------------------------------------------------------------------------
(* Where the last line begins, after what the keys do to the text.         *)
LEMMA TextCharIsInt ==
  ASSUME NEW s \in Seq(TextChar)
  PROVE  s \in Seq(Int)
<1>1. TextChar \subseteq Int
  BY DEF TextChar
<1>2. QED
  BY <1>1, SeqMonotonic

LEMMA LastNewlineAppend ==
  ASSUME NEW s \in Seq(Int), NEW c \in Int, c # 10
  PROVE  LastNewline(Append(s, c)) = LastNewline(s)
<1> DEFINE k == LastNewline(s)
           t == Append(s, c)
<1>1. /\ k \in 0 .. Len(s) /\ (k = 0 \/ s[k] = 10)
      /\ \A i \in 1 .. Len(s) : i > k => s[i] # 10
  BY LastNewlineFacts
<1>2. /\ t \in Seq(Int) /\ Len(t) = Len(s) + 1 /\ t[Len(s) + 1] = c
      /\ \A i \in 1 .. Len(s) : t[i] = s[i]
  BY AppendProperties
<1> HIDE DEF k, t
<1>3. k \in 0 .. Len(t) /\ (k = 0 \/ t[k] = 10)
  BY <1>1, <1>2
<1>4. \A i \in 1 .. Len(t) : i > k => t[i] # 10
  BY <1>1, <1>2
<1>5. LastNewline(t) = k
  BY <1>2, <1>3, <1>4, LastNewlineIs
<1>6. QED
  BY <1>5 DEF k, t

LEMMA LastNewlineFront ==
  ASSUME NEW s \in Seq(Int), LastNewline(s) < Len(s)
  PROVE  LastNewline(SubSeq(s, 1, Len(s) - 1)) = LastNewline(s)
<1> DEFINE k == LastNewline(s)
           t == SubSeq(s, 1, Len(s) - 1)
<1>1. /\ k \in 0 .. Len(s) /\ (k = 0 \/ s[k] = 10)
      /\ \A i \in 1 .. Len(s) : i > k => s[i] # 10
  BY LastNewlineFacts
<1>2. k < Len(s)
  OBVIOUS
<1>3. /\ t \in Seq(Int) /\ Len(t) = Len(s) - 1
      /\ \A i \in 1 .. Len(s) - 1 : t[i] = s[i]
  <2>1. Len(s) - 1 \in Nat /\ Len(s) - 1 - 1 + 1 = Len(s) - 1
    BY <1>1, <1>2
  <2>2. \A i \in 1 .. Len(s) - 1 : s[i] \in Int
    OBVIOUS
  <2>3. /\ t \in Seq(Int) /\ Len(t) = IF 1 <= Len(s) - 1 THEN Len(s) - 1 - 1 + 1 ELSE 0
        /\ \A i \in 1 .. Len(s) - 1 - 1 + 1 : t[i] = s[1 + i - 1]
    BY <2>1, <2>2, SubSeqProperties
  <2>4. QED
    BY <2>1, <2>3
<1> HIDE DEF k, t
<1>4. k \in 0 .. Len(t) /\ (k = 0 \/ t[k] = 10)
  BY <1>1, <1>2, <1>3
<1>5. \A i \in 1 .. Len(t) : i > k => t[i] # 10
  BY <1>1, <1>3, SMTT(20)
<1>6. LastNewline(t) = k
  BY <1>3, <1>4, <1>5, LastNewlineIs
<1>7. QED
  BY <1>6 DEF k, t

LEMMA LastNewlineOfNewLine ==
  ASSUME NEW s \in Seq(TextChar), NEW n \in Nat
  PROVE  LastNewline(s \o NewLineText(n)) = Len(s) + 1
<1> DEFINE t == NewLineText(n)
           u == s \o t
<1>1. /\ t \in Seq(TextChar) /\ Len(t) = n + 1 /\ t[1] = 10
      /\ \A i \in 2 .. n + 1 : t[i] = 32
  BY NewLineTextFacts
<1> HIDE DEF t
<1>2. /\ u \in Seq(TextChar) /\ Len(u) = Len(s) + n + 1
      /\ \A i \in 1 .. Len(s) + n + 1 : u[i] = IF i <= Len(s) THEN s[i] ELSE t[i - Len(s)]
  <2>1. Len(s) \in Nat /\ Len(s) + Len(t) = Len(s) + n + 1
    BY <1>1
  <2>2. /\ u \in Seq(TextChar) /\ Len(u) = Len(s) + Len(t)
        /\ \A i \in 1 .. Len(s) + Len(t) :
             u[i] = IF i <= Len(s) THEN s[i] ELSE t[i - Len(s)]
    BY <1>1, ConcatProperties, Zenon
  <2>3. QED
    BY <2>1, <2>2
<1> HIDE DEF u
<1>3. u \in Seq(Int)
  BY <1>2, TextCharIsInt
<1>4. Len(s) + 1 \in 0 .. Len(u) /\ u[Len(s) + 1] = 10
  BY <1>1, <1>2
<1>5. ASSUME NEW i \in 1 .. Len(u), i > Len(s) + 1 PROVE u[i] # 10
  <2>1. i - Len(s) \in 2 .. n + 1 /\ ~(i <= Len(s)) /\ i \in 1 .. Len(s) + n + 1
    BY <1>2, <1>5
  <2>2. QED
    BY <2>1, <1>1, <1>2
<1>6. LastNewline(u) = Len(s) + 1
  BY <1>3, <1>4, <1>5, LastNewlineIs
<1>7. QED
  BY <1>6 DEF t, u

LEMMA LineStartIsLastNewline ==
  ASSUME NEW s
  PROVE  Editor!LineStart(s) = LastNewline(s)
BY DEF Editor!LineStart, LastNewline, Editor!SelectLastInSeq, SelectLastInSeq, Editor!Max, Max

LEMMA IndentFacts ==
  ASSUME NEW s \in Seq(Int)
  PROVE  calc_indent(s) \in Nat /\ calc_indent(s) = Editor!Indent(s)
<1> DEFINE line == SubSeq(s, LastNewline(s) + 1, Len(s))
           T == {i \in 1 .. Len(line) : line[i] # 32}
           end == IF T # {} THEN Min(T) ELSE 0
<1>1. LastNewline(s) \in 0 .. Len(s)
  BY LastNewlineFacts
<1>2. line \in Seq(Int)
  BY <1>1, SubSeqProperties
<1>3. T # {} => Min(T) \in T
  <2>1. T \subseteq Nat
    OBVIOUS
  <2> HIDE DEF T
  <2>2. QED
    BY <2>1, MinFacts
<1>4. (IF end = 0 THEN Len(line) ELSE end - 1) \in Nat
  <2>1. Len(line) \in Nat
    BY <1>2
  <2>2. CASE T = {}
    BY <2>1, <2>2
  <2>3. CASE T # {}
    <3>1. Min(T) \in 1 .. Len(line)
      BY <2>3, <1>3
    <3> HIDE DEF T
    <3>2. QED
      BY <3>1, <2>1, <2>3
  <2>4. QED
    BY <2>2, <2>3
<1>5. calc_indent(s) = IF end = 0 THEN Len(line) ELSE end - 1
  BY DEF calc_indent, LastNewline, SelectInSeq
<1>6. Editor!Indent(s) = IF end = 0 THEN Len(line) ELSE end - 1
  <2>1. Editor!LineStart(s) = LastNewline(s)
    BY LineStartIsLastNewline
  <2>2. Editor!SelectInSeq(line, LAMBDA c : c # 32) = end
    BY DEF Editor!SelectInSeq, Editor!Min, Min
  <2>3. QED
    BY <2>1, <2>2 DEF Editor!Indent
<1> HIDE DEF end, line, T
<1>7. QED
  BY <1>4, <1>5, <1>6

-----------------------------------------------------------------------------
(* The inductive invariant: the memory holds a text of cur_frl_input_len   *)
(* characters, the cursor is in its last line, on the column that says so, *)
(* and no write has fallen outside.                                        *)
Text == CString(cur_frl_input)

InLastLine ==
  /\ cur_cursor_offs \in LastNewline(Text) .. cur_frl_input_len
  /\ cur_cursor_col = Home + cur_cursor_offs - LastNewline(Text)

EditInv ==
  /\ Holds(cur_frl_input, cur_frl_input_len)
  /\ InLastLine
  /\ fault # "outside"

LEMMA EditFacts ==
  ASSUME EditInv
  PROVE  /\ Text \in Seq(TextChar) /\ Text \in Seq(Int) /\ Len(Text) = cur_frl_input_len
         /\ cur_frl_input_len \in Nat /\ LastNewline(Text) \in Nat
         /\ cur_cursor_offs \in Nat /\ Home \in Int
         /\ LastNewline(Text) <= cur_cursor_offs /\ cur_cursor_offs <= cur_frl_input_len
<1>1. /\ Text \in Seq(TextChar) /\ Len(Text) = cur_frl_input_len
      /\ cur_frl_input_len \in Nat
  BY HoldsText DEF EditInv, Text
<1>2. Text \in Seq(Int)
  BY <1>1, TextCharIsInt
<1>3. LastNewline(Text) \in 0 .. Len(Text)
  BY <1>2, LastNewlineFacts
<1>4. cur_cursor_offs \in LastNewline(Text) .. cur_frl_input_len
  BY DEF EditInv, InLastLine
<1>5. Home \in Int
  BY ReadlineAssumption DEF Home
<1>6. QED
  BY <1>1, <1>2, <1>3, <1>4, <1>5

LEMMA EditImpliesRight == EditInv => CountersRight
<1> SUFFICES ASSUME EditInv PROVE CountersRight
  OBVIOUS
<1>1. cur_frl_input = <<>> \/ 0 \in ToSet(cur_frl_input)
  BY HoldsText DEF EditInv
<1>2. cur_frl_input_len = Len(Text) /\ cur_cursor_offs <= Len(Text)
  BY EditFacts
<1>3. cur_cursor_col = Home + cur_cursor_offs - SelectLastInSeq(Text, LAMBDA c : c = 10)
  BY DEF EditInv, InLastLine, LastNewline
<1>4. fault # "outside"
  BY DEF EditInv
<1>5. QED
  BY <1>1, <1>2, <1>3, <1>4 DEF CountersRight, Text

LEMMA EditInit == Init => EditInv /\ Editor!Init
<1> SUFFICES ASSUME Init PROVE EditInv /\ Editor!Init
  OBVIOUS
<1>1. Text = <<>> /\ cur_frl_input = <<>> /\ cur_frl_input_len = 0 /\ cur_cursor_offs = 0
  BY CStringOfNothing DEF Init, Text
<1>2. <<>> \in Seq(Int) /\ Len(<<>>) = 0
  OBVIOUS
<1>3. LastNewline(<<>>) = 0
  <2>1. LastNewline(<<>>) \in 0 .. Len(<<>>)
    BY <1>2, LastNewlineFacts
  <2>2. QED
    BY <1>2, <2>1
<1>4. Home \in Int
  BY ReadlineAssumption DEF Home
<1>5. InLastLine
  BY <1>1, <1>3, <1>4 DEF InLastLine, Init
<1>6. Holds(cur_frl_input, cur_frl_input_len)
  BY <1>1 DEF Holds
<1>7. QED
  BY <1>1, <1>5, <1>6 DEF EditInv, Init, Editor!Init, Text

(* What is typed where the text ends is what LineEditor inserts.           *)
LEMMA InsertAtEnd ==
  ASSUME EditInv, cur_cursor_offs = cur_frl_input_len,
         NEW t \in Seq(TextChar), cur_frl_input_len + Len(t) <= MaxInput,
         Text' = Text \o t, cur_cursor_offs' = cur_cursor_offs + Len(t)
  PROVE  Editor!Insert(t)
<1>1. Text \in Seq(TextChar) /\ Len(Text) = cur_frl_input_len /\ cur_frl_input_len \in Nat
  BY EditFacts
<1>2. SubSeq(Text, 1, cur_cursor_offs) = Text
  BY <1>1, SubSeqFull
<1>3. SubSeq(Text, cur_cursor_offs + 1, Len(Text)) = <<>>
  BY <1>1, SubSeqEmpty
<1>4. Text \o t \in Seq(TextChar)
  BY <1>1
<1>5. (Text \o t) \o <<>> = Text \o t
  BY <1>4, ConcatEmptySeq
<1>6. QED
  BY <1>1, <1>2, <1>3, <1>5 DEF Editor!Insert, Text

LEMMA AsciiStep ==
  ASSUME EditInv, cur_cursor_offs = cur_frl_input_len, NEW c \in 32 .. 126, Ascii(c)
  PROVE  EditInv' /\ Editor!Type
<1> DEFINE ed == addchar(editor, c)
<1>1. /\ Text \in Seq(TextChar) /\ Text \in Seq(Int) /\ Len(Text) = cur_frl_input_len
      /\ cur_frl_input_len \in Nat /\ LastNewline(Text) \in Nat /\ Home \in Int
      /\ LastNewline(Text) <= cur_cursor_offs
  BY EditFacts
<1>2. AtEnd(editor) /\ c \in TextChar /\ c \in Int /\ c # 10
  BY DEF AtEnd, editor, EditInv, TextChar
<1>3. /\ AtEnd(ed) /\ ed.len = cur_frl_input_len + 1
      /\ CString(ed.mem) = Append(Text, c)
  BY <1>2, AddcharAtEnd DEF editor, Text
<1>4. /\ cur_frl_input' = ed.mem /\ cur_frl_input_len' = ed.len /\ cur_cursor_offs' = ed.offs
      /\ cur_cursor_col' = cur_cursor_col + 1 /\ fault' = fault
      /\ cur_frl_input_len < MaxInput
  BY DEF Ascii, Becomes
<1> HIDE DEF ed
<1>5. /\ Text' = Append(Text, c) /\ cur_frl_input_len' = cur_frl_input_len + 1
      /\ cur_cursor_offs' = cur_cursor_offs + 1
  BY <1>3, <1>4 DEF Text, AtEnd
<1>6. Holds(cur_frl_input', cur_frl_input_len')
  BY <1>3, <1>4 DEF AtEnd
<1>7. LastNewline(Text)' = LastNewline(Text)
  <2>1. LastNewline(Append(Text, c)) = LastNewline(Text)
    BY <1>1, <1>2, LastNewlineAppend
  <2>2. QED
    BY <2>1, <1>5
<1>8. cur_cursor_col = Home + cur_cursor_offs - LastNewline(Text)
  BY DEF EditInv, InLastLine
<1>9. InLastLine'
  BY <1>1, <1>4, <1>5, <1>7, <1>8 DEF InLastLine, Home
<1>10. EditInv'
  BY <1>4, <1>6, <1>9 DEF EditInv
<1>11. Editor!Type
  <2>1. <<c>> \in Seq(TextChar) /\ Len(<<c>>) = 1 /\ Append(Text, c) = Text \o <<c>>
    BY <1>1, <1>2, AppendIsConcat
  <2>2. cur_frl_input_len + Len(<<c>>) <= MaxInput
    BY <1>1, <1>4, <2>1, ReadlineAssumption
  <2>3. Editor!Insert(<<c>>)
    BY <1>5, <2>1, <2>2, InsertAtEnd
  <2>4. QED
    BY <2>3 DEF Editor!Type
<1>12. QED
  BY <1>10, <1>11

LEMMA EnterStep ==
  ASSUME EditInv, cur_cursor_offs = cur_frl_input_len, Enter
  PROVE  EditInv' /\ (Editor!Enter \/ UNCHANGED <<Text, cur_cursor_offs>>)
<1> DEFINE indent == calc_indent(Text)
           ed == NewLine(editor, indent)
<1>1. /\ Text \in Seq(TextChar) /\ Text \in Seq(Int) /\ Len(Text) = cur_frl_input_len
      /\ cur_frl_input_len \in Nat /\ LastNewline(Text) \in Nat /\ Home \in Int
      /\ LastNewline(Text) <= cur_cursor_offs
  BY EditFacts
<1>2. indent \in Nat /\ indent = Editor!Indent(Text)
  BY <1>1, IndentFacts
<1>3. CASE /\ cur_frl_input = <<>> /\ fault' = "null"
           /\ UNCHANGED <<cur_frl_input, counters, reading>>
  <2>1. /\ UNCHANGED cur_frl_input /\ UNCHANGED cur_frl_input_len
        /\ UNCHANGED cur_cursor_offs /\ UNCHANGED cur_cursor_col /\ fault' # "outside"
    BY <1>3 DEF counters
  <2>2. UNCHANGED Text
    BY <2>1 DEF Text
  <2>3. LastNewline(Text)' = LastNewline(Text)
    BY <2>2
  <2>4. InLastLine'
    BY <2>1, <2>3 DEF EditInv, InLastLine, Home
  <2>5. Holds(cur_frl_input', cur_frl_input_len')
    BY <2>1 DEF EditInv
  <2>6. QED
    BY <2>1, <2>2, <2>4, <2>5 DEF EditInv
<1>4. CASE cur_frl_input_len + indent < MaxInput /\ Becomes(ed, Home + indent)
  <2>1. AtEnd(editor)
    BY DEF AtEnd, editor, EditInv
  <2>2. /\ AtEnd(ed) /\ ed.len = cur_frl_input_len + 1 + indent
        /\ CString(ed.mem) = Text \o NewLineText(indent)
    <3>1. indent \in Nat
      BY <1>2
    <3> HIDE DEF indent
    <3>2. /\ AtEnd(ed) /\ ed.len = editor.len + 1 + indent
          /\ CString(ed.mem) = CString(editor.mem) \o NewLineText(indent)
      BY <3>1, <2>1, NewLineTypes
    <3>3. editor.len = cur_frl_input_len /\ editor.mem = cur_frl_input
      BY DEF editor
    <3>4. QED
      BY <3>2, <3>3 DEF Text
  <2>3. /\ cur_frl_input' = ed.mem /\ cur_frl_input_len' = ed.len /\ cur_cursor_offs' = ed.offs
        /\ cur_cursor_col' = Home + indent /\ fault' = fault
    BY <1>4 DEF Becomes
  <2> HIDE DEF ed, indent
  <2>4. /\ Text' = Text \o NewLineText(indent)
        /\ cur_frl_input_len' = cur_frl_input_len + 1 + indent
        /\ cur_cursor_offs' = cur_frl_input_len + 1 + indent
    BY <2>2, <2>3 DEF Text, AtEnd
  <2>5. Holds(cur_frl_input', cur_frl_input_len')
    BY <2>2, <2>3 DEF AtEnd
  <2>6. LastNewline(Text)' = cur_frl_input_len + 1
    <3>1. LastNewline(Text \o NewLineText(indent)) = Len(Text) + 1
      BY <1>1, <1>2, LastNewlineOfNewLine
    <3>2. QED
      BY <1>1, <2>4, <3>1
  <2>7. InLastLine'
    BY <1>1, <1>2, <2>3, <2>4, <2>6, SMTT(20) DEF InLastLine, Home
  <2>8. EditInv'
    BY <2>3, <2>5, <2>7 DEF EditInv
  <2>9. NewLineText(indent) \in Seq(TextChar) /\ Len(NewLineText(indent)) = indent + 1
    BY <1>2, NewLineTextFacts
  <2>10. /\ cur_frl_input_len + Len(NewLineText(indent)) <= MaxInput
         /\ cur_cursor_offs' = cur_cursor_offs + Len(NewLineText(indent))
    <3>1. cur_frl_input_len + indent < MaxInput /\ indent \in Nat /\ MaxInput \in Nat
      BY <1>2, <1>4, ReadlineAssumption
    <3>2. cur_cursor_offs = cur_frl_input_len /\ cur_frl_input_len \in Nat
      BY <1>1
    <3>3. QED
      BY <3>1, <3>2, <2>4, <2>9
  <2>11. Editor!Insert(NewLineText(indent))
    BY <2>4, <2>9, <2>10, InsertAtEnd
  <2>12. Editor!Enter
    BY <1>2, <2>11 DEF Editor!Enter, NewLineText, Text
  <2>13. QED
    BY <2>8, <2>12
<1>5. QED
  BY <1>3, <1>4 DEF Enter, Text

LEMMA BackspaceStep ==
  ASSUME EditInv, cur_cursor_offs = cur_frl_input_len, backspace
  PROVE  EditInv' /\ (Editor!Backspace \/ UNCHANGED <<Text, cur_cursor_offs>>)
<1> DEFINE n == cur_frl_input_len
           mem == [cur_frl_input EXCEPT ![cur_cursor_offs] = 0]
<1>1. /\ Text \in Seq(TextChar) /\ Text \in Seq(Int) /\ Len(Text) = n
      /\ n \in Nat /\ LastNewline(Text) \in Nat /\ Home \in Int
      /\ LastNewline(Text) <= cur_cursor_offs
      /\ cur_cursor_col = Home + cur_cursor_offs - LastNewline(Text)
  BY EditFacts DEF EditInv, InLastLine
<1>2. CASE Nothing
  <2>1. /\ UNCHANGED cur_frl_input /\ UNCHANGED cur_frl_input_len /\ UNCHANGED fault
        /\ UNCHANGED cur_cursor_offs /\ UNCHANGED cur_cursor_col
    BY <1>2 DEF Nothing, vars, counters
  <2>2. UNCHANGED Text
    BY <2>1 DEF Text
  <2>3. QED
    BY <2>1, <2>2 DEF EditInv, InLastLine, Home
<1>3. CASE ~(cur_cursor_col <= Home \/ n = 0)
  <2>1. LastNewline(Text) < n /\ n - 1 \in Nat
    BY <1>1, <1>3
  <2>2. /\ cur_frl_input \in Seq(0 .. 255) /\ n < Len(cur_frl_input)
        /\ \A i \in 1 .. n : cur_frl_input[i] \in TextChar
    BY <1>3 DEF EditInv, Holds
  <2>3. /\ cur_frl_input' = mem /\ cur_frl_input_len' = n - 1 /\ cur_cursor_offs' = n - 1
        /\ cur_cursor_col' = cur_cursor_col - 1 /\ fault' = fault
    BY <1>1, <1>3, <2>2 DEF backspace, Becomes
  <2>4. n \in 1 .. Len(cur_frl_input)
    BY <1>1, <2>1, <2>2
  <2>5. /\ mem \in Seq(0 .. 255) /\ Len(mem) = Len(cur_frl_input) /\ mem[n] = 0
        /\ \A i \in 1 .. n - 1 : mem[i] = cur_frl_input[i]
    <3>1. 0 \in 0 .. 255
      OBVIOUS
    <3>2. /\ mem \in Seq(0 .. 255) /\ Len(mem) = Len(cur_frl_input)
          /\ \A j \in 1 .. Len(cur_frl_input) : mem[j] = IF j = n THEN 0 ELSE cur_frl_input[j]
      BY <2>2, <2>4, <3>1, ExceptSeq
    <3> HIDE DEF mem
    <3>3. mem[n] = 0
      BY <3>2, <2>4
    <3>4. \A i \in 1 .. n - 1 : i \in 1 .. Len(cur_frl_input) /\ i # n
      BY <2>2, <2>4
    <3>5. \A i \in 1 .. n - 1 : mem[i] = cur_frl_input[i]
      BY <3>2, <3>4, Zenon
    <3>6. QED
      BY <3>2, <3>3, <3>5
  <2> HIDE DEF mem
  <2>6. Holds(mem, n - 1)
    <3>1. \A i \in 1 .. n - 1 : mem[i] \in TextChar
      BY <1>1, <2>2, <2>5
    <3>2. n - 1 < Len(mem) /\ mem[(n - 1) + 1] = 0
      BY <1>1, <2>2, <2>5
    <3>3. QED
      BY <2>1, <2>5, <3>1, <3>2 DEF Holds
  <2>7. Text' = SubSeq(Text, 1, n - 1)
    <3>1. /\ CString(mem) \in Seq(TextChar) /\ Len(CString(mem)) = n - 1
          /\ \A i \in 1 .. n - 1 : CString(mem)[i] = mem[i]
      BY <2>6, HoldsText
    <3>2. \A i \in 1 .. n : Text[i] = cur_frl_input[i] /\ Text[i] \in TextChar
      BY <1>1, HoldsText, SMTT(20) DEF Text, EditInv
    <3>3. /\ SubSeq(Text, 1, n - 1) \in Seq(TextChar) /\ Len(SubSeq(Text, 1, n - 1)) = n - 1
          /\ \A i \in 1 .. n - 1 : SubSeq(Text, 1, n - 1)[i] = Text[i]
      <4>1. \A i \in 1 .. n - 1 : Text[i] \in TextChar
        BY <1>1, <3>2
      <4>2. QED
        BY <2>1, <4>1, SubSeqProperties
    <3>4. \A i \in 1 .. n - 1 : CString(mem)[i] = SubSeq(Text, 1, n - 1)[i]
      BY <1>1, <2>5, <3>1, <3>2, <3>3, SMTT(20)
    <3>5. CString(mem) = SubSeq(Text, 1, n - 1)
      BY <3>1, <3>3, <3>4, SameSequence
    <3>6. QED
      BY <2>3, <3>5 DEF Text
  <2>8. LastNewline(Text)' = LastNewline(Text)
    <3>1. LastNewline(SubSeq(Text, 1, n - 1)) = LastNewline(Text)
      BY <1>1, <2>1, LastNewlineFront
    <3>2. QED
      BY <2>7, <3>1
  <2>9. InLastLine'
    BY <1>1, <2>1, <2>3, <2>8 DEF InLastLine, Home
  <2>10. EditInv'
    BY <2>3, <2>6, <2>9 DEF EditInv
  <2>11. Text' = RemoveAt(Text, cur_cursor_offs)
    <3>1. SubSeq(Text, n + 1, Len(Text)) = <<>>
      BY <1>1, SubSeqEmpty
    <3>2. SubSeq(Text, 1, n - 1) \in Seq(TextChar)
      BY <1>1, <2>1
    <3>3. SubSeq(Text, 1, n - 1) \o <<>> = SubSeq(Text, 1, n - 1)
      BY <3>2, ConcatEmptySeq
    <3>4. QED
      BY <2>7, <3>1, <3>3 DEF RemoveAt
  <2>12. Editor!Backspace
    <3>1. cur_cursor_offs > Editor!LineStart(Text)
      BY <1>1, <2>1, LineStartIsLastNewline
    <3>2. QED
      BY <2>3, <2>11, <3>1 DEF Editor!Backspace, Editor!RemoveAt, RemoveAt, Text
  <2>13. QED
    BY <2>10, <2>12
<1>4. QED
  BY <1>2, <1>3 DEF backspace

LEMMA MoveStep ==
  ASSUME EditInv, moveleft \/ moveright
  PROVE  EditInv' /\ (Editor!Left \/ Editor!Right \/ UNCHANGED <<Text, cur_cursor_offs>>)
<1>1. /\ Len(Text) = cur_frl_input_len /\ cur_frl_input_len \in Nat /\ LastNewline(Text) \in Nat
      /\ Home \in Int /\ cur_cursor_offs \in Nat
      /\ LastNewline(Text) <= cur_cursor_offs /\ cur_cursor_offs <= cur_frl_input_len
      /\ cur_cursor_col = Home + cur_cursor_offs - LastNewline(Text)
  BY EditFacts DEF EditInv, InLastLine
<1>2. UNCHANGED cur_frl_input /\ UNCHANGED cur_frl_input_len /\ UNCHANGED fault
  BY DEF moveleft, moveright, Becomes, Nothing, editor, vars, counters
<1>3. UNCHANGED Text /\ LastNewline(Text)' = LastNewline(Text) /\ Home' = Home
  BY <1>2 DEF Text, Home
<1>4. Holds(cur_frl_input', cur_frl_input_len')
  BY <1>2 DEF EditInv
<1>5. CASE /\ cur_cursor_col > Home
           /\ cur_cursor_offs' = cur_cursor_offs - 1 /\ cur_cursor_col' = cur_cursor_col - 1
  <2>1. InLastLine'
    BY <1>1, <1>2, <1>3, <1>5 DEF InLastLine
  <2>2. Editor!Left
    BY <1>1, <1>3, <1>5, LineStartIsLastNewline DEF Editor!Left, Text
  <2>3. QED
    BY <1>2, <1>4, <2>1, <2>2 DEF EditInv
<1>6. CASE /\ cur_cursor_offs # cur_frl_input_len
           /\ cur_cursor_offs' = cur_cursor_offs + 1 /\ cur_cursor_col' = cur_cursor_col + 1
  <2>1. InLastLine'
    BY <1>1, <1>2, <1>3, <1>6 DEF InLastLine
  <2>2. Editor!Right
    BY <1>1, <1>3, <1>6 DEF Editor!Right, Text
  <2>3. QED
    BY <1>2, <1>4, <2>1, <2>2 DEF EditInv
<1>7. CASE UNCHANGED cur_cursor_offs /\ UNCHANGED cur_cursor_col
  BY <1>2, <1>3, <1>4, <1>7 DEF EditInv, InLastLine
<1>8. QED
  <2>1. cur_cursor_col <= Home \/ cur_cursor_col > Home
    BY <1>1
  <2>2. QED
    BY <1>5, <1>6, <1>7, <2>1 DEF moveleft, moveright, Becomes, Nothing, editor, vars, counters

LEMMA StillStep ==
  ASSUME EditInv, UNCHANGED <<cur_frl_input, counters, fault>>
  PROVE  EditInv' /\ UNCHANGED <<Text, cur_cursor_offs>>
<1>1. /\ UNCHANGED cur_frl_input /\ UNCHANGED cur_frl_input_len /\ UNCHANGED fault
      /\ UNCHANGED cur_cursor_offs /\ UNCHANGED cur_cursor_col
  BY DEF counters
<1>2. UNCHANGED Text /\ LastNewline(Text)' = LastNewline(Text) /\ Home' = Home
  BY <1>1 DEF Text, Home
<1>3. QED
  BY <1>1, <1>2 DEF EditInv, InLastLine

(* Every step of an editor whose user changes only the end of the text.    *)
LEMMA EditStep ==
  ASSUME EditInv, [Next]_vars, EditsInside = FALSE
  PROVE  EditInv' /\ (Editor!Next \/ UNCHANGED <<Text, cur_cursor_offs>>)
<1>1. CASE UNCHANGED vars
  BY <1>1, StillStep DEF vars
<1>2. CASE Next
  <2>1. PICK p \in Presses : Press(p)
    BY <1>2 DEF Next
  <2> DEFINE key == handle_raw_char(p)
  <2>2. key \in {"ASCII", "BACKSPACE", "ENTER"} => cur_cursor_offs = cur_frl_input_len
    BY <2>1 DEF Press
  <2>3. handle_logical_char(key, p[1])
    BY <2>1 DEF Press
  <2>4. key = "ASCII" => p[1] \in 32 .. 126
    BY DEF handle_raw_char, read_esc
  <2> HIDE DEF key
  <2>5. CASE Finish \/ Nothing
    BY <2>5, StillStep DEF Finish, Nothing, vars
  <2>6. CASE key = "ASCII" /\ Ascii(p[1])
    BY <2>2, <2>4, <2>6, AsciiStep DEF Editor!Next
  <2>7. CASE key = "BACKSPACE" /\ backspace
    BY <2>2, <2>7, BackspaceStep DEF Editor!Next
  <2>8. CASE moveleft \/ moveright
    BY <2>8, MoveStep DEF Editor!Next
  <2>9. CASE key = "ENTER" /\ Enter
    BY <2>2, <2>9, EnterStep DEF Editor!Next
  <2>10. QED
    BY <2>3, <2>5, <2>6, <2>7, <2>8, <2>9 DEF handle_logical_char
<1>3. QED
  BY <1>1, <1>2

-----------------------------------------------------------------------------
(* If the text is changed only where it ends, the counters are those of    *)
(* the C string, the string ends inside its memory, the cursor is shown on *)
(* its column and no write falls outside: fancyreadline.c:196-253.         *)
THEOREM CountersStayRight == EditsInside = FALSE /\ Spec => []CountersRight
<1> SUFFICES ASSUME EditsInside = FALSE PROVE Spec => []CountersRight
  OBVIOUS
<1>1. Init => EditInv
  BY EditInit
<1>2. EditInv /\ [Next]_vars => EditInv'
  BY EditStep
<1>3. EditInv => CountersRight
  BY EditImpliesRight
<1>4. QED
  BY <1>1, <1>2, <1>3, PTL DEF Spec

(* And every key does with the text what LineEditor says of it.            *)
THEOREM EditorRefines == EditsInside = FALSE /\ Spec => EditsText
<1> SUFFICES ASSUME EditsInside = FALSE PROVE Spec => EditsText
  OBVIOUS
<1>1. Init => EditInv /\ Editor!Init
  BY EditInit
<1>2. EditInv /\ [Next]_vars =>
        EditInv' /\ [Editor!Next]_<<CString(cur_frl_input), cur_cursor_offs>>
  BY EditStep DEF Text
<1>3. QED
  BY <1>1, <1>2, PTL DEF Spec, EditsText, Editor!Spec

(* A key that is none of Ctrl-C and Ctrl-D leaves the editor reading, if   *)
(* it is not cut off in the middle of a sequence with a digit, which       *)
(* read_esc answers by LOGICAL_KEY_INVALID (fancyreadline.c:140-194).      *)
THEOREM OnlyControlEnds ==
  ASSUME \A p \in Presses : p[1] = 27 => ~(p[2] = 91 /\ p[3] \in 48 .. 57)
  PROVE  Spec => OnlyControlFinishes
<1>1. ASSUME NEW p \in Presses, Press(p), p[1] \notin {3, 4}
      PROVE  reading'
  <2>1. handle_raw_char(p) \notin {"FINISHED", "INVALID"}
    BY <1>1 DEF handle_raw_char, read_esc
  <2>2. reading
    BY <1>1 DEF Press
  <2>3. reading' = reading
    BY <1>1, <2>1 DEF Press, handle_logical_char, Ascii, backspace, moveleft, moveright, Enter,
       Becomes, Nothing, vars
  <2>4. QED
    BY <2>2, <2>3
<1>2. [Next]_vars =>
        [\A p \in Presses : Press(p) /\ p[1] \notin {3, 4} => reading']_vars
  BY <1>1
<1>3. QED
  BY <1>2, PTL DEF Spec, OnlyControlFinishes

-----------------------------------------------------------------------------
(* A program that calls setup_term and then restore_term before it deletes *)
(* the terminal, however often and restoring as often as it likes.         *)
InTurn ==
  {"setup twice", "restore unset", "delete unset", "delete in use"} \cap Does = {}
(* A window that is resized only outside setup_term.                       *)
Patient == "resize in setup" \notin Does

(* Where each step of the two methods finds the terminal.                  *)
Untouched == ~up /\ stdin = "cooked" /\ handler = Host
Installed == stdin = "cooked" /\ handler = "own" /\ object = "live" /\ ~up
Saved == orig_sig_handler = Host /\ orig_stdin = "cooked" /\ tk # "NULL"
Set == handler = "own" /\ Saved /\ object = "live"

Settings ==
  /\ at \in {"out", "131", "132", "132 assigns", "138", "190"}
  /\ up \in BOOLEAN
  /\ at = "out" => IF up THEN Set ELSE Untouched /\ (tk = "NULL" \/ Saved)
  /\ at \in {"131", "132"} => Untouched /\ object = "live"
  /\ at = "132 assigns" => Installed /\ old = Host
  /\ at = "138" => Installed /\ orig_sig_handler = Host
  /\ at = "190" => handler = Host /\ Saved

(* The handler that runs is that of a live object, with something to call. *)
Callable ==
  /\ orig_sig_handler \in {"DFL", Host}
  /\ ~crashed

(* What the size is waiting for.                                           *)
Listening == at \in {"132 assigns", "138"} \/ (at = "out" /\ up)
Sizes ==
  /\ at \in {"131", "132"} => in_handler = "out"
  /\ at = "131" => size = window
  /\ at = "132" => cur_size = window
  /\ Listening /\ ~winch => \/ in_handler = "out" /\ cur_size = window
                            \/ in_handler \in {"200", "201"}
                            \/ in_handler = "201 assigns" /\ hsize = window
  /\ winch \in BOOLEAN

(* Every step of the program, and every signal, leaves the settings as the *)
(* next step expects them.                                                 *)
LEMMA SettingsKept ==
  ASSUME InTurn, Settings, [TermNext]_termvars
  PROVE  Settings'
PROOF
  <1>1. CASE setup_term
    BY <1>1 DEF setup_term, Goes, InTurn, Settings, Set, Saved, Untouched, Installed, members, kernel, temps
  <1>2. CASE setup_term_size
    BY <1>2 DEF setup_term_size, Goes, InTurn, Settings, Set, Saved, Untouched, Installed, members, kernel, temps
  <1>3. CASE setup_term_signal
    BY <1>3 DEF setup_term_signal, Goes, InTurn, Settings, Set, Saved, Untouched, Installed, members, kernel, temps
  <1>4. CASE setup_term_orig
    BY <1>4 DEF setup_term_orig, Goes, InTurn, Settings, Set, Saved, Untouched, Installed, members, kernel, temps
  <1>5. CASE setup_term_raw
    BY <1>5 DEF setup_term_raw, Goes, InTurn, Settings, Set, Saved, Untouched, Installed, members, kernel, temps
  <1>6. CASE restore_term
    BY <1>6 DEF restore_term, Goes, InTurn, Settings, Set, Saved, Untouched, Installed, members, kernel, temps
  <1>7. CASE restore_term_modes
    BY <1>7 DEF restore_term_modes, Goes, InTurn, Settings, Set, Saved, Untouched, Installed, members, kernel, temps
  <1>8. CASE delete
    BY <1>8 DEF delete, Goes, InTurn, Settings, Set, Saved, Untouched, Installed, members, kernel, temps
  <1>9. CASE Resize
    BY <1>9 DEF Resize, InTurn, Settings, Set, Saved, Untouched, Installed, members, kernel, temps
  <1>10. CASE Signal
    BY <1>10 DEF Signal, InTurn, Settings, Set, Saved, Untouched, Installed, members, kernel, temps
  <1>11. CASE sig_handle
    BY <1>11 DEF sig_handle, Handles, InTurn, Settings, Set, Saved, Untouched, Installed, members, kernel, temps
  <1>12. CASE sig_handle_size
    BY <1>12 DEF sig_handle_size, Handles, InTurn, Settings, Set, Saved, Untouched, Installed, members, kernel, temps
  <1>13. CASE sig_handle_assign
    BY <1>13 DEF sig_handle_assign, Handles, InTurn, Settings, Set, Saved, Untouched, Installed, members, kernel, temps
  <1>14. CASE UNCHANGED termvars
    BY <1>14 DEF termvars, members, kernel, temps, InTurn, Settings, Set, Saved, Untouched, Installed, members, kernel, temps
  <1> QED
    BY <1>1, <1>2, <1>3, <1>4, <1>5, <1>6, <1>7, <1>8, <1>9, <1>10, <1>11, <1>12, <1>13, <1>14 DEF TermNext

(* No signal finds a handler it cannot run.                                *)
LEMMA CallableKept ==
  ASSUME InTurn, Host # "IGN", Settings, Callable, [TermNext]_termvars
  PROVE  Callable'
PROOF
  <1>1. CASE setup_term
    BY <1>1, TerminalAssumption DEF setup_term, Goes, InTurn, Settings, Set, Saved, Untouched, Installed, Callable, members, kernel, temps
  <1>2. CASE setup_term_size
    BY <1>2, TerminalAssumption DEF setup_term_size, Goes, InTurn, Settings, Set, Saved, Untouched, Installed, Callable, members, kernel, temps
  <1>3. CASE setup_term_signal
    BY <1>3, TerminalAssumption DEF setup_term_signal, Goes, InTurn, Settings, Set, Saved, Untouched, Installed, Callable, members, kernel, temps
  <1>4. CASE setup_term_orig
    BY <1>4, TerminalAssumption DEF setup_term_orig, Goes, InTurn, Settings, Set, Saved, Untouched, Installed, Callable, members, kernel, temps
  <1>5. CASE setup_term_raw
    BY <1>5, TerminalAssumption DEF setup_term_raw, Goes, InTurn, Settings, Set, Saved, Untouched, Installed, Callable, members, kernel, temps
  <1>6. CASE restore_term
    BY <1>6, TerminalAssumption DEF restore_term, Goes, InTurn, Settings, Set, Saved, Untouched, Installed, Callable, members, kernel, temps
  <1>7. CASE restore_term_modes
    BY <1>7, TerminalAssumption DEF restore_term_modes, Goes, InTurn, Settings, Set, Saved, Untouched, Installed, Callable, members, kernel, temps
  <1>8. CASE delete
    BY <1>8, TerminalAssumption DEF delete, Goes, InTurn, Settings, Set, Saved, Untouched, Installed, Callable, members, kernel, temps
  <1>9. CASE Resize
    BY <1>9, TerminalAssumption DEF Resize, InTurn, Settings, Set, Saved, Untouched, Installed, Callable, members, kernel, temps
  <1>10. CASE Signal
    BY <1>10, TerminalAssumption DEF Signal, InTurn, Settings, Set, Saved, Untouched, Installed, Callable, members, kernel, temps
  <1>11. CASE sig_handle
    BY <1>11, TerminalAssumption DEF sig_handle, Handles, InTurn, Settings, Set, Saved, Untouched, Installed, Callable, members, kernel, temps
  <1>12. CASE sig_handle_size
    BY <1>12, TerminalAssumption DEF sig_handle_size, Handles, InTurn, Settings, Set, Saved, Untouched, Installed, Callable, members, kernel, temps
  <1>13. CASE sig_handle_assign
    BY <1>13, TerminalAssumption DEF sig_handle_assign, Handles, InTurn, Settings, Set, Saved, Untouched, Installed, Callable, members, kernel, temps
  <1>14. CASE UNCHANGED termvars
    BY <1>14 DEF termvars, members, kernel, temps, InTurn, Settings, Set, Saved, Untouched, Installed, Callable, members, kernel, temps
  <1> QED
    BY <1>1, <1>2, <1>3, <1>4, <1>5, <1>6, <1>7, <1>8, <1>9, <1>10, <1>11, <1>12, <1>13, <1>14 DEF TermNext

(* No resize goes by unseen.                                               *)
LEMMA SizesKept ==
  ASSUME InTurn, Patient, Settings, Sizes, [TermNext]_termvars
  PROVE  Sizes'
PROOF
  <1>1. CASE setup_term
    BY <1>1, TerminalAssumption DEF setup_term, Goes, InTurn, Patient, Settings, Set, Saved, Untouched, Installed, Sizes, Listening, members, kernel, temps
  <1>2. CASE setup_term_size
    BY <1>2, TerminalAssumption DEF setup_term_size, Goes, InTurn, Patient, Settings, Set, Saved, Untouched, Installed, Sizes, Listening, members, kernel, temps
  <1>3. CASE setup_term_signal
    BY <1>3, TerminalAssumption DEF setup_term_signal, Goes, InTurn, Patient, Settings, Set, Saved, Untouched, Installed, Sizes, Listening, members, kernel, temps
  <1>4. CASE setup_term_orig
    BY <1>4, TerminalAssumption DEF setup_term_orig, Goes, InTurn, Patient, Settings, Set, Saved, Untouched, Installed, Sizes, Listening, members, kernel, temps
  <1>5. CASE setup_term_raw
    BY <1>5, TerminalAssumption DEF setup_term_raw, Goes, InTurn, Patient, Settings, Set, Saved, Untouched, Installed, Sizes, Listening, members, kernel, temps
  <1>6. CASE restore_term
    BY <1>6, TerminalAssumption DEF restore_term, Goes, InTurn, Patient, Settings, Set, Saved, Untouched, Installed, Sizes, Listening, members, kernel, temps
  <1>7. CASE restore_term_modes
    BY <1>7, TerminalAssumption DEF restore_term_modes, Goes, InTurn, Patient, Settings, Set, Saved, Untouched, Installed, Sizes, Listening, members, kernel, temps
  <1>8. CASE delete
    BY <1>8, TerminalAssumption DEF delete, Goes, InTurn, Patient, Settings, Set, Saved, Untouched, Installed, Sizes, Listening, members, kernel, temps
  <1>9. CASE Resize
    <2>1. at' = at /\ up' = up /\ in_handler' = in_handler /\ at \in {"out", "190"}
      BY <1>9 DEF Resize, Patient
    <2>2. Listening => handler = "own"
      BY <2>1 DEF Settings, Set, Listening
    <2>3. winch' \in BOOLEAN /\ (handler = "own" => winch')
      BY <1>9 DEF Resize
    <2> QED
      BY <2>1, <2>2, <2>3 DEF Sizes, Listening
  <1>10. CASE Signal
    BY <1>10, TerminalAssumption DEF Signal, InTurn, Patient, Settings, Set, Saved, Untouched, Installed, Sizes, Listening, members, kernel, temps
  <1>11. CASE sig_handle
    BY <1>11, TerminalAssumption DEF sig_handle, Handles, InTurn, Patient, Settings, Set, Saved, Untouched, Installed, Sizes, Listening, members, kernel, temps
  <1>12. CASE sig_handle_size
    BY <1>12, TerminalAssumption DEF sig_handle_size, Handles, InTurn, Patient, Settings, Set, Saved, Untouched, Installed, Sizes, Listening, members, kernel, temps
  <1>13. CASE sig_handle_assign
    BY <1>13, TerminalAssumption DEF sig_handle_assign, Handles, InTurn, Patient, Settings, Set, Saved, Untouched, Installed, Sizes, Listening, members, kernel, temps
  <1>14. CASE UNCHANGED termvars
    BY <1>14 DEF termvars, members, kernel, temps, InTurn, Patient, Settings, Set, Saved, Untouched, Installed, Sizes, Listening, members, kernel, temps
  <1> QED
    BY <1>1, <1>2, <1>3, <1>4, <1>5, <1>6, <1>7, <1>8, <1>9, <1>10, <1>11, <1>12, <1>13, <1>14 DEF TermNext

(* However often it is set up, each restore_term leaves stdin and the      *)
(* handler of SIGWINCH as the program had them.                            *)
THEOREM RestoresTerminal ==
  InTurn => (TermSpec => []TerminalRestored)
PROOF
  <1> SUFFICES ASSUME InTurn PROVE TermSpec => []TerminalRestored
    OBVIOUS
  <1>1. TermInit => Settings
    BY DEF TermInit, Settings, Untouched
  <1>2. Settings /\ [TermNext]_termvars => Settings'
    BY SettingsKept
  <1>3. Settings => TerminalRestored
    BY DEF Settings, Untouched, TerminalRestored
  <1> QED
    BY <1>1, <1>2, <1>3, PTL DEF TermSpec

(* A resize never crashes a program that did not ignore SIGWINCH before.   *)
THEOREM SignalsHarmless ==
  InTurn /\ Host # "IGN" => (TermSpec => []NoCrash)
PROOF
  <1> SUFFICES ASSUME InTurn, Host # "IGN" PROVE TermSpec => []NoCrash
    OBVIOUS
  <1>1. TermInit => Settings /\ Callable
    BY DEF TermInit, Settings, Untouched, Callable
  <1>2. Settings /\ Callable /\ [TermNext]_termvars => (Settings /\ Callable)'
    BY SettingsKept, CallableKept
  <1>3. Callable => NoCrash
    BY DEF Callable, NoCrash
  <1> QED
    BY <1>1, <1>2, <1>3, PTL DEF TermSpec

(* If the window keeps its size during setup_term, cur_size is current     *)
(* whenever every signal has been handled.                                 *)
THEOREM SizeStaysKnown ==
  InTurn /\ Patient => (TermSpec => []SizeKnown)
PROOF
  <1> SUFFICES ASSUME InTurn, Patient PROVE TermSpec => []SizeKnown
    OBVIOUS
  <1>1. TermInit => Settings /\ Sizes
    BY DEF TermInit, Settings, Untouched, Sizes, Listening
  <1>2. Settings /\ Sizes /\ [TermNext]_termvars => (Settings /\ Sizes)'
    BY SettingsKept, SizesKept
  <1>3. Sizes => SizeKnown
    BY DEF Sizes, Listening, SizeKnown
  <1> QED
    BY <1>1, <1>2, <1>3, PTL DEF TermSpec
=============================================================================
