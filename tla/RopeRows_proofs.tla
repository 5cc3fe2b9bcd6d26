--------------------------- MODULE RopeRows_proofs ---------------------------
(***************************************************************************)
(* The rows of nodes a rope is made of, the walk down to a position and    *)
(* the insertion of a text there, for every heap, every alphabet, every    *)
(* size of a node and every height: the lemmas Rope_proofs is built on.    *)
(***************************************************************************)
EXTENDS StringClass, FiniteSetTheorems, SequenceTheorems, WellFoundedInduction, TLAPS

-----------------------------------------------------------------------------
(* Numbers, sequences and the bytes of a string.                           *)

LEMMA HasLeast ==
  ASSUME NEW S, S \subseteq Nat, S # {}
  PROVE  \E n \in S : \A m \in S : n <= m
<1>1. PICK n \in S : \A m \in S : <<m, n>> \notin OpToRel(<, Nat)
  <2>1. IsWellFoundedOn(OpToRel(<, Nat), Nat)
    BY NatLessThanWellFounded, Zenon
  <2>2. \A R, T : IsWellFoundedOn(R, T) => \A U : U \subseteq T /\ U # {} => \E x \in U : \A y \in U : ~(<<y, x>> \in R)
    BY WFMin, Zenon
  <2> QED
    BY <2>1, <2>2, Zenon
<1>2. \A m \in S : ~(m < n)
  BY <1>1 DEF OpToRel
<1> QED
  BY <1>2

LEMMA LowestIs ==
  ASSUME NEW S, S \subseteq Nat, S # {}
  PROVE  Lowest(S) \in S /\ \A m \in S : Lowest(S) <= m
BY HasLeast DEF Lowest

LEMMA SameSequence ==
  ASSUME NEW S, NEW s \in Seq(S), NEW t \in Seq(S), Len(s) = Len(t),
         \A i \in 1 .. Len(s) : s[i] = t[i]
  PROVE  s = t
BY SeqEqual

(* The parts of a sequence, element by element.                            *)
LEMMA FirstOfIs ==
  ASSUME NEW S, NEW s \in Seq(S), NEW n \in 0 .. Len(s)
  PROVE  /\ FirstOf(s, n) \in Seq(S) /\ Len(FirstOf(s, n)) = n
         /\ \A i \in 1 .. n : FirstOf(s, n)[i] = s[i]
<1>1. Len(s) \in Nat /\ n \in Int /\ n >= 0 /\ n <= Len(s) /\ 1 \in Int
  OBVIOUS
<1>2. \A i \in 1 .. n : s[i] \in S
  BY <1>1, ElementOfSeq
<1> QED
  BY <1>1, <1>2, SubSeqProperties DEF FirstOf

LEMMA FromIs ==
  ASSUME NEW S, NEW s \in Seq(S), NEW n \in 0 .. Len(s)
  PROVE  /\ From(s, n) \in Seq(S) /\ Len(From(s, n)) = Len(s) - n
         /\ \A i \in 1 .. Len(s) - n : From(s, n)[i] = s[n + i]
<1>1. Len(s) \in Nat /\ n \in Int /\ n >= 0 /\ n <= Len(s) /\ n + 1 \in Int
  OBVIOUS
<1>2. \A i \in n + 1 .. Len(s) : s[i] \in S
  BY <1>1, ElementOfSeq
<1>3. /\ SubSeq(s, n + 1, Len(s)) \in Seq(S)
      /\ Len(SubSeq(s, n + 1, Len(s))) =
           IF n + 1 <= Len(s) THEN Len(s) - (n + 1) + 1 ELSE 0
      /\ \A i \in 1 .. Len(s) - (n + 1) + 1 : SubSeq(s, n + 1, Len(s))[i] = s[n + 1 + i - 1]
  BY <1>1, <1>2, SubSeqProperties
<1> QED
  BY <1>1, <1>3 DEF From

LEMMA ConcatIs ==
  ASSUME NEW S, NEW s \in Seq(S), NEW u \in Seq(S)
  PROVE  /\ s \o u \in Seq(S) /\ Len(s \o u) = Len(s) + Len(u)
         /\ \A i \in 1 .. Len(s) : (s \o u)[i] = s[i]
         /\ \A i \in 1 .. Len(u) : (s \o u)[Len(s) + i] = u[i]
<1>1. Len(s) \in Nat /\ Len(u) \in Nat
  OBVIOUS
<1>2. /\ s \o u \in Seq(S) /\ Len(s \o u) = Len(s) + Len(u)
      /\ \A i \in 1 .. Len(s) + Len(u) :
           (s \o u)[i] = IF i <= Len(s) THEN s[i] ELSE u[i - Len(s)]
  BY ConcatProperties, Zenon
<1>3. \A i \in 1 .. Len(s) : (s \o u)[i] = s[i]
  BY <1>1, <1>2
<1>4. \A i \in 1 .. Len(u) : (s \o u)[Len(s) + i] = u[i]
  BY <1>1, <1>2
<1> QED
  BY <1>2, <1>3, <1>4
(* The loops of the rope, for one proof that there is a state after each   *)
(* round.                                                                  *)
Fits(s, from) == {k \in from + 1 .. Len(s) : Bytes(SubSeq(s, from + 1, k)) <= ROPE_NODE_STR_SIZE}
PieceEnd(s, from) == CHOOSE k \in Fits(s, from) : \A j \in Fits(s, from) : j <= k
NextPiece(s, x) ==
  IF x.str_offset = Len(s) THEN x
  ELSE [str_offset |-> PieceEnd(s, x.str_offset),
        parts |-> Append(x.parts, SubSeq(s, x.str_offset + 1, PieceEnd(s, x.str_offset)))]
Round(loop, i, x) ==
  CASE loop.of = "bytes"  -> x + Size[loop.s[i]]
    [] loop.of = "walk"   -> Walk(loop.nd, x)
    [] loop.of = "insert" -> insert_at(loop.r, x, loop.heights[i], loop.parts[i])
    [] loop.of = "delete" -> Delete(loop.r, loop.iter, x)
    [] OTHER              -> NextPiece(loop.s, x)

Runs(g, loop, n, first) ==
  g = [i \in 0 .. n |-> IF i = 0 THEN first ELSE Round(loop, i, g[i - 1])]

LEMMA RoundsExist ==
  ASSUME NEW loop, NEW first, NEW n \in Nat
  PROVE  \E g : Runs(g, loop, n, first)
<1> DEFINE Missed == {k \in Nat : ~\E g : Runs(g, loop, k, first)}
<1>1. \E g : Runs(g, loop, 0, first)
  <2> DEFINE g == [i \in 0 .. 0 |-> first]
  <2>1. g = [i \in 0 .. 0 |-> IF i = 0 THEN first ELSE Round(loop, i, g[i - 1])]
    OBVIOUS
  <2> HIDE DEF g
  <2> QED
    BY <2>1 DEF Runs
<1>2. ASSUME NEW k \in Nat, NEW g, Runs(g, loop, k, first)
      PROVE  \E h : Runs(h, loop, k + 1, first)
  <2> DEFINE h == [i \in 0 .. k + 1 |-> IF i = k + 1 THEN Round(loop, i, g[k]) ELSE g[i]]
  <2>1. ASSUME NEW i \in 0 .. k + 1
        PROVE  h[i] = IF i = 0 THEN first ELSE Round(loop, i, h[i - 1])
    <3>1. CASE i = k + 1
      <4>1. h[i] = Round(loop, i, g[k]) /\ i - 1 = k /\ k # k + 1 /\ k \in 0 .. k + 1 /\ i # 0
        BY <3>1
      <4>2. h[i - 1] = g[k]
        BY <4>1
      <4> QED
        BY <4>1, <4>2
    <3>2. CASE i # k + 1
      <4>1. i \in 0 .. k /\ h[i] = g[i]
        BY <3>2
      <4>2. g[i] = IF i = 0 THEN first ELSE Round(loop, i, g[i - 1])
        BY <1>2, <4>1 DEF Runs
      <4>3. i # 0 => i - 1 \in 0 .. k + 1 /\ i - 1 # k + 1
        BY <4>1
      <4>4. i # 0 => h[i - 1] = g[i - 1]
        BY <4>3
      <4> QED
        BY <4>1, <4>2, <4>4
    <3> QED
      BY <3>1, <3>2
  <2>2. h = [i \in 0 .. k + 1 |-> h[i]]
    OBVIOUS
  <2> HIDE DEF h
  <2>3. Runs(h, loop, k + 1, first)
    BY <2>1, <2>2 DEF Runs
  <2> QED
    BY <2>3
<1>3. Missed = {}
  <2> SUFFICES ASSUME Missed # {} PROVE FALSE
    OBVIOUS
  <2>1. PICK k \in Missed : \A m \in Missed : k <= m
    <3>1. Missed \subseteq Nat
      OBVIOUS
    <3> QED
      BY <3>1, HasLeast
  <2>2. k \in Nat /\ k # 0 /\ ~\E g : Runs(g, loop, k, first)
    BY <1>1, <2>1
  <2>3. k - 1 \in Nat /\ ~(k <= k - 1) /\ (k - 1) + 1 = k
    BY <2>2
  <2>4. \E g : Runs(g, loop, k - 1, first)
    BY <2>1, <2>3
  <2> QED
    BY <1>2, <2>2, <2>3, <2>4
<1>4. n \notin Missed
  BY <1>3
<1> QED
  BY <1>4

LEMMA BytesRounds ==
  ASSUME NEW s
  PROVE  LET n == Len(s) IN
         n \in Nat =>
           \E g : /\ g[0] = 0 /\ \A i \in 1 .. n : g[i] = g[i - 1] + Size[s[i]]
                  /\ Bytes(s) = g[n]
<1> DEFINE n == Len(s)
           Is(g) == g = [i \in 0 .. n |-> IF i = 0 THEN 0 ELSE g[i - 1] + Size[s[i]]]
           chosen == CHOOSE g : Is(g)
           loop == [of |-> "bytes", s |-> s]
<1> SUFFICES ASSUME n \in Nat
             PROVE  \E g : /\ g[0] = 0 /\ \A i \in 1 .. n : g[i] = g[i - 1] + Size[s[i]]
                           /\ Bytes(s) = g[n]
  OBVIOUS
<1>1. PICK g : Runs(g, loop, n, 0)
  BY RoundsExist
<1>2. \A i, x : Round(loop, i, x) = x + Size[s[i]]
  BY DEF Round
<1>3. Is(g)
  BY <1>1, <1>2 DEF Runs
<1>4. Bytes(s) = chosen[n]
  BY DEF Bytes, Loop
<1>5. Is(chosen)
  <2> HIDE DEF Is
  <2> QED
    BY <1>3
<1>6. 0 \in 0 .. n /\ \A i \in 1 .. n : i \in 0 .. n /\ i # 0
  OBVIOUS
<1> HIDE DEF chosen, n
<1> QED
  BY <1>4, <1>5, <1>6
(* A property of the numbers up to n that holds of 0, and of each of them  *)
(* when it holds of the one before.                                        *)
LEMMA Upward ==
  ASSUME NEW n \in Nat, NEW S, 0 \in S, \A i \in 1 .. n : i - 1 \in S => i \in S
  PROVE  \A i \in 0 .. n : i \in S
<1> DEFINE Missed == {i \in 0 .. n : i \notin S}
<1>1. Missed \subseteq Nat
  OBVIOUS
<1> SUFFICES ASSUME Missed # {} PROVE FALSE
  OBVIOUS
<1>2. PICK k \in Missed : \A m \in Missed : k <= m
  BY <1>1, HasLeast
<1>3. k \in 1 .. n /\ k - 1 \in 0 .. n /\ ~(k <= k - 1) /\ k \notin S
  BY <1>2
<1>4. k - 1 \in S
  BY <1>2, <1>3
<1> QED
  BY <1>3, <1>4

LEMMA ByteCount ==
  ASSUME NEW s \in Seq(Chars)
  PROVE  \E g : /\ g[0] = 0 /\ \A i \in 1 .. Len(s) : g[i] = g[i - 1] + Size[s[i]]
                /\ \A i \in 0 .. Len(s) : g[i] \in Nat /\ g[i] >= i
                /\ Bytes(s) = g[Len(s)]
<1>1. Len(s) \in Nat /\ \A i \in 1 .. Len(s) : Size[s[i]] \in Nat /\ Size[s[i]] >= 1
  <2>1. \A i \in 1 .. Len(s) : s[i] \in Chars
    BY ElementOfSeq
  <2>2. \A c \in Chars : Size[c] \in 1 .. ROPE_NODE_STR_SIZE
    BY RopeAssumption
  <2> QED
    BY <2>1, <2>2, RopeAssumption
<1>2. PICK g : /\ g[0] = 0 /\ \A i \in 1 .. Len(s) : g[i] = g[i - 1] + Size[s[i]]
               /\ Bytes(s) = g[Len(s)]
  BY <1>1, BytesRounds
<1> DEFINE S == {i \in 0 .. Len(s) : g[i] \in Nat /\ g[i] >= i}
<1>3. 0 \in S
  BY <1>1, <1>2
<1>4. \A i \in 1 .. Len(s) : i - 1 \in S => i \in S
  BY <1>1, <1>2
<1>5. \A i \in 0 .. Len(s) : i \in S
  <2> HIDE DEF S
  <2> QED
    BY <1>1, <1>3, <1>4, Upward
<1> QED
  BY <1>2, <1>5

LEMMA BytesIs ==
  ASSUME NEW s \in Seq(Chars)
  PROVE  Bytes(s) \in Nat /\ Bytes(s) >= Len(s)
<1>1. Len(s) \in 0 .. Len(s)
  OBVIOUS
<1> QED
  BY <1>1, ByteCount

LEMMA BytesEmpty == Bytes(<<>>) = 0
<1>1. <<>> \in Seq(Chars) /\ Len(<<>>) = 0
  BY EmptySeq
<1> QED
  BY <1>1, ByteCount

LEMMA BytesOne ==
  ASSUME NEW s \in Seq(Chars), Len(s) = 1
  PROVE  Bytes(s) <= ROPE_NODE_STR_SIZE
<1>1. PICK g : /\ g[0] = 0 /\ \A i \in 1 .. Len(s) : g[i] = g[i - 1] + Size[s[i]]
               /\ Bytes(s) = g[Len(s)]
  BY ByteCount
<1>2. s[1] \in Chars
  <2>1. 1 \in 1 .. Len(s)
    OBVIOUS
  <2> QED
    BY <2>1, ElementOfSeq
<1>3. Size[s[1]] \in 1 .. ROPE_NODE_STR_SIZE /\ ROPE_NODE_STR_SIZE \in Nat
  BY <1>2, RopeAssumption
<1>4. Bytes(s) = 0 + Size[s[1]]
  <2>1. 1 \in 1 .. Len(s) /\ 1 - 1 = 0
    OBVIOUS
  <2> QED
    BY <1>1, <2>1
<1> QED
  BY <1>3, <1>4

LEMMA BytesConcat ==
  ASSUME NEW s \in Seq(Chars), NEW u \in Seq(Chars)
  PROVE  Bytes(s \o u) = Bytes(s) + Bytes(u)
<1> DEFINE both == s \o u
<1>1. /\ both \in Seq(Chars) /\ Len(both) = Len(s) + Len(u)
      /\ \A i \in 1 .. Len(s) : both[i] = s[i]
      /\ \A i \in 1 .. Len(u) : both[Len(s) + i] = u[i]
  BY ConcatIs
<1>2. Len(s) \in Nat /\ Len(u) \in Nat
  OBVIOUS
<1> HIDE DEF both
<1>3. PICK g : /\ g[0] = 0 /\ \A i \in 1 .. Len(both) : g[i] = g[i - 1] + Size[both[i]]
               /\ \A i \in 0 .. Len(both) : g[i] \in Nat /\ g[i] >= i
               /\ Bytes(both) = g[Len(both)]
  BY <1>1, ByteCount
<1>4. PICK h : /\ h[0] = 0 /\ \A i \in 1 .. Len(s) : h[i] = h[i - 1] + Size[s[i]]
               /\ \A i \in 0 .. Len(s) : h[i] \in Nat /\ h[i] >= i
               /\ Bytes(s) = h[Len(s)]
  BY ByteCount
<1>5. PICK k : /\ k[0] = 0 /\ \A i \in 1 .. Len(u) : k[i] = k[i - 1] + Size[u[i]]
               /\ \A i \in 0 .. Len(u) : k[i] \in Nat /\ k[i] >= i
               /\ Bytes(u) = k[Len(u)]
  BY ByteCount
<1> DEFINE S == {i \in 0 .. Len(s) : g[i] = h[i]}
           U == {i \in 0 .. Len(u) : g[Len(s) + i] = Bytes(s) + k[i]}
<1>6. \A i \in 0 .. Len(s) : i \in S
  <2>1. 0 \in S
    BY <1>2, <1>3, <1>4
  <2>2. ASSUME NEW i \in 1 .. Len(s), i - 1 \in S PROVE i \in S
    <3>1. i \in 1 .. Len(both)
      BY <1>1, <1>2
    <3>2. g[i] = g[i - 1] + Size[s[i]] /\ h[i] = h[i - 1] + Size[s[i]]
      BY <1>1, <1>3, <1>4, <3>1
    <3> QED
      BY <2>2, <3>2
  <2> HIDE DEF S
  <2> QED
    BY <1>2, <2>1, <2>2, Upward
<1>7. \A i \in 0 .. Len(u) : i \in U
  <2>1. 0 \in U
    <3>1. Len(s) \in S
      BY <1>2, <1>6
    <3> QED
      BY <1>2, <1>4, <1>5, <3>1
  <2>2. ASSUME NEW i \in 1 .. Len(u), i - 1 \in U PROVE i \in U
    <3>1. Len(s) + i \in 1 .. Len(both) /\ (Len(s) + i) - 1 = Len(s) + (i - 1) /\ i - 1 \in 0 .. Len(u)
      BY <1>1, <1>2
    <3>2. g[Len(s) + i] = g[Len(s) + (i - 1)] + Size[u[i]] /\ k[i] = k[i - 1] + Size[u[i]]
      BY <1>1, <1>3, <1>5, <3>1
    <3>3. Bytes(s) \in Nat /\ k[i - 1] \in Nat /\ Size[u[i]] \in Nat
      <4>1. u[i] \in Chars
        BY ElementOfSeq
      <4>2. Size[u[i]] \in 1 .. ROPE_NODE_STR_SIZE
        BY <4>1, RopeAssumption
      <4> QED
        BY <1>5, <3>1, <4>2, BytesIs, RopeAssumption
    <3>4. g[Len(s) + (i - 1)] = Bytes(s) + k[i - 1]
      BY <2>2
    <3>5. g[Len(s) + i] = Bytes(s) + k[i]
      BY <3>2, <3>3, <3>4
    <3> QED
      BY <3>5
  <2> HIDE DEF U
  <2> QED
    BY <1>2, <2>1, <2>2, Upward
<1>8. Len(u) \in U
  BY <1>2, <1>7
<1> QED
  BY <1>1, <1>2, <1>3, <1>5, <1>8 DEF both
-----------------------------------------------------------------------------
(* A rope as a row of nodes over its text: node x holds the characters     *)
(* from start[x] + 1 to end[x], and is on the lists of levels 1 to tall[x].*)
(* Only the head may be empty, so the ends put the nodes in order.         *)

Row(g, r, total) ==
  /\ r \in g.nodes
  /\ g.start \in [g.nodes -> Nat] /\ g.end \in [g.nodes -> Nat] /\ g.tall \in [g.nodes -> Nat]
  /\ g.start[r] = 0
  /\ \A x \in g.nodes : g.start[x] <= g.end[x] /\ g.end[x] <= total /\ g.tall[x] >= 1
  /\ \A x \in g.nodes \ {r} : g.start[x] < g.end[x] /\ g.tall[x] < g.tall[r]
  /\ \A x, y \in g.nodes : x # y => g.end[x] <= g.start[y] \/ g.end[y] <= g.start[x]
  /\ \A x \in g.nodes : g.end[x] = total \/ \E y \in g.nodes \ {r} : g.start[y] = g.end[x]

(* On level i the next node behind x is y; there is none; the last one up  *)
(* to b is x.                                                              *)
NextAt(g, x, i, y) ==
  /\ y \in g.nodes /\ g.tall[y] >= i /\ g.end[x] < g.end[y]
  /\ \A z \in g.nodes : g.tall[z] >= i /\ g.end[x] < g.end[z] => g.end[y] <= g.end[z]
NoneAt(g, x, i) == \A z \in g.nodes : g.tall[z] >= i => g.end[z] <= g.end[x]
LastAt(g, b, i, x) ==
  /\ x \in g.nodes /\ g.tall[x] >= i /\ g.end[x] <= g.end[b]
  /\ \A z \in g.nodes : g.tall[z] >= i /\ g.end[z] <= g.end[b] => g.end[z] <= g.end[x]

(* The links of the nodes nd are those of the row.                         *)
LinkFor(g, total, x, i, link) ==
  \/ \E y \in g.nodes : NextAt(g, x, i, y) /\ link = Link(y, g.start[y] - g.start[x])
  \/ NoneAt(g, x, i) /\ link = Link(NULL, total - g.start[x])
Linked(nd, g, total) ==
  \A x \in g.nodes : \A i \in 1 .. g.tall[x] : LinkFor(g, total, x, i, nd[x].nexts[i])

LEMMA RowOrder ==
  ASSUME NEW g, NEW r, NEW total \in Nat, Row(g, r, total)
  PROVE  /\ \A x \in g.nodes : g.start[x] \in Nat /\ g.end[x] \in Nat /\ g.tall[x] \in Nat
         /\ \A x, y \in g.nodes : x # y => g.end[x] # g.end[y]
         /\ \A x, y \in g.nodes : g.end[x] < g.end[y] =>
              g.end[x] <= g.start[y] /\ g.start[x] <= g.start[y]
         /\ \A x \in g.nodes \ {r} : g.end[r] < g.end[x] /\ g.end[r] <= g.start[x]
<1>1. \A x \in g.nodes : g.start[x] \in Nat /\ g.end[x] \in Nat /\ g.tall[x] \in Nat
  BY DEF Row
<1>2. \A x, y \in g.nodes : x # y => g.end[x] # g.end[y]
  BY <1>1 DEF Row
<1>3. \A x, y \in g.nodes : g.end[x] < g.end[y] =>
        g.end[x] <= g.start[y] /\ g.start[x] <= g.start[y]
  BY <1>1 DEF Row
<1>4. \A x \in g.nodes \ {r} : g.end[r] < g.end[x] /\ g.end[r] <= g.start[x]
  BY <1>1 DEF Row
<1> QED
  BY <1>1, <1>2, <1>3, <1>4

(* A link spans the end of b if and only if it is that of the last node up *)
(* to b.                                                                   *)
LEMMA Spans ==
  ASSUME NEW g, NEW r, NEW total \in Nat, Row(g, r, total),
         NEW b \in g.nodes, NEW x \in g.nodes, NEW i \in 1 .. g.tall[x]
  PROVE  /\ \A y \in g.nodes : NextAt(g, x, i, y) =>
              (LastAt(g, b, i, x) <=> g.end[x] <= g.end[b] /\ g.end[b] < g.end[y])
         /\ NoneAt(g, x, i) => (LastAt(g, b, i, x) <=> g.end[x] <= g.end[b])
<1>1. \A z \in g.nodes : g.start[z] \in Nat /\ g.end[z] \in Nat /\ g.tall[z] \in Nat
  BY RowOrder
<1>2. i \in Nat /\ i <= g.tall[x]
  BY <1>1
<1>3. ASSUME NEW y \in g.nodes, NextAt(g, x, i, y)
      PROVE  LastAt(g, b, i, x) <=> g.end[x] <= g.end[b] /\ g.end[b] < g.end[y]
  BY <1>1, <1>2, <1>3 DEF NextAt, LastAt
<1>4. NoneAt(g, x, i) => (LastAt(g, b, i, x) <=> g.end[x] <= g.end[b])
  BY <1>1, <1>2 DEF NoneAt, LastAt
<1> QED
  BY <1>3, <1>4

(* One node gets d characters longer, and those behind it move.            *)
Resized(g, e, d) ==
  [nodes |-> g.nodes,
   start |-> [x \in g.nodes |-> IF g.end[x] > g.end[e] THEN g.start[x] + d ELSE g.start[x]],
   end   |-> [x \in g.nodes |-> IF g.end[x] >= g.end[e] THEN g.end[x] + d ELSE g.end[x]],
   tall  |-> g.tall]

LEMMA ResizedIs ==
  ASSUME NEW g, NEW r, NEW total \in Nat, Row(g, r, total), NEW e \in g.nodes, NEW d \in Int
  PROVE  LET h == Resized(g, e, d)
         IN  /\ h.nodes = g.nodes /\ h.tall = g.tall
             /\ \A x \in g.nodes : g.end[x] > g.end[e] =>
                  h.start[x] = g.start[x] + d /\ h.end[x] = g.end[x] + d
             /\ h.start[e] = g.start[e] /\ h.end[e] = g.end[e] + d
             /\ \A x \in g.nodes : g.end[x] < g.end[e] =>
                  h.start[x] = g.start[x] /\ h.end[x] = g.end[x]
<1>1. \A x \in g.nodes : g.end[x] \in Nat /\ g.start[x] \in Nat
  BY RowOrder
<1>2. \A x \in g.nodes :
        /\ Resized(g, e, d).start[x] = IF g.end[x] > g.end[e] THEN g.start[x] + d ELSE g.start[x]
        /\ Resized(g, e, d).end[x] = IF g.end[x] >= g.end[e] THEN g.end[x] + d ELSE g.end[x]
  BY DEF Resized
<1>3. Resized(g, e, d).nodes = g.nodes /\ Resized(g, e, d).tall = g.tall
  BY DEF Resized
<1>4. \A x \in g.nodes : g.end[x] > g.end[e] => ~(g.end[x] < g.end[e]) /\ g.end[x] >= g.end[e]
  BY <1>1
<1>5. \A x \in g.nodes : g.end[x] < g.end[e] => ~(g.end[x] > g.end[e]) /\ ~(g.end[x] >= g.end[e])
  BY <1>1
<1>6. ~(g.end[e] > g.end[e]) /\ g.end[e] >= g.end[e]
  BY <1>1
<1> QED
  BY <1>2, <1>3, <1>4, <1>5, <1>6, Zenon

LEMMA ResizedRow ==
  ASSUME NEW g, NEW r, NEW total \in Nat, Row(g, r, total), NEW e \in g.nodes, NEW d \in Int,
         g.start[e] <= g.end[e] + d, e # r => g.start[e] < g.end[e] + d
  PROVE  Row(Resized(g, e, d), r, total + d) /\ total + d \in Nat
<1> DEFINE h == Resized(g, e, d)
<1>1. /\ h.nodes = g.nodes /\ h.tall = g.tall
      /\ \A x \in g.nodes : g.end[x] > g.end[e] =>
           h.start[x] = g.start[x] + d /\ h.end[x] = g.end[x] + d
      /\ h.start[e] = g.start[e] /\ h.end[e] = g.end[e] + d
      /\ \A x \in g.nodes : g.end[x] < g.end[e] =>
           h.start[x] = g.start[x] /\ h.end[x] = g.end[x]
  BY ResizedIs
<1>0. h.start = [x \in g.nodes |-> h.start[x]] /\ h.end = [x \in g.nodes |-> h.end[x]]
  BY DEF Resized
<1> HIDE DEF h
<1>2. /\ \A x \in g.nodes : g.start[x] \in Nat /\ g.end[x] \in Nat /\ g.tall[x] \in Nat
      /\ \A x, y \in g.nodes : x # y => g.end[x] # g.end[y]
      /\ \A x, y \in g.nodes : g.end[x] < g.end[y] =>
           g.end[x] <= g.start[y] /\ g.start[x] <= g.start[y]
      /\ \A x \in g.nodes \ {r} : g.end[r] < g.end[x] /\ g.end[r] <= g.start[x]
  BY RowOrder
<1>3. /\ \A x \in g.nodes : g.start[x] <= g.end[x] /\ g.end[x] <= total /\ g.tall[x] >= 1
      /\ g.start[r] = 0 /\ r \in g.nodes
  BY DEF Row
<1>4. \A x \in g.nodes : h.start[x] \in Nat /\ h.end[x] \in Nat
  <2>1. \A x \in g.nodes : g.end[x] > g.end[e] => g.end[e] <= g.start[x]
    BY <1>2
  <2>2. \A x \in g.nodes : g.end[x] > g.end[e] => g.start[x] + d \in Nat /\ g.end[x] + d \in Nat
    BY <1>2, <1>3, <2>1
  <2>3. g.end[e] + d \in Nat
    BY <1>2
  <2>4. \A x \in g.nodes : g.end[x] >= g.end[e] => g.end[x] > g.end[e] \/ x = e
    BY <1>2
  <2> QED
    BY <1>1, <1>2, <2>2, <2>3, <2>4
<1>5. r \in h.nodes /\ h.start[r] = 0
  <2>1. r = e \/ g.end[r] < g.end[e]
    BY <1>2
  <2> QED
    BY <1>1, <1>3, <2>1
<1>6. /\ h.start \in [h.nodes -> Nat] /\ h.end \in [h.nodes -> Nat]
      /\ h.tall \in [h.nodes -> Nat]
  BY <1>0, <1>1, <1>4 DEF Row
<1>7. \A x \in h.nodes : h.start[x] <= h.end[x] /\ h.end[x] <= total + d /\ h.tall[x] >= 1
  <2> TAKE x \in h.nodes
  <2>1. CASE g.end[x] > g.end[e]
    BY <1>1, <1>2, <1>3, <2>1
  <2>2. CASE x = e
    BY <1>1, <1>2, <1>3, <2>2
  <2>3. CASE g.end[x] < g.end[e]
    <3>1. g.end[x] <= g.start[e]
      BY <1>1, <1>2, <2>3
    <3> QED
      BY <1>1, <1>2, <1>3, <2>3, <3>1
  <2> QED
    BY <1>1, <1>2, <2>1, <2>2, <2>3
<1>8. \A x \in h.nodes \ {r} : h.start[x] < h.end[x] /\ h.tall[x] < h.tall[r]
  <2> TAKE x \in h.nodes \ {r}
  <2>1. g.start[x] < g.end[x] /\ g.tall[x] < g.tall[r]
    BY <1>1 DEF Row
  <2>2. CASE x = e
    BY <1>1, <1>2, <2>1, <2>2
  <2>3. CASE x # e
    BY <1>1, <1>2, <2>1, <2>3
  <2> QED
    BY <2>2, <2>3
<1>9. \A x, y \in h.nodes : x # y => h.end[x] <= h.start[y] \/ h.end[y] <= h.start[x]
  <2>1. ASSUME NEW x \in g.nodes, NEW y \in g.nodes, g.end[x] < g.end[y]
        PROVE  h.end[x] <= h.start[y]
    <3>1. g.end[x] <= g.start[y]
      BY <1>2, <2>1
    <3>2. CASE g.end[x] >= g.end[e]
      <4>1. x = e \/ g.end[x] > g.end[e]
        BY <1>2, <3>2
      <4>2. h.end[x] = g.end[x] + d
        BY <1>1, <4>1
      <4>3. g.end[y] > g.end[e]
        BY <1>2, <2>1, <3>2
      <4>4. h.start[y] = g.start[y] + d
        BY <1>1, <4>3
      <4> QED
        BY <1>2, <3>1, <4>2, <4>4
    <3>3. CASE g.end[x] < g.end[e] /\ g.end[y] > g.end[e]
      <4>1. g.end[x] <= g.start[e] /\ g.end[e] <= g.start[y]
        BY <1>2, <3>3
      <4>2. h.end[x] = g.end[x] /\ h.start[y] = g.start[y] + d
        BY <1>1, <3>3
      <4> QED
        BY <1>2, <1>3, <4>1, <4>2
    <3>4. CASE g.end[y] <= g.end[e]
      <4>1. y = e \/ g.end[y] < g.end[e]
        BY <1>2, <3>4
      <4>2. h.start[y] = g.start[y]
        BY <1>1, <4>1
      <4>3. h.end[x] = g.end[x]
        BY <1>2, <1>1, <2>1, <3>4
      <4> QED
        BY <3>1, <4>2, <4>3
    <3> QED
      BY <1>2, <2>1, <3>2, <3>3, <3>4
  <2>2. \A x, y \in g.nodes : x # y => g.end[x] < g.end[y] \/ g.end[y] < g.end[x]
    BY <1>2
  <2> QED
    BY <1>1, <2>1, <2>2
<1>10. \A x \in h.nodes : h.end[x] = total + d \/ \E y \in h.nodes \ {r} : h.start[y] = h.end[x]
  <2> TAKE x \in h.nodes
  <2>1. CASE g.end[x] = total
    <3>1. x = e \/ g.end[x] > g.end[e]
      BY <1>1, <1>2, <1>3, <2>1
    <3>2. h.end[x] = g.end[x] + d
      BY <1>1, <3>1
    <3> QED
      BY <1>1, <2>1, <3>1
  <2>2. CASE \E y \in g.nodes \ {r} : g.start[y] = g.end[x]
    <3>1. PICK y \in g.nodes \ {r} : g.start[y] = g.end[x]
      BY <2>2
    <3>2. g.start[y] < g.end[y]
      BY DEF Row
    <3>3. CASE g.end[x] < g.end[e]
      <4>1. ~(g.end[y] > g.end[e])
        BY <1>1, <1>2, <1>3, <3>1, <3>3
      <4>2. y = e \/ g.end[y] < g.end[e]
        BY <1>1, <1>2, <4>1
      <4>3. h.start[y] = g.start[y] /\ h.end[x] = g.end[x]
        BY <1>1, <3>3, <4>2
      <4> QED
        BY <1>1, <3>1, <4>3
    <3>4. CASE ~(g.end[x] < g.end[e])
      <4>1. g.end[y] > g.end[e] /\ (x = e \/ g.end[x] > g.end[e])
        BY <1>1, <1>2, <1>3, <3>1, <3>2, <3>4
      <4>2. h.start[y] = g.start[y] + d /\ h.end[x] = g.end[x] + d
        BY <1>1, <4>1
      <4> QED
        BY <1>1, <3>1, <4>2
    <3> QED
      BY <3>3, <3>4
  <2> QED
    BY <1>1, <2>1, <2>2 DEF Row
<1>11. total + d \in Nat
  BY <1>1, <1>4, <1>5, <1>7
<1> HIDE DEF h
<1>12. Row(h, r, total + d)
  BY <1>5, <1>6, <1>7, <1>8, <1>9, <1>10 DEF Row
<1> QED
  BY <1>11, <1>12 DEF h
LEMMA ResizedOrder ==
  ASSUME NEW g, NEW r, NEW total \in Nat, Row(g, r, total), NEW e \in g.nodes, NEW d \in Int,
         e # r => g.start[e] < g.end[e] + d
  PROVE  \A x, y \in g.nodes : Resized(g, e, d).end[x] < Resized(g, e, d).end[y]
                                 <=> g.end[x] < g.end[y]
<1> DEFINE h == Resized(g, e, d)
<1>1. /\ h.nodes = g.nodes /\ h.tall = g.tall
      /\ \A x \in g.nodes : g.end[x] > g.end[e] =>
           h.start[x] = g.start[x] + d /\ h.end[x] = g.end[x] + d
      /\ h.start[e] = g.start[e] /\ h.end[e] = g.end[e] + d
      /\ \A x \in g.nodes : g.end[x] < g.end[e] =>
           h.start[x] = g.start[x] /\ h.end[x] = g.end[x]
  BY ResizedIs
<1> HIDE DEF h
<1>2. /\ \A x \in g.nodes : g.start[x] \in Nat /\ g.end[x] \in Nat /\ g.tall[x] \in Nat
      /\ \A x, y \in g.nodes : x # y => g.end[x] # g.end[y]
      /\ \A x, y \in g.nodes : g.end[x] < g.end[y] =>
           g.end[x] <= g.start[y] /\ g.start[x] <= g.start[y]
  BY RowOrder
<1>4. ASSUME NEW x \in g.nodes, NEW y \in g.nodes, g.end[x] < g.end[y]
      PROVE  h.end[x] < h.end[y]
  <2>1. CASE g.end[x] >= g.end[e]
    <3>1. x = e \/ g.end[x] > g.end[e]
      BY <1>2, <2>1
    <3>2. g.end[y] > g.end[e]
      BY <1>2, <1>4, <2>1
    <3>3. h.end[x] = g.end[x] + d /\ h.end[y] = g.end[y] + d
      BY <1>1, <3>1, <3>2
    <3> QED
      BY <1>2, <1>4, <3>3
  <2>2. CASE g.end[y] < g.end[e]
    <3>1. g.end[x] < g.end[e]
      BY <1>2, <1>4, <2>2
    <3> QED
      BY <1>1, <1>4, <2>2, <3>1
  <2>3. CASE g.end[x] < g.end[e] /\ g.end[y] >= g.end[e]
    <3>1. y = e \/ g.end[y] > g.end[e]
      BY <1>2, <2>3
    <3>2. h.end[x] = g.end[x] /\ h.end[y] = g.end[y] + d
      BY <1>1, <2>3, <3>1
    <3>3. g.end[x] <= g.start[e] /\ e # r
      BY <1>2, <2>3, RowOrder
    <3>4. g.end[x] < g.end[e] + d
      BY <1>2, <3>3
    <3> QED
      BY <1>2, <2>3, <3>2, <3>4
  <2> QED
    BY <1>2, <2>1, <2>2, <2>3
<1>5. \A x, y \in g.nodes : x = y \/ g.end[x] < g.end[y] \/ g.end[y] < g.end[x]
  BY <1>2
<1>6. \A x \in g.nodes : h.end[x] \in Int
  <2>1. \A x \in g.nodes : x = e \/ g.end[x] < g.end[e] \/ g.end[x] > g.end[e]
    BY <1>2
  <2> QED
    BY <1>1, <1>2, <2>1
<1> QED
  BY <1>2, <1>4, <1>5, <1>6 DEF h

LEMMA ResizedLinks ==
  ASSUME NEW g, NEW r, NEW total \in Nat, Row(g, r, total), NEW e \in g.nodes, NEW d \in Int,
         e # r => g.start[e] < g.end[e] + d,
         NEW nd, NEW new, Linked(nd, g, total),
         \A x \in g.nodes : \A i \in 1 .. g.tall[x] :
           new[x].nexts[i] = IF LastAt(g, e, i, x) THEN Longer(nd[x].nexts[i], d)
                                                   ELSE nd[x].nexts[i]
  PROVE  Linked(new, Resized(g, e, d), total + d)
<1> DEFINE h == Resized(g, e, d)
<1>1. /\ h.nodes = g.nodes /\ h.tall = g.tall
      /\ \A x \in g.nodes : g.end[x] > g.end[e] =>
           h.start[x] = g.start[x] + d /\ h.end[x] = g.end[x] + d
      /\ h.start[e] = g.start[e] /\ h.end[e] = g.end[e] + d
      /\ \A x \in g.nodes : g.end[x] < g.end[e] =>
           h.start[x] = g.start[x] /\ h.end[x] = g.end[x]
  BY ResizedIs
<1>2. \A x, y \in g.nodes : h.end[x] < h.end[y] <=> g.end[x] < g.end[y]
  BY ResizedOrder
<1>3. /\ \A x \in g.nodes : g.start[x] \in Nat /\ g.end[x] \in Nat /\ g.tall[x] \in Nat
      /\ \A x, y \in g.nodes : x # y => g.end[x] # g.end[y]
  BY RowOrder
<1> HIDE DEF h
<1>4. \A x \in g.nodes : h.end[x] \in Int
  <2>1. \A x \in g.nodes : x = e \/ g.end[x] < g.end[e] \/ g.end[x] > g.end[e]
    BY <1>3
  <2> QED
    BY <1>1, <1>3, <2>1
<1>5. \A x, y \in g.nodes : h.end[x] <= h.end[y] <=> g.end[x] <= g.end[y]
  BY <1>2, <1>3, <1>4
<1>6. ASSUME NEW x \in g.nodes, NEW i \in 1 .. g.tall[x]
      PROVE  LinkFor(h, total + d, x, i, new[x].nexts[i])
  <2>1. LinkFor(g, total, x, i, nd[x].nexts[i])
    BY DEF Linked
  <2>2. CASE \E y \in g.nodes : NextAt(g, x, i, y) /\ nd[x].nexts[i] = Link(y, g.start[y] - g.start[x])
    <3>1. PICK y \in g.nodes : NextAt(g, x, i, y) /\ nd[x].nexts[i] = Link(y, g.start[y] - g.start[x])
      BY <2>2
    <3>2. NextAt(h, x, i, y)
      BY <1>1, <1>2, <1>5, <3>1 DEF NextAt
    <3>3. LastAt(g, e, i, x) <=> g.end[x] <= g.end[e] /\ g.end[e] < g.end[y]
      BY <3>1, Spans
    <3>4. g.end[x] < g.end[y]
      BY <3>1 DEF NextAt
    <3>5. CASE LastAt(g, e, i, x)
      <4>1. x = e \/ g.end[x] < g.end[e]
        BY <1>3, <3>3, <3>5
      <4>2. h.start[x] = g.start[x] /\ h.start[y] = g.start[y] + d
        BY <1>1, <3>3, <3>5, <4>1
      <4>3. new[x].nexts[i] = Link(y, (g.start[y] - g.start[x]) + d)
        BY <3>1, <3>5 DEF Longer, Link
      <4>4. (g.start[y] - g.start[x]) + d = h.start[y] - h.start[x]
        BY <1>3, <4>2
      <4> QED
        BY <1>1, <3>2, <4>3, <4>4 DEF LinkFor
    <3>6. CASE ~LastAt(g, e, i, x)
      <4>1. g.end[x] > g.end[e] \/ g.end[y] <= g.end[e]
        BY <1>3, <3>3, <3>6
      <4>2. h.start[y] - h.start[x] = g.start[y] - g.start[x]
        <5>1. CASE g.end[x] > g.end[e]
          <6>1. g.end[y] > g.end[e]
            BY <1>3, <3>4, <5>1
          <6>2. h.start[y] = g.start[y] + d /\ h.start[x] = g.start[x] + d
            BY <1>1, <5>1, <6>1
          <6> QED
            BY <1>3, <6>2
        <5>2. CASE g.end[y] <= g.end[e]
          <6>1. g.end[x] < g.end[e] /\ (y = e \/ g.end[y] < g.end[e])
            BY <1>3, <3>4, <5>2
          <6> QED
            BY <1>1, <6>1
        <5> QED
          BY <4>1, <5>1, <5>2
      <4> QED
        BY <1>1, <3>1, <3>2, <3>6, <4>2 DEF LinkFor
    <3> QED
      BY <3>5, <3>6
  <2>3. CASE NoneAt(g, x, i) /\ nd[x].nexts[i] = Link(NULL, total - g.start[x])
    <3>1. NoneAt(h, x, i)
      BY <1>1, <1>5, <2>3 DEF NoneAt
    <3>2. LastAt(g, e, i, x) <=> g.end[x] <= g.end[e]
      BY <2>3, Spans
    <3>3. CASE LastAt(g, e, i, x)
      <4>1. x = e \/ g.end[x] < g.end[e]
        BY <1>3, <3>2, <3>3
      <4>2. h.start[x] = g.start[x]
        BY <1>1, <4>1
      <4>3. new[x].nexts[i] = Link(NULL, (total - g.start[x]) + d)
        BY <2>3, <3>3 DEF Longer, Link
      <4>4. (total - g.start[x]) + d = (total + d) - h.start[x]
        BY <1>3, <4>2
      <4> QED
        BY <3>1, <4>3, <4>4 DEF LinkFor
    <3>4. CASE ~LastAt(g, e, i, x)
      <4>1. g.end[x] > g.end[e]
        BY <1>3, <3>2, <3>4
      <4>2. h.start[x] = g.start[x] + d
        BY <1>1, <4>1
      <4>3. total - g.start[x] = (total + d) - h.start[x]
        BY <1>3, <4>2
      <4> QED
        BY <2>3, <3>1, <3>4, <4>3 DEF LinkFor
    <3> QED
      BY <3>3, <3>4
  <2> QED
    BY <2>1, <2>2, <2>3 DEF LinkFor
<1> QED
  BY <1>1, <1>6 DEF Linked, h
(* The head gets onto higher levels, alone.                                *)
Taller(g, r, k) ==
  [nodes |-> g.nodes, start |-> g.start, end |-> g.end, tall |-> [g.tall EXCEPT ![r] = k]]

LEMMA TallerRow ==
  ASSUME NEW g, NEW r, NEW total \in Nat, Row(g, r, total), NEW k \in Nat, g.tall[r] <= k
  PROVE  Row(Taller(g, r, k), r, total)
<1> DEFINE h == Taller(g, r, k)
<1>1. /\ h.nodes = g.nodes /\ h.start = g.start /\ h.end = g.end
      /\ h.tall = [g.tall EXCEPT ![r] = k]
  BY DEF Taller
<1> HIDE DEF h
<1>2. r \in g.nodes /\ g.tall \in [g.nodes -> Nat]
  BY DEF Row
<1>3. /\ h.tall \in [g.nodes -> Nat] /\ h.tall[r] = k
      /\ \A x \in g.nodes \ {r} : h.tall[x] = g.tall[x]
  BY <1>1, <1>2
<1>4. \A x \in g.nodes : h.tall[x] >= 1 /\ (x # r => h.tall[x] < h.tall[r])
  <2> TAKE x \in g.nodes
  <2>1. g.tall[x] >= 1 /\ g.tall[r] >= 1 /\ (x # r => g.tall[x] < g.tall[r])
    BY <1>2 DEF Row
  <2> QED
    BY <1>2, <1>3, <2>1
<1>5. Row(h, r, total)
  BY <1>1, <1>3, <1>4 DEF Row
<1> QED
  BY <1>5 DEF h

LEMMA TallerLinks ==
  ASSUME NEW g, NEW r, NEW total \in Nat, Row(g, r, total), NEW k \in Nat, g.tall[r] <= k,
         NEW nd, NEW new, Linked(nd, g, total),
         \A x \in g.nodes : \A i \in 1 .. g.tall[x] : new[x].nexts[i] = nd[x].nexts[i],
         \A i \in g.tall[r] + 1 .. k : new[r].nexts[i] = nd[r].nexts[g.tall[r]]
  PROVE  Linked(new, Taller(g, r, k), total)
<1> DEFINE h == Taller(g, r, k)
<1>1. /\ h.nodes = g.nodes /\ h.start = g.start /\ h.end = g.end
      /\ h.tall = [g.tall EXCEPT ![r] = k]
  BY DEF Taller
<1> HIDE DEF h
<1>2. /\ r \in g.nodes /\ g.tall \in [g.nodes -> Nat] /\ g.tall[r] >= 1
      /\ \A x \in g.nodes \ {r} : g.tall[x] < g.tall[r]
  BY DEF Row
<1>3. h.tall[r] = k /\ \A x \in g.nodes \ {r} : h.tall[x] = g.tall[x]
  BY <1>1, <1>2
<1>4. \A x \in g.nodes : g.end[x] \in Nat /\ g.end[r] <= g.end[x]
  BY <1>2, RowOrder
<1>5. ASSUME NEW x \in g.nodes, NEW i \in 1 .. g.tall[x]
      PROVE  LinkFor(h, total, x, i, new[x].nexts[i])
  <2>1. LinkFor(g, total, x, i, nd[x].nexts[i]) /\ new[x].nexts[i] = nd[x].nexts[i]
    BY DEF Linked
  <2>2. \A z \in g.nodes : h.tall[z] >= i <=> g.tall[z] >= i
    <3>1. i <= g.tall[r] /\ i \in Nat
      BY <1>2
    <3> QED
      BY <1>2, <1>3, <3>1
  <2>3. \A y \in g.nodes : NextAt(g, x, i, y) => NextAt(h, x, i, y)
    BY <1>1, <2>2 DEF NextAt
  <2>4. NoneAt(g, x, i) => NoneAt(h, x, i)
    BY <1>1, <2>2 DEF NoneAt
  <2> QED
    BY <1>1, <2>1, <2>3, <2>4 DEF LinkFor
<1>6. ASSUME NEW i \in g.tall[r] + 1 .. k
      PROVE  LinkFor(h, total, r, i, new[r].nexts[i])
  <2>1. LinkFor(g, total, r, g.tall[r], nd[r].nexts[g.tall[r]])
    BY <1>2 DEF Linked
  <2>2. ~\E y : NextAt(g, r, g.tall[r], y)
    BY <1>2, <1>4 DEF NextAt
  <2>3. new[r].nexts[i] = Link(NULL, total - g.start[r])
    BY <2>1, <2>2 DEF LinkFor
  <2>4. \A z \in g.nodes : h.tall[z] >= i => z = r
    BY <1>2, <1>3
  <2>5. NoneAt(h, r, i)
    BY <1>1, <1>2, <1>4, <2>4 DEF NoneAt
  <2> QED
    BY <1>1, <2>3, <2>5 DEF LinkFor
<1>7. \A x \in h.nodes : \A i \in 1 .. h.tall[x] : i \in 1 .. g.tall[x] \/ (x = r /\ i \in g.tall[r] + 1 .. k)
  BY <1>1, <1>2, <1>3
<1>8. Linked(new, h, total)
  BY <1>1, <1>5, <1>6, <1>7 DEF Linked
<1> QED
  BY <1>8 DEF h

(* The last node up to b on a level: the head on those it is alone on.     *)
LEMMA TallerLast ==
  ASSUME NEW g, NEW r, NEW total \in Nat, Row(g, r, total), NEW k \in Nat, g.tall[r] <= k,
         NEW b \in g.nodes, NEW i \in Nat, NEW x
  PROVE  /\ i <= g.tall[r] => (LastAt(Taller(g, r, k), b, i, x) <=> LastAt(g, b, i, x))
         /\ g.tall[r] <= i /\ i <= k => (LastAt(Taller(g, r, k), b, i, x) <=> x = r)
<1> DEFINE h == Taller(g, r, k)
<1>1. /\ h.nodes = g.nodes /\ h.start = g.start /\ h.end = g.end
      /\ h.tall = [g.tall EXCEPT ![r] = k]
  BY DEF Taller
<1> HIDE DEF h
<1>2. /\ r \in g.nodes /\ g.tall \in [g.nodes -> Nat]
      /\ \A z \in g.nodes \ {r} : g.tall[z] < g.tall[r]
  BY DEF Row
<1>3. h.tall[r] = k /\ \A z \in g.nodes \ {r} : h.tall[z] = g.tall[z]
  BY <1>1, <1>2
<1>4. \A z \in g.nodes : g.end[z] \in Nat /\ g.end[r] <= g.end[z]
  BY <1>2, RowOrder
<1>5. ASSUME i <= g.tall[r] PROVE LastAt(h, b, i, x) <=> LastAt(g, b, i, x)
  <2>1. \A z \in g.nodes : h.tall[z] >= i <=> g.tall[z] >= i
    BY <1>2, <1>3, <1>5
  <2> QED
    BY <1>1, <2>1 DEF LastAt
<1>6. ASSUME g.tall[r] <= i, i <= k PROVE LastAt(h, b, i, x) <=> x = r
  <2>1. \A z \in g.nodes : h.tall[z] >= i <=> z = r
    BY <1>2, <1>3, <1>6
  <2> QED
    BY <1>1, <1>2, <1>4, <2>1 DEF LastAt
<1> QED
  BY <1>5, <1>6 DEF h
(* A new node of n characters and height k behind node b.                  *)
Inserted(g, b, new, k, n) ==
  [nodes |-> g.nodes \cup {new},
   start |-> [x \in g.nodes \cup {new} |->
                IF x = new THEN g.end[b]
                ELSE IF g.end[x] > g.end[b] THEN g.start[x] + n ELSE g.start[x]],
   end   |-> [x \in g.nodes \cup {new} |->
                IF x = new THEN g.end[b] + n
                ELSE IF g.end[x] > g.end[b] THEN g.end[x] + n ELSE g.end[x]],
   tall  |-> [x \in g.nodes \cup {new} |-> IF x = new THEN k ELSE g.tall[x]]]

LEMMA InsertedIs ==
  ASSUME NEW g, NEW r, NEW total \in Nat, Row(g, r, total), NEW b \in g.nodes,
         NEW new, new \notin g.nodes, NEW k \in Nat, NEW n \in Nat
  PROVE  LET h == Inserted(g, b, new, k, n)
         IN  /\ h.nodes = g.nodes \cup {new}
             /\ h.start[new] = g.end[b] /\ h.end[new] = g.end[b] + n /\ h.tall[new] = k
             /\ \A x \in g.nodes : h.tall[x] = g.tall[x]
             /\ \A x \in g.nodes : g.end[x] > g.end[b] =>
                  h.start[x] = g.start[x] + n /\ h.end[x] = g.end[x] + n
             /\ \A x \in g.nodes : g.end[x] <= g.end[b] =>
                  h.start[x] = g.start[x] /\ h.end[x] = g.end[x]
<1>1. \A x \in g.nodes : g.end[x] \in Nat /\ g.start[x] \in Nat
  BY RowOrder
<1>2. \A x \in g.nodes : g.end[x] <= g.end[b] => ~(g.end[x] > g.end[b])
  BY <1>1
<1>3. \A x \in g.nodes : x # new
  OBVIOUS
<1>4. /\ Inserted(g, b, new, k, n).nodes = g.nodes \cup {new}
      /\ Inserted(g, b, new, k, n).start[new] = g.end[b]
      /\ Inserted(g, b, new, k, n).end[new] = g.end[b] + n
      /\ Inserted(g, b, new, k, n).tall[new] = k
      /\ \A x \in g.nodes : x # new =>
           /\ Inserted(g, b, new, k, n).tall[x] = g.tall[x]
           /\ Inserted(g, b, new, k, n).start[x] =
                IF g.end[x] > g.end[b] THEN g.start[x] + n ELSE g.start[x]
           /\ Inserted(g, b, new, k, n).end[x] =
                IF g.end[x] > g.end[b] THEN g.end[x] + n ELSE g.end[x]
  BY DEF Inserted
<1> QED
  BY <1>2, <1>3, <1>4, Zenon

(* The order of the nodes is the old one, with the new node behind b.      *)
LEMMA InsertedOrder ==
  ASSUME NEW g, NEW r, NEW total \in Nat, Row(g, r, total), NEW b \in g.nodes,
         NEW new, new \notin g.nodes, NEW k \in Nat, NEW n \in Nat \ {0}
  PROVE  LET h == Inserted(g, b, new, k, n)
         IN  /\ \A x \in h.nodes : h.start[x] \in Nat /\ h.end[x] \in Nat
             /\ \A x, y \in g.nodes : h.end[x] < h.end[y] <=> g.end[x] < g.end[y]
             /\ \A x \in g.nodes : h.end[x] < h.end[new] <=> g.end[x] <= g.end[b]
             /\ \A x \in g.nodes : h.end[new] < h.end[x] <=> g.end[b] < g.end[x]
<1> DEFINE h == Inserted(g, b, new, k, n)
<1>1. /\ h.nodes = g.nodes \cup {new}
      /\ h.start[new] = g.end[b] /\ h.end[new] = g.end[b] + n
      /\ \A x \in g.nodes : g.end[x] > g.end[b] =>
           h.start[x] = g.start[x] + n /\ h.end[x] = g.end[x] + n
      /\ \A x \in g.nodes : g.end[x] <= g.end[b] =>
           h.start[x] = g.start[x] /\ h.end[x] = g.end[x]
  BY InsertedIs
<1> HIDE DEF h
<1>2. \A x \in g.nodes : g.start[x] \in Nat /\ g.end[x] \in Nat
  BY RowOrder
<1>3. \A x \in g.nodes : g.end[x] > g.end[b] \/ g.end[x] <= g.end[b]
  BY <1>2
<1>4. \A x \in g.nodes : h.start[x] \in Nat /\ h.end[x] \in Nat
  BY <1>1, <1>2, <1>3
<1>5. h.start[new] \in Nat /\ h.end[new] \in Nat
  BY <1>1, <1>2
<1>6. \A x \in g.nodes : h.end[x] < h.end[new] <=> g.end[x] <= g.end[b]
  <2> TAKE x \in g.nodes
  <2>1. CASE g.end[x] > g.end[b]
    BY <1>1, <1>2, <2>1
  <2>2. CASE g.end[x] <= g.end[b]
    BY <1>1, <1>2, <2>2
  <2> QED
    BY <1>3, <2>1, <2>2
<1>7. \A x \in g.nodes : h.end[new] < h.end[x] <=> g.end[b] < g.end[x]
  <2> TAKE x \in g.nodes
  <2>1. CASE g.end[x] > g.end[b]
    BY <1>1, <1>2, <2>1
  <2>2. CASE g.end[x] <= g.end[b]
    BY <1>1, <1>2, <2>2
  <2> QED
    BY <1>3, <2>1, <2>2
<1>8. \A x, y \in g.nodes : h.end[x] < h.end[y] <=> g.end[x] < g.end[y]
  <2> TAKE x, y \in g.nodes
  <2>1. CASE g.end[x] > g.end[b] /\ g.end[y] > g.end[b]
    BY <1>1, <1>2, <2>1
  <2>2. CASE g.end[x] <= g.end[b] /\ g.end[y] <= g.end[b]
    BY <1>1, <1>2, <2>2
  <2>3. CASE g.end[x] <= g.end[b] /\ g.end[y] > g.end[b]
    BY <1>1, <1>2, <2>3
  <2>4. CASE g.end[x] > g.end[b] /\ g.end[y] <= g.end[b]
    BY <1>1, <1>2, <2>4
  <2> QED
    BY <1>3, <2>1, <2>2, <2>3, <2>4
<1>9. \A x \in h.nodes : h.start[x] \in Nat /\ h.end[x] \in Nat
  BY <1>1, <1>4, <1>5
<1> QED
  BY <1>6, <1>7, <1>8, <1>9 DEF h

LEMMA InsertedRow ==
  ASSUME NEW g, NEW r, NEW total \in Nat, Row(g, r, total), NEW b \in g.nodes,
         NEW new, new \notin g.nodes, NEW k \in Nat \ {0}, k < g.tall[r], NEW n \in Nat \ {0}
  PROVE  Row(Inserted(g, b, new, k, n), r, total + n)
<1> DEFINE h == Inserted(g, b, new, k, n)
<1>1. /\ h.nodes = g.nodes \cup {new}
      /\ h.start[new] = g.end[b] /\ h.end[new] = g.end[b] + n /\ h.tall[new] = k
      /\ \A x \in g.nodes : h.tall[x] = g.tall[x]
      /\ \A x \in g.nodes : g.end[x] > g.end[b] =>
           h.start[x] = g.start[x] + n /\ h.end[x] = g.end[x] + n
      /\ \A x \in g.nodes : g.end[x] <= g.end[b] =>
           h.start[x] = g.start[x] /\ h.end[x] = g.end[x]
  BY InsertedIs
<1>0. /\ h.start = [x \in h.nodes |-> h.start[x]] /\ h.end = [x \in h.nodes |-> h.end[x]]
      /\ h.tall = [x \in h.nodes |-> h.tall[x]]
  BY DEF Inserted
<1>2. \A x \in h.nodes : h.start[x] \in Nat /\ h.end[x] \in Nat
  BY InsertedOrder
<1> HIDE DEF h
<1>3. /\ \A x \in g.nodes : g.start[x] \in Nat /\ g.end[x] \in Nat /\ g.tall[x] \in Nat
      /\ \A x, y \in g.nodes : x # y => g.end[x] # g.end[y]
      /\ \A x, y \in g.nodes : g.end[x] < g.end[y] =>
           g.end[x] <= g.start[y] /\ g.start[x] <= g.start[y]
      /\ \A x \in g.nodes \ {r} : g.end[r] < g.end[x] /\ g.end[r] <= g.start[x]
  BY RowOrder
<1>4. /\ r \in g.nodes /\ g.start[r] = 0
      /\ \A x \in g.nodes : g.start[x] <= g.end[x] /\ g.end[x] <= total /\ g.tall[x] >= 1
      /\ \A x \in g.nodes \ {r} : g.start[x] < g.end[x] /\ g.tall[x] < g.tall[r]
  BY DEF Row
<1>5. r \in h.nodes /\ h.start[r] = 0
  <2>1. g.end[r] <= g.end[b]
    BY <1>3, <1>4
  <2> QED
    BY <1>1, <1>4, <2>1
<1>6. /\ h.start \in [h.nodes -> Nat] /\ h.end \in [h.nodes -> Nat]
      /\ h.tall \in [h.nodes -> Nat]
  <2>1. \A x \in h.nodes : h.tall[x] \in Nat
    BY <1>1, <1>3
  <2> QED
    BY <1>0, <1>2, <2>1
<1>7. \A x \in h.nodes : h.start[x] <= h.end[x] /\ h.end[x] <= total + n /\ h.tall[x] >= 1
  <2>1. h.start[new] <= h.end[new] /\ h.end[new] <= total + n /\ h.tall[new] >= 1
    BY <1>1, <1>3, <1>4
  <2>2. ASSUME NEW x \in g.nodes, g.end[x] > g.end[b]
        PROVE  h.start[x] <= h.end[x] /\ h.end[x] <= total + n
    BY <1>1, <1>3, <1>4, <2>2
  <2>3. ASSUME NEW x \in g.nodes, g.end[x] <= g.end[b]
        PROVE  h.start[x] <= h.end[x] /\ h.end[x] <= total + n
    BY <1>1, <1>3, <1>4, <2>3
  <2>4. \A x \in g.nodes : g.end[x] > g.end[b] \/ g.end[x] <= g.end[b]
    BY <1>3
  <2> QED
    BY <1>1, <1>4, <2>1, <2>2, <2>3, <2>4
<1>8. \A x \in h.nodes \ {r} : h.start[x] < h.end[x] /\ h.tall[x] < h.tall[r]
  <2>1. h.start[new] < h.end[new] /\ h.tall[new] < h.tall[r]
    BY <1>1, <1>3, <1>4
  <2>2. ASSUME NEW x \in g.nodes \ {r} PROVE h.start[x] < h.end[x] /\ h.tall[x] < h.tall[r]
    <3>1. g.start[x] < g.end[x] /\ g.tall[x] < g.tall[r]
      BY <1>4
    <3>2. CASE g.end[x] > g.end[b]
      BY <1>1, <1>3, <1>4, <3>1, <3>2
    <3>3. CASE g.end[x] <= g.end[b]
      BY <1>1, <1>3, <1>4, <3>1, <3>3
    <3> QED
      BY <1>3, <3>2, <3>3
  <2> QED
    BY <1>1, <2>1, <2>2
<1>9. \A x, y \in h.nodes : x # y => h.end[x] <= h.start[y] \/ h.end[y] <= h.start[x]
  <2>1. ASSUME NEW x \in g.nodes, NEW y \in g.nodes, g.end[x] < g.end[y]
        PROVE  h.end[x] <= h.start[y]
    <3>1. g.end[x] <= g.start[y]
      BY <1>3, <2>1
    <3>2. CASE g.end[x] > g.end[b]
      <4>1. g.end[y] > g.end[b]
        BY <1>3, <2>1, <3>2
      <4> QED
        BY <1>1, <1>3, <3>1, <3>2, <4>1
    <3>3. CASE g.end[x] <= g.end[b] /\ g.end[y] > g.end[b]
      BY <1>1, <1>3, <3>1, <3>3
    <3>4. CASE g.end[y] <= g.end[b]
      <4>1. g.end[x] <= g.end[b]
        BY <1>3, <2>1, <3>4
      <4> QED
        BY <1>1, <1>3, <3>1, <3>4, <4>1
    <3> QED
      BY <1>3, <3>2, <3>3, <3>4
  <2>2. \A x, y \in g.nodes : x # y => g.end[x] < g.end[y] \/ g.end[y] < g.end[x]
    BY <1>3
  <2>3. ASSUME NEW x \in g.nodes PROVE h.end[x] <= h.start[new] \/ h.end[new] <= h.start[x]
    <3>1. CASE g.end[x] > g.end[b]
      <4>1. g.end[b] <= g.start[x]
        BY <1>3, <3>1
      <4> QED
        BY <1>1, <1>3, <3>1, <4>1
    <3>2. CASE g.end[x] <= g.end[b]
      BY <1>1, <1>3, <3>2
    <3> QED
      BY <1>3, <3>1, <3>2
  <2> QED
    BY <1>1, <2>1, <2>2, <2>3
<1>10. \A x \in h.nodes : h.end[x] = total + n \/ \E y \in h.nodes \ {r} : h.start[y] = h.end[x]
  <2>1. ASSUME NEW x \in g.nodes, g.end[x] < g.end[b]
        PROVE  \E y \in h.nodes \ {r} : h.start[y] = h.end[x]
    <3>1. g.end[x] # total
      BY <1>3, <1>4, <2>1
    <3>2. PICK y \in g.nodes \ {r} : g.start[y] = g.end[x]
      BY <3>1 DEF Row
    <3>3. g.end[y] <= g.end[b]
      BY <1>3, <1>4, <2>1, <3>2
    <3>4. h.start[y] = h.end[x]
      BY <1>1, <1>3, <2>1, <3>2, <3>3
    <3> QED
      BY <1>1, <3>4
  <2>2. \E y \in h.nodes \ {r} : h.start[y] = h.end[b]
    <3>1. new # r /\ h.end[b] = g.end[b]
      BY <1>1, <1>3, <1>4
    <3> QED
      BY <1>1, <3>1
  <2>3. ASSUME NEW x \in g.nodes, g.end[x] >= g.end[b], g.end[x] # total,
               NEW z, z = x \/ (z = new /\ x = b), h.end[z] = g.end[x] + n
        PROVE  \E y \in h.nodes \ {r} : h.start[y] = h.end[z]
    <3>1. PICK y \in g.nodes \ {r} : g.start[y] = g.end[x]
      BY <2>3 DEF Row
    <3>2. g.end[y] > g.end[b]
      BY <1>3, <1>4, <2>3, <3>1
    <3>3. h.start[y] = g.start[y] + n
      BY <1>1, <3>2
    <3> QED
      BY <1>1, <2>3, <3>1, <3>3
  <2>4. \A x \in g.nodes : x = b \/ g.end[x] < g.end[b] \/ g.end[x] > g.end[b]
    BY <1>3
  <2>5. h.end[new] = total + n \/ \E y \in h.nodes \ {r} : h.start[y] = h.end[new]
    <3>1. g.end[b] >= g.end[b] /\ h.end[new] = g.end[b] + n
      BY <1>1, <1>3
    <3> QED
      BY <2>3, <3>1
  <2>6. ASSUME NEW x \in g.nodes, g.end[x] > g.end[b]
        PROVE  h.end[x] = total + n \/ \E y \in h.nodes \ {r} : h.start[y] = h.end[x]
    <3>1. h.end[x] = g.end[x] + n /\ g.end[x] >= g.end[b]
      BY <1>1, <1>3, <2>6
    <3> QED
      BY <2>3, <3>1
  <2> QED
    BY <1>1, <2>1, <2>2, <2>4, <2>5, <2>6
<1>11. Row(h, r, total + n)
  BY <1>5, <1>6, <1>7, <1>8, <1>9, <1>10 DEF Row
<1> QED
  BY <1>11 DEF h

(* Where the links lead when node new is behind b: those that span its end *)
(* are cut at new on its levels, and get longer above.                     *)
LEMMA InsertedLinks ==
  ASSUME NEW g, NEW r, NEW total \in Nat, Row(g, r, total), NEW b \in g.nodes,
         NEW new, new \notin g.nodes, NEW k \in Nat, NEW n \in Nat \ {0},
         NEW nd, NEW nd2, Linked(nd, g, total),
         \A x \in g.nodes : \A i \in 1 .. g.tall[x] :
           nd2[x].nexts[i] = IF LastAt(g, b, i, x)
                               THEN IF i <= k THEN Link(new, g.end[b] - g.start[x])
                                              ELSE Longer(nd[x].nexts[i], n)
                               ELSE nd[x].nexts[i],
         \A i \in 1 .. k : \E w \in g.nodes :
           /\ i <= g.tall[w] /\ LastAt(g, b, i, w)
           /\ nd2[new].nexts[i] = Longer(nd[w].nexts[i], n - (g.end[b] - g.start[w]))
  PROVE  Linked(nd2, Inserted(g, b, new, k, n), total + n)
<1> DEFINE h == Inserted(g, b, new, k, n)
<1>1. /\ h.nodes = g.nodes \cup {new}
      /\ h.start[new] = g.end[b] /\ h.end[new] = g.end[b] + n /\ h.tall[new] = k
      /\ \A x \in g.nodes : h.tall[x] = g.tall[x]
      /\ \A x \in g.nodes : g.end[x] > g.end[b] =>
           h.start[x] = g.start[x] + n /\ h.end[x] = g.end[x] + n
      /\ \A x \in g.nodes : g.end[x] <= g.end[b] =>
           h.start[x] = g.start[x] /\ h.end[x] = g.end[x]
  BY InsertedIs
<1>2. /\ \A x \in h.nodes : h.start[x] \in Nat /\ h.end[x] \in Nat
      /\ \A x, y \in g.nodes : h.end[x] < h.end[y] <=> g.end[x] < g.end[y]
      /\ \A x \in g.nodes : h.end[x] < h.end[new] <=> g.end[x] <= g.end[b]
      /\ \A x \in g.nodes : h.end[new] < h.end[x] <=> g.end[b] < g.end[x]
  BY ONLY InsertedOrder, Row(g, r, total), total \in Nat, b \in g.nodes, new \notin g.nodes,
          k \in Nat, n \in Nat \ {0}
<1> HIDE DEF h
<1>3. \A x \in g.nodes : g.start[x] \in Nat /\ g.end[x] \in Nat /\ g.tall[x] \in Nat
  BY RowOrder
<1>4. /\ \A x, y \in g.nodes : h.end[x] <= h.end[y] <=> g.end[x] <= g.end[y]
      /\ \A x \in g.nodes : h.end[new] <= h.end[x] <=> g.end[b] < g.end[x]
      /\ \A x \in g.nodes : h.end[x] <= h.end[new] <=> g.end[x] <= g.end[b]
      /\ ~(h.end[new] < h.end[new]) /\ h.end[new] <= h.end[new]
  BY <1>1, <1>2, <1>3
<1>5. ASSUME NEW x \in g.nodes, NEW i \in 1 .. g.tall[x], NEW y \in g.nodes, NextAt(g, x, i, y),
             g.end[b] < g.end[x] \/ g.end[y] <= g.end[b] \/ k < i
      PROVE  NextAt(h, x, i, y)
  <2>1. y \in h.nodes /\ h.tall[y] >= i /\ h.end[x] < h.end[y]
    BY <1>1, <1>2, <1>5 DEF NextAt
  <2>2. ASSUME NEW z \in g.nodes, h.tall[z] >= i, h.end[x] < h.end[z] PROVE h.end[y] <= h.end[z]
    BY <1>1, <1>2, <1>4, <1>5, <2>2 DEF NextAt
  <2>3. h.tall[new] >= i /\ h.end[x] < h.end[new] => h.end[y] <= h.end[new]
    BY <1>1, <1>2, <1>3, <1>4, <1>5
  <2> QED
    BY <1>1, <2>1, <2>2, <2>3 DEF NextAt
<1>6. ASSUME NEW x \in g.nodes, NEW i \in 1 .. g.tall[x], NoneAt(g, x, i),
             g.end[b] < g.end[x] \/ k < i
      PROVE  NoneAt(h, x, i)
  <2>1. \A z \in g.nodes : h.tall[z] >= i => h.end[z] <= h.end[x]
    BY <1>1, <1>4, <1>6 DEF NoneAt
  <2>2. h.tall[new] >= i => h.end[new] <= h.end[x]
    BY <1>1, <1>3, <1>4, <1>6
  <2> QED
    BY <1>1, <2>1, <2>2 DEF NoneAt
<1>7. ASSUME NEW x \in g.nodes, NEW i \in 1 .. g.tall[x]
      PROVE  LinkFor(h, total + n, x, i, nd2[x].nexts[i])
  <2>1. LinkFor(g, total, x, i, nd[x].nexts[i])
    BY DEF Linked
  <2>2. CASE LastAt(g, b, i, x) /\ i <= k
    <3>1. g.end[x] <= g.end[b]
      BY <2>2 DEF LastAt
    <3>2. ASSUME NEW z \in g.nodes, h.tall[z] >= i, h.end[x] < h.end[z] PROVE h.end[new] <= h.end[z]
      <4>1. g.tall[z] >= i /\ g.end[x] < g.end[z]
        BY <1>1, <1>2, <3>2
      <4>2. ~(g.end[z] <= g.end[b])
        BY <1>3, <2>2, <4>1 DEF LastAt
      <4> QED
        BY <1>3, <1>4, <4>2
    <3>3. NextAt(h, x, i, new)
      BY <1>1, <1>2, <1>4, <2>2, <3>1, <3>2 DEF NextAt
    <3>4. nd2[x].nexts[i] = Link(new, h.start[new] - h.start[x])
      BY <1>1, <2>2, <3>1
    <3> QED
      BY <1>1, <3>3, <3>4 DEF LinkFor
  <2>3. CASE LastAt(g, b, i, x) /\ k < i
    <3>1. g.end[x] <= g.end[b] /\ ~(i <= k)
      BY <2>3 DEF LastAt
    <3>2. nd2[x].nexts[i] = Longer(nd[x].nexts[i], n)
      BY <2>3, <3>1
    <3>3. ASSUME NEW y \in g.nodes, NextAt(g, x, i, y), nd[x].nexts[i] = Link(y, g.start[y] - g.start[x])
          PROVE  LinkFor(h, total + n, x, i, nd2[x].nexts[i])
      <4>1. g.end[y] > g.end[b]
        BY <1>3, <2>3, <3>3, Spans
      <4>2. h.start[y] = g.start[y] + n /\ h.start[x] = g.start[x]
        BY <1>1, <3>1, <4>1
      <4>3. nd2[x].nexts[i] = Link(y, (g.start[y] - g.start[x]) + n)
        BY <3>2, <3>3 DEF Longer, Link
      <4>4. (g.start[y] - g.start[x]) + n = h.start[y] - h.start[x]
        BY <1>3, <4>2
      <4>5. NextAt(h, x, i, y)
        BY <1>5, <2>3, <3>3
      <4> QED
        BY <1>1, <4>3, <4>4, <4>5 DEF LinkFor
    <3>4. ASSUME NoneAt(g, x, i), nd[x].nexts[i] = Link(NULL, total - g.start[x])
          PROVE  LinkFor(h, total + n, x, i, nd2[x].nexts[i])
      <4>1. nd2[x].nexts[i] = Link(NULL, (total - g.start[x]) + n)
        BY <3>2, <3>4 DEF Longer, Link
      <4>2. (total - g.start[x]) + n = (total + n) - h.start[x]
        BY <1>1, <1>3, <3>1
      <4>3. NoneAt(h, x, i)
        BY <1>6, <2>3, <3>4
      <4> QED
        BY <4>1, <4>2, <4>3 DEF LinkFor
    <3> QED
      BY <2>1, <3>3, <3>4 DEF LinkFor
  <2>4. CASE ~LastAt(g, b, i, x)
    <3>2. nd2[x].nexts[i] = nd[x].nexts[i]
      BY <2>4
    <3>3. ASSUME NEW y \in g.nodes, NextAt(g, x, i, y), nd[x].nexts[i] = Link(y, g.start[y] - g.start[x])
          PROVE  LinkFor(h, total + n, x, i, nd2[x].nexts[i])
      <4>1. g.end[b] < g.end[x] \/ g.end[y] <= g.end[b]
        BY <1>3, <2>4, <3>3, Spans
      <4>0. g.end[x] < g.end[y]
        BY <3>3 DEF NextAt
      <4>2. h.start[y] - h.start[x] = g.start[y] - g.start[x]
        <5>1. CASE g.end[b] < g.end[x]
          <6>1. g.end[y] > g.end[b] /\ g.end[x] > g.end[b]
            BY <1>3, <4>0, <5>1
          <6>2. h.start[y] = g.start[y] + n /\ h.start[x] = g.start[x] + n
            BY <1>1, <6>1
          <6> QED
            BY <1>3, <6>2
        <5>2. CASE g.end[y] <= g.end[b]
          <6>1. g.end[x] <= g.end[b]
            BY <1>3, <4>0, <5>2
          <6> QED
            BY <1>1, <5>2, <6>1
        <5> QED
          BY <4>1, <5>1, <5>2
      <4>5. NextAt(h, x, i, y)
        BY <1>5, <3>3, <4>1
      <4> QED
        BY <1>1, <3>2, <3>3, <4>2, <4>5 DEF LinkFor
    <3>4. ASSUME NoneAt(g, x, i), nd[x].nexts[i] = Link(NULL, total - g.start[x])
          PROVE  LinkFor(h, total + n, x, i, nd2[x].nexts[i])
      <4>1. g.end[b] < g.end[x]
        BY <1>3, <2>4, <3>4, Spans
      <4>2. total - g.start[x] = (total + n) - h.start[x]
        BY <1>1, <1>3, <4>1
      <4>3. NoneAt(h, x, i)
        BY <1>6, <3>4, <4>1
      <4> QED
        BY <3>2, <3>4, <4>2, <4>3 DEF LinkFor
    <3> QED
      BY <2>1, <3>3, <3>4 DEF LinkFor
  <2>5. i <= k \/ k < i
    BY <1>3
  <2> QED
    BY <2>2, <2>3, <2>4, <2>5
<1>8. ASSUME NEW i \in 1 .. k PROVE LinkFor(h, total + n, new, i, nd2[new].nexts[i])
  <2>1. PICK w \in g.nodes :
          /\ i <= g.tall[w] /\ LastAt(g, b, i, w)
          /\ nd2[new].nexts[i] = Longer(nd[w].nexts[i], n - (g.end[b] - g.start[w]))
    OBVIOUS
  <2>2. i \in 1 .. g.tall[w]
    BY <1>3, <2>1
  <2>3. LinkFor(g, total, w, i, nd[w].nexts[i])
    BY <2>2 DEF Linked
  <2>4. ASSUME NEW y \in g.nodes, NextAt(g, w, i, y), nd[w].nexts[i] = Link(y, g.start[y] - g.start[w])
        PROVE  LinkFor(h, total + n, new, i, nd2[new].nexts[i])
    <3>1. g.end[w] <= g.end[b] /\ g.end[b] < g.end[y]
      BY <2>1, <2>2, <2>4, Spans
    <3>2. h.start[y] = g.start[y] + n
      BY <1>1, <1>3, <3>1
    <3>3. nd2[new].nexts[i] = Link(y, (g.start[y] - g.start[w]) + (n - (g.end[b] - g.start[w])))
      BY <2>1, <2>4 DEF Longer, Link
    <3>4. (g.start[y] - g.start[w]) + (n - (g.end[b] - g.start[w])) = h.start[y] - h.start[new]
      BY <1>1, <1>3, <3>2
    <3>5. ASSUME NEW z \in g.nodes, h.tall[z] >= i, h.end[new] < h.end[z] PROVE h.end[y] <= h.end[z]
      <4>1. g.tall[z] >= i /\ g.end[w] < g.end[z]
        BY <1>1, <1>2, <1>3, <3>1, <3>5
      <4> QED
        BY <1>4, <2>4, <4>1 DEF NextAt
    <3>6. NextAt(h, new, i, y)
      BY <1>1, <1>2, <1>4, <2>4, <3>1, <3>5 DEF NextAt
    <3> QED
      BY <1>1, <3>3, <3>4, <3>6 DEF LinkFor
  <2>5. ASSUME NoneAt(g, w, i), nd[w].nexts[i] = Link(NULL, total - g.start[w])
        PROVE  LinkFor(h, total + n, new, i, nd2[new].nexts[i])
    <3>1. g.end[w] <= g.end[b]
      BY <2>1 DEF LastAt
    <3>3. nd2[new].nexts[i] = Link(NULL, (total - g.start[w]) + (n - (g.end[b] - g.start[w])))
      BY <2>1, <2>5 DEF Longer, Link
    <3>4. (total - g.start[w]) + (n - (g.end[b] - g.start[w])) = (total + n) - h.start[new]
      BY <1>1, <1>3
    <3>5. ASSUME NEW z \in g.nodes, h.tall[z] >= i PROVE h.end[z] <= h.end[new]
      <4>1. g.end[z] <= g.end[w]
        BY <1>1, <2>5, <3>5 DEF NoneAt
      <4> QED
        BY <1>3, <1>4, <3>1, <4>1
    <3>6. NoneAt(h, new, i)
      BY <1>1, <1>4, <3>5 DEF NoneAt
    <3> QED
      BY <3>3, <3>4, <3>6 DEF LinkFor
  <2> QED
    BY <2>3, <2>4, <2>5 DEF LinkFor
<1>9. Linked(nd2, h, total + n)
  BY <1>1, <1>7, <1>8 DEF Linked
<1> QED
  BY <1>9 DEF h

(* The last node up to the new one is itself on its levels, and above them *)
(* what it was.                                                            *)
LEMMA InsertedLast ==
  ASSUME NEW g, NEW r, NEW total \in Nat, Row(g, r, total), NEW b \in g.nodes,
         NEW new, new \notin g.nodes, NEW k \in Nat, NEW n \in Nat \ {0},
         NEW i \in Nat, NEW x \in g.nodes, LastAt(g, b, i, x)
  PROVE  /\ i <= k => LastAt(Inserted(g, b, new, k, n), new, i, new)
         /\ k < i => LastAt(Inserted(g, b, new, k, n), new, i, x)
<1> DEFINE h == Inserted(g, b, new, k, n)
<1>1. /\ h.nodes = g.nodes \cup {new}
      /\ h.tall[new] = k
      /\ \A z \in g.nodes : h.tall[z] = g.tall[z]
  BY InsertedIs
<1>2. /\ \A z \in h.nodes : h.end[z] \in Nat
      /\ \A z, y \in g.nodes : h.end[z] < h.end[y] <=> g.end[z] < g.end[y]
      /\ \A z \in g.nodes : h.end[z] < h.end[new] <=> g.end[z] <= g.end[b]
      /\ \A z \in g.nodes : h.end[new] < h.end[z] <=> g.end[b] < g.end[z]
  BY SMTT(60), InsertedOrder
<1> HIDE DEF h
<1>3. \A z \in g.nodes : g.end[z] \in Nat
  BY RowOrder
<1>4. i <= k => LastAt(h, new, i, new)
  BY <1>1, <1>2 DEF LastAt
<1>5. ASSUME k < i PROVE LastAt(h, new, i, x)
  <2>1. x \in g.nodes /\ g.tall[x] >= i /\ g.end[x] <= g.end[b]
    BY DEF LastAt
  <2>2. h.end[x] <= h.end[new]
    BY <1>1, <1>2, <2>1
  <2>3. ASSUME NEW z \in h.nodes, h.tall[z] >= i, h.end[z] <= h.end[new] PROVE h.end[z] <= h.end[x]
    <3>1. z \in g.nodes
      BY <1>1, <1>5, <2>3
    <3>2. g.end[z] <= g.end[b]
      BY <1>1, <1>2, <1>3, <2>3, <3>1
    <3>3. g.end[z] <= g.end[x]
      BY <1>1, <2>3, <3>1, <3>2 DEF LastAt
    <3> QED
      BY <1>1, <1>2, <1>3, <3>1, <3>3
  <2> QED
    BY <1>1, <2>1, <2>2, <2>3 DEF LastAt
<1> QED
  BY <1>4, <1>5 DEF h

(* A node other than the head is taken away, text and all.                 *)
Removed(g, e) ==
  [nodes |-> g.nodes \ {e},
   start |-> [x \in g.nodes \ {e} |-> IF g.end[x] > g.end[e]
                THEN g.start[x] - (g.end[e] - g.start[e]) ELSE g.start[x]],
   end   |-> [x \in g.nodes \ {e} |-> IF g.end[x] > g.end[e]
                THEN g.end[x] - (g.end[e] - g.start[e]) ELSE g.end[x]],
   tall  |-> [x \in g.nodes \ {e} |-> g.tall[x]]]

LEMMA RemovedIs ==
  ASSUME NEW g, NEW r, NEW total \in Nat, Row(g, r, total), NEW e \in g.nodes
  PROVE  LET h == Removed(g, e)
             n == g.end[e] - g.start[e]
         IN  /\ h.nodes = g.nodes \ {e}
             /\ \A x \in h.nodes : h.tall[x] = g.tall[x]
             /\ \A x \in h.nodes : g.end[x] > g.end[e] =>
                  h.start[x] = g.start[x] - n /\ h.end[x] = g.end[x] - n
             /\ \A x \in h.nodes : g.end[x] < g.end[e] =>
                  h.start[x] = g.start[x] /\ h.end[x] = g.end[x]
<1>1. \A x \in g.nodes : g.end[x] \in Nat /\ g.start[x] \in Nat
  BY RowOrder
<1>2. \A x \in g.nodes : g.end[x] < g.end[e] => ~(g.end[x] > g.end[e])
  BY <1>1
<1>3. Removed(g, e).nodes = g.nodes \ {e}
  BY DEF Removed
<1>4. \A x \in g.nodes \ {e} :
           /\ Removed(g, e).tall[x] = g.tall[x]
           /\ Removed(g, e).start[x] =
                IF g.end[x] > g.end[e] THEN g.start[x] - (g.end[e] - g.start[e]) ELSE g.start[x]
           /\ Removed(g, e).end[x] =
                IF g.end[x] > g.end[e] THEN g.end[x] - (g.end[e] - g.start[e]) ELSE g.end[x]
  BY DEF Removed
<1>5. \A x \in g.nodes \ {e} : x \in g.nodes
  OBVIOUS
<1> QED
  BY <1>2, <1>3, <1>4, <1>5, Zenon

LEMMA RemovedOrder ==
  ASSUME NEW g, NEW r, NEW total \in Nat, Row(g, r, total), NEW e \in g.nodes
  PROVE  LET h == Removed(g, e)
         IN  /\ \A x \in h.nodes : h.start[x] \in Nat /\ h.end[x] \in Nat
             /\ \A x, y \in h.nodes : h.end[x] < h.end[y] <=> g.end[x] < g.end[y]
             /\ \A x, y \in h.nodes : h.end[x] <= h.end[y] <=> g.end[x] <= g.end[y]
<1> DEFINE h == Removed(g, e)
           n == g.end[e] - g.start[e]
<1>1. /\ h.nodes = g.nodes \ {e}
      /\ \A x \in h.nodes : g.end[x] > g.end[e] =>
           h.start[x] = g.start[x] - n /\ h.end[x] = g.end[x] - n
      /\ \A x \in h.nodes : g.end[x] < g.end[e] =>
           h.start[x] = g.start[x] /\ h.end[x] = g.end[x]
  BY RemovedIs
<1> HIDE DEF h
<1>2. /\ \A x \in g.nodes : g.start[x] \in Nat /\ g.end[x] \in Nat
      /\ \A x, y \in g.nodes : x # y => g.end[x] # g.end[y]
      /\ \A x, y \in g.nodes : g.end[x] < g.end[y] =>
           g.end[x] <= g.start[y] /\ g.start[x] <= g.start[y]
  BY RowOrder
<1>2a. \A x \in g.nodes : g.start[x] <= g.end[x]
  BY DEF Row
<1>3. \A x \in h.nodes : g.end[x] > g.end[e] \/ g.end[x] < g.end[e]
  BY <1>1, <1>2
<1>4. ASSUME NEW x \in h.nodes, g.end[x] > g.end[e]
      PROVE  /\ h.start[x] \in Nat /\ h.end[x] \in Nat
             /\ g.start[e] <= h.start[x] /\ g.start[e] <= h.end[x]
             /\ h.end[x] = g.end[x] - n
  BY <1>1, <1>2, <1>2a, <1>4
<1>5. ASSUME NEW x \in h.nodes, g.end[x] < g.end[e]
      PROVE  h.start[x] \in Nat /\ h.end[x] \in Nat /\ h.end[x] <= g.start[e] /\ h.end[x] = g.end[x]
  BY <1>1, <1>2, <1>2a, <1>5
<1>6. \A x \in h.nodes : h.start[x] \in Nat /\ h.end[x] \in Nat
  BY <1>3, <1>4, <1>5
<1>7. ASSUME NEW x \in h.nodes, NEW y \in h.nodes, g.end[x] < g.end[y]
      PROVE  h.end[x] < h.end[y]
  <2>1. CASE g.end[x] > g.end[e]
    <3>1. g.end[y] > g.end[e]
      BY <1>1, <1>2, <1>7, <2>1
    <3> QED
      BY <1>1, <1>2, <1>4, <1>7, <2>1, <3>1
  <2>2. CASE g.end[y] < g.end[e]
    <3>1. g.end[x] < g.end[e]
      BY <1>1, <1>2, <1>7, <2>2
    <3> QED
      BY <1>5, <1>7, <2>2, <3>1
  <2>3. CASE g.end[x] < g.end[e] /\ g.end[y] > g.end[e]
    <3>1. g.end[e] <= g.start[y] /\ g.start[y] <= g.end[y] /\ g.end[x] <= g.start[e]
      BY <1>1, <1>2, <1>2a, <2>3
    <3>2. h.end[y] = g.end[y] - n /\ h.end[x] = g.end[x]
      BY <1>4, <1>5, <2>3
    <3> QED
      BY <1>1, <1>2, <2>3, <3>1, <3>2
  <2> QED
    BY <1>3, <2>1, <2>2, <2>3
<1>8. \A x, y \in h.nodes : x = y \/ g.end[x] < g.end[y] \/ g.end[y] < g.end[x]
  BY <1>1, <1>2
<1>9. \A x, y \in h.nodes : h.end[x] < h.end[y] <=> g.end[x] < g.end[y]
  BY <1>1, <1>2, <1>6, <1>7, <1>8
<1>10. \A x, y \in h.nodes : h.end[x] <= h.end[y] <=> g.end[x] <= g.end[y]
  BY <1>1, <1>2, <1>6, <1>9
<1> QED
  BY <1>6, <1>9, <1>10 DEF h

LEMMA RemovedRow ==
  ASSUME NEW g, NEW r, NEW total \in Nat, Row(g, r, total), NEW e \in g.nodes, e # r
  PROVE  LET n == g.end[e] - g.start[e]
         IN  n \in Nat \ {0} /\ total - n \in Nat /\ Row(Removed(g, e), r, total - n)
<1> DEFINE h == Removed(g, e)
           n == g.end[e] - g.start[e]
<1>1. /\ h.nodes = g.nodes \ {e}
      /\ \A x \in h.nodes : h.tall[x] = g.tall[x]
      /\ \A x \in h.nodes : g.end[x] > g.end[e] =>
           h.start[x] = g.start[x] - n /\ h.end[x] = g.end[x] - n
      /\ \A x \in h.nodes : g.end[x] < g.end[e] =>
           h.start[x] = g.start[x] /\ h.end[x] = g.end[x]
  BY RemovedIs
<1>2. \A x \in h.nodes : h.start[x] \in Nat /\ h.end[x] \in Nat
  BY RemovedOrder
<1>0. /\ h.start = [x \in h.nodes |-> h.start[x]] /\ h.end = [x \in h.nodes |-> h.end[x]]
      /\ h.tall = [x \in h.nodes |-> h.tall[x]]
  BY DEF Removed
<1> HIDE DEF h
<1>3. /\ \A x \in g.nodes : g.start[x] \in Nat /\ g.end[x] \in Nat /\ g.tall[x] \in Nat
      /\ \A x, y \in g.nodes : x # y => g.end[x] # g.end[y]
      /\ \A x, y \in g.nodes : g.end[x] < g.end[y] =>
           g.end[x] <= g.start[y] /\ g.start[x] <= g.start[y]
      /\ \A x \in g.nodes \ {r} : g.end[r] < g.end[x] /\ g.end[r] <= g.start[x]
  BY RowOrder
<1>4. /\ r \in g.nodes /\ g.start[r] = 0
      /\ \A x \in g.nodes : g.start[x] <= g.end[x] /\ g.end[x] <= total /\ g.tall[x] >= 1
      /\ \A x \in g.nodes \ {r} : g.start[x] < g.end[x] /\ g.tall[x] < g.tall[r]
  BY DEF Row
<1>5. n \in Nat \ {0} /\ total - n \in Nat
  BY <1>3, <1>4
<1>6. \A x \in h.nodes : x \in g.nodes /\ (g.end[x] > g.end[e] \/ g.end[x] < g.end[e])
  BY <1>1, <1>3
<1>7. r \in h.nodes /\ h.start[r] = 0
  BY <1>1, <1>3, <1>4
<1>8. /\ h.start \in [h.nodes -> Nat] /\ h.end \in [h.nodes -> Nat]
      /\ h.tall \in [h.nodes -> Nat]
  <2>1. \A x \in h.nodes : h.tall[x] \in Nat
    BY <1>1, <1>3
  <2> QED
    BY <1>0, <1>2, <2>1
<1>9. ASSUME NEW x \in h.nodes
      PROVE  /\ h.start[x] <= h.end[x] /\ h.end[x] <= total - n /\ h.tall[x] >= 1
             /\ x # r => h.start[x] < h.end[x] /\ h.tall[x] < h.tall[r]
  <2>1. /\ g.start[x] <= g.end[x] /\ g.end[x] <= total /\ g.tall[x] >= 1
        /\ x # r => g.start[x] < g.end[x] /\ g.tall[x] < g.tall[r]
    BY <1>4, <1>6
  <2>2. h.tall[x] = g.tall[x] /\ h.tall[r] = g.tall[r]
    BY <1>1, <1>7
  <2>3. CASE g.end[x] > g.end[e]
    <3>1. h.start[x] = g.start[x] - n /\ h.end[x] = g.end[x] - n
      BY <1>1, <2>3
    <3> QED
      BY <1>3, <1>5, <1>6, <2>1, <2>2, <3>1
  <2>4. CASE g.end[x] < g.end[e]
    <3>1. h.start[x] = g.start[x] /\ h.end[x] = g.end[x] /\ g.end[x] <= g.start[e]
      BY <1>1, <1>3, <1>6, <2>4
    <3> QED
      BY <1>3, <1>4, <1>5, <1>6, <2>1, <2>2, <3>1
  <2> QED
    BY <1>6, <2>3, <2>4
<1>10. ASSUME NEW x \in h.nodes, NEW y \in h.nodes, g.end[x] < g.end[y]
       PROVE  h.end[x] <= h.start[y]
  <2>1. g.end[x] <= g.start[y]
    BY <1>3, <1>6, <1>10
  <2>2. CASE g.end[x] > g.end[e]
    <3>1. g.end[y] > g.end[e]
      BY <1>3, <1>6, <1>10, <2>2
    <3>2. h.end[x] = g.end[x] - n /\ h.start[y] = g.start[y] - n
      BY <1>1, <2>2, <3>1
    <3> QED
      BY <1>3, <1>5, <1>6, <2>1, <3>2
  <2>3. CASE g.end[y] < g.end[e]
    <3>1. g.end[x] < g.end[e]
      BY <1>3, <1>6, <1>10, <2>3
    <3>2. h.end[x] = g.end[x] /\ h.start[y] = g.start[y]
      BY <1>1, <2>3, <3>1
    <3> QED
      BY <2>1, <3>2
  <2>4. CASE g.end[x] < g.end[e] /\ g.end[y] > g.end[e]
    <3>1. g.end[e] <= g.start[y] /\ g.end[x] <= g.start[e]
      BY <1>3, <1>6, <2>4
    <3>2. h.end[x] = g.end[x] /\ h.start[y] = g.start[y] - n
      BY <1>1, <2>4
    <3> QED
      BY <1>3, <1>6, <3>1, <3>2
  <2> QED
    BY <1>6, <2>2, <2>3, <2>4
<1>11. \A x, y \in h.nodes : x # y => h.end[x] <= h.start[y] \/ h.end[y] <= h.start[x]
  <2>1. \A x, y \in h.nodes : x # y => g.end[x] < g.end[y] \/ g.end[y] < g.end[x]
    BY <1>3, <1>6
  <2> QED
    BY <1>10, <2>1
<1>12. ASSUME NEW x \in h.nodes
       PROVE  h.end[x] = total - n \/ \E y \in h.nodes \ {r} : h.start[y] = h.end[x]
  <2>1. CASE g.end[x] > g.end[e]
    <3>1. h.end[x] = g.end[x] - n
      BY <1>1, <2>1
    <3>2. CASE g.end[x] = total
      BY <3>1, <3>2
    <3>3. CASE \E y \in g.nodes \ {r} : g.start[y] = g.end[x]
      <4>1. PICK y \in g.nodes \ {r} : g.start[y] = g.end[x]
        BY <3>3
      <4>2. g.end[y] > g.end[e] /\ y # e
        BY <1>3, <1>4, <1>6, <2>1, <4>1
      <4>3. y \in h.nodes \ {r} /\ h.start[y] = g.start[y] - n
        BY <1>1, <4>2
      <4> QED
        BY <3>1, <4>1, <4>3
    <3> QED
      BY <1>6, <3>2, <3>3 DEF Row
  <2>2. CASE g.end[x] < g.end[e]
    <3>0. h.end[x] = g.end[x] /\ g.end[x] # total
      BY <1>1, <1>3, <1>4, <1>6, <2>2
    <3>1. PICK y \in g.nodes \ {r} : g.start[y] = g.end[x]
      BY <1>6, <3>0 DEF Row
    <3>2. CASE y # e
      <4>1. g.end[y] < g.end[e]
        BY <1>3, <1>4, <1>6, <2>2, <3>1, <3>2
      <4>2. y \in h.nodes \ {r} /\ h.start[y] = g.start[y]
        BY <1>1, <3>2, <4>1
      <4> QED
        BY <3>0, <3>1, <4>2
    <3>3. CASE y = e /\ g.end[e] = total
      <4>1. total - n = g.start[e]
        BY <1>3, <3>3
      <4> QED
        BY <3>0, <3>1, <3>3, <4>1
    <3>4. CASE y = e /\ g.end[e] # total
      <4>1. PICK z \in g.nodes \ {r} : g.start[z] = g.end[e]
        BY <3>4 DEF Row
      <4>2. g.end[z] > g.end[e] /\ z # e
        BY <1>3, <1>4, <4>1
      <4>3. z \in h.nodes \ {r} /\ h.start[z] = g.start[z] - n
        BY <1>1, <4>2
      <4>4. g.end[e] - n = g.start[e]
        BY <1>3
      <4> QED
        BY <3>0, <3>1, <3>4, <4>1, <4>3, <4>4
    <3> QED
      BY <3>2, <3>3, <3>4
  <2> QED
    BY <1>6, <2>1, <2>2
<1>13. Row(h, r, total - n)
  <2> HIDE DEF n
  <2>1. \A x \in h.nodes : h.start[x] <= h.end[x] /\ h.end[x] <= total - n /\ h.tall[x] >= 1
    BY <1>9
  <2>2. \A x \in h.nodes \ {r} : h.start[x] < h.end[x] /\ h.tall[x] < h.tall[r]
    BY <1>9
  <2>3. \A x \in h.nodes : h.end[x] = total - n \/ \E y \in h.nodes \ {r} : h.start[y] = h.end[x]
    BY <1>12
  <2> QED
    BY <1>7, <1>8, <1>11, <2>1, <2>2, <2>3 DEF Row
<1> QED
  BY <1>5, <1>13 DEF h

LEMMA RemovedLast ==
  ASSUME NEW g, NEW r, NEW total \in Nat, Row(g, r, total), NEW e \in g.nodes,
         NEW b \in g.nodes, g.end[b] < g.end[e], NEW i \in Nat, NEW x, LastAt(g, b, i, x)
  PROVE  LastAt(Removed(g, e), b, i, x)
<1> DEFINE h == Removed(g, e)
<1>1. h.nodes = g.nodes \ {e} /\ \A z \in h.nodes : h.tall[z] = g.tall[z]
  BY RemovedIs
<1>2. \A z, y \in h.nodes : h.end[z] <= h.end[y] <=> g.end[z] <= g.end[y]
  BY RemovedOrder
<1> HIDE DEF h
<1>3. \A z \in g.nodes : g.end[z] \in Nat
  BY RowOrder
<1>4. x \in h.nodes /\ b \in h.nodes
  BY <1>1, <1>3 DEF LastAt
<1>5. LastAt(h, b, i, x)
  BY <1>1, <1>2, <1>4 DEF LastAt
<1> QED
  BY <1>5 DEF h

(* Where the links lead when e, which is behind b, is gone: those that led *)
(* to it lead where its own did, and those that passed over it get shorter.*)
LEMMA RemovedLinks ==
  ASSUME NEW g, NEW r, NEW total \in Nat, Row(g, r, total), NEW e \in g.nodes,
         NEW b \in g.nodes, b # e, g.end[b] = g.start[e],
         NEW nd, NEW nd2, Linked(nd, g, total),
         \A x \in g.nodes \ {e} : \A i \in 1 .. g.tall[x] :
           nd2[x].nexts[i] =
             IF LastAt(g, b, i, x)
               THEN IF i <= g.tall[e]
                      THEN Longer(nd[e].nexts[i], nd[x].nexts[i].skip_size - (g.end[e] - g.start[e]))
                      ELSE Longer(nd[x].nexts[i], -(g.end[e] - g.start[e]))
               ELSE nd[x].nexts[i]
  PROVE  Linked(nd2, Removed(g, e), total - (g.end[e] - g.start[e]))
<1> DEFINE h == Removed(g, e)
           n == g.end[e] - g.start[e]
<1>1. /\ h.nodes = g.nodes \ {e}
      /\ \A x \in h.nodes : h.tall[x] = g.tall[x]
      /\ \A x \in h.nodes : g.end[x] > g.end[e] =>
           h.start[x] = g.start[x] - n /\ h.end[x] = g.end[x] - n
      /\ \A x \in h.nodes : g.end[x] < g.end[e] =>
           h.start[x] = g.start[x] /\ h.end[x] = g.end[x]
  BY RemovedIs
<1>2. /\ \A x, y \in h.nodes : h.end[x] < h.end[y] <=> g.end[x] < g.end[y]
      /\ \A x, y \in h.nodes : h.end[x] <= h.end[y] <=> g.end[x] <= g.end[y]
  BY ONLY RemovedOrder, Row(g, r, total), total \in Nat, e \in g.nodes
<1> HIDE DEF h
<1>3. /\ \A x \in g.nodes : g.start[x] \in Nat /\ g.end[x] \in Nat /\ g.tall[x] \in Nat
      /\ \A x, y \in g.nodes : x # y => g.end[x] # g.end[y]
      /\ \A x, y \in g.nodes : g.end[x] < g.end[y] =>
           g.end[x] <= g.start[y] /\ g.start[x] <= g.start[y]
  BY ONLY RowOrder, Row(g, r, total), total \in Nat
<1>4. g.start[e] < g.end[e]
  BY <1>3 DEF Row
<1>5. \A x \in h.nodes : x \in g.nodes /\ x # e /\ (g.end[x] > g.end[e] \/ g.end[x] <= g.end[b])
  BY <1>1, <1>3, <1>4
<1>6. ASSUME NEW x \in h.nodes, NEW i, NEW y \in h.nodes, NextAt(g, x, i, y) PROVE NextAt(h, x, i, y)
  BY <1>1, <1>2, <1>5, <1>6 DEF NextAt
<1>7. ASSUME NEW x \in h.nodes, NEW i, NoneAt(g, x, i) PROVE NoneAt(h, x, i)
  BY <1>1, <1>2, <1>5, <1>7 DEF NoneAt
<1>8. ASSUME NEW x \in h.nodes, NEW i \in 1 .. g.tall[x]
      PROVE  LinkFor(h, total - n, x, i, nd2[x].nexts[i])
  <2>1. LinkFor(g, total, x, i, nd[x].nexts[i])
    BY <1>5 DEF Linked
  <2>2. i \in Nat /\ i >= 1 /\ x \in g.nodes /\ (i <= g.tall[e] \/ g.tall[e] < i)
    BY <1>3, <1>5
  <2>3. CASE LastAt(g, b, i, x) /\ i <= g.tall[e]
    <3>1. g.end[x] <= g.end[b] /\ g.end[x] < g.end[e]
      BY <1>3, <1>4, <1>5, <2>3 DEF LastAt
    <3>2. NextAt(g, x, i, e)
      <4>1. ASSUME NEW z \in g.nodes, g.tall[z] >= i, g.end[x] < g.end[z] PROVE g.end[e] <= g.end[z]
        <5>1. ~(g.end[z] <= g.end[b])
          BY <1>3, <2>2, <2>3, <4>1 DEF LastAt
        <5> QED
          BY <1>1, <1>3, <1>5, <5>1
      <4> QED
        BY <2>3, <3>1, <4>1 DEF NextAt
    <3>3. \A y \in g.nodes : NextAt(g, x, i, y) => y = e
      BY <1>3, <3>2 DEF NextAt
    <3>4. ~NoneAt(g, x, i)
      <4>1. g.tall[e] >= i /\ ~(g.end[e] <= g.end[x])
        BY <1>3, <2>2, <2>3, <3>1
      <4> QED
        BY <4>1 DEF NoneAt
    <3>5. nd[x].nexts[i].skip_size = g.start[e] - g.start[x]
      <4>1. nd[x].nexts[i] = Link(e, g.start[e] - g.start[x])
        BY <2>1, <3>3, <3>4, Zenon DEF LinkFor
      <4> QED
        BY <4>1 DEF Link
    <3>6. nd2[x].nexts[i] = Longer(nd[e].nexts[i], (g.start[e] - g.start[x]) - n)
      BY <1>1, <2>3, <3>5
    <3>7. LinkFor(g, total, e, i, nd[e].nexts[i])
      BY <2>2, <2>3, <1>3 DEF Linked
    <3>8. h.start[x] = g.start[x]
      BY <1>1, <3>1
    <3>9. ASSUME NEW y \in g.nodes, NextAt(g, e, i, y), nd[e].nexts[i] = Link(y, g.start[y] - g.start[e])
          PROVE  LinkFor(h, total - n, x, i, nd2[x].nexts[i])
      <4>1. g.end[y] > g.end[e] /\ y # e
        BY <1>3, <3>9 DEF NextAt
      <4>2. y \in h.nodes /\ h.start[y] = g.start[y] - n
        BY <1>1, <4>1
      <4>4. ASSUME NEW z \in h.nodes, h.tall[z] >= i, h.end[x] < h.end[z] PROVE h.end[y] <= h.end[z]
        <5>1. g.tall[z] >= i /\ g.end[x] < g.end[z] /\ z # e /\ z \in g.nodes
          BY <1>1, <1>2, <1>5, <4>4
        <5>2. g.end[e] < g.end[z]
          BY <1>3, <3>2, <5>1 DEF NextAt
        <5> QED
          BY <1>2, <3>9, <4>2, <5>1, <5>2 DEF NextAt
      <4>5. h.end[x] < h.end[y] /\ h.tall[y] >= i
        BY <1>1, <1>2, <1>3, <3>1, <3>9, <4>1, <4>2 DEF NextAt
      <4>6. NextAt(h, x, i, y)
        BY <4>2, <4>4, <4>5 DEF NextAt
      <4>7. nd2[x].nexts[i] = Link(y, (g.start[y] - g.start[e]) + ((g.start[e] - g.start[x]) - n))
        BY <3>6, <3>9 DEF Longer, Link
      <4>8. (g.start[y] - g.start[e]) + ((g.start[e] - g.start[x]) - n) = h.start[y] - h.start[x]
        BY <1>3, <2>2, <3>8, <4>2
      <4> QED
        BY <4>2, <4>6, <4>7, <4>8 DEF LinkFor
    <3>10. ASSUME NoneAt(g, e, i), nd[e].nexts[i] = Link(NULL, total - g.start[e])
           PROVE  LinkFor(h, total - n, x, i, nd2[x].nexts[i])
      <4>1. ASSUME NEW z \in h.nodes, h.tall[z] >= i PROVE h.end[z] <= h.end[x]
        <5>1. g.end[z] <= g.end[e] /\ z \in g.nodes /\ g.tall[z] >= i
          BY <1>1, <1>5, <3>10, <4>1 DEF NoneAt
        <5>2. g.end[z] <= g.end[b]
          BY <1>3, <1>5, <5>1
        <5>3. g.end[z] <= g.end[x]
          BY <2>3, <5>1, <5>2 DEF LastAt
        <5> QED
          BY <1>2, <5>3
      <4>2. NoneAt(h, x, i)
        BY <4>1 DEF NoneAt
      <4>3. nd2[x].nexts[i] = Link(NULL, (total - g.start[e]) + ((g.start[e] - g.start[x]) - n))
        BY <3>6, <3>10 DEF Longer, Link
      <4>4. (total - g.start[e]) + ((g.start[e] - g.start[x]) - n) = (total - n) - h.start[x]
        BY <1>3, <2>2, <3>8
      <4> QED
        BY <4>2, <4>3, <4>4 DEF LinkFor
    <3> QED
      BY <3>7, <3>9, <3>10 DEF LinkFor
  <2>4. CASE LastAt(g, b, i, x) /\ g.tall[e] < i
    <3>1. g.end[x] <= g.end[b] /\ ~(i <= g.tall[e]) /\ g.end[x] < g.end[e]
      BY <1>3, <1>4, <2>2, <2>4 DEF LastAt
    <3>2. nd2[x].nexts[i] = Longer(nd[x].nexts[i], -n)
      BY <1>1, <2>4, <3>1
    <3>3. h.start[x] = g.start[x]
      BY <1>1, <3>1
    <3>4. ASSUME NEW y \in g.nodes, NextAt(g, x, i, y), nd[x].nexts[i] = Link(y, g.start[y] - g.start[x])
          PROVE  LinkFor(h, total - n, x, i, nd2[x].nexts[i])
      <4>1. g.end[y] > g.end[b] /\ y # e
        <5>1. g.end[y] > g.end[b]
          BY <2>2, <2>4, <3>4, Spans, <1>3
        <5> QED
          BY <1>3, <2>2, <3>1, <3>4, <5>1 DEF NextAt
      <4>2. y \in h.nodes /\ g.end[y] > g.end[e]
        BY <1>1, <1>3, <1>5, <4>1
      <4>3. h.start[y] = g.start[y] - n
        BY <1>1, <4>2
      <4>4. nd2[x].nexts[i] = Link(y, (g.start[y] - g.start[x]) + (-n))
        BY <3>2, <3>4 DEF Longer, Link
      <4>5. (g.start[y] - g.start[x]) + (-n) = h.start[y] - h.start[x]
        BY <1>3, <2>2, <3>3, <4>3
      <4> QED
        BY <1>6, <3>4, <4>2, <4>4, <4>5 DEF LinkFor
    <3>5. ASSUME NoneAt(g, x, i), nd[x].nexts[i] = Link(NULL, total - g.start[x])
          PROVE  LinkFor(h, total - n, x, i, nd2[x].nexts[i])
      <4>1. nd2[x].nexts[i] = Link(NULL, (total - g.start[x]) + (-n))
        BY <3>2, <3>5 DEF Longer, Link
      <4>2. (total - g.start[x]) + (-n) = (total - n) - h.start[x]
        BY <1>3, <2>2, <3>3
      <4> QED
        BY <1>7, <3>5, <4>1, <4>2 DEF LinkFor
    <3> QED
      BY <2>1, <3>4, <3>5 DEF LinkFor
  <2>5. CASE ~LastAt(g, b, i, x)
    <3>1. nd2[x].nexts[i] = nd[x].nexts[i]
      BY <1>1, <2>5
    <3>2. ASSUME NEW y \in g.nodes, NextAt(g, x, i, y), nd[x].nexts[i] = Link(y, g.start[y] - g.start[x])
          PROVE  LinkFor(h, total - n, x, i, nd2[x].nexts[i])
      <4>0. g.end[x] < g.end[y]
        BY <3>2 DEF NextAt
      <4>1. g.end[b] < g.end[x] \/ g.end[y] <= g.end[b]
        BY <1>3, <2>2, <2>5, <3>2, Spans
      <4>2. y # e
        BY <1>3, <1>4, <1>5, <2>2, <4>0, <4>1
      <4>3. y \in h.nodes
        BY <1>1, <4>2
      <4>4. h.start[y] - h.start[x] = g.start[y] - g.start[x]
        <5>1. CASE g.end[b] < g.end[x]
          <6>1. g.end[x] > g.end[e] /\ g.end[y] > g.end[e]
            BY <1>3, <1>5, <2>2, <4>0, <5>1
          <6>2. h.start[x] = g.start[x] - n /\ h.start[y] = g.start[y] - n
            BY <1>1, <4>3, <6>1
          <6> QED
            BY <1>3, <2>2, <6>2
        <5>2. CASE g.end[y] <= g.end[b]
          <6>1. g.end[x] < g.end[e] /\ g.end[y] < g.end[e]
            BY <1>3, <1>4, <2>2, <4>0, <5>2
          <6> QED
            BY <1>1, <4>3, <6>1
        <5> QED
          BY <4>1, <5>1, <5>2
      <4> QED
        BY <1>6, <3>1, <3>2, <4>3, <4>4 DEF LinkFor
    <3>3. ASSUME NoneAt(g, x, i), nd[x].nexts[i] = Link(NULL, total - g.start[x])
          PROVE  LinkFor(h, total - n, x, i, nd2[x].nexts[i])
      <4>1. g.end[b] < g.end[x]
        BY <1>3, <2>2, <2>5, <3>3, Spans
      <4>2. g.end[x] > g.end[e]
        BY <1>3, <1>5, <2>2, <4>1
      <4>3. h.start[x] = g.start[x] - n
        BY <1>1, <4>2
      <4>4. total - g.start[x] = (total - n) - h.start[x]
        BY <1>3, <2>2, <4>3
      <4> QED
        BY <1>7, <3>1, <3>3, <4>4 DEF LinkFor
    <3> QED
      BY <2>1, <3>2, <3>3 DEF LinkFor
  <2> QED
    BY <2>2, <2>3, <2>4, <2>5
<1>9. Linked(nd2, h, total - n)
  BY <1>1, <1>8 DEF Linked
<1> QED
  BY <1>9 DEF h

-----------------------------------------------------------------------------
(* The characters p + 1 to q of a text give way to s.                      *)
Replaced(t, p, q, s) == (FirstOf(t, p) \o s) \o From(t, q)

LEMMA ReplacedIs ==
  ASSUME NEW t \in Seq(Chars), NEW s \in Seq(Chars), NEW q \in 0 .. Len(t), NEW p \in 0 .. q
  PROVE  /\ Replaced(t, p, q, s) \in Seq(Chars)
         /\ Len(Replaced(t, p, q, s)) = (Len(t) - (q - p)) + Len(s)
         /\ \A i \in 1 .. p : Replaced(t, p, q, s)[i] = t[i]
         /\ \A j \in 1 .. Len(s) : Replaced(t, p, q, s)[p + j] = s[j]
         /\ \A j \in 1 .. Len(t) - q : Replaced(t, p, q, s)[(p + Len(s)) + j] = t[q + j]
<1>1. Len(t) \in Nat /\ Len(s) \in Nat /\ p \in 0 .. Len(t) /\ p \in Nat /\ q \in Nat
  OBVIOUS
<1> DEFINE F == FirstOf(t, p)
           R == From(t, q)
<1>2. F \in Seq(Chars) /\ Len(F) = p /\ \A i \in 1 .. p : F[i] = t[i]
  BY <1>1, FirstOfIs
<1>3. R \in Seq(Chars) /\ Len(R) = Len(t) - q /\ \A i \in 1 .. Len(t) - q : R[i] = t[q + i]
  BY FromIs
<1> HIDE DEF F, R
<1> DEFINE u == F \o s
<1>4. /\ u \in Seq(Chars) /\ Len(u) = Len(F) + Len(s)
      /\ \A i \in 1 .. Len(F) : u[i] = F[i]
      /\ \A i \in 1 .. Len(s) : u[Len(F) + i] = s[i]
  <2>1. F \in Seq(Chars) /\ s \in Seq(Chars)
    BY <1>2
  <2> QED
    BY ONLY <2>1, ConcatIs
<1> HIDE DEF u
<1> DEFINE v == u \o R
<1>5. /\ v \in Seq(Chars) /\ Len(v) = Len(u) + Len(R)
      /\ \A i \in 1 .. Len(u) : v[i] = u[i]
      /\ \A i \in 1 .. Len(R) : v[Len(u) + i] = R[i]
  <2>1. u \in Seq(Chars) /\ R \in Seq(Chars)
    BY <1>3, <1>4
  <2> QED
    BY ONLY <2>1, ConcatIs
<1>6. Replaced(t, p, q, s) = v
  BY DEF Replaced, u, v, F, R
<1> HIDE DEF v
<1>7. Len(v) = (Len(t) - (q - p)) + Len(s)
  BY <1>1, <1>2, <1>3, <1>4, <1>5
<1>8. \A i \in 1 .. p : v[i] = t[i]
  BY <1>1, <1>2, <1>4, <1>5
<1>9. \A j \in 1 .. Len(s) : v[p + j] = s[j]
  BY <1>1, <1>2, <1>4, <1>5
<1>10. \A j \in 1 .. Len(t) - q : v[(p + Len(s)) + j] = t[q + j]
  BY <1>1, <1>2, <1>3, <1>4, <1>5
<1> QED
  BY <1>5, <1>6, <1>7, <1>8, <1>9, <1>10

LEMMA MiddleIs ==
  ASSUME NEW t \in Seq(Chars), NEW q \in 0 .. Len(t), NEW p \in 0 .. q
  PROVE  /\ SubSeq(t, p + 1, q) \in Seq(Chars) /\ Len(SubSeq(t, p + 1, q)) = q - p
         /\ \A i \in 1 .. q - p : SubSeq(t, p + 1, q)[i] = t[p + i]
<1>1. Len(t) \in Nat /\ p \in Int /\ p >= 0 /\ p <= q /\ q <= Len(t) /\ q \in Int /\ p + 1 \in Int
  OBVIOUS
<1>2. \A i \in p + 1 .. q : t[i] \in Chars
  BY <1>1, ElementOfSeq
<1>3. /\ SubSeq(t, p + 1, q) \in Seq(Chars)
      /\ Len(SubSeq(t, p + 1, q)) = IF p + 1 <= q THEN q - (p + 1) + 1 ELSE 0
      /\ \A i \in 1 .. q - (p + 1) + 1 : SubSeq(t, p + 1, q)[i] = t[p + 1 + i - 1]
  BY <1>1, <1>2, SubSeqProperties
<1> QED
  BY <1>1, <1>3

(* A text is what is in front of a part of it, the part and the rest.      *)
LEMMA SplitIs ==
  ASSUME NEW t \in Seq(Chars), NEW q \in 0 .. Len(t), NEW p \in 0 .. q
  PROVE  Replaced(t, p, q, SubSeq(t, p + 1, q)) = t
<1> DEFINE m == SubSeq(t, p + 1, q)
           v == Replaced(t, p, q, m)
<1>1. m \in Seq(Chars) /\ Len(m) = q - p /\ \A i \in 1 .. q - p : m[i] = t[p + i]
  BY MiddleIs
<1> HIDE DEF m
<1>2. /\ v \in Seq(Chars) /\ Len(v) = (Len(t) - (q - p)) + Len(m)
      /\ \A i \in 1 .. p : v[i] = t[i]
      /\ \A j \in 1 .. Len(m) : v[p + j] = m[j]
      /\ \A j \in 1 .. Len(t) - q : v[(p + Len(m)) + j] = t[q + j]
  BY <1>1, ReplacedIs
<1> HIDE DEF v
<1>3. Len(v) = Len(t) /\ Len(t) \in Nat /\ p \in Nat /\ q \in Nat
  BY <1>1, <1>2
<1>4. ASSUME NEW i \in 1 .. Len(v) PROVE v[i] = t[i]
  <2>1. CASE i <= p
    BY <1>2, <1>3, <2>1
  <2>2. CASE i > p /\ i <= q
    <3>1. i - p \in 1 .. q - p /\ p + (i - p) = i
      BY <1>3, <2>2
    <3> QED
      BY <1>1, <1>2, <3>1
  <2>3. CASE i > q
    <3>1. i - q \in 1 .. Len(t) - q /\ q + (i - q) = i /\ (p + Len(m)) + (i - q) = i
      BY <1>1, <1>3, <2>3
    <3> QED
      BY <1>2, <3>1
  <2> QED
    BY <1>3, <2>1, <2>2, <2>3
<1>5. v = t
  BY <1>2, <1>3, <1>4, SameSequence
<1> QED
  BY <1>5 DEF v, m

LEMMA BytesReplaced ==
  ASSUME NEW t \in Seq(Chars), NEW s \in Seq(Chars), NEW q \in 0 .. Len(t), NEW p \in 0 .. q
  PROVE  Bytes(Replaced(t, p, q, s)) = (Bytes(t) - Bytes(SubSeq(t, p + 1, q))) + Bytes(s)
<1> DEFINE m == SubSeq(t, p + 1, q)
           F == FirstOf(t, p)
           R == From(t, q)
<1>1. m \in Seq(Chars) /\ Replaced(t, p, q, m) = t
  BY MiddleIs, SplitIs
<1>2. p \in 0 .. Len(t)
  OBVIOUS
<1>3. F \in Seq(Chars) /\ R \in Seq(Chars)
  BY <1>2, FirstOfIs, FromIs
<1>4. t = (F \o m) \o R /\ Replaced(t, p, q, s) = (F \o s) \o R
  BY <1>1 DEF Replaced
<1> HIDE DEF m, F, R
<1>5. F \o m \in Seq(Chars) /\ F \o s \in Seq(Chars)
  BY <1>1, <1>3, ConcatIs
<1>6. Bytes(F \o m) = Bytes(F) + Bytes(m) /\ Bytes(F \o s) = Bytes(F) + Bytes(s)
  BY <1>1, <1>3, BytesConcat
<1>7. Bytes((F \o m) \o R) = Bytes(F \o m) + Bytes(R)
  BY <1>3, <1>5, BytesConcat
<1>8. Bytes((F \o s) \o R) = Bytes(F \o s) + Bytes(R)
  BY <1>3, <1>5, BytesConcat
<1>9. /\ Bytes(F) \in Nat /\ Bytes(R) \in Nat /\ Bytes(m) \in Nat /\ Bytes(s) \in Nat
      /\ Bytes(t) = Bytes(F \o m) + Bytes(R)
      /\ Bytes(Replaced(t, p, q, s)) = Bytes(F \o s) + Bytes(R)
  BY <1>1, <1>3, <1>4, <1>7, <1>8, BytesIs
<1>10. Bytes(Replaced(t, p, q, s)) = (Bytes(t) - Bytes(m)) + Bytes(s)
  <2> DEFINE a == Bytes(F)
             c == Bytes(m)
             d == Bytes(R)
             f == Bytes(s)
             x == Bytes(t)
             y == Bytes(Replaced(t, p, q, s))
  <2>1. a \in Nat /\ c \in Nat /\ d \in Nat /\ f \in Nat
    BY <1>9
  <2>2. x = (a + c) + d /\ y = (a + f) + d
    BY <1>6, <1>9
  <2> HIDE DEF a, c, d, f, x, y
  <2>3. y = (x - c) + f
    BY <2>1, <2>2
  <2> QED
    BY <2>3 DEF a, c, d, f, x, y
<1> QED
  BY <1>10 DEF m

-----------------------------------------------------------------------------
(* A node with links on k levels; one whose bytes are counted and fit.     *)
Boxed(c, k) == \E s, n, f : c = [str |-> s, num_bytes |-> n, nexts |-> [i \in 1 .. k |-> f[i]]]
Cell(c, k) ==
  \E s \in Seq(Chars) : \E f :
    /\ Bytes(s) <= ROPE_NODE_STR_SIZE
    /\ c = [str |-> s, num_bytes |-> Bytes(s), nexts |-> [i \in 1 .. k |-> f[i]]]

(* The nodes nd hold the text t as the row g says, for the rope r.         *)
Part(c, t, from, to) == Len(c.str) = to - from /\ \A j \in 1 .. to - from : c.str[j] = t[from + j]
Shape(nd, r, g, t) ==
  /\ t \in Seq(Chars) /\ Row(g, r, Len(t)) /\ Linked(nd, g, Len(t))
  /\ g.nodes \ {r} \subseteq Blocks /\ g.tall[r] <= ROPE_MAX_HEIGHT
  /\ \A x \in g.nodes : Cell(nd[x], g.tall[x]) /\ Part(nd[x], t, g.start[x], g.end[x])

LEMMA BoxedIs ==
  ASSUME NEW c, NEW k \in Nat, Boxed(c, k)
  PROVE  /\ c = [str |-> c.str, num_bytes |-> c.num_bytes, nexts |-> c.nexts]
         /\ c.nexts = [i \in 1 .. k |-> c.nexts[i]] /\ DOMAIN c.nexts = 1 .. k
<1>1. PICK s, n, f : c = [str |-> s, num_bytes |-> n, nexts |-> [i \in 1 .. k |-> f[i]]]
  BY DEF Boxed
<1> QED
  BY <1>1

LEMMA CellIs ==
  ASSUME NEW c, NEW k \in Nat, Cell(c, k)
  PROVE  /\ Boxed(c, k) /\ c.str \in Seq(Chars) /\ c.num_bytes = Bytes(c.str)
         /\ Bytes(c.str) <= ROPE_NODE_STR_SIZE /\ Bytes(c.str) \in Nat /\ c.num_bytes \in Nat
         /\ c.nexts = [i \in 1 .. k |-> c.nexts[i]] /\ DOMAIN c.nexts = 1 .. k
         /\ Len(c.nexts) = k
<1>1. PICK s \in Seq(Chars) : \E f :
             /\ Bytes(s) <= ROPE_NODE_STR_SIZE
             /\ c = [str |-> s, num_bytes |-> Bytes(s), nexts |-> [i \in 1 .. k |-> f[i]]]
  BY DEF Cell
<1>2. PICK f : /\ Bytes(s) <= ROPE_NODE_STR_SIZE
               /\ c = [str |-> s, num_bytes |-> Bytes(s), nexts |-> [i \in 1 .. k |-> f[i]]]
  BY <1>1
<1>3. c.str = s /\ c.num_bytes = Bytes(s) /\ c.nexts = [i \in 1 .. k |-> f[i]]
  BY <1>2
<1>4. Bytes(s) \in Nat
  BY BytesIs
<1>5. Boxed(c, k)
  BY <1>2 DEF Boxed
<1>6. DOMAIN c.nexts = 1 .. k /\ c.nexts = [i \in 1 .. k |-> c.nexts[i]]
  BY <1>3
<1>7. Len(c.nexts) = k
  <2> DEFINE seq == [i \in 1 .. k |-> f[i]]
  <2>1. seq \in Seq({f[i] : i \in 1 .. k})
    OBVIOUS
  <2>2. DOMAIN seq = 1 .. k
    OBVIOUS
  <2> HIDE DEF seq
  <2>3. Len(seq) = k
    BY <2>1, <2>2, LenProperties
  <2> QED
    BY <1>3, <2>3 DEF seq
<1> QED
  BY <1>2, <1>3, <1>4, <1>5, <1>6, <1>7

(* A node made of parts that are those of a cell is one.                   *)
LEMMA CellOf ==
  ASSUME NEW c, NEW k \in Nat, NEW s \in Seq(Chars), Bytes(s) <= ROPE_NODE_STR_SIZE, NEW f,
         c = [str |-> s, num_bytes |-> Bytes(s), nexts |-> [i \in 1 .. k |-> f[i]]]
  PROVE  Cell(c, k)
BY DEF Cell

LEMMA PartEdited ==
  ASSUME NEW t \in Seq(Chars), NEW s \in Seq(Chars), NEW str \in Seq(Chars),
         NEW from \in Nat, NEW to \in Nat, NEW p \in Nat, NEW q \in Nat,
         NEW a \in Nat, NEW z \in Nat, NEW d \in Int,
         from + a = p, from + z = q, p <= q, q <= to, to <= Len(t),
         NEW c, c.str = str, Part(c, t, from, to),
         NEW c2, c2.str = Replaced(str, a, z, s), d = Len(s) - (q - p)
  PROVE  Part(c2, Replaced(t, p, q, s), from, to + d)
<1> DEFINE w == Replaced(str, a, z, s)
           n == (to + d) - from
           v == Replaced(t, p, q, s)
           ls == Len(s)
           lt == Len(t)
           lstr == Len(str)
           lw == Len(w)
<1>1. lt \in Nat /\ ls \in Nat /\ lstr \in Nat /\ lstr = to - from /\ to <= lt
      /\ d = ls - (q - p)
  BY DEF Part
<1> HIDE DEF ls, lt, lstr
<1>2. z \in 0 .. lstr /\ a \in 0 .. z /\ q \in 0 .. lt /\ p \in 0 .. q
  BY <1>1
<1>3. /\ \A i \in 1 .. p : v[i] = t[i]
      /\ \A j \in 1 .. ls : v[p + j] = s[j]
      /\ \A j \in 1 .. lt - q : v[(p + ls) + j] = t[q + j]
  BY ONLY ZenonT(60), <1>2, ReplacedIs, s \in Seq(Chars), t \in Seq(Chars) DEF ls, lt
<1>4. /\ lw = (lstr - (z - a)) + ls
      /\ \A i \in 1 .. a : w[i] = str[i]
      /\ \A j \in 1 .. ls : w[a + j] = s[j]
      /\ \A j \in 1 .. lstr - z : w[(a + ls) + j] = str[z + j]
  BY ONLY ZenonT(60), <1>2, ReplacedIs, s \in Seq(Chars), str \in Seq(Chars) DEF ls, lstr
<1> HIDE DEF v, w, lw
<1>5. \A j \in 1 .. to - from : str[j] = t[from + j]
  BY DEF Part
<1>0. n \in Int /\ n = (to + (ls - (q - p))) - from
  BY ONLY <1>1, from \in Nat, to \in Nat, p \in Nat, q \in Nat, d \in Int
<1> HIDE DEF n
<1>6. lw = n
  <2>1. lw = (lstr - (z - a)) + ls /\ from + a = p /\ from + z = q
    BY <1>4
  <2> QED
    BY ONLY <1>0, <1>1, <2>1, from \in Nat, to \in Nat, p \in Nat, q \in Nat, a \in Nat, z \in Nat
<1>7. ASSUME NEW j \in 1 .. n PROVE w[j] = v[from + j]
  <2>0. /\ j \in Nat /\ j >= 1 /\ j <= n
        /\ n = (to + (ls - (q - p))) - from /\ from + a = p /\ from + z = q
    BY <1>0
  <2>1. CASE j <= a
    <3>1. j \in 1 .. a /\ j \in 1 .. to - from /\ from + j \in 1 .. p
      BY <1>1, <1>2, <2>0, <2>1
    <3> QED
      BY <1>3, <1>4, <1>5, <3>1
  <2>2. CASE j > a /\ j <= a + ls
    <3>1. PICK k \in 1 .. ls : j = a + k
      <4>1. j - a \in 1 .. ls /\ j = a + (j - a)
        BY <1>1, <2>0, <2>2
      <4> QED
        BY <4>1
    <3>2. from + j = p + k
      BY <1>1, <2>0, <3>1
    <3> QED
      BY ZenonT(60), <1>3, <1>4, <3>1, <3>2
  <2>3. CASE j > a + ls
    <3>1. PICK k \in 1 .. lstr - z : j = (a + ls) + k
      <4>1. j - (a + ls) \in 1 .. lstr - z /\ j = (a + ls) + (j - (a + ls))
        BY <1>1, <2>0, <2>3
      <4> QED
        BY <4>1
    <3>2. /\ from + j = (p + ls) + k /\ k \in 1 .. lt - q
          /\ z + k \in 1 .. to - from /\ from + (z + k) = q + k
      BY <1>1, <2>0, <3>1
    <3>3. w[j] = str[z + k] /\ v[from + j] = t[q + k]
      BY <1>3, <1>4, <3>1, <3>2
    <3>4. str[z + k] = t[from + (z + k)]
      BY <1>5, <3>2
    <3> QED
      BY <3>2, <3>3, <3>4
  <2> QED
    BY <1>1, <2>0, <2>1, <2>2, <2>3
<1>8. Len(c2.str) = n /\ \A j \in 1 .. n : c2.str[j] = v[from + j]
  BY <1>6, <1>7 DEF w, lw
<1> QED
  BY <1>8 DEF v, n, Part

LEMMA PartBeside ==
  ASSUME NEW t \in Seq(Chars), NEW s \in Seq(Chars),
         NEW from \in Nat, NEW to \in Nat, NEW p \in Nat, NEW q \in Nat,
         p <= q, q <= Len(t), from <= to, to <= Len(t), NEW c, Part(c, t, from, to)
  PROVE  LET d == Len(s) - (q - p)
         IN  /\ to <= p => Part(c, Replaced(t, p, q, s), from, to)
             /\ q <= from => Part(c, Replaced(t, p, q, s), from + d, to + d)
<1> DEFINE d == Len(s) - (q - p)
           v == Replaced(t, p, q, s)
<1>1. Len(t) \in Nat /\ Len(s) \in Nat /\ d \in Int
  OBVIOUS
<1>2. /\ \A i \in 1 .. p : v[i] = t[i]
      /\ \A j \in 1 .. Len(t) - q : v[(p + Len(s)) + j] = t[q + j]
  <2>1. q \in 0 .. Len(t) /\ p \in 0 .. q
    BY <1>1
  <2> QED
    BY ONLY <2>1, ReplacedIs, s \in Seq(Chars), t \in Seq(Chars)
<1> HIDE DEF v
<1>3. ASSUME to <= p PROVE Part(c, v, from, to)
  <2>1. ASSUME NEW j \in 1 .. to - from PROVE v[from + j] = t[from + j]
    <3>1. from + j \in 1 .. p
      BY <1>3
    <3> QED
      BY <1>2, <3>1
  <2> QED
    BY <2>1 DEF Part
<1>4. ASSUME q <= from PROVE Part(c, v, from + d, to + d)
  <2>1. (to + d) - (from + d) = to - from
    BY <1>1
  <2>2. ASSUME NEW j \in 1 .. to - from PROVE v[(from + d) + j] = t[from + j]
    <3>1. PICK k \in 1 .. Len(t) - q : k = (from - q) + j
      <4>1. (from - q) + j \in 1 .. Len(t) - q
        BY <1>1, <1>4
      <4> QED
        BY <4>1
    <3>2. (p + Len(s)) + k = (from + d) + j /\ q + k = from + j
      BY <1>1, <3>1
    <3> QED
      BY <1>2, <3>2
  <2> QED
    BY <2>1, <2>2 DEF Part
<1> QED
  BY <1>3, <1>4 DEF v

(* The text of the nodes when that of one is edited inside.                *)
Texted(nd, g, t) == \A x \in g.nodes : Part(nd[x], t, g.start[x], g.end[x])
SameText(nd, new, S) == \A x \in S : new[x].str = nd[x].str
LEMMA ResizedText ==
  ASSUME NEW g, NEW r, NEW t \in Seq(Chars), Row(g, r, Len(t)), NEW e \in g.nodes,
         NEW s \in Seq(Chars), NEW p \in Nat, NEW q \in Nat, p <= q,
         NEW a \in Nat, NEW z \in Nat, g.start[e] + a = p, g.start[e] + z = q, q <= g.end[e],
         NEW nd, NEW new, Texted(nd, g, t), nd[e].str \in Seq(Chars),
         new[e].str = Replaced(nd[e].str, a, z, s), SameText(nd, new, g.nodes \ {e}),
         NEW d \in Int, d = Len(s) - (q - p)
  PROVE  Texted(new, Resized(g, e, d), Replaced(t, p, q, s))
<1> DEFINE h == Resized(g, e, d)
           v == Replaced(t, p, q, s)
<1>1. Len(t) \in Nat /\ Len(s) \in Nat /\ d \in Int
  OBVIOUS
<1>2. /\ h.nodes = g.nodes
      /\ \A x \in g.nodes : g.end[x] > g.end[e] =>
           h.start[x] = g.start[x] + d /\ h.end[x] = g.end[x] + d
      /\ h.start[e] = g.start[e] /\ h.end[e] = g.end[e] + d
      /\ \A x \in g.nodes : g.end[x] < g.end[e] =>
           h.start[x] = g.start[x] /\ h.end[x] = g.end[x]
  BY ONLY <1>1, ResizedIs, Row(g, r, Len(t)), e \in g.nodes
<1> HIDE DEF h
<1>3. /\ \A x \in g.nodes : g.start[x] \in Nat /\ g.end[x] \in Nat
      /\ \A x, y \in g.nodes : x # y => g.end[x] # g.end[y]
      /\ \A x, y \in g.nodes : g.end[x] < g.end[y] => g.end[x] <= g.start[y]
  BY ONLY <1>1, RowOrder, Row(g, r, Len(t))
<1>4. \A x \in g.nodes : g.start[x] <= g.end[x] /\ g.end[x] <= Len(t)
  BY ONLY Row(g, r, Len(t)) DEF Row
<1>5. \A x \in g.nodes : Part(nd[x], t, g.start[x], g.end[x])
  BY DEF Texted
<1>6. Part(new[e], v, h.start[e], h.end[e])
  <2> DEFINE from == g.start[e]
             to == g.end[e]
             c == nd[e]
             c2 == new[e]
  <2>1. /\ from \in Nat /\ to \in Nat /\ from + a = p /\ from + z = q /\ q <= to /\ to <= Len(t)
        /\ c.str \in Seq(Chars) /\ c2.str = Replaced(c.str, a, z, s)
    BY <1>3, <1>4
  <2>2. Part(c, t, from, to)
    BY <1>5
  <2>4. h.start[e] = from /\ h.end[e] = to + d
    BY <1>2
  <2> HIDE DEF from, to, c, c2
  <2>7. Part(c2, Replaced(t, p, q, s), from, to + d)
    BY ONLY <2>1, <2>2, PartEdited, t \in Seq(Chars), s \in Seq(Chars), p \in Nat,
            q \in Nat, p <= q, a \in Nat, z \in Nat, d \in Int, d = Len(s) - (q - p)
  <2> QED
    BY <2>4, <2>7 DEF v, c2
<1>7. ASSUME NEW x \in g.nodes \ {e} PROVE Part(new[x], v, h.start[x], h.end[x])
  <2> DEFINE from == g.start[x]
             to == g.end[x]
  <2>0. from \in Nat /\ to \in Nat /\ from <= to /\ to <= Len(t) /\ q <= Len(t) /\ g.end[e] \in Nat
    BY <1>1, <1>3, <1>4
  <2>1. Part(nd[x], t, from, to)
    BY <1>5
  <2>2. Part(nd[x], v, h.start[x], h.end[x])
    <3>1. CASE g.end[x] < g.end[e]
      <4>1. to <= p /\ h.start[x] = from /\ h.end[x] = to
        <5>1. g.end[x] <= g.start[e] /\ g.start[e] \in Nat
          BY <1>3, <3>1
        <5>2. g.start[e] + a = p
          OBVIOUS
        <5>3. to <= p
          <6>1. to <= g.start[e]
            BY <5>1
          <6> HIDE DEF to
          <6> QED
            BY ONLY <2>0, <5>1, <5>2, <6>1, a \in Nat, p \in Nat
        <5> QED
          BY <1>2, <3>1, <5>3
      <4> HIDE DEF from, to
      <4>2. Part(nd[x], Replaced(t, p, q, s), from, to)
        BY ONLY <2>0, <2>1, <4>1, PartBeside, t \in Seq(Chars), s \in Seq(Chars), p \in Nat, q \in Nat, p <= q
      <4> QED
        BY <4>1, <4>2 DEF v
    <3>2. CASE g.end[x] > g.end[e]
      <4>1. q <= from /\ h.start[x] = from + d /\ h.end[x] = to + d
        <5>1. g.end[e] <= g.start[x]
          BY <1>3, <3>2
        <5>2. q <= g.end[e]
          OBVIOUS
        <5>3. q <= from
          BY ONLY <2>0, <5>1, <5>2, q \in Nat
        <5> QED
          BY <1>2, <3>2, <5>3
      <4> HIDE DEF from, to
      <4>2. Part(nd[x], Replaced(t, p, q, s), from + d, to + d)
        BY ONLY <2>0, <2>1, <4>1, PartBeside, t \in Seq(Chars), s \in Seq(Chars), p \in Nat, q \in Nat,
                p <= q, d = Len(s) - (q - p), d \in Int
      <4> QED
        BY <4>1, <4>2 DEF v
    <3> QED
      BY <1>3, <3>1, <3>2
  <2>3. new[x].str = nd[x].str
    BY DEF SameText
  <2> QED
    BY <2>2, <2>3 DEF Part
<1>8. Texted(new, h, v)
  BY ONLY <1>2, <1>6, <1>7 DEF Texted
<1> QED
  BY <1>8 DEF h, v

(* What a shape says of its nodes, one by one.                             *)
LEMMA ShapeIs ==
  ASSUME NEW nd, NEW r, NEW g, NEW t, Shape(nd, r, g, t)
  PROVE  /\ t \in Seq(Chars) /\ Len(t) \in Nat /\ Row(g, r, Len(t)) /\ Linked(nd, g, Len(t))
         /\ r \in g.nodes /\ g.start[r] = 0 /\ g.tall[r] \in Nat /\ g.tall[r] <= ROPE_MAX_HEIGHT
         /\ \A x \in g.nodes :
              /\ g.start[x] \in Nat /\ g.end[x] \in Nat /\ g.tall[x] \in Nat /\ g.tall[x] >= 1
              /\ g.start[x] <= g.end[x] /\ g.end[x] <= Len(t) /\ g.tall[x] <= g.tall[r]
              /\ Cell(nd[x], g.tall[x]) /\ Part(nd[x], t, g.start[x], g.end[x])
              /\ nd[x].str \in Seq(Chars) /\ nd[x].num_bytes = Bytes(nd[x].str)
              /\ Bytes(nd[x].str) \in Nat /\ Bytes(nd[x].str) <= ROPE_NODE_STR_SIZE
              /\ Len(nd[x].str) = g.end[x] - g.start[x]
              /\ DOMAIN nd[x].nexts = 1 .. g.tall[x] /\ Len(nd[x].nexts) = g.tall[x]
         /\ \A x \in g.nodes \ {r} : g.start[x] < g.end[x] /\ g.tall[x] < g.tall[r] /\ x \in Blocks
<1>1. t \in Seq(Chars) /\ Row(g, r, Len(t)) /\ Linked(nd, g, Len(t))
  BY DEF Shape
<1>2. Len(t) \in Nat
  BY <1>1
<1>3. /\ r \in g.nodes /\ g.start[r] = 0 /\ g.tall[r] \in Nat /\ g.tall[r] <= ROPE_MAX_HEIGHT
      /\ \A x \in g.nodes \ {r} : g.start[x] < g.end[x] /\ g.tall[x] < g.tall[r] /\ x \in Blocks
  BY <1>1 DEF Shape, Row
<1>4. \A x \in g.nodes :
        /\ g.start[x] \in Nat /\ g.end[x] \in Nat /\ g.tall[x] \in Nat /\ g.tall[x] >= 1
        /\ g.start[x] <= g.end[x] /\ g.end[x] <= Len(t) /\ g.tall[x] <= g.tall[r]
  <2>1. \A x \in g.nodes :
          /\ g.start[x] \in Nat /\ g.end[x] \in Nat /\ g.tall[x] \in Nat /\ g.tall[x] >= 1
          /\ g.start[x] <= g.end[x] /\ g.end[x] <= Len(t)
    BY <1>1 DEF Row
  <2> QED
    BY <1>3, <2>1
<1>5. \A x \in g.nodes : Cell(nd[x], g.tall[x]) /\ Part(nd[x], t, g.start[x], g.end[x])
  BY DEF Shape
<1>6. ASSUME NEW x \in g.nodes
      PROVE  /\ nd[x].str \in Seq(Chars) /\ nd[x].num_bytes = Bytes(nd[x].str)
             /\ Bytes(nd[x].str) \in Nat /\ Bytes(nd[x].str) <= ROPE_NODE_STR_SIZE
             /\ DOMAIN nd[x].nexts = 1 .. g.tall[x] /\ Len(nd[x].nexts) = g.tall[x]
  <2>1. g.tall[x] \in Nat /\ Cell(nd[x], g.tall[x])
    BY <1>4, <1>5
  <2> QED
    BY ONLY <2>1, CellIs
<1>7. \A x \in g.nodes : Len(nd[x].str) = g.end[x] - g.start[x]
  BY <1>5 DEF Part
<1> QED
  BY <1>1, <1>2, <1>3, <1>4, <1>5, <1>6, <1>7

(* The edit of one node's text, with the links that span it adjusted.      *)
Stretched(nd, g, e, d, x) ==
  [i \in 1 .. g.tall[x] |-> IF LastAt(g, e, i, x) THEN Longer(nd[x].nexts[i], d)
                                                  ELSE nd[x].nexts[i]]

(* The numbers of an edit: the characters p + 1 to q of the text, which    *)
(* are a + 1 to z of those of e, give way to s, which makes d more of them.*)
Edit(g, r, e, s, p, q, a, z, d) ==
  /\ s \in Seq(Chars) /\ p \in Nat /\ q \in Nat /\ p <= q /\ a \in Nat /\ z \in Nat /\ d \in Int
  /\ g.start[e] + a = p /\ g.start[e] + z = q /\ q <= g.end[e]
  /\ d = Len(s) - (q - p) /\ (e # r => g.start[e] < g.end[e] + d)
Edited(nd, new, g, e, str, d) ==
  /\ new[e] = [str |-> str, num_bytes |-> Bytes(str), nexts |-> Stretched(nd, g, e, d, e)]
  /\ \A x \in g.nodes \ {e} :
       new[x] = [str |-> nd[x].str, num_bytes |-> nd[x].num_bytes,
                 nexts |-> Stretched(nd, g, e, d, x)]

LEMMA EditedShape ==
  ASSUME NEW nd, NEW r, NEW g, NEW t, Shape(nd, r, g, t), NEW e \in g.nodes,
         NEW s, NEW p, NEW q, NEW a, NEW z, NEW d, Edit(g, r, e, s, p, q, a, z, d),
         NEW str \in Seq(Chars), str = Replaced(nd[e].str, a, z, s),
         Bytes(str) <= ROPE_NODE_STR_SIZE, NEW new, Edited(nd, new, g, e, str, d)
  PROVE  /\ Shape(new, r, Resized(g, e, d), Replaced(t, p, q, s))
         /\ Len(Replaced(t, p, q, s)) = Len(t) + d
<1> DEFINE h == Resized(g, e, d)
           v == Replaced(t, p, q, s)
<1>0. /\ s \in Seq(Chars) /\ p \in Nat /\ q \in Nat /\ p <= q /\ a \in Nat /\ z \in Nat /\ d \in Int
      /\ g.start[e] + a = p /\ g.start[e] + z = q /\ q <= g.end[e]
      /\ d = Len(s) - (q - p) /\ (e # r => g.start[e] < g.end[e] + d)
  BY DEF Edit
<1>1. /\ t \in Seq(Chars) /\ Len(t) \in Nat /\ Row(g, r, Len(t)) /\ Linked(nd, g, Len(t))
      /\ g.tall[r] <= ROPE_MAX_HEIGHT
      /\ \A x \in g.nodes :
           /\ g.start[x] \in Nat /\ g.end[x] \in Nat /\ g.tall[x] \in Nat
           /\ g.end[x] <= Len(t) /\ nd[x].str \in Seq(Chars)
           /\ nd[x].num_bytes = Bytes(nd[x].str) /\ Bytes(nd[x].str) <= ROPE_NODE_STR_SIZE
           /\ Part(nd[x], t, g.start[x], g.end[x])
      /\ \A x \in g.nodes \ {r} : x \in Blocks
  BY ShapeIs
<1>2. q \in 0 .. Len(t) /\ p \in 0 .. q
  <2>1. /\ g.end[e] \in Nat /\ g.end[e] <= Len(t) /\ q <= g.end[e] /\ Len(t) \in Nat
        /\ p \in Nat /\ q \in Nat /\ p <= q
    BY <1>0, <1>1
  <2> QED
    BY ONLY <2>1
<1>3. v \in Seq(Chars) /\ Len(v) = (Len(t) - (q - p)) + Len(s) /\ Len(s) \in Nat
  <2>1. t \in Seq(Chars) /\ s \in Seq(Chars)
    BY <1>0, <1>1
  <2>2. Len(s) \in Nat
    BY ONLY <2>1
  <2>3. v \in Seq(Chars) /\ Len(v) = (Len(t) - (q - p)) + Len(s)
    BY ONLY <1>2, <2>1, ReplacedIs
  <2> QED
    BY ONLY <2>2, <2>3
<1>4. Len(v) = Len(t) + d
  <2> DEFINE lv == Len(v)
             lt == Len(t)
             ls == Len(s)
  <2>1. /\ lv = (lt - (q - p)) + ls /\ lt \in Nat /\ ls \in Nat /\ d = ls - (q - p)
        /\ p \in Nat /\ q \in Nat /\ d \in Int
    BY <1>0, <1>1, <1>3
  <2> HIDE DEF lv, lt, ls
  <2>2. lv = lt + d
    BY ONLY <2>1
  <2> QED
    BY <2>2 DEF lv, lt
<1>5. g.start[e] <= g.end[e] + d
  <2> DEFINE from == g.start[e]
             to == g.end[e]
             ls == Len(s)
  <2>1. /\ from \in Nat /\ to \in Nat /\ ls \in Nat /\ d = ls - (q - p) /\ from + a = p /\ q <= to
        /\ p \in Nat /\ q \in Nat /\ a \in Nat /\ d \in Int
    BY <1>0, <1>1, <1>3
  <2> HIDE DEF from, to, ls
  <2>2. from <= to + d
    BY ONLY <2>1
  <2> QED
    BY <2>2 DEF from, to
<1>16. /\ Len(t) \in Nat /\ Row(g, r, Len(t)) /\ Linked(nd, g, Len(t)) /\ d \in Int
       /\ (e # r => g.start[e] < g.end[e] + d)
  BY ONLY <1>0, <1>1
<1>6. Row(h, r, Len(t) + d)
  BY ONLY <1>5, <1>16, ResizedRow, e \in g.nodes
<1>7. h.nodes = g.nodes /\ h.tall = g.tall
  BY DEF Resized
<1>15. /\ new[e] = [str |-> str, num_bytes |-> Bytes(str), nexts |-> Stretched(nd, g, e, d, e)]
       /\ \A x \in g.nodes \ {e} :
            new[x] = [str |-> nd[x].str, num_bytes |-> nd[x].num_bytes,
                      nexts |-> Stretched(nd, g, e, d, x)]
  BY DEF Edited
<1>8. \A x \in g.nodes : new[x].nexts = Stretched(nd, g, e, d, x)
  <2> TAKE x \in g.nodes
  <2>1. CASE x = e
    BY ONLY <1>15, <2>1
  <2>2. CASE x # e
    <3>1. new[x] = [str |-> nd[x].str, num_bytes |-> nd[x].num_bytes,
                    nexts |-> Stretched(nd, g, e, d, x)]
      BY ONLY <1>15, <2>2, x \in g.nodes
    <3> QED
      BY ONLY <3>1
  <2> QED
    BY <2>1, <2>2
<1>9. \A x \in g.nodes : \A i \in 1 .. g.tall[x] :
        new[x].nexts[i] = IF LastAt(g, e, i, x) THEN Longer(nd[x].nexts[i], d) ELSE nd[x].nexts[i]
  <2> TAKE x \in g.nodes
  <2> TAKE i \in 1 .. g.tall[x]
  <2>1. new[x].nexts = Stretched(nd, g, e, d, x)
    BY ONLY <1>8, x \in g.nodes
  <2> QED
    BY ONLY <2>1, i \in 1 .. g.tall[x] DEF Stretched
<1>10. Linked(new, h, Len(t) + d)
  BY ONLY <1>9, <1>16, ResizedLinks, e \in g.nodes
<1>11. \A x \in g.nodes : Part(new[x], v, h.start[x], h.end[x])
  <2>0. t \in Seq(Chars) /\ Row(g, r, Len(t))
    BY ONLY <1>1
  <2>1. Texted(nd, g, t)
    BY ONLY <1>1 DEF Texted
  <2>2. nd[e].str \in Seq(Chars)
    BY <1>1
  <2>3. new[e].str = Replaced(nd[e].str, a, z, s)
    BY <1>15
  <2>4. SameText(nd, new, g.nodes \ {e})
    <3> USE DEF SameText
    <3> TAKE x \in g.nodes \ {e}
    <3>1. new[x] = [str |-> nd[x].str, num_bytes |-> nd[x].num_bytes,
                    nexts |-> Stretched(nd, g, e, d, x)]
      BY ONLY <1>15, x \in g.nodes \ {e}
    <3> QED
      BY ONLY <3>1
  <2>5. /\ g.start[e] + a = p /\ g.start[e] + z = q /\ q <= g.end[e] /\ p <= q
        /\ d = Len(s) - (q - p) /\ s \in Seq(Chars) /\ p \in Nat /\ q \in Nat
        /\ a \in Nat /\ z \in Nat /\ d \in Int
    BY ONLY <1>0
  <2>6. Texted(new, h, v)
    BY ONLY <2>0, <2>1, <2>2, <2>3, <2>4, <2>5, ResizedText, e \in g.nodes
  <2> QED
    BY ONLY <1>7, <2>6 DEF Texted
<1>12. ASSUME NEW x \in g.nodes PROVE Cell(new[x], g.tall[x])
  <2>1. PICK f : f = Stretched(nd, g, e, d, x)
    OBVIOUS
  <2>2. f = [i \in 1 .. g.tall[x] |-> f[i]]
    BY <2>1 DEF Stretched
  <2>3. g.tall[x] \in Nat
    BY <1>1
  <2>4. CASE x = e
    <3>1. new[x] = [str |-> str, num_bytes |-> Bytes(str), nexts |-> [i \in 1 .. g.tall[x] |-> f[i]]]
      BY <1>15, <2>1, <2>2, <2>4
    <3> QED
      BY ONLY <2>3, <3>1, CellOf, str \in Seq(Chars), Bytes(str) <= ROPE_NODE_STR_SIZE
  <2>5. CASE x # e
    <3> DEFINE w == nd[x].str
    <3>1. new[x] = [str |-> w, num_bytes |-> Bytes(w), nexts |-> [i \in 1 .. g.tall[x] |-> f[i]]]
      BY <1>1, <1>15, <2>1, <2>2, <2>5
    <3>2. w \in Seq(Chars) /\ Bytes(w) <= ROPE_NODE_STR_SIZE
      BY <1>1
    <3> HIDE DEF w
    <3> QED
      BY ONLY <2>3, <3>1, <3>2, CellOf
  <2> QED
    BY <2>4, <2>5
<1> HIDE DEF h
<1>13. Row(h, r, Len(v)) /\ Linked(new, h, Len(v))
  BY <1>4, <1>6, <1>10
<1>14. Shape(new, r, h, v)
  BY <1>1, <1>3, <1>7, <1>11, <1>12, <1>13 DEF Shape
<1> QED
  BY <1>4, <1>14 DEF h

(* A node behind b: the text s goes in where the text of b ends.           *)
Parted(nd, g, b, new, k, n, x) ==
  [i \in 1 .. g.tall[x] |->
     IF LastAt(g, b, i, x)
       THEN IF i <= k THEN Link(new, g.end[b] - g.start[x]) ELSE Longer(nd[x].nexts[i], n)
       ELSE nd[x].nexts[i]]

LEMMA InsertedText ==
  ASSUME NEW g, NEW r, NEW t \in Seq(Chars), Row(g, r, Len(t)), NEW b \in g.nodes,
         NEW new, new \notin g.nodes, NEW k \in Nat, NEW s \in Seq(Chars),
         NEW n \in Nat \ {0}, n = Len(s), NEW p \in Nat, p = g.end[b],
         NEW nd, NEW nd2, Texted(nd, g, t), SameText(nd, nd2, g.nodes), nd2[new].str = s
  PROVE  Texted(nd2, Inserted(g, b, new, k, n), Replaced(t, p, p, s))
<1> DEFINE h == Inserted(g, b, new, k, n)
           v == Replaced(t, p, p, s)
<1>1. Len(t) \in Nat /\ Len(s) \in Nat
  OBVIOUS
<1>2. /\ h.nodes = g.nodes \cup {new}
      /\ h.start[new] = g.end[b] /\ h.end[new] = g.end[b] + n
      /\ \A x \in g.nodes : g.end[x] > g.end[b] =>
           h.start[x] = g.start[x] + n /\ h.end[x] = g.end[x] + n
      /\ \A x \in g.nodes : g.end[x] <= g.end[b] =>
           h.start[x] = g.start[x] /\ h.end[x] = g.end[x]
  <2>1. n \in Nat
    OBVIOUS
  <2> QED
    BY ONLY <1>1, <2>1, InsertedIs, Row(g, r, Len(t)), b \in g.nodes, new \notin g.nodes, k \in Nat
<1> HIDE DEF h
<1>3. /\ \A x \in g.nodes : g.start[x] \in Nat /\ g.end[x] \in Nat
      /\ \A x, y \in g.nodes : g.end[x] < g.end[y] => g.end[x] <= g.start[y]
  BY ONLY <1>1, RowOrder, Row(g, r, Len(t))
<1>4. \A x \in g.nodes : g.start[x] <= g.end[x] /\ g.end[x] <= Len(t)
  BY ONLY Row(g, r, Len(t)) DEF Row
<1>5. p <= Len(t)
  BY <1>4
<1>6. Part(nd2[new], v, h.start[new], h.end[new])
  <2>1. p \in 0 .. Len(t) /\ p \in 0 .. p
    BY <1>1, <1>5
  <2>2. \A j \in 1 .. Len(s) : v[p + j] = s[j]
    BY ONLY <2>1, ReplacedIs, t \in Seq(Chars), s \in Seq(Chars)
  <2> HIDE DEF v
  <2>3. h.start[new] = p /\ h.end[new] = p + n /\ (p + n) - p = n
    BY <1>2
  <2>4. Len(nd2[new].str) = n /\ \A j \in 1 .. n : nd2[new].str[j] = v[p + j]
    BY <2>2
  <2> QED
    BY ONLY <2>3, <2>4 DEF Part
<1>7. ASSUME NEW x \in g.nodes PROVE Part(nd2[x], v, h.start[x], h.end[x])
  <2> DEFINE from == g.start[x]
             to == g.end[x]
             c == nd[x]
  <2>1. from \in Nat /\ to \in Nat /\ from <= to /\ to <= Len(t) /\ p <= Len(t)
    BY <1>3, <1>4, <1>5
  <2>2. Part(c, t, from, to)
    BY DEF Texted
  <2>3. Part(c, v, h.start[x], h.end[x])
    <3>1. CASE g.end[x] <= g.end[b]
      <4>1. to <= p /\ h.start[x] = from /\ h.end[x] = to
        BY <1>2, <3>1
      <4> HIDE DEF from, to, c
      <4>2. Part(c, Replaced(t, p, p, s), from, to)
        <5>1. p <= p
          OBVIOUS
        <5> QED
          BY ONLY <2>1, <2>2, <4>1, <5>1, PartBeside, t \in Seq(Chars), s \in Seq(Chars), p \in Nat
      <4> QED
        BY <4>1, <4>2 DEF v
    <3>2. CASE g.end[x] > g.end[b]
      <4>1. p <= from /\ h.start[x] = from + n /\ h.end[x] = to + n
        <5>1. g.end[b] <= g.start[x]
          BY <1>3, <3>2
        <5> QED
          BY <1>2, <3>2, <5>1
      <4>2. n = Len(s) - (p - p) /\ p <= p /\ n \in Int
        BY <1>1
      <4> HIDE DEF from, to, c
      <4>3. Part(c, Replaced(t, p, p, s), from + n, to + n)
        BY ONLY <2>1, <2>2, <4>1, <4>2, PartBeside, t \in Seq(Chars), s \in Seq(Chars), p \in Nat
      <4> QED
        BY <4>1, <4>3 DEF v
    <3> QED
      BY <1>3, <3>1, <3>2
  <2>4. nd2[x].str = nd[x].str
    BY DEF SameText
  <2> QED
    BY <2>3, <2>4 DEF Part
<1>8. Texted(nd2, h, v)
  <2> SUFFICES ASSUME NEW x \in h.nodes PROVE Part(nd2[x], v, h.start[x], h.end[x])
    BY DEF Texted
  <2> QED
    BY <1>2, <1>6, <1>7
<1> QED
  BY <1>8 DEF h, v

Spliced(nd, nd2, g, b, new, k, n, s) ==
  /\ \A x \in g.nodes :
       nd2[x] = [str |-> nd[x].str, num_bytes |-> nd[x].num_bytes,
                 nexts |-> Parted(nd, g, b, new, k, n, x)]
  /\ \E f :
       /\ nd2[new] = [str |-> s, num_bytes |-> Bytes(s), nexts |-> [i \in 1 .. k |-> f[i]]]
       /\ \A i \in 1 .. k : \E w \in g.nodes :
            /\ i <= g.tall[w] /\ LastAt(g, b, i, w)
            /\ f[i] = Longer(nd[w].nexts[i], n - (g.end[b] - g.start[w]))
LEMMA InsertedShape ==
  ASSUME NEW nd, NEW r, NEW g, NEW t, Shape(nd, r, g, t), NEW b \in g.nodes,
         NEW new \in Blocks, new \notin g.nodes, NEW k \in Nat \ {0}, k < g.tall[r],
         NEW s \in Seq(Chars), Bytes(s) <= ROPE_NODE_STR_SIZE, NEW n \in Nat \ {0}, n = Len(s),
         NEW p \in Nat, p = g.end[b], NEW nd2, Spliced(nd, nd2, g, b, new, k, n, s)
  PROVE  /\ Shape(nd2, r, Inserted(g, b, new, k, n), Replaced(t, p, p, s))
         /\ Len(Replaced(t, p, p, s)) = Len(t) + n
<1> DEFINE h == Inserted(g, b, new, k, n)
           v == Replaced(t, p, p, s)
<1>1. /\ t \in Seq(Chars) /\ Len(t) \in Nat /\ Row(g, r, Len(t)) /\ Linked(nd, g, Len(t))
      /\ g.tall[r] <= ROPE_MAX_HEIGHT /\ r \in g.nodes
      /\ \A x \in g.nodes :
           /\ g.end[x] \in Nat /\ g.end[x] <= Len(t) /\ g.tall[x] \in Nat
           /\ nd[x].str \in Seq(Chars)
           /\ nd[x].num_bytes = Bytes(nd[x].str) /\ Bytes(nd[x].str) <= ROPE_NODE_STR_SIZE
           /\ Part(nd[x], t, g.start[x], g.end[x])
      /\ \A x \in g.nodes \ {r} : x \in Blocks
  BY ShapeIs
<1>2. t \in Seq(Chars) /\ Row(g, r, Len(t)) /\ Linked(nd, g, Len(t)) /\ Len(t) \in Nat
  BY ONLY <1>1
<1>3. p \in 0 .. Len(t) /\ p \in 0 .. p
  BY <1>1
<1>4. v \in Seq(Chars) /\ Len(v) = (Len(t) - (p - p)) + Len(s)
  BY ONLY SMTT(60), <1>2, <1>3, ReplacedIs, s \in Seq(Chars)
<1>5. Len(v) = Len(t) + n
  <2> DEFINE lt == Len(t)
             lv == Len(v)
  <2>1. lv = (lt - (p - p)) + n /\ lt \in Nat
    BY <1>2, <1>4
  <2> HIDE DEF lv, lt
  <2>2. lv = lt + n
    BY ONLY <2>1, p \in Nat, n \in Nat \ {0}
  <2> QED
    BY <2>2 DEF lt, lv
<1>6. PICK f :
        /\ \A x \in g.nodes :
             nd2[x] = [str |-> nd[x].str, num_bytes |-> nd[x].num_bytes,
                       nexts |-> Parted(nd, g, b, new, k, n, x)]
        /\ nd2[new] = [str |-> s, num_bytes |-> Bytes(s), nexts |-> [i \in 1 .. k |-> f[i]]]
        /\ \A i \in 1 .. k : \E w \in g.nodes :
             /\ i <= g.tall[w] /\ LastAt(g, b, i, w)
             /\ f[i] = Longer(nd[w].nexts[i], n - (g.end[b] - g.start[w]))
  BY ONLY Spliced(nd, nd2, g, b, new, k, n, s) DEF Spliced
<1>7. SameText(nd, nd2, g.nodes)
  <2> USE DEF SameText
  <2> TAKE x \in g.nodes
  <2>1. nd2[x] = [str |-> nd[x].str, num_bytes |-> nd[x].num_bytes,
                  nexts |-> Parted(nd, g, b, new, k, n, x)]
    BY ONLY <1>6, x \in g.nodes
  <2> QED
    BY ONLY <2>1
<1>8. \A x \in g.nodes : nd2[x].nexts = Parted(nd, g, b, new, k, n, x)
  <2> TAKE x \in g.nodes
  <2>1. nd2[x] = [str |-> nd[x].str, num_bytes |-> nd[x].num_bytes,
                  nexts |-> Parted(nd, g, b, new, k, n, x)]
    BY ONLY <1>6, x \in g.nodes
  <2> QED
    BY ONLY <2>1
<1>9. nd2[new].str = s /\ nd2[new].nexts = [i \in 1 .. k |-> f[i]]
  BY ONLY <1>6
<1>10. Linked(nd2, h, Len(t) + n)
  <2>1. \A x \in g.nodes : \A i \in 1 .. g.tall[x] :
          nd2[x].nexts[i] = IF LastAt(g, b, i, x)
                               THEN IF i <= k THEN Link(new, g.end[b] - g.start[x])
                                              ELSE Longer(nd[x].nexts[i], n)
                               ELSE nd[x].nexts[i]
    <3> TAKE x \in g.nodes
    <3> TAKE i \in 1 .. g.tall[x]
    <3>1. nd2[x].nexts = Parted(nd, g, b, new, k, n, x)
      BY ONLY <1>8, x \in g.nodes
    <3> QED
      BY ONLY <3>1, i \in 1 .. g.tall[x] DEF Parted
  <2>2. \A i \in 1 .. k : \E w \in g.nodes :
          /\ i <= g.tall[w] /\ LastAt(g, b, i, w)
          /\ nd2[new].nexts[i] = Longer(nd[w].nexts[i], n - (g.end[b] - g.start[w]))
    <3> TAKE i \in 1 .. k
    <3>1. nd2[new].nexts[i] = f[i]
      BY ONLY <1>9, i \in 1 .. k
    <3>2. PICK w \in g.nodes : /\ i <= g.tall[w] /\ LastAt(g, b, i, w)
                               /\ f[i] = Longer(nd[w].nexts[i], n - (g.end[b] - g.start[w]))
      BY ONLY <1>6, i \in 1 .. k
    <3> WITNESS w \in g.nodes
    <3> QED
      BY ONLY <3>1, <3>2
  <2> QED
    BY ONLY <1>2, <2>1, <2>2, InsertedLinks, b \in g.nodes, new \notin g.nodes,
            k \in Nat \ {0}, n \in Nat \ {0}
<1>11. Row(h, r, Len(t) + n)
  BY ONLY <1>2, InsertedRow, b \in g.nodes, new \notin g.nodes, k \in Nat \ {0},
          k < g.tall[r], n \in Nat \ {0}
<1>12. Texted(nd2, h, v)
  <2>1. Texted(nd, g, t)
    BY ONLY <1>1 DEF Texted
  <2>2. k \in Nat /\ n = Len(s) /\ p = g.end[b]
    OBVIOUS
  <2>3. nd2[new].str = s
    BY ONLY <1>9
  <2> QED
    BY ONLY <1>2, <1>7, <2>1, <2>2, <2>3, InsertedText, b \in g.nodes, new \notin g.nodes,
            s \in Seq(Chars), n \in Nat \ {0}, p \in Nat
<1>13. /\ h.nodes = g.nodes \cup {new} /\ h.tall[new] = k
       /\ \A x \in g.nodes : h.tall[x] = g.tall[x]
  <2>1. k \in Nat /\ n \in Nat
    OBVIOUS
  <2> QED
    BY ONLY <1>2, <2>1, InsertedIs, b \in g.nodes, new \notin g.nodes
<1> HIDE DEF h, v
<1>14. ASSUME NEW x \in g.nodes PROVE Cell(nd2[x], g.tall[x])
  <2>1. PICK ff : ff = Parted(nd, g, b, new, k, n, x)
    OBVIOUS
  <2>2. ff = [i \in 1 .. g.tall[x] |-> ff[i]]
    BY ONLY <2>1 DEF Parted
  <2> DEFINE w == nd[x].str
  <2>3. g.tall[x] \in Nat /\ w \in Seq(Chars) /\ Bytes(w) <= ROPE_NODE_STR_SIZE
        /\ nd[x].num_bytes = Bytes(w)
    BY <1>1
  <2>4. nd2[x] = [str |-> w, num_bytes |-> nd[x].num_bytes, nexts |-> ff]
    BY ONLY <1>6, <2>1, x \in g.nodes
  <2> HIDE DEF w
  <2>5. nd2[x] = [str |-> w, num_bytes |-> Bytes(w), nexts |-> [i \in 1 .. g.tall[x] |-> ff[i]]]
    BY ONLY <2>2, <2>3, <2>4
  <2> QED
    BY ONLY <2>3, <2>5, CellOf
<1>15. Cell(nd2[new], k)
  <2>1. k \in Nat
    OBVIOUS
  <2> QED
    BY ONLY <1>6, <2>1, CellOf, s \in Seq(Chars), Bytes(s) <= ROPE_NODE_STR_SIZE
<1>16. \A x \in h.nodes : Cell(nd2[x], h.tall[x]) /\ Part(nd2[x], v, h.start[x], h.end[x])
  BY ONLY <1>12, <1>13, <1>14, <1>15 DEF Texted
<1>17. h.nodes \ {r} \subseteq Blocks /\ h.tall[r] <= ROPE_MAX_HEIGHT
  BY <1>1, <1>13
<1>18. Shape(nd2, r, h, v)
  BY ONLY <1>4, <1>5, <1>10, <1>11, <1>16, <1>17 DEF Shape
<1> QED
  BY <1>5, <1>18 DEF h, v

(* The node e, which is behind b, goes, and its text with it.              *)
Joined(nd, g, b, e, x) ==
  [i \in 1 .. g.tall[x] |->
     IF LastAt(g, b, i, x)
       THEN IF i <= g.tall[e]
              THEN Longer(nd[e].nexts[i], nd[x].nexts[i].skip_size - (g.end[e] - g.start[e]))
              ELSE Longer(nd[x].nexts[i], -(g.end[e] - g.start[e]))
       ELSE nd[x].nexts[i]]

LEMMA RemovedText ==
  ASSUME NEW g, NEW r, NEW t \in Seq(Chars), Row(g, r, Len(t)), NEW e \in g.nodes,
         NEW p \in Nat, NEW q \in Nat, p = g.start[e], q = g.end[e],
         NEW nd, NEW nd2, Texted(nd, g, t), SameText(nd, nd2, g.nodes \ {e})
  PROVE  Texted(nd2, Removed(g, e), Replaced(t, p, q, <<>>))
<1> DEFINE h == Removed(g, e)
           v == Replaced(t, p, q, <<>>)
           d == 0 - (q - p)
<1>1. Len(t) \in Nat /\ <<>> \in Seq(Chars) /\ d \in Int /\ d = Len(<<>>) - (q - p)
  <2>1. Len(<<>>) = 0 /\ <<>> \in Seq(Chars) /\ Len(t) \in Nat
    OBVIOUS
  <2>2. d \in Int
    BY ONLY p \in Nat, q \in Nat
  <2> QED
    BY ONLY <2>1, <2>2
<1>2. /\ h.nodes = g.nodes \ {e}
      /\ \A x \in h.nodes : g.end[x] > g.end[e] =>
           h.start[x] = g.start[x] - (g.end[e] - g.start[e])
           /\ h.end[x] = g.end[x] - (g.end[e] - g.start[e])
      /\ \A x \in h.nodes : g.end[x] < g.end[e] =>
           h.start[x] = g.start[x] /\ h.end[x] = g.end[x]
  BY ONLY <1>1, RemovedIs, Row(g, r, Len(t)), e \in g.nodes
<1> HIDE DEF h
<1>3. /\ \A x \in g.nodes : g.start[x] \in Nat /\ g.end[x] \in Nat
      /\ \A x, y \in g.nodes : x # y => g.end[x] # g.end[y]
      /\ \A x, y \in g.nodes : g.end[x] < g.end[y] => g.end[x] <= g.start[y]
  BY ONLY <1>1, RowOrder, Row(g, r, Len(t))
<1>4. \A x \in g.nodes : g.start[x] <= g.end[x] /\ g.end[x] <= Len(t)
  BY ONLY Row(g, r, Len(t)) DEF Row
<1>5. p <= q /\ q <= Len(t)
  BY <1>4
<1>6. ASSUME NEW x \in h.nodes PROVE Part(nd2[x], v, h.start[x], h.end[x])
  <2> DEFINE from == g.start[x]
             to == g.end[x]
             c == nd[x]
  <2>0. x \in g.nodes /\ x # e
    BY <1>2
  <2>1. from \in Nat /\ to \in Nat /\ from <= to /\ to <= Len(t)
    BY <1>3, <1>4, <2>0
  <2>2. Part(c, t, from, to)
    BY <2>0 DEF Texted
  <2>3. Part(c, v, h.start[x], h.end[x])
    <3>1. CASE g.end[x] < g.end[e]
      <4>1. to <= p /\ h.start[x] = from /\ h.end[x] = to
        BY <1>2, <1>3, <2>0, <3>1
      <4> HIDE DEF from, to, c
      <4>2. Part(c, Replaced(t, p, q, <<>>), from, to)
        BY ONLY <1>1, <1>5, <2>1, <2>2, <4>1, PartBeside, t \in Seq(Chars), p \in Nat, q \in Nat
      <4> QED
        BY <4>1, <4>2 DEF v
    <3>2. CASE g.end[x] > g.end[e]
      <4>1. q <= from
        BY <1>3, <2>0, <3>2
      <4>2. h.start[x] = from - (q - p) /\ h.end[x] = to - (q - p)
        BY <1>2, <3>2
      <4> HIDE DEF from, to, c, d
      <4>3. h.start[x] = from + d /\ h.end[x] = to + d
        BY ONLY <2>1, <4>2, p \in Nat, q \in Nat DEF d
      <4>4. Part(c, Replaced(t, p, q, <<>>), from + d, to + d)
        BY ONLY <1>1, <1>5, <2>1, <2>2, <4>1, PartBeside, t \in Seq(Chars), p \in Nat, q \in Nat
      <4> QED
        BY <4>3, <4>4 DEF v
    <3> QED
      BY <1>3, <2>0, <3>1, <3>2
  <2>4. nd2[x].str = nd[x].str
    BY <2>0 DEF SameText
  <2> QED
    BY <2>3, <2>4 DEF Part
<1>7. Texted(nd2, h, v)
  BY ONLY <1>6 DEF Texted
<1> QED
  BY <1>7 DEF h, v

Unspliced(nd, nd2, g, b, e) ==
  \A x \in g.nodes \ {e} :
    nd2[x] = [str |-> nd[x].str, num_bytes |-> nd[x].num_bytes, nexts |-> Joined(nd, g, b, e, x)]

LEMMA RemovedShape ==
  ASSUME NEW nd, NEW r, NEW g, NEW t, Shape(nd, r, g, t), NEW e \in g.nodes, e # r,
         NEW b \in g.nodes, b # e, g.end[b] = g.start[e],
         NEW p \in Nat, NEW q \in Nat, p = g.start[e], q = g.end[e], NEW nd2,
         Unspliced(nd, nd2, g, b, e), NEW none, none = <<>>
  PROVE  Shape(nd2, r, Removed(g, e), Replaced(t, p, q, none))
<1> DEFINE h == Removed(g, e)
           v == Replaced(t, p, q, <<>>)
<1>1. /\ t \in Seq(Chars) /\ Len(t) \in Nat /\ Row(g, r, Len(t)) /\ Linked(nd, g, Len(t))
      /\ g.tall[r] <= ROPE_MAX_HEIGHT /\ r \in g.nodes
      /\ \A x \in g.nodes :
           /\ g.start[x] \in Nat /\ g.end[x] \in Nat
           /\ g.start[x] <= g.end[x] /\ g.end[x] <= Len(t) /\ g.tall[x] \in Nat
           /\ nd[x].str \in Seq(Chars)
           /\ nd[x].num_bytes = Bytes(nd[x].str) /\ Bytes(nd[x].str) <= ROPE_NODE_STR_SIZE
           /\ Part(nd[x], t, g.start[x], g.end[x])
      /\ \A x \in g.nodes \ {r} : x \in Blocks
  BY ShapeIs
<1>2. t \in Seq(Chars) /\ Row(g, r, Len(t)) /\ Linked(nd, g, Len(t)) /\ Len(t) \in Nat
  BY ONLY <1>1
<1>3. q \in 0 .. Len(t) /\ p \in 0 .. q
  BY <1>1
<1>4. v \in Seq(Chars) /\ Len(v) = (Len(t) - (q - p)) + Len(<<>>)
  <2>1. <<>> \in Seq(Chars)
    OBVIOUS
  <2> QED
    BY ONLY <1>2, <1>3, <2>1, ReplacedIs
<1>5. Len(v) = Len(t) - (q - p)
  <2> DEFINE lt == Len(t)
             lv == Len(v)
  <2>1. lv = (lt - (q - p)) + 0 /\ lt \in Nat
    BY <1>2, <1>4
  <2> HIDE DEF lv, lt
  <2>2. lv = lt - (q - p)
    BY ONLY <2>1, p \in Nat, q \in Nat
  <2> QED
    BY <2>2 DEF lt, lv
<1>6. \A x \in g.nodes \ {e} :
        nd2[x] = [str |-> nd[x].str, num_bytes |-> nd[x].num_bytes,
                  nexts |-> Joined(nd, g, b, e, x)]
  BY DEF Unspliced
<1>7. SameText(nd, nd2, g.nodes \ {e})
  <2> USE DEF SameText
  <2> TAKE x \in g.nodes \ {e}
  <2>1. nd2[x] = [str |-> nd[x].str, num_bytes |-> nd[x].num_bytes,
                  nexts |-> Joined(nd, g, b, e, x)]
    BY ONLY <1>6, x \in g.nodes \ {e}
  <2> QED
    BY ONLY <2>1
<1>8. \A x \in g.nodes \ {e} : nd2[x].nexts = Joined(nd, g, b, e, x)
  <2> TAKE x \in g.nodes \ {e}
  <2>1. nd2[x] = [str |-> nd[x].str, num_bytes |-> nd[x].num_bytes,
                  nexts |-> Joined(nd, g, b, e, x)]
    BY ONLY <1>6, x \in g.nodes \ {e}
  <2> QED
    BY ONLY <2>1
<1>9. Linked(nd2, h, Len(t) - (g.end[e] - g.start[e]))
  <2>1. \A x \in g.nodes \ {e} : \A i \in 1 .. g.tall[x] :
          nd2[x].nexts[i] =
             IF LastAt(g, b, i, x)
               THEN IF i <= g.tall[e]
                      THEN Longer(nd[e].nexts[i], nd[x].nexts[i].skip_size - (g.end[e] - g.start[e]))
                      ELSE Longer(nd[x].nexts[i], -(g.end[e] - g.start[e]))
               ELSE nd[x].nexts[i]
    <3> TAKE x \in g.nodes \ {e}
    <3> TAKE i \in 1 .. g.tall[x]
    <3>1. nd2[x].nexts = Joined(nd, g, b, e, x)
      BY ONLY <1>8, x \in g.nodes \ {e}
    <3> QED
      BY ONLY <3>1, i \in 1 .. g.tall[x] DEF Joined
  <2> QED
    BY ONLY <1>2, <2>1, RemovedLinks, e \in g.nodes, b \in g.nodes, b # e, g.end[b] = g.start[e]
<1>10. Linked(nd2, h, Len(v))
  <2>1. Len(v) = Len(t) - (g.end[e] - g.start[e])
    BY <1>5
  <2> QED
    BY ONLY <1>9, <2>1
<1>11. Row(h, r, Len(v))
  <2>1. Row(h, r, Len(t) - (g.end[e] - g.start[e]))
    BY ONLY <1>2, RemovedRow, e \in g.nodes, e # r
  <2>2. Len(v) = Len(t) - (g.end[e] - g.start[e])
    BY <1>5
  <2> QED
    BY ONLY <2>1, <2>2
<1>12. Texted(nd2, h, v)
  <2>1. Texted(nd, g, t)
    BY ONLY <1>1 DEF Texted
  <2>2. p = g.start[e] /\ q = g.end[e]
    OBVIOUS
  <2> QED
    BY ONLY <1>2, <1>7, <2>1, <2>2, RemovedText, e \in g.nodes, p \in Nat, q \in Nat
<1>13. h.nodes = g.nodes \ {e} /\ \A x \in h.nodes : h.tall[x] = g.tall[x]
  BY ONLY <1>2, RemovedIs, e \in g.nodes
<1> HIDE DEF h, v
<1>14. ASSUME NEW x \in h.nodes PROVE Cell(nd2[x], h.tall[x])
  <2>0. x \in g.nodes \ {e} /\ h.tall[x] = g.tall[x]
    BY <1>13
  <2>1. PICK ff : ff = Joined(nd, g, b, e, x)
    OBVIOUS
  <2>2. ff = [i \in 1 .. g.tall[x] |-> ff[i]]
    BY ONLY <2>1 DEF Joined
  <2> DEFINE w == nd[x].str
  <2>3. g.tall[x] \in Nat /\ w \in Seq(Chars) /\ Bytes(w) <= ROPE_NODE_STR_SIZE
        /\ nd[x].num_bytes = Bytes(w)
    BY <1>1, <2>0
  <2>4. nd2[x] = [str |-> w, num_bytes |-> nd[x].num_bytes, nexts |-> ff]
    BY ONLY <1>6, <2>0, <2>1
  <2> HIDE DEF w
  <2>5. nd2[x] = [str |-> w, num_bytes |-> Bytes(w), nexts |-> [i \in 1 .. g.tall[x] |-> ff[i]]]
    BY ONLY <2>2, <2>3, <2>4
  <2>6. Cell(nd2[x], g.tall[x])
    BY ONLY <2>3, <2>5, CellOf
  <2> QED
    BY ONLY <2>0, <2>6
<1>16. \A x \in h.nodes : Cell(nd2[x], h.tall[x]) /\ Part(nd2[x], v, h.start[x], h.end[x])
  BY ONLY <1>12, <1>14 DEF Texted
<1>17. h.nodes \ {r} \subseteq Blocks /\ h.tall[r] <= ROPE_MAX_HEIGHT
  BY <1>1, <1>13
<1>18. Shape(nd2, r, h, v)
  BY ONLY <1>4, <1>10, <1>11, <1>16, <1>17 DEF Shape
<1> QED
  BY ONLY <1>18, none = <<>> DEF h, v

(* The head gets more levels, each like its topmost one.                   *)
LEMMA TallerShape ==
  ASSUME NEW nd, NEW r, NEW g, NEW t, Shape(nd, r, g, t), NEW k \in Nat, g.tall[r] <= k,
         k <= ROPE_MAX_HEIGHT, NEW nd2,
         \A x \in g.nodes \ {r} : nd2[x] = nd[x],
         nd2[r] = [str |-> nd[r].str, num_bytes |-> nd[r].num_bytes,
                   nexts |-> [i \in 1 .. k |-> nd[r].nexts[IF i <= g.tall[r] THEN i ELSE g.tall[r]]]]
  PROVE  Shape(nd2, r, Taller(g, r, k), t)
<1> DEFINE h == Taller(g, r, k)
<1>1. /\ t \in Seq(Chars) /\ Len(t) \in Nat /\ Row(g, r, Len(t)) /\ Linked(nd, g, Len(t))
      /\ r \in g.nodes
      /\ \A x \in g.nodes :
           /\ g.tall[x] \in Nat /\ nd[x].str \in Seq(Chars) /\ Cell(nd[x], g.tall[x])
           /\ nd[x].num_bytes = Bytes(nd[x].str) /\ Bytes(nd[x].str) <= ROPE_NODE_STR_SIZE
           /\ Part(nd[x], t, g.start[x], g.end[x])
      /\ \A x \in g.nodes \ {r} : x \in Blocks
  BY ShapeIs
<1>2. t \in Seq(Chars) /\ Row(g, r, Len(t)) /\ Linked(nd, g, Len(t)) /\ Len(t) \in Nat
  BY ONLY <1>1
<1>3. h.nodes = g.nodes /\ h.start = g.start /\ h.end = g.end /\ h.tall = [g.tall EXCEPT ![r] = k]
  BY DEF Taller
<1>4. g.tall \in [g.nodes -> Nat] /\ r \in g.nodes /\ g.tall[r] \in Nat
  BY ONLY <1>1 DEF Row
<1>5. h.tall[r] = k /\ \A x \in g.nodes \ {r} : h.tall[x] = g.tall[x]
  BY ONLY <1>3, <1>4
<1>6. Row(h, r, Len(t))
  BY ONLY <1>2, TallerRow, k \in Nat, g.tall[r] <= k
<1>7. nd2[r].nexts = [i \in 1 .. k |-> nd[r].nexts[IF i <= g.tall[r] THEN i ELSE g.tall[r]]]
      /\ nd2[r].str = nd[r].str
  OBVIOUS
<1>8. Linked(nd2, h, Len(t))
  <2>1. \A x \in g.nodes : \A i \in 1 .. g.tall[x] : nd2[x].nexts[i] = nd[x].nexts[i]
    <3> TAKE x \in g.nodes
    <3> TAKE i \in 1 .. g.tall[x]
    <3>1. CASE x = r
      <4>1. i \in 1 .. k /\ i <= g.tall[r]
        BY <1>4, <3>1
      <4> QED
        BY ONLY <1>7, <3>1, <4>1
    <3>2. CASE x # r
      BY <3>2
    <3> QED
      BY <3>1, <3>2
  <2>2. \A i \in g.tall[r] + 1 .. k : nd2[r].nexts[i] = nd[r].nexts[g.tall[r]]
    <3> TAKE i \in g.tall[r] + 1 .. k
    <3>1. i \in 1 .. k /\ ~(i <= g.tall[r])
      BY <1>4
    <3> QED
      BY ONLY <1>7, <3>1
  <2> QED
    BY ONLY <1>2, <2>1, <2>2, TallerLinks, k \in Nat, g.tall[r] <= k
<1> HIDE DEF h
<1>9. ASSUME NEW x \in g.nodes
      PROVE  Cell(nd2[x], h.tall[x]) /\ Part(nd2[x], t, h.start[x], h.end[x])
  <2>1. CASE x # r
    BY <1>1, <1>3, <1>5, <2>1
  <2>2. CASE x = r
    <3>1. Part(nd2[x], t, h.start[x], h.end[x])
      BY <1>1, <1>3, <1>7, <2>2 DEF Part
    <3> DEFINE w == nd[r].str
    <3>2. w \in Seq(Chars) /\ Bytes(w) <= ROPE_NODE_STR_SIZE /\ nd[r].num_bytes = Bytes(w)
      BY <1>1
    <3>3. PICK f : f = [i \in 1 .. k |-> nd[r].nexts[IF i <= g.tall[r] THEN i ELSE g.tall[r]]]
      OBVIOUS
    <3>4. nd2[r] = [str |-> w, num_bytes |-> nd[r].num_bytes, nexts |-> f]
      BY <3>3
    <3>5. f = [i \in 1 .. k |-> f[i]]
      BY ONLY <3>3
    <3> HIDE DEF w
    <3>6. nd2[r] = [str |-> w, num_bytes |-> Bytes(w), nexts |-> [i \in 1 .. k |-> f[i]]]
      BY ONLY <3>2, <3>4, <3>5
    <3>7. Cell(nd2[r], k)
      BY ONLY <3>2, <3>6, CellOf, k \in Nat
    <3> QED
      BY <1>5, <2>2, <3>1, <3>7
  <2> QED
    BY <2>1, <2>2
<1>10. h.nodes \ {r} \subseteq Blocks /\ h.tall[r] <= ROPE_MAX_HEIGHT
  BY <1>1, <1>3, <1>5
<1>11. \A x \in h.nodes : Cell(nd2[x], h.tall[x]) /\ Part(nd2[x], t, h.start[x], h.end[x])
  BY ONLY <1>3, <1>9
<1>12. Shape(nd2, r, h, t)
  BY ONLY <1>2, <1>6, <1>8, <1>10, <1>11 DEF Shape
<1> QED
  BY <1>12 DEF h

(* Only the rope's own nodes matter.                                       *)
LEMMA ShapeFrame ==
  ASSUME NEW nd, NEW r, NEW g, NEW t, Shape(nd, r, g, t), NEW nd2,
         \A x \in g.nodes : nd2[x] = nd[x]
  PROVE  Shape(nd2, r, g, t)
<1>1. Linked(nd2, g, Len(t))
  BY DEF Linked, Shape
<1> QED
  BY <1>1 DEF Shape
-----------------------------------------------------------------------------
(* An iterator stands at position p, in node b, which for a position that  *)
(* is between two nodes is the first of them.  On every level it holds the *)
(* last node up to b, and how far past its start p is.                     *)
Over(g, r, b, iter) ==
  DOMAIN iter = 1 .. g.tall[r] /\ \A i \in 1 .. g.tall[r] : LastAt(g, b, i, iter[i].node)
At(g, r, b, p, iter) ==
  /\ b \in g.nodes /\ p \in Nat /\ g.start[b] <= p /\ p <= g.end[b]
  /\ b = r \/ g.start[b] < p
  /\ iter = [i \in 1 .. g.tall[r] |-> iter[i]]
  /\ \A i \in 1 .. g.tall[r] :
       \E x \in g.nodes : LastAt(g, b, i, x) /\ iter[i] = Link(x, p - g.start[x])

LEMMA LastUnique ==
  ASSUME NEW g, NEW r, NEW total \in Nat, Row(g, r, total), NEW b, NEW i,
         NEW x, NEW y, LastAt(g, b, i, x), LastAt(g, b, i, y)
  PROVE  x = y
<1>1. x \in g.nodes /\ y \in g.nodes /\ g.end[x] <= g.end[y] /\ g.end[y] <= g.end[x]
  BY DEF LastAt
<1>2. /\ \A z \in g.nodes : g.end[z] \in Nat
      /\ \A z, w \in g.nodes : z # w => g.end[z] # g.end[w]
  BY RowOrder
<1> QED
  BY ONLY <1>1, <1>2

(* Up to its own height the last node up to b is b.                        *)
LEMMA LastSelf ==
  ASSUME NEW g, NEW r, NEW total \in Nat, Row(g, r, total), NEW b \in g.nodes,
         NEW i \in Nat, i <= g.tall[b], NEW x
  PROVE  LastAt(g, b, i, x) <=> x = b
<1>1. g.end[b] \in Nat /\ g.tall[b] \in Nat
  BY RowOrder
<1>2. LastAt(g, b, i, b)
  BY <1>1 DEF LastAt
<1> QED
  BY ONLY <1>2, LastUnique, Row(g, r, total), total \in Nat

LEMMA AtOver ==
  ASSUME NEW g, NEW r, NEW total \in Nat, Row(g, r, total), NEW b, NEW p, NEW iter,
         At(g, r, b, p, iter)
  PROVE  /\ Over(g, r, b, iter) /\ b \in g.nodes /\ p \in Nat /\ g.start[b] <= p /\ p <= g.end[b]
         /\ b = r \/ g.start[b] < p
         /\ iter[1] = Link(b, p - g.start[b]) /\ iter[1].node = b /\ 1 \in DOMAIN iter
         /\ iter[1].skip_size = p - g.start[b]
         /\ \A i \in 1 .. g.tall[r] : iter[i] = Link(iter[i].node, p - g.start[iter[i].node])
<1>1. b \in g.nodes /\ p \in Nat /\ g.start[b] <= p /\ p <= g.end[b] /\ (b = r \/ g.start[b] < p)
  BY DEF At
<1>2. DOMAIN iter = 1 .. g.tall[r]
  BY DEF At
<1>3. ASSUME NEW i \in 1 .. g.tall[r]
      PROVE  /\ LastAt(g, b, i, iter[i].node)
             /\ iter[i] = Link(iter[i].node, p - g.start[iter[i].node])
  <2>1. PICK x \in g.nodes : LastAt(g, b, i, x) /\ iter[i] = Link(x, p - g.start[x])
    BY DEF At
  <2>2. iter[i].node = x
    BY <2>1 DEF Link
  <2> QED
    BY <2>1, <2>2
<1>4. g.tall[b] \in Nat /\ g.tall[b] >= 1 /\ g.tall[r] \in Nat /\ g.tall[r] >= 1
  BY <1>1 DEF Row
<1>5. 1 \in 1 .. g.tall[r] /\ 1 <= g.tall[b] /\ 1 \in Nat
  BY ONLY <1>4
<1>6. LastAt(g, b, 1, iter[1].node)
  BY ONLY <1>3, <1>5
<1>7. iter[1].node = b
  BY ONLY <1>1, <1>5, <1>6, LastSelf, Row(g, r, total), total \in Nat
<1>8. iter[1] = Link(b, p - g.start[b])
  BY ONLY <1>3, <1>5, <1>7
<1>9. iter[1].skip_size = p - g.start[b]
  BY ONLY <1>8 DEF Link
<1> QED
  BY <1>1, <1>2, <1>3, <1>5, <1>7, <1>8, <1>9 DEF Over

(* Relink gives every node its links, new where it is the last one.        *)
LEMMA RelinkIs ==
  ASSUME NEW g, NEW r, NEW total \in Nat, Row(g, r, total), NEW b, NEW iter, Over(g, r, b, iter),
         NEW nd, \A x \in g.nodes : Boxed(nd[x], g.tall[x]) /\ x \in DOMAIN nd, NEW links
  PROVE  LET new == Relink(nd, iter, links)
         IN  /\ DOMAIN new = DOMAIN nd /\ new = [x \in DOMAIN nd |-> new[x]]
             /\ \A x \in DOMAIN nd \ g.nodes : new[x] = nd[x]
             /\ \A x \in g.nodes :
                  new[x] = [str |-> nd[x].str, num_bytes |-> nd[x].num_bytes,
                            nexts |-> [i \in 1 .. g.tall[x] |->
                               IF LastAt(g, b, i, x) THEN links[i] ELSE nd[x].nexts[i]]]
<1> DEFINE new == Relink(nd, iter, links)
<1>1. DOMAIN iter = 1 .. g.tall[r] /\ \A i \in 1 .. g.tall[r] : LastAt(g, b, i, iter[i].node)
  BY DEF Over
<1>2. /\ DOMAIN new = DOMAIN nd /\ new = [x \in DOMAIN nd |-> new[x]]
      /\ \A x \in DOMAIN nd :
           new[x] = IF \A i \in DOMAIN iter : iter[i].node # x THEN nd[x]
                    ELSE [nd[x] EXCEPT !.nexts =
                            [i \in DOMAIN @ |-> IF i \in DOMAIN iter /\ iter[i].node = x
                                                  THEN links[i] ELSE @[i]]]
  BY DEF Relink
<1> HIDE DEF new
<1>3. ASSUME NEW x \in DOMAIN nd \ g.nodes PROVE new[x] = nd[x]
  <2>1. \A i \in DOMAIN iter : iter[i].node # x
    BY <1>1 DEF LastAt
  <2> QED
    BY ONLY <1>2, <2>1, x \in DOMAIN nd \ g.nodes
<1>4. ASSUME NEW x \in g.nodes
      PROVE  new[x] = [str |-> nd[x].str, num_bytes |-> nd[x].num_bytes,
                       nexts |-> [i \in 1 .. g.tall[x] |->
                         IF LastAt(g, b, i, x) THEN links[i] ELSE nd[x].nexts[i]]]
  <2>0. x \in DOMAIN nd
    OBVIOUS
  <2>1. g.tall[x] \in Nat /\ g.tall[r] \in Nat /\ g.tall[x] <= g.tall[r]
    BY DEF Row
  <2>2. PICK s, n, f : nd[x] = [str |-> s, num_bytes |-> n, nexts |-> [i \in 1 .. g.tall[x] |-> f[i]]]
    BY DEF Boxed
  <2>3. nd[x].str = s /\ nd[x].num_bytes = n /\ nd[x].nexts = [i \in 1 .. g.tall[x] |-> f[i]]
    BY ONLY <2>2
  <2>4. DOMAIN nd[x].nexts = 1 .. g.tall[x] /\ \A i \in 1 .. g.tall[x] : nd[x].nexts[i] = f[i]
    BY ONLY <2>3
  <2>5. ASSUME NEW i \in 1 .. g.tall[x]
        PROVE  i \in DOMAIN iter /\ (iter[i].node = x <=> LastAt(g, b, i, x))
    <3>1. i \in 1 .. g.tall[r]
      BY ONLY <2>1, i \in 1 .. g.tall[x]
    <3>2. LastAt(g, b, i, iter[i].node)
      BY ONLY <1>1, <3>1
    <3>3. LastAt(g, b, i, x) => iter[i].node = x
      BY ONLY <3>2, LastUnique, Row(g, r, total), total \in Nat
    <3> QED
      BY ONLY <1>1, <3>1, <3>2, <3>3
  <2>6. CASE \A i \in DOMAIN iter : iter[i].node # x
    <3>1. new[x] = nd[x]
      BY ONLY <1>2, <2>0, <2>6
    <3>2. \A i \in 1 .. g.tall[x] : ~LastAt(g, b, i, x)
      BY ONLY <2>5, <2>6
    <3>3. [i \in 1 .. g.tall[x] |-> IF LastAt(g, b, i, x) THEN links[i] ELSE nd[x].nexts[i]]
            = [i \in 1 .. g.tall[x] |-> f[i]]
      BY ONLY <2>4, <3>2
    <3> QED
      BY ONLY <2>2, <2>3, <3>1, <3>3
  <2>7. CASE ~\A i \in DOMAIN iter : iter[i].node # x
    <3> DEFINE nexts == [i \in DOMAIN nd[x].nexts |-> IF i \in DOMAIN iter /\ iter[i].node = x
                                                        THEN links[i] ELSE nd[x].nexts[i]]
    <3>1. new[x] = [nd[x] EXCEPT !.nexts = nexts]
      BY ONLY <1>2, <2>0, <2>7
    <3>2. nexts = [i \in 1 .. g.tall[x] |->
                     IF LastAt(g, b, i, x) THEN links[i] ELSE nd[x].nexts[i]]
      BY ONLY <2>4, <2>5
    <3> HIDE DEF nexts
    <3>3. new[x] = [str |-> s, num_bytes |-> n, nexts |-> nexts]
      BY ONLY <2>2, <3>1
    <3> QED
      BY ONLY <2>3, <3>2, <3>3
  <2> QED
    BY ONLY <2>6, <2>7
<1> QED
  BY <1>2, <1>3, <1>4 DEF new

LEMMA UpdateIs ==
  ASSUME NEW g, NEW r, NEW total \in Nat, Row(g, r, total), NEW b, NEW iter, Over(g, r, b, iter),
         NEW nd, \A x \in g.nodes : Boxed(nd[x], g.tall[x]) /\ x \in DOMAIN nd, NEW d
  PROVE  LET new == update_offset_list(nd, iter, d)
         IN  /\ DOMAIN new = DOMAIN nd /\ new = [x \in DOMAIN nd |-> new[x]]
             /\ \A x \in DOMAIN nd \ g.nodes : new[x] = nd[x]
             /\ \A x \in g.nodes :
                  new[x] = [str |-> nd[x].str, num_bytes |-> nd[x].num_bytes,
                            nexts |-> Stretched(nd, g, b, d, x)]
<1> DEFINE new == update_offset_list(nd, iter, d)
           links == [i \in DOMAIN iter |-> Longer(LinkAt(nd, iter, i), d)]
<1>1. /\ DOMAIN new = DOMAIN nd /\ new = [x \in DOMAIN nd |-> new[x]]
      /\ \A x \in DOMAIN nd \ g.nodes : new[x] = nd[x]
      /\ \A x \in g.nodes :
           new[x] = [str |-> nd[x].str, num_bytes |-> nd[x].num_bytes,
                     nexts |-> [i \in 1 .. g.tall[x] |->
                        IF LastAt(g, b, i, x) THEN links[i] ELSE nd[x].nexts[i]]]
  <2>1. new = Relink(nd, iter, links)
    BY DEF update_offset_list
  <2> HIDE DEF new, links
  <2> QED
    BY ONLY <2>1, RelinkIs, Row(g, r, total), total \in Nat, Over(g, r, b, iter),
            \A x \in g.nodes : Boxed(nd[x], g.tall[x]) /\ x \in DOMAIN nd
<1>2. ASSUME NEW x \in g.nodes
      PROVE  [i \in 1 .. g.tall[x] |-> IF LastAt(g, b, i, x) THEN links[i] ELSE nd[x].nexts[i]]
               = Stretched(nd, g, b, d, x)
  <2>1. ASSUME NEW i \in 1 .. g.tall[x], LastAt(g, b, i, x)
        PROVE  links[i] = Longer(nd[x].nexts[i], d)
    <3>0. g.tall[x] \in Nat /\ g.tall[r] \in Nat /\ g.tall[x] <= g.tall[r]
      BY DEF Row
    <3>1. i \in DOMAIN iter /\ LastAt(g, b, i, iter[i].node)
      <4>1. i \in 1 .. g.tall[r]
        BY ONLY <3>0, i \in 1 .. g.tall[x]
      <4> QED
        BY ONLY <4>1, Over(g, r, b, iter) DEF Over
    <3>2. iter[i].node = x
      BY ONLY <2>1, <3>1, LastUnique, Row(g, r, total), total \in Nat
    <3> QED
      BY ONLY <3>1, <3>2 DEF LinkAt
  <2> HIDE DEF links
  <2> QED
    BY ONLY <2>1 DEF Stretched
<1> HIDE DEF new, links
<1>3. \A x \in g.nodes :
        new[x] = [str |-> nd[x].str, num_bytes |-> nd[x].num_bytes,
                  nexts |-> Stretched(nd, g, b, d, x)]
  BY ONLY <1>1, <1>2
<1> QED
  BY ONLY <1>1, <1>3 DEF new
-----------------------------------------------------------------------------
(* What the blocks and the other values are: an allocator that always has  *)
(* another block, and values that cannot be taken for one another.         *)
HeapAssumption ==
  /\ Blocks \subseteq Nat \ {NULL} /\ \A m \in Nat : \E x \in Blocks : x > m
  /\ Ropes \cap Blocks = {} /\ NULL \notin Ropes
  /\ \A c, k : Boxed(c, k) => c # FreeBlock
  /\ NoRope \notin Seq(Chars)

Heap(nd) ==
  /\ nd = [x \in Blocks \cup Ropes |-> nd[x]]
  /\ \E m \in Nat : \A x \in Blocks : x > m => nd[x] = FreeBlock

(* From nd to nd2 a rope's nodes become new instead of old.                *)
Kept(nd, nd2, old, new) ==
  /\ \A x \in (Blocks \cup Ropes) \ (old \cup new) : nd2[x] = nd[x]
  /\ \A x \in old \ new : nd2[x] = FreeBlock
  /\ \A x \in new \ old : x \in Blocks /\ nd[x] = FreeBlock

LEMMA KeptThen ==
  ASSUME NEW nd1, NEW nd2, NEW nd3, NEW A, NEW B, NEW C,
         A \subseteq Blocks \cup Ropes, B \subseteq Blocks \cup Ropes,
         Kept(nd1, nd2, A, B), Kept(nd2, nd3, B, C)
  PROVE  Kept(nd1, nd3, A, C)
<1>1. ASSUME NEW x \in (Blocks \cup Ropes) \ (A \cup C) PROVE nd3[x] = nd1[x]
  <2>1. CASE x \in B
    BY <2>1 DEF Kept
  <2>2. CASE x \notin B
    BY <2>2 DEF Kept
  <2> QED
    BY <2>1, <2>2
<1>2. ASSUME NEW x \in A \ C PROVE nd3[x] = FreeBlock
  <2>1. CASE x \in B
    BY <2>1 DEF Kept
  <2>2. CASE x \notin B
    BY <2>2 DEF Kept
  <2> QED
    BY <2>1, <2>2
<1>3. ASSUME NEW x \in C \ A PROVE x \in Blocks /\ nd1[x] = FreeBlock
  <2>1. CASE x \in B
    BY <2>1 DEF Kept
  <2>2. CASE x \notin B
    BY <2>2 DEF Kept
  <2> QED
    BY <2>1, <2>2
<1> QED
  BY <1>1, <1>2, <1>3 DEF Kept

(* On the lowest level a node leads to the one that starts where it ends.  *)
LEMMA NextIs ==
  ASSUME HeapAssumption, NEW nd, NEW r \in Ropes, NEW g, NEW t, Shape(nd, r, g, t), NEW x \in g.nodes
  PROVE  LET link == nd[x].nexts[1]
         IN  /\ link.skip_size = g.end[x] - g.start[x]
             /\ link.node = NULL => g.end[x] = Len(t) /\ \A z \in g.nodes : g.end[z] <= g.end[x]
             /\ link.node # NULL =>
                  /\ link.node \in g.nodes \ {r} /\ link.node # x /\ link.node \in Blocks
                  /\ g.start[link.node] = g.end[x]
<1> DEFINE link == nd[x].nexts[1]
<1>1. /\ Len(t) \in Nat /\ Row(g, r, Len(t)) /\ Linked(nd, g, Len(t))
      /\ \A y \in g.nodes :
           /\ g.start[y] \in Nat /\ g.end[y] \in Nat /\ g.tall[y] \in Nat /\ g.tall[y] >= 1
           /\ g.start[y] <= g.end[y] /\ g.end[y] <= Len(t)
      /\ \A y \in g.nodes \ {r} : g.start[y] < g.end[y] /\ y \in Blocks
  BY ShapeIs
<1>2. LinkFor(g, Len(t), x, 1, link)
  <2>1. 1 \in 1 .. g.tall[x]
    BY <1>1
  <2> QED
    BY ONLY <1>1, <2>1, x \in g.nodes DEF Linked
<1>3. \A y \in g.nodes : y # NULL
  BY <1>1 DEF HeapAssumption
<1>4. /\ \A y, z \in g.nodes : y # z => g.end[y] # g.end[z]
      /\ \A y, z \in g.nodes : g.end[y] < g.end[z] => g.end[y] <= g.start[z]
      /\ \A y \in g.nodes \ {r} : g.end[r] < g.end[y]
  BY ONLY <1>1, RowOrder
<1>5. g.end[x] = Len(t) \/ \E y \in g.nodes \ {r} : g.start[y] = g.end[x]
  BY ONLY <1>1, x \in g.nodes DEF Row
<1> HIDE DEF link
<1>6. CASE \E y \in g.nodes : NextAt(g, x, 1, y) /\ link = Link(y, g.start[y] - g.start[x])
  <2>1. PICK y \in g.nodes : NextAt(g, x, 1, y) /\ link = Link(y, g.start[y] - g.start[x])
    BY ONLY <1>6
  <2>2. /\ g.end[x] < g.end[y]
        /\ \A z \in g.nodes : g.tall[z] >= 1 /\ g.end[x] < g.end[z] => g.end[y] <= g.end[z]
    BY ONLY <2>1 DEF NextAt
  <2>3. g.end[x] # Len(t)
    BY ONLY <1>1, <2>2, x \in g.nodes, y \in g.nodes
  <2>4. PICK z \in g.nodes \ {r} : g.start[z] = g.end[x]
    BY ONLY <1>5, <2>3
  <2>5. g.end[x] < g.end[z] /\ g.end[y] <= g.end[z]
    BY ONLY <1>1, <2>2, <2>4, x \in g.nodes
  <2>6. y = z
    <3>1. SUFFICES ASSUME y # z PROVE FALSE
      OBVIOUS
    <3>2. g.end[y] < g.end[z]
      BY ONLY <1>1, <1>4, <2>5, <3>1, y \in g.nodes, z \in g.nodes \ {r}
    <3>3. g.end[y] <= g.start[z]
      BY ONLY <1>4, <3>2, y \in g.nodes, z \in g.nodes \ {r}
    <3> QED
      BY ONLY <1>1, <2>2, <2>4, <3>3, x \in g.nodes, y \in g.nodes
  <2>7. link.node = y /\ link.skip_size = g.start[y] - g.start[x]
    BY ONLY <2>1 DEF Link
  <2>8. y # x
    BY ONLY <1>1, <2>2, x \in g.nodes
  <2> QED
    BY ONLY <1>1, <1>3, <2>4, <2>6, <2>7, <2>8 DEF link
<1>7. CASE NoneAt(g, x, 1) /\ link = Link(NULL, Len(t) - g.start[x])
  <2>1. \A z \in g.nodes : g.end[z] <= g.end[x]
    BY ONLY <1>1, <1>7 DEF NoneAt
  <2>2. g.end[x] = Len(t)
    <3>1. SUFFICES ASSUME g.end[x] # Len(t) PROVE FALSE
      OBVIOUS
    <3>2. PICK z \in g.nodes \ {r} : g.start[z] = g.end[x]
      BY ONLY <1>5, <3>1
    <3> QED
      BY ONLY <1>1, <2>1, <3>2, x \in g.nodes
  <2>3. link.node = NULL /\ link.skip_size = Len(t) - g.start[x]
    BY ONLY <1>7 DEF Link
  <2> QED
    BY ONLY <2>1, <2>2, <2>3 DEF link
<1> QED
  BY ONLY <1>2, <1>6, <1>7 DEF LinkFor, link

(* The text of one node is edited, in a heap that has its new text and     *)
(* counted bytes already, and the links that span it are updated.          *)
Edits(nd, edited, e, str) ==
  edited = [x \in Blocks \cup Ropes |->
              IF x = e THEN [str |-> str, num_bytes |-> Bytes(str), nexts |-> nd[e].nexts] ELSE nd[x]]

(* A rope that gets no new block keeps the heap one.                       *)
LEMMA HeapKept ==
  ASSUME HeapAssumption, NEW nd, NEW r \in Ropes, NEW g, NEW t, Shape(nd, r, g, t), Heap(nd),
         NEW new, new = [x \in Blocks \cup Ropes |-> new[x]],
         NEW B, B \subseteq g.nodes, Kept(nd, new, g.nodes, B)
  PROVE  Heap(new)
<1>1. PICK m \in Nat : \A x \in Blocks : x > m => nd[x] = FreeBlock
  BY DEF Heap
<1>2. ASSUME NEW x \in g.nodes PROVE nd[x] # FreeBlock
  <2>1. g.tall[x] \in Nat /\ Cell(nd[x], g.tall[x])
    BY ShapeIs
  <2>2. Boxed(nd[x], g.tall[x])
    BY ONLY <2>1, CellIs
  <2> QED
    BY ONLY <2>2, HeapAssumption DEF HeapAssumption
<1>3. ASSUME NEW x \in Blocks, x > m PROVE new[x] = FreeBlock
  <2>1. nd[x] = FreeBlock /\ x \notin g.nodes /\ x \notin B
    BY <1>1, <1>2, <1>3
  <2> QED
    BY <2>1 DEF Kept
<1> QED
  BY <1>3 DEF Heap

LEMMA SplicedIs ==
  ASSUME HeapAssumption, NEW nd, NEW r \in Ropes, NEW g, NEW t, Shape(nd, r, g, t), Heap(nd),
         NEW e \in g.nodes,
         NEW s, NEW p, NEW q, NEW a, NEW z, NEW d, Edit(g, r, e, s, p, q, a, z, d),
         NEW str \in Seq(Chars), str = Replaced(nd[e].str, a, z, s),
         Bytes(str) <= ROPE_NODE_STR_SIZE, NEW edited, Edits(nd, edited, e, str),
         NEW iter, Over(g, r, e, iter)
  PROVE  LET new == update_offset_list(edited, iter, d)
         IN  /\ Heap(new) /\ Kept(nd, new, g.nodes, g.nodes)
             /\ Shape(new, r, Resized(g, e, d), Replaced(t, p, q, s))
             /\ Len(Replaced(t, p, q, s)) = Len(t) + d
<1> DEFINE new == update_offset_list(edited, iter, d)
<1>1. /\ DOMAIN edited = Blocks \cup Ropes /\ g.nodes \subseteq Blocks \cup Ropes
      /\ \A x \in g.nodes : Boxed(edited[x], g.tall[x]) /\ x \in DOMAIN edited
      /\ edited[e] = [str |-> str, num_bytes |-> Bytes(str), nexts |-> nd[e].nexts]
      /\ \A x \in (Blocks \cup Ropes) \ {e} : edited[x] = nd[x]
      /\ \A x \in g.nodes : edited[x].nexts = nd[x].nexts
  <2>1. g.nodes \subseteq Blocks \cup Ropes
    BY DEF Shape
  <2>2. /\ DOMAIN edited = Blocks \cup Ropes
        /\ edited[e] = [str |-> str, num_bytes |-> Bytes(str), nexts |-> nd[e].nexts]
        /\ \A x \in (Blocks \cup Ropes) \ {e} : edited[x] = nd[x]
    BY <2>1 DEF Edits
  <2>3. ASSUME NEW x \in g.nodes PROVE Boxed(edited[x], g.tall[x]) /\ edited[x].nexts = nd[x].nexts
    <3>1. g.tall[x] \in Nat /\ Cell(nd[x], g.tall[x])
      BY ShapeIs
    <3>2. Boxed(nd[x], g.tall[x]) /\ nd[x].nexts = [i \in 1 .. g.tall[x] |-> nd[x].nexts[i]]
      BY ONLY <3>1, CellIs
    <3>3. CASE x = e
      <4>1. PICK f : f = nd[e].nexts
        OBVIOUS
      <4>2. f = [i \in 1 .. g.tall[e] |-> f[i]]
        BY <3>2, <3>3, <4>1
      <4>3. edited[e] = [str |-> str, num_bytes |-> Bytes(str), nexts |-> [i \in 1 .. g.tall[e] |-> f[i]]]
        BY ONLY <2>2, <4>1, <4>2
      <4>4. edited[e].nexts = nd[e].nexts
        BY ONLY <2>2
      <4>5. Boxed(edited[e], g.tall[e])
        BY ONLY <4>3 DEF Boxed
      <4> QED
        BY ONLY <3>3, <4>4, <4>5
    <3>4. CASE x # e
      BY <2>1, <2>2, <3>2, <3>4
    <3> QED
      BY <3>3, <3>4
  <2> QED
    BY <2>1, <2>2, <2>3
<1>2. Len(t) \in Nat /\ Row(g, r, Len(t))
  BY ShapeIs
<1>3. /\ DOMAIN new = DOMAIN edited /\ new = [x \in DOMAIN edited |-> new[x]]
      /\ \A x \in DOMAIN edited \ g.nodes : new[x] = edited[x]
      /\ \A x \in g.nodes :
           new[x] = [str |-> edited[x].str, num_bytes |-> edited[x].num_bytes,
                     nexts |-> Stretched(edited, g, e, d, x)]
  <2>1. \A x \in g.nodes : Boxed(edited[x], g.tall[x]) /\ x \in DOMAIN edited
    BY ONLY <1>1
  <2> QED
    BY ONLY <1>2, <2>1, UpdateIs, Over(g, r, e, iter)
<1> HIDE DEF new
<1>4. ASSUME NEW x \in g.nodes PROVE Stretched(edited, g, e, d, x) = Stretched(nd, g, e, d, x)
  <2>1. edited[x].nexts = nd[x].nexts
    BY ONLY <1>1, x \in g.nodes
  <2> QED
    BY ONLY <2>1 DEF Stretched
<1>5. new[e] = [str |-> str, num_bytes |-> Bytes(str), nexts |-> Stretched(nd, g, e, d, e)]
  <2>1. edited[e].str = str /\ edited[e].num_bytes = Bytes(str)
    BY ONLY <1>1
  <2> QED
    BY ONLY <1>3, <1>4, <2>1, e \in g.nodes
<1>6. \A x \in g.nodes \ {e} :
        new[x] = [str |-> nd[x].str, num_bytes |-> nd[x].num_bytes,
                  nexts |-> Stretched(nd, g, e, d, x)]
  <2> TAKE x \in g.nodes \ {e}
  <2>1. edited[x] = nd[x]
    BY ONLY <1>1, x \in g.nodes \ {e}
  <2> QED
    BY ONLY <1>3, <1>4, <2>1, x \in g.nodes \ {e}
<1>7. /\ Shape(new, r, Resized(g, e, d), Replaced(t, p, q, s))
      /\ Len(Replaced(t, p, q, s)) = Len(t) + d
  <2>1. Edited(nd, new, g, e, str, d)
    BY ONLY <1>5, <1>6 DEF Edited
  <2> QED
    BY ONLY <2>1, EditedShape, Shape(nd, r, g, t), e \in g.nodes, str \in Seq(Chars),
            str = Replaced(nd[e].str, a, z, s), Bytes(str) <= ROPE_NODE_STR_SIZE,
            Edit(g, r, e, s, p, q, a, z, d)
<1>8. \A x \in (Blocks \cup Ropes) \ g.nodes : new[x] = nd[x]
  BY ONLY <1>1, <1>3, e \in g.nodes
<1>9. Kept(nd, new, g.nodes, g.nodes)
  BY ONLY <1>8 DEF Kept
<1>10. Heap(new)
  <2>1. new = [x \in Blocks \cup Ropes |-> new[x]]
    BY ONLY <1>1, <1>3
  <2> QED
    BY ONLY <1>9, <2>1, HeapKept, HeapAssumption, r \in Ropes, Shape(nd, r, g, t), Heap(nd)
<1> QED
  BY ONLY <1>7, <1>9, <1>10 DEF new

LEMMA BytesSpliced ==
  ASSUME NEW t \in Seq(Chars), NEW s \in Seq(Chars), NEW p \in 0 .. Len(t)
  PROVE  Bytes(Replaced(t, p, p, s)) = Bytes(t) + Bytes(s)
<1> DEFINE m == SubSeq(t, p + 1, p)
<1>1. p \in 0 .. p /\ p \in Nat
  OBVIOUS
<1>2. m \in Seq(Chars) /\ Len(m) = p - p
  BY ONLY <1>1, MiddleIs, t \in Seq(Chars), p \in 0 .. Len(t)
<1>3. m = <<>>
  BY <1>1, <1>2
<1>4. Bytes(m) = 0
  BY <1>3, BytesEmpty
<1>5. Bytes(Replaced(t, p, p, s)) = (Bytes(t) - Bytes(m)) + Bytes(s)
  BY ONLY <1>1, BytesReplaced, t \in Seq(Chars), s \in Seq(Chars), p \in 0 .. Len(t)
<1>6. Bytes(t) \in Nat /\ Bytes(s) \in Nat
  BY BytesIs
<1> QED
  BY ONLY <1>4, <1>5, <1>6

(* What is left when the end of a string goes.                             *)
LEMMA CutIs ==
  ASSUME NEW t \in Seq(Chars), NEW p \in 0 .. Len(t)
  PROVE  Replaced(t, p, Len(t), <<>>) = FirstOf(t, p)
<1>1. Len(t) \in 0 .. Len(t) /\ p \in 0 .. Len(t) /\ <<>> \in Seq(Chars) /\ Len(t) \in Nat
      /\ Len(<<>>) = 0 /\ p \in Nat
  OBVIOUS
<1>2. FirstOf(t, p) \in Seq(Chars) /\ Len(FirstOf(t, p)) = p
      /\ \A i \in 1 .. p : FirstOf(t, p)[i] = t[i]
  BY FirstOfIs
<1> DEFINE n == Len(t)
           v == Replaced(t, p, n, <<>>)
           w == FirstOf(t, p)
<1>0. n \in 0 .. Len(t) /\ p \in 0 .. n /\ <<>> \in Seq(Chars) /\ n \in Nat /\ Len(t) = n
  BY <1>1
<1> HIDE DEF n
<1>3. /\ v \in Seq(Chars) /\ Len(v) = (Len(t) - (n - p)) + Len(<<>>)
      /\ \A i \in 1 .. p : v[i] = t[i]
  BY ONLY ZenonT(60), <1>0, ReplacedIs, t \in Seq(Chars)
<1> HIDE DEF v, w
<1>4. Len(v) = p
  BY ONLY <1>0, <1>1, <1>3
<1>5. \A i \in 1 .. Len(v) : v[i] = w[i]
  BY <1>2, <1>3, <1>4 DEF w
<1>6. w \in Seq(Chars) /\ Len(w) = Len(v)
  BY <1>2, <1>4 DEF w
<1>7. v = w
  BY ONLY <1>3, <1>5, <1>6, SameSequence
<1> QED
  BY <1>7 DEF v, w, n

TwoFields(nd, e, s, n) == [nd EXCEPT ![e].str = s, ![e].num_bytes = n]

LEMMA TwoFieldsEdit ==
  ASSUME NEW nd, Heap(nd), NEW e \in Blocks \cup Ropes, NEW k \in Nat, Boxed(nd[e], k),
         NEW s, NEW n, n = Bytes(s), NEW edited, edited = TwoFields(nd, e, s, n)
  PROVE  Edits(nd, edited, e, s)
<1> DEFINE D == Blocks \cup Ropes
           w == [nd EXCEPT ![e].str = s]
           f == nd[e].nexts
<1>0. DOMAIN nd = D /\ nd = [x \in D |-> nd[x]]
  BY DEF Heap
<1>1. nd[e] = [str |-> nd[e].str, num_bytes |-> nd[e].num_bytes, nexts |-> f]
  BY BoxedIs
<1> HIDE DEF f
<1>2. [nd[e] EXCEPT !.str = s] = [str |-> s, num_bytes |-> nd[e].num_bytes, nexts |-> f]
  BY ONLY <1>1
<1>3. w = [nd EXCEPT ![e] = [str |-> s, num_bytes |-> nd[e].num_bytes, nexts |-> f]]
  BY ONLY <1>2
<1>4. /\ DOMAIN w = D /\ w[e] = [str |-> s, num_bytes |-> nd[e].num_bytes, nexts |-> f]
      /\ w = [x \in D |-> w[x]] /\ \A x \in D \ {e} : w[x] = nd[x]
  BY <1>0, <1>3
<1>5. edited = [w EXCEPT ![e].num_bytes = n]
  BY DEF TwoFields
<1> HIDE DEF w
<1>6. [w[e] EXCEPT !.num_bytes = n] = [str |-> s, num_bytes |-> n, nexts |-> f]
  BY ONLY <1>4
<1>7. edited = [w EXCEPT ![e] = [str |-> s, num_bytes |-> n, nexts |-> f]]
  BY ONLY <1>5, <1>6
<1>8. edited = [x \in D |-> IF x = e THEN [str |-> s, num_bytes |-> n, nexts |-> f] ELSE nd[x]]
  BY ONLY <1>4, <1>7
<1> QED
  BY <1>8 DEF f, Edits

(* An operation takes a rope from text t to text t2.                       *)
Done(nd, r, g, nd2, t2) ==
  Heap(nd2) /\ \E h : Shape(nd2, r, h, t2) /\ Kept(nd, nd2, g.nodes, h.nodes)

Gains(new, at, s) == new.chars = at.chars + Len(s) /\ new.bytes = at.bytes + Bytes(s)
Loses(new, at, s) == new.chars = at.chars - Len(s) /\ new.bytes = at.bytes - Bytes(s)

LEMMA InsertHereIs ==
  ASSUME HeapAssumption, NEW at, NEW r \in Ropes, NEW g, NEW t, Shape(at.nd, r, g, t), Heap(at.nd),
         NEW e \in g.nodes, NEW iter, Over(g, r, e, iter), NEW offset \in Nat, NEW p \in Nat,
         g.start[e] + offset = p, p <= g.end[e], NEW s \in Seq(Chars), Room(at.nd, e, s)
  PROVE  LET new == InsertHere(at, e, iter, offset, s)
         IN  Done(at.nd, r, g, new.nd, Replaced(t, p, p, s)) /\ Gains(new, at, s)
<1> DEFINE new == InsertHere(at, e, iter, offset, s)
           nd == at.nd
           old == nd[e].str
           str == Replaced(old, offset, offset, s)
           edited == [nd EXCEPT ![e].str = FirstOf(@, offset) \o s \o From(@, offset),
                                ![e].num_bytes = @ + Bytes(s)]
           d == Len(s)
<1>1. /\ Len(t) \in Nat /\ g.start[e] \in Nat /\ g.end[e] \in Nat /\ g.tall[e] \in Nat
      /\ g.start[e] <= g.end[e]
      /\ Cell(nd[e], g.tall[e]) /\ old \in Seq(Chars) /\ nd[e].num_bytes = Bytes(old)
      /\ Bytes(old) \in Nat /\ Len(old) = g.end[e] - g.start[e]
      /\ e # r => g.start[e] < g.end[e]
  BY SMTT(60), ShapeIs
<1>2. offset \in 0 .. Len(old) /\ offset \in 0 .. offset
  <2> DEFINE from == g.start[e]
             to == g.end[e]
             lo == Len(old)
  <2>1. /\ from \in Nat /\ to \in Nat /\ lo = to - from /\ from + offset = p /\ p <= to
    BY <1>1
  <2> HIDE DEF from, to, lo
  <2>2. offset \in 0 .. lo /\ offset \in 0 .. offset
    BY ONLY <2>1, offset \in Nat, p \in Nat
  <2> QED
    BY <2>2 DEF lo
<1>3. str \in Seq(Chars)
  BY ONLY <1>1, <1>2, ReplacedIs, s \in Seq(Chars)
<1>4. Bytes(str) = Bytes(old) + Bytes(s)
  BY ONLY <1>1, <1>2, BytesSpliced, s \in Seq(Chars)
<1>5. Bytes(str) <= ROPE_NODE_STR_SIZE
  BY <1>1, <1>4 DEF Room
<1>6. nd[e] = [str |-> old, num_bytes |-> nd[e].num_bytes, nexts |-> nd[e].nexts]
  <2>1. Boxed(nd[e], g.tall[e])
    BY ONLY <1>1, CellIs
  <2> QED
    BY ONLY <1>1, <2>1, BoxedIs
<1>7. Edits(nd, edited, e, str)
  <2>1. Heap(nd)
    OBVIOUS
  <2>2. e \in Blocks \cup Ropes
    BY DEF Shape
  <2> DEFINE n == nd[e].num_bytes + Bytes(s)
  <2>3. Boxed(nd[e], g.tall[e]) /\ g.tall[e] \in Nat
    BY ONLY <1>1, CellIs
  <2>4. n = Bytes(str)
    BY ONLY <1>1, <1>4
  <2> HIDE DEF nd, old
  <2>5. edited = TwoFields(nd, e, str, n)
    BY <1>6 DEF old, Replaced, TwoFields
  <2> HIDE DEF edited, n, str
  <2> QED
    BY ONLY <2>1, <2>2, <2>3, <2>4, <2>5, TwoFieldsEdit
<1>8. Edit(g, r, e, s, p, p, offset, offset, d)
  <2>1. d \in Nat /\ d \in Int /\ p <= p
    OBVIOUS
  <2>2. d = d - (p - p)
    <3> HIDE DEF d
    <3> QED
      BY ONLY <2>1, p \in Nat
  <2>3. e # r => g.start[e] < g.end[e] + d
    <3>1. g.start[e] \in Nat /\ g.end[e] \in Nat /\ (e # r => g.start[e] < g.end[e])
      BY <1>1
    <3> HIDE DEF d
    <3> QED
      BY ONLY <2>1, <3>1
  <2> QED
    BY <2>1, <2>2, <2>3 DEF Edit
<1>9. /\ new.nd = update_offset_list(edited, iter, d)
      /\ new.chars = at.chars + Len(s) /\ new.bytes = at.bytes + Bytes(s)
  BY DEF InsertHere
<1> HIDE DEF new, edited, d, str
<1>10. /\ Heap(new.nd) /\ Kept(nd, new.nd, g.nodes, g.nodes)
       /\ Shape(new.nd, r, Resized(g, e, d), Replaced(t, p, p, s))
  <2>1. str = Replaced(nd[e].str, offset, offset, s)
    BY DEF str
  <2> QED
    BY ONLY <1>3, <1>5, <1>7, <1>8, <1>9, <2>1, SplicedIs, HeapAssumption, r \in Ropes,
            Shape(at.nd, r, g, t), Heap(at.nd), e \in g.nodes, Over(g, r, e, iter)
<1>11. Resized(g, e, d).nodes = g.nodes
  BY DEF Resized
<1> QED
  BY ONLY <1>9, <1>10, <1>11 DEF new, Done, Gains

LEMMA LengthIs ==
  ASSUME NEW s, NEW k \in Nat, s = [i \in 1 .. k |-> s[i]]
  PROVE  Len(s) = k
<1>1. DOMAIN s = 1 .. k
  OBVIOUS
<1>2. s \in Seq({s[i] : i \in 1 .. k})
  OBVIOUS
<1> QED
  BY ONLY <1>1, <1>2, LenProperties, k \in Nat

LEMMA HalfBytes ==
  ASSUME NEW t \in Seq(Chars), NEW p \in 0 .. Len(t)
  PROVE  /\ Bytes(FirstOf(t, p)) = Bytes(t) - Bytes(From(t, p))
         /\ Bytes(FirstOf(t, p)) \in Nat /\ Bytes(From(t, p)) \in Nat /\ Bytes(t) \in Nat
<1> DEFINE n == Len(t)
<1>1. n \in 0 .. Len(t) /\ p \in 0 .. n /\ <<>> \in Seq(Chars)
  OBVIOUS
<1>2. FirstOf(t, p) = Replaced(t, p, n, <<>>)
  BY CutIs
<1>3. From(t, p) = SubSeq(t, p + 1, n)
  BY DEF From
<1> HIDE DEF n
<1>4. Bytes(Replaced(t, p, n, <<>>)) = (Bytes(t) - Bytes(SubSeq(t, p + 1, n))) + Bytes(<<>>)
  BY ONLY <1>1, BytesReplaced, t \in Seq(Chars)
<1>5. FirstOf(t, p) \in Seq(Chars) /\ From(t, p) \in Seq(Chars)
  BY FirstOfIs, FromIs
<1>6. Bytes(FirstOf(t, p)) \in Nat /\ Bytes(From(t, p)) \in Nat /\ Bytes(t) \in Nat
  BY <1>5, BytesIs
<1>7. Bytes(FirstOf(t, p)) = (Bytes(t) - Bytes(From(t, p))) + 0
  BY ONLY <1>2, <1>3, <1>4, BytesEmpty
<1> QED
  BY ONLY <1>6, <1>7

(* A stretch of a node's text is one of the whole.                         *)
Between(s, a, z) == SubSeq(s, a + 1, z)
Within(from, to, a, z, p, q) ==
  /\ from \in Nat /\ to \in Nat /\ a \in Nat /\ z \in Nat /\ a <= z /\ p \in Nat /\ q \in Nat
  /\ from + a = p /\ from + z = q /\ q <= to
LEMMA PartMiddle ==
  ASSUME NEW t \in Seq(Chars), NEW from, NEW to, to <= Len(t),
         NEW c, c.str \in Seq(Chars), Part(c, t, from, to),
         NEW a, NEW z, NEW p, NEW q, Within(from, to, a, z, p, q)
  PROVE  Between(c.str, a, z) = Between(t, p, q)
<1>0. /\ from \in Nat /\ to \in Nat /\ a \in Nat /\ z \in Nat /\ a <= z /\ p \in Nat /\ q \in Nat
      /\ from + a = p /\ from + z = q /\ q <= to
  BY DEF Within
<1> DEFINE str == c.str
           v == SubSeq(str, a + 1, z)
           w == SubSeq(t, p + 1, q)
           lstr == Len(str)
           lt == Len(t)
<1>1. lstr = to - from /\ lt \in Nat /\ to <= lt
  BY DEF Part
<1>2. \A j \in 1 .. to - from : str[j] = t[from + j]
  BY DEF Part
<1> HIDE DEF lstr, lt
<1>3. z \in 0 .. lstr /\ a \in 0 .. z /\ q \in 0 .. lt /\ p \in 0 .. q /\ q - p = z - a
  BY ONLY <1>0, <1>1
<1>4. str \in Seq(Chars)
  OBVIOUS
<1> HIDE DEF str
<1>5. v \in Seq(Chars) /\ Len(v) = z - a /\ \A i \in 1 .. z - a : v[i] = str[a + i]
  BY ONLY <1>3, <1>4, MiddleIs DEF lstr
<1>6. w \in Seq(Chars) /\ Len(w) = q - p /\ \A i \in 1 .. q - p : w[i] = t[p + i]
  BY ONLY <1>3, MiddleIs, t \in Seq(Chars) DEF lt
<1> HIDE DEF v, w
<1>7. ASSUME NEW i \in 1 .. Len(v) PROVE v[i] = w[i]
  <2>1. i \in 1 .. z - a /\ i \in 1 .. q - p
    BY ONLY <1>3, <1>5, i \in 1 .. Len(v)
  <2>2. a + i \in 1 .. to - from /\ from + (a + i) = p + i
    BY ONLY <1>0, <1>3, <2>1
  <2>3. str[a + i] = t[p + i]
    BY ONLY <1>2, <2>2
  <2> QED
    BY ONLY <1>5, <1>6, <2>1, <2>3
<1>8. v = w
  BY ONLY <1>3, <1>5, <1>6, <1>7, SameSequence
<1> QED
  BY <1>8 DEF v, w, str, Between

(* Where an iterator stands does not move when what follows it in its node *)
(* goes.                                                                   *)
LEMMA ResizedAt ==
  ASSUME NEW g, NEW r, NEW total \in Nat, Row(g, r, total), NEW b, NEW p, NEW iter,
         At(g, r, b, p, iter), NEW d \in Int, b # r => g.start[b] < g.end[b] + d,
         p <= g.end[b] + d
  PROVE  At(Resized(g, b, d), r, b, p, iter) /\ Resized(g, b, d).end[b] = g.end[b] + d
<1> DEFINE h == Resized(g, b, d)
<1>1. /\ b \in g.nodes /\ p \in Nat /\ g.start[b] <= p /\ p <= g.end[b] /\ (b = r \/ g.start[b] < p)
      /\ iter = [i \in 1 .. g.tall[r] |-> iter[i]]
      /\ \A i \in 1 .. g.tall[r] :
           \E x \in g.nodes : LastAt(g, b, i, x) /\ iter[i] = Link(x, p - g.start[x])
  BY DEF At
<1>2. /\ h.nodes = g.nodes /\ h.tall = g.tall
      /\ h.start[b] = g.start[b] /\ h.end[b] = g.end[b] + d
      /\ \A x \in g.nodes : g.end[x] < g.end[b] =>
           h.start[x] = g.start[x] /\ h.end[x] = g.end[x]
  BY ONLY <1>1, ResizedIs, Row(g, r, total), total \in Nat, d \in Int
<1>3. \A x, y \in g.nodes : h.end[x] < h.end[y] <=> g.end[x] < g.end[y]
  BY ONLY <1>1, ResizedOrder, Row(g, r, total), total \in Nat, d \in Int,
          b # r => g.start[b] < g.end[b] + d
<1>4. \A x \in g.nodes : g.start[x] \in Nat /\ g.end[x] \in Nat
      /\ \A y \in g.nodes : x # y => g.end[x] # g.end[y]
  BY RowOrder
<1> HIDE DEF h
<1>5. \A x, y \in g.nodes : h.end[x] <= h.end[y] <=> g.end[x] <= g.end[y]
  <2> TAKE x, y \in g.nodes
  <2>1. x = y \/ g.end[x] < g.end[y] \/ g.end[y] < g.end[x]
    BY <1>4
  <2>2. h.end[x] \in Int /\ h.end[y] \in Int
    <3>1. h.end \in [g.nodes -> Int]
      <4>1. Row(h, r, total + d)
        <5>1. g.start[b] <= g.end[b] + d
          BY <1>1, <1>4
        <5> QED
          BY ONLY <1>1, <5>1, ResizedRow, Row(g, r, total), total \in Nat, d \in Int,
                  b # r => g.start[b] < g.end[b] + d DEF h
      <4> QED
        BY <1>2, <4>1 DEF Row
    <3> QED
      BY <3>1
  <2> QED
    BY <1>3, <1>4, <2>1, <2>2
<1>6. ASSUME NEW i \in 1 .. g.tall[r]
      PROVE  \E x \in h.nodes : LastAt(h, b, i, x) /\ iter[i] = Link(x, p - h.start[x])
  <2>1. PICK x \in g.nodes : LastAt(g, b, i, x) /\ iter[i] = Link(x, p - g.start[x])
    BY ONLY <1>1, i \in 1 .. g.tall[r]
  <2>2. LastAt(h, b, i, x)
    BY ONLY <1>1, <1>2, <1>5, <2>1 DEF LastAt
  <2>3. g.end[x] <= g.end[b]
    BY ONLY <2>1 DEF LastAt
  <2>4. x = b \/ g.end[x] < g.end[b]
    BY ONLY <1>1, <1>4, <2>3, x \in g.nodes
  <2>5. h.start[x] = g.start[x]
    BY ONLY <1>2, <2>4, x \in g.nodes
  <2> QED
    BY ONLY <1>2, <2>1, <2>2, <2>5
<1>7. h.tall[r] = g.tall[r] /\ h.start[b] <= p /\ p <= h.end[b] /\ (b = r \/ h.start[b] < p)
  BY ONLY <1>1, <1>2, p <= g.end[b] + d
<1>8. At(h, r, b, p, iter)
  BY ONLY <1>1, <1>2, <1>6, <1>7 DEF At
<1> QED
  BY ONLY <1>2, <1>8 DEF h

(* The same, with the iterator at position p, the end of a node.           *)
Standing(nd, r, g, at, t2, p) ==
  /\ Heap(at.nd)
  /\ \E h, b : /\ Shape(at.nd, r, h, t2) /\ Kept(nd, at.nd, g.nodes, h.nodes)
               /\ At(h, r, b, p, at.iter) /\ p = h.end[b]

LEMMA TruncateIs ==
  ASSUME HeapAssumption, NEW at, NEW r \in Ropes, NEW g, NEW t, Shape(at.nd, r, g, t), Heap(at.nd),
         NEW b, NEW p, NEW iter, At(g, r, b, p, iter), NEW q, q = g.end[b],
         NEW none, none = <<>>, NEW w, w = Between(t, p, q)
  PROVE  LET new == Truncate(at, iter)
         IN  /\ Standing(at.nd, r, g, new, Replaced(t, p, q, none), p)
             /\ q \in Nat /\ p <= q /\ q <= Len(t)
             /\ Loses(new, at, w)
<1> DEFINE new == Truncate(at, iter)
           nd == at.nd
           c == nd[b]
           old == c.str
           off == p - g.start[b]
           len == Len(old)
           d == p - q
           str == FirstOf(old, off)
           num == c.num_bytes - (c.num_bytes - Bytes(FirstOf(old, off)))
           edited == TwoFields(nd, b, str, num)
<1>1. /\ Len(t) \in Nat /\ Row(g, r, Len(t)) /\ t \in Seq(Chars)
      /\ \A x \in g.nodes : g.start[x] \in Nat /\ g.end[x] \in Nat /\ g.tall[x] \in Nat
           /\ g.end[x] <= Len(t) /\ g.start[x] <= g.end[x]
           /\ Cell(nd[x], g.tall[x]) /\ nd[x].str \in Seq(Chars)
           /\ nd[x].num_bytes = Bytes(nd[x].str) /\ Bytes(nd[x].str) <= ROPE_NODE_STR_SIZE
           /\ Len(nd[x].str) = g.end[x] - g.start[x]
           /\ Part(nd[x], t, g.start[x], g.end[x])
  BY ShapeIs
<1>2. /\ Over(g, r, b, iter) /\ b \in g.nodes /\ p \in Nat /\ g.start[b] <= p /\ p <= g.end[b]
      /\ b = r \/ g.start[b] < p
      /\ iter[1].node = b /\ iter[1].skip_size = off
  BY ONLY <1>1, AtOver, At(g, r, b, p, iter)
<1>3. nd[b].nexts[1].skip_size = g.end[b] - g.start[b]
  BY ONLY <1>2, NextIs, HeapAssumption, r \in Ropes, Shape(at.nd, r, g, t)
<1>4. /\ off \in Nat /\ len \in Nat /\ off <= len /\ q \in Nat /\ p <= q /\ q <= Len(t)
      /\ g.start[b] + off = p /\ g.start[b] + len = q /\ old \in Seq(Chars) /\ d \in Int
      /\ c.num_bytes = Bytes(old) /\ Part(c, t, g.start[b], g.end[b])
      /\ Bytes(old) <= ROPE_NODE_STR_SIZE
  <2>1. /\ g.start[b] \in Nat /\ g.end[b] \in Nat /\ len = g.end[b] - g.start[b]
        /\ old \in Seq(Chars) /\ g.start[b] <= g.end[b] /\ g.end[b] <= Len(t)
        /\ c.num_bytes = Bytes(old) /\ Part(c, t, g.start[b], g.end[b])
        /\ Bytes(old) <= ROPE_NODE_STR_SIZE
    BY ONLY <1>1, <1>2
  <2> DEFINE from == g.start[b]
             to == g.end[b]
  <2>2. from \in Nat /\ to \in Nat /\ len = to - from /\ from <= p /\ p <= to /\ q = to
        /\ off = p - from /\ p \in Nat /\ d = p - q
    BY <1>2, <2>1
  <2> HIDE DEF from, to, len, off, d
  <2>3. /\ off \in Nat /\ len \in Nat /\ off <= len /\ q \in Nat /\ p <= q
        /\ from + off = p /\ from + len = q /\ d \in Int
    BY ONLY <2>2
  <2> QED
    BY ONLY <2>1, <2>3, q = g.end[b] DEF from
<1>5. off \in 0 .. Len(old)
  BY <1>4
<1> HIDE DEF off
<1>6. /\ Bytes(FirstOf(old, off)) = Bytes(old) - Bytes(From(old, off))
      /\ Bytes(FirstOf(old, off)) \in Nat /\ Bytes(From(old, off)) \in Nat /\ Bytes(old) \in Nat
      /\ str \in Seq(Chars)
  BY ONLY <1>4, <1>5, HalfBytes, FirstOfIs
<1>7. str = Replaced(old, off, len, <<>>)
  BY <1>4, <1>5, CutIs
<1>8. num = Bytes(str) /\ Bytes(str) <= ROPE_NODE_STR_SIZE
  <2>1. num = Bytes(str)
    BY ONLY <1>4, <1>6
  <2>2. Bytes(str) <= Bytes(old)
    BY ONLY <1>6
  <2>3. ROPE_NODE_STR_SIZE \in Nat
    BY RopeAssumption
  <2> DEFINE x == Bytes(str)
             y == Bytes(old)
  <2>4. x \in Nat /\ y \in Nat /\ x <= y /\ y <= ROPE_NODE_STR_SIZE
    BY ONLY <1>4, <1>6, <2>2
  <2> HIDE DEF x, y
  <2>5. x <= ROPE_NODE_STR_SIZE
    BY ONLY <2>3, <2>4
  <2> QED
    BY ONLY <2>1, <2>5 DEF x
<1>9. Edits(nd, edited, b, str)
  <2>1. b \in Blocks \cup Ropes
    BY <1>2 DEF Shape
  <2>2. Boxed(nd[b], g.tall[b]) /\ g.tall[b] \in Nat
    BY ONLY <1>1, <1>2, CellIs
  <2>3. Heap(nd)
    OBVIOUS
  <2> HIDE DEF nd, str, num
  <2>4. edited = TwoFields(nd, b, str, num)
    OBVIOUS
  <2> QED
    BY ONLY <1>8, <2>1, <2>2, <2>3, <2>4, TwoFieldsEdit
<1>10. Edit(g, r, b, <<>>, p, q, off, len, d)
  <2>1. <<>> \in Seq(Chars) /\ Len(<<>>) = 0
    OBVIOUS
  <2>2. d = 0 - (q - p)
    BY ONLY <1>2, <1>4
  <2>3. b # r => g.start[b] < g.end[b] + d
    <3>1. g.end[b] + d = p
      <4>1. q + d = p
        BY ONLY <1>2, <1>4
      <4> HIDE DEF d
      <4> QED
        BY ONLY <4>1, q = g.end[b]
    <3> HIDE DEF d
    <3> QED
      BY ONLY <1>2, <3>1
  <2> HIDE DEF d, len
  <2>4. d = Len(<<>>) - (q - p)
    BY ONLY <2>1, <2>2
  <2>5. q <= g.end[b]
    BY ONLY <1>4, q = g.end[b]
  <2> QED
    BY ONLY <1>2, <1>4, <2>1, <2>3, <2>4, <2>5 DEF Edit
<1>11. /\ new.nd = update_offset_list(edited, iter, d)
       /\ new.chars = at.chars - (q - p)
       /\ new.bytes = at.bytes - (c.num_bytes - Bytes(FirstOf(old, off)))
       /\ new.iter = iter
  <2> DEFINE k == skip_size(nd, b, 1) - iter[1].skip_size
             gone == nd[b].num_bytes - OffsetBytes(nd, iter)
  <2>1. k = q - p
    <3>1. k = (g.end[b] - g.start[b]) - off /\ g.start[b] \in Nat
      BY <1>1, <1>2, <1>3 DEF skip_size
    <3>2. k = (q - g.start[b]) - off
      BY ONLY <3>1, q = g.end[b]
    <3> DEFINE from == g.start[b]
    <3>3. from \in Nat /\ from + off = p
      BY ONLY <1>4, <3>1
    <3> HIDE DEF from, k
    <3>4. k = (q - from) - off
      BY ONLY <3>2 DEF from
    <3> QED
      BY ONLY <1>2, <1>4, <3>3, <3>4
  <2>2. OffsetBytes(nd, iter) = Bytes(FirstOf(old, off))
    BY <1>2 DEF OffsetBytes
  <2>3. gone = c.num_bytes - Bytes(FirstOf(old, off))
    BY ONLY <2>2
  <2>4. -k = d
    <3> HIDE DEF k
    <3> QED
      BY ONLY <1>2, <1>4, <2>1
  <2>5. iter[1].node = b /\ iter[1].skip_size = off
    BY <1>2
  <2>6. new = [nd |-> update_offset_list(TwoFields(nd, b, str, nd[b].num_bytes - gone), iter, -k),
               chars |-> at.chars - k, bytes |-> at.bytes - gone, iter |-> iter]
    BY ONLY <2>5 DEF Truncate, TwoFields
  <2>7. nd[b].num_bytes - gone = num
    BY ONLY <2>3
  <2> HIDE DEF new, k, gone, num, str
  <2>8. new.nd = update_offset_list(TwoFields(nd, b, str, nd[b].num_bytes - gone), iter, -k)
        /\ new.chars = at.chars - k /\ new.bytes = at.bytes - gone /\ new.iter = iter
    BY ONLY <2>6
  <2> QED
    BY ONLY <2>1, <2>3, <2>4, <2>7, <2>8
<1> HIDE DEF new, edited, num, d
<1>12. /\ Heap(new.nd) /\ Kept(nd, new.nd, g.nodes, g.nodes)
       /\ Shape(new.nd, r, Resized(g, b, d), Replaced(t, p, q, <<>>))
  <2>1. str = Replaced(nd[b].str, off, len, none)
    BY <1>7
  <2>2. Edit(g, r, b, none, p, q, off, len, d)
    BY <1>10
  <2> HIDE DEF str, len
  <2>3. /\ Heap(new.nd) /\ Kept(nd, new.nd, g.nodes, g.nodes)
        /\ Shape(new.nd, r, Resized(g, b, d), Replaced(t, p, q, none))
    BY ONLY <1>2, <1>6, <1>8, <1>9, <1>11, <2>1, <2>2, SplicedIs, HeapAssumption, r \in Ropes,
            Shape(at.nd, r, g, t), Heap(at.nd)
  <2> QED
    BY ONLY <2>3, none = <<>>
<1>13. At(Resized(g, b, d), r, b, p, iter) /\ Resized(g, b, d).end[b] = g.end[b] + d
  <2>1. b # r => g.start[b] < g.end[b] + d
    BY ONLY <1>10 DEF Edit
  <2>2. p <= g.end[b] + d
    BY ONLY <1>1, <1>2, <1>4, q = g.end[b] DEF d
  <2> QED
    BY ONLY <1>1, <1>4, <2>1, <2>2, ResizedAt, At(g, r, b, p, iter)
<1>14. Resized(g, b, d).nodes = g.nodes /\ Resized(g, b, d).end[b] = p
  <2>1. g.end[b] + d = p
    BY ONLY <1>1, <1>2, <1>4, q = g.end[b] DEF d
  <2> QED
    BY <1>13, <2>1 DEF Resized
<1>15. Standing(nd, r, g, new, Replaced(t, p, q, <<>>), p)
  BY ONLY <1>11, <1>12, <1>13, <1>14 DEF Standing
<1>16. new.bytes = at.bytes - Bytes(Between(t, p, q))
  <2>1. Between(old, off, len) = Between(t, p, q)
    <3>1. g.start[b] \in Nat /\ g.end[b] \in Nat /\ g.end[b] <= Len(t) /\ q <= g.end[b]
      BY ONLY <1>1, <1>2, q = g.end[b]
    <3> DEFINE from == g.start[b]
               to == g.end[b]
    <3>2. to \in Nat /\ from \in Nat /\ to <= Len(t) /\ q <= to /\ from + off = p /\ from + len = q
          /\ Part(c, t, from, to)
      BY ONLY <1>4, <3>1
    <3> HIDE DEF len, c, from, to
    <3>3. Within(from, to, off, len, p, q)
      BY ONLY <1>2, <1>4, <3>2 DEF Within
    <3>4. c.str \in Seq(Chars) /\ old = c.str
      BY <1>4 DEF c
    <3> HIDE DEF old
    <3> QED
      BY ONLY <1>1, <3>2, <3>3, <3>4, PartMiddle
  <2>2. Between(old, off, len) = From(old, off)
    BY DEF From, Between
  <2>3. c.num_bytes - Bytes(FirstOf(old, off)) = Bytes(From(old, off))
    BY ONLY <1>4, <1>6
  <2> QED
    BY ONLY <1>11, <2>1, <2>2, <2>3
<1>17. Len(w) = q - p
  <2>1. q \in 0 .. Len(t) /\ p \in 0 .. q
    BY ONLY <1>1, <1>2, <1>4
  <2> QED
    BY ONLY <1>1, <2>1, MiddleIs, w = Between(t, p, q) DEF Between
<1>18. Loses(new, at, w)
  BY ONLY <1>11, <1>16, <1>17, w = Between(t, p, q) DEF Loses
<1> QED
  BY ONLY <1>4, <1>11, <1>15, <1>18, none = <<>> DEF new
(* The head gets as tall as the new node asks for, and the iterator with   *)
(* it.                                                                     *)
LEMMA GrownIs ==
  ASSUME HeapAssumption, NEW nd, NEW r \in Ropes, NEW g, NEW t, Shape(nd, r, g, t), Heap(nd),
         NEW b, NEW p, NEW iter, At(g, r, b, p, iter), NEW k \in Heights,
         NEW nd1, nd1 = [nd EXCEPT ![r].nexts = Grow(@, k)],
         NEW iter1, iter1 = Grow(iter, k)
  PROVE  \E K \in Nat :
           /\ k < K /\ g.tall[r] <= K
           /\ Shape(nd1, r, Taller(g, r, K), t) /\ Heap(nd1) /\ Kept(nd, nd1, g.nodes, g.nodes)
           /\ At(Taller(g, r, K), r, b, p, iter1)
<1> DEFINE T == g.tall[r]
           K == IF T > k THEN T ELSE k + 1
           h == Taller(g, r, K)
           c == nd[r]
<1>1. /\ Len(t) \in Nat /\ Row(g, r, Len(t)) /\ r \in g.nodes /\ T \in Nat /\ T >= 1
      /\ T <= ROPE_MAX_HEIGHT /\ Cell(c, T) /\ Len(c.nexts) = T
  BY ShapeIs
<1>2. k \in Nat \ {0} /\ K \in Nat /\ T <= K /\ k < K /\ K <= ROPE_MAX_HEIGHT /\ K >= 1
  <2>1. ROPE_MAX_HEIGHT \in Nat /\ k \in 1 .. ROPE_MAX_HEIGHT - 1
    BY RopeAssumption DEF Heights
  <2> HIDE DEF T
  <2> QED
    BY ONLY <1>1, <2>1
<1>3. c = [str |-> c.str, num_bytes |-> c.num_bytes, nexts |-> c.nexts]
  BY ONLY <1>1, CellIs, BoxedIs
<1>4. ASSUME NEW f, Len(f) = T
      PROVE  Grow(f, k) = [i \in 1 .. K |-> f[IF i <= T THEN i ELSE T]]
  <2>1. Grow(f, k) = [i \in 1 .. K |-> f[Minimum(i, T)]]
    BY ONLY <1>4 DEF Grow
  <2>2. \A i \in 1 .. K : Minimum(i, T) = IF i <= T THEN i ELSE T
    <3> HIDE DEF T, K
    <3> QED
      BY ONLY <1>1, <1>2 DEF Minimum
  <2> HIDE DEF T, K
  <2> QED
    BY ONLY <2>1, <2>2
<1> DEFINE top == [i \in 1 .. K |-> c.nexts[IF i <= T THEN i ELSE T]]
<1>5. /\ nd1[r] = [str |-> c.str, num_bytes |-> c.num_bytes, nexts |-> top]
      /\ nd1 = [x \in Blocks \cup Ropes |-> nd1[x]]
      /\ \A x \in (Blocks \cup Ropes) \ {r} : nd1[x] = nd[x]
  <2>1. nd = [x \in Blocks \cup Ropes |-> nd[x]]
    BY DEF Heap
  <2>2. Grow(c.nexts, k) = top
    BY ONLY <1>1, <1>4
  <2> HIDE DEF top
  <2>3. [c EXCEPT !.nexts = Grow(@, k)] = [str |-> c.str, num_bytes |-> c.num_bytes, nexts |-> top]
    BY ONLY <1>3, <2>2
  <2>4. nd1 = [nd EXCEPT ![r] = [c EXCEPT !.nexts = Grow(@, k)]]
    OBVIOUS
  <2> HIDE DEF c
  <2>5. nd1 = [nd EXCEPT ![r] = [str |-> c.str, num_bytes |-> c.num_bytes, nexts |-> top]]
    BY ONLY <2>3, <2>4
  <2> QED
    BY ONLY <2>1, <2>5, r \in Ropes
<1>6. g.nodes \subseteq Blocks \cup Ropes
  BY DEF Shape
<1>7. Shape(nd1, r, h, t)
  <2>1. \A x \in g.nodes \ {r} : nd1[x] = nd[x]
    BY ONLY <1>5, <1>6
  <2>2. nd1[r] = [str |-> nd[r].str, num_bytes |-> nd[r].num_bytes,
                  nexts |-> [i \in 1 .. K |-> nd[r].nexts[IF i <= g.tall[r] THEN i ELSE g.tall[r]]]]
    BY ONLY <1>5
  <2>3. g.tall[r] <= K
    BY ONLY <1>2
  <2> HIDE DEF K
  <2> QED
    BY ONLY <1>2, <2>1, <2>2, <2>3, TallerShape, Shape(nd, r, g, t)
<1>8. Kept(nd, nd1, g.nodes, g.nodes)
  BY ONLY <1>1, <1>5 DEF Kept
<1>9. Heap(nd1)
  BY ONLY <1>5, <1>8, HeapKept, HeapAssumption, r \in Ropes, Shape(nd, r, g, t), Heap(nd)
<1>10. /\ b \in g.nodes /\ p \in Nat /\ g.start[b] <= p /\ p <= g.end[b] /\ (b = r \/ g.start[b] < p)
       /\ iter = [i \in 1 .. T |-> iter[i]]
       /\ \A i \in 1 .. T :
           \E x \in g.nodes : LastAt(g, b, i, x) /\ iter[i] = Link(x, p - g.start[x])
  BY DEF At
<1>11. /\ h.nodes = g.nodes /\ h.start = g.start /\ h.end = g.end
       /\ h.tall[r] = K
  BY <1>1 DEF Taller, Row
<1>12. iter1 = [i \in 1 .. K |-> iter[IF i <= T THEN i ELSE T]]
  <2>1. Len(iter) = T
    <3> HIDE DEF T
    <3> QED
      BY ONLY <1>1, <1>10, LengthIs
  <2> QED
    BY ONLY <1>4, <2>1, iter1 = Grow(iter, k)
<1> HIDE DEF K
<1>13. ASSUME NEW i \in 1 .. K
       PROVE  \E x \in g.nodes : LastAt(h, b, i, x) /\ iter1[i] = Link(x, p - g.start[x])
  <2> DEFINE j == IF i <= T THEN i ELSE T
  <2>1. j \in 1 .. T /\ i \in Nat /\ T \in Nat
    BY ONLY <1>1, <1>2, i \in 1 .. K
  <2>2. iter1[i] = iter[j]
    BY ONLY <1>12, i \in 1 .. K
  <2>3. PICK x \in g.nodes : LastAt(g, b, j, x) /\ iter[j] = Link(x, p - g.start[x])
    BY ONLY <1>10, <2>1
  <2>5. CASE i <= T
    <3>1. LastAt(g, b, i, x)
      BY ONLY <2>3, <2>5
    <3>2. LastAt(h, b, i, x)
      BY ONLY <1>1, <1>2, <1>10, <2>1, <2>5, <3>1, TallerLast
    <3> QED
      BY ONLY <2>2, <2>3, <3>2
  <2>6. CASE ~(i <= T)
    <3>1. LastAt(g, b, T, x)
      BY ONLY <2>3, <2>6
    <3>2. T <= T /\ T <= K /\ T <= i /\ i <= K
      BY ONLY <1>1, <1>2, <2>1, <2>6, i \in 1 .. K
    <3>3. LastAt(h, b, T, x)
      BY ONLY <1>1, <1>2, <1>10, <2>1, <3>1, <3>2, TallerLast
    <3>4. x = r
      BY ONLY <1>1, <1>2, <1>10, <2>1, <3>2, <3>3, TallerLast
    <3>5. LastAt(h, b, i, r)
      BY ONLY <1>1, <1>2, <1>10, <2>1, <3>2, TallerLast
    <3> QED
      BY ONLY <2>2, <2>3, <3>4, <3>5
  <2> QED
    BY ONLY <2>5, <2>6
<1>14. At(h, r, b, p, iter1)
  <2>1. iter1 = [i \in 1 .. h.tall[r] |-> iter1[i]]
    BY ONLY <1>11, <1>12
  <2>2. \A i \in 1 .. h.tall[r] :
          \E x \in h.nodes : LastAt(h, b, i, x) /\ iter1[i] = Link(x, p - h.start[x])
    BY ONLY <1>11, <1>13
  <2> QED
    BY ONLY <1>10, <1>11, <2>1, <2>2 DEF At
<1> QED
  BY ONLY <1>2, <1>7, <1>8, <1>9, <1>14
(* A new node is linked in behind b, and the iterator moves to its end.    *)
Linked_in(nd, iter, new, k, s, n) ==
  [Relink(nd, iter, [i \in DOMAIN iter |->
     IF i <= k THEN Link(new, iter[i].skip_size) ELSE Longer(LinkAt(nd, iter, i), n)])
   EXCEPT ![new] = [str |-> s, num_bytes |-> Bytes(s),
                    nexts |-> [i \in 1 .. k |->
                                 Longer(LinkAt(nd, iter, i), n - iter[i].skip_size)]]]
Onward(iter, new, k, n) ==
  [i \in DOMAIN iter |-> IF i <= k THEN Link(new, n) ELSE Longer(iter[i], n)]

LEMMA OnwardAt ==
  ASSUME NEW g, NEW r, NEW total \in Nat, Row(g, r, total), NEW b, NEW p, NEW iter,
         At(g, r, b, p, iter), p = g.end[b], NEW new, new \notin g.nodes,
         NEW k \in Nat \ {0}, k < g.tall[r], NEW n \in Nat \ {0}, NEW h, h = Inserted(g, b, new, k, n),
         NEW iter2, iter2 = Onward(iter, new, k, n)
  PROVE  At(h, r, new, p + n, iter2) /\ p + n = h.end[new]
<1>1. /\ b \in g.nodes /\ p \in Nat /\ r \in g.nodes
      /\ iter = [i \in 1 .. g.tall[r] |-> iter[i]]
      /\ \A i \in 1 .. g.tall[r] :
           \E x \in g.nodes : LastAt(g, b, i, x) /\ iter[i] = Link(x, p - g.start[x])
  BY DEF At, Row
<1>2. /\ h.nodes = g.nodes \cup {new}
      /\ h.start[new] = g.end[b] /\ h.end[new] = g.end[b] + n
      /\ \A x \in g.nodes : h.tall[x] = g.tall[x]
      /\ \A x \in g.nodes : g.end[x] <= g.end[b] => h.start[x] = g.start[x]
  BY ONLY SMTT(60), <1>1, InsertedIs, Row(g, r, total), total \in Nat, new \notin g.nodes,
          k \in Nat \ {0}, n \in Nat \ {0}, h = Inserted(g, b, new, k, n)
<1>3. \A x \in g.nodes : g.start[x] \in Nat /\ g.tall[x] \in Nat
  BY RowOrder
<1>4. DOMAIN iter = 1 .. g.tall[r]
  BY ONLY <1>1
<1>5. iter2 = [i \in 1 .. g.tall[r] |-> IF i <= k THEN Link(new, n) ELSE Longer(iter[i], n)]
  BY ONLY <1>4, iter2 = Onward(iter, new, k, n) DEF Onward
<1>6. ASSUME NEW i \in 1 .. g.tall[r]
      PROVE  \E x \in h.nodes : LastAt(h, new, i, x) /\ iter2[i] = Link(x, (p + n) - h.start[x])
  <2>1. PICK x \in g.nodes : LastAt(g, b, i, x) /\ iter[i] = Link(x, p - g.start[x])
    BY ONLY <1>1, i \in 1 .. g.tall[r]
  <2>2. i \in Nat
    OBVIOUS
  <2>3. /\ i <= k => LastAt(h, new, i, new)
        /\ k < i => LastAt(h, new, i, x)
    BY ONLY <1>1, <2>1, <2>2, InsertedLast, Row(g, r, total), total \in Nat, new \notin g.nodes,
          k \in Nat \ {0}, n \in Nat \ {0}, h = Inserted(g, b, new, k, n)
  <2>4. CASE i <= k
    <3>1. iter2[i] = Link(new, n)
      BY ONLY <1>5, <2>4, i \in 1 .. g.tall[r]
    <3>2. (p + n) - h.start[new] = n
      <4>1. h.start[new] = p
        BY ONLY <1>2, p = g.end[b]
      <4> QED
        BY ONLY <1>1, <4>1, n \in Nat \ {0}
    <3> QED
      BY ONLY <1>2, <2>3, <2>4, <3>1, <3>2
  <2>5. CASE ~(i <= k)
    <3>1. iter2[i] = Longer(iter[i], n)
      BY ONLY <1>5, <2>5, i \in 1 .. g.tall[r]
    <3>2. iter2[i] = Link(x, (p - g.start[x]) + n)
      BY ONLY <2>1, <3>1 DEF Longer, Link
    <3>3. h.start[x] = g.start[x]
      BY ONLY <1>2, <2>1 DEF LastAt
    <3>4. (p - g.start[x]) + n = (p + n) - h.start[x]
      BY ONLY <1>1, <1>3, <3>3, x \in g.nodes, n \in Nat \ {0}
    <3>5. k < i
      BY ONLY <2>2, <2>5, k \in Nat \ {0}
    <3>6. x \in h.nodes
      BY ONLY <1>2, x \in g.nodes
    <3> QED
      BY ONLY <2>3, <3>2, <3>4, <3>5, <3>6
  <2> QED
    BY ONLY <2>4, <2>5
<1>7. h.tall[r] = g.tall[r]
  BY ONLY <1>1, <1>2
<1>8. /\ new \in h.nodes /\ p + n \in Nat /\ h.start[new] <= p + n /\ p + n <= h.end[new]
      /\ h.start[new] < p + n /\ p + n = h.end[new]
  BY ONLY <1>1, <1>2, p = g.end[b], n \in Nat \ {0}
<1>9. iter2 = [i \in 1 .. h.tall[r] |-> iter2[i]]
  BY ONLY <1>5, <1>7
<1>10. \A i \in 1 .. h.tall[r] :
         \E x \in h.nodes : LastAt(h, new, i, x) /\ iter2[i] = Link(x, (p + n) - h.start[x])
  BY ONLY <1>6, <1>7
<1> QED
  BY ONLY <1>8, <1>9, <1>10 DEF At

LEMMA LinkedInIs ==
  ASSUME HeapAssumption, NEW nd, NEW r \in Ropes, NEW g, NEW t, Shape(nd, r, g, t), Heap(nd),
         NEW b, NEW p, NEW iter, At(g, r, b, p, iter), p = g.end[b],
         NEW k \in Nat \ {0}, k < g.tall[r],
         NEW s \in Seq(Chars), Bytes(s) <= ROPE_NODE_STR_SIZE, NEW n \in Nat \ {0}, n = Len(s),
         NEW new, new = Lowest(Unused(nd)), NEW nd2, nd2 = Linked_in(nd, iter, new, k, s, n),
         NEW iter2, iter2 = Onward(iter, new, k, n)
  PROVE  LET h == Inserted(g, b, new, k, n)
         IN  /\ Shape(nd2, r, h, Replaced(t, p, p, s)) /\ Heap(nd2)
             /\ Kept(nd, nd2, g.nodes, h.nodes)
             /\ At(h, r, new, p + n, iter2) /\ p + n = h.end[new]
             /\ p \in Nat /\ p <= Len(t)
<1> DEFINE D == Blocks \cup Ropes
           links == [i \in DOMAIN iter |->
             IF i <= k THEN Link(new, iter[i].skip_size) ELSE Longer(LinkAt(nd, iter, i), n)]
           f == [i \in 1 .. k |-> Longer(LinkAt(nd, iter, i), n - iter[i].skip_size)]
           fresh == [str |-> s, num_bytes |-> Bytes(s), nexts |-> f]
           relinked == Relink(nd, iter, links)
           h == Inserted(g, b, new, k, n)
<1>1. /\ Len(t) \in Nat /\ Row(g, r, Len(t)) /\ r \in g.nodes
      /\ \A x \in g.nodes : /\ g.start[x] \in Nat /\ g.end[x] \in Nat /\ g.tall[x] \in Nat
                            /\ g.end[x] <= Len(t) /\ g.tall[x] <= g.tall[r]
                            /\ Cell(nd[x], g.tall[x])
  BY ShapeIs
<1>2. /\ nd = [x \in D |-> nd[x]] /\ g.nodes \subseteq D
  BY DEF Heap, Shape
<1>3. \A x \in g.nodes : Boxed(nd[x], g.tall[x]) /\ x \in DOMAIN nd
  BY ONLY <1>1, <1>2, CellIs
<1>4. /\ Over(g, r, b, iter) /\ b \in g.nodes /\ p \in Nat
      /\ \A i \in 1 .. g.tall[r] : iter[i] = Link(iter[i].node, p - g.start[iter[i].node])
  BY ONLY <1>1, AtOver, At(g, r, b, p, iter)
<1>5. DOMAIN iter = 1 .. g.tall[r] /\ \A i \in 1 .. g.tall[r] : LastAt(g, b, i, iter[i].node)
  BY ONLY <1>4 DEF Over
<1>6. new \in Blocks /\ nd[new] = FreeBlock /\ new \notin g.nodes
  <2>1. PICK m \in Nat : \A x \in Blocks : x > m => nd[x] = FreeBlock
    BY DEF Heap
  <2>2. Blocks \subseteq Nat /\ \E x \in Blocks : x > m
    BY DEF HeapAssumption
  <2>3. Unused(nd) \subseteq Nat /\ Unused(nd) # {}
    BY ONLY <2>1, <2>2 DEF Unused
  <2>4. new \in Unused(nd)
    BY ONLY <2>3, LowestIs, new = Lowest(Unused(nd))
  <2>5. new \in Blocks /\ nd[new] = FreeBlock
    BY ONLY <2>4 DEF Unused
  <2>6. new \notin g.nodes
    BY ONLY <1>3, <2>5, HeapAssumption DEF HeapAssumption
  <2> QED
    BY ONLY <2>5, <2>6
<1>7. /\ relinked = [x \in D |-> relinked[x]]
      /\ \A x \in D \ g.nodes : relinked[x] = nd[x]
      /\ \A x \in g.nodes :
           relinked[x] = [str |-> nd[x].str, num_bytes |-> nd[x].num_bytes,
                          nexts |-> [i \in 1 .. g.tall[x] |->
                             IF LastAt(g, b, i, x) THEN links[i] ELSE nd[x].nexts[i]]]
  <2>1. DOMAIN nd = D
    BY ONLY <1>2
  <2> HIDE DEF links, D
  <2> QED
    BY ONLY <1>1, <1>3, <1>4, <2>1, RelinkIs
<1>8. /\ nd2[new] = fresh /\ \A x \in D \ {new} : nd2[x] = relinked[x]
      /\ nd2 = [x \in D |-> nd2[x]]
  <2>1. nd2 = [relinked EXCEPT ![new] = fresh]
    BY ONLY nd2 = Linked_in(nd, iter, new, k, s, n) DEF Linked_in
  <2> HIDE DEF relinked, fresh
  <2> QED
    BY ONLY <1>6, <1>7, <2>1
<1> HIDE DEF relinked
<1>9. ASSUME NEW x \in g.nodes, NEW i \in 1 .. g.tall[x], LastAt(g, b, i, x)
      PROVE  i \in 1 .. g.tall[r] /\ iter[i].node = x /\ iter[i].skip_size = g.end[b] - g.start[x]
  <2>1. i \in 1 .. g.tall[r]
    BY ONLY <1>1, x \in g.nodes, i \in 1 .. g.tall[x]
  <2>2. iter[i].node = x
    BY ONLY <1>1, <1>5, <2>1, LastUnique, LastAt(g, b, i, x)
  <2>3. iter[i].skip_size = g.end[b] - g.start[x]
    <3>1. iter[i] = Link(x, g.end[b] - g.start[x])
      BY ONLY <1>4, <2>1, <2>2, p = g.end[b]
    <3> QED
      BY ONLY <3>1 DEF Link
  <2> QED
    BY ONLY <2>1, <2>2, <2>3
<1>10. ASSUME NEW x \in g.nodes
       PROVE  nd2[x] = [str |-> nd[x].str, num_bytes |-> nd[x].num_bytes,
                        nexts |-> Parted(nd, g, b, new, k, n, x)]
  <2>1. ASSUME NEW i \in 1 .. g.tall[x], LastAt(g, b, i, x)
        PROVE  links[i] = IF i <= k THEN Link(new, g.end[b] - g.start[x])
                                    ELSE Longer(nd[x].nexts[i], n)
    <3>1. i \in 1 .. g.tall[r] /\ iter[i].node = x /\ iter[i].skip_size = g.end[b] - g.start[x]
      BY ONLY <1>9, <2>1, x \in g.nodes
    <3>2. LinkAt(nd, iter, i) = nd[x].nexts[i]
      BY ONLY <3>1 DEF LinkAt
    <3> QED
      BY ONLY <1>5, <3>1, <3>2
  <2>2. [i \in 1 .. g.tall[x] |-> IF LastAt(g, b, i, x) THEN links[i] ELSE nd[x].nexts[i]]
        = Parted(nd, g, b, new, k, n, x)
    <3> HIDE DEF links
    <3> QED
      BY ONLY <2>1 DEF Parted
  <2>3. x \in D \ {new}
    BY ONLY <1>2, <1>6, x \in g.nodes
  <2> QED
    BY ONLY <1>7, <1>8, <2>2, <2>3, x \in g.nodes
<1>11. ASSUME NEW i \in 1 .. k
       PROVE  \E w \in g.nodes :
                /\ i <= g.tall[w] /\ LastAt(g, b, i, w)
                /\ f[i] = Longer(nd[w].nexts[i], n - (g.end[b] - g.start[w]))
  <2>1. i \in 1 .. g.tall[r]
    BY ONLY <1>1, k \in Nat \ {0}, k < g.tall[r], i \in 1 .. k
  <2>2. LastAt(g, b, i, iter[i].node)
    BY ONLY <1>5, <2>1
  <2>3. iter[i].node \in g.nodes /\ g.tall[iter[i].node] >= i
    BY ONLY <2>2 DEF LastAt
  <2>4. i \in 1 .. g.tall[iter[i].node]
    BY ONLY <1>1, <2>1, <2>3
  <2>5. iter[i].skip_size = g.end[b] - g.start[iter[i].node]
    BY ONLY <1>9, <2>2, <2>3, <2>4
  <2>6. f[i] = Longer(nd[iter[i].node].nexts[i], n - (g.end[b] - g.start[iter[i].node]))
    BY ONLY <2>5, i \in 1 .. k DEF LinkAt
  <2>7. i <= g.tall[iter[i].node]
    BY ONLY <1>1, <2>3, <2>4
  <2> QED
    BY ONLY <2>2, <2>3, <2>6, <2>7
<1>12. Shape(nd2, r, h, Replaced(t, p, p, s))
  <2>1. nd2[new] = [str |-> s, num_bytes |-> Bytes(s), nexts |-> [i \in 1 .. k |-> f[i]]]
    <3>1. f = [i \in 1 .. k |-> f[i]]
      OBVIOUS
    <3> HIDE DEF f
    <3> QED
      BY ONLY <1>8, <3>1
  <2> HIDE DEF f
  <2>2. Spliced(nd, nd2, g, b, new, k, n, s)
    BY ONLY <1>10, <1>11, <2>1 DEF Spliced
  <2> QED
    BY ONLY <1>4, <1>6, <2>2, InsertedShape, Shape(nd, r, g, t), k \in Nat \ {0},
            k < g.tall[r], s \in Seq(Chars), Bytes(s) <= ROPE_NODE_STR_SIZE, n \in Nat \ {0},
            n = Len(s), p = g.end[b]
<1>13. h.nodes = g.nodes \cup {new}
  BY DEF Inserted
<1>14. Kept(nd, nd2, g.nodes, h.nodes)
  BY ONLY <1>2, <1>6, <1>7, <1>8, <1>13 DEF Kept
<1>15. Heap(nd2)
  <2>1. PICK m \in Nat : \A x \in Blocks : x > m => nd[x] = FreeBlock
    BY DEF Heap
  <2>2. ASSUME NEW x \in Blocks, x > m, x > new PROVE nd2[x] = FreeBlock
    <3>1. nd[x] = FreeBlock
      BY ONLY <2>1, <2>2
    <3>2. x \notin g.nodes
      BY ONLY <1>3, <3>1, HeapAssumption DEF HeapAssumption
    <3>3. x # new
      <4>1. x \in Nat /\ new \in Nat
        BY <1>6 DEF HeapAssumption
      <4> QED
        BY ONLY <2>2, <4>1
    <3> QED
      BY ONLY <1>7, <1>8, <3>1, <3>2, <3>3, x \in Blocks
  <2>3. \E w \in Nat : \A x \in Blocks : x > w => nd2[x] = FreeBlock
    <3>1. new \in Nat /\ Blocks \subseteq Nat
      BY <1>6 DEF HeapAssumption
    <3>2. CASE new <= m
      <4>1. \A x \in Blocks : x > m => x > new
        BY ONLY <3>1, <3>2, m \in Nat
      <4> QED
        BY ONLY <2>2, <4>1, m \in Nat
    <3>3. CASE ~(new <= m)
      <4>1. \A x \in Blocks : x > new => x > m
        BY ONLY <3>1, <3>3, m \in Nat
      <4> QED
        BY ONLY <2>2, <3>1, <4>1
    <3> QED
      BY ONLY <3>2, <3>3
  <2> QED
    BY ONLY <1>8, <2>3 DEF Heap
<1>16. At(h, r, new, p + n, iter2) /\ p + n = h.end[new]
  BY ONLY <1>1, <1>6, OnwardAt, At(g, r, b, p, iter), p = g.end[b], k \in Nat \ {0}, k < g.tall[r],
          n \in Nat \ {0}, iter2 = Onward(iter, new, k, n)
<1>17. p <= Len(t)
  BY ONLY <1>1, <1>4, p = g.end[b]
<1> HIDE DEF h
<1> QED
  BY ONLY <1>4, <1>12, <1>14, <1>15, <1>16, <1>17 DEF h
Own(g) == g.nodes \subseteq Blocks \cup Ropes

LEMMA InsertAtIs ==
  ASSUME HeapAssumption, NEW nd, NEW r \in Ropes, NEW g, Own(g),
         NEW at, NEW t, NEW p, Standing(nd, r, g, at, t, p), NEW k \in Heights,
         NEW s \in Seq(Chars), Bytes(s) <= ROPE_NODE_STR_SIZE, NEW n \in Nat \ {0}, n = Len(s),
         NEW q, q = p + n
  PROVE  LET new == insert_at(r, at, k, s)
         IN  /\ Standing(nd, r, g, new, Replaced(t, p, p, s), q)
             /\ t \in Seq(Chars) /\ p \in Nat /\ p <= Len(t)
             /\ new.chars = at.chars + n /\ new.bytes = at.bytes + Bytes(s)
<1> DEFINE new == insert_at(r, at, k, s)
           nd1 == [at.nd EXCEPT ![r].nexts = Grow(@, k)]
           iter1 == Grow(at.iter, k)
           x == Lowest(Unused(nd1))
<1>1. Heap(at.nd)
  BY DEF Standing
<1>2. PICK h, b : /\ Shape(at.nd, r, h, t) /\ Kept(nd, at.nd, g.nodes, h.nodes)
                  /\ At(h, r, b, p, at.iter) /\ p = h.end[b]
  BY DEF Standing
<1>3. /\ new.nd = Linked_in(nd1, iter1, x, k, s, n)
      /\ new.iter = Onward(iter1, x, k, n)
      /\ new.chars = at.chars + n /\ new.bytes = at.bytes + Bytes(s)
  BY n = Len(s) DEF insert_at, Linked_in, Onward
<1> HIDE DEF new, x
<1>4. PICK K \in Nat :
        /\ k < K /\ h.tall[r] <= K
        /\ Shape(nd1, r, Taller(h, r, K), t) /\ Heap(nd1) /\ Kept(at.nd, nd1, h.nodes, h.nodes)
        /\ At(Taller(h, r, K), r, b, p, iter1)
  BY ONLY <1>1, <1>2, GrownIs, HeapAssumption, r \in Ropes, k \in Heights
<1> HIDE DEF nd1, iter1
<1> DEFINE l == Taller(h, r, K)
           m == Inserted(l, b, x, k, n)
<1>5. l.nodes = h.nodes /\ l.end = h.end /\ l.tall[r] = K
  <2>1. r \in h.nodes /\ h.tall \in [h.nodes -> Nat]
    <3>1. Row(h, r, Len(t))
      BY ONLY <1>2, ShapeIs
    <3> QED
      BY ONLY <3>1 DEF Row
  <2> QED
    BY ONLY <2>1 DEF Taller
<1> HIDE DEF l
<1>6. k \in Nat \ {0}
  <2>1. ROPE_MAX_HEIGHT \in Nat /\ k \in 1 .. ROPE_MAX_HEIGHT - 1
    BY RopeAssumption DEF Heights
  <2> QED
    BY ONLY <2>1
<1>7. /\ Shape(new.nd, r, m, Replaced(t, p, p, s)) /\ Heap(new.nd)
      /\ Kept(nd1, new.nd, l.nodes, m.nodes)
      /\ At(m, r, x, p + n, new.iter) /\ p + n = m.end[x]
      /\ p \in Nat /\ p <= Len(t)
  <2>1. p = l.end[b] /\ k < l.tall[r]
    BY ONLY <1>2, <1>4, <1>5
  <2>2. Shape(nd1, r, l, t) /\ Heap(nd1) /\ At(l, r, b, p, iter1)
    BY ONLY <1>4 DEF l
  <2>3. x = Lowest(Unused(nd1))
    BY DEF x
  <2> QED
    BY ONLY <1>3, <1>6, <2>1, <2>2, <2>3, LinkedInIs, HeapAssumption, r \in Ropes, s \in Seq(Chars),
            Bytes(s) <= ROPE_NODE_STR_SIZE, n \in Nat \ {0}, n = Len(s)
<1> HIDE DEF m
<1>8. Kept(nd, new.nd, g.nodes, m.nodes)
  <2>1. h.nodes \subseteq Blocks \cup Ropes
    BY <1>2 DEF Shape
  <2>2. Kept(nd, nd1, g.nodes, h.nodes)
    BY ONLY <1>2, <1>4, <2>1, KeptThen, Own(g) DEF Own
  <2> QED
    BY ONLY <1>5, <1>7, <2>1, <2>2, KeptThen, Own(g) DEF Own
<1>9. Standing(nd, r, g, new, Replaced(t, p, p, s), q)
  BY ONLY <1>7, <1>8, q = p + n DEF Standing
<1>10. t \in Seq(Chars)
  BY <1>2 DEF Shape
<1> QED
  BY ONLY <1>3, <1>7, <1>9, <1>10 DEF new
-----------------------------------------------------------------------------
(* The new nodes of an insertion, one after the other.                     *)
LEMMA Halves ==
  ASSUME NEW t \in Seq(Chars), NEW p \in 0 .. Len(t)
  PROVE  FirstOf(t, p) \o From(t, p) = t
<1> DEFINE n == Len(t)
<1>1. n \in Nat /\ n = Len(t)
  OBVIOUS
<1> HIDE DEF n
<1>2. 1 \in 1 .. n + 1 /\ p \in 1 - 1 .. n /\ n \in p .. n
  BY ONLY <1>1, p \in 0 .. Len(t)
<1>3. SubSeq(t, 1, p) \o SubSeq(t, p + 1, n) = SubSeq(t, 1, n)
  BY ONLY <1>1, <1>2, ConcatAdjacentSubSeq, t \in Seq(Chars)
<1>4. SubSeq(t, 1, n) = t
  BY ONLY <1>1, SubSeqFull, t \in Seq(Chars)
<1> QED
  BY ONLY <1>1, <1>3, <1>4 DEF FirstOf, From

LEMMA HalvesOf ==
  ASSUME NEW a \in Seq(Chars), NEW b \in Seq(Chars), NEW n, n = Len(a)
  PROVE  /\ n \in 0 .. Len(a \o b) /\ a \o b \in Seq(Chars)
         /\ FirstOf(a \o b, n) = a /\ From(a \o b, n) = b
<1> DEFINE m == Len(b)
           c == a \o b
           l == Len(c)
<1>1. /\ c \in Seq(Chars) /\ Len(c) = Len(a) + Len(b)
      /\ \A i \in 1 .. Len(a) : c[i] = a[i]
      /\ \A i \in 1 .. Len(b) : c[Len(a) + i] = b[i]
  BY ConcatIs
<1>2. n \in Nat /\ m \in Nat /\ l = n + m
  BY <1>1
<1> HIDE DEF c, m, l
<1>3. n \in 0 .. l /\ l - n = m
  BY ONLY <1>2
<1>4. n \in 0 .. Len(c)
  BY ONLY <1>3 DEF l
<1>5. /\ FirstOf(c, n) \in Seq(Chars) /\ Len(FirstOf(c, n)) = n
      /\ \A i \in 1 .. n : FirstOf(c, n)[i] = c[i]
  BY ONLY <1>1, <1>4, FirstOfIs
<1>6. /\ From(c, n) \in Seq(Chars) /\ Len(From(c, n)) = m
      /\ \A i \in 1 .. m : From(c, n)[i] = c[n + i]
  <2>1. /\ From(c, n) \in Seq(Chars) /\ Len(From(c, n)) = Len(c) - n
        /\ \A i \in 1 .. Len(c) - n : From(c, n)[i] = c[n + i]
    BY ONLY <1>1, <1>4, FromIs
  <2>2. Len(c) - n = m
    BY ONLY <1>3 DEF l
  <2> QED
    BY ONLY <2>1, <2>2
<1>7. \A i \in 1 .. n : c[i] = a[i]
  BY ONLY <1>1, n = Len(a)
<1>8. \A i \in 1 .. m : c[n + i] = b[i]
  BY ONLY <1>1, n = Len(a) DEF m
<1>9. FirstOf(c, n) = a
  <2>1. \A i \in 1 .. n : FirstOf(c, n)[i] = a[i]
    BY ONLY <1>5, <1>7
  <2> DEFINE f == FirstOf(c, n)
  <2> HIDE DEF f
  <2>2. f = a
    BY ONLY <1>5, <2>1, SameSequence, a \in Seq(Chars), n = Len(a) DEF f
  <2> QED
    BY ONLY <2>2 DEF f
<1>10. From(c, n) = b
  <2>1. \A i \in 1 .. m : From(c, n)[i] = b[i]
    BY ONLY <1>6, <1>8
  <2> DEFINE f == From(c, n)
  <2> HIDE DEF f
  <2>2. f = b
    BY ONLY <1>6, <2>1, SameSequence, b \in Seq(Chars) DEF f, m
  <2> QED
    BY ONLY <2>2 DEF f
<1> QED
  BY ONLY <1>1, <1>4, <1>9, <1>10 DEF c

LEMMA ReplacedNone ==
  ASSUME NEW t \in Seq(Chars), NEW p \in 0 .. Len(t)
  PROVE  Replaced(t, p, p, <<>>) = t
<1>1. FirstOf(t, p) \in Seq(Chars)
  BY FirstOfIs
<1>2. FirstOf(t, p) \o <<>> = FirstOf(t, p)
  BY ONLY <1>1, ConcatEmptySeq
<1> QED
  BY ONLY <1>2, Halves, t \in Seq(Chars), p \in 0 .. Len(t) DEF Replaced

(* What goes in next goes in behind what went in before.                   *)
LEMMA ReplacedTwice ==
  ASSUME NEW t \in Seq(Chars), NEW q \in 0 .. Len(t), NEW p \in 0 .. q,
         NEW v \in Seq(Chars), NEW w \in Seq(Chars), NEW n, n = p + Len(v)
  PROVE  Replaced(Replaced(t, p, q, v), n, n, w) = Replaced(t, p, q, v \o w)
<1> DEFINE a == FirstOf(t, p)
           b == From(t, q)
           av == a \o v
           u == Replaced(t, p, q, v)
<1>1. a \in Seq(Chars) /\ Len(a) = p /\ b \in Seq(Chars)
  <2>1. p \in 0 .. Len(t)
    <3> DEFINE l == Len(t)
    <3>1. l \in Nat /\ q \in 0 .. l
      OBVIOUS
    <3> HIDE DEF l
    <3>2. p \in 0 .. l
      BY ONLY <3>1, p \in 0 .. q
    <3> QED
      BY ONLY <3>2 DEF l
  <2> QED
    BY ONLY <2>1, FirstOfIs, FromIs, t \in Seq(Chars), q \in 0 .. Len(t)
<1>2. u = av \o b
  BY DEF Replaced
<1> HIDE DEF a, b, u
<1>3. av \in Seq(Chars) /\ n = Len(av)
  BY ONLY <1>1, ConcatIs, v \in Seq(Chars), n = p + Len(v)
<1>4. (av \o w) \o b = (a \o (v \o w)) \o b
  BY ONLY SMTT(60), <1>1, ConcatAssociative, v \in Seq(Chars), w \in Seq(Chars)
<1> HIDE DEF av
<1>5. FirstOf(u, n) = av /\ From(u, n) = b
  BY ONLY <1>1, <1>2, <1>3, HalvesOf
<1>6. Replaced(u, n, n, w) = (av \o w) \o b
  BY ONLY <1>5 DEF Replaced
<1>7. Replaced(t, p, q, v \o w) = (a \o (v \o w)) \o b
  BY DEF Replaced, a, b
<1> QED
  BY ONLY <1>4, <1>6, <1>7 DEF u
LEMMA FirstOfMore ==
  ASSUME NEW u \in Seq(Chars), NEW z \in 0 .. Len(u), NEW a \in 0 .. z
  PROVE  /\ FirstOf(u, z) = FirstOf(u, a) \o SubSeq(u, a + 1, z)
         /\ FirstOf(u, a) \in Seq(Chars) /\ Len(FirstOf(u, a)) = a
         /\ SubSeq(u, a + 1, z) \in Seq(Chars) /\ Len(SubSeq(u, a + 1, z)) = z - a
<1> DEFINE n == Len(u)
<1>1. n \in Nat /\ n = Len(u) /\ z \in 0 .. n
  OBVIOUS
<1> HIDE DEF n
<1>2. 1 \in 1 .. n + 1 /\ a \in 1 - 1 .. n /\ z \in a .. n /\ a \in 0 .. n
  BY ONLY <1>1, a \in 0 .. z
<1>3. SubSeq(u, 1, a) \o SubSeq(u, a + 1, z) = SubSeq(u, 1, z)
  BY ONLY <1>1, <1>2, ConcatAdjacentSubSeq, u \in Seq(Chars)
<1>4. FirstOf(u, a) \in Seq(Chars) /\ Len(FirstOf(u, a)) = a
  BY ONLY <1>1, <1>2, FirstOfIs, u \in Seq(Chars)
<1>5. SubSeq(u, a + 1, z) \in Seq(Chars) /\ Len(SubSeq(u, a + 1, z)) = z - a
  BY ONLY <1>1, MiddleIs, u \in Seq(Chars), a \in 0 .. z
<1> QED
  BY ONLY <1>3, <1>4, <1>5 DEF FirstOf

LEMMA StandingIs ==
  ASSUME NEW nd, NEW r, NEW g, NEW at, NEW t, NEW p, Standing(nd, r, g, at, t, p)
  PROVE  t \in Seq(Chars) /\ p \in 0 .. Len(t)
<1>1. PICK h, b : Shape(at.nd, r, h, t) /\ At(h, r, b, p, at.iter)
  BY DEF Standing
<1>2. /\ t \in Seq(Chars) /\ Len(t) \in Nat /\ \A x \in h.nodes : h.end[x] \in Nat /\ h.end[x] <= Len(t)
  BY ONLY <1>1, ShapeIs
<1>3. b \in h.nodes /\ p \in Nat /\ p <= h.end[b]
  BY ONLY <1>1 DEF At
<1> QED
  BY ONLY <1>2, <1>3

(* The first n parts are the string u in order, each fit for a node.       *)
Cut(parts, n, u) ==
  /\ n \in Nat /\ u \in Seq(Chars)
  /\ \E c \in [0 .. n -> Nat] :
       /\ c[0] = 0 /\ c[n] = Len(u)
       /\ \A i \in 1 .. n :
            /\ c[i - 1] < c[i] /\ c[i] <= Len(u)
            /\ parts[i] = SubSeq(u, c[i - 1] + 1, c[i])
            /\ Bytes(parts[i]) <= ROPE_NODE_STR_SIZE

LEMMA InsertAllIs ==
  ASSUME HeapAssumption, NEW nd, NEW r \in Ropes, NEW g, Own(g),
         NEW at, NEW t, NEW p, Standing(nd, r, g, at, t, p), at.chars \in Int, at.bytes \in Int,
         NEW parts, NEW u, Cut(parts, Len(parts), u),
         NEW heights, \A i \in 1 .. Len(parts) : heights[i] \in Heights, NEW z, z = p + Len(u)
  PROVE  LET new == InsertAll(r, at, heights, parts)
         IN  Standing(nd, r, g, new, Replaced(t, p, p, u), z) /\ Gains(new, at, u)
<1> DEFINE n == Len(parts)
           Is(f) == f = [i \in 0 .. n |->
                           IF i = 0 THEN at ELSE insert_at(r, f[i - 1], heights[i], parts[i])]
           run == CHOOSE f : Is(f)
           loop == [of |-> "insert", r |-> r, heights |-> heights, parts |-> parts]
<1>1. n \in Nat /\ u \in Seq(Chars) /\ \A i \in 1 .. n : heights[i] \in Heights
  BY DEF Cut
<1>2. PICK c \in [0 .. n -> Nat] :
        /\ c[0] = 0 /\ c[n] = Len(u)
        /\ \A i \in 1 .. n :
            /\ c[i - 1] < c[i] /\ c[i] <= Len(u)
            /\ parts[i] = SubSeq(u, c[i - 1] + 1, c[i])
            /\ Bytes(parts[i]) <= ROPE_NODE_STR_SIZE
  BY DEF Cut
<1>3. Is(run)
  <2>1. PICK f : Runs(f, loop, n, at)
    BY <1>1, RoundsExist
  <2>2. \A i, x : Round(loop, i, x) = insert_at(r, x, heights[i], parts[i])
    BY DEF Round
  <2>3. Is(f)
    BY <2>1, <2>2 DEF Runs
  <2> HIDE DEF Is
  <2> QED
    BY <2>3
<1>4. InsertAll(r, at, heights, parts) = run[n]
  BY DEF InsertAll, Loop
<1>5. /\ run[0] = at
      /\ \A i \in 1 .. n : run[i] = insert_at(r, run[i - 1], heights[i], parts[i])
  <2>1. 0 \in 0 .. n /\ \A i \in 1 .. n : i \in 0 .. n /\ i # 0
    BY <1>1
  <2> HIDE DEF run, n
  <2> QED
    BY ONLY <1>3, <2>1
<1> HIDE DEF run, n
<1> DEFINE In(i) == FirstOf(u, c[i])
           Good(i) == /\ Standing(nd, r, g, run[i], Replaced(t, p, p, In(i)), p + c[i])
                      /\ run[i].chars = at.chars + c[i]
                      /\ run[i].bytes = at.bytes + Bytes(In(i))
           S == {i \in 0 .. n : Good(i)}
<1>6. t \in Seq(Chars) /\ p \in 0 .. Len(t) /\ p \in Nat
  <2>1. t \in Seq(Chars) /\ p \in 0 .. Len(t)
    BY ONLY StandingIs, Standing(nd, r, g, at, t, p)
  <2> QED
    BY <2>1
<1>7. 0 \in S
  <2>1. In(0) = <<>>
    BY ONLY <1>2, SubSeqEmpty DEF FirstOf
  <2>2. Replaced(t, p, p, In(0)) = t
    BY ONLY <1>6, <2>1, ReplacedNone
  <2>3. p + c[0] = p /\ at.chars + c[0] = at.chars /\ at.bytes + Bytes(In(0)) = at.bytes
    BY ONLY <1>2, <1>6, <2>1, BytesEmpty, at.chars \in Int, at.bytes \in Int
  <2>4. 0 \in 0 .. n
    BY <1>1
  <2> HIDE DEF In
  <2> QED
    BY ONLY <1>5, <2>2, <2>3, <2>4, Standing(nd, r, g, at, t, p)
<1>8. ASSUME NEW i \in 1 .. n, i - 1 \in S PROVE i \in S
  <2> DEFINE j == i - 1
             s == parts[i]
             m == c[i] - c[j]
             v == In(j)
             q == p + c[j]
  <2>1. /\ j \in 0 .. n /\ i \in 0 .. n
        /\ Standing(nd, r, g, run[j], Replaced(t, p, p, v), q)
        /\ run[j].chars = at.chars + c[j] /\ run[j].bytes = at.bytes + Bytes(v)
    BY <1>1, <1>8
  <2>2. /\ c[j] < c[i] /\ c[i] <= Len(u) /\ c[j] \in Nat /\ c[i] \in Nat
        /\ s = SubSeq(u, c[j] + 1, c[i]) /\ Bytes(s) <= ROPE_NODE_STR_SIZE
    BY ONLY <1>2, <2>1, i \in 1 .. n
  <2>3. c[i] \in 0 .. Len(u) /\ c[j] \in 0 .. c[i] /\ m \in Nat \ {0}
    BY ONLY <1>1, <2>2
  <2>4. /\ In(i) = v \o s /\ v \in Seq(Chars) /\ Len(v) = c[j]
        /\ s \in Seq(Chars) /\ Len(s) = m
    <3>1. /\ In(i) = v \o SubSeq(u, c[j] + 1, c[i]) /\ v \in Seq(Chars) /\ Len(v) = c[j]
          /\ SubSeq(u, c[j] + 1, c[i]) \in Seq(Chars) /\ Len(SubSeq(u, c[j] + 1, c[i])) = m
      BY ONLY <1>1, <2>3, FirstOfMore
    <3> QED
      BY ONLY <2>2, <3>1
  <2>5. run[i] = insert_at(r, run[j], heights[i], s) /\ heights[i] \in Heights
    BY ONLY <1>1, <1>5, i \in 1 .. n
  <2> DEFINE tj == Replaced(t, p, p, v)
             x == run[j]
             y == insert_at(r, x, heights[i], s)
             k == heights[i]
  <2> HIDE DEF s, m, v, In, j
  <2>6. /\ Standing(nd, r, g, y, Replaced(tj, q, q, s), q + m)
        /\ y.chars = x.chars + m /\ y.bytes = x.bytes + Bytes(s)
    <3> DEFINE end == q + m
    <3>1. /\ Standing(nd, r, g, x, tj, q) /\ k \in Heights
          /\ Bytes(s) <= ROPE_NODE_STR_SIZE /\ s \in Seq(Chars) /\ m = Len(s) /\ m \in Nat \ {0}
      BY ONLY <2>1, <2>2, <2>3, <2>4, <2>5
    <3> HIDE DEF tj, x, y, k, q
    <3>2. end = q + m
      OBVIOUS
    <3> HIDE DEF end
    <3>3. /\ Standing(nd, r, g, insert_at(r, x, k, s), Replaced(tj, q, q, s), end)
          /\ insert_at(r, x, k, s).chars = x.chars + m
          /\ insert_at(r, x, k, s).bytes = x.bytes + Bytes(s)
      BY ONLY <3>1, <3>2, InsertAtIs, HeapAssumption, r \in Ropes, Own(g)
    <3> QED
      BY ONLY <3>2, <3>3 DEF y, k
  <2>7. Replaced(tj, q, q, s) = Replaced(t, p, p, In(i))
    <3>1. q = p + Len(v) /\ p \in 0 .. p
      BY ONLY <1>6, <2>4
    <3> HIDE DEF q
    <3>2. v \in Seq(Chars) /\ s \in Seq(Chars) /\ t \in Seq(Chars) /\ p \in 0 .. Len(t)
          /\ p \in 0 .. p /\ q = p + Len(v)
      BY ONLY <1>6, <2>4, <3>1
    <3>3. Replaced(Replaced(t, p, p, v), q, q, s) = Replaced(t, p, p, v \o s)
      BY ONLY <3>2, ReplacedTwice
    <3> QED
      BY ONLY <2>4, <3>3
  <2>8. q + m = p + c[i]
    <3> DEFINE cj == c[j]
               ci == c[i]
    <3>1. cj \in Nat /\ ci \in Nat
      BY ONLY <2>2
    <3> HIDE DEF cj, ci
    <3>2. (p + cj) + (ci - cj) = p + ci
      BY ONLY <1>6, <3>1
    <3> QED
      BY ONLY <3>2 DEF q, m, cj, ci
  <2>9. (at.chars + c[j]) + m = at.chars + c[i]
    <3> DEFINE a == at.chars
    <3> HIDE DEF a
    <3>1. a \in Int
      BY DEF a
    <3>2. (a + c[j]) + m = a + c[i]
      BY ONLY <2>2, <3>1 DEF m
    <3> QED
      BY ONLY <3>2 DEF a
  <2>10. (at.bytes + Bytes(v)) + Bytes(s) = at.bytes + Bytes(In(i))
    <3>1. Bytes(In(i)) = Bytes(v) + Bytes(s) /\ Bytes(v) \in Nat /\ Bytes(s) \in Nat
      BY ONLY <2>4, BytesConcat, BytesIs
    <3> DEFINE a == at.bytes
               bv == Bytes(v)
               bs == Bytes(s)
               bi == Bytes(In(i))
    <3>2. a \in Int /\ bi = bv + bs /\ bv \in Nat /\ bs \in Nat
      BY <3>1
    <3> HIDE DEF a, bv, bs, bi
    <3>3. (a + bv) + bs = a + bi
      BY ONLY <3>2
    <3> QED
      BY ONLY <3>3 DEF a, bv, bs, bi
  <2>11. Good(i)
    BY ONLY <2>1, <2>5, <2>6, <2>7, <2>8, <2>9, <2>10
  <2> QED
    BY ONLY <2>1, <2>11
<1> HIDE DEF Good
<1>9. n \in 0 .. n
  BY ONLY <1>1
<1>10. \A i \in 0 .. n : i \in S
  <2> HIDE DEF S
  <2> QED
    BY ONLY <1>1, <1>7, <1>8, Upward
<1>11. Good(n)
  BY ONLY <1>9, <1>10
<1>12. In(n) = u
  BY ONLY <1>1, <1>2, SubSeqFull DEF FirstOf
<1> HIDE DEF In
<1> QED
  BY ONLY <1>2, <1>4, <1>11, <1>12, z = p + Len(u) DEF Good, Gains
(* The string cut into pieces.                                             *)
LEMMA HasGreatest ==
  ASSUME NEW S, S \subseteq Nat, S # {}, NEW n \in Nat, \A x \in S : x <= n
  PROVE  \E x \in S : \A y \in S : y <= x
<1> DEFINE R == {m \in Nat : \E x \in S : m = n - x}
<1>0. \A x \in S : x \in Nat /\ x <= n /\ n - x \in Nat
  OBVIOUS
<1>1. R \subseteq Nat /\ R # {}
  BY ONLY <1>0, S # {}
<1>2. PICK m \in R : \A k \in R : m <= k
  BY ONLY <1>1, HasLeast
<1>3. PICK x \in S : m = n - x
  BY ONLY <1>2
<1>4. ASSUME NEW y \in S PROVE y <= x
  <2>1. n - y \in R
    BY ONLY <1>0, y \in S
  <2>2. n - x <= n - y
    BY ONLY <1>2, <1>3, <2>1
  <2> QED
    BY ONLY <1>0, <2>2, x \in S, y \in S, n \in Nat
<1> QED
  BY <1>4

LEMMA CutAppend ==
  ASSUME NEW parts \in Seq(Seq(Chars)), NEW n, n = Len(parts), NEW u, Cut(parts, n, u),
         NEW w \in Seq(Chars), Len(w) # 0, Bytes(w) <= ROPE_NODE_STR_SIZE
  PROVE  /\ Append(parts, w) \in Seq(Seq(Chars)) /\ Len(Append(parts, w)) = n + 1
         /\ Cut(Append(parts, w), n + 1, u \o w)
<1> DEFINE more == Append(parts, w)
           v == u \o w
           a == Len(u)
           b == Len(w)
           l == Len(v)
<1>1. n \in Nat /\ u \in Seq(Chars)
  BY DEF Cut
<1>2. PICK c \in [0 .. n -> Nat] :
        /\ c[0] = 0 /\ c[n] = Len(u)
        /\ \A i \in 1 .. n :
            /\ c[i - 1] < c[i] /\ c[i] <= Len(u)
            /\ parts[i] = SubSeq(u, c[i - 1] + 1, c[i])
            /\ Bytes(parts[i]) <= ROPE_NODE_STR_SIZE
  BY DEF Cut
<1>3. /\ more \in Seq(Seq(Chars)) /\ Len(more) = n + 1
      /\ \A i \in 1 .. n : more[i] = parts[i]
      /\ more[n + 1] = w
  <2>1. /\ more \in Seq(Seq(Chars)) /\ Len(more) = Len(parts) + 1
        /\ \A i \in 1 .. Len(parts) : more[i] = parts[i]
        /\ more[Len(parts) + 1] = w
    BY AppendProperties
  <2> QED
    BY ONLY <2>1, n = Len(parts)
<1>4. v \in Seq(Chars) /\ l = a + b /\ a \in Nat /\ b \in Nat /\ b # 0
  <2>1. v \in Seq(Chars) /\ Len(v) = Len(u) + Len(w)
    BY ONLY <1>1, ConcatIs, w \in Seq(Chars)
  <2>2. a \in Nat /\ b \in Nat /\ b # 0
    BY <1>1
  <2> QED
    BY ONLY <2>1, <2>2
<1>5. From(v, a) = w
  <2>1. a = Len(u)
    OBVIOUS
  <2> QED
    BY ONLY <1>1, <2>1, HalvesOf, w \in Seq(Chars)
<1>6. SubSeq(v, a + 1, l) = w
  BY ONLY <1>5 DEF From
<1> DEFINE d == [i \in 0 .. n + 1 |-> IF i = n + 1 THEN l ELSE c[i]]
<1> HIDE DEF a, b, l
<1>7. d \in [0 .. n + 1 -> Nat] /\ d[0] = 0 /\ d[n + 1] = l /\ \A i \in 0 .. n : d[i] = c[i]
  <2>1. 0 \in 0 .. n /\ 0 # n + 1 /\ n + 1 \in 0 .. n + 1
    BY ONLY <1>1
  <2>2. \A i \in 0 .. n : i \in 0 .. n + 1 /\ i # n + 1
    BY ONLY <1>1
  <2>3. \A i \in 0 .. n + 1 : i = n + 1 \/ i \in 0 .. n
    BY ONLY <1>1
  <2>4. l \in Nat
    BY ONLY <1>4
  <2>5. \A i \in 0 .. n : d[i] = c[i]
    BY ONLY <2>2
  <2>6. d[n + 1] = l
    BY ONLY <2>1
  <2>7. \A i \in 0 .. n + 1 : d[i] \in Nat
    BY ONLY <1>2, <2>3, <2>4, <2>5, <2>6
  <2>8. d = [i \in 0 .. n + 1 |-> d[i]]
    OBVIOUS
  <2> HIDE DEF d
  <2>9. d \in [0 .. n + 1 -> Nat]
    BY ONLY <2>7, <2>8
  <2> QED
    BY ONLY <1>2, <2>1, <2>5, <2>6, <2>9
<1> HIDE DEF d
<1>8. ASSUME NEW i \in 1 .. n + 1
      PROVE  /\ d[i - 1] < d[i] /\ d[i] <= l
             /\ more[i] = SubSeq(v, d[i - 1] + 1, d[i])
             /\ Bytes(more[i]) <= ROPE_NODE_STR_SIZE
  <2>1. CASE i = n + 1
    <3>1. i - 1 = n /\ n \in 0 .. n
      BY ONLY <1>1, <2>1
    <3>2. d[i] = l /\ d[i - 1] = a
      BY ONLY <1>2, <1>7, <2>1, <3>1 DEF a
    <3>3. more[i] = w
      BY ONLY <1>3, <2>1
    <3>4. a < l /\ l <= l
      BY ONLY <1>4
    <3> QED
      BY ONLY <1>6, <3>2, <3>3, <3>4, Bytes(w) <= ROPE_NODE_STR_SIZE
  <2>2. CASE i # n + 1
    <3>1. i \in 1 .. n /\ i - 1 \in 0 .. n /\ i \in 0 .. n
      BY ONLY <1>1, <2>2, i \in 1 .. n + 1
    <3>2. d[i] = c[i] /\ d[i - 1] = c[i - 1] /\ more[i] = parts[i]
      BY ONLY <1>3, <1>7, <3>1
    <3>3. /\ c[i - 1] < c[i] /\ c[i] <= a /\ c[i] \in Nat /\ c[i - 1] \in Nat
          /\ parts[i] = SubSeq(u, c[i - 1] + 1, c[i])
          /\ Bytes(parts[i]) <= ROPE_NODE_STR_SIZE
      BY ONLY <1>2, <3>1 DEF a
    <3>4. c[i] <= l
      BY ONLY <1>4, <3>3
    <3> DEFINE x == c[i - 1] + 1
               y == c[i]
    <3>5. x \in 1 .. a /\ y \in 1 .. a
      <4> DEFINE h == c[i - 1]
      <4>1. h \in Nat /\ x = h + 1 /\ h < y /\ y \in Nat /\ y <= a
        BY ONLY <3>3
      <4> HIDE DEF h, x, y
      <4> QED
        BY ONLY <1>4, <4>1
    <3> HIDE DEF x, y
    <3>6. SubSeq(v, x, y) = SubSeq(u, x, y)
      BY ONLY <1>1, <3>5, SubSeqOfConcat1, w \in Seq(Chars) DEF a
    <3> QED
      BY ONLY <3>2, <3>3, <3>4, <3>6 DEF x, y
  <2> QED
    BY ONLY <2>1, <2>2
<1>9. Cut(more, n + 1, v)
  <2>1. n + 1 \in Nat
    BY ONLY <1>1
  <2> DEFINE z == n + 1
  <2>2. /\ z \in Nat /\ d \in [0 .. z -> Nat] /\ d[0] = 0 /\ d[z] = Len(v)
        /\ \A i \in 1 .. z :
             /\ d[i - 1] < d[i] /\ d[i] <= Len(v)
             /\ more[i] = SubSeq(v, d[i - 1] + 1, d[i])
             /\ Bytes(more[i]) <= ROPE_NODE_STR_SIZE
    BY ONLY <1>7, <1>8, <2>1 DEF l
  <2> HIDE DEF z, more, v
  <2>3. Cut(more, z, v)
    BY ONLY <1>4, <2>2 DEF Cut
  <2> QED
    BY ONLY <2>3 DEF z
<1> QED
  BY ONLY <1>3, <1>9
LEMMA PieceEndIs ==
  ASSUME NEW s \in Seq(Chars), NEW from \in 0 .. Len(s), from # Len(s)
  PROVE  LET k == PieceEnd(s, from)
         IN  k \in from + 1 .. Len(s) /\ Bytes(SubSeq(s, from + 1, k)) <= ROPE_NODE_STR_SIZE
<1> DEFINE F == Fits(s, from)
           n == Len(s)
           one == from + 1
<1>1. n \in Nat /\ from \in Nat /\ one \in Nat /\ one <= n /\ from <= one
  OBVIOUS
<1>2. one \in F
  <2>1. one \in 0 .. Len(s) /\ from \in 0 .. one /\ one - from = 1 /\ one \in one .. Len(s)
    <3> HIDE DEF n
    <3>1. n = Len(s)
      BY DEF n
    <3> QED
      BY ONLY <1>1, <3>1
  <2>2. SubSeq(s, from + 1, one) \in Seq(Chars) /\ Len(SubSeq(s, from + 1, one)) = one - from
    <3> HIDE DEF one
    <3> QED
      BY ONLY <2>1, MiddleIs, s \in Seq(Chars)
  <2>3. Bytes(SubSeq(s, from + 1, one)) <= ROPE_NODE_STR_SIZE
    BY ONLY <2>1, <2>2, BytesOne
  <2> QED
    BY ONLY <2>1, <2>3 DEF Fits
<1>3. F \subseteq Nat /\ \A k \in F : k <= n
  BY ONLY <1>1 DEF Fits
<1>4. \E k \in F : \A j \in F : j <= k
  <2> HIDE DEF F, n
  <2> QED
    BY ONLY <1>1, <1>2, <1>3, HasGreatest
<1>5. PieceEnd(s, from) \in F
  <2> HIDE DEF F
  <2> QED
    BY ONLY <1>4 DEF PieceEnd, F
<1> QED
  BY ONLY <1>5 DEF Fits

LEMMA PiecesIs ==
  ASSUME NEW s \in Seq(Chars)
  PROVE  Pieces(s) \in Seq(Seq(Chars)) /\ Cut(Pieces(s), Len(Pieces(s)), s)
<1> DEFINE n == Len(s)
           first == [str_offset |-> 0, parts |-> <<>>]
           Is(f) == f = [i \in 0 .. n |-> IF i = 0 THEN first ELSE NextPiece(s, f[i - 1])]
           run == CHOOSE f : Is(f)
           loop == [of |-> "pieces", s |-> s]
<1>1. n \in Nat
  OBVIOUS
<1>2. Is(run)
  <2>1. PICK f : Runs(f, loop, n, first)
    BY <1>1, RoundsExist
  <2>2. \A i, x : Round(loop, i, x) = NextPiece(s, x)
    BY DEF Round
  <2>3. Is(f)
    BY <2>1, <2>2 DEF Runs
  <2> HIDE DEF Is
  <2> QED
    BY <2>3
<1>3. Pieces(s) = run[n].parts
  BY DEF Pieces, Loop, NextPiece, PieceEnd, Fits
<1>4. run[0] = first /\ \A i \in 1 .. n : run[i] = NextPiece(s, run[i - 1])
  <2>1. 0 \in 0 .. n /\ \A i \in 1 .. n : i \in 0 .. n /\ i # 0
    BY <1>1
  <2> HIDE DEF run, n
  <2> QED
    BY ONLY <1>2, <2>1
<1> DEFINE Good(i, x) == /\ x.parts \in Seq(Seq(Chars))
                         /\ x.str_offset \in 0 .. n /\ x.str_offset >= i
                         /\ Cut(x.parts, Len(x.parts), FirstOf(s, x.str_offset))
           S == {i \in 0 .. n : Good(i, run[i])}
<1> HIDE DEF run
<1>5. 0 \in S
  <2>1. run[0].parts = <<>> /\ run[0].str_offset = 0
    BY ONLY <1>4
  <2>2. FirstOf(s, 0) = <<>>
    BY ONLY SubSeqEmpty DEF FirstOf
  <2>3. Cut(<<>>, 0, <<>>)
    <3> DEFINE c == [i \in 0 .. 0 |-> 0]
    <3>1. c \in [0 .. 0 -> Nat] /\ c[0] = 0 /\ Len(<<>>) = 0 /\ <<>> \in Seq(Chars)
      OBVIOUS
    <3>2. \A i \in 1 .. 0 : FALSE
      OBVIOUS
    <3> HIDE DEF c
    <3> DEFINE none == <<>>
               zero == 0
    <3>3. c \in [0 .. zero -> Nat] /\ c[0] = 0 /\ c[zero] = Len(none) /\ none \in Seq(Chars)
          /\ zero \in Nat /\ \A i \in 1 .. zero : FALSE
      BY <3>1, <3>2
    <3> HIDE DEF none, zero
    <3>4. Cut(none, zero, none)
      BY ONLY <3>3 DEF Cut
    <3> QED
      BY ONLY <3>4 DEF none, zero
  <2>4. <<>> \in Seq(Seq(Chars)) /\ Len(<<>>) = 0 /\ 0 \in 0 .. n
    BY <1>1
  <2> HIDE DEF n
  <2>5. 0 \in 0 .. n /\ 0 >= 0
    BY ONLY <2>4
  <2> QED
    BY ONLY <2>1, <2>2, <2>3, <2>4, <2>5
<1>6. ASSUME NEW i \in 1 .. n, i - 1 \in S PROVE i \in S
  <2> DEFINE x == run[i - 1]
             from == x.str_offset
             k == PieceEnd(s, from)
             w == SubSeq(s, from + 1, k)
             y == run[i]
  <2>1. /\ x.parts \in Seq(Seq(Chars)) /\ from \in 0 .. n /\ from >= i - 1
        /\ Cut(x.parts, Len(x.parts), FirstOf(s, from)) /\ i \in 0 .. n
    BY <1>6
  <2>2. y = NextPiece(s, x)
    BY ONLY <1>4, i \in 1 .. n
  <2>3. CASE from = n
    <3>1. y = x
      BY ONLY <2>2, <2>3 DEF NextPiece
    <3>2. from >= i
      BY ONLY <1>1, <2>1, <2>3, i \in 1 .. n
    <3> QED
      BY ONLY <2>1, <3>1, <3>2
  <2>4. CASE from # n
    <3>1. k \in from + 1 .. Len(s) /\ Bytes(w) <= ROPE_NODE_STR_SIZE
      BY ONLY <2>1, <2>4, PieceEndIs, s \in Seq(Chars)
    <3>2. y = [str_offset |-> k, parts |-> Append(x.parts, w)]
      BY ONLY <2>2, <2>4 DEF NextPiece
    <3> HIDE DEF k, from
    <3>3. k \in 0 .. Len(s) /\ from \in 0 .. k /\ k >= i /\ k - from # 0
      <4>1. k \in from + 1 .. n
        BY ONLY <3>1
      <4> HIDE DEF n
      <4>2. k \in 0 .. n /\ from \in 0 .. k /\ k >= i /\ k - from # 0
        BY ONLY <1>1, <2>1, <4>1, i \in 1 .. n
      <4> QED
        BY ONLY <4>2 DEF n
    <3>4. /\ FirstOf(s, k) = FirstOf(s, from) \o w
          /\ w \in Seq(Chars) /\ Len(w) # 0
      BY ONLY <3>3, FirstOfMore, s \in Seq(Chars)
    <3> DEFINE parts == x.parts
               more == Append(parts, w)
               m == Len(parts)
    <3>5. parts \in Seq(Seq(Chars)) /\ m = Len(parts) /\ Cut(parts, m, FirstOf(s, from))
      BY ONLY <2>1
    <3> HIDE DEF w, m, y
    <3>6. y.str_offset = k /\ y.parts = more
      <4>1. y = [str_offset |-> k, parts |-> more]
        BY ONLY <3>2
      <4> HIDE DEF more
      <4> QED
        BY ONLY <4>1
    <3> HIDE DEF parts
    <3>7. more \in Seq(Seq(Chars)) /\ Len(more) = m + 1 /\ Cut(more, m + 1, FirstOf(s, from) \o w)
      BY ONLY <3>1, <3>4, <3>5, CutAppend
    <3> HIDE DEF more
    <3>8. Cut(more, Len(more), FirstOf(s, k))
      BY ONLY <3>4, <3>7
    <3>9. Good(i, y)
      BY ONLY <3>3, <3>6, <3>7, <3>8
    <3> QED
      BY ONLY <2>1, <3>9 DEF y
  <2> QED
    BY ONLY <2>3, <2>4
<1>7. \A i \in 0 .. n : i \in S
  <2> HIDE DEF S, n
  <2> QED
    BY ONLY <1>1, <1>5, <1>6, Upward
<1>8. n \in 0 .. n
  BY ONLY <1>1
<1>9. Good(n, run[n])
  BY ONLY <1>7, <1>8
<1>10. run[n].str_offset = n
  <2> DEFINE o == run[n].str_offset
  <2>1. o \in 0 .. n /\ o >= n
    BY ONLY <1>9
  <2> HIDE DEF n, o
  <2>2. o = n
    BY ONLY <1>1, <2>1
  <2> QED
    BY ONLY <2>2 DEF o
<1>11. FirstOf(s, n) = s
  BY ONLY SubSeqFull, s \in Seq(Chars) DEF FirstOf
<1> QED
  BY ONLY <1>3, <1>9, <1>10, <1>11
-----------------------------------------------------------------------------
(* rope_insert_at_iter: wherever the string goes, it is in the text at the *)
(* position then.                                                          *)
LEMMA FullBytes ==
  ASSUME NEW t \in Seq(Chars), NEW p \in 0 .. Len(t), Bytes(t) = Bytes(FirstOf(t, p))
  PROVE  p = Len(t)
<1>1. From(t, p) \in Seq(Chars) /\ Len(From(t, p)) = Len(t) - p
  BY FromIs
<1>2. /\ Bytes(FirstOf(t, p)) = Bytes(t) - Bytes(From(t, p))
      /\ Bytes(FirstOf(t, p)) \in Nat /\ Bytes(From(t, p)) \in Nat /\ Bytes(t) \in Nat
  BY HalfBytes
<1> DEFINE w == From(t, p)
           n == Len(t)
           b == Bytes(w)
           l == Len(w)
<1>3. b \in Nat /\ b >= l /\ l \in Nat /\ l = n - p /\ n \in Nat
  BY <1>1, BytesIs
<1>4. b = 0
  <2> DEFINE x == Bytes(t)
             y == Bytes(FirstOf(t, p))
  <2>1. x \in Nat /\ y \in Nat /\ b \in Nat /\ y = x - b /\ x = y
    BY <1>2
  <2> HIDE DEF x, y, b
  <2> QED
    BY ONLY <2>1
<1> HIDE DEF b, l, w, n
<1>5. p = n
  BY ONLY <1>3, <1>4, p \in 0 .. Len(t) DEF n
<1> QED
  BY ONLY <1>5 DEF n

(* The iterator moved on to the start of the next node.                    *)
Moved(nd, iter, next) ==
  [i \in DOMAIN iter |-> IF i <= height(nd, next) THEN [iter[i] EXCEPT !.node = next] ELSE iter[i]]
LEMMA MovedIs ==
  ASSUME NEW g, NEW r, NEW total \in Nat, Row(g, r, total), NEW b, NEW p, NEW iter,
         At(g, r, b, p, iter), NEW next \in g.nodes, g.start[next] = g.end[b], next # r,
         NEW nd, height(nd, next) = g.tall[next], NEW moved, moved = Moved(nd, iter, next)
  PROVE  Over(g, r, next, moved)
<1>1. /\ b \in g.nodes /\ Over(g, r, b, iter)
      /\ \A i \in 1 .. g.tall[r] : iter[i] = Link(iter[i].node, p - g.start[iter[i].node])
  BY ONLY AtOver, Row(g, r, total), total \in Nat, At(g, r, b, p, iter)
<1>2. DOMAIN iter = 1 .. g.tall[r] /\ \A i \in 1 .. g.tall[r] : LastAt(g, b, i, iter[i].node)
  BY ONLY <1>1 DEF Over
<1>3. /\ \A x \in g.nodes : g.start[x] \in Nat /\ g.end[x] \in Nat /\ g.tall[x] \in Nat
      /\ \A x, y \in g.nodes : x # y => g.end[x] # g.end[y]
      /\ \A x, y \in g.nodes : g.end[x] < g.end[y] => g.end[x] <= g.start[y]
  BY RowOrder
<1>4. g.start[next] < g.end[next] /\ g.tall[r] \in Nat
  BY DEF Row
<1>5. moved = [i \in 1 .. g.tall[r] |->
                 IF i <= g.tall[next] THEN [iter[i] EXCEPT !.node = next] ELSE iter[i]]
  BY ONLY <1>2, height(nd, next) = g.tall[next], moved = Moved(nd, iter, next) DEF Moved
<1>6. ASSUME NEW i \in 1 .. g.tall[r] PROVE LastAt(g, next, i, moved[i].node)
  <2> DEFINE x == iter[i].node
  <2>1. LastAt(g, b, i, x) /\ iter[i] = Link(x, p - g.start[x]) /\ i \in Nat
    BY <1>1, <1>2
  <2>2. x \in g.nodes /\ g.tall[x] >= i /\ g.end[x] <= g.end[b]
        /\ \A z \in g.nodes : g.tall[z] >= i /\ g.end[z] <= g.end[b] => g.end[z] <= g.end[x]
    BY ONLY <2>1 DEF LastAt
  <2>3. CASE i <= g.tall[next]
    <3>1. moved[i] = [iter[i] EXCEPT !.node = next]
      BY ONLY <1>5, <2>3, i \in 1 .. g.tall[r]
    <3> HIDE DEF x
    <3>2. moved[i] = Link(next, p - g.start[x])
      BY ONLY <2>1, <3>1 DEF Link
    <3>3. moved[i].node = next
      BY ONLY <3>2 DEF Link
    <3>4. LastAt(g, next, i, next)
      BY ONLY <2>1, <2>3, LastSelf, Row(g, r, total), total \in Nat, next \in g.nodes
    <3> QED
      BY ONLY <3>3, <3>4
  <2>4. CASE ~(i <= g.tall[next])
    <3>1. moved[i].node = x
      BY ONLY <1>5, <2>4, i \in 1 .. g.tall[r]
    <3> HIDE DEF x
    <3>2. g.end[b] < g.end[next] /\ g.end[x] <= g.end[next]
      BY ONLY <1>1, <1>3, <1>4, <2>2, next \in g.nodes, g.start[next] = g.end[b]
    <3>3. ASSUME NEW z \in g.nodes, g.tall[z] >= i, g.end[z] <= g.end[next]
          PROVE  g.end[z] <= g.end[x]
      <4>1. z # next
        BY ONLY <1>3, <2>1, <2>4, <3>3, next \in g.nodes
      <4>2. g.end[z] < g.end[next]
        BY ONLY <1>3, <3>3, <4>1, next \in g.nodes, z \in g.nodes
      <4>3. g.end[z] <= g.start[next]
        BY ONLY <1>3, <4>2, next \in g.nodes, z \in g.nodes
      <4>4. g.end[z] <= g.end[b]
        BY ONLY <4>3, g.start[next] = g.end[b]
      <4> QED
        BY ONLY <2>2, <3>3, <4>4, z \in g.nodes
    <3>4. LastAt(g, next, i, x)
      BY ONLY <2>2, <3>2, <3>3 DEF LastAt
    <3> QED
      BY ONLY <3>1, <3>4
  <2> QED
    BY ONLY <2>3, <2>4
<1>7. DOMAIN moved = 1 .. g.tall[r]
  BY ONLY <1>5
<1> QED
  BY ONLY <1>6, <1>7 DEF Over

LEMMA Associates ==
  ASSUME NEW a \in Seq(Chars), NEW b \in Seq(Chars), NEW c \in Seq(Chars)
  PROVE  (a \o b) \o c = a \o (b \o c)
BY ConcatAssociative

(* The stretch that came out goes in again behind the string.              *)
Rejoins(t, p, q, s, w, u, none) ==
  /\ t \in Seq(Chars) /\ q \in 0 .. Len(t) /\ p \in 0 .. q /\ s \in Seq(Chars)
  /\ w = Between(t, p, q) /\ u = s \o w /\ none = <<>>

LEMMA RestoredIs ==
  ASSUME NEW t, NEW p, NEW q, NEW s, NEW w, NEW u, NEW none, Rejoins(t, p, q, s, w, u, none)
  PROVE  Replaced(Replaced(t, p, q, none), p, p, u) = Replaced(t, p, p, s) /\ w \in Seq(Chars)
<1>0. /\ t \in Seq(Chars) /\ q \in 0 .. Len(t) /\ p \in 0 .. q /\ s \in Seq(Chars)
      /\ w = Between(t, p, q) /\ u = s \o w /\ none = <<>>
  BY DEF Rejoins
<1> DEFINE n == Len(t)
           a == FirstOf(t, p)
           b == From(t, q)
           c == From(t, p)
<1>1. n \in Nat /\ n = Len(t) /\ q \in 0 .. n
  BY <1>0
<1> HIDE DEF n
<1>2. /\ p + 1 \in 1 .. n + 1 /\ q \in (p + 1) - 1 .. n /\ n \in q .. n /\ p \in 0 .. n
      /\ p \in Nat
  BY ONLY <1>0, <1>1
<1>3. SubSeq(t, p + 1, q) \o SubSeq(t, q + 1, n) = SubSeq(t, p + 1, n)
  BY ONLY <1>0, <1>1, <1>2, ConcatAdjacentSubSeq
<1>4. w \o b = c
  BY ONLY <1>1, <1>3, <1>0 DEF Between, From
<1>5. w \in Seq(Chars) /\ Len(w) = q - p
  BY ONLY <1>1, MiddleIs, <1>0 DEF Between
<1>6. a \in Seq(Chars) /\ b \in Seq(Chars) /\ c \in Seq(Chars)
  BY ONLY <1>1, <1>2, FirstOfIs, FromIs, <1>0
<1>7. none \in Seq(Chars) /\ p = p + Len(none) /\ s \o w \in Seq(Chars)
      /\ none \o (s \o w) = s \o w
  <2>1. s \o w \in Seq(Chars)
    BY ONLY <1>5, ConcatIs, <1>0
  <2>2. none \o (s \o w) = s \o w
    BY ONLY <2>1, ConcatEmptySeq, <1>0
  <2>3. none \in Seq(Chars) /\ p = p + Len(none)
    BY ONLY <1>2, <1>0
  <2> QED
    BY ONLY <2>1, <2>2, <2>3
<1>8. Replaced(Replaced(t, p, q, none), p, p, s \o w) = Replaced(t, p, q, none \o (s \o w))
  <2> DEFINE v == s \o w
  <2>1. v \in Seq(Chars)
    BY ONLY <1>7
  <2> HIDE DEF v
  <2>2. Replaced(Replaced(t, p, q, none), p, p, v) = Replaced(t, p, q, none \o v)
    <3>1. t \in Seq(Chars) /\ q \in 0 .. Len(t) /\ p \in 0 .. q /\ none \in Seq(Chars) /\ p = p + Len(none)
      BY ONLY <1>0, <1>7
    <3> QED
      BY ONLY <2>1, <3>1, ReplacedTwice
  <2> QED
    BY ONLY <2>2 DEF v
<1>9. Replaced(t, p, q, s \o w) = (a \o (s \o w)) \o b
  BY DEF Replaced
<1>10. (a \o (s \o w)) \o b = (a \o s) \o c
  <2> HIDE DEF a, b, c
  <2> DEFINE as == a \o s
  <2>1. a \in Seq(Chars) /\ b \in Seq(Chars) /\ w \in Seq(Chars)
    BY ONLY <1>5, <1>6
  <2>2. as \in Seq(Chars)
    BY ONLY <2>1, ConcatIs, <1>0
  <2>3. (a \o s) \o w = a \o (s \o w)
    <3>1. s \in Seq(Chars)
      BY ONLY <1>0
    <3> QED
      BY ONLY <2>1, <3>1, Associates
  <2> HIDE DEF as
  <2>4. (as \o w) \o b = as \o (w \o b)
    BY ONLY <2>1, <2>2, Associates
  <2> QED
    BY ONLY <1>4, <2>3, <2>4 DEF as
<1>11. Replaced(t, p, p, s) = (a \o s) \o c
  BY DEF Replaced
<1> QED
  BY ONLY <1>5, <1>7, <1>8, <1>9, <1>10, <1>11, <1>0
(* The end of a node that goes in again makes one part more.               *)
LEMMA EndOfIs ==
  ASSUME NEW s \in Seq(Chars), NEW w \in Seq(Chars), Bytes(w) <= ROPE_NODE_STR_SIZE,
         NEW end, (Len(w) = 0 /\ end = <<>>) \/ (Len(w) # 0 /\ end = <<w>>),
         NEW parts, parts = Pieces(s) \o end
  PROVE  Cut(parts, Len(parts), s \o w)
<1> DEFINE pieces == Pieces(s)
           n == Len(pieces)
<1>1. pieces \in Seq(Seq(Chars)) /\ n = Len(pieces) /\ Cut(pieces, n, s)
  BY PiecesIs
<1> HIDE DEF pieces, n
<1>2. CASE Len(w) = 0
  <2>1. w = <<>>
    BY ONLY <1>2, w \in Seq(Chars), EmptySeq
  <2>2. s \o w = s
    BY ONLY <2>1, ConcatEmptySeq, s \in Seq(Chars)
  <2>3. end = <<>>
    BY <1>2
  <2>4. parts = pieces
    BY ONLY <1>1, <2>3, ConcatEmptySeq, parts = Pieces(s) \o end DEF pieces
  <2> QED
    BY ONLY <1>1, <2>2, <2>4
<1>3. CASE Len(w) # 0
  <2>1. end = <<w>>
    BY <1>3
  <2>2. parts = Append(pieces, w)
    BY ONLY <1>1, <2>1, AppendIsConcat, w \in Seq(Chars), parts = Pieces(s) \o end DEF pieces
  <2>3. Len(parts) = n + 1 /\ Cut(parts, n + 1, s \o w)
    BY ONLY <1>1, <1>3, <2>2, CutAppend, w \in Seq(Chars), Bytes(w) <= ROPE_NODE_STR_SIZE
  <2> QED
    BY ONLY <2>3
<1> QED
  BY ONLY <1>2, <1>3

LEMMA NewNodesIs ==
  ASSUME HeapAssumption, NEW at, NEW r \in Ropes, NEW g, NEW t, Shape(at.nd, r, g, t), Heap(at.nd),
         at.chars \in Int, at.bytes \in Int,
         NEW b, NEW p, NEW iter, At(g, r, b, p, iter), NEW s \in Seq(Chars),
         NEW parts, parts = Pieces(s) \o EndOf(at.nd, iter),
         NEW heights, \A i \in 1 .. Len(parts) : heights[i] \in Heights
  PROVE  LET new == InsertAll(r, Truncate(at, iter), heights, parts)
         IN  Done(at.nd, r, g, new.nd, Replaced(t, p, p, s)) /\ Gains(new, at, s)
<1> DEFINE nd == at.nd
           q == g.end[b]
           tr == Truncate(at, iter)
           w == Between(t, p, q)
           u == s \o w
           old == nd[b].str
           off == p - g.start[b]
           none == <<>>
           new == InsertAll(r, tr, heights, parts)
<1>1. /\ Len(t) \in Nat /\ Row(g, r, Len(t)) /\ t \in Seq(Chars)
      /\ \A x \in g.nodes : /\ g.start[x] \in Nat /\ g.end[x] \in Nat /\ g.end[x] <= Len(t)
                            /\ g.start[x] <= g.end[x]
                            /\ nd[x].str \in Seq(Chars) /\ nd[x].num_bytes = Bytes(nd[x].str)
                            /\ Bytes(nd[x].str) <= ROPE_NODE_STR_SIZE
                            /\ Bytes(nd[x].str) \in Nat
                            /\ Len(nd[x].str) = g.end[x] - g.start[x]
                            /\ Part(nd[x], t, g.start[x], g.end[x])
  BY ShapeIs
<1>2. /\ b \in g.nodes /\ p \in Nat /\ g.start[b] <= p /\ p <= g.end[b]
      /\ iter[1].node = b /\ iter[1].skip_size = off
  BY ONLY <1>1, AtOver, At(g, r, b, p, iter)
<1>3. q = g.end[b] /\ none = <<>> /\ w = Between(t, p, q) /\ u = s \o w
  OBVIOUS
<1> HIDE DEF q, tr, none, w, u
<1>4. /\ Standing(nd, r, g, tr, Replaced(t, p, q, none), p)
      /\ q \in Nat /\ p <= q /\ q <= Len(t)
      /\ Loses(tr, at, w)
  BY ONLY <1>3, TruncateIs, HeapAssumption, r \in Ropes, Shape(at.nd, r, g, t), Heap(at.nd),
          At(g, r, b, p, iter) DEF tr
<1>5. q \in 0 .. Len(t) /\ p \in 0 .. q
  BY ONLY <1>1, <1>2, <1>4
<1>6. /\ Replaced(Replaced(t, p, q, none), p, p, u) = Replaced(t, p, p, s)
      /\ w \in Seq(Chars) /\ Len(w) = q - p
  <2>1. Len(w) = q - p
    BY ONLY SMTT(60), <1>1, <1>3, <1>5, MiddleIs DEF Between
  <2>2. /\ t \in Seq(Chars) /\ q \in 0 .. Len(t) /\ p \in 0 .. q
        /\ none = <<>> /\ w = Between(t, p, q) /\ u = s \o w
    BY ONLY <1>1, <1>3, <1>5
  <2>3. Rejoins(t, p, q, s, w, u, none)
    BY ONLY <2>2, s \in Seq(Chars) DEF Rejoins
  <2>4. /\ Replaced(Replaced(t, p, q, none), p, p, u) = Replaced(t, p, p, s)
        /\ w \in Seq(Chars)
    BY ONLY <2>3, RestoredIs
  <2> QED
    BY ONLY <2>1, <2>4
<1>7. tr.bytes = at.bytes - Bytes(w) /\ tr.chars = at.chars - (q - p)
  BY ONLY <1>4, <1>6 DEF Loses
<1>8. off \in 0 .. Len(old) /\ Len(old) - off = q - p /\ old \in Seq(Chars)
  <2> DEFINE from == g.start[b]
             l == Len(old)
  <2>1. from \in Nat /\ l = q - from /\ from <= p /\ old \in Seq(Chars)
    BY ONLY <1>1, <1>2, <1>3
  <2> HIDE DEF l, old
  <2>2. off = p - from
    OBVIOUS
  <2> HIDE DEF from, off
  <2>3. off \in 0 .. l /\ l - off = q - p
    BY ONLY <1>2, <1>4, <2>1, <2>2
  <2> QED
    BY ONLY <2>1, <2>3 DEF l
<1>9. From(old, off) = w
  <2>1. From(old, off) = Between(old, off, Len(old))
    BY DEF From, Between
  <2>2. Between(old, off, Len(old)) = w
    <3> DEFINE from == g.start[b]
               l == Len(old)
               c == nd[b]
    <3>1. /\ from \in Nat /\ q \in Nat /\ q <= Len(t) /\ Part(c, t, from, q) /\ c.str \in Seq(Chars)
          /\ l = q - from /\ from + off = p
      <4>1. /\ from \in Nat /\ Part(c, t, from, q) /\ c.str \in Seq(Chars) /\ l = q - from
        BY ONLY <1>1, <1>2, <1>3
      <4> HIDE DEF from, c, l
      <4>2. from + off = p
        BY ONLY <1>2, <4>1 DEF off, from
      <4> QED
        BY ONLY <1>4, <4>1, <4>2
    <3>2. off \in Nat /\ l \in Nat /\ off <= l
      <4>1. l \in Nat
        BY ONLY <1>8
      <4> HIDE DEF off, old
      <4> QED
        BY ONLY <1>8, <4>1
    <3>3. from + l = q
      <4> HIDE DEF from, l
      <4> QED
        BY ONLY <1>4, <3>1
    <3>4. old = c.str
      OBVIOUS
    <3> HIDE DEF from, l, c, off, old
    <3>5. /\ p \in Nat /\ q \in Nat /\ from \in Nat /\ off \in Nat /\ l \in Nat /\ off <= l
          /\ from + off = p /\ from + l = q /\ q <= q
      BY ONLY <1>2, <3>1, <3>2, <3>3
    <3>6. t \in Seq(Chars) /\ q <= Len(t) /\ Part(c, t, from, q) /\ c.str \in Seq(Chars)
      BY ONLY <1>1, <3>1
    <3>7. Between(c.str, off, l) = Between(t, p, q)
      <4>1. Within(from, q, off, l, p, q)
        BY ONLY <3>5 DEF Within
      <4> QED
        BY ONLY <3>6, <4>1, PartMiddle
    <3> QED
      BY ONLY <1>3, <3>4, <3>7 DEF l
  <2> QED
    BY ONLY <2>1, <2>2
<1>10. Bytes(w) \in Nat /\ Bytes(w) <= ROPE_NODE_STR_SIZE
       /\ Bytes(FirstOf(old, off)) = Bytes(old) - Bytes(w) /\ Bytes(old) \in Nat
  <2>1. /\ Bytes(FirstOf(old, off)) = Bytes(old) - Bytes(w) /\ Bytes(FirstOf(old, off)) \in Nat
        /\ Bytes(w) \in Nat /\ Bytes(old) \in Nat
    BY ONLY <1>8, <1>9, HalfBytes
  <2>2. Bytes(old) <= ROPE_NODE_STR_SIZE /\ ROPE_NODE_STR_SIZE \in Nat
    BY <1>1, <1>2, RopeAssumption
  <2> HIDE DEF old, off
  <2> DEFINE x == Bytes(w)
             y == Bytes(old)
             z == Bytes(FirstOf(old, off))
  <2>3. z = y - x /\ x \in Nat /\ y \in Nat /\ z \in Nat /\ y <= ROPE_NODE_STR_SIZE
    BY ONLY <2>1, <2>2
  <2> HIDE DEF x, y, z
  <2>4. x <= ROPE_NODE_STR_SIZE
    BY ONLY <2>2, <2>3
  <2> QED
    BY ONLY <2>1, <2>4 DEF x
<1>11. (Len(w) = 0 /\ EndOf(nd, iter) = <<>>) \/ (Len(w) # 0 /\ EndOf(nd, iter) = <<w>>)
  <2>1. OffsetBytes(nd, iter) = Bytes(FirstOf(old, off))
    BY ONLY <1>2 DEF OffsetBytes
  <2>2. nd[iter[1].node].num_bytes = Bytes(old)
    BY ONLY <1>1, <1>2
  <2>3. EndOf(nd, iter) = IF Bytes(old) = Bytes(FirstOf(old, off)) THEN <<>> ELSE <<w>>
    BY ONLY <1>2, <1>9, <2>1, <2>2 DEF EndOf
  <2>4. Bytes(old) = Bytes(FirstOf(old, off)) => Len(w) = 0
    <3> SUFFICES ASSUME Bytes(old) = Bytes(FirstOf(old, off)) PROVE Len(w) = 0
      OBVIOUS
    <3>1. off = Len(old)
      BY ONLY <1>8, FullBytes, Bytes(old) = Bytes(FirstOf(old, off))
    <3> DEFINE l == Len(old)
    <3>2. l = off /\ l - off = Len(w) /\ off \in 0 .. l
      BY ONLY <1>6, <1>8, <3>1
    <3> HIDE DEF l, off
    <3> QED
      BY ONLY <3>2
  <2>5. Len(w) = 0 => Bytes(old) = Bytes(FirstOf(old, off))
    <3> SUFFICES ASSUME Len(w) = 0 PROVE Bytes(old) = Bytes(FirstOf(old, off))
      OBVIOUS
    <3>1. w = <<>>
      BY ONLY <1>6, EmptySeq, Len(w) = 0
    <3>2. Bytes(w) = 0
      BY ONLY <3>1, BytesEmpty
    <3> HIDE DEF old, off
    <3> DEFINE y == Bytes(old)
               z == Bytes(FirstOf(old, off))
    <3>3. z = y - 0 /\ y \in Nat
      BY ONLY <1>10, <3>2
    <3> HIDE DEF y, z
    <3>4. y = z
      BY ONLY <3>3
    <3> QED
      BY ONLY <3>4 DEF y, z
  <2> HIDE DEF old, off
  <2> QED
    BY ONLY <2>3, <2>4, <2>5
<1>12. Cut(parts, Len(parts), u)
  <2> DEFINE end == EndOf(nd, iter)
  <2>1. parts = Pieces(s) \o end /\ ((Len(w) = 0 /\ end = <<>>) \/ (Len(w) # 0 /\ end = <<w>>))
    BY <1>11
  <2> HIDE DEF end
  <2> QED
    BY ONLY <1>6, <1>10, <2>1, EndOfIs, s \in Seq(Chars) DEF u
<1>13. /\ tr.chars \in Int /\ tr.bytes \in Int
  <2>1. Bytes(w) \in Int /\ q - p \in Int
    BY ONLY <1>2, <1>4, <1>10
  <2> QED
    BY ONLY <1>4, <1>7, <2>1, at.chars \in Int, at.bytes \in Int
<1> DEFINE cut == Replaced(t, p, q, none)
           z == p + Len(u)
<1>14. /\ Standing(nd, r, g, new, Replaced(cut, p, p, u), z)
       /\ new.chars = tr.chars + Len(u) /\ new.bytes = tr.bytes + Bytes(u)
  <2>1. Own(g)
    BY DEF Shape, Own
  <2>2. Standing(nd, r, g, tr, cut, p)
    BY <1>4
  <2>3. z = p + Len(u)
    OBVIOUS
  <2> HIDE DEF cut, z
  <2>4. Standing(nd, r, g, new, Replaced(cut, p, p, u), z) /\ Gains(new, tr, u)
    BY ONLY <1>12, <1>13, <2>1, <2>2, <2>3, InsertAllIs, HeapAssumption, r \in Ropes,
            \A i \in 1 .. Len(parts) : heights[i] \in Heights
  <2> QED
    BY ONLY <2>4 DEF Gains
<1>15. Standing(nd, r, g, new, Replaced(t, p, p, s), z)
  BY ONLY <1>6, <1>14
<1> HIDE DEF new
<1>16. Done(nd, r, g, new.nd, Replaced(t, p, p, s))
  BY ONLY <1>15 DEF Standing, Done
<1>17. Len(u) = Len(s) + (q - p) /\ Bytes(u) = Bytes(s) + Bytes(w) /\ Len(s) \in Nat /\ Bytes(s) \in Nat
  <2>1. Len(u) = Len(s) + Len(w)
    BY ONLY <1>6, ConcatIs, s \in Seq(Chars) DEF u
  <2>2. Bytes(u) = Bytes(s) + Bytes(w) /\ Bytes(s) \in Nat
    BY ONLY <1>6, BytesConcat, BytesIs, s \in Seq(Chars) DEF u
  <2>3. Len(s) \in Nat
    OBVIOUS
  <2> QED
    BY ONLY <1>6, <2>1, <2>2, <2>3
<1>18. new.chars = at.chars + Len(s)
  <2> DEFINE a == at.chars
             l == Len(s)
             d == q - p
  <2>1. new.chars = (a - d) + (l + d)
    BY ONLY <1>7, <1>14, <1>17
  <2>2. a \in Int /\ l \in Nat /\ d \in Int
    BY ONLY <1>2, <1>4, <1>17, at.chars \in Int
  <2> HIDE DEF a, l, d
  <2>3. new.chars = a + l
    BY ONLY <2>1, <2>2
  <2> QED
    BY ONLY <2>3 DEF a, l
<1>19. new.bytes = at.bytes + Bytes(s)
  <2> DEFINE a == at.bytes
             l == Bytes(s)
             d == Bytes(w)
  <2>1. new.bytes = (a - d) + (l + d) /\ a \in Int /\ l \in Nat /\ d \in Nat
    BY ONLY <1>7, <1>10, <1>14, <1>17, at.bytes \in Int
  <2> HIDE DEF a, l, d
  <2>2. new.bytes = a + l
    BY ONLY <2>1
  <2> QED
    BY ONLY <2>2 DEF a, l
<1> QED
  BY ONLY <1>16, <1>18, <1>19 DEF new, tr, Gains
LEMMA InsertIs ==
  ASSUME HeapAssumption, NEW at, NEW r \in Ropes, NEW g, NEW t, Shape(at.nd, r, g, t), Heap(at.nd),
         at.chars \in Int, at.bytes \in Int,
         NEW b, NEW p, NEW iter, At(g, r, b, p, iter), NEW s \in Seq(Chars),
         NEW heights \in [DOMAIN NewParts(at.nd, iter, s) -> Heights]
  PROVE  LET new == rope_insert_at_iter(r, at, iter, s, heights)
         IN  Done(at.nd, r, g, new.nd, Replaced(t, p, p, s)) /\ Gains(new, at, s)
<1> DEFINE nd == at.nd
           next == nd[b].nexts[1].node
           moved == Moved(nd, iter, next)
           parts == NewParts(nd, iter, s)
           new == rope_insert_at_iter(r, at, iter, s, heights)
           off == p - g.start[b]
           total == Len(t)
<1>1. /\ total \in Nat /\ Row(g, r, total) /\ t \in Seq(Chars)
      /\ \A x \in g.nodes : /\ g.start[x] \in Nat /\ g.end[x] \in Nat /\ g.start[x] <= g.end[x]
                            /\ nd[x].str \in Seq(Chars) /\ nd[x].num_bytes = Bytes(nd[x].str)
                            /\ Len(nd[x].str) = g.end[x] - g.start[x]
                            /\ Len(nd[x].nexts) = g.tall[x]
  BY SMTT(60), ShapeIs
<1> HIDE DEF total
<1>2. /\ Over(g, r, b, iter) /\ b \in g.nodes /\ p \in Nat /\ g.start[b] <= p /\ p <= g.end[b]
      /\ iter[1].node = b /\ iter[1].skip_size = off
  BY ONLY <1>1, AtOver, At(g, r, b, p, iter)
<1>3. new = IF Room(nd, b, s) THEN InsertHere(at, b, iter, off, s)
            ELSE IF InsertsNext(nd, iter, s) THEN InsertHere(at, next, moved, 0, s)
            ELSE InsertAll(r, Truncate(at, iter), heights, parts)
  BY ONLY <1>2 DEF rope_insert_at_iter, Moved
<1>4. off \in Nat /\ g.start[b] + off = p
  <2>1. g.start[b] \in Nat
    BY <1>1, <1>2
  <2> QED
    BY ONLY <1>2, <2>1
<1> HIDE DEF off
<1>5. CASE Room(nd, b, s)
  <2> DEFINE here == InsertHere(at, b, iter, off, s)
  <2>1. new = here
    BY ONLY <1>3, <1>5
  <2>2. Done(nd, r, g, here.nd, Replaced(t, p, p, s)) /\ Gains(here, at, s)
    BY ONLY <1>2, <1>4, <1>5, InsertHereIs, HeapAssumption, r \in Ropes, s \in Seq(Chars),
            Shape(at.nd, r, g, t), Heap(at.nd)
  <2> QED
    BY ONLY <2>1, <2>2
<1>6. CASE ~Room(nd, b, s) /\ InsertsNext(nd, iter, s)
  <2> DEFINE here == InsertHere(at, next, moved, 0, s)
             old == nd[b].str
  <2>1. new = here
    BY ONLY <1>3, <1>6
  <2>2. OffsetBytes(nd, iter) = nd[b].num_bytes /\ next # NULL /\ Room(nd, next, s)
    BY ONLY <1>2, <1>6 DEF InsertsNext
  <2>3. old \in Seq(Chars) /\ Len(old) = g.end[b] - g.start[b] /\ nd[b].num_bytes = Bytes(old)
        /\ g.end[b] \in Nat /\ g.start[b] \in Nat
    BY ONLY <1>1, <1>2
  <2>4. Bytes(old) = Bytes(FirstOf(old, off))
    BY ONLY <1>2, <2>2, <2>3 DEF OffsetBytes
  <2>5. off \in 0 .. Len(old)
    <3> DEFINE l == Len(old)
               from == g.start[b]
               to == g.end[b]
    <3>1. l = to - from /\ to \in Nat /\ from \in Nat /\ p <= to /\ from + off = p
      BY ONLY <1>2, <1>4, <2>3
    <3> HIDE DEF l, from, to
    <3>2. off \in 0 .. l
      BY ONLY <1>2, <1>4, <3>1
    <3> QED
      BY ONLY <3>2 DEF l
  <2>6. off = Len(old)
    BY ONLY <2>3, <2>4, <2>5, FullBytes
  <2>7. p = g.end[b]
    <3> DEFINE l == Len(old)
               from == g.start[b]
               to == g.end[b]
    <3>1. l = to - from /\ to \in Nat /\ from \in Nat /\ off = l /\ from + off = p
      BY ONLY <1>4, <2>3, <2>6
    <3> HIDE DEF l, from, to
    <3>2. p = to
      BY ONLY SMTT(60), <3>1
    <3> QED
      BY ONLY <3>2 DEF to
  <2> HIDE DEF old
  <2>8. next \in g.nodes \ {r} /\ g.start[next] = g.end[b]
    BY ONLY SMTT(60), <1>2, <2>2, NextIs, HeapAssumption, r \in Ropes, Shape(at.nd, r, g, t)
  <2>9. next \in g.nodes /\ next # r /\ height(nd, next) = g.tall[next]
        /\ g.start[next] \in Nat /\ g.end[next] \in Nat /\ g.start[next] <= g.end[next]
    BY ONLY <1>1, <2>8 DEF height
  <2> HIDE DEF next
  <2>10. Over(g, r, next, moved)
    <3>1. moved = Moved(nd, iter, next)
      OBVIOUS
    <3> HIDE DEF moved
    <3> QED
      BY ONLY <1>1, <2>8, <2>9, <3>1, MovedIs, At(g, r, b, p, iter)
  <2>11. 0 \in Nat /\ g.start[next] + 0 = p /\ p <= g.end[next]
    <3> DEFINE from == g.start[next]
               to == g.end[next]
    <3>1. from = p /\ from \in Nat /\ to \in Nat /\ from <= to
      BY ONLY <2>7, <2>8, <2>9
    <3> HIDE DEF from, to
    <3>2. 0 \in Nat /\ from + 0 = p /\ p <= to
      BY ONLY <3>1
    <3> QED
      BY ONLY <3>2 DEF from, to
  <2> HIDE DEF moved
  <2>12. Done(nd, r, g, here.nd, Replaced(t, p, p, s)) /\ Gains(here, at, s)
    BY ONLY <1>2, <2>2, <2>9, <2>10, <2>11, InsertHereIs, HeapAssumption, r \in Ropes,
            s \in Seq(Chars), Shape(at.nd, r, g, t), Heap(at.nd)
  <2> QED
    BY ONLY <2>1, <2>12
<1>7. CASE ~Room(nd, b, s) /\ ~InsertsNext(nd, iter, s)
  <2> DEFINE all == InsertAll(r, Truncate(at, iter), heights, parts)
  <2>1. new = all
    BY ONLY <1>3, <1>7
  <2>2. parts = Pieces(s) \o EndOf(nd, iter)
    BY ONLY <1>2, <1>7 DEF NewParts
  <2>3. \A i \in 1 .. Len(parts) : heights[i] \in Heights
    <3>1. DOMAIN parts = 1 .. Len(parts)
      <4>1. Pieces(s) \in Seq(Seq(Chars))
        BY ONLY PiecesIs, s \in Seq(Chars)
      <4>2. EndOf(nd, iter) \in Seq(Seq(Chars))
        <5> DEFINE old == nd[b].str
        <5>1. old \in Seq(Chars)
          BY ONLY <1>1, <1>2
        <5>2. off \in 0 .. Len(old)
          <6> DEFINE l == Len(old)
                     from == g.start[b]
                     to == g.end[b]
          <6>1. l = to - from /\ to \in Nat /\ from \in Nat
            BY ONLY <1>1, <1>2
          <6>2. p <= to /\ from + off = p
            BY ONLY <1>2, <1>4
          <6> HIDE DEF l, from, to
          <6>3. off \in 0 .. l
            BY ONLY <1>2, <1>4, <6>1, <6>2
          <6> QED
            BY ONLY <6>3 DEF l
        <5> DEFINE rest == From(old, off)
        <5>3. rest \in Seq(Chars)
          BY ONLY <5>1, <5>2, FromIs
        <5>4. EndOf(nd, iter) = <<>> \/ EndOf(nd, iter) = <<rest>>
          BY ONLY <1>2 DEF EndOf
        <5> DEFINE strings == Seq(Chars)
        <5> HIDE DEF rest
        <5>5. rest \in strings
          BY ONLY <5>3
        <5> HIDE DEF strings
        <5>6. <<>> \in Seq(strings)
          BY ONLY EmptySeq
        <5>7. <<rest>> \in Seq(strings)
          BY ONLY <5>5
        <5>8. EndOf(nd, iter) \in Seq(strings)
          BY ONLY <5>4, <5>6, <5>7
        <5> QED
          BY ONLY <5>8 DEF strings
      <4> QED
        BY ONLY <2>2, <4>1, <4>2
    <3> QED
      BY ONLY <3>1, heights \in [DOMAIN NewParts(at.nd, iter, s) -> Heights]
  <2> HIDE DEF parts
  <2>4. Done(nd, r, g, all.nd, Replaced(t, p, p, s)) /\ Gains(all, at, s)
    BY ONLY <2>2, <2>3, NewNodesIs, HeapAssumption, r \in Ropes, s \in Seq(Chars),
            Shape(at.nd, r, g, t), Heap(at.nd), at.chars \in Int, at.bytes \in Int,
            At(g, r, b, p, iter)
  <2> QED
    BY ONLY <2>1, <2>4
<1> QED
  BY ONLY <1>5, <1>6, <1>7
-----------------------------------------------------------------------------
(* iter_at_char_pos: on each level it stops at the last node that starts   *)
(* before the position, or at the head.                                    *)
LastBefore(g, r, x, i, p) ==
  /\ x \in g.nodes /\ g.tall[x] >= i /\ (x = r \/ g.start[x] < p)
  /\ \A z \in g.nodes : g.tall[z] >= i /\ g.start[z] < p => g.end[z] <= g.end[x]

LEMMA LastBeforeIs ==
  ASSUME NEW g, NEW r, NEW total \in Nat, Row(g, r, total), NEW p \in 0 .. total,
         NEW b, LastBefore(g, r, b, 1, p)
  PROVE  /\ b \in g.nodes /\ g.start[b] <= p /\ p <= g.end[b] /\ (b = r \/ g.start[b] < p)
         /\ \A i \in Nat : \A x : LastBefore(g, r, x, i, p) => LastAt(g, b, i, x)
<1>1. /\ \A x \in g.nodes : g.start[x] \in Nat /\ g.end[x] \in Nat /\ g.tall[x] \in Nat
      /\ \A x, y \in g.nodes : g.end[x] < g.end[y] =>
              g.end[x] <= g.start[y] /\ g.start[x] <= g.start[y]
      /\ \A x \in g.nodes \ {r} : g.end[r] < g.end[x] /\ g.end[r] <= g.start[x]
      /\ \A x, y \in g.nodes : x # y => g.end[x] # g.end[y]
  BY RowOrder
<1>2. /\ r \in g.nodes /\ g.start[r] = 0
      /\ \A x \in g.nodes : g.start[x] <= g.end[x] /\ g.end[x] <= total /\ g.tall[x] >= 1
      /\ \A x \in g.nodes \ {r} : g.start[x] < g.end[x]
      /\ \A x \in g.nodes : g.end[x] = total \/ \E y \in g.nodes \ {r} : g.start[y] = g.end[x]
  BY DEF Row
<1>3. /\ b \in g.nodes /\ (b = r \/ g.start[b] < p)
      /\ \A z \in g.nodes : g.start[z] < p => g.end[z] <= g.end[b]
  BY ONLY <1>2, LastBefore(g, r, b, 1, p) DEF LastBefore
<1>4. g.start[b] <= p
  BY ONLY <1>1, <1>2, <1>3, p \in 0 .. total
<1>5. p <= g.end[b]
  <2>0. g.end[b] \in Nat /\ p \in Nat
    BY <1>1, <1>3
  <2> SUFFICES ASSUME g.end[b] < p PROVE FALSE
    <3> DEFINE to == g.end[b]
    <3>1. to \in Nat /\ p \in Nat
      BY <2>0
    <3> HIDE DEF to
    <3>2. to < p \/ p <= to
      BY ONLY <3>1
    <3> QED
      BY <3>2 DEF to
  <2>1. g.end[b] # total
    BY ONLY <1>1, <1>3, g.end[b] < p, p \in 0 .. total
  <2>2. PICK y \in g.nodes \ {r} : g.start[y] = g.end[b]
    BY ONLY <1>2, <1>3, <2>1
  <2>3. g.end[y] <= g.end[b]
    BY ONLY <1>3, <2>2, g.end[b] < p
  <2> QED
    BY ONLY <1>1, <1>2, <1>3, <2>2, <2>3
<1>6. ASSUME NEW i \in Nat, NEW x, LastBefore(g, r, x, i, p) PROVE LastAt(g, b, i, x)
  <2>1. /\ x \in g.nodes /\ g.tall[x] >= i /\ (x = r \/ g.start[x] < p)
        /\ \A z \in g.nodes : g.tall[z] >= i /\ g.start[z] < p => g.end[z] <= g.end[x]
    BY ONLY <1>6 DEF LastBefore
  <2>2. g.end[x] <= g.end[b]
    BY ONLY <1>1, <1>2, <1>3, <2>1
  <2>3. ASSUME NEW z \in g.nodes, g.tall[z] >= i, g.end[z] <= g.end[b] PROVE g.end[z] <= g.end[x]
    <3>1. CASE z = r
      BY ONLY <1>1, <1>2, <2>1, <3>1
    <3>2. CASE z # r
      <4>1. g.start[z] < p
        <5>1. CASE z = b
          BY ONLY <1>3, <3>2, <5>1
        <5>2. CASE z # b
          BY ONLY <1>1, <1>2, <1>3, <1>4, <2>3, <3>2, <5>2, p \in 0 .. total
        <5> QED
          BY ONLY <5>1, <5>2
      <4> QED
        BY ONLY <2>1, <2>3, <4>1
    <3> QED
      BY ONLY <3>1, <3>2
  <2> QED
    BY ONLY <2>1, <2>2, <2>3 DEF LastAt
<1> QED
  BY ONLY <1>3, <1>4, <1>5, <1>6

Marks(g, r, p, iter, level) ==
  /\ iter = [i \in 1 .. g.tall[r] |-> iter[i]]
  /\ \A i \in 1 .. g.tall[r] : level < i =>
       \E x : LastBefore(g, r, x, i, p) /\ iter[i] = Link(x, p - g.start[x])

LEMMA Arrives ==
  ASSUME NEW g, NEW r, NEW total \in Nat, Row(g, r, total), NEW p \in 0 .. total,
         NEW iter, Marks(g, r, p, iter, 0)
  PROVE  \E b : At(g, r, b, p, iter)
<1>1. g.tall[r] \in Nat /\ g.tall[r] >= 1
  BY DEF Row
<1>2. /\ iter = [i \in 1 .. g.tall[r] |-> iter[i]]
      /\ \A i \in 1 .. g.tall[r] :
           \E x : LastBefore(g, r, x, i, p) /\ iter[i] = Link(x, p - g.start[x])
  BY <1>1 DEF Marks
<1>3. PICK b : LastBefore(g, r, b, 1, p)
  BY ONLY <1>1, <1>2
<1>4. /\ b \in g.nodes /\ g.start[b] <= p /\ p <= g.end[b] /\ (b = r \/ g.start[b] < p)
      /\ \A i \in Nat : \A x : LastBefore(g, r, x, i, p) => LastAt(g, b, i, x)
  BY ONLY <1>3, LastBeforeIs, total \in Nat, Row(g, r, total), p \in 0 .. total
<1>5. ASSUME NEW i \in 1 .. g.tall[r]
      PROVE  \E x \in g.nodes : LastAt(g, b, i, x) /\ iter[i] = Link(x, p - g.start[x])
  <2>1. PICK x : LastBefore(g, r, x, i, p) /\ iter[i] = Link(x, p - g.start[x])
    BY ONLY <1>2, i \in 1 .. g.tall[r]
  <2>2. i \in Nat
    OBVIOUS
  <2>3. LastAt(g, b, i, x)
    BY ONLY <1>4, <2>1, <2>2
  <2>4. x \in g.nodes
    BY ONLY <2>3 DEF LastAt
  <2> QED
    BY ONLY <2>1, <2>3, <2>4
<1>6. p \in Nat
  OBVIOUS
<1>7. At(g, r, b, p, iter)
  BY ONLY <1>2, <1>4, <1>5, <1>6 DEF At
<1> QED
  BY ONLY <1>7

(* Where the walk is, and what it has ahead of it: the levels, and the     *)
(* characters up to the position with the head in front of them.           *)
Walking(g, r, p, w) ==
  /\ w = [node |-> w.node, level |-> w.level, offset |-> w.offset, iter |-> w.iter]
  /\ w.node \in g.nodes /\ w.level \in Nat /\ w.level <= g.tall[w.node]
  /\ (w.node = r \/ g.start[w.node] < p) /\ w.offset = p - g.start[w.node]
  /\ Marks(g, r, p, w.iter, w.level)
Ahead(g, r, p, w) == w.level + (IF w.node = r THEN p + 1 ELSE p - g.start[w.node])

LEMMA AheadIs ==
  ASSUME NEW g, NEW r, NEW total \in Nat, Row(g, r, total), NEW p \in Nat,
         NEW w, Walking(g, r, p, w)
  PROVE  Ahead(g, r, p, w) \in Nat /\ Ahead(g, r, p, w) > 0
<1>1. w.node \in g.nodes /\ w.level \in Nat /\ (w.node = r \/ g.start[w.node] < p)
  BY DEF Walking
<1>2. g.start[w.node] \in Nat
  BY <1>1 DEF Row
<1> DEFINE from == g.start[w.node]
           level == w.level
<1> HIDE DEF from, level
<1>3. CASE w.node = r
  BY <1>1, <1>3 DEF Ahead
<1>4. CASE w.node # r
  <2>1. from \in Nat /\ from < p /\ level \in Nat
    BY <1>1, <1>2, <1>4 DEF from, level
  <2>2. Ahead(g, r, p, w) = level + (p - from)
    BY <1>4 DEF Ahead, from, level
  <2> QED
    BY ONLY <2>1, <2>2, p \in Nat
<1> QED
  BY <1>3, <1>4

(* Down: the level is done.                                                *)
LEMMA WalkDown ==
  ASSUME NEW nd, NEW g, NEW r, NEW total \in Nat, Row(g, r, total), Linked(nd, g, total),
         NEW p \in 0 .. total, NEW w, Walking(g, r, p, w), w.level # 0,
         ~(w.offset > nd[w.node].nexts[w.level].skip_size)
  PROVE  /\ Walking(g, r, p, Walk(nd, w))
         /\ Ahead(g, r, p, Walk(nd, w)) = Ahead(g, r, p, w) - 1
<1> DEFINE x == w.node
           i == w.level
           link == nd[x].nexts[i]
           from == g.start[x]
           iter == w.iter
           iter2 == [iter EXCEPT ![i] = Link(x, p - from)]
           v == Walk(nd, w)
<1>1. /\ w = [node |-> x, level |-> i, offset |-> w.offset, iter |-> iter]
      /\ x \in g.nodes /\ i \in Nat /\ i <= g.tall[x] /\ (x = r \/ from < p)
      /\ w.offset = p - from /\ Marks(g, r, p, iter, i)
  BY DEF Walking
<1>2. v = [node |-> x, level |-> i - 1, offset |-> p - from, iter |-> iter2]
  <2>1. v = [w EXCEPT !.level = @ - 1, !.iter[w.level] = Link(w.node, w.offset)]
    BY DEF Walk
  <2>2. v = [node |-> w.node, level |-> w.level - 1, offset |-> w.offset,
             iter |-> [w.iter EXCEPT ![w.level] = Link(w.node, w.offset)]]
    BY ONLY <1>1, <2>1
  <2> QED
    BY ONLY <1>1, <2>2
<1>3. v.node = x /\ v.level = i - 1 /\ v.offset = p - from /\ v.iter = iter2
      /\ v = [node |-> v.node, level |-> v.level, offset |-> v.offset, iter |-> v.iter]
  <2> HIDE DEF v, iter2
  <2> QED
    BY ONLY <1>2
<1>4. g.tall[x] \in Nat /\ g.tall[r] \in Nat /\ g.tall[x] <= g.tall[r] /\ from \in Nat
      /\ i \in 1 .. g.tall[x]
  <2>1. /\ r \in g.nodes /\ \A y \in g.nodes : g.tall[y] \in Nat /\ g.start[y] \in Nat
        /\ \A y \in g.nodes \ {r} : g.tall[y] < g.tall[r]
    BY DEF Row
  <2>2. g.tall[x] \in Nat /\ g.tall[r] \in Nat /\ g.tall[x] <= g.tall[r] /\ from \in Nat
    BY ONLY <1>1, <2>1
  <2> QED
    BY ONLY <1>1, <2>2, w.level # 0
<1>5. LinkFor(g, total, x, i, link)
  BY <1>1, <1>4 DEF Linked
<1>6. LastBefore(g, r, x, i, p)
  <2>1. ASSUME NEW z \in g.nodes, g.tall[z] >= i, g.start[z] < p PROVE g.end[z] <= g.end[x]
    <3>1. CASE NoneAt(g, x, i)
      BY ONLY <2>1, <3>1 DEF NoneAt
    <3>2. CASE \E y \in g.nodes : NextAt(g, x, i, y) /\ link = Link(y, g.start[y] - g.start[x])
      <4>1. PICK y \in g.nodes : NextAt(g, x, i, y) /\ link = Link(y, g.start[y] - g.start[x])
        BY ONLY <3>2
      <4>2. link.skip_size = g.start[y] - from
        BY ONLY <4>1 DEF Link
      <4>3. /\ g.start[y] \in Nat /\ g.end[y] \in Nat /\ g.end[z] \in Nat /\ g.start[z] \in Nat
            /\ g.end[x] \in Nat
            /\ (g.end[y] < g.end[z] => g.start[y] <= g.start[z])
            /\ (y # z => g.end[y] # g.end[z])
        BY <1>1, <2>1, <4>1, RowOrder
      <4>4. ~(p - from > link.skip_size)
        BY ONLY <1>1, ~(w.offset > nd[w.node].nexts[w.level].skip_size)
      <4> HIDE DEF link, from, x
      <4>5. p <= g.start[y]
        BY ONLY <1>4, <4>2, <4>3, <4>4, p \in 0 .. total, total \in Nat
      <4>6. g.end[x] < g.end[z] => g.end[y] <= g.end[z]
        BY ONLY <2>1, <4>1 DEF NextAt
      <4>7. y # z
        BY ONLY <2>1, <4>3, <4>5, p \in 0 .. total, total \in Nat
      <4> QED
        BY ONLY <2>1, <4>3, <4>5, <4>6, <4>7, p \in 0 .. total, total \in Nat
    <3> QED
      BY ONLY <1>5, <3>1, <3>2 DEF LinkFor
  <2> QED
    BY ONLY <1>1, <1>4, <2>1 DEF LastBefore
<1>7. Marks(g, r, p, iter2, i - 1)
  <2> DEFINE k == g.tall[r]
  <2>1. /\ k \in Nat /\ i \in 1 .. k /\ iter = [j \in 1 .. k |-> iter[j]]
        /\ \A j \in 1 .. k : i < j =>
             \E y : LastBefore(g, r, y, j, p) /\ iter[j] = Link(y, p - g.start[y])
    <3>1. i \in 1 .. k
      BY ONLY <1>4
    <3> QED
      BY ONLY <1>1, <1>4, <3>1 DEF Marks
  <2> HIDE DEF k, i, iter
  <2> DEFINE new == Link(x, p - from)
  <2> HIDE DEF new
  <2>2. /\ iter2 = [j \in 1 .. k |-> iter2[j]] /\ iter2[i] = new
        /\ \A j \in 1 .. k : j # i => iter2[j] = iter[j]
    BY ONLY <2>1 DEF new
  <2>3. ASSUME NEW j \in 1 .. k, i - 1 < j
        PROVE  \E y : LastBefore(g, r, y, j, p) /\ iter2[j] = Link(y, p - g.start[y])
    <3>1. CASE j = i
      BY ONLY <1>6, <2>2, <3>1 DEF new, from
    <3>2. CASE j # i
      <4>1. i < j
        BY ONLY <2>1, <2>3, <3>2
      <4> QED
        BY ONLY <2>1, <2>2, <3>2, <4>1
    <3> QED
      BY ONLY <3>1, <3>2
  <2> QED
    BY ONLY <2>2, <2>3 DEF Marks, k
<1>8. Walking(g, r, p, v)
  <2> HIDE DEF v, iter2
  <2>1. v.level \in Nat /\ v.level <= g.tall[v.node]
    <3> HIDE DEF i
    <3> QED
      BY ONLY <1>3, <1>4
  <2>2. Marks(g, r, p, v.iter, v.level)
    BY ONLY <1>3, <1>7
  <2>3. v.node \in g.nodes /\ (v.node = r \/ g.start[v.node] < p) /\ v.offset = p - g.start[v.node]
    BY ONLY <1>1, <1>3
  <2>4. v = [node |-> v.node, level |-> v.level, offset |-> v.offset, iter |-> v.iter]
    BY ONLY <1>3
  <2> QED
    BY ONLY <2>1, <2>2, <2>3, <2>4 DEF Walking
<1>9. Ahead(g, r, p, v) = Ahead(g, r, p, w) - 1
  <2> DEFINE rest == IF x = r THEN p + 1 ELSE p - from
  <2>1. rest \in Int
    <3> HIDE DEF x, from
    <3> QED
      BY ONLY <1>4, p \in 0 .. total, total \in Nat
  <2>2. Ahead(g, r, p, v) = (i - 1) + rest
    BY ONLY <1>3 DEF Ahead
  <2>3. Ahead(g, r, p, w) = i + rest
    BY DEF Ahead
  <2> HIDE DEF rest, i
  <2> QED
    BY ONLY <1>1, <2>1, <2>2, <2>3
<1> QED
  BY ONLY <1>8, <1>9

(* To the right: past the node, or past the head.                          *)
LEMMA WalkRight ==
  ASSUME NEW nd, NEW g, NEW r, NEW total \in Nat, Row(g, r, total), Linked(nd, g, total),
         NEW p \in 0 .. total, NEW w, Walking(g, r, p, w), w.level # 0,
         w.offset > nd[w.node].nexts[w.level].skip_size
  PROVE  /\ Walking(g, r, p, Walk(nd, w))
         /\ Ahead(g, r, p, Walk(nd, w)) < Ahead(g, r, p, w)
<1> DEFINE x == w.node
           i == w.level
           link == nd[x].nexts[i]
           from == g.start[x]
           iter == w.iter
           v == Walk(nd, w)
<1>1. /\ w = [node |-> x, level |-> i, offset |-> w.offset, iter |-> iter]
      /\ x \in g.nodes /\ i \in Nat /\ i <= g.tall[x] /\ (x = r \/ from < p)
      /\ w.offset = p - from /\ Marks(g, r, p, iter, i)
  BY DEF Walking
<1>2. g.tall[x] \in Nat /\ from \in Nat /\ i \in 1 .. g.tall[x] /\ p \in Nat
  <2>1. \A y \in g.nodes : g.tall[y] \in Nat /\ g.start[y] \in Nat
    BY DEF Row
  <2>2. g.tall[x] \in Nat /\ from \in Nat
    BY ONLY <1>1, <2>1
  <2>3. p \in Nat
    OBVIOUS
  <2> QED
    BY ONLY <1>1, <2>2, <2>3, w.level # 0
<1>3. LinkFor(g, total, x, i, link)
  BY <1>1, <1>2 DEF Linked
<1>4. p - from > link.skip_size
  BY ONLY <1>1, w.offset > nd[w.node].nexts[w.level].skip_size
<1>5. ~(link = Link(NULL, total - g.start[x]))
  <2> SUFFICES ASSUME link = Link(NULL, total - from) PROVE FALSE
    OBVIOUS
  <2>1. link.skip_size = total - from
    BY ONLY link = Link(NULL, total - from) DEF Link
  <2> HIDE DEF link, from
  <2> QED
    BY ONLY <1>2, <1>4, <2>1, p \in 0 .. total, total \in Nat
<1>6. PICK y \in g.nodes : NextAt(g, x, i, y) /\ link = Link(y, g.start[y] - g.start[x])
  BY ONLY <1>3, <1>5 DEF LinkFor
<1> DEFINE to == g.start[y]
<1>7. link.node = y /\ link.skip_size = to - from
  BY ONLY <1>6 DEF Link
<1>8. /\ to \in Nat /\ g.tall[y] >= i /\ y # r
      /\ from <= to /\ (x # r => from < to)
  <2>1. /\ g.start[y] \in Nat /\ g.end[y] \in Nat /\ g.end[x] \in Nat /\ g.end[r] \in Nat
        /\ (g.end[x] < g.end[y] => g.end[x] <= g.start[y] /\ g.start[x] <= g.start[y])
        /\ (x # r => g.end[r] < g.end[x])
    <3>1. r \in g.nodes
      BY DEF Row
    <3> QED
      BY <1>1, <1>6, <3>1, RowOrder
  <2>2. (x # r => g.start[x] < g.end[x])
    BY <1>1 DEF Row
  <2>3. g.end[x] < g.end[y] /\ g.tall[y] >= i
    BY ONLY <1>6 DEF NextAt
  <2>4. from <= to /\ (x # r => from < to)
    BY ONLY <1>2, <2>1, <2>2, <2>3
  <2>5. y # r
    <3>1. CASE x = r
      BY ONLY <2>1, <2>3, <3>1
    <3>2. CASE x # r
      BY ONLY <2>1, <2>3, <3>2
    <3> QED
      BY ONLY <3>1, <3>2
  <2> QED
    BY ONLY <2>1, <2>3, <2>4, <2>5
<1>9. v = [node |-> y, level |-> i, offset |-> (p - from) - (to - from), iter |-> iter]
  <2>1. v = [w EXCEPT !.node = link.node, !.offset = @ - link.skip_size]
    BY w.level # 0, w.offset > nd[w.node].nexts[w.level].skip_size DEF Walk
  <2> DEFINE to_node == link.node
             skip == link.skip_size
  <2>2. v = [w EXCEPT !.node = to_node, !.offset = w.offset - skip]
    BY ONLY <2>1
  <2> HIDE DEF to_node, skip
  <2>3. v = [node |-> to_node, level |-> w.level, offset |-> w.offset - skip, iter |-> w.iter]
    BY ONLY <1>1, <2>2
  <2> QED
    BY ONLY <1>1, <1>7, <2>3 DEF to_node, skip
<1>10. v.node = y /\ v.level = i /\ v.offset = (p - from) - (to - from) /\ v.iter = iter
      /\ v = [node |-> v.node, level |-> v.level, offset |-> v.offset, iter |-> v.iter]
  <2> HIDE DEF v
  <2> QED
    BY ONLY <1>9
<1>11. to < p /\ (p - from) - (to - from) = p - to
  <2> HIDE DEF to, from, link
  <2> QED
    BY ONLY <1>2, <1>4, <1>7, <1>8
<1>12. Walking(g, r, p, v)
  <2> HIDE DEF v
  <2>1. v.level \in Nat /\ v.level <= g.tall[v.node]
    <3>1. g.tall[y] \in Nat
      BY <1>6 DEF Row
    <3> HIDE DEF i
    <3> QED
      BY ONLY <1>1, <1>8, <1>10, <3>1
  <2>2. Marks(g, r, p, v.iter, v.level)
    BY ONLY <1>1, <1>10
  <2>3. v.node \in g.nodes /\ (v.node = r \/ g.start[v.node] < p) /\ v.offset = p - g.start[v.node]
    BY ONLY <1>6, <1>10, <1>11
  <2>4. v = [node |-> v.node, level |-> v.level, offset |-> v.offset, iter |-> v.iter]
    BY ONLY <1>10
  <2> QED
    BY ONLY <2>1, <2>2, <2>3, <2>4 DEF Walking
<1>13. Ahead(g, r, p, v) < Ahead(g, r, p, w)
  <2>1. Ahead(g, r, p, v) = i + (p - to)
    BY ONLY <1>8, <1>10 DEF Ahead
  <2>2. Ahead(g, r, p, w) = i + (IF x = r THEN p + 1 ELSE p - from)
    BY ONLY DEF Ahead
  <2> HIDE DEF to, from, i, x
  <2>3. (p - to) < (IF x = r THEN p + 1 ELSE p - from) /\ i \in Nat
    BY ONLY <1>1, <1>2, <1>8
  <2> DEFINE rest == IF x = r THEN p + 1 ELSE p - from
  <2>4. rest \in Int
    BY ONLY <1>2
  <2> HIDE DEF rest
  <2>5. (p - to) < rest
    BY ONLY <2>3 DEF rest
  <2>6. i + (p - to) < i + rest
    BY ONLY <1>2, <1>8, <2>3, <2>4, <2>5
  <2> QED
    BY ONLY <2>1, <2>2, <2>6 DEF rest
<1> QED
  BY ONLY <1>12, <1>13

LEMMA IterIs ==
  ASSUME NEW nd, NEW r, NEW g, NEW t, Shape(nd, r, g, t), NEW p \in 0 .. Len(t)
  PROVE  \E b : At(g, r, b, p, iter_at_char_pos(nd, r, p))
<1> DEFINE total == Len(t)
           k == g.tall[r]
           n == k + p + 1
           first == [node |-> r, level |-> k, offset |-> p, iter |-> [i \in 1 .. k |-> Link(NULL, 0)]]
           Is(f) == f = [i \in 0 .. n |-> IF i = 0 THEN first ELSE Walk(nd, f[i - 1])]
           run == CHOOSE f : Is(f)
           loop == [of |-> "walk", nd |-> nd]
           iter == iter_at_char_pos(nd, r, p)
<1>1. /\ total \in Nat /\ Row(g, r, total) /\ Linked(nd, g, total)
      /\ r \in g.nodes /\ g.start[r] = 0 /\ k \in Nat /\ Len(nd[r].nexts) = k
  BY ShapeIs
<1>2. p \in Nat /\ n \in Nat
  <2>1. p \in Nat
    OBVIOUS
  <2> HIDE DEF k
  <2> QED
    BY ONLY <1>1, <2>1
<1>3. Is(run)
  <2>1. PICK f : Runs(f, loop, n, first)
    BY ONLY <1>2, RoundsExist
  <2>2. \A i, x : Round(loop, i, x) = Walk(nd, x)
    BY DEF Round
  <2>3. Is(f)
    BY ONLY <2>1, <2>2 DEF Runs
  <2> HIDE DEF Is
  <2> QED
    BY <2>3
<1>4. iter = run[n].iter
  <2>1. height(nd, r) = k
    BY <1>1 DEF height
  <2> QED
    BY <2>1 DEF iter_at_char_pos, Loop
<1>5. run[0] = first /\ \A i \in 1 .. n : run[i] = Walk(nd, run[i - 1])
  <2>1. 0 \in 0 .. n /\ \A i \in 1 .. n : i \in 0 .. n /\ i # 0
    BY <1>2
  <2> HIDE DEF run, n, first
  <2> QED
    BY ONLY <1>3, <2>1
<1> DEFINE Good(i, x) == /\ Walking(g, r, p, x)
                         /\ x.level = 0 \/ Ahead(g, r, p, x) <= n - i
           S == {i \in 0 .. n : Good(i, run[i])}
<1> HIDE DEF run
<1>6. 0 \in S
  <2>1. Good(0, first)
    <3>1. Marks(g, r, p, first.iter, first.level)
      <4>1. \A i \in 1 .. k : ~(k < i)
        BY <1>1
      <4> HIDE DEF k
      <4>2. first.level = k /\ first.iter = [i \in 1 .. k |-> first.iter[i]]
        OBVIOUS
      <4> HIDE DEF first
      <4> QED
        BY ONLY <4>1, <4>2 DEF Marks, k
    <3>2. /\ first = [node |-> first.node, level |-> first.level, offset |-> first.offset,
                      iter |-> first.iter]
          /\ first.node = r /\ first.level = k /\ first.offset = p
      OBVIOUS
    <3> HIDE DEF first
    <3>3. p = p - 0
      BY ONLY <1>2
    <3>4. Walking(g, r, p, first)
      BY ONLY <1>1, <3>1, <3>2, <3>3 DEF Walking
    <3>5. Ahead(g, r, p, first) = k + (p + 1)
      BY ONLY <3>2 DEF Ahead
    <3>6. k + (p + 1) <= n - 0
      <4> HIDE DEF k
      <4> QED
        BY ONLY <1>1, <1>2
    <3> QED
      BY ONLY <3>4, <3>5, <3>6
  <2>2. 0 \in 0 .. n
    BY ONLY <1>2
  <2> HIDE DEF first, n
  <2> QED
    BY ONLY <1>5, <2>1, <2>2
<1>7. ASSUME NEW i \in 1 .. n, i - 1 \in S PROVE i \in S
  <2> DEFINE x == run[i - 1]
             y == run[i]
  <2>1. /\ Walking(g, r, p, x) /\ (x.level = 0 \/ Ahead(g, r, p, x) <= n - (i - 1))
        /\ i \in 0 .. n /\ i \in Nat
    BY <1>7
  <2>2. y = Walk(nd, x)
    BY ONLY <1>5, i \in 1 .. n
  <2>3. Good(i, y)
    <3> HIDE DEF x, y, n
    <3>1. CASE x.level = 0
      <4>1. y = x
        BY ONLY <2>2, <3>1 DEF Walk
      <4> QED
        BY ONLY <2>1, <3>1, <4>1
    <3>2. CASE x.level # 0
      <4>1. Ahead(g, r, p, x) \in Nat
        BY ONLY <1>1, <1>2, <2>1, AheadIs
      <4>2. Walking(g, r, p, y) /\ Ahead(g, r, p, y) < Ahead(g, r, p, x)
        <5>1. CASE x.offset > nd[x.node].nexts[x.level].skip_size
          BY ONLY <1>1, <2>1, <2>2, <3>2, <5>1, WalkRight, p \in 0 .. Len(t)
        <5>2. CASE ~(x.offset > nd[x.node].nexts[x.level].skip_size)
          <6>1. Walking(g, r, p, y) /\ Ahead(g, r, p, y) = Ahead(g, r, p, x) - 1
            BY ONLY <1>1, <2>1, <2>2, <3>2, <5>2, WalkDown, p \in 0 .. Len(t)
          <6> QED
            BY ONLY <4>1, <6>1
        <5> QED
          BY ONLY <5>1, <5>2
      <4>3. Ahead(g, r, p, y) \in Nat
        BY ONLY <1>1, <1>2, <4>2, AheadIs
      <4> DEFINE ax == Ahead(g, r, p, x)
                 ay == Ahead(g, r, p, y)
      <4>4. ax \in Nat /\ ay \in Nat /\ ay < ax /\ ax <= n - (i - 1)
        BY ONLY <2>1, <3>2, <4>1, <4>2, <4>3
      <4> HIDE DEF ax, ay
      <4>5. ay <= n - i
        BY ONLY <1>2, <2>1, <4>4
      <4> QED
        BY ONLY <4>2, <4>5 DEF ay
    <3> QED
      BY ONLY <3>1, <3>2
  <2> QED
    BY ONLY <2>1, <2>3
<1>8. \A i \in 0 .. n : i \in S
  <2> HIDE DEF S, n
  <2> QED
    BY ONLY <1>2, <1>6, <1>7, Upward
<1>9. Good(n, run[n])
  <2>1. n \in 0 .. n
    BY ONLY <1>2
  <2> QED
    BY ONLY <1>8, <2>1
<1>10. run[n].level = 0
  <2> DEFINE a == Ahead(g, r, p, run[n])
  <2>1. a \in Nat /\ a > 0
    BY ONLY <1>1, <1>2, <1>9, AheadIs
  <2>2. run[n].level = 0 \/ a <= n - n
    BY ONLY <1>9
  <2> HIDE DEF a, n
  <2> QED
    BY ONLY <1>2, <2>1, <2>2
<1>11. Marks(g, r, p, iter, 0)
  BY ONLY <1>4, <1>9, <1>10 DEF Walking
<1> HIDE DEF iter
<1>12. \E b : At(g, r, b, p, iter)
  BY ONLY <1>1, <1>11, Arrives, p \in 0 .. Len(t)
<1> QED
  BY ONLY <1>12 DEF iter
==============================================================================
