----------------------------- MODULE Rope_proofs -----------------------------
(***************************************************************************)
(* Proofs about the rope, for every number of ropes, every alphabet, every *)
(* size of a node, every height and every sequence of calls: deletion, the *)
(* heap the operations work in, and the properties of StringSpec.  The     *)
(* lemmas about the rows of one rope and about insertion are in            *)
(* RopeRows_proofs.                                                        *)
(***************************************************************************)
EXTENDS RopeRows_proofs

-----------------------------------------------------------------------------
(* rope_del_at_iter.  Above the node behind b the lists run as over b.     *)
LEMMA AboveIs ==
  ASSUME NEW g, NEW r, NEW total \in Nat, Row(g, r, total), NEW b \in g.nodes, NEW e \in g.nodes,
         e # b, e # r, g.start[e] = g.end[b], NEW i \in Nat, g.tall[e] < i, NEW x
  PROVE  LastAt(g, e, i, x) <=> LastAt(g, b, i, x)
<1>1. /\ \A y \in g.nodes : g.start[y] \in Nat /\ g.end[y] \in Nat /\ g.tall[y] \in Nat
      /\ \A y, z \in g.nodes : y # z => g.end[y] # g.end[z]
      /\ \A y, z \in g.nodes : g.end[y] < g.end[z] => g.end[y] <= g.start[z]
  BY RowOrder
<1>2. g.start[e] < g.end[e]
  BY DEF Row
<1>3. ASSUME NEW z \in g.nodes, g.tall[z] >= i PROVE g.end[z] <= g.end[e] <=> g.end[z] <= g.end[b]
  <2>1. z # e
    BY ONLY <1>1, <1>3, e \in g.nodes, g.tall[e] < i, i \in Nat
  <2>2. g.end[z] <= g.end[e] => g.end[z] <= g.start[e]
    BY ONLY <1>1, <2>1, e \in g.nodes, z \in g.nodes
  <2> QED
    BY ONLY <1>1, <1>2, <2>2, e \in g.nodes, z \in g.nodes, b \in g.nodes, g.start[e] = g.end[b]
<1> QED
  BY ONLY <1>3 DEF LastAt

(* An iterator stays right when only what is behind its node changes.      *)
Steady(g, h, r, b) ==
  /\ h.nodes \subseteq g.nodes /\ r \in h.nodes
  /\ \A x \in h.nodes : h.tall[x] = g.tall[x] /\ (h.end[x] <= h.end[b] <=> g.end[x] <= g.end[b])
  /\ \A x \in g.nodes : g.end[x] <= g.end[b] =>
       x \in h.nodes /\ h.start[x] = g.start[x] /\ h.end[x] = g.end[x]

LEMMA SteadyAt ==
  ASSUME NEW g, NEW r, NEW total \in Nat, Row(g, r, total), NEW b, NEW p, NEW iter,
         At(g, r, b, p, iter), NEW h, Steady(g, h, r, b)
  PROVE  At(h, r, b, p, iter)
<1>1. /\ b \in g.nodes /\ p \in Nat /\ g.start[b] <= p /\ p <= g.end[b] /\ (b = r \/ g.start[b] < p)
      /\ iter = [i \in 1 .. g.tall[r] |-> iter[i]]
      /\ \A i \in 1 .. g.tall[r] :
           \E x \in g.nodes : LastAt(g, b, i, x) /\ iter[i] = Link(x, p - g.start[x])
  BY DEF At
<1>2. /\ h.nodes \subseteq g.nodes /\ r \in h.nodes
      /\ \A x \in h.nodes : h.tall[x] = g.tall[x] /\ (h.end[x] <= h.end[b] <=> g.end[x] <= g.end[b])
      /\ \A x \in g.nodes : g.end[x] <= g.end[b] =>
           x \in h.nodes /\ h.start[x] = g.start[x] /\ h.end[x] = g.end[x]
  BY DEF Steady
<1>3. g.end[b] \in Nat
  BY <1>1, RowOrder
<1>4. b \in h.nodes /\ h.start[b] = g.start[b] /\ h.end[b] = g.end[b] /\ h.tall[r] = g.tall[r]
  BY ONLY <1>1, <1>2, <1>3
<1>5. ASSUME NEW i \in 1 .. g.tall[r]
      PROVE  \E x \in h.nodes : LastAt(h, b, i, x) /\ iter[i] = Link(x, p - h.start[x])
  <2>1. PICK x \in g.nodes : LastAt(g, b, i, x) /\ iter[i] = Link(x, p - g.start[x])
    BY ONLY <1>1, i \in 1 .. g.tall[r]
  <2>2. /\ g.tall[x] >= i /\ g.end[x] <= g.end[b]
        /\ \A z \in g.nodes : g.tall[z] >= i /\ g.end[z] <= g.end[b] => g.end[z] <= g.end[x]
    BY ONLY <2>1 DEF LastAt
  <2>3. x \in h.nodes /\ h.start[x] = g.start[x] /\ h.end[x] = g.end[x] /\ h.tall[x] = g.tall[x]
    BY ONLY <1>2, <2>1, <2>2
  <2>4. ASSUME NEW z \in h.nodes, h.tall[z] >= i, h.end[z] <= h.end[b] PROVE h.end[z] <= h.end[x]
    <3>1. z \in g.nodes /\ g.tall[z] >= i /\ g.end[z] <= g.end[b]
      BY ONLY <1>2, <2>4
    <3>2. g.end[z] <= g.end[x] /\ h.end[z] = g.end[z]
      BY ONLY <1>2, <2>2, <3>1
    <3> QED
      BY ONLY <2>3, <3>2
  <2>5. h.tall[x] >= i /\ h.end[x] <= h.end[b]
    BY ONLY <1>4, <2>2, <2>3
  <2>6. LastAt(h, b, i, x)
    BY ONLY <2>3, <2>4, <2>5 DEF LastAt
  <2> QED
    BY ONLY <2>1, <2>3, <2>6
<1> QED
  BY ONLY <1>1, <1>4, <1>5 DEF At

LEMMA ResizedSteady ==
  ASSUME NEW g, NEW r, NEW total \in Nat, Row(g, r, total), NEW b \in g.nodes, NEW e \in g.nodes,
         g.end[b] < g.end[e], NEW d \in Int, e # r => g.start[e] < g.end[e] + d
  PROVE  Steady(g, Resized(g, e, d), r, b) /\ Resized(g, e, d).end[b] = g.end[b]
<1> DEFINE h == Resized(g, e, d)
<1>1. /\ h.nodes = g.nodes /\ h.tall = g.tall
      /\ \A x \in g.nodes : g.end[x] > g.end[e] =>
           h.start[x] = g.start[x] + d /\ h.end[x] = g.end[x] + d
      /\ h.start[e] = g.start[e] /\ h.end[e] = g.end[e] + d
      /\ \A x \in g.nodes : g.end[x] < g.end[e] => h.start[x] = g.start[x] /\ h.end[x] = g.end[x]
  BY ONLY ResizedIs, Row(g, r, total), total \in Nat, e \in g.nodes, d \in Int
<1>2. \A x, y \in g.nodes : h.end[x] < h.end[y] <=> g.end[x] < g.end[y]
  BY ONLY ResizedOrder, Row(g, r, total), total \in Nat, e \in g.nodes, d \in Int,
          e # r => g.start[e] < g.end[e] + d
<1>3. /\ r \in g.nodes
      /\ \A x \in g.nodes : g.start[x] \in Nat /\ g.end[x] \in Nat
      /\ \A x, y \in g.nodes : x # y => g.end[x] # g.end[y]
  BY RowOrder DEF Row
<1> HIDE DEF h
<1>4. \A x \in g.nodes : h.end[x] \in Int
  <2> TAKE x \in g.nodes
  <2>1. x = e \/ g.end[x] < g.end[e] \/ g.end[x] > g.end[e]
    BY ONLY <1>3, e \in g.nodes, x \in g.nodes
  <2> QED
    BY ONLY <1>1, <1>3, <2>1, e \in g.nodes, x \in g.nodes, d \in Int
<1>5. \A x \in g.nodes : h.end[x] <= h.end[b] <=> g.end[x] <= g.end[b]
  BY ONLY <1>2, <1>3, <1>4, b \in g.nodes
<1>6. \A x \in g.nodes : g.end[x] <= g.end[b] => h.start[x] = g.start[x] /\ h.end[x] = g.end[x]
  BY ONLY <1>1, <1>3, b \in g.nodes, e \in g.nodes, g.end[b] < g.end[e]
<1>7. Steady(g, h, r, b)
  BY ONLY <1>1, <1>3, <1>5, <1>6 DEF Steady
<1>8. h.end[b] = g.end[b]
  BY ONLY <1>1, b \in g.nodes, g.end[b] < g.end[e]
<1> QED
  BY ONLY <1>7, <1>8 DEF h

LEMMA RemovedSteady ==
  ASSUME NEW g, NEW r, NEW total \in Nat, Row(g, r, total), NEW b \in g.nodes, NEW e \in g.nodes,
         e # r, g.end[b] < g.end[e]
  PROVE  Steady(g, Removed(g, e), r, b) /\ Removed(g, e).end[b] = g.end[b]
<1> DEFINE h == Removed(g, e)
           n == g.end[e] - g.start[e]
<1>1. /\ h.nodes = g.nodes \ {e}
      /\ \A x \in h.nodes : h.tall[x] = g.tall[x]
      /\ \A x \in h.nodes : g.end[x] < g.end[e] => h.start[x] = g.start[x] /\ h.end[x] = g.end[x]
  BY RemovedIs
<1>2. \A x, y \in h.nodes : h.end[x] <= h.end[y] <=> g.end[x] <= g.end[y]
  BY RemovedOrder
<1>3. /\ r \in g.nodes
      /\ \A x \in g.nodes : g.start[x] \in Nat /\ g.end[x] \in Nat
  BY RowOrder DEF Row
<1> HIDE DEF h
<1>4. b \in h.nodes /\ r \in h.nodes
  BY ONLY <1>1, <1>3, b \in g.nodes, e # r, g.end[b] < g.end[e]
<1>5. \A x \in g.nodes : g.end[x] <= g.end[b] =>
        x \in h.nodes /\ h.start[x] = g.start[x] /\ h.end[x] = g.end[x]
  BY ONLY <1>1, <1>3, b \in g.nodes, e \in g.nodes, g.end[b] < g.end[e]
<1>6. Steady(g, h, r, b)
  BY ONLY <1>1, <1>2, <1>4, <1>5 DEF Steady
<1>7. h.end[b] = g.end[b]
  BY ONLY <1>1, <1>4, g.end[b] < g.end[e]
<1> QED
  BY ONLY <1>6, <1>7 DEF h

(* The n characters behind position p are in node e, from off on: that is  *)
(* the iterator's node, or when p is the end of it the node behind.        *)
Spot(g, r, b, p, e, off, n, q) ==
  /\ e \in g.nodes /\ off \in Nat /\ n \in Nat \ {0} /\ g.start[e] + off = p
  /\ q = p + n /\ q \in Nat /\ q <= g.end[e]
  /\ e = b \/ (e # b /\ e # r /\ g.start[e] = g.end[b] /\ off = 0)
Less(new, at, w) == new.chars = at.chars /\ new.bytes = at.bytes - Bytes(w)

LEMMA SpotIs ==
  ASSUME NEW nd, NEW r, NEW g, NEW t, Shape(nd, r, g, t), NEW b, NEW p, NEW iter,
         At(g, r, b, p, iter), NEW e, NEW off, NEW n, NEW q, Spot(g, r, b, p, e, off, n, q),
         NEW old, old = nd[e].str, NEW z, z = off + n
  PROVE  /\ p \in Nat /\ p <= q /\ q <= Len(t) /\ z \in 0 .. Len(old) /\ off \in 0 .. z
         /\ old \in Seq(Chars) /\ g.start[e] + z = q
         /\ Between(old, off, z) = Between(t, p, q) /\ q - p = n
<1> DEFINE from == g.start[e]
           to == g.end[e]
           len == Len(old)
           c == nd[e]
<1>1. /\ e \in g.nodes /\ off \in Nat /\ n \in Nat \ {0} /\ from + off = p
      /\ q = p + n /\ q \in Nat /\ q <= to
  BY DEF Spot
<1>2. /\ from \in Nat /\ to \in Nat /\ len = to - from /\ old \in Seq(Chars)
      /\ to <= Len(t) /\ Len(t) \in Nat /\ Part(c, t, from, to) /\ t \in Seq(Chars)
  <2>1. /\ \A x \in g.nodes : /\ g.start[x] \in Nat /\ g.end[x] \in Nat /\ g.end[x] <= Len(t)
                              /\ nd[x].str \in Seq(Chars)
                              /\ Len(nd[x].str) = g.end[x] - g.start[x]
                              /\ Part(nd[x], t, g.start[x], g.end[x])
        /\ Len(t) \in Nat /\ t \in Seq(Chars)
    BY ShapeIs
  <2> QED
    BY ONLY <1>1, <2>1, old = nd[e].str
<1> HIDE DEF from, to, len
<1>3. /\ p \in Nat /\ p <= q /\ q <= Len(t) /\ z \in Nat /\ z <= len /\ off <= z
      /\ from + z = q /\ q - p = n /\ len \in Nat
  <2> DEFINE total == Len(t)
  <2>1. total \in Nat /\ to <= total
    BY <1>2
  <2> HIDE DEF total
  <2>2. /\ p \in Nat /\ p <= q /\ q <= total /\ z \in Nat /\ z <= len /\ off <= z
        /\ from + z = q /\ q - p = n /\ len \in Nat
    BY ONLY <1>1, <1>2, <2>1, z = off + n
  <2> QED
    BY ONLY <2>2 DEF total
<1>4. Between(old, off, z) = Between(t, p, q)
  <2>1. Within(from, to, off, z, p, q)
    BY ONLY <1>1, <1>2, <1>3 DEF Within
  <2>2. c.str \in Seq(Chars) /\ old = c.str
    BY <1>2
  <2> HIDE DEF c
  <2> QED
    BY ONLY <1>2, <2>1, <2>2, PartMiddle
<1>5. z \in 0 .. len /\ off \in 0 .. z
  BY ONLY <1>1, <1>3
<1> QED
  BY ONLY <1>2, <1>3, <1>4, <1>5 DEF from, len

(* What is left of a string when a stretch of it goes.                     *)
LEMMA GoneIs ==
  ASSUME NEW s \in Seq(Chars), NEW z \in 0 .. Len(s), NEW a \in 0 .. z, NEW none, none = <<>>,
         NEW str, str = FirstOf(s, a) \o From(s, z)
  PROVE  /\ str = Replaced(s, a, z, none) /\ str \in Seq(Chars)
         /\ Bytes(str) = Bytes(s) - Bytes(Between(s, a, z))
         /\ Bytes(str) \in Nat /\ Bytes(Between(s, a, z)) \in Nat /\ Bytes(s) \in Nat
<1> DEFINE w == Between(s, a, z)
           v == Replaced(s, a, z, none)
<1>1. none \in Seq(Chars) /\ Bytes(none) = 0
  BY ONLY BytesEmpty, none = <<>>
<1>2. a \in 0 .. Len(s)
  OBVIOUS
<1>3. FirstOf(s, a) \in Seq(Chars)
  BY ONLY <1>2, FirstOfIs, s \in Seq(Chars)
<1>4. str = v
  <2>1. FirstOf(s, a) \o none = FirstOf(s, a)
    BY ONLY <1>3, ConcatEmptySeq, none = <<>>
  <2> QED
    BY ONLY <2>1, str = FirstOf(s, a) \o From(s, z) DEF Replaced
<1>5. v \in Seq(Chars) /\ w \in Seq(Chars)
  BY ONLY <1>1, ReplacedIs, MiddleIs, s \in Seq(Chars), z \in 0 .. Len(s), a \in 0 .. z DEF Between
<1>6. Bytes(v) = (Bytes(s) - Bytes(w)) + Bytes(none)
  BY ONLY <1>1, BytesReplaced, s \in Seq(Chars), z \in 0 .. Len(s), a \in 0 .. z DEF Between
<1>7. Bytes(v) \in Nat /\ Bytes(w) \in Nat /\ Bytes(s) \in Nat
  BY ONLY <1>5, BytesIs, s \in Seq(Chars)
<1> HIDE DEF v, w
<1>8. Bytes(v) = Bytes(s) - Bytes(w)
  <2> DEFINE x == Bytes(v)
             y == Bytes(w)
             u == Bytes(s)
  <2>1. x = (u - y) + 0 /\ x \in Nat /\ y \in Nat /\ u \in Nat
    BY ONLY <1>1, <1>6, <1>7
  <2> HIDE DEF x, y, u
  <2>2. x = u - y
    BY ONLY <2>1
  <2> QED
    BY ONLY <2>2 DEF x, y, u
<1> QED
  BY ONLY <1>4, <1>5, <1>7, <1>8 DEF v, w

LEMMA LinkIs ==
  ASSUME NEW nd, NEW r, NEW g, NEW t, Shape(nd, r, g, t), NEW x \in g.nodes, NEW i \in 1 .. g.tall[x]
  PROVE  LET link == nd[x].nexts[i]
         IN  /\ Longer(link, 0) = link
             /\ \A n \in Int : Longer(Longer(link, n), 0) = Longer(link, n)
<1> DEFINE link == nd[x].nexts[i]
           total == Len(t)
<1>1. LinkFor(g, total, x, i, link) /\ total \in Nat /\ \A y \in g.nodes : g.start[y] \in Nat
  <2>1. Linked(nd, g, total) /\ total \in Nat /\ \A y \in g.nodes : g.start[y] \in Nat
    BY ShapeIs
  <2> HIDE DEF total, link
  <2> QED
    BY <2>1 DEF Linked, link
<1>2. \E y : \E k \in Int : link = Link(y, k)
  <2>1. CASE \E y \in g.nodes : NextAt(g, x, i, y) /\ link = Link(y, g.start[y] - g.start[x])
    <3>1. PICK y \in g.nodes : link = Link(y, g.start[y] - g.start[x])
      BY ONLY <2>1
    <3>2. g.start[y] - g.start[x] \in Int
      BY ONLY <1>1, x \in g.nodes, y \in g.nodes
    <3> QED
      BY ONLY <3>1, <3>2
  <2>2. CASE link = Link(NULL, total - g.start[x])
    <3>1. total - g.start[x] \in Int
      BY ONLY <1>1, x \in g.nodes
    <3> QED
      BY ONLY <2>2, <3>1
  <2> QED
    BY ONLY <1>1, <2>1, <2>2 DEF LinkFor
<1> HIDE DEF link
<1>3. PICK y : \E k \in Int : link = Link(y, k)
  BY ONLY <1>2
<1>4. PICK k \in Int : link = Link(y, k)
  BY ONLY <1>3
<1>5. \A n : Longer(link, n) = Link(y, k + n)
  BY ONLY <1>4 DEF Longer, Link
<1>6. \A n, m : Longer(Longer(link, n), m) = Link(y, (k + n) + m)
  BY ONLY <1>5 DEF Longer, Link
<1>7. k + 0 = k /\ \A n \in Int : (k + n) + 0 = k + n
  BY ONLY k \in Int
<1> QED
  BY ONLY <1>4, <1>5, <1>6, <1>7 DEF link

(* TrimNode, in a heap of which the node is edited already.                *)
Trimmed(nd, edited, e, str, n, k) ==
  edited = [x \in Blocks \cup Ropes |->
              IF x = e THEN [str |-> str, num_bytes |-> Bytes(str),
                             nexts |-> [i \in 1 .. k |-> Longer(nd[e].nexts[i], n)]]
              ELSE nd[x]]

Beside(g, r, b, e) == e = b \/ (e # b /\ e # r /\ g.start[e] = g.end[b])
Shortened(nd, edited, g, e, str, d, k, n) ==
  d \in Int /\ d = -n /\ k = g.tall[e] /\ str \in Seq(Chars) /\ Trimmed(nd, edited, e, str, d, k)

LEMMA ShortenIs ==
  ASSUME NEW nd, NEW r \in Ropes, NEW g, NEW t, Shape(nd, r, g, t), Heap(nd),
         NEW b, NEW iter, Over(g, r, b, iter), b \in g.nodes, NEW e \in g.nodes, Beside(g, r, b, e),
         NEW str, NEW d, NEW k, NEW edited, NEW n, Shortened(nd, edited, g, e, str, d, k, n),
         NEW new, new = Shorten(edited, iter, k, n)
  PROVE  /\ Edited(nd, new, g, e, str, d)
         /\ new = [x \in Blocks \cup Ropes |-> new[x]]
         /\ \A x \in (Blocks \cup Ropes) \ g.nodes : new[x] = nd[x]
<1>0. /\ d \in Int /\ d = -n /\ k = g.tall[e] /\ str \in Seq(Chars) /\ Trimmed(nd, edited, e, str, d, k)
      /\ e = b \/ (e # b /\ e # r /\ g.start[e] = g.end[b])
  BY DEF Shortened, Beside
<1> DEFINE D == Blocks \cup Ropes
           total == Len(t)
           links == [i \in DOMAIN iter |->
                       Longer(LinkAt(edited, iter, i), IF i > k THEN -n ELSE 0)]
<1>1. /\ total \in Nat /\ Row(g, r, total)
      /\ \A x \in g.nodes : /\ g.tall[x] \in Nat /\ g.tall[x] <= g.tall[r] /\ g.tall[r] \in Nat
                            /\ Boxed(nd[x], g.tall[x])
  <2>1. /\ total \in Nat /\ Row(g, r, total) /\ g.tall[r] \in Nat
        /\ \A x \in g.nodes : g.tall[x] \in Nat /\ g.tall[x] <= g.tall[r] /\ Cell(nd[x], g.tall[x])
    BY ShapeIs
  <2> HIDE DEF total
  <2> QED
    BY ONLY <2>1, CellIs
<1> HIDE DEF total
<1>2. g.nodes \subseteq D
  BY DEF Shape
<1>3. /\ DOMAIN edited = D /\ \A x \in D \ {e} : edited[x] = nd[x]
      /\ edited[e] = [str |-> str, num_bytes |-> Bytes(str),
                      nexts |-> [i \in 1 .. k |-> Longer(nd[e].nexts[i], d)]]
  BY ONLY <1>2, <1>0, e \in g.nodes DEF Trimmed
<1>4. ASSUME NEW x \in g.nodes PROVE Boxed(edited[x], g.tall[x]) /\ x \in DOMAIN edited
  <2>1. CASE x = e
    <3> DEFINE f == [i \in 1 .. k |-> Longer(nd[e].nexts[i], d)]
    <3>1. f = [i \in 1 .. k |-> f[i]] /\ edited[e] = [str |-> str, num_bytes |-> Bytes(str), nexts |-> f]
      BY ONLY <1>3
    <3> HIDE DEF f
    <3>2. Boxed(edited[e], k)
      <4>1. edited[e] = [str |-> str, num_bytes |-> Bytes(str), nexts |-> [i \in 1 .. k |-> f[i]]]
        BY ONLY <3>1
      <4> QED
        BY ONLY <4>1 DEF Boxed
    <3> QED
      BY ONLY <1>2, <1>3, <2>1, <3>2, <1>0, x \in g.nodes
  <2>2. CASE x # e
    BY ONLY <1>1, <1>2, <1>3, <2>2, x \in g.nodes
  <2> QED
    BY ONLY <2>1, <2>2
<1>5. /\ DOMAIN new = D /\ new = [x \in D |-> new[x]]
      /\ \A x \in D \ g.nodes : new[x] = edited[x]
      /\ \A x \in g.nodes :
           new[x] = [str |-> edited[x].str, num_bytes |-> edited[x].num_bytes,
                     nexts |-> [i \in 1 .. g.tall[x] |->
                        IF LastAt(g, b, i, x) THEN links[i] ELSE edited[x].nexts[i]]]
  <2>1. new = Relink(edited, iter, links)
    BY new = Shorten(edited, iter, k, n) DEF Shorten
  <2> HIDE DEF links
  <2>2. /\ DOMAIN new = DOMAIN edited /\ new = [x \in DOMAIN edited |-> new[x]]
        /\ \A x \in DOMAIN edited \ g.nodes : new[x] = edited[x]
        /\ \A x \in g.nodes :
             new[x] = [str |-> edited[x].str, num_bytes |-> edited[x].num_bytes,
                       nexts |-> [i \in 1 .. g.tall[x] |->
                          IF LastAt(g, b, i, x) THEN links[i] ELSE edited[x].nexts[i]]]
    BY ONLY <1>1, <1>4, <2>1, RelinkIs, Over(g, r, b, iter)
  <2> QED
    BY ONLY <1>3, <2>2
<1>6. ASSUME NEW x \in g.nodes, NEW i \in 1 .. g.tall[x], LastAt(g, b, i, x)
      PROVE  links[i] = Longer(edited[x].nexts[i], IF i > k THEN d ELSE 0)
  <2>1. i \in DOMAIN iter /\ LastAt(g, b, i, iter[i].node)
    <3>1. i \in 1 .. g.tall[r]
      BY ONLY <1>1, x \in g.nodes, i \in 1 .. g.tall[x]
    <3> QED
      BY ONLY <3>1, Over(g, r, b, iter) DEF Over
  <2>2. iter[i].node = x
    BY ONLY <1>1, <1>6, <2>1, LastUnique
  <2> QED
    BY ONLY <2>1, <2>2, <1>0 DEF LinkAt
<1> HIDE DEF links
<1>7. k \in Nat
  BY ONLY <1>1, e \in g.nodes, <1>0
<1>8. ASSUME NEW x \in g.nodes
      PROVE  [i \in 1 .. g.tall[x] |-> IF LastAt(g, b, i, x) THEN links[i] ELSE edited[x].nexts[i]]
               = Stretched(nd, g, e, d, x)
  <2>1. ASSUME NEW i \in 1 .. g.tall[x]
        PROVE  (IF LastAt(g, b, i, x) THEN links[i] ELSE edited[x].nexts[i])
                 = (IF LastAt(g, e, i, x) THEN Longer(nd[x].nexts[i], d) ELSE nd[x].nexts[i])
    <3>0. i \in Nat
      OBVIOUS
    <3>1. /\ Longer(nd[x].nexts[i], 0) = nd[x].nexts[i]
          /\ Longer(Longer(nd[x].nexts[i], d), 0) = Longer(nd[x].nexts[i], d)
      BY ONLY LinkIs, Shape(nd, r, g, t), x \in g.nodes, i \in 1 .. g.tall[x], <1>0
    <3>2. CASE x = e
      <4>1. i \in 1 .. k
        BY ONLY <3>2, i \in 1 .. g.tall[x], <1>0
      <4>2. LastAt(g, e, i, x) /\ ~(i > k)
        <5>1. i <= k
          BY ONLY <1>7, <4>1
        <5>2. ~(i > k)
          BY ONLY <1>7, <4>1
        <5> QED
          BY ONLY <1>1, <3>0, <3>2, <5>1, <5>2, LastSelf, e \in g.nodes, <1>0
      <4>3. edited[e].nexts[i] = Longer(nd[e].nexts[i], d)
        <5> DEFINE f == [j \in 1 .. k |-> Longer(nd[e].nexts[j], d)]
        <5>1. edited[e].nexts = f
          BY ONLY <1>3
        <5>2. f[i] = Longer(nd[e].nexts[i], d)
          BY ONLY <4>1
        <5> QED
          BY ONLY <5>1, <5>2
      <4> QED
        BY ONLY <1>6, <3>1, <3>2, <4>2, <4>3, x \in g.nodes, i \in 1 .. g.tall[x]
    <3>3. CASE x # e
      <4>1. edited[x].nexts[i] = nd[x].nexts[i]
        BY ONLY <1>2, <1>3, <3>3, x \in g.nodes
      <4>2. CASE i <= k
        <5>1. ~LastAt(g, e, i, x)
          BY ONLY <1>1, <3>0, <3>3, <4>2, LastSelf, e \in g.nodes, <1>0
        <5>2. ~(i > k)
          BY ONLY <1>7, <3>0, <4>2
        <5> QED
          BY ONLY <1>6, <3>1, <4>1, <5>1, <5>2, x \in g.nodes, i \in 1 .. g.tall[x]
      <4>3. CASE ~(i <= k)
        <5>1. i > k /\ k < i
          BY ONLY <1>7, <3>0, <4>3
        <5>2. LastAt(g, e, i, x) <=> LastAt(g, b, i, x)
          <6>1. CASE e = b
            BY ONLY <6>1
          <6>2. CASE e # b /\ e # r /\ g.start[e] = g.end[b]
            BY ONLY <1>1, <3>0, <5>1, <6>2, AboveIs, b \in g.nodes, e \in g.nodes, <1>0
          <6> QED
            BY ONLY <6>1, <6>2, <1>0
        <5> QED
          BY ONLY <1>6, <4>1, <5>1, <5>2, x \in g.nodes, i \in 1 .. g.tall[x]
      <4> QED
        BY ONLY <4>2, <4>3
    <3> QED
      BY ONLY <3>2, <3>3
  <2> QED
    BY ONLY <2>1 DEF Stretched
<1>9. new[e] = [str |-> str, num_bytes |-> Bytes(str), nexts |-> Stretched(nd, g, e, d, e)]
  <2>1. edited[e].str = str /\ edited[e].num_bytes = Bytes(str)
    BY ONLY <1>3
  <2> QED
    BY ONLY <1>5, <1>8, <2>1, e \in g.nodes
<1>10. \A x \in g.nodes \ {e} :
         new[x] = [str |-> nd[x].str, num_bytes |-> nd[x].num_bytes,
                   nexts |-> Stretched(nd, g, e, d, x)]
  <2> TAKE x \in g.nodes \ {e}
  <2>1. edited[x] = nd[x]
    BY ONLY <1>2, <1>3, x \in g.nodes \ {e}
  <2> QED
    BY ONLY <1>5, <1>8, <2>1, x \in g.nodes \ {e}
<1>11. Edited(nd, new, g, e, str, d)
  BY ONLY <1>9, <1>10 DEF Edited
<1>12. \A x \in D \ g.nodes : new[x] = nd[x]
  BY ONLY <1>3, <1>5, e \in g.nodes
<1> QED
  BY ONLY <1>5, <1>11, <1>12

LEMMA TrimIs ==
  ASSUME HeapAssumption, NEW at, NEW r \in Ropes, NEW g, NEW t, Shape(at.nd, r, g, t), Heap(at.nd),
         NEW b, NEW p, NEW iter, At(g, r, b, p, iter),
         NEW e, NEW off, NEW n, NEW q, Spot(g, r, b, p, e, off, n, q),
         n < g.end[e] - g.start[e] \/ e = r, NEW none, none = <<>>, NEW w, w = Between(t, p, q)
  PROVE  LET new == TrimNode(at, iter, e, off, n)
             h == Resized(g, e, -n)
         IN  /\ Heap(new.nd) /\ Shape(new.nd, r, h, Replaced(t, p, q, none))
             /\ Kept(at.nd, new.nd, g.nodes, h.nodes) /\ At(h, r, b, p, iter)
             /\ Less(new, at, w)
<1> DEFINE nd == at.nd
           new == TrimNode(at, iter, e, off, n)
           k == g.tall[e]
           z == off + n
           old == nd[e].str
           str == FirstOf(old, off) \o From(old, z)
           gone == Bytes(Between(old, off, z))
           d == -n
           edited == [nd EXCEPT ![e] =
                       [str |-> str, num_bytes |-> @.num_bytes - gone,
                        nexts |-> [i \in DOMAIN @.nexts |-> Longer(@.nexts[i], d)]]]
           h == Resized(g, e, d)
           from == g.start[e]
           to == g.end[e]
           total == Len(t)
<1>1. /\ total \in Nat /\ Row(g, r, total) /\ t \in Seq(Chars)
      /\ \A x \in g.nodes : /\ g.start[x] \in Nat /\ g.end[x] \in Nat /\ g.tall[x] \in Nat
                            /\ nd[x].str \in Seq(Chars) /\ nd[x].num_bytes = Bytes(nd[x].str)
                            /\ Bytes(nd[x].str) <= ROPE_NODE_STR_SIZE
                            /\ DOMAIN nd[x].nexts = 1 .. g.tall[x] /\ Len(nd[x].nexts) = g.tall[x]
  BY ShapeIs
<1>2. /\ Over(g, r, b, iter) /\ b \in g.nodes /\ p \in Nat /\ p <= g.end[b]
      /\ (b = r \/ g.start[b] < p)
  BY ONLY <1>1, AtOver, At(g, r, b, p, iter)
<1>3. /\ e \in g.nodes /\ off \in Nat /\ n \in Nat \ {0} /\ from + off = p
      /\ q = p + n /\ q \in Nat /\ q <= to
      /\ e = b \/ (e # b /\ e # r /\ from = g.end[b] /\ off = 0)
  BY DEF Spot
<1>4. /\ p <= q /\ q <= total /\ z \in 0 .. Len(old) /\ off \in 0 .. z
      /\ old \in Seq(Chars) /\ from + z = q /\ Between(old, off, z) = w /\ q - p = n
  <2>1. old = nd[e].str /\ z = off + n /\ Shape(nd, r, g, t)
    OBVIOUS
  <2> HIDE DEF old, z, nd
  <2> QED
    BY ONLY <2>1, SpotIs, At(g, r, b, p, iter), Spot(g, r, b, p, e, off, n, q),
            w = Between(t, p, q)
<1>5. from \in Nat /\ to \in Nat /\ k \in Nat /\ nd[e].num_bytes = Bytes(old)
      /\ Bytes(old) <= ROPE_NODE_STR_SIZE /\ DOMAIN nd[e].nexts = 1 .. k /\ Len(nd[e].nexts) = k
  BY ONLY <1>1, <1>3
<1>6. /\ str = Replaced(old, off, z, none) /\ str \in Seq(Chars)
      /\ Bytes(str) = Bytes(old) - gone
      /\ Bytes(str) \in Nat /\ gone \in Nat /\ Bytes(old) \in Nat
  <2>1. str = FirstOf(old, off) \o From(old, z)
    OBVIOUS
  <2> HIDE DEF str, old, z
  <2> QED
    BY ONLY <1>4, <2>1, GoneIs, none = <<>>
<1>7. Bytes(str) <= ROPE_NODE_STR_SIZE
  <2> DEFINE x == Bytes(str)
             y == Bytes(old)
  <2>1. x = y - gone /\ x \in Nat /\ y \in Nat /\ gone \in Nat /\ y <= ROPE_NODE_STR_SIZE
        /\ ROPE_NODE_STR_SIZE \in Nat
    BY <1>5, <1>6, RopeAssumption
  <2> HIDE DEF x, y, gone
  <2>2. x <= ROPE_NODE_STR_SIZE
    BY ONLY <2>1
  <2> QED
    BY ONLY <2>2 DEF x
<1>8. new = [nd |-> Shorten(edited, iter, k, n), chars |-> at.chars, bytes |-> at.bytes - gone]
  <2>1. height(nd, e) = k
    BY ONLY <1>5 DEF height
  <2> QED
    BY ONLY <2>1 DEF TrimNode, Between
<1>9. new.nd = Shorten(edited, iter, k, n) /\ new.chars = at.chars /\ new.bytes = at.bytes - gone
  <2> HIDE DEF new, edited, gone, k
  <2> QED
    BY ONLY <1>8
<1>10. Trimmed(nd, edited, e, str, d, k)
  <2> DEFINE D == Blocks \cup Ropes
             f == [i \in 1 .. k |-> Longer(nd[e].nexts[i], d)]
             num == nd[e].num_bytes - gone
  <2>1. nd = [x \in D |-> nd[x]] /\ e \in D
    BY <1>3 DEF Heap, Shape
  <2>2. num = Bytes(str)
    BY ONLY <1>5, <1>6
  <2>3. edited = [nd EXCEPT ![e] = [str |-> str, num_bytes |-> num, nexts |-> f]]
    BY ONLY <1>5
  <2> HIDE DEF f, num, nd, edited, D, str
  <2>4. edited = [x \in D |-> IF x = e THEN [str |-> str, num_bytes |-> num, nexts |-> f] ELSE nd[x]]
    BY ONLY <2>1, <2>3
  <2>5. edited = [x \in D |-> IF x = e THEN [str |-> str, num_bytes |-> Bytes(str), nexts |-> f] ELSE nd[x]]
    BY ONLY <2>2, <2>4
  <2> QED
    BY ONLY <2>5 DEF Trimmed, f, D
<1>11. d \in Int /\ n = -d
  <2> HIDE DEF z
  <2> QED
    BY ONLY <1>3
<1>12. /\ Edited(nd, new.nd, g, e, str, d)
       /\ new.nd = [x \in Blocks \cup Ropes |-> new.nd[x]]
       /\ \A x \in (Blocks \cup Ropes) \ g.nodes : new.nd[x] = nd[x]
  <2> DEFINE nd2 == Shorten(edited, iter, k, n)
  <2>1. /\ e = b \/ (e # b /\ e # r /\ g.start[e] = g.end[b])
        /\ k = g.tall[e] /\ d = -n /\ Shape(nd, r, g, t) /\ Heap(nd)
    BY <1>3
  <2>2. Beside(g, r, b, e) /\ e \in g.nodes
    BY ONLY <1>3, <2>1 DEF Beside
  <2> HIDE DEF nd, str, d, k, edited
  <2>3. Shortened(nd, edited, g, e, str, d, k, n)
    BY ONLY <1>6, <1>10, <1>11, <2>1 DEF Shortened
  <2>4. nd2 = Shorten(edited, iter, k, n)
    OBVIOUS
  <2> HIDE DEF nd2
  <2>5. /\ Edited(nd, nd2, g, e, str, d)
        /\ nd2 = [x \in Blocks \cup Ropes |-> nd2[x]]
        /\ \A x \in (Blocks \cup Ropes) \ g.nodes : nd2[x] = nd[x]
    BY ONLY <1>2, <2>1, <2>2, <2>3, <2>4, ShortenIs, r \in Ropes
  <2> HIDE DEF new
  <2>6. new.nd = nd2
    BY ONLY <1>9, <2>4
  <2> QED
    BY ONLY <2>5, <2>6
<1> HIDE DEF new, edited, gone, str
<1>13. e # r => from < to + d
  <2> HIDE DEF z, from, to
  <2> SUFFICES ASSUME e # r PROVE from < to + d
    OBVIOUS
  <2>1. n < to - from
    BY ONLY e # r, n < g.end[e] - g.start[e] \/ e = r DEF from, to
  <2> QED
    BY ONLY <1>3, <1>5, <2>1
<1>14. Edit(g, r, e, none, p, q, off, z, d)
  <2>1. none \in Seq(Chars) /\ Len(none) = 0
    BY none = <<>>
  <2>2. z \in Nat /\ d = 0 - (q - p)
    <3>1. q - p = n
      BY ONLY <1>4
    <3> QED
      BY ONLY <1>3, <3>1
  <2>3. d = Len(none) - (q - p)
    BY ONLY <2>1, <2>2
  <2> HIDE DEF z, d
  <2> QED
    BY ONLY <1>2, <1>3, <1>4, <1>11, <1>13, <2>1, <2>2, <2>3 DEF Edit
<1>15. Shape(new.nd, r, h, Replaced(t, p, q, none))
  <2> DEFINE nd2 == new.nd
             a == Replaced(nd[e].str, off, z, none)
  <2>1. str = a
    BY ONLY <1>6
  <2>2. Edited(nd, nd2, g, e, str, d)
    BY ONLY <1>12
  <2> HIDE DEF z, d, nd2
  <2>3. Shape(nd2, r, Resized(g, e, d), Replaced(t, p, q, none))
    BY ONLY <1>3, <1>6, <1>7, <1>14, <2>1, <2>2, EditedShape, Shape(at.nd, r, g, t)
  <2> QED
    BY ONLY <2>3 DEF h, nd2
<1>16. h.nodes = g.nodes
  BY DEF Resized
<1>17. Kept(nd, new.nd, g.nodes, h.nodes)
  BY ONLY <1>12, <1>16 DEF Kept
<1>18. Heap(new.nd)
  <2> DEFINE nd2 == new.nd
  <2>1. nd2 = [x \in Blocks \cup Ropes |-> nd2[x]] /\ Kept(nd, nd2, g.nodes, g.nodes)
    BY ONLY <1>12, <1>16, <1>17
  <2> HIDE DEF nd2
  <2>2. Heap(nd2)
    BY ONLY <2>1, HeapKept, HeapAssumption, r \in Ropes, Shape(at.nd, r, g, t), Heap(at.nd)
  <2> QED
    BY ONLY <2>2 DEF nd2
<1> HIDE DEF d, h
<1>19. At(h, r, b, p, iter)
  <2>1. CASE e = b
    <3>1. p <= g.end[b] + d
      <4>1. q <= g.end[b] /\ g.end[b] \in Nat
        BY ONLY <1>1, <1>2, <1>3, <2>1 DEF to
      <4> DEFINE last == g.end[b]
      <4> HIDE DEF last
      <4>2. p <= last + d
        BY ONLY <1>2, <1>3, <1>11, <4>1 DEF last
      <4> QED
        BY ONLY <4>2 DEF last
    <3>2. b # r => g.start[b] < g.end[b] + d
      BY ONLY <1>13, <2>1 DEF from, to
    <3> QED
      BY ONLY <1>1, <1>11, <2>1, <3>1, <3>2, ResizedAt, At(g, r, b, p, iter) DEF h
  <2>2. CASE e # b
    <3>1. g.end[b] < g.end[e]
      <4> DEFINE last == g.end[b]
      <4>1. last = from /\ last \in Nat
        BY ONLY <1>1, <1>2, <1>3, <2>2
      <4> HIDE DEF last
      <4>2. last < to
        <5> HIDE DEF from, to
        <5> QED
          BY ONLY <1>2, <1>3, <1>5, <4>1
      <4> QED
        BY ONLY <4>2 DEF last, to
    <3>2. e # r => g.start[e] < g.end[e] + d
      BY ONLY <1>13 DEF from, to
    <3>3. Steady(g, h, r, b)
      BY ONLY <1>1, <1>2, <1>3, <1>11, <3>1, <3>2, ResizedSteady DEF h
    <3> QED
      BY ONLY <1>1, <3>3, SteadyAt, At(g, r, b, p, iter)
  <2> QED
    BY ONLY <2>1, <2>2
<1>20. Less(new, at, w)
  BY ONLY <1>4, <1>9 DEF Less, gone
<1> QED
  BY ONLY <1>15, <1>17, <1>18, <1>19, <1>20 DEF new, h, d

(* UnlinkNode.                                                             *)
Whole(g, r, e, n) == e # r /\ n = g.end[e] - g.start[e]
Gap(g, h, r, b, e, off, p, q, iter) ==
  At(h, r, b, p, iter) /\ off = 0 /\ e # b /\ p = g.start[e] /\ q = g.end[e] /\ g.end[b] = p /\ h.end[b] = p

LEMMA UnlinkIs ==
  ASSUME HeapAssumption, NEW at, NEW r \in Ropes, NEW g, NEW t, Shape(at.nd, r, g, t), Heap(at.nd),
         NEW b, NEW p, NEW iter, At(g, r, b, p, iter),
         NEW e, NEW off, NEW n, NEW q, Spot(g, r, b, p, e, off, n, q),
         Whole(g, r, e, n), NEW none, none = <<>>, NEW w, w = Between(t, p, q)
  PROVE  LET new == UnlinkNode(at, iter, e, n)
             h == Removed(g, e)
         IN  /\ Heap(new.nd) /\ Shape(new.nd, r, h, Replaced(t, p, q, none))
             /\ Kept(at.nd, new.nd, g.nodes, h.nodes)
             /\ Less(new, at, w) /\ Gap(g, h, r, b, e, off, p, q, iter)
<1> DEFINE nd == at.nd
           D == Blocks \cup Ropes
           new == UnlinkNode(at, iter, e, n)
           k == g.tall[e]
           z == off + n
           old == nd[e].str
           h == Removed(g, e)
           from == g.start[e]
           to == g.end[e]
           total == Len(t)
           links == [i \in DOMAIN iter |->
                       IF i > k THEN Longer(LinkAt(nd, iter, i), -n)
                       ELSE Longer(nd[e].nexts[i], LinkAt(nd, iter, i).skip_size - n)]
           unlinked == Relink(nd, iter, links)
           nd2 == [unlinked EXCEPT ![e] = FreeBlock]
<1>1. /\ total \in Nat /\ Row(g, r, total) /\ t \in Seq(Chars)
      /\ \A x \in g.nodes : /\ g.start[x] \in Nat /\ g.end[x] \in Nat /\ g.tall[x] \in Nat
                            /\ g.tall[x] <= g.tall[r] /\ g.tall[r] \in Nat
                            /\ nd[x].str \in Seq(Chars) /\ nd[x].num_bytes = Bytes(nd[x].str)
                            /\ Len(nd[x].nexts) = g.tall[x]
                            /\ Len(nd[x].str) = g.end[x] - g.start[x]
                            /\ Boxed(nd[x], g.tall[x])
  <2>1. /\ total \in Nat /\ Row(g, r, total) /\ t \in Seq(Chars) /\ g.tall[r] \in Nat
        /\ \A x \in g.nodes : /\ g.start[x] \in Nat /\ g.end[x] \in Nat /\ g.tall[x] \in Nat
                            /\ g.tall[x] <= g.tall[r]
                            /\ nd[x].str \in Seq(Chars) /\ nd[x].num_bytes = Bytes(nd[x].str)
                            /\ Len(nd[x].nexts) = g.tall[x]
                            /\ Len(nd[x].str) = g.end[x] - g.start[x]
                            /\ Cell(nd[x], g.tall[x])
    BY ShapeIs
  <2> HIDE DEF total, nd
  <2>2. \A x \in g.nodes : Boxed(nd[x], g.tall[x])
    BY ONLY <2>1, CellIs
  <2> QED
    BY ONLY <2>1, <2>2
<1>2. /\ Over(g, r, b, iter) /\ b \in g.nodes /\ p \in Nat /\ (b = r \/ g.start[b] < p)
  BY ONLY <1>1, AtOver, At(g, r, b, p, iter)
<1>3. /\ e \in g.nodes /\ off \in Nat /\ n \in Nat \ {0} /\ from + off = p
      /\ q = p + n /\ q \in Nat /\ q <= to
      /\ e = b \/ (e # b /\ e # r /\ from = g.end[b] /\ off = 0)
  BY DEF Spot
<1>4. /\ z \in 0 .. Len(old) /\ off \in 0 .. z /\ old \in Seq(Chars) /\ Between(old, off, z) = w
  <2>1. old = nd[e].str /\ z = off + n /\ Shape(nd, r, g, t)
    OBVIOUS
  <2> HIDE DEF old, z, nd
  <2> QED
    BY ONLY <2>1, SpotIs, At(g, r, b, p, iter), Spot(g, r, b, p, e, off, n, q),
            w = Between(t, p, q)
<1>5. from \in Nat /\ to \in Nat /\ k \in Nat /\ nd[e].num_bytes = Bytes(old)
      /\ Len(nd[e].nexts) = k /\ Len(old) = to - from /\ n = to - from /\ e # r
  BY ONLY <1>1, <1>3, Whole(g, r, e, n) DEF Whole
<1>6. off = 0 /\ p = from /\ q = to
  <2> HIDE DEF from, to
  <2> QED
    BY ONLY <1>3, <1>5
<1>7. e # b /\ from = g.end[b]
  <2>1. CASE e = b
    <3>1. g.start[b] < p /\ p = g.start[b]
      BY ONLY <1>2, <1>5, <1>6, <2>1
    <3> QED
      BY ONLY <1>1, <1>2, <3>1
  <2> QED
    BY ONLY <1>3, <2>1
<1>8. nd = [x \in D |-> nd[x]] /\ g.nodes \subseteq D /\ DOMAIN nd = D
  BY DEF Heap, Shape
<1>9. new = [nd |-> nd2, chars |-> at.chars, bytes |-> at.bytes - nd[e].num_bytes]
  BY ONLY <1>5 DEF UnlinkNode
<1>10. new.nd = nd2 /\ new.chars = at.chars /\ new.bytes = at.bytes - nd[e].num_bytes
  <2> HIDE DEF new, nd2
  <2> QED
    BY ONLY <1>9
<1>11. /\ unlinked = [x \in D |-> unlinked[x]]
       /\ \A x \in D \ g.nodes : unlinked[x] = nd[x]
       /\ \A x \in g.nodes :
            unlinked[x] = [str |-> nd[x].str, num_bytes |-> nd[x].num_bytes,
                           nexts |-> [i \in 1 .. g.tall[x] |->
                              IF LastAt(g, b, i, x) THEN links[i] ELSE nd[x].nexts[i]]]
  <2>1. \A x \in g.nodes : Boxed(nd[x], g.tall[x]) /\ x \in DOMAIN nd
    BY ONLY <1>1, <1>8
  <2> HIDE DEF links, D, total, nd
  <2>2. /\ unlinked = [x \in DOMAIN nd |-> unlinked[x]]
        /\ \A x \in DOMAIN nd \ g.nodes : unlinked[x] = nd[x]
        /\ \A x \in g.nodes :
             unlinked[x] = [str |-> nd[x].str, num_bytes |-> nd[x].num_bytes,
                            nexts |-> [i \in 1 .. g.tall[x] |->
                               IF LastAt(g, b, i, x) THEN links[i] ELSE nd[x].nexts[i]]]
    BY ONLY <1>1, <1>2, <2>1, RelinkIs
  <2> HIDE DEF unlinked
  <2> QED
    BY ONLY <1>8, <2>2
<1> HIDE DEF unlinked
<1>12. /\ nd2 = [x \in D |-> nd2[x]] /\ nd2[e] = FreeBlock
       /\ \A x \in D \ {e} : nd2[x] = unlinked[x]
  BY ONLY <1>3, <1>8, <1>11
<1> HIDE DEF nd2
<1>13. ASSUME NEW x \in g.nodes, NEW i \in 1 .. g.tall[x], LastAt(g, b, i, x)
       PROVE  links[i] = IF i > k THEN Longer(nd[x].nexts[i], -n)
                         ELSE Longer(nd[e].nexts[i], nd[x].nexts[i].skip_size - n)
  <2>1. i \in DOMAIN iter /\ LastAt(g, b, i, iter[i].node)
    <3>1. i \in 1 .. g.tall[r]
      BY ONLY <1>1, x \in g.nodes, i \in 1 .. g.tall[x]
    <3> QED
      BY ONLY <1>2, <3>1 DEF Over
  <2>2. iter[i].node = x
    BY ONLY <1>1, <1>13, <2>1, LastUnique
  <2> QED
    BY ONLY <2>1, <2>2 DEF LinkAt
<1> HIDE DEF links
<1>14. \A x \in g.nodes \ {e} :
         nd2[x] = [str |-> nd[x].str, num_bytes |-> nd[x].num_bytes, nexts |-> Joined(nd, g, b, e, x)]
  <2> TAKE x \in g.nodes \ {e}
  <2>1. ASSUME NEW i \in 1 .. g.tall[x], LastAt(g, b, i, x)
        PROVE  links[i] = IF i <= g.tall[e]
                            THEN Longer(nd[e].nexts[i], nd[x].nexts[i].skip_size - (g.end[e] - g.start[e]))
                            ELSE Longer(nd[x].nexts[i], -(g.end[e] - g.start[e]))
    <3>1. i > k <=> ~(i <= k)
      <4> HIDE DEF k
      <4> QED
        BY ONLY <1>5, i \in 1 .. g.tall[x]
    <3>2. links[i] = IF i <= k THEN Longer(nd[e].nexts[i], nd[x].nexts[i].skip_size - n)
                     ELSE Longer(nd[x].nexts[i], -n)
      BY ONLY <1>13, <2>1, <3>1, x \in g.nodes \ {e}, i \in 1 .. g.tall[x]
    <3> QED
      BY ONLY <3>2, Whole(g, r, e, n) DEF Whole
  <2>2. [i \in 1 .. g.tall[x] |-> IF LastAt(g, b, i, x) THEN links[i] ELSE nd[x].nexts[i]]
          = Joined(nd, g, b, e, x)
    BY ONLY <2>1 DEF Joined
  <2> QED
    BY ONLY <1>8, <1>11, <1>12, <2>2, x \in g.nodes \ {e}
<1>15. Shape(nd2, r, h, Replaced(t, p, q, none))
  <2>1. g.end[b] = g.start[e] /\ p = g.start[e] /\ q = g.end[e]
    BY ONLY <1>6, <1>7
  <2>2. p \in Nat /\ q \in Nat /\ b # e
    BY ONLY <1>2, <1>3, <1>7
  <2>3. Unspliced(nd, nd2, g, b, e)
    BY ONLY <1>14 DEF Unspliced
  <2>4. Shape(nd2, r, Removed(g, e), Replaced(t, p, q, none))
    BY ONLY <1>2, <1>3, <1>5, <2>1, <2>2, <2>3, RemovedShape, Shape(at.nd, r, g, t), none = <<>>
  <2> QED
    BY ONLY <2>4
<1>16. h.nodes = g.nodes \ {e}
  BY DEF Removed
<1>17. Kept(nd, nd2, g.nodes, h.nodes)
  BY ONLY <1>3, <1>11, <1>12, <1>16 DEF Kept
<1>18. Heap(nd2)
  <2> DEFINE B == h.nodes
  <2>1. nd2 = [x \in Blocks \cup Ropes |-> nd2[x]] /\ Kept(nd, nd2, g.nodes, B) /\ B \subseteq g.nodes
    BY ONLY <1>12, <1>16, <1>17
  <2> HIDE DEF B
  <2> QED
    BY ONLY <2>1, HeapKept, HeapAssumption, r \in Ropes, Shape(at.nd, r, g, t), Heap(at.nd)
<1>19. g.end[b] < g.end[e]
  <2>1. from < to
    <3> HIDE DEF from, to
    <3> QED
      BY ONLY <1>3, <1>5
  <2> QED
    BY ONLY <1>7, <2>1
<1> HIDE DEF h
<1>20. Steady(g, h, r, b) /\ h.end[b] = g.end[b]
  BY ONLY <1>1, <1>2, <1>3, <1>5, <1>19, RemovedSteady DEF h
<1>21. At(h, r, b, p, iter)
  BY ONLY <1>1, <1>20, SteadyAt, At(g, r, b, p, iter)
<1>22. Less(new, at, w)
  <2>1. z = Len(old)
    BY ONLY <1>3, <1>5, <1>6
  <2>2. Between(old, 0, Len(old)) = old
    BY ONLY <1>4, SubSeqFull DEF Between
  <2>3. w = old
    BY ONLY <1>4, <1>6, <2>1, <2>2
  <2> QED
    BY ONLY <1>5, <1>10, <2>3 DEF Less
<1>23. Gap(g, h, r, b, e, off, p, q, iter)
  BY ONLY <1>6, <1>7, <1>20, <1>21 DEF Gap, from, to
<1> QED
  BY ONLY <1>10, <1>15, <1>17, <1>18, <1>22, <1>23 DEF new, h

(* One round.  While there is something left to delete the next of it is   *)
(* in the iterator's node, or at the start of the node behind.             *)
Cursor(h, r, b, p, iter, x, off) ==
  \/ x = b /\ off = iter[1].skip_size
  \/ x \in h.nodes \ {r} /\ x # b /\ h.start[x] = h.end[b] /\ h.end[b] = p /\ off = 0
AtEnd(nd, d) == d.offset = skip_size(nd, d.node, 1)
Where(nd, iter, d) == IF AtEnd(nd, d) THEN LinkAt(nd, iter, 1).node ELSE d.node
Offset(nd, d) == IF AtEnd(nd, d) THEN 0 ELSE d.offset
Goes(nd, iter, d) ==
  Minimum(d.length, skip_size(nd, Where(nd, iter, d), 1) - Offset(nd, d))

LEMMA SpotFound ==
  ASSUME HeapAssumption, NEW nd, NEW r \in Ropes, NEW g, NEW t, Shape(nd, r, g, t),
         NEW b, NEW p, NEW iter, At(g, r, b, p, iter), NEW d, Cursor(g, r, b, p, iter, d.node, d.offset),
         d.length \in Nat \ {0}, p + d.length <= Len(t),
         NEW e, e = Where(nd, iter, d), NEW off, off = Offset(nd, d), NEW n, n = Goes(nd, iter, d),
         NEW q, q = p + n
  PROVE  /\ Spot(g, r, b, p, e, off, n, q)
         /\ skip_size(nd, e, 1) = g.end[e] - g.start[e]
         /\ n <= d.length /\ n <= (g.end[e] - g.start[e]) - off
         /\ n = d.length \/ n = (g.end[e] - g.start[e]) - off
         /\ e = b => off = iter[1].skip_size
<1> DEFINE total == Len(t)
           len == d.length
           x == d.node
           here == skip_size(nd, e, 1)
           from == g.start[e]
           to == g.end[e]
           bfrom == g.start[b]
           bto == g.end[b]
<1>1. /\ total \in Nat /\ Row(g, r, total)
      /\ \A y \in g.nodes : g.start[y] \in Nat /\ g.end[y] \in Nat
      /\ \A y \in g.nodes \ {r} : g.start[y] < g.end[y]
  BY ShapeIs
<1>2. /\ b \in g.nodes /\ p \in Nat /\ bfrom <= p /\ p <= bto /\ (b = r \/ bfrom < p)
      /\ iter[1].node = b /\ iter[1].skip_size = p - bfrom
  BY ONLY <1>1, AtOver, At(g, r, b, p, iter)
<1>3. \A y \in g.nodes : skip_size(nd, y, 1) = g.end[y] - g.start[y]
  <2> TAKE y \in g.nodes
  <2> QED
    BY ONLY NextIs, HeapAssumption, r \in Ropes, Shape(nd, r, g, t), y \in g.nodes DEF skip_size
<1>4. len \in Nat \ {0} /\ p + len <= total
  OBVIOUS
<1>5. bfrom \in Nat /\ bto \in Nat
  BY ONLY <1>1, <1>2
<1> HIDE DEF total, len
<1>6. /\ e \in g.nodes /\ off \in Nat /\ from + off = p /\ off < to - from
      /\ (e = b /\ off = iter[1].skip_size) \/ (e # b /\ e # r /\ from = bto /\ off = 0)
  <2>1. CASE x = b /\ d.offset = iter[1].skip_size /\ p = bto
    <3> DEFINE y == nd[b].nexts[1].node
    <3>1. AtEnd(nd, d)
      BY ONLY <1>2, <1>3, <2>1 DEF AtEnd
    <3>2. e = y /\ off = 0
      BY ONLY <1>2, <3>1, e = Where(nd, iter, d), off = Offset(nd, d) DEF Where, Offset, LinkAt
    <3>3. y # NULL
      <4> SUFFICES ASSUME y = NULL PROVE FALSE
        OBVIOUS
      <4>1. bto = total
        BY ONLY <1>2, NextIs, HeapAssumption, r \in Ropes, Shape(nd, r, g, t), y = NULL DEF total
      <4> HIDE DEF bto
      <4> QED
        BY ONLY <1>1, <1>2, <1>4, <2>1, <4>1
    <3>4. y \in g.nodes \ {r} /\ y # b /\ g.start[y] = bto
      BY ONLY <1>2, <3>3, NextIs, HeapAssumption, r \in Ropes, Shape(nd, r, g, t)
    <3> HIDE DEF y, bto
    <3>5. e \in g.nodes \ {r} /\ e # b /\ from = bto /\ from \in Nat /\ to \in Nat /\ from < to
      BY ONLY <1>1, <3>2, <3>4
    <3> HIDE DEF from, to
    <3>6. from + off = p /\ off < to - from /\ off \in Nat
      BY ONLY <1>2, <2>1, <3>2, <3>5
    <3> QED
      BY ONLY <3>2, <3>5, <3>6
  <2>2. CASE x = b /\ d.offset = iter[1].skip_size /\ p # bto
    <3>1. ~AtEnd(nd, d)
      <4>1. AtEnd(nd, d) => p - bfrom = bto - bfrom
        BY ONLY <1>2, <1>3, <2>2 DEF AtEnd
      <4> HIDE DEF bfrom, bto
      <4> QED
        BY ONLY <1>2, <1>5, <2>2, <4>1
    <3>2. e = b /\ off = iter[1].skip_size /\ off = p - bfrom
      BY ONLY <1>2, <2>2, <3>1, e = Where(nd, iter, d), off = Offset(nd, d) DEF Where, Offset
    <3>3. from = bfrom /\ to = bto
      BY ONLY <3>2
    <3> HIDE DEF from, to, bfrom, bto
    <3>4. off \in Nat /\ from + off = p /\ off < to - from
      BY ONLY <1>2, <1>5, <2>2, <3>2, <3>3
    <3> QED
      BY ONLY <1>2, <3>2, <3>4
  <2>3. CASE x \in g.nodes \ {r} /\ x # b /\ g.start[x] = bto /\ bto = p /\ d.offset = 0
    <3> DEFINE xfrom == g.start[x]
               xto == g.end[x]
    <3>1. xfrom < xto /\ xfrom \in Nat /\ xto \in Nat /\ skip_size(nd, x, 1) = xto - xfrom
      BY ONLY <1>1, <1>3, <2>3
    <3>2. ~AtEnd(nd, d)
      <4>1. AtEnd(nd, d) => 0 = xto - xfrom
        BY ONLY <2>3, <3>1 DEF AtEnd
      <4> HIDE DEF xfrom, xto
      <4> QED
        BY ONLY <3>1, <4>1
    <3>3. e = x /\ off = 0
      BY ONLY <2>3, <3>2, e = Where(nd, iter, d), off = Offset(nd, d) DEF Where, Offset
    <3>4. from = xfrom /\ to = xto /\ from = bto /\ bto = p
      BY ONLY <2>3, <3>3
    <3> HIDE DEF from, to, xfrom, xto, bto
    <3>5. off \in Nat /\ from + off = p /\ off < to - from
      BY ONLY <1>2, <3>1, <3>3, <3>4
    <3> QED
      BY ONLY <2>3, <3>3, <3>4, <3>5
  <2> QED
    BY ONLY <2>1, <2>2, <2>3, Cursor(g, r, b, p, iter, d.node, d.offset) DEF Cursor
<1>7. from \in Nat /\ to \in Nat /\ here = to - from
  BY ONLY <1>1, <1>3, <1>6
<1>8. n = Minimum(len, here - off)
  BY ONLY e = Where(nd, iter, d), off = Offset(nd, d), n = Goes(nd, iter, d) DEF Goes, len
<1> HIDE DEF from, to, here, bto
<1>9. /\ n \in Nat \ {0} /\ n <= len /\ n <= (to - from) - off
      /\ n = len \/ n = (to - from) - off
  BY ONLY <1>4, <1>6, <1>7, <1>8 DEF Minimum
<1>10. q \in Nat /\ q <= to
  BY ONLY <1>2, <1>6, <1>7, <1>9, q = p + n
<1>11. Spot(g, r, b, p, e, off, n, q)
  BY ONLY <1>6, <1>9, <1>10, q = p + n DEF Spot, from, to, bto
<1> QED
  BY ONLY <1>6, <1>7, <1>9, <1>11 DEF from, to, here, len

Deleting(nd, r, g, b, p, iter, d, t) ==
  /\ Heap(d.at.nd)
  /\ \E h : /\ Shape(d.at.nd, r, h, t) /\ Kept(nd, d.at.nd, g.nodes, h.nodes)
            /\ At(h, r, b, p, iter)
            /\ d.length # 0 => Cursor(h, r, b, p, iter, d.node, d.offset)
Shorter(d2, d, n) == d2.length = d.length - n

LEMMA DeleteIs ==
  ASSUME HeapAssumption, NEW nd, NEW r \in Ropes, NEW g, Own(g),
         NEW b, NEW p, NEW iter, NEW d, NEW t, Deleting(nd, r, g, b, p, iter, d, t),
         d.length \in Nat \ {0}, p + d.length <= Len(t), NEW none, none = <<>>
  PROVE  LET d2 == Delete(r, iter, d)
         IN  \E n \in 1 .. d.length : \E q : \E w :
               /\ q = p + n /\ w = Between(t, p, q) /\ p \in Nat /\ q \in Nat /\ q <= Len(t)
               /\ Deleting(nd, r, g, b, p, iter, d2, Replaced(t, p, q, none))
               /\ Less(d2.at, d.at, w) /\ Shorter(d2, d, n)
<1> DEFINE nd1 == d.at.nd
           d2 == Delete(r, iter, d)
           e == Where(nd1, iter, d)
           off == Offset(nd1, d)
           n == Goes(nd1, iter, d)
           q == p + n
           w == Between(t, p, q)
           t2 == Replaced(t, p, q, none)
           here == skip_size(nd1, e, 1)
           trims == n < here \/ e = r
           len == d.length
           trim == TrimNode(d.at, iter, e, off, n)
           unlink == UnlinkNode(d.at, iter, e, n)
<1>1. Heap(nd1)
  BY DEF Deleting
<1>2. PICK h : /\ Shape(nd1, r, h, t) /\ Kept(nd, nd1, g.nodes, h.nodes) /\ At(h, r, b, p, iter)
               /\ Cursor(h, r, b, p, iter, d.node, d.offset)
  BY d.length \in Nat \ {0} DEF Deleting
<1> DEFINE from == h.start[e]
           to == h.end[e]
<1>3. /\ Spot(h, r, b, p, e, off, n, q) /\ here = to - from
      /\ n <= len /\ n <= (to - from) - off /\ (n = len \/ n = (to - from) - off)
      /\ (e = b => off = iter[1].skip_size)
  <2>1. q = p + n
    OBVIOUS
  <2> HIDE DEF nd1, q
  <2> QED
    BY ONLY <1>2, <2>1, SpotFound, HeapAssumption, r \in Ropes, d.length \in Nat \ {0},
            p + d.length <= Len(t)
<1>4. /\ e \in h.nodes /\ off \in Nat /\ n \in Nat \ {0} /\ from + off = p
      /\ q \in Nat /\ q <= to
      /\ e = b \/ (e # b /\ e # r /\ from = h.end[b] /\ off = 0)
  BY ONLY <1>3 DEF Spot
<1>5. d2 = [at |-> IF trims THEN trim ELSE unlink,
            node |-> IF trims THEN e ELSE nd1[e].nexts[1].node,
            offset |-> off, length |-> len - n]
  BY d.length \in Nat \ {0} DEF Delete, Where, Offset, Goes, AtEnd
<1> HIDE DEF trim, unlink, d2, trims, e, off, n, here
<1>6. /\ d2.at = (IF trims THEN trim ELSE unlink)
      /\ d2.node = (IF trims THEN e ELSE nd1[e].nexts[1].node)
      /\ d2.offset = off /\ d2.length = len - n
  BY ONLY <1>5
<1>7. /\ Len(t) \in Nat /\ Row(h, r, Len(t)) /\ h.nodes \subseteq Blocks \cup Ropes
      /\ \A x \in h.nodes : h.start[x] \in Nat /\ h.end[x] \in Nat /\ h.end[x] <= Len(t)
      /\ \A x \in h.nodes \ {r} : h.start[x] < h.end[x]
  <2>1. /\ Len(t) \in Nat /\ Row(h, r, Len(t))
        /\ \A x \in h.nodes : h.start[x] \in Nat /\ h.end[x] \in Nat /\ h.end[x] <= Len(t)
        /\ \A x \in h.nodes \ {r} : h.start[x] < h.end[x]
    BY ONLY <1>2, ShapeIs
  <2>2. h.nodes \subseteq Blocks \cup Ropes
    BY <1>2 DEF Shape
  <2> QED
    BY ONLY <2>1, <2>2
<1>8. from \in Nat /\ to \in Nat /\ q <= Len(t)
  <2>1. from \in Nat /\ to \in Nat /\ to <= Len(t)
    BY ONLY <1>4, <1>7
  <2> DEFINE total == Len(t)
  <2>2. total \in Nat /\ to <= total
    BY ONLY <1>7, <2>1
  <2> HIDE DEF total, to, q
  <2>3. q <= total
    BY ONLY <1>4, <2>1, <2>2
  <2> QED
    BY ONLY <2>1, <2>3 DEF total
<1>9. p \in Nat
  BY ONLY <1>2 DEF At
<1> HIDE DEF q, w, len
<1>10. len \in Nat \ {0}
  BY DEF len
<1> HIDE DEF t2
<1>11. w = Between(t, p, q) /\ q = p + n /\ t2 = Replaced(t, p, q, none)
  BY DEF w, q, t2
<1> HIDE DEF nd1
<1>12. ASSUME trims PROVE Deleting(nd, r, g, b, p, iter, d2, t2) /\ Less(d2.at, d.at, w)
  <2> DEFINE k == Resized(h, e, -n)
  <2>1. d2.at = trim /\ d2.node = e
    BY ONLY <1>6, <1>12
  <2>2. n < h.end[e] - h.start[e] \/ e = r
    BY ONLY <1>3, <1>12 DEF trims
  <2>3. /\ Heap(trim.nd) /\ Shape(trim.nd, r, k, Replaced(t, p, q, none))
        /\ Kept(nd1, trim.nd, h.nodes, k.nodes) /\ At(k, r, b, p, iter)
        /\ Less(trim, d.at, w)
    <3>1. Shape(d.at.nd, r, h, t) /\ Heap(d.at.nd)
      BY ONLY <1>1, <1>2 DEF nd1
    <3>2. Spot(h, r, b, p, e, off, n, q)
      BY ONLY <1>3
    <3>3. /\ Heap(trim.nd) /\ Shape(trim.nd, r, k, Replaced(t, p, q, none))
          /\ Kept(d.at.nd, trim.nd, h.nodes, k.nodes) /\ At(k, r, b, p, iter)
          /\ Less(trim, d.at, w)
      BY ONLY ZenonT(60), <1>2, <1>11, <2>2, <3>1, <3>2, TrimIs, HeapAssumption, r \in Ropes, none = <<>>
         DEF trim
    <3> QED
      BY ONLY <3>3 DEF nd1
  <2>4. k.nodes = h.nodes
    BY DEF Resized
  <2> HIDE DEF k
  <2>5. Kept(nd, trim.nd, g.nodes, k.nodes)
    <3>1. g.nodes \subseteq Blocks \cup Ropes
      BY DEF Own
    <3> QED
      BY ONLY <1>2, <1>7, <2>3, <3>1, KeptThen
  <2>6. d2.length # 0 => Cursor(k, r, b, p, iter, d2.node, d2.offset)
    <3> SUFFICES ASSUME d2.length # 0 PROVE Cursor(k, r, b, p, iter, d2.node, d2.offset)
      OBVIOUS
    <3>1. n # len
      BY ONLY <1>4, <1>6, <1>10, d2.length # 0
    <3>2. n = (to - from) - off
      BY ONLY <1>3, <3>1
    <3>3. e = b
      <4> SUFFICES ASSUME e # b PROVE FALSE
        OBVIOUS
      <4>1. e # r /\ off = 0
        BY ONLY <1>4, e # b
      <4>2. n < to - from
        BY ONLY <2>2, <4>1
      <4> HIDE DEF to, from
      <4> QED
        BY ONLY <1>8, <3>2, <4>1, <4>2
    <3> QED
      BY ONLY <1>3, <1>6, <2>1, <3>3 DEF Cursor
  <2>7. Deleting(nd, r, g, b, p, iter, d2, t2) /\ Less(d2.at, d.at, w)
    BY ONLY <1>11, <2>1, <2>3, <2>5, <2>6 DEF Deleting
  <2> QED
    BY ONLY <2>7
<1>13. ASSUME ~trims PROVE Deleting(nd, r, g, b, p, iter, d2, t2) /\ Less(d2.at, d.at, w)
  <2> DEFINE k == Removed(h, e)
             y == nd1[e].nexts[1].node
  <2>1. d2.at = unlink /\ d2.node = y
    BY ONLY <1>6, <1>13
  <2>2. e # r /\ n = h.end[e] - h.start[e]
    <3>1. e # r /\ ~(n < to - from)
      BY ONLY <1>3, <1>13 DEF trims
    <3>2. n = to - from
      <4> HIDE DEF to, from
      <4> QED
        BY ONLY <1>3, <1>4, <1>8, <3>1
    <3> QED
      BY ONLY <3>1, <3>2
  <2>3. /\ Heap(unlink.nd) /\ Shape(unlink.nd, r, k, Replaced(t, p, q, none))
        /\ Kept(nd1, unlink.nd, h.nodes, k.nodes) /\ At(k, r, b, p, iter)
        /\ Less(unlink, d.at, w) /\ k.end[b] = p
        /\ off = 0 /\ e # b /\ p = h.start[e] /\ q = h.end[e] /\ h.end[b] = p
    <3>1. Shape(d.at.nd, r, h, t) /\ Heap(d.at.nd)
      BY ONLY <1>1, <1>2 DEF nd1
    <3>2. Spot(h, r, b, p, e, off, n, q)
      BY ONLY <1>3
    <3>3. /\ Heap(unlink.nd) /\ Shape(unlink.nd, r, k, Replaced(t, p, q, none))
          /\ Kept(d.at.nd, unlink.nd, h.nodes, k.nodes)
          /\ Less(unlink, d.at, w) /\ Gap(h, k, r, b, e, off, p, q, iter)
      <4>1. /\ At(h, r, b, p, iter) /\ Whole(h, r, e, n) /\ w = Between(t, p, q)
        BY ONLY <1>2, <1>11, <2>2 DEF Whole
      <4> HIDE DEF from, to, y
      <4>2. Shape(d.at.nd, r, h, t) /\ Heap(d.at.nd) /\ Spot(h, r, b, p, e, off, n, q)
        BY ONLY <3>1, <3>2
      <4>3. Heap(unlink.nd) /\ Shape(unlink.nd, r, k, Replaced(t, p, q, none))
        BY ONLY <4>1, <4>2, UnlinkIs, HeapAssumption, r \in Ropes, none = <<>> DEF unlink
      <4>4. Kept(d.at.nd, unlink.nd, h.nodes, k.nodes) /\ Less(unlink, d.at, w)
        BY ONLY <4>1, <4>2, UnlinkIs, HeapAssumption, r \in Ropes, none = <<>> DEF unlink
      <4>5. Gap(h, k, r, b, e, off, p, q, iter)
        BY ONLY <4>1, <4>2, UnlinkIs, HeapAssumption, r \in Ropes, none = <<>> DEF unlink
      <4> HIDE DEF k
      <4> QED
        BY ONLY <4>3, <4>4, <4>5
    <3> QED
      BY ONLY <3>3 DEF nd1, Gap
  <2>4. k.nodes = h.nodes \ {e}
    BY DEF Removed
  <2>5. \A x \in k.nodes : h.end[x] > h.end[e] => k.start[x] = h.start[x] - (h.end[e] - h.start[e])
    BY ONLY <1>4, <1>7, RemovedIs
  <2> HIDE DEF k
  <2>6. Kept(nd, unlink.nd, g.nodes, k.nodes)
    <3>1. g.nodes \subseteq Blocks \cup Ropes
      BY DEF Own
    <3> QED
      BY ONLY <1>2, <1>7, <2>3, <3>1, KeptThen
  <2>7. d2.length # 0 => Cursor(k, r, b, p, iter, d2.node, d2.offset)
    <3> SUFFICES ASSUME d2.length # 0 PROVE Cursor(k, r, b, p, iter, d2.node, d2.offset)
      OBVIOUS
    <3>1. n < len
      BY ONLY <1>3, <1>4, <1>6, <1>10, d2.length # 0
    <3>2. to # Len(t)
      <4> DEFINE total == Len(t)
      <4>1. total \in Nat /\ p + len <= total /\ q = to
        BY ONLY <1>7, <2>3, p + d.length <= Len(t) DEF len
      <4> HIDE DEF total, to
      <4>2. to # total
        BY ONLY <1>4, <1>8, <1>9, <1>10, <1>11, <3>1, <4>1
      <4> QED
        BY ONLY <4>2 DEF total
    <3>3. y # NULL
      BY ONLY <1>2, <1>4, <3>2, NextIs, HeapAssumption, r \in Ropes
    <3>4. y \in h.nodes \ {r} /\ y # e /\ h.start[y] = to
      BY ONLY <1>2, <1>4, <3>3, NextIs, HeapAssumption, r \in Ropes
    <3> HIDE DEF y
    <3> DEFINE yfrom == h.start[y]
               yto == h.end[y]
               bto == h.end[b]
    <3>5. yfrom \in Nat /\ yto \in Nat /\ yfrom < yto /\ yfrom = to /\ from = p /\ bto = p
          /\ n = to - from
      BY ONLY <1>7, <2>2, <2>3, <3>4
    <3>6. y \in k.nodes /\ (yto > to => k.start[y] = yfrom - (to - from))
      BY ONLY <2>4, <2>5, <3>4
    <3>7. y # b
      <4>1. y = b => yto = bto
        OBVIOUS
      <4> HIDE DEF yfrom, yto, bto, to, from
      <4> QED
        BY ONLY <1>4, <1>8, <1>9, <3>5, <4>1
    <3>8. k.start[y] = p
      <4> HIDE DEF yfrom, yto, bto, to, from
      <4>1. yto > to /\ yfrom - (to - from) = p
        BY ONLY <1>8, <1>9, <3>5
      <4> QED
        BY ONLY <3>6, <4>1
    <3> QED
      BY ONLY <1>6, <2>1, <2>3, <3>4, <3>6, <3>7, <3>8 DEF Cursor
  <2>8. Deleting(nd, r, g, b, p, iter, d2, t2) /\ Less(d2.at, d.at, w)
    BY ONLY <1>11, <2>1, <2>3, <2>6, <2>7 DEF Deleting
  <2> QED
    BY ONLY <2>8
<1>14. n \in 1 .. len /\ Shorter(d2, d, n)
  <2>1. n \in 1 .. len
    BY ONLY <1>3, <1>4, <1>10
  <2> QED
    BY ONLY <1>6, <2>1 DEF Shorter, len
<1>15. /\ q = p + n /\ w = Between(t, p, q) /\ p \in Nat /\ q \in Nat /\ q <= Len(t)
       /\ Deleting(nd, r, g, b, p, iter, d2, Replaced(t, p, q, none)) /\ Less(d2.at, d.at, w)
  BY ONLY <1>4, <1>8, <1>9, <1>11, <1>12, <1>13
<1> QED
  BY ONLY <1>14, <1>15 DEF d2, len

(* What is deleted in two rounds.                                          *)
Cutting(t, p, q, u) ==
  /\ u \in Seq(Chars) /\ Len(u) = Len(t) - (q - p)
  /\ \A i \in 1 .. p : u[i] = t[i]
  /\ \A j \in 1 .. Len(t) - q : u[p + j] = t[q + j]

LEMMA DeletedIs ==
  ASSUME NEW t \in Seq(Chars), NEW p \in Nat, NEW q \in Nat, p <= q, q <= Len(t), NEW none, none = <<>>
  PROVE  Cutting(t, p, q, Replaced(t, p, q, none))
<1> DEFINE a == FirstOf(t, p)
           b == From(t, q)
           u == Replaced(t, p, q, none)
           total == Len(t)
<1>1. total \in Nat /\ q <= total
  OBVIOUS
<1>2. q \in 0 .. Len(t) /\ p \in 0 .. Len(t)
  OBVIOUS
<1>3. a \in Seq(Chars) /\ Len(a) = p /\ \A i \in 1 .. p : a[i] = t[i]
  BY ONLY <1>2, FirstOfIs, t \in Seq(Chars)
<1>4. b \in Seq(Chars) /\ Len(b) = total - q /\ \A i \in 1 .. total - q : b[i] = t[q + i]
  BY ONLY <1>2, FromIs, t \in Seq(Chars)
<1>5. u = (a \o none) \o b
  BY DEF Replaced
<1> HIDE DEF a, b, total, u
<1>6. u = a \o b
  BY ONLY <1>3, <1>5, ConcatEmptySeq, none = <<>>
<1> DEFINE c == a \o b
<1>7. /\ c \in Seq(Chars) /\ Len(c) = Len(a) + Len(b)
      /\ \A i \in 1 .. Len(a) : c[i] = a[i]
      /\ \A j \in 1 .. Len(b) : c[Len(a) + j] = b[j]
  <2>1. a \in Seq(Chars) /\ b \in Seq(Chars)
    BY ONLY <1>3, <1>4
  <2> QED
    BY ONLY <2>1, ConcatIs
<1>8. p + (total - q) = total - (q - p)
  BY ONLY <1>1, p \in Nat, q \in Nat
<1> HIDE DEF c
<1>9. Cutting(t, p, q, c)
  BY ONLY <1>3, <1>4, <1>7, <1>8 DEF Cutting, total
<1>10. c = u
  BY ONLY <1>6 DEF c
<1> QED
  BY ONLY <1>9, <1>10 DEF u

Further(t, p, q, z, m) ==
  /\ p \in Nat /\ q \in Nat /\ p <= q /\ z <= Len(t)
  /\ \E n \in Nat : z = q + n /\ m = p + n
Fewer(u, v, w) == Bytes(v) = Bytes(u) - Bytes(w)

LEMMA DeletedTwice ==
  ASSUME NEW t \in Seq(Chars), NEW p, NEW q, NEW z, NEW m, Further(t, p, q, z, m),
         NEW none, none = <<>>
  PROVE  LET u == Replaced(t, p, q, none)
             v == Replaced(t, p, z, none)
         IN  Replaced(u, p, m, none) = v /\ Fewer(u, v, Between(u, p, m))
<1> DEFINE u == Replaced(t, p, q, none)
           total == Len(t)
           v == Replaced(u, p, m, none)
           s == Replaced(t, p, z, none)
<1>0. PICK n \in Nat : z = q + n /\ m = p + n
  BY DEF Further
<1>1. total \in Nat /\ z <= total /\ none \in Seq(Chars) /\ Len(none) = 0
      /\ p \in Nat /\ q \in Nat /\ p <= q
  BY EmptySeq DEF Further
<1>2. q \in 0 .. total /\ p \in 0 .. q /\ z \in 0 .. total /\ p \in 0 .. z /\ m \in Nat /\ p <= m
  <2> HIDE DEF total
  <2> QED
    BY ONLY <1>1, <1>0
<1>3. /\ u \in Seq(Chars) /\ Len(u) = total - (q - p)
      /\ \A i \in 1 .. p : u[i] = t[i]
      /\ \A j \in 1 .. total - q : u[p + j] = t[q + j]
  <2>1. p <= q /\ q <= total /\ q \in Nat
    BY ONLY <1>1, <1>2
  <2>2. Cutting(t, p, q, u)
    BY ONLY <2>1, <1>1, DeletedIs, t \in Seq(Chars), none = <<>>
  <2> HIDE DEF u
  <2> QED
    BY ONLY <2>2 DEF Cutting, total
<1> DEFINE some == Len(u)
<1>4. some \in Nat /\ m \in 0 .. some /\ p \in 0 .. m
  <2>1. some = total - (q - p)
    BY ONLY <1>3
  <2> HIDE DEF total, some
  <2> QED
    BY ONLY <1>1, <1>2, <2>1, <1>0
<1>5. /\ v \in Seq(Chars) /\ Len(v) = some - n
      /\ \A i \in 1 .. p : v[i] = u[i]
      /\ \A j \in 1 .. some - m : v[p + j] = u[m + j]
  <2>1. /\ v \in Seq(Chars) /\ Len(v) = some - (m - p)
        /\ \A i \in 1 .. p : v[i] = u[i]
        /\ \A j \in 1 .. some - m : v[p + j] = u[m + j]
    <3>1. u \in Seq(Chars) /\ p <= m /\ m <= Len(u) /\ m \in Nat
      BY ONLY <1>2, <1>3, <1>4
    <3> HIDE DEF u
    <3>2. Cutting(u, p, m, v)
      BY ONLY <1>1, <3>1, DeletedIs, none = <<>>
    <3> HIDE DEF v
    <3> QED
      BY ONLY <3>2 DEF Cutting, some
  <2> HIDE DEF some, v, u
  <2>2. m - p = n
    BY ONLY <1>2, <1>0
  <2> QED
    BY ONLY <2>1, <2>2
<1>6. /\ s \in Seq(Chars) /\ Len(s) = total - (z - p)
      /\ \A i \in 1 .. p : s[i] = t[i]
      /\ \A j \in 1 .. total - z : s[p + j] = t[z + j]
  <2>1. p <= z /\ z <= total /\ z \in Nat
    BY ONLY <1>1, <1>2
  <2>2. Cutting(t, p, z, s)
    BY ONLY <2>1, <1>1, DeletedIs, t \in Seq(Chars), none = <<>>
  <2> HIDE DEF s
  <2> QED
    BY ONLY <2>2 DEF Cutting, total
<1>7. v = s
  <2> DEFINE lv == Len(v)
             ls == Len(s)
  <2>1. /\ lv = some - n /\ ls = total - (z - p) /\ some = total - (q - p)
    BY ONLY <1>3, <1>5, <1>6
  <2>2. lv = ls
    <3> HIDE DEF lv, ls, some, total
    <3> QED
      BY ONLY <1>1, <1>2, <2>1, <1>0
  <2>3. ASSUME NEW i \in 1 .. lv PROVE v[i] = s[i]
    <3> HIDE DEF total, some, v, s, u
    <3>1. i \in Nat /\ i >= 1 /\ i <= total - (z - p)
      <4> HIDE DEF lv, ls
      <4> QED
        BY ONLY <1>1, <1>2, <2>1, <2>2, i \in 1 .. lv
    <3>2. CASE i <= p
      <4>1. i \in 1 .. p
        BY ONLY <1>2, <3>1, <3>2
      <4> QED
        BY ONLY <1>3, <1>5, <1>6, <4>1
    <3>3. CASE ~(i <= p)
      <4> DEFINE j == i - p
      <4>1. /\ i = p + j /\ j \in 1 .. some - m /\ j \in 1 .. total - z
            /\ n + j \in 1 .. total - q /\ m + j = p + (n + j) /\ q + (n + j) = z + j
        BY ONLY <1>1, <1>2, <1>4, <2>1, <3>1, <3>3, <1>0
      <4> HIDE DEF j
      <4>2. v[p + j] = u[m + j] /\ s[p + j] = t[z + j]
        BY ONLY <1>5, <1>6, <4>1
      <4>3. u[p + (n + j)] = t[q + (n + j)]
        BY ONLY <1>3, <4>1
      <4> QED
        BY ONLY <4>1, <4>2, <4>3
    <3> QED
      BY ONLY <3>2, <3>3
  <2> HIDE DEF v, s
  <2> QED
    BY ONLY <1>5, <1>6, <2>2, <2>3, SameSequence DEF lv, ls
<1>8. Bytes(s) = Bytes(u) - Bytes(Between(u, p, m)) /\ Bytes(u) \in Nat
  <2>1. Bytes(v) = (Bytes(u) - Bytes(SubSeq(u, p + 1, m))) + Bytes(none)
    BY ONLY <1>1, <1>3, <1>4, BytesReplaced
  <2>2. Bytes(none) = 0
    BY BytesEmpty
  <2>3. Bytes(u) \in Nat
    BY ONLY <1>3, BytesIs
  <2>4. Bytes(SubSeq(u, p + 1, m)) \in Nat
    <3>1. SubSeq(u, p + 1, m) \in Seq(Chars)
      BY ONLY <1>3, <1>4, MiddleIs
    <3> QED
      BY ONLY <3>1, BytesIs
  <2> HIDE DEF u, v, s
  <2> QED
    BY ONLY <1>7, <2>1, <2>2, <2>3, <2>4 DEF Between
<1> QED
  BY ONLY <1>7, <1>8 DEF Fewer

(* The loop of rope_del_at_iter, from the first round to the last.         *)
Opens(at) == at = [nd |-> at.nd, chars |-> at.chars, bytes |-> at.bytes]
Sofar(nd, r, g, b, p, iter, at, t, q, len, none, d) ==
  /\ d.length \in Nat /\ d.length <= len /\ d.at.chars = at.chars - len
  /\ \E z, u : /\ z + d.length = q /\ z \in Nat /\ u = Replaced(t, p, z, none)
               /\ Deleting(nd, r, g, b, p, iter, d, u) /\ d.at.bytes = Bytes(u)

LEMMA SofarNext ==
  ASSUME HeapAssumption, NEW nd, NEW r \in Ropes, NEW g, Own(g), NEW b, NEW p \in Nat, NEW iter,
         NEW at, NEW t \in Seq(Chars), NEW len \in Nat, NEW q, q = p + len, q <= Len(t),
         NEW none, none = <<>>, NEW d, Sofar(nd, r, g, b, p, iter, at, t, q, len, none, d),
         d.length # 0, NEW d2, d2 = Delete(r, iter, d)
  PROVE  Sofar(nd, r, g, b, p, iter, at, t, q, len, none, d2) /\ d2.length < d.length
<1>1. d.length \in Nat /\ d.length <= len /\ d.at.chars = at.chars - len
  BY DEF Sofar
<1>2. PICK z, u : /\ z + d.length = q /\ z \in Nat /\ u = Replaced(t, p, z, none)
                  /\ Deleting(nd, r, g, b, p, iter, d, u) /\ d.at.bytes = Bytes(u)
  BY DEF Sofar
<1> DEFINE k == d.length
           total == Len(t)
<1>3. p <= z /\ z <= total /\ total \in Nat /\ k \in Nat \ {0} /\ q \in Nat
  <2>1. total \in Nat /\ k \in Nat /\ k # 0 /\ z + k = q /\ k <= len /\ q <= total
    BY <1>1, <1>2
  <2> HIDE DEF total, k
  <2> QED
    BY ONLY <1>2, <2>1, p \in Nat, len \in Nat, q = p + len
<1>4. /\ u \in Seq(Chars) /\ Len(u) = total - (z - p)
  <2>1. Cutting(t, p, z, u)
    BY ONLY <1>2, <1>3, DeletedIs, t \in Seq(Chars), p \in Nat, none = <<>>
  <2> QED
    BY ONLY <2>1 DEF Cutting
<1>5. p + k <= Len(u)
  <2> DEFINE some == Len(u)
  <2>1. some = total - (z - p) /\ z + k = q /\ q <= total
    BY ONLY <1>2, <1>4, q <= Len(t)
  <2> HIDE DEF some, total, k
  <2>2. p + k <= some
    BY ONLY <1>2, <1>3, <2>1, p \in Nat
  <2> QED
    BY ONLY <2>2 DEF some
<1>6. PICK n \in 1 .. k : \E m, w :
        /\ m = p + n /\ w = Between(u, p, m) /\ p \in Nat /\ m \in Nat /\ m <= Len(u)
        /\ Deleting(nd, r, g, b, p, iter, d2, Replaced(u, p, m, none))
        /\ Less(d2.at, d.at, w) /\ Shorter(d2, d, n)
  BY ONLY <1>2, <1>3, <1>5, DeleteIs, HeapAssumption, r \in Ropes, Own(g), none = <<>>,
          d2 = Delete(r, iter, d)
<1>7. PICK m, w :
        /\ m = p + n /\ w = Between(u, p, m) /\ p \in Nat /\ m \in Nat /\ m <= Len(u)
        /\ Deleting(nd, r, g, b, p, iter, d2, Replaced(u, p, m, none))
        /\ Less(d2.at, d.at, w) /\ Shorter(d2, d, n)
  BY ONLY <1>6
<1>8. d2.length = k - n
  BY ONLY <1>7 DEF Shorter
<1> DEFINE z2 == z + n
           u2 == Replaced(t, p, z2, none)
           k2 == d2.length
<1>9. n \in Nat /\ k2 = k - n /\ k2 \in Nat /\ k2 < k /\ z2 + k2 = q /\ z2 <= total /\ z2 \in Nat
      /\ k2 <= len
  <2>1. n \in 1 .. k /\ k2 = k - n /\ z + k = q /\ k <= len /\ q <= total
    BY ONLY <1>1, <1>2, <1>6, <1>8, q <= Len(t)
  <2> HIDE DEF k, k2, total
  <2> QED
    BY ONLY <1>2, <1>3, <2>1, len \in Nat
<1>10. Replaced(u, p, m, none) = u2 /\ Bytes(u2) = Bytes(u) - Bytes(Between(u, p, m))
  <2> DEFINE v == Replaced(t, p, z, none)
  <2>1. Further(t, p, z, z2, m)
    BY ONLY <1>2, <1>3, <1>7, <1>9, p \in Nat DEF Further
  <2> HIDE DEF z2
  <2>2. Replaced(v, p, m, none) = u2 /\ Fewer(v, u2, Between(v, p, m))
    BY ONLY <2>1, DeletedTwice, t \in Seq(Chars), none = <<>>
  <2>3. v = u
    BY ONLY <1>2
  <2> HIDE DEF v, u2
  <2> QED
    BY ONLY <2>2, <2>3 DEF Fewer
<1>11. d2.at.chars = at.chars - len /\ d2.at.bytes = Bytes(u2)
  BY ONLY <1>1, <1>2, <1>7, <1>10 DEF Less
<1>12. Deleting(nd, r, g, b, p, iter, d2, u2)
  BY ONLY <1>7, <1>10
<1> HIDE DEF z2
<1> QED
  BY ONLY <1>9, <1>11, <1>12 DEF Sofar

Left(new, at, n, u) == new.chars = at.chars - n /\ new.bytes = Bytes(u)

LEMMA DelIs ==
  ASSUME HeapAssumption, NEW at, Opens(at), NEW r \in Ropes, NEW g, NEW t, Shape(at.nd, r, g, t),
         Heap(at.nd), at.bytes = Bytes(t), Own(g), NEW b, NEW p, NEW iter, At(g, r, b, p, iter),
         NEW len \in Nat, NEW q, q = p + len, q <= Len(t), NEW none, none = <<>>
  PROVE  LET new == rope_del_at_iter(r, at, iter, len)
             u == Replaced(t, p, q, none)
         IN  Done(at.nd, r, g, new.nd, u) /\ Left(new, at, len, u)
<1> DEFINE nd == at.nd
           chars == at.chars - len
           first == [at |-> [at EXCEPT !.chars = @ - len], node |-> iter[1].node,
                     offset |-> iter[1].skip_size, length |-> len]
           Is(f) == f = [i \in 0 .. len |-> IF i = 0 THEN first ELSE Delete(r, iter, f[i - 1])]
           run == CHOOSE f : Is(f)
           loop == [of |-> "delete", r |-> r, iter |-> iter]
           u == Replaced(t, p, q, none)
           Good(d) == Sofar(nd, r, g, b, p, iter, at, t, q, len, none, d)
           S == {i \in 0 .. len : Good(run[i]) /\ run[i].length <= len - i}
<1>1. /\ t \in Seq(Chars) /\ Row(g, r, Len(t)) /\ Len(t) \in Nat
      /\ \A x \in g.nodes : g.end[x] \in Nat /\ g.end[x] <= Len(t)
  BY ONLY ShapeIs, Shape(at.nd, r, g, t)
<1>2. p \in Nat /\ b \in g.nodes /\ iter[1].node = b
  BY ONLY <1>1, AtOver, At(g, r, b, p, iter)
<1>3. Is(run)
  <2>1. PICK f : Runs(f, loop, len, first)
    BY ONLY RoundsExist, len \in Nat
  <2>2. \A i, x : Round(loop, i, x) = Delete(r, iter, x)
    BY DEF Round
  <2>3. Is(f)
    BY ONLY <2>1, <2>2 DEF Runs
  <2> HIDE DEF Is
  <2> QED
    BY <2>3
<1>4. rope_del_at_iter(r, at, iter, len) = run[len].at
  BY DEF rope_del_at_iter, Loop
<1>5. run[0] = first /\ \A i \in 1 .. len : run[i] = Delete(r, iter, run[i - 1])
  <2>1. 0 \in 0 .. len /\ \A i \in 1 .. len : i \in 0 .. len /\ i # 0
    OBVIOUS
  <2> HIDE DEF run, first
  <2> QED
    BY ONLY <1>3, <2>1
<1>6. Good(first) /\ first.length = len
  <2> DEFINE d == first
  <2>1. [at EXCEPT !.chars = @ - len] = [nd |-> nd, chars |-> chars, bytes |-> at.bytes]
    <3> DEFINE a == at.nd
               c == at.chars
               y == at.bytes
    <3>1. at = [nd |-> a, chars |-> c, bytes |-> y]
      BY DEF Opens
    <3> HIDE DEF a, c, y
    <3>2. [at EXCEPT !.chars = @ - len] = [nd |-> a, chars |-> c - len, bytes |-> y]
      BY ONLY <3>1
    <3> QED
      BY ONLY <3>2 DEF a, c, y
  <2> HIDE DEF chars, nd
  <2>2. /\ d.at.nd = nd /\ d.at.chars = chars /\ d.at.bytes = at.bytes
        /\ d.node = iter[1].node /\ d.offset = iter[1].skip_size /\ d.length = len
    BY ONLY <2>1
  <2> HIDE DEF d
  <2>3. Replaced(t, p, p, none) = t
    <3>1. p \in 0 .. Len(t)
      <4> DEFINE total == Len(t)
      <4>1. total \in Nat /\ q <= total
        BY ONLY <1>1, q <= Len(t)
      <4> HIDE DEF total
      <4>2. p \in 0 .. total
        BY ONLY <1>2, <4>1, len \in Nat, q = p + len
      <4> QED
        BY ONLY <4>2 DEF total
    <3> QED
      BY ONLY <1>1, <3>1, ReplacedNone, none = <<>>
  <2>4. Deleting(nd, r, g, b, p, iter, d, t)
    <3>1. Kept(nd, nd, g.nodes, g.nodes)
      BY ONLY DEF Kept
    <3>2. Cursor(g, r, b, p, iter, d.node, d.offset)
      BY ONLY <1>2, <2>2 DEF Cursor
    <3>3. Shape(nd, r, g, t) /\ Heap(nd)
      BY Shape(at.nd, r, g, t), Heap(at.nd) DEF nd
    <3> QED
      BY ONLY <2>2, <3>1, <3>2, <3>3, At(g, r, b, p, iter) DEF Deleting
  <2>5. p + d.length = q
    BY ONLY <2>2, q = p + len
  <2>6. d.length \in Nat /\ d.length <= len
    BY ONLY <2>2, len \in Nat
  <2>7. d.at.chars = at.chars - len /\ d.at.bytes = Bytes(t)
    BY ONLY <2>2, at.bytes = Bytes(t) DEF chars
  <2>8. Good(d)
    BY ONLY <1>2, <2>3, <2>4, <2>5, <2>6, <2>7 DEF Sofar
  <2> QED
    BY ONLY <2>2, <2>8 DEF d
<1> HIDE DEF run, first
<1>7. 0 \in S
  <2>1. 0 \in 0 .. len /\ len <= len - 0
    BY ONLY len \in Nat
  <2> HIDE DEF Good
  <2> QED
    BY ONLY <1>5, <1>6, <2>1
<1>8. ASSUME NEW i \in 1 .. len, i - 1 \in S PROVE i \in S
  <2> DEFINE x == run[i - 1]
             y == run[i]
             k == x.length
             l == y.length
  <2>1. Good(x) /\ k <= len - (i - 1) /\ i \in Nat /\ i \in 0 .. len
    BY <1>8
  <2>2. y = Delete(r, iter, x)
    BY ONLY <1>5, i \in 1 .. len
  <2>3. k \in Nat
    BY ONLY <2>1 DEF Sofar
  <2>4. Good(y) /\ l <= len - i
    <3> HIDE DEF x, y
    <3>1. CASE k = 0
      <4>1. y = x
        BY ONLY <2>2, <3>1 DEF Delete
      <4>2. l = 0
        BY ONLY <3>1, <4>1
      <4> HIDE DEF l
      <4>3. l <= len - i
        BY ONLY <4>2, i \in 1 .. len, len \in Nat
      <4> QED
        BY ONLY <2>1, <4>1, <4>3
    <3>2. CASE k # 0
      <4>1. Good(y) /\ l < k
        BY ONLY <1>1, <1>2, <2>1, <2>2, <3>2, SofarNext, HeapAssumption, r \in Ropes, Own(g),
                len \in Nat, q = p + len, q <= Len(t), none = <<>>
      <4>2. l \in Nat
        BY ONLY <4>1 DEF Sofar
      <4> HIDE DEF l, k
      <4>3. l <= len - i
        BY ONLY <2>1, <2>3, <4>1, <4>2, len \in Nat
      <4> QED
        BY ONLY <4>1, <4>3
    <3> QED
      BY ONLY <3>1, <3>2
  <2> HIDE DEF Good
  <2> QED
    BY ONLY <2>1, <2>4
<1>9. len \in S
  <2> HIDE DEF S
  <2>1. \A i \in 0 .. len : i \in S
    BY ONLY <1>7, <1>8, Upward, len \in Nat
  <2> QED
    BY ONLY <2>1, len \in Nat
<1> DEFINE last == run[len]
<1>10. Good(last) /\ last.length = 0
  <2>1. Good(last) /\ last.length <= len - len
    BY ONLY <1>9
  <2>2. last.length \in Nat
    BY ONLY <2>1 DEF Sofar
  <2> DEFINE l == last.length
  <2>3. l \in Nat /\ l <= len - len
    BY ONLY <2>1, <2>2
  <2> HIDE DEF l
  <2>4. l = 0
    BY ONLY <2>3, len \in Nat
  <2> QED
    BY ONLY <2>1, <2>4 DEF l
<1> HIDE DEF last
<1>11. PICK z, v : /\ z + last.length = q /\ z \in Nat /\ v = Replaced(t, p, z, none)
                   /\ Deleting(nd, r, g, b, p, iter, last, v) /\ last.at.bytes = Bytes(v)
  BY ONLY <1>10 DEF Sofar
<1>12. z = q
  BY ONLY <1>10, <1>11
<1>13. v = u
  BY ONLY <1>11, <1>12
<1>14. last.at.chars = at.chars - len
  BY ONLY <1>10 DEF Sofar
<1>15. Done(nd, r, g, last.at.nd, u)
  BY ONLY <1>11, <1>13 DEF Deleting, Done
<1> HIDE DEF u
<1> QED
  BY ONLY <1>4, <1>11, <1>13, <1>14, <1>15 DEF Left, last, u

-----------------------------------------------------------------------------
(* The nodes behind a node and the text from a node on, for any heap.      *)
Used(nd) == {x \in Blocks \cup Ropes : nd[x] # FreeBlock}
NextOf(nd, x) == nd[x].nexts[1].node
BehindBy(f, nd, x) ==
  IF NextOf(nd, x) = NULL THEN {} ELSE {NextOf(nd, x)} \cup f[NextOf(nd, x)]
WrittenBy(f, nd, x) == IF NextOf(nd, x) = NULL THEN <<>> ELSE f[NextOf(nd, x)]
IsBehind(f, nd) == f = [x \in Used(nd) |-> BehindBy(f, nd, x)]
IsWritten(f, nd) == f = [x \in Used(nd) |-> nd[x].str \o WrittenBy(f, nd, x)]
BehindIn(nd) == CHOOSE f : IsBehind(f, nd)
WrittenIn(nd) == CHOOSE f : IsWritten(f, nd)

LEMMA Reads == Behind = BehindIn(node) /\ Written = WrittenIn(node) /\ Allocated = Used(node)
BY DEF Behind, BehindIn, Written, WrittenIn, IsBehind, IsWritten, Allocated, Used,
       BehindBy, WrittenBy, NextOf

LEMMA ReadsNext ==
  Behind' = BehindIn(node') /\ Written' = WrittenIn(node') /\ Allocated' = Used(node')
BY DEF Behind, BehindIn, Written, WrittenIn, IsBehind, IsWritten, Allocated, Used,
       BehindBy, WrittenBy, NextOf

(* What holds of the last node of a rope, and of a node when it holds of   *)
(* the next, holds of each.                                                *)
LEMMA Backward ==
  ASSUME HeapAssumption, NEW nd, NEW r \in Ropes, NEW g, NEW t, Shape(nd, r, g, t), NEW P,
         \A x \in g.nodes : LET next == nd[x].nexts[1].node
                            IN  (next # NULL => next \in P) => x \in P
  PROVE  \A x \in g.nodes : x \in P
<1> DEFINE total == Len(t)
           S == {k \in 0 .. total : \A x \in g.nodes : g.end[x] + k >= total => x \in P}
<1>1. /\ total \in Nat
      /\ \A x \in g.nodes : g.end[x] \in Nat /\ g.end[x] <= total /\ g.start[x] \in Nat
      /\ \A x \in g.nodes \ {r} : g.start[x] < g.end[x]
  BY ONLY ShapeIs, Shape(nd, r, g, t)
<1>2. ASSUME NEW x \in g.nodes, nd[x].nexts[1].node # NULL
      PROVE  nd[x].nexts[1].node \in g.nodes /\ g.end[x] < g.end[nd[x].nexts[1].node]
  <2> DEFINE y == nd[x].nexts[1].node
             from == g.start[y]
             to == g.end[y]
             here == g.end[x]
  <2>1. y \in g.nodes \ {r} /\ from = here
    BY ONLY <1>2, NextIs, HeapAssumption, r \in Ropes, Shape(nd, r, g, t)
  <2>2. from < to
    BY ONLY <1>1, <2>1
  <2> HIDE DEF from, to, here
  <2>3. here < to
    BY ONLY <2>1, <2>2
  <2> QED
    BY ONLY <2>1, <2>3 DEF here, to
<1> HIDE DEF total
<1>3. 0 \in S
  <2>1. ASSUME NEW x \in g.nodes, g.end[x] + 0 >= total PROVE x \in P
    <3> DEFINE here == g.end[x]
               y == nd[x].nexts[1].node
               to == g.end[y]
    <3>1. here + 0 >= total /\ here \in Nat /\ here <= total
      BY ONLY <1>1, <2>1
    <3>2. y # NULL => FALSE
      <4> SUFFICES ASSUME y # NULL PROVE FALSE
        OBVIOUS
      <4>1. y \in g.nodes /\ here < to
        BY ONLY <1>2, y # NULL, x \in g.nodes
      <4>2. to \in Nat /\ to <= total
        BY ONLY <1>1, <4>1
      <4> HIDE DEF here, to
      <4> QED
        BY ONLY <1>1, <3>1, <4>1, <4>2
    <3> QED
      BY <3>2
  <2>2. 0 \in 0 .. total
    BY ONLY <1>1
  <2> QED
    BY ONLY <2>1, <2>2
<1>4. ASSUME NEW k \in 1 .. total, k - 1 \in S PROVE k \in S
  <2>1. ASSUME NEW x \in g.nodes, g.end[x] + k >= total PROVE x \in P
    <3> DEFINE here == g.end[x]
               y == nd[x].nexts[1].node
               to == g.end[y]
    <3>1. here + k >= total /\ here \in Nat
      BY ONLY <1>1, <2>1
    <3>2. y # NULL => y \in P
      <4> SUFFICES ASSUME y # NULL PROVE y \in P
        OBVIOUS
      <4>1. y \in g.nodes /\ here < to
        BY ONLY <1>2, y # NULL, x \in g.nodes
      <4>2. to \in Nat
        BY ONLY <1>1, <4>1
      <4>3. to + (k - 1) >= total
        <5> HIDE DEF here, to
        <5> QED
          BY ONLY <1>1, <3>1, <4>1, <4>2, k \in 1 .. total
      <4> QED
        BY ONLY <1>4, <4>1, <4>3
    <3> QED
      BY <3>2
  <2>2. k \in 0 .. total
    BY ONLY <1>1, k \in 1 .. total
  <2> QED
    BY ONLY <2>1, <2>2
<1>5. total \in S
  <2> HIDE DEF S
  <2>1. \A k \in 0 .. total : k \in S
    BY ONLY <1>1, <1>3, <1>4, Upward
  <2> QED
    BY ONLY <1>1, <2>1
<1>6. ASSUME NEW x \in g.nodes PROVE x \in P
  <2> DEFINE here == g.end[x]
  <2>1. here \in Nat
    BY ONLY <1>1
  <2> HIDE DEF here
  <2>2. here + total >= total
    BY ONLY <1>1, <2>1
  <2> QED
    BY ONLY <1>5, <2>2 DEF here
<1> QED
  BY ONLY <1>6

(* What is behind a node and written from it on, in its rope's shape.      *)
After(g, x) == {y \in g.nodes : g.end[x] < g.end[y]}

BehindRest(nd, g, x, rest) ==
  /\ NextOf(nd, x) = NULL => rest = {}
  /\ NextOf(nd, x) # NULL => rest = {NextOf(nd, x)} \cup After(g, NextOf(nd, x))
WrittenRest(nd, g, t, x, rest) ==
  /\ NextOf(nd, x) = NULL => rest = <<>>
  /\ NextOf(nd, x) # NULL => rest = From(t, g.start[NextOf(nd, x)])

LEMMA BehindStep ==
  ASSUME HeapAssumption, NEW nd, NEW r \in Ropes, NEW g, NEW t, Shape(nd, r, g, t),
         NEW x \in g.nodes, NEW rest, BehindRest(nd, g, x, rest)
  PROVE  After(g, x) = rest
<1> DEFINE next == nd[x].nexts[1].node
           after(z) == {y \in g.nodes : g.end[z] < g.end[y]}
<1>1. /\ \A z \in g.nodes : g.start[z] \in Nat /\ g.end[z] \in Nat
      /\ \A z \in g.nodes \ {r} : g.start[z] < g.end[z]
      /\ Row(g, r, Len(t)) /\ Len(t) \in Nat
  BY ONLY ShapeIs, Shape(nd, r, g, t)
<1>2. CASE next = NULL
  <2>1. \A z \in g.nodes : g.end[z] <= g.end[x]
    BY ONLY <1>2, NextIs, HeapAssumption, r \in Ropes, Shape(nd, r, g, t), x \in g.nodes
  <2>2. \A z \in g.nodes : ~(g.end[x] < g.end[z])
    BY ONLY <1>1, <2>1, x \in g.nodes
  <2>3. after(x) = {} /\ rest = {}
    BY <1>2, <2>2 DEF NextOf, BehindRest
  <2> QED
    BY ONLY <2>3 DEF After
<1>3. CASE next # NULL
  <2>1. next \in g.nodes \ {r} /\ g.start[next] = g.end[x]
    BY ONLY <1>3, NextIs, HeapAssumption, r \in Ropes, Shape(nd, r, g, t), x \in g.nodes
  <2> HIDE DEF next
  <2>2. g.end[x] < g.end[next]
    BY ONLY <1>1, <2>1
  <2>3. ASSUME NEW y \in g.nodes
        PROVE  g.end[x] < g.end[y] <=> y = next \/ g.end[next] < g.end[y]
    <3>1. CASE y = next
      BY ONLY <2>2, <3>1
    <3>2. CASE y # next
      <4>1. g.end[y] <= g.start[next] \/ g.end[next] <= g.start[y]
        BY ONLY <1>1, <2>1, <3>2, y \in g.nodes DEF Row
      <4>2. g.start[y] <= g.end[y] /\ g.end[y] # g.end[next]
        <5>1. g.end[y] # g.end[next]
          BY ONLY <1>1, <2>1, <3>2, RowOrder, y \in g.nodes
        <5> QED
          BY ONLY <1>1, <5>1, y \in g.nodes DEF Row
      <4> DEFINE a == g.end[y]
                 b == g.start[y]
                 c == g.end[next]
                 d == g.start[next]
                 e == g.end[x]
      <4>3. /\ a \in Nat /\ b \in Nat /\ c \in Nat /\ d \in Nat /\ e \in Nat /\ d = e /\ e < c
            /\ (a <= d \/ c <= b) /\ b <= a /\ a # c
        BY ONLY <1>1, <2>1, <2>2, <4>1, <4>2, x \in g.nodes, y \in g.nodes
      <4> HIDE DEF a, b, c, d, e
      <4>4. e < a <=> c < a
        BY ONLY <4>3
      <4> QED
        BY ONLY <3>2, <4>4 DEF a, c, e
    <3> QED
      BY ONLY <3>1, <3>2
  <2>4. after(x) = {next} \cup after(next)
    BY ONLY <2>1, <2>3
  <2>5. rest = {next} \cup After(g, next)
    BY <1>3 DEF NextOf, next, BehindRest
  <2> QED
    BY ONLY <2>4, <2>5 DEF After
<1> QED
  BY ONLY <1>2, <1>3

LEMMA WrittenStep ==
  ASSUME HeapAssumption, NEW nd, NEW r \in Ropes, NEW g, NEW t, Shape(nd, r, g, t),
         NEW x \in g.nodes, NEW rest, WrittenRest(nd, g, t, x, rest)
  PROVE  From(t, g.start[x]) = nd[x].str \o rest
<1> DEFINE next == nd[x].nexts[1].node
           from == g.start[x]
           to == g.end[x]
           str == nd[x].str
           total == Len(t)
           a == From(t, from)
           b == From(t, to)
<1>1. /\ t \in Seq(Chars) /\ total \in Nat /\ from \in Nat /\ to \in Nat /\ from <= to /\ to <= total
      /\ str \in Seq(Chars) /\ Len(str) = to - from /\ Part(nd[x], t, from, to)
  BY ONLY ShapeIs, Shape(nd, r, g, t), x \in g.nodes
<1>2. rest = b
  <2>1. CASE next = NULL
    <3>1. to = Len(t)
      BY ONLY <2>1, NextIs, HeapAssumption, r \in Ropes, Shape(nd, r, g, t), x \in g.nodes
    <3>2. b = <<>>
      BY ONLY <1>1, <3>1, SubSeqEmpty DEF From
    <3>3. rest = <<>>
      BY <2>1 DEF NextOf, WrittenRest
    <3> QED
      BY ONLY <3>2, <3>3
  <2>2. CASE next # NULL
    <3>1. g.start[next] = to
      BY ONLY <2>2, NextIs, HeapAssumption, r \in Ropes, Shape(nd, r, g, t), x \in g.nodes
    <3>2. rest = From(t, g.start[next])
      BY <2>2 DEF NextOf, WrittenRest
    <3> QED
      BY ONLY <3>1, <3>2
  <2> QED
    BY ONLY <2>1, <2>2
<1> HIDE DEF from, to, str, total
<1>3. from \in 0 .. total /\ to \in 0 .. total
  BY ONLY <1>1
<1>4. a \in Seq(Chars) /\ Len(a) = total - from /\ \A i \in 1 .. total - from : a[i] = t[from + i]
  BY ONLY <1>1, <1>3, FromIs DEF total
<1>5. b \in Seq(Chars) /\ Len(b) = total - to /\ \A i \in 1 .. total - to : b[i] = t[to + i]
  BY ONLY <1>1, <1>3, FromIs DEF total
<1> HIDE DEF a, b
<1> DEFINE c == str \o b
<1>6. /\ c \in Seq(Chars) /\ Len(c) = Len(str) + Len(b)
      /\ \A i \in 1 .. Len(str) : c[i] = str[i]
      /\ \A i \in 1 .. Len(b) : c[Len(str) + i] = b[i]
  <2>1. str \in Seq(Chars) /\ b \in Seq(Chars)
    BY ONLY <1>1, <1>5
  <2> QED
    BY ONLY <2>1, ConcatIs
<1> HIDE DEF c
<1>7. Len(c) = total - from
  BY ONLY <1>1, <1>5, <1>6
<1>8. \A i \in 1 .. to - from : str[i] = t[from + i]
  BY ONLY <1>1 DEF Part, str
<1>9. ASSUME NEW i \in 1 .. total - from PROVE a[i] = c[i]
  <2>1. CASE i <= to - from
    <3>1. i \in 1 .. to - from
      BY ONLY <1>1, <2>1, i \in 1 .. total - from
    <3> QED
      BY ONLY <1>1, <1>4, <1>6, <1>8, <3>1, i \in 1 .. total - from
  <2>2. CASE ~(i <= to - from)
    <3> DEFINE j == i - (to - from)
    <3>1. j \in 1 .. total - to /\ i = (to - from) + j /\ from + i = to + j
      BY ONLY <1>1, <2>2, i \in 1 .. total - from
    <3> HIDE DEF j
    <3> QED
      BY ONLY <1>1, <1>4, <1>5, <1>6, <3>1, i \in 1 .. total - from
  <2> QED
    BY ONLY <2>1, <2>2
<1>10. a = c
  <2>1. Len(a) = Len(c) /\ \A i \in 1 .. Len(a) : a[i] = c[i]
    BY ONLY <1>4, <1>7, <1>9
  <2> QED
    BY ONLY <1>4, <1>6, <2>1, SameSequence
<1> QED
  BY ONLY <1>2, <1>10 DEF a, c, from, str

-----------------------------------------------------------------------------
(* The ropes of a program: each one that is alive has a shape of its own,  *)
(* and every block that is allocated is a node of one of them.             *)
Fine(nd, lay, txt) ==
  /\ Heap(nd)
  /\ \A r \in Ropes : nd[r] # FreeBlock => Shape(nd, r, lay[r], txt[r])
  /\ \A r \in Ropes : nd[r] = FreeBlock => txt[r] = NoRope
  /\ \A r, s \in Ropes : r # s /\ nd[r] # FreeBlock /\ nd[s] # FreeBlock =>
       lay[r].nodes \cap lay[s].nodes = {}
  /\ \A x \in Blocks : nd[x] # FreeBlock =>
       \E r \in Ropes : nd[r] # FreeBlock /\ x \in lay[r].nodes
  /\ txt = [r \in Ropes |-> txt[r]]

Belongs(nd, lay, r, x) == r \in Ropes /\ nd[r] # FreeBlock /\ x \in lay[r].nodes

LEMMA FineIs ==
  ASSUME HeapAssumption, NEW nd, NEW lay, NEW txt, Fine(nd, lay, txt)
  PROVE  /\ \A x \in Used(nd) : \E r : Belongs(nd, lay, r, x)
         /\ \A r \in Ropes : nd[r] # FreeBlock => lay[r].nodes \subseteq Used(nd)
         /\ \A x, r, s : Belongs(nd, lay, r, x) /\ Belongs(nd, lay, s, x) => r = s
<1>1. ASSUME NEW x \in Used(nd)
      PROVE  \E r : Belongs(nd, lay, r, x)
  <2>1. x \in Blocks \cup Ropes /\ nd[x] # FreeBlock
    BY DEF Used
  <2>2. CASE x \in Ropes
    <3>1. Shape(nd, x, lay[x], txt[x])
      BY <2>1, <2>2 DEF Fine
    <3>2. x \in lay[x].nodes
      BY ONLY <3>1, ShapeIs
    <3> QED
      BY ONLY <2>1, <2>2, <3>2 DEF Belongs
  <2>3. CASE x \in Blocks
    BY <2>1, <2>3 DEF Fine, Belongs
  <2> QED
    BY ONLY <2>1, <2>2, <2>3
<1>2. ASSUME NEW r \in Ropes, nd[r] # FreeBlock PROVE lay[r].nodes \subseteq Used(nd)
  <2> DEFINE g == lay[r]
  <2>1. Shape(nd, r, g, txt[r])
    BY <1>2 DEF Fine
  <2>2. ASSUME NEW x \in g.nodes PROVE x \in Used(nd)
    <3>1. g.tall[x] \in Nat /\ Cell(nd[x], g.tall[x]) /\ r \in g.nodes
          /\ \A y \in g.nodes \ {r} : y \in Blocks
      BY ONLY <2>1, ShapeIs, x \in g.nodes
    <3>2. Boxed(nd[x], g.tall[x])
      BY ONLY <3>1, CellIs
    <3>3. nd[x] # FreeBlock
      BY ONLY <3>2, HeapAssumption DEF HeapAssumption
    <3>4. x \in Blocks \cup Ropes
      BY ONLY <3>1, x \in g.nodes, r \in Ropes
    <3> QED
      BY ONLY <3>3, <3>4 DEF Used
  <2> QED
    BY ONLY <2>2
<1>3. ASSUME NEW x, NEW r, NEW s, Belongs(nd, lay, r, x), Belongs(nd, lay, s, x) PROVE r = s
  <2>1. /\ r \in Ropes /\ s \in Ropes /\ nd[r] # FreeBlock /\ nd[s] # FreeBlock
        /\ x \in lay[r].nodes /\ x \in lay[s].nodes
    BY ONLY <1>3 DEF Belongs
  <2>2. r # s => lay[r].nodes \cap lay[s].nodes = {}
    BY ONLY <2>1, Fine(nd, lay, txt) DEF Fine
  <2> QED
    BY ONLY <2>1, <2>2
<1> QED
  BY ONLY <1>1, <1>2, <1>3

LEMMA Reached ==
  ASSUME HeapAssumption, NEW nd, NEW lay, NEW txt, Fine(nd, lay, txt),
         NEW r \in Ropes, nd[r] # FreeBlock
  PROVE  \A x \in lay[r].nodes :
           /\ x \in Used(nd)
           /\ BehindIn(nd)[x] = After(lay[r], x)
           /\ WrittenIn(nd)[x] = From(txt[r], lay[r].start[x])
<1> DEFINE Of(x) == CHOOSE s : Belongs(nd, lay, s, x)
           next(x) == NextOf(nd, x)
<1>1. /\ \A x \in Used(nd) : \E s : Belongs(nd, lay, s, x)
      /\ \A s \in Ropes : nd[s] # FreeBlock => lay[s].nodes \subseteq Used(nd)
      /\ \A x, s, q : Belongs(nd, lay, s, x) /\ Belongs(nd, lay, q, x) => s = q
  BY ONLY FineIs, HeapAssumption, Fine(nd, lay, txt)
<1>2. \A s, x : Belongs(nd, lay, s, x) =>
        /\ Shape(nd, s, lay[s], txt[s]) /\ x \in Used(nd) /\ s \in Ropes /\ x \in lay[s].nodes
  BY ONLY <1>1, Fine(nd, lay, txt) DEF Fine, Belongs
<1>3. /\ \A x \in Used(nd) : Belongs(nd, lay, Of(x), x)
      /\ \A s, x : Belongs(nd, lay, s, x) => Of(x) = s
  <2>1. \A x \in Used(nd) : Belongs(nd, lay, Of(x), x)
    BY ONLY <1>1
  <2> HIDE DEF Of
  <2> QED
    BY ONLY <1>1, <1>2, <2>1
<1> HIDE DEF Of
<1>4. ASSUME NEW s, NEW x, Belongs(nd, lay, s, x), next(x) # NULL
      PROVE  Belongs(nd, lay, s, next(x)) /\ next(x) \in Used(nd) /\ Of(next(x)) = s
  <2>1. Shape(nd, s, lay[s], txt[s]) /\ s \in Ropes /\ x \in lay[s].nodes
    BY ONLY <1>2, <1>4
  <2>2. next(x) \in lay[s].nodes
    BY ONLY <1>4, <2>1, NextIs, HeapAssumption DEF NextOf
  <2>3. Belongs(nd, lay, s, next(x))
    BY ONLY <1>4, <2>2 DEF Belongs
  <2> QED
    BY ONLY <1>2, <1>3, <2>3
<1> HIDE DEF next
<1>5. IsBehind(BehindIn(nd), nd)
  <2> DEFINE Val(x) == After(lay[Of(x)], x)
             f == [x \in Used(nd) |-> Val(x)]
  <2>1. ASSUME NEW x \in Used(nd) PROVE Val(x) = BehindBy(f, nd, x)
    <3> DEFINE s == Of(x)
               rest == BehindBy(f, nd, x)
    <3>1. Belongs(nd, lay, s, x)
      BY ONLY <1>3, x \in Used(nd)
    <3>2. Shape(nd, s, lay[s], txt[s]) /\ s \in Ropes /\ x \in lay[s].nodes
      BY ONLY <1>2, <3>1
    <3>3. NextOf(nd, x) = NULL => rest = {}
      BY ONLY DEF BehindBy
    <3>4. ASSUME NextOf(nd, x) # NULL
          PROVE  rest = {NextOf(nd, x)} \cup After(lay[s], NextOf(nd, x))
      <4>1. next(x) \in Used(nd) /\ Of(next(x)) = s
        BY ONLY <1>4, <3>1, <3>4 DEF next
      <4>2. f[next(x)] = After(lay[s], next(x))
        BY ONLY <4>1
      <4> HIDE DEF f
      <4> QED
        BY ONLY <3>4, <4>2 DEF BehindBy, next
    <3> HIDE DEF s, rest
    <3>5. After(lay[s], x) = rest
      <4>1. BehindRest(nd, lay[s], x, rest)
        BY ONLY <3>3, <3>4 DEF BehindRest
      <4> QED
        BY ONLY <3>2, <4>1, BehindStep, HeapAssumption
    <3> QED
      BY ONLY <3>5 DEF s, rest
  <2>2. f = [x \in Used(nd) |-> Val(x)]
    OBVIOUS
  <2> HIDE DEF f, Val
  <2>3. IsBehind(f, nd)
    BY ONLY <2>1, <2>2 DEF IsBehind
  <2> QED
    BY ONLY <2>3 DEF BehindIn
<1>6. IsWritten(WrittenIn(nd), nd)
  <2> DEFINE Val(x) == From(txt[Of(x)], lay[Of(x)].start[x])
             f == [x \in Used(nd) |-> Val(x)]
  <2>1. ASSUME NEW x \in Used(nd) PROVE Val(x) = nd[x].str \o WrittenBy(f, nd, x)
    <3> DEFINE s == Of(x)
               rest == WrittenBy(f, nd, x)
    <3>1. Belongs(nd, lay, s, x)
      BY ONLY <1>3, x \in Used(nd)
    <3>2. Shape(nd, s, lay[s], txt[s]) /\ s \in Ropes /\ x \in lay[s].nodes
      BY ONLY <1>2, <3>1
    <3>3. NextOf(nd, x) = NULL => rest = <<>>
      BY ONLY DEF WrittenBy
    <3>4. ASSUME NextOf(nd, x) # NULL
          PROVE  rest = From(txt[s], lay[s].start[NextOf(nd, x)])
      <4>1. next(x) \in Used(nd) /\ Of(next(x)) = s
        BY ONLY <1>4, <3>1, <3>4 DEF next
      <4>2. f[next(x)] = From(txt[s], lay[s].start[next(x)])
        BY ONLY <4>1
      <4> HIDE DEF f
      <4> QED
        BY ONLY <3>4, <4>2 DEF WrittenBy, next
    <3> HIDE DEF s, rest
    <3>5. From(txt[s], lay[s].start[x]) = nd[x].str \o rest
      <4> DEFINE g == lay[s]
                 t == txt[s]
      <4>1. WrittenRest(nd, g, t, x, rest)
        BY ONLY <3>3, <3>4 DEF WrittenRest
      <4>2. Shape(nd, s, g, t) /\ s \in Ropes /\ x \in g.nodes
        BY ONLY <3>2
      <4> HIDE DEF g, t
      <4>3. From(t, g.start[x]) = nd[x].str \o rest
        BY ONLY <4>1, <4>2, WrittenStep, HeapAssumption
      <4> QED
        BY ONLY <4>3 DEF g, t
    <3> QED
      BY ONLY <3>5 DEF s, rest
  <2>2. f = [x \in Used(nd) |-> Val(x)]
    OBVIOUS
  <2> HIDE DEF f, Val
  <2>3. IsWritten(f, nd)
    BY ONLY <2>1, <2>2 DEF IsWritten
  <2> QED
    BY ONLY <2>3 DEF WrittenIn
<1> DEFINE g == lay[r]
           t == txt[r]
           B == BehindIn(nd)
           W == WrittenIn(nd)
           P == {x \in g.nodes : B[x] = After(g, x) /\ W[x] = From(t, g.start[x])}
<1>7. Shape(nd, r, g, t) /\ \A x \in g.nodes : x \in Used(nd)
  BY ONLY <1>1, Fine(nd, lay, txt), r \in Ropes, nd[r] # FreeBlock DEF Fine
<1> HIDE DEF g, t, B, W
<1>8. \A x \in Used(nd) : B[x] = BehindBy(B, nd, x)
  <2>1. B = [x \in Used(nd) |-> BehindBy(B, nd, x)]
    BY ONLY <1>5 DEF IsBehind, B
  <2> QED
    BY ONLY <2>1
<1>9. \A x \in Used(nd) : W[x] = nd[x].str \o WrittenBy(W, nd, x)
  <2>1. W = [x \in Used(nd) |-> nd[x].str \o WrittenBy(W, nd, x)]
    BY ONLY <1>6 DEF IsWritten, W
  <2> QED
    BY ONLY <2>1
<1>10. ASSUME NEW x \in g.nodes, nd[x].nexts[1].node # NULL => nd[x].nexts[1].node \in P
       PROVE  x \in P
  <2>1. NextOf(nd, x) # NULL =>
          /\ B[NextOf(nd, x)] = After(g, NextOf(nd, x))
          /\ W[NextOf(nd, x)] = From(t, g.start[NextOf(nd, x)])
    BY ONLY <1>10 DEF NextOf
  <2> DEFINE b == BehindBy(B, nd, x)
             w == WrittenBy(W, nd, x)
  <2>2. BehindRest(nd, g, x, b)
    BY ONLY <2>1 DEF BehindBy, BehindRest
  <2>3. WrittenRest(nd, g, t, x, w)
    BY ONLY <2>1 DEF WrittenBy, WrittenRest
  <2> HIDE DEF b, w
  <2>4. After(g, x) = b
    BY ONLY <1>7, <2>2, BehindStep, HeapAssumption, r \in Ropes, x \in g.nodes
  <2>5. From(t, g.start[x]) = nd[x].str \o w
    BY ONLY <1>7, <2>3, WrittenStep, HeapAssumption, r \in Ropes, x \in g.nodes
  <2>6. x \in Used(nd)
    BY ONLY <1>7, x \in g.nodes
  <2> QED
    BY ONLY <1>8, <1>9, <2>4, <2>5, <2>6, x \in g.nodes DEF b, w
<1>11. \A x \in g.nodes : x \in P
  <2> HIDE DEF P
  <2> QED
    BY ONLY <1>7, <1>10, Backward, HeapAssumption, r \in Ropes
<1> QED
  BY ONLY <1>7, <1>11 DEF g, t, B, W

(* One rope comes, goes or changes, and keeps to its own nodes and free    *)
(* blocks.                                                                 *)
Held(nd, lay, r, old) == old = IF nd[r] # FreeBlock THEN lay[r].nodes ELSE {r}
Holds(nd2, r, h, t2, new) ==
  \/ Shape(nd2, r, h, t2) /\ new = h.nodes
  \/ t2 = NoRope /\ new = {}

LEMMA FineChanged ==
  ASSUME HeapAssumption, NEW nd, NEW lay, NEW txt, Fine(nd, lay, txt), NEW r \in Ropes,
         NEW old, Held(nd, lay, r, old), NEW nd2, Heap(nd2), NEW new, Kept(nd, nd2, old, new),
         NEW h, NEW t2, Holds(nd2, r, h, t2, new)
  PROVE  \E lay2 : Fine(nd2, lay2, [txt EXCEPT ![r] = t2])
<1> DEFINE D == Blocks \cup Ropes
           lay2 == [s \in Ropes |-> IF s = r THEN h ELSE lay[s]]
           txt2 == [txt EXCEPT ![r] = t2]
<1>1. /\ \A s \in Ropes : nd[s] # FreeBlock => lay[s].nodes \subseteq Used(nd)
      /\ \A x, s, q : Belongs(nd, lay, s, x) /\ Belongs(nd, lay, q, x) => s = q
  BY ONLY FineIs, HeapAssumption, Fine(nd, lay, txt)
<1>2. /\ \A s \in Ropes : nd[s] # FreeBlock => Shape(nd, s, lay[s], txt[s])
      /\ \A s \in Ropes : nd[s] = FreeBlock => txt[s] = NoRope
      /\ txt = [s \in Ropes |-> txt[s]]
  BY ONLY Fine(nd, lay, txt) DEF Fine
<1>3. Ropes \cap Blocks = {}
  BY ONLY HeapAssumption DEF HeapAssumption
<1>4. old \ {r} \subseteq Blocks /\ r \in old
  <2>1. CASE nd[r] # FreeBlock
    <3> DEFINE g == lay[r]
    <3>1. Shape(nd, r, g, txt[r])
      BY ONLY <1>2, <2>1, r \in Ropes
    <3> HIDE DEF g
    <3>2. r \in g.nodes /\ \A x \in g.nodes \ {r} : x \in Blocks
      BY ONLY <3>1, ShapeIs
    <3>3. old = g.nodes
      BY ONLY <2>1, Held(nd, lay, r, old) DEF Held, g
    <3> QED
      BY ONLY <3>2, <3>3
  <2>2. CASE nd[r] = FreeBlock
    BY ONLY <2>2, Held(nd, lay, r, old) DEF Held
  <2> QED
    BY ONLY <2>1, <2>2
<1>5. /\ \A x \in D \ (old \cup new) : nd2[x] = nd[x]
      /\ \A x \in old \ new : nd2[x] = FreeBlock
      /\ \A x \in new \ old : x \in Blocks /\ nd[x] = FreeBlock
  BY ONLY Kept(nd, nd2, old, new) DEF Kept
<1>6. \A s \in Ropes \ {r} : nd2[s] = nd[s]
  <2>1. ASSUME NEW s \in Ropes \ {r} PROVE nd2[s] = nd[s]
    <3>1. s \notin Blocks /\ s \in D
      BY ONLY <1>3, s \in Ropes \ {r}
    <3>2. s \notin old
      BY ONLY <1>4, <3>1, s \in Ropes \ {r}
    <3>3. s \notin new
      BY ONLY <1>5, <3>1, <3>2
    <3> QED
      BY ONLY <1>5, <3>1, <3>2, <3>3
  <2> QED
    BY ONLY <2>1
<1>7. ASSUME NEW s \in Ropes \ {r}, nd[s] # FreeBlock, NEW x \in lay[s].nodes
      PROVE  x \notin old /\ x \notin new /\ nd2[x] = nd[x]
  <2>1. x \in D /\ nd[x] # FreeBlock
    BY ONLY <1>1, <1>7 DEF Used
  <2>2. x \notin old
    <3>1. CASE nd[r] # FreeBlock
      <4>1. lay[s].nodes \cap lay[r].nodes = {}
        BY ONLY <1>7, <3>1, r \in Ropes, Fine(nd, lay, txt) DEF Fine
      <4>2. old = lay[r].nodes
        BY ONLY <3>1, Held(nd, lay, r, old) DEF Held
      <4> QED
        BY ONLY <1>7, <4>1, <4>2
    <3>2. CASE nd[r] = FreeBlock
      <4>1. old = {r}
        BY ONLY <3>2, Held(nd, lay, r, old) DEF Held
      <4> QED
        BY ONLY <2>1, <3>2, <4>1
    <3> QED
      BY ONLY <3>1, <3>2
  <2>3. x \notin new
    BY ONLY <1>5, <2>1, <2>2
  <2> QED
    BY ONLY <1>5, <2>1, <2>2, <2>3
<1>8. CASE t2 = NoRope /\ new = {}
  <2>1. nd2[r] = FreeBlock
    BY ONLY <1>4, <1>5, <1>8
  <2>2. \A s \in Ropes : nd2[s] # FreeBlock => s \in Ropes \ {r} /\ nd[s] # FreeBlock
    BY ONLY <1>6, <2>1
  <2>3. \A s \in Ropes \ {r} : lay2[s] = lay[s] /\ txt2[s] = txt[s]
    BY ONLY <1>2, r \in Ropes
  <2>4. txt2[r] = NoRope /\ txt2 = [s \in Ropes |-> txt2[s]]
    BY ONLY <1>2, <1>8, r \in Ropes
  <2> HIDE DEF lay2, txt2
  <2>5. ASSUME NEW s \in Ropes, nd2[s] # FreeBlock PROVE Shape(nd2, s, lay2[s], txt2[s])
    <3> DEFINE g == lay[s]
               t == txt[s]
    <3>1. Shape(nd, s, g, t) /\ \A x \in g.nodes : nd2[x] = nd[x]
      BY ONLY <1>2, <1>7, <2>2, <2>5
    <3> HIDE DEF g, t
    <3>2. Shape(nd2, s, g, t)
      BY ONLY <3>1, ShapeFrame
    <3> QED
      BY ONLY <2>2, <2>3, <2>5, <3>2 DEF g, t
  <2>6. ASSUME NEW s \in Ropes, nd2[s] = FreeBlock PROVE txt2[s] = NoRope
    BY ONLY <1>2, <1>6, <2>3, <2>4, <2>6
  <2>7. ASSUME NEW q \in Ropes, NEW s \in Ropes, q # s, nd2[q] # FreeBlock, nd2[s] # FreeBlock
        PROVE  lay2[q].nodes \cap lay2[s].nodes = {}
    <3>1. lay[q].nodes \cap lay[s].nodes = {}
      BY ONLY <2>2, <2>7, Fine(nd, lay, txt) DEF Fine
    <3> QED
      BY ONLY <2>2, <2>3, <2>7, <3>1
  <2>8. ASSUME NEW x \in Blocks, nd2[x] # FreeBlock
        PROVE  \E s \in Ropes : nd2[s] # FreeBlock /\ x \in lay2[s].nodes
    <3>1. x \notin old /\ x \notin new /\ x \in D
      BY ONLY <1>5, <1>8, <2>8
    <3>2. nd[x] # FreeBlock
      BY ONLY <1>5, <2>8, <3>1
    <3>3. PICK s \in Ropes : nd[s] # FreeBlock /\ x \in lay[s].nodes
      BY ONLY <3>2, x \in Blocks, Fine(nd, lay, txt) DEF Fine
    <3>4. s # r
      BY ONLY <3>1, <3>3, Held(nd, lay, r, old) DEF Held
    <3> QED
      BY ONLY <1>6, <2>3, <3>3, <3>4
  <2>9. Fine(nd2, lay2, txt2)
    BY ONLY <2>4, <2>5, <2>6, <2>7, <2>8, Heap(nd2) DEF Fine
  <2> QED
    BY ONLY <2>9 DEF txt2
<1>9. CASE Shape(nd2, r, h, t2) /\ new = h.nodes
  <2>1. r \in new
    BY ONLY <1>9, ShapeIs
  <2>2. \A s \in Ropes \ {r} : nd2[s] # FreeBlock <=> nd[s] # FreeBlock
    BY ONLY <1>6
  <2>3. \A s \in Ropes \ {r} : lay2[s] = lay[s] /\ txt2[s] = txt[s]
    BY ONLY <1>2, r \in Ropes
  <2>4. txt2[r] = t2 /\ lay2[r] = h /\ txt2 = [s \in Ropes |-> txt2[s]]
    BY ONLY <1>2, r \in Ropes
  <2>5. nd2[r] # FreeBlock
    <3>1. h.tall[r] \in Nat /\ Cell(nd2[r], h.tall[r])
      BY ONLY <1>9, ShapeIs
    <3>2. Boxed(nd2[r], h.tall[r])
      BY ONLY <3>1, CellIs
    <3> QED
      BY ONLY <3>2, HeapAssumption DEF HeapAssumption
  <2> HIDE DEF lay2, txt2
  <2>6. ASSUME NEW s \in Ropes, nd2[s] # FreeBlock PROVE Shape(nd2, s, lay2[s], txt2[s])
    <3>1. CASE s = r
      BY ONLY <1>9, <2>4, <3>1
    <3>2. CASE s # r
      <4> DEFINE g == lay[s]
                 t == txt[s]
      <4>1. Shape(nd, s, g, t) /\ \A x \in g.nodes : nd2[x] = nd[x]
        BY ONLY <1>2, <1>7, <2>2, <2>6, <3>2
      <4> HIDE DEF g, t
      <4>2. Shape(nd2, s, g, t)
        BY ONLY <4>1, ShapeFrame
      <4> QED
        BY ONLY <2>3, <2>6, <3>2, <4>2 DEF g, t
    <3> QED
      BY ONLY <3>1, <3>2
  <2>7. ASSUME NEW s \in Ropes, nd2[s] = FreeBlock PROVE txt2[s] = NoRope
    BY ONLY <1>2, <1>6, <2>3, <2>5, <2>7
  <2>8. ASSUME NEW s \in Ropes \ {r}, nd2[s] # FreeBlock PROVE h.nodes \cap lay2[s].nodes = {}
    BY ONLY <1>7, <1>9, <2>2, <2>3, <2>8
  <2>9. ASSUME NEW q \in Ropes, NEW s \in Ropes, q # s, nd2[q] # FreeBlock, nd2[s] # FreeBlock
        PROVE  lay2[q].nodes \cap lay2[s].nodes = {}
    <3>1. CASE q = r
      BY ONLY <2>4, <2>8, <2>9, <3>1
    <3>2. CASE s = r
      BY ONLY <2>4, <2>8, <2>9, <3>2
    <3>3. CASE q # r /\ s # r
      <4>1. lay[q].nodes \cap lay[s].nodes = {}
        BY ONLY <2>2, <2>9, <3>3, Fine(nd, lay, txt) DEF Fine
      <4> QED
        BY ONLY <2>3, <2>9, <3>3, <4>1
    <3> QED
      BY ONLY <3>1, <3>2, <3>3
  <2>10. ASSUME NEW x \in Blocks, nd2[x] # FreeBlock
         PROVE  \E s \in Ropes : nd2[s] # FreeBlock /\ x \in lay2[s].nodes
    <3>1. CASE x \in new
      BY ONLY <1>9, <2>4, <2>5, <3>1, r \in Ropes
    <3>2. CASE x \notin new
      <4>1. x \notin old /\ x \in D
        BY ONLY <1>5, <2>10, <3>2
      <4>2. nd[x] # FreeBlock
        BY ONLY <1>5, <2>10, <3>2, <4>1
      <4>3. PICK s \in Ropes : nd[s] # FreeBlock /\ x \in lay[s].nodes
        BY ONLY <4>2, x \in Blocks, Fine(nd, lay, txt) DEF Fine
      <4>4. s # r
        BY ONLY <4>1, <4>3, Held(nd, lay, r, old) DEF Held
      <4> QED
        BY ONLY <1>6, <2>3, <4>3, <4>4
    <3> QED
      BY ONLY <3>1, <3>2
  <2>11. Fine(nd2, lay2, txt2)
    BY ONLY <2>4, <2>6, <2>7, <2>9, <2>10, Heap(nd2) DEF Fine
  <2> QED
    BY ONLY <2>11 DEF txt2
<1> QED
  BY ONLY <1>8, <1>9, Holds(nd2, r, h, t2, new) DEF Holds

(* What each rope of a heap holds, as the property IsText reads it.        *)
TextIn(nd) == [r \in Ropes |-> IF nd[r] # FreeBlock THEN WrittenIn(nd)[r] ELSE NoRope]

LEMMA FromAll ==
  ASSUME NEW t \in Seq(Chars)
  PROVE  From(t, 0) = t
<1>1. 0 \in 0 .. Len(t)
  OBVIOUS
<1>2. From(t, 0) \in Seq(Chars) /\ Len(From(t, 0)) = Len(t) - 0
      /\ \A i \in 1 .. Len(t) - 0 : From(t, 0)[i] = t[0 + i]
  BY ONLY <1>1, FromIs, t \in Seq(Chars)
<1>3. Len(t) - 0 = Len(t) /\ \A i \in 1 .. Len(t) : 0 + i = i
  OBVIOUS
<1> DEFINE u == From(t, 0)
<1>4. u \in Seq(Chars) /\ Len(u) = Len(t) /\ \A i \in 1 .. Len(u) : u[i] = t[i]
  BY ONLY <1>2, <1>3
<1> HIDE DEF u
<1>5. u = t
  BY ONLY <1>4, SameSequence, t \in Seq(Chars)
<1> QED
  BY ONLY <1>5 DEF u

LEMMA TextIs ==
  ASSUME HeapAssumption, NEW nd, NEW lay, NEW txt, Fine(nd, lay, txt)
  PROVE  txt = TextIn(nd)
<1>1. ASSUME NEW r \in Ropes, nd[r] # FreeBlock PROVE WrittenIn(nd)[r] = txt[r]
  <2> DEFINE g == lay[r]
             t == txt[r]
  <2>1. Shape(nd, r, g, t)
    BY ONLY <1>1, Fine(nd, lay, txt) DEF Fine
  <2>2. \A x \in g.nodes : WrittenIn(nd)[x] = From(t, g.start[x])
    BY ONLY <1>1, Reached, HeapAssumption, Fine(nd, lay, txt)
  <2> HIDE DEF g, t
  <2>3. r \in g.nodes /\ g.start[r] = 0 /\ t \in Seq(Chars)
    BY ONLY <2>1, ShapeIs
  <2>4. From(t, 0) = t
    BY ONLY <2>3, FromAll
  <2> QED
    BY ONLY <2>2, <2>3, <2>4 DEF t
<1>2. txt = [r \in Ropes |-> txt[r]] /\ \A r \in Ropes : nd[r] = FreeBlock => txt[r] = NoRope
  BY ONLY Fine(nd, lay, txt) DEF Fine
<1>3. \A r \in Ropes : txt[r] = IF nd[r] # FreeBlock THEN WrittenIn(nd)[r] ELSE NoRope
  BY ONLY <1>1, <1>2
<1> QED
  BY ONLY <1>2, <1>3 DEF TextIn

(* The counts of the ropes are those of their texts.                       *)
Sized(t, n, m) ==
  \/ t = NoRope /\ n = 0 /\ m = 0
  \/ t \in Seq(Chars) /\ n = Len(t) /\ n <= MaxChars /\ m = Bytes(t)
Counted(txt, chars, bytes) ==
  /\ chars = [r \in Ropes |-> chars[r]] /\ bytes = [r \in Ropes |-> bytes[r]]
  /\ \A r \in Ropes : Sized(txt[r], chars[r], bytes[r])
Good(nd, chars, bytes) ==
  Counted(TextIn(nd), chars, bytes) /\ \E lay : Fine(nd, lay, TextIn(nd))

(* An operation of one rope makes its text t2, with n characters and m     *)
(* bytes, and leaves the others theirs.                                    *)
Turns(nd, chars, bytes, r, nd2, chars2, bytes2, t2) ==
  /\ Good(nd2, chars2, bytes2)
  /\ TextIn(nd2) = [TextIn(nd) EXCEPT ![r] = t2]
Set(f, r, v) == [f EXCEPT ![r] = v]

LEMMA GoodChanged ==
  ASSUME HeapAssumption, NEW nd, NEW chars, NEW bytes, Counted(TextIn(nd), chars, bytes),
         NEW lay, Fine(nd, lay, TextIn(nd)), NEW r \in Ropes,
         NEW old, Held(nd, lay, r, old), NEW nd2, Heap(nd2), NEW new, Kept(nd, nd2, old, new),
         NEW h, NEW t2, Holds(nd2, r, h, t2, new), NEW n, NEW m, Sized(t2, n, m),
         NEW chars2, chars2 = Set(chars, r, n), NEW bytes2, bytes2 = Set(bytes, r, m)
  PROVE  Turns(nd, chars, bytes, r, nd2, chars2, bytes2, t2)
<1> DEFINE txt == TextIn(nd)
           txt2 == [txt EXCEPT ![r] = t2]
<1>1. Fine(nd, lay, txt) /\ Counted(txt, chars, bytes)
  OBVIOUS
<1>2. txt = [s \in Ropes |-> txt[s]]
  BY ONLY DEF TextIn
<1> HIDE DEF txt
<1>3. PICK lay2 : Fine(nd2, lay2, txt2)
  BY ONLY <1>1, FineChanged, HeapAssumption, Held(nd, lay, r, old), Heap(nd2), r \in Ropes,
     Kept(nd, nd2, old, new), Holds(nd2, r, h, t2, new)
<1>4. txt2[r] = t2 /\ \A s \in Ropes \ {r} : txt2[s] = txt[s]
  BY ONLY <1>2, r \in Ropes
<1> HIDE DEF txt2
<1>5. txt2 = TextIn(nd2)
  BY ONLY <1>3, TextIs, HeapAssumption
<1>6. /\ chars2 = [s \in Ropes |-> chars2[s]] /\ bytes2 = [s \in Ropes |-> bytes2[s]]
      /\ chars2[r] = n /\ bytes2[r] = m
      /\ \A s \in Ropes \ {r} : chars2[s] = chars[s] /\ bytes2[s] = bytes[s]
  <2>1. chars = [s \in Ropes |-> chars[s]] /\ bytes = [s \in Ropes |-> bytes[s]]
    BY ONLY <1>1 DEF Counted
  <2> QED
    BY ONLY <2>1, r \in Ropes, chars2 = Set(chars, r, n), bytes2 = Set(bytes, r, m) DEF Set
<1>7. ASSUME NEW s \in Ropes PROVE Sized(txt2[s], chars2[s], bytes2[s])
  <2>1. CASE s = r
    BY ONLY <1>4, <1>6, <2>1, Sized(t2, n, m)
  <2>2. CASE s # r
    <3>1. Sized(txt[s], chars[s], bytes[s])
      BY ONLY <1>1, s \in Ropes DEF Counted
    <3> QED
      BY ONLY <1>4, <1>6, <2>2, <3>1, s \in Ropes
  <2> QED
    BY ONLY <2>1, <2>2
<1>8. Counted(txt2, chars2, bytes2)
  BY ONLY <1>6, <1>7 DEF Counted
<1>9. Good(nd2, chars2, bytes2)
  BY ONLY <1>3, <1>5, <1>8 DEF Good
<1> QED
  BY ONLY <1>5, <1>9 DEF Turns, txt, txt2

(* What is known of one rope that is alive.                                *)
LEMMA GoodLive ==
  ASSUME HeapAssumption, NEW nd, NEW chars, NEW bytes, Counted(TextIn(nd), chars, bytes),
         NEW lay, Fine(nd, lay, TextIn(nd)), NEW r \in Ropes, nd[r] # FreeBlock,
         NEW g, g = lay[r], NEW t, t = TextIn(nd)[r]
  PROVE  /\ Shape(nd, r, g, t) /\ Heap(nd) /\ Own(g) /\ Held(nd, lay, r, g.nodes)
         /\ chars[r] = Len(t) /\ bytes[r] = Bytes(t) /\ Len(t) <= MaxChars /\ t \in Seq(Chars)
<1>1. Shape(nd, r, g, t) /\ Heap(nd)
  BY ONLY Fine(nd, lay, TextIn(nd)), r \in Ropes, nd[r] # FreeBlock, g = lay[r],
     t = TextIn(nd)[r] DEF Fine
<1>2. t \in Seq(Chars) /\ r \in g.nodes /\ \A x \in g.nodes \ {r} : x \in Blocks
  BY ONLY <1>1, ShapeIs
<1>3. Own(g)
  BY ONLY <1>2, r \in Ropes DEF Own
<1>4. Held(nd, lay, r, g.nodes)
  BY ONLY nd[r] # FreeBlock, g = lay[r] DEF Held
<1>5. Sized(t, chars[r], bytes[r])
  BY ONLY Counted(TextIn(nd), chars, bytes), r \in Ropes, t = TextIn(nd)[r] DEF Counted
<1>6. t # NoRope
  BY ONLY <1>2, HeapAssumption DEF HeapAssumption
<1>7. t \in Seq(Chars) /\ chars[r] = Len(t) /\ chars[r] <= MaxChars /\ bytes[r] = Bytes(t)
  BY ONLY <1>5, <1>6 DEF Sized
<1> QED
  BY ONLY <1>1, <1>3, <1>4, <1>7

(* rope_new2.                                                              *)
Alone(r) == [nodes |-> {r}, start |-> [x \in {r} |-> 0], end |-> [x \in {r} |-> 0],
             tall |-> [x \in {r} |-> 1]]

LEMMA EmptyShape ==
  ASSUME NEW r, NEW nd, nd[r] = EmptyHead, NEW t, t = <<>>
  PROVE  Shape(nd, r, Alone(r), t)
<1> DEFINE g == Alone(r)
<1>1. /\ g.nodes = {r} /\ g.start[r] = 0 /\ g.end[r] = 0 /\ g.tall[r] = 1
      /\ g.start \in [g.nodes -> Nat] /\ g.end \in [g.nodes -> Nat] /\ g.tall \in [g.nodes -> Nat]
  BY ONLY DEF Alone
<1>2. t \in Seq(Chars) /\ Len(t) = 0
  BY ONLY t = <<>>
<1>3. ROPE_NODE_STR_SIZE \in Nat /\ ROPE_MAX_HEIGHT \in Nat /\ ROPE_MAX_HEIGHT >= 1
  BY ONLY RopeAssumption DEF RopeAssumption
<1> HIDE DEF g
<1>4. Row(g, r, Len(t))
  BY ONLY <1>1, <1>2 DEF Row
<1>5. NoneAt(g, r, 1)
  BY ONLY <1>1 DEF NoneAt
<1>6. nd[r].str = <<>> /\ nd[r].num_bytes = 0 /\ nd[r].nexts = <<Link(NULL, 0)>>
  BY ONLY nd[r] = EmptyHead DEF EmptyHead
<1>7. Linked(nd, g, Len(t))
  <2>1. nd[r].nexts[1] = Link(NULL, Len(t) - g.start[r])
    <3>1. Len(t) - g.start[r] = 0
      BY ONLY <1>1, <1>2
    <3> QED
      BY ONLY <1>6, <3>1
  <2>2. LinkFor(g, Len(t), r, 1, nd[r].nexts[1])
    BY ONLY <1>5, <2>1 DEF LinkFor
  <2>3. \A i \in 1 .. g.tall[r] : i = 1
    BY ONLY <1>1
  <2> QED
    BY ONLY <1>1, <2>2, <2>3 DEF Linked
<1>8. Cell(nd[r], g.tall[r])
  <2> DEFINE s == <<>>
             f == <<Link(NULL, 0)>>
  <2>1. s \in Seq(Chars) /\ Bytes(s) = 0
    BY ONLY BytesEmpty
  <2>2. f = [i \in 1 .. 1 |-> f[i]]
    OBVIOUS
  <2>3. nd[r] = [str |-> s, num_bytes |-> 0, nexts |-> f]
    BY ONLY nd[r] = EmptyHead DEF EmptyHead
  <2> HIDE DEF s, f
  <2>4. nd[r] = [str |-> s, num_bytes |-> Bytes(s), nexts |-> [i \in 1 .. 1 |-> f[i]]]
    BY ONLY <2>1, <2>2, <2>3
  <2>5. Bytes(s) <= ROPE_NODE_STR_SIZE /\ 1 \in Nat
    BY ONLY <1>3, <2>1
  <2>6. Cell(nd[r], 1)
    BY ONLY <2>1, <2>4, <2>5, CellOf
  <2> QED
    BY ONLY <1>1, <2>6
<1>9. Part(nd[r], t, g.start[r], g.end[r])
  BY ONLY <1>1, <1>6 DEF Part
<1> QED
  BY ONLY <1>1, <1>2, <1>3, <1>4, <1>7, <1>8, <1>9 DEF Shape, g

LEMMA NewIs ==
  ASSUME HeapAssumption, NEW nd, NEW chars, NEW bytes, Good(nd, chars, bytes),
         NEW r \in Ropes, nd[r] = FreeBlock, NEW nd2, nd2 = Set(nd, r, EmptyHead),
         NEW chars2, chars2 = Set(chars, r, 0), NEW bytes2, bytes2 = Set(bytes, r, 0),
         NEW none, none = <<>>
  PROVE  Turns(nd, chars, bytes, r, nd2, chars2, bytes2, none)
<1>1. PICK lay : Fine(nd, lay, TextIn(nd))
  BY ONLY Good(nd, chars, bytes) DEF Good
<1>2. Counted(TextIn(nd), chars, bytes)
  BY ONLY Good(nd, chars, bytes) DEF Good
<1>3. Heap(nd) /\ Ropes \cap Blocks = {}
  BY ONLY <1>1, HeapAssumption DEF Fine, HeapAssumption
<1>4. /\ nd2 = [x \in Blocks \cup Ropes |-> nd2[x]] /\ nd2[r] = EmptyHead
      /\ \A x \in (Blocks \cup Ropes) \ {r} : nd2[x] = nd[x]
  BY ONLY <1>3, r \in Ropes, nd2 = Set(nd, r, EmptyHead) DEF Heap, Set
<1>5. Heap(nd2)
  BY ONLY <1>3, <1>4, r \in Ropes DEF Heap
<1> DEFINE old == {r}
           h == Alone(r)
<1>6. Held(nd, lay, r, old)
  BY ONLY nd[r] = FreeBlock DEF Held
<1>7. Kept(nd, nd2, old, old)
  BY ONLY <1>4 DEF Kept
<1>8. Holds(nd2, r, h, none, old)
  <2>1. Shape(nd2, r, h, none)
    BY ONLY <1>4, EmptyShape, none = <<>>
  <2>2. h.nodes = old
    BY ONLY DEF Alone
  <2> QED
    BY ONLY <2>1, <2>2 DEF Holds
<1>9. Sized(none, 0, 0)
  <2>1. none \in Seq(Chars) /\ Len(none) = 0
    BY ONLY none = <<>>
  <2>2. Bytes(none) = 0
    BY ONLY BytesEmpty, none = <<>>
  <2>3. 0 <= MaxChars
    BY ONLY RopeAssumption DEF RopeAssumption
  <2> QED
    BY ONLY <2>1, <2>2, <2>3 DEF Sized
<1> HIDE DEF old, h
<1> QED
  BY ONLY <1>1, <1>2, <1>5, <1>6, <1>7, <1>8, <1>9, GoodChanged, HeapAssumption, r \in Ropes,
     chars2 = Set(chars, r, 0), bytes2 = Set(bytes, r, 0)

(* rope_free.                                                              *)
Without(nd, S) == [x \in DOMAIN nd |-> IF x \in S THEN FreeBlock ELSE nd[x]]

LEMMA AllBehind ==
  ASSUME HeapAssumption, NEW nd, NEW lay, NEW txt, Fine(nd, lay, txt), NEW r \in Ropes,
         nd[r] # FreeBlock
  PROVE  /\ BehindIn(nd)[r] \cup {r} = lay[r].nodes /\ BehindIn(nd)[r] = lay[r].nodes \ {r}
         /\ r \in Used(nd)
<1> DEFINE g == lay[r]
           t == txt[r]
<1>1. Shape(nd, r, g, t)
  BY ONLY Fine(nd, lay, txt), r \in Ropes, nd[r] # FreeBlock DEF Fine
<1>2. \A x \in g.nodes : BehindIn(nd)[x] = After(g, x) /\ x \in Used(nd)
  BY ONLY Reached, HeapAssumption, Fine(nd, lay, txt), r \in Ropes, nd[r] # FreeBlock
<1> HIDE DEF g, t
<1>3. r \in g.nodes /\ Row(g, r, Len(t)) /\ Len(t) \in Nat
  BY ONLY <1>1, ShapeIs
<1>4. \A x \in g.nodes \ {r} : g.end[r] < g.end[x]
  BY ONLY <1>3, RowOrder
<1>5. g.end[r] \in Nat
  BY ONLY <1>3, RowOrder
<1>6. After(g, r) = g.nodes \ {r}
  BY ONLY <1>4, <1>5 DEF After
<1> QED
  BY ONLY <1>2, <1>3, <1>6 DEF g

LEMMA FreeIs ==
  ASSUME HeapAssumption, NEW nd, NEW chars, NEW bytes, Good(nd, chars, bytes),
         NEW r \in Ropes, nd[r] # FreeBlock, NEW nd2, nd2 = Without(nd, BehindIn(nd)[r] \cup {r}),
         NEW chars2, chars2 = Set(chars, r, 0), NEW bytes2, bytes2 = Set(bytes, r, 0)
  PROVE  Turns(nd, chars, bytes, r, nd2, chars2, bytes2, NoRope)
<1>1. PICK lay : Fine(nd, lay, TextIn(nd))
  BY ONLY Good(nd, chars, bytes) DEF Good
<1>2. Counted(TextIn(nd), chars, bytes)
  BY ONLY Good(nd, chars, bytes) DEF Good
<1> DEFINE old == lay[r].nodes
           new == {}
<1>3. BehindIn(nd)[r] \cup {r} = old
  BY ONLY <1>1, AllBehind, HeapAssumption, r \in Ropes, nd[r] # FreeBlock
<1>4. Held(nd, lay, r, old)
  BY ONLY nd[r] # FreeBlock DEF Held
<1>5. Heap(nd)
  BY ONLY <1>1 DEF Fine
<1> HIDE DEF old
<1>6. nd2 = [x \in Blocks \cup Ropes |-> IF x \in old THEN FreeBlock ELSE nd[x]]
  BY ONLY <1>3, <1>5, nd2 = Without(nd, BehindIn(nd)[r] \cup {r}) DEF Without, Heap
<1>7. Heap(nd2)
  BY ONLY <1>5, <1>6 DEF Heap
<1>8. Kept(nd, nd2, old, new)
  <2>1. old \subseteq Blocks \cup Ropes
    <3> DEFINE g == lay[r]
               t == TextIn(nd)[r]
    <3>1. Own(g)
      BY ONLY <1>1, <1>2, GoodLive, HeapAssumption, r \in Ropes, nd[r] # FreeBlock
    <3> QED
      BY ONLY <3>1 DEF Own, old
  <2> QED
    BY ONLY <1>6, <2>1 DEF Kept
<1>9. \E h : Holds(nd2, r, h, NoRope, new)
  BY ONLY DEF Holds
<1>10. Sized(NoRope, 0, 0)
  BY ONLY DEF Sized
<1> HIDE DEF new
<1> QED
  BY ONLY <1>1, <1>2, <1>4, <1>7, <1>8, <1>9, <1>10, GoodChanged, HeapAssumption, r \in Ropes,
     chars2 = Set(chars, r, 0), bytes2 = Set(bytes, r, 0)

(* rope_insert of a valid string.                                          *)
Handle(nd, n, m) == [nd |-> nd, chars |-> n, bytes |-> m]

LEMMA InsertGood ==
  ASSUME HeapAssumption, NEW nd, NEW chars, NEW bytes, Good(nd, chars, bytes),
         NEW r \in Ropes, nd[r] # FreeBlock, NEW s \in Seq(Chars), chars[r] + Len(s) <= MaxChars,
         NEW p \in Nat, p <= chars[r], NEW iter, iter = iter_at_char_pos(nd, r, p),
         NEW at, at = Handle(nd, chars[r], bytes[r]),
         NEW heights \in [DOMAIN NewParts(nd, iter, s) -> Heights],
         NEW new, new = rope_insert_at_iter(r, at, iter, s, heights),
         NEW t, t = TextIn(nd)[r],
         NEW chars2, chars2 = Set(chars, r, new.chars), NEW bytes2, bytes2 = Set(bytes, r, new.bytes)
  PROVE  Turns(nd, chars, bytes, r, new.nd, chars2, bytes2, Replaced(t, p, p, s))
<1>1. PICK lay : Fine(nd, lay, TextIn(nd))
  BY ONLY Good(nd, chars, bytes) DEF Good
<1>2. Counted(TextIn(nd), chars, bytes)
  BY ONLY Good(nd, chars, bytes) DEF Good
<1> DEFINE g == lay[r]
           old == g.nodes
           n == chars[r]
           m == bytes[r]
<1>3. /\ Shape(nd, r, g, t) /\ Heap(nd) /\ Own(g) /\ Held(nd, lay, r, old)
      /\ n = Len(t) /\ m = Bytes(t) /\ Len(t) <= MaxChars /\ t \in Seq(Chars)
  <2> HIDE DEF g
  <2>1. g = lay[r]
    BY ONLY DEF g
  <2> QED
    BY ONLY <1>1, <1>2, <2>1, GoodLive, HeapAssumption, r \in Ropes, nd[r] # FreeBlock,
       t = TextIn(nd)[r]
<1> HIDE DEF g
<1>4. at.nd = nd /\ at.chars = n /\ at.bytes = m
  BY ONLY at = Handle(nd, chars[r], bytes[r]) DEF Handle
<1>5. n + Len(s) <= MaxChars /\ p <= n
  BY ONLY chars[r] + Len(s) <= MaxChars, p <= chars[r]
<1> HIDE DEF n, m
<1>6. Len(t) \in Nat /\ Len(s) \in Nat /\ Bytes(t) \in Nat /\ Bytes(s) \in Nat
  <2>1. Len(t) \in Nat /\ Len(s) \in Nat
    BY ONLY <1>3, s \in Seq(Chars)
  <2> QED
    BY ONLY <2>1, <1>3, BytesIs, s \in Seq(Chars)
<1>7. p \in 0 .. Len(t)
  BY ONLY <1>3, <1>5, <1>6, p \in Nat
<1>8. PICK b : At(g, r, b, p, iter)
  BY ONLY <1>3, <1>7, IterIs, iter = iter_at_char_pos(nd, r, p)
<1> DEFINE u == Replaced(t, p, p, s)
<1>9. Done(nd, r, g, new.nd, u) /\ Gains(new, at, s)
  <2>1. at.chars \in Int /\ at.bytes \in Int
    BY ONLY <1>3, <1>4, <1>6
  <2>2. Shape(at.nd, r, g, t) /\ Heap(at.nd)
    BY ONLY <1>3, <1>4
  <2>3. heights \in [DOMAIN NewParts(at.nd, iter, s) -> Heights]
    BY ONLY <1>4, heights \in [DOMAIN NewParts(nd, iter, s) -> Heights]
  <2> HIDE DEF u
  <2>4. Done(at.nd, r, g, new.nd, Replaced(t, p, p, s)) /\ Gains(new, at, s)
    BY ONLY <1>8, <2>1, <2>2, <2>3, InsertIs, HeapAssumption, r \in Ropes, s \in Seq(Chars),
       new = rope_insert_at_iter(r, at, iter, s, heights)
  <2> QED
    BY ONLY <1>4, <2>4 DEF u
<1>10. u \in Seq(Chars) /\ Len(u) = Len(t) + Len(s) /\ Bytes(u) = Bytes(t) + Bytes(s)
  <2>1. p \in 0 .. p
    BY ONLY p \in Nat
  <2>2. u \in Seq(Chars) /\ Len(u) = (Len(t) - (p - p)) + Len(s)
    BY ONLY <1>3, <1>7, <2>1, ReplacedIs, s \in Seq(Chars)
  <2>3. Bytes(u) = Bytes(t) + Bytes(s)
    BY ONLY <1>3, <1>7, BytesSpliced, s \in Seq(Chars)
  <2> HIDE DEF u
  <2> QED
    BY ONLY <1>6, <2>2, <2>3, p \in Nat
<1> HIDE DEF u
<1>11. Sized(u, new.chars, new.bytes)
  <2>1. new.chars = Len(u) /\ new.bytes = Bytes(u)
    BY ONLY <1>3, <1>4, <1>9, <1>10 DEF Gains
  <2>2. Len(u) <= MaxChars
    BY ONLY <1>3, <1>5, <1>10
  <2> QED
    BY ONLY <1>10, <2>1, <2>2 DEF Sized
<1>12. PICK h : Shape(new.nd, r, h, u) /\ Kept(nd, new.nd, g.nodes, h.nodes)
  BY ONLY <1>9 DEF Done
<1> DEFINE hn == h.nodes
           nd2 == new.nd
           c == new.chars
           d == new.bytes
<1>13. Holds(nd2, r, h, u, hn) /\ Kept(nd, nd2, old, hn) /\ Heap(nd2) /\ Sized(u, c, d)
  BY ONLY <1>9, <1>11, <1>12 DEF Holds, Done
<1>14. chars2 = Set(chars, r, c) /\ bytes2 = Set(bytes, r, d)
  BY ONLY chars2 = Set(chars, r, new.chars), bytes2 = Set(bytes, r, new.bytes)
<1> HIDE DEF hn, nd2, c, d, old
<1>15. Turns(nd, chars, bytes, r, nd2, chars2, bytes2, u)
  BY ONLY <1>1, <1>2, <1>3, <1>13, <1>14, GoodChanged, HeapAssumption, r \in Ropes
<1> QED
  BY ONLY <1>15 DEF u, nd2

(* rope_del.                                                               *)
LEMMA DelGood ==
  ASSUME HeapAssumption, NEW nd, NEW chars, NEW bytes, Good(nd, chars, bytes),
         NEW r \in Ropes, nd[r] # FreeBlock, NEW p \in Nat, NEW len \in Nat, p + len <= chars[r],
         NEW iter, iter = iter_at_char_pos(nd, r, p),
         NEW at, at = Handle(nd, chars[r], bytes[r]), NEW new, new = rope_del_at_iter(r, at, iter, len),
         NEW t, t = TextIn(nd)[r], NEW q, q = p + len, NEW none, none = <<>>,
         NEW chars2, chars2 = Set(chars, r, new.chars), NEW bytes2, bytes2 = Set(bytes, r, new.bytes)
  PROVE  Turns(nd, chars, bytes, r, new.nd, chars2, bytes2, Replaced(t, p, q, none))
<1>1. PICK lay : Fine(nd, lay, TextIn(nd))
  BY ONLY Good(nd, chars, bytes) DEF Good
<1>2. Counted(TextIn(nd), chars, bytes)
  BY ONLY Good(nd, chars, bytes) DEF Good
<1> DEFINE g == lay[r]
           old == g.nodes
           n == chars[r]
           m == bytes[r]
<1>3. /\ Shape(nd, r, g, t) /\ Heap(nd) /\ Own(g) /\ Held(nd, lay, r, old)
      /\ n = Len(t) /\ m = Bytes(t) /\ Len(t) <= MaxChars /\ t \in Seq(Chars)
  <2> HIDE DEF g
  <2>1. g = lay[r]
    BY ONLY DEF g
  <2> QED
    BY ONLY <1>1, <1>2, <2>1, GoodLive, HeapAssumption, r \in Ropes, nd[r] # FreeBlock,
       t = TextIn(nd)[r]
<1> HIDE DEF g
<1>4. at.nd = nd /\ at.chars = n /\ at.bytes = m /\ Opens(at)
  BY ONLY at = Handle(nd, chars[r], bytes[r]) DEF Handle, Opens
<1>5. p + len <= n
  BY ONLY p + len <= chars[r]
<1> HIDE DEF n, m
<1>6. Len(t) \in Nat
  BY ONLY <1>3
<1>7. p \in 0 .. Len(t) /\ q <= Len(t) /\ q \in Nat /\ p <= q
  BY ONLY <1>3, <1>5, <1>6, p \in Nat, len \in Nat, q = p + len
<1>8. PICK b : At(g, r, b, p, iter)
  BY ONLY <1>3, <1>7, IterIs, iter = iter_at_char_pos(nd, r, p)
<1> DEFINE u == Replaced(t, p, q, none)
<1>9. Done(nd, r, g, new.nd, u) /\ Left(new, at, len, u)
  <2>1. Shape(at.nd, r, g, t) /\ Heap(at.nd) /\ at.bytes = Bytes(t)
    BY ONLY <1>3, <1>4
  <2> HIDE DEF u
  <2>2. Done(at.nd, r, g, new.nd, Replaced(t, p, q, none)) /\ Left(new, at, len, Replaced(t, p, q, none))
    BY ONLY <1>3, <1>4, <1>7, <1>8, <2>1, DelIs, HeapAssumption, r \in Ropes, len \in Nat, q = p + len,
       none = <<>>, new = rope_del_at_iter(r, at, iter, len)
  <2> QED
    BY ONLY <1>4, <2>2 DEF u
<1>10. u \in Seq(Chars) /\ Len(u) = Len(t) - len
  <2>1. none \in Seq(Chars) /\ Len(none) = 0
    BY ONLY none = <<>>
  <2>2. q \in 0 .. Len(t) /\ p \in 0 .. q
    BY ONLY <1>6, <1>7, p \in Nat
  <2>3. u \in Seq(Chars) /\ Len(u) = (Len(t) - (q - p)) + Len(none)
    BY ONLY <1>3, <2>1, <2>2, ReplacedIs
  <2> HIDE DEF u
  <2> QED
    BY ONLY <1>6, <2>1, <2>3, p \in Nat, len \in Nat, q = p + len
<1> HIDE DEF u
<1>11. Sized(u, new.chars, new.bytes)
  <2>1. new.chars = Len(u) /\ new.bytes = Bytes(u)
    BY ONLY <1>3, <1>4, <1>9, <1>10 DEF Left
  <2>2. Len(u) <= MaxChars
    <3>1. MaxChars \in Nat
      BY ONLY RopeAssumption DEF RopeAssumption
    <3> QED
      BY ONLY <1>3, <1>6, <1>10, <3>1, len \in Nat
  <2> QED
    BY ONLY <1>10, <2>1, <2>2 DEF Sized
<1>12. PICK h : Shape(new.nd, r, h, u) /\ Kept(nd, new.nd, g.nodes, h.nodes)
  BY ONLY <1>9 DEF Done
<1> DEFINE hn == h.nodes
           nd2 == new.nd
           c == new.chars
           d == new.bytes
<1>13. Holds(nd2, r, h, u, hn) /\ Kept(nd, nd2, old, hn) /\ Heap(nd2) /\ Sized(u, c, d)
  BY ONLY <1>9, <1>11, <1>12 DEF Holds, Done
<1>14. chars2 = Set(chars, r, c) /\ bytes2 = Set(bytes, r, d)
  BY ONLY chars2 = Set(chars, r, new.chars), bytes2 = Set(bytes, r, new.bytes)
<1> HIDE DEF hn, nd2, c, d, old
<1>15. Turns(nd, chars, bytes, r, nd2, chars2, bytes2, u)
  BY ONLY <1>1, <1>2, <1>3, <1>13, <1>14, GoodChanged, HeapAssumption, r \in Ropes
<1> QED
  BY ONLY <1>15 DEF u, nd2
-----------------------------------------------------------------------------
(* rope_copy: the same row, each node under the name of its copy.          *)
Apart(f, S) == \A x, y \in S : f[x] = f[y] => x = y
Origin(g, f, y) == CHOOSE x \in g.nodes : f[x] = y
Renamed(g, f) ==
  LET names == {f[x] : x \in g.nodes}
  IN  [nodes |-> names,
       start |-> [y \in names |-> g.start[Origin(g, f, y)]],
       end   |-> [y \in names |-> g.end[Origin(g, f, y)]],
       tall  |-> [y \in names |-> g.tall[Origin(g, f, y)]]]

LEMMA RenamedIs ==
  ASSUME NEW g, NEW f, Apart(f, g.nodes), NEW h, h = Renamed(g, f)
  PROVE  /\ h.nodes = {f[x] : x \in g.nodes}
         /\ DOMAIN h.start = h.nodes /\ DOMAIN h.end = h.nodes /\ DOMAIN h.tall = h.nodes
         /\ h.start = [y \in h.nodes |-> h.start[y]] /\ h.end = [y \in h.nodes |-> h.end[y]]
         /\ h.tall = [y \in h.nodes |-> h.tall[y]]
         /\ \A x \in g.nodes :
              /\ f[x] \in h.nodes /\ h.start[f[x]] = g.start[x]
              /\ h.end[f[x]] = g.end[x] /\ h.tall[f[x]] = g.tall[x]
<1> DEFINE names == {f[x] : x \in g.nodes}
           Of(y) == Origin(g, f, y)
<1>1. ASSUME NEW x \in g.nodes PROVE Of(f[x]) = x
  <2> DEFINE y == f[x]
  <2>1. \E z \in g.nodes : f[z] = y
    OBVIOUS
  <2>2. Of(y) \in g.nodes /\ f[Of(y)] = y
    <3> HIDE DEF y
    <3> QED
      BY ONLY <2>1 DEF Origin
  <2> HIDE DEF Of
  <2> QED
    BY ONLY <2>2, Apart(f, g.nodes), x \in g.nodes DEF Apart
<1>2. /\ h.nodes = names
      /\ h.start = [y \in names |-> g.start[Of(y)]] /\ h.end = [y \in names |-> g.end[Of(y)]]
      /\ h.tall = [y \in names |-> g.tall[Of(y)]]
  BY ONLY h = Renamed(g, f) DEF Renamed
<1> HIDE DEF Of
<1>3. \A x \in g.nodes : f[x] \in names
  OBVIOUS
<1> HIDE DEF names
<1>4. ASSUME NEW x \in g.nodes
      PROVE  /\ f[x] \in h.nodes /\ h.start[f[x]] = g.start[x]
             /\ h.end[f[x]] = g.end[x] /\ h.tall[f[x]] = g.tall[x]
  BY ONLY <1>1, <1>2, <1>3, x \in g.nodes
<1> QED
  BY ONLY <1>2, <1>4 DEF names

LEMMA RenamedRow ==
  ASSUME NEW g, NEW a, NEW total \in Nat, Row(g, a, total), NEW f, Apart(f, g.nodes),
         NEW h, h = Renamed(g, f), NEW r, r = f[a]
  PROVE  Row(h, r, total)
<1>1. /\ h.nodes = {f[x] : x \in g.nodes}
      /\ DOMAIN h.start = h.nodes /\ DOMAIN h.end = h.nodes /\ DOMAIN h.tall = h.nodes
      /\ h.start = [y \in h.nodes |-> h.start[y]] /\ h.end = [y \in h.nodes |-> h.end[y]]
      /\ h.tall = [y \in h.nodes |-> h.tall[y]]
      /\ \A x \in g.nodes :
           /\ f[x] \in h.nodes /\ h.start[f[x]] = g.start[x]
           /\ h.end[f[x]] = g.end[x] /\ h.tall[f[x]] = g.tall[x]
  BY ONLY RenamedIs, Apart(f, g.nodes), h = Renamed(g, f)
<1>2. \A y \in h.nodes : \E x \in g.nodes : y = f[x]
  BY ONLY <1>1
<1>3. /\ a \in g.nodes
      /\ \A x \in g.nodes : g.start[x] \in Nat /\ g.end[x] \in Nat /\ g.tall[x] \in Nat
      /\ g.start[a] = 0
      /\ \A x \in g.nodes : g.start[x] <= g.end[x] /\ g.end[x] <= total /\ g.tall[x] >= 1
      /\ \A x \in g.nodes \ {a} : g.start[x] < g.end[x] /\ g.tall[x] < g.tall[a]
      /\ \A x, y \in g.nodes : x # y => g.end[x] <= g.start[y] \/ g.end[y] <= g.start[x]
      /\ \A x \in g.nodes : g.end[x] = total \/ \E y \in g.nodes \ {a} : g.start[y] = g.end[x]
  BY ONLY Row(g, a, total) DEF Row
<1>4. r \in h.nodes /\ h.start[r] = 0
  BY ONLY <1>1, <1>3, r = f[a]
<1>5. h.start \in [h.nodes -> Nat] /\ h.end \in [h.nodes -> Nat] /\ h.tall \in [h.nodes -> Nat]
  <2>1. ASSUME NEW y \in h.nodes PROVE h.start[y] \in Nat /\ h.end[y] \in Nat /\ h.tall[y] \in Nat
    BY ONLY SMTT(60), <1>1, <1>2, <1>3, y \in h.nodes
  <2> QED
    BY ONLY <1>1, <2>1
<1>6. ASSUME NEW y \in h.nodes
      PROVE  /\ h.start[y] <= h.end[y] /\ h.end[y] <= total /\ h.tall[y] >= 1
             /\ y # r => h.start[y] < h.end[y] /\ h.tall[y] < h.tall[r]
             /\ h.end[y] = total \/ \E z \in h.nodes \ {r} : h.start[z] = h.end[y]
  <2>1. PICK x \in g.nodes : y = f[x]
    BY ONLY <1>2, y \in h.nodes
  <2>2. y # r => x # a
    BY ONLY <2>1, r = f[a]
  <2>3. ASSUME NEW w \in g.nodes \ {a} PROVE f[w] \in h.nodes \ {r} /\ h.start[f[w]] = g.start[w]
    BY ONLY <1>1, <1>3, w \in g.nodes \ {a}, Apart(f, g.nodes), r = f[a] DEF Apart
  <2>4. h.end[y] = total \/ \E z \in h.nodes \ {r} : h.start[z] = h.end[y]
    <3>1. CASE g.end[x] = total
      BY ONLY <1>1, <2>1, <3>1
    <3>2. CASE \E w \in g.nodes \ {a} : g.start[w] = g.end[x]
      <4>1. PICK w \in g.nodes \ {a} : g.start[w] = g.end[x]
        BY ONLY <3>2
      <4>2. f[w] \in h.nodes \ {r} /\ h.start[f[w]] = h.end[y]
        BY ONLY <1>1, <2>1, <2>3, <4>1
      <4> QED
        BY ONLY <4>2
    <3> QED
      BY ONLY <1>3, <2>1, <3>1, <3>2
  <2> QED
    BY ONLY ZenonT(60), <1>1, <1>3, <2>1, <2>2, <2>4, r = f[a]
<1>7. ASSUME NEW y \in h.nodes, NEW z \in h.nodes, y # z
      PROVE  h.end[y] <= h.start[z] \/ h.end[z] <= h.start[y]
  <2>1. PICK x \in g.nodes : y = f[x]
    BY ONLY <1>2, y \in h.nodes
  <2>2. PICK w \in g.nodes : z = f[w]
    BY ONLY <1>2, z \in h.nodes
  <2> QED
    BY ONLY ZenonT(60), <1>1, <1>3, <1>7, <2>1, <2>2
<1> QED
  BY ONLY <1>4, <1>5, <1>6, <1>7 DEF Row

(* Each copy has the text of its node and links to the copies of those it  *)
(* linked to.                                                              *)
Via(f, x) == IF x = NULL THEN NULL ELSE f[x]
Copied(c, f) == [c EXCEPT !.nexts = [i \in DOMAIN @ |-> Link(Via(f, @[i].node), @[i].skip_size)]]

LEMMA CopiedIs ==
  ASSUME NEW c, NEW k \in Nat, Cell(c, k), NEW f, NEW c2, c2 = Copied(c, f)
  PROVE  /\ Cell(c2, k) /\ c2.str = c.str
         /\ \A i \in 1 .. k : c2.nexts[i] = Link(Via(f, c.nexts[i].node), c.nexts[i].skip_size)
<1>1. /\ Boxed(c, k) /\ c.str \in Seq(Chars) /\ c.num_bytes = Bytes(c.str)
      /\ Bytes(c.str) <= ROPE_NODE_STR_SIZE /\ DOMAIN c.nexts = 1 .. k
  BY ONLY CellIs, k \in Nat, Cell(c, k)
<1>2. c = [str |-> c.str, num_bytes |-> c.num_bytes, nexts |-> c.nexts]
  BY ONLY <1>1, BoxedIs, k \in Nat
<1> DEFINE to(i) == Link(Via(f, c.nexts[i].node), c.nexts[i].skip_size)
           n == [i \in 1 .. k |-> to(i)]
<1>3. c2 = [c EXCEPT !.nexts = n]
  <2>1. c2 = [c EXCEPT !.nexts = [i \in DOMAIN c.nexts |-> to(i)]]
    BY ONLY c2 = Copied(c, f) DEF Copied
  <2> HIDE DEF to
  <2> QED
    BY ONLY <1>1, <2>1
<1>4. n = [i \in 1 .. k |-> n[i]] /\ \A i \in 1 .. k : n[i] = to(i)
  OBVIOUS
<1> HIDE DEF n, to
<1>5. c2 = [str |-> c.str, num_bytes |-> c.num_bytes, nexts |-> n]
  BY ONLY <1>2, <1>3
<1>6. c2 = [str |-> c.str, num_bytes |-> Bytes(c.str), nexts |-> [i \in 1 .. k |-> n[i]]]
  BY ONLY <1>1, <1>4, <1>5
<1>7. Cell(c2, k)
  BY ONLY <1>1, <1>6, CellOf, k \in Nat
<1> QED
  BY ONLY <1>4, <1>5, <1>7 DEF to

LEMMA RenamedShape ==
  ASSUME HeapAssumption, NEW nd, NEW a \in Ropes, NEW g, NEW t, Shape(nd, a, g, t),
         NEW f, Apart(f, g.nodes), \A x \in g.nodes \ {a} : f[x] \in Blocks, NEW r, r = f[a],
         NEW h, h = Renamed(g, f), NEW nd2, \A x \in g.nodes : nd2[f[x]] = Copied(nd[x], f)
  PROVE  Shape(nd2, r, h, t)
<1>1. /\ h.nodes = {f[x] : x \in g.nodes}
      /\ DOMAIN h.start = h.nodes /\ DOMAIN h.end = h.nodes /\ DOMAIN h.tall = h.nodes
      /\ h.start = [y \in h.nodes |-> h.start[y]] /\ h.end = [y \in h.nodes |-> h.end[y]]
      /\ h.tall = [y \in h.nodes |-> h.tall[y]]
      /\ \A x \in g.nodes :
           /\ f[x] \in h.nodes /\ h.start[f[x]] = g.start[x]
           /\ h.end[f[x]] = g.end[x] /\ h.tall[f[x]] = g.tall[x]
  BY ONLY RenamedIs, Apart(f, g.nodes), h = Renamed(g, f)
<1>2. \A y \in h.nodes : \E x \in g.nodes : y = f[x]
  BY ONLY <1>1
<1>3. /\ t \in Seq(Chars) /\ Len(t) \in Nat /\ Row(g, a, Len(t)) /\ Linked(nd, g, Len(t))
      /\ a \in g.nodes /\ g.tall[a] <= ROPE_MAX_HEIGHT
      /\ \A x \in g.nodes :
           /\ g.tall[x] \in Nat /\ g.end[x] \in Nat
           /\ Cell(nd[x], g.tall[x]) /\ Part(nd[x], t, g.start[x], g.end[x])
      /\ \A x \in g.nodes \ {a} : x \in Blocks
  BY ONLY Shape(nd, a, g, t), ShapeIs
<1>4. NULL \notin g.nodes
  BY ONLY <1>3, HeapAssumption, a \in Ropes DEF HeapAssumption
<1>5. Row(h, r, Len(t))
  BY ONLY <1>3, RenamedRow, Apart(f, g.nodes), h = Renamed(g, f), r = f[a]
<1>6. \A y \in h.nodes \ {r} : y \in Blocks
  <2>1. ASSUME NEW y \in h.nodes \ {r} PROVE y \in Blocks
    <3>1. PICK x \in g.nodes : y = f[x]
      BY ONLY <1>2, y \in h.nodes \ {r}
    <3>2. x # a
      BY ONLY <3>1, y \in h.nodes \ {r}, r = f[a]
    <3> QED
      BY ONLY <3>1, <3>2, \A z \in g.nodes \ {a} : f[z] \in Blocks
  <2> QED
    BY ONLY <2>1
<1>7. ASSUME NEW x \in g.nodes
      PROVE  /\ Cell(nd2[f[x]], g.tall[x]) /\ nd2[f[x]].str = nd[x].str
             /\ \A i \in 1 .. g.tall[x] :
                  nd2[f[x]].nexts[i] = Link(Via(f, nd[x].nexts[i].node), nd[x].nexts[i].skip_size)
  <2> DEFINE c == nd[x]
             c2 == nd2[f[x]]
             k == g.tall[x]
  <2>1. k \in Nat /\ Cell(c, k) /\ c2 = Copied(c, f)
    BY ONLY <1>3, x \in g.nodes, \A z \in g.nodes : nd2[f[z]] = Copied(nd[z], f)
  <2> HIDE DEF c, c2, k
  <2>2. /\ Cell(c2, k) /\ c2.str = c.str
        /\ \A i \in 1 .. k : c2.nexts[i] = Link(Via(f, c.nexts[i].node), c.nexts[i].skip_size)
    BY ONLY <2>1, CopiedIs
  <2> QED
    BY ONLY <2>2 DEF c, c2, k
<1>8. ASSUME NEW x \in g.nodes, NEW i \in 1 .. g.tall[x]
      PROVE  LinkFor(h, Len(t), f[x], i, nd2[f[x]].nexts[i])
  <2>1. LinkFor(g, Len(t), x, i, nd[x].nexts[i])
    BY ONLY <1>3, x \in g.nodes, i \in 1 .. g.tall[x] DEF Linked
  <2> DEFINE link == nd[x].nexts[i]
             link2 == nd2[f[x]].nexts[i]
  <2>2. link2 = Link(Via(f, link.node), link.skip_size)
    BY ONLY <1>7, x \in g.nodes, i \in 1 .. g.tall[x]
  <2>3. LinkFor(g, Len(t), x, i, link)
    BY ONLY <2>1
  <2> HIDE DEF link, link2
  <2>4. CASE \E y \in g.nodes : NextAt(g, x, i, y) /\ link = Link(y, g.start[y] - g.start[x])
    <3>1. PICK y \in g.nodes : NextAt(g, x, i, y) /\ link = Link(y, g.start[y] - g.start[x])
      BY ONLY <2>4
    <3>2. link.node = y /\ link.skip_size = g.start[y] - g.start[x]
      BY ONLY <3>1 DEF Link
    <3>3. Via(f, y) = f[y]
      BY ONLY <1>4, y \in g.nodes DEF Via
    <3>4. link2 = Link(f[y], h.start[f[y]] - h.start[f[x]])
      BY ONLY <1>1, <2>2, <3>2, <3>3, x \in g.nodes, y \in g.nodes
    <3>5. NextAt(h, f[x], i, f[y])
      <4>1. /\ g.tall[y] >= i /\ g.end[x] < g.end[y]
            /\ \A z \in g.nodes : g.tall[z] >= i /\ g.end[x] < g.end[z] => g.end[y] <= g.end[z]
        BY ONLY <3>1 DEF NextAt
      <4>2. ASSUME NEW z \in h.nodes, h.tall[z] >= i, h.end[f[x]] < h.end[z]
            PROVE  h.end[f[y]] <= h.end[z]
        <5>1. PICK w \in g.nodes : z = f[w]
          BY ONLY <1>2, z \in h.nodes
        <5>2. h.tall[z] = g.tall[w] /\ h.end[z] = g.end[w]
          BY ONLY <1>1, <5>1
        <5>3. h.end[f[x]] = g.end[x] /\ h.end[f[y]] = g.end[y]
          BY ONLY <1>1, x \in g.nodes, y \in g.nodes
        <5> QED
          BY ONLY <4>1, <4>2, <5>2, <5>3, w \in g.nodes
      <4>3. h.tall[f[y]] = g.tall[y] /\ h.end[f[y]] = g.end[y] /\ h.end[f[x]] = g.end[x] /\ f[y] \in h.nodes
        BY ONLY <1>1, x \in g.nodes, y \in g.nodes
      <4> QED
        BY ONLY <4>1, <4>2, <4>3 DEF NextAt
    <3>6. f[y] \in h.nodes
      BY ONLY <1>1, y \in g.nodes
    <3> QED
      BY ONLY <3>4, <3>5, <3>6 DEF LinkFor, link2
  <2>5. CASE NoneAt(g, x, i) /\ link = Link(NULL, Len(t) - g.start[x])
    <3>1. link.node = NULL /\ link.skip_size = Len(t) - g.start[x]
      BY ONLY <2>5 DEF Link
    <3>2. link2 = Link(NULL, Len(t) - h.start[f[x]])
      BY ONLY <1>1, <2>2, <3>1, x \in g.nodes DEF Via
    <3>3. NoneAt(h, f[x], i)
      <4>1. ASSUME NEW z \in h.nodes, h.tall[z] >= i PROVE h.end[z] <= h.end[f[x]]
        <5>1. PICK w \in g.nodes : z = f[w]
          BY ONLY <1>2, z \in h.nodes
        <5>2. h.tall[z] = g.tall[w] /\ h.end[z] = g.end[w] /\ h.end[f[x]] = g.end[x]
          BY ONLY <1>1, <5>1, x \in g.nodes
        <5> QED
          BY ONLY <2>5, <4>1, <5>2, w \in g.nodes DEF NoneAt
      <4> QED
        BY ONLY <4>1 DEF NoneAt
    <3> QED
      BY ONLY <3>2, <3>3 DEF LinkFor, link2
  <2> QED
    BY ONLY <2>3, <2>4, <2>5 DEF LinkFor
<1>9. Linked(nd2, h, Len(t))
  <2>1. ASSUME NEW y \in h.nodes, NEW i \in 1 .. h.tall[y]
        PROVE  LinkFor(h, Len(t), y, i, nd2[y].nexts[i])
    <3>1. PICK x \in g.nodes : y = f[x]
      BY ONLY <1>2, y \in h.nodes
    <3>2. i \in 1 .. g.tall[x]
      BY ONLY <1>1, <3>1, i \in 1 .. h.tall[y]
    <3> QED
      BY ONLY <1>8, <3>1, <3>2
  <2> QED
    BY ONLY <2>1 DEF Linked
<1>10. ASSUME NEW y \in h.nodes
       PROVE  Cell(nd2[y], h.tall[y]) /\ Part(nd2[y], t, h.start[y], h.end[y])
  <2>1. PICK x \in g.nodes : y = f[x]
    BY ONLY <1>2, y \in h.nodes
  <2>2. h.tall[y] = g.tall[x] /\ h.start[y] = g.start[x] /\ h.end[y] = g.end[x]
    BY ONLY <1>1, <2>1
  <2>3. Cell(nd2[y], g.tall[x]) /\ nd2[y].str = nd[x].str
    BY ONLY <1>7, <2>1
  <2>4. Part(nd[x], t, g.start[x], g.end[x])
    BY ONLY <1>3, x \in g.nodes
  <2>5. Part(nd2[y], t, g.start[x], g.end[x])
    BY ONLY <2>3, <2>4 DEF Part
  <2> QED
    BY ONLY <2>2, <2>3, <2>5
<1>11. h.tall[r] <= ROPE_MAX_HEIGHT
  BY ONLY <1>1, <1>3, r = f[a]
<1> QED
  BY ONLY <1>3, <1>5, <1>6, <1>9, <1>10, <1>11 DEF Shape

(* There are always blocks enough for the copies.                          *)
Chain(nd, c, k, top) ==
  /\ c \in [0 .. k -> Unused(nd)] /\ top \in Nat
  /\ \A i \in 0 .. k : c[i] <= top
  /\ \A i, j \in 0 .. k : c[i] = c[j] => i = j

LEMMA ManyUnused ==
  ASSUME HeapAssumption, NEW nd, Heap(nd), NEW n \in Nat
  PROVE  \E c, top : Chain(nd, c, n, top)
<1>1. PICK m \in Nat : \A x \in Blocks : x > m => nd[x] = FreeBlock
  BY ONLY Heap(nd) DEF Heap
<1>2. ASSUME NEW top \in Nat PROVE \E x \in Unused(nd) : x \in Nat /\ top < x
  <2>1. PICK x \in Blocks : x > top + m
    <3>1. top + m \in Nat
      BY ONLY <1>1, top \in Nat
    <3> QED
      BY ONLY <3>1, HeapAssumption DEF HeapAssumption
  <2>2. x \in Nat
    BY ONLY x \in Blocks, HeapAssumption DEF HeapAssumption
  <2>3. x > m /\ top < x
    BY ONLY <1>1, <2>1, <2>2, top \in Nat
  <2> QED
    BY ONLY <1>1, <2>2, <2>3 DEF Unused
<1>3. Unused(nd) \subseteq Nat
  BY ONLY HeapAssumption DEF HeapAssumption, Unused
<1> DEFINE S == {k \in Nat : \E c, top : Chain(nd, c, k, top)}
<1>4. 0 \in S
  <2>1. PICK x \in Unused(nd) : x \in Nat
    BY ONLY <1>2, 0 \in Nat
  <2> DEFINE c == [i \in 0 .. 0 |-> x]
  <2>2. Chain(nd, c, 0, x)
    BY ONLY <2>1 DEF Chain
  <2> HIDE DEF c
  <2> QED
    BY ONLY <2>2
<1>5. ASSUME NEW i \in 1 .. n, i - 1 \in S PROVE i \in S
  <2> DEFINE k == i - 1
  <2>1. k \in Nat /\ i = k + 1 /\ i \in Nat
    BY ONLY i \in 1 .. n, n \in Nat
  <2>2. \E c, top : Chain(nd, c, k, top)
    BY ONLY <1>5
  <2> HIDE DEF k
  <2>3. PICK c : \E top : Chain(nd, c, k, top)
    BY ONLY <2>2
  <2>4. PICK top : Chain(nd, c, k, top)
    BY ONLY <2>3
  <2>5. PICK x \in Unused(nd) : x \in Nat /\ top < x
    BY ONLY <1>2, <2>4 DEF Chain
  <2> DEFINE Val(j) == IF j <= k THEN c[j] ELSE x
             c2 == [j \in 0 .. i |-> Val(j)]
  <2>6. /\ c \in [0 .. k -> Unused(nd)] /\ top \in Nat
        /\ \A j \in 0 .. k : c[j] <= top
        /\ \A j, l \in 0 .. k : c[j] = c[l] => j = l
    BY ONLY <2>4 DEF Chain
  <2>7. \A j \in 0 .. i : c2[j] = Val(j)
    OBVIOUS
  <2>8. \A j \in 0 .. i : (j <= k /\ j \in 0 .. k) \/ (j = i /\ ~(j <= k))
    BY ONLY <2>1
  <2>9. \A j \in 0 .. k : c[j] \in Unused(nd) /\ c[j] \in Nat /\ c[j] < x /\ c[j] # x
    <3>1. ASSUME NEW j \in 0 .. k PROVE c[j] \in Unused(nd) /\ c[j] \in Nat /\ c[j] < x /\ c[j] # x
      <4>1. c[j] \in Unused(nd)
        BY ONLY <2>6, j \in 0 .. k
      <4>2. c[j] \in Nat /\ c[j] <= top
        BY ONLY <1>3, <2>6, <4>1, j \in 0 .. k
      <4> QED
        BY ONLY <2>5, <2>6, <4>1, <4>2
    <3> QED
      BY ONLY <3>1
  <2>10. \A j \in 0 .. i : Val(j) \in Unused(nd) /\ Val(j) <= x
    BY ONLY <2>5, <2>8, <2>9
  <2>11. ASSUME NEW j \in 0 .. i, NEW l \in 0 .. i, Val(j) = Val(l) PROVE j = l
    <3>1. CASE j <= k /\ l <= k
      BY ONLY <2>6, <2>8, <2>11, <3>1
    <3>2. CASE j <= k /\ ~(l <= k)
      BY ONLY <2>8, <2>9, <2>11, <3>2
    <3>3. CASE ~(j <= k) /\ l <= k
      BY ONLY <2>8, <2>9, <2>11, <3>3
    <3>4. CASE ~(j <= k) /\ ~(l <= k)
      BY ONLY <2>8, <3>4
    <3> QED
      BY ONLY <3>1, <3>2, <3>3, <3>4
  <2>12. c2 \in [0 .. i -> Unused(nd)]
    <3> HIDE DEF Val
    <3> QED
      BY ONLY <2>10
  <2> HIDE DEF c2, Val
  <2>13. Chain(nd, c2, i, x)
    BY ONLY <2>5, <2>7, <2>10, <2>11, <2>12 DEF Chain
  <2> QED
    BY ONLY <2>1, <2>13
<1>6. \A i \in 0 .. n : i \in S
  <2> HIDE DEF S
  <2> QED
    BY ONLY <1>4, <1>5, Upward, n \in Nat
<1> QED
  BY ONLY <1>6, n \in Nat

Fresh(nd, S) == CHOOSE f \in [S -> Unused(nd)] : \A x, y \in S : f[x] = f[y] => x = y

LEMMA FreshIs ==
  ASSUME HeapAssumption, NEW nd, NEW r, NEW g, NEW t, Shape(nd, r, g, t), Heap(nd),
         NEW S, S \subseteq g.nodes
  PROVE  Fresh(nd, S) \in [S -> Unused(nd)] /\ Apart(Fresh(nd, S), S)
<1> DEFINE n == Len(t)
<1>1. n \in Nat /\ Row(g, r, n) /\ \A x \in g.nodes : g.end[x] \in Nat /\ g.end[x] <= n
  BY ONLY Shape(nd, r, g, t), ShapeIs
<1> HIDE DEF n
<1>2. \A x, y \in g.nodes : x # y => g.end[x] # g.end[y]
  BY ONLY <1>1, RowOrder
<1>3. PICK c : \E top : Chain(nd, c, n, top)
  BY ONLY <1>1, ManyUnused, HeapAssumption, Heap(nd)
<1>4. /\ c \in [0 .. n -> Unused(nd)]
      /\ \A i, j \in 0 .. n : c[i] = c[j] => i = j
  BY ONLY <1>3 DEF Chain
<1>5. \A x \in S : x \in g.nodes /\ g.end[x] \in 0 .. n
  BY ONLY <1>1, S \subseteq g.nodes
<1> DEFINE f == [x \in S |-> c[g.end[x]]]
<1>6. f \in [S -> Unused(nd)]
  BY ONLY <1>4, <1>5
<1>7. \A x, y \in S : f[x] = f[y] => x = y
  BY ONLY <1>2, <1>4, <1>5
<1> HIDE DEF f
<1>8. \E e \in [S -> Unused(nd)] : \A x, y \in S : e[x] = e[y] => x = y
  BY ONLY <1>6, <1>7
<1> QED
  BY ONLY <1>8 DEF Fresh, Apart

(* What is put into a row's worth of blocks is below some number.          *)
LEMMA Bounded ==
  ASSUME NEW nd, NEW r, NEW g, NEW t, Shape(nd, r, g, t),
         NEW S, S \subseteq g.nodes, NEW f, \A x \in S : f[x] \in Nat
  PROVE  \E m \in Nat : \A x \in S : f[x] <= m
<1> DEFINE n == Len(t)
<1>1. n \in Nat /\ Row(g, r, n) /\ \A x \in g.nodes : g.end[x] \in Nat /\ g.end[x] <= n
  BY ONLY Shape(nd, r, g, t), ShapeIs
<1> HIDE DEF n
<1>2. \A x, y \in g.nodes : x # y => g.end[x] # g.end[y]
  BY ONLY <1>1, RowOrder
<1> DEFINE K == {k \in Nat : \E m \in Nat : \A x \in S : g.end[x] <= k => f[x] <= m}
<1>3. ASSUME NEW k \in Nat, NEW m \in Nat, \A x \in S : g.end[x] < k => f[x] <= m
      PROVE  k \in K
  <2>1. CASE \E x \in S : g.end[x] = k
    <3>1. PICK x \in S : g.end[x] = k
      BY ONLY <2>1
    <3>2. \A y \in S : g.end[y] <= k => y = x \/ g.end[y] < k
      BY ONLY <1>1, <1>2, <3>1, S \subseteq g.nodes, k \in Nat
    <3> DEFINE top == m + f[x]
    <3>3. top \in Nat /\ m <= top /\ f[x] <= top
      BY ONLY m \in Nat, x \in S, \A y \in S : f[y] \in Nat
    <3> HIDE DEF top
    <3>4. \A y \in S : g.end[y] <= k => f[y] <= top
      BY ONLY <1>3, <3>2, <3>3, \A y \in S : f[y] \in Nat, m \in Nat
    <3> QED
      BY ONLY <3>3, <3>4, k \in Nat
  <2>2. CASE \A x \in S : g.end[x] # k
    <3>1. \A x \in S : g.end[x] <= k => f[x] <= m
      BY ONLY <1>1, <1>3, <2>2, S \subseteq g.nodes, k \in Nat
    <3> QED
      BY ONLY <3>1, k \in Nat, m \in Nat
  <2> QED
    BY ONLY <2>1, <2>2
<1>4. 0 \in K
  <2>1. \A x \in S : g.end[x] < 0 => f[x] <= 0
    BY ONLY <1>1, S \subseteq g.nodes
  <2> HIDE DEF K
  <2> QED
    BY ONLY <1>3, <2>1
<1>5. ASSUME NEW i \in 1 .. n, i - 1 \in K PROVE i \in K
  <2>1. PICK m \in Nat : \A x \in S : g.end[x] <= i - 1 => f[x] <= m
    BY ONLY <1>5
  <2>2. i \in Nat /\ \A x \in S : g.end[x] < i => f[x] <= m
    BY ONLY <1>1, <2>1, S \subseteq g.nodes, i \in 1 .. n
  <2> HIDE DEF K
  <2> QED
    BY ONLY <1>3, <2>2
<1>6. \A i \in 0 .. n : i \in K
  <2> HIDE DEF K
  <2> QED
    BY ONLY <1>1, <1>4, <1>5, Upward
<1>7. n \in K
  <2> HIDE DEF K
  <2> QED
    BY ONLY <1>1, <1>6
<1>8. PICK m \in Nat : \A x \in S : g.end[x] <= n => f[x] <= m
  BY ONLY <1>7
<1> QED
  BY ONLY <1>1, <1>8, S \subseteq g.nodes

(* The heap of rope_copy, in the words of the model.                       *)
NameOf(f, r, other, x) == IF x = NULL THEN NULL ELSE IF x = other THEN r ELSE f[x]
CellCopy(c, f, r, other) ==
  [c EXCEPT !.nexts = [i \in DOMAIN @ |-> Link(NameOf(f, r, other, @[i].node), @[i].skip_size)]]
Origins(S, f, r, other, x) == {y \in S \cup {other} : NameOf(f, r, other, y) = x}
HeapCopy(nd, S, f, r, other) ==
  [x \in DOMAIN nd |->
     IF Origins(S, f, r, other, x) = {} THEN nd[x]
     ELSE CellCopy(nd[CHOOSE y \in Origins(S, f, r, other, x) : TRUE], f, r, other)]

(* The names of the copies.                                                *)
Names(S, f, r, other) == [x \in S \cup {other} |-> NameOf(f, r, other, x)]

Supplied(nd, S, f) == f \in [S -> Unused(nd)] /\ Apart(f, S)

Named(nd, S, N, f, r, other, e) ==
  /\ Apart(e, N) /\ e[other] = r
  /\ \A x \in S : e[x] = f[x] /\ e[x] \in Blocks /\ nd[e[x]] = FreeBlock /\ e[x] # r
  /\ \A x \in N : x # NULL /\ NameOf(f, r, other, x) = e[x]

LEMMA NamesAre ==
  ASSUME HeapAssumption, NEW nd, NEW r \in Ropes, NEW other \in Ropes,
         NEW S, S \subseteq Blocks, NEW f, Supplied(nd, S, f),
         NEW e, e = Names(S, f, r, other), NEW N, N = S \cup {other}
  PROVE  Named(nd, S, N, f, r, other, e)
<1>0. f \in [S -> Unused(nd)] /\ Apart(f, S)
  BY ONLY Supplied(nd, S, f) DEF Supplied
<1>1. NULL \notin Ropes /\ NULL \notin Blocks /\ Ropes \cap Blocks = {}
  BY ONLY HeapAssumption DEF HeapAssumption
<1>2. \A x \in S : f[x] \in Blocks /\ nd[f[x]] = FreeBlock /\ x # NULL /\ x # other /\ f[x] # r
  BY ONLY <1>0, <1>1, S \subseteq Blocks, r \in Ropes, other \in Ropes DEF Unused
<1>3. /\ other # NULL /\ NameOf(f, r, other, other) = r
      /\ \A x \in S : NameOf(f, r, other, x) = f[x]
  BY ONLY <1>1, <1>2, other \in Ropes DEF NameOf
<1>4. \A x \in S \cup {other} : e[x] = NameOf(f, r, other, x)
  BY ONLY e = Names(S, f, r, other) DEF Names
<1>5. Apart(e, S \cup {other})
  <2>1. ASSUME NEW x \in S \cup {other}, NEW y \in S \cup {other}, e[x] = e[y] PROVE x = y
    BY ONLY <1>2, <1>3, <1>4, <1>0, <2>1 DEF Apart
  <2> QED
    BY ONLY <2>1 DEF Apart
<1> QED
  BY ONLY <1>2, <1>3, <1>4, <1>5, N = S \cup {other} DEF Named

CopiedTo(nd, nd2, g, e) ==
  /\ nd2 = [x \in Blocks \cup Ropes |-> nd2[x]]
  /\ \A x \in g.nodes : nd2[e[x]] = Copied(nd[x], e)
  /\ \A x \in Blocks \cup Ropes : (\A y \in g.nodes : e[y] # x) => nd2[x] = nd[x]

LEMMA HeapCopyIs ==
  ASSUME HeapAssumption, NEW nd, NEW r \in Ropes, NEW other \in Ropes, NEW g, NEW t,
         Shape(nd, other, g, t), Heap(nd), nd[r] = FreeBlock,
         NEW S, S = g.nodes \ {other}, NEW f, Supplied(nd, S, f),
         NEW nd2, nd2 = HeapCopy(nd, S, f, r, other), NEW e, e = Names(S, f, r, other)
  PROVE  CopiedTo(nd, nd2, g, e)
<1>1. /\ other \in g.nodes /\ Row(g, other, Len(t)) /\ Linked(nd, g, Len(t))
      /\ \A x \in g.nodes : g.tall[x] \in Nat /\ Cell(nd[x], g.tall[x])
      /\ \A x \in g.nodes \ {other} : x \in Blocks
  BY ONLY Shape(nd, other, g, t), ShapeIs
<1>2. g.nodes = S \cup {other} /\ S \subseteq Blocks
  BY ONLY <1>1, S = g.nodes \ {other}
<1>3. /\ Apart(e, g.nodes) /\ e[other] = r
      /\ \A x \in S : e[x] = f[x] /\ e[x] \in Blocks /\ nd[e[x]] = FreeBlock /\ e[x] # r
      /\ \A x \in g.nodes : x # NULL /\ NameOf(f, r, other, x) = e[x]
  <2> DEFINE N == g.nodes
  <2>1. N = S \cup {other} /\ S \subseteq Blocks
    BY ONLY <1>2
  <2> HIDE DEF N
  <2>2. Named(nd, S, N, f, r, other, e)
    BY ONLY <2>1, NamesAre, HeapAssumption, r \in Ropes, other \in Ropes,
       Supplied(nd, S, f), e = Names(S, f, r, other)
  <2> QED
    BY ONLY <2>2 DEF N, Named
<1> DEFINE D == Blocks \cup Ropes
           Copy(x) == CellCopy(nd[x], f, r, other)
           Or(x) == Origins(S, f, r, other, x)
<1>4. nd2 = [x \in D |-> IF Or(x) = {} THEN nd[x] ELSE Copy(CHOOSE y \in Or(x) : TRUE)]
  BY ONLY Heap(nd), nd2 = HeapCopy(nd, S, f, r, other) DEF Heap, HeapCopy
<1>5. \A x : Or(x) = {y \in g.nodes : e[y] = x}
  BY ONLY <1>2, <1>3 DEF Origins
<1> HIDE DEF Copy, Or, D
<1>6. \A x \in g.nodes : e[x] \in D
  BY ONLY <1>2, <1>3, r \in Ropes DEF D
<1>7. ASSUME NEW x \in g.nodes PROVE nd2[e[x]] = Copy(x)
  <2> DEFINE z == e[x]
  <2>1. x \in Or(z) /\ \A y \in Or(z) : y = x
    BY ONLY <1>3, <1>5, x \in g.nodes DEF Apart
  <2>2. nd2[z] = IF Or(z) = {} THEN nd[z] ELSE Copy(CHOOSE y \in Or(z) : TRUE)
    BY ONLY <1>4, <1>6, x \in g.nodes
  <2> HIDE DEF z
  <2>3. (CHOOSE y \in Or(z) : TRUE) = x
    BY ONLY <2>1
  <2>4. Or(z) # {}
    BY ONLY <2>1
  <2>5. nd2[z] = Copy(CHOOSE y \in Or(z) : TRUE)
    BY ONLY <2>2, <2>4
  <2> QED
    BY ONLY <2>3, <2>5 DEF z
<1>8. ASSUME NEW x \in g.nodes PROVE Copy(x) = Copied(nd[x], e)
  <2> DEFINE c == nd[x]
             k == g.tall[x]
  <2>1. k \in Nat /\ Cell(c, k)
    BY ONLY <1>1, x \in g.nodes
  <2>2. DOMAIN c.nexts = 1 .. k
    <3> HIDE DEF c, k
    <3> QED
      BY ONLY <2>1, CellIs
  <2>3. ASSUME NEW i \in 1 .. k
        PROVE  NameOf(f, r, other, c.nexts[i].node) = Via(e, c.nexts[i].node)
    <3>1. c.nexts[i].node = NULL \/ c.nexts[i].node \in g.nodes
      <4>1. LinkFor(g, Len(t), x, i, c.nexts[i])
        BY ONLY <1>1, x \in g.nodes, i \in 1 .. k DEF Linked
      <4> DEFINE link == c.nexts[i]
      <4> HIDE DEF c, link
      <4>2. LinkFor(g, Len(t), x, i, link)
        BY ONLY <4>1 DEF link
      <4>3. link.node = NULL \/ link.node \in g.nodes
        BY ONLY <4>2 DEF LinkFor, Link
      <4> QED
        BY ONLY <4>3 DEF link
    <3> DEFINE z == c.nexts[i].node
    <3>2. z = NULL \/ z \in g.nodes
      BY ONLY <3>1
    <3> HIDE DEF z
    <3>3. NameOf(f, r, other, z) = Via(e, z)
      <4>1. CASE z = NULL
        BY ONLY <4>1 DEF NameOf, Via
      <4>2. CASE z \in g.nodes
        BY ONLY <1>3, <4>2 DEF Via
      <4> QED
        BY ONLY <3>2, <4>1, <4>2
    <3> QED
      BY ONLY <3>3 DEF z
  <2> DEFINE To(i) == Link(NameOf(f, r, other, c.nexts[i].node), c.nexts[i].skip_size)
             To2(i) == Link(Via(e, c.nexts[i].node), c.nexts[i].skip_size)
             n == [i \in DOMAIN c.nexts |-> To(i)]
             n2 == [i \in DOMAIN c.nexts |-> To2(i)]
  <2>4. \A i \in DOMAIN c.nexts : To(i) = To2(i)
    <3> HIDE DEF c, k
    <3> QED
      BY ONLY <2>2, <2>3
  <2>5. n = n2
    <3> HIDE DEF To, To2, c
    <3> QED
      BY ONLY <2>4
  <2>6. Copy(x) = [c EXCEPT !.nexts = n]
    BY ONLY DEF Copy, CellCopy
  <2>7. Copied(c, e) = [c EXCEPT !.nexts = n2]
    BY ONLY DEF Copied
  <2> HIDE DEF n, n2, c
  <2>8. Copy(x) = Copied(c, e)
    BY ONLY <2>5, <2>6, <2>7
  <2> QED
    BY ONLY <2>8 DEF c
<1>9. ASSUME NEW x \in D, \A y \in g.nodes : e[y] # x PROVE nd2[x] = nd[x]
  <2>1. Or(x) = {}
    BY ONLY <1>5, <1>9
  <2> QED
    BY ONLY <1>4, <2>1, x \in D
<1>10. nd2 = [x \in D |-> nd2[x]]
  <2> DEFINE Val(x) == IF Or(x) = {} THEN nd[x] ELSE Copy(CHOOSE y \in Or(x) : TRUE)
  <2>1. nd2 = [x \in D |-> Val(x)]
    BY ONLY <1>4
  <2> HIDE DEF Val
  <2> QED
    BY ONLY <2>1
<1> QED
  BY ONLY <1>7, <1>8, <1>9, <1>10 DEF D, CopiedTo

LEMMA HeapCopyShape ==
  ASSUME HeapAssumption, NEW nd, NEW r \in Ropes, NEW other \in Ropes, NEW g, NEW t,
         Shape(nd, other, g, t), Heap(nd), nd[r] = FreeBlock,
         NEW S, S = g.nodes \ {other}, NEW f, Supplied(nd, S, f),
         NEW nd2, nd2 = HeapCopy(nd, S, f, r, other), NEW old, old = {r}
  PROVE  /\ Heap(nd2)
         /\ \E h : Shape(nd2, r, h, t) /\ Kept(nd, nd2, old, h.nodes)
<1> DEFINE e == Names(S, f, r, other)
           D == Blocks \cup Ropes
           h == Renamed(g, e)
<1>1. /\ nd2 = [x \in D |-> nd2[x]]
      /\ \A x \in g.nodes : nd2[e[x]] = Copied(nd[x], e)
      /\ \A x \in D : (\A y \in g.nodes : e[y] # x) => nd2[x] = nd[x]
  <2> HIDE DEF e
  <2>1. e = Names(S, f, r, other)
    BY ONLY DEF e
  <2>2. CopiedTo(nd, nd2, g, e)
    BY ONLY <2>1, HeapCopyIs, HeapAssumption, r \in Ropes, other \in Ropes, Shape(nd, other, g, t),
       Heap(nd), nd[r] = FreeBlock, S = g.nodes \ {other}, Supplied(nd, S, f),
       nd2 = HeapCopy(nd, S, f, r, other)
  <2> QED
    BY ONLY <2>2 DEF CopiedTo
<1>2. other \in g.nodes /\ \A x \in g.nodes \ {other} : x \in Blocks
  BY ONLY Shape(nd, other, g, t), ShapeIs
<1>3. Named(nd, S, g.nodes, f, r, other, e)
  <2> DEFINE N == g.nodes
  <2>1. N = S \cup {other} /\ S \subseteq Blocks
    BY ONLY <1>2, S = g.nodes \ {other}
  <2> HIDE DEF N, e
  <2>2. e = Names(S, f, r, other)
    BY ONLY DEF e
  <2>3. Named(nd, S, N, f, r, other, e)
    BY ONLY <2>1, <2>2, NamesAre, HeapAssumption, r \in Ropes, other \in Ropes, Supplied(nd, S, f)
  <2> QED
    BY ONLY <2>3 DEF N
<1> HIDE DEF e
<1>4. /\ Apart(e, g.nodes) /\ e[other] = r
      /\ \A x \in S : e[x] = f[x] /\ e[x] \in Blocks /\ nd[e[x]] = FreeBlock /\ e[x] # r
  BY ONLY <1>3 DEF Named
<1> HIDE DEF h, D
<1>5. h.nodes = {e[x] : x \in g.nodes}
  BY ONLY DEF h, Renamed
<1>6. Shape(nd2, r, h, t)
  <2>1. \A x \in g.nodes \ {other} : e[x] \in Blocks
    BY ONLY <1>4, S = g.nodes \ {other}
  <2>2. h = Renamed(g, e) /\ r = e[other]
    BY ONLY <1>4 DEF h
  <2>3. Apart(e, g.nodes) /\ \A x \in g.nodes : nd2[e[x]] = Copied(nd[x], e)
    BY ONLY <1>1, <1>4
  <2> QED
    BY ONLY <2>1, <2>2, <2>3, RenamedShape, HeapAssumption, other \in Ropes, Shape(nd, other, g, t)
<1>7. \A y \in h.nodes : y = r \/ \E x \in S : y = f[x] /\ y \in Blocks /\ nd[y] = FreeBlock
  BY ONLY <1>4, <1>5, S = g.nodes \ {other}
<1>8. r \in h.nodes
  BY ONLY <1>2, <1>4, <1>5
<1>9. \A x \in D : x \notin h.nodes => nd2[x] = nd[x]
  BY ONLY <1>1, <1>5
<1>10. Kept(nd, nd2, old, h.nodes)
  BY ONLY <1>7, <1>8, <1>9, old = {r} DEF Kept, D
<1>11. Heap(nd2)
  <2>1. PICK m \in Nat : \A x \in Blocks : x > m => nd[x] = FreeBlock
    BY ONLY Heap(nd) DEF Heap
  <2>2. Blocks \subseteq Nat /\ r \notin Blocks
    BY ONLY HeapAssumption, r \in Ropes DEF HeapAssumption
  <2>3. \A x \in S : f[x] \in Nat
    BY ONLY <1>4, <2>2
  <2>4. S \subseteq g.nodes
    BY ONLY S = g.nodes \ {other}
  <2>5. PICK k \in Nat : \A x \in S : f[x] <= k
    BY ONLY <2>3, <2>4, Bounded, Shape(nd, other, g, t)
  <2>6. m + k \in Nat
    OBVIOUS
  <2>7. ASSUME NEW x \in Blocks, x > m + k PROVE nd2[x] = FreeBlock
    <3>1. x \in Nat /\ x > m /\ ~(x <= k) /\ x # r
      BY ONLY <2>2, <2>7, m \in Nat, k \in Nat, x \in Blocks
    <3>2. x \notin h.nodes
      BY ONLY <1>7, <2>5, <3>1
    <3> QED
      BY ONLY <1>9, <2>1, <3>1, <3>2, x \in Blocks DEF D
  <2> QED
    BY ONLY <1>1, <2>6, <2>7 DEF Heap, D
<1> QED
  BY ONLY <1>6, <1>10, <1>11

LEMMA CopyGood ==
  ASSUME HeapAssumption, NEW nd, NEW chars, NEW bytes, Good(nd, chars, bytes),
         NEW r \in Ropes, nd[r] = FreeBlock, NEW other \in Ropes, nd[other] # FreeBlock,
         NEW S, S = BehindIn(nd)[other], NEW f, f = Fresh(nd, S),
         NEW nd2, nd2 = HeapCopy(nd, S, f, r, other), NEW t, t = TextIn(nd)[other],
         NEW chars2, chars2 = Set(chars, r, chars[other]),
         NEW bytes2, bytes2 = Set(bytes, r, bytes[other])
  PROVE  Turns(nd, chars, bytes, r, nd2, chars2, bytes2, t)
<1>1. PICK lay : Fine(nd, lay, TextIn(nd))
  BY ONLY Good(nd, chars, bytes) DEF Good
<1>2. Counted(TextIn(nd), chars, bytes)
  BY ONLY Good(nd, chars, bytes) DEF Good
<1> DEFINE g == lay[other]
           n == chars[other]
           m == bytes[other]
           old == {r}
<1>3. /\ Shape(nd, other, g, t) /\ Heap(nd)
      /\ n = Len(t) /\ m = Bytes(t) /\ Len(t) <= MaxChars /\ t \in Seq(Chars)
  <2> HIDE DEF g
  <2>1. g = lay[other]
    BY ONLY DEF g
  <2> QED
    BY ONLY <1>1, <1>2, <2>1, GoodLive, HeapAssumption, other \in Ropes, nd[other] # FreeBlock,
       t = TextIn(nd)[other]
<1>4. S = g.nodes \ {other}
  BY ONLY <1>1, AllBehind, HeapAssumption, other \in Ropes, nd[other] # FreeBlock, S = BehindIn(nd)[other]
<1>5. Held(nd, lay, r, old)
  BY ONLY nd[r] = FreeBlock DEF Held
<1>6. chars2 = Set(chars, r, n) /\ bytes2 = Set(bytes, r, m)
  BY ONLY chars2 = Set(chars, r, chars[other]), bytes2 = Set(bytes, r, bytes[other])
<1> HIDE DEF g, n, m
<1>7. Supplied(nd, S, f)
  <2>1. S \subseteq g.nodes
    BY ONLY <1>4
  <2>2. Fresh(nd, S) \in [S -> Unused(nd)] /\ Apart(Fresh(nd, S), S)
    BY ONLY <1>3, <2>1, FreshIs, HeapAssumption
  <2> QED
    BY ONLY <2>2, f = Fresh(nd, S) DEF Supplied
<1>8. old = {r}
  BY ONLY DEF old
<1> HIDE DEF old
<1>9. /\ Heap(nd2)
      /\ \E h : Shape(nd2, r, h, t) /\ Kept(nd, nd2, old, h.nodes)
  BY ONLY <1>3, <1>4, <1>7, <1>8, HeapCopyShape, HeapAssumption, r \in Ropes, other \in Ropes,
     nd[r] = FreeBlock, nd2 = HeapCopy(nd, S, f, r, other)
<1>10. PICK h : Shape(nd2, r, h, t) /\ Kept(nd, nd2, old, h.nodes)
  BY ONLY <1>9
<1> DEFINE hn == h.nodes
<1>11. Holds(nd2, r, h, t, hn) /\ Kept(nd, nd2, old, hn)
  BY ONLY <1>10 DEF Holds
<1>12. Sized(t, n, m)
  BY ONLY <1>3 DEF Sized
<1> HIDE DEF hn
<1> QED
  BY ONLY <1>1, <1>2, <1>5, <1>6, <1>9, <1>11, <1>12, GoodChanged, HeapAssumption, r \in Ropes
-----------------------------------------------------------------------------
(* The arguments of a call, and what the call makes of a text.             *)
CallOK(nd, chars, c) ==
  \/ c = NoCall
  \/ /\ c \in Calls /\ nd[c.of] # FreeBlock
     /\ c.do = "insert" /\ Valid(c.str) => chars[c.of] + Len(c.str) <= MaxChars
Result(c, t) ==
  IF c.do = "insert" THEN IF Valid(c.str) THEN RT!Spliced(t, c.pos, c.str) ELSE t
                     ELSE RT!Cut(t, c.pos, c.length)

LEMMA StringIs ==
  ASSUME NEW s \in Strings
  PROVE  /\ Valid(s) => s \in Seq(Chars) /\ Len(s) <= MaxInsert
         /\ s = <<Bad>> => ~Valid(s)
<1>1. CASE s = <<Bad>>
  <2>1. 1 \in DOMAIN s /\ s[1] = Bad
    BY ONLY <1>1
  <2> QED
    BY ONLY <2>1 DEF Valid
<1>2. CASE \E n \in 0 .. MaxInsert : s \in [1 .. n -> Chars]
  <2>1. PICK n \in 0 .. MaxInsert : s \in [1 .. n -> Chars]
    BY ONLY <1>2
  <2>2. MaxInsert \in Nat /\ Bad \notin Chars
    BY ONLY RopeAssumption DEF RopeAssumption
  <2>3. n \in Nat /\ n <= MaxInsert
    BY ONLY <2>2, n \in 0 .. MaxInsert
  <2>4. s \in Seq(Chars) /\ Len(s) = n
    BY ONLY <2>1, <2>3
  <2>5. s # <<Bad>>
    <3>1. CASE s = <<Bad>>
      <4>1. 1 \in DOMAIN s /\ s[1] = Bad
        BY ONLY <3>1
      <4>2. s[1] \in Chars
        BY ONLY <2>1, <4>1
      <4> QED
        BY ONLY <2>2, <4>1, <4>2
    <3> QED
      BY ONLY <3>1
  <2> QED
    BY ONLY <2>3, <2>4, <2>5
<1>3. s = <<Bad>> \/ \E n \in 0 .. MaxInsert : s \in [1 .. n -> Chars]
  BY ONLY s \in Strings DEF Strings
<1> QED
  BY ONLY <1>1, <1>2, <1>3

LEMMA CallIs ==
  ASSUME NEW c \in Calls
  PROVE  /\ c.of \in Ropes /\ c.pos \in Nat
         /\ c.do = "insert" => c.str \in Strings
         /\ c.do = "del" => c.length \in Nat
         /\ c.do = "insert" \/ c.do = "del"
<1>1. MaxChars \in Nat
  BY ONLY RopeAssumption DEF RopeAssumption
<1>2. Positions \subseteq Nat
  BY ONLY <1>1 DEF Positions
<1>3. CASE c \in [do : {"insert"}, of : Ropes, pos : Positions, str : Strings]
  BY ONLY <1>2, <1>3
<1>4. CASE c \in [do : {"del"}, of : Ropes, pos : Positions, length : Positions]
  BY ONLY <1>2, <1>4
<1> QED
  BY ONLY <1>3, <1>4, c \in Calls DEF Calls

(* Nothing changes.                                                        *)
LEMMA TurnsNot ==
  ASSUME NEW nd, NEW chars, NEW bytes, Good(nd, chars, bytes), NEW r \in Ropes,
         NEW t, t = TextIn(nd)[r]
  PROVE  Turns(nd, chars, bytes, r, nd, chars, bytes, t)
<1> DEFINE txt == TextIn(nd)
<1>1. txt = [s \in Ropes |-> txt[s]]
  BY ONLY DEF TextIn
<1> HIDE DEF txt
<1>2. txt = [txt EXCEPT ![r] = txt[r]]
  BY ONLY <1>1, r \in Ropes
<1> QED
  BY ONLY <1>2, Good(nd, chars, bytes), t = TextIn(nd)[r] DEF Turns, txt

LEMMA MinimumIs ==
  ASSUME NEW x \in Nat, NEW y \in Nat
  PROVE  Minimum(x, y) \in Nat /\ Minimum(x, y) <= y /\ Minimum(x, y) <= x
BY DEF Minimum

Changes(r, t) == Turns(node, num_chars, num_bytes, r, node', num_chars', num_bytes', t)

LEMMA BecomesIs ==
  ASSUME NEW r, NEW at, Becomes(r, at)
  PROVE  /\ node' = at.nd /\ num_chars' = Set(num_chars, r, at.chars)
         /\ num_bytes' = Set(num_bytes, r, at.bytes)
BY DEF Becomes, Set

LEMMA LengthKnown ==
  ASSUME HeapAssumption, Good(node, num_chars, num_bytes), NEW r \in Ropes, Live(r),
         NEW t, t = TextIn(node)[r]
  PROVE  t \in Seq(Chars) /\ num_chars[r] = Len(t) /\ num_chars[r] \in Nat /\ num_chars[r] <= MaxChars
<1>1. PICK lay : Fine(node, lay, TextIn(node))
  BY ONLY Good(node, num_chars, num_bytes) DEF Good
<1>2. Counted(TextIn(node), num_chars, num_bytes)
  BY ONLY Good(node, num_chars, num_bytes) DEF Good
<1> DEFINE g == lay[r]
<1>3. node[r] # FreeBlock /\ g = lay[r]
  BY ONLY Live(r) DEF Live
<1> HIDE DEF g
<1>4. num_chars[r] = Len(t) /\ Len(t) <= MaxChars /\ t \in Seq(Chars)
  BY ONLY <1>1, <1>2, <1>3, GoodLive, HeapAssumption, r \in Ropes, t = TextIn(node)[r]
<1>5. Len(t) \in Nat
  BY ONLY <1>4
<1> QED
  BY ONLY <1>4, <1>5

LEMMA InsertChanges ==
  ASSUME HeapAssumption, Good(node, num_chars, num_bytes), NEW r \in Ropes, Live(r),
         NEW s \in Strings, Valid(s) => num_chars[r] + Len(s) <= MaxChars, NEW pos \in Nat,
         rope_insert(r, pos, s), NEW t, t = TextIn(node)[r]
  PROVE  Changes(r, IF Valid(s) THEN RT!Spliced(t, pos, s) ELSE t)
<1> DEFINE n == num_chars[r]
<1>1. t \in Seq(Chars) /\ n = Len(t) /\ n \in Nat
  BY ONLY LengthKnown, HeapAssumption, Good(node, num_chars, num_bytes), r \in Ropes, Live(r),
     t = TextIn(node)[r]
<1>2. CASE ~Valid(s)
  <2>1. node' = node /\ num_chars' = num_chars /\ num_bytes' = num_bytes
    BY ONLY <1>2, rope_insert(r, pos, s) DEF rope_insert
  <2>2. Changes(r, t)
    BY ONLY <2>1, TurnsNot, Good(node, num_chars, num_bytes), r \in Ropes, t = TextIn(node)[r] DEF Changes
  <2> QED
    BY ONLY <1>2, <2>2
<1>3. CASE Valid(s)
  <2> DEFINE p == Minimum(pos, n)
             iter == iter_at_char_pos(node, r, p)
             at == Handle(node, num_chars[r], num_bytes[r])
  <2>1. PICK heights \in [DOMAIN NewParts(node, iter, s) -> Heights] :
               Becomes(r, rope_insert_at_iter(r, at, iter, s, heights))
    BY ONLY <1>3, rope_insert(r, pos, s) DEF rope_insert, Opened, Handle
  <2>2. p \in Nat /\ p <= n
    BY ONLY <1>1, MinimumIs, pos \in Nat
  <2>3. RT!Spliced(t, pos, s) = Replaced(t, p, p, s)
    BY ONLY <1>1 DEF RT!Spliced, RT!Minimum, Minimum, Replaced, FirstOf, From
  <2>4. n + Len(s) <= MaxChars /\ s \in Seq(Chars)
    BY ONLY <1>3, StringIs, s \in Strings, Valid(s) => num_chars[r] + Len(s) <= MaxChars
  <2> DEFINE new == rope_insert_at_iter(r, at, iter, s, heights)
  <2>5. iter = iter_at_char_pos(node, r, p) /\ at = Handle(node, num_chars[r], num_bytes[r])
    OBVIOUS
  <2> HIDE DEF iter, at, p
  <2>6. new = rope_insert_at_iter(r, at, iter, s, heights) /\ Becomes(r, new)
    BY ONLY <2>1
  <2> HIDE DEF new
  <2> DEFINE chars2 == Set(num_chars, r, new.chars)
             bytes2 == Set(num_bytes, r, new.bytes)
  <2>7. node' = new.nd /\ num_chars' = chars2 /\ num_bytes' = bytes2
    BY ONLY <2>6, BecomesIs
  <2>8. chars2 = Set(num_chars, r, new.chars) /\ bytes2 = Set(num_bytes, r, new.bytes)
    OBVIOUS
  <2> HIDE DEF chars2, bytes2
  <2>9. node[r] # FreeBlock /\ p <= num_chars[r] /\ num_chars[r] + Len(s) <= MaxChars
    BY ONLY <2>2, <2>4, Live(r) DEF Live
  <2>10. Turns(node, num_chars, num_bytes, r, new.nd, chars2, bytes2, Replaced(t, p, p, s))
    BY ONLY <2>1, <2>2, <2>4, <2>5, <2>6, <2>8, <2>9, InsertGood, HeapAssumption, r \in Ropes,
       Good(node, num_chars, num_bytes), t = TextIn(node)[r]
  <2> QED
    BY ONLY <1>3, <2>3, <2>7, <2>10 DEF Changes
<1> QED
  BY ONLY <1>2, <1>3

LEMMA DelChanges ==
  ASSUME HeapAssumption, Good(node, num_chars, num_bytes), NEW r \in Ropes, Live(r),
         NEW pos \in Nat, NEW length \in Nat, rope_del(r, pos, length), NEW t, t = TextIn(node)[r]
  PROVE  Changes(r, RT!Cut(t, pos, length))
<1> DEFINE n == num_chars[r]
           p == Minimum(pos, n)
           len == Minimum(length, n - p)
           iter == iter_at_char_pos(node, r, p)
           at == Handle(node, num_chars[r], num_bytes[r])
           new == rope_del_at_iter(r, at, iter, len)
           q == p + len
           none == <<>>
<1>1. t \in Seq(Chars) /\ n = Len(t) /\ n \in Nat
  BY ONLY LengthKnown, HeapAssumption, Good(node, num_chars, num_bytes), r \in Ropes, Live(r),
     t = TextIn(node)[r]
<1>2. Becomes(r, new)
  BY ONLY rope_del(r, pos, length) DEF rope_del, Opened, Handle
<1>3. p \in Nat /\ p <= n
  BY ONLY <1>1, MinimumIs, pos \in Nat
<1>4. len \in Nat /\ len <= n - p
  <2> HIDE DEF p, n
  <2>1. n - p \in Nat
    BY ONLY <1>1, <1>3
  <2> QED
    BY ONLY <2>1, MinimumIs, length \in Nat
<1>5. p + len <= n /\ q \in 0 .. n /\ p \in 0 .. n
  <2> HIDE DEF p, n, len
  <2> QED
    BY ONLY <1>1, <1>3, <1>4
<1>6. RT!Cut(t, pos, length) = Replaced(t, p, q, none)
  <2>1. RT!Cut(t, pos, length) = FirstOf(t, p) \o From(t, q)
    BY ONLY <1>1 DEF RT!Cut, RT!Minimum, Minimum, FirstOf, From
  <2> DEFINE a == FirstOf(t, p)
  <2>2. a \in Seq(Chars)
    <3> HIDE DEF p, n
    <3>1. p \in 0 .. Len(t)
      BY ONLY <1>1, <1>5
    <3> QED
      BY ONLY <1>1, <3>1, FirstOfIs
  <2> HIDE DEF a
  <2>3. a \o <<>> = a
    BY ONLY <2>2, ConcatEmptySeq
  <2> HIDE DEF p, q
  <2> QED
    BY ONLY <2>1, <2>3 DEF Replaced, a
<1>7. /\ iter = iter_at_char_pos(node, r, p) /\ at = Handle(node, num_chars[r], num_bytes[r])
      /\ new = rope_del_at_iter(r, at, iter, len) /\ q = p + len /\ none = <<>>
  OBVIOUS
<1> HIDE DEF iter, at, p, len, new, q, none
<1> DEFINE chars2 == Set(num_chars, r, new.chars)
           bytes2 == Set(num_bytes, r, new.bytes)
<1>8. node' = new.nd /\ num_chars' = chars2 /\ num_bytes' = bytes2
  BY ONLY <1>2, BecomesIs
<1>9. chars2 = Set(num_chars, r, new.chars) /\ bytes2 = Set(num_bytes, r, new.bytes)
  OBVIOUS
<1> HIDE DEF chars2, bytes2
<1>10. node[r] # FreeBlock /\ p + len <= num_chars[r]
  BY ONLY <1>5, Live(r) DEF Live
<1>11. Turns(node, num_chars, num_bytes, r, new.nd, chars2, bytes2, Replaced(t, p, q, none))
  BY ONLY <1>3, <1>4, <1>7, <1>9, <1>10, DelGood, HeapAssumption, r \in Ropes,
     Good(node, num_chars, num_bytes), t = TextIn(node)[r]
<1> QED
  BY ONLY <1>6, <1>8, <1>11 DEF Changes

(* The operations, each for what it makes of the text of its rope.         *)
LEMMA NewChanges ==
  ASSUME HeapAssumption, Good(node, num_chars, num_bytes), NEW r \in Ropes, rope_new2(r),
         NEW none, none = <<>>
  PROVE  Changes(r, none)
<1> DEFINE nd2 == Set(node, r, EmptyHead)
           chars2 == Set(num_chars, r, 0)
           bytes2 == Set(num_bytes, r, 0)
<1>1. node[r] = FreeBlock /\ node' = nd2 /\ num_chars' = chars2 /\ num_bytes' = bytes2
  BY ONLY rope_new2(r) DEF rope_new2, Becomes, Live, Set
<1>2. nd2 = Set(node, r, EmptyHead) /\ chars2 = Set(num_chars, r, 0) /\ bytes2 = Set(num_bytes, r, 0)
  OBVIOUS
<1> HIDE DEF nd2, chars2, bytes2
<1>3. Turns(node, num_chars, num_bytes, r, nd2, chars2, bytes2, none)
  BY ONLY <1>1, <1>2, NewIs, HeapAssumption, Good(node, num_chars, num_bytes), r \in Ropes, none = <<>>
<1> QED
  BY ONLY <1>1, <1>3 DEF Changes

LEMMA FreeChanges ==
  ASSUME HeapAssumption, Good(node, num_chars, num_bytes), NEW r \in Ropes, rope_free(r)
  PROVE  Changes(r, NoRope)
<1> DEFINE freed == BehindIn(node)[r] \cup {r}
           nd2 == Without(node, freed)
           chars2 == Set(num_chars, r, 0)
           bytes2 == Set(num_bytes, r, 0)
<1>1. /\ node[r] # FreeBlock /\ node' = Without(node, Behind[r] \cup {r})
      /\ num_chars' = chars2 /\ num_bytes' = bytes2
  BY ONLY rope_free(r) DEF rope_free, Becomes, Live, Set, Without
<1>2. node' = nd2
  BY ONLY <1>1, Reads
<1>3. /\ nd2 = Without(node, BehindIn(node)[r] \cup {r})
      /\ chars2 = Set(num_chars, r, 0) /\ bytes2 = Set(num_bytes, r, 0)
  OBVIOUS
<1> HIDE DEF nd2, chars2, bytes2
<1>4. Turns(node, num_chars, num_bytes, r, nd2, chars2, bytes2, NoRope)
  BY ONLY <1>1, <1>3, FreeIs, HeapAssumption, Good(node, num_chars, num_bytes), r \in Ropes
<1> QED
  BY ONLY <1>1, <1>2, <1>4 DEF Changes

LEMMA CopyChanges ==
  ASSUME HeapAssumption, Good(node, num_chars, num_bytes), NEW r \in Ropes, NEW other \in Ropes,
         rope_copy(r, other), NEW t, t = TextIn(node)[other]
  PROVE  Changes(r, t)
<1> DEFINE S == Behind[other]
           f == Blockwise(S)
           nd2 == HeapCopy(node, S, f, r, other)
           chars2 == Set(num_chars, r, num_chars[other])
           bytes2 == Set(num_bytes, r, num_bytes[other])
<1>0. /\ ~Live(r) /\ Live(other)
      /\ Becomes(r, [nd |-> nd2, chars |-> num_chars[other], bytes |-> num_bytes[other]])
  BY ONLY rope_copy(r, other), ZenonT(60) DEF rope_copy, HeapCopy, Origins, NameOf, CellCopy
<1>1. /\ node[r] = FreeBlock /\ node[other] # FreeBlock
      /\ num_chars' = chars2 /\ num_bytes' = bytes2 /\ node' = nd2
  <2> HIDE DEF nd2
  <2> QED
    BY ONLY <1>0 DEF Becomes, Live, Set
<1>3. S = BehindIn(node)[other]
  BY ONLY Reads
<1>4. f = Fresh(node, S)
  BY ONLY DEF Blockwise, Fresh
<1>5. /\ nd2 = HeapCopy(node, S, f, r, other)
      /\ chars2 = Set(num_chars, r, num_chars[other]) /\ bytes2 = Set(num_bytes, r, num_bytes[other])
  OBVIOUS
<1> HIDE DEF S, f, nd2, chars2, bytes2
<1>6. Turns(node, num_chars, num_bytes, r, nd2, chars2, bytes2, t)
  BY ONLY <1>1, <1>3, <1>4, <1>5, CopyGood, HeapAssumption, Good(node, num_chars, num_bytes),
     r \in Ropes, other \in Ropes, t = TextIn(node)[other]
<1> QED
  BY ONLY <1>1, <1>6 DEF Changes

LEMMA CalledChanges ==
  ASSUME HeapAssumption, Good(node, num_chars, num_bytes), CallOK(node, num_chars, call), Called
  PROVE  /\ call \in Calls /\ call.of \in Ropes /\ Live(call.of) /\ call' = NoCall
         /\ Changes(call.of, Result(call, TextIn(node)[call.of]))
<1> DEFINE c == call
           r == c.of
           t == TextIn(node)[r]
<1>1. c # NoCall
  <2>1. c = NoCall => c.do = "nothing"
    BY ONLY DEF NoCall
  <2> QED
    BY ONLY <2>1, Called DEF Called
<1>2. /\ c \in Calls /\ node[r] # FreeBlock
      /\ c.do = "insert" /\ Valid(c.str) => num_chars[r] + Len(c.str) <= MaxChars
  BY ONLY <1>1, CallOK(node, num_chars, call) DEF CallOK
<1>3. call' = NoCall
  BY ONLY Called DEF Called
<1>4. /\ r \in Ropes /\ c.pos \in Nat
      /\ c.do = "insert" => c.str \in Strings
      /\ c.do = "del" => c.length \in Nat
  <2> HIDE DEF c
  <2> QED
    BY ONLY <1>2, CallIs
<1>5. \/ c.do = "insert" /\ rope_insert(r, c.pos, c.str)
      \/ c.do = "del" /\ rope_del(r, c.pos, c.length)
  BY ONLY Called DEF Called
<1>6. Live(r) /\ t = TextIn(node)[r]
  BY ONLY <1>2 DEF Live
<1>7. CASE c.do = "insert" /\ rope_insert(r, c.pos, c.str)
  <2> DEFINE s == c.str
             pos == c.pos
  <2>1. /\ s \in Strings /\ pos \in Nat /\ rope_insert(r, pos, s)
        /\ Valid(s) => num_chars[r] + Len(s) <= MaxChars
    BY ONLY <1>2, <1>4, <1>7
  <2> HIDE DEF r, t, s, pos
  <2>2. Changes(r, IF Valid(s) THEN RT!Spliced(t, pos, s) ELSE t)
    BY ONLY <1>4, <1>6, <2>1, InsertChanges, HeapAssumption, Good(node, num_chars, num_bytes)
  <2>3. Result(c, t) = IF Valid(s) THEN RT!Spliced(t, pos, s) ELSE t
    BY ONLY <1>7 DEF Result, s, pos
  <2>4. Changes(r, Result(c, t))
    BY ONLY <2>2, <2>3
  <2> QED
    BY ONLY <1>2, <1>3, <1>4, <1>6, <2>4 DEF r, t
<1>8. CASE c.do = "del" /\ rope_del(r, c.pos, c.length)
  <2> DEFINE length == c.length
             pos == c.pos
  <2>1. length \in Nat /\ pos \in Nat /\ rope_del(r, pos, length)
    BY ONLY <1>4, <1>8
  <2> HIDE DEF r, t, length, pos
  <2>2. Changes(r, RT!Cut(t, pos, length))
    BY ONLY <1>4, <1>6, <2>1, DelChanges, HeapAssumption, Good(node, num_chars, num_bytes)
  <2>3. Result(c, t) = RT!Cut(t, pos, length)
    BY ONLY <1>8 DEF Result, length, pos
  <2>4. Changes(r, Result(c, t))
    BY ONLY <2>2, <2>3
  <2> QED
    BY ONLY <1>2, <1>3, <1>4, <1>6, <2>4 DEF r, t
<1> QED
  BY ONLY <1>5, <1>7, <1>8

(* What a change leaves of the other ropes and of the changed one.         *)
LEMMA ChangesIs ==
  ASSUME NEW r \in Ropes, NEW t, Changes(r, t)
  PROVE  /\ Good(node', num_chars', num_bytes')
         /\ TextIn(node') = [TextIn(node) EXCEPT ![r] = t]
         /\ TextIn(node')[r] = t /\ \A s \in Ropes : s # r => TextIn(node')[s] = TextIn(node)[s]
<1> DEFINE txt == TextIn(node)
           txt2 == TextIn(node')
<1>1. Good(node', num_chars', num_bytes') /\ txt2 = [txt EXCEPT ![r] = t]
  BY ONLY Changes(r, t) DEF Changes, Turns
<1>2. txt = [s \in Ropes |-> txt[s]]
  BY ONLY DEF TextIn
<1> HIDE DEF txt, txt2
<1>3. txt2[r] = t /\ \A s \in Ropes : s # r => txt2[s] = txt[s]
  BY ONLY <1>1, <1>2, r \in Ropes
<1> QED
  BY ONLY <1>1, <1>3 DEF txt, txt2
-----------------------------------------------------------------------------
(* What the shapes say in the words of the invariants.                     *)
LEMMA LinkTyped ==
  ASSUME HeapAssumption, NEW nd, NEW r \in Ropes, NEW g, NEW t, Shape(nd, r, g, t),
         NEW x \in g.nodes, NEW i \in 1 .. g.tall[x], NEW link, link = nd[x].nexts[i]
  PROVE  /\ link.node \in (g.nodes \ {r}) \cup {NULL}
         /\ link \in [node : Blocks \cup {NULL}, skip_size : Nat]
         /\ i = g.tall[r] => link = Link(NULL, Len(t))
<1>1. /\ Row(g, r, Len(t)) /\ Linked(nd, g, Len(t)) /\ Len(t) \in Nat /\ r \in g.nodes /\ g.start[r] = 0
      /\ \A y \in g.nodes : g.start[y] \in Nat /\ g.end[y] \in Nat /\ g.tall[y] \in Nat
                            /\ g.start[y] <= g.end[y] /\ g.end[y] <= Len(t)
      /\ \A y \in g.nodes \ {r} : y \in Blocks /\ g.tall[y] < g.tall[r]
  BY ONLY Shape(nd, r, g, t), ShapeIs
<1>2. /\ \A y, z \in g.nodes : g.end[y] < g.end[z] => g.start[y] <= g.start[z]
      /\ \A y \in g.nodes \ {r} : g.end[r] < g.end[y]
  BY ONLY <1>1, RowOrder
<1>3. LinkFor(g, Len(t), x, i, link)
  BY ONLY <1>1, link = nd[x].nexts[i], x \in g.nodes, i \in 1 .. g.tall[x] DEF Linked
<1>4. i \in Nat /\ i <= g.tall[x]
  BY ONLY <1>1, x \in g.nodes, i \in 1 .. g.tall[x]
<1>5. CASE \E y \in g.nodes : NextAt(g, x, i, y) /\ link = Link(y, g.start[y] - g.start[x])
  <2>1. PICK y \in g.nodes : NextAt(g, x, i, y) /\ link = Link(y, g.start[y] - g.start[x])
    BY ONLY <1>5
  <2>2. g.tall[y] >= i /\ g.end[x] < g.end[y]
    BY ONLY <2>1 DEF NextAt
  <2>3. y # r
    BY ONLY <1>1, <1>2, <2>2, x \in g.nodes
  <2>4. g.start[y] - g.start[x] \in Nat
    <3> DEFINE a == g.start[x]
               b == g.end[x]
               p == g.start[y]
               q == g.end[y]
    <3>1. b < q => a <= p
      BY ONLY <1>2, x \in g.nodes, y \in g.nodes
    <3>2. a \in Nat /\ p \in Nat /\ b < q
      BY ONLY <1>1, <2>2, x \in g.nodes, y \in g.nodes
    <3> HIDE DEF a, b, p, q
    <3>3. p - a \in Nat
      BY ONLY <3>1, <3>2
    <3> QED
      BY ONLY <3>3 DEF a, p
  <2>5. i # g.tall[r] /\ y \in Blocks
    BY ONLY <1>1, <1>4, <2>2, <2>3, y \in g.nodes
  <2>6. link.node = y
    BY ONLY <2>1 DEF Link
  <2>7. link \in [node : Blocks \cup {NULL}, skip_size : Nat]
    BY ONLY <2>1, <2>4, <2>5 DEF Link
  <2> QED
    BY ONLY <2>3, <2>5, <2>6, <2>7, y \in g.nodes
<1>6. CASE NoneAt(g, x, i) /\ link = Link(NULL, Len(t) - g.start[x])
  <2>1. Len(t) - g.start[x] \in Nat
    BY ONLY <1>1, x \in g.nodes
  <2>2. link \in [node : Blocks \cup {NULL}, skip_size : Nat] /\ link.node = NULL
    BY ONLY <1>6, <2>1 DEF Link
  <2>3. i = g.tall[r] => x = r
    BY ONLY <1>1, <1>4, x \in g.nodes
  <2>4. x = r => Len(t) - g.start[x] = Len(t)
    BY ONLY <1>1
  <2> QED
    BY ONLY <1>6, <2>2, <2>3, <2>4
<1> QED
  BY ONLY <1>3, <1>5, <1>6 DEF LinkFor

LEMMA NodeTyped ==
  ASSUME HeapAssumption, NEW nd, NEW r \in Ropes, NEW g, NEW t, Shape(nd, r, g, t), NEW x \in g.nodes
  PROVE  nd[x] \in Nodes /\ Len(nd[x].nexts) \in 1 .. ROPE_MAX_HEIGHT
<1> DEFINE c == nd[x]
           k == g.tall[x]
<1>1. /\ k \in Nat /\ k >= 1 /\ k <= g.tall[r] /\ g.tall[r] \in Nat /\ g.tall[r] <= ROPE_MAX_HEIGHT
      /\ Cell(c, k)
  BY ONLY Shape(nd, r, g, t), ShapeIs, x \in g.nodes
<1>2. \A i \in 1 .. k : c.nexts[i] \in [node : Blocks \cup {NULL}, skip_size : Nat]
  BY ONLY LinkTyped, HeapAssumption, r \in Ropes, Shape(nd, r, g, t), x \in g.nodes
<1> HIDE DEF c, k
<1>3. /\ Boxed(c, k) /\ c.str \in Seq(Chars) /\ c.num_bytes = Bytes(c.str)
      /\ Bytes(c.str) <= ROPE_NODE_STR_SIZE /\ Bytes(c.str) \in Nat
      /\ c.nexts = [i \in 1 .. k |-> c.nexts[i]] /\ Len(c.nexts) = k
  BY ONLY <1>1, CellIs
<1>4. c = [str |-> c.str, num_bytes |-> c.num_bytes, nexts |-> c.nexts]
  BY ONLY <1>1, <1>3, BoxedIs
<1>5. ROPE_NODE_STR_SIZE \in Nat /\ ROPE_MAX_HEIGHT \in Nat
  BY ONLY RopeAssumption DEF RopeAssumption
<1> DEFINE L == [node : Blocks \cup {NULL}, skip_size : Nat]
<1>6. c.nexts \in Seq(L)
  <2> HIDE DEF L
  <2>1. \A i \in 1 .. k : c.nexts[i] \in L
    BY ONLY <1>2 DEF L
  <2>2. c.nexts \in [1 .. k -> L]
    BY ONLY <1>3, <2>1
  <2> QED
    BY ONLY <1>1, <2>2
<1>7. c.num_bytes \in 0 .. ROPE_NODE_STR_SIZE
  BY ONLY <1>3, <1>5
<1>8. c \in Nodes
  BY ONLY <1>3, <1>4, <1>6, <1>7 DEF Nodes
<1>9. k \in 1 .. ROPE_MAX_HEIGHT
  BY ONLY <1>1, <1>5
<1> QED
  BY ONLY <1>3, <1>8, <1>9 DEF c

LEMMA TypesFollow ==
  ASSUME HeapAssumption, Good(node, num_chars, num_bytes)
  PROVE  TypeOK
<1>1. PICK lay : Fine(node, lay, TextIn(node))
  BY ONLY Good(node, num_chars, num_bytes) DEF Good
<1>2. Counted(TextIn(node), num_chars, num_bytes)
  BY ONLY Good(node, num_chars, num_bytes) DEF Good
<1>3. ASSUME NEW x \in Blocks \cup Ropes, node[x] # FreeBlock
      PROVE  node[x] \in Nodes /\ height(node, x) \in 1 .. ROPE_MAX_HEIGHT
  <2>1. x \in Used(node)
    BY ONLY <1>3 DEF Used
  <2>2. PICK r : Belongs(node, lay, r, x)
    BY ONLY <1>1, <2>1, FineIs, HeapAssumption
  <2> DEFINE g == lay[r]
             t == TextIn(node)[r]
  <2>3. r \in Ropes /\ x \in g.nodes /\ Shape(node, r, g, t)
    BY ONLY <1>1, <2>2 DEF Belongs, Fine
  <2> HIDE DEF g, t
  <2> QED
    BY ONLY <2>3, NodeTyped, HeapAssumption DEF height
<1>4. ASSUME NEW r \in Ropes PROVE num_chars[r] \in Nat /\ num_bytes[r] \in Nat
  <2> DEFINE t == TextIn(node)[r]
  <2>1. Sized(t, num_chars[r], num_bytes[r])
    BY ONLY <1>2, r \in Ropes DEF Counted
  <2> HIDE DEF t
  <2>2. CASE t \in Seq(Chars) /\ num_chars[r] = Len(t) /\ num_bytes[r] = Bytes(t)
    BY ONLY <2>2, BytesIs
  <2> QED
    BY ONLY <2>1, <2>2 DEF Sized
<1>5. /\ num_chars = [r \in Ropes |-> num_chars[r]] /\ num_bytes = [r \in Ropes |-> num_bytes[r]]
  BY ONLY <1>2 DEF Counted
<1>6. num_chars \in [Ropes -> Nat] /\ num_bytes \in [Ropes -> Nat]
  BY ONLY <1>4, <1>5
<1> QED
  BY ONLY <1>3, <1>6 DEF TypeOK

LEMMA OwnersFollow ==
  ASSUME HeapAssumption, Good(node, num_chars, num_bytes)
  PROVE  OneOwner
<1>1. PICK lay : Fine(node, lay, TextIn(node))
  BY ONLY Good(node, num_chars, num_bytes) DEF Good
<1>2. ASSUME NEW r \in Ropes, node[r] # FreeBlock
      PROVE  /\ Shape(node, r, lay[r], TextIn(node)[r])
             /\ Behind[r] \cup {r} = lay[r].nodes /\ Behind[r] = lay[r].nodes \ {r}
  <2>1. BehindIn(node)[r] \cup {r} = lay[r].nodes /\ BehindIn(node)[r] = lay[r].nodes \ {r}
    BY ONLY <1>1, <1>2, AllBehind, HeapAssumption
  <2> QED
    BY ONLY <1>1, <1>2, <2>1, Reads DEF Fine
<1>3. ASSUME NEW r \in Ropes, Live(r), NEW x \in Behind[r] \cup {r}, NEW i \in DOMAIN node[x].nexts
      PROVE  node[x].nexts[i].node \in Behind[r] \cup {NULL}
  <2> DEFINE g == lay[r]
             t == TextIn(node)[r]
  <2>1. /\ Shape(node, r, g, t)
        /\ Behind[r] \cup {r} = g.nodes /\ Behind[r] = g.nodes \ {r}
    BY ONLY <1>2, <1>3 DEF Live
  <2> HIDE DEF g, t
  <2>2. x \in g.nodes
    BY ONLY <1>3, <2>1
  <2>3. DOMAIN node[x].nexts = 1 .. g.tall[x]
    BY ONLY <2>1, <2>2, ShapeIs
  <2> DEFINE link == node[x].nexts[i]
  <2>4. i \in 1 .. g.tall[x] /\ link = node[x].nexts[i]
    BY ONLY <1>3, <2>3
  <2> HIDE DEF link
  <2>5. link.node \in (g.nodes \ {r}) \cup {NULL}
    BY ONLY <2>1, <2>2, <2>4, LinkTyped, HeapAssumption, r \in Ropes
  <2> QED
    BY ONLY <2>1, <2>5 DEF link
<1>4. ASSUME NEW x \in Blocks, node[x] # FreeBlock
      PROVE  Cardinality({r \in Ropes : Live(r) /\ x \in Behind[r]}) = 1
  <2>1. x \in Used(node) /\ x \notin Ropes
    BY ONLY <1>4, HeapAssumption DEF Used, HeapAssumption
  <2>2. PICK r : Belongs(node, lay, r, x)
    BY ONLY <1>1, <2>1, FineIs, HeapAssumption
  <2> DEFINE owners == {s \in Ropes : Live(s) /\ x \in Behind[s]}
  <2>3. r \in owners
    <3>1. r \in Ropes /\ node[r] # FreeBlock /\ x \in lay[r].nodes /\ x # r
      BY ONLY <2>1, <2>2 DEF Belongs
    <3>2. x \in Behind[r]
      BY ONLY <1>2, <3>1
    <3> QED
      BY ONLY <3>1, <3>2 DEF Live
  <2>4. ASSUME NEW s \in owners PROVE s = r
    <3>1. s \in Ropes /\ node[s] # FreeBlock /\ x \in Behind[s]
      BY ONLY <2>4 DEF Live
    <3>2. x \in lay[s].nodes
      BY ONLY <1>2, <3>1
    <3>3. Belongs(node, lay, s, x)
      BY ONLY <3>1, <3>2 DEF Belongs
    <3> QED
      BY ONLY <1>1, <2>2, <3>3, FineIs, HeapAssumption
  <2> HIDE DEF owners
  <2>5. owners = {r}
    BY ONLY <2>3, <2>4
  <2>6. Cardinality(owners) = 1
    BY ONLY <2>5, FS_Singleton
  <2> QED
    BY ONLY <2>6 DEF owners
<1> QED
  BY ONLY <1>3, <1>4 DEF OneOwner

(* _rope_check of a rope, of which each node x has behind[x] behind it and *)
(* written[x] from it on.                                                  *)
LinkReads(link, tall, B, W, x) ==
  IF tall = {} THEN link = Link(NULL, Len(W[x]))
  ELSE /\ link.node \in tall /\ tall \subseteq {link.node} \cup B[link.node]
       /\ link.skip_size = Len(W[x]) - Len(W[link.node])
Shows(B, W, g, t) == \A x \in g.nodes : B[x] = After(g, x) /\ W[x] = From(t, g.start[x])
Tall(nd, B, x, i) == {y \in B[x] : height(nd, y) >= i}

LEMMA LevelFollows ==
  ASSUME HeapAssumption, NEW nd, NEW r \in Ropes, NEW g, NEW t, Shape(nd, r, g, t),
         NEW B, NEW W, Shows(B, W, g, t),
         NEW x \in g.nodes, NEW i \in 1 .. g.tall[x], NEW link, link = nd[x].nexts[i],
         NEW tall, tall = Tall(nd, B, x, i)
  PROVE  LinkReads(link, tall, B, W, x)
<1>0. /\ \A z \in g.nodes : B[z] = After(g, z) /\ W[z] = From(t, g.start[z])
      /\ tall = {y \in B[x] : height(nd, y) >= i}
  BY ONLY Shows(B, W, g, t), tall = Tall(nd, B, x, i) DEF Shows, Tall
<1>1. /\ Row(g, r, Len(t)) /\ Linked(nd, g, Len(t)) /\ Len(t) \in Nat /\ t \in Seq(Chars)
      /\ \A y \in g.nodes : g.start[y] \in Nat /\ g.end[y] \in Nat /\ g.tall[y] \in Nat
                            /\ g.start[y] <= g.end[y] /\ g.end[y] <= Len(t)
                            /\ Len(nd[y].nexts) = g.tall[y]
  BY ONLY Shape(nd, r, g, t), ShapeIs
<1>2. \A y, z \in g.nodes : y # z => g.end[y] # g.end[z]
  BY ONLY <1>1, RowOrder
<1>3. LinkFor(g, Len(t), x, i, link)
  BY ONLY <1>1, link = nd[x].nexts[i], x \in g.nodes, i \in 1 .. g.tall[x] DEF Linked
<1>4. i \in Nat
  BY ONLY <1>1, x \in g.nodes, i \in 1 .. g.tall[x]
<1>5. \A y \in g.nodes : Len(W[y]) = Len(t) - g.start[y]
  <2>1. ASSUME NEW y \in g.nodes PROVE Len(W[y]) = Len(t) - g.start[y]
    <3> DEFINE n == g.start[y]
    <3>1. n \in 0 .. Len(t) /\ W[y] = From(t, n)
      BY ONLY <1>0, <1>1, y \in g.nodes
    <3> HIDE DEF n
    <3>2. Len(From(t, n)) = Len(t) - n
      BY ONLY <1>1, <3>1, FromIs
    <3> QED
      BY ONLY <3>1, <3>2 DEF n
  <2> QED
    BY ONLY <2>1
<1>6. \A y : y \in tall <=> y \in g.nodes /\ g.end[x] < g.end[y] /\ g.tall[y] >= i
  BY ONLY <1>0, <1>1, x \in g.nodes DEF After, height
<1>7. CASE \E y \in g.nodes : NextAt(g, x, i, y) /\ link = Link(y, g.start[y] - g.start[x])
  <2>1. PICK y \in g.nodes : NextAt(g, x, i, y) /\ link = Link(y, g.start[y] - g.start[x])
    BY ONLY <1>7
  <2>2. /\ g.tall[y] >= i /\ g.end[x] < g.end[y]
        /\ \A z \in g.nodes : g.tall[z] >= i /\ g.end[x] < g.end[z] => g.end[y] <= g.end[z]
    BY ONLY <2>1 DEF NextAt
  <2>3. link.node = y /\ link.skip_size = g.start[y] - g.start[x]
    BY ONLY <2>1 DEF Link
  <2>4. y \in tall
    BY ONLY <1>6, <2>2, y \in g.nodes
  <2>5. ASSUME NEW z \in tall, z # y PROVE z \in B[y]
    <3>1. z \in g.nodes /\ g.end[y] <= g.end[z] /\ g.end[y] # g.end[z]
      BY ONLY <1>2, <1>6, <2>2, <2>5, y \in g.nodes
    <3>2. g.end[y] < g.end[z]
      BY ONLY <1>1, <3>1, y \in g.nodes
    <3>3. B[y] = After(g, y)
      BY ONLY <1>0, y \in g.nodes
    <3> QED
      BY ONLY <3>1, <3>2, <3>3 DEF After
  <2>6. tall \subseteq {y} \cup B[y]
    BY ONLY <2>5
  <2>7. Len(W[x]) - Len(W[y]) = g.start[y] - g.start[x]
    <3> DEFINE a == g.start[x]
               p == g.start[y]
               m == Len(W[x])
               n == Len(W[y])
               k == Len(t)
    <3>1. a \in Nat /\ p \in Nat /\ k \in Nat /\ m = k - a /\ n = k - p
      BY ONLY <1>1, <1>5, x \in g.nodes, y \in g.nodes
    <3> HIDE DEF a, p, m, n, k
    <3>2. m - n = p - a
      BY ONLY <3>1
    <3> QED
      BY ONLY <3>2 DEF a, p, m, n
  <2>8. tall # {}
    BY ONLY <2>4
  <2> QED
    BY ONLY <2>3, <2>4, <2>6, <2>7, <2>8 DEF LinkReads
<1>8. CASE NoneAt(g, x, i) /\ link = Link(NULL, Len(t) - g.start[x])
  <2>1. tall = {}
    <3>1. ASSUME NEW y \in tall PROVE FALSE
      <4>1. y \in g.nodes /\ g.end[x] < g.end[y] /\ g.tall[y] >= i
        BY ONLY <1>6, <3>1
      <4>2. g.end[y] <= g.end[x]
        BY ONLY <1>8, <4>1 DEF NoneAt
      <4> QED
        BY ONLY <1>1, <4>1, <4>2, x \in g.nodes
    <3> QED
      BY ONLY <3>1
  <2>2. Len(W[x]) = Len(t) - g.start[x]
    BY ONLY <1>5, x \in g.nodes
  <2> QED
    BY ONLY <1>8, <2>1, <2>2 DEF LinkReads
<1> QED
  BY ONLY <1>3, <1>7, <1>8 DEF LinkFor

RopeFine(r) ==
  LET text == rope_write_cstr(r)
  IN  /\ num_chars[r] = Len(text) /\ num_bytes[r] = Bytes(text)
      /\ node[r].nexts[height(node, r)] = Link(NULL, num_chars[r])
      /\ \A x \in Behind[r] : node[x].str # <<>>
      /\ \A x \in Behind[r] \cup {r} : node[x].num_bytes = Bytes(node[x].str)
      /\ LevelsAgree(r)

LEMMA RopeFineFollows ==
  ASSUME HeapAssumption, Good(node, num_chars, num_bytes), NEW r \in Ropes, Live(r)
  PROVE  RopeFine(r)
<1>1. PICK lay : Fine(node, lay, TextIn(node))
  BY ONLY Good(node, num_chars, num_bytes) DEF Good
<1>2. Counted(TextIn(node), num_chars, num_bytes)
  BY ONLY Good(node, num_chars, num_bytes) DEF Good
<1> DEFINE g == lay[r]
           t == TextIn(node)[r]
           text == rope_write_cstr(r)
<1>3. node[r] # FreeBlock
  BY ONLY Live(r) DEF Live
<1>4. text = t
  BY ONLY <1>3, Reads, r \in Ropes DEF rope_write_cstr, TextIn
<1>5. Behind[r] \cup {r} = g.nodes /\ Behind[r] = g.nodes \ {r}
  <2>1. BehindIn(node)[r] \cup {r} = lay[r].nodes /\ BehindIn(node)[r] = lay[r].nodes \ {r}
    BY ONLY <1>1, <1>3, AllBehind, HeapAssumption, r \in Ropes
  <2> QED
    BY ONLY <2>1, Reads
<1>6. \A x \in g.nodes : Behind[x] = After(g, x) /\ Written[x] = From(t, g.start[x])
  <2>1. \A x \in lay[r].nodes :
           /\ x \in Used(node)
           /\ BehindIn(node)[x] = After(lay[r], x)
           /\ WrittenIn(node)[x] = From(TextIn(node)[r], lay[r].start[x])
    BY ONLY <1>1, <1>3, Reached, HeapAssumption, r \in Ropes
  <2> QED
    BY ONLY <2>1, Reads
<1>7. Shape(node, r, g, t) /\ num_chars[r] = Len(t) /\ num_bytes[r] = Bytes(t)
  <2> HIDE DEF g, t
  <2>1. g = lay[r] /\ t = TextIn(node)[r]
    BY ONLY DEF g, t
  <2> QED
    BY ONLY <1>1, <1>2, <1>3, <2>1, GoodLive, HeapAssumption, r \in Ropes
<1> HIDE DEF g, t, text
<1>8. /\ r \in g.nodes /\ g.tall[r] \in Nat
      /\ \A x \in g.nodes :
           /\ g.start[x] \in Nat /\ g.end[x] \in Nat /\ g.tall[x] \in Nat /\ g.tall[x] >= 1
           /\ node[x].str \in Seq(Chars) /\ node[x].num_bytes = Bytes(node[x].str)
           /\ Len(node[x].str) = g.end[x] - g.start[x]
           /\ Len(node[x].nexts) = g.tall[x]
      /\ \A x \in g.nodes \ {r} : g.start[x] < g.end[x]
  BY ONLY <1>7, ShapeIs
<1>9. node[r].nexts[height(node, r)] = Link(NULL, num_chars[r])
  <2> DEFINE i == g.tall[r]
             link == node[r].nexts[i]
  <2>1. i \in 1 .. g.tall[r] /\ link = node[r].nexts[i] /\ i = g.tall[r]
    BY ONLY <1>8
  <2> HIDE DEF link, i
  <2>2. i = g.tall[r] => link = Link(NULL, Len(t))
    BY ONLY <1>7, <1>8, <2>1, LinkTyped, HeapAssumption, r \in Ropes
  <2>3. height(node, r) = i
    BY ONLY <1>8, <2>1 DEF height
  <2> QED
    BY ONLY <1>7, <2>1, <2>2, <2>3
<1>10. ASSUME NEW x \in Behind[r] PROVE node[x].str # <<>>
  <2>1. x \in g.nodes \ {r}
    BY ONLY <1>5, <1>10
  <2>2. Len(node[x].str) # 0
    BY ONLY <1>8, <2>1
  <2> QED
    BY ONLY <2>2
<1>11. \A x \in Behind[r] \cup {r} : node[x].num_bytes = Bytes(node[x].str)
  BY ONLY <1>5, <1>8
<1>12. LevelsAgree(r)
  <2>1. ASSUME NEW x \in Behind[r] \cup {r}, NEW i \in 1 .. height(node, x)
        PROVE  LinkReads(node[x].nexts[i], Tall(node, Behind, x, i), Behind, Written, x)
    <3>1. x \in g.nodes
      BY ONLY <1>5, <2>1
    <3>2. i \in 1 .. g.tall[x]
      BY ONLY <1>8, <2>1, <3>1 DEF height
    <3> DEFINE link == node[x].nexts[i]
               tall == Tall(node, Behind, x, i)
               B == Behind
               W == Written
    <3>3. link = node[x].nexts[i] /\ tall = Tall(node, B, x, i)
      OBVIOUS
    <3>4. Shows(B, W, g, t)
      BY ONLY <1>6 DEF Shows
    <3> HIDE DEF link, tall, B, W
    <3>5. LinkReads(link, tall, B, W, x)
      BY ONLY <1>7, <3>1, <3>2, <3>3, <3>4, LevelFollows, HeapAssumption, r \in Ropes
    <3> QED
      BY ONLY <3>5 DEF link, tall, B, W
  <2> QED
    BY ONLY <2>1, Zenon DEF LevelsAgree, LinkReads, Tall
<1> QED
  BY ONLY <1>4, <1>7, <1>9, <1>10, <1>11, <1>12 DEF text, RopeFine

LEMMA CheckFollows ==
  ASSUME HeapAssumption, Good(node, num_chars, num_bytes)
  PROVE  RopeCheck
<1>1. ASSUME NEW r \in Ropes, call = NoCall /\ Live(r) PROVE RopeFine(r)
  BY ONLY <1>1, RopeFineFollows, HeapAssumption, Good(node, num_chars, num_bytes)
<1> QED
  BY ONLY <1>1, Zenon DEF RopeCheck, RopeFine

-----------------------------------------------------------------------------
(* The invariant: every rope's nodes form a row that its text fills, what  *)
(* the call under way asks for is in order, and a string_class_set under   *)
(* way is about to clear its string or to fill it, empty as it is.         *)
SettingOK(nd, chars, c, set) ==
  \/ set = NoText
  \/ /\ set.of \in Ropes /\ set.str \in Texts /\ nd[set.of] # FreeBlock
     /\ \/ c = NoCall /\ TextIn(nd)[set.of] = <<>>
        \/ /\ c.do = "insert" /\ c.of = set.of /\ c.pos = 0 /\ c.str = set.str
           /\ TextIn(nd)[set.of] = <<>>
        \/ c.do = "del" /\ c.of = set.of /\ c.pos = 0 /\ c.length = chars[set.of]

StringInv ==
  /\ Good(node, num_chars, num_bytes) /\ CallOK(node, num_chars, call)
  /\ SettingOK(node, num_chars, call, setting)

(* What a step has to establish.                                           *)
StringInvNext ==
  /\ Good(node', num_chars', num_bytes') /\ CallOK(node', num_chars', call')
  /\ SettingOK(node', num_chars', call', setting')

LEMMA LiveText ==
  ASSUME HeapAssumption, NEW nd, NEW chars, NEW bytes, Good(nd, chars, bytes), NEW r \in Ropes,
         NEW t, t = TextIn(nd)[r]
  PROVE  /\ nd[r] = FreeBlock => t = NoRope
         /\ nd[r] # FreeBlock => t # NoRope /\ t \in Seq(Chars) /\ chars[r] = Len(t)
<1>1. PICK lay : Fine(nd, lay, TextIn(nd))
  BY ONLY Good(nd, chars, bytes) DEF Good
<1>2. Counted(TextIn(nd), chars, bytes)
  BY ONLY Good(nd, chars, bytes) DEF Good
<1>3. nd[r] = FreeBlock => t = NoRope
  BY ONLY r \in Ropes, t = TextIn(nd)[r] DEF TextIn
<1>4. CASE nd[r] # FreeBlock
  <2> DEFINE g == lay[r]
  <2>1. g = lay[r]
    OBVIOUS
  <2> HIDE DEF g
  <2>2. t \in Seq(Chars) /\ chars[r] = Len(t)
    BY ONLY <1>1, <1>2, <1>4, <2>1, GoodLive, HeapAssumption, r \in Ropes, t = TextIn(nd)[r]
  <2>3. NoRope \notin Seq(Chars)
    BY ONLY HeapAssumption DEF HeapAssumption
  <2> QED
    BY ONLY <1>4, <2>2, <2>3
<1> QED
  BY ONLY <1>3, <1>4

LEMMA CutAll ==
  ASSUME NEW t \in Seq(Chars), NEW n, n = Len(t)
  PROVE  RT!Cut(t, 0, n) = <<>>
<1>1. n \in Nat
  BY ONLY n = Len(t), t \in Seq(Chars)
<1>2. RT!Minimum(0, n) = 0 /\ RT!Minimum(n, n - 0) = n
  BY ONLY <1>1 DEF RT!Minimum
<1>3. RT!Cut(t, 0, n) = SubSeq(t, 1, 0) \o SubSeq(t, 0 + n + 1, n)
  BY ONLY <1>2, n = Len(t) DEF RT!Cut
<1>4. SubSeq(t, 1, 0) = <<>>
  BY ONLY t \in Seq(Chars)
<1>5. SubSeq(t, 0 + n + 1, n) = <<>>
  <2> DEFINE s == SubSeq(t, 0 + n + 1, n)
  <2>1. s \in Seq(Chars) /\ Len(s) = 0
    BY ONLY <1>1, t \in Seq(Chars), n = Len(t)
  <2> HIDE DEF s
  <2>2. s = <<>>
    BY ONLY <2>1
  <2> QED
    BY ONLY <2>2 DEF s
<1>6. \A u, v : u = <<>> /\ v = <<>> => u \o v = <<>>
  OBVIOUS
<1> QED
  BY ONLY <1>3, <1>4, <1>5, <1>6, Zenon

LEMMA SplicedEmpty ==
  ASSUME NEW t, t = <<>>, NEW s \in Seq(Chars)
  PROVE  RT!Spliced(t, 0, s) = s
<1>1. Len(t) = 0 /\ SubSeq(t, 1, 0) = <<>> /\ SubSeq(t, 0 + 1, 0) = <<>>
  BY ONLY t = <<>>
<1>2. RT!Minimum(0, 0) = 0
  BY ONLY DEF RT!Minimum
<1>3. RT!Spliced(t, 0, s) = (<<>> \o s) \o <<>>
  BY ONLY <1>1, <1>2 DEF RT!Spliced
<1> QED
  BY ONLY <1>3, s \in Seq(Chars)

LEMMA InsertsOK ==
  ASSUME HeapAssumption, NEW nd, NEW chars, NEW s \in Ropes, nd[s] # FreeBlock,
         NEW pos \in Positions, NEW str \in Strings,
         Valid(str) => chars[s] + Len(str) <= MaxChars,
         NEW c, c = [do |-> "insert", of |-> s, pos |-> pos, str |-> str]
  PROVE  CallOK(nd, chars, c)
<1>1. c \in Calls
  BY ONLY s \in Ropes, pos \in Positions, str \in Strings,
     c = [do |-> "insert", of |-> s, pos |-> pos, str |-> str] DEF Calls
<1>2. c.of = s /\ c.str = str
  BY ONLY c = [do |-> "insert", of |-> s, pos |-> pos, str |-> str]
<1> QED
  BY ONLY <1>1, <1>2, nd[s] # FreeBlock, Valid(str) => chars[s] + Len(str) <= MaxChars DEF CallOK

LEMMA InPositions ==
  ASSUME HeapAssumption, Good(node, num_chars, num_bytes), NEW s \in Ropes, Live(s)
  PROVE  num_chars[s] \in Positions /\ 0 \in Positions /\ 0 .. num_chars[s] + 1 \subseteq Positions
<1> DEFINE t == TextIn(node)[s]
           n == num_chars[s]
<1>1. t = TextIn(node)[s]
  OBVIOUS
<1> HIDE DEF t
<1>2. n \in Nat /\ n <= MaxChars
  BY ONLY <1>1, LengthKnown, HeapAssumption, Good(node, num_chars, num_bytes), s \in Ropes, Live(s)
<1>3. MaxChars \in Nat
  BY ONLY RopeAssumption DEF RopeAssumption
<1> HIDE DEF n
<1>4. n \in Positions /\ 0 \in Positions /\ 0 .. n + 1 \subseteq Positions
  BY ONLY <1>2, <1>3 DEF Positions
<1> QED
  BY ONLY <1>4 DEF n

(* A method of a string calls librope.                                     *)
LEMMA MethodInv ==
  ASSUME HeapAssumption, StringInv, Method
  PROVE  StringInvNext
<1>1. /\ setting = NoText /\ call = NoCall
      /\ node' = node /\ num_chars' = num_chars /\ num_bytes' = num_bytes
      /\ \E s \in {r \in Ropes : Live(r)} :
           \/ \E str \in {t \in Strings : num_chars[s] + Len(t) <= MaxChars} :
                \/ \E pos \in 0 .. num_chars[s] + 1 : string_class_insert_cstr_at(s, pos, str)
                \/ string_class_append_cstr(s, str)
           \/ \E str \in Texts : string_class_set(s, str)
  BY ONLY Method, Zenon DEF Method
<1>2. Good(node, num_chars, num_bytes)
  BY ONLY StringInv DEF StringInv
<1>3. PICK s \in {r \in Ropes : Live(r)} :
        \/ \E str \in {t \in Strings : num_chars[s] + Len(t) <= MaxChars} :
             \/ \E pos \in 0 .. num_chars[s] + 1 : string_class_insert_cstr_at(s, pos, str)
             \/ string_class_append_cstr(s, str)
        \/ \E str \in Texts : string_class_set(s, str)
  BY ONLY <1>1, Zenon
<1>4. s \in Ropes /\ Live(s) /\ node[s] # FreeBlock
  BY ONLY <1>3 DEF Live
<1>5. num_chars[s] \in Positions /\ 0 \in Positions /\ 0 .. num_chars[s] + 1 \subseteq Positions
  BY ONLY <1>2, <1>4, InPositions, HeapAssumption
<1>6. Good(node', num_chars', num_bytes')
  BY ONLY <1>1, <1>2
<1>7. CASE \E str \in {t \in Strings : num_chars[s] + Len(t) <= MaxChars} :
             \/ \E pos \in 0 .. num_chars[s] + 1 : string_class_insert_cstr_at(s, pos, str)
             \/ string_class_append_cstr(s, str)
  <2>1. PICK str \in {t \in Strings : num_chars[s] + Len(t) <= MaxChars} :
             \/ \E pos \in 0 .. num_chars[s] + 1 : string_class_insert_cstr_at(s, pos, str)
             \/ string_class_append_cstr(s, str)
    BY ONLY <1>7, Zenon
  <2>2. str \in Strings /\ (Valid(str) => num_chars[s] + Len(str) <= MaxChars)
    BY ONLY <2>1
  <2>3. \E pos \in Positions :
          call' = [do |-> "insert", of |-> s, pos |-> pos, str |-> str] /\ setting' = setting
    <3>1. CASE \E pos \in 0 .. num_chars[s] + 1 : string_class_insert_cstr_at(s, pos, str)
      BY ONLY <1>5, <3>1, Zenon DEF string_class_insert_cstr_at, Inserts
    <3>2. CASE string_class_append_cstr(s, str)
      BY ONLY <1>5, <3>2, Zenon DEF string_class_append_cstr, Inserts, string_class_get_length
    <3> QED
      BY ONLY <2>1, <3>1, <3>2
  <2>4. PICK pos \in Positions :
          call' = [do |-> "insert", of |-> s, pos |-> pos, str |-> str] /\ setting' = setting
    BY ONLY <2>3
  <2> DEFINE c == [do |-> "insert", of |-> s, pos |-> pos, str |-> str]
  <2>5. call' = c /\ c = [do |-> "insert", of |-> s, pos |-> pos, str |-> str]
    BY ONLY <2>4
  <2> HIDE DEF c
  <2>6. CallOK(node, num_chars, c)
    BY ONLY <1>4, <2>2, <2>5, pos \in Positions, InsertsOK, HeapAssumption
  <2> QED
    BY ONLY <1>1, <1>6, <2>4, <2>5, <2>6 DEF StringInvNext, SettingOK
<1>8. CASE \E str \in Texts : string_class_set(s, str)
  <2>1. PICK str \in Texts : string_class_set(s, str)
    BY ONLY <1>8
  <2> DEFINE n == num_chars[s]
             c == [do |-> "del", of |-> s, pos |-> 0, length |-> n]
             set == [of |-> s, str |-> str]
  <2>2. call' = c /\ setting' = set
    BY ONLY <2>1 DEF string_class_set, Clears, string_class_get_length
  <2>3. n \in Positions /\ n = num_chars[s]
    BY ONLY <1>5
  <2> HIDE DEF n
  <2>4. c \in Calls /\ c.do = "del" /\ c.of = s /\ c.pos = 0 /\ c.length = n /\ set.of = s /\ set.str = str
    BY ONLY <1>4, <1>5, <2>3 DEF Calls
  <2> HIDE DEF c, set
  <2>5. CallOK(node, num_chars, c)
    BY ONLY <1>4, <2>4 DEF CallOK
  <2>6. SettingOK(node, num_chars, c, set)
    BY ONLY <1>4, <2>3, <2>4, str \in Texts DEF SettingOK
  <2> QED
    BY ONLY <1>1, <1>6, <2>2, <2>5, <2>6 DEF StringInvNext
<1> QED
  BY ONLY <1>3, <1>7, <1>8

LEMMA SetInsertsInv ==
  ASSUME HeapAssumption, StringInv, SetInserts
  PROVE  StringInvNext
<1> DEFINE s == setting.of
           str == setting.str
           n == num_chars[s]
           t == TextIn(node)[s]
           c == [do |-> "insert", of |-> s, pos |-> 0, str |-> str]
<1>1. /\ setting # NoText /\ call = NoCall /\ call' = c
      /\ node' = node /\ num_chars' = num_chars /\ num_bytes' = num_bytes /\ setting' = setting
  BY ONLY SetInserts DEF SetInserts, Inserts
<1>2. Good(node, num_chars, num_bytes) /\ SettingOK(node, num_chars, call, setting)
  BY ONLY StringInv DEF StringInv
<1>3. NoCall.do = "nothing"
  BY ONLY DEF NoCall
<1>4. s \in Ropes /\ str \in Texts /\ node[s] # FreeBlock /\ t = <<>>
  BY ONLY <1>1, <1>2, <1>3 DEF SettingOK
<1>5. Live(s)
  BY ONLY <1>4 DEF Live
<1>6. t = TextIn(node)[s] /\ c = [do |-> "insert", of |-> s, pos |-> 0, str |-> str] /\ n = num_chars[s]
  OBVIOUS
<1> HIDE DEF t, c, n
<1>8. n = Len(t)
  BY ONLY <1>2, <1>4, <1>6, LiveText, HeapAssumption
<1>9. n = 0
  BY ONLY <1>4, <1>8
<1>10. 0 \in Positions
  BY ONLY <1>2, <1>4, <1>5, InPositions, HeapAssumption
<1>11. str \in Strings
  BY ONLY <1>4, TextsAssumption DEF TextsAssumption
<1>12. Valid(str) => n + Len(str) <= MaxChars
  <2> HIDE DEF str
  <2>1. ASSUME Valid(str) PROVE n + Len(str) <= MaxChars
    <3>1. str \in Seq(Chars) /\ Len(str) <= MaxInsert
      BY ONLY <1>11, <2>1, StringIs
    <3>2. MaxInsert <= MaxChars /\ MaxInsert \in Nat /\ MaxChars \in Nat
      BY ONLY RopeAssumption DEF RopeAssumption
    <3> QED
      BY ONLY <1>9, <3>1, <3>2
  <2> QED
    BY ONLY <2>1
<1>13. c.do = "insert" /\ c.of = s /\ c.pos = 0 /\ c.str = str
  BY ONLY <1>6
<1> HIDE DEF s, str
<1>14. CallOK(node, num_chars, c)
  BY ONLY <1>4, <1>6, <1>10, <1>11, <1>12, InsertsOK, HeapAssumption
<1>15. SettingOK(node, num_chars, c, setting)
  BY ONLY <1>4, <1>6, <1>13 DEF SettingOK, s, str
<1> QED
  BY ONLY <1>1, <1>2, <1>14, <1>15 DEF StringInvNext

(* A call of librope returns to the method that made it.                   *)
LEMMA MethodCalledInv ==
  ASSUME HeapAssumption, StringInv, MethodCalled
  PROVE  StringInvNext
<1> DEFINE s == call.of
           t == TextIn(node)[s]
           u == Result(call, t)
<1>1. /\ setting # NoText /\ Called
      /\ setting' = IF call.do = "insert" THEN NoText ELSE setting
  BY ONLY MethodCalled, Zenon DEF MethodCalled
<1>2. /\ Good(node, num_chars, num_bytes) /\ CallOK(node, num_chars, call)
      /\ SettingOK(node, num_chars, call, setting)
  BY ONLY StringInv DEF StringInv
<1>3. call \in Calls /\ s \in Ropes /\ Live(s) /\ call' = NoCall /\ Changes(s, u)
  BY ONLY <1>1, <1>2, CalledChanges, HeapAssumption
<1>4. call.do = "insert" \/ call.do = "del"
  BY ONLY <1>3, CallIs
<1>5. u = Result(call, t) /\ t = TextIn(node)[s]
  OBVIOUS
<1> HIDE DEF t, u
<1>6. Good(node', num_chars', num_bytes') /\ TextIn(node')[s] = u
  BY ONLY <1>3, ChangesIs
<1>7. CallOK(node', num_chars', call')
  BY ONLY <1>3 DEF CallOK
<1>8. CASE call.do = "insert"
  BY ONLY <1>1, <1>6, <1>7, <1>8 DEF StringInvNext, SettingOK
<1>9. CASE call.do = "del"
  <2>1. call.do # "insert" /\ NoCall.do # "del"
    BY ONLY <1>9 DEF NoCall
  <2>2. /\ setting.of \in Ropes /\ setting.str \in Texts
        /\ call.of = setting.of /\ call.pos = 0 /\ call.length = num_chars[setting.of]
    BY ONLY <1>1, <1>2, <1>9, <2>1 DEF SettingOK
  <2>3. node[s] # FreeBlock
    BY ONLY <1>3 DEF Live
  <2> DEFINE n == num_chars[s]
  <2>4. n = num_chars[s]
    OBVIOUS
  <2> HIDE DEF n
  <2>5. t \in Seq(Chars) /\ n = Len(t)
    BY ONLY <1>2, <1>3, <1>5, <2>3, <2>4, LiveText, HeapAssumption
  <2>6. RT!Cut(t, 0, n) = <<>>
    BY ONLY <2>5, CutAll
  <2>7. u = RT!Cut(t, 0, n)
    BY ONLY <1>5, <2>1, <2>2, <2>4 DEF Result
  <2>8. TextIn(node')[s] = <<>>
    BY ONLY <1>6, <2>6, <2>7
  <2>9. node'[s] # FreeBlock
    <3> DEFINE v == TextIn(node')[s]
    <3>1. v = TextIn(node')[s] /\ v = <<>>
      BY ONLY <2>8
    <3> HIDE DEF v
    <3>2. node'[s] = FreeBlock => v = NoRope
      BY ONLY <1>3, <1>6, <3>1, LiveText, HeapAssumption
    <3>3. v \in Seq(Chars)
      BY ONLY <3>1
    <3> QED
      BY ONLY <3>2, <3>3, HeapAssumption DEF HeapAssumption
  <2> HIDE DEF s
  <2>10. s = setting.of /\ setting' = setting
    BY ONLY <1>1, <2>1, <2>2 DEF s
  <2>11. SettingOK(node', num_chars', call', setting')
    BY ONLY <1>3, <2>2, <2>8, <2>9, <2>10 DEF SettingOK
  <2> QED
    BY ONLY <1>6, <1>7, <2>11 DEF StringInvNext
<1> QED
  BY ONLY <1>4, <1>8, <1>9

LEMMA CallInv ==
  ASSUME Good(node, num_chars, num_bytes), Call
  PROVE  Good(node', num_chars', num_bytes') /\ CallOK(node', num_chars', call')
<1>1. /\ call' \in {c \in Calls :
                      /\ Live(c.of)
                      /\ c.pos <= num_chars[c.of] + 1
                      /\ c.do = "insert" => num_chars[c.of] + Len(c.str) <= MaxChars
                      /\ c.do = "del" => c.pos + c.length <= num_chars[c.of] + 1}
      /\ node' = node /\ num_chars' = num_chars /\ num_bytes' = num_bytes
  BY ONLY Call, Zenon DEF Call
<1> DEFINE c == call'
<1>2. /\ c \in Calls /\ Live(c.of)
      /\ c.do = "insert" => num_chars[c.of] + Len(c.str) <= MaxChars
  BY ONLY <1>1
<1> HIDE DEF c
<1>3. CallOK(node, num_chars, c)
  BY ONLY <1>2 DEF CallOK, Live
<1> QED
  BY ONLY <1>1, <1>3, Good(node, num_chars, num_bytes) DEF c

(* A step of librope itself turns one text, or none.                       *)
LEMMA NextInv ==
  ASSUME HeapAssumption, Good(node, num_chars, num_bytes), CallOK(node, num_chars, call), Next
  PROVE  Good(node', num_chars', num_bytes') /\ CallOK(node', num_chars', call')
<1>1. ASSUME NEW r \in Ropes, NEW t, Changes(r, t), call' = NoCall
      PROVE  Good(node', num_chars', num_bytes') /\ CallOK(node', num_chars', call')
  BY ONLY <1>1, ChangesIs DEF CallOK
<1>2. CASE Call
  BY ONLY <1>2, CallInv, Good(node, num_chars, num_bytes)
<1>3. CASE Called
  <2> DEFINE r == call.of
             t == Result(call, TextIn(node)[call.of])
  <2>1. r \in Ropes /\ call' = NoCall /\ Changes(r, t)
    BY ONLY <1>3, CalledChanges, HeapAssumption, Good(node, num_chars, num_bytes),
       CallOK(node, num_chars, call)
  <2> HIDE DEF r, t
  <2> QED
    BY ONLY <1>1, <2>1
<1>4. ASSUME NEW r \in Ropes, rope_new2(r)
      PROVE  Good(node', num_chars', num_bytes') /\ CallOK(node', num_chars', call')
  <2> DEFINE none == <<>>
  <2>1. none = <<>>
    OBVIOUS
  <2> HIDE DEF none
  <2>2. Changes(r, none)
    BY ONLY <1>4, <2>1, NewChanges, HeapAssumption, Good(node, num_chars, num_bytes)
  <2>3. call' = NoCall
    BY ONLY <1>4 DEF rope_new2
  <2> QED
    BY ONLY <1>1, <2>2, <2>3
<1>5. ASSUME NEW r \in Ropes, rope_free(r)
      PROVE  Good(node', num_chars', num_bytes') /\ CallOK(node', num_chars', call')
  <2>1. Changes(r, NoRope)
    BY ONLY <1>5, FreeChanges, HeapAssumption, Good(node, num_chars, num_bytes)
  <2>2. call' = NoCall
    BY ONLY <1>5, Zenon DEF rope_free
  <2> QED
    BY ONLY <1>1, <2>1, <2>2
<1>6. ASSUME NEW r \in Ropes, NEW other \in Ropes, rope_copy(r, other)
      PROVE  Good(node', num_chars', num_bytes') /\ CallOK(node', num_chars', call')
  <2> DEFINE t == TextIn(node)[other]
  <2>1. t = TextIn(node)[other]
    OBVIOUS
  <2> HIDE DEF t
  <2>2. Changes(r, t)
    BY ONLY <1>6, <2>1, CopyChanges, HeapAssumption, Good(node, num_chars, num_bytes)
  <2>3. call = NoCall /\ call' = call
    BY ONLY <1>6, Zenon DEF rope_copy
  <2> QED
    BY ONLY <1>1, <2>2, <2>3
<1> QED
  BY ONLY <1>2, <1>3, <1>4, <1>5, <1>6, Next DEF Next

LEMMA RopeCalledInv ==
  ASSUME HeapAssumption, StringInv, RopeCalled
  PROVE  StringInvNext
<1>1. setting = NoText /\ Next /\ setting' = setting
  BY ONLY RopeCalled DEF RopeCalled
<1>2. Good(node, num_chars, num_bytes) /\ CallOK(node, num_chars, call)
  BY ONLY StringInv DEF StringInv
<1>3. Good(node', num_chars', num_bytes') /\ CallOK(node', num_chars', call')
  BY ONLY <1>1, <1>2, NextInv, HeapAssumption
<1> QED
  BY ONLY <1>1, <1>3 DEF StringInvNext, SettingOK

LEMMA InitInv ==
  ASSUME HeapAssumption, StringInit
  PROVE  StringInv /\ call = NoCall /\ \A r \in Ropes : TextIn(node)[r] = NoRope
<1>1. /\ node = [x \in Blocks \cup Ropes |-> FreeBlock]
      /\ num_chars = [r \in Ropes |-> 0] /\ num_bytes = [r \in Ropes |-> 0]
      /\ call = NoCall /\ setting = NoText
  BY ONLY StringInit DEF StringInit, Init
<1> DEFINE txt == TextIn(node)
<1>2. /\ txt = [r \in Ropes |-> txt[r]]
      /\ \A r \in Ropes : txt[r] = NoRope
  <2>1. \A r \in Ropes : node[r] = FreeBlock
    BY ONLY <1>1
  <2> QED
    BY ONLY <2>1 DEF TextIn
<1>3. \A x \in Blocks \cup Ropes : node[x] = FreeBlock
  BY ONLY <1>1
<1>4. Heap(node)
  <2>1. node = [x \in Blocks \cup Ropes |-> node[x]]
    BY ONLY <1>1
  <2>2. 0 \in Nat /\ \A x \in Blocks : x > 0 => node[x] = FreeBlock
    BY ONLY <1>3
  <2> QED
    BY ONLY <2>1, <2>2 DEF Heap
<1>5. num_chars = [r \in Ropes |-> num_chars[r]] /\ num_bytes = [r \in Ropes |-> num_bytes[r]]
  BY ONLY <1>1
<1>6. \A r \in Ropes : num_chars[r] = 0 /\ num_bytes[r] = 0
  BY ONLY <1>1
<1> HIDE DEF txt
<1>7. Counted(txt, num_chars, num_bytes)
  <2>1. \A r \in Ropes : Sized(txt[r], num_chars[r], num_bytes[r])
    BY ONLY <1>2, <1>6 DEF Sized
  <2> QED
    BY ONLY <1>5, <2>1 DEF Counted
<1>8. \A lay : Fine(node, lay, txt)
  BY ONLY <1>2, <1>3, <1>4 DEF Fine
<1>9. Good(node, num_chars, num_bytes)
  BY ONLY <1>7, <1>8 DEF Good, txt
<1> QED
  BY ONLY <1>1, <1>2, <1>9 DEF StringInv, CallOK, SettingOK, txt

LEMMA StepInv ==
  ASSUME HeapAssumption, StringInv, [StringNext]_stringVars
  PROVE  StringInv'
<1>1. ASSUME StringInvNext PROVE StringInv'
  BY ONLY <1>1 DEF StringInv, StringInvNext
<1>2. CASE StringNext
  <2>1. StringInvNext
    BY ONLY <1>2, StringInv, HeapAssumption, MethodInv, MethodCalledInv, SetInsertsInv, RopeCalledInv
       DEF StringNext
  <2> QED
    BY ONLY <1>1, <2>1
<1>3. CASE UNCHANGED stringVars
  <2>1. StringInvNext
    BY ONLY <1>3, StringInv DEF StringInv, StringInvNext, stringVars
  <2> QED
    BY ONLY <1>1, <2>1
<1> QED
  BY ONLY <1>2, <1>3, [StringNext]_stringVars

(* For an allocator that always has a block, and for every number of ropes *)
(* every alphabet and every size of node: the invariant is inductive.      *)
THEOREM StringInvariant == HeapAssumption /\ StringSpec => []StringInv
<1> SUFFICES ASSUME HeapAssumption PROVE StringSpec => []StringInv
  OBVIOUS
<1>1. StringInit => StringInv
  BY InitInv
<1>2. StringInv /\ [StringNext]_stringVars => StringInv'
  BY StepInv
<1> QED
  BY <1>1, <1>2, PTL DEF StringSpec

(* Every block in use is a node with its fields in range, no taller than   *)
(* ROPE_MAX_HEIGHT and with no more bytes than its array has room for: no  *)
(* insertion, split, cut or copy of rope.c ever writes past a node.        *)
THEOREM RopeTypes == HeapAssumption /\ StringSpec => []TypeOK
<1> SUFFICES ASSUME HeapAssumption PROVE StringSpec => []TypeOK
  OBVIOUS
<1>1. StringInv => TypeOK
  BY TypesFollow, HeapAssumption DEF StringInv
<1> QED
  BY <1>1, StringInvariant, PTL

(* No two ropes ever share a node, every pointer a rope holds is to one of *)
(* its own, and every allocated block is behind exactly one rope: nothing  *)
(* is leaked, freed twice or used after it was freed.                      *)
THEOREM RopesOwnTheirNodes == HeapAssumption /\ StringSpec => []OneOwner
<1> SUFFICES ASSUME HeapAssumption PROVE StringSpec => []OneOwner
  OBVIOUS
<1>1. StringInv => OneOwner
  BY OwnersFollow, HeapAssumption DEF StringInv
<1> QED
  BY <1>1, StringInvariant, PTL

(* _rope_check's assertions hold after every operation, of every rope: the *)
(* skips of every level add up to the text, no node but the head is empty, *)
(* and every count is that of what it counts.                              *)
THEOREM RopesPassTheirCheck == HeapAssumption /\ StringSpec => []RopeCheck
<1> SUFFICES ASSUME HeapAssumption PROVE StringSpec => []RopeCheck
  OBVIOUS
<1>1. StringInv => RopeCheck
  BY CheckFollows, HeapAssumption DEF StringInv
<1> QED
  BY <1>1, StringInvariant, PTL

-----------------------------------------------------------------------------
(* What string_class_set leaves in its string.                             *)
LEMMA WrittenNext ==
  ASSUME NEW s \in Ropes, node'[s] # FreeBlock
  PROVE  rope_write_cstr(s)' = TextIn(node')[s]
<1>1. TextIn(node')[s] = WrittenIn(node')[s]
  BY ONLY s \in Ropes, node'[s] # FreeBlock DEF TextIn
<1>2. rope_write_cstr(s)' = Written'[s]
  BY ONLY DEF rope_write_cstr
<1> QED
  BY ONLY <1>1, <1>2, ReadsNext

LEMMA SetFills ==
  ASSUME HeapAssumption, StringInv, MethodCalled, setting' = NoText,
         NEW s \in Ropes, setting.of = s
  PROVE  rope_write_cstr(s)' = IF Valid(setting.str) THEN setting.str ELSE <<>>
<1> DEFINE str == setting.str
           t == TextIn(node)[s]
           u == Result(call, t)
           filled == IF Valid(str) THEN str ELSE <<>>
<1>1. /\ setting # NoText /\ Called
      /\ setting' = IF call.do = "insert" THEN NoText ELSE setting
  BY ONLY MethodCalled, Zenon DEF MethodCalled
<1>2. call.do = "insert"
  BY ONLY <1>1, setting' = NoText
<1>3. /\ Good(node, num_chars, num_bytes) /\ CallOK(node, num_chars, call)
      /\ SettingOK(node, num_chars, call, setting)
  BY ONLY StringInv DEF StringInv
<1>4. call # NoCall /\ call.do # "del"
  BY ONLY <1>2 DEF NoCall
<1>5. s \in Ropes /\ str \in Texts /\ call.of = s /\ call.pos = 0 /\ call.str = str /\ t = <<>>
  BY ONLY <1>1, <1>3, <1>4, setting.of = s DEF SettingOK
<1>6. Changes(call.of, Result(call, TextIn(node)[call.of]))
  BY ONLY <1>1, <1>3, CalledChanges, HeapAssumption
<1>7. Changes(s, u)
  BY ONLY <1>5, <1>6
<1>8. str \in Strings
  BY ONLY <1>5, TextsAssumption DEF TextsAssumption
<1>9. u = filled /\ filled \in Seq(Chars)
  <2> HIDE DEF str, t
  <2>1. CASE Valid(str)
    <3>1. str \in Seq(Chars)
      BY ONLY <1>8, <2>1, StringIs
    <3>2. RT!Spliced(t, 0, str) = str
      BY ONLY <1>5, <3>1, SplicedEmpty
    <3>3. u = RT!Spliced(t, 0, str)
      BY ONLY <1>2, <1>5, <2>1 DEF Result
    <3> QED
      BY ONLY <2>1, <3>1, <3>2, <3>3
  <2>2. CASE ~Valid(str)
    <3>1. u = t
      BY ONLY <1>2, <1>5, <2>2 DEF Result
    <3> QED
      BY ONLY <1>5, <2>2, <3>1
  <2> QED
    BY ONLY <2>1, <2>2
<1> HIDE DEF u, filled
<1>10. Good(node', num_chars', num_bytes') /\ TextIn(node')[s] = u
  BY ONLY <1>5, <1>7, ChangesIs
<1>11. node'[s] # FreeBlock
  <2> DEFINE v == TextIn(node')[s]
  <2>1. v = TextIn(node')[s] /\ v \in Seq(Chars)
    BY ONLY <1>9, <1>10
  <2> HIDE DEF v
  <2>2. node'[s] = FreeBlock => v = NoRope
    BY ONLY <1>5, <1>10, <2>1, LiveText, HeapAssumption
  <2> QED
    BY ONLY <2>1, <2>2, HeapAssumption DEF HeapAssumption
<1>12. rope_write_cstr(s)' = TextIn(node')[s]
  BY ONLY <1>5, <1>11, WrittenNext
<1>13. rope_write_cstr(s)' = filled
  BY ONLY <1>9, <1>10, <1>12
<1> QED
  BY ONLY <1>13 DEF filled

(* However long the string and however its rope is cut into nodes, when    *)
(* string_class_set returns the string holds the new text and nothing      *)
(* else, or nothing when the text is not UTF-8.                            *)
THEOREM SetsReplaceTexts == HeapAssumption /\ StringSpec => SetReplaces
<1> SUFFICES ASSUME HeapAssumption PROVE StringSpec => SetReplaces
  OBVIOUS
<1>1. StringInv /\ [StringNext]_stringVars =>
        [\A s \in Ropes :
           setting # NoText /\ setting' = NoText /\ setting.of = s =>
             rope_write_cstr(s)' = IF Valid(setting.str) THEN setting.str ELSE <<>>]_stringVars
  <2> SUFFICES ASSUME StringInv, StringNext, NEW s \in Ropes,
                      setting # NoText, setting' = NoText, setting.of = s
               PROVE  rope_write_cstr(s)' = IF Valid(setting.str) THEN setting.str ELSE <<>>
    OBVIOUS
  <2>1. CASE MethodCalled
    BY ONLY <2>1, SetFills, HeapAssumption, StringInv, s \in Ropes, setting' = NoText, setting.of = s
  <2>2. CASE Method \/ SetInserts \/ RopeCalled
    BY ONLY <2>2, setting # NoText, setting' = NoText DEF Method, SetInserts, RopeCalled
  <2> QED
    BY ONLY <2>1, <2>2, StringNext DEF StringNext
<1> QED
  BY <1>1, StringInvariant, PTL DEF StringSpec, SetReplaces

-----------------------------------------------------------------------------
(* The rope implements the text of RopeText: the texts it shows are those  *)
(* of the invariant, and each operation turns them as RopeText says.       *)
Shown == [r \in Ropes |-> IF Live(r) THEN rope_write_cstr(r) ELSE NoRope]

LEMMA ShownIs == Shown = TextIn(node) /\ Shown' = TextIn(node')
<1>1. Shown = TextIn(node)
  BY ONLY Reads DEF Shown, TextIn, Live, rope_write_cstr
<1>2. Shown' = TextIn(node')
  BY ONLY ReadsNext DEF Shown, TextIn, Live, rope_write_cstr
<1> QED
  BY ONLY <1>1, <1>2

LEMMA ShownChanges ==
  ASSUME NEW r \in Ropes, NEW t, Changes(r, t)
  PROVE  Shown' = [Shown EXCEPT ![r] = t]
<1>1. TextIn(node') = [TextIn(node) EXCEPT ![r] = t]
  BY ONLY ChangesIs, r \in Ropes, Changes(r, t)
<1> QED
  BY ONLY <1>1, ShownIs

LEMMA ShownLive ==
  ASSUME HeapAssumption, Good(node, num_chars, num_bytes), NEW r \in Ropes
  PROVE  (Live(r) => Shown[r] # NoRope) /\ (~Live(r) => Shown[r] = NoRope)
<1> DEFINE t == TextIn(node)[r]
<1>1. t = TextIn(node)[r]
  OBVIOUS
<1> HIDE DEF t
<1>2. (node[r] = FreeBlock => t = NoRope) /\ (node[r] # FreeBlock => t # NoRope)
  BY ONLY <1>1, LiveText, HeapAssumption, Good(node, num_chars, num_bytes), r \in Ropes
<1> QED
  BY ONLY <1>1, <1>2, ShownIs DEF Live

LEMMA SameNames == /\ RT!NoCall = NoCall /\ RT!Calls = Calls
                   /\ \A s : RT!Valid(s) = Valid(s)
<1>1. RT!Positions = Positions
  BY ONLY DEF RT!Positions, Positions
<1>2. RT!Strings = Strings
  BY ONLY DEF RT!Strings, Strings
<1>3. RT!Calls = Calls
  BY ONLY <1>1, <1>2 DEF RT!Calls, Calls
<1> QED
  BY ONLY <1>3 DEF RT!NoCall, NoCall, RT!Valid, Valid

LEMMA NewText ==
  ASSUME HeapAssumption, Good(node, num_chars, num_bytes), NEW r \in Ropes, rope_new2(r)
  PROVE  RT!New(r)
<1> DEFINE none == <<>>
<1>1. none = <<>>
  OBVIOUS
<1> HIDE DEF none
<1>2. Changes(r, none)
  BY ONLY <1>1, NewChanges, HeapAssumption, Good(node, num_chars, num_bytes), r \in Ropes, rope_new2(r)
<1>3. Shown' = [Shown EXCEPT ![r] = none]
  BY ONLY <1>2, ShownChanges, r \in Ropes
<1>4. call = NoCall /\ ~Live(r) /\ call' = call
  BY ONLY rope_new2(r), Zenon DEF rope_new2
<1>5. Shown[r] = NoRope
  BY ONLY <1>4, ShownLive, HeapAssumption, Good(node, num_chars, num_bytes), r \in Ropes
<1> QED
  BY ONLY <1>1, <1>3, <1>4, <1>5, SameNames, Zenon DEF RT!New, Shown

LEMMA FreeText ==
  ASSUME HeapAssumption, Good(node, num_chars, num_bytes), NEW r \in Ropes, rope_free(r)
  PROVE  RT!Free(r)
<1>1. Changes(r, NoRope)
  BY ONLY FreeChanges, HeapAssumption, Good(node, num_chars, num_bytes), r \in Ropes, rope_free(r)
<1>2. Shown' = [Shown EXCEPT ![r] = NoRope]
  BY ONLY <1>1, ShownChanges, r \in Ropes
<1>3. call = NoCall /\ Live(r) /\ call' = call
  BY ONLY rope_free(r), Zenon DEF rope_free
<1>4. Shown[r] # NoRope
  BY ONLY <1>3, ShownLive, HeapAssumption, Good(node, num_chars, num_bytes), r \in Ropes
<1> QED
  BY ONLY <1>2, <1>3, <1>4, SameNames, Zenon DEF RT!Free, Shown

LEMMA CopyText ==
  ASSUME HeapAssumption, Good(node, num_chars, num_bytes), NEW r \in Ropes, NEW other \in Ropes,
         rope_copy(r, other)
  PROVE  RT!Copy(r, other)
<1> DEFINE t == TextIn(node)[other]
<1>1. t = TextIn(node)[other]
  OBVIOUS
<1> HIDE DEF t
<1>2. Changes(r, t)
  BY ONLY <1>1, CopyChanges, HeapAssumption, Good(node, num_chars, num_bytes), r \in Ropes,
     other \in Ropes, rope_copy(r, other)
<1>3. Shown' = [Shown EXCEPT ![r] = t]
  BY ONLY <1>2, ShownChanges, r \in Ropes
<1>4. t = Shown[other]
  BY ONLY <1>1, ShownIs
<1>5. call = NoCall /\ ~Live(r) /\ Live(other) /\ call' = call
  BY ONLY rope_copy(r, other), Zenon DEF rope_copy
<1>6. Shown[r] = NoRope
  BY ONLY <1>5, ShownLive, HeapAssumption, Good(node, num_chars, num_bytes), r \in Ropes
<1>7. Shown[other] # NoRope
  BY ONLY <1>5, ShownLive, HeapAssumption, Good(node, num_chars, num_bytes), other \in Ropes
<1> QED
  BY ONLY <1>3, <1>4, <1>5, <1>6, <1>7, SameNames, Zenon DEF RT!Copy, Shown

LEMMA CallText ==
  ASSUME HeapAssumption, Good(node, num_chars, num_bytes), call = NoCall, call' \in Calls,
         Live(call'.of), node' = node
  PROVE  RT!Call
<1> DEFINE c == call'
<1>1. c \in Calls /\ Live(c.of) /\ c.of \in Ropes
  BY ONLY call' \in Calls, Live(call'.of), CallIs
<1> HIDE DEF c
<1>2. Shown[c.of] # NoRope
  BY ONLY <1>1, ShownLive, HeapAssumption, Good(node, num_chars, num_bytes)
<1>3. Shown' = Shown
  BY ONLY ShownIs, node' = node
<1>4. c \in {d \in RT!Calls : Shown[d.of] # NoRope}
  BY ONLY <1>1, <1>2, SameNames
<1>5. call' \in {d \in RT!Calls : Shown[d.of] # NoRope}
  BY ONLY <1>4 DEF c
<1> QED
  BY ONLY <1>3, <1>5, call = NoCall, SameNames, Zenon DEF RT!Call, Shown

LEMMA CalledText ==
  ASSUME HeapAssumption, Good(node, num_chars, num_bytes), CallOK(node, num_chars, call), Called
  PROVE  RT!Insert \/ RT!Del
<1> DEFINE r == call.of
           t == TextIn(node)[r]
           u == Result(call, t)
<1>1. call \in Calls /\ r \in Ropes /\ call' = NoCall /\ Changes(r, u)
  BY ONLY CalledChanges, HeapAssumption, Good(node, num_chars, num_bytes),
     CallOK(node, num_chars, call), Called
<1>2. call.do = "insert" \/ call.do = "del"
  BY ONLY <1>1, CallIs
<1>3. u = Result(call, t) /\ t = Shown[r]
  BY ONLY ShownIs
<1> HIDE DEF t, u, r
<1>4. Shown' = [Shown EXCEPT ![r] = u]
  BY ONLY <1>1, ShownChanges
<1>5. CASE call.do = "insert"
  <2>1. u = IF RT!Valid(call.str) THEN RT!Spliced(Shown[r], call.pos, call.str) ELSE Shown[r]
    BY ONLY <1>3, <1>5, SameNames DEF Result
  <2>2. Shown' = [Shown EXCEPT ![call.of] =
                    IF RT!Valid(call.str) THEN RT!Spliced(Shown[call.of], call.pos, call.str)
                                          ELSE Shown[call.of]]
    BY ONLY <1>4, <2>1 DEF r
  <2> QED
    BY ONLY <1>1, <1>5, <2>2, SameNames, Zenon DEF RT!Insert, Shown
<1>6. CASE call.do = "del"
  <2>1. call.do # "insert"
    BY ONLY <1>6
  <2>2. u = RT!Cut(Shown[r], call.pos, call.length)
    BY ONLY <1>3, <2>1 DEF Result
  <2>3. Shown' = [Shown EXCEPT ![call.of] = RT!Cut(Shown[call.of], call.pos, call.length)]
    BY ONLY <1>4, <2>2 DEF r
  <2> QED
    BY ONLY <1>1, <1>6, <2>3, SameNames, Zenon DEF RT!Del, Shown
<1> QED
  BY ONLY <1>2, <1>5, <1>6

LEMMA NextText ==
  ASSUME HeapAssumption, Good(node, num_chars, num_bytes), CallOK(node, num_chars, call), Next
  PROVE  RT!TextNext
<1>1. CASE Call
  <2>1. call = NoCall /\ call' \in Calls /\ Live(call'.of) /\ node' = node
    BY ONLY <1>1 DEF Call
  <2>2. RT!Call
    BY ONLY <2>1, CallText, HeapAssumption, Good(node, num_chars, num_bytes)
  <2> QED
    BY ONLY <2>2 DEF RT!TextNext
<1>2. CASE Called
  <2>1. RT!Insert \/ RT!Del
    BY ONLY <1>2, CalledText, HeapAssumption, Good(node, num_chars, num_bytes),
       CallOK(node, num_chars, call)
  <2> QED
    BY ONLY <2>1 DEF RT!TextNext
<1>3. ASSUME NEW r \in Ropes, rope_new2(r) PROVE RT!TextNext
  <2>1. RT!New(r)
    BY ONLY <1>3, NewText, HeapAssumption, Good(node, num_chars, num_bytes)
  <2> QED
    BY ONLY <2>1, r \in Ropes, Zenon DEF RT!TextNext
<1>4. ASSUME NEW r \in Ropes, rope_free(r) PROVE RT!TextNext
  <2>1. RT!Free(r)
    BY ONLY <1>4, FreeText, HeapAssumption, Good(node, num_chars, num_bytes)
  <2> QED
    BY ONLY <2>1, r \in Ropes, Zenon DEF RT!TextNext
<1>5. ASSUME NEW r \in Ropes, NEW other \in Ropes, rope_copy(r, other) PROVE RT!TextNext
  <2>1. RT!Copy(r, other)
    BY ONLY <1>5, CopyText, HeapAssumption, Good(node, num_chars, num_bytes)
  <2> QED
    BY ONLY <2>1, r \in Ropes, other \in Ropes, Zenon DEF RT!TextNext
<1> QED
  BY ONLY <1>1, <1>2, <1>3, <1>4, <1>5, Next DEF Next

(* A call that a method begins is one that librope's caller may begin.     *)
LEMMA BegunText ==
  ASSUME HeapAssumption, Good(node, num_chars, num_bytes), StringInvNext,
         call = NoCall, call' # NoCall, node' = node
  PROVE  RT!TextNext
<1>1. call' \in Calls /\ Live(call'.of)
  BY ONLY StringInvNext, call' # NoCall, node' = node DEF StringInvNext, CallOK, Live
<1>2. RT!Call
  BY ONLY <1>1, CallText, HeapAssumption, Good(node, num_chars, num_bytes), call = NoCall, node' = node
<1> QED
  BY ONLY <1>2 DEF RT!TextNext

LEMMA StepText ==
  ASSUME HeapAssumption, StringInv, StringNext
  PROVE  RT!TextNext
<1>1. Good(node, num_chars, num_bytes) /\ CallOK(node, num_chars, call)
  BY ONLY StringInv DEF StringInv
<1>2. \A s, p, t : /\ [do |-> "insert", of |-> s, pos |-> p, str |-> t].do = "insert"
                   /\ [do |-> "del", of |-> s, pos |-> p, length |-> t].do = "del"
  OBVIOUS
<1>3. NoCall.do = "nothing"
  BY ONLY DEF NoCall
<1>4. CASE Method
  <2>1. call = NoCall /\ node' = node
    BY ONLY <1>4, Zenon DEF Method
  <2>2. call'.do = "insert" \/ call'.do = "del"
    <3>1. \E s, p, t : \/ call' = [do |-> "insert", of |-> s, pos |-> p, str |-> t]
                       \/ call' = [do |-> "del", of |-> s, pos |-> p, length |-> t]
      BY ONLY <1>4, Zenon DEF Method, string_class_insert_cstr_at, string_class_append_cstr,
         string_class_set, Inserts, Clears
    <3> QED
      BY ONLY <3>1
  <2>3. StringInvNext
    BY ONLY <1>4, MethodInv, HeapAssumption, StringInv
  <2> QED
    BY ONLY <1>1, <1>3, <2>1, <2>2, <2>3, BegunText, HeapAssumption
<1>5. CASE SetInserts
  <2>1. call = NoCall /\ node' = node
    BY ONLY <1>5, Zenon DEF SetInserts
  <2>2. call'.do = "insert"
    BY ONLY <1>2, <1>5, Zenon DEF SetInserts, Inserts
  <2>3. StringInvNext
    BY ONLY <1>5, SetInsertsInv, HeapAssumption, StringInv
  <2> QED
    BY ONLY <1>1, <1>3, <2>1, <2>2, <2>3, BegunText, HeapAssumption
<1>6. CASE MethodCalled
  <2>1. Called
    BY ONLY <1>6 DEF MethodCalled
  <2>2. RT!Insert \/ RT!Del
    BY ONLY <1>1, <2>1, CalledText, HeapAssumption
  <2> QED
    BY ONLY <2>2 DEF RT!TextNext
<1>7. CASE RopeCalled
  <2>1. Next
    BY ONLY <1>7 DEF RopeCalled
  <2> QED
    BY ONLY <1>1, <2>1, NextText, HeapAssumption
<1> QED
  BY ONLY <1>4, <1>5, <1>6, <1>7, StringNext DEF StringNext

(* librope implements RopeText.  However a text is cut into nodes, and     *)
(* whatever the heights drawn, each insertion splices it where it was      *)
(* asked to, each deletion cuts what it was asked to, each copy is another *)
(* text from then on, and no operation changes any other rope's.           *)
THEOREM RopesAreTexts == HeapAssumption /\ StringSpec => IsText
<1> SUFFICES ASSUME HeapAssumption PROVE StringSpec => IsText
  OBVIOUS
<1>1. StringInit => RT!TextInit
  <2> SUFFICES ASSUME StringInit PROVE RT!TextInit
    OBVIOUS
  <2>1. call = NoCall /\ \A r \in Ropes : TextIn(node)[r] = NoRope
    BY ONLY InitInv, HeapAssumption, StringInit
  <2>2. Shown = [r \in Ropes |-> NoRope]
    <3> DEFINE txt == TextIn(node)
    <3>1. txt = [r \in Ropes |-> txt[r]]
      BY ONLY DEF TextIn
    <3>2. Shown = txt /\ \A r \in Ropes : txt[r] = NoRope
      BY ONLY <2>1, ShownIs
    <3> HIDE DEF txt
    <3> QED
      BY ONLY <3>1, <3>2
  <2> QED
    BY ONLY <2>1, <2>2, SameNames, Zenon DEF RT!TextInit, Shown
<1>2. StringInv /\ [StringNext]_stringVars =>
        [RT!TextNext]_<<[r \in Ropes |-> IF Live(r) THEN rope_write_cstr(r) ELSE NoRope], call>>
  <2>1. ASSUME StringInv, StringNext PROVE RT!TextNext
    BY ONLY <2>1, StepText, HeapAssumption
  <2>2. ASSUME UNCHANGED stringVars
        PROVE  UNCHANGED <<[r \in Ropes |-> IF Live(r) THEN rope_write_cstr(r) ELSE NoRope], call>>
    <3>1. node' = node /\ call' = call
      BY ONLY <2>2 DEF stringVars
    <3>2. Shown' = Shown
      BY ONLY <3>1, ShownIs
    <3> QED
      BY ONLY <3>1, <3>2 DEF Shown
  <2> QED
    BY ONLY <2>1, <2>2
<1> QED
  BY <1>1, <1>2, StringInvariant, PTL DEF StringSpec, IsText, RT!TextSpec
=============================================================================
