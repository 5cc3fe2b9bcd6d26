------------------------ MODULE TermKeyTables_proofs ------------------------
(***************************************************************************)
(* Proofs about the two tables of libtermkey, for every terminal and every *)
(* set of names.  The trie of module TerminfoTrie: whatever strings the    *)
(* keys of a terminal have and in whatever order they are loaded, loading  *)
(* aborts only over a clash, every capability finds its key, and a look-up *)
(* in the loaded trie answers what the strings say.  The names of module   *)
(* KeyNames, in whatever order they are registered: termkey_keycmp is an   *)
(* order, and a key that is written as text is read back.                  *)
(***************************************************************************)
EXTENDS TerminfoTrie, KeyNames, SequenceTheorems, WellFoundedInduction, TLAPS

-----------------------------------------------------------------------------
(* The beginnings of a string.                                             *)
LEMMA UptoFacts ==
  ASSUME NEW S, NEW s \in Seq(S), NEW n \in 0 .. Len(s)
  PROVE  /\ Upto(s, n) \in Seq(S) /\ Len(Upto(s, n)) = n
         /\ \A k \in 1 .. n : Upto(s, n)[k] = s[k]
<1>1. \A k \in 1 .. n : s[k] \in S
  OBVIOUS
<1>2. QED
  BY <1>1, SubSeqProperties DEF Upto

LEMMA UptoEnds ==
  ASSUME NEW S, NEW s \in Seq(S)
  PROVE  Upto(s, 0) = <<>> /\ Upto(s, Len(s)) = s
<1>1. Upto(s, 0) = <<>>
  BY SubSeqEmpty DEF Upto
<1>2. Upto(s, Len(s)) = s
  BY SubSeqFull DEF Upto
<1>3. QED
  BY <1>1, <1>2

(* Two sequences of one length with the same elements are the same.        *)
LEMMA SameSequence ==
  ASSUME NEW S, NEW s \in Seq(S), NEW t \in Seq(S), Len(s) = Len(t),
         \A k \in 1 .. Len(s) : s[k] = t[k]
  PROVE  s = t
  OBVIOUS

LEMMA UptoUpto ==
  ASSUME NEW S, NEW s \in Seq(S), NEW n \in 0 .. Len(s), NEW m \in 0 .. n
  PROVE  Upto(Upto(s, n), m) = Upto(s, m)
<1>1. /\ Upto(s, n) \in Seq(S) /\ Len(Upto(s, n)) = n
      /\ \A k \in 1 .. n : Upto(s, n)[k] = s[k]
  BY UptoFacts
<1>2. m \in 0 .. Len(s)
  OBVIOUS
<1>3. /\ Upto(s, m) \in Seq(S) /\ Len(Upto(s, m)) = m
      /\ \A k \in 1 .. m : Upto(s, m)[k] = s[k]
  BY <1>2, UptoFacts
<1>4. m \in 0 .. Len(Upto(s, n))
  BY <1>1
<1>5. /\ Upto(Upto(s, n), m) \in Seq(S) /\ Len(Upto(Upto(s, n), m)) = m
      /\ \A k \in 1 .. m : Upto(Upto(s, n), m)[k] = Upto(s, n)[k]
  BY <1>1, <1>4, UptoFacts
<1>6. \A k \in 1 .. m : Upto(Upto(s, n), m)[k] = Upto(s, m)[k]
  BY <1>1, <1>3, <1>5
<1>7. QED
  BY <1>3, <1>5, <1>6, SameSequence

LEMMA UptoAppends ==
  ASSUME NEW S, NEW s \in Seq(S), NEW n \in 0 .. Len(s), n < Len(s)
  PROVE  s[n + 1] \in S /\ Upto(s, n + 1) = Append(Upto(s, n), s[n + 1])
<1>1. s[n + 1] \in S
  OBVIOUS
<1>2. n + 1 \in 0 .. Len(s)
  OBVIOUS
<1>3. /\ Upto(s, n) \in Seq(S) /\ Len(Upto(s, n)) = n
      /\ \A k \in 1 .. n : Upto(s, n)[k] = s[k]
  BY UptoFacts
<1>4. /\ Upto(s, n + 1) \in Seq(S) /\ Len(Upto(s, n + 1)) = n + 1
      /\ \A k \in 1 .. n + 1 : Upto(s, n + 1)[k] = s[k]
  BY <1>2, UptoFacts
<1>5. /\ Append(Upto(s, n), s[n + 1]) \in Seq(S)
      /\ Len(Append(Upto(s, n), s[n + 1])) = n + 1
      /\ \A k \in 1 .. n : Append(Upto(s, n), s[n + 1])[k] = Upto(s, n)[k]
      /\ Append(Upto(s, n), s[n + 1])[n + 1] = s[n + 1]
  BY <1>1, <1>3, AppendProperties
<1>6. \A k \in 1 .. n + 1 : Upto(s, n + 1)[k] = Append(Upto(s, n), s[n + 1])[k]
  BY <1>3, <1>4, <1>5
<1>7. QED
  BY <1>1, <1>4, <1>5, <1>6, SameSequence

LEMMA PrefixIsUpto ==
  ASSUME NEW S, NEW s \in Seq(S), NEW t \in Seq(S)
  PROVE  IsPrefix(s, t) <=> Len(s) \in 0 .. Len(t) /\ s = Upto(t, Len(s))
<1>1. SubSeq(s, 1, Len(s)) = s
  BY SubSeqFull
<1>2. QED
  BY <1>1 DEF IsPrefix, Upto

(* A set of numbers has a least and, if it is bounded, a greatest one.     *)
LEMMA HasLeast ==
  ASSUME NEW T, T \subseteq Nat, T # {}
  PROVE  \E x \in T : \A y \in T : x <= y
<1>1. PICK x \in T : \A y \in T : <<y, x>> \notin OpToRel(<, Nat)
  BY WFMin, NatLessThanWellFounded
<1>2. \A y \in T : ~(y < x)
  BY <1>1 DEF OpToRel
<1>3. QED
  BY <1>2

LEMMA HasGreatest ==
  ASSUME NEW top \in Nat, NEW T, T \subseteq 0 .. top, T # {}
  PROVE  \E x \in T : \A y \in T : y <= x
<1> DEFINE U == {top - x : x \in T}
<1>1. ASSUME NEW x \in T PROVE top - x \in Nat
  OBVIOUS
<1>2. U \subseteq Nat
  BY <1>1
<1>3. U # {}
  OBVIOUS
<1> HIDE DEF U
<1>4. PICK d \in U : \A e \in U : d <= e
  BY <1>2, <1>3, HasLeast
<1>5. PICK x \in T : d = top - x
  BY DEF U
<1>6. ASSUME NEW y \in T PROVE y <= x
  <2>1. top - y \in U
    BY DEF U
  <2>2. top - x <= top - y
    BY <2>1, <1>4, <1>5
  <2>3. x \in Nat /\ y \in Nat
    OBVIOUS
  <2>4. QED
    BY <2>2, <2>3
<1>7. QED
  BY <1>6

-----------------------------------------------------------------------------
(* The trie is made of paths from the root, along which only the last node *)
(* may be a key's.                                                         *)
Paths ==
  /\ <<>> \in DOMAIN trie /\ DOMAIN trie \subseteq Seq(Byte)
  /\ \A p \in DOMAIN trie : \A n \in 0 .. Len(p) : Upto(p, n) \in DOMAIN trie
  /\ \A p \in DOMAIN trie : \A n \in 0 .. Len(p) :
       n < Len(p) => trie[Upto(p, n)].type = "ARR"

(* An array's range has every byte that leads on from it.                  *)
Ranges ==
  \A p \in DOMAIN trie : trie[p].type = "ARR" =>
    \A b \in Byte : Append(p, b) \in DOMAIN trie => b \in trie[p].min .. trie[p].max

(* How far the trie leads along s: there is such a place.                  *)
LEMMA ReachedFacts ==
  ASSUME NEW s \in Seq(Byte), <<>> \in DOMAIN trie
  PROVE  /\ Reached(s) \in 0 .. Len(s)
         /\ \A m \in 1 .. Reached(s) : Upto(s, m - 1) \in DOMAIN trie /\ Leads(s, m)
         /\ Reached(s) < Len(s) => ~Leads(s, Reached(s) + 1)
         /\ Upto(s, Reached(s)) \in DOMAIN trie
<1> DEFINE T == {n \in 0 .. Len(s) :
                  \A m \in 1 .. n : Upto(s, m - 1) \in DOMAIN trie /\ Leads(s, m)}
<1>1. 0 \in T /\ T \subseteq 0 .. Len(s) /\ Len(s) \in Nat
  OBVIOUS
<1>2. PICK n \in T : \A m \in T : m <= n
  <2>1. T # {}
    BY <1>1
  <2>2. QED
    BY <1>1, <2>1, HasGreatest
<1>3. ASSUME NEW m \in T PROVE Upto(s, m) \in DOMAIN trie
  <2>1. CASE m = 0
    BY <2>1, UptoEnds
  <2>2. CASE m # 0
    <3>1. m \in 1 .. m
      BY <2>2
    <3>2. Leads(s, m)
      BY <3>1
    <3>3. QED
      BY <3>2 DEF Leads
  <2>3. QED
    BY <2>1, <2>2
<1>4. ASSUME n < Len(s), Leads(s, n + 1) PROVE FALSE
  <2>1. Upto(s, n) \in DOMAIN trie
    BY <1>3
  <2>2. \A m \in 1 .. n + 1 : m \in 1 .. n \/ (m = n + 1 /\ m - 1 = n)
    OBVIOUS
  <2>3. \A m \in 1 .. n + 1 : Upto(s, m - 1) \in DOMAIN trie /\ Leads(s, m)
    BY <1>4, <2>1, <2>2
  <2>4. n + 1 \in T
    BY <1>4, <2>3
  <2>5. QED
    BY <1>2, <2>4
<1>5. \E k \in 0 .. Len(s) :
        /\ \A m \in 1 .. k : Upto(s, m - 1) \in DOMAIN trie /\ Leads(s, m)
        /\ k < Len(s) => ~Leads(s, k + 1)
  BY <1>4
<1>6. /\ Reached(s) \in 0 .. Len(s)
      /\ \A m \in 1 .. Reached(s) : Upto(s, m - 1) \in DOMAIN trie /\ Leads(s, m)
      /\ Reached(s) < Len(s) => ~Leads(s, Reached(s) + 1)
  BY <1>5 DEF Reached
<1>7. Reached(s) \in T
  BY <1>6
<1>8. QED
  BY <1>3, <1>6, <1>7

(* What is reached is the longest beginning that is in the trie and has    *)
(* only arrays before it.                                                  *)
LEMMA ReachedArrays ==
  ASSUME NEW s \in Seq(Byte), Paths
  PROVE  \A m \in 0 .. Len(s) : m < Reached(s) => trie[Upto(s, m)].type = "ARR"
<1>1. ASSUME NEW m \in 0 .. Len(s), m < Reached(s) PROVE trie[Upto(s, m)].type = "ARR"
  <2>1. Reached(s) \in 0 .. Len(s) /\ \A k \in 1 .. Reached(s) : Leads(s, k)
    BY ReachedFacts DEF Paths
  <2>2. m + 1 \in 1 .. Reached(s) /\ (m + 1) - 1 = m
    BY <1>1, <2>1
  <2>3. Leads(s, m + 1)
    BY <2>1, <2>2
  <2>4. QED
    BY <2>2, <2>3 DEF Leads
<1>2. QED
  BY <1>1

LEMMA ReachedLongest ==
  ASSUME NEW s \in Seq(Byte), Paths, Ranges, NEW m \in 0 .. Len(s),
         Upto(s, m) \in DOMAIN trie
  PROVE  m <= Reached(s)
<1> DEFINE n == Reached(s)
<1>1. /\ n \in 0 .. Len(s) /\ Upto(s, n) \in DOMAIN trie
      /\ n < Len(s) => ~Leads(s, n + 1)
  BY ReachedFacts DEF Paths
<1> HIDE DEF n
<1>2. SUFFICES ASSUME n < m PROVE FALSE
  BY <1>1 DEF n
<1>3. /\ n < Len(s) /\ n + 1 \in 0 .. m /\ n \in 0 .. m /\ (n + 1) - 1 = n
  BY <1>1, <1>2
<1>4. Upto(s, m) \in Seq(Byte) /\ Len(Upto(s, m)) = m
  BY UptoFacts
<1>5. Upto(Upto(s, m), n + 1) = Upto(s, n + 1) /\ Upto(Upto(s, m), n) = Upto(s, n)
  BY <1>3, UptoUpto
<1>6. Upto(s, n + 1) \in DOMAIN trie
  BY <1>3, <1>4, <1>5 DEF Paths
<1>7. trie[Upto(s, n)].type = "ARR"
  BY <1>2, <1>3, <1>4, <1>5 DEF Paths
<1>8. s[n + 1] \in Byte /\ Upto(s, n + 1) = Append(Upto(s, n), s[n + 1])
  BY <1>1, <1>3, UptoAppends
<1>9. s[n + 1] \in trie[Upto(s, n)].min .. trie[Upto(s, n)].max
  BY <1>1, <1>6, <1>7, <1>8 DEF Ranges
<1>10. Leads(s, n + 1)
  BY <1>3, <1>6, <1>7, <1>9 DEF Leads
<1>11. QED
  BY <1>1, <1>3, <1>10

-----------------------------------------------------------------------------
(* What was loaded: strings with a node of a key or of the mouse.          *)
Nodes == UNION {NodeOf(cap) : cap \in Names}
Given == [string : Seq(Byte), node : Nodes]

LEMMA NodeTypes == \A node \in Nodes : node.type \in {"KEY", "MOUSE"}
<1>1. ASSUME NEW cap \in Names, NEW node \in NodeOf(cap)
      PROVE  node.type \in {"KEY", "MOUSE"}
  <2>1. CASE cap = "mouse"
    BY <1>1, <2>1 DEF NodeOf, MouseNode
  <2>2. CASE cap # "mouse"
    BY <1>1, <2>2 DEF NodeOf, KeyNode
  <2>3. QED
    BY <2>1, <2>2
<1>2. QED
  BY <1>1 DEF Nodes

(* The nodes of keys are those of the strings that are heard.              *)
KeysThere ==
  \A p \in DOMAIN trie : trie[p].type # "ARR" => \E k \in Heard : given[k].string = p
HeardThere ==
  \A k \in Heard : given[k].string \in DOMAIN trie /\ trie[given[k].string] = given[k].node

(* While loading, every string leads somewhere, nowhere else does the trie *)
(* lead, and an array has room for every byte.                             *)
StringsThere == \A k \in DOMAIN given : given[k].string \in DOMAIN trie
NothingElse ==
  \A p \in DOMAIN trie : p # <<>> => \E k \in Heard : IsPrefix(p, given[k].string)
Uncompressed ==
  \A p \in DOMAIN trie : trie[p].type = "ARR" => trie[p] = ArrNode(0, 255)

TrieInv ==
  /\ given \in Seq(Given)
  /\ status # "aborted" => Paths /\ KeysThere /\ HeardThere
  /\ status \in {"loading", "failed"} => Uncompressed
  /\ status = "loading" => StringsThere
  /\ status \in {"loading", "loaded"} => NothingElse
  /\ status = "loaded" => Ranges
  /\ LoadsUnlessClash

LEMMA RoomForAll == Uncompressed => Ranges
BY DEF Uncompressed, Ranges, ArrNode, Byte

LEMMA GivenFacts ==
  ASSUME given \in Seq(Given), NEW k \in DOMAIN given
  PROVE  /\ k \in 1 .. Len(given)
         /\ given[k].string \in Seq(Byte) /\ given[k].node \in Nodes
<1>1. DOMAIN given = 1 .. Len(given) /\ given[k] \in Given
  OBVIOUS
<1>2. QED
  BY <1>1 DEF Given

(* Of two strings that are heard the second does not begin the first.      *)
LEMMA HeardFacts ==
  ASSUME NEW k \in Heard
  PROVE  /\ k \in DOMAIN given /\ given[k].string # <<>>
         /\ \A j \in 1 .. k - 1 : ~IsPrefix(given[k].string, given[j].string)
BY DEF Heard

(* The string of a new entry is heard unless an earlier one says it.       *)
LEMMA HeardGrows ==
  ASSUME given \in Seq(Given), NEW g \in Given, given' = Append(given, g)
  PROVE  /\ given' \in Seq(Given) /\ DOMAIN given' = DOMAIN given \cup {Len(given) + 1}
         /\ \A k \in DOMAIN given : given'[k] = given[k]
         /\ given'[Len(given) + 1] = g
         /\ \A k \in DOMAIN given : k \in Heard' <=> k \in Heard
         /\ Len(given) + 1 \in Heard' <=>
              /\ g.string # <<>>
              /\ \A j \in DOMAIN given : ~IsPrefix(g.string, given[j].string)
<1>1. /\ given' \in Seq(Given) /\ Len(given') = Len(given) + 1
      /\ \A k \in 1 .. Len(given) : given'[k] = given[k]
      /\ given'[Len(given) + 1] = g
  BY AppendProperties
<1>2. /\ DOMAIN given = 1 .. Len(given) /\ DOMAIN given' = 1 .. Len(given) + 1
      /\ Len(given) \in Nat
  BY <1>1
<1>3. ASSUME NEW k \in DOMAIN given PROVE k \in Heard' <=> k \in Heard
  <2>1. \A j \in 1 .. k - 1 : given'[j] = given[j]
    BY <1>1, <1>2
  <2>2. given'[k] = given[k] /\ k \in DOMAIN given'
    BY <1>1, <1>2
  <2>3. QED
    BY <2>1, <2>2 DEF Heard
<1>4. Len(given) + 1 \in Heard' <=>
        /\ g.string # <<>>
        /\ \A j \in DOMAIN given : ~IsPrefix(g.string, given[j].string)
  <2>1. Len(given) + 1 \in DOMAIN given' /\ 1 .. (Len(given) + 1) - 1 = DOMAIN given
    BY <1>2
  <2>2. QED
    BY <1>1, <1>2, <2>1 DEF Heard
<1>5. QED
  BY <1>1, <1>2, <1>3, <1>4

-----------------------------------------------------------------------------
(* Where seq leaves the trie, at an array, nothing of it is there beyond.  *)
LEMMA Branch ==
  ASSUME NEW seq \in Seq(Byte), Paths, Uncompressed,
         Reached(seq) = Len(seq) \/ trie[Upto(seq, Reached(seq))].type = "ARR"
  PROVE  /\ \A m \in 0 .. Len(seq) : m <= Reached(seq) <=> Upto(seq, m) \in DOMAIN trie
         /\ \A m \in 0 .. Len(seq) : m < Len(seq) /\ Upto(seq, m) \in DOMAIN trie =>
              trie[Upto(seq, m)].type = "ARR"
<1>1. /\ Reached(seq) \in 0 .. Len(seq) /\ Upto(seq, Reached(seq)) \in DOMAIN trie
  BY ReachedFacts DEF Paths
<1>2. Ranges
  BY RoomForAll
<1>3. ASSUME NEW m \in 0 .. Len(seq), m <= Reached(seq) PROVE Upto(seq, m) \in DOMAIN trie
  <2>1. Upto(seq, Reached(seq)) \in Seq(Byte) /\ Len(Upto(seq, Reached(seq))) = Reached(seq)
    BY <1>1, UptoFacts
  <2>2. m \in 0 .. Reached(seq)
    BY <1>1, <1>3
  <2>3. Upto(Upto(seq, Reached(seq)), m) = Upto(seq, m)
    BY <1>1, <2>2, UptoUpto
  <2>4. QED
    BY <1>1, <2>1, <2>2, <2>3 DEF Paths
<1>4. ASSUME NEW m \in 0 .. Len(seq), Upto(seq, m) \in DOMAIN trie PROVE m <= Reached(seq)
  BY <1>2, <1>4, ReachedLongest
<1>5. ASSUME NEW m \in 0 .. Len(seq), m < Len(seq), Upto(seq, m) \in DOMAIN trie
      PROVE  trie[Upto(seq, m)].type = "ARR"
  <2>1. m <= Reached(seq)
    BY <1>4, <1>5
  <2>2. CASE m < Reached(seq)
    BY <2>2, ReachedArrays
  <2>3. CASE m = Reached(seq)
    BY <1>1, <1>5, <2>3
  <2>4. QED
    BY <1>1, <2>1, <2>2, <2>3
<1>6. QED
  BY <1>3, <1>4, <1>5

(* With new nodes for the beginnings of seq the trie still is made of      *)
(* paths, and its arrays have room for every byte.                         *)
LEMMA ExtendedPaths ==
  ASSUME NEW seq \in Seq(Byte), NEW to \in 0 .. Len(seq), NEW node, Paths, Uncompressed,
         Reached(seq) = Len(seq) \/ trie[Upto(seq, Reached(seq))].type = "ARR",
         node.type # "ARR", trie' = Extended(seq, to, node)
  PROVE  Paths' /\ Uncompressed'
<1>1. /\ DOMAIN trie' = DOMAIN trie \cup {Upto(seq, n) : n \in 0 .. to}
      /\ \A p \in DOMAIN trie : trie'[p] = trie[p]
      /\ \A p \in DOMAIN trie' : p \notin DOMAIN trie =>
           trie'[p] = IF p = seq THEN node ELSE ArrNode(0, 255)
  BY DEF Extended
<1>2. \A n \in 0 .. to : n \in 0 .. Len(seq)
  OBVIOUS
<1>3. \A n \in 0 .. to : Upto(seq, n) \in Seq(Byte) /\ Len(Upto(seq, n)) = n
  BY <1>2, UptoFacts
<1>4. Uncompressed'
  <2>1. ASSUME NEW p \in DOMAIN trie', trie'[p].type = "ARR" PROVE trie'[p] = ArrNode(0, 255)
    <3>1. CASE p \in DOMAIN trie
      BY <1>1, <2>1, <3>1 DEF Uncompressed
    <3>2. CASE p \notin DOMAIN trie
      BY <1>1, <2>1, <3>2
    <3>3. QED
      BY <3>1, <3>2
  <2>2. QED
    BY <2>1 DEF Uncompressed
<1>5. <<>> \in DOMAIN trie' /\ DOMAIN trie' \subseteq Seq(Byte)
  BY <1>1, <1>3 DEF Paths
<1>6. ASSUME NEW p \in DOMAIN trie', NEW n \in 0 .. Len(p)
      PROVE  /\ Upto(p, n) \in DOMAIN trie'
             /\ n < Len(p) => trie'[Upto(p, n)].type = "ARR"
  <2>1. CASE p \in DOMAIN trie
    BY <1>1, <2>1 DEF Paths
  <2>2. CASE p \notin DOMAIN trie
    <3>1. PICK m \in 0 .. to : p = Upto(seq, m)
      BY <1>1, <2>2
    <3>2. m \in 0 .. Len(seq) /\ Len(p) = m /\ n \in 0 .. m /\ n \in 0 .. to /\ n \in 0 .. Len(seq)
      BY <1>3, <3>1
    <3>3. Upto(p, n) = Upto(seq, n)
      BY <3>1, <3>2, UptoUpto
    <3>4. Upto(p, n) \in DOMAIN trie'
      BY <1>1, <3>2, <3>3
    <3>5. ASSUME n < Len(p) PROVE trie'[Upto(p, n)].type = "ARR"
      <4>1. n < Len(seq) /\ Len(Upto(seq, n)) = n
        BY <1>3, <3>2, <3>5
      <4>2. CASE Upto(seq, n) \in DOMAIN trie
        <5>1. trie[Upto(seq, n)].type = "ARR"
          BY <3>2, <4>1, <4>2, Branch
        <5>2. QED
          BY <1>1, <3>3, <4>2, <5>1
      <4>3. CASE Upto(seq, n) \notin DOMAIN trie
        <5>1. Upto(seq, n) # seq
          BY <4>1
        <5>2. trie'[Upto(seq, n)] = ArrNode(0, 255)
          BY <1>1, <3>3, <3>4, <4>3, <5>1
        <5>3. QED
          BY <3>3, <5>2 DEF ArrNode
      <4>4. QED
        BY <4>2, <4>3
    <3>6. QED
      BY <3>4, <3>5
  <2>3. QED
    BY <2>1, <2>2
<1>7. QED
  BY <1>4, <1>5, <1>6 DEF Paths

-----------------------------------------------------------------------------
(* The parts of the invariant that are about nodes and strings only look   *)
(* at these two.                                                           *)
LEMMA SameGiven ==
  ASSUME given' = given
  PROVE  Heard' = Heard
BY DEF Heard

(* load_terminfo begins with a root and no string.                         *)
LEMMA TrieStarts == TrieInit => TrieInv
<1> SUFFICES ASSUME TrieInit PROVE TrieInv
  OBVIOUS
<1>1. /\ DOMAIN trie = {<<>>} /\ trie[<<>>] = ArrNode(0, 255)
      /\ given = <<>> /\ status = "loading"
  BY DEF TrieInit
<1>2. Heard = {} /\ DOMAIN given = {}
  BY <1>1 DEF Heard
<1>3. given \in Seq(Given)
  BY <1>1
<1>4. Paths
  <2>1. \A p \in DOMAIN trie : \A n \in 0 .. Len(p) : n = 0 /\ p = <<>>
    BY <1>1
  <2>2. Upto(<<>>, 0) = <<>>
    BY SubSeqEmpty DEF Upto
  <2>3. QED
    BY <1>1, <2>1, <2>2 DEF Paths
<1>5. KeysThere /\ HeardThere /\ Uncompressed /\ StringsThere /\ NothingElse
  BY <1>1, <1>2 DEF KeysThere, HeardThere, Uncompressed, StringsThere, NothingElse, ArrNode
<1>6. LoadsUnlessClash
  BY <1>1 DEF LoadsUnlessClash
<1>7. QED
  BY <1>1, <1>3, <1>4, <1>5, <1>6 DEF TrieInv

(* insert_seq aborts over a string that goes on behind a key's.            *)
LEMMA AbortIsClash ==
  ASSUME TrieInv, status = "loading", NEW value \in Seq(Byte), NEW node \in Nodes,
         Reached(value) < Len(value), trie[Upto(value, Reached(value))].type # "ARR",
         given' = Append(given, [string |-> value, node |-> node]), status' = "aborted"
  PROVE  TrieInv'
<1>1. given \in Seq(Given) /\ Paths /\ KeysThere
  BY DEF TrieInv
<1>2. [string |-> value, node |-> node] \in Given
  BY DEF Given
<1>3. /\ given' \in Seq(Given) /\ DOMAIN given' = DOMAIN given \cup {Len(given) + 1}
      /\ \A k \in DOMAIN given : given'[k] = given[k] /\ (k \in Heard' <=> k \in Heard)
      /\ given'[Len(given) + 1] = [string |-> value, node |-> node]
  BY <1>1, <1>2, HeardGrows
<1>4. Reached(value) \in 0 .. Len(value) /\ Upto(value, Reached(value)) \in DOMAIN trie
  BY <1>1, ReachedFacts DEF Paths
<1>5. PICK j \in Heard : given[j].string = Upto(value, Reached(value))
  BY <1>1, <1>4 DEF KeysThere
<1>6. /\ j \in DOMAIN given /\ j < Len(given) + 1
      /\ given'[j].string = Upto(value, Reached(value)) /\ j \in Heard'
  BY <1>1, <1>3, <1>5, HeardFacts
<1>7. IsStrictPrefix(Upto(value, Reached(value)), value)
  <2>1. /\ Upto(value, Reached(value)) \in Seq(Byte)
        /\ Len(Upto(value, Reached(value))) = Reached(value)
    BY <1>4, UptoFacts
  <2>2. IsPrefix(Upto(value, Reached(value)), value)
    BY <1>4, <2>1, PrefixIsUpto
  <2>3. QED
    BY <2>1, <2>2 DEF IsStrictPrefix
<1>8. LoadsUnlessClash'
  <2>1. given'[Len(given) + 1].string = value /\ Len(given) + 1 \in DOMAIN given'
    BY <1>3
  <2>2. \E k \in DOMAIN given', h \in Heard' :
          h < k /\ IsStrictPrefix(given'[h].string, given'[k].string)
    BY <1>6, <1>7, <2>1
  <2>3. QED
    BY <2>2 DEF LoadsUnlessClash
<1>9. QED
  BY <1>3, <1>8 DEF TrieInv

(* A string that leads to a node already is not heard and changes nothing. *)
LEMMA TakenKeeps ==
  ASSUME TrieInv, status = "loading", NEW value \in Seq(Byte), NEW node \in Nodes,
         value \in DOMAIN trie, trie' = Extended(value, Len(value), node),
         given' = Append(given, [string |-> value, node |-> node]), status' = status
  PROVE  TrieInv'
<1>1. /\ given \in Seq(Given) /\ Paths /\ KeysThere /\ HeardThere
      /\ Uncompressed /\ StringsThere /\ NothingElse
  BY DEF TrieInv
<1>2. [string |-> value, node |-> node] \in Given
  BY DEF Given
<1>3. /\ given' \in Seq(Given) /\ DOMAIN given' = DOMAIN given \cup {Len(given) + 1}
      /\ \A k \in DOMAIN given : given'[k] = given[k] /\ (k \in Heard' <=> k \in Heard)
      /\ given'[Len(given) + 1] = [string |-> value, node |-> node]
      /\ Len(given) + 1 \in Heard' <=>
           value # <<>> /\ \A j \in DOMAIN given : ~IsPrefix(value, given[j].string)
  BY <1>1, <1>2, HeardGrows
<1>4. Len(given) + 1 \notin Heard'
  <2>1. CASE value = <<>>
    BY <1>3, <2>1
  <2>2. CASE value # <<>>
    <3>1. PICK j \in Heard : IsPrefix(value, given[j].string)
      BY <1>1, <2>2 DEF NothingElse
    <3>2. j \in DOMAIN given
      BY HeardFacts
    <3>3. QED
      BY <1>3, <3>1, <3>2
  <2>3. QED
    BY <2>1, <2>2
<1>5. /\ Heard' = Heard
      /\ \A k \in Heard : given'[k] = given[k]
  BY <1>3, <1>4, HeardFacts, SMTT(20) DEF Heard
<1>6. \A n \in 0 .. Len(value) : Upto(value, n) \in DOMAIN trie
  BY <1>1 DEF Paths
<1>7. DOMAIN trie' = DOMAIN trie /\ \A p \in DOMAIN trie : trie'[p] = trie[p]
  BY <1>6 DEF Extended
<1>8. Paths' /\ Uncompressed'
  BY <1>1, <1>7 DEF Paths, Uncompressed
<1>9. KeysThere' /\ HeardThere' /\ NothingElse'
  <2>1. KeysThere'
    <3>1. ASSUME NEW p \in DOMAIN trie', trie'[p].type # "ARR"
          PROVE  \E k \in Heard' : given'[k].string = p
      <4>1. p \in DOMAIN trie /\ trie[p].type # "ARR"
        BY <1>7, <3>1
      <4>2. PICK k \in Heard : given[k].string = p
        BY <1>1, <4>1 DEF KeysThere
      <4>3. QED
        BY <1>5, <4>2
    <3>2. QED
      BY <3>1 DEF KeysThere
  <2>2. ASSUME NEW k \in Heard'
        PROVE  given'[k].string \in DOMAIN trie' /\ trie'[given'[k].string] = given'[k].node
    <3>1. k \in Heard /\ given'[k] = given[k]
      BY <1>5
    <3>2. given[k].string \in DOMAIN trie /\ trie[given[k].string] = given[k].node
      BY <1>1, <3>1 DEF HeardThere
    <3>3. QED
      BY <1>7, <3>1, <3>2
  <2>3. NothingElse'
    BY <1>1, <1>5, <1>7 DEF NothingElse
  <2>4. QED
    BY <2>1, <2>2, <2>3 DEF HeardThere
<1>10. StringsThere'
  BY <1>1, <1>3, <1>7 DEF StringsThere
<1>11. QED
  BY <1>3, <1>8, <1>9, <1>10 DEF TrieInv, LoadsUnlessClash

(* A string that leaves the trie at an array is heard and gets its nodes.  *)
LEMMA InsertKeeps ==
  ASSUME TrieInv, status = "loading", NEW value \in Seq(Byte), NEW node \in Nodes,
         value \notin DOMAIN trie, trie[Upto(value, Reached(value))].type = "ARR",
         trie' = Extended(value, Len(value), node),
         given' = Append(given, [string |-> value, node |-> node]), status' = status
  PROVE  TrieInv'
<1>1. /\ given \in Seq(Given) /\ Paths /\ KeysThere /\ HeardThere
      /\ Uncompressed /\ StringsThere /\ NothingElse
  BY DEF TrieInv
<1>2. [string |-> value, node |-> node] \in Given
  BY DEF Given
<1>3. /\ given' \in Seq(Given) /\ DOMAIN given' = DOMAIN given \cup {Len(given) + 1}
      /\ \A k \in DOMAIN given : given'[k] = given[k] /\ (k \in Heard' <=> k \in Heard)
      /\ given'[Len(given) + 1] = [string |-> value, node |-> node]
      /\ Len(given) + 1 \in Heard' <=>
           value # <<>> /\ \A j \in DOMAIN given : ~IsPrefix(value, given[j].string)
  BY <1>1, <1>2, HeardGrows
<1>4. Len(given) + 1 \in Heard'
  <2>1. value # <<>>
    BY <1>1 DEF Paths
  <2>2. ASSUME NEW j \in DOMAIN given, IsPrefix(value, given[j].string) PROVE FALSE
    <3>1. given[j].string \in DOMAIN trie /\ given[j].string \in Seq(Byte)
      BY <1>1, GivenFacts DEF StringsThere
    <3>2. Len(value) \in 0 .. Len(given[j].string) /\ value = Upto(given[j].string, Len(value))
      BY <2>2, <3>1, PrefixIsUpto
    <3>3. QED
      BY <1>1, <3>1, <3>2 DEF Paths
  <2>3. QED
    BY <1>3, <2>1, <2>2
<1>5. /\ \A k \in Heard : k \in Heard' /\ given'[k] = given[k]
      /\ \A k \in Heard' : k \in Heard \/ k = Len(given) + 1
  BY <1>3, HeardFacts DEF Heard
<1>6. /\ DOMAIN trie' = DOMAIN trie \cup {Upto(value, n) : n \in 0 .. Len(value)}
      /\ \A p \in DOMAIN trie : trie'[p] = trie[p]
      /\ \A p \in DOMAIN trie' : p \notin DOMAIN trie =>
           trie'[p] = IF p = value THEN node ELSE ArrNode(0, 255)
  BY DEF Extended
<1>7. Paths' /\ Uncompressed'
  <2>1. node.type # "ARR"
    BY NodeTypes
  <2>2. Len(value) \in 0 .. Len(value)
    OBVIOUS
  <2>3. QED
    BY <1>1, <2>1, <2>2, ExtendedPaths
<1>8. value \in DOMAIN trie' /\ trie'[value] = node
  <2>1. Upto(value, Len(value)) = value /\ Len(value) \in 0 .. Len(value)
    BY UptoEnds
  <2>2. value \in DOMAIN trie'
    BY <1>6, <2>1
  <2>3. QED
    BY <1>6, <2>2
<1>9. KeysThere'
  <2>1. ASSUME NEW p \in DOMAIN trie', trie'[p].type # "ARR"
        PROVE  \E k \in Heard' : given'[k].string = p
    <3>1. CASE p \in DOMAIN trie
      <4>1. PICK k \in Heard : given[k].string = p
        BY <1>1, <1>6, <2>1, <3>1 DEF KeysThere
      <4>2. QED
        BY <1>5, <4>1
    <3>2. CASE p \notin DOMAIN trie
      <4>1. p = value
        BY <1>6, <2>1, <3>2 DEF ArrNode
      <4>2. QED
        BY <1>3, <1>4, <4>1
    <3>3. QED
      BY <3>1, <3>2
  <2>2. QED
    BY <2>1 DEF KeysThere
<1>10. HeardThere'
  <2>1. ASSUME NEW k \in Heard'
        PROVE  given'[k].string \in DOMAIN trie' /\ trie'[given'[k].string] = given'[k].node
    <3>1. CASE k \in Heard
      <4>1. given'[k] = given[k]
        BY <1>5, <3>1
      <4>2. given[k].string \in DOMAIN trie /\ trie[given[k].string] = given[k].node
        BY <1>1, <3>1 DEF HeardThere
      <4>3. QED
        BY <1>6, <4>1, <4>2
    <3>2. CASE k = Len(given) + 1
      BY <1>3, <1>8, <3>2
    <3>3. QED
      BY <1>5, <3>1, <3>2
  <2>2. QED
    BY <2>1 DEF HeardThere
<1>11. NothingElse'
  <2>1. ASSUME NEW p \in DOMAIN trie', p # <<>>
        PROVE  \E k \in Heard' : IsPrefix(p, given'[k].string)
    <3>1. CASE p \in DOMAIN trie
      <4>1. PICK k \in Heard : IsPrefix(p, given[k].string)
        BY <1>1, <2>1, <3>1 DEF NothingElse
      <4>2. QED
        BY <1>5, <4>1
    <3>2. CASE p \notin DOMAIN trie
      <4>1. PICK n \in 0 .. Len(value) : p = Upto(value, n)
        BY <1>6, <3>2
      <4>2. p \in Seq(Byte) /\ Len(p) = n
        BY <4>1, UptoFacts
      <4>3. IsPrefix(p, value)
        BY <4>1, <4>2, PrefixIsUpto
      <4>4. QED
        BY <1>3, <1>4, <4>3
    <3>3. QED
      BY <3>1, <3>2
  <2>2. QED
    BY <2>1 DEF NothingElse
<1>12. StringsThere'
  BY <1>1, <1>3, <1>6, <1>8 DEF StringsThere
<1>13. QED
  BY <1>3, <1>7, <1>9, <1>10, <1>11, <1>12 DEF TrieInv, LoadsUnlessClash

(* One turn of the loop for a capability with a string and a key.          *)
LEMMA LoadKeyKeeps ==
  ASSUME TrieInv, NEW cap \in Names, NEW value \in StringsOf[cap] \ {NoString},
         load_key(cap, value)
  PROVE  TrieInv'
<1>1. status = "loading"
  BY DEF load_key, Turn
<1>2. value \in Seq(Byte)
  <2>1. value \in Seq(Byte \ {0})
    BY TrieAssumption
  <2>2. QED
    BY <2>1
<1>3. PICK node \in NodeOf(cap) :
        insert_seq(value, node) /\ given' = Append(given, [string |-> value, node |-> node])
  BY DEF load_key
<1>4. node \in Nodes
  BY <1>3 DEF Nodes
<1>5. Paths /\ Uncompressed
  BY <1>1 DEF TrieInv
<1>6. /\ Reached(value) \in 0 .. Len(value) /\ Upto(value, Reached(value)) \in DOMAIN trie
      /\ Upto(value, Len(value)) = value
  BY <1>2, <1>5, ReachedFacts, UptoEnds DEF Paths
<1>7. CASE Reached(value) < Len(value) /\ trie[Upto(value, Reached(value))].type # "ARR"
  <2>1. status' = "aborted"
    BY <1>3, <1>7 DEF insert_seq
  <2>2. QED
    BY <1>1, <1>2, <1>3, <1>4, <1>7, <2>1, AbortIsClash
<1>8. CASE ~(Reached(value) < Len(value) /\ trie[Upto(value, Reached(value))].type # "ARR")
  <2>1. trie' = Extended(value, Len(value), node) /\ status' = status
    BY <1>3, <1>8 DEF insert_seq
  <2>2. CASE value \in DOMAIN trie
    BY <1>1, <1>2, <1>3, <1>4, <2>1, <2>2, TakenKeeps
  <2>3. CASE value \notin DOMAIN trie
    <3>1. Reached(value) < Len(value)
      BY <1>6, <2>3
    <3>2. trie[Upto(value, Reached(value))].type = "ARR"
      BY <1>8, <3>1
    <3>3. QED
      BY <1>1, <1>2, <1>3, <1>4, <2>1, <2>3, <3>2, InsertKeeps
  <2>4. QED
    BY <2>2, <2>3
<1>9. QED
  BY <1>7, <1>8

(* When memory runs out only arrays were added.                            *)
LEMMA LoadFailsKeeps ==
  ASSUME TrieInv, NEW cap \in Names, NEW value \in StringsOf[cap] \ {NoString},
         load_fails(cap, value)
  PROVE  TrieInv'
<1>1. status = "loading" /\ status' = "failed" /\ given' = given
  BY DEF load_fails, Turn
<1>2. given \in Seq(Given) /\ Paths /\ KeysThere /\ HeardThere /\ Uncompressed
  BY <1>1 DEF TrieInv
<1>3. Heard' = Heard
  BY <1>1, SameGiven
<1>4. CASE trie' = trie
  <2>1. Paths' /\ KeysThere' /\ HeardThere' /\ Uncompressed'
    BY <1>1, <1>2, <1>3, <1>4 DEF Paths, KeysThere, HeardThere, Uncompressed
  <2>2. QED
    BY <1>1, <1>2, <2>1 DEF TrieInv, LoadsUnlessClash
<1>5. ASSUME NEW node \in NodeOf(cap), NEW to \in Reached(value) .. Len(value) - 2,
             trie[Upto(value, Reached(value))].type = "ARR",
             trie' = Extended(value, to, node)
      PROVE  TrieInv'
  <2>1. value \in Seq(Byte)
    <3>1. value \in Seq(Byte \ {0})
      BY TrieAssumption
    <3>2. QED
      BY <3>1
  <2>2. Reached(value) \in 0 .. Len(value)
    BY <1>2, <2>1, ReachedFacts DEF Paths
  <2>3. to \in 0 .. Len(value) /\ to < Len(value)
    BY <2>1, <2>2
  <2>4. node.type # "ARR"
    BY NodeTypes DEF Nodes
  <2>5. Paths' /\ Uncompressed'
    BY <1>2, <1>5, <2>1, <2>3, <2>4, ExtendedPaths
  <2>6. /\ DOMAIN trie' = DOMAIN trie \cup {Upto(value, n) : n \in 0 .. to}
        /\ \A p \in DOMAIN trie : trie'[p] = trie[p]
        /\ \A p \in DOMAIN trie' : p \notin DOMAIN trie =>
             trie'[p] = IF p = value THEN node ELSE ArrNode(0, 255)
    BY <1>5 DEF Extended
  <2>7. ASSUME NEW p \in DOMAIN trie', p \notin DOMAIN trie PROVE trie'[p].type = "ARR"
    <3>1. PICK n \in 0 .. to : p = Upto(value, n)
      BY <2>6, <2>7
    <3>2. n \in 0 .. Len(value) /\ n < Len(value)
      BY <2>3
    <3>3. Len(p) = n
      BY <2>1, <3>1, <3>2, UptoFacts
    <3>4. p # value
      BY <3>2, <3>3
    <3>5. QED
      BY <2>6, <2>7, <3>4 DEF ArrNode
  <2>8. KeysThere'
    <3>1. ASSUME NEW p \in DOMAIN trie', trie'[p].type # "ARR"
          PROVE  \E k \in Heard' : given'[k].string = p
      <4>1. p \in DOMAIN trie /\ trie[p].type # "ARR"
        BY <2>6, <2>7, <3>1
      <4>2. QED
        BY <1>1, <1>2, <1>3, <4>1 DEF KeysThere
    <3>2. QED
      BY <3>1 DEF KeysThere
  <2>9. HeardThere'
    <3>1. \A k \in Heard : /\ given[k].string \in DOMAIN trie
                           /\ trie[given[k].string] = given[k].node
      BY <1>2 DEF HeardThere
    <3>2. \A k \in Heard : /\ given[k].string \in DOMAIN trie'
                           /\ trie'[given[k].string] = given[k].node
      BY <2>6, <3>1
    <3>3. QED
      BY <1>1, <1>3, <3>2 DEF HeardThere
  <2>10. QED
    BY <1>1, <1>2, <2>5, <2>8, <2>9 DEF TrieInv, LoadsUnlessClash
<1>6. QED
  BY <1>4, <1>5 DEF load_fails

-----------------------------------------------------------------------------
(* Bounds takes in all of a node's bytes.                                  *)
LEMMA BoundsHold ==
  ASSUME NEW p
  PROVE  /\ Bounds(p).type = "ARR"
         /\ \A b \in Children(p) : b \in Bounds(p).min .. Bounds(p).max
<1>1. Bounds(p) = [type |-> "ARR", min |-> Min(Children(p)), max |-> Max(Children(p))]
  BY DEF Bounds, ArrNode
<1>2. ASSUME NEW b \in Children(p) PROVE b \in Min(Children(p)) .. Max(Children(p))
  <2> DEFINE C == Children(p)
  <2>1. C \subseteq 0 .. 255 /\ C \subseteq Nat /\ C # {} /\ 255 \in Nat
    BY <1>2 DEF Children, Byte
  <2> HIDE DEF C
  <2>2. \E x \in C : \A y \in C : x <= y
    BY <2>1, HasLeast
  <2>3. Min(C) \in C /\ \A y \in C : Min(C) <= y
    BY <2>2 DEF Min
  <2>4. \E x \in C : \A y \in C : y <= x
    BY <2>1, HasGreatest
  <2>5. \E x \in C : \A y \in C : x >= y
    BY <2>1, <2>4
  <2>6. Max(C) \in C /\ \A y \in C : Max(C) >= y
    BY <2>5 DEF Max
  <2>7. b \in C
    BY <1>2 DEF C
  <2>8. b \in Min(C) .. Max(C)
    BY <2>1, <2>3, <2>6, <2>7
  <2>9. QED
    BY <2>8 DEF C
<1>3. QED
  BY <1>1, <1>2

(* A string that is heard leads on from the root.                          *)
LEMMA HeardBranches ==
  ASSUME given \in Seq(Given), Paths, HeardThere, NEW k \in Heard
  PROVE  Children(<<>>) # {}
<1> DEFINE s == given[k].string
<1>1. s \in Seq(Byte) /\ s # <<>> /\ s \in DOMAIN trie
  BY GivenFacts, HeardFacts DEF HeardThere
<1> HIDE DEF s
<1>2. 0 \in 0 .. Len(s) /\ 0 < Len(s) /\ 1 \in 0 .. Len(s) /\ 0 + 1 = 1
  BY <1>1
<1>3. s[1] \in Byte /\ Upto(s, 1) = Append(Upto(s, 0), s[1])
  BY <1>1, <1>2, UptoAppends
<1>4. Upto(s, 0) = <<>>
  BY <1>1, UptoEnds
<1>5. Upto(s, 1) \in DOMAIN trie
  BY <1>1, <1>2 DEF Paths
<1>6. s[1] \in Children(<<>>)
  BY <1>3, <1>4, <1>5 DEF Children
<1>7. QED
  BY <1>6

(* compress_trie leaves the nodes and bounds their arrays.                 *)
LEMMA CompressKeeps ==
  ASSUME TrieInv, compress_trie
  PROVE  TrieInv'
<1>1. status = "loading" /\ given' = given /\ Heard' = Heard
  BY SameGiven DEF compress_trie
<1>2. /\ given \in Seq(Given) /\ Paths /\ KeysThere /\ HeardThere
      /\ Uncompressed /\ NothingElse
  BY <1>1 DEF TrieInv
<1>3. CASE trie' = trie
  <2>1. Paths' /\ KeysThere' /\ HeardThere'
    BY <1>1, <1>2, <1>3 DEF Paths, KeysThere, HeardThere
  <2>2. CASE status' = "searching"
    <3>1. Heard = {}
      <4>1. Children(<<>>) = {}
        BY <2>2 DEF compress_trie
      <4>2. QED
        BY <1>2, <4>1, HeardBranches
    <3>2. QED
      BY <1>1, <1>2, <2>1, <2>2, <3>1 DEF TrieInv, LoadsUnlessClash
  <2>3. CASE status' = "crashed"
    BY <1>1, <1>2, <2>1, <2>3 DEF TrieInv, LoadsUnlessClash
  <2>4. CASE status' = "loaded"
    <3>1. trie' = [p \in DOMAIN trie |-> IF trie[p].type = "ARR" THEN Bounds(p) ELSE trie[p]]
      BY <2>4 DEF compress_trie
    <3>2. ASSUME NEW p \in DOMAIN trie', trie'[p].type = "ARR", NEW b \in Byte,
                 Append(p, b) \in DOMAIN trie'
          PROVE  b \in trie'[p].min .. trie'[p].max
      <4>1. p \in DOMAIN trie /\ trie'[p] = Bounds(p) /\ b \in Children(p)
        BY <1>3, <3>1, <3>2 DEF Children
      <4>2. QED
        BY <4>1, BoundsHold
    <3>3. Ranges'
      BY <3>2 DEF Ranges
    <3>4. NothingElse'
      BY <1>1, <1>2, <1>3 DEF NothingElse
    <3>5. QED
      BY <1>1, <1>2, <2>1, <2>4, <3>3, <3>4 DEF TrieInv, LoadsUnlessClash
  <2>5. QED
    BY <2>2, <2>3, <2>4 DEF compress_trie
<1>4. CASE /\ trie' = [p \in DOMAIN trie |->
                          IF trie[p].type = "ARR" THEN Bounds(p) ELSE trie[p]]
           /\ status' = "loaded"
  <2>1. /\ DOMAIN trie' = DOMAIN trie
        /\ \A p \in DOMAIN trie : trie[p].type = "ARR" => trie'[p] = Bounds(p)
        /\ \A p \in DOMAIN trie : trie[p].type # "ARR" => trie'[p] = trie[p]
    BY <1>4
  <2>2. \A p \in DOMAIN trie : trie'[p].type = "ARR" <=> trie[p].type = "ARR"
    BY <2>1, BoundsHold
  <2>3. Paths'
    BY <1>2, <2>1, <2>2 DEF Paths
  <2>4. KeysThere'
    BY <1>1, <1>2, <2>1, <2>2 DEF KeysThere
  <2>5. HeardThere'
    <3>1. ASSUME NEW k \in Heard
          PROVE  given[k].string \in DOMAIN trie' /\ trie'[given[k].string] = given[k].node
      <4>1. given[k].string \in DOMAIN trie /\ trie[given[k].string] = given[k].node
        BY <1>2 DEF HeardThere
      <4>2. given[k].node.type # "ARR"
        BY <1>2, GivenFacts, HeardFacts, NodeTypes
      <4>3. QED
        BY <2>1, <4>1, <4>2
    <3>2. QED
      BY <1>1, <3>1 DEF HeardThere
  <2>6. NothingElse'
    BY <1>1, <1>2, <2>1 DEF NothingElse
  <2>7. Ranges'
    <3>1. ASSUME NEW p \in DOMAIN trie', trie'[p].type = "ARR", NEW b \in Byte,
                 Append(p, b) \in DOMAIN trie'
          PROVE  b \in trie'[p].min .. trie'[p].max
      <4>1. p \in DOMAIN trie /\ trie'[p] = Bounds(p) /\ b \in Children(p)
        BY <2>1, <2>2, <3>1 DEF Children
      <4>2. QED
        BY <4>1, BoundsHold
    <3>2. QED
      BY <3>1 DEF Ranges
  <2>8. QED
    BY <1>1, <1>2, <1>4, <2>3, <2>4, <2>5, <2>6, <2>7 DEF TrieInv, LoadsUnlessClash
<1>5. QED
  BY <1>3, <1>4 DEF compress_trie

(* A turn without a key, or none.                                          *)
LEMMA NothingKeeps ==
  ASSUME TrieInv, UNCHANGED <<trie, given, status>>
  PROVE  TrieInv'
<1>1. Heard' = Heard
  BY SameGiven
<1>2. /\ Paths' <=> Paths
      /\ Ranges' <=> Ranges
      /\ Uncompressed' <=> Uncompressed
  BY DEF Paths, Ranges, Uncompressed
<1>3. /\ KeysThere' <=> KeysThere
      /\ HeardThere' <=> HeardThere
      /\ StringsThere' <=> StringsThere
      /\ NothingElse' <=> NothingElse
      /\ LoadsUnlessClash' <=> LoadsUnlessClash
  BY <1>1 DEF KeysThere, HeardThere, StringsThere, NothingElse, LoadsUnlessClash
<1>4. QED
  BY <1>2, <1>3 DEF TrieInv

THEOREM TrieInvariant == TrieSpec => []TrieInv
<1>1. TrieInit => TrieInv
  BY TrieStarts
<1>2. TrieInv /\ [TrieNext]_trievars => TrieInv'
  <2> SUFFICES ASSUME TrieInv, [TrieNext]_trievars PROVE TrieInv'
    OBVIOUS
  <2>1. ASSUME NEW cap \in Names, NEW value \in StringsOf[cap] \ {NoString},
               load_key(cap, value)
        PROVE  TrieInv'
    BY <2>1, LoadKeyKeeps
  <2>2. ASSUME NEW cap \in Names, NEW value \in StringsOf[cap] \ {NoString},
               load_fails(cap, value)
        PROVE  TrieInv'
    BY <2>2, LoadFailsKeeps
  <2>3. ASSUME NEW cap \in Names, load_no_key(cap) PROVE TrieInv'
    BY <2>3, NothingKeeps DEF load_no_key
  <2>4. CASE compress_trie
    BY <2>4, CompressKeeps
  <2>5. CASE UNCHANGED trievars
    BY <2>5, NothingKeeps DEF trievars
  <2>6. QED
    BY <2>1, <2>2, <2>3, <2>4, <2>5 DEF TrieNext
<1>3. QED
  BY <1>1, <1>2, PTL DEF TrieSpec

(* The loop of load_terminfo aborts only over two strings of which one     *)
(* begins with the other, and compress_trie runs for ever only if no       *)
(* string is heard, whatever strings the terminal has.                     *)
THEOREM LoadingEnds == TrieSpec => []LoadsUnlessClash
<1>1. TrieInv => LoadsUnlessClash
  BY DEF TrieInv
<1>2. QED
  BY <1>1, TrieInvariant, PTL

-----------------------------------------------------------------------------
(* The strings that are heard.                                             *)
HeardStrings == {given[k].string : k \in Heard}

LEMMA SaidOnce ==
  ASSUME given \in Seq(Given), NEW k \in Heard
  PROVE  /\ \A j \in Heard : given[j].string = given[k].string => j = k
         /\ Said(given[k].string) = given[k].node
<1>1. DOMAIN given \subseteq Nat
  OBVIOUS
<1>2. ASSUME NEW x \in Heard, NEW y \in Heard, given[x].string = given[y].string, x < y
      PROVE  FALSE
  <2>1. x \in Nat /\ y \in Nat /\ x >= 1
    BY HeardFacts
  <2>2. x \in 1 .. y - 1
    BY <1>2, <2>1
  <2>3. given[y].string \in Seq(Byte)
    BY GivenFacts, HeardFacts
  <2>4. given[y].string = Upto(given[y].string, Len(given[y].string))
    BY <2>3, UptoEnds
  <2>5. IsPrefix(given[y].string, given[x].string)
    BY <1>2, <2>3, <2>4, PrefixIsUpto
  <2>6. QED
    BY <2>2, <2>5, HeardFacts
<1>3. \A j \in Heard : given[j].string = given[k].string => j = k
  <2>1. SUFFICES ASSUME NEW j \in Heard, given[j].string = given[k].string, j # k PROVE FALSE
    OBVIOUS
  <2>2. j \in Nat /\ k \in Nat
    BY <1>1, HeardFacts
  <2>3. j < k \/ k < j
    BY <2>1, <2>2
  <2>4. QED
    BY <1>2, <2>1, <2>3
<1>4. (CHOOSE j \in Heard : given[j].string = given[k].string) = k
  BY <1>3
<1>5. QED
  BY <1>3, <1>4 DEF Said

(* Every string that is heard says a key or the mouse, and not both.       *)
LEMMA WhatIsSaid ==
  ASSUME given \in Seq(Given)
  PROVE  /\ Saying("KEY") \cup Saying("MOUSE") = HeardStrings
         /\ \A k \in Heard : given[k].string \in Saying(given[k].node.type)
         /\ \A k \in Heard : given[k].string \in Saying("MOUSE") =>
              given[k].node.type = "MOUSE"
<1>1. \A k \in Heard : given[k].node.type \in {"KEY", "MOUSE"}
  BY GivenFacts, HeardFacts, NodeTypes
<1>2. \A k \in Heard : given[k].string \in Saying(given[k].node.type)
  BY DEF Saying
<1>3. Saying("KEY") \cup Saying("MOUSE") = HeardStrings
  BY <1>1, <1>2 DEF Saying, HeardStrings
<1>4. ASSUME NEW k \in Heard, given[k].string \in Saying("MOUSE")
      PROVE  given[k].node.type = "MOUSE"
  <2>1. PICK h \in Heard : given[h].node.type = "MOUSE" /\ given[k].string = given[h].string
    BY <1>4 DEF Saying
  <2>2. h = k
    BY <2>1, SaidOnce
  <2>3. QED
    BY <2>1, <2>2
<1>5. QED
  BY <1>2, <1>3, <1>4

(* Where the trie ends along s, and nowhere else, a string may be heard    *)
(* that begins s.                                                          *)
LEMMA FoundAtEnd ==
  ASSUME given \in Seq(Given), Paths, Ranges, HeardThere, NEW s \in Seq(Byte),
         NEW k \in Heard, IsPrefix(given[k].string, s)
  PROVE  given[k].string = Upto(s, Reached(s)) /\ Len(given[k].string) = Reached(s)
<1> DEFINE q == given[k].string
<1>1. q \in Seq(Byte) /\ q \in DOMAIN trie /\ trie[q] = given[k].node
  BY GivenFacts, HeardFacts DEF HeardThere
<1>2. trie[q].type # "ARR"
  BY <1>1, GivenFacts, HeardFacts, NodeTypes
<1>3. Len(q) \in 0 .. Len(s) /\ q = Upto(s, Len(q))
  BY <1>1, PrefixIsUpto
<1> HIDE DEF q
<1>4. Len(q) <= Reached(s)
  BY <1>1, <1>3, ReachedLongest
<1>5. Reached(s) \in 0 .. Len(s)
  BY ReachedFacts DEF Paths
<1>6. ~(Len(q) < Reached(s))
  BY <1>2, <1>3, ReachedArrays
<1>7. Len(q) = Reached(s)
  BY <1>3, <1>4, <1>5, <1>6
<1>8. QED
  BY <1>3, <1>7 DEF q

(* A look-up in a loaded trie answers what the strings say.                *)
LEMMA LookUp ==
  ASSUME TrieInv, NEW s \in Seq(Byte), s # <<>>, NEW force \in BOOLEAN,
         \/ status = "loaded"
         \/ status = "failed" /\ \E k \in Heard : IsPrefix(given[k].string, s)
  PROVE  peekkey(s, force) = Driver!ti_peekkey(s, force)
<1> DEFINE n == Reached(s)
           p == trie[Upto(s, n)]
           Terminfo == [t \in Saying("KEY") |-> Said(t).key]
           known == DOMAIN Terminfo \cup Saying("MOUSE")
           found == {q \in known : Driver!IsPrefix(q, s)}
           KeyAt(q) == IF q \in Saying("MOUSE") THEN Driver!peekkey_mouse(s, Len(q))
                       ELSE Driver!Key(Terminfo[q], Len(q))
           first == CHOOSE q \in found : \A other \in found : Len(q) <= Len(other)
<1>0. \A q, r : Driver!IsPrefix(q, r) <=> IsPrefix(q, r)
  BY DEF Driver!IsPrefix, IsPrefix
<1>1. /\ given \in Seq(Given) /\ Paths /\ KeysThere /\ HeardThere /\ Ranges
      /\ status = "loaded" => NothingElse
  BY RoomForAll DEF TrieInv
<1>2. n \in 0 .. Len(s) /\ Upto(s, n) \in DOMAIN trie
  BY <1>1, ReachedFacts DEF Paths
<1>3. known = HeardStrings
  BY <1>1, WhatIsSaid
<1>4. Driver!ti_peekkey(s, force) =
        IF found # {} THEN KeyAt(first)
        ELSE IF ~force /\ \E long \in known : Driver!IsPrefix(s, long) THEN Driver!Again
        ELSE Driver!NoKey
  BY DEF Driver!ti_peekkey
<1>5. \A q \in found : q = Upto(s, n) /\ Len(q) = n
  BY <1>0, <1>1, <1>3, FoundAtEnd DEF HeardStrings
<1>6. CASE found # {}
  <2>1. PICK k \in Heard : given[k].string = Upto(s, n) /\ Upto(s, n) \in found /\ Len(Upto(s, n)) = n
    BY <1>3, <1>5, <1>6 DEF HeardStrings
  <2>2. first = Upto(s, n)
    <3>1. \A other \in found : Len(Upto(s, n)) <= Len(other)
      BY <1>2, <1>5, <2>1
    <3>2. QED
      BY <1>5, <2>1, <3>1
  <2>3. p = given[k].node /\ Said(Upto(s, n)) = given[k].node
    BY <1>1, <2>1, SaidOnce DEF HeardThere
  <2>4. CASE p.type = "MOUSE"
    <3>1. Upto(s, n) \in Saying("MOUSE")
      BY <1>1, <2>1, <2>3, <2>4, WhatIsSaid
    <3>2. peekkey(s, force) = Driver!peekkey_mouse(s, n)
      BY <2>4 DEF peekkey
    <3>3. KeyAt(first) = Driver!peekkey_mouse(s, n)
      BY <2>1, <2>2, <3>1
    <3>4. QED
      BY <1>4, <1>6, <3>2, <3>3
  <2>5. CASE p.type = "KEY"
    <3>1. Upto(s, n) \in Saying("KEY") /\ Upto(s, n) \notin Saying("MOUSE")
      BY <1>1, <2>1, <2>3, <2>5, WhatIsSaid
    <3>2. peekkey(s, force) = Driver!Key(p.key, n)
      BY <2>5 DEF peekkey
    <3>3. Terminfo[Upto(s, n)] = p.key
      BY <2>3, <3>1
    <3>4. KeyAt(first) = Driver!Key(p.key, n)
      BY <2>1, <2>2, <3>1, <3>3
    <3>5. QED
      BY <1>4, <1>6, <3>2, <3>4
  <2>6. p.type \in {"KEY", "MOUSE"}
    BY <1>1, <2>3, GivenFacts, HeardFacts, NodeTypes
  <2>7. QED
    BY <2>4, <2>5, <2>6
<1>7. CASE found = {}
  <2>1. \A k \in Heard : ~IsPrefix(given[k].string, s)
    BY <1>0, <1>3, <1>7 DEF HeardStrings
  <2>2. p.type = "ARR"
    <3>1. SUFFICES ASSUME p.type # "ARR" PROVE FALSE
      OBVIOUS
    <3>2. PICK k \in Heard : given[k].string = Upto(s, n)
      BY <1>1, <1>2, <3>1 DEF KeysThere
    <3>3. Upto(s, n) \in Seq(Byte) /\ Len(Upto(s, n)) = n
      BY <1>2, UptoFacts
    <3>4. IsPrefix(Upto(s, n), s)
      BY <1>2, <3>3, PrefixIsUpto
    <3>5. QED
      BY <2>1, <3>2, <3>4
  <2>3. n = Len(s) <=> \E long \in known : IsPrefix(s, long)
    <3>1. ASSUME n = Len(s) PROVE \E long \in known : IsPrefix(s, long)
      <4>1. s \in DOMAIN trie
        BY <1>2, <3>1, UptoEnds
      <4>2. NothingElse
        BY <1>1, <2>1
      <4>3. PICK k \in Heard : IsPrefix(s, given[k].string)
        BY <4>1, <4>2 DEF NothingElse
      <4>4. QED
        BY <1>3, <4>3 DEF HeardStrings
    <3>2. ASSUME NEW long \in known, IsPrefix(s, long) PROVE n = Len(s)
      <4>1. long \in DOMAIN trie /\ long \in Seq(Byte)
        BY <1>1, <1>3, GivenFacts, HeardFacts DEF HeardStrings, HeardThere
      <4>2. Len(s) \in 0 .. Len(long) /\ s = Upto(long, Len(s))
        BY <3>2, <4>1, PrefixIsUpto
      <4>3. s \in DOMAIN trie
        BY <1>1, <4>1, <4>2 DEF Paths
      <4>4. Len(s) \in 0 .. Len(s) /\ Upto(s, Len(s)) \in DOMAIN trie
        BY <4>3, UptoEnds
      <4>5. Len(s) <= n
        BY <1>1, <4>4, ReachedLongest
      <4>6. QED
        BY <1>2, <4>5
    <3>3. (\E long \in known : IsPrefix(s, long)) => n = Len(s)
      BY <3>2
    <3>4. QED
      BY <3>1, <3>3
  <2>4. peekkey(s, force) = IF n = Len(s) /\ ~force THEN Driver!Again ELSE Driver!NoKey
    BY <2>2 DEF peekkey
  <2>5. QED
    BY <1>0, <1>4, <1>7, <2>3, <2>4
<1>8. QED
  BY <1>6, <1>7

(* Whatever strings a terminal has for its keys, in whatever order they    *)
(* come and wherever memory runs out, looking bytes up in the trie is      *)
(* looking them up in the table of the strings.                            *)
THEOREM TrieIsTable == TrieSpec => []KeysOfTerminal
<1>1. TrieInv => KeysOfTerminal
  <2> SUFFICES ASSUME TrieInv, NEW s \in Buffers, NEW force \in BOOLEAN,
                      \/ status = "loaded"
                      \/ status = "failed" /\ \E k \in Heard : IsPrefix(given[k].string, s)
               PROVE  peekkey(s, force) = Driver!ti_peekkey(s, force)
    BY DEF KeysOfTerminal
  <2>1. s \in Seq(Byte) /\ s # <<>>
    BY TrieAssumption
  <2>2. QED
    BY <2>1, LookUp
<1>2. QED
  BY <1>1, TrieInvariant, PTL

-----------------------------------------------------------------------------
(* The search by halves in the table of names.                             *)
LEMMA TableEntries ==
  /\ Len(funcs) = 42 /\ DOMAIN funcs = 1 .. 42
  /\ funcs[2].funcname = "begin" /\ funcs[3].funcname = "beg" /\ funcs[42].funcname = "up"
<1>1. Len(funcs) = 42 /\ DOMAIN funcs = 1 .. 42
  BY DEF funcs
<1>2. funcs[2] = Entry("begin", "BEGIN") /\ funcs[3] = Entry("beg", "BEGIN")
      /\ funcs[42] = Entry("up", "UP")
  BY DEF funcs
<1> QED
  BY <1>1, <1>2 DEF Entry

LEMMA PositionFacts ==
  ASSUME NEW name \in Names
  PROVE  Position(name) \in Nat
<1>1. \E p \in DOMAIN Sorted : Sorted[p] = name
  BY DEF Names
<1>2. Position(name) \in DOMAIN Sorted
  BY <1>1 DEF Position
<1> QED
  BY <1>2, TableAssumption

(* What the search says of len entries from start on, if f says it of      *)
(* fewer.                                                                  *)
Halved(f, name, len, start) ==
  LET mid == start + len \div 2
      found == funcs[mid + 1]
  IN  IF mid = Len(funcs) THEN {Crash}
      ELSE IF found.funcname = name THEN {found}
      ELSE IF len = 1 THEN {}
      ELSE IF Position(name) > Position(found.funcname) THEN f[len - len \div 2][mid]
      ELSE f[len \div 2][start]

(* f is the search of up to upto entries, of a table of so many.           *)
Searches(f, name, entries, upto) ==
  f = [len \in 1 .. upto |-> [start \in 0 .. entries - len |-> Halved(f, name, len, start)]]

LEMMA HalvesFit ==
  ASSUME NEW len \in Nat, len > 1
  PROVE  /\ len - len \div 2 \in 1 .. len - 1 /\ len \div 2 \in 1 .. len - 1
         /\ len \div 2 + (len - len \div 2) = len
OBVIOUS

LEMMA SameHalved ==
  ASSUME NEW f, NEW g, NEW name, NEW len \in Nat \ {0}, NEW start,
         \A l \in 1 .. len - 1 : f[l] = g[l]
  PROVE  Halved(f, name, len, start) = Halved(g, name, len, start)
<1>1. CASE len = 1
  BY <1>1 DEF Halved
<1>2. CASE len # 1
  <2>1. f[len - len \div 2] = g[len - len \div 2] /\ f[len \div 2] = g[len \div 2]
    BY <1>2, HalvesFit
  <2> QED
    BY <2>1 DEF Halved
<1> QED
  BY <1>1, <1>2

LEMMA SearchesExist ==
  ASSUME NEW name, NEW entries \in Nat
  PROVE  \E f : Searches(f, name, entries, entries)
<1> DEFINE Missed == {k \in Nat : ~\E f : Searches(f, name, entries, k)}
<1>1. 0 \notin Missed
  <2> DEFINE f == [len \in 1 .. 0 |-> {}]
  <2>1. f = [len \in 1 .. 0 |-> [start \in 0 .. entries - len |-> Halved(f, name, len, start)]]
    OBVIOUS
  <2> HIDE DEF f
  <2> QED
    BY <2>1 DEF Searches
<1>2. ASSUME NEW k \in Nat, NEW g, Searches(g, name, entries, k)
      PROVE  \E h : Searches(h, name, entries, k + 1)
  <2> DEFINE row == [start \in 0 .. entries - (k + 1) |-> Halved(g, name, k + 1, start)]
             h == [len \in 1 .. k + 1 |-> IF len = k + 1 THEN row ELSE g[len]]
  <2>1. \A l \in 1 .. k : h[l] = g[l]
    OBVIOUS
  <2>2. ASSUME NEW len \in 1 .. k + 1
        PROVE  h[len] = [start \in 0 .. entries - len |-> Halved(h, name, len, start)]
    <3>1. \A l \in 1 .. len - 1 : h[l] = g[l]
      BY <2>1
    <3> HIDE DEF h
    <3>2. \A start \in 0 .. entries - len : Halved(h, name, len, start) = Halved(g, name, len, start)
      BY <3>1, SameHalved
    <3> USE DEF h
    <3>3. CASE len = k + 1
      <4>1. h[len] = row
        BY <3>3
      <4> HIDE DEF h
      <4> QED
        BY <3>2, <3>3, <4>1
    <3>4. CASE len # k + 1
      <4>1. len \in 1 .. k /\ h[len] = g[len]
        BY <3>4
      <4> HIDE DEF h
      <4>2. g[len] = [start \in 0 .. entries - len |-> Halved(g, name, len, start)]
        BY <1>2, <4>1 DEF Searches
      <4> QED
        BY <3>2, <4>1, <4>2
    <3> QED
      BY <3>3, <3>4
  <2>3. h = [len \in 1 .. k + 1 |-> h[len]]
    OBVIOUS
  <2> HIDE DEF h
  <2> QED
    BY <2>2, <2>3 DEF Searches
<1>3. Missed = {}
  <2> SUFFICES ASSUME Missed # {} PROVE FALSE
    OBVIOUS
  <2>1. PICK k \in Missed : \A m \in Missed : k <= m
    BY HasLeast
  <2>2. k - 1 \in Nat /\ k - 1 \notin Missed
    BY <1>1, <2>1
  <2>3. PICK g : Searches(g, name, entries, k - 1)
    BY <2>2
  <2>4. \E h : Searches(h, name, entries, (k - 1) + 1)
    BY <1>2, <2>2, <2>3
  <2> QED
    BY <2>1, <2>4
<1> QED
  BY <1>3

LEMMA SearchHalves ==
  ASSUME NEW name
  PROVE  \E f : Searches(f, name, 43, 43) /\ Search(name) = f[43][0]
<1> DEFINE Is(f) ==
      f = [len \in 1 .. 43 |->
            [start \in 0 .. 43 - len |->
               LET mid == start + len \div 2
                   found == funcs[mid + 1]
               IN  IF mid = Len(funcs) THEN {Crash}
                   ELSE IF found.funcname = name THEN {found}
                   ELSE IF len = 1 THEN {}
                   ELSE IF Position(name) > Position(found.funcname)
                     THEN f[len - len \div 2][mid]
                   ELSE f[len \div 2][start]]]
           chosen == CHOOSE f : Is(f)
<1>1. \A f : Is(f) <=> Searches(f, name, 43, 43)
  BY DEF Searches, Halved
<1>2. \E f : Is(f)
  <2>1. PICK f : Searches(f, name, 43, 43)
    BY SearchesExist
  <2> HIDE DEF Is
  <2> QED
    BY <1>1, <2>1
<1>3. Is(chosen)
  <2> HIDE DEF Is
  <2> QED
    BY <1>2
<1>4. Search(name) = chosen[43][0]
  BY TableEntries DEF Search, SearchFrom
<1> HIDE DEF Is, chosen
<1> QED
  BY <1>1, <1>3, <1>4

(* One round: what is in the middle, and where the search goes on.         *)
Middle(f, name, len, start, mid) ==
  /\ mid = 42 => f[len][start] = {Crash}
  /\ mid < 42 /\ funcs[mid + 1].funcname = name => f[len][start] = {funcs[mid + 1]}
  /\ mid < 42 /\ funcs[mid + 1].funcname # name =>
       \/ len = 1 /\ f[len][start] = {}
       \/ /\ Position(name) > Position(funcs[mid + 1].funcname)
          /\ \E l \in 1 .. 43 : l < len /\ mid + l = start + len /\ f[len][start] = f[l][mid]
       \/ /\ ~(Position(name) > Position(funcs[mid + 1].funcname))
          /\ \E l \in 1 .. 43 : l < len /\ start + l = mid /\ f[len][start] = f[l][start]

LEMMA SearchRound ==
  ASSUME NEW f, NEW name, Searches(f, name, 43, 43), NEW len \in 1 .. 43, NEW start \in 0 .. 43 - len
  PROVE  \E mid \in start .. 42 :
           mid = start + len \div 2 /\ mid < start + len /\ Middle(f, name, len, start, mid)
<1> DEFINE mid == start + len \div 2
<1>1. f[len][start] = Halved(f, name, len, start)
  <2>1. f[len] = [x \in 0 .. 43 - len |-> Halved(f, name, len, x)]
    BY DEF Searches
  <2> QED
    BY <2>1
<1>2. mid \in start .. 42 /\ mid < start + len
  OBVIOUS
<1>3. CASE mid = 42
  BY <1>1, <1>2, <1>3, TableEntries DEF Halved, Middle
<1>4. CASE mid < 42 /\ funcs[mid + 1].funcname = name
  <2>1. f[len][start] = {funcs[mid + 1]}
    BY <1>1, <1>2, <1>4, TableEntries DEF Halved
  <2>2. Middle(f, name, len, start, mid)
    BY <1>2, <1>4, <2>1 DEF Middle
  <2> QED
    BY <1>2, <2>2
<1>5. CASE mid < 42 /\ funcs[mid + 1].funcname # name
  <2>1. CASE len = 1
    <3>1. f[len][start] = {}
      BY <1>1, <1>5, <2>1, TableEntries DEF Halved
    <3>2. Middle(f, name, len, start, mid)
      BY <1>2, <1>5, <2>1, <3>1 DEF Middle
    <3> QED
      BY <1>2, <3>2
  <2>2. CASE len # 1
    <3>1. /\ len - len \div 2 \in 1 .. 43 /\ len - len \div 2 < len
          /\ len \div 2 \in 1 .. 43 /\ len \div 2 < len
          /\ mid + (len - len \div 2) = start + len /\ start + len \div 2 = mid
      BY <2>2
    <3>2. CASE Position(name) > Position(funcs[mid + 1].funcname)
      <4>1. f[len][start] = f[len - len \div 2][mid]
        BY <1>1, <1>5, <2>2, <3>2, TableEntries DEF Halved
      <4>2. Middle(f, name, len, start, mid)
        BY <1>2, <1>5, <3>1, <3>2, <4>1 DEF Middle
      <4> QED
        BY <1>2, <4>2
    <3>3. CASE ~(Position(name) > Position(funcs[mid + 1].funcname))
      <4>1. f[len][start] = f[len \div 2][start]
        BY <1>1, <1>5, <2>2, <3>3, TableEntries DEF Halved
      <4>2. Middle(f, name, len, start, mid)
        BY <1>2, <1>5, <3>1, <3>3, <4>1 DEF Middle
      <4> QED
        BY <1>2, <4>2
    <3> QED
      BY <3>2, <3>3
  <2> QED
    BY <2>1, <2>2
<1> QED
  BY <1>2, <1>3, <1>4, <1>5

LEMMA EntryNamed ==
  ASSUME NEW p \in 1 .. 42
  PROVE  funcs[p].funcname \in Table /\ funcs[p].funcname \in Names
<1>1. p \in DOMAIN funcs
  BY TableEntries
<1>2. funcs[p].funcname \in Table
  BY <1>1, Zenon DEF Table
<1>3. Table \subseteq Names
  BY TableAssumption, Zenon
<1> QED
  BY <1>2, <1>3

(* The entries are in order but for the second and the third.              *)
Before(p, q) ==
  /\ funcs[p].funcname # funcs[q].funcname
  /\ Position(funcs[q].funcname) > Position(funcs[p].funcname)
  /\ ~(Position(funcs[p].funcname) > Position(funcs[q].funcname))

LEMMA InOrder ==
  \A p, q \in 1 .. 42 : p < q /\ (p # 2 \/ q # 3) => Before(p, q)
<1> SUFFICES ASSUME NEW p \in 1 .. 42, NEW q \in 1 .. 42, p < q, p # 2 \/ q # 3
             PROVE  Before(p, q)
  OBVIOUS
<1>1. funcs[p].funcname \in Names /\ funcs[q].funcname \in Names
  BY EntryNamed
<1>2. Position(funcs[p].funcname) \in Nat /\ Position(funcs[q].funcname) \in Nat
  BY <1>1, PositionFacts
<1>3. Position(funcs[p].funcname) < Position(funcs[q].funcname)
  <2>1. p \in DOMAIN funcs /\ q \in DOMAIN funcs /\ <<p, q>> # <<2, 3>>
    BY TableEntries
  <2> QED
    BY <2>1, TableAssumption, Zenon
<1> QED
  BY <1>2, <1>3 DEF Before

(* An entry in order is found where it is.                                 *)
LEMMA OrderedFound ==
  ASSUME NEW p \in 1 .. 42, p \notin {2, 3}
  PROVE  Search(funcs[p].funcname) = {funcs[p]}
<1> DEFINE name == funcs[p].funcname
<1>1. PICK f : Searches(f, name, 43, 43) /\ Search(name) = f[43][0]
  BY SearchHalves
<1> DEFINE Missed == {len \in 1 .. 43 :
                        \E start \in 0 .. 43 - len :
                          /\ start <= 40 /\ start < p /\ p <= start + len
                          /\ f[len][start] # {funcs[p]}}
<1>2. Missed = {}
  <2> SUFFICES ASSUME Missed # {} PROVE FALSE
    OBVIOUS
  <2>a. Missed \subseteq Nat
    OBVIOUS
  <2> HIDE DEF Missed
  <2>1. PICK len \in Missed : \A m \in Missed : len <= m
    BY <2>a, HasLeast
  <2> USE DEF Missed
  <2>2. len \in 1 .. 43
    OBVIOUS
  <2>3. PICK start \in 0 .. 43 - len : /\ start <= 40 /\ start < p /\ p <= start + len
                                       /\ f[len][start] # {funcs[p]}
    OBVIOUS
  <2>4. ASSUME NEW l \in 1 .. 43, l < len, NEW s \in 0 .. 43 - l, s <= 40, s < p, p <= s + l
        PROVE  f[l][s] = {funcs[p]}
    <3>1. l \notin Missed
      BY <2>1, <2>2, <2>4
    <3> QED
      BY <2>4, <3>1
  <2> HIDE DEF Missed
  <2>5. PICK mid \in start .. 42 :
           mid = start + len \div 2 /\ mid < start + len /\ Middle(f, name, len, start, mid)
    BY <1>1, <2>2, SearchRound
  <2> HIDE DEF name
  <2>6. mid < 42
    BY <2>2, <2>3, <2>5
  <2>7. mid + 1 # p
    BY <2>3, <2>5, <2>6 DEF name, Middle
  <2>12. mid + 1 \in 1 .. 42
    BY <2>5, <2>6
  <2>8. /\ name # funcs[mid + 1].funcname
        /\ Position(name) > Position(funcs[mid + 1].funcname) <=> mid + 1 < p
    <3>1. ASSUME NEW q \in 1 .. 42, q # p
          PROVE  name # funcs[q].funcname /\ (Position(name) > Position(funcs[q].funcname) <=> q < p)
      <4>1. p < q => Before(p, q)
        BY InOrder
      <4>2. q < p => Before(q, p)
        BY InOrder
      <4> QED
        BY <3>1, <4>1, <4>2 DEF Before, name
    <3> QED
      BY <2>7, <2>12, <3>1
  <2>9. len # 1
    BY <2>2, <2>3, <2>5, <2>7
  <2>10. CASE mid + 1 < p
    <3>1. PICK l \in 1 .. 43 : l < len /\ mid + l = start + len /\ f[len][start] = f[l][mid]
      BY <2>5, <2>6, <2>8, <2>9, <2>10 DEF Middle
    <3>2. mid \in 0 .. 43 - l /\ mid <= 40 /\ mid < p /\ p <= mid + l
      BY <2>2, <2>3, <2>5, <2>10, <3>1
    <3> QED
      BY <2>3, <2>4, <3>1, <3>2
  <2>11. CASE ~(mid + 1 < p)
    <3>1. PICK l \in 1 .. 43 : l < len /\ start + l = mid /\ f[len][start] = f[l][start]
      BY <2>5, <2>6, <2>8, <2>9, <2>11 DEF Middle
    <3>2. start \in 0 .. 43 - l /\ p <= start + l
      BY <2>2, <2>3, <2>5, <2>7, <2>11, <3>1
    <3> QED
      BY <2>3, <2>4, <3>1, <3>2
  <2> QED
    BY <2>10, <2>11
<1>3. f[43][0] = {funcs[p]}
  BY <1>2
<1> QED
  BY <1>1, <1>3

(* The third is found because the halves on the way to it are of others    *)
(* than the second.                                                        *)
LEMMA BegFound == Search("beg") = {funcs[3]}
<1>1. PICK f : Searches(f, "beg", 43, 43) /\ Search("beg") = f[43][0]
  BY SearchHalves
<1>2. ASSUME NEW q \in 1 .. 42, q > 3
      PROVE  funcs[q].funcname # "beg" /\ ~(Position("beg") > Position(funcs[q].funcname))
  <2>1. Before(3, q)
    BY <1>2, InOrder
  <2> QED
    BY <2>1, TableEntries DEF Before
<1>3. ASSUME NEW len \in 1 .. 43, 3 < len \div 2 + 1, len \div 2 + 1 <= 42
      PROVE  f[len][0] = f[len \div 2][0]
  <2>1. PICK mid \in 0 .. 42 : mid = 0 + len \div 2 /\ Middle(f, "beg", len, 0, mid)
    BY <1>1, SearchRound
  <2>2. mid + 1 \in 1 .. 42 /\ mid + 1 > 3 /\ mid < 42 /\ mid = len \div 2 /\ len # 1
    BY <1>3, <2>1
  <2>3. funcs[mid + 1].funcname # "beg" /\ ~(Position("beg") > Position(funcs[mid + 1].funcname))
    BY <1>2, <2>2
  <2>4. PICK l \in 1 .. 43 : 0 + l = mid /\ f[len][0] = f[l][0]
    BY <2>1, <2>2, <2>3 DEF Middle
  <2> QED
    BY <2>2, <2>4
<1>4. f[43][0] = f[21][0]
  BY <1>3
<1>5. f[21][0] = f[10][0]
  BY <1>3
<1>6. f[10][0] = f[5][0]
  BY <1>3
<1>7. f[5][0] = {funcs[3]}
  <2>1. PICK mid \in 0 .. 42 : mid = 0 + 5 \div 2 /\ Middle(f, "beg", 5, 0, mid)
    BY <1>1, SearchRound
  <2>2. mid = 2
    BY <2>1
  <2> QED
    BY <2>1, <2>2, TableEntries DEF Middle
<1> QED
  BY <1>1, <1>4, <1>5, <1>6, <1>7

(* A name that is not in the table is not found, and one before the last   *)
(* is never compared with the NULL entry.                                  *)
LEMMA OthersNotFound ==
  ASSUME NEW name \in Names, name \notin Table, Position(name) <= Position("up")
  PROVE  Search(name) = {}
<1>1. PICK f : Searches(f, name, 43, 43) /\ Search(name) = f[43][0]
  BY SearchHalves
<1> DEFINE Missed == {len \in 1 .. 43 :
                        \E start \in 0 .. 43 - len : start <= 40 /\ f[len][start] # {}}
<1>2. Missed = {}
  <2> SUFFICES ASSUME Missed # {} PROVE FALSE
    OBVIOUS
  <2>1. Missed \subseteq Nat
    OBVIOUS
  <2> HIDE DEF Missed
  <2>2. PICK len \in Missed : \A m \in Missed : len <= m
    BY <2>1, HasLeast
  <2> USE DEF Missed
  <2>3. len \in 1 .. 43
    OBVIOUS
  <2>4. PICK start \in 0 .. 43 - len : start <= 40 /\ f[len][start] # {}
    OBVIOUS
  <2>5. ASSUME NEW l \in 1 .. 43, l < len, NEW s \in 0 .. 43 - l, s <= 40
        PROVE  f[l][s] = {}
    <3>1. l \notin Missed
      BY <2>2, <2>3, <2>5
    <3> QED
      BY <2>5, <3>1
  <2> HIDE DEF Missed
  <2>6. PICK mid \in start .. 42 :
           mid = start + len \div 2 /\ mid < start + len /\ Middle(f, name, len, start, mid)
    BY <1>1, <2>3, SearchRound
  <2>7. mid < 42 /\ mid + 1 \in 1 .. 42
    BY <2>3, <2>4, <2>6
  <2>8. funcs[mid + 1].funcname # name
    BY <2>7, EntryNamed
  <2>9. CASE Position(name) > Position(funcs[mid + 1].funcname) /\ len # 1
    <3>1. mid # 41
      <4>1. ~(Position(name) > Position("up"))
        <5>1. 42 \in 1 .. 42
          OBVIOUS
        <5>2. "up" \in Names
          BY <5>1, EntryNamed, TableEntries
        <5> QED
          BY <5>2, PositionFacts
      <4> QED
        BY <2>9, <4>1, TableEntries
    <3>2. PICK l \in 1 .. 43 : l < len /\ mid + l = start + len /\ f[len][start] = f[l][mid]
      BY <2>4, <2>6, <2>7, <2>8, <2>9 DEF Middle
    <3>3. mid \in 0 .. 43 - l /\ mid <= 40
      BY <2>3, <2>4, <2>7, <3>1, <3>2
    <3> QED
      BY <2>4, <2>5, <3>2, <3>3
  <2>10. CASE ~(Position(name) > Position(funcs[mid + 1].funcname)) /\ len # 1
    <3>1. PICK l \in 1 .. 43 : l < len /\ start + l = mid /\ f[len][start] = f[l][start]
      BY <2>4, <2>6, <2>7, <2>8, <2>10 DEF Middle
    <3>2. start \in 0 .. 43 - l
      BY <2>3, <2>4, <2>6, <3>1
    <3> QED
      BY <2>4, <2>5, <3>1, <3>2
  <2>11. CASE len = 1
    BY <2>4, <2>6, <2>7, <2>8, <2>11 DEF Middle
  <2> QED
    BY <2>9, <2>10, <2>11
<1>3. f[43][0] = {}
  BY <1>2
<1> QED
  BY <1>1, <1>3

LEMMA TableSearched ==
  ASSUME NEW name \in Table, name # "begin"
  PROVE  Search(name) # {}
<1>1. PICK p \in 1 .. 42 : funcs[p].funcname = name
  BY TableEntries DEF Table
<1>2. p # 2
  BY <1>1, TableEntries
<1>3. CASE p = 3
  BY <1>1, <1>3, BegFound, TableEntries
<1>4. CASE p # 3
  BY <1>1, <1>2, <1>4, OrderedFound
<1> QED
  BY <1>3, <1>4

(* The search answers what reading the table from its beginning would.     *)
LEMMA SearchReads ==
  ASSUME NEW name \in Names, name # "begin", Position(name) <= Position("up")
  PROVE  {e.key : e \in Search(name)} = InTable(name) /\ (Search(name) = {} <=> name \notin Table)
<1>1. CASE name \notin Table
  <2>1. InTable(name) = {}
    BY <1>1 DEF InTable, Table
  <2> QED
    BY <1>1, <2>1, OthersNotFound
<1>2. CASE name \in Table
  <2>1. PICK p \in 1 .. 42 : funcs[p].funcname = name
    BY <1>2, TableEntries DEF Table
  <2>2. p # 2
    BY <2>1, TableEntries
  <2>3. Search(name) = {funcs[p]}
    <3>1. CASE p = 3
      BY <2>1, <3>1, BegFound, TableEntries
    <3>2. CASE p # 3
      BY <2>1, <2>2, <3>2, OrderedFound
    <3> QED
      BY <3>1, <3>2
  <2>4. \A q \in 1 .. 42 : funcs[q].funcname = name => q = p
    <3>1. CASE p = 3
      <4>1. ASSUME NEW q \in 1 .. 42, q \notin {2, 3}
            PROVE  funcs[q].funcname # funcs[p].funcname
        <5>1. p < q => Before(p, q)
          BY <3>1, <4>1, InOrder
        <5>2. q < p => Before(q, p)
          BY <3>1, <4>1, InOrder
        <5>3. p < q \/ q < p
          BY <3>1, <4>1
        <5> QED
          BY <5>1, <5>2, <5>3 DEF Before
      <4> QED
        BY <2>1, <3>1, <4>1, TableEntries
    <3>2. CASE p # 3
      <4>1. ASSUME NEW q \in 1 .. 42, q # p
            PROVE  funcs[q].funcname # funcs[p].funcname
        <5>1. p < q => Before(p, q)
          BY <2>2, <3>2, <4>1, InOrder
        <5>2. q < p => Before(q, p)
          BY <2>2, <3>2, <4>1, InOrder
        <5>3. p < q \/ q < p
          BY <2>2, <3>2, <4>1
        <5> QED
          BY <5>1, <5>2, <5>3 DEF Before
      <4> QED
        BY <2>1, <4>1
    <3> QED
      BY <3>1, <3>2
  <2>5. {q \in DOMAIN funcs : funcs[q].funcname = name} = {p}
    BY <2>1, <2>4, TableEntries
  <2>6. InTable(name) = {funcs[p].key}
    BY <2>5 DEF InTable
  <2> QED
    BY <1>2, <2>3, <2>6
<1> QED
  BY <1>1, <1>2

(* The key of a name, by one look at the rest behind an s.                 *)
KeyFrom(name, keys) ==
  IF Search(name) # {} THEN {e.key : e \in Search(name)}
  ELSE IF name \in DOMAIN FNumber THEN {FunctionKey(FNumber[name])}
  ELSE IF name \in DOMAIN AfterS THEN {Shifted(k) : k \in keys[AfterS[name]]}
  ELSE {}

LEMMA TailFacts ==
  ASSUME NEW name \in DOMAIN AfterS, name \notin Table
  PROVE  /\ AfterS[name] \in Names /\ AfterS[name] # "begin"
         /\ Position(AfterS[name]) <= Position("up")
         /\ AfterS[name] \notin Table =>
              AfterS[name] \notin DOMAIN FNumber /\ AfterS[name] \notin DOMAIN AfterS
<1>1. AfterS[name] \in Tails
  BY Zenon DEF Tails
<1> QED
  BY <1>1, TableAssumption, Zenon

(* Behind an s there is a name of the table, or one that has no key.       *)
LEMMA KeyOfTail ==
  ASSUME NEW name \in DOMAIN AfterS, name \notin Table, NEW keys
  PROVE  KeyFrom(AfterS[name], keys) = InTable(AfterS[name])
<1>1. /\ {e.key : e \in Search(AfterS[name])} = InTable(AfterS[name])
      /\ Search(AfterS[name]) = {} <=> AfterS[name] \notin Table
  BY TailFacts, SearchReads
<1>2. CASE AfterS[name] \in Table
  BY <1>1, <1>2, Zenon DEF KeyFrom
<1>3. CASE AfterS[name] \notin Table
  <2>1. KeyFrom(AfterS[name], keys) = {}
    BY <1>1, <1>3, TailFacts, Zenon DEF KeyFrom
  <2>2. InTable(AfterS[name]) = {}
    BY <1>1, <1>3
  <2> QED
    BY <2>1, <2>2
<1> QED
  BY <1>2, <1>3

(* So the recursion of funcname2keysym comes to an end.                    *)
LEMMA KeyOfName ==
  ASSUME NEW name \in Names
  PROVE  \E keys : /\ keys = [n \in Names |-> KeyFrom(n, keys)]
                   /\ funcname2keysym(name) = keys[name]
<1> DEFINE Is(keys) ==
             keys = [n \in Names |->
                      IF Search(n) # {} THEN {e.key : e \in Search(n)}
                      ELSE IF n \in DOMAIN FNumber THEN {FunctionKey(FNumber[n])}
                      ELSE IF n \in DOMAIN AfterS THEN {Shifted(k) : k \in keys[AfterS[n]]}
                      ELSE {}]
           chosen == CHOOSE keys : Is(keys)
           tails == [n \in Names |-> InTable(n)]
           known == [n \in Names |-> KeyFrom(n, tails)]
<1>1. \A keys : Is(keys) <=> keys = [n \in Names |-> KeyFrom(n, keys)]
  BY DEF KeyFrom
<1>2. ASSUME NEW n \in Names PROVE KeyFrom(n, tails) = KeyFrom(n, known)
  <2>1. CASE n \in DOMAIN AfterS /\ n \notin Table
    <3>1. AfterS[n] \in Names
      BY <2>1, TailFacts
    <3>2. known[AfterS[n]] = KeyFrom(AfterS[n], tails)
      BY <3>1
    <3>3. known[AfterS[n]] = InTable(AfterS[n])
      BY <2>1, <3>2, KeyOfTail
    <3>4. tails[AfterS[n]] = InTable(AfterS[n])
      BY <3>1
    <3> HIDE DEF tails, known
    <3> QED
      BY <3>3, <3>4 DEF KeyFrom
  <2>2. CASE n \notin DOMAIN AfterS
    <3> HIDE DEF tails, known
    <3> QED
      BY <2>2 DEF KeyFrom
  <2>3. CASE n \in Table /\ n \in DOMAIN AfterS
    <3>1. n # "begin"
      BY <2>3, TableAssumption, Zenon
    <3>2. Search(n) # {}
      BY <2>3, <3>1, TableSearched
    <3> HIDE DEF tails, known
    <3> QED
      BY <3>2 DEF KeyFrom
  <2> QED
    BY <2>1, <2>2, <2>3
<1>3. known = [n \in Names |-> KeyFrom(n, known)]
  <2> HIDE DEF tails
  <2>1. known = [n \in Names |-> KeyFrom(n, tails)]
    OBVIOUS
  <2> HIDE DEF known
  <2> QED
    BY <1>2, <2>1
<1>4. Is(chosen)
  <2> HIDE DEF Is, known
  <2> QED
    BY <1>1, <1>3
<1>5. funcname2keysym(name) = chosen[name]
  BY DEF funcname2keysym
<1> HIDE DEF Is, chosen, known
<1> QED
  BY <1>1, <1>4, <1>5

LEMMA NameFound ==
  ASSUME NEW cap \in Loaded
  PROVE  funcname2keysym(cap) = KeyByName(cap)
<1>1. cap \in Names
  BY TrieAssumption DEF Loaded
<1>2. cap # "begin" /\ Position(cap) <= Position("up")
  BY TableAssumption, Zenon
<1>3. PICK keys : keys = [n \in Names |-> KeyFrom(n, keys)] /\ funcname2keysym(cap) = keys[cap]
  BY <1>1, KeyOfName
<1>4. funcname2keysym(cap) = KeyFrom(cap, keys)
  BY <1>1, <1>3
<1>5. /\ {e.key : e \in Search(cap)} = InTable(cap)
      /\ Search(cap) = {} <=> cap \notin Table
  BY <1>1, <1>2, SearchReads
<1>6. CASE Search(cap) # {}
  <2>1. KeyFrom(cap, keys) = InTable(cap)
    BY <1>5, <1>6 DEF KeyFrom
  <2>2. PICK e : e \in Search(cap)
    BY <1>6
  <2>3. e.key \in InTable(cap)
    BY <1>5, <2>2
  <2> QED
    BY <1>4, <2>1, <2>3, Zenon DEF KeyByName
<1>7. CASE Search(cap) = {}
  <2>1. InTable(cap) = {} /\ cap \notin Table
    BY <1>5, <1>7
  <2>2. CASE cap \in DOMAIN FNumber
    <3>1. KeyFrom(cap, keys) = {FunctionKey(FNumber[cap])}
      BY <1>7, <2>2 DEF KeyFrom
    <3>2. KeyByName(cap) = {FunctionKey(FNumber[cap])}
      BY <2>1, <2>2 DEF KeyByName
    <3> QED
      BY <1>4, <3>1, <3>2
  <2>3. CASE cap \notin DOMAIN FNumber /\ cap \in DOMAIN AfterS
    <3>1. AfterS[cap] \in Names
      BY <2>1, <2>3, TailFacts
    <3>2. keys[AfterS[cap]] = KeyFrom(AfterS[cap], keys)
      BY <1>3, <3>1
    <3>3. keys[AfterS[cap]] = InTable(AfterS[cap])
      BY <2>1, <2>3, <3>2, KeyOfTail
    <3>4. KeyFrom(cap, keys) = {Shifted(k) : k \in InTable(AfterS[cap])}
      BY <1>7, <2>3, <3>3 DEF KeyFrom
    <3>5. KeyByName(cap) = {Shifted(k) : k \in InTable(AfterS[cap])}
      BY <2>1, <2>3 DEF KeyByName
    <3> QED
      BY <1>4, <3>4, <3>5
  <2>4. CASE cap \notin DOMAIN FNumber /\ cap \notin DOMAIN AfterS
    <3>1. KeyFrom(cap, keys) = {}
      BY <1>7, <2>4 DEF KeyFrom
    <3>2. KeyByName(cap) = {}
      BY <2>1, <2>4 DEF KeyByName
    <3> QED
      BY <1>4, <3>1, <3>2
  <2> QED
    BY <2>2, <2>3, <2>4
<1> QED
  BY <1>6, <1>7

(* Every capability of every terminal gets the key the table has for it:   *)
(* the search by halves finds it in spite of the two entries that are out  *)
(* of order, a shifted key by what is behind its s, and never compares     *)
(* with the NULL entry at the end.                                         *)
THEOREM NamesAreFound == TrieSpec => []NamesFound
<1> DEFINE Place == i \in 1 .. Len(Caps) + 1
<1>1. DOMAIN Caps = 1 .. Len(Caps) /\ Len(Caps) \in Nat
  BY TrieAssumption
<1>2. TrieInit => Place
  BY <1>1 DEF TrieInit
<1>3. Place /\ [TrieNext]_trievars => Place'
  <2>1. ASSUME Place, NEW cap, Turn(cap) PROVE Place'
    BY <1>1, <2>1 DEF Turn
  <2>2. ASSUME Place, UNCHANGED i PROVE Place'
    BY <2>2
  <2> HIDE DEF Place
  <2> QED
    BY <2>1, <2>2 DEF TrieNext, trievars, load_key, load_no_key, load_fails, compress_trie
<1>4. Place => NamesFound
  <2> SUFFICES ASSUME Place, NEW n \in 1 .. i - 1, Caps[n] # "mouse"
               PROVE  funcname2keysym(Caps[n]) = KeyByName(Caps[n])
    BY DEF NamesFound
  <2>1. n \in DOMAIN Caps
    BY <1>1
  <2>2. Caps[n] \in Loaded
    BY <2>1 DEF Loaded
  <2> QED
    BY <2>2, NameFound
<1> QED
  BY <1>2, <1>3, <1>4, PTL DEF TrieSpec

-----------------------------------------------------------------------------
(* Differences in the order in which they count.                           *)
LEMMA MinOf ==
  ASSUME NEW T \in SUBSET Nat, NEW x \in T, \A y \in T : x <= y
  PROVE  Min(T) = x
<1>1. \A z \in T : (\A y \in T : z <= y) => z = x
  OBVIOUS
<1> QED
  BY <1>1 DEF Min

LEMMA OneDifference ==
  ASSUME NEW a \in Int, NEW b \in Int
  PROVE  FirstDifference(<<a, b>>) = IF a # 0 THEN a ELSE b
<1> DEFINE d == <<a, b>>
           other == {n \in DOMAIN d : d[n] # 0}
<1>1. DOMAIN d = {1, 2} /\ d[1] = a /\ d[2] = b
  OBVIOUS
<1> HIDE DEF d
<1>2. CASE a # 0
  <2>1. other \in SUBSET Nat /\ 1 \in other /\ \A y \in other : 1 <= y
    BY <1>1, <1>2
  <2>2. Min(other) = 1
    BY <2>1, MinOf
  <2> QED
    BY <1>1, <1>2, <2>1, <2>2 DEF FirstDifference, d
<1>3. CASE a = 0 /\ b # 0
  <2>1. other = {2}
    BY <1>1, <1>3
  <2>2. Min(other) = 2
    BY <2>1, MinOf
  <2> QED
    BY <1>1, <1>3, <2>1, <2>2 DEF FirstDifference, d
<1>4. CASE a = 0 /\ b = 0
  <2>1. other = {}
    BY <1>1, <1>4
  <2> QED
    BY <1>4, <2>1 DEF FirstDifference, d
<1> QED
  BY ONLY <1>2, <1>3, <1>4, Zenon

LEMMA TwoDifferences ==
  ASSUME NEW a \in Int, NEW b \in Int, NEW c \in Int
  PROVE  FirstDifference(<<a, b, c>>) = IF a # 0 THEN a ELSE IF b # 0 THEN b ELSE c
<1> DEFINE d == <<a, b, c>>
           other == {n \in DOMAIN d : d[n] # 0}
<1>1. DOMAIN d = {1, 2, 3} /\ d[1] = a /\ d[2] = b /\ d[3] = c
  OBVIOUS
<1> HIDE DEF d
<1>2. CASE a # 0
  <2>1. other \in SUBSET Nat /\ 1 \in other /\ \A y \in other : 1 <= y
    BY <1>1, <1>2
  <2>2. Min(other) = 1
    BY <2>1, MinOf
  <2> QED
    BY <1>1, <1>2, <2>1, <2>2 DEF FirstDifference, d
<1>3. CASE a = 0 /\ b # 0
  <2>1. other \in SUBSET Nat /\ 2 \in other /\ \A y \in other : 2 <= y
    BY <1>1, <1>3
  <2>2. Min(other) = 2
    BY <2>1, MinOf
  <2> QED
    BY <1>1, <1>3, <2>1, <2>2 DEF FirstDifference, d
<1>4. CASE a = 0 /\ b = 0 /\ c # 0
  <2>1. other = {3}
    BY <1>1, <1>4
  <2>2. Min(other) = 3
    BY <2>1, MinOf
  <2> QED
    BY <1>1, <1>4, <2>1, <2>2 DEF FirstDifference, d
<1>5. CASE a = 0 /\ b = 0 /\ c = 0
  <2>1. other = {}
    BY <1>1, <1>5
  <2> QED
    BY <1>5, <2>1 DEF FirstDifference, d
<1> QED
  BY <1>2, <1>3, <1>4, <1>5

-----------------------------------------------------------------------------
(* The bytes.                                                              *)
LEMMA BytesTell ==
  ASSUME NEW s \in SUBSET (0 .. 7), NEW t \in SUBSET (0 .. 7)
  PROVE  /\ ByteOf(s) \in 0 .. 255
         /\ ByteOf(s) = ByteOf(t) => s = t
<1> DEFINE bit(b, x) == IF b \in x THEN 1 ELSE 0
<1>1. \A b, x : bit(b, x) \in {0, 1}
  OBVIOUS
<1>2. \A x : ByteOf(x) = bit(0, x) + 2 * bit(1, x) + 4 * bit(2, x) + 8 * bit(3, x)
                + 16 * bit(4, x) + 32 * bit(5, x) + 64 * bit(6, x) + 128 * bit(7, x)
  BY DEF ByteOf
<1>3. \A b, x, y : bit(b, x) = bit(b, y) => (b \in x <=> b \in y)
  OBVIOUS
<1> HIDE DEF bit
<1>4. ByteOf(s) \in 0 .. 255
  BY <1>1, <1>2
<1>5. ASSUME ByteOf(s) = ByteOf(t)
      PROVE  s = t
  <2>a. \A x, y \in {0, 1}, m, n \in Nat : x + 2 * m = y + 2 * n => x = y /\ m = n
    OBVIOUS
  <2>z. \A x, y \in {0, 1} : x + 2 * y \in 0 .. 3
    OBVIOUS
  <2>y. \A x \in {0, 1}, n \in Nat : x + 2 * n \in Nat
    OBVIOUS
  <2> DEFINE six(x) == bit(6, x) + 2 * bit(7, x)
             five(x) == bit(5, x) + 2 * six(x)
             high(x) == bit(4, x) + 2 * five(x)
             low(x) == bit(3, x) + 2 * high(x)
             two(x) == bit(2, x) + 2 * low(x)
             one(x) == bit(1, x) + 2 * two(x)
  <2>e. \A x : ByteOf(x) = bit(0, x) + 2 * one(x)
    BY <1>1, <1>2
  <2>b. \A x : six(x) \in Nat
    BY <1>1, <2>z
  <2>b5. \A x : five(x) \in Nat
    <3> HIDE DEF six
    <3> QED
      BY <1>1, <2>y, <2>b
  <2>b4. \A x : high(x) \in Nat
    <3> HIDE DEF five
    <3> QED
      BY <1>1, <2>y, <2>b5
  <2>d3. \A x : low(x) \in Nat
    <3> HIDE DEF high
    <3> QED
      BY <1>1, <2>y, <2>b4
  <2>d2. \A x : two(x) \in Nat
    <3> HIDE DEF low
    <3> QED
      BY <1>1, <2>y, <2>d3
  <2>d. \A x : low(x) \in Nat /\ two(x) \in Nat /\ one(x) \in Nat
    <3> HIDE DEF two
    <3> QED
      BY <1>1, <2>y, <2>d2, <2>d3
  <2>f. bit(0, s) = bit(0, t) /\ one(s) = one(t)
    <3> HIDE DEF one
    <3> QED
      BY <1>1, <1>5, <2>a, <2>d, <2>e
  <2>g. bit(1, s) = bit(1, t) /\ two(s) = two(t)
    <3> HIDE DEF two
    <3> QED
      BY <1>1, <2>a, <2>d, <2>f
  <2>h. bit(2, s) = bit(2, t) /\ low(s) = low(t)
    <3> HIDE DEF low
    <3> QED
      BY <1>1, <2>a, <2>d, <2>g
  <2>i. bit(3, s) = bit(3, t) /\ high(s) = high(t)
    <3> HIDE DEF high
    <3> QED
      BY <1>1, <2>a, <2>b4, <2>h
  <2>j. bit(4, s) = bit(4, t) /\ five(s) = five(t)
    <3> HIDE DEF five
    <3> QED
      BY <1>1, <2>a, <2>b5, <2>i
  <2>k. bit(5, s) = bit(5, t) /\ six(s) = six(t)
    <3> HIDE DEF six
    <3> QED
      BY <1>1, <2>a, <2>b, <2>j
  <2>c. bit(6, s) = bit(6, t) /\ bit(7, s) = bit(7, t)
    BY <1>1, <2>k
  <2>1. /\ bit(0, s) = bit(0, t) /\ bit(1, s) = bit(1, t) /\ bit(2, s) = bit(2, t)
        /\ bit(3, s) = bit(3, t) /\ bit(4, s) = bit(4, t) /\ bit(5, s) = bit(5, t)
        /\ bit(6, s) = bit(6, t) /\ bit(7, s) = bit(7, t)
    BY <2>c, <2>f, <2>g, <2>h, <2>i, <2>j, <2>k
  <2>2. \A b \in 0 .. 7 : b \in s <=> b \in t
    BY <1>3, <2>1
  <2> QED
    BY <2>2
<1> QED
  BY <1>4, <1>5

Columns == 0 .. 4095
Lines == 0 .. 1023

Kept(col, line, high, first) ==
  LET at == set_linecol(col, line)
  IN  /\ at[1] \in 0 .. 255 /\ at[2] \in 0 .. 255 /\ at[3] \in 0 .. 127
      /\ get_linecol(<<first, at[1], at[2], at[3] + high>>) = [col |-> col, line |-> line]

Parted(c, l, high) ==
  /\ c + l * 16 \in 0 .. 127
  /\ (c + l * 16 + high) % 16 = c /\ ((c + l * 16 + high) \div 16) % 8 = l

LEMMA PlaceParted ==
  ASSUME NEW c \in 0 .. 15, NEW l \in 0 .. 3, NEW high \in {0, 128}
  PROVE  Parted(c, l, high)
BY DEF Parted

LEMMA PlaceKept ==
  ASSUME NEW col \in Columns, NEW line \in Lines, NEW high \in {0, 128}, NEW first
  PROVE  Kept(col, line, high, first)
<1> DEFINE c == col \div 256
           l == line \div 256
<1>1. c \in 0 .. 15 /\ l \in 0 .. 3 /\ col % 256 \in 0 .. 255 /\ line % 256 \in 0 .. 255
      /\ col = (col % 256) + c * 256 /\ line = (line % 256) + l * 256
  BY DEF Columns, Lines
<1>2. set_linecol(col, line) = <<col % 256, line % 256, c + (l % 4) * 16>>
  BY DEF set_linecol, AtMost, KeptLine, Columns, Lines
<1>3. l % 4 = l
  BY <1>1
<1> HIDE DEF c, l
<1>4. Parted(c, l, high)
  <2>1. c \in 0 .. 15 /\ l \in 0 .. 3
    BY <1>1
  <2> QED
    BY ONLY <2>1, high \in {0, 128}, PlaceParted
<1>5. /\ c + l * 16 \in 0 .. 127
      /\ (c + l * 16 + high) % 16 = c /\ ((c + l * 16 + high) \div 16) % 8 = l
  BY <1>4 DEF Parted
<1> QED
  BY <1>1, <1>2, <1>3, <1>5 DEF get_linecol, Kept

-----------------------------------------------------------------------------
(* The keys that are compared.                                             *)
Event(key) ==
  /\ key = [type |-> key.type, code |-> key.code, mods |-> key.mods]
  /\ key.mods \subseteq {SHIFT, ALT, CTRL}
  /\ \/ key.type \in {"UNICODE", "FUNCTION", "UNKNOWN_CSI"} /\ key.code \in Nat
     \/ key.type = "KEYSYM" /\ key.code \in SymSet
     \/ /\ key.type = "MOUSE"
        /\ key.code \in [buttons : SUBSET (0 .. 7), at : Nat \X Nat, released : BOOLEAN]
     \/ key.type = "POSITION" /\ key.code \in Nat \X Nat /\ key.mods = {}
     \/ /\ key.type = "MODEREPORT" /\ key.mods = {}
        /\ key.code \in (0 .. 255) \X Nat \X (0 .. 127)

LEMMA CanonicalCases ==
  ASSUME NEW key
  PROVE  \/ Canonical(key) = key
         \/ Canonical(key) = [type |-> "KEYSYM", code |-> "SPACE", mods |-> key.mods]
         \/ Canonical(key) = [type |-> "UNICODE", code |-> 32, mods |-> key.mods]
         \/ Canonical(key) = [type |-> "KEYSYM", code |-> "BACKSPACE", mods |-> key.mods]
<1> QED
  BY DEF Canonical, D!termkey_canonicalise, D!Sym, D!Unicode

LEMMA CanonicalEvent ==
  ASSUME NEW key, Event(key), Expressible(key)
  PROVE  Event(Canonical(key)) /\ Expressible(Canonical(key))
<1>1. CASE Canonical(key) = key
  BY <1>1
<1>2. ASSUME NEW code, NEW type,
             (type = "KEYSYM" /\ code \in SymSet) \/ (type = "UNICODE" /\ code \in Nat)
      PROVE  LET c == [type |-> type, code |-> code, mods |-> key.mods]
             IN  Event(c) /\ Expressible(c)
  <2> DEFINE c == [type |-> type, code |-> code, mods |-> key.mods]
  <2>1. c.type = type /\ c.code = code /\ c.mods = key.mods
    OBVIOUS
  <2>2. c = [type |-> c.type, code |-> c.code, mods |-> c.mods]
    OBVIOUS
  <2>3. key.mods \subseteq {SHIFT, ALT, CTRL}
    BY DEF Event
  <2> HIDE DEF c
  <2>4. Event(c)
    BY <1>2, <2>1, <2>2, <2>3 DEF Event
  <2>5. Expressible(c)
    BY <1>2, <2>1 DEF Expressible
  <2> QED
    BY <2>4, <2>5 DEF c
<1>3. "SPACE" \in SymSet /\ "BACKSPACE" \in SymSet /\ 32 \in Nat
  BY NamesAssumption
<1>4. CASE Canonical(key) = [type |-> "KEYSYM", code |-> "SPACE", mods |-> key.mods]
  <2>1. LET c == [type |-> "KEYSYM", code |-> "SPACE", mods |-> key.mods]
        IN  Event(c) /\ Expressible(c)
    BY <1>2, <1>3
  <2> QED
    BY <1>4, <2>1
<1>5. CASE Canonical(key) = [type |-> "UNICODE", code |-> 32, mods |-> key.mods]
  <2>1. LET c == [type |-> "UNICODE", code |-> 32, mods |-> key.mods]
        IN  Event(c) /\ Expressible(c)
    BY <1>2, <1>3
  <2> QED
    BY <1>5, <2>1
<1>6. CASE Canonical(key) = [type |-> "KEYSYM", code |-> "BACKSPACE", mods |-> key.mods]
  <2>1. LET c == [type |-> "KEYSYM", code |-> "BACKSPACE", mods |-> key.mods]
        IN  Event(c) /\ Expressible(c)
    BY <1>2, <1>3
  <2> QED
    BY <1>6, <2>1
<1> QED
  BY <1>1, <1>4, <1>5, <1>6, CanonicalCases

(* The order of two keys of one type is that of their ranks, and keys of   *)
(* one rank are one key.                                                   *)
Rank(key) ==
  CASE key.type = "KEYSYM" -> 8 * Number(key.code) + ModBits(key)
    [] key.type = "MOUSE" ->
         8 * (256 * (256 * (256 * mouse(key)[1] + mouse(key)[2]) + mouse(key)[3]) + mouse(key)[4])
           + ModBits(key)
    [] key.type = "POSITION" -> 4096 * key.code[2] + key.code[1]
    [] key.type = "MODEREPORT" -> 128 * (256 * 256 * key.code[1] + key.code[2]) + key.code[3]
    [] OTHER -> 8 * key.code + ModBits(key)

Ranks(a, b, difference) ==
  /\ Rank(a) \in Int /\ Rank(b) \in Int /\ difference \in Int
  /\ difference < 0 <=> Rank(a) < Rank(b)
  /\ difference = 0 <=> Rank(a) = Rank(b)
  /\ Rank(a) = Rank(b) => a = b

LEMMA ModsTell ==
  ASSUME NEW a, Event(a), NEW b, Event(b)
  PROVE  /\ ModBits(a) \in 0 .. 7 /\ ModBits(b) \in 0 .. 7
         /\ ModBits(a) = ModBits(b) => a.mods = b.mods
<1>1. a.mods \in SUBSET (0 .. 7) /\ b.mods \in SUBSET (0 .. 7)
  BY DEF Event, SHIFT, ALT, CTRL
<1>2. ASSUME NEW key, key.mods \subseteq {0, 1, 2}
      PROVE  ModBits(key) \in 0 .. 7
  BY <1>2 DEF ModBits, ByteOf
<1>3. a.mods \subseteq {0, 1, 2} /\ b.mods \subseteq {0, 1, 2}
  BY DEF Event, SHIFT, ALT, CTRL
<1> QED
  BY <1>1, <1>2, <1>3, BytesTell DEF ModBits

LEMMA NumberTells ==
  ASSUME NEW a \in SymSet, NEW b \in SymSet
  PROVE  /\ Number(a) \in 0 .. Len(Syms) - 1 /\ Syms[Number(a) + 1] = a
         /\ Number(a) = Number(b) => a = b
<1>1. \A s \in SymSet : \E n \in 0 .. Len(Syms) - 1 : Syms[n + 1] = s
  <2>1. \A s \in SymSet : \E m \in DOMAIN Syms : Syms[m] = s
    BY DEF SymSet
  <2>2. Syms \in Seq(SymSet) /\ DOMAIN Syms = 1 .. Len(Syms)
    BY NamesAssumption
  <2>3. \A m \in 1 .. Len(Syms) : m - 1 \in 0 .. Len(Syms) - 1 /\ (m - 1) + 1 = m
    BY <2>2
  <2> QED
    BY <2>1, <2>2, <2>3
<1>2. \A s \in SymSet : Number(s) \in 0 .. Len(Syms) - 1 /\ Syms[Number(s) + 1] = s
  BY <1>1 DEF Number
<1> QED
  BY <1>2

(* Two numbers of which the second has three bits.                         *)
Orders(d, x, y, m, n) ==
  /\ d \in Int
  /\ d < 0 <=> 8 * x + m < 8 * y + n
  /\ d = 0 <=> 8 * x + m = 8 * y + n
  /\ 8 * x + m = 8 * y + n => x = y /\ m = n

LEMMA TwoNumbers ==
  ASSUME NEW x \in Int, NEW y \in Int, NEW m \in 0 .. 7, NEW n \in 0 .. 7
  PROVE  Orders(FirstDifference(<<x - y, m - n>>), x, y, m, n)
<1>1. FirstDifference(<<x - y, m - n>>) = IF x - y # 0 THEN x - y ELSE m - n
  BY OneDifference
<1>2. LET e == IF x - y # 0 THEN x - y ELSE m - n
      IN  /\ e \in Int
          /\ e < 0 <=> 8 * x + m < 8 * y + n
          /\ e = 0 <=> 8 * x + m = 8 * y + n
  OBVIOUS
<1>3. 8 * x + m = 8 * y + n => x = y /\ m = n
  OBVIOUS
<1> QED
  BY <1>1, <1>2, <1>3 DEF Orders

LEMMA NumbersRank ==
  ASSUME NEW a, Event(a), NEW b, Event(b), a.type = b.type,
         a.type \in {"UNICODE", "FUNCTION", "UNKNOWN_CSI"}
  PROVE  Ranks(a, b, FirstDifference(Differences(a, b)))
<1> USE DEF Event
<1>1. a.code \in Nat /\ b.code \in Nat
  OBVIOUS
<1>2. Differences(a, b) = <<a.code - b.code, ModBits(a) - ModBits(b)>>
  BY DEF Differences
<1>3. Rank(a) = 8 * a.code + ModBits(a) /\ Rank(b) = 8 * b.code + ModBits(b)
  BY DEF Rank
<1>4. a.code = b.code /\ a.mods = b.mods => a = b
  OBVIOUS
<1>5. /\ ModBits(a) \in 0 .. 7 /\ ModBits(b) \in 0 .. 7
      /\ ModBits(a) = ModBits(b) => a.mods = b.mods
  BY ModsTell
<1>6. a.code \in Int /\ b.code \in Int
  BY <1>1
<1> HIDE DEF Event
<1> DEFINE d == FirstDifference(<<a.code - b.code, ModBits(a) - ModBits(b)>>)
<1>a. Orders(d, a.code, b.code, ModBits(a), ModBits(b))
  BY ONLY <1>5, <1>6, TwoNumbers, Zenon
<1>7. /\ d \in Int
      /\ d < 0 <=> Rank(a) < Rank(b)
      /\ d = 0 <=> Rank(a) = Rank(b)
      /\ Rank(a) = Rank(b) => a.code = b.code /\ ModBits(a) = ModBits(b)
  BY <1>3, <1>a DEF Orders
<1>8. Rank(a) \in Int /\ Rank(b) \in Int
  BY <1>3, <1>5, <1>6
<1> QED
  BY <1>2, <1>4, <1>5, <1>7, <1>8 DEF Ranks

LEMMA SymsRank ==
  ASSUME NEW a, Event(a), NEW b, Event(b), a.type = b.type, a.type = "KEYSYM"
  PROVE  Ranks(a, b, FirstDifference(Differences(a, b)))
<1> USE DEF Event
<1>1. a.code \in SymSet /\ b.code \in SymSet
  OBVIOUS
<1>2. Differences(a, b) = <<Number(a.code) - Number(b.code), ModBits(a) - ModBits(b)>>
  BY DEF Differences
<1>3. Rank(a) = 8 * Number(a.code) + ModBits(a) /\ Rank(b) = 8 * Number(b.code) + ModBits(b)
  BY DEF Rank
<1>4. a.code = b.code /\ a.mods = b.mods => a = b
  OBVIOUS
<1>5. /\ ModBits(a) \in 0 .. 7 /\ ModBits(b) \in 0 .. 7
      /\ ModBits(a) = ModBits(b) => a.mods = b.mods
  BY ModsTell
<1>6. /\ Number(a.code) \in Int /\ Number(b.code) \in Int
      /\ Number(a.code) = Number(b.code) => a.code = b.code
  BY <1>1, NumberTells
<1> HIDE DEF Event
<1> DEFINE d == FirstDifference(<<Number(a.code) - Number(b.code), ModBits(a) - ModBits(b)>>)
<1>a. Orders(d, Number(a.code), Number(b.code), ModBits(a), ModBits(b))
  BY ONLY <1>5, <1>6, TwoNumbers, Zenon
<1>7. /\ d \in Int
      /\ d < 0 <=> Rank(a) < Rank(b)
      /\ d = 0 <=> Rank(a) = Rank(b)
      /\ Rank(a) = Rank(b) => Number(a.code) = Number(b.code) /\ ModBits(a) = ModBits(b)
  BY <1>3, <1>a DEF Orders
<1>8. Rank(a) \in Int /\ Rank(b) \in Int
  BY <1>3, <1>5, <1>6
<1> QED
  BY <1>2, <1>4, <1>5, <1>6, <1>7, <1>8 DEF Ranks

LEMMA Pairs ==
  ASSUME NEW p \in Nat \X Nat
  PROVE  p[1] \in Nat /\ p[2] \in Nat /\ p = <<p[1], p[2]>>
OBVIOUS

LEMMA Triples ==
  ASSUME NEW A, NEW B, NEW C, NEW p \in A \X B \X C
  PROVE  p[1] \in A /\ p[2] \in B /\ p[3] \in C /\ p = <<p[1], p[2], p[3]>>
OBVIOUS

AtPosition(key, col, line) ==
  /\ key = [type |-> "POSITION", code |-> <<col, line>>, mods |-> {}]
  /\ get_linecol(mouse(key)) = [col |-> col, line |-> line]

LEMMA PositionBytes ==
  ASSUME NEW key, Event(key), Expressible(key), key.type = "POSITION"
  PROVE  \E col \in Columns, line \in Lines : AtPosition(key, col, line)
<1> DEFINE col == key.code[1]
           line == key.code[2]
           at == set_linecol(col, line)
<1>1. key.code \in Nat \X Nat /\ key.mods = {}
  BY DEF Event
<1>2. col \in Nat /\ line \in Nat /\ key.code = <<col, line>>
  BY <1>1, Pairs
<1>3. col < 4096 /\ line < 1024
  BY DEF Expressible
<1>4. mouse(key) = <<0, at[1], at[2], at[3]>>
  BY DEF mouse
<1>5. key = [type |-> "POSITION", code |-> <<col, line>>, mods |-> {}]
  BY <1>1, <1>2 DEF Event
<1> HIDE DEF col, line
<1>6. col \in Columns /\ line \in Lines
  BY <1>2, <1>3 DEF Columns, Lines
<1>7. Kept(col, line, 0, 0)
  <2>1. 0 \in {0, 128}
    OBVIOUS
  <2> QED
    BY ONLY <1>6, <2>1, PlaceKept, Zenon
<1>8. at[3] + 0 = at[3]
  BY <1>7 DEF Kept
<1>9. get_linecol(mouse(key)) = [col |-> col, line |-> line]
  BY <1>4, <1>7, <1>8 DEF Kept
<1>10. AtPosition(key, col, line)
  BY <1>5, <1>9 DEF AtPosition
<1> QED
  BY ONLY <1>6, <1>10, Zenon

LEMMA PositionsRank ==
  ASSUME NEW a, Event(a), Expressible(a), NEW b, Event(b), Expressible(b),
         a.type = b.type, a.type = "POSITION"
  PROVE  Ranks(a, b, FirstDifference(Differences(a, b)))
<1>0. b.type = "POSITION"
  OBVIOUS
<1>1. PICK x \in Columns, v \in Lines : AtPosition(a, x, v)
  BY PositionBytes, Zenon
<1>2. PICK y \in Columns, w \in Lines : AtPosition(b, y, w)
  BY <1>0, PositionBytes, Zenon
<1>p. /\ a = [type |-> "POSITION", code |-> <<x, v>>, mods |-> {}]
      /\ b = [type |-> "POSITION", code |-> <<y, w>>, mods |-> {}]
      /\ get_linecol(mouse(a)) = [col |-> x, line |-> v]
      /\ get_linecol(mouse(b)) = [col |-> y, line |-> w]
  BY <1>1, <1>2 DEF AtPosition
<1>3. Differences(a, b) =
        <<get_linecol(mouse(a)).line - get_linecol(mouse(b)).line,
          get_linecol(mouse(a)).col - get_linecol(mouse(b)).col>>
  BY DEF Differences
<1>4. Differences(a, b) = <<v - w, x - y>>
  BY <1>p, <1>3
<1>5. FirstDifference(Differences(a, b)) = IF v - w # 0 THEN v - w ELSE x - y
  <2>1. v - w \in Int /\ x - y \in Int
    BY DEF Columns, Lines
  <2> QED
    BY <1>4, <2>1, OneDifference
<1>6. Rank(a) = 4096 * v + x /\ Rank(b) = 4096 * w + y
  BY <1>p DEF Rank
<1>7. x = y /\ v = w => a = b
  BY <1>p
<1>8. LET d == IF v - w # 0 THEN v - w ELSE x - y
      IN  /\ d \in Int /\ 4096 * v + x \in Int /\ 4096 * w + y \in Int
          /\ d < 0 <=> 4096 * v + x < 4096 * w + y
          /\ d = 0 <=> 4096 * v + x = 4096 * w + y
          /\ 4096 * v + x = 4096 * w + y => x = y /\ v = w
  BY DEF Columns, Lines
<1> QED
  BY <1>5, <1>6, <1>7, <1>8 DEF Ranks

Reports(key, initial, high, low, value) ==
  /\ key = [type |-> "MODEREPORT", code |-> <<initial, high * 256 + low, value>>, mods |-> {}]
  /\ mouse(key)[1] = initial /\ interpret_mode(mouse(key)) = high * 256 + low
  /\ mouse(key)[4] = value

LEMMA ModeBytes ==
  ASSUME NEW key, Event(key), Expressible(key), key.type = "MODEREPORT"
  PROVE  \E initial \in 0 .. 255, high \in 0 .. 127, low \in 0 .. 127, value \in 0 .. 127 :
           Reports(key, initial, high, low, value)
<1> DEFINE initial == key.code[1]
           mode == key.code[2]
           value == key.code[3]
           high == mode \div 256
           low == mode % 256
<1>1. key.code \in (0 .. 255) \X Nat \X (0 .. 127) /\ key.mods = {}
  BY DEF Event
<1>2. /\ initial \in 0 .. 255 /\ mode \in Nat /\ value \in 0 .. 127
      /\ key.code = <<initial, mode, value>>
  BY <1>1, Triples
<1>3. high < 128 /\ low < 128
  BY DEF Expressible
<1>4. mouse(key) = <<initial, high % 256, low, value>>
  BY DEF mouse
<1>5. key = [type |-> "MODEREPORT", code |-> <<initial, mode, value>>, mods |-> {}]
  BY <1>1, <1>2 DEF Event
<1> HIDE DEF initial, mode, value
<1>6. mode \in Nat
  BY <1>2
<1>7. high \in Nat /\ low \in Nat /\ mode = high * 256 + low
  BY <1>6
<1> HIDE DEF high, low
<1>8. high \in 0 .. 127 /\ low \in 0 .. 127
  BY <1>3, <1>7
<1>9. high % 256 = high
  BY <1>8
<1>10. mouse(key) = <<initial, high, low, value>>
  BY <1>4, <1>9
<1>11. mouse(key)[1] = initial /\ mouse(key)[2] = high /\ mouse(key)[3] = low /\ mouse(key)[4] = value
  BY <1>10
<1>12. interpret_mode(mouse(key)) = high * 256 + low
  BY <1>8, <1>11 DEF interpret_mode
<1>13. key = [type |-> "MODEREPORT", code |-> <<initial, high * 256 + low, value>>, mods |-> {}]
  BY <1>5, <1>7
<1>14. Reports(key, initial, high, low, value)
  BY <1>11, <1>12, <1>13 DEF Reports
<1> QED
  BY ONLY <1>2, <1>8, <1>14, Zenon

LEMMA ModesRank ==
  ASSUME NEW a, Event(a), Expressible(a), NEW b, Event(b), Expressible(b),
         a.type = b.type, a.type = "MODEREPORT"
  PROVE  Ranks(a, b, FirstDifference(Differences(a, b)))
<1>0. b.type = "MODEREPORT"
  OBVIOUS
<1>1. PICK r \in 0 .. 255, g \in 0 .. 127, l \in 0 .. 127, x \in 0 .. 127 :
        Reports(a, r, g, l, x)
  BY ModeBytes, Zenon
<1>2. PICK s \in 0 .. 255, h \in 0 .. 127, m \in 0 .. 127, y \in 0 .. 127 :
        Reports(b, s, h, m, y)
  BY <1>0, ModeBytes, Zenon
<1> DEFINE v == g * 256 + l
           w == h * 256 + m
<1>3. Differences(a, b) =
        <<mouse(a)[1] - mouse(b)[1], interpret_mode(mouse(a)) - interpret_mode(mouse(b)),
          mouse(a)[4] - mouse(b)[4]>>
  BY DEF Differences
<1>4. Differences(a, b) = <<r - s, v - w, x - y>>
  BY <1>1, <1>2, <1>3 DEF Reports
<1>5. v \in Int /\ w \in Int /\ r - s \in Int /\ x - y \in Int
  OBVIOUS
<1>6. Rank(a) = 128 * (256 * 256 * r + v) + x /\ Rank(b) = 128 * (256 * 256 * s + w) + y
  BY <1>1, <1>2 DEF Rank, Reports
<1>7. r = s /\ v = w /\ x = y => a = b
  BY <1>1, <1>2 DEF Reports
<1>8. v \in Nat /\ w \in Nat /\ v < 256 * 256 /\ w < 256 * 256
  OBVIOUS
<1> HIDE DEF v, w
<1>9. FirstDifference(Differences(a, b)) =
        IF r - s # 0 THEN r - s ELSE IF v - w # 0 THEN v - w ELSE x - y
  BY <1>4, <1>5, TwoDifferences
<1>10. LET d == IF r - s # 0 THEN r - s ELSE IF v - w # 0 THEN v - w ELSE x - y
           p == 128 * (256 * 256 * r + v) + x
           q == 128 * (256 * 256 * s + w) + y
       IN  /\ d \in Int /\ p \in Int /\ q \in Int
           /\ d < 0 <=> p < q
           /\ d = 0 <=> p = q
           /\ p = q => r = s /\ v = w /\ x = y
  BY <1>8
<1> QED
  BY <1>6, <1>7, <1>9, <1>10 DEF Ranks

(* A mouse's four bytes, of which the fourth alone may be zero.            *)
MouseSaid(key) ==
  /\ mouse(key)[1] \in 1 .. 255 /\ mouse(key)[2] \in 1 .. 255 /\ mouse(key)[3] \in 1 .. 255
  /\ mouse(key)[4] \in 0 .. 255
  /\ mouse(key)[1] = ByteOf(key.code.buttons)
  /\ key.code.released = (mouse(key)[4] >= 128)
  /\ get_linecol(mouse(key)) = [col |-> key.code.at[1], line |-> key.code.at[2]]
  /\ key.code = [buttons |-> key.code.buttons,
                 at |-> <<key.code.at[1], key.code.at[2]>>, released |-> key.code.released]
  /\ key.code.buttons \in SUBSET (0 .. 7)

LEMMA MouseBytes ==
  ASSUME NEW key, Event(key), Expressible(key), key.type = "MOUSE"
  PROVE  MouseSaid(key)
<1> DEFINE code == key.code
           col == code.at[1]
           line == code.at[2]
           at == set_linecol(col, line)
           high == IF code.released THEN 128 ELSE 0
<1>1. code \in [buttons : SUBSET (0 .. 7), at : Nat \X Nat, released : BOOLEAN]
  BY DEF Event
<1>2. mouse(key) = <<ByteOf(code.buttons), at[1], at[2], at[3] + high>>
  BY DEF mouse
<1>3. /\ col < 4096 /\ line < 1024
      /\ \A n \in 1 .. 3 : mouse(key)[n] # 0
  BY DEF Expressible
<1>4. /\ code.buttons \in SUBSET (0 .. 7) /\ code.at \in Nat \X Nat /\ code.released \in BOOLEAN
      /\ code = [buttons |-> code.buttons, at |-> code.at, released |-> code.released]
  BY <1>1
<1>5. col \in Nat /\ line \in Nat /\ code.at = <<col, line>>
  BY <1>4, Pairs
<1>6. code = [buttons |-> code.buttons, at |-> <<col, line>>, released |-> code.released]
  BY <1>4, <1>5
<1>7. high \in {0, 128}
  OBVIOUS
<1> HIDE DEF col, line, at
<1>8. col \in Columns /\ line \in Lines
  BY <1>3, <1>5 DEF Columns, Lines
<1> HIDE DEF high
<1>9. Kept(col, line, high, ByteOf(code.buttons))
  BY ONLY <1>7, <1>8, PlaceKept, Zenon
<1>10. /\ at[1] \in 0 .. 255 /\ at[2] \in 0 .. 255 /\ at[3] \in 0 .. 127
       /\ get_linecol(<<ByteOf(code.buttons), at[1], at[2], at[3] + high>>) = [col |-> col, line |-> line]
  BY <1>9 DEF Kept, at
<1>11. ByteOf(code.buttons) \in 0 .. 255
  BY <1>4, BytesTell
<1>12. /\ mouse(key)[1] = ByteOf(code.buttons) /\ mouse(key)[2] = at[1] /\ mouse(key)[3] = at[2]
       /\ mouse(key)[4] = at[3] + high
  BY <1>2
<1>13. mouse(key)[1] # 0 /\ mouse(key)[2] # 0 /\ mouse(key)[3] # 0
  BY <1>3
<1>14. /\ mouse(key)[1] \in 1 .. 255 /\ mouse(key)[2] \in 1 .. 255 /\ mouse(key)[3] \in 1 .. 255
  BY <1>10, <1>11, <1>12, <1>13
<1>15. mouse(key)[4] \in 0 .. 255 /\ (code.released = (mouse(key)[4] >= 128))
  <2>1. at[3] \in 0 .. 127 /\ mouse(key)[4] = at[3] + high
    BY <1>10, <1>12
  <2>2. CASE code.released
    <3>1. high = 128
      BY <2>2 DEF high
    <3>2. mouse(key)[4] \in 0 .. 255 /\ mouse(key)[4] >= 128
      BY ONLY <2>1, <3>1
    <3> QED
      BY <1>4, <2>2, <3>2
  <2>3. CASE ~ code.released
    <3>1. high = 0
      BY <2>3 DEF high
    <3>2. mouse(key)[4] \in 0 .. 255 /\ ~(mouse(key)[4] >= 128)
      BY ONLY <2>1, <3>1
    <3> QED
      BY <1>4, <2>3, <3>2
  <2> QED
    BY <2>2, <2>3
<1>16. get_linecol(mouse(key)) = [col |-> col, line |-> line]
  BY <1>2, <1>10
<1> QED
  BY <1>4, <1>6, <1>12, <1>14, <1>15, <1>16 DEF col, line, MouseSaid

(* strncmp of four bytes: only the fourth may end them.                    *)
LEMMA StringsCompared ==
  ASSUME NEW m, NEW n,
         m[1] \in 1 .. 255, m[2] \in 1 .. 255, m[3] \in 1 .. 255, m[4] \in 0 .. 255,
         n[1] \in 1 .. 255, n[2] \in 1 .. 255, n[3] \in 1 .. 255, n[4] \in 0 .. 255
  PROVE  strncmp(m, n) = IF m[1] # n[1] THEN m[1] - n[1]
                         ELSE IF m[2] # n[2] THEN m[2] - n[2]
                         ELSE IF m[3] # n[3] THEN m[3] - n[3] ELSE m[4] - n[4]
<1> DEFINE ends == {k \in 1 .. 4 : m[k] # n[k] \/ m[k] = 0}
<1>0. m[1] # 0 /\ m[2] # 0 /\ m[3] # 0
  OBVIOUS
<1>1. ends \in SUBSET Nat /\ strncmp(m, n) = IF ends = {} THEN 0 ELSE m[Min(ends)] - n[Min(ends)]
  BY DEF strncmp
<1>2. ASSUME NEW k \in ends, \A j \in ends : k <= j
      PROVE  strncmp(m, n) = m[k] - n[k]
  <2>1. Min(ends) = k
    BY <1>1, <1>2, MinOf
  <2> QED
    BY <1>1, <1>2, <2>1
<1>3. \A k : k \in ends <=> k \in {1, 2, 3, 4} /\ (m[k] # n[k] \/ m[k] = 0)
  OBVIOUS
<1> HIDE DEF ends
<1>4. CASE m[1] # n[1]
  <2>1. 1 \in ends /\ \A j \in ends : 1 <= j
    BY <1>3, <1>4
  <2> QED
    BY <1>2, <1>4, <2>1
<1>5. CASE m[1] = n[1] /\ m[2] # n[2]
  <2>1. 2 \in ends /\ \A j \in ends : 2 <= j
    BY <1>0, <1>3, <1>5
  <2> QED
    BY <1>2, <1>5, <2>1
<1>6. CASE m[1] = n[1] /\ m[2] = n[2] /\ m[3] # n[3]
  <2>1. 3 \in ends /\ \A j \in ends : 3 <= j
    BY <1>0, <1>3, <1>6
  <2> QED
    BY <1>2, <1>6, <2>1
<1>7. CASE m[1] = n[1] /\ m[2] = n[2] /\ m[3] = n[3] /\ (m[4] # n[4] \/ m[4] = 0)
  <2>1. 4 \in ends /\ \A j \in ends : 4 <= j
    BY <1>0, <1>3, <1>7
  <2> QED
    BY <1>2, <1>7, <2>1
<1>8. CASE m[1] = n[1] /\ m[2] = n[2] /\ m[3] = n[3] /\ m[4] = n[4] /\ m[4] # 0
  <2>1. ends = {}
    BY <1>0, <1>3, <1>8
  <2> QED
    BY <1>1, <1>8, <2>1
<1> QED
  BY <1>4, <1>5, <1>6, <1>7, <1>8

FourOrder(a, b, c, d, p, q, r, s) ==
  LET x == 256 * (256 * (256 * a + b) + c) + d
      y == 256 * (256 * (256 * p + q) + r) + s
      e == IF a # p THEN a - p ELSE IF b # q THEN b - q ELSE IF c # r THEN c - r ELSE d - s
  IN  /\ x \in Int /\ y \in Int /\ e \in Int
      /\ e < 0 <=> x < y
      /\ e = 0 <=> x = y
      /\ x = y => a = p /\ b = q /\ c = r /\ d = s

LEMMA FourBytes ==
  ASSUME NEW a \in 0 .. 255, NEW b \in 0 .. 255, NEW c \in 0 .. 255, NEW d \in 0 .. 255,
         NEW p \in 0 .. 255, NEW q \in 0 .. 255, NEW r \in 0 .. 255, NEW s \in 0 .. 255
  PROVE  FourOrder(a, b, c, d, p, q, r, s)
<1> DEFINE ab == 256 * a + b
           pq == 256 * p + q
           abc == 256 * ab + c
           pqr == 256 * pq + r
<1>1. /\ ab \in Nat /\ pq \in Nat
      /\ ab = pq => a = p /\ b = q
      /\ a < p => ab < pq
      /\ a > p => ab > pq
      /\ a = p /\ b < q => ab < pq
      /\ a = p /\ b > q => ab > pq
      /\ a = p /\ b = q => ab = pq
  OBVIOUS
<1> HIDE DEF ab, pq
<1>2. /\ abc \in Nat /\ pqr \in Nat
      /\ abc = pqr => ab = pq /\ c = r
      /\ ab < pq => abc < pqr
      /\ ab > pq => abc > pqr
      /\ ab = pq /\ c < r => abc < pqr
      /\ ab = pq /\ c > r => abc > pqr
      /\ ab = pq /\ c = r => abc = pqr
  BY <1>1
<1> HIDE DEF abc, pqr
<1> DEFINE x == 256 * abc + d
           y == 256 * pqr + s
<1>3. /\ x \in Nat /\ y \in Nat
      /\ x = y => abc = pqr /\ d = s
      /\ abc < pqr => x < y
      /\ abc > pqr => x > y
      /\ abc = pqr /\ d < s => x < y
      /\ abc = pqr /\ d > s => x > y
      /\ abc = pqr /\ d = s => x = y
  BY <1>2
<1> HIDE DEF x, y
<1> DEFINE e == IF a # p THEN a - p ELSE IF b # q THEN b - q ELSE IF c # r THEN c - r ELSE d - s
<1>4. x \in Int /\ y \in Int /\ e \in Int
  BY <1>3
<1>5. (e < 0 => x < y) /\ (e > 0 => x > y) /\ (e = 0 => x = y)
  BY <1>1, <1>2, <1>3
<1>6. x = y => a = p /\ b = q /\ c = r /\ d = s
  BY <1>1, <1>2, <1>3
<1> HIDE DEF e
<1>7. (e < 0 <=> x < y) /\ (e = 0 <=> x = y)
  BY <1>4, <1>5
<1> QED
  BY <1>4, <1>6, <1>7 DEF e, x, y, abc, pqr, ab, pq, FourOrder

LEMMA MiceRank ==
  ASSUME NEW a, Event(a), Expressible(a), NEW b, Event(b), Expressible(b),
         a.type = b.type, a.type = "MOUSE"
  PROVE  Ranks(a, b, FirstDifference(Differences(a, b)))
<1> DEFINE m == mouse(a)
           n == mouse(b)
           x == 256 * (256 * (256 * m[1] + m[2]) + m[3]) + m[4]
           y == 256 * (256 * (256 * n[1] + n[2]) + n[3]) + n[4]
           e == strncmp(m, n)
<1>0. MouseSaid(a) /\ MouseSaid(b)
  <2>1. b.type = "MOUSE"
    OBVIOUS
  <2> QED
    BY <2>1, MouseBytes, Zenon
<1>1. /\ m[1] \in 1 .. 255 /\ m[2] \in 1 .. 255 /\ m[3] \in 1 .. 255 /\ m[4] \in 0 .. 255
      /\ n[1] \in 1 .. 255 /\ n[2] \in 1 .. 255 /\ n[3] \in 1 .. 255 /\ n[4] \in 0 .. 255
  BY <1>0 DEF MouseSaid
<1>2. /\ x \in Int /\ y \in Int /\ e \in Int
      /\ e < 0 <=> x < y
      /\ e = 0 <=> x = y
      /\ x = y => m[1] = n[1] /\ m[2] = n[2] /\ m[3] = n[3] /\ m[4] = n[4]
  <2> HIDE DEF m, n
  <2>1. e = IF m[1] # n[1] THEN m[1] - n[1]
            ELSE IF m[2] # n[2] THEN m[2] - n[2]
            ELSE IF m[3] # n[3] THEN m[3] - n[3] ELSE m[4] - n[4]
    BY ONLY <1>1, StringsCompared
  <2>2. /\ m[1] \in 0 .. 255 /\ m[2] \in 0 .. 255 /\ m[3] \in 0 .. 255 /\ m[4] \in 0 .. 255
        /\ n[1] \in 0 .. 255 /\ n[2] \in 0 .. 255 /\ n[3] \in 0 .. 255 /\ n[4] \in 0 .. 255
    BY ONLY <1>1
  <2> QED
    <3>1. FourOrder(m[1], m[2], m[3], m[4], n[1], n[2], n[3], n[4])
      BY ONLY <2>2, FourBytes, Zenon
    <3> QED
      BY ONLY <2>1, <3>1 DEF FourOrder
<1>3. x = y => a.code = b.code
  <2> SUFFICES ASSUME x = y
               PROVE  a.code = b.code
    OBVIOUS
  <2>1. m[1] = n[1] /\ m[2] = n[2] /\ m[3] = n[3] /\ m[4] = n[4]
    BY <1>2
  <2>2. get_linecol(m) = get_linecol(n)
    BY <2>1 DEF get_linecol
  <2>3. /\ get_linecol(m) = [col |-> a.code.at[1], line |-> a.code.at[2]]
        /\ get_linecol(n) = [col |-> b.code.at[1], line |-> b.code.at[2]]
    BY <1>0 DEF MouseSaid
  <2>4. a.code.at[1] = b.code.at[1] /\ a.code.at[2] = b.code.at[2]
    <3>1. \A k, l, v, w : [col |-> k, line |-> l] = [col |-> v, line |-> w] => k = v /\ l = w
      OBVIOUS
    <3>2. [col |-> a.code.at[1], line |-> a.code.at[2]] = [col |-> b.code.at[1], line |-> b.code.at[2]]
      BY ONLY <2>2, <2>3, Zenon
    <3> QED
      BY ONLY <3>1, <3>2, Zenon
  <2>5. /\ m[1] = ByteOf(a.code.buttons) /\ n[1] = ByteOf(b.code.buttons)
        /\ a.code.buttons \in SUBSET (0 .. 7) /\ b.code.buttons \in SUBSET (0 .. 7)
    BY <1>0 DEF MouseSaid
  <2>6. a.code.buttons = b.code.buttons
    BY ONLY <2>1, <2>5, BytesTell
  <2>7. a.code.released = (m[4] >= 128) /\ b.code.released = (n[4] >= 128)
    BY <1>0 DEF MouseSaid
  <2>8. a.code.released = b.code.released
    BY ONLY <2>1, <2>7
  <2>9. /\ a.code = [buttons |-> a.code.buttons,
                     at |-> <<a.code.at[1], a.code.at[2]>>, released |-> a.code.released]
        /\ b.code = [buttons |-> b.code.buttons,
                     at |-> <<b.code.at[1], b.code.at[2]>>, released |-> b.code.released]
    BY <1>0 DEF MouseSaid
  <2> QED
    BY ONLY <2>4, <2>6, <2>8, <2>9
<1>4. Differences(a, b) = <<e, ModBits(a) - ModBits(b)>>
  BY DEF Differences
<1>5. Rank(a) = 8 * x + ModBits(a) /\ Rank(b) = 8 * y + ModBits(b)
  BY DEF Rank
<1>6. /\ ModBits(a) \in 0 .. 7 /\ ModBits(b) \in 0 .. 7
      /\ ModBits(a) = ModBits(b) => a.mods = b.mods
  BY ModsTell
<1>7. a.code = b.code /\ a.mods = b.mods => a = b
  BY DEF Event
<1> HIDE DEF x, y, e, m, n
<1> DEFINE f == ModBits(a)
           g == ModBits(b)
           d == IF e # 0 THEN e ELSE f - g
<1>8. f \in 0 .. 7 /\ g \in 0 .. 7
  BY <1>6
<1> HIDE DEF f, g
<1>9. FirstDifference(<<e, f - g>>) = d
  BY <1>2, <1>8, OneDifference
<1>10. /\ 8 * x + f \in Int /\ 8 * y + g \in Int /\ d \in Int
       /\ d < 0 <=> 8 * x + f < 8 * y + g
       /\ d = 0 <=> 8 * x + f = 8 * y + g
       /\ 8 * x + f = 8 * y + g => x = y /\ f = g
  BY ONLY <1>2, <1>8
<1>11. FirstDifference(Differences(a, b)) = d /\ Rank(a) = 8 * x + f /\ Rank(b) = 8 * y + g
  BY <1>4, <1>5, <1>9 DEF f, g
<1>12. f = g => a.mods = b.mods
  BY <1>6 DEF f, g
<1> HIDE DEF d
<1> QED
  BY <1>3, <1>7, <1>10, <1>11, <1>12 DEF Ranks

(* Keys of any two types.                                                  *)
CompareCanonical(a, b) ==
  IF a.type # b.type THEN TypeNumber(a) - TypeNumber(b)
  ELSE FirstDifference(Differences(a, b))

LEMMA TypesTell ==
  ASSUME NEW a, Event(a), NEW b, Event(b)
  PROVE  /\ TypeNumber(a) \in Int /\ TypeNumber(b) \in Int
         /\ TypeNumber(a) = TypeNumber(b) => a.type = b.type
<1>1. ASSUME NEW key, Event(key)
      PROVE  \E n \in 1 .. 7 : TypeNumber(key) = n - 2 /\ Types[n] = key.type
  <2>1. DOMAIN Types = 1 .. 7
    BY DEF Types
  <2>2. /\ Types[1] = "UNKNOWN_CSI" /\ Types[2] = "UNICODE" /\ Types[3] = "FUNCTION" /\ Types[4] = "KEYSYM"
        /\ Types[5] = "MOUSE" /\ Types[6] = "POSITION" /\ Types[7] = "MODEREPORT"
    BY DEF Types
  <2>3. key.type \in {"UNKNOWN_CSI", "UNICODE", "FUNCTION", "KEYSYM", "MOUSE", "POSITION", "MODEREPORT"}
    BY <1>1 DEF Event
  <2>4. \E n \in 1 .. 7 : Types[n] = key.type
    BY <2>2, <2>3
  <2> DEFINE n == CHOOSE n \in DOMAIN Types : Types[n] = key.type
  <2>5. n \in 1 .. 7 /\ Types[n] = key.type
    BY <2>1, <2>4
  <2>6. TypeNumber(key) = n - 2
    BY DEF TypeNumber
  <2> HIDE DEF n
  <2> QED
    BY <2>5, <2>6
<1>2. PICK n \in 1 .. 7 : TypeNumber(a) = n - 2 /\ Types[n] = a.type
  BY <1>1
<1>3. PICK m \in 1 .. 7 : TypeNumber(b) = m - 2 /\ Types[m] = b.type
  BY <1>1
<1> QED
  BY <1>2, <1>3

LEMMA SameTypeRanked ==
  ASSUME NEW a, Event(a), Expressible(a), NEW b, Event(b), Expressible(b), a.type = b.type
  PROVE  Ranks(a, b, FirstDifference(Differences(a, b)))
<1>1. a.type \in {"UNKNOWN_CSI", "UNICODE", "FUNCTION", "KEYSYM", "MOUSE", "POSITION", "MODEREPORT"}
  BY DEF Event
<1>2. CASE a.type \in {"UNICODE", "FUNCTION", "UNKNOWN_CSI"}
  BY <1>2, NumbersRank
<1>3. CASE a.type = "KEYSYM"
  BY <1>3, SymsRank
<1>4. CASE a.type = "MOUSE"
  BY <1>4, MiceRank
<1>5. CASE a.type = "POSITION"
  BY <1>5, PositionsRank
<1>6. CASE a.type = "MODEREPORT"
  BY <1>6, ModesRank
<1> QED
  BY <1>1, <1>2, <1>3, <1>4, <1>5, <1>6

(* One key comes before another: its type does, or its rank does.          *)
Precedes(a, b) ==
  \/ TypeNumber(a) < TypeNumber(b)
  \/ TypeNumber(a) = TypeNumber(b) /\ Rank(a) < Rank(b)

Compared(a, b) ==
  /\ CompareCanonical(a, b) < 0 <=> Precedes(a, b)
  /\ CompareCanonical(a, b) > 0 <=> Precedes(b, a)
  /\ CompareCanonical(a, b) = 0 <=> a = b
  /\ TypeNumber(a) \in Int /\ Rank(a) \in Int

LEMMA CanonicalCompared ==
  ASSUME NEW a, Event(a), Expressible(a), NEW b, Event(b), Expressible(b)
  PROVE  Compared(a, b)
<1>1. /\ TypeNumber(a) \in Int /\ TypeNumber(b) \in Int
      /\ TypeNumber(a) = TypeNumber(b) => a.type = b.type
  BY TypesTell
<1>2. Rank(a) \in Int
  <2>1. Ranks(a, a, FirstDifference(Differences(a, a)))
    BY SameTypeRanked
  <2> QED
    BY <2>1 DEF Ranks
<1>3. CASE a.type # b.type
  <2>1. CompareCanonical(a, b) = TypeNumber(a) - TypeNumber(b)
    BY <1>3 DEF CompareCanonical
  <2>2. TypeNumber(a) # TypeNumber(b) /\ a # b
    BY <1>1, <1>3
  <2> QED
    BY <1>1, <1>2, <2>1, <2>2 DEF Compared, Precedes
<1>4. CASE a.type = b.type
  <2> DEFINE d == FirstDifference(Differences(a, b))
  <2>1. CompareCanonical(a, b) = d
    BY <1>4 DEF CompareCanonical
  <2>2. TypeNumber(a) = TypeNumber(b)
    BY <1>4 DEF TypeNumber
  <2>3. Ranks(a, b, d)
    BY <1>4, SameTypeRanked
  <2> HIDE DEF d
  <2>4. /\ Rank(a) \in Int /\ Rank(b) \in Int /\ d \in Int
        /\ d < 0 <=> Rank(a) < Rank(b)
        /\ d = 0 <=> Rank(a) = Rank(b)
        /\ Rank(a) = Rank(b) => a = b
    BY <2>3 DEF Ranks
  <2>5. d > 0 <=> Rank(b) < Rank(a)
    BY ONLY <2>4
  <2>6. a = b => Rank(a) = Rank(b)
    OBVIOUS
  <2> QED
    BY ONLY <1>1, <2>1, <2>2, <2>4, <2>5, <2>6 DEF Compared, Precedes
<1> QED
  BY <1>3, <1>4

LEMMA PrecedesOrders ==
  ASSUME NEW a, NEW b, NEW c,
         TypeNumber(a) \in Int, TypeNumber(b) \in Int, TypeNumber(c) \in Int,
         Rank(a) \in Int, Rank(b) \in Int, Rank(c) \in Int,
         Precedes(a, b), Precedes(b, c)
  PROVE  Precedes(a, c)
BY DEF Precedes

(* termkey_keycmp is a total order on the keys whose bytes can say what    *)
(* the terminal sent, in every canonical form: the property of the run,    *)
(* for every set of keys and every table of names.                         *)
THEOREM EventsCompared == Spec => []ComparesEvents
<1>1. ComparesEvents
  <2> DEFINE said == {key \in Events : Expressible(key)}
             cmp(a, b) == termkey_keycmp(a, b)
  <2>1. \A key \in said : Event(Canonical(key)) /\ Expressible(Canonical(key))
    <3> TAKE key \in said
    <3>1. Event(key)
      BY EventsAssumption DEF Event
    <3>2. Expressible(key)
      OBVIOUS
    <3> QED
      BY <3>1, <3>2, CanonicalEvent
  <2>2. \A a, b \in said : Compared(Canonical(a), Canonical(b))
    BY <2>1, CanonicalCompared
  <2>3. \A a, b : cmp(a, b) = CompareCanonical(Canonical(a), Canonical(b))
    BY DEF termkey_keycmp, CompareCanonical
  <2> HIDE DEF cmp, said
  <2>4. \A a, b \in said :
          /\ cmp(a, b) < 0 <=> Precedes(Canonical(a), Canonical(b))
          /\ cmp(a, b) > 0 <=> Precedes(Canonical(b), Canonical(a))
          /\ cmp(a, b) = 0 <=> Canonical(a) = Canonical(b)
          /\ TypeNumber(Canonical(a)) \in Int /\ Rank(Canonical(a)) \in Int
    BY <2>2, <2>3 DEF Compared
  <2>5. ASSUME NEW a \in said, NEW b \in said, NEW c \in said,
               Precedes(Canonical(a), Canonical(b)), Precedes(Canonical(b), Canonical(c))
        PROVE  Precedes(Canonical(a), Canonical(c))
    BY <2>4, <2>5, PrecedesOrders
  <2> DEFINE less == {p \in said \X said : cmp(p[1], p[2]) < 0}
             same == {p \in said \X said : Canonical(p[1]) = Canonical(p[2])}
  <2>6. \A a, b \in said :
          /\ <<a, b>> \in less <=> Precedes(Canonical(a), Canonical(b))
          /\ <<a, b>> \in same <=> Canonical(a) = Canonical(b)
    BY <2>4
  <2> HIDE DEF less, same
  <2>7. ASSUME NEW a \in said, NEW b \in said
        PROVE  /\ cmp(a, b) = 0 <=> <<a, b>> \in same
               /\ cmp(a, b) > 0 <=> <<b, a>> \in less
               /\ \A c \in said : <<a, b>> \in less /\ <<b, c>> \in less => <<a, c>> \in less
    <3>1. cmp(a, b) = 0 <=> <<a, b>> \in same
      BY <2>4, <2>6, Zenon
    <3>2. cmp(a, b) > 0 <=> <<b, a>> \in less
      BY <2>4, <2>6, Zenon
    <3>3. ASSUME NEW c \in said, <<a, b>> \in less, <<b, c>> \in less
          PROVE  <<a, c>> \in less
      <4>1. Precedes(Canonical(a), Canonical(b)) /\ Precedes(Canonical(b), Canonical(c))
        BY <2>6, <3>3, Zenon
      <4>2. Precedes(Canonical(a), Canonical(c))
        BY <2>5, <4>1, Zenon
      <4> QED
        BY <2>6, <4>2, Zenon
    <3> QED
      BY <3>1, <3>2, <3>3, Zenon
  <2> QED
    BY <2>7, Zenon DEF ComparesEvents, said, cmp, less, same
<1> QED
  BY <1>1, PTL

-----------------------------------------------------------------------------
(* Sequences of tokens.                                                    *)
Tokens ==
  NameTexts \cup ModTexts \cup {" ", "-", "F", "f", "^", "UNKNOWN"}
    \cup {Char[c] : c \in DOMAIN Char} \cup Digits
WordSeqs == Seq(Words) \ {<<>>}

LEMMA MaxOf ==
  ASSUME NEW T \in SUBSET Nat, NEW x \in T, \A y \in T : y <= x
  PROVE  Max(T) = x
<1>1. \A z \in T : (\A y \in T : z >= y) => z = x
  OBVIOUS
<1> QED
  BY <1>1 DEF Max

Joined(s, t) ==
  /\ s \o t \in Seq(Tokens) /\ Len(s \o t) = Len(s) + Len(t)
  /\ \A k \in 1 .. Len(s) : (s \o t)[k] = s[k]
  /\ \A k \in 1 .. Len(t) : (s \o t)[Len(s) + k] = t[k]
  /\ SubSeq(s \o t, Len(s) + 1, Len(s \o t)) = t

LEMMA Joining ==
  ASSUME NEW s \in Seq(Tokens), NEW t \in Seq(Tokens)
  PROVE  Joined(s, t)
<1> DEFINE u == s \o t
<1>1. u \in Seq(Tokens) /\ Len(u) = Len(s) + Len(t)
  OBVIOUS
<1>2. \A k \in 1 .. Len(s) : u[k] = s[k]
  OBVIOUS
<1>3. \A k \in 1 .. Len(t) : u[Len(s) + k] = t[k]
  OBVIOUS
<1> HIDE DEF u
<1>4. SubSeq(u, Len(s) + 1, Len(u)) = t
  <2> DEFINE w == SubSeq(u, Len(s) + 1, Len(u))
  <2>1. Len(s) \in Nat /\ Len(t) \in Nat
    OBVIOUS
  <2>2. w \in Seq(Tokens) /\ Len(w) = Len(t)
    BY <1>1, <2>1
  <2>3. \A k \in 1 .. Len(t) : w[k] = u[Len(s) + k]
    BY <1>1, <2>1
  <2> HIDE DEF w
  <2>4. \A k \in 1 .. Len(t) : w[k] = t[k]
    BY <1>3, <2>3
  <2>5. w = t
    BY <2>2, <2>4, SeqEqual
  <2> QED
    BY <2>5 DEF w
<1> QED
  BY <1>1, <1>2, <1>3, <1>4 DEF Joined, u

-----------------------------------------------------------------------------
(* WordSeqs.                                                                  *)
SpacedAt(name, p) == IF p % 2 = 1 THEN Lower[name[(p + 1) \div 2]] ELSE " "

LEMMA TokenKinds ==
  /\ NameTexts \subseteq Tokens /\ ModTexts \subseteq Tokens /\ Digits \subseteq Tokens
  /\ \A c \in DOMAIN Char : Char[c] \in Tokens
  /\ " " \in Tokens /\ "-" \in Tokens /\ "F" \in Tokens /\ "f" \in Tokens /\ "^" \in Tokens
  /\ "UNKNOWN" \in Tokens
BY Zenon DEF Tokens

LEMMA SpacedName ==
  ASSUME NEW name \in WordSeqs
  PROVE  /\ CamelToSpaces(name) \in Seq(Tokens) /\ CamelToSpaces(name) # <<>>
         /\ Len(CamelToSpaces(name)) >= 1
         /\ CamelToSpaces(name)[1] = Lower[name[1]]
         /\ name[1] \in Words /\ Lower[name[1]] \in NameTexts
<1> DEFINE n == 2 * Len(name) - 1
           s == CamelToSpaces(name)
<1>1. name \in Seq(Words) /\ Len(name) \in Nat \ {0} /\ name[1] \in Words
  BY DEF WordSeqs
<1>2. n \in Nat /\ n >= 1
  BY <1>1
<1>3. s = [p \in 1 .. n |-> SpacedAt(name, p)]
  BY DEF CamelToSpaces, SpacedAt
<1>4. ASSUME NEW p \in 1 .. n
      PROVE  SpacedAt(name, p) \in Tokens
  <2>1. CASE p % 2 = 1
    <3>1. (p + 1) \div 2 \in 1 .. Len(name)
      BY <1>1, <1>2, <2>1
    <3>2. name[(p + 1) \div 2] \in Words
      BY <1>1, <3>1
    <3>3. SpacedAt(name, p) = Lower[name[(p + 1) \div 2]]
      BY <2>1 DEF SpacedAt
    <3>4. Lower[name[(p + 1) \div 2]] \in NameTexts
      BY <3>2, Zenon DEF NameTexts
    <3> QED
      BY <3>3, <3>4, TokenKinds, Zenon
  <2>2. CASE p % 2 # 1
    <3>1. SpacedAt(name, p) = " "
      BY <2>2 DEF SpacedAt
    <3> QED
      BY <3>1, TokenKinds, Zenon
  <2> QED
    BY <2>1, <2>2
<1>5. SpacedAt(name, 1) = Lower[name[1]]
  <2>1. 1 % 2 = 1 /\ (1 + 1) \div 2 = 1
    OBVIOUS
  <2> QED
    BY <2>1 DEF SpacedAt
<1> HIDE DEF n, s
<1>6. s \in [1 .. n -> Tokens]
  BY <1>3, <1>4
<1>7. s \in Seq(Tokens) /\ Len(s) = n
  BY <1>2, <1>6
<1>8. s[1] = Lower[name[1]]
  BY <1>2, <1>3, <1>5
<1>9. s # <<>> /\ Len(s) >= 1
  BY <1>2, <1>7
<1>10. Lower[name[1]] \in NameTexts
  BY <1>1, Zenon DEF NameTexts
<1> QED
  BY <1>1, <1>7, <1>8, <1>9, <1>10 DEF s

LEMMA BehindItself ==
  ASSUME NEW name \in WordSeqs, NEW format
  PROVE  LET text == IF "LOWERSPACE" \in format THEN CamelToSpaces(name) ELSE name
         IN  Behind(name, text, format) = {<<>>}
<1>1. name \in Seq(Words) /\ IsPrefix(name, name) /\ SubSeq(name, Len(name) + 1, Len(name)) = <<>>
  BY DEF WordSeqs, IsPrefix
<1>2. CASE "LOWERSPACE" \in format
  <2>1. CamelToSpaces(name)[1] # Capital[name[1]]
    BY SpacedName, NamesAssumption
  <2> QED
    BY <1>2, <2>1 DEF Behind
<1>3. CASE "LOWERSPACE" \notin format
  BY <1>1, <1>3 DEF Behind
<1> QED
  BY <1>2, <1>3

(* A name that does not hide a text is not read in it.                     *)
LEMMA NothingBehind ==
  ASSUME NEW name, NEW text, NEW format, ~Hides(name, text, format),
         "LOWERSPACE" \in format =>
           text[1] # Capital[name[1]] \/ text = <<text[1]>>
  PROVE  Behind(name, text, format) = {}
<1>1. CASE "LOWERSPACE" \in format
  <2>1. text # CamelToSpaces(name) /\ text # <<Capital[name[1]]>>
    BY <1>1 DEF Hides
  <2>2. text[1] # Capital[name[1]]
    BY <1>1, <2>1
  <2> QED
    BY <1>1, <2>1, <2>2 DEF Behind
<1>2. CASE "LOWERSPACE" \notin format
  <2>1. ~IsPrefix(name, text)
    BY <1>2 DEF Hides
  <2> QED
    BY <1>2, <2>1 DEF Behind
<1> QED
  BY <1>1, <1>2

(* A number has a name, or none.                                           *)
NamesKept ==
  /\ keynames \in Seq(WordSeqs \cup {NoName})
  /\ Len(keynames) <= Len(Syms)

LEMMA SymsNumbered == Len(Syms) \in Nat /\ DOMAIN Syms = 1 .. Len(Syms)
<1>1. Syms \in Seq(SymSet)
  BY Zenon, NamesAssumption
<1> QED
  BY <1>1

LEMMA RegisteringKeeps ==
  ASSUME NamesKept, NEW sym \in 0 .. Len(Syms) - 1, NEW name \in NewNames,
         termkey_register_keyname(sym, name)
  PROVE  NamesKept'
<1> DEFINE n == IF sym = 0 THEN Len(keynames) ELSE sym
           max == Max({n + 1, Len(keynames)})
<1>1. Len(keynames) \in Nat /\ Len(Syms) \in Nat /\ n \in Nat
  BY SymsNumbered DEF NamesKept
<1>2. /\ n < Len(Syms)
      /\ keynames' = [p \in 1 .. max |->
                        IF p = n + 1 THEN name
                        ELSE IF p <= Len(keynames) THEN keynames[p] ELSE NoName]
  BY DEF termkey_register_keyname
<1>3. name \in WordSeqs
  BY NamesAssumption DEF WordSeqs
<1> HIDE DEF n
<1>4. max \in Nat /\ max <= Len(Syms)
  <2>1. CASE n + 1 >= Len(keynames)
    <3>1. max = n + 1
      BY <1>1, <2>1, MaxOf
    <3> QED
      BY <1>1, <1>2, <3>1
  <2>2. CASE n + 1 < Len(keynames)
    <3>1. Len(keynames) \in {n + 1, Len(keynames)} /\ {n + 1, Len(keynames)} \in SUBSET Nat
      BY <1>1
    <3>2. \A y \in {n + 1, Len(keynames)} : y <= Len(keynames)
      BY <1>1, <2>2
    <3>3. max = Len(keynames)
      BY ONLY <3>1, <3>2, MaxOf, Zenon
    <3> QED
      BY <1>1, <3>3 DEF NamesKept
  <2> QED
    BY <1>1, <2>1, <2>2
<1> HIDE DEF max
<1>5. ASSUME NEW p \in 1 .. max
      PROVE  (IF p = n + 1 THEN name ELSE IF p <= Len(keynames) THEN keynames[p] ELSE NoName)
               \in WordSeqs \cup {NoName}
  <2>1. p <= Len(keynames) => keynames[p] \in WordSeqs \cup {NoName}
    BY <1>4 DEF NamesKept
  <2> QED
    BY <1>3, <2>1
<1>6. keynames' \in [1 .. max -> WordSeqs \cup {NoName}]
  BY <1>2, <1>5
<1>7. keynames' \in Seq(WordSeqs \cup {NoName}) /\ Len(keynames') = max
  BY <1>4, <1>6
<1> QED
  BY <1>4, <1>7 DEF NamesKept

(* However names are registered.                                           *)
LEMMA NamesAlways == Spec => []NamesKept
<1>1. Init => NamesKept
  <2> SUFFICES ASSUME Init PROVE NamesKept
    OBVIOUS
  <2>1. keynames = BuiltIn /\ BuiltIn \in Seq(WordSeqs) /\ Len(BuiltIn) < Len(Syms)
    BY NamesAssumption DEF Init, WordSeqs
  <2>2. BuiltIn \in Seq(WordSeqs \cup {NoName})
    BY <2>1
  <2>3. Len(BuiltIn) \in Nat /\ Len(Syms) \in Nat
    BY <2>1, SymsNumbered
  <2> QED
    BY <2>1, <2>2, <2>3 DEF NamesKept
<1>2. NamesKept /\ [Next]_vars => NamesKept'
  <2> SUFFICES ASSUME NamesKept, [Next]_vars PROVE NamesKept'
    OBVIOUS
  <2>1. CASE \E sym \in 0 .. Len(Syms) - 1, name \in NewNames : termkey_register_keyname(sym, name)
    BY <2>1, RegisteringKeeps
  <2>2. CASE \E flags \in SUBSET {"SPACESYMBOL", "DELBS"} : termkey_set_canonflags(flags)
    BY <2>2 DEF termkey_set_canonflags, NamesKept
  <2>3. CASE UNCHANGED vars
    BY <2>3 DEF vars, NamesKept
  <2> QED
    BY <2>1, <2>2, <2>3 DEF Next
<1> QED
  BY <1>1, <1>2, PTL DEF Spec

LEMMA NameAt ==
  ASSUME NamesKept, NEW p \in DOMAIN keynames, keynames[p] # NoName
  PROVE  keynames[p] \in WordSeqs /\ p \in 1 .. Len(Syms) /\ p \in Nat
<1>1. p \in 1 .. Len(keynames) /\ keynames[p] \in WordSeqs \cup {NoName}
  BY DEF NamesKept
<1>2. Len(keynames) \in Nat /\ Len(Syms) \in Nat /\ Len(keynames) <= Len(Syms)
  BY SymsNumbered DEF NamesKept
<1> QED
  BY <1>1, <1>2

-----------------------------------------------------------------------------
(* Looking a name up.                                                      *)
Unread(text, format, q) ==
  \A p \in DOMAIN keynames : keynames[p] # NoName /\ p < q => Behind(keynames[p], text, format) = {}

LEMMA FirstLookedUp ==
  ASSUME NamesKept, NEW q \in DOMAIN keynames, keynames[q] # NoName,
         NEW text, NEW format, Unread(text, format, q),
         Behind(keynames[q], text, format) = {<<>>}
  PROVE  termkey_lookup_keyname_format(text, format) = {[sym |-> Syms[q], rest |-> <<>>]}
<1> DEFINE found == {p \in DOMAIN keynames :
                       keynames[p] # NoName /\ Behind(keynames[p], text, format) # {}}
<1>1. q \in found
  OBVIOUS
<1>2. found \in SUBSET Nat
  BY NameAt
<1>3. ASSUME NEW p \in found
      PROVE  q <= p
  <2>1. p \in Nat /\ q \in Nat
    BY <1>1, <1>2
  <2>2. ~(p < q)
    BY DEF Unread
  <2> QED
    BY <2>1, <2>2
<1>4. termkey_lookup_keyname_format(text, format) =
        {[sym |-> Syms[Min(found)], rest |-> rest] :
           rest \in IF found = {} THEN {} ELSE Behind(keynames[Min(found)], text, format)}
  BY DEF termkey_lookup_keyname_format
<1> HIDE DEF found
<1>5. Min(found) = q
  BY <1>1, <1>2, <1>3, MinOf
<1>6. found # {}
  BY <1>1
<1>7. termkey_lookup_keyname_format(text, format) = {[sym |-> Syms[q], rest |-> rest] : rest \in {<<>>}}
  BY <1>4, <1>5, <1>6
<1> QED
  BY <1>7

LEMMA NothingLookedUp ==
  ASSUME NEW text, NEW format,
         \A p \in DOMAIN keynames : keynames[p] # NoName => Behind(keynames[p], text, format) = {}
  PROVE  termkey_lookup_keyname_format(text, format) = {}
BY DEF termkey_lookup_keyname_format

(* What is read of a text without modifiers.                               *)
Read(type, code) == {[key |-> [type |-> type, code |-> code, mods |-> {}], rest |-> <<>>]}

Unhidden(text, format) ==
  \A p \in DOMAIN keynames : keynames[p] # NoName => ~Hides(keynames[p], text, format)

LEMMA NumberOwn ==
  ASSUME NEW sym \in SymSet
  PROVE  Number(sym) \in Nat /\ Syms[Number(sym) + 1] = sym
<1>1. Number(sym) \in 0 .. Len(Syms) - 1 /\ Syms[Number(sym) + 1] = sym
  BY NumberTells
<1> QED
  BY <1>1, SymsNumbered

LEMMA SymRead ==
  ASSUME NamesKept, NEW key, NEW format, key.type = "KEYSYM", key.code \in SymSet,
         Legible(key, format)
  PROVE  /\ KeyText(key, format) \in Seq(Tokens) /\ Len(KeyText(key, format)) >= 1
         /\ KeyText(key, format)[1] \in NameTexts
         /\ termkey_lookup_keyname_format(KeyText(key, format), format) =
              {[sym |-> key.code, rest |-> <<>>]}
         /\ PlainKey(KeyText(key, format), format) = Read("KEYSYM", key.code)
<1> DEFINE q == Number(key.code) + 1
           name == keynames[q]
           text == KeyText(key, format)
<1>1. Number(key.code) \in Nat /\ q \in Nat \ {0} /\ Syms[q] = key.code
  BY NumberOwn
<1>2. Number(key.code) < Len(keynames) /\ name # NoName
  BY DEF Legible
<1>3. q \in DOMAIN keynames
  BY <1>1, <1>2 DEF NamesKept
<1>4. name \in WordSeqs
  BY <1>2, <1>3, NameAt
<1>5. termkey_get_keyname(key.code) = name
  BY <1>2 DEF termkey_get_keyname
<1>6. text = IF "LOWERSPACE" \in format THEN CamelToSpaces(name) ELSE name
  BY <1>5 DEF KeyText
<1>7. Behind(name, text, format) = {<<>>}
  <2> HIDE DEF name, text
  <2> QED
    BY <1>4, <1>6, BehindItself
<1>8. text \in Seq(Tokens) /\ Len(text) >= 1 /\ text[1] \in NameTexts
  <2> HIDE DEF name, text
  <2>1. CASE "LOWERSPACE" \in format
    BY <1>4, <1>6, <2>1, SpacedName
  <2>2. CASE "LOWERSPACE" \notin format
    <3>1. text \in Seq(Words) /\ text # <<>>
      BY <1>4, <1>6, <2>2 DEF WordSeqs
    <3>2. Words \subseteq Tokens /\ Words \subseteq NameTexts
      BY TokenKinds, Zenon DEF NameTexts
    <3> QED
      BY <3>1, <3>2
  <2> QED
    BY <2>1, <2>2
<1>9. OwnText(key, format) = text
  BY DEF OwnText, HasCaret
<1>10. \A p \in DOMAIN keynames : keynames[p] # NoName /\ p <= Number(key.code) => ~Hides(keynames[p], text, format)
  BY <1>9 DEF Legible
<1>11. Unread(text, format, q)
  <2> SUFFICES ASSUME NEW p \in DOMAIN keynames, keynames[p] # NoName, p < q
               PROVE  Behind(keynames[p], text, format) = {}
    BY DEF Unread
  <2>1. p \in Nat /\ keynames[p] \in WordSeqs
    BY NameAt
  <2>2. p <= Number(key.code)
    BY <1>1, <2>1
  <2>3. ~Hides(keynames[p], text, format)
    BY <1>10, <2>2
  <2>4. "LOWERSPACE" \in format => text[1] = Lower[name[1]]
    BY <1>4, <1>6, SpacedName
  <2>5. name[1] \in Words /\ keynames[p][1] \in Words
    BY <1>4, <2>1, SpacedName
  <2>6. Lower[name[1]] # Capital[keynames[p][1]]
    BY <2>5, NamesAssumption
  <2> HIDE DEF name, text
  <2> QED
    BY <2>3, <2>4, <2>6, NothingBehind
<1>12. termkey_lookup_keyname_format(text, format) = {[sym |-> Syms[q], rest |-> <<>>]}
  <2> HIDE DEF text, q
  <2> QED
    BY <1>2, <1>3, <1>7, <1>11, FirstLookedUp DEF name
<1>13. termkey_lookup_keyname_format(text, format) = {[sym |-> key.code, rest |-> <<>>]}
  BY <1>1, <1>12
<1>14. PlainKey(text, format) = Read("KEYSYM", key.code)
  <2> HIDE DEF text
  <2> QED
    BY <1>13 DEF PlainKey, Read
<1> QED
  BY <1>8, <1>13, <1>14

LEMMA CharRead ==
  ASSUME NEW code \in DOMAIN Char, NEW format, Unhidden(<<Char[code]>>, format)
  PROVE  PlainKey(<<Char[code]>>, format) = Read("UNICODE", code)
<1> DEFINE text == <<Char[code]>>
<1>1. text = <<text[1]>> /\ text[1] = Char[code] /\ Len(text) = 1 /\ Tail(text) = <<>> /\ text # <<>>
  OBVIOUS
<1>2. \A p \in DOMAIN keynames : keynames[p] # NoName => Behind(keynames[p], text, format) = {}
  <2> TAKE p \in DOMAIN keynames
  <2> HAVE keynames[p] # NoName
  <2>1. ~Hides(keynames[p], text, format)
    BY DEF Unhidden
  <2> HIDE DEF text
  <2> QED
    BY <1>1, <2>1, NothingBehind
<1>3. CodeOf(Char[code]) = code
  <2>1. \A d \in DOMAIN Char : Char[d] = Char[code] => d = code
    BY NamesAssumption
  <2> QED
    BY <2>1 DEF CodeOf
<1> HIDE DEF text
<1>4. termkey_lookup_keyname_format(text, format) = {}
  BY <1>2, NothingLookedUp
<1>5. PlainKey(text, format) =
        {[key |-> [type |-> "UNICODE", code |-> CodeOf(text[1]), mods |-> {}], rest |-> Tail(text)]}
  <2>1. ~(Len(text) > 1)
    BY <1>1
  <2> QED
    BY <1>1, <1>4, <2>1 DEF PlainKey
<1> QED
  BY <1>1, <1>3, <1>5 DEF Read, text

LEMMA FunctionRead ==
  ASSUME NEW n \in 0 .. 63, NEW format, "LOWERSPACE" \notin format,
         Unhidden(<<"F", ToString(n)>>, format)
  PROVE  PlainKey(<<"F", ToString(n)>>, format) = Read("FUNCTION", n)
<1> DEFINE text == <<"F", ToString(n)>>
<1>1. /\ text[1] = "F" /\ text[2] = ToString(n) /\ Len(text) = 2 /\ text # <<>>
      /\ SubSeq(text, 3, Len(text)) = <<>>
  OBVIOUS
<1>2. \A p \in DOMAIN keynames : keynames[p] # NoName => Behind(keynames[p], text, format) = {}
  <2> TAKE p \in DOMAIN keynames
  <2> HAVE keynames[p] # NoName
  <2>1. ~Hides(keynames[p], text, format)
    BY DEF Unhidden
  <2> HIDE DEF text
  <2> QED
    BY <2>1, NothingBehind
<1>3. Value(ToString(n)) = n
  <2>1. \A m \in 0 .. 63 : ToString(m) = ToString(n) => m = n
    BY NamesAssumption
  <2> QED
    BY <2>1 DEF Value
<1>4. ToString(n) \in Digits
  BY DEF Digits
<1> HIDE DEF text
<1>5. termkey_lookup_keyname_format(text, format) = {}
  BY <1>2, NothingLookedUp
<1>6. PlainKey(text, format) =
        {[key |-> [type |-> "FUNCTION", code |-> Value(text[2]), mods |-> {}],
          rest |-> SubSeq(text, 3, Len(text))]}
  BY <1>1, <1>4, <1>5 DEF PlainKey
<1> QED
  BY <1>1, <1>3, <1>6 DEF Read, text

-----------------------------------------------------------------------------
(* Modifiers.                                                              *)
AllMods == {SHIFT, ALT, CTRL}

ModWord(mod, format) ==
  IF mod = SHIFT THEN IF "LONGMOD" \in format THEN "Shift" ELSE "S"
  ELSE IF mod = CTRL THEN IF "LONGMOD" \in format THEN "Ctrl" ELSE "C"
  ELSE IF "ALTISMETA" \in format THEN IF "LONGMOD" \in format THEN "Meta" ELSE "M"
  ELSE IF "LONGMOD" \in format THEN "Alt" ELSE "A"

LEMMA ModWordNamed ==
  ASSUME NEW mod \in AllMods, NEW format
  PROVE  /\ ModWord(mod, format) \in ModWords
         /\ modname(mod, format) =
              IF "LOWERMOD" \in format THEN Lower[ModWord(mod, format)] ELSE ModWord(mod, format)
<1>1. mod = 0 \/ mod = 1 \/ mod = 2
  BY DEF AllMods, SHIFT, ALT, CTRL
<1>2. CASE mod = 0
  BY <1>2 DEF ModWord, ModWords, modname, SHIFT, ALT, CTRL
<1>3. CASE mod = 1
  BY <1>3 DEF ModWord, ModWords, modname, SHIFT, ALT, CTRL
<1>4. CASE mod = 2
  BY <1>4 DEF ModWord, ModWords, modname, SHIFT, ALT, CTRL
<1> QED
  BY <1>1, <1>2, <1>3, <1>4

LEMMA ModWordsDiffer ==
  ASSUME NEW a \in AllMods, NEW b \in AllMods, NEW format, ModWord(a, format) = ModWord(b, format)
  PROVE  a = b
BY DEF AllMods, ModWord, SHIFT, ALT, CTRL

LEMMA ModNames ==
  ASSUME NEW format
  PROVE  /\ \A mod \in AllMods : modname(mod, format) \in ModTexts
         /\ \A a, b \in AllMods : modname(a, format) = modname(b, format) => a = b
<1>1. ASSUME NEW mod \in AllMods
      PROVE  modname(mod, format) \in ModTexts
  <2>1. ModWord(mod, format) \in ModTexts /\ Lower[ModWord(mod, format)] \in ModTexts
    BY ModWordNamed, Zenon DEF ModTexts
  <2> QED
    BY <2>1, ModWordNamed
<1>2. ASSUME NEW a \in AllMods, NEW b \in AllMods, modname(a, format) = modname(b, format)
      PROVE  a = b
  <2>1. \A v, w \in ModWords : Lower[v] = Lower[w] => v = w
    BY Zenon, NamesAssumption
  <2> DEFINE v == ModWord(a, format)
             w == ModWord(b, format)
  <2>2. /\ v \in ModWords /\ w \in ModWords
        /\ modname(a, format) = IF "LOWERMOD" \in format THEN Lower[v] ELSE v
        /\ modname(b, format) = IF "LOWERMOD" \in format THEN Lower[w] ELSE w
    BY ModWordNamed
  <2> HIDE DEF v, w
  <2>3. CASE "LOWERMOD" \in format
    <3>1. Lower[v] = Lower[w]
      BY <1>2, <2>2, <2>3
    <3>2. v = w
      BY <2>1, <2>2, <3>1, Zenon
    <3> QED
      BY <3>2, ModWordsDiffer DEF v, w
  <2>4. CASE "LOWERMOD" \notin format
    <3>1. v = w
      BY <1>2, <2>2, <2>4
    <3> QED
      BY <3>1, ModWordsDiffer DEF v, w
  <2> QED
    BY <2>3, <2>4
<1> QED
  BY <1>1, <1>2, Zenon

ModPrefix(pre, m, mods, format) ==
  /\ m \in Nat /\ pre \in Seq(Tokens) /\ Len(pre) = 2 * m
  /\ \A k \in 1 .. m : pre[2 * k] = Sep(format) /\ \E mod \in mods : pre[2 * k - 1] = modname(mod, format)
  /\ \A mod \in mods : \E k \in 1 .. m : pre[2 * k - 1] = modname(mod, format)

LEMMA ModWritten ==
  ASSUME NEW pre, NEW m, NEW mods, NEW format, ModPrefix(pre, m, mods, format),
         NEW mod \in AllMods
  PROVE  ModPrefix(pre \o <<modname(mod, format), Sep(format)>>, m + 1, mods \cup {mod}, format)
<1> DEFINE name == modname(mod, format)
           add == <<name, Sep(format)>>
           new == pre \o add
<1>1. name \in Tokens /\ Sep(format) \in Tokens
  <2>1. name \in ModTexts
    BY ModNames
  <2>2. Sep(format) = " " \/ Sep(format) = "-"
    BY DEF Sep
  <2>3. Sep(format) \in Tokens
    BY <2>2, TokenKinds, Zenon
  <2> QED
    BY <2>1, <2>3, TokenKinds, Zenon
<1> HIDE DEF name
<1>2. add \in Seq(Tokens) /\ Len(add) = 2 /\ add[1] = name /\ add[2] = Sep(format)
  BY <1>1
<1>3. m \in Nat /\ pre \in Seq(Tokens) /\ Len(pre) = 2 * m
  BY DEF ModPrefix
<1> HIDE DEF add
<1>4. Joined(pre, add)
  BY <1>2, <1>3, Joining
<1>5. /\ new \in Seq(Tokens) /\ Len(new) = 2 * m + 2
      /\ \A k \in 1 .. 2 * m : new[k] = pre[k]
      /\ new[2 * m + 1] = name /\ new[2 * m + 2] = Sep(format)
  <2>1. /\ new \in Seq(Tokens) /\ Len(new) = Len(pre) + Len(add)
        /\ \A k \in 1 .. Len(pre) : new[k] = pre[k]
        /\ \A k \in 1 .. Len(add) : new[Len(pre) + k] = add[k]
    BY ONLY <1>4 DEF Joined, new
  <2> HIDE DEF new
  <2>2. Len(new) = 2 * m + 2
    BY ONLY <2>1, <1>2, <1>3
  <2>3. 1 \in 1 .. Len(add) /\ 2 \in 1 .. Len(add)
    BY ONLY <1>2
  <2>4. new[2 * m + 1] = name /\ new[2 * m + 2] = Sep(format)
    BY ONLY <2>1, <2>3, <1>2, <1>3
  <2> QED
    BY ONLY <2>1, <2>2, <2>4, <1>3
<1> HIDE DEF new
<1>6. \A k \in 1 .. m : new[2 * k] = pre[2 * k] /\ new[2 * k - 1] = pre[2 * k - 1]
  <2> TAKE k \in 1 .. m
  <2>1. 2 * k \in 1 .. 2 * m /\ 2 * k - 1 \in 1 .. 2 * m
    BY <1>3
  <2> QED
    BY <1>5, <2>1
<1>7. new[2 * (m + 1)] = Sep(format) /\ new[2 * (m + 1) - 1] = name
  <2>1. 2 * (m + 1) = 2 * m + 2 /\ 2 * (m + 1) - 1 = 2 * m + 1
    BY <1>3
  <2> QED
    BY <1>5, <2>1
<1>8. ASSUME NEW k \in 1 .. m + 1
      PROVE  new[2 * k] = Sep(format) /\ \E d \in mods \cup {mod} : new[2 * k - 1] = modname(d, format)
  <2>1. CASE k \in 1 .. m
    <3>1. pre[2 * k] = Sep(format) /\ \E d \in mods : pre[2 * k - 1] = modname(d, format)
      BY <2>1 DEF ModPrefix
    <3> QED
      BY <1>6, <2>1, <3>1
  <2>2. CASE k = m + 1
    BY <1>7, <2>2 DEF name
  <2> QED
    BY <1>3, <2>1, <2>2
<1>9. ASSUME NEW d \in mods \cup {mod}
      PROVE  \E k \in 1 .. m + 1 : new[2 * k - 1] = modname(d, format)
  <2>1. CASE d \in mods
    <3>1. PICK k \in 1 .. m : pre[2 * k - 1] = modname(d, format)
      BY <2>1 DEF ModPrefix
    <3>2. k \in 1 .. m + 1
      BY <1>3
    <3> QED
      BY <1>6, <3>1, <3>2
  <2>2. CASE d = mod
    <3>1. m + 1 \in 1 .. m + 1
      BY <1>3
    <3> QED
      BY <1>7, <2>2, <3>1 DEF name
  <2> QED
    BY <2>1, <2>2
<1>10. Len(new) = 2 * (m + 1) /\ m + 1 \in Nat
  BY <1>3, <1>5
<1> QED
  BY <1>5, <1>8, <1>9, <1>10 DEF ModPrefix, new, add, name

LEMMA ModsWritten ==
  ASSUME NEW key, NEW format, key.mods \subseteq AllMods
  PROVE  \E m : ModPrefix(ModText(key, ALT, format) \o ModText(key, CTRL, format)
                            \o ModText(key, SHIFT, format), m, key.mods, format)
<1>1. ASSUME NEW pre, NEW m, NEW mods, ModPrefix(pre, m, mods, format), NEW mod \in AllMods
      PROVE  \E n : ModPrefix(pre \o ModText(key, mod, format), n, mods \cup (key.mods \cap {mod}), format)
  <2>1. CASE mod \in key.mods
    <3>1. ModText(key, mod, format) = <<modname(mod, format), Sep(format)>>
      BY <2>1 DEF ModText
    <3>2. mods \cup (key.mods \cap {mod}) = mods \cup {mod}
      BY <2>1
    <3>3. ModPrefix(pre \o <<modname(mod, format), Sep(format)>>, m + 1, mods \cup {mod}, format)
      BY <1>1, ModWritten
    <3> QED
      BY <3>1, <3>2, <3>3
  <2>2. CASE mod \notin key.mods
    <3>1. ModText(key, mod, format) = <<>>
      BY <2>2 DEF ModText
    <3>2. mods \cup (key.mods \cap {mod}) = mods
      BY <2>2
    <3>3. pre \o <<>> = pre
      BY <1>1 DEF ModPrefix
    <3> QED
      BY <1>1, <3>1, <3>2, <3>3
  <2> QED
    BY <2>1, <2>2
<1>2. ModPrefix(<<>>, 0, {}, format)
  <2>1. <<>> \in Seq(Tokens) /\ Len(<<>>) = 2 * 0
    OBVIOUS
  <2> QED
    BY <2>1 DEF ModPrefix
<1>3. SHIFT \in AllMods /\ ALT \in AllMods /\ CTRL \in AllMods
  BY DEF AllMods
<1> DEFINE a == ModText(key, ALT, format)
           c == ModText(key, CTRL, format)
           s == ModText(key, SHIFT, format)
<1>4. PICK n0 : ModPrefix(<<>> \o a, n0, {} \cup (key.mods \cap {ALT}), format)
  BY <1>1, <1>2, <1>3
<1>5. <<>> \o a = a
  <2>1. CASE ALT \in key.mods
    <3>1. a = <<modname(ALT, format), Sep(format)>>
      BY <2>1 DEF ModText
    <3>2. \A x, y : <<>> \o <<x, y>> = <<x, y>>
      <4> TAKE x, y
      <4>1. <<x, y>> \in Seq({x, y})
        OBVIOUS
      <4> QED
        BY <4>1
    <3> QED
      BY <3>1, <3>2
  <2>2. CASE ALT \notin key.mods
    BY <2>2 DEF ModText
  <2> QED
    BY <2>1, <2>2
<1>6. ModPrefix(a, n0, {} \cup (key.mods \cap {ALT}), format)
  BY <1>4, <1>5
<1> HIDE DEF a
<1>7. PICK j : ModPrefix(a \o c, j, ({} \cup (key.mods \cap {ALT})) \cup (key.mods \cap {CTRL}), format)
  BY <1>1, <1>3, <1>6
<1> HIDE DEF c
<1>8. PICK k : ModPrefix((a \o c) \o s, k,
                 (({} \cup (key.mods \cap {ALT})) \cup (key.mods \cap {CTRL})) \cup (key.mods \cap {SHIFT}), format)
  BY <1>1, <1>3, <1>7
<1>9. (({} \cup (key.mods \cap {ALT})) \cup (key.mods \cap {CTRL})) \cup (key.mods \cap {SHIFT}) = key.mods
  BY DEF AllMods
<1> QED
  BY <1>8, <1>9 DEF a, c

(* The modifiers that were written are those that are read, up to a text   *)
(* that is of one token or does not begin with a modifier.                 *)
ModsRead(str, m, mods, body, format) ==
  /\ ModsBefore(str, format) = m
  /\ {mod \in AllMods : \E k \in 1 .. m : str[2 * k - 1] = modname(mod, format)} = mods
  /\ SubSeq(str, 2 * m + 1, Len(str)) = body

LEMMA ReadingMods ==
  ASSUME NEW pre, NEW m, NEW mods \in SUBSET AllMods, NEW format, ModPrefix(pre, m, mods, format),
         NEW body \in Seq(Tokens), Len(body) >= 1, Len(body) > 1 => body[1] \notin ModTexts
  PROVE  ModsRead(pre \o body, m, mods, body, format)
<1> DEFINE str == pre \o body
<1>1. m \in Nat /\ pre \in Seq(Tokens) /\ Len(pre) = 2 * m /\ Len(body) \in Nat
  BY DEF ModPrefix
<1>2. Joined(pre, body)
  BY <1>1, Joining
<1>3. /\ str \in Seq(Tokens) /\ Len(str) = 2 * m + Len(body)
      /\ \A k \in 1 .. 2 * m : str[k] = pre[k]
      /\ str[2 * m + 1] = body[1]
      /\ SubSeq(str, 2 * m + 1, Len(str)) = body
  BY <1>1, <1>2 DEF Joined
<1> HIDE DEF str
<1>4. \A k \in 1 .. m : str[2 * k] = pre[2 * k] /\ str[2 * k - 1] = pre[2 * k - 1]
  <2> TAKE k \in 1 .. m
  <2>1. 2 * k \in 1 .. 2 * m /\ 2 * k - 1 \in 1 .. 2 * m
    BY <1>1
  <2> QED
    BY <1>3, <2>1
<1> DEFINE some == {modname(mod, format) : mod \in AllMods}
           all(n) == \A k \in 1 .. n : str[2 * k - 1] \in some /\ str[2 * k] = Sep(format)
           half == Len(str) \div 2
           T == {n \in 0 .. half : all(n)}
<1>5. ModsBefore(str, format) = Max(T)
  BY DEF ModsBefore, AllMods
<1>h. half \in Nat /\ 2 * half <= Len(str) /\ m <= half
  <2>1. \A l, k \in Nat : l >= 2 * k => l \div 2 \in Nat /\ 2 * (l \div 2) <= l /\ k <= l \div 2
    OBVIOUS
  <2>2. Len(str) \in Nat /\ Len(str) >= 2 * m
    BY <1>1, <1>3
  <2> HIDE DEF half
  <2> QED
    BY <1>1, <2>1, <2>2 DEF half
<1> HIDE DEF half
<1>6. m \in T
  <2>1. m \in 0 .. half
    BY <1>1, <1>h
  <2>2. ASSUME NEW k \in 1 .. m
        PROVE  str[2 * k - 1] \in some /\ str[2 * k] = Sep(format)
    <3>1. /\ pre[2 * k] = Sep(format)
          /\ \E mod \in mods : pre[2 * k - 1] = modname(mod, format)
      BY DEF ModPrefix
    <3> QED
      BY <1>4, <3>1
  <2> QED
    BY <2>1, <2>2
<1>7. ASSUME NEW n \in T
      PROVE  n <= m
  <2> SUFFICES ASSUME n > m PROVE FALSE
    BY <1>1
  <2>1. n \in Nat /\ n <= half /\ all(n)
    <3> HIDE DEF all
    <3> QED
      BY <1>h
  <2>2. m + 1 \in 1 .. n
    BY <1>1, <2>1
  <2>3. 2 * (m + 1) - 1 = 2 * m + 1
    BY <1>1
  <2>4. str[2 * m + 1] \in some
    BY <2>1, <2>2, <2>3
  <2>5. body[1] \in ModTexts
    BY <1>3, <2>4, ModNames
  <2>6. Len(body) > 1
    BY <1>1, <1>3, <1>h, <2>1
  <2> QED
    BY <2>5, <2>6
<1>8. T \in SUBSET Nat
  <2> HIDE DEF all
  <2> QED
    BY <1>h
<1> HIDE DEF T
<1>9. ModsBefore(str, format) = m
  BY <1>5, <1>6, <1>7, <1>8, MaxOf
<1>10. {mod \in AllMods : \E k \in 1 .. m : str[2 * k - 1] = modname(mod, format)} = mods
  <2>1. ASSUME NEW mod \in AllMods, NEW k \in 1 .. m, str[2 * k - 1] = modname(mod, format)
        PROVE  mod \in mods
    <3>1. pre[2 * k - 1] = modname(mod, format)
      BY <1>4, <2>1
    <3>2. PICK d \in mods : pre[2 * k - 1] = modname(d, format)
      BY DEF ModPrefix
    <3>3. d = mod
      BY <3>1, <3>2, ModNames
    <3> QED
      BY <3>3
  <2>2. ASSUME NEW mod \in mods
        PROVE  \E k \in 1 .. m : str[2 * k - 1] = modname(mod, format)
    <3>1. PICK k \in 1 .. m : pre[2 * k - 1] = modname(mod, format)
      BY DEF ModPrefix
    <3> QED
      BY <1>4, <3>1
  <2> QED
    BY <2>1, <2>2
<1> QED
  BY <1>3, <1>9, <1>10 DEF ModsRead, str

-----------------------------------------------------------------------------
(* Keys that are written and read.                                         *)
LEMMA TextKey ==
  ASSUME NEW key \in TextKeys
  PROVE  /\ key = [type |-> key.type, code |-> key.code, mods |-> key.mods]
         /\ key.mods \subseteq AllMods
         /\ \/ key.type = "UNICODE" /\ key.code \in DOMAIN Char
            \/ key.type = "KEYSYM" /\ key.code \in SymSet
            \/ key.type = "FUNCTION" /\ key.code \in 0 .. 63
         /\ key.type = "UNICODE" /\ key.code \in 97 .. 122 => key.code - 32 \in DOMAIN Char
         /\ Event(key) /\ Expressible(key)
<1>1. /\ key = [type |-> key.type, code |-> key.code, mods |-> key.mods]
      /\ key.mods \subseteq AllMods
      /\ \/ key.type = "UNICODE" /\ key.code \in DOMAIN Char
         \/ key.type = "KEYSYM" /\ key.code \in SymSet
         \/ key.type = "FUNCTION" /\ key.code \in 0 .. 63
      /\ key.type = "UNICODE" /\ key.code \in 97 .. 122 => key.code - 32 \in DOMAIN Char
  BY TextKeysAssumption DEF AllMods
<1>2. DOMAIN Char \subseteq Nat
  BY NamesAssumption
<1>3. Event(key)
  BY <1>1, <1>2 DEF Event, AllMods
<1>4. Expressible(key)
  BY <1>1 DEF Expressible
<1> QED
  BY <1>1, <1>3, <1>4

LEMMA LegibleUnhidden ==
  ASSUME NEW key, NEW format, Legible(key, format), key.type # "KEYSYM"
  PROVE  Unhidden(OwnText(key, format), format)
BY DEF Legible, Unhidden

(* What is written behind the modifiers is read as the key.                *)
BodyRead(key, body, format) ==
  /\ body \in Seq(Tokens) /\ Len(body) >= 1
  /\ Len(body) > 1 => body[1] \notin ModTexts /\ body[1] # "^"
  /\ PlainKey(body, format) = Read(key.type, key.code)

LEMMA ReadingBody ==
  ASSUME NamesKept, NEW key \in TextKeys, NEW format, Legible(key, format), ~HasCaret(key, format)
  PROVE  BodyRead(key, KeyText(key, format), format)
<1> DEFINE body == KeyText(key, format)
<1>0. OwnText(key, format) = body
  BY DEF OwnText
<1>1. CASE key.type = "UNICODE" /\ key.code \in DOMAIN Char
  <2>1. body = <<Char[key.code]>>
    BY <1>1 DEF KeyText
  <2>2. Unhidden(body, format)
    BY <1>0, <1>1, LegibleUnhidden
  <2>3. PlainKey(body, format) = Read("UNICODE", key.code)
    BY <1>1, <2>1, <2>2, CharRead
  <2>4. Char[key.code] \in Tokens
    BY <1>1, TokenKinds, Zenon
  <2> HIDE DEF body
  <2>5. body \in Seq(Tokens) /\ Len(body) = 1
    BY <2>1, <2>4
  <2> QED
    BY <1>1, <2>3, <2>5 DEF BodyRead, body
<1>2. CASE key.type = "KEYSYM" /\ key.code \in SymSet
  <2>1. /\ body \in Seq(Tokens) /\ Len(body) >= 1 /\ body[1] \in NameTexts
        /\ PlainKey(body, format) = Read("KEYSYM", key.code)
    BY <1>2, SymRead
  <2>2. (NameTexts \cup {"F", "^"}) \cap ModTexts = {} /\ "^" \notin NameTexts
    BY Zenon, NamesAssumption
  <2>3. \A x \in NameTexts : x \notin ModTexts /\ x # "^"
    BY <2>2
  <2> HIDE DEF body
  <2> QED
    BY <1>2, <2>1, <2>3 DEF BodyRead, body
<1>3. CASE key.type = "FUNCTION" /\ key.code \in 0 .. 63
  <2>0. "LOWERSPACE" \notin format
    BY <1>3 DEF Legible
  <2>1. body = <<"F", ToString(key.code)>>
    BY <1>3, <2>0 DEF KeyText
  <2>2. Unhidden(body, format)
    BY <1>0, <1>3, LegibleUnhidden
  <2>3. PlainKey(body, format) = Read("FUNCTION", key.code)
    BY <1>3, <2>0, <2>1, <2>2, FunctionRead
  <2>4. ToString(key.code) \in Digits
    BY <1>3, Zenon DEF Digits
  <2>5. "F" \in Tokens /\ ToString(key.code) \in Tokens
    BY <2>4, TokenKinds, Zenon
  <2>6. (NameTexts \cup {"F", "^"}) \cap ModTexts = {}
    BY Zenon, NamesAssumption
  <2>7. "F" \notin ModTexts
    BY <2>6, Zenon
  <2>8. "F" # "^"
    OBVIOUS
  <2> HIDE DEF body
  <2>9. body \in Seq(Tokens) /\ Len(body) = 2 /\ body[1] = "F"
    BY <2>1, <2>5
  <2> QED
    BY <1>3, <2>3, <2>7, <2>8, <2>9 DEF BodyRead, body
<1> QED
  BY <1>1, <1>2, <1>3, TextKey

IsKey(key) == key = [type |-> key.type, code |-> key.code, mods |-> key.mods]

KeyRead(str, key, format) ==
  KeyWithMods(str, format) = {[key |-> Canonical(key), rest |-> <<>>]}

LEMMA ReadingKey ==
  ASSUME NEW key, NEW pre, NEW m, NEW format, NEW body, IsKey(key),
         ModsRead(pre \o body, m, key.mods, body, format),
         PlainKey(body, format) = Read(key.type, key.code)
  PROVE  KeyRead(pre \o body, key, format)
<1> DEFINE str == pre \o body
           p == [key |-> [type |-> key.type, code |-> key.code, mods |-> {}], rest |-> <<>>]
<1>1. /\ ModsBefore(str, format) = m
      /\ {mod \in {SHIFT, ALT, CTRL} : \E k \in 1 .. m : str[2 * k - 1] = modname(mod, format)} = key.mods
      /\ SubSeq(str, 2 * m + 1, Len(str)) = body
  BY DEF ModsRead, AllMods
<1> HIDE DEF str
<1>2. KeyWithMods(str, format) =
        {[key |-> Canonical([q.key EXCEPT !.mods = key.mods]), rest |-> q.rest] : q \in Read(key.type, key.code)}
  BY <1>1 DEF KeyWithMods
<1>3. Read(key.type, key.code) = {p}
  BY DEF Read
<1>4. [p.key EXCEPT !.mods = key.mods] = key /\ p.rest = <<>>
  <2>1. \A t, c, d : [[type |-> t, code |-> c, mods |-> {}] EXCEPT !.mods = d] = [type |-> t, code |-> c, mods |-> d]
    OBVIOUS
  <2>2. p.key = [type |-> key.type, code |-> key.code, mods |-> {}] /\ p.rest = <<>>
    OBVIOUS
  <2> HIDE DEF p
  <2> QED
    BY <2>1, <2>2 DEF IsKey
<1> HIDE DEF p
<1>5. KeyWithMods(str, format) = {[key |-> Canonical([p.key EXCEPT !.mods = key.mods]), rest |-> p.rest]}
  BY <1>2, <1>3
<1> QED
  BY <1>4, <1>5 DEF str, KeyRead

(* A text that does not begin with a caret.                                *)
LEMMA ReadingText ==
  ASSUME NamesKept, NEW key \in TextKeys, NEW format, Legible(key, format),
         ~HasCaret(key, format), ~wrapbracket(key, format)
  PROVE  termkey_strpkey(termkey_strfkey(key, format), format) =
           {[key |-> Canonical(key), rest |-> <<>>]}
<1> DEFINE body == KeyText(key, format)
           pre == ModText(key, ALT, format) \o ModText(key, CTRL, format) \o ModText(key, SHIFT, format)
           str == pre \o body
<1>1. termkey_strfkey(key, format) = str
  BY DEF termkey_strfkey
<1>2. IsKey(key) /\ key.mods \subseteq AllMods
  BY TextKey DEF IsKey
<1>3. BodyRead(key, body, format)
  BY ReadingBody
<1>4. PICK m : ModPrefix(pre, m, key.mods, format)
  BY <1>2, ModsWritten
<1> HIDE DEF body, pre
<1>5. /\ body \in Seq(Tokens) /\ Len(body) >= 1
      /\ Len(body) > 1 => body[1] \notin ModTexts /\ body[1] # "^"
      /\ PlainKey(body, format) = Read(key.type, key.code)
  BY <1>3 DEF BodyRead
<1>6. ModsRead(str, m, key.mods, body, format)
  BY <1>2, <1>4, <1>5, ReadingMods
<1>7. KeyWithMods(str, format) = {[key |-> Canonical(key), rest |-> <<>>]}
  <2>1. PlainKey(body, format) = Read(key.type, key.code)
    BY <1>5, Zenon
  <2>2. KeyRead(str, key, format)
    BY ONLY <1>2, <1>6, <2>1, ReadingKey, Zenon
  <2> QED
    BY <2>2 DEF KeyRead
<1>8. ~(Len(str) > 1 /\ str[1] = "^")
  <2>1. m \in Nat /\ pre \in Seq(Tokens) /\ Len(pre) = 2 * m
    BY <1>4 DEF ModPrefix
  <2>2. Joined(pre, body)
    BY <1>5, <2>1, Joining
  <2>3. CASE m = 0
    <3>1. Len(pre) = 0 /\ 1 \in 1 .. Len(body) /\ Len(pre) + 1 = 1 /\ Len(body) \in Nat
      BY <1>5, <2>1, <2>3
    <3>2. Len(str) = Len(body)
      BY <2>2, <3>1 DEF Joined
    <3>3. str[Len(pre) + 1] = body[1]
      BY <2>2, <3>1 DEF Joined
    <3> QED
      BY <1>5, <3>1, <3>2, <3>3
  <2>4. CASE m # 0
    <3>1. 1 \in 1 .. m /\ 1 \in 1 .. Len(pre) /\ 2 * 1 - 1 = 1
      BY <2>1, <2>4
    <3>2. PICK mod \in key.mods : pre[2 * 1 - 1] = modname(mod, format)
      BY <1>4, <3>1 DEF ModPrefix
    <3>3. str[1] = pre[1]
      BY <2>2, <3>1 DEF Joined
    <3>4. modname(mod, format) \in ModTexts
      BY <1>2, <3>2, ModNames
    <3>5. (NameTexts \cup {"F", "^"}) \cap ModTexts = {}
      BY Zenon, NamesAssumption
    <3>6. "^" \notin ModTexts
      BY <3>5, Zenon
    <3> QED
      BY <3>1, <3>2, <3>3, <3>4, <3>6
  <2> QED
    BY <2>3, <2>4
<1> HIDE DEF str
<1>9. termkey_strpkey(str, format) = KeyWithMods(str, format)
  BY <1>8 DEF termkey_strpkey
<1> QED
  BY <1>1, <1>7, <1>9

(* A text of a caret and a character.                                      *)
LEMMA CaretCode64 ==
  ASSUME NEW code \in (97 .. 122) \cup {64} \cup (91 .. 95)
  PROVE  LET c == IF code >= 97 THEN code - 32 ELSE code
         IN  c \in 64 .. 95 /\ CaretCode(c) = code /\ c # 32
BY DEF CaretCode

LEMMA OneAndOne ==
  ASSUME NEW x \in Tokens, NEW y \in Tokens
  PROVE  <<x>> \o <<y>> = <<x, y>>
<1> DEFINE s == <<x>>
           t == <<y>>
           u == s \o t
           w == <<x, y>>
<1>1. s \in Seq(Tokens) /\ t \in Seq(Tokens) /\ Len(s) = 1 /\ Len(t) = 1 /\ s[1] = x /\ t[1] = y
  OBVIOUS
<1>2. w \in Seq(Tokens) /\ Len(w) = 2 /\ w[1] = x /\ w[2] = y
  OBVIOUS
<1> HIDE DEF s, t, w
<1>3. Joined(s, t)
  BY <1>1, Joining
<1>4. u \in Seq(Tokens) /\ Len(u) = 2
  BY <1>1, <1>3 DEF Joined
<1>5. u[1] = x /\ u[1 + 1] = y
  BY <1>1, <1>3 DEF Joined
<1> HIDE DEF u
<1>6. \A n \in 1 .. 2 : u[n] = w[n]
  BY <1>2, <1>5
<1>7. u = w
  BY <1>2, <1>4, <1>6, SeqEqual
<1> QED
  BY <1>7 DEF s, t, u, w

LEMMA ReadingCaret ==
  ASSUME NamesKept, NEW key \in TextKeys, NEW format, Legible(key, format),
         HasCaret(key, format), ~wrapbracket(key, format)
  PROVE  termkey_strpkey(termkey_strfkey(key, format), format) = {[key |-> key, rest |-> <<>>]}
<1> DEFINE c == IF key.code >= 97 THEN key.code - 32 ELSE key.code
           body == <<Char[c]>>
           str == <<"^", Char[c]>>
           plain == [type |-> "UNICODE", code |-> c, mods |-> {}]
<1>1. /\ "CARETCTRL" \in format /\ key.type = "UNICODE" /\ key.mods = {CTRL}
      /\ key.code \in (97 .. 122) \cup {64} \cup (91 .. 95)
  BY DEF HasCaret
<1>2. c \in 64 .. 95 /\ CaretCode(c) = key.code /\ c # 32
  BY <1>1, CaretCode64
<1>3. c \in DOMAIN Char
  <2>1. key.code \in DOMAIN Char /\ (key.code \in 97 .. 122 => key.code - 32 \in DOMAIN Char)
    BY <1>1, TextKey
  <2>2. key.code >= 97 => key.code \in 97 .. 122
    BY <1>1
  <2> QED
    BY <2>1, <2>2
<1>4. CaretText(key) = body /\ OwnText(key, format) = body
  BY DEF OwnText, CaretText
<1> HIDE DEF c
<1>5. termkey_strfkey(key, format) = str
  <2>1. termkey_strfkey(key, format) = <<"^">> \o body
    BY <1>4 DEF termkey_strfkey
  <2>2. Char[c] \in Tokens /\ "^" \in Tokens
    BY <1>3, TokenKinds, Zenon
  <2> QED
    BY <2>1, <2>2, OneAndOne
<1>6. PlainKey(body, format) = Read("UNICODE", c)
  <2>1. Unhidden(body, format)
    BY <1>1, <1>4, LegibleUnhidden
  <2> QED
    BY <1>3, <2>1, CharRead
<1>7. KeyWithMods(body, format) = {[key |-> Canonical(plain), rest |-> <<>>]}
  <2>1. ModPrefix(<<>>, 0, {}, format)
    <3>1. <<>> \in Seq(Tokens) /\ Len(<<>>) = 2 * 0
      OBVIOUS
    <3> QED
      BY <3>1 DEF ModPrefix
  <2>2. Char[c] \in Tokens
    BY <1>3, TokenKinds, Zenon
  <2>3. body \in Seq(Tokens) /\ Len(body) = 1
    BY <2>2
  <2>4. <<>> \o body = body
    BY <2>3
  <2>5. ModsRead(<<>> \o body, 0, {}, body, format)
    <3>1. {} \in SUBSET AllMods /\ Len(body) >= 1 /\ ~(Len(body) > 1)
      BY <2>3
    <3> HIDE DEF body
    <3> QED
      BY <2>1, <2>3, <3>1, ReadingMods
  <2>6. plain.type = "UNICODE" /\ plain.code = c /\ plain.mods = {}
    OBVIOUS
  <2>7. IsKey(plain)
    BY <2>6 DEF IsKey
  <2> HIDE DEF plain, body
  <2>8. KeyWithMods(<<>> \o body, format) = {[key |-> Canonical(plain), rest |-> <<>>]}
    <3>1. PlainKey(body, format) = Read(plain.type, plain.code)
      BY <1>6, <2>6
    <3>2. ModsRead(<<>> \o body, 0, plain.mods, body, format)
      BY <2>5, <2>6
    <3>3. KeyRead(<<>> \o body, plain, format)
      BY ONLY <2>7, <3>1, <3>2, ReadingKey, Zenon
    <3> QED
      BY <3>3 DEF KeyRead
  <2> QED
    BY <2>4, <2>8
<1>8. Canonical(plain) = plain
  BY <1>2 DEF Canonical, D!termkey_canonicalise, D!Sym, D!Unicode
<1>9. Tail(str) = body /\ Len(str) = 2 /\ str[1] = "^"
  OBVIOUS
<1> DEFINE p == [key |-> plain, rest |-> <<>>]
<1>10. termkey_strpkey(str, format) = KeyBehindCaret(body, format)
  <2> HIDE DEF str, body, plain
  <2>1. Len(str) > 1
    BY <1>9
  <2> QED
    BY <1>1, <1>9, <2>1 DEF termkey_strpkey
<1>11. p.key = plain /\ p.rest = <<>> /\ plain.type = "UNICODE" /\ plain.mods = {} /\ plain.code = c
  OBVIOUS
<1>12. [type |-> "UNICODE", code |-> CaretCode(plain.code), mods |-> {CTRL}] = key
  <2>1. key = [type |-> "UNICODE", code |-> key.code, mods |-> {CTRL}]
    BY <1>1, TextKey
  <2> HIDE DEF plain
  <2> QED
    BY <1>2, <1>11, <2>1
<1>13. KeyWithMods(body, format) = {p}
  BY <1>7, <1>8
<1> HIDE DEF p, plain, str, body
<1>14. {q \in KeyWithMods(body, format) :
          q.key.type = "UNICODE" /\ q.key.mods = {} /\ q.key.code \in 64 .. 95} = {p}
  BY <1>2, <1>11, <1>13
<1>15. KeyBehindCaret(body, format) =
         {[key |-> [type |-> "UNICODE", code |-> CaretCode(p.key.code), mods |-> {CTRL}], rest |-> p.rest]}
  BY <1>14 DEF KeyBehindCaret
<1> QED
  BY <1>5, <1>10, <1>11, <1>12, <1>15

LEMMA CanonicalTwice ==
  ASSUME NEW key
  PROVE  Canonical(Canonical(key)) = Canonical(key)
BY DEF Canonical, D!termkey_canonicalise, D!Sym, D!Unicode

LEMMA NoDifference ==
  ASSUME NEW a, NEW key \in TextKeys, Canonical(a) = Canonical(key)
  PROVE  termkey_keycmp(a, key) = 0
<1> DEFINE c == Canonical(key)
<1>1. Event(c) /\ Expressible(c)
  BY TextKey, CanonicalEvent
<1>2. termkey_keycmp(a, key) = CompareCanonical(c, c)
  BY DEF termkey_keycmp, CompareCanonical
<1> HIDE DEF c
<1>3. Compared(c, c)
  BY <1>1, CanonicalCompared
<1> QED
  BY <1>2, <1>3 DEF Compared

(* What termkey_strfkey writes of a legible key termkey_strpkey reads as   *)
(* the same key, to the end of the text and whatever the format, and the   *)
(* names and numbers of symbolic keys are each other's inverse: for every  *)
(* table of names, alphabet and set of keys, after any registrations.      *)
THEOREM TextsRoundTrip == Spec => []RoundTrip
<1>1. NamesKept => RoundTrip
  <2> SUFFICES ASSUME NamesKept, NEW key \in TextKeys, NEW format \in Formats, Legible(key, format)
               PROVE  /\ ~wrapbracket(key, format) =>
                           \E read \in termkey_strpkey(termkey_strfkey(key, format), format) :
                             read.rest = <<>> /\ termkey_keycmp(read.key, key) = 0
                      /\ key.type = "KEYSYM" /\ format = {} =>
                           termkey_keyname2sym(termkey_get_keyname(key.code)) = key.code
    BY DEF RoundTrip
  <2>1. ASSUME ~wrapbracket(key, format)
        PROVE  \E read \in termkey_strpkey(termkey_strfkey(key, format), format) :
                 read.rest = <<>> /\ termkey_keycmp(read.key, key) = 0
    <3>1. PICK a : /\ termkey_strpkey(termkey_strfkey(key, format), format) = {[key |-> a, rest |-> <<>>]}
                   /\ Canonical(a) = Canonical(key)
      <4>1. CASE HasCaret(key, format)
        BY <2>1, <4>1, ReadingCaret
      <4>2. CASE ~HasCaret(key, format)
        BY <2>1, <4>2, ReadingText, CanonicalTwice
      <4> QED
        BY <4>1, <4>2
    <3>2. termkey_keycmp(a, key) = 0
      BY <3>1, NoDifference
    <3> DEFINE read == [key |-> a, rest |-> <<>>]
    <3>3. read.key = a /\ read.rest = <<>>
      OBVIOUS
    <3>4. read \in termkey_strpkey(termkey_strfkey(key, format), format)
      BY <3>1
    <3> HIDE DEF read
    <3> QED
      BY <3>2, <3>3, <3>4
  <2>2. ASSUME key.type = "KEYSYM", format = {}
        PROVE  termkey_keyname2sym(termkey_get_keyname(key.code)) = key.code
    <3> DEFINE name == termkey_get_keyname(key.code)
               f == [sym |-> key.code, rest |-> <<>>]
    <3>1. key.code \in SymSet
      BY <2>2, TextKey
    <3>2. "LOWERSPACE" \notin format
      BY <2>2
    <3>3. KeyText(key, format) = name
      BY <2>2, <3>2 DEF KeyText
    <3>4. termkey_lookup_keyname_format(name, {}) = {f}
      BY <2>2, <3>1, <3>3, SymRead
    <3>5. f.sym = key.code /\ f.rest = <<>>
      OBVIOUS
    <3> HIDE DEF f, name
    <3>6. {g \in termkey_lookup_keyname_format(name, {}) : g.rest = <<>>} = {f}
      BY <3>4, <3>5
    <3>7. termkey_keyname2sym(name) = (CHOOSE g \in {f} : TRUE).sym
      BY <3>6 DEF termkey_keyname2sym
    <3>8. (CHOOSE g \in {f} : TRUE) = f
      OBVIOUS
    <3> QED
      BY <3>5, <3>7, <3>8 DEF name
  <2> QED
    BY <2>1, <2>2
<1> QED
  BY <1>1, NamesAlways, PTL
=============================================================================
