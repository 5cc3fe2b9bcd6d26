-------------------------------- MODULE Rope --------------------------------
(***************************************************************************)
(* librope (src/rope.c): a rope is a skip list of nodes holding at most    *)
(* ROPE_NODE_STR_SIZE bytes of UTF-8 each.  A node of height h is on the   *)
(* lists of levels 1 .. h (0 .. h - 1 in the code); on each it holds the   *)
(* next node and how many characters lie between the two.  The head is a   *)
(* node like the others, inside the rope's own block: it has its name.     *)
(*                                                                         *)
(* The heap is explicit: a pointer is the name of a block, and a node that *)
(* is leaked, freed twice or shared by two ropes shows.  A node's bytes    *)
(* are kept as the characters they encode; num_bytes is the field of the   *)
(* code, and Bytes says what it should be.                                 *)
(***************************************************************************)
EXTENDS Integers, Sequences, FiniteSets

CONSTANTS
  Ropes, Chars, Bad, MaxChars, MaxInsert,
  Size,         \* Size[c]: how many bytes the character c takes
  NoRope,       \* what a rope variable holds when it holds no rope
  FreeBlock,    \* a block that is not allocated
  Blocks,       \* the blocks the allocator hands out: MaxChars for each rope,
                \* since no node but the head is empty
  ROPE_NODE_STR_SIZE,
  ROPE_MAX_HEIGHT

ASSUME RopeAssumption ==
  /\ Bad \notin Chars
  /\ ROPE_NODE_STR_SIZE \in Nat /\ ROPE_MAX_HEIGHT \in Nat \ {0, 1}
  /\ Size \in [Chars -> 1 .. ROPE_NODE_STR_SIZE]
  /\ MaxChars \in Nat /\ MaxInsert \in 0 .. MaxChars

NULL == 0

VARIABLES
  node,       \* [Blocks \cup Ropes -> node or FreeBlock]
  num_chars,  \* [Ropes -> Nat]
  num_bytes,  \* [Ropes -> Nat]
  call        \* the arguments of the rope_insert or rope_del under way, or NoCall

vars == <<node, num_chars, num_bytes, call>>

NoCall == [do |-> "nothing"]
Minimum(x, y) == IF x > y THEN y ELSE x
Lowest(S) == CHOOSE x \in S : \A y \in S : x <= y
FirstOf(s, n) == SubSeq(s, 1, n)
From(s, n) == SubSeq(s, n + 1, Len(s))

(* What a loop has made of first after n rounds.  One that ends by itself  *)
(* changes nothing in the rounds left over.                                *)
Loop(n, first, Body(_, _)) ==
  LET after[i \in 0 .. n] == IF i = 0 THEN first ELSE Body(i, after[i - 1])
  IN  after[n]

(* The bytes of a string; bytelen_and_check_utf8 refuses a bad one.        *)
Bytes(s) == Loop(Len(s), 0, LAMBDA i, n : n + Size[s[i]])
Valid(s) == \A i \in DOMAIN s : s[i] # Bad

-----------------------------------------------------------------------------
(* An operation works on the nodes nd and the counts of one rope r; iter   *)
(* is the rope_iter: on each level a node, and how far past its start the  *)
(* position is.                                                            *)
Live(r) == node[r] # FreeBlock
Unused(nd) == {x \in Blocks : nd[x] = FreeBlock}
height(nd, x) == Len(nd[x].nexts)
skip_size(nd, x, i) == nd[x].nexts[i].skip_size
Link(x, n) == [node |-> x, skip_size |-> n]

(* One round of the loop of iter_at_char_pos: to the right, or down.  To    *)
(* the right it goes past each character before the position and past the  *)
(* head.                                                                   *)
Walk(nd, w) ==
  LET link == nd[w.node].nexts[w.level]
  IN  IF w.level = 0 THEN w
      ELSE IF w.offset > link.skip_size
        THEN [w EXCEPT !.node = link.node, !.offset = @ - link.skip_size]
      ELSE [w EXCEPT !.level = @ - 1, !.iter[w.level] = Link(w.node, w.offset)]

iter_at_char_pos(nd, r, char_pos) ==
  LET first == [node |-> r, level |-> height(nd, r), offset |-> char_pos,
                iter |-> [i \in 1 .. height(nd, r) |-> Link(NULL, 0)]]
  IN  Loop(height(nd, r) + char_pos + 1, first, LAMBDA i, w : Walk(nd, w)).iter

(* On every level the link of the iterator's node becomes links[i].        *)
LinkAt(nd, iter, i) == nd[iter[i].node].nexts[i]
Relink(nd, iter, links) ==
  [x \in DOMAIN nd |->
     IF \A i \in DOMAIN iter : iter[i].node # x THEN nd[x]
     ELSE [nd[x] EXCEPT !.nexts =
             [i \in DOMAIN @ |-> IF i \in DOMAIN iter /\ iter[i].node = x
                                   THEN links[i] ELSE @[i]]]]

Longer(link, n) == Link(link.node, link.skip_size + n)
update_offset_list(nd, iter, n) ==
  Relink(nd, iter, [i \in DOMAIN iter |-> Longer(LinkAt(nd, iter, i), n)])

(* insert_at: a new node of height h for the string s goes in at the       *)
(* iterator, which moves to the end of it.  The head's height stays one    *)
(* more than that of the tallest node.                                     *)
Grow(levels, h) ==
  [i \in 1 .. (IF Len(levels) > h THEN Len(levels) ELSE h + 1) |->
     levels[Minimum(i, Len(levels))]]

insert_at(r, at, h, s) ==
  LET n    == Len(s)
      iter == Grow(at.iter, h)
      nd   == [at.nd EXCEPT ![r].nexts = Grow(@, h)]
      new  == Lowest(Unused(nd))
      fresh == [str |-> s, num_bytes |-> Bytes(s),
                nexts |-> [i \in 1 .. h |->
                             Longer(LinkAt(nd, iter, i), n - iter[i].skip_size)]]
      relinked == Relink(nd, iter, [i \in DOMAIN iter |->
                    IF i <= h THEN Link(new, iter[i].skip_size)
                              ELSE Longer(LinkAt(nd, iter, i), n)])
  IN  [nd    |-> [relinked EXCEPT ![new] = fresh],
       chars |-> at.chars + n,
       bytes |-> at.bytes + Bytes(s),
       iter  |-> [i \in DOMAIN iter |-> IF i <= h THEN Link(new, n)
                                                  ELSE Longer(iter[i], n)]]

InsertAll(r, at, heights, parts) ==
  Loop(Len(parts), at, LAMBDA i, now : insert_at(r, now, heights[i], parts[i]))

(* The string broken into pieces that fit a node, no character split.      *)
Pieces(s) ==
  LET fits(from) == {k \in from + 1 .. Len(s) :
                       Bytes(SubSeq(s, from + 1, k)) <= ROPE_NODE_STR_SIZE}
      end(from)  == CHOOSE k \in fits(from) : \A j \in fits(from) : j <= k
      next(p)    == [str_offset |-> end(p.str_offset),
                     parts |-> Append(p.parts, SubSeq(s, p.str_offset + 1, end(p.str_offset)))]
  IN  Loop(Len(s), [str_offset |-> 0, parts |-> <<>>],
           LAMBDA i, p : IF p.str_offset = Len(s) THEN p ELSE next(p)).parts

-----------------------------------------------------------------------------
(* rope_insert_at_iter: into this node if there is room, else at the start *)
(* of the next one if the position is between the two, else as new nodes.  *)
Room(nd, x, s) == nd[x].num_bytes + Bytes(s) <= ROPE_NODE_STR_SIZE

(* count_bytes_in_utf8 of the characters before the position.              *)
OffsetBytes(nd, iter) == Bytes(FirstOf(nd[iter[1].node].str, iter[1].skip_size))

AnywhereIntoNext(nd, iter, s) ==  \* mutant: not only from the end of this node
  LET next == nd[iter[1].node].nexts[1].node
  IN  ~Room(nd, iter[1].node, s) /\ next # NULL /\ Room(nd, next, s)

InsertsNext(nd, iter, s) ==
  LET e    == iter[1].node
      next == nd[e].nexts[1].node
  IN  /\ ~Room(nd, e, s)
      /\ OffsetBytes(nd, iter) = nd[e].num_bytes
      /\ next # NULL
      /\ Room(nd, next, s)

InsertHere(at, e, iter, offset, s) ==
  [nd    |-> update_offset_list(
               [at.nd EXCEPT ![e].str = FirstOf(@, offset) \o s \o From(@, offset),
                             ![e].num_bytes = @ + Bytes(s)],
               iter, Len(s)),
   chars |-> at.chars + Len(s),
   bytes |-> at.bytes + Bytes(s)]

(* The end of e goes in again after the string, as a node of its own.      *)
EndOf(nd, iter) ==
  IF nd[iter[1].node].num_bytes = OffsetBytes(nd, iter) THEN <<>>
  ELSE <<From(nd[iter[1].node].str, iter[1].skip_size)>>

Truncate(at, iter) ==
  LET e         == iter[1].node
      end_chars == skip_size(at.nd, e, 1) - iter[1].skip_size
      end_bytes == at.nd[e].num_bytes - OffsetBytes(at.nd, iter)
  IN  [nd    |-> update_offset_list(
                   [at.nd EXCEPT ![e].str = FirstOf(@, iter[1].skip_size),
                                 ![e].num_bytes = @ - end_bytes],
                   iter, -end_chars),
       chars |-> at.chars - end_chars,
       bytes |-> at.bytes - end_bytes,
       iter  |-> iter]

NewParts(nd, iter, s) ==
  IF Room(nd, iter[1].node, s) \/ InsertsNext(nd, iter, s) THEN <<>>
  ELSE Pieces(s) \o EndOf(nd, iter)

rope_insert_at_iter(r, at, iter, s, heights) ==
  LET e    == iter[1].node
      next == at.nd[e].nexts[1].node
      moved == [i \in DOMAIN iter |->
                  IF i <= height(at.nd, next) THEN [iter[i] EXCEPT !.node = next]
                                              ELSE iter[i]]
  IN  IF Room(at.nd, e, s) THEN InsertHere(at, e, iter, iter[1].skip_size, s)
      ELSE IF InsertsNext(at.nd, iter, s) THEN InsertHere(at, next, moved, 0, s)
      ELSE InsertAll(r, Truncate(at, iter), heights, NewParts(at.nd, iter, s))

-----------------------------------------------------------------------------
(* The loop of rope_del_at_iter: trim the node, which for the head is all  *)
(* there is to do, or take it off its lists and free it.  The lists that   *)
(* pass over the node get shorter.                                         *)
ShortenTwoAbove(nd, iter, h, removed) ==  \* mutant: one level missed
  Relink(nd, iter, [i \in DOMAIN iter |->
    Longer(LinkAt(nd, iter, i), IF i > h + 1 THEN -removed ELSE 0)])

Shorten(nd, iter, h, removed) ==
  Relink(nd, iter, [i \in DOMAIN iter |->
    Longer(LinkAt(nd, iter, i), IF i > h THEN -removed ELSE 0)])

TrimNode(at, iter, e, offset, removed) ==
  LET gone == Bytes(SubSeq(at.nd[e].str, offset + 1, offset + removed))
      trimmed == [at.nd EXCEPT
        ![e] = [str |-> FirstOf(@.str, offset) \o From(@.str, offset + removed),
                num_bytes |-> @.num_bytes - gone,
                nexts |-> [i \in DOMAIN @.nexts |-> Longer(@.nexts[i], -removed)]]]
  IN  [nd    |-> Shorten(trimmed, iter, height(at.nd, e), removed),
       chars |-> at.chars,
       bytes |-> at.bytes - gone]

UnlinkNode(at, iter, e, removed) ==
  LET nexts == at.nd[e].nexts
      skip(i) == LinkAt(at.nd, iter, i).skip_size
      unlinked == Relink(at.nd, iter, [i \in DOMAIN iter |->
                    IF i > Len(nexts) THEN Longer(LinkAt(at.nd, iter, i), -removed)
                    ELSE Longer(nexts[i], skip(i) - removed)])
  IN  [nd    |-> [unlinked EXCEPT ![e] = FreeBlock],
       chars |-> at.chars,
       bytes |-> at.bytes - at.nd[e].num_bytes]

(* One round: at the end of its node it goes on in the node behind that of *)
(* the iterator.                                                           *)
Delete(r, iter, d) ==
  LET nd      == d.at.nd
      at_end  == d.offset = skip_size(nd, d.node, 1)
      e       == IF at_end THEN LinkAt(nd, iter, 1).node ELSE d.node
      offset  == IF at_end THEN 0 ELSE d.offset
      here    == skip_size(nd, e, 1)
      removed == Minimum(d.length, here - offset)
      trims   == removed < here \/ e = r
  IN  IF d.length = 0 THEN d
      ELSE [at     |-> IF trims THEN TrimNode(d.at, iter, e, offset, removed)
                                ELSE UnlinkNode(d.at, iter, e, removed),
            node   |-> IF trims THEN e ELSE nd[e].nexts[1].node,
            offset |-> offset,
            length |-> d.length - removed]

rope_del_at_iter(r, at, iter, length) ==
  LET first == [at |-> [at EXCEPT !.chars = @ - length], node |-> iter[1].node,
                offset |-> iter[1].skip_size, length |-> length]
  IN  Loop(length, first, LAMBDA i, d : Delete(r, iter, d)).at

-----------------------------------------------------------------------------
(* The operations on a program's ropes.                                    *)
Opened(r) == [nd |-> node, chars |-> num_chars[r], bytes |-> num_bytes[r]]
Becomes(r, at) ==
  /\ node' = at.nd
  /\ num_chars' = [num_chars EXCEPT ![r] = at.chars]
  /\ num_bytes' = [num_bytes EXCEPT ![r] = at.bytes]

EmptyHead == [str |-> <<>>, num_bytes |-> 0, nexts |-> <<Link(NULL, 0)>>]
rope_new2(r) ==
  /\ call = NoCall /\ ~Live(r)
  /\ Becomes(r, [nd |-> [node EXCEPT ![r] = EmptyHead], chars |-> 0, bytes |-> 0])
  /\ UNCHANGED call

(* random_height, with its cap.                                            *)
HeightsUncapped == 1 .. ROPE_MAX_HEIGHT   \* mutant: room for the head forgotten
Heights == 1 .. ROPE_MAX_HEIGHT - 1

(* A caller's arguments.  MaxChars bounds what is inserted, and what lies  *)
(* further than one past the end of the text is clamped like that.         *)
Strings == (UNION {[1 .. n -> Chars] : n \in 0 .. MaxInsert}) \cup {<<Bad>>}
Positions == 0 .. MaxChars + 1
Calls == [do : {"insert"}, of : Ropes, pos : Positions, str : Strings]
           \cup [do : {"del"}, of : Ropes, pos : Positions, length : Positions]

Call ==
  /\ call = NoCall
  /\ call' \in {c \in Calls :
                   /\ Live(c.of)
                   /\ c.pos <= num_chars[c.of] + 1
                   /\ c.do = "insert" => num_chars[c.of] + Len(c.str) <= MaxChars
                   /\ c.do = "del" => c.pos + c.length <= num_chars[c.of] + 1}
  /\ UNCHANGED <<node, num_chars, num_bytes>>

(* rope_insert: an invalid string is refused once the place is found, with *)
(* nothing changed.                                                        *)
rope_insert(r, pos, s) ==
  LET iter  == iter_at_char_pos(node, r, Minimum(pos, num_chars[r]))
      parts == NewParts(node, iter, s)
  IN  IF ~Valid(s) THEN UNCHANGED <<node, num_chars, num_bytes>>
      ELSE \E heights \in [DOMAIN parts -> Heights] :
             Becomes(r, rope_insert_at_iter(r, Opened(r), iter, s, heights))

rope_del(r, pos, length) ==
  LET at   == Minimum(pos, num_chars[r])
      len  == Minimum(length, num_chars[r] - at)
      iter == iter_at_char_pos(node, r, at)
  IN  Becomes(r, rope_del_at_iter(r, Opened(r), iter, len))

Called ==
  /\ \/ call.do = "insert" /\ rope_insert(call.of, call.pos, call.str)
     \/ call.do = "del" /\ rope_del(call.of, call.pos, call.length)
  /\ call' = NoCall

(* The nodes behind a node, along the lowest list.                         *)
Allocated == {x \in Blocks \cup Ropes : node[x] # FreeBlock}
Behind[x \in Allocated] ==
  LET next == node[x].nexts[1].node
  IN  IF next = NULL THEN {} ELSE {next} \cup Behind[next]

(* rope_copy: a block of its own for each node, and every pointer replaced *)
(* by the copy of what it pointed to.                                      *)
Blockwise(S) ==
  CHOOSE f \in [S -> Unused(node)] : \A x, y \in S : f[x] = f[y] => x = y

SharingCopy(r, other) ==  \* mutant: *r = *other and no more
  /\ call = NoCall /\ ~Live(r) /\ Live(other)
  /\ Becomes(r, [nd |-> [node EXCEPT ![r] = node[other]],
                 chars |-> num_chars[other], bytes |-> num_bytes[other]])
  /\ UNCHANGED call

rope_copy(r, other) ==
  /\ call = NoCall /\ ~Live(r) /\ Live(other)
  /\ LET block  == Blockwise(Behind[other])
         copy(x) == IF x = NULL THEN NULL ELSE IF x = other THEN r ELSE block[x]
         copied(x) == [node[x] EXCEPT !.nexts =
                         [i \in DOMAIN @ |-> Link(copy(@[i].node), @[i].skip_size)]]
         from(x) == {y \in Behind[other] \cup {other} : copy(y) = x}
     IN  Becomes(r, [nd |-> [x \in DOMAIN node |->
                               IF from(x) = {} THEN node[x]
                               ELSE copied(CHOOSE y \in from(x) : TRUE)],
                     chars |-> num_chars[other], bytes |-> num_bytes[other]])
  /\ UNCHANGED call

rope_free(r) ==
  /\ call = NoCall /\ Live(r)
  /\ LET freed == Behind[r] \cup {r}
     IN  Becomes(r, [nd |-> [x \in DOMAIN node |-> IF x \in freed THEN FreeBlock ELSE node[x]],
                     chars |-> 0, bytes |-> 0])
  /\ UNCHANGED call

(* rope_write_cstr: the nodes one after the other.                         *)
Written[x \in Allocated] ==
  LET next == node[x].nexts[1].node
  IN  node[x].str \o (IF next = NULL THEN <<>> ELSE Written[next])
rope_write_cstr(r) == Written[r]

-----------------------------------------------------------------------------
Init ==
  /\ node = [x \in Blocks \cup Ropes |-> FreeBlock]
  /\ num_chars = [r \in Ropes |-> 0] /\ num_bytes = [r \in Ropes |-> 0]
  /\ call = NoCall

Next ==
  \/ Call \/ Called
  \/ \E r \in Ropes : rope_new2(r) \/ rope_free(r)
  \/ \E r, other \in Ropes : rope_copy(r, other)

Spec == Init /\ [][Next]_vars

-----------------------------------------------------------------------------
Nodes == [str : Seq(Chars), num_bytes : 0 .. ROPE_NODE_STR_SIZE,
          nexts : Seq([node : Blocks \cup {NULL}, skip_size : Nat])]

TypeOK ==
  /\ \A x \in Blocks \cup Ropes :
       node[x] # FreeBlock =>
         node[x] \in Nodes /\ height(node, x) \in 1 .. ROPE_MAX_HEIGHT
  /\ num_chars \in [Ropes -> Nat] /\ num_bytes \in [Ropes -> Nat]

(* Every pointer a rope holds, on any level, is to one of the nodes its    *)
(* lowest list reaches.  A block belongs to one rope, and an allocated one *)
(* to some rope: rope_del frees exactly the nodes it takes off the lists,  *)
(* rope_copy shares none, rope_free leaves none.                           *)
OneOwner ==
  /\ \A r \in Ropes : Live(r) =>
       \A x \in Behind[r] \cup {r} : \A i \in DOMAIN node[x].nexts :
         node[x].nexts[i].node \in Behind[r] \cup {NULL}
  /\ \A x \in Blocks : node[x] # FreeBlock =>
       Cardinality({r \in Ropes : Live(r) /\ x \in Behind[r]}) = 1

(* The links of a rope's level i are those of the nodes that are tall      *)
(* enough, in order, each skipping to where the next of them starts.       *)
LevelsAgree(r) ==
  \A x \in Behind[r] \cup {r} : \A i \in 1 .. height(node, x) :
    LET link == node[x].nexts[i]
        tall == {y \in Behind[x] : height(node, y) >= i}
    IN  IF tall = {} THEN link = Link(NULL, Len(Written[x]))
        ELSE /\ link.node \in tall /\ tall \subseteq {link.node} \cup Behind[link.node]
             /\ link.skip_size = Len(Written[x]) - Len(Written[link.node])

(* What _rope_check asserts, which only a DEBUG build calls: after every   *)
(* operation the skips of every level add up, a node after the head is not *)
(* empty, each num_bytes is that of its characters, and the totals are the *)
(* sums.                                                                   *)
RopeCheck ==
  \A r \in Ropes : call = NoCall /\ Live(r) =>
    LET text == rope_write_cstr(r)
    IN  /\ num_chars[r] = Len(text) /\ num_bytes[r] = Bytes(text)
        /\ node[r].nexts[height(node, r)] = Link(NULL, num_chars[r])
        /\ \A x \in Behind[r] : node[x].str # <<>>
        /\ \A x \in Behind[r] \cup {r} : node[x].num_bytes = Bytes(node[x].str)
        /\ LevelsAgree(r)

(* The rope implements the text of RopeText: no splice, cut, copy or split *)
(* of a node ever changes what the rope holds.                             *)
RT == INSTANCE RopeText WITH
        text <- [r \in Ropes |-> IF Live(r) THEN rope_write_cstr(r) ELSE NoRope]
IsText == RT!TextSpec
=============================================================================
