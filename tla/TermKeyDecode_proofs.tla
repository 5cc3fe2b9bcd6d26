------------------------ MODULE TermKeyDecode_proofs ------------------------
(***************************************************************************)
(* What a look of libtermkey at some bytes answers, for every terminal and *)
(* all flags: how many bytes it takes, when it wants more of them, that a  *)
(* forced look always finds a key, and that a key found in some bytes is   *)
(* the key found in them with more behind.  Module TermKey_proofs uses it  *)
(* for the drivers on libtermkey's buffer, and TermKeyLife_proofs for the  *)
(* loop of termkey_waitkey.                                                *)
(***************************************************************************)
EXTENDS TermKeyDecode, SequenceTheorems, WellFoundedInduction, TLAPS

(* Reading a concatenation.                                                *)
LEMMA ConcatReads ==
  ASSUME NEW S, NEW t, NEW s, t \in Seq(S), s \in Seq(S)
  PROVE  /\ Len(t \o s) = Len(t) + Len(s)
         /\ \A k \in 1 .. Len(t) : (t \o s)[k] = t[k]
         /\ \A k \in 1 .. Len(s) : (t \o s)[Len(t) + k] = s[k]
  OBVIOUS

-----------------------------------------------------------------------------
(* What a look at len bytes may answer: a key takes at least one byte and  *)
(* at most what is there, and keeps no more than it leaves.                *)
Fits(look, len) ==
  /\ look.res \in {"KEY", "AGAIN", "NONE"}
  /\ look.res = "KEY" => look.n \in 1 .. len /\ look.keep \in 0 .. len - look.n

LEMMA HasLeast ==
  ASSUME NEW T, T \subseteq Nat, T # {}
  PROVE  \E x \in T : \A y \in T : x <= y
<1>1. PICK x \in T : \A y \in T : <<y, x>> \notin OpToRel(<, Nat)
  BY WFMin, NatLessThanWellFounded
<1>2. \A y \in T : ~(y < x)
  BY <1>1 DEF OpToRel
<1> QED
  BY <1>2

LEMMA MinIsIn ==
  ASSUME NEW T, T \subseteq Nat, T # {}
  PROVE  Min(T) \in T
BY HasLeast DEF Min

LEMMA MouseFits ==
  ASSUME NEW s, Len(s) \in Nat, NEW n \in Nat
  PROVE  /\ Fits(peekkey_mouse(s, n), Len(s)) /\ peekkey_mouse(s, n).res # "NONE"
         /\ peekkey_mouse(s, n).res = "KEY" => peekkey_mouse(s, n).keep = 0
<1>1. CASE Len(s) < n + 3
  BY <1>1 DEF peekkey_mouse, Again, Fits
<1>2. CASE ~(Len(s) < n + 3)
  <2>1. PICK key : peekkey_mouse(s, n) = [res |-> "KEY", key |-> key, n |-> n + 3, keep |-> 0]
    BY <1>2 DEF peekkey_mouse, Key
  <2> QED
    BY <1>2, <2>1 DEF Fits
<1> QED
  BY <1>1, <1>2

(* A CSI sequence ends inside the bytes, behind its introducer.            *)
LEMMA ParseCsiEnds ==
  ASSUME NEW s, Len(s) \in Nat, NEW introlen \in 1 .. 2
  PROVE  \/ parse_csi(s, introlen) = Again
         \/ \E end \in introlen + 1 .. Len(s) : \E cmd, body, at :
              parse_csi(s, introlen) = Parsed(cmd, end, body, at)
<1> DEFINE T == {i \in introlen + 1 .. Len(s) : s[i] \in 64 .. 127}
           Upto(end) == SubSeq(s, introlen + 1, end - 1)
           U(end) == {i \in 1 .. Len(Upto(end)) : Upto(end)[i] \in Intermediates}
           At(end) == IF U(end) # {} THEN Min(U(end)) ELSE 0
           end == IF T # {} THEN Min(T) ELSE 0
<1>1. parse_csi(s, introlen) = IF end = 0 THEN Again ELSE Parsed(s[end], end, Upto(end), At(end))
  BY DEF parse_csi, SelectInSubSeq, SelectInSeq
<1>2. T # {} => end \in introlen + 1 .. Len(s)
  <2>1. T \subseteq Nat
    OBVIOUS
  <2>2. T # {} => Min(T) \in T
    BY <2>1, MinIsIn
  <2> QED
    BY <2>2
<1>3. T = {} => end = 0
  OBVIOUS
<1> HIDE DEF end, At, Upto
<1> QED
  BY <1>1, <1>2, <1>3

LEMMA CsiFits ==
  ASSUME NEW s, Len(s) \in Nat, NEW introlen \in 1 .. 2, introlen <= Len(s),
         NEW force \in BOOLEAN
  PROVE  /\ Fits(peekkey_csi(s, introlen, force), Len(s))
         /\ peekkey_csi(s, introlen, force).res # "NONE"
<1>1. CASE parse_csi(s, introlen) = Again
  <2>1. CASE force
    <3>1. peekkey_csi(s, introlen, force) = Key(With(emit_codepoint(91), {ALT}), introlen)
      BY <1>1, <2>1 DEF peekkey_csi
    <3> QED
      BY <3>1 DEF Key, Fits
  <2>2. CASE ~force
    <3>1. peekkey_csi(s, introlen, force) = Again
      BY <1>1, <2>2 DEF peekkey_csi
    <3> QED
      BY <3>1 DEF Again, Fits
  <2> QED
    BY <2>1, <2>2
<1>2. ASSUME NEW end \in introlen + 1 .. Len(s), NEW cmd, NEW body, NEW at,
             parse_csi(s, introlen) = Parsed(cmd, end, body, at)
      PROVE  /\ Fits(peekkey_csi(s, introlen, force), Len(s))
             /\ peekkey_csi(s, introlen, force).res # "NONE"
  <2> DEFINE csi == Parsed(cmd, end, body, at)
             handled == csi_handlers(csi)
  <2>1. csi.csi_len = end /\ csi.res = "KEY"
    BY DEF Parsed
  <2>2. csi # Again
    BY <2>1 DEF Again
  <2> HIDE DEF csi
  <2>3. peekkey_csi(s, introlen, force) = CsiKey(s, introlen, csi, handled)
    BY <1>2, <2>2 DEF peekkey_csi, csi
  <2> HIDE DEF handled
  <2>4. CASE Plain(csi) /\ csi.cmd = 77 /\ Len(csi.args) < 3
    <3>1. CsiKey(s, introlen, csi, handled) = peekkey_mouse(s, end)
      BY <2>1, <2>4 DEF CsiKey
    <3> QED
      BY <2>3, <3>1, MouseFits
  <2>5. CASE ~(Plain(csi) /\ csi.cmd = 77 /\ Len(csi.args) < 3) /\ handled = {}
    <3>1. PICK key : UnknownCsi(csi, introlen) =
                       [[res |-> "KEY", key |-> key, n |-> introlen, keep |-> 0]
                          EXCEPT !.keep = end - introlen]
      BY <2>1 DEF UnknownCsi, Key
    <3>2. UnknownCsi(csi, introlen) =
            [res |-> "KEY", key |-> key, n |-> introlen, keep |-> end - introlen]
      BY <3>1
    <3>3. CsiKey(s, introlen, csi, handled) = UnknownCsi(csi, introlen)
      BY <2>5 DEF CsiKey
    <3> QED
      BY <2>3, <3>2, <3>3 DEF Fits
  <2>6. CASE ~(Plain(csi) /\ csi.cmd = 77 /\ Len(csi.args) < 3) /\ handled # {}
    <3>1. CsiKey(s, introlen, csi, handled) = Key(CHOOSE key \in handled : TRUE, end)
      BY <2>1, <2>6 DEF CsiKey
    <3> QED
      BY <2>3, <3>1 DEF Key, Fits
  <2> QED
    BY <2>4, <2>5, <2>6
<1> QED
  BY <1>1, <1>2, ParseCsiEnds

(* A forced look finds what the look before it missed, and keeps nothing.  *)
LEMMA CsiForced ==
  ASSUME NEW s, NEW introlen, NEW no \in BOOLEAN, NEW yes \in BOOLEAN,
         peekkey_csi(s, introlen, no).res # "KEY", peekkey_csi(s, introlen, yes).res = "KEY"
  PROVE  peekkey_csi(s, introlen, yes).keep = 0
<1>1. ASSUME NEW force \in BOOLEAN, parse_csi(s, introlen) # Again
      PROVE  peekkey_csi(s, introlen, force) =
               CsiKey(s, introlen, parse_csi(s, introlen), csi_handlers(parse_csi(s, introlen)))
  BY <1>1 DEF peekkey_csi
<1>2. parse_csi(s, introlen) = Again
  BY <1>1
<1>3. \/ peekkey_csi(s, introlen, yes) = Again
      \/ \E key : peekkey_csi(s, introlen, yes) = Key(key, introlen)
  BY <1>2 DEF peekkey_csi
<1>4. Again.res # "KEY"
  BY DEF Again
<1> QED
  BY <1>3, <1>4 DEF Key

LEMMA Ss3Fits ==
  ASSUME NEW s, Len(s) \in Nat, NEW introlen \in 1 .. 2, introlen <= Len(s),
         NEW force \in BOOLEAN
  PROVE  /\ Fits(peekkey_ss3(s, introlen, force), Len(s))
         /\ peekkey_ss3(s, introlen, force).res = "KEY" => peekkey_ss3(s, introlen, force).keep = 0
<1>1. \/ peekkey_ss3(s, introlen, force) \in {Again, NoKey}
      \/ \E key : peekkey_ss3(s, introlen, force) = Key(key, Len(s))
      \/ introlen + 1 <= Len(s)
           /\ \E key : peekkey_ss3(s, introlen, force) = Key(key, introlen + 1)
  BY DEF peekkey_ss3
<1> QED
  BY <1>1 DEF Key, Again, NoKey, Fits

LEMMA CtrlstringFits ==
  ASSUME NEW s, Len(s) \in Nat, DOMAIN s = 1 .. Len(s), NEW introlen \in 1 .. 2
  PROVE  /\ Fits(peekkey_ctrlstring(s, introlen), Len(s))
         /\ peekkey_ctrlstring(s, introlen).res # "NONE"
         /\ peekkey_ctrlstring(s, introlen).res = "KEY" => peekkey_ctrlstring(s, introlen).keep = 0
<1> DEFINE Ends(i) == s[i] = 156 \/ (s[i] = ESC /\ i < Len(s) /\ s[i + 1] = 92)
           T == {i \in introlen + 1 .. Len(s) : Ends([j \in DOMAIN s |-> j][i])}
           end == IF T # {} THEN Min(T) ELSE 0
<1>1. \/ end = 0 /\ peekkey_ctrlstring(s, introlen) = Again
      \/ end # 0 /\ \E key : peekkey_ctrlstring(s, introlen) =
                             Key(key, IF s[end] = ESC THEN end + 1 ELSE end)
  BY DEF peekkey_ctrlstring, SelectInSubSeq
<1>2. T # {} => end \in introlen + 1 .. Len(s) /\ Ends(end)
  <2>1. T \subseteq Nat
    OBVIOUS
  <2>2. T # {} => Min(T) \in T
    BY <2>1, MinIsIn
  <2>3. \A i \in T : i \in introlen + 1 .. Len(s) /\ Ends(i)
    OBVIOUS
  <2> HIDE DEF T, Ends
  <2> QED
    BY <2>2, <2>3
<1>3. T = {} => end = 0
  OBVIOUS
<1> HIDE DEF end, T
<1>4. CASE end = 0
  BY <1>1, <1>4 DEF Again, Fits
<1>5. CASE end # 0
  <2>1. end \in introlen + 1 .. Len(s) /\ Ends(end)
    BY <1>2, <1>3, <1>5
  <2>2. (IF s[end] = ESC THEN end + 1 ELSE end) \in 1 .. Len(s)
    BY <2>1 DEF ESC
  <2>3. PICK key : peekkey_ctrlstring(s, introlen) =
                     Key(key, IF s[end] = ESC THEN end + 1 ELSE end)
    BY <1>1, <1>5
  <2> QED
    BY <2>2, <2>3 DEF Key, Fits
<1> QED
  BY <1>4, <1>5

(* The CSI driver: what it answers, that a forced look keeps nothing it    *)
(* would not have kept unforced, and that it waits behind an Escape only   *)
(* for what O, P, [ and ] begin.                                           *)
LEMMA CsiDriver ==
  ASSUME NEW s, Len(s) \in Nat \ {0}, DOMAIN s = 1 .. Len(s), NEW force \in BOOLEAN
  PROVE  /\ Fits(csi_peekkey(s, force), Len(s))
         /\ csi_peekkey(s, force).res = "KEY" /\ csi_peekkey(s, force).keep # 0
              => s[1] \in {ESC, 155}
<1> DEFINE escaped(c) == s[1] = ESC /\ Len(s) > 1 /\ s[2] = c
<1>1. \/ Len(s) > 1 /\ s[1] = ESC /\ csi_peekkey(s, force) = peekkey_ss3(s, 2, force)
      \/ Len(s) > 1 /\ s[1] = ESC /\ csi_peekkey(s, force) = peekkey_ctrlstring(s, 2)
      \/ Len(s) > 1 /\ s[1] = ESC /\ csi_peekkey(s, force) = peekkey_csi(s, 2, force)
      \/ csi_peekkey(s, force) = peekkey_ss3(s, 1, force)
      \/ csi_peekkey(s, force) = peekkey_ctrlstring(s, 1)
      \/ s[1] = 155 /\ csi_peekkey(s, force) = peekkey_csi(s, 1, force)
      \/ csi_peekkey(s, force) = NoKey
  BY DEF csi_peekkey, ESC
<1>2. Fits(NoKey, Len(s)) /\ NoKey.res = "NONE"
  BY DEF NoKey, Fits
<1>3. Fits(csi_peekkey(s, force), Len(s))
  BY <1>1, <1>2, Ss3Fits, CtrlstringFits, CsiFits
<1>4. ASSUME csi_peekkey(s, force).res = "KEY", csi_peekkey(s, force).keep # 0
      PROVE  s[1] \in {ESC, 155}
  BY <1>1, <1>2, <1>4, Ss3Fits, CtrlstringFits
<1> QED
  BY <1>3, <1>4

LEMMA CsiCases ==
  ASSUME NEW s, NEW force \in BOOLEAN
  PROVE  /\ s[1] = ESC /\ Len(s) > 1 /\ s[2] = 79 =>
              csi_peekkey(s, force) = peekkey_ss3(s, 2, force)
         /\ s[1] = ESC /\ Len(s) > 1 /\ s[2] \in {80, 93} =>
              csi_peekkey(s, force) = peekkey_ctrlstring(s, 2)
         /\ s[1] = ESC /\ Len(s) > 1 /\ s[2] = 91 =>
              csi_peekkey(s, force) = peekkey_csi(s, 2, force)
         /\ s[1] = ESC /\ ~(Len(s) > 1 /\ s[2] \in {79, 80, 91, 93}) =>
              csi_peekkey(s, force) = NoKey
         /\ s[1] = 143 => csi_peekkey(s, force) = peekkey_ss3(s, 1, force)
         /\ s[1] \in {144, 157} => csi_peekkey(s, force) = peekkey_ctrlstring(s, 1)
         /\ s[1] = 155 => csi_peekkey(s, force) = peekkey_csi(s, 1, force)
         /\ s[1] \notin {ESC, 143, 144, 157, 155} => csi_peekkey(s, force) = NoKey
<1>1. CASE s[1] = ESC
  <2>1. CASE Len(s) > 1
    BY <1>1, <2>1 DEF csi_peekkey, ESC
  <2>2. CASE ~(Len(s) > 1)
    BY <1>1, <2>2 DEF csi_peekkey, ESC
  <2> QED
    BY <2>1, <2>2
<1>2. CASE s[1] # ESC
  BY <1>2 DEF csi_peekkey, ESC
<1> QED
  BY <1>1, <1>2

(* What an unforced look of the CSI driver missed, a forced one keeps      *)
(* nothing of; and behind an Escape it waits only for O, P, [ and ].       *)
LEMMA CsiDriverForced ==
  ASSUME NEW s, Len(s) \in Nat \ {0}, DOMAIN s = 1 .. Len(s),
         NEW no \in BOOLEAN, NEW yes \in BOOLEAN, csi_peekkey(s, no).res # "KEY"
  PROVE  /\ csi_peekkey(s, yes).res = "KEY" => csi_peekkey(s, yes).keep = 0
         /\ csi_peekkey(s, no).res = "AGAIN" /\ s[1] = ESC =>
              Len(s) > 1 /\ s[2] \in {79, 80, 91, 93}
<1>1. NoKey.res = "NONE"
  BY DEF NoKey
<1>2. 1 \in 1 .. 2 /\ 1 <= Len(s) /\ 2 \in 1 .. 2 /\ (Len(s) > 1 => 2 <= Len(s))
  OBVIOUS
<1>3. ASSUME csi_peekkey(s, yes).res = "KEY" PROVE csi_peekkey(s, yes).keep = 0
  <2>1. CASE s[1] = ESC /\ Len(s) > 1
    <3>1. CASE s[2] = 79
      BY <1>2, <1>3, <2>1, <3>1, CsiCases, Ss3Fits
    <3>2. CASE s[2] \in {80, 93}
      BY <1>2, <1>3, <2>1, <3>2, CsiCases, CtrlstringFits, SMTT(20)
    <3>3. CASE s[2] = 91
      BY <1>3, <2>1, <3>3, CsiCases, CsiForced
    <3>4. CASE s[2] \notin {79, 80, 91, 93}
      BY <1>1, <1>3, <2>1, <3>4, CsiCases
    <3> QED
      BY <3>1, <3>2, <3>3, <3>4
  <2>2. CASE s[1] = ESC /\ ~(Len(s) > 1)
    BY <1>1, <1>3, <2>2, CsiCases
  <2>3. CASE s[1] = 143
    BY <1>2, <1>3, <2>3, CsiCases, Ss3Fits
  <2>4. CASE s[1] \in {144, 157}
    BY <1>2, <1>3, <2>4, CsiCases, CtrlstringFits
  <2>5. CASE s[1] = 155
    BY <1>3, <2>5, CsiCases, CsiForced
  <2>6. CASE s[1] \notin {ESC, 143, 144, 157, 155}
    BY <1>1, <1>3, <2>6, CsiCases
  <2> QED
    BY <2>1, <2>2, <2>3, <2>4, <2>5, <2>6
<1>4. ASSUME csi_peekkey(s, no).res = "AGAIN", s[1] = ESC
      PROVE  Len(s) > 1 /\ s[2] \in {79, 80, 91, 93}
  BY <1>1, <1>4, CsiCases
<1> QED
  BY <1>3, <1>4

-----------------------------------------------------------------------------
(* The terminfo driver.                                                    *)
KeyStrings == DOMAIN Terminfo \cup MouseIntro
Begins(s) == {q \in KeyStrings : IsPrefix(q, s)}
Shortest(s) == CHOOSE q \in Begins(s) : \A other \in Begins(s) : Len(q) <= Len(other)
AtString(s, q) == IF q \in MouseIntro THEN peekkey_mouse(s, Len(q)) ELSE Key(Terminfo[q], Len(q))

LEMMA StringLen == \A q \in KeyStrings : q \in Seq(0 .. 255) /\ Len(q) \in Nat \ {0}
<1> SUFFICES ASSUME NEW q \in KeyStrings PROVE q \in Seq(0 .. 255) /\ Len(q) \in Nat \ {0}
  OBVIOUS
<1>1. q \in Seq(0 .. 255) /\ q # <<>>
  BY StringsAssumption DEF KeyStrings
<1> QED
  BY <1>1, LenProperties, EmptySeq

LEMMA TiIs ==
  ASSUME NEW s, NEW force
  PROVE  ti_peekkey(s, force) =
           IF Begins(s) # {} THEN AtString(s, Shortest(s))
           ELSE IF ~force /\ \E long \in KeyStrings : IsPrefix(s, long) THEN Again
           ELSE NoKey
BY DEF ti_peekkey, KeyStrings, Begins, Shortest, AtString

LEMMA ShortestIs ==
  ASSUME NEW s, Begins(s) # {}
  PROVE  Shortest(s) \in Begins(s) /\ Len(Shortest(s)) \in Nat \ {0}
<1> DEFINE T == {Len(q) : q \in Begins(s)}
<1>1. \A q \in Begins(s) : Len(q) \in Nat \ {0}
  BY StringLen DEF Begins
<1>2. T \subseteq Nat /\ T # {}
  BY <1>1
<1> HIDE DEF T
<1>3. PICK n \in T : \A m \in T : n <= m
  BY <1>2, HasLeast
<1>4. PICK q \in Begins(s) : n = Len(q)
  BY DEF T
<1>5. \A other \in Begins(s) : Len(q) <= Len(other)
  BY <1>3, <1>4 DEF T
<1>6. Shortest(s) \in Begins(s)
  BY <1>5 DEF Shortest
<1> QED
  BY <1>1, <1>6

LEMMA TiDriver ==
  ASSUME NEW s, Len(s) \in Nat \ {0}, NEW force \in BOOLEAN
  PROVE  /\ Fits(ti_peekkey(s, force), Len(s))
         /\ ti_peekkey(s, force).res = "KEY" => ti_peekkey(s, force).keep = 0
<1>1. CASE Begins(s) = {}
  <2>1. ti_peekkey(s, force) \in {Again, NoKey}
    BY <1>1, TiIs
  <2> QED
    BY <2>1 DEF Again, NoKey, Fits
<1>2. CASE Begins(s) # {}
  <2> DEFINE q == Shortest(s)
  <2>1. q \in Begins(s) /\ Len(q) \in Nat \ {0}
    BY <1>2, ShortestIs
  <2>2. Len(q) <= Len(s)
    BY <2>1 DEF Begins, IsPrefix
  <2>3. ti_peekkey(s, force) = AtString(s, q)
    BY <1>2, TiIs
  <2> HIDE DEF q
  <2>4. CASE q \in MouseIntro
    BY <2>1, <2>3, <2>4, MouseFits DEF AtString
  <2>5. CASE q \notin MouseIntro
    <3>1. ti_peekkey(s, force) = Key(Terminfo[q], Len(q))
      BY <2>3, <2>5 DEF AtString
    <3> QED
      BY <2>1, <2>2, <3>1 DEF Key, Fits
  <2> QED
    BY <2>4, <2>5
<1> QED
  BY <1>1, <1>2

LEMMA TiDriverForced ==
  ASSUME NEW s, Len(s) \in Nat \ {0},
         NEW no \in BOOLEAN, NEW yes \in BOOLEAN, yes, ti_peekkey(s, no).res # "KEY"
  PROVE  /\ ti_peekkey(s, yes).res # "KEY"
         /\ ti_peekkey(s, no).res = "AGAIN" =>
              \/ \E q \in MouseIntro : IsPrefix(q, s)
              \/ \E long \in KeyStrings : IsPrefix(s, long)
<1>1. CASE Begins(s) = {}
  <2>1. \A force \in BOOLEAN : ti_peekkey(s, force).res # "KEY"
    BY <1>1, TiIs DEF NoKey, Again
  <2>2. ti_peekkey(s, no).res = "AGAIN" => \E long \in KeyStrings : IsPrefix(s, long)
    BY <1>1, TiIs DEF NoKey
  <2> QED
    BY <2>1, <2>2
<1>2. CASE Begins(s) # {}
  <2>1. \A force \in BOOLEAN : ti_peekkey(s, force) = AtString(s, Shortest(s))
    BY <1>2, TiIs
  <2>2. Shortest(s) \notin MouseIntro => AtString(s, Shortest(s)).res = "KEY"
    BY DEF AtString, Key
  <2>3. Shortest(s) \in KeyStrings /\ IsPrefix(Shortest(s), s)
    BY <1>2, ShortestIs DEF Begins
  <2> QED
    BY <2>1, <2>2, <2>3
<1> QED
  BY <1>1, <1>2

-----------------------------------------------------------------------------
(* A byte, or a character, that stands for itself.                         *)
LEMMA Utf8Fits ==
  ASSUME NEW s, Len(s) \in Nat \ {0}
  PROVE  \/ parse_utf8(s) = Again
         \/ \E cp : \E n \in 1 .. Len(s) : parse_utf8(s) = [res |-> "KEY", cp |-> cp, n |-> n]
<1> DEFINE n == SequenceLength(s[1])
           top == IF n < Len(s) THEN n ELSE Len(s)
           T == {i \in 2 .. top : s[i] \notin 128 .. 191}
           bad == IF T # {} THEN Min(T) ELSE 0
<1>1. n \in 1 .. 6
  BY DEF SequenceLength
<1>2. parse_utf8(s) =
        IF n = 1 THEN [res |-> "KEY", cp |-> INVALID, n |-> 1]
        ELSE IF bad # 0 THEN [res |-> "KEY", cp |-> INVALID, n |-> bad - 1]
        ELSE IF Len(s) < n THEN Again
        ELSE [res |-> "KEY", cp |-> CodePoint(SubSeq(s, 1, n)), n |-> n]
  BY DEF parse_utf8, SelectInSubSeq
<1>3. T # {} => bad \in 2 .. top
  <2>1. T \subseteq Nat
    OBVIOUS
  <2>2. T # {} => Min(T) \in T
    BY <2>1, MinIsIn
  <2> QED
    BY <2>2
<1>4. T = {} => bad = 0
  OBVIOUS
<1>5. top \in 1 .. Len(s)
  BY <1>1
<1> HIDE DEF bad, n, T, top
<1>6. bad # 0 => bad - 1 \in 1 .. Len(s)
  BY <1>3, <1>4, <1>5
<1>7. ~(Len(s) < n) => n \in 1 .. Len(s)
  BY <1>1
<1>8. 1 \in 1 .. Len(s)
  OBVIOUS
<1> QED
  BY <1>2, <1>6, <1>7, <1>8

LEMMA SimpleFits ==
  ASSUME NEW s, Len(s) \in Nat \ {0}, NEW force \in BOOLEAN
  PROVE  /\ Fits(SimpleKey(s, force), Len(s)) /\ SimpleKey(s, force).res # "NONE"
         /\ force => SimpleKey(s, force).res = "KEY"
         /\ SimpleKey(s, force) = Again \/ SimpleKey(s, force).res = "KEY"
         /\ SimpleKey(s, force).res = "KEY" => SimpleKey(s, force).keep = 0
<1>1. \/ SimpleKey(s, force) = Again /\ ~force
      \/ \E key : \E n \in 1 .. Len(s) : SimpleKey(s, force) = Key(key, n)
  <2>1. CASE parse_utf8(s) = Again
    BY <2>1 DEF SimpleKey
  <2>2. ASSUME NEW cp, NEW n \in 1 .. Len(s),
               parse_utf8(s) = [res |-> "KEY", cp |-> cp, n |-> n]
        PROVE  \E key : \E m \in 1 .. Len(s) : SimpleKey(s, force) = Key(key, m)
    <3>1. parse_utf8(s) # Again /\ parse_utf8(s).n = n
      BY <2>2 DEF Again
    <3>2. 1 \in 1 .. Len(s)
      OBVIOUS
    <3> QED
      BY <3>1, <3>2 DEF SimpleKey
  <2> QED
    BY <2>1, <2>2, Utf8Fits
<1> QED
  BY <1>1 DEF Again, Key, Fits

-----------------------------------------------------------------------------
(* peekkey looks at the bytes from every place on, the last first.         *)
AtPlace(str, force, closed, k, beyond) ==
  IF Rest(str, k) # <<>>
    THEN PeekAt(Rest(str, k), k, force, ti_peekkey(Rest(str, k), force),
                csi_peekkey(Rest(str, k), force), beyond)
  ELSE IF closed THEN [res |-> "EOF"] ELSE NoKey

Looks(str, force, closed, at) ==
  at = [k \in 0 .. Len(str) |-> AtPlace(str, force, closed, k, at[k + 1])]

LEMMA RestIs ==
  ASSUME NEW S, NEW str \in Seq(S), NEW k \in 0 .. Len(str)
  PROVE  /\ Rest(str, k) \in Seq(S) /\ Len(Rest(str, k)) = Len(str) - k
         /\ DOMAIN Rest(str, k) = 1 .. Len(str) - k
         /\ \A i \in 1 .. Len(str) - k : Rest(str, k)[i] = str[k + i]
         /\ Rest(str, k) = <<>> <=> k = Len(str)
<1> DEFINE s == SubSeq(str, k + 1, Len(str))
<1>1. Len(str) \in Nat /\ k \in Nat /\ k <= Len(str) /\ k + 1 \in Int
  BY LenProperties
<1>2. \A i \in k + 1 .. Len(str) : str[i] \in S
  <2>1. \A i \in k + 1 .. Len(str) : i \in 1 .. Len(str)
    BY <1>1
  <2> QED
    BY <2>1, ElementOfSeq
<1>3. /\ s \in Seq(S)
      /\ Len(s) = IF k + 1 <= Len(str) THEN Len(str) - (k + 1) + 1 ELSE 0
      /\ \A i \in 1 .. Len(str) - (k + 1) + 1 : s[i] = str[k + 1 + i - 1]
  BY <1>1, <1>2, SubSeqProperties
<1>4. s = Rest(str, k)
  BY DEF Rest
<1> HIDE DEF s
<1>5. Len(s) = Len(str) - k /\ \A i \in 1 .. Len(str) - k : s[i] = str[k + i]
  BY <1>1, <1>3
<1>6. DOMAIN s = 1 .. Len(s) /\ (s = <<>> <=> Len(s) = 0)
  BY <1>3, LenProperties, EmptySeq
<1> QED
  BY <1>1, <1>3, <1>4, <1>5, <1>6

LEMMA LooksExist ==
  ASSUME NEW S, NEW str \in Seq(S), NEW force, NEW closed
  PROVE  \E at : Looks(str, force, closed, at)
<1> DEFINE L == Len(str)
           Down(n, g) == g = [k \in L - n .. L |-> AtPlace(str, force, closed, k, g[k + 1])]
           Bad == {n \in 0 .. L : ~\E g : Down(n, g)}
<1>1. L \in Nat
  BY LenProperties
<1>2. \A a, b : AtPlace(str, force, closed, L, a) = AtPlace(str, force, closed, L, b)
  <2>1. Rest(str, L) = <<>>
    BY <1>1, RestIs
  <2> QED
    BY <2>1 DEF AtPlace
<1> HIDE DEF L
<1>3. \E g : Down(0, g)
  <2> DEFINE g == [k \in L - 0 .. L |-> AtPlace(str, force, closed, L, 0)]
  <2>1. \A k \in L - 0 .. L : k = L
    BY <1>1
  <2>2. \A k \in L - 0 .. L : g[k] = AtPlace(str, force, closed, k, g[k + 1])
    BY <1>2, <2>1
  <2>3. g = [k \in L - 0 .. L |-> g[k]]
    OBVIOUS
  <2>4. Down(0, g)
    BY <2>2, <2>3
  <2> QED
    BY <2>4
<1>4. ASSUME NEW n \in 1 .. L, NEW g, Down(n - 1, g)
      PROVE  \E h : Down(n, h)
  <2> DEFINE h == [k \in L - n .. L |->
                     IF k = L - n THEN AtPlace(str, force, closed, k, g[k + 1]) ELSE g[k]]
  <2>1. ASSUME NEW k \in L - n .. L
        PROVE  h[k] = AtPlace(str, force, closed, k, h[k + 1])
    <3>1. \A j \in L - (n - 1) .. L : g[j] = AtPlace(str, force, closed, j, g[j + 1])
      BY <1>4
    <3>2. CASE k = L
      <4>1. k # L - n /\ k \in L - (n - 1) .. L
        BY <1>1, <3>2
      <4>2. h[k] = AtPlace(str, force, closed, L, g[k + 1])
        BY <3>1, <3>2, <4>1
      <4> QED
        BY <1>2, <3>2, <4>2
    <3>3. CASE k # L
      <4>1. k + 1 \in L - n .. L /\ k + 1 # L - n
        BY <1>1, <3>3
      <4>2. h[k + 1] = g[k + 1]
        BY <4>1
      <4>3. k # L - n => k \in L - (n - 1) .. L
        BY <1>1
      <4> QED
        BY <3>1, <4>2, <4>3
    <3> QED
      BY <3>2, <3>3
  <2>2. h = [k \in L - n .. L |-> h[k]]
    OBVIOUS
  <2> HIDE DEF h
  <2>3. Down(n, h)
    BY <2>1, <2>2
  <2> QED
    BY <2>3
<1> HIDE DEF Down
<1>5. Bad = {}
  <2> SUFFICES ASSUME Bad # {} PROVE FALSE
    OBVIOUS
  <2>1. PICK n \in Bad : \A m \in Bad : n <= m
    <3>1. Bad \subseteq Nat
      OBVIOUS
    <3> QED
      BY <3>1, HasLeast
  <2>2. n \in 0 .. L /\ ~(\E g : Down(n, g)) /\ n # 0
    BY <1>3, <2>1
  <2>3. n \in 1 .. L /\ n - 1 \in 0 .. L /\ ~(n <= n - 1)
    BY <1>1, <2>2
  <2>4. \E g : Down(n - 1, g)
    BY <2>1, <2>3
  <2> QED
    BY <1>4, <2>2, <2>3, <2>4
<1>6. PICK at : Down(L, at)
  <2>1. L \in 0 .. L
    BY <1>1
  <2>2. L \notin Bad
    BY <1>5, Zenon
  <2> QED
    BY <2>1, <2>2
<1>7. L - L .. L = 0 .. L
  BY <1>1
<1> QED
  BY <1>6, <1>7 DEF Down, L, Looks

LEMMA PeekkeyLooks ==
  ASSUME NEW S, NEW str \in Seq(S), NEW force, NEW closed
  PROVE  \E at : Looks(str, force, closed, at) /\ peekkey(str, force, closed) = at[0]
<1> DEFINE Is(at) == at = [k \in 0 .. Len(str) |-> AtPlace(str, force, closed, k, at[k + 1])]
           chosen == CHOOSE at : Is(at)
<1>1. \E at : Is(at)
  BY LooksExist DEF Looks
<1>2. peekkey(str, force, closed) = chosen[0]
  BY DEF peekkey, AtPlace
<1>3. Is(chosen)
  <2> HIDE DEF Is
  <2> QED
    BY <1>1
<1>4. Looks(str, force, closed, chosen)
  BY <1>3 DEF Looks
<1> HIDE DEF chosen
<1> QED
  BY <1>2, <1>4

(* What peekkey answers for the bytes from place k of len: the key is one  *)
(* of them on, and the place it was found at is inside it.                 *)
Answers(look, k, len, force) ==
  \/ look = Again /\ ~force
  \/ \E key : \E n \in 1 .. len - k : \E keep \in 0 .. len - k - n :
       \E alt \in k .. k + n - 1 : \E driver \in BOOLEAN :
         look = [res |-> "KEY", key |-> key, n |-> n, keep |-> keep,
                 alt |-> alt, driver |-> driver]

LEMMA KeyAnswers ==
  ASSUME NEW k, NEW len, NEW force, NEW key, NEW n \in 1 .. len - k,
         NEW keep \in 0 .. len - k - n, NEW alt \in k .. k + n - 1, NEW driver \in BOOLEAN
  PROVE  Answers([res |-> "KEY", key |-> key, n |-> n, keep |-> keep,
                  alt |-> alt, driver |-> driver], k, len, force)
BY DEF Answers

LEMMA FoundAnswers ==
  ASSUME NEW k \in Nat, NEW len \in Nat, k < len, NEW driver \in BOOLEAN,
         NEW force \in BOOLEAN, NEW look, Fits(look, len - k), look.res = "KEY"
  PROVE  Answers(Found(look, k, driver), k, len, force)
<1>1. look.n \in 1 .. len - k /\ look.keep \in 0 .. len - k - look.n /\ k \in k .. k + look.n - 1
  BY DEF Fits
<1> QED
  BY <1>1 DEF Found, Answers

LEMMA DeeperAnswers ==
  ASSUME NEW k \in Nat, NEW len \in Nat, k + 1 < len,
         NEW force \in BOOLEAN, NEW look, Answers(look, k + 1, len, force)
  PROVE  /\ Answers(Deeper(look), k, len, force)
         /\ Deeper(look).res = look.res
         /\ look.res = "KEY" => Deeper(look).keep = look.keep
<1>1. CASE look = Again /\ ~force
  BY <1>1 DEF Again, Deeper, Answers
<1>2. ASSUME NEW key, NEW n \in 1 .. len - (k + 1), NEW keep \in 0 .. len - (k + 1) - n,
             NEW alt \in k + 1 .. k + 1 + n - 1, NEW driver \in BOOLEAN,
             look = [res |-> "KEY", key |-> key, n |-> n, keep |-> keep,
                     alt |-> alt, driver |-> driver]
      PROVE  /\ Answers(Deeper(look), k, len, force)
             /\ Deeper(look).res = "KEY" /\ Deeper(look).keep = keep
  <2>1. Deeper(look) = [res |-> "KEY", key |-> With(key, {ALT}), n |-> n + 1, keep |-> keep,
                        alt |-> alt, driver |-> driver]
    BY <1>2 DEF Deeper
  <2>2. /\ n + 1 \in 1 .. len - k /\ keep \in 0 .. len - k - (n + 1)
        /\ alt \in k .. k + (n + 1) - 1
    OBVIOUS
  <2>3. Answers(Deeper(look), k, len, force)
    BY <2>1, <2>2, KeyAnswers, Zenon
  <2> QED
    BY <2>1, <2>3
<1> QED
  BY <1>1, <1>2 DEF Answers

(* The place k of the bytes, when what is behind it answers as it should.  *)
LEMMA PlaceAnswers ==
  ASSUME NEW S, NEW str \in Seq(S), NEW force \in BOOLEAN, NEW closed,
         NEW k \in 0 .. Len(str) - 1, NEW beyond,
         k + 1 < Len(str) => Answers(beyond, k + 1, Len(str), force)
  PROVE  Answers(AtPlace(str, force, closed, k, beyond), k, Len(str), force)
<1> DEFINE s == Rest(str, k)
           t == ti_peekkey(s, force)
           c == csi_peekkey(s, force)
           look == AtPlace(str, force, closed, k, beyond)
<1> SUFFICES Answers(look, k, Len(str), force)
  OBVIOUS
<1>1. /\ Len(str) \in Nat /\ k \in Nat /\ k < Len(str) /\ k \in 0 .. Len(str)
      /\ Len(str) - k \in Nat \ {0}
  BY LenProperties
<1>2. Len(s) = Len(str) - k /\ DOMAIN s = 1 .. Len(s) /\ s # <<>>
  BY <1>1, RestIs
<1>3. Fits(t, Len(str) - k) /\ Fits(c, Len(str) - k)
  BY <1>1, <1>2, TiDriver, CsiDriver
<1>4. look = PeekAt(s, k, force, t, c, beyond)
  BY <1>2 DEF AtPlace
<1>5. /\ Fits(SimpleKey(s, force), Len(str) - k) /\ SimpleKey(s, force).res # "NONE"
      /\ force => SimpleKey(s, force).res = "KEY"
      /\ SimpleKey(s, force) = Again \/ SimpleKey(s, force).res = "KEY"
  BY <1>1, <1>2, SimpleFits
<1> HIDE DEF s, t, c, look
<1>6. CASE t.res = "KEY"
  <2>1. look = Found(t, k, TRUE)
    BY <1>4, <1>6 DEF PeekAt
  <2> QED
    BY <1>1, <1>3, <1>6, <2>1, FoundAnswers, Zenon
<1>7. CASE t.res # "KEY" /\ c.res = "KEY"
  <2>1. look = Found(c, k, TRUE)
    BY <1>4, <1>7 DEF PeekAt
  <2> QED
    BY <1>1, <1>3, <1>7, <2>1, FoundAnswers, Zenon
<1>8. CASE t.res # "KEY" /\ c.res # "KEY"
  <2>1. CASE WantsMore(t, c, force) \/ (s = <<ESC>> /\ ~force)
    <3>1. look = Again /\ ~force
      BY <1>4, <1>8, <2>1 DEF PeekAt, WantsMore
    <3> QED
      BY <3>1 DEF Answers
  <2>2. CASE ~(WantsMore(t, c, force) \/ (s = <<ESC>> /\ ~force))
    <3>1. CASE s[1] = ESC /\ Len(s) > 1
      <4>1. look = Deeper(beyond)
        BY <1>4, <1>8, <2>2, <3>1 DEF PeekAt
      <4>2. k + 1 < Len(str)
        BY <1>1, <1>2, <3>1
      <4> QED
        BY <1>1, <4>1, <4>2, DeeperAnswers
    <3>2. CASE ~(s[1] = ESC /\ Len(s) > 1)
      <4>1. look = Found(SimpleKey(s, force), k, FALSE)
        BY <1>4, <1>8, <2>2, <3>2 DEF PeekAt
      <4>2. CASE SimpleKey(s, force).res = "KEY"
        BY <1>1, <1>5, <4>1, <4>2, FoundAnswers, Zenon
      <4>3. CASE SimpleKey(s, force).res # "KEY"
        <5>1. SimpleKey(s, force) = Again /\ ~force
          BY <1>5, <4>3
        <5>2. look = Again
          BY <4>1, <4>3, <5>1 DEF Found
        <5> QED
          BY <5>1, <5>2 DEF Answers
      <4> QED
        BY <4>2, <4>3
    <3> QED
      BY <3>1, <3>2
  <2> QED
    BY <2>1, <2>2
<1> QED
  BY <1>6, <1>7, <1>8

LEMMA LooksAnswer ==
  ASSUME NEW S, NEW str \in Seq(S), NEW force \in BOOLEAN, NEW closed,
         NEW at, Looks(str, force, closed, at)
  PROVE  \A k \in 0 .. Len(str) - 1 :
           /\ at[k] = AtPlace(str, force, closed, k, at[k + 1])
           /\ Answers(at[k], k, Len(str), force)
<1> DEFINE L == Len(str)
           Right(k) == Answers(at[k], k, L, force)
           Bad == {n \in 1 .. L : ~Right(L - n)}
<1>1. L \in Nat
  BY LenProperties
<1>2. \A k \in 0 .. L - 1 : at[k] = AtPlace(str, force, closed, k, at[k + 1])
  <2>1. \A k \in 0 .. L : at[k] = AtPlace(str, force, closed, k, at[k + 1])
    BY DEF Looks
  <2>2. \A k \in 0 .. L - 1 : k \in 0 .. L
    BY <1>1
  <2> HIDE DEF L
  <2> QED
    BY <2>1, <2>2
<1>3. ASSUME NEW k \in 0 .. L - 1, k + 1 < L => Right(k + 1)
      PROVE  Right(k)
  BY <1>2, <1>3, PlaceAnswers
<1> HIDE DEF Right, L
<1>4. Bad = {}
  <2> SUFFICES ASSUME Bad # {} PROVE FALSE
    OBVIOUS
  <2>1. PICK n \in Bad : \A m \in Bad : n <= m
    <3>1. Bad \subseteq Nat
      OBVIOUS
    <3> QED
      BY <3>1, HasLeast
  <2>2. n \in 1 .. L /\ ~Right(L - n) /\ L - n \in 0 .. L - 1
    BY <1>1, <2>1
  <2>3. L - n + 1 < L => n - 1 \in 1 .. L /\ L - (n - 1) = L - n + 1 /\ ~(n <= n - 1)
    BY <1>1, <2>2
  <2>4. L - n + 1 < L => Right(L - n + 1)
    <3> SUFFICES ASSUME L - n + 1 < L PROVE Right(L - (n - 1))
      BY <2>3
    <3>1. n - 1 \notin Bad /\ n - 1 \in 1 .. L
      BY <2>1, <2>3
    <3> QED
      BY <3>1
  <2> QED
    BY <1>3, <2>2, <2>4
<1>5. ASSUME NEW k \in 0 .. L - 1 PROVE Right(k)
  <2>1. L - k \in 1 .. L /\ L - (L - k) = k
    BY <1>1
  <2>2. L - k \notin Bad
    BY <1>4, Zenon
  <2>3. Right(L - (L - k))
    BY <2>1, <2>2
  <2> QED
    BY <2>1, <2>3
<1> QED
  BY <1>2, <1>5 DEF L, Right

-----------------------------------------------------------------------------
(* No string of the terminal begins with two Escapes, or with an Escape    *)
(* and the 8-bit CSI, and its mouse prefix is not a lone Escape.  With     *)
(* such a string the forced look behind an AGAIN can meet an unknown CSI   *)
(* sequence behind an Escape, whose bytes the next look drops.             *)
NoMetaStrings ==
  \A q \in KeyStrings : q[1] = ESC =>
    /\ Len(q) > 1 => q[2] \notin {ESC, 155}
    /\ q \in MouseIntro => Len(q) > 1

LEMMA PrefixAgrees ==
  ASSUME NEW a, NEW b, IsPrefix(a, b), Len(a) \in Nat
  PROVE  Len(a) <= Len(b) /\ \A i \in 1 .. Len(a) : a[i] = b[i]
<1> DEFINE n == Len(a)
           A == SubSeq(a, 1, n)
           B == SubSeq(b, 1, n)
<1>1. n \in Int /\ 1 \in Int
  OBVIOUS
<1>2. \A i \in 1 .. n - 1 + 1 : A[i] = a[1 + i - 1]
  <2> DEFINE T == {a[i] : i \in 1 .. n}
  <2>1. \A i \in 1 .. n : a[i] \in T
    OBVIOUS
  <2> HIDE DEF T
  <2> QED
    BY <1>1, <2>1, SubSeqProperties
<1>3. \A i \in 1 .. n - 1 + 1 : B[i] = b[1 + i - 1]
  <2> DEFINE T == {b[i] : i \in 1 .. n}
  <2>1. \A i \in 1 .. n : b[i] \in T
    OBVIOUS
  <2> HIDE DEF T
  <2> QED
    BY <1>1, <2>1, SubSeqProperties
<1>4. Len(a) <= Len(b) /\ A = B
  BY DEF IsPrefix
<1>5. \A i \in 1 .. n : i \in 1 .. n - 1 + 1 /\ 1 + i - 1 = i
  BY <1>1
<1> HIDE DEF n, A, B
<1>6. \A i \in 1 .. n : a[i] = b[i]
  BY <1>2, <1>3, <1>4, <1>5
<1> QED
  BY <1>4, <1>6 DEF n

(* Only what begins with an Escape or the 8-bit CSI has bytes kept.        *)
LEMMA PlaceKeeps ==
  ASSUME NEW S, NEW str \in Seq(S), NEW force \in BOOLEAN, NEW closed,
         NEW k \in 0 .. Len(str) - 1, NEW beyond,
         AtPlace(str, force, closed, k, beyond).res = "KEY",
         AtPlace(str, force, closed, k, beyond).keep # 0
  PROVE  str[k + 1] \in {ESC, 155}
<1> DEFINE s == Rest(str, k)
           t == ti_peekkey(s, force)
           c == csi_peekkey(s, force)
           look == AtPlace(str, force, closed, k, beyond)
<1>1. /\ Len(str) \in Nat /\ k \in 0 .. Len(str) /\ Len(str) - k \in Nat \ {0}
      /\ 1 \in 1 .. Len(str) - k
  BY LenProperties
<1>2. Len(s) \in Nat \ {0} /\ DOMAIN s = 1 .. Len(s) /\ s # <<>> /\ s[1] = str[k + 1]
  BY <1>1, RestIs
<1>3. /\ t.res = "KEY" => t.keep = 0
      /\ c.res = "KEY" /\ c.keep # 0 => s[1] \in {ESC, 155}
      /\ SimpleKey(s, force).res = "KEY" => SimpleKey(s, force).keep = 0
  BY <1>2, TiDriver, CsiDriver, SimpleFits
<1>4. look = PeekAt(s, k, force, t, c, beyond)
  BY <1>2 DEF AtPlace
<1>5. look.res = "KEY" /\ look.keep # 0
  OBVIOUS
<1> HIDE DEF s, t, c, look
<1>6. \/ t.res = "KEY" /\ look.keep = t.keep
      \/ c.res = "KEY" /\ look.keep = c.keep
      \/ s[1] = ESC
      \/ SimpleKey(s, force).res = "KEY" /\ look.keep = SimpleKey(s, force).keep
  BY <1>4, <1>5 DEF PeekAt, Found, Again
<1> QED
  BY <1>2, <1>3, <1>5, <1>6

(* A flag that is on: a formula, for the provers, apart from the value.     *)
On(flag) == flag

(* What an unforced look waits for, a forced one keeps nothing of.         *)
LEMMA PlaceForced ==
  ASSUME NEW S, NEW str \in Seq(S), NEW closed, NoMetaStrings,
         NEW no \in BOOLEAN, NEW yes \in BOOLEAN,
         NEW k \in 0 .. Len(str) - 1, NEW u, NEW f,
         k + 1 < Len(str) =>
           /\ Answers(u, k + 1, Len(str), no) /\ Answers(f, k + 1, Len(str), yes)
           /\ On(yes) => (u.res = "AGAIN" => f.keep = 0)
           /\ f.res = "KEY" /\ f.keep # 0 => str[k + 2] \in {ESC, 155},
         AtPlace(str, no, closed, k, u).res = "AGAIN"
  PROVE  On(yes) => AtPlace(str, yes, closed, k, f).keep = 0
<1> DEFINE s == Rest(str, k)
           tu == ti_peekkey(s, no)
           cu == csi_peekkey(s, no)
           tf == ti_peekkey(s, yes)
           cf == csi_peekkey(s, yes)
           lu == AtPlace(str, no, closed, k, u)
           lf == AtPlace(str, yes, closed, k, f)
<1>1. /\ Len(str) \in Nat /\ k \in 0 .. Len(str) /\ k \in Nat
      /\ Len(str) - k \in Nat \ {0} /\ 1 \in 1 .. Len(str) - k
  BY LenProperties
<1>2. /\ Len(s) = Len(str) - k /\ DOMAIN s = 1 .. Len(s) /\ s # <<>>
      /\ Len(s) > 1 => s[2] = str[k + 2]
  BY <1>1, RestIs
<1>3. lu = PeekAt(s, k, no, tu, cu, u) /\ lf = PeekAt(s, k, yes, tf, cf, f)
  BY <1>2 DEF AtPlace
<1>4. lu.res = "AGAIN"
  OBVIOUS
<1>5. \A found, driver :
        /\ found.res = "KEY" =>
             Found(found, k, driver).res = "KEY" /\ Found(found, k, driver).keep = found.keep
  BY DEF Found
<1>6. tu.res # "KEY" /\ cu.res # "KEY"
  <2> HIDE DEF s, tu, cu, tf, cf, lu, lf
  <2> QED
    BY <1>3, <1>4, <1>5 DEF PeekAt
<1>7. /\ cf.res = "KEY" => cf.keep = 0
      /\ cu.res = "AGAIN" /\ s[1] = ESC => Len(s) > 1 /\ s[2] \in {79, 80, 91, 93}
  <2>1. Len(s) \in Nat \ {0}
    BY <1>1, <1>2
  <2>2. DOMAIN s = 1 .. Len(s)
    BY <1>2
  <2>3. csi_peekkey(s, no).res # "KEY"
    BY <1>6
  <2> HIDE DEF s
  <2> QED
    BY <2>1, <2>2, <2>3, CsiDriverForced
<1> SUFFICES ASSUME On(yes) PROVE lf.keep = 0
  OBVIOUS
<1>8. /\ tf.res # "KEY"
      /\ tu.res = "AGAIN" =>
           \/ \E q \in MouseIntro : IsPrefix(q, s)
           \/ \E long \in KeyStrings : IsPrefix(s, long)
  BY <1>1, <1>2, <1>6, TiDriverForced DEF On
<1>9. SimpleKey(s, yes).res = "KEY" /\ SimpleKey(s, yes).keep = 0
  BY <1>1, <1>2, SimpleFits DEF On
<1>10. ASSUME tu.res = "AGAIN", s[1] = ESC, Len(s) > 1
       PROVE  s[2] \notin {ESC, 155}
  <2>1. ASSUME NEW q \in MouseIntro, IsPrefix(q, s) PROVE s[2] \notin {ESC, 155}
    <3>1. q \in KeyStrings /\ Len(q) \in Nat \ {0}
      BY StringLen DEF KeyStrings
    <3>2. \A i \in 1 .. Len(q) : q[i] = s[i]
      BY <2>1, <3>1, PrefixAgrees
    <3>3. q[1] = ESC
      BY <1>10, <3>1, <3>2
    <3>4. Len(q) > 1 /\ q[2] \notin {ESC, 155}
      BY <3>1, <3>3 DEF NoMetaStrings
    <3>5. q[2] = s[2]
      BY <3>1, <3>2, <3>4
    <3> QED
      BY <3>4, <3>5
  <2>2. ASSUME NEW long \in KeyStrings, IsPrefix(s, long) PROVE s[2] \notin {ESC, 155}
    <3>1. Len(s) \in Nat
      BY <1>1, <1>2
    <3>2. Len(s) <= Len(long) /\ \A i \in 1 .. Len(s) : s[i] = long[i]
      BY <2>2, <3>1, PrefixAgrees
    <3>3. long[1] = ESC /\ long[2] = s[2]
      BY <1>10, <3>1, <3>2
    <3>4. Len(long) \in Nat
      BY StringLen
    <3>5. Len(long) > 1
      BY <1>10, <3>1, <3>2, <3>4
    <3> QED
      BY <3>3, <3>5 DEF NoMetaStrings
  <2> QED
    BY <1>8, <1>10, <2>1, <2>2
<1>11. s = <<ESC>> => ~(Len(s) > 1)
  OBVIOUS
<1>12. s[1] = ESC /\ Len(s) > 1 => k + 1 < Len(str)
  BY <1>1, <1>2
<1> HIDE DEF s, tu, cu, tf, cf, lu, lf
<1>13. CASE cf.res = "KEY"
  <2>1. lf = Found(cf, k, TRUE)
    BY <1>3, <1>8, <1>13 DEF PeekAt
  <2> QED
    BY <1>7, <1>13, <2>1 DEF Found
<1>14. CASE cf.res # "KEY" /\ ~(s[1] = ESC /\ Len(s) > 1)
  <2>1. lf = Found(SimpleKey(s, yes), k, FALSE)
    BY <1>3, <1>8, <1>14 DEF PeekAt, WantsMore, On
  <2> QED
    BY <1>9, <2>1 DEF Found
<1>15. CASE cf.res # "KEY" /\ s[1] = ESC /\ Len(s) > 1
  <2>1. lf = Deeper(f)
    BY <1>3, <1>8, <1>15 DEF PeekAt, WantsMore, On
  <2>2. PICK key, n, keep, alt, driver :
               f = [res |-> "KEY", key |-> key, n |-> n, keep |-> keep,
                    alt |-> alt, driver |-> driver]
    BY <1>12, <1>15 DEF Answers, On
  <2>3. f.res = "KEY" /\ Deeper(f).keep = f.keep
    BY <2>2 DEF Deeper
  <2>4. f.keep = 0
    <3>1. CASE WantsMore(tu, cu, no)
      <4>1. s[2] \notin {ESC, 155}
        BY <1>7, <1>10, <1>15, <3>1 DEF WantsMore, ESC
      <4> QED
        BY <1>2, <1>12, <1>15, <2>3, <4>1
    <3>2. CASE ~WantsMore(tu, cu, no)
      <4>1. lu = Deeper(u)
        BY <1>3, <1>6, <1>11, <1>15, <3>2 DEF PeekAt
      <4>2. u.res = "AGAIN"
        BY <1>1, <1>4, <1>12, <1>15, <4>1, DeeperAnswers
      <4> QED
        BY <1>12, <1>15, <4>2
    <3> QED
      BY <3>1, <3>2
  <2> QED
    BY <2>1, <2>3, <2>4
<1> QED
  BY <1>13, <1>14, <1>15

LEMMA LooksForced ==
  ASSUME NEW S, NEW str \in Seq(S), NEW closed, NoMetaStrings,
         NEW no \in BOOLEAN, NEW yes \in BOOLEAN,
         NEW u, Looks(str, no, closed, u), NEW f, Looks(str, yes, closed, f)
  PROVE  On(yes) => \A k \in 0 .. Len(str) - 1 : u[k].res = "AGAIN" => f[k].keep = 0
<1> DEFINE L == Len(str)
           Right(k) == On(yes) => (u[k].res = "AGAIN" => f[k].keep = 0)
           Bad == {n \in 1 .. L : ~Right(L - n)}
<1>1. L \in Nat
  BY LenProperties
<1>2. \A k \in 0 .. L - 1 :
        /\ u[k] = AtPlace(str, no, closed, k, u[k + 1]) /\ Answers(u[k], k, L, no)
        /\ f[k] = AtPlace(str, yes, closed, k, f[k + 1]) /\ Answers(f[k], k, L, yes)
  BY LooksAnswer
<1>3. ASSUME NEW k \in 0 .. L - 1, k + 1 < L => Right(k + 1)
      PROVE  Right(k)
  <2>1. ASSUME k + 1 < L
        PROVE  /\ Answers(u[k + 1], k + 1, L, no) /\ Answers(f[k + 1], k + 1, L, yes)
               /\ f[k + 1].res = "KEY" /\ f[k + 1].keep # 0 => str[k + 2] \in {ESC, 155}
    <3>1. k + 1 \in 0 .. L - 1 /\ k + 1 + 1 = k + 2
      BY <1>1, <2>1
    <3>2. f[k + 1] = AtPlace(str, yes, closed, k + 1, f[k + 1 + 1])
      BY <1>2, <3>1
    <3>3. /\ Answers(u[k + 1], k + 1, L, no)
          /\ Answers(f[k + 1], k + 1, L, yes)
      BY <1>2, <3>1
    <3>4. f[k + 1].res = "KEY" /\ f[k + 1].keep # 0 => str[k + 1 + 1] \in {ESC, 155}
      <4> HIDE DEF L
      <4> QED
        BY <3>1, <3>2, PlaceKeeps DEF L
    <3> QED
      BY <3>1, <3>3, <3>4
  <2>2. u[k] = AtPlace(str, no, closed, k, u[k + 1]) /\ f[k] = AtPlace(str, yes, closed, k, f[k + 1])
    BY <1>2
  <2>3. k + 1 < Len(str) =>
          /\ Answers(u[k + 1], k + 1, Len(str), no) /\ Answers(f[k + 1], k + 1, Len(str), yes)
          /\ On(yes) => (u[k + 1].res = "AGAIN" => f[k + 1].keep = 0)
          /\ f[k + 1].res = "KEY" /\ f[k + 1].keep # 0 => str[k + 2] \in {ESC, 155}
    BY <1>3, <2>1
  <2>4. k \in 0 .. Len(str) - 1
    OBVIOUS
  <2>5. AtPlace(str, no, closed, k, u[k + 1]).res = "AGAIN" =>
          (On(yes) => AtPlace(str, yes, closed, k, f[k + 1]).keep = 0)
    <3>1. PICK a, b : a = u[k + 1] /\ b = f[k + 1]
      OBVIOUS
    <3>2. ASSUME AtPlace(str, no, closed, k, a).res = "AGAIN"
          PROVE  On(yes) => AtPlace(str, yes, closed, k, b).keep = 0
      <4>1. k + 1 < Len(str) =>
              /\ Answers(a, k + 1, Len(str), no) /\ Answers(b, k + 1, Len(str), yes)
              /\ On(yes) => (a.res = "AGAIN" => b.keep = 0)
              /\ b.res = "KEY" /\ b.keep # 0 => str[k + 2] \in {ESC, 155}
        BY <2>3, <3>1
      <4> QED
        BY <2>4, <3>2, <4>1, PlaceForced
    <3> QED
      BY <3>1, <3>2
  <2> QED
    BY <2>2, <2>5
<1> HIDE DEF Right, L
<1>4. Bad = {}
  <2> SUFFICES ASSUME Bad # {} PROVE FALSE
    OBVIOUS
  <2>1. PICK n \in Bad : \A m \in Bad : n <= m
    <3>1. Bad \subseteq Nat
      OBVIOUS
    <3> QED
      BY <3>1, HasLeast
  <2>2. n \in 1 .. L /\ ~Right(L - n) /\ L - n \in 0 .. L - 1
    BY <1>1, <2>1
  <2>3. L - n + 1 < L => n - 1 \in 1 .. L /\ L - (n - 1) = L - n + 1 /\ ~(n <= n - 1)
    BY <1>1, <2>2
  <2>4. L - n + 1 < L => Right(L - n + 1)
    <3> SUFFICES ASSUME L - n + 1 < L PROVE Right(L - (n - 1))
      BY <2>3
    <3>1. n - 1 \notin Bad /\ n - 1 \in 1 .. L
      BY <2>1, <2>3
    <3> QED
      BY <3>1
  <2> QED
    BY <1>3, <2>2, <2>4
<1>5. ASSUME NEW k \in 0 .. L - 1 PROVE Right(k)
  <2>1. L - k \in 1 .. L /\ L - (L - k) = k
    BY <1>1
  <2>2. L - k \notin Bad
    BY <1>4, Zenon
  <2>3. Right(L - (L - k))
    BY <2>1, <2>2
  <2> QED
    BY <2>1, <2>3
<1> QED
  BY <1>5 DEF L, Right

-----------------------------------------------------------------------------
(* What a look answers, unforced and forced.                               *)
LEMMA PeekkeyAnswers ==
  ASSUME NEW S, NEW str \in Seq(S), NEW force \in BOOLEAN, NEW closed
  PROVE  /\ str # <<>> => Answers(peekkey(str, force, closed), 0, Len(str), force)
         /\ str = <<>> => peekkey(str, force, closed).res \in {"NONE", "EOF"}
<1>1. PICK at : Looks(str, force, closed, at) /\ peekkey(str, force, closed) = at[0]
  BY PeekkeyLooks
<1>2. Len(str) \in Nat /\ (str # <<>> => Len(str) > 0)
  BY LenProperties, EmptySeq
<1>3. CASE str # <<>>
  <2>1. 0 \in 0 .. Len(str) - 1
    BY <1>2, <1>3
  <2>2. Answers(at[0], 0, Len(str), force)
    BY <1>1, <2>1, LooksAnswer
  <2> QED
    BY <1>1, <1>3, <2>2
<1>4. CASE str = <<>>
  <2>1. Len(str) = 0 /\ 0 \in 0 .. Len(str)
    BY <1>4, EmptySeq
  <2>2. Rest(str, 0) = <<>>
    <3>1. PICK k \in 0 .. Len(str) : k = 0
      BY <2>1
    <3>2. Rest(str, k) = <<>> <=> k = Len(str)
      BY RestIs
    <3> QED
      BY <2>1, <3>1, <3>2
  <2>3. at[0] = AtPlace(str, force, closed, 0, at[0 + 1])
    BY <1>1, <2>1 DEF Looks
  <2>4. at[0].res \in {"NONE", "EOF"}
    BY <2>2, <2>3 DEF AtPlace, NoKey
  <2> QED
    BY <1>1, <1>4, <2>4
<1> QED
  BY <1>3, <1>4

LEMMA PeekkeyForced ==
  ASSUME NEW S, NEW str \in Seq(S), str # <<>>, NEW closed, NoMetaStrings,
         NEW no \in BOOLEAN, NEW yes \in BOOLEAN, On(yes),
         peekkey(str, no, closed).res = "AGAIN"
  PROVE  peekkey(str, yes, closed).keep = 0
<1>1. PICK u : Looks(str, no, closed, u) /\ peekkey(str, no, closed) = u[0]
  BY PeekkeyLooks
<1>2. PICK f : Looks(str, yes, closed, f) /\ peekkey(str, yes, closed) = f[0]
  BY PeekkeyLooks
<1>3. 0 \in 0 .. Len(str) - 1
  BY LenProperties, EmptySeq
<1>4. u[0].res = "AGAIN"
  BY <1>1
<1>5. f[0].keep = 0
  BY <1>1, <1>2, <1>3, <1>4, LooksForced
<1> QED
  BY <1>2, <1>5

-----------------------------------------------------------------------------
(* What a look finds in some bytes does not change when more follow them:  *)
(* first of all, the operators that look for the first byte of a kind.     *)
Continues(r, s) ==
  /\ Len(s) \in Nat /\ Len(r) \in Nat /\ Len(s) <= Len(r)
  /\ DOMAIN s = 1 .. Len(s) /\ DOMAIN r = 1 .. Len(r)
  /\ \A i \in 1 .. Len(s) : r[i] = s[i]

LEMMA MinIsLeast ==
  ASSUME NEW T, T \subseteq Nat, NEW x \in T, \A y \in T : x <= y
  PROVE  Min(T) = x
<1>1. Min(T) \in T /\ \A y \in T : Min(T) <= y
  BY HasLeast DEF Min
<1>2. Min(T) \in Nat /\ x \in Nat /\ Min(T) <= x /\ x <= Min(T)
  BY <1>1
<1> QED
  BY <1>2

LEMMA MinSame ==
  ASSUME NEW T, NEW U, U \subseteq Nat, T \subseteq U, T # {},
         \A x \in U \ T : \A y \in T : y <= x
  PROVE  Min(U) = Min(T)
<1>1. PICK x \in T : \A y \in T : x <= y
  BY HasLeast
<1>2. x \in U /\ \A y \in U : x <= y
  BY <1>1
<1> QED
  BY <1>1, <1>2, MinIsLeast

LEMMA SubSeqSame ==
  ASSUME NEW r, NEW s, Continues(r, s), NEW m \in Nat \ {0}, NEW n \in Int, n <= Len(s)
  PROVE  SubSeq(r, m, n) = SubSeq(s, m, n)
<1> DEFINE T == {s[i] : i \in 1 .. Len(s)}
           A == SubSeq(s, m, n)
           B == SubSeq(r, m, n)
<1>1. \A i \in m .. n : i \in 1 .. Len(s)
  BY DEF Continues
<1>2. \A i \in m .. n : s[i] \in T /\ r[i] \in T /\ r[i] = s[i]
  BY <1>1 DEF Continues
<1> HIDE DEF T
<1>3. /\ A \in Seq(T) /\ Len(A) = IF m <= n THEN n - m + 1 ELSE 0
      /\ \A i \in 1 .. n - m + 1 : A[i] = s[m + i - 1]
  BY <1>2, SubSeqProperties
<1>4. /\ B \in Seq(T) /\ Len(B) = IF m <= n THEN n - m + 1 ELSE 0
      /\ \A i \in 1 .. n - m + 1 : B[i] = r[m + i - 1]
  BY <1>2, SubSeqProperties
<1> HIDE DEF A, B
<1>5. \A i \in 1 .. Len(A) : i \in 1 .. n - m + 1 /\ m + i - 1 \in m .. n
  BY <1>3
<1>6. \A i \in 1 .. Len(A) : A[i] = B[i]
  BY <1>2, <1>3, <1>4, <1>5
<1>7. A = B
  BY <1>3, <1>4, <1>6, SeqEqual
<1> QED
  BY <1>7 DEF A, B

LEMMA MouseStable ==
  ASSUME NEW r, NEW s, Continues(r, s), NEW n \in Nat, peekkey_mouse(s, n).res = "KEY"
  PROVE  peekkey_mouse(r, n) = peekkey_mouse(s, n)
<1>1. ~(Len(s) < n + 3) /\ ~(Len(r) < n + 3)
  BY DEF peekkey_mouse, Again, Continues
<1>2. r[n + 1] = s[n + 1] /\ r[n + 2] = s[n + 2] /\ r[n + 3] = s[n + 3]
  BY <1>1 DEF Continues
<1> QED
  BY <1>1, <1>2 DEF peekkey_mouse

(* Where parse_csi ends, and what it makes of the bytes up to there.       *)
CsiEnds(s, introlen) == {i \in introlen + 1 .. Len(s) : s[i] \in 64 .. 127}
CsiBody(s, introlen, end) == SubSeq(s, introlen + 1, end - 1)
BodyAt(body) == SelectInSeq(body, LAMBDA b : b \in Intermediates)

LEMMA ParseCsiIs ==
  ASSUME NEW s, Len(s) \in Nat, NEW introlen \in 0 .. 2
  PROVE  /\ CsiEnds(s, introlen) = {} => parse_csi(s, introlen) = Again
         /\ CsiEnds(s, introlen) # {} =>
              \E end \in CsiEnds(s, introlen) :
                /\ \A i \in CsiEnds(s, introlen) : end <= i
                /\ parse_csi(s, introlen) =
                     Parsed(s[end], end, CsiBody(s, introlen, end),
                            BodyAt(CsiBody(s, introlen, end)))
<1> DEFINE T == CsiEnds(s, introlen)
           end == IF T # {} THEN Min(T) ELSE 0
<1>1. parse_csi(s, introlen) =
        IF end = 0 THEN Again
        ELSE Parsed(s[end], end, CsiBody(s, introlen, end), BodyAt(CsiBody(s, introlen, end)))
  BY DEF parse_csi, SelectInSubSeq, CsiEnds, CsiBody, BodyAt
<1>2. T \subseteq Nat /\ 0 \notin T
  BY DEF CsiEnds
<1> HIDE DEF T
<1>3. CASE T = {}
  BY <1>1, <1>3 DEF T
<1>4. CASE T # {}
  <2>1. Min(T) \in T /\ \A i \in T : Min(T) <= i
    BY <1>2, <1>4, HasLeast DEF Min
  <2>2. end = Min(T) /\ end # 0
    BY <1>2, <1>4, <2>1
  <2> HIDE DEF end
  <2> QED
    BY <1>1, <1>4, <2>1, <2>2 DEF T
<1> QED
  BY <1>3, <1>4 DEF T

LEMMA ParsedIsKey ==
  ASSUME NEW cmd, NEW end, NEW body, NEW at
  PROVE  /\ Parsed(cmd, end, body, at) # Again
         /\ Parsed(cmd, end, body, at).csi_len = end
BY DEF Parsed, Again

LEMMA ParseCsiStable ==
  ASSUME NEW r, NEW s, Continues(r, s), NEW introlen \in 0 .. 2,
         parse_csi(s, introlen) # Again
  PROVE  parse_csi(r, introlen) = parse_csi(s, introlen)
<1>1. Len(s) \in Nat /\ Len(r) \in Nat /\ Len(s) <= Len(r)
  BY DEF Continues
<1>2. PICK end \in CsiEnds(s, introlen) :
        /\ \A i \in CsiEnds(s, introlen) : end <= i
        /\ parse_csi(s, introlen) =
             Parsed(s[end], end, CsiBody(s, introlen, end), BodyAt(CsiBody(s, introlen, end)))
  BY <1>1, ParseCsiIs
<1>3. end \in introlen + 1 .. Len(s) /\ end \in 1 .. Len(s) /\ r[end] = s[end]
  BY <1>1, <1>2 DEF CsiEnds, Continues
<1>4. end \in CsiEnds(r, introlen)
  <2>1. s[end] \in 64 .. 127
    BY <1>2 DEF CsiEnds
  <2>2. end \in introlen + 1 .. Len(r) /\ r[end] \in 64 .. 127
    BY <1>1, <1>3, <2>1
  <2> QED
    BY <2>2 DEF CsiEnds
<1>5. \A i \in CsiEnds(r, introlen) : end <= i
  <2> SUFFICES ASSUME NEW i \in CsiEnds(r, introlen), ~(end <= i) PROVE FALSE
    OBVIOUS
  <2>1. i \in introlen + 1 .. Len(r) /\ r[i] \in 64 .. 127 /\ i < end
    BY <1>3 DEF CsiEnds
  <2>2. i \in introlen + 1 .. Len(s) /\ i \in 1 .. Len(s)
    BY <1>1, <1>3, <2>1
  <2>3. r[i] = s[i]
    BY <2>2 DEF Continues
  <2>4. i \in CsiEnds(s, introlen)
    BY <2>1, <2>2, <2>3 DEF CsiEnds
  <2> QED
    BY <1>2, <2>4
<1>6. PICK last \in CsiEnds(r, introlen) :
        /\ \A i \in CsiEnds(r, introlen) : last <= i
        /\ parse_csi(r, introlen) =
             Parsed(r[last], last, CsiBody(r, introlen, last), BodyAt(CsiBody(r, introlen, last)))
  BY <1>1, <1>4, ParseCsiIs
<1>7. last = end
  <2>1. last \in Int /\ end \in Int /\ last <= end /\ end <= last
    BY <1>3, <1>4, <1>5, <1>6 DEF CsiEnds
  <2> QED
    BY <2>1
<1>8. CsiBody(r, introlen, end) = CsiBody(s, introlen, end)
  <2>1. introlen + 1 \in Nat \ {0} /\ end - 1 \in Int /\ end - 1 <= Len(s)
    BY <1>3
  <2> QED
    BY <2>1, SubSeqSame DEF CsiBody
<1> QED
  BY <1>2, <1>3, <1>6, <1>7, <1>8

LEMMA CsiKeyIs ==
  ASSUME NEW s, NEW introlen, NEW force \in BOOLEAN
  PROVE  /\ parse_csi(s, introlen) # Again =>
              peekkey_csi(s, introlen, force) =
                CsiKey(s, introlen, parse_csi(s, introlen), csi_handlers(parse_csi(s, introlen)))
         /\ parse_csi(s, introlen) = Again /\ ~On(force) =>
              peekkey_csi(s, introlen, force) = Again
BY DEF peekkey_csi, On

LEMMA CsiStable ==
  ASSUME NEW r, NEW s, Continues(r, s), NEW introlen \in 1 .. 2, NEW no \in BOOLEAN, ~On(no),
         peekkey_csi(s, introlen, no).res = "KEY"
  PROVE  peekkey_csi(r, introlen, no) = peekkey_csi(s, introlen, no)
<1>1. parse_csi(s, introlen) # Again
  BY CsiKeyIs DEF Again
<1>2. introlen \in 0 .. 2 /\ Len(s) \in Nat
  BY DEF Continues
<1>3. parse_csi(r, introlen) = parse_csi(s, introlen)
  BY <1>1, <1>2, ParseCsiStable
<1>4. PICK csi, handled : csi = parse_csi(s, introlen) /\ handled = csi_handlers(csi)
  OBVIOUS
<1>5. /\ peekkey_csi(s, introlen, no) = CsiKey(s, introlen, csi, handled)
      /\ peekkey_csi(r, introlen, no) = CsiKey(r, introlen, csi, handled)
  BY <1>1, <1>3, <1>4, CsiKeyIs
<1>6. csi.csi_len \in Nat
  <2>1. PICK end \in introlen + 1 .. Len(s) : \E cmd, body, at : csi = Parsed(cmd, end, body, at)
    BY <1>1, <1>2, <1>4, ParseCsiEnds
  <2> QED
    BY <1>2, <2>1, ParsedIsKey
<1>7. CASE Plain(csi) /\ csi.cmd = 77 /\ Len(csi.args) < 3
  <2>1. /\ CsiKey(s, introlen, csi, handled) = peekkey_mouse(s, csi.csi_len)
        /\ CsiKey(r, introlen, csi, handled) = peekkey_mouse(r, csi.csi_len)
    BY <1>7 DEF CsiKey
  <2> QED
    BY <1>5, <1>6, <2>1, MouseStable
<1>8. CASE ~(Plain(csi) /\ csi.cmd = 77 /\ Len(csi.args) < 3)
  BY <1>5, <1>8 DEF CsiKey
<1> QED
  BY <1>7, <1>8

LEMMA Ss3Stable ==
  ASSUME NEW r, NEW s, Continues(r, s), NEW introlen \in 1 .. 2, NEW no \in BOOLEAN, ~On(no),
         peekkey_ss3(s, introlen, no).res # "AGAIN"
  PROVE  peekkey_ss3(r, introlen, no) = peekkey_ss3(s, introlen, no)
<1>1. ~(Len(s) < introlen + 1)
  BY DEF peekkey_ss3, Again, On
<1>2. introlen + 1 \in 1 .. Len(s) /\ ~(Len(r) < introlen + 1)
  BY <1>1 DEF Continues
<1>3. r[introlen + 1] = s[introlen + 1]
  BY <1>2 DEF Continues
<1> QED
  BY <1>1, <1>2, <1>3 DEF peekkey_ss3

(* A control string, up to the byte that ends it.                          *)
EndsString(s, i) == s[i] = 156 \/ (s[i] = ESC /\ i < Len(s) /\ s[i + 1] = 92)
StringEnds(s, introlen) == {i \in introlen + 1 .. Len(s) : EndsString(s, i)}
StringKey(s, introlen, end) ==
  Key([type |-> IF s[introlen] \in {80, 144} THEN "DCS" ELSE "OSC", mods |-> {},
       code |-> SubSeq(s, introlen + 1, end - 1)],
      IF s[end] = ESC THEN end + 1 ELSE end)

LEMMA CtrlstringIs ==
  ASSUME NEW s, Len(s) \in Nat, DOMAIN s = 1 .. Len(s), NEW introlen \in 1 .. 2
  PROVE  /\ StringEnds(s, introlen) = {} => peekkey_ctrlstring(s, introlen) = Again
         /\ StringEnds(s, introlen) # {} =>
              \E end \in StringEnds(s, introlen) :
                /\ \A i \in StringEnds(s, introlen) : end <= i
                /\ peekkey_ctrlstring(s, introlen) = StringKey(s, introlen, end)
<1> DEFINE T == StringEnds(s, introlen)
           Ends(i) == s[i] = 156 \/ (s[i] = ESC /\ i < Len(s) /\ s[i + 1] = 92)
           U == {i \in introlen + 1 .. Len(s) : Ends([j \in DOMAIN s |-> j][i])}
           end == IF U # {} THEN Min(U) ELSE 0
<1>1. peekkey_ctrlstring(s, introlen) =
        IF end = 0 THEN Again ELSE StringKey(s, introlen, end)
  BY DEF peekkey_ctrlstring, SelectInSubSeq, StringKey
<1>2. U = T
  <2>1. \A i \in introlen + 1 .. Len(s) : [j \in DOMAIN s |-> j][i] = i
    OBVIOUS
  <2>2. \A i \in introlen + 1 .. Len(s) : Ends([j \in DOMAIN s |-> j][i]) <=> EndsString(s, i)
    BY <2>1 DEF EndsString
  <2> HIDE DEF Ends
  <2> QED
    BY <2>2 DEF StringEnds
<1>3. T \subseteq Nat /\ 0 \notin T
  BY DEF StringEnds
<1> HIDE DEF T, U
<1>4. CASE T = {}
  BY <1>1, <1>2, <1>4 DEF T
<1>5. CASE T # {}
  <2>1. Min(T) \in T /\ \A i \in T : Min(T) <= i
    BY <1>3, <1>5, HasLeast DEF Min
  <2>2. end = Min(T) /\ end # 0
    BY <1>2, <1>3, <1>5, <2>1
  <2> HIDE DEF end
  <2> QED
    BY <1>1, <1>5, <2>1, <2>2 DEF T
<1> QED
  BY <1>4, <1>5 DEF T

LEMMA CtrlstringStable ==
  ASSUME NEW r, NEW s, Continues(r, s), NEW introlen \in 1 .. 2,
         introlen <= Len(s), peekkey_ctrlstring(s, introlen).res = "KEY"
  PROVE  peekkey_ctrlstring(r, introlen) = peekkey_ctrlstring(s, introlen)
<1>1. /\ Len(s) \in Nat /\ Len(r) \in Nat /\ Len(s) <= Len(r)
      /\ DOMAIN s = 1 .. Len(s) /\ DOMAIN r = 1 .. Len(r)
  BY DEF Continues
<1>2. PICK end \in StringEnds(s, introlen) :
        /\ \A i \in StringEnds(s, introlen) : end <= i
        /\ peekkey_ctrlstring(s, introlen) = StringKey(s, introlen, end)
  BY <1>1, CtrlstringIs DEF Again
<1>3. end \in introlen + 1 .. Len(s) /\ end \in 1 .. Len(s) /\ EndsString(s, end)
  BY <1>1, <1>2 DEF StringEnds
<1>4. ASSUME NEW i \in 1 .. Len(s), i < Len(s) \/ EndsString(s, i)
      PROVE  EndsString(r, i) <=> EndsString(s, i)
  <2>1. r[i] = s[i]
    BY DEF Continues
  <2>2. i < Len(s) => i + 1 \in 1 .. Len(s) /\ i < Len(r)
    BY <1>1
  <2>3. i < Len(s) => r[i + 1] = s[i + 1]
    BY <2>2 DEF Continues
  <2> QED
    BY <1>4, <2>1, <2>2, <2>3 DEF EndsString
<1>5. end \in StringEnds(r, introlen)
  <2>1. end \in introlen + 1 .. Len(r) /\ EndsString(r, end)
    BY <1>1, <1>3, <1>4
  <2> QED
    BY <2>1 DEF StringEnds
<1>6. \A i \in StringEnds(r, introlen) : end <= i
  <2> SUFFICES ASSUME NEW i \in StringEnds(r, introlen), ~(end <= i) PROVE FALSE
    OBVIOUS
  <2>1. i \in introlen + 1 .. Len(r) /\ EndsString(r, i) /\ i < end
    BY <1>3 DEF StringEnds
  <2>2. i \in introlen + 1 .. Len(s) /\ i \in 1 .. Len(s) /\ i < Len(s)
    BY <1>1, <1>3, <2>1
  <2>3. EndsString(s, i)
    BY <1>4, <2>1, <2>2
  <2>4. i \in StringEnds(s, introlen)
    BY <2>2, <2>3 DEF StringEnds
  <2> QED
    BY <1>2, <2>4
<1>7. PICK last \in StringEnds(r, introlen) :
        /\ \A i \in StringEnds(r, introlen) : last <= i
        /\ peekkey_ctrlstring(r, introlen) = StringKey(r, introlen, last)
  BY <1>1, <1>5, CtrlstringIs
<1>8. last = end
  <2>1. last \in Int /\ end \in Int /\ last <= end /\ end <= last
    BY <1>3, <1>5, <1>6, <1>7 DEF StringEnds
  <2> QED
    BY <2>1
<1>9. SubSeq(r, introlen + 1, end - 1) = SubSeq(s, introlen + 1, end - 1)
  <2>1. introlen + 1 \in Nat \ {0} /\ end - 1 \in Int /\ end - 1 <= Len(s)
    BY <1>3
  <2> QED
    BY <2>1, SubSeqSame
<1>10. r[introlen] = s[introlen] /\ r[end] = s[end]
  BY <1>3 DEF Continues
<1>11. StringKey(r, introlen, end) = StringKey(s, introlen, end)
  BY <1>9, <1>10 DEF StringKey
<1> QED
  BY <1>2, <1>7, <1>8, <1>11

LEMMA CsiDriverStable ==
  ASSUME NEW r, NEW s, Continues(r, s), Len(s) # 0, NEW no \in BOOLEAN, ~On(no)
  PROVE  /\ csi_peekkey(s, no).res = "KEY" => csi_peekkey(r, no) = csi_peekkey(s, no)
         /\ csi_peekkey(s, no).res = "NONE" /\ ~(s[1] = ESC /\ Len(s) = 1) =>
              csi_peekkey(r, no).res = "NONE"
<1>1. /\ Len(s) \in Nat \ {0} /\ Len(r) \in Nat /\ Len(s) <= Len(r) /\ DOMAIN s = 1 .. Len(s)
      /\ 1 \in 1 .. Len(s) /\ (Len(s) > 1 => 2 \in 1 .. Len(s) /\ Len(r) > 1)
      /\ 1 \in 1 .. 2 /\ 1 <= Len(s) /\ 2 \in 1 .. 2 /\ (Len(s) > 1 => 2 <= Len(s))
  BY DEF Continues
<1>2. r[1] = s[1] /\ (Len(s) > 1 => r[2] = s[2])
  BY <1>1 DEF Continues
<1>3. NoKey.res = "NONE"
  BY DEF NoKey
<1> DEFINE Goal == /\ csi_peekkey(s, no).res = "KEY" => csi_peekkey(r, no) = csi_peekkey(s, no)
                   /\ csi_peekkey(s, no).res = "NONE" => csi_peekkey(r, no).res = "NONE"
<1>4. CASE s[1] = ESC /\ Len(s) > 1
  <2>1. CASE s[2] = 79
    <3>1. /\ csi_peekkey(s, no) = peekkey_ss3(s, 2, no)
          /\ csi_peekkey(r, no) = peekkey_ss3(r, 2, no)
      BY <1>1, <1>2, <1>4, <2>1, CsiCases
    <3> QED
      BY <1>1, <3>1, Ss3Stable
  <2>2. CASE s[2] \in {80, 93}
    <3>1. /\ csi_peekkey(s, no) = peekkey_ctrlstring(s, 2)
          /\ csi_peekkey(r, no) = peekkey_ctrlstring(r, 2)
      BY <1>1, <1>2, <1>4, <2>2, CsiCases
    <3> QED
      BY <1>1, <1>4, <3>1, CtrlstringStable, CtrlstringFits
  <2>3. CASE s[2] = 91
    <3>1. /\ csi_peekkey(s, no) = peekkey_csi(s, 2, no)
          /\ csi_peekkey(r, no) = peekkey_csi(r, 2, no)
      BY <1>1, <1>2, <1>4, <2>3, CsiCases
    <3> QED
      BY <1>1, <1>4, <3>1, CsiStable, CsiFits
  <2>4. CASE s[2] \notin {79, 80, 91, 93}
    <3>1. csi_peekkey(s, no) = NoKey /\ csi_peekkey(r, no) = NoKey
      BY <1>1, <1>2, <1>4, <2>4, CsiCases
    <3> QED
      BY <1>3, <3>1
  <2> QED
    BY <2>1, <2>2, <2>3, <2>4
<1>5. CASE s[1] = ESC /\ Len(s) = 1
  <2>1. csi_peekkey(s, no) = NoKey
    BY <1>5, CsiCases
  <2> QED
    BY <1>3, <1>5, <2>1
<1>6. CASE s[1] = 143
  <2>1. csi_peekkey(s, no) = peekkey_ss3(s, 1, no) /\ csi_peekkey(r, no) = peekkey_ss3(r, 1, no)
    BY <1>2, <1>6, CsiCases
  <2> QED
    BY <1>1, <2>1, Ss3Stable
<1>7. CASE s[1] \in {144, 157}
  <2>1. csi_peekkey(s, no) = peekkey_ctrlstring(s, 1) /\ csi_peekkey(r, no) = peekkey_ctrlstring(r, 1)
    BY <1>2, <1>7, CsiCases
  <2> QED
    BY <1>1, <2>1, CtrlstringStable, CtrlstringFits
<1>8. CASE s[1] = 155
  <2>1. csi_peekkey(s, no) = peekkey_csi(s, 1, no) /\ csi_peekkey(r, no) = peekkey_csi(r, 1, no)
    BY <1>2, <1>8, CsiCases
  <2> QED
    BY <1>1, <2>1, CsiStable, CsiFits
<1>9. CASE s[1] \notin {ESC, 143, 144, 157, 155}
  <2>1. csi_peekkey(s, no) = NoKey /\ csi_peekkey(r, no) = NoKey
    BY <1>2, <1>9, CsiCases
  <2> QED
    BY <1>3, <2>1
<1> QED
  BY <1>1, <1>4, <1>5, <1>6, <1>7, <1>8, <1>9

(* The terminfo driver: the shortest string that begins the bytes begins   *)
(* them still, and no shorter one does.                                    *)
LEMMA ShortestLeast ==
  ASSUME NEW s, Begins(s) # {}
  PROVE  \A other \in Begins(s) : Len(Shortest(s)) <= Len(other)
<1> DEFINE T == {Len(q) : q \in Begins(s)}
<1>1. \A q \in Begins(s) : Len(q) \in Nat \ {0}
  BY StringLen DEF Begins
<1>2. T \subseteq Nat /\ T # {}
  BY <1>1
<1> HIDE DEF T
<1>3. PICK n \in T : \A m \in T : n <= m
  BY <1>2, HasLeast
<1>4. PICK q \in Begins(s) : n = Len(q)
  BY DEF T
<1>5. \A other \in Begins(s) : Len(q) <= Len(other)
  BY <1>3, <1>4 DEF T
<1> QED
  BY <1>5 DEF Shortest

LEMMA PrefixSame ==
  ASSUME NEW r, NEW s, Continues(r, s), NEW q, Len(q) \in Nat, Len(q) <= Len(s)
  PROVE  IsPrefix(q, r) <=> IsPrefix(q, s)
<1>1. SubSeq(r, 1, Len(q)) = SubSeq(s, 1, Len(q))
  BY SubSeqSame
<1>2. Len(q) <= Len(r) /\ Len(q) <= Len(s)
  BY DEF Continues
<1> QED
  BY <1>1, <1>2 DEF IsPrefix

LEMMA PrefixLonger ==
  ASSUME NEW r, NEW s, Continues(r, s), NEW q \in KeyStrings, Len(s) <= Len(q), IsPrefix(q, r)
  PROVE  IsPrefix(s, q)
<1>1. q \in Seq(0 .. 255) /\ Len(q) \in Nat /\ DOMAIN q = 1 .. Len(q)
  BY StringLen, LenProperties
<1>2. \A i \in 1 .. Len(q) : q[i] = r[i]
  BY <1>1, PrefixAgrees
<1>3. Len(s) \in Nat /\ DOMAIN s = 1 .. Len(s) /\ \A i \in 1 .. Len(s) : i \in 1 .. Len(q) /\ r[i] = s[i]
  BY <1>1 DEF Continues
<1>4. Continues(q, s)
  BY <1>1, <1>2, <1>3 DEF Continues
<1>5. SubSeq(q, 1, Len(s)) = SubSeq(s, 1, Len(s))
  BY <1>3, <1>4, SubSeqSame
<1> QED
  BY <1>5 DEF IsPrefix

LEMMA ShortestStable ==
  ASSUME NEW r, NEW s, Continues(r, s), Begins(s) # {}
  PROVE  Begins(r) # {} /\ Shortest(r) = Shortest(s)
<1>1. PICK a : a = Shortest(s) /\ a \in Begins(s)
  BY ShortestIs
<1>2. a \in KeyStrings /\ IsPrefix(a, s) /\ a \in Seq(0 .. 255) /\ Len(a) \in Nat /\ Len(a) <= Len(s)
  BY <1>1, StringLen DEF Begins, IsPrefix
<1>3. a \in Begins(r)
  BY <1>2, PrefixSame DEF Begins
<1>4. PICK b : b = Shortest(r) /\ b \in Begins(r)
  BY <1>3, ShortestIs
<1>5. b \in KeyStrings /\ IsPrefix(b, r) /\ b \in Seq(0 .. 255) /\ Len(b) \in Nat
  BY <1>4, StringLen DEF Begins
<1>6. Len(b) <= Len(a)
  BY <1>3, <1>4, ShortestLeast
<1>7. Len(b) <= Len(s)
  BY <1>2, <1>5, <1>6 DEF Continues
<1>8. b \in Begins(s)
  BY <1>5, <1>7, PrefixSame DEF Begins
<1>9. Len(a) <= Len(b)
  BY <1>1, <1>8, ShortestLeast
<1>10. Len(a) = Len(b)
  BY <1>2, <1>5, <1>6, <1>9
<1>11. /\ SubSeq(a, 1, Len(a)) = SubSeq(s, 1, Len(a))
       /\ SubSeq(b, 1, Len(b)) = SubSeq(s, 1, Len(b))
  BY <1>2, <1>8 DEF Begins, IsPrefix
<1>12. a = SubSeq(a, 1, Len(a)) /\ b = SubSeq(b, 1, Len(b))
  BY <1>2, <1>5, SubSeqFull
<1> QED
  BY <1>1, <1>3, <1>4, <1>10, <1>11, <1>12

LEMMA TiStable ==
  ASSUME NEW r, NEW s, Continues(r, s), Len(s) # 0, NEW no \in BOOLEAN, ~On(no)
  PROVE  /\ ti_peekkey(s, no).res = "KEY" => ti_peekkey(r, no) = ti_peekkey(s, no)
         /\ ti_peekkey(s, no).res = "NONE" => ti_peekkey(r, no).res = "NONE"
<1>1. NoKey.res = "NONE" /\ Again.res = "AGAIN"
  BY DEF NoKey, Again
<1>2. Len(s) \in Nat
  BY DEF Continues
<1>3. CASE Begins(s) # {}
  <2>1. PICK q : q = Shortest(s) /\ q \in Begins(s) /\ Len(q) \in Nat \ {0}
    BY <1>3, ShortestIs
  <2>2. ti_peekkey(s, no) = AtString(s, q) /\ ti_peekkey(r, no) = AtString(r, q)
    BY <1>3, <2>1, ShortestStable, TiIs
  <2>3. CASE q \in MouseIntro
    <3>1. AtString(s, q) = peekkey_mouse(s, Len(q)) /\ AtString(r, q) = peekkey_mouse(r, Len(q))
      BY <2>3 DEF AtString
    <3>2. peekkey_mouse(s, Len(q)).res # "NONE"
      BY <1>2, <2>1, MouseFits
    <3> QED
      BY <2>1, <2>2, <3>1, <3>2, MouseStable
  <2>4. CASE q \notin MouseIntro
    <3>1. AtString(s, q) = Key(Terminfo[q], Len(q)) /\ AtString(r, q) = Key(Terminfo[q], Len(q))
      BY <2>4 DEF AtString
    <3> QED
      BY <2>2, <3>1 DEF Key
  <2> QED
    BY <2>3, <2>4
<1>4. CASE Begins(s) = {} /\ \E long \in KeyStrings : IsPrefix(s, long)
  <2>1. ti_peekkey(s, no) = Again
    BY <1>4, TiIs DEF On
  <2> QED
    BY <1>1, <2>1
<1>5. CASE Begins(s) = {} /\ ~\E long \in KeyStrings : IsPrefix(s, long)
  <2>1. ti_peekkey(s, no) = NoKey
    BY <1>5, TiIs DEF On
  <2>2. Begins(r) = {}
    <3> SUFFICES ASSUME NEW q \in Begins(r) PROVE FALSE
      OBVIOUS
    <3>1. q \in KeyStrings /\ IsPrefix(q, r) /\ Len(q) \in Nat
      BY StringLen DEF Begins
    <3>2. CASE Len(q) <= Len(s)
      <4>1. q \in Begins(s)
        BY <3>1, <3>2, PrefixSame DEF Begins
      <4> QED
        BY <1>5, <4>1
    <3>3. CASE Len(s) <= Len(q)
      BY <1>5, <3>1, <3>3, PrefixLonger
    <3> QED
      BY <1>2, <3>1, <3>2, <3>3
  <2>3. ~\E long \in KeyStrings : IsPrefix(r, long)
    <3> SUFFICES ASSUME NEW q \in KeyStrings, IsPrefix(r, q) PROVE FALSE
      OBVIOUS
    <3>1. Len(r) \in Nat /\ Len(s) <= Len(r)
      BY DEF Continues
    <3>2. q \in Seq(0 .. 255) /\ Len(q) \in Nat /\ DOMAIN q = 1 .. Len(q)
      BY StringLen, LenProperties
    <3>3. Len(r) <= Len(q) /\ \A i \in 1 .. Len(r) : r[i] = q[i]
      BY <3>1, PrefixAgrees
    <3>4. /\ Len(s) <= Len(q)
          /\ \A i \in 1 .. Len(s) : i \in 1 .. Len(r) /\ r[i] = s[i]
      BY <1>2, <3>1, <3>2, <3>3 DEF Continues
    <3>5. Continues(q, s)
      BY <1>2, <3>2, <3>3, <3>4 DEF Continues
    <3>6. SubSeq(q, 1, Len(s)) = SubSeq(s, 1, Len(s))
      BY <1>2, <3>5, SubSeqSame
    <3>7. IsPrefix(s, q)
      BY <3>4, <3>6 DEF IsPrefix
    <3> QED
      BY <1>5, <3>7
  <2>4. ti_peekkey(r, no) = NoKey
    BY <2>2, <2>3, TiIs
  <2> QED
    BY <1>1, <2>1, <2>4
<1> QED
  BY <1>3, <1>4, <1>5

(* A character that is all there.                                          *)
Reach(s) == IF SequenceLength(s[1]) < Len(s) THEN SequenceLength(s[1]) ELSE Len(s)
BadBytes(s) == {i \in 2 .. Reach(s) : s[i] \notin 128 .. 191}

LEMMA Utf8Is ==
  ASSUME NEW s, Len(s) \in Nat \ {0}, NEW n, n = SequenceLength(s[1])
  PROVE  parse_utf8(s) =
           IF n = 1 THEN [res |-> "KEY", cp |-> INVALID, n |-> 1]
           ELSE IF BadBytes(s) # {} THEN [res |-> "KEY", cp |-> INVALID, n |-> Min(BadBytes(s)) - 1]
           ELSE IF Len(s) < n THEN Again
           ELSE [res |-> "KEY", cp |-> CodePoint(SubSeq(s, 1, n)), n |-> n]
<1> DEFINE T == BadBytes(s)
           bad == IF T # {} THEN Min(T) ELSE 0
<1>1. parse_utf8(s) =
        IF n = 1 THEN [res |-> "KEY", cp |-> INVALID, n |-> 1]
        ELSE IF bad # 0 THEN [res |-> "KEY", cp |-> INVALID, n |-> bad - 1]
        ELSE IF Len(s) < n THEN Again
        ELSE [res |-> "KEY", cp |-> CodePoint(SubSeq(s, 1, n)), n |-> n]
  BY DEF parse_utf8, SelectInSubSeq, BadBytes, Reach
<1>2. T \subseteq Nat /\ 0 \notin T
  BY DEF BadBytes
<1> HIDE DEF T
<1>3. T # {} => Min(T) \in T
  BY <1>2, MinIsIn
<1>4. T # {} => bad = Min(T) /\ bad # 0
  BY <1>2, <1>3
<1>5. T = {} => bad = 0
  OBVIOUS
<1> HIDE DEF bad
<1>6. parse_utf8(s) =
        IF n = 1 THEN [res |-> "KEY", cp |-> INVALID, n |-> 1]
        ELSE IF T # {} THEN [res |-> "KEY", cp |-> INVALID, n |-> Min(T) - 1]
        ELSE IF Len(s) < n THEN Again
        ELSE [res |-> "KEY", cp |-> CodePoint(SubSeq(s, 1, n)), n |-> n]
  BY <1>1, <1>4, <1>5
<1> QED
  BY <1>6 DEF T

LEMMA Utf8Stable ==
  ASSUME NEW r, NEW s, Continues(r, s), Len(s) # 0, parse_utf8(s) # Again
  PROVE  parse_utf8(r) = parse_utf8(s)
<1>1. Len(s) \in Nat \ {0} /\ Len(r) \in Nat \ {0} /\ Len(s) <= Len(r) /\ 1 \in 1 .. Len(s)
  BY DEF Continues
<1>2. PICK n : n = SequenceLength(s[1])
  OBVIOUS
<1>3. n = SequenceLength(r[1]) /\ n \in 1 .. 6
  <2>1. r[1] = s[1]
    BY <1>1 DEF Continues
  <2>2. SequenceLength(s[1]) \in 1 .. 6
    BY DEF SequenceLength
  <2> QED
    BY <1>2, <2>1, <2>2
<1>4. PICK T, U : T = BadBytes(s) /\ U = BadBytes(r)
  OBVIOUS
<1>5. parse_utf8(s) =
        IF n = 1 THEN [res |-> "KEY", cp |-> INVALID, n |-> 1]
        ELSE IF T # {} THEN [res |-> "KEY", cp |-> INVALID, n |-> Min(T) - 1]
        ELSE IF Len(s) < n THEN Again
        ELSE [res |-> "KEY", cp |-> CodePoint(SubSeq(s, 1, n)), n |-> n]
  BY <1>1, <1>2, <1>4, Utf8Is
<1>6. parse_utf8(r) =
        IF n = 1 THEN [res |-> "KEY", cp |-> INVALID, n |-> 1]
        ELSE IF U # {} THEN [res |-> "KEY", cp |-> INVALID, n |-> Min(U) - 1]
        ELSE IF Len(r) < n THEN Again
        ELSE [res |-> "KEY", cp |-> CodePoint(SubSeq(r, 1, n)), n |-> n]
  BY <1>1, <1>3, <1>4, Utf8Is
<1>7. PICK p, q : p = Reach(s) /\ q = Reach(r)
  OBVIOUS
<1>8. /\ p \in Nat /\ q \in Nat /\ p <= q /\ p <= Len(s)
      /\ ~(Len(s) < n) => p = n /\ q = n
  <2>1. p = IF n < Len(s) THEN n ELSE Len(s)
    BY <1>2, <1>7 DEF Reach
  <2>2. q = IF n < Len(r) THEN n ELSE Len(r)
    BY <1>3, <1>7 DEF Reach
  <2> QED
    BY <1>1, <1>3, <2>1, <2>2
<1>9. T = {i \in 2 .. p : s[i] \notin 128 .. 191} /\ U = {i \in 2 .. q : r[i] \notin 128 .. 191}
  BY <1>4, <1>7 DEF BadBytes
<1>10. \A i \in 2 .. p : i \in 2 .. q /\ r[i] = s[i]
  BY <1>1, <1>8 DEF Continues
<1>11. \A i \in 2 .. q : i \notin 2 .. p => \A j \in 2 .. p : j <= i
  BY <1>8
<1>12. T \subseteq U
  BY <1>9, <1>10
<1>13. U \subseteq Nat
  BY <1>8, <1>9
<1>14. \A x \in U \ T : x \in 2 .. q /\ x \notin 2 .. p
  BY <1>9, <1>10
<1>15. \A y \in T : y \in 2 .. p
  BY <1>9
<1>16. \A x \in U \ T : \A y \in T : y <= x
  BY <1>11, <1>14, <1>15
<1>17. T # {} => Min(U) = Min(T) /\ U # {}
  BY <1>12, <1>13, <1>16, MinSame
<1>18. ~(Len(s) < n) => U = T /\ ~(Len(r) < n)
  <2> SUFFICES ASSUME ~(Len(s) < n) PROVE U = T /\ ~(Len(r) < n)
    OBVIOUS
  <2>1. p = q
    BY <1>8
  <2>2. U = T
    BY <1>9, <1>10, <2>1
  <2> QED
    BY <1>1, <1>3, <2>2
<1>19. ~(Len(s) < n) => SubSeq(r, 1, n) = SubSeq(s, 1, n)
  <2> SUFFICES ASSUME ~(Len(s) < n) PROVE SubSeq(r, 1, n) = SubSeq(s, 1, n)
    OBVIOUS
  <2>1. n \in Int /\ n <= Len(s) /\ 1 \in Nat \ {0}
    BY <1>1, <1>3
  <2> QED
    BY <2>1, SubSeqSame
<1>20. CASE n = 1
  BY <1>5, <1>6, <1>20
<1>21. CASE n # 1 /\ T # {}
  BY <1>5, <1>6, <1>17, <1>21
<1>22. CASE n # 1 /\ T = {}
  <2>1. ~(Len(s) < n)
    BY <1>5, <1>22
  <2> QED
    BY <1>5, <1>6, <1>18, <1>19, <1>22, <2>1
<1> QED
  BY <1>20, <1>21, <1>22

LEMMA SimpleStable ==
  ASSUME NEW r, NEW s, Continues(r, s), Len(s) # 0, NEW no \in BOOLEAN, ~On(no),
         SimpleKey(s, no).res = "KEY"
  PROVE  SimpleKey(r, no) = SimpleKey(s, no)
<1>1. r[1] = s[1]
  BY DEF Continues
<1>2. CASE s[1] < 160 \/ (s[1] >= 160 /\ "UTF8" \notin Flags)
  BY <1>1, <1>2 DEF SimpleKey
<1>3. CASE ~(s[1] < 160 \/ (s[1] >= 160 /\ "UTF8" \notin Flags))
  <2>1. parse_utf8(s) # Again
    BY <1>3 DEF SimpleKey, Again, On
  <2>2. parse_utf8(r) = parse_utf8(s)
    BY <2>1, Utf8Stable
  <2> QED
    BY <1>1, <1>3, <2>1, <2>2 DEF SimpleKey
<1> QED
  BY <1>2, <1>3

-----------------------------------------------------------------------------
(* No sequence the CSI driver already has a key for is the beginning of a  *)
(* longer string of the terminal.  It is one on the linux console, whose   *)
(* F1 is ESC [ [ A: the three bytes ESC [ [ are an unknown CSI sequence as *)
(* long as the fourth has not come.                                        *)
OneDriver(Byte) ==
  \A s \in Seq(Byte) :
    s # <<>> /\ ti_peekkey(s, FALSE).res = "AGAIN" => csi_peekkey(s, FALSE).res # "KEY"

(* The key found at place k of some bytes is found there when more follow. *)
LEMMA RestContinues ==
  ASSUME NEW S, NEW str \in Seq(S), NEW all \in Seq(S), Continues(all, str),
         NEW k \in 0 .. Len(str)
  PROVE  Continues(Rest(all, k), Rest(str, k))
<1>1. Len(str) \in Nat /\ Len(all) \in Nat /\ Len(str) <= Len(all) /\ k \in 0 .. Len(all)
  BY DEF Continues
<1>2. /\ Len(Rest(str, k)) = Len(str) - k /\ DOMAIN Rest(str, k) = 1 .. Len(str) - k
      /\ \A i \in 1 .. Len(str) - k : Rest(str, k)[i] = str[k + i]
  BY RestIs
<1>3. /\ Len(Rest(all, k)) = Len(all) - k /\ DOMAIN Rest(all, k) = 1 .. Len(all) - k
      /\ \A i \in 1 .. Len(all) - k : Rest(all, k)[i] = all[k + i]
  BY <1>1, RestIs
<1>4. \A i \in 1 .. Len(str) - k : i \in 1 .. Len(all) - k /\ all[k + i] = str[k + i]
  <2> SUFFICES ASSUME NEW i \in 1 .. Len(str) - k
               PROVE  i \in 1 .. Len(all) - k /\ all[k + i] = str[k + i]
    OBVIOUS
  <2>1. k + i \in 1 .. Len(str) /\ i \in 1 .. Len(all) - k
    BY <1>1
  <2> QED
    BY <2>1 DEF Continues
<1>5. Len(str) - k \in Nat /\ Len(all) - k \in Nat /\ Len(str) - k <= Len(all) - k
  BY <1>1
<1> QED
  BY <1>2, <1>3, <1>4, <1>5 DEF Continues

LEMMA OneElement ==
  ASSUME NEW S, NEW s \in Seq(S), Len(s) = 1
  PROVE  s = <<s[1]>>
<1>1. s[1] \in S
  BY ElementOfSeq
<1>2. <<s[1]>> \in Seq(S) /\ Len(<<s[1]>>) = 1
  BY <1>1
<1>3. \A i \in 1 .. 1 : s[i] = <<s[1]>>[i]
  OBVIOUS
<1> QED
  BY <1>2, <1>3, SeqEqual

LEMMA PlaceStable ==
  ASSUME NEW Byte, NEW str \in Seq(Byte), NEW all \in Seq(Byte), Continues(all, str), OneDriver(Byte),
         NEW no \in BOOLEAN, ~On(no), NEW c1, NEW c2,
         NEW k \in 0 .. Len(str) - 1, NEW u, NEW v,
         k + 1 < Len(str) => (u.res = "KEY" => v = u),
         AtPlace(str, no, c1, k, u).res = "KEY"
  PROVE  AtPlace(all, no, c2, k, v) = AtPlace(str, no, c1, k, u)
<1>1. PICK s, r : s = Rest(str, k) /\ r = Rest(all, k)
  OBVIOUS
<1>2. Len(str) \in Nat /\ Len(all) \in Nat /\ Len(str) <= Len(all) /\ k \in 0 .. Len(str)
  BY DEF Continues
<1>3. Continues(r, s)
  BY <1>1, <1>2, RestContinues
<1>4. /\ s \in Seq(Byte) /\ Len(s) = Len(str) - k /\ Len(s) # 0
      /\ DOMAIN s = 1 .. Len(s) /\ s # <<>>
  <2>1. k # Len(str) /\ Len(str) - k # 0
    BY <1>2
  <2>2. /\ s \in Seq(Byte) /\ Len(s) = Len(str) - k
        /\ DOMAIN s = 1 .. Len(str) - k /\ (s = <<>> <=> k = Len(str))
    <3>1. /\ Rest(str, k) \in Seq(Byte) /\ Len(Rest(str, k)) = Len(str) - k
          /\ DOMAIN Rest(str, k) = 1 .. Len(str) - k
          /\ Rest(str, k) = <<>> <=> k = Len(str)
      BY ONLY <1>2, RestIs, str \in Seq(Byte)
    <3> QED
      BY ONLY <1>1, <3>1
  <2> QED
    BY <2>1, <2>2
<1>5. r # <<>> /\ Len(s) \in Nat \ {0} /\ Len(r) \in Nat /\ Len(s) <= Len(r) /\ r[1] = s[1]
  <2>1. k \in 0 .. Len(all) /\ k # Len(all)
    BY <1>2
  <2>2. r # <<>>
    BY <1>1, <2>1, RestIs
  <2>3. Len(s) \in Nat \ {0} /\ Len(r) \in Nat /\ Len(s) <= Len(r)
    <3>1. Len(s) \in Nat /\ Len(r) \in Nat /\ Len(s) <= Len(r)
      BY ONLY <1>3 DEF Continues
    <3> QED
      BY ONLY <1>4, <3>1
  <2>4. 1 \in 1 .. Len(s)
    BY <2>3
  <2>5. r[1] = s[1]
    BY <1>3, <2>4 DEF Continues
  <2> QED
    BY <2>2, <2>3, <2>5
<1>6. PICK t, c, tr, cr : /\ t = ti_peekkey(s, no) /\ c = csi_peekkey(s, no)
                          /\ tr = ti_peekkey(r, no) /\ cr = csi_peekkey(r, no)
  OBVIOUS
<1>7. /\ AtPlace(str, no, c1, k, u) = PeekAt(s, k, no, t, c, u)
      /\ AtPlace(all, no, c2, k, v) = PeekAt(r, k, no, tr, cr, v)
  BY <1>1, <1>4, <1>5, <1>6 DEF AtPlace
<1>8. t.res \in {"KEY", "AGAIN", "NONE"} /\ c.res \in {"KEY", "AGAIN", "NONE"}
  BY <1>4, <1>5, <1>6, TiDriver, CsiDriver DEF Fits
<1>9. /\ t.res = "KEY" => tr = t
      /\ t.res = "NONE" => tr.res = "NONE"
      /\ c.res = "KEY" => cr = c
      /\ c.res = "NONE" /\ ~(s[1] = ESC /\ Len(s) = 1) => cr.res = "NONE"
  BY <1>3, <1>4, <1>6, TiStable, CsiDriverStable
<1>10. t.res = "AGAIN" => c.res # "KEY"
  <2>1. no = FALSE
    BY DEF On
  <2> QED
    BY <1>4, <1>6, <2>1 DEF OneDriver
<1>11. s = <<ESC>> <=> s[1] = ESC /\ Len(s) = 1
  <2>1. s = <<ESC>> => s[1] = ESC /\ Len(s) = 1
    OBVIOUS
  <2>2. s[1] = ESC /\ Len(s) = 1 => s = <<ESC>>
    BY <1>4, OneElement
  <2> QED
    BY <2>1, <2>2
<1>12. SimpleKey(s, no).res = "KEY" => SimpleKey(r, no) = SimpleKey(s, no)
  BY <1>3, <1>4, SimpleStable
<1>13. Again.res = "AGAIN"
  BY DEF Again
<1>14. PeekAt(s, k, no, t, c, u).res = "KEY"
  BY <1>7
<1>15. PeekAt(r, k, no, tr, cr, v) = PeekAt(s, k, no, t, c, u)
  <2>1. CASE t.res = "KEY"
    BY <1>9, <2>1 DEF PeekAt
  <2>2. CASE t.res # "KEY" /\ c.res = "KEY"
    <3>1. tr.res = "NONE" /\ cr = c
      BY <1>8, <1>9, <1>10, <2>2
    <3> QED
      BY <2>2, <3>1 DEF PeekAt
  <2>3. CASE t.res # "KEY" /\ c.res # "KEY"
    <3>1. ~WantsMore(t, c, no) /\ s # <<ESC>>
      BY <1>13, <1>14, <2>3 DEF PeekAt, On
    <3>2. t.res = "NONE" /\ c.res = "NONE"
      BY <1>8, <2>3, <3>1 DEF WantsMore, On
    <3>3. tr.res = "NONE" /\ cr.res = "NONE"
      BY <1>9, <1>11, <3>1, <3>2
    <3>4. ~WantsMore(tr, cr, no)
      BY <3>3 DEF WantsMore
    <3>5. CASE s[1] = ESC
      <4>1. Len(s) > 1 /\ Len(r) > 1 /\ r # <<ESC>>
        <5>1. Len(s) # 1
          BY <1>11, <3>1, <3>5
        <5>2. Len(s) > 1 /\ Len(r) > 1
          <6>1. \A a, b : a \in Nat \ {0} /\ b \in Nat /\ a <= b /\ a # 1 => a > 1 /\ b > 1
            OBVIOUS
          <6>2. Len(s) \in Nat \ {0} /\ Len(r) \in Nat /\ Len(s) <= Len(r) /\ Len(s) # 1
            BY ONLY <1>5, <5>1
          <6> QED
            BY ONLY <6>1, <6>2, Zenon
        <5>3. Len(<<ESC>>) = 1
          OBVIOUS
        <5>4. ~(1 > 1)
          OBVIOUS
        <5> QED
          BY ONLY <5>2, <5>3, <5>4, Zenon
      <4>2. PeekAt(s, k, no, t, c, u) = Deeper(u) /\ PeekAt(r, k, no, tr, cr, v) = Deeper(v)
        BY <1>5, <2>3, <3>1, <3>3, <3>4, <3>5, <4>1 DEF PeekAt
      <4>3. k + 1 < Len(str)
        BY <1>2, <1>4, <4>1
      <4>4. u.res = "KEY"
        BY <1>14, <4>2 DEF Deeper
      <4> QED
        BY <4>2, <4>3, <4>4
    <3>6. CASE s[1] # ESC
      <4>1. r # <<ESC>>
        BY <1>5, <3>6
      <4>2. /\ PeekAt(s, k, no, t, c, u) = Found(SimpleKey(s, no), k, FALSE)
            /\ PeekAt(r, k, no, tr, cr, v) = Found(SimpleKey(r, no), k, FALSE)
        BY <1>5, <2>3, <3>1, <3>3, <3>4, <3>6, <4>1 DEF PeekAt
      <4>3. SimpleKey(s, no).res = "KEY"
        BY <1>14, <4>2 DEF Found
      <4> QED
        BY <1>12, <4>2, <4>3
    <3> QED
      BY <3>5, <3>6
  <2> QED
    BY <2>1, <2>2, <2>3
<1> QED
  BY <1>7, <1>15

LEMMA LooksStable ==
  ASSUME NEW Byte, NEW str \in Seq(Byte), NEW all \in Seq(Byte), Continues(all, str), OneDriver(Byte),
         NEW no \in BOOLEAN, ~On(no), NEW c1, NEW c2,
         NEW u, Looks(str, no, c1, u), NEW v, Looks(all, no, c2, v)
  PROVE  \A k \in 0 .. Len(str) - 1 : u[k].res = "KEY" => v[k] = u[k]
<1> DEFINE L == Len(str)
           Right(k) == u[k].res = "KEY" => v[k] = u[k]
           Bad == {n \in 1 .. L : ~Right(L - n)}
<1>1. L \in Nat /\ Len(all) \in Nat /\ L <= Len(all)
  BY DEF Continues
<1>2. \A k \in 0 .. L - 1 : u[k] = AtPlace(str, no, c1, k, u[k + 1])
  BY LooksAnswer
<1>3. \A k \in 0 .. L - 1 : v[k] = AtPlace(all, no, c2, k, v[k + 1])
  <2>1. \A k \in 0 .. Len(all) - 1 : v[k] = AtPlace(all, no, c2, k, v[k + 1])
    BY LooksAnswer
  <2>2. \A k \in 0 .. L - 1 : k \in 0 .. Len(all) - 1
    BY <1>1
  <2> HIDE DEF L
  <2> QED
    BY <2>1, <2>2
<1>4. ASSUME NEW k \in 0 .. L - 1, k + 1 < L => Right(k + 1)
      PROVE  Right(k)
  <2>1. PICK a, b : a = u[k + 1] /\ b = v[k + 1]
    OBVIOUS
  <2>2. k + 1 < Len(str) => (a.res = "KEY" => b = a)
    BY <1>4, <2>1
  <2>3. u[k] = AtPlace(str, no, c1, k, a) /\ v[k] = AtPlace(all, no, c2, k, b)
    BY <1>2, <1>3, <2>1
  <2>4. AtPlace(str, no, c1, k, a).res = "KEY" =>
          AtPlace(all, no, c2, k, b) = AtPlace(str, no, c1, k, a)
    BY <2>2, PlaceStable
  <2> QED
    BY <2>3, <2>4
<1> HIDE DEF Right, L
<1>5. Bad = {}
  <2> SUFFICES ASSUME Bad # {} PROVE FALSE
    OBVIOUS
  <2>1. PICK n \in Bad : \A m \in Bad : n <= m
    <3>1. Bad \subseteq Nat
      OBVIOUS
    <3> QED
      BY <3>1, HasLeast
  <2>2. n \in 1 .. L /\ ~Right(L - n) /\ L - n \in 0 .. L - 1
    BY <1>1, <2>1
  <2>3. L - n + 1 < L => n - 1 \in 1 .. L /\ L - (n - 1) = L - n + 1 /\ ~(n <= n - 1)
    BY <1>1, <2>2
  <2>4. L - n + 1 < L => Right(L - n + 1)
    <3> SUFFICES ASSUME L - n + 1 < L PROVE Right(L - (n - 1))
      BY <2>3
    <3>1. n - 1 \notin Bad /\ n - 1 \in 1 .. L
      BY <2>1, <2>3
    <3> QED
      BY <3>1
  <2> QED
    BY <1>4, <2>2, <2>4
<1>6. ASSUME NEW k \in 0 .. L - 1 PROVE Right(k)
  <2>1. L - k \in 1 .. L /\ L - (L - k) = k
    BY <1>1
  <2>2. L - k \notin Bad
    BY <1>5, Zenon
  <2>3. Right(L - (L - k))
    BY <2>1, <2>2
  <2> QED
    BY <2>1, <2>3
<1> QED
  BY <1>6 DEF L, Right

(* What an unforced look finds, it finds again when more bytes have come,  *)
(* and when the terminal has been closed.                                  *)
LEMMA PeekkeyStable ==
  ASSUME NEW Byte, NEW str \in Seq(Byte), NEW all \in Seq(Byte), Continues(all, str), OneDriver(Byte),
         NEW no \in BOOLEAN, ~On(no), NEW c1, NEW c2,
         peekkey(str, no, c1).res = "KEY"
  PROVE  peekkey(all, no, c2) = peekkey(str, no, c1)
<1>1. PICK u : Looks(str, no, c1, u) /\ peekkey(str, no, c1) = u[0]
  BY PeekkeyLooks
<1>2. PICK v : Looks(all, no, c2, v) /\ peekkey(all, no, c2) = v[0]
  BY PeekkeyLooks
<1>3. str # <<>>
  BY PeekkeyAnswers
<1>4. 0 \in 0 .. Len(str) - 1
  BY <1>3, LenProperties, EmptySeq
<1>5. u[0].res = "KEY"
  BY <1>1
<1>6. v[0] = u[0]
  BY <1>1, <1>2, <1>4, <1>5, LooksStable
<1> QED
  BY <1>1, <1>2, <1>6

-----------------------------------------------------------------------------
(* The keys of a string, one after the other.  At(str, i) is what is found *)
(* at place i of it by a look that is not forced.                          *)
At(str, i) == peekkey(Rest(str, i), FALSE, FALSE)
After(str, i) == i + At(str, i).n + At(str, i).keep

LEMMA AfterIn ==
  ASSUME NEW Byte, NEW str \in Seq(Byte), NEW i \in 0 .. Len(str), At(str, i).res = "KEY"
  PROVE  After(str, i) \in i + 1 .. Len(str)
<1>1. PICK no \in BOOLEAN : ~On(no) /\ At(str, i) = peekkey(Rest(str, i), no, FALSE)
  <2>1. FALSE \in BOOLEAN /\ ~On(FALSE)
    BY DEF On
  <2> QED
    BY <2>1, Zenon DEF At
<1>2. Rest(str, i) \in Seq(Byte) /\ Len(Rest(str, i)) = Len(str) - i
  BY RestIs
<1>3. Rest(str, i) # <<>> /\ Answers(At(str, i), 0, Len(str) - i, no)
  BY <1>1, <1>2, PeekkeyAnswers
<1>4. Len(str) \in Nat
  BY LenProperties
<1>5. PICK key : \E n \in 1 .. Len(str) - i - 0 : \E keep \in 0 .. Len(str) - i - 0 - n :
        \E alt, driver :
        At(str, i) = [res |-> "KEY", key |-> key, n |-> n, keep |-> keep,
                      alt |-> alt, driver |-> driver]
  BY <1>3 DEF Answers, Again
<1>6. PICK n \in 1 .. Len(str) - i - 0 : \E keep \in 0 .. Len(str) - i - 0 - n :
        At(str, i).n = n /\ At(str, i).keep = keep
  BY <1>5
<1>7. PICK keep \in 0 .. Len(str) - i - 0 - n : At(str, i).n = n /\ At(str, i).keep = keep
  BY <1>6
<1> QED
  BY <1>4, <1>7 DEF After

(* A function that reads off the elements of key, from place to place of   *)
(* those that are hit: there is one, by going down from the last place.    *)
ReadsOff(f, len, hit, key, jump) ==
  f = [i \in 0 .. len |-> IF hit[i] THEN <<key[i]>> \o f[jump[i]] ELSE <<>>]

LEMMA ReaderExists ==
  ASSUME NEW len \in Nat, NEW K, NEW hit, NEW key, NEW jump,
         \A i \in 0 .. len : hit[i] => key[i] \in K /\ jump[i] \in i + 1 .. len
  PROVE  \E f \in [0 .. len -> Seq(K)] : ReadsOff(f, len, hit, key, jump)
<1> DEFINE Step(i, g) == IF hit[i] THEN <<key[i]>> \o g[jump[i]] ELSE <<>>
           Down(n, g) == /\ g \in [len - n .. len -> Seq(K)]
                         /\ \A i \in len - n .. len : g[i] = Step(i, g)
           Bad == {n \in 0 .. len : ~\E g : Down(n, g)}
<1>1. \E g : Down(0, g)
  <2> DEFINE g == [i \in len - 0 .. len |-> <<>>]
  <2>1. \A i \in len - 0 .. len : i \in 0 .. len /\ i + 1 .. len = {}
    OBVIOUS
  <2>2. \A i \in len - 0 .. len : ~hit[i]
    BY <2>1
  <2>3. g \in [len - 0 .. len -> Seq(K)]
    BY EmptySeq
  <2>4. \A i \in len - 0 .. len : g[i] = Step(i, g)
    BY <2>2
  <2> HIDE DEF g
  <2>5. Down(0, g)
    BY <2>3, <2>4
  <2> QED
    BY <2>5
<1>2. ASSUME NEW n \in 1 .. len, NEW g, Down(n - 1, g)
      PROVE  \E h : Down(n, h)
  <2> DEFINE h == [i \in len - n .. len |-> IF i = len - n THEN Step(i, g) ELSE g[i]]
  <2>1. g \in [len - (n - 1) .. len -> Seq(K)] /\ \A i \in len - (n - 1) .. len : g[i] = Step(i, g)
    BY <1>2
  <2>2. \A i \in len - n .. len : i # len - n => i \in len - (n - 1) .. len
    OBVIOUS
  <2>3. \A i \in len - n .. len : hit[i] =>
          /\ key[i] \in K /\ jump[i] \in len - (n - 1) .. len
          /\ jump[i] \in len - n .. len /\ jump[i] # len - n
    <3> SUFFICES ASSUME NEW i \in len - n .. len, hit[i]
                 PROVE  /\ key[i] \in K /\ jump[i] \in len - (n - 1) .. len
                        /\ jump[i] \in len - n .. len /\ jump[i] # len - n
      OBVIOUS
    <3>1. i \in 0 .. len
      OBVIOUS
    <3>2. key[i] \in K /\ jump[i] \in i + 1 .. len
      BY <3>1
    <3> QED
      BY <3>2
  <2>4. \A i \in len - n .. len : Step(i, g) \in Seq(K)
    <3> SUFFICES ASSUME NEW i \in len - n .. len PROVE Step(i, g) \in Seq(K)
      OBVIOUS
    <3>1. CASE hit[i]
      <4>1. <<key[i]>> \in Seq(K) /\ g[jump[i]] \in Seq(K)
        BY <2>1, <2>3, <3>1
      <4>2. <<key[i]>> \o g[jump[i]] \in Seq(K)
        BY <4>1, ConcatProperties
      <4> QED
        BY <3>1, <4>2
    <3>2. CASE ~hit[i]
      BY <3>2, EmptySeq
    <3> QED
      BY <3>1, <3>2
  <2>5. h \in [len - n .. len -> Seq(K)]
    <3> HIDE DEF Step
    <3> QED
      BY <2>1, <2>2, <2>4
  <2>6. \A i \in len - n .. len : h[i] = Step(i, g)
    <3> HIDE DEF Step
    <3> QED
      BY <2>1, <2>2
  <2>7. \A i \in len - n .. len : hit[i] => h[jump[i]] = g[jump[i]]
    <3> HIDE DEF Step
    <3> QED
      BY <2>3
  <2> HIDE DEF h
  <2>8. \A i \in len - n .. len : h[i] = Step(i, h)
    BY <2>6, <2>7
  <2>9. Down(n, h)
    BY <2>5, <2>8
  <2> QED
    BY <2>9
<1> HIDE DEF Down, Step
<1>3. Bad = {}
  <2> SUFFICES ASSUME Bad # {} PROVE FALSE
    OBVIOUS
  <2>1. PICK n \in Bad : \A m \in Bad : n <= m
    <3>1. Bad \subseteq Nat
      OBVIOUS
    <3> QED
      BY <3>1, HasLeast
  <2>2. n \in 0 .. len /\ ~(\E g : Down(n, g)) /\ n # 0
    BY <1>1, <2>1
  <2>3. n \in 1 .. len /\ n - 1 \in 0 .. len /\ ~(n <= n - 1)
    BY <2>2
  <2>4. \E g : Down(n - 1, g)
    BY <2>1, <2>3
  <2> QED
    BY <1>2, <2>2, <2>3, <2>4
<1>4. PICK g : Down(len, g)
  <2>1. len \in 0 .. len
    OBVIOUS
  <2>2. len \notin Bad
    BY <1>3, Zenon
  <2> QED
    BY <2>1, <2>2
<1>5. len - len .. len = 0 .. len
  OBVIOUS
<1>6. g \in [0 .. len -> Seq(K)] /\ \A i \in 0 .. len : g[i] = Step(i, g)
  BY <1>4, <1>5 DEF Down
<1>7. g = [i \in 0 .. len |-> Step(i, g)]
  BY <1>6
<1> QED
  BY <1>6, <1>7 DEF Step, ReadsOff

LEMMA ReaderTyped ==
  ASSUME NEW len \in Nat, NEW K, NEW hit, NEW key, NEW jump,
         \A i \in 0 .. len : hit[i] => key[i] \in K /\ jump[i] \in i + 1 .. len,
         NEW f, ReadsOff(f, len, hit, key, jump)
  PROVE  \A i \in 0 .. len :
           /\ f[i] \in Seq(K)
           /\ hit[i] => f[i] = <<key[i]>> \o f[jump[i]]
           /\ ~hit[i] => f[i] = <<>>
<1> DEFINE Bad == {n \in 0 .. len : f[len - n] \notin Seq(K)}
<1>1. \A i \in 0 .. len : f[i] = IF hit[i] THEN <<key[i]>> \o f[jump[i]] ELSE <<>>
  BY DEF ReadsOff
<1>2. Bad = {}
  <2> SUFFICES ASSUME Bad # {} PROVE FALSE
    OBVIOUS
  <2>1. PICK n \in Bad : \A m \in Bad : n <= m
    <3>1. Bad \subseteq Nat
      OBVIOUS
    <3> QED
      BY <3>1, HasLeast
  <2>2. n \in 0 .. len /\ f[len - n] \notin Seq(K) /\ len - n \in 0 .. len
    BY <2>1
  <2>3. PICK i \in 0 .. len : i = len - n
    BY <2>2
  <2>4. hit[i]
    BY <1>1, <2>2, <2>3, EmptySeq
  <2>5. PICK j \in i + 1 .. len : j = jump[i] /\ key[i] \in K
    BY <2>4
  <2>6. len - j \in 0 .. len /\ len - (len - j) = j /\ ~(n <= len - j)
    <3>1. /\ n \in Nat /\ i \in Nat /\ j \in Nat /\ len \in Nat
          /\ i = len - n /\ i + 1 <= j /\ j <= len
      BY <2>2, <2>3, <2>5
    <3> QED
      BY ONLY <3>1
  <2>7. len - j \notin Bad
    BY <2>1, <2>6
  <2>8. f[j] \in Seq(K)
    BY <2>6, <2>7
  <2>9. <<key[i]>> \in Seq(K)
    BY <2>5
  <2>10. <<key[i]>> \o f[j] \in Seq(K)
    BY <2>8, <2>9, ConcatProperties
  <2> QED
    BY <1>1, <2>2, <2>3, <2>4, <2>5, <2>10
<1>3. \A i \in 0 .. len : f[i] \in Seq(K)
  <2> SUFFICES ASSUME NEW i \in 0 .. len PROVE f[i] \in Seq(K)
    OBVIOUS
  <2>1. len - i \in 0 .. len /\ len - (len - i) = i
    OBVIOUS
  <2>2. len - i \notin Bad
    BY <1>2, Zenon
  <2> QED
    BY <2>1, <2>2
<1> QED
  BY <1>1, <1>3

(* What was read place by place begins what the function reads off.        *)
LEMMA ReadIsPrefix ==
  ASSUME NEW len \in Nat, NEW K, NEW f, NEW ks \in Seq(K),
         NEW at \in [1 .. Len(ks) + 1 -> 0 .. len], at[1] = 0,
         \A i \in 0 .. len : f[i] \in Seq(K),
         \A j \in 1 .. Len(ks) : f[at[j]] = <<ks[j]>> \o f[at[j + 1]]
  PROVE  IsPrefix(ks, f[0])
<1> DEFINE Right(j) == f[0] = SubSeq(ks, 1, j) \o f[at[j + 1]]
           Bad == {j \in 0 .. Len(ks) : ~Right(j)}
<1>1. Len(ks) \in Nat
  BY LenProperties
<1>2. \A j \in 1 .. Len(ks) + 1 : at[j] \in 0 .. len /\ f[at[j]] \in Seq(K)
  OBVIOUS
<1>3. Right(0)
  <2>1. SubSeq(ks, 1, 0) = <<>>
    BY SubSeqEmpty
  <2>2. f[0] \in Seq(K) /\ at[0 + 1] = 0
    OBVIOUS
  <2>3. <<>> \o f[0] = f[0]
    BY <2>2, ConcatEmptySeq
  <2> QED
    BY <2>1, <2>2, <2>3
<1>4. ASSUME NEW j \in 1 .. Len(ks), Right(j - 1) PROVE Right(j)
  <2>1. f[0] = SubSeq(ks, 1, j - 1) \o f[at[j]]
    <3>1. (j - 1) + 1 = j
      BY <1>1
    <3> QED
      BY <1>4, <3>1
  <2>2. f[at[j]] = <<ks[j]>> \o f[at[j + 1]]
    OBVIOUS
  <2>3. SubSeq(ks, 1, j) = SubSeq(ks, 1, j - 1) \o <<ks[j]>>
    <3>1. 1 \in 1 .. Len(ks) /\ j \in 1 .. Len(ks)
      BY <1>1
    <3> QED
      BY <3>1, SubSeqRecursiveSecond
  <2>4. SubSeq(ks, 1, j - 1) \in Seq(K) /\ <<ks[j]>> \in Seq(K) /\ f[at[j + 1]] \in Seq(K)
    <3>1. \A i \in 1 .. j - 1 : i \in 1 .. Len(ks)
      BY <1>1
    <3>2. \A i \in 1 .. j - 1 : ks[i] \in K
      BY <3>1, ElementOfSeq
    <3>3. SubSeq(ks, 1, j - 1) \in Seq(K)
      BY <1>1, <3>2, SubSeqProperties
    <3>4. ks[j] \in K
      BY ElementOfSeq
    <3>5. j + 1 \in 1 .. Len(ks) + 1
      BY <1>1
    <3> QED
      BY <1>2, <3>3, <3>4, <3>5
  <2>5. PICK a \in Seq(K) : a = SubSeq(ks, 1, j - 1)
    BY <2>4
  <2>6. PICK b \in Seq(K) : b = <<ks[j]>>
    BY <2>4
  <2>7. PICK c \in Seq(K) : c = f[at[j + 1]]
    BY <2>4
  <2>8. (a \o b) \o c = a \o (b \o c)
    BY ONLY SMTT(60), ConcatAssociative, a \in Seq(K), b \in Seq(K), c \in Seq(K)
  <2> QED
    BY <2>1, <2>2, <2>3, <2>5, <2>6, <2>7, <2>8
<1> HIDE DEF Right
<1>5. Bad = {}
  <2> SUFFICES ASSUME Bad # {} PROVE FALSE
    OBVIOUS
  <2>1. PICK j \in Bad : \A m \in Bad : j <= m
    <3>1. Bad \subseteq Nat
      BY <1>1
    <3> QED
      BY <3>1, HasLeast
  <2>2. j \in 1 .. Len(ks) /\ ~Right(j) /\ j - 1 \in 0 .. Len(ks) /\ ~(j <= j - 1)
    BY <1>1, <1>3, <2>1
  <2>3. Right(j - 1)
    BY <2>1, <2>2
  <2> QED
    BY <1>4, <2>2, <2>3
<1>6. Right(Len(ks))
  <2>1. Len(ks) \in 0 .. Len(ks)
    BY <1>1
  <2>2. Len(ks) \notin Bad
    BY <1>5, Zenon
  <2> QED
    BY <2>1, <2>2
<1>7. f[0] = ks \o f[at[Len(ks) + 1]]
  <2>1. SubSeq(ks, 1, Len(ks)) = ks
    BY SubSeqFull
  <2> QED
    BY <1>6, <2>1 DEF Right
<1>8. PICK c : c = f[at[Len(ks) + 1]] /\ c \in Seq(K)
  BY <1>1, <1>2
<1>9. Len(ks \o c) = Len(ks) + Len(c) /\ Len(c) \in Nat /\ ks \o c \in Seq(K)
  BY <1>8, ConcatProperties, LenProperties
<1>10. SubSeq(ks \o c, 1, Len(ks)) = SubSeq(ks, 1, Len(ks))
  <2>1. CASE Len(ks) = 0
    <3>1. SubSeq(ks \o c, 1, 0) = <<>> /\ SubSeq(ks, 1, 0) = <<>>
      BY SubSeqEmpty
    <3> QED
      BY <2>1, <3>1
  <2>2. CASE Len(ks) # 0
    <3>1. 1 \in 1 .. Len(ks) /\ Len(ks) \in 1 .. Len(ks)
      BY <1>1, <2>2
    <3> QED
      BY <1>8, <3>1, SubSeqOfConcat1
  <2> QED
    BY <2>1, <2>2
<1>11. Len(ks) <= Len(ks \o c)
  BY <1>1, <1>9
<1>12. IsPrefix(ks, ks \o c)
  BY <1>10, <1>11 DEF IsPrefix
<1> QED
  BY <1>7, <1>8, <1>12

KeysIn(str) == {At(str, i).key : i \in {i \in 0 .. Len(str) : At(str, i).res = "KEY"}}

-----------------------------------------------------------------------------
(* The keys ks are what a host reads that takes str from its first byte up *)
(* to place p.                                                             *)
Reads(str, ks, p) ==
  /\ ks \in Seq(KeysIn(str))
  /\ \E at \in [1 .. Len(ks) + 1 -> 0 .. Len(str)] :
       /\ at[1] = 0 /\ at[Len(ks) + 1] = p
       /\ \A j \in 1 .. Len(ks) :
            /\ At(str, at[j]).res = "KEY" /\ ks[j] = At(str, at[j]).key
            /\ at[j + 1] = After(str, at[j])

LEMMA ReadsNothing ==
  ASSUME NEW Byte, NEW str \in Seq(Byte)
  PROVE  Reads(str, <<>>, 0)
<1> DEFINE at == [j \in 1 .. 1 |-> 0]
<1>1. <<>> \in Seq(KeysIn(str)) /\ Len(<<>>) = 0
  BY EmptySeq
<1>2. Len(str) \in Nat
  BY LenProperties
<1>3. at \in [1 .. 1 -> 0 .. Len(str)] /\ at[1] = 0
  BY <1>2
<1>4. Len(<<>>) + 1 = 1 /\ 1 .. Len(<<>>) = {}
  BY <1>1
<1> HIDE DEF at
<1> QED
  BY <1>1, <1>3, <1>4 DEF Reads

(* Reading one key more.                                                   *)
LEMMA ReadsOn ==
  ASSUME NEW Byte, NEW str \in Seq(Byte), NEW ks, NEW p, Reads(str, ks, p), At(str, p).res = "KEY"
  PROVE  Reads(str, Append(ks, At(str, p).key), After(str, p))
<1> DEFINE K == KeysIn(str)
           n == Len(ks)
           key == At(str, p).key
           more == Append(ks, key)
<1>1. PICK at \in [1 .. n + 1 -> 0 .. Len(str)] :
        /\ at[1] = 0 /\ at[n + 1] = p
        /\ \A j \in 1 .. n :
             /\ At(str, at[j]).res = "KEY" /\ ks[j] = At(str, at[j]).key
             /\ at[j + 1] = After(str, at[j])
  BY DEF Reads
<1>2. ks \in Seq(K) /\ n \in Nat
  BY LenProperties DEF Reads
<1>3. p \in 0 .. Len(str)
  BY <1>1, <1>2
<1>4. key \in K
  BY <1>3 DEF KeysIn
<1>5. After(str, p) \in 0 .. Len(str)
  <2>1. After(str, p) \in p + 1 .. Len(str)
    BY <1>3, AfterIn
  <2>2. Len(str) \in Nat
    BY LenProperties
  <2> QED
    BY <1>3, <2>1, <2>2
<1> HIDE DEF K, key, n
<1>6. /\ more \in Seq(K) /\ Len(more) = n + 1
      /\ \A j \in 1 .. n : more[j] = ks[j]
      /\ more[n + 1] = key
  BY <1>2, <1>4, AppendProperties DEF n
<1> DEFINE to == [j \in 1 .. (n + 1) + 1 |-> IF j = (n + 1) + 1 THEN After(str, p) ELSE at[j]]
<1>7. to \in [1 .. (n + 1) + 1 -> 0 .. Len(str)]
  <2>1. \A j \in 1 .. (n + 1) + 1 : j # (n + 1) + 1 => j \in 1 .. n + 1
    BY <1>2
  <2> QED
    BY <1>5, <2>1
<1>8. \A j \in 1 .. n + 1 : to[j] = at[j]
  BY <1>2
<1>9. to[(n + 1) + 1] = After(str, p)
  BY <1>2
<1> HIDE DEF to, more
<1>10. to[1] = 0
  BY <1>1, <1>2, <1>8
<1>11. ASSUME NEW j \in 1 .. n + 1
       PROVE  /\ At(str, to[j]).res = "KEY" /\ more[j] = At(str, to[j]).key
              /\ to[j + 1] = After(str, to[j])
  <2>1. CASE j = n + 1
    <3>1. to[j] = p /\ more[j] = key /\ to[j + 1] = After(str, p)
      BY <1>1, <1>6, <1>8, <1>9, <2>1
    <3> QED
      BY <3>1 DEF key
  <2>2. CASE j # n + 1
    <3>1. j \in 1 .. n /\ j + 1 \in 1 .. n + 1
      BY <1>2, <2>2
    <3>2. to[j] = at[j] /\ more[j] = ks[j] /\ to[j + 1] = at[j + 1]
      BY <1>6, <1>8, <3>1
    <3> QED
      BY <1>1, <3>1, <3>2
  <2> QED
    BY <2>1, <2>2
<1>12. Reads(str, more, After(str, p))
  BY <1>6, <1>7, <1>9, <1>10, <1>11 DEF Reads, K
<1> QED
  BY <1>12 DEF more, key

(* What was read can be read again when more bytes have come.              *)
LEMMA ReadsStable ==
  ASSUME NEW Byte, NEW str \in Seq(Byte), NEW all \in Seq(Byte), Continues(all, str), OneDriver(Byte),
         NEW ks, NEW p, Reads(str, ks, p)
  PROVE  Reads(all, ks, p)
<1>1. Len(str) \in Nat /\ Len(all) \in Nat /\ Len(str) <= Len(all)
  BY DEF Continues
<1>2. \A i \in 0 .. Len(str) : i \in 0 .. Len(all)
  BY <1>1
<1>3. ASSUME NEW i \in 0 .. Len(str), At(str, i).res = "KEY"
      PROVE  At(all, i) = At(str, i)
  <2>1. Rest(str, i) \in Seq(Byte) /\ Rest(all, i) \in Seq(Byte)
    BY <1>2, RestIs
  <2>2. Continues(Rest(all, i), Rest(str, i))
    BY RestContinues
  <2>3. PICK no \in BOOLEAN : /\ ~On(no) /\ At(str, i) = peekkey(Rest(str, i), no, FALSE)
                              /\ At(all, i) = peekkey(Rest(all, i), no, FALSE)
    <3>1. FALSE \in BOOLEAN /\ ~On(FALSE)
      BY DEF On
    <3> QED
      BY <3>1, Zenon DEF At
  <2>4. peekkey(Rest(str, i), no, FALSE).res = "KEY"
    BY <1>3, <2>3
  <2>5. peekkey(Rest(all, i), no, FALSE) = peekkey(Rest(str, i), no, FALSE)
    <3>1. PICK s, r : s = Rest(str, i) /\ r = Rest(all, i)
      OBVIOUS
    <3>2. PICK c : c = FALSE
      OBVIOUS
    <3>3. /\ s \in Seq(Byte) /\ r \in Seq(Byte) /\ Continues(r, s)
          /\ peekkey(s, no, c).res = "KEY"
      BY <2>1, <2>2, <2>4, <3>1, <3>2
    <3>4. peekkey(r, no, c) = peekkey(s, no, c)
      BY <2>3, <3>3, PeekkeyStable
    <3> QED
      BY <3>1, <3>2, <3>4
  <2> QED
    BY <2>3, <2>5
<1>4. KeysIn(str) \subseteq KeysIn(all)
  <2> SUFFICES ASSUME NEW key \in KeysIn(str) PROVE key \in KeysIn(all)
    OBVIOUS
  <2>1. PICK i \in 0 .. Len(str) : At(str, i).res = "KEY" /\ key = At(str, i).key
    BY DEF KeysIn
  <2>2. i \in 0 .. Len(all) /\ At(all, i).res = "KEY" /\ key = At(all, i).key
    BY <1>2, <1>3, <2>1
  <2> QED
    BY <2>2 DEF KeysIn
<1>5. ks \in Seq(KeysIn(all)) /\ Len(ks) \in Nat
  <2>1. ks \in Seq(KeysIn(str))
    BY DEF Reads
  <2> QED
    BY <1>4, <2>1, SeqMonotonic, LenProperties
<1>6. PICK at \in [1 .. Len(ks) + 1 -> 0 .. Len(str)] :
        /\ at[1] = 0 /\ at[Len(ks) + 1] = p
        /\ \A j \in 1 .. Len(ks) :
             /\ At(str, at[j]).res = "KEY" /\ ks[j] = At(str, at[j]).key
             /\ at[j + 1] = After(str, at[j])
  BY DEF Reads
<1>7. at \in [1 .. Len(ks) + 1 -> 0 .. Len(all)]
  BY <1>2
<1>8. ASSUME NEW j \in 1 .. Len(ks)
      PROVE  /\ At(all, at[j]).res = "KEY" /\ ks[j] = At(all, at[j]).key
             /\ at[j + 1] = After(all, at[j])
  <2>1. at[j] \in 0 .. Len(str)
    BY <1>5
  <2>2. At(all, at[j]) = At(str, at[j])
    BY <1>3, <1>6, <2>1
  <2> QED
    BY <1>6, <2>2 DEF After
<1> QED
  BY <1>5, <1>6, <1>7, <1>8 DEF Reads

(* A key is found at a place or behind the Escape that is there.           *)
LEMMA PlaceAlt ==
  ASSUME NEW S, NEW str \in Seq(S), NEW force \in BOOLEAN, NEW closed,
         NEW k \in 0 .. Len(str) - 1, NEW beyond,
         k + 1 < Len(str) => Answers(beyond, k + 1, Len(str), force),
         NEW look, look = AtPlace(str, force, closed, k, beyond), look.res = "KEY"
  PROVE  \/ look.alt = k
         \/ /\ k + 1 < Len(str) /\ str[k + 1] = ESC
            /\ beyond.res = "KEY" /\ look.alt = beyond.alt
<1>1. PICK s, t, c : /\ s = Rest(str, k)
                     /\ t = ti_peekkey(s, force) /\ c = csi_peekkey(s, force)
  OBVIOUS
<1>2. /\ Len(str) \in Nat /\ k \in 0 .. Len(str) /\ Len(str) - k \in Nat \ {0}
      /\ 1 \in 1 .. Len(str) - k
  BY LenProperties
<1>3. s # <<>> /\ Len(s) = Len(str) - k /\ s[1] = str[k + 1]
  <2>1. /\ Rest(str, k) # <<>> /\ Len(Rest(str, k)) = Len(str) - k
        /\ Rest(str, k)[1] = str[k + 1]
    BY <1>2, RestIs
  <2> QED
    BY <1>1, <2>1
<1>4. look = PeekAt(s, k, force, t, c, beyond)
  BY <1>1, <1>3 DEF AtPlace
<1>5. CASE \E peek, driver : look = Found(peek, k, driver)
  <2>1. PICK peek, driver : look = Found(peek, k, driver)
    BY <1>5
  <2>2. peek.res = "KEY"
    BY <2>1 DEF Found
  <2> QED
    BY <2>1, <2>2 DEF Found
<1>6. CASE s[1] = ESC /\ Len(s) > 1 /\ look = Deeper(beyond)
  <2>1. k + 1 < Len(str)
    BY <1>2, <1>3, <1>6
  <2>2. beyond.res = "KEY"
    BY <1>6 DEF Deeper
  <2>3. Answers(beyond, k + 1, Len(str), force)
    BY <2>1
  <2>4. PICK key, n, keep, alt, driver :
               beyond = [res |-> "KEY", key |-> key, n |-> n, keep |-> keep,
                         alt |-> alt, driver |-> driver]
    BY <2>2, <2>3 DEF Answers, Again
  <2>5. look.alt = beyond.alt
    BY <1>6, <2>2, <2>4 DEF Deeper
  <2> QED
    BY <1>3, <1>6, <2>1, <2>2, <2>5
<1>7. CASE look = Again
  BY <1>7 DEF Again
<1> QED
  BY <1>4, <1>5, <1>6, <1>7 DEF PeekAt

-----------------------------------------------------------------------------
(* The bytes behind the introducer of a CSI sequence are a CSI sequence of *)
(* no introducer: termkey_interpret_csi parses the kept bytes as peekkey   *)
(* parsed them.                                                            *)
LEMMA ParseCsiShift ==
  ASSUME NEW S, NEW s \in Seq(S), NEW L \in 1 .. 2, L <= Len(s), parse_csi(s, L) # Again
  PROVE  /\ parse_csi(Rest(s, L), 0) # Again
         /\ Command(parse_csi(Rest(s, L), 0)) = Command(parse_csi(s, L))
         /\ parse_csi(Rest(s, L), 0).csi_len = parse_csi(s, L).csi_len - L
<1>1. Len(s) \in Nat /\ L \in Nat /\ L \in 0 .. 2 /\ L \in 0 .. Len(s) /\ 0 \in 0 .. 2
  BY LenProperties
<1>2. PICK r : r = Rest(s, L)
  OBVIOUS
<1>3. /\ r \in Seq(S) /\ Len(r) = Len(s) - L /\ Len(r) \in Nat
      /\ \A i \in 1 .. Len(s) - L : r[i] = s[L + i]
  <2>1. /\ Rest(s, L) \in Seq(S) /\ Len(Rest(s, L)) = Len(s) - L
        /\ \A i \in 1 .. Len(s) - L : Rest(s, L)[i] = s[L + i]
    BY <1>1, RestIs
  <2> QED
    BY <1>1, <1>2, <2>1
<1>4. PICK end \in CsiEnds(s, L) :
        /\ \A i \in CsiEnds(s, L) : end <= i
        /\ parse_csi(s, L) =
             Parsed(s[end], end, CsiBody(s, L, end), BodyAt(CsiBody(s, L, end)))
  BY <1>1, ParseCsiIs
<1>5. end \in L + 1 .. Len(s) /\ s[end] \in 64 .. 127
  BY <1>4 DEF CsiEnds
<1>6. PICK e \in Nat : e = end - L /\ e \in 1 .. Len(s) - L /\ L + e = end
  BY <1>1, <1>5
<1>7. r[e] = s[end]
  BY <1>3, <1>6
<1>8. \A i : i \in CsiEnds(r, 0) <=> i \in 1 .. Len(s) - L /\ r[i] \in 64 .. 127
  BY <1>3 DEF CsiEnds
<1>9. e \in CsiEnds(r, 0)
  BY <1>5, <1>6, <1>7, <1>8
<1>10. \A i \in CsiEnds(r, 0) : e <= i
  <2> SUFFICES ASSUME NEW i \in CsiEnds(r, 0) PROVE e <= i
    OBVIOUS
  <2>1. i \in 1 .. Len(s) - L /\ r[i] \in 64 .. 127 /\ r[i] = s[L + i]
    BY <1>3, <1>8
  <2>2. L + i \in L + 1 .. Len(s)
    BY <1>1, <2>1
  <2>3. L + i \in CsiEnds(s, L)
    BY <2>1, <2>2 DEF CsiEnds
  <2>4. end <= L + i
    BY <1>4, <2>3
  <2> QED
    BY <1>1, <1>6, <2>1, <2>4
<1>11. PICK last \in CsiEnds(r, 0) :
        /\ \A i \in CsiEnds(r, 0) : last <= i
        /\ parse_csi(r, 0) =
             Parsed(r[last], last, CsiBody(r, 0, last), BodyAt(CsiBody(r, 0, last)))
  BY <1>1, <1>3, <1>9, ParseCsiIs
<1>12. last = e
  <2>1. last \in Int /\ e \in Int /\ last <= e /\ e <= last
    BY <1>6, <1>8, <1>9, <1>10, <1>11
  <2> QED
    BY <2>1
<1>13. CsiBody(r, 0, e) = CsiBody(s, L, end)
  <2> DEFINE A == SubSeq(r, 1, e - 1)
             B == SubSeq(s, L + 1, end - 1)
  <2>1. \A i \in 1 .. e - 1 : i \in 1 .. Len(r) /\ i \in 1 .. Len(s) - L
    BY <1>1, <1>3, <1>6
  <2>2. \A i \in L + 1 .. end - 1 : i \in 1 .. Len(s)
    BY <1>1, <1>5
  <2>3. \A i \in 1 .. e - 1 : r[i] \in S
    BY <1>3, <2>1, ElementOfSeq
  <2>4. \A i \in L + 1 .. end - 1 : s[i] \in S
    BY <2>2, ElementOfSeq
  <2>5. /\ A \in Seq(S) /\ Len(A) = IF 1 <= e - 1 THEN (e - 1) - 1 + 1 ELSE 0
        /\ \A i \in 1 .. (e - 1) - 1 + 1 : A[i] = r[1 + i - 1]
    <3>1. 1 \in Int /\ e - 1 \in Int
      BY <1>6
    <3> QED
      BY <2>3, <3>1, SubSeqProperties
  <2>6. /\ B \in Seq(S)
        /\ Len(B) = IF L + 1 <= end - 1 THEN (end - 1) - (L + 1) + 1 ELSE 0
        /\ \A i \in 1 .. (end - 1) - (L + 1) + 1 : B[i] = s[L + 1 + i - 1]
    <3>1. L + 1 \in Int /\ end - 1 \in Int
      BY <1>1, <1>5
    <3> QED
      BY <2>4, <3>1, SubSeqProperties
  <2> HIDE DEF A, B
  <2>7. Len(A) = e - 1 /\ Len(B) = e - 1
    <3>1. e \in Nat /\ e >= 1 /\ L \in Nat /\ L + e = end
      BY <1>1, <1>6
    <3>2. \A a, l, z : a \in Nat /\ a >= 1 /\ l \in Nat /\ l + a = z =>
            /\ (IF 1 <= a - 1 THEN (a - 1) - 1 + 1 ELSE 0) = a - 1
            /\ (IF l + 1 <= z - 1 THEN (z - 1) - (l + 1) + 1 ELSE 0) = a - 1
      OBVIOUS
    <3>3. /\ (IF 1 <= e - 1 THEN (e - 1) - 1 + 1 ELSE 0) = e - 1
          /\ (IF L + 1 <= end - 1 THEN (end - 1) - (L + 1) + 1 ELSE 0) = e - 1
      BY ONLY <3>1, <3>2, Zenon
    <3> QED
      BY ONLY <2>5, <2>6, <3>3
  <2>8. \A i \in 1 .. e - 1 : A[i] = B[i]
    <3> SUFFICES ASSUME NEW i \in 1 .. e - 1 PROVE A[i] = B[i]
      OBVIOUS
    <3>1. /\ i \in 1 .. (e - 1) - 1 + 1 /\ 1 + i - 1 = i
          /\ i \in 1 .. (end - 1) - (L + 1) + 1 /\ L + 1 + i - 1 = L + i
      <4>1. e \in Nat /\ e >= 1 /\ L \in Nat /\ L + e = end /\ i \in 1 .. e - 1
        BY <1>1, <1>6
      <4> QED
        BY ONLY <4>1
    <3>2. A[i] = r[i] /\ B[i] = s[L + i]
      BY <2>5, <2>6, <3>1
    <3> QED
      BY <1>3, <2>1, <3>2
  <2>9. A = B
    BY <2>5, <2>6, <2>7, <2>8, SeqEqual
  <2>10. 0 + 1 = 1
    OBVIOUS
  <2> QED
    BY <2>9, <2>10 DEF CsiBody, A, B
<1>14. PICK cmd, body, at : /\ parse_csi(s, L) = Parsed(cmd, end, body, at)
                            /\ parse_csi(r, 0) = Parsed(cmd, e, body, at)
  BY <1>4, <1>7, <1>11, <1>12, <1>13
<1>15. Command(Parsed(cmd, e, body, at)) = Command(Parsed(cmd, end, body, at))
  BY DEF Command, Parsed
<1> QED
  BY <1>2, <1>6, <1>14, <1>15, ParsedIsKey

(* The bytes r are those of the unknown CSI sequence that look found.      *)
Kept(r, look) ==
  \E code, mods :
    /\ look.key = [type |-> "UNKNOWN_CSI", code |-> code, mods |-> mods]
    /\ parse_csi(r, 0) # Again /\ Command(parse_csi(r, 0)) = code
    /\ parse_csi(r, 0).csi_len = look.keep

LEMMA CsiKept ==
  ASSUME NEW S, NEW s \in Seq(S), NEW L \in 1 .. 2, L <= Len(s), NEW force \in BOOLEAN,
         NEW look, look = peekkey_csi(s, L, force), look.res = "KEY", look.keep # 0
  PROVE  look.n = L /\ Kept(Rest(s, L), look)
<1>1. PICK csi, handled : csi = parse_csi(s, L) /\ handled = csi_handlers(csi)
  OBVIOUS
<1>2. \A key, n : Key(key, n).keep = 0
  BY DEF Key
<1>3. Again.res # "KEY"
  BY DEF Again
<1>4. csi # Again /\ look = UnknownCsi(csi, L)
  <2>1. csi # Again
    <3> SUFFICES ASSUME csi = Again PROVE FALSE
      OBVIOUS
    <3>1. \/ look = Key(With(emit_codepoint(91), {ALT}), L)
          \/ look = Again
      BY <1>1 DEF peekkey_csi
    <3> QED
      BY <1>2, <1>3, <3>1
  <2>2. look = CsiKey(s, L, csi, handled)
    BY <1>1, <2>1, CsiKeyIs
  <2>3. \/ look = peekkey_mouse(s, csi.csi_len)
        \/ look = UnknownCsi(csi, L)
        \/ \E key, n : look = Key(key, n)
    BY <2>2 DEF CsiKey
  <2>4. \A n : peekkey_mouse(s, n) = Again \/ peekkey_mouse(s, n).keep = 0
    BY <1>2 DEF peekkey_mouse
  <2> QED
    BY <1>2, <1>3, <2>1, <2>3, <2>4
<1>5. /\ look.key = [type |-> "UNKNOWN_CSI", code |-> Command(csi), mods |-> {}]
      /\ look.n = L /\ look.keep = csi.csi_len - L
  BY <1>4 DEF UnknownCsi, Key
<1>6. /\ parse_csi(Rest(s, L), 0) # Again
      /\ Command(parse_csi(Rest(s, L), 0)) = Command(csi)
      /\ parse_csi(Rest(s, L), 0).csi_len = csi.csi_len - L
  BY <1>1, <1>4, ParseCsiShift
<1> QED
  BY <1>5, <1>6 DEF Kept

LEMMA RestRest ==
  ASSUME NEW S, NEW s \in Seq(S), NEW a \in Nat, NEW b \in Nat, a + b <= Len(s)
  PROVE  Rest(Rest(s, a), b) = Rest(s, a + b)
<1>1. Len(s) \in Nat /\ a \in 0 .. Len(s) /\ a + b \in 0 .. Len(s)
  BY LenProperties
<1>2. PICK r : r = Rest(s, a)
  OBVIOUS
<1>3. r \in Seq(S) /\ Len(r) = Len(s) - a /\ \A i \in 1 .. Len(s) - a : r[i] = s[a + i]
  <2>1. /\ Rest(s, a) \in Seq(S) /\ Len(Rest(s, a)) = Len(s) - a
        /\ \A i \in 1 .. Len(s) - a : Rest(s, a)[i] = s[a + i]
    BY <1>1, RestIs
  <2> QED
    BY <1>2, <2>1
<1>4. b \in 0 .. Len(r)
  BY <1>1, <1>3
<1>5. PICK q : q = Rest(r, b)
  OBVIOUS
<1>6. q \in Seq(S) /\ Len(q) = Len(r) - b /\ \A i \in 1 .. Len(r) - b : q[i] = r[b + i]
  <2>1. /\ Rest(r, b) \in Seq(S) /\ Len(Rest(r, b)) = Len(r) - b
        /\ \A i \in 1 .. Len(r) - b : Rest(r, b)[i] = r[b + i]
    BY <1>3, <1>4, RestIs
  <2> QED
    BY <1>5, <2>1
<1>7. PICK c \in 0 .. Len(s) : c = a + b
  BY <1>1
<1>8. PICK p : p = Rest(s, c)
  OBVIOUS
<1>9. p \in Seq(S) /\ Len(p) = Len(s) - c /\ \A i \in 1 .. Len(s) - c : p[i] = s[c + i]
  <2>1. /\ Rest(s, c) \in Seq(S) /\ Len(Rest(s, c)) = Len(s) - c
        /\ \A i \in 1 .. Len(s) - c : Rest(s, c)[i] = s[c + i]
    BY RestIs
  <2> QED
    BY <1>8, <2>1
<1>10. Len(q) = Len(p)
  BY <1>1, <1>3, <1>6, <1>7, <1>9
<1>11. \A i \in 1 .. Len(q) : q[i] = p[i]
  <2> SUFFICES ASSUME NEW i \in 1 .. Len(q) PROVE q[i] = p[i]
    OBVIOUS
  <2>1. /\ i \in 1 .. Len(r) - b /\ b + i \in 1 .. Len(s) - a /\ i \in 1 .. Len(s) - c
        /\ a + (b + i) = c + i
    BY <1>1, <1>3, <1>6, <1>7
  <2> QED
    BY <1>3, <1>6, <1>9, <2>1
<1>12. q = p
  BY <1>6, <1>9, <1>10, <1>11, SeqEqual
<1> QED
  BY <1>2, <1>5, <1>7, <1>8, <1>12

LEMMA CsiDriverKept ==
  ASSUME NEW S, NEW s \in Seq(S), s # <<>>, NEW force \in BOOLEAN,
         NEW look, look = csi_peekkey(s, force), look.res = "KEY", look.keep # 0
  PROVE  Kept(Rest(s, look.n), look)
<1>1. /\ Len(s) \in Nat \ {0} /\ DOMAIN s = 1 .. Len(s)
      /\ 1 \in 1 .. 2 /\ 1 <= Len(s) /\ 2 \in 1 .. 2 /\ (Len(s) > 1 => 2 <= Len(s))
  <2>1. Len(s) \in Nat \ {0} /\ DOMAIN s = 1 .. Len(s)
    BY LenProperties, EmptySeq
  <2> QED
    BY <2>1
<1>2. \/ Len(s) > 1 /\ look = peekkey_ss3(s, 2, force)
      \/ Len(s) > 1 /\ look = peekkey_ctrlstring(s, 2)
      \/ Len(s) > 1 /\ look = peekkey_csi(s, 2, force)
      \/ look = peekkey_ss3(s, 1, force)
      \/ look = peekkey_ctrlstring(s, 1)
      \/ look = peekkey_csi(s, 1, force)
      \/ look = NoKey
  BY DEF csi_peekkey, ESC
<1>3. NoKey.res # "KEY"
  BY DEF NoKey
<1>4. \/ Len(s) > 1 /\ look = peekkey_csi(s, 2, force)
      \/ look = peekkey_csi(s, 1, force)
  BY <1>1, <1>2, <1>3, Ss3Fits, CtrlstringFits
<1> QED
  BY <1>1, <1>4, CsiKept

LEMMA FoundIs ==
  ASSUME NEW peek, NEW k, NEW driver, NEW look, look = Found(peek, k, driver), look.res = "KEY"
  PROVE  /\ peek.res = "KEY" /\ look.key = peek.key
         /\ look.n = peek.n /\ look.keep = peek.keep
BY DEF Found

LEMMA WithIs ==
  ASSUME NEW type, NEW code, NEW old, NEW new
  PROVE  With([type |-> type, code |-> code, mods |-> old], new)
           = [type |-> type, code |-> code, mods |-> old \cup new]
BY DEF With

LEMMA PlaceKept ==
  ASSUME NEW S, NEW str \in Seq(S), NEW force \in BOOLEAN, NEW closed,
         NEW k \in 0 .. Len(str) - 1, NEW beyond,
         k + 1 < Len(str) =>
           /\ Answers(beyond, k + 1, Len(str), force)
           /\ beyond.res = "KEY" /\ beyond.keep # 0 => Kept(Rest(str, k + 1 + beyond.n), beyond),
         NEW look, look = AtPlace(str, force, closed, k, beyond),
         look.res = "KEY", look.keep # 0
  PROVE  Kept(Rest(str, k + look.n), look)
<1>1. PICK s, t, c : /\ s = Rest(str, k)
                     /\ t = ti_peekkey(s, force) /\ c = csi_peekkey(s, force)
  OBVIOUS
<1>2. Len(str) \in Nat /\ k \in Nat /\ k \in 0 .. Len(str) /\ k # Len(str)
  BY LenProperties
<1>3. /\ s # <<>> /\ s \in Seq(S) /\ Len(s) = Len(str) - k
      /\ Len(s) \in Nat \ {0} /\ DOMAIN s = 1 .. Len(s)
  <2>1. /\ Rest(str, k) # <<>> /\ Rest(str, k) \in Seq(S)
        /\ Len(Rest(str, k)) = Len(str) - k /\ DOMAIN Rest(str, k) = 1 .. Len(str) - k
    BY <1>2, RestIs
  <2>2. Len(str) - k \in Nat \ {0}
    BY <1>2
  <2> QED
    BY <1>1, <2>1, <2>2
<1>4. look = PeekAt(s, k, force, t, c, beyond)
  BY <1>1, <1>3 DEF AtPlace
<1>5. /\ t.res = "KEY" => t.keep = 0
      /\ c.res = "KEY" => c.n \in 1 .. Len(s)
      /\ SimpleKey(s, force).res = "KEY" => SimpleKey(s, force).keep = 0
  BY <1>1, <1>3, TiDriver, CsiDriver, SimpleFits DEF Fits
<1>7. \/ c.res = "KEY" /\ \E driver : look = Found(c, k, driver)
      \/ s[1] = ESC /\ Len(s) > 1 /\ look = Deeper(beyond)
  <2>1. \/ \E driver : look = Found(t, k, driver)
        \/ \E driver : look = Found(c, k, driver)
        \/ look = Again
        \/ s[1] = ESC /\ Len(s) > 1 /\ look = Deeper(beyond)
        \/ \E driver : look = Found(SimpleKey(s, force), k, driver)
    BY <1>4 DEF PeekAt
  <2>2. Again.res # "KEY"
    BY DEF Again
  <2>3. \A driver : look # Found(t, k, driver)
    BY <1>5, FoundIs
  <2>4. \A driver : look # Found(SimpleKey(s, force), k, driver)
    <3>1. PICK peek : peek = SimpleKey(s, force)
      OBVIOUS
    <3>2. \A driver : look # Found(peek, k, driver)
      BY <1>5, <3>1, FoundIs
    <3> QED
      BY <3>1, <3>2
  <2>5. \A driver : look = Found(c, k, driver) => c.res = "KEY"
    BY FoundIs
  <2> QED
    BY ONLY <2>1, <2>2, <2>3, <2>4, <2>5, look.res = "KEY"
<1>8. CASE c.res = "KEY" /\ \E driver : look = Found(c, k, driver)
  <2>1. look.key = c.key /\ look.n = c.n /\ look.keep = c.keep
    BY <1>8, FoundIs
  <2>2. Kept(Rest(s, c.n), c)
    BY <1>1, <1>3, <1>8, <2>1, CsiDriverKept
  <2>3. Rest(s, c.n) = Rest(str, k + c.n)
    <3>1. PICK n \in Nat : n = c.n /\ k + n <= Len(str)
      BY <1>2, <1>3, <1>5, <1>8
    <3>2. Rest(Rest(str, k), n) = Rest(str, k + n)
      BY <1>2, <3>1, RestRest
    <3> QED
      BY <1>1, <3>1, <3>2
  <2> QED
    BY <2>1, <2>2, <2>3 DEF Kept
<1>9. CASE s[1] = ESC /\ Len(s) > 1 /\ look = Deeper(beyond)
  <2>1. k + 1 < Len(str)
    BY <1>2, <1>3, <1>9
  <2>2. beyond.res = "KEY"
    BY <1>9 DEF Deeper
  <2>3. PICK key : \E n \in 1 .. Len(str) - (k + 1) : \E keep, alt, driver :
               beyond = [res |-> "KEY", key |-> key, n |-> n, keep |-> keep,
                         alt |-> alt, driver |-> driver]
    <3>1. Answers(beyond, k + 1, Len(str), force)
      BY <2>1
    <3> QED
      BY <2>2, <3>1 DEF Answers, Again
  <2>4. PICK n \in 1 .. Len(str) - (k + 1) : \E keep, alt, driver :
               beyond = [res |-> "KEY", key |-> key, n |-> n, keep |-> keep,
                         alt |-> alt, driver |-> driver]
    BY ONLY <2>3, Zenon
  <2>5. PICK keep, alt, driver :
               beyond = [res |-> "KEY", key |-> key, n |-> n, keep |-> keep,
                         alt |-> alt, driver |-> driver]
    BY ONLY <2>4, Zenon
  <2>6. look = [res |-> "KEY", key |-> With(key, {ALT}), n |-> n + 1, keep |-> keep,
                alt |-> alt, driver |-> driver]
    BY <1>9, <2>5 DEF Deeper
  <2>7. look.keep = keep /\ look.key = With(key, {ALT}) /\ look.n = n + 1
        /\ beyond.keep = keep /\ beyond.key = key /\ beyond.n = n
    BY <2>5, <2>6
  <2>8. k + look.n = k + 1 + beyond.n
    BY <1>2, <2>7
  <2>9. Kept(Rest(str, k + look.n), beyond)
    BY <2>1, <2>2, <2>7, <2>8
  <2>10. PICK r : r = Rest(str, k + look.n)
    OBVIOUS
  <2>11. PICK code, mods :
          /\ key = [type |-> "UNKNOWN_CSI", code |-> code, mods |-> mods]
          /\ parse_csi(r, 0) # Again /\ Command(parse_csi(r, 0)) = code
          /\ parse_csi(r, 0).csi_len = keep
    BY <2>7, <2>9, <2>10 DEF Kept
  <2>12. With(key, {ALT}) = [type |-> "UNKNOWN_CSI", code |-> code, mods |-> mods \cup {ALT}]
    BY ONLY <2>11, WithIs
  <2>13. Kept(r, look)
    BY <2>7, <2>11, <2>12 DEF Kept
  <2> QED
    BY <2>10, <2>13
<1> QED
  BY <1>7, <1>8, <1>9

LEMMA PeekkeyKept ==
  ASSUME NEW S, NEW str \in Seq(S), NEW force \in BOOLEAN, NEW closed,
         NEW look, look = peekkey(str, force, closed), look.res = "KEY", look.keep # 0
  PROVE  Kept(Rest(str, look.n), look)
<1>1. PICK at : Looks(str, force, closed, at) /\ look = at[0]
  BY PeekkeyLooks
<1> DEFINE L == Len(str)
           Right(k) == at[k].res = "KEY" /\ at[k].keep # 0 => Kept(Rest(str, k + at[k].n), at[k])
           Bad == {n \in 1 .. L : ~Right(L - n)}
<1>2. L \in Nat \ {0}
  <2>1. str # <<>>
    BY PeekkeyAnswers
  <2> QED
    BY <2>1, LenProperties, EmptySeq
<1>3. \A k \in 0 .. L - 1 :
        at[k] = AtPlace(str, force, closed, k, at[k + 1]) /\ Answers(at[k], k, L, force)
  BY <1>1, LooksAnswer
<1>4. ASSUME NEW k \in 0 .. L - 1, k + 1 < L => Right(k + 1)
      PROVE  Right(k)
  <2>1. PICK a, b : a = at[k] /\ b = at[k + 1]
    OBVIOUS
  <2>2. k + 1 < L => k + 1 \in 0 .. L - 1
    BY <1>2
  <2>3. k + 1 < Len(str) =>
          /\ Answers(b, k + 1, Len(str), force)
          /\ b.res = "KEY" /\ b.keep # 0 => Kept(Rest(str, k + 1 + b.n), b)
    BY <1>3, <1>4, <2>1, <2>2
  <2>4. a = AtPlace(str, force, closed, k, b)
    BY <1>3, <2>1
  <2>5. a.res = "KEY" /\ a.keep # 0 => Kept(Rest(str, k + a.n), a)
    BY <2>3, <2>4, PlaceKept
  <2> QED
    BY <2>1, <2>5
<1> HIDE DEF Right, L
<1>5. Bad = {}
  <2> SUFFICES ASSUME Bad # {} PROVE FALSE
    OBVIOUS
  <2>1. PICK n \in Bad : \A m \in Bad : n <= m
    <3>1. Bad \subseteq Nat
      OBVIOUS
    <3> QED
      BY <3>1, HasLeast
  <2>2. n \in 1 .. L /\ ~Right(L - n) /\ L - n \in 0 .. L - 1
    BY <1>2, <2>1
  <2>3. L - n + 1 < L => n - 1 \in 1 .. L /\ L - (n - 1) = L - n + 1 /\ ~(n <= n - 1)
    BY <1>2, <2>2
  <2>4. L - n + 1 < L => Right(L - n + 1)
    <3> SUFFICES ASSUME L - n + 1 < L PROVE Right(L - (n - 1))
      BY <2>3
    <3>1. n - 1 \notin Bad /\ n - 1 \in 1 .. L
      BY <2>1, <2>3
    <3> QED
      BY <3>1
  <2> QED
    BY <1>4, <2>2, <2>4
<1>6. Right(0)
  <2>1. L \in 1 .. L /\ L - L = 0
    BY <1>2
  <2>2. L \notin Bad
    BY <1>5, Zenon
  <2>3. Right(L - L)
    BY <2>1, <2>2
  <2> QED
    BY <2>1, <2>3
<1>7. Kept(Rest(str, 0 + look.n), look)
  BY <1>1, <1>6 DEF Right
<1>8. 0 + look.n = look.n
  <2>1. Answers(look, 0, L, force)
    <3>1. 0 \in 0 .. L - 1
      BY <1>2
    <3> QED
      BY <1>1, <1>3, <3>1
  <2>2. look.n \in Int
    BY <1>2, <2>1 DEF Answers, Again
  <2> QED
    BY <2>2
<1> QED
  BY <1>7, <1>8

LEMMA AppendKeys ==
  ASSUME NEW K, NEW ks \in Seq(K), NEW key
  PROVE  /\ \E M : Append(ks, key) \in Seq(M)
         /\ Append(ks, key)[Len(Append(ks, key))] = key
<1>1. PICK M : M = K \cup {key}
  OBVIOUS
<1>2. ks \in Seq(M) /\ key \in M
  BY <1>1, SeqMonotonic
<1>3. Append(ks, key) \in Seq(M) /\ Append(ks, key)[Len(Append(ks, key))] = key
  BY <1>2, AppendProperties
<1> QED
  BY <1>3
=============================================================================
