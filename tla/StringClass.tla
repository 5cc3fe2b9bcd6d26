---------------------------- MODULE StringClass ----------------------------
(***************************************************************************)
(* The methods of a string (src/string_class.c) are calls of librope on    *)
(* the string's rope: the rope of string s is s.  A program that calls     *)
(* them may also call librope on the rope, as s_val is not hidden, and     *)
(* copy it and cut it.                                                     *)
(***************************************************************************)
EXTENDS Rope

CONSTANTS
  NoText,
  Texts     \* the texts a program sets a string to

ASSUME TextsAssumption == Texts \subseteq Strings

VARIABLE setting   \* the string and text of the string_class_set under way, or NoText

stringVars == <<node, num_chars, num_bytes, call, setting>>

string_class_get_length(s) == num_chars[s]

Inserts(s, pos, str) == call' = [do |-> "insert", of |-> s, pos |-> pos, str |-> str]

string_class_insert_cstr_at(s, pos, str) == Inserts(s, pos, str) /\ UNCHANGED setting

string_class_append_cstr(s, str) ==
  Inserts(s, string_class_get_length(s), str) /\ UNCHANGED setting

ClearsAllButOne(s) ==   \* mutant: counted from one
  call' = [do |-> "del", of |-> s, pos |-> 1, length |-> string_class_get_length(s)]

Clears(s) ==
  call' = [do |-> "del", of |-> s, pos |-> 0, length |-> string_class_get_length(s)]

(* Everything is deleted first and the text inserted then: one that is not *)
(* UTF-8 leaves the string empty.                                          *)
string_class_set(s, str) == Clears(s) /\ setting' = [of |-> s, str |-> str]

SetInserts ==
  /\ setting # NoText /\ call = NoCall
  /\ Inserts(setting.of, 0, setting.str)
  /\ UNCHANGED <<node, num_chars, num_bytes, setting>>

(* MaxChars bounds what is inserted.                                       *)
Method ==
  /\ setting = NoText /\ call = NoCall
  /\ \E s \in {r \in Ropes : Live(r)} :
       \/ \E str \in {t \in Strings : num_chars[s] + Len(t) <= MaxChars} :
            \/ \E pos \in 0 .. num_chars[s] + 1 : string_class_insert_cstr_at(s, pos, str)
            \/ string_class_append_cstr(s, str)
       \/ \E str \in Texts : string_class_set(s, str)
  /\ UNCHANGED <<node, num_chars, num_bytes>>

(* The call of librope returns to the method, or to the program.           *)
MethodCalled ==
  /\ setting # NoText /\ Called
  /\ setting' = IF call.do = "insert" THEN NoText ELSE setting

(* Text goes into a string by its methods only.                            *)
RopeCalled ==
  /\ setting = NoText /\ Next /\ UNCHANGED setting
  /\ call = NoCall => call'.do # "insert"

StringInit == Init /\ setting = NoText
StringNext == Method \/ MethodCalled \/ SetInserts \/ RopeCalled

StringSpec == StringInit /\ [][StringNext]_stringVars

-----------------------------------------------------------------------------
(* Whatever a string held, in however many nodes, when string_class_set    *)
(* returns it holds the new text and nothing else, or nothing if the text  *)
(* is not UTF-8.                                                           *)
SetReplaces ==
  [][\A s \in Ropes :
       setting # NoText /\ setting' = NoText /\ setting.of = s =>
         rope_write_cstr(s)' = IF Valid(setting.str) THEN setting.str ELSE <<>>]_stringVars
=============================================================================
