----------------------------- MODULE SymbolOrder -----------------------------
(***************************************************************************)
(* The visibility filter and the comparators of sort_filter_print.c.       *)
(*                                                                         *)
(* A symbol is a record of name (a sequence of character codes, without    *)
(* its NUL), value, type (the letter of classify_symbol), info_type, bind  *)
(* and undef (st_shndx is SHN_UNDEF).                                      *)
(***************************************************************************)
EXTENDS Integers, Sequences

Special == {95, 46, 36}      \* '_', '.' and '$'

(* Mutant: -u goes by the letter and misses weak symbols. *)
IsVisibleByLetter(s, opt) ==
  /\ ~ (s.type = "U" /\ s.name = <<>>)
  /\ "a" \notin opt =>
       s.info_type \notin {"FILE", "SECTION"} /\ s.name # <<>>
  /\ "g" \in opt => s.bind # "LOCAL"
  /\ "u" \in opt => s.type = "U"

(* is_visible, for the options in opt. *)
IsVisible(s, opt) ==
  /\ ~ (s.type = "U" /\ s.name = <<>>)
  /\ "a" \notin opt =>
       s.info_type \notin {"FILE", "SECTION"} /\ s.name # <<>>
  /\ "g" \in opt => s.bind # "LOCAL"
  /\ "u" \in opt => s.undef

(* skip_special_prefix: a name made of nothing else keeps its prefix. *)
SkipSpecialPrefix(s) ==
  LET others == {i \in DOMAIN s : s[i] \notin Special}
  IN  IF others = {} THEN s
      ELSE SubSeq(s, CHOOSE i \in others : \A j \in others : i <= j, Len(s))

ToUpper(s) ==
  [i \in DOMAIN s |-> IF s[i] \in 97..122 THEN s[i] - 32 ELSE s[i]]

(* The i-th character, or the NUL behind the last one. *)
Char(s, i) == IF i <= Len(s) THEN s[i] ELSE 0

(* The difference at the first place where the strings differ, the NUL of  *)
(* the shorter one included.                                               *)
StrDiff(s, t) ==
  LET diffs == {i \in 1..(Len(s) + 1) : Char(s, i) # Char(t, i)}
      i     == CHOOSE k \in diffs : \A l \in diffs : k <= l
  IN  IF diffs = {} THEN 0 ELSE Char(s, i) - Char(t, i)

StrCompareToUpper(s, t) == StrDiff(ToUpper(s), ToUpper(t))

StrCompare(s, t) ==
  LET d == StrCompareToUpper(SkipSpecialPrefix(s), SkipSpecialPrefix(t))
  IN  IF d # 0 THEN d ELSE StrDiff(s, t)

CompareValues(v, w) == IF v < w THEN -1 ELSE IF v > w THEN 1 ELSE 0

CompareByName(a, b) ==
  LET d == StrCompare(a.name, b.name)
  IN  IF d # 0 THEN d ELSE CompareValues(a.value, b.value)

(* Among the symbols of value 0, the undefined ones come first. *)
CompareByValue(a, b) ==
  LET pending(s) == s.type \in {"U", "w"}
  IN  CASE a.value = 0 /\ b.value = 0 /\ pending(b) /\ ~ pending(a) -> 1
        [] a.value = 0 /\ b.value = 0 /\ pending(a) /\ ~ pending(b) -> -1
        [] OTHER -> LET d == CompareValues(a.value, b.value)
                    IN  IF d # 0 THEN d ELSE StrCompare(a.name, b.name)

Compare(opt, a, b) ==
  IF "n" \in opt THEN CompareByValue(a, b) ELSE CompareByName(a, b)
=============================================================================
