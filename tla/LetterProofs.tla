----------------------------- MODULE LetterProofs -----------------------------
(***************************************************************************)
(* Proofs about the letters classify_symbol computes.  TLC tries them in   *)
(* the order in which it enumerates the places; here the order is any.     *)
(***************************************************************************)
EXTENDS LetterSweep, TLAPS

Letters == Documented \ {"n"}

Cache(p) == [k \in 0..1 |-> [type |-> p.type, flags |-> p.flags]]

LettersAt(p) == {ClassifySymbol(s, Cache(p)) : s \in Symbols(p.shndx)}

(* What has been tried accounts for the letters seen. *)
SweepInv ==
  /\ rest \subseteq Places
  /\ \A c : c \in seen <=> \E p \in Places \ rest : c \in LettersAt(p)

(* Whatever a section's type and flags are, an allocated one is writable,  *)
(* executable or read-only.                                                *)
LEMMA SectionLetters ==
  ASSUME NEW sym, NEW sec
  PROVE  ClassifyBySection(sym, sec) \in {"p", "b", "B", "t", "T", "d", "D", "r", "R", "N", "?"}
BY DEF ClassifyBySection, ByBinding

(* For every symbol and every cache, not only those of the sweep. *)
LEMMA LettersOnly ==
  ASSUME NEW sym, NEW cache
  PROVE  ClassifySymbol(sym, cache) \in Letters
<1>1. UndefinedWeak(sym) \in {"v", "w"}
  BY DEF UndefinedWeak
<1>2. ClassifyByShndx(sym, cache) \in Letters
  <2>1. CASE sym.shndx = SHN_ABS
    <3>1. ClassifyByShndx(sym, cache) \in {"a", "A"}
      BY <2>1 DEF ClassifyByShndx, ByBinding, SHN_ABS, SHN_COMMON, SHN_UNDEF
    <3> QED
      BY <3>1 DEF Letters, Documented
  <2>2. CASE sym.shndx = SHN_COMMON
    <3>1. ClassifyByShndx(sym, cache) = "C"
      BY <2>2 DEF ClassifyByShndx, SHN_ABS, SHN_COMMON, SHN_UNDEF
    <3> QED
      BY <3>1 DEF Letters, Documented
  <2>3. CASE sym.shndx = SHN_UNDEF
    <3>1. ClassifyByShndx(sym, cache) \in {"v", "w", "U"}
      BY <1>1, <2>3 DEF ClassifyByShndx, SHN_ABS, SHN_COMMON, SHN_UNDEF
    <3> QED
      BY <3>1 DEF Letters, Documented
  <2>4. CASE sym.shndx \notin {SHN_ABS, SHN_COMMON, SHN_UNDEF}
    <3>1. ClassifyByShndx(sym, cache) = ClassifyBySection(sym, cache[sym.shndx])
      BY <2>4 DEF ClassifyByShndx
    <3> QED
      BY <3>1, SectionLetters DEF Letters, Documented
  <2> QED
    BY <2>1, <2>2, <2>3, <2>4
<1>3. ClassifySymbol(sym, cache) \in {"i", "u", "v", "w", "V", "W"}
        \/ ClassifySymbol(sym, cache) = ClassifyByShndx(sym, cache)
  BY <1>1 DEF ClassifySymbol
<1> QED
  BY <1>2, <1>3 DEF Letters, Documented

(* The letter of one symbol of the sweep. *)
Gives(info, bind, shndx, type, flags) ==
  ClassifySymbol([info_type |-> info, bind |-> bind, shndx |-> shndx],
                 Cache([shndx |-> shndx, type |-> type, flags |-> flags]))

Answers == {c \in Letters : \E p \in Places : c \in LettersAt(p)}

LEMMA Tried ==
  ASSUME NEW info \in {"NOTYPE", "OBJECT", "GNU_IFUNC"},
         NEW bind \in {"LOCAL", "GLOBAL", "WEAK", "GNU_UNIQUE"},
         NEW shndx \in {SHN_UNDEF, 1, SHN_ABS, SHN_COMMON},
         NEW type \in {"PROGBITS", "NOBITS", "UNWIND", "NOTE"},
         NEW flags \in SUBSET {"ALLOC", "WRITE", "EXEC"}
  PROVE  Gives(info, bind, shndx, type, flags) \in Answers
<1> DEFINE p == [shndx |-> shndx, type |-> type, flags |-> flags]
           sym == [info_type |-> info, bind |-> bind, shndx |-> shndx]
<1>1. p \in Places /\ p.shndx = shndx
  BY DEF Places
<1>2. sym \in Symbols(p.shndx)
  BY <1>1 DEF Symbols
<1>3. Gives(info, bind, shndx, type, flags) = ClassifySymbol(sym, Cache(p))
  BY DEF Gives
<1> HIDE DEF p, sym
<1>4. ClassifySymbol(sym, Cache(p)) \in LettersAt(p)
  BY <1>2 DEF LettersAt
<1> QED
  BY <1>1, <1>3, <1>4, LettersOnly DEF Answers

(* In the cache of the sweep there is one section, with index 1. *)
LEMMA BySection ==
  ASSUME NEW bind \in {"LOCAL", "GLOBAL"}, NEW type, NEW flags
  PROVE  Gives("NOTYPE", bind, 1, type, flags) =
           ClassifyBySection([info_type |-> "NOTYPE", bind |-> bind, shndx |-> 1],
                             [type |-> type, flags |-> flags])
<1> DEFINE p == [shndx |-> 1, type |-> type, flags |-> flags]
           sym == [info_type |-> "NOTYPE", bind |-> bind, shndx |-> 1]
<1>1. Cache(p)[1] = [type |-> type, flags |-> flags]
  BY DEF Cache
<1>2. sym.info_type = "NOTYPE" /\ sym.bind = bind /\ sym.shndx = 1
  OBVIOUS
<1>3. Gives("NOTYPE", bind, 1, type, flags) = ClassifySymbol(sym, Cache(p))
  BY DEF Gives
<1> HIDE DEF p, sym
<1>4. ClassifySymbol(sym, Cache(p)) = ClassifyBySection(sym, Cache(p)[1])
  BY <1>2 DEF ClassifySymbol, ClassifyByShndx, SHN_ABS, SHN_COMMON, SHN_UNDEF
<1> QED
  BY <1>1, <1>3, <1>4 DEF sym

(* One symbol for each letter. *)
LEMMA EveryLetter == Letters \subseteq Answers
<1> DEFINE none == {}
           rx == {"ALLOC", "EXEC"}
           rw == {"ALLOC", "WRITE"}
           r  == {"ALLOC"}
<1>1. none \in SUBSET {"ALLOC", "WRITE", "EXEC"} /\ rx \in SUBSET {"ALLOC", "WRITE", "EXEC"}
      /\ rw \in SUBSET {"ALLOC", "WRITE", "EXEC"} /\ r \in SUBSET {"ALLOC", "WRITE", "EXEC"}
  OBVIOUS
<1>2. /\ Gives("GNU_IFUNC", "LOCAL", 1, "NOTE", none) = "i"
      /\ Gives("NOTYPE", "GNU_UNIQUE", 1, "NOTE", none) = "u"
      /\ Gives("OBJECT", "WEAK", 1, "NOTE", none) = "V"
      /\ Gives("NOTYPE", "WEAK", 1, "NOTE", none) = "W"
      /\ Gives("OBJECT", "WEAK", SHN_UNDEF, "NOTE", none) = "v"
      /\ Gives("NOTYPE", "WEAK", SHN_UNDEF, "NOTE", none) = "w"
  BY DEF Gives, ClassifySymbol, UndefinedWeak, SHN_UNDEF
<1>3. /\ Gives("NOTYPE", "GLOBAL", SHN_UNDEF, "NOTE", none) = "U"
      /\ Gives("NOTYPE", "LOCAL", SHN_ABS, "NOTE", none) = "a"
      /\ Gives("NOTYPE", "GLOBAL", SHN_ABS, "NOTE", none) = "A"
      /\ Gives("NOTYPE", "GLOBAL", SHN_COMMON, "NOTE", none) = "C"
  BY DEF Gives, ClassifySymbol, ClassifyByShndx, ByBinding, SHN_UNDEF, SHN_ABS, SHN_COMMON
<1>4. /\ Gives("NOTYPE", "LOCAL", 1, "UNWIND", none) = "p"
      /\ Gives("NOTYPE", "LOCAL", 1, "NOBITS", rw) = "b"
      /\ Gives("NOTYPE", "GLOBAL", 1, "NOBITS", rw) = "B"
  BY BySection DEF ClassifyBySection, ByBinding
<1>5. /\ Gives("NOTYPE", "LOCAL", 1, "PROGBITS", rx) = "t"
      /\ Gives("NOTYPE", "GLOBAL", 1, "PROGBITS", rx) = "T"
      /\ Gives("NOTYPE", "LOCAL", 1, "PROGBITS", rw) = "d"
      /\ Gives("NOTYPE", "GLOBAL", 1, "PROGBITS", rw) = "D"
  BY BySection DEF ClassifyBySection, ByBinding
<1>6. /\ Gives("NOTYPE", "LOCAL", 1, "PROGBITS", r) = "r"
      /\ Gives("NOTYPE", "GLOBAL", 1, "PROGBITS", r) = "R"
      /\ Gives("NOTYPE", "LOCAL", 1, "PROGBITS", none) = "N"
      /\ Gives("NOTYPE", "LOCAL", 1, "NOTE", none) = "?"
  BY BySection DEF ClassifyBySection, ByBinding
<1> HIDE DEF none, rx, rw, r
<1>7. /\ "i" \in Answers /\ "u" \in Answers /\ "V" \in Answers /\ "W" \in Answers
      /\ "v" \in Answers /\ "w" \in Answers
  BY <1>1, <1>2, Tried
<1>8. "U" \in Answers /\ "a" \in Answers /\ "A" \in Answers /\ "C" \in Answers
  BY <1>1, <1>3, Tried
<1>9. "p" \in Answers /\ "b" \in Answers /\ "B" \in Answers
  BY <1>1, <1>4, Tried
<1>10. "t" \in Answers /\ "T" \in Answers /\ "d" \in Answers /\ "D" \in Answers
  BY <1>1, <1>5, Tried
<1>11. "r" \in Answers /\ "R" \in Answers /\ "N" \in Answers /\ "?" \in Answers
  BY <1>1, <1>6, Tried
<1> QED
  BY <1>7, <1>8, <1>9, <1>10, <1>11 DEF Letters, Documented

(* What the sweep has tried accounts for what it has seen, in whatever     *)
(* order it takes the places.                                              *)
THEOREM SweepInvHolds == Spec => []SweepInv
<1>1. Init => SweepInv
  BY DEF Init, SweepInv
<1>2. SweepInv /\ [Next]_vars => SweepInv'
  <2> SUFFICES ASSUME SweepInv, [Next]_vars PROVE SweepInv'
    OBVIOUS
  <2>1. CASE ClassifyNext
    <3> DEFINE p == CHOOSE q \in rest : TRUE
    <3>1. p \in rest /\ p \in Places
      BY <2>1 DEF ClassifyNext, SweepInv
    <3>2. seen' = seen \cup LettersAt(p) /\ rest' = rest \ {p}
      BY <2>1 DEF ClassifyNext, LettersAt, Cache
    <3> HIDE DEF p
    <3>3. \A q : q \in Places \ rest' <=> q \in Places \ rest \/ q = p
      BY <3>1, <3>2
    <3>4. ASSUME NEW c
          PROVE  c \in seen' <=> \E q \in Places \ rest' : c \in LettersAt(q)
      <4>1. c \in seen <=> \E q \in Places \ rest : c \in LettersAt(q)
        BY DEF SweepInv
      <4>2. c \in seen' <=> c \in seen \/ c \in LettersAt(p)
        BY <3>2
      <4> QED
        BY <3>3, <4>1, <4>2
    <3>5. rest' \subseteq Places
      BY <3>2 DEF SweepInv
    <3> QED
      BY <3>4, <3>5 DEF SweepInv
  <2>2. CASE UNCHANGED vars
    BY <2>2 DEF SweepInv, vars
  <2> QED
    BY <2>1, <2>2 DEF Next, Done
<1> QED
  BY <1>1, <1>2, PTL DEF Spec

(* classify_symbol answers with one of 21 letters for every symbol, and    *)
(* with each of them for some symbol: all that the documentation counts,   *)
(* except 'n'.                                                             *)
THEOREM LettersComputedHolds == Spec => []LettersComputed
<1>1. SweepInv => LettersComputed
  <2> SUFFICES ASSUME SweepInv PROVE LettersComputed
    OBVIOUS
  <2>1. seen \subseteq Letters
    BY LettersOnly DEF SweepInv, LettersAt
  <2>2. ASSUME rest = {} PROVE Letters \subseteq seen
    BY <2>2, EveryLetter DEF SweepInv, Answers
  <2> QED
    BY <2>1, <2>2 DEF LettersComputed, Letters
<1> QED
  BY <1>1, SweepInvHolds, PTL
=============================================================================
