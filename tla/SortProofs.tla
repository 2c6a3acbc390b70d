------------------------------ MODULE SortProofs ------------------------------
(***************************************************************************)
(* sort_and_print_symbols, proved for every table of symbols and every set *)
(* of options: the comparators are total preorders, quicksort, as          *)
(* sort_filter_print.c calls it, sorts by them, and what is printed is the *)
(* listing of SymbolListing.                                               *)
(***************************************************************************)
EXTENDS SortFilterPrint, DataLemmas

(***************************************************************************)
(* The comparators of the sort are total preorders: what quicksort relies  *)
(* on, for every two or three symbols.                                     *)
(***************************************************************************)

Characters == 1..255          \* of a name, in front of its NUL
Names == Seq(Characters)

Symbols(S) == \A s \in S : s.name \in Names /\ s.value \in Nat

-----------------------------------------------------------------------------
(* Comparison results.  x, y and z are those of a with b, b with c and a   *)
(* with c; Swapped, those of a with b and b with a.                        *)
Chained(x, y, z) ==
  /\ x <= 0 /\ y <= 0 => z <= 0
  /\ x < 0 /\ y <= 0 => z < 0
  /\ x <= 0 /\ y < 0 => z < 0
  /\ x = 0 /\ y = 0 => z = 0

Swapped(x, y) == (x < 0 <=> y > 0) /\ (x = 0 <=> y = 0)

Then(d, e) == IF d # 0 THEN d ELSE e

(* A comparison refined by another one.                                    *)
LEMMA ChainedThen ==
  ASSUME NEW x \in Int, NEW y \in Int, NEW z \in Int, Chained(x, y, z),
         NEW u \in Int, NEW v \in Int, NEW w \in Int, Chained(u, v, w)
  PROVE  Chained(Then(x, u), Then(y, v), Then(z, w))
BY DEF Chained, Then

LEMMA SwappedThen ==
  ASSUME NEW x \in Int, NEW y \in Int, Swapped(x, y),
         NEW u \in Int, NEW v \in Int, Swapped(u, v)
  PROVE  Swapped(Then(x, u), Then(y, v))
BY DEF Swapped, Then

LEMMA ThenInt ==
  ASSUME NEW x \in Int, NEW u \in Int PROVE Then(x, u) \in Int
BY DEF Then

LEMMA Values ==
  ASSUME NEW v \in Int, NEW w \in Int, NEW x \in Int
  PROVE  /\ CompareValues(v, w) \in Int
         /\ Swapped(CompareValues(v, w), CompareValues(w, v))
         /\ Chained(CompareValues(v, w), CompareValues(w, x), CompareValues(v, x))
BY DEF CompareValues, Swapped, Chained

-----------------------------------------------------------------------------
(* Strings. *)

Places == Nat \ {0}

LEMMA Chars ==
  ASSUME NEW s \in Names, NEW p \in Places
  PROVE  /\ Char(s, p) \in Nat
         /\ Char(s, p) = 0 <=> p > Len(s)
<1>1. Len(s) \in Nat /\ p \in Nat /\ p > 0
  BY DEF Places, Names
<1>2. p <= Len(s) => s[p] \in Characters
  BY <1>1 DEF Names
<1>3. CASE p <= Len(s)
  <2>1. Char(s, p) = s[p] /\ s[p] \in Nat /\ s[p] # 0
    <3>1. s[p] \in 1..255
      BY <1>2, <1>3 DEF Characters
    <3>2. Char(s, p) = s[p]
      BY <1>3 DEF Char
    <3> QED
      BY <3>1, <3>2
  <2> QED
    BY <1>1, <1>3, <2>1
<1>4. CASE p > Len(s)
  <2>1. Char(s, p) = 0
    BY <1>1, <1>4 DEF Char
  <2> QED
    BY <1>4, <2>1
<1> QED
  BY <1>1, <1>3, <1>4

(* StrDiff is the difference at the first place where there is one.        *)
LEMMA FirstDifference ==
  ASSUME NEW s \in Names, NEW t \in Names
  PROVE  \/ /\ StrDiff(s, t) = 0
            /\ \A p \in Places : Char(s, p) = Char(t, p)
         \/ \E p \in Places :
              /\ StrDiff(s, t) = Char(s, p) - Char(t, p)
              /\ Char(s, p) # Char(t, p)
              /\ \A q \in Places : q < p => Char(s, q) = Char(t, q)
<1> DEFINE diffs == {p \in 1..(Len(s) + 1) : Char(s, p) # Char(t, p)}
<1>1. Len(s) \in Nat /\ Len(t) \in Nat /\ diffs \subseteq Places
  BY DEF Places
<1>2. CASE diffs = {}
  <2>1. \A p \in 1..(Len(s) + 1) : Char(s, p) = Char(t, p)
    BY <1>2
  <2>2. Len(s) + 1 \in Places /\ Len(t) + 1 \in Places
    BY <1>1 DEF Places
  <2>3. Char(t, Len(s) + 1) = 0
    <3>1. Char(s, Len(s) + 1) = 0
      BY <1>1, <2>2, Chars
    <3> QED
      BY <1>1, <2>1, <3>1
  <2>4. Len(t) <= Len(s)
    BY <1>1, <2>2, <2>3, Chars
  <2>5. ASSUME NEW p \in Places, p > Len(s) + 1 PROVE Char(s, p) = Char(t, p)
    <3>1. Char(s, p) = 0 /\ Char(t, p) = 0
      BY <1>1, <2>4, <2>5, Chars DEF Places
    <3> QED
      BY <3>1
  <2>6. \A p \in Places : Char(s, p) = Char(t, p)
    BY <1>1, <2>1, <2>5 DEF Places
  <2>7. StrDiff(s, t) = 0
    BY <1>2 DEF StrDiff
  <2> QED
    BY <2>6, <2>7
<1>3. CASE diffs # {}
  <2> DEFINE p == CHOOSE k \in diffs : \A l \in diffs : k <= l
  <2>1. p \in diffs /\ \A l \in diffs : p <= l
    <3>1. \E k \in diffs : \A l \in diffs : k <= l
      <4>1. diffs \subseteq Nat
        BY <1>1 DEF Places
      <4> HIDE DEF diffs
      <4> QED
        BY <1>3, <4>1, Least
    <3> HIDE DEF diffs
    <3> QED
      BY <3>1
  <2>2. StrDiff(s, t) = Char(s, p) - Char(t, p)
    BY <1>3 DEF StrDiff
  <2> HIDE DEF p
  <2>3. p \in 1..(Len(s) + 1) /\ Char(s, p) # Char(t, p) /\ p \in Places
    BY <1>1, <2>1
  <2>4. ASSUME NEW q \in Places, q < p PROVE Char(s, q) = Char(t, q)
    <3>1. q \in 1..(Len(s) + 1)
      BY <1>1, <2>3, <2>4 DEF Places
    <3>2. q \notin diffs
      BY <1>1, <2>1, <2>3, <2>4 DEF Places
    <3> QED
      BY <3>1, <3>2
  <2> QED
    BY <2>2, <2>3, <2>4
<1> QED
  BY <1>2, <1>3

(* The first difference of a pair decides about every other comparison of  *)
(* the same two strings.                                                   *)
LEMMA Decided ==
  ASSUME NEW s \in Names, NEW t \in Names, NEW p \in Places,
         Char(s, p) # Char(t, p),
         \A q \in Places : q < p => Char(s, q) = Char(t, q)
  PROVE  StrDiff(s, t) = Char(s, p) - Char(t, p)
<1>1. PICK k \in Places :
        /\ StrDiff(s, t) = Char(s, k) - Char(t, k)
        /\ Char(s, k) # Char(t, k)
        /\ \A q \in Places : q < k => Char(s, q) = Char(t, q)
  BY FirstDifference
<1>2. k = p
  BY <1>1 DEF Places
<1> QED
  BY <1>1, <1>2

LEMMA Same ==
  ASSUME NEW s \in Names, NEW t \in Names,
         \A p \in Places : Char(s, p) = Char(t, p)
  PROVE  StrDiff(s, t) = 0
BY FirstDifference

LEMMA StrDiffInt ==
  ASSUME NEW s \in Names, NEW t \in Names
  PROVE  StrDiff(s, t) \in Int
<1>1. \A p \in Places : Char(s, p) - Char(t, p) \in Int
  BY Chars
<1> QED
  BY <1>1, FirstDifference

LEMMA StrDiffSwapped ==
  ASSUME NEW s \in Names, NEW t \in Names
  PROVE  Swapped(StrDiff(s, t), StrDiff(t, s))
<1>1. CASE \A p \in Places : Char(s, p) = Char(t, p)
  <2>1. StrDiff(s, t) = 0 /\ StrDiff(t, s) = 0
    BY <1>1, Same
  <2> QED
    BY <2>1 DEF Swapped
<1>2. CASE \E p \in Places : Char(s, p) # Char(t, p)
  <2>1. PICK p \in Places :
          /\ StrDiff(s, t) = Char(s, p) - Char(t, p)
          /\ Char(s, p) # Char(t, p)
          /\ \A q \in Places : q < p => Char(s, q) = Char(t, q)
    BY <1>2, FirstDifference
  <2>2. StrDiff(t, s) = Char(t, p) - Char(s, p)
    BY <2>1, Decided
  <2>3. Char(s, p) \in Nat /\ Char(t, p) \in Nat
    BY Chars
  <2> QED
    BY <2>1, <2>2, <2>3 DEF Swapped
<1> QED
  BY <1>1, <1>2

LEMMA StrDiffChained ==
  ASSUME NEW s \in Names, NEW t \in Names, NEW u \in Names
  PROVE  Chained(StrDiff(s, t), StrDiff(t, u), StrDiff(s, u))
<1> DEFINE same(a, b) == \A p \in Places : Char(a, p) = Char(b, p)
           first(a, b, p) == /\ StrDiff(a, b) = Char(a, p) - Char(b, p)
                             /\ Char(a, p) # Char(b, p)
                             /\ \A q \in Places : q < p => Char(a, q) = Char(b, q)
<1>1. CASE same(s, t) /\ same(t, u)
  <2>1. StrDiff(s, t) = 0 /\ StrDiff(t, u) = 0 /\ StrDiff(s, u) = 0
    BY <1>1, Same
  <2> QED
    BY <2>1 DEF Chained
<1>2. CASE same(s, t) /\ ~ same(t, u)
  <2>1. PICK p \in Places : first(t, u, p)
    BY <1>2, FirstDifference
  <2>2. StrDiff(s, u) = Char(s, p) - Char(u, p) /\ StrDiff(s, t) = 0
    BY <1>2, <2>1, Decided, Same
  <2>3. StrDiff(s, u) = StrDiff(t, u)
    BY <1>2, <2>1, <2>2
  <2> QED
    BY <2>2, <2>3, StrDiffInt DEF Chained
<1>3. CASE ~ same(s, t) /\ same(t, u)
  <2>1. PICK p \in Places : first(s, t, p)
    BY <1>3, FirstDifference
  <2>2. StrDiff(s, u) = Char(s, p) - Char(u, p) /\ StrDiff(t, u) = 0
    BY <1>3, <2>1, Decided, Same
  <2>3. StrDiff(s, u) = StrDiff(s, t)
    BY <1>3, <2>1, <2>2
  <2> QED
    BY <2>2, <2>3, StrDiffInt DEF Chained
<1>4. CASE ~ same(s, t) /\ ~ same(t, u)
  <2>1. PICK p \in Places : first(s, t, p)
    BY <1>4, FirstDifference
  <2>2. PICK k \in Places : first(t, u, k)
    BY <1>4, FirstDifference
  <2>3. /\ Char(s, p) \in Nat /\ Char(t, p) \in Nat /\ Char(u, p) \in Nat
        /\ Char(s, k) \in Nat /\ Char(t, k) \in Nat /\ Char(u, k) \in Nat
    BY Chars
  <2>4. CASE p < k
    <3>1. StrDiff(s, u) = Char(s, p) - Char(u, p) /\ Char(u, p) = Char(t, p)
      BY <2>1, <2>2, <2>4, Decided DEF Places
    <3>2. StrDiff(s, u) = StrDiff(s, t)
      BY <2>1, <3>1
    <3> QED
      BY <2>1, <2>2, <2>3, <3>1, <3>2 DEF Chained
  <2>5. CASE k < p
    <3>1. StrDiff(s, u) = Char(s, k) - Char(u, k) /\ Char(s, k) = Char(t, k)
      BY <2>1, <2>2, <2>5, Decided DEF Places
    <3>2. StrDiff(s, u) = StrDiff(t, u)
      BY <2>2, <3>1
    <3> QED
      BY <2>1, <2>2, <2>3, <3>1, <3>2 DEF Chained
  <2>6. CASE k = p
    <3>1. CASE Char(s, p) = Char(u, p)
      BY <2>1, <2>2, <2>3, <2>6, <3>1 DEF Chained
    <3>2. CASE Char(s, p) # Char(u, p)
      <4>1. \A q \in Places : q < p => Char(s, q) = Char(u, q)
        BY <2>1, <2>2, <2>6
      <4>2. StrDiff(s, u) = Char(s, p) - Char(u, p)
        BY <3>2, <4>1, Decided
      <4> HIDE DEF same
      <4> QED
        BY <2>1, <2>2, <2>3, <2>6, <4>2 DEF Chained
    <3> QED
      BY <3>1, <3>2
  <2> QED
    BY <2>4, <2>5, <2>6 DEF Places
<1> QED
  BY <1>1, <1>2, <1>3, <1>4

-----------------------------------------------------------------------------
(* Symbols. *)

LEMMA ToUpperName == ASSUME NEW s \in Names PROVE ToUpper(s) \in Names
<1> DEFINE upper(c) == IF c \in 97..122 THEN c - 32 ELSE c
<1>1. \A c \in Characters : upper(c) \in Characters
  BY DEF Characters
<1>2. ToUpper(s) = [k \in 1..Len(s) |-> upper(s[k])]
  BY DEF ToUpper, Names
<1>3. \A k \in 1..Len(s) : s[k] \in Characters
  BY DEF Names
<1> HIDE DEF upper
<1>4. \A k \in 1..Len(s) : upper(s[k]) \in Characters
  BY <1>1, <1>3
<1>5. Len(s) \in Nat
  BY DEF Names
<1> QED
  BY <1>2, <1>4, <1>5 DEF Names

LEMMA SkipSpecialName ==
  ASSUME NEW s \in Names PROVE SkipSpecialPrefix(s) \in Names
<1> DEFINE others == {k \in DOMAIN s : s[k] \notin Special}
           first == CHOOSE k \in others : \A l \in others : k <= l
<1>1. CASE others = {}
  BY <1>1 DEF SkipSpecialPrefix
<1>2. CASE others # {}
  <2>1. others \subseteq 1..Len(s) /\ Len(s) \in Nat
    BY DEF Names
  <2>2. first \in others
    <3>1. others \subseteq Nat
      BY <2>1
    <3> HIDE DEF others
    <3>2. \E k \in others : \A l \in others : k <= l
      BY <1>2, <3>1, Least
    <3> QED
      BY <3>2
  <2>3. SkipSpecialPrefix(s) = SubSeq(s, first, Len(s))
    BY <1>2 DEF SkipSpecialPrefix
  <2> HIDE DEF first
  <2>4. first \in 1..Len(s)
    BY <2>1, <2>2
  <2>5. SubSeq(s, first, Len(s)) \in Seq(Characters)
    BY <2>1, <2>4 DEF Names
  <2> QED
    BY <2>3, <2>5 DEF Names
<1> QED
  BY <1>1, <1>2

(* By stem, then by the bytes of the name.                                 *)
LEMMA Strings ==
  ASSUME NEW s \in Names, NEW t \in Names, NEW u \in Names
  PROVE  /\ StrCompare(s, t) \in Int
         /\ Swapped(StrCompare(s, t), StrCompare(t, s))
         /\ Chained(StrCompare(s, t), StrCompare(t, u), StrCompare(s, u))
<1> DEFINE stem(a) == ToUpper(SkipSpecialPrefix(a))
<1>1. \A a \in Names : stem(a) \in Names
  BY ToUpperName, SkipSpecialName
<1>2. \A a, b \in Names :
        StrCompare(a, b) = Then(StrDiff(stem(a), stem(b)), StrDiff(a, b))
  BY DEF StrCompare, StrCompareToUpper, Then
<1> HIDE DEF stem
<1>3. \A a, b \in Names :
        /\ StrDiff(stem(a), stem(b)) \in Int /\ StrDiff(a, b) \in Int
        /\ StrCompare(a, b) \in Int
  <2> SUFFICES ASSUME NEW a \in Names, NEW b \in Names
               PROVE  /\ StrDiff(stem(a), stem(b)) \in Int /\ StrDiff(a, b) \in Int
                      /\ StrCompare(a, b) \in Int
    OBVIOUS
  <2>1. StrDiff(stem(a), stem(b)) \in Int /\ StrDiff(a, b) \in Int
    BY <1>1, StrDiffInt
  <2>2. Then(StrDiff(stem(a), stem(b)), StrDiff(a, b)) \in Int
    BY <2>1, ThenInt
  <2> QED
    BY <1>2, <2>1, <2>2
<1>4. Swapped(StrCompare(s, t), StrCompare(t, s))
  <2>1. Swapped(StrDiff(stem(s), stem(t)), StrDiff(stem(t), stem(s)))
        /\ Swapped(StrDiff(s, t), StrDiff(t, s))
    BY <1>1, StrDiffSwapped
  <2>2. Swapped(Then(StrDiff(stem(s), stem(t)), StrDiff(s, t)),
                Then(StrDiff(stem(t), stem(s)), StrDiff(t, s)))
    BY <1>3, <2>1, SwappedThen
  <2> QED
    BY <1>2, <2>2
<1>5. Chained(StrCompare(s, t), StrCompare(t, u), StrCompare(s, u))
  <2>1. Chained(StrDiff(stem(s), stem(t)), StrDiff(stem(t), stem(u)),
                StrDiff(stem(s), stem(u)))
        /\ Chained(StrDiff(s, t), StrDiff(t, u), StrDiff(s, u))
    BY <1>1, StrDiffChained
  <2>2. Chained(Then(StrDiff(stem(s), stem(t)), StrDiff(s, t)),
                Then(StrDiff(stem(t), stem(u)), StrDiff(t, u)),
                Then(StrDiff(stem(s), stem(u)), StrDiff(s, u)))
    BY <1>3, <2>1, ChainedThen
  <2> QED
    BY <1>2, <2>2
<1> QED
  BY <1>3, <1>4, <1>5

Value0Rank(s) == IF s.value = 0 /\ s.type \in {"U", "w"} THEN 0 ELSE 1

(* By value, then by rank, then by name: what CompareByValue comes to.     *)
LEMMA ByValue ==
  ASSUME NEW a, NEW b, Symbols({a, b})
  PROVE  CompareByValue(a, b) =
           Then(CompareValues(a.value, b.value),
                Then(CompareValues(Value0Rank(a), Value0Rank(b)),
                     StrCompare(a.name, b.name)))
<1> DEFINE pending(s) == s.type \in {"U", "w"}
           d == CompareValues(a.value, b.value)
           e == StrCompare(a.name, b.name)
           r == CompareValues(Value0Rank(a), Value0Rank(b))
<1>1. a.value \in Nat /\ b.value \in Nat
  BY DEF Symbols
<1>2. CASE a.value = 0 /\ b.value = 0 /\ pending(b) /\ ~ pending(a)
  <2>1. CompareByValue(a, b) = 1
    BY <1>2 DEF CompareByValue
  <2>2. d = 0 /\ r = 1
    BY <1>2 DEF CompareValues, Value0Rank
  <2> QED
    BY <2>1, <2>2 DEF Then
<1>3. CASE a.value = 0 /\ b.value = 0 /\ pending(a) /\ ~ pending(b)
  <2>1. CompareByValue(a, b) = -1
    BY <1>3 DEF CompareByValue
  <2>2. d = 0 /\ r = -1
    BY <1>3 DEF CompareValues, Value0Rank
  <2> QED
    BY <2>1, <2>2 DEF Then
<1>4. CASE ~ (a.value = 0 /\ b.value = 0 /\ (pending(a) <=> ~ pending(b)))
  <2>1. CompareByValue(a, b) = IF d # 0 THEN d ELSE e
    BY <1>4 DEF CompareByValue
  <2>2. d = 0 => r = 0
    BY <1>1, <1>4 DEF CompareValues, Value0Rank
  <2> QED
    BY <2>1, <2>2 DEF Then
<1> QED
  BY <1>2, <1>3, <1>4

(* Either comparator, under every set of options.                          *)
LEMMA TotalPreorder ==
  ASSUME NEW opt, NEW a, NEW b, NEW c, Symbols({a, b, c})
  PROVE  /\ Compare(opt, a, b) \in Int
         /\ Swapped(Compare(opt, a, b), Compare(opt, b, a))
         /\ Chained(Compare(opt, a, b), Compare(opt, b, c), Compare(opt, a, c))
<1> DEFINE V(x, y) == CompareValues(x.value, y.value)
           N(x, y) == StrCompare(x.name, y.name)
           R(x, y) == CompareValues(Value0Rank(x), Value0Rank(y))
           all == {a, b, c}
<1>1. \A x \in all : x.name \in Names /\ x.value \in Nat /\ Value0Rank(x) \in {0, 1}
  BY DEF Symbols, Value0Rank
<1>2. \A x, y, z \in all :
        /\ V(x, y) \in Int /\ Swapped(V(x, y), V(y, x))
        /\ Chained(V(x, y), V(y, z), V(x, z))
  <2>1. \A x \in all : x.value \in Int
    BY <1>1
  <2> HIDE DEF all
  <2> QED
    BY <2>1, Values
<1>3. \A x, y, z \in all :
        /\ R(x, y) \in Int /\ Swapped(R(x, y), R(y, x))
        /\ Chained(R(x, y), R(y, z), R(x, z))
  <2>1. \A x \in all : Value0Rank(x) \in Int
    BY <1>1
  <2> HIDE DEF all
  <2> QED
    BY <2>1, Values
<1>4. \A x, y, z \in all :
        /\ N(x, y) \in Int /\ Swapped(N(x, y), N(y, x))
        /\ Chained(N(x, y), N(y, z), N(x, z))
  <2>1. \A x \in all : x.name \in Names
    BY <1>1
  <2> HIDE DEF all
  <2> QED
    BY <2>1, Strings
<1>5. CASE "n" \in opt
  <2>1. \A x, y \in all : Compare(opt, x, y) = Then(V(x, y), Then(R(x, y), N(x, y)))
    BY <1>5, ByValue DEF Compare, Symbols
  <2> HIDE DEF V, N, R, all
  <2>2. \A x, y \in all : Then(R(x, y), N(x, y)) \in Int
    BY <1>3, <1>4, ThenInt
  <2>3. a \in all /\ b \in all /\ c \in all
    BY DEF all
  <2>4. Compare(opt, a, b) \in Int
    BY <1>2, <2>1, <2>2, <2>3, ThenInt
  <2>5. Swapped(Compare(opt, a, b), Compare(opt, b, a))
    <3>1. Swapped(Then(R(a, b), N(a, b)), Then(R(b, a), N(b, a)))
      BY <1>3, <1>4, <2>3, SwappedThen
    <3> QED
      BY <1>2, <2>1, <2>2, <2>3, <3>1, SwappedThen
  <2>6. Chained(Compare(opt, a, b), Compare(opt, b, c), Compare(opt, a, c))
    <3>1. Chained(Then(R(a, b), N(a, b)), Then(R(b, c), N(b, c)), Then(R(a, c), N(a, c)))
      BY <1>3, <1>4, <2>3, ChainedThen
    <3> QED
      BY <1>2, <2>1, <2>2, <2>3, <3>1, ChainedThen
  <2> QED
    BY <2>4, <2>5, <2>6
<1>6. CASE "n" \notin opt
  <2>1. \A x, y \in all : Compare(opt, x, y) = Then(N(x, y), V(x, y))
    BY <1>6 DEF Compare, CompareByName, Then
  <2> HIDE DEF V, N, R, all
  <2>2. a \in all /\ b \in all /\ c \in all
    BY DEF all
  <2>3. Compare(opt, a, b) \in Int
    BY <1>2, <1>4, <2>1, <2>2, ThenInt
  <2>4. Swapped(Compare(opt, a, b), Compare(opt, b, a))
    BY <1>2, <1>4, <2>1, <2>2, SwappedThen
  <2>5. Chained(Compare(opt, a, b), Compare(opt, b, c), Compare(opt, a, c))
    BY <1>2, <1>4, <2>1, <2>2, ChainedThen
  <2> QED
    BY <2>3, <2>4, <2>5
<1> QED
  BY <1>5, <1>6

-----------------------------------------------------------------------------
(***************************************************************************)
(* quicksort sorts.                                                        *)
(***************************************************************************)

(* Lemmas about the array and the stack. *)

(* A swap of two places.                                                   *)
LEMMA Swap ==
  ASSUME NEW S, NEW v \in Seq(S), NEW a \in 1..Len(v), NEW b \in 1..Len(v)
  PROVE  LET w == SwapSymbols(v, a, b)
         IN  /\ w \in Seq(S) /\ Len(w) = Len(v)
             /\ w[a] = v[b] /\ w[b] = v[a]
             /\ \A k \in 1..Len(v) : k \notin {a, b} => w[k] = v[k]
BY DEF SwapSymbols

(* It neither loses nor doubles what the places hold.                      *)
LEMMA SwapPermutes ==
  ASSUME NEW S, NEW v \in Seq(S), NEW a \in 1..Len(v), NEW b \in 1..Len(v)
  PROVE  LET w == SwapSymbols(v, a, b)
         IN  /\ IsInjective(v) => IsInjective(w)
             /\ Range(w) = Range(v)
<1> DEFINE w == SwapSymbols(v, a, b)
           at(k) == IF k = a THEN b ELSE IF k = b THEN a ELSE k
<1>1. DOMAIN w = 1..Len(v) /\ DOMAIN v = 1..Len(v)
  BY Swap
<1>2. \A k \in 1..Len(v) : w[k] = v[at(k)] /\ at(k) \in 1..Len(v) /\ at(at(k)) = k
  <2>1. /\ w[a] = v[b] /\ w[b] = v[a]
        /\ \A k \in 1..Len(v) : k \notin {a, b} => w[k] = v[k]
    BY DEF SwapSymbols
  <2>2. \A k \in 1..Len(v) : w[k] = v[at(k)]
    <3> HIDE DEF w
    <3> SUFFICES ASSUME NEW k \in 1..Len(v) PROVE w[k] = v[at(k)]
      OBVIOUS
    <3>1. CASE k = a
      BY <2>1, <3>1
    <3>2. CASE k = b /\ k # a
      BY <2>1, <3>2
    <3>3. CASE k \notin {a, b}
      BY <2>1, <3>3
    <3> QED
      BY <3>1, <3>2, <3>3
  <2>3. \A k \in 1..Len(v) : at(k) \in 1..Len(v) /\ at(at(k)) = k
    OBVIOUS
  <2> QED
    BY <2>2, <2>3
<1> HIDE DEF w, at
<1>3. IsInjective(v) => IsInjective(w)
  <2> SUFFICES ASSUME IsInjective(v), NEW k \in 1..Len(v), NEW l \in 1..Len(v), w[k] = w[l]
               PROVE  k = l
    BY <1>1 DEF IsInjective
  <2>1. at(k) = at(l)
    BY <1>1, <1>2 DEF IsInjective
  <2> QED
    BY <1>2, <2>1
<1>4. Range(w) = Range(v)
  BY <1>1, <1>2 DEF Range
<1> QED
  BY <1>3, <1>4 DEF w

(* The first n elements of a sequence.                                     *)
LEMMA FirstElements ==
  ASSUME NEW S, NEW s \in Seq(S), NEW n \in Nat, n <= Len(s)
  PROVE  /\ SubSeq(s, 1, n) \in Seq(S) /\ Len(SubSeq(s, 1, n)) = n
         /\ \A m \in 1..n : SubSeq(s, 1, n)[m] = s[m]
<1>1. SubSeq(s, 1, n) \in Seq(S)
  OBVIOUS
<1>2. Len(SubSeq(s, 1, n)) = n
  OBVIOUS
<1>3. \A m \in 1..n : SubSeq(s, 1, n)[m] = s[m]
  OBVIOUS
<1> QED
  BY <1>1, <1>2, <1>3

(* A return removes the last frame.                                        *)
LEMMA PopEffect ==
  ASSUME NEW S, NEW s \in Seq(S), s # <<>>
  PROVE  /\ Front(s) \in Seq(S) /\ Len(s) \in Nat \ {0} /\ Len(Front(s)) = Len(s) - 1
         /\ \A m \in 1..(Len(s) - 1) : Front(s)[m] = s[m]
<1>1. Len(s) \in Nat \ {0}
  OBVIOUS
<1>2. Len(s) - 1 \in Nat /\ Len(s) - 1 <= Len(s)
  BY <1>1
<1> QED
  BY <1>1, <1>2, FirstElements DEF Front

(* A call replaces the last frame and puts one behind it.                  *)
LEMMA CallEffect ==
  ASSUME NEW S, NEW s \in Seq(S), s # <<>>, NEW f \in S, NEW g \in S
  PROVE  LET t == Append(Append(Front(s), f), g)
         IN  /\ t \in Seq(S) /\ Len(s) \in Nat \ {0} /\ Len(t) = Len(s) + 1
             /\ \A m \in 1..(Len(s) - 1) : t[m] = s[m]
             /\ t[Len(s)] = f /\ t[Len(s) + 1] = g
<1> DEFINE u == Front(s)
           w == Append(u, f)
<1>1. /\ u \in Seq(S) /\ Len(s) \in Nat \ {0} /\ Len(u) = Len(s) - 1
      /\ \A m \in 1..(Len(s) - 1) : u[m] = s[m]
  BY PopEffect
<1> HIDE DEF u
<1>2. /\ w \in Seq(S) /\ Len(w) = Len(s)
      /\ \A m \in 1..(Len(s) - 1) : w[m] = s[m]
      /\ w[Len(s)] = f
  BY <1>1
<1> HIDE DEF w
<1>3. LET t == Append(w, g)
      IN  /\ t \in Seq(S) /\ Len(t) = Len(s) + 1
          /\ \A m \in 1..(Len(s) - 1) : t[m] = s[m]
          /\ t[Len(s)] = f /\ t[Len(s) + 1] = g
  BY <1>1, <1>2
<1> QED
  BY <1>1, <1>3 DEF u, w

LEMMA GotoEffect ==
  ASSUME NEW S, NEW s \in Seq(S), s # <<>>, NEW at,
         [s[Len(s)] EXCEPT !.at = at] \in S
  PROVE  LET t == [s EXCEPT ![Len(s)].at = at]
         IN  /\ t \in Seq(S) /\ Len(t) = Len(s) /\ Len(s) \in Nat \ {0}
             /\ \A m \in 1..(Len(s) - 1) : t[m] = s[m]
             /\ t[Len(s)] = [s[Len(s)] EXCEPT !.at = at]
OBVIOUS

-----------------------------------------------------------------------------
(* Parts of the array, in terms of the comparator of the call.             *)

C(in, k, l) == Compare(in.opt, in.symbols[k], in.symbols[l])

Indices(in) == 1..Len(in.symbols)

Ordered(in, v, lo, hi) ==
  \A k, l \in lo..hi : k < l => C(in, v[k], v[l]) <= 0

Parted(in, v, lo, p, hi) ==
  /\ \A k \in lo..(p - 1) : C(in, v[k], v[p]) < 0
  /\ \A k \in (p + 1)..hi : C(in, v[k], v[p]) >= 0

Scanned(in, v, lo, m, k, hi) ==     \* by partition, up to k, pivot at hi
  /\ \A l \in lo..m : C(in, v[l], v[hi]) < 0
  /\ \A l \in (m + 1)..(k - 1) : C(in, v[l], v[hi]) >= 0

(* The comparator is a total preorder on the symbols of a call.            *)
LEMMA Comparing ==
  ASSUME NEW in \in Inputs,
         NEW k \in Indices(in), NEW l \in Indices(in), NEW m \in Indices(in)
  PROVE  /\ C(in, k, l) \in Int
         /\ Swapped(C(in, k, l), C(in, l, k))
         /\ Chained(C(in, k, l), C(in, l, m), C(in, k, m))
<1> DEFINE a == in.symbols[k]
           b == in.symbols[l]
           c == in.symbols[m]
<1>1. Symbols({a, b, c})
  <2>1. \A n \in Indices(in) :
          in.symbols[n].name \in Names /\ in.symbols[n].value \in Nat
    <3>1. DOMAIN in.symbols = Indices(in)
      BY InputsAssumption DEF Indices
    <3> QED
      BY <3>1, InputsAssumption DEF Names, Characters
  <2> QED
    BY <2>1 DEF Symbols
<1> HIDE DEF a, b, c
<1>2. /\ Compare(in.opt, a, b) \in Int
      /\ Swapped(Compare(in.opt, a, b), Compare(in.opt, b, a))
      /\ Chained(Compare(in.opt, a, b), Compare(in.opt, b, c), Compare(in.opt, a, c))
  BY <1>1, TotalPreorder
<1> QED
  BY <1>2 DEF C, a, b, c

(* A swap inside one part of a partitioned range leaves it partitioned.    *)
LEMMA SwapInPart ==
  ASSUME NEW in, NEW S, NEW v \in Seq(S), NEW a \in 1..Len(v), NEW b \in 1..Len(v),
         NEW lo \in Int, NEW p \in Int, NEW hi \in Int,
         1 <= lo, lo <= p, p <= hi, hi <= Len(v),
         Parted(in, v, lo, p, hi),
         \/ lo <= a /\ a < p /\ lo <= b /\ b < p
         \/ p < a /\ a <= hi /\ p < b /\ b <= hi
  PROVE  Parted(in, SwapSymbols(v, a, b), lo, p, hi)
<1> DEFINE w == SwapSymbols(v, a, b)
<1>1. /\ w[a] = v[b] /\ w[b] = v[a]
      /\ \A k \in 1..Len(v) : k \notin {a, b} => w[k] = v[k]
  BY Swap
<1>2. Len(v) \in Nat
  OBVIOUS
<1> HIDE DEF w
<1>3. w[p] = v[p]
  BY <1>1, <1>2
<1>4. ASSUME NEW k \in lo..(p - 1) PROVE C(in, w[k], w[p]) < 0
  <2>1. C(in, v[k], v[p]) < 0
    BY DEF Parted
  <2>2. CASE k \notin {a, b}
    <3>1. w[k] = v[k]
      BY <1>1, <1>2, <2>2
    <3> QED
      BY <1>3, <2>1, <3>1
  <2>3. CASE k \in {a, b}
    <3>1. a \in lo..(p - 1) /\ b \in lo..(p - 1)
      BY <1>2, <2>3
    <3>2. C(in, v[a], v[p]) < 0 /\ C(in, v[b], v[p]) < 0
      BY <3>1 DEF Parted
    <3> QED
      BY <1>1, <1>3, <2>3, <3>2
  <2> QED
    BY <2>2, <2>3
<1>5. ASSUME NEW k \in (p + 1)..hi PROVE C(in, w[k], w[p]) >= 0
  <2>1. C(in, v[k], v[p]) >= 0
    BY DEF Parted
  <2>2. CASE k \notin {a, b}
    <3>1. w[k] = v[k]
      BY <1>1, <1>2, <2>2
    <3> QED
      BY <1>3, <2>1, <3>1
  <2>3. CASE k \in {a, b}
    <3>1. a \in (p + 1)..hi /\ b \in (p + 1)..hi
      BY <1>2, <2>3
    <3>2. C(in, v[a], v[p]) >= 0 /\ C(in, v[b], v[p]) >= 0
      BY <3>1 DEF Parted
    <3> QED
      BY <1>1, <1>3, <2>3, <3>2
  <2> QED
    BY <2>2, <2>3
<1>6. Parted(in, w, lo, p, hi)
  BY <1>4, <1>5 DEF Parted
<1> QED
  BY <1>6 DEF w

(* A swap behind an ordered range leaves it ordered.                       *)
LEMMA SwapBehind ==
  ASSUME NEW in, NEW S, NEW v \in Seq(S), NEW a \in 1..Len(v), NEW b \in 1..Len(v),
         NEW lo \in Int, NEW hi \in Int, 1 <= lo, hi <= Len(v),
         hi < a, hi < b,
         Ordered(in, v, lo, hi)
  PROVE  Ordered(in, SwapSymbols(v, a, b), lo, hi)
<1> DEFINE w == SwapSymbols(v, a, b)
<1>1. \A k \in 1..Len(v) : k \notin {a, b} => w[k] = v[k]
  BY DEF SwapSymbols
<1>2. Len(v) \in Nat
  OBVIOUS
<1> HIDE DEF w
<1>3. \A k \in lo..hi : w[k] = v[k]
  BY <1>1, <1>2
<1>4. Ordered(in, w, lo, hi)
  BY <1>3 DEF Ordered
<1> QED
  BY <1>4 DEF w

(* With its left part ordered, a partitioned range is ordered up to the    *)
(* pivot; with both parts ordered, it is ordered.                          *)
LEMMA OrderedToPivot ==
  ASSUME NEW in \in Inputs, NEW v, NEW lo \in Int, NEW p \in Int, NEW hi \in Int,
         Parted(in, v, lo, p, hi), Ordered(in, v, lo, p - 1),
         \A k \in lo..hi : v[k] \in Indices(in), lo <= p, p <= hi
  PROVE  Ordered(in, v, lo, p)
<1> SUFFICES ASSUME NEW k \in lo..p, NEW l \in lo..p, k < l PROVE C(in, v[k], v[l]) <= 0
  BY DEF Ordered
<1>1. CASE l < p
  <2>1. k \in lo..(p - 1) /\ l \in lo..(p - 1)
    BY <1>1
  <2> QED
    BY <2>1 DEF Ordered
<1>2. CASE l = p
  <2>1. k \in lo..(p - 1) /\ v[k] \in Indices(in) /\ v[p] \in Indices(in)
    BY <1>2
  <2>2. C(in, v[k], v[p]) < 0 /\ C(in, v[k], v[p]) \in Int
    BY <2>1, Comparing DEF Parted
  <2> QED
    BY <1>2, <2>2
<1> QED
  BY <1>1, <1>2

LEMMA OrderedThroughout ==
  ASSUME NEW in \in Inputs, NEW v, NEW lo \in Int, NEW p \in Int, NEW hi \in Int,
         Parted(in, v, lo, p, hi), Ordered(in, v, lo, p), Ordered(in, v, p + 1, hi),
         \A k \in lo..hi : v[k] \in Indices(in), lo <= p, p <= hi
  PROVE  Ordered(in, v, lo, hi)
<1> SUFFICES ASSUME NEW k \in lo..hi, NEW l \in lo..hi, k < l PROVE C(in, v[k], v[l]) <= 0
  BY DEF Ordered
<1>1. CASE l <= p
  <2>1. k \in lo..p /\ l \in lo..p
    BY <1>1
  <2> QED
    BY <2>1 DEF Ordered
<1>2. CASE p < k
  <2>1. k \in (p + 1)..hi /\ l \in (p + 1)..hi
    BY <1>2
  <2> QED
    BY <2>1 DEF Ordered
<1>3. CASE k <= p /\ p < l
  <2>1. v[k] \in Indices(in) /\ v[l] \in Indices(in) /\ v[p] \in Indices(in)
    OBVIOUS
  <2>2. C(in, v[l], v[p]) >= 0
    <3>1. l \in (p + 1)..hi
      BY <1>3
    <3> QED
      BY <3>1 DEF Parted
  <2>3. C(in, v[p], v[l]) <= 0
    <3>1. C(in, v[p], v[l]) \in Int /\ C(in, v[l], v[p]) \in Int
          /\ Swapped(C(in, v[p], v[l]), C(in, v[l], v[p]))
      BY <2>1, Comparing
    <3> QED
      BY <2>2, <3>1 DEF Swapped
  <2>4. CASE k = p
    BY <2>3, <2>4
  <2>5. CASE k < p
    <3>1. C(in, v[k], v[p]) < 0
      <4>1. k \in lo..(p - 1)
        BY <2>5
      <4> QED
        BY <4>1 DEF Parted
    <3>2. /\ C(in, v[k], v[p]) \in Int /\ C(in, v[p], v[l]) \in Int
          /\ C(in, v[k], v[l]) \in Int
          /\ Chained(C(in, v[k], v[p]), C(in, v[p], v[l]), C(in, v[k], v[l]))
      BY <2>1, Comparing
    <3> QED
      BY <2>3, <3>1, <3>2 DEF Chained
  <2> QED
    BY <1>3, <2>4, <2>5
<1> QED
  BY <1>1, <1>2, <1>3

(* partition moves a smaller symbol to the end of the left part, ...       *)
LEMMA ScanSmaller ==
  ASSUME NEW in, NEW S, NEW v \in Seq(S),
         NEW lo \in Int, NEW m \in Int, NEW k \in Int, NEW hi \in Int,
         1 <= lo, lo - 1 <= m, m < k, k < hi, hi <= Len(v),
         Scanned(in, v, lo, m, k, hi), C(in, v[k], v[hi]) < 0
  PROVE  Scanned(in, SwapSymbols(v, m + 1, k), lo, m + 1, k + 1, hi)
<1> DEFINE w == SwapSymbols(v, m + 1, k)
<1>1. /\ Len(v) \in Nat /\ m + 1 \in 1..Len(v) /\ k \in 1..Len(v) /\ hi \in 1..Len(v)
      /\ hi \notin {m + 1, k}
  OBVIOUS
<1>2. /\ w[m + 1] = v[k] /\ w[k] = v[m + 1]
      /\ \A l \in 1..Len(v) : l \notin {m + 1, k} => w[l] = v[l]
  <2>1. LET u == SwapSymbols(v, m + 1, k)
        IN  /\ u[m + 1] = v[k] /\ u[k] = v[m + 1]
            /\ \A l \in 1..Len(v) : l \notin {m + 1, k} => u[l] = v[l]
    BY <1>1 DEF SwapSymbols
  <2> QED
    BY <2>1
<1> HIDE DEF w
<1>3. w[hi] = v[hi]
  BY <1>1, <1>2
<1>4. ASSUME NEW l \in lo..(m + 1) PROVE C(in, w[l], w[hi]) < 0
  <2>1. CASE l = m + 1
    BY <1>2, <1>3, <2>1
  <2>2. CASE l < m + 1
    <3>1. l \in lo..m /\ l \in 1..Len(v) /\ l \notin {m + 1, k}
      BY <1>1, <2>2
    <3>2. C(in, v[l], v[hi]) < 0 /\ w[l] = v[l]
      BY <1>2, <3>1 DEF Scanned
    <3> QED
      BY <1>3, <3>2
  <2> QED
    BY <2>1, <2>2
<1>5. ASSUME NEW l \in (m + 2)..k PROVE C(in, w[l], w[hi]) >= 0
  <2>1. CASE l = k
    <3>1. m + 1 \in (m + 1)..(k - 1)
      BY <2>1
    <3>2. C(in, v[m + 1], v[hi]) >= 0
      BY <3>1 DEF Scanned
    <3> QED
      BY <1>2, <1>3, <2>1, <3>2
  <2>2. CASE l < k
    <3>1. l \in (m + 1)..(k - 1) /\ l \in 1..Len(v) /\ l \notin {m + 1, k}
      BY <1>1, <2>2
    <3>2. C(in, v[l], v[hi]) >= 0 /\ w[l] = v[l]
      BY <1>2, <3>1 DEF Scanned
    <3> QED
      BY <1>3, <3>2
  <2> QED
    BY <2>1, <2>2
<1>6. (m + 1) + 1 = m + 2 /\ (k + 1) - 1 = k
  OBVIOUS
<1>7. Scanned(in, w, lo, m + 1, k + 1, hi)
  BY <1>4, <1>5, <1>6 DEF Scanned
<1> QED
  BY <1>7 DEF w

(* ... leaves any other one where it is, ...                               *)
LEMMA ScanOther ==
  ASSUME NEW in, NEW v,
         NEW lo \in Int, NEW m \in Int, NEW k \in Int, NEW hi \in Int,
         Scanned(in, v, lo, m, k, hi), C(in, v[k], v[hi]) >= 0
  PROVE  Scanned(in, v, lo, m, k + 1, hi)
<1>1. \A l \in (m + 1)..((k + 1) - 1) : l \in (m + 1)..(k - 1) \/ l = k
  OBVIOUS
<1> QED
  BY <1>1 DEF Scanned

(* ... and ends by putting the pivot between the two parts.                *)
LEMMA ScanEnd ==
  ASSUME NEW in, NEW S, NEW v \in Seq(S),
         NEW lo \in Int, NEW m \in Int, NEW hi \in Int,
         1 <= lo, lo - 1 <= m, m < hi, hi <= Len(v),
         Scanned(in, v, lo, m, hi, hi)
  PROVE  Parted(in, SwapSymbols(v, m + 1, hi), lo, m + 1, hi)
<1> DEFINE w == SwapSymbols(v, m + 1, hi)
<1>1. Len(v) \in Nat /\ m + 1 \in 1..Len(v) /\ hi \in 1..Len(v)
  OBVIOUS
<1>2. /\ w[m + 1] = v[hi] /\ w[hi] = v[m + 1]
      /\ \A l \in 1..Len(v) : l \notin {m + 1, hi} => w[l] = v[l]
  BY <1>1, Swap
<1> HIDE DEF w
<1>3. ASSUME NEW l \in lo..m PROVE C(in, w[l], w[m + 1]) < 0
  <2>1. l \in 1..Len(v) /\ l \notin {m + 1, hi}
    BY <1>1
  <2>2. C(in, v[l], v[hi]) < 0 /\ w[l] = v[l]
    BY <1>2, <2>1 DEF Scanned
  <2> QED
    BY <1>2, <2>2
<1>4. ASSUME NEW l \in (m + 2)..hi PROVE C(in, w[l], w[m + 1]) >= 0
  <2>1. CASE l = hi
    <3>1. m + 1 \in (m + 1)..(hi - 1)
      BY <2>1
    <3>2. C(in, v[m + 1], v[hi]) >= 0
      BY <3>1 DEF Scanned
    <3> QED
      BY <1>2, <2>1, <3>2
  <2>2. CASE l < hi
    <3>1. l \in (m + 1)..(hi - 1) /\ l \in 1..Len(v) /\ l \notin {m + 1, hi}
      BY <1>1, <2>2
    <3>2. C(in, v[l], v[hi]) >= 0 /\ w[l] = v[l]
      BY <1>2, <3>1 DEF Scanned
    <3> QED
      BY <1>2, <3>2
  <2> QED
    BY <2>1, <2>2
<1>5. (m + 1) + 1 = m + 2 /\ (m + 1) - 1 = m
  OBVIOUS
<1>6. Parted(in, w, lo, m + 1, hi)
  BY <1>3, <1>4, <1>5 DEF Parted
<1> QED
  BY <1>6 DEF w

-----------------------------------------------------------------------------
(* The call stack.  n is the number of visible symbols. *)

IntFrames == [low : Int, high : Int, pi : Int, at : {"enter", "loop", "left", "right"}]

(* The frame of the m-th call.                                             *)
Fits(n, f, m) ==
  /\ 1 <= f.low /\ f.high <= n /\ f.low <= f.high + 1
  /\ f.high - f.low + 1 <= n - m + 1
  /\ f.at # "enter" => f.low < f.high
  /\ f.at \in {"left", "right"} => f.low <= f.pi /\ f.pi <= f.high

(* The call that f is waiting for, and those that one is waiting for.      *)
Child(f, g) ==
  /\ f.at = "left" => g.low = f.low /\ g.high = f.pi - 1
  /\ f.at = "right" => g.low = f.pi + 1 /\ g.high = f.high

Inside(f, g) ==
  /\ f.at = "left" => f.low <= g.low /\ g.high < f.pi
  /\ f.at = "right" => f.pi < g.low /\ g.high <= f.high

Stacked(n, cs) ==
  /\ Len(cs) <= n
  /\ \A m \in 1..Len(cs) : Fits(n, cs[m], m)
  /\ \A m \in 1..(Len(cs) - 1) :
       cs[m].at \in {"left", "right"} /\ Child(cs[m], cs[m + 1])
  /\ \A m, k \in 1..Len(cs) : m < k => Inside(cs[m], cs[k])
  /\ Len(cs) > 0 => cs[1].low = 1 /\ cs[1].high = n

LEMMA StackCall ==
  ASSUME NEW n \in Nat, NEW cs \in Seq(IntFrames), cs # <<>>, Stacked(n, cs),
         NEW f \in IntFrames, NEW g \in IntFrames,
         cs[Len(cs)].at # "enter",
         f.low = cs[Len(cs)].low, f.high = cs[Len(cs)].high, f.at \in {"left", "right"},
         f.low <= f.pi, f.pi <= f.high,
         g.at = "enter", Child(f, g)
  PROVE  Stacked(n, Append(Append(Front(cs), f), g))
<1> DEFINE ds == Append(Append(Front(cs), f), g)
           d  == Len(cs)
<1>1. /\ ds \in Seq(IntFrames) /\ d \in Nat \ {0} /\ Len(ds) = d + 1
      /\ \A m \in 1..(d - 1) : ds[m] = cs[m]
      /\ ds[d] = f /\ ds[d + 1] = g
  BY CallEffect
<1> DEFINE e == cs[d]
<1>2. e \in IntFrames /\ e.low = f.low /\ e.high = f.high /\ e.at # "enter"
  BY <1>1
<1>3. /\ d <= n
      /\ \A m \in 1..d : Fits(n, cs[m], m)
      /\ \A m \in 1..(d - 1) : cs[m].at \in {"left", "right"} /\ Child(cs[m], cs[m + 1])
      /\ \A m, k \in 1..d : m < k => Inside(cs[m], cs[k])
      /\ cs[1].low = 1 /\ cs[1].high = n
  BY <1>1 DEF Stacked
<1> HIDE DEF ds, d
<1>4. /\ f.low \in Int /\ f.high \in Int /\ f.pi \in Int /\ g.low \in Int /\ g.high \in Int
  BY DEF IntFrames
<1>5. /\ 1 <= f.low /\ f.high <= n /\ f.low < f.high /\ f.high - f.low + 1 <= n - d + 1
  <2>1. Fits(n, e, d)
    BY <1>1, <1>3
  <2> HIDE DEF e
  <2> QED
    BY <1>2, <2>1 DEF Fits
<1>6. Fits(n, f, d)
  <2>1. f.low <= f.high + 1
    BY <1>4, <1>5
  <2> QED
    BY <1>5, <2>1 DEF Fits
<1>7. Fits(n, g, d + 1) /\ d + 1 <= n
  <2>1. \/ g.low = f.low /\ g.high = f.pi - 1
        \/ g.low = f.pi + 1 /\ g.high = f.high
    BY DEF Child
  <2>2. /\ 1 <= g.low /\ g.high <= n /\ g.low <= g.high + 1
        /\ g.high - g.low + 1 <= n - (d + 1) + 1 /\ d + 1 <= n
    <3>1. /\ g.high - g.low <= f.high - f.low - 1 /\ g.low <= g.high + 1
          /\ 1 <= g.low /\ g.high <= f.high
      BY <1>4, <1>5, <2>1, SMTT(30)
    <3>2. d \in Nat
      BY <1>1
    <3> QED
      BY <1>4, <1>5, <3>1, <3>2, SMTT(30)
  <2> QED
    BY <2>2 DEF Fits
<1>8. Inside(f, g)
  BY <1>4 DEF Child, Inside
<1>9. ASSUME NEW m \in 1..(d - 1) PROVE Inside(cs[m], f) /\ Inside(cs[m], g)
  <2>1. Inside(cs[m], e) /\ cs[m] \in IntFrames
    BY <1>1, <1>3
  <2> DEFINE c == cs[m]
  <2>2. c.low \in Int /\ c.high \in Int /\ c.pi \in Int
    BY <2>1 DEF IntFrames
  <2> HIDE DEF c, e
  <2>3. Inside(c, f)
    BY <1>2, <2>1 DEF Inside, c
  <2>4. f.low <= g.low /\ g.high <= f.high
    BY <1>4 DEF Child
  <2>5. Inside(c, g)
    BY <1>4, <2>2, <2>3, <2>4, SMTT(30) DEF Inside
  <2> QED
    BY <2>3, <2>5 DEF c
<1>10. \A m \in 1..(d + 1) : Fits(n, ds[m], m)
  BY <1>1, <1>3, <1>6, <1>7
<1>11. \A m \in 1..d : ds[m].at \in {"left", "right"} /\ Child(ds[m], ds[m + 1])
  <2>1. ASSUME NEW m \in 1..(d - 1)
        PROVE  ds[m].at \in {"left", "right"} /\ Child(ds[m], ds[m + 1])
    <3>1. ds[m] = cs[m] /\ cs[m].at \in {"left", "right"} /\ Child(cs[m], cs[m + 1])
      BY <1>1, <1>3
    <3>2. ds[m + 1].low = cs[m + 1].low /\ ds[m + 1].high = cs[m + 1].high
      <4>1. CASE m + 1 = d
        BY <1>1, <1>2, <4>1
      <4>2. CASE m + 1 < d
        BY <1>1, <4>2
      <4> QED
        BY <1>1, <4>1, <4>2
    <3> QED
      BY <3>1, <3>2 DEF Child
  <2>2. ds[d].at \in {"left", "right"} /\ Child(ds[d], ds[d + 1])
    BY <1>1
  <2> QED
    BY <1>1, <2>1, <2>2
<1>12. ASSUME NEW m \in 1..(d + 1), NEW k \in 1..(d + 1), m < k
       PROVE  Inside(ds[m], ds[k])
  <2>1. CASE k < d
    BY <1>1, <1>3, <1>12, <2>1
  <2>2. CASE k = d
    BY <1>1, <1>9, <1>12, <2>2
  <2>3. CASE k = d + 1 /\ m = d
    BY <1>1, <1>8, <2>3
  <2>4. CASE k = d + 1 /\ m < d
    BY <1>1, <1>9, <2>4
  <2> QED
    BY <1>1, <1>12, <2>1, <2>2, <2>3, <2>4
<1>13. ds[1].low = 1 /\ ds[1].high = n
  <2>1. CASE d = 1
    BY <1>1, <1>2, <1>3, <2>1
  <2>2. CASE d > 1
    BY <1>1, <1>3, <2>2
  <2> QED
    BY <1>1, <2>1, <2>2
<1>14. (d + 1) - 1 = d
  BY <1>1
<1>15. Stacked(n, ds)
  BY <1>1, <1>7, <1>10, <1>11, <1>12, <1>13, <1>14 DEF Stacked
<1> QED
  BY <1>15 DEF ds

LEMMA StackPop ==
  ASSUME NEW n \in Nat, NEW cs \in Seq(IntFrames), cs # <<>>, Stacked(n, cs)
  PROVE  Stacked(n, Front(cs))
<1> DEFINE ds == Front(cs)
           d  == Len(cs)
<1>1. /\ ds \in Seq(IntFrames) /\ d \in Nat \ {0} /\ Len(ds) = d - 1
      /\ \A m \in 1..(d - 1) : ds[m] = cs[m]
  BY PopEffect
<1>2. /\ d <= n
      /\ \A m \in 1..d : Fits(n, cs[m], m)
      /\ \A m \in 1..(d - 1) : cs[m].at \in {"left", "right"} /\ Child(cs[m], cs[m + 1])
      /\ \A m, k \in 1..d : m < k => Inside(cs[m], cs[k])
      /\ cs[1].low = 1 /\ cs[1].high = n
  BY <1>1 DEF Stacked
<1> HIDE DEF ds, d
<1>3. \A m \in 1..(d - 1) : Fits(n, ds[m], m)
  BY <1>1, <1>2
<1>4. \A m \in 1..((d - 1) - 1) :
        ds[m].at \in {"left", "right"} /\ Child(ds[m], ds[m + 1])
  BY <1>1, <1>2
<1>5. \A m, k \in 1..(d - 1) : m < k => Inside(ds[m], ds[k])
  BY <1>1, <1>2
<1>6. d - 1 > 0 => ds[1].low = 1 /\ ds[1].high = n
  BY <1>1, <1>2
<1>7. d - 1 <= n
  BY <1>1, <1>2
<1>8. Stacked(n, ds)
  BY <1>1, <1>3, <1>4, <1>5, <1>6, <1>7 DEF Stacked
<1> QED
  BY <1>8 DEF ds

LEMMA StackGoto ==
  ASSUME NEW n \in Nat, NEW cs \in Seq(IntFrames), cs # <<>>, Stacked(n, cs),
         cs[Len(cs)].low < cs[Len(cs)].high
  PROVE  Stacked(n, [cs EXCEPT ![Len(cs)].at = "loop"])
<1> DEFINE ds == [cs EXCEPT ![Len(cs)].at = "loop"]
           d  == Len(cs)
           e  == cs[d]
           f  == [e EXCEPT !.at = "loop"]
<1>1. d \in Nat \ {0} /\ e \in IntFrames
  OBVIOUS
<1>2. f \in IntFrames /\ f.low = e.low /\ f.high = e.high /\ f.at = "loop"
  BY <1>1 DEF IntFrames
<1>3. /\ ds \in Seq(IntFrames) /\ Len(ds) = d
      /\ \A m \in 1..(d - 1) : ds[m] = cs[m]
      /\ ds[d] = f
  BY <1>2, GotoEffect
<1>4. /\ d <= n
      /\ \A m \in 1..d : Fits(n, cs[m], m)
      /\ \A m \in 1..(d - 1) : cs[m].at \in {"left", "right"} /\ Child(cs[m], cs[m + 1])
      /\ \A m, k \in 1..d : m < k => Inside(cs[m], cs[k])
      /\ cs[1].low = 1 /\ cs[1].high = n
  BY <1>1 DEF Stacked
<1>5. Fits(n, f, d)
  <2>1. Fits(n, e, d) /\ e.low < e.high
    BY <1>1, <1>4
  <2> HIDE DEF e, f
  <2> QED
    BY <1>2, <2>1 DEF Fits
<1> HIDE DEF ds, d, f
<1>6. \A m \in 1..d : Fits(n, ds[m], m)
  BY <1>1, <1>3, <1>4, <1>5
<1>7. ASSUME NEW m \in 1..(d - 1)
      PROVE  ds[m].at \in {"left", "right"} /\ Child(ds[m], ds[m + 1])
  <2>1. ds[m] = cs[m] /\ cs[m].at \in {"left", "right"} /\ Child(cs[m], cs[m + 1])
    BY <1>3, <1>4
  <2>2. ds[m + 1].low = cs[m + 1].low /\ ds[m + 1].high = cs[m + 1].high
    <3>1. CASE m + 1 = d
      BY <1>2, <1>3, <3>1
    <3>2. CASE m + 1 < d
      BY <1>1, <1>3, <3>2
    <3> QED
      BY <1>1, <3>1, <3>2
  <2> QED
    BY <2>1, <2>2 DEF Child
<1>8. ASSUME NEW m \in 1..d, NEW k \in 1..d, m < k PROVE Inside(ds[m], ds[k])
  <2>1. CASE k < d
    BY <1>1, <1>3, <1>4, <1>8, <2>1
  <2>2. CASE k = d
    <3>1. ds[m] = cs[m] /\ Inside(cs[m], e) /\ ds[k] = f
      BY <1>1, <1>3, <1>4, <1>8, <2>2
    <3> HIDE DEF e
    <3> QED
      BY <1>2, <3>1 DEF Inside
  <2> QED
    BY <1>1, <2>1, <2>2
<1>9. ds[1].low = 1 /\ ds[1].high = n
  <2>1. CASE d = 1
    BY <1>2, <1>3, <1>4, <2>1
  <2>2. CASE d > 1
    BY <1>1, <1>3, <1>4, <2>2
  <2> QED
    BY <1>1, <2>1, <2>2
<1>10. Stacked(n, ds)
  BY <1>3, <1>4, <1>6, <1>7, <1>8, <1>9 DEF Stacked
<1> QED
  BY <1>10 DEF ds

-----------------------------------------------------------------------------
(* What the calls on the stack have achieved.  Placed: the pivots of all   *)
(* of them.  Active: what the last one is at.                              *)

Placed(in, v, cs) ==
  \A m \in 1..Len(cs) :
    LET f == cs[m]
    IN  /\ f.at \in {"left", "right"} => Parted(in, v, f.low, f.pi, f.high)
        /\ f.at = "right" => Ordered(in, v, f.low, f.pi)

Active(in, v, cs, a, b) ==
  LET f == cs[Len(cs)]
  IN  /\ f.at = "loop" => /\ f.low - 1 <= a /\ a < b /\ b <= f.high
                          /\ Scanned(in, v, f.low, a, b, f.high)
      /\ f.at = "left" => Ordered(in, v, f.low, f.pi - 1)
      /\ f.at = "right" => Ordered(in, v, f.pi + 1, f.high)

(* A swap inside the part of the last call disturbs no pivot.              *)
LEMMA PlacedSwap ==
  ASSUME NEW in, NEW S, NEW v \in Seq(S), NEW cs \in Seq(IntFrames), cs # <<>>,
         Stacked(Len(v), cs), Placed(in, v, cs),
         cs[Len(cs)].at \notin {"left", "right"},
         NEW a \in Int, NEW b \in Int,
         cs[Len(cs)].low <= a, a <= cs[Len(cs)].high,
         cs[Len(cs)].low <= b, b <= cs[Len(cs)].high
  PROVE  Placed(in, SwapSymbols(v, a, b), cs)
<1> DEFINE n == Len(v)
           d == Len(cs)
           e == cs[d]
           w == SwapSymbols(v, a, b)
<1>1. n \in Nat /\ d \in Nat \ {0} /\ e \in IntFrames
  OBVIOUS
<1>2. Fits(n, e, d)
  BY <1>1 DEF Stacked
<1>3. a \in 1..n /\ b \in 1..n
  <2>1. 1 <= e.low /\ e.high <= n /\ e.low \in Int /\ e.high \in Int
    BY <1>1, <1>2 DEF Fits, IntFrames
  <2> QED
    BY <1>1, <2>1
<1>4. ASSUME NEW m \in 1..d, cs[m].at \in {"left", "right"}
      PROVE  /\ Parted(in, w, cs[m].low, cs[m].pi, cs[m].high)
             /\ cs[m].at = "right" => Ordered(in, w, cs[m].low, cs[m].pi)
  <2> DEFINE f == cs[m]
  <2>1. m < d
    BY <1>1, <1>4
  <2>2. /\ Fits(n, f, m) /\ Inside(f, e) /\ f \in IntFrames
        /\ Parted(in, v, f.low, f.pi, f.high)
        /\ f.at = "right" => Ordered(in, v, f.low, f.pi)
    BY <1>1, <1>4, <2>1 DEF Stacked, Placed
  <2>3. /\ e.low <= a /\ a <= e.high /\ e.low <= b /\ b <= e.high
        /\ e.low \in Int /\ e.high \in Int
    BY <1>1 DEF IntFrames
  <2>4. f.at \in {"left", "right"}
    BY <1>4
  <2> HIDE DEF e, f, n, d, w
  <2>5. /\ f.low \in Int /\ f.pi \in Int /\ f.high \in Int
        /\ 1 <= f.low /\ f.low <= f.pi /\ f.pi <= f.high /\ f.high <= n
    BY <2>2, <2>4 DEF Fits, IntFrames
  <2>6. \/ f.low <= a /\ a < f.pi /\ f.low <= b /\ b < f.pi /\ f.at = "left"
        \/ f.pi < a /\ a <= f.high /\ f.pi < b /\ b <= f.high /\ f.at = "right"
    BY <2>2, <2>3, <2>4, <2>5, SMTT(30) DEF Inside
  <2>7. Parted(in, w, f.low, f.pi, f.high)
    BY <1>3, <2>2, <2>5, <2>6, SwapInPart DEF w, n
  <2>8. f.at = "right" => Ordered(in, w, f.low, f.pi)
    <3> SUFFICES ASSUME f.at = "right" PROVE Ordered(in, w, f.low, f.pi)
      OBVIOUS
    <3>1. f.pi < a /\ f.pi < b /\ f.pi <= n
      BY <1>1, <2>5, <2>6
    <3> QED
      BY <1>3, <2>2, <2>5, <3>1, SwapBehind DEF w, n
  <2> QED
    BY <2>7, <2>8 DEF f
<1> QED
  BY <1>4 DEF Placed

-----------------------------------------------------------------------------
(* The inductive invariant. *)

Frames == [low : 1..(Count + 1), high : 0..Count, pi : 0..Count,
           at : {"enter", "loop", "left", "right"}]

Typed ==
  /\ input \in Inputs
  /\ pc \in {"start", "alloc", "filter", "sort", "reverse", "print", "done"}
  /\ visible \in Seq(1..Count) /\ Len(visible) <= Count
  /\ i \in 0..(Count + 1) /\ j \in 0..(Count + 1)
  /\ calls \in Seq(Frames)
  /\ printed \in Seq(1..Count)
  /\ ret \in {"none", "OK", "FAIL_PATH"}

Phases ==
  /\ pc # "sort" => calls = <<>>
  /\ pc # "done" => ret = "none"
  /\ pc \in {"start", "alloc"} => visible = <<>>
  /\ pc = "filter" => 1 <= i /\ Len(visible) < i
  /\ pc = "reverse" => 1 <= i /\ i <= Len(visible) + 1 /\ j <= Len(visible)
  /\ pc = "print" => 1 <= i /\ i <= Len(visible) + 1

Sorting ==
  pc = "sort" =>
    /\ 2 <= Len(visible)
    /\ Stacked(Len(visible), calls)
    /\ Placed(input, visible, calls)
    /\ calls # <<>> => Active(input, visible, calls, i, j)
    /\ calls = <<>> => Ordered(input, visible, 1, Len(visible))

SortInv == Typed /\ Phases /\ Sorting

(* The places and frames are numbers.                                      *)
LEMMA Numbers ==
  ASSUME Typed
  PROVE  /\ Count \in Nat /\ Len(visible) \in Nat /\ Len(visible) <= Count
         /\ i \in Int /\ j \in Int
         /\ Frames \subseteq IntFrames /\ calls \in Seq(IntFrames)
         /\ visible \in Seq(Indices(input))
         /\ \A k \in 1..Len(visible) : visible[k] \in Indices(input)
<1>1. Count \in Nat
  BY InputsAssumption DEF Typed, Count
<1>2. Frames \subseteq IntFrames
  BY <1>1 DEF Frames, IntFrames
<1>3. calls \in Seq(IntFrames)
  BY <1>2, SeqOfMore DEF Typed
<1>4. visible \in Seq(Indices(input)) /\ Len(visible) \in Nat
      /\ \A k \in 1..Len(visible) : visible[k] \in Indices(input)
  BY DEF Typed, Indices, Count
<1> QED
  BY <1>1, <1>2, <1>3, <1>4 DEF Typed

(* A call that is on the stack.                                            *)
LEMMA OnStack ==
  ASSUME SortInv, NEW place, At(place)
  PROVE  /\ pc = "sort" /\ calls # <<>> /\ Len(calls) \in Nat \ {0}
         /\ Top = calls[Len(calls)] /\ Top.at = place
         /\ Top \in Frames /\ Top.low \in Int /\ Top.high \in Int /\ Top.pi \in Int
         /\ Fits(Len(visible), Top, Len(calls))
<1>1. pc = "sort" /\ calls # <<>> /\ Top = calls[Len(calls)] /\ Top.at = place
  BY DEF At, Top, Last
<1>2. Len(calls) \in Nat \ {0} /\ Top \in Frames
  BY <1>1 DEF SortInv, Typed
<1>3. Top \in IntFrames
  BY <1>2, Numbers DEF SortInv
<1>4. Fits(Len(visible), Top, Len(calls))
  BY <1>1, <1>2 DEF SortInv, Sorting, Stacked
<1> QED
  BY <1>1, <1>2, <1>3, <1>4 DEF IntFrames

(* A call with its own part in order, and the stack of the calls so far.   *)
LEMMA PlacedCall ==
  ASSUME NEW in, NEW v, NEW cs \in Seq(IntFrames), cs # <<>>,
         \A m \in 1..(Len(cs) - 1) :
           /\ cs[m].at \in {"left", "right"} => Parted(in, v, cs[m].low, cs[m].pi, cs[m].high)
           /\ cs[m].at = "right" => Ordered(in, v, cs[m].low, cs[m].pi),
         NEW f \in IntFrames, NEW g \in IntFrames, g.at = "enter",
         Parted(in, v, f.low, f.pi, f.high),
         f.at = "right" => Ordered(in, v, f.low, f.pi),
         NEW a, NEW b
  PROVE  LET ds == Append(Append(Front(cs), f), g)
         IN  Placed(in, v, ds) /\ Active(in, v, ds, a, b)
<1> DEFINE ds == Append(Append(Front(cs), f), g)
           d  == Len(cs)
<1>1. /\ ds \in Seq(IntFrames) /\ d \in Nat \ {0} /\ Len(ds) = d + 1
      /\ \A m \in 1..(d - 1) : ds[m] = cs[m]
      /\ ds[d] = f /\ ds[d + 1] = g
  BY CallEffect
<1> HIDE DEF ds
<1>2. ASSUME NEW m \in 1..(d + 1)
      PROVE  /\ ds[m].at \in {"left", "right"} =>
                  Parted(in, v, ds[m].low, ds[m].pi, ds[m].high)
             /\ ds[m].at = "right" => Ordered(in, v, ds[m].low, ds[m].pi)
  <2>1. CASE m = d + 1
    BY <1>1, <2>1
  <2>2. CASE m = d
    BY <1>1, <2>2
  <2>3. CASE m < d
    BY <1>1, <2>3
  <2> QED
    BY <1>1, <2>1, <2>2, <2>3
<1>3. Placed(in, v, ds)
  BY <1>1, <1>2 DEF Placed
<1>4. Active(in, v, ds, a, b)
  BY <1>1 DEF Active
<1> QED
  BY <1>3, <1>4 DEF ds

-----------------------------------------------------------------------------
(* One lemma per step of quicksort. *)

(* The types, when the call stays the same.                                *)
LEMMA TypedKept ==
  ASSUME Typed, UNCHANGED <<input, printed, ret>>,
         pc' \in {"start", "alloc", "filter", "sort", "reverse", "print", "done"},
         visible' \in Seq(1..Count), Len(visible') <= Count,
         i' \in 0..(Count + 1), j' \in 0..(Count + 1),
         calls' \in Seq(Frames)
  PROVE  Typed'
<1>1. Count' = Count
  BY DEF Count
<1>2. Frames' = Frames
  BY <1>1 DEF Frames
<1> QED
  BY <1>1, <1>2 DEF Typed

(* On entry nothing has been scanned.                                      *)
LEMMA PartitionStartsKeeps == SortInv /\ PartitionStarts => SortInv'
<1> SUFFICES ASSUME SortInv, PartitionStarts PROVE SortInv'
  OBVIOUS
<1> DEFINE d == Len(calls)
           f == [Top EXCEPT !.at = "loop"]
<1>1. /\ pc = "sort" /\ calls # <<>> /\ d \in Nat \ {0}
      /\ Top = calls[d] /\ Top.at = "enter"
      /\ Top \in Frames /\ Top.low \in Int /\ Top.high \in Int /\ Top.pi \in Int
      /\ Fits(Len(visible), Top, d)
  BY OnStack DEF PartitionStarts
<1>2. /\ Top.low < Top.high /\ i' = Top.low - 1 /\ j' = Top.low
      /\ calls' = [calls EXCEPT ![d].at = "loop"]
      /\ UNCHANGED <<input, pc, visible, heading, printed, ret>>
  BY DEF PartitionStarts, Goto
<1>3. Typed /\ Phases /\ Sorting
  BY DEF SortInv
<1>4. /\ Count \in Nat /\ Len(visible) \in Nat /\ Len(visible) <= Count
      /\ calls \in Seq(IntFrames)
  BY <1>3, Numbers
<1>5. f \in Frames /\ f.low = Top.low /\ f.high = Top.high /\ f.at = "loop"
  BY <1>1 DEF Frames
<1>6. /\ calls' \in Seq(Frames) /\ Len(calls') = d
      /\ \A m \in 1..(d - 1) : calls'[m] = calls[m]
      /\ calls'[d] = f
  <2>1. calls \in Seq(Frames)
    BY <1>3 DEF Typed
  <2> QED
    BY <1>1, <1>2, <1>5, <2>1, GotoEffect, SMTT(30)
<1>7. Typed'
  <2>1. i' \in 0..(Count + 1) /\ j' \in 0..(Count + 1)
    BY <1>1, <1>2, <1>4 DEF Frames
  <2> QED
    BY <1>2, <1>3, <1>4, <1>6, <2>1, TypedKept DEF Typed
<1>8. Phases'
  BY <1>1, <1>2, <1>3 DEF Phases
<1>9. Stacked(Len(visible), calls')
  <2>1. Stacked(Len(visible), calls)
    BY <1>1, <1>3 DEF Sorting
  <2> QED
    BY <1>1, <1>2, <1>4, <2>1, StackGoto
<1>10. Placed(input, visible, calls')
  <2>1. Placed(input, visible, calls)
    BY <1>1, <1>3 DEF Sorting
  <2> HIDE DEF d, f
  <2>2. \A m \in 1..d : m \in 1..(d - 1) \/ m = d
    BY <1>1
  <2> QED
    BY <1>5, <1>6, <2>1, <2>2 DEF Placed, d
<1>11. Active(input, visible, calls', i', j')
  <2>1. f.low - 1 <= i' /\ i' < j' /\ j' <= f.high
    BY <1>1, <1>2, <1>5
  <2>2. Scanned(input, visible, f.low, i', j', f.high)
    <3>1. \A k \in f.low..i' : FALSE
      BY <1>1, <1>2, <1>5
    <3>2. \A k \in (i' + 1)..(j' - 1) : FALSE
      BY <1>1, <1>2, <1>5
    <3> QED
      BY <3>1, <3>2 DEF Scanned
  <2> HIDE DEF f
  <2> QED
    BY <1>5, <1>6, <2>1, <2>2 DEF Active
<1>12. Sorting'
  <2>1. 2 <= Len(visible)
    BY <1>1, <1>3 DEF Sorting
  <2>2. calls' # <<>>
    BY <1>1, <1>6
  <2> QED
    BY <1>2, <1>9, <1>10, <1>11, <2>1, <2>2 DEF Sorting
<1> QED
  BY <1>7, <1>8, <1>12 DEF SortInv

(* A step of the scan takes one more symbol in.                            *)
LEMMA PartitionStepKeeps == SortInv /\ PartitionStep => SortInv'
<1> SUFFICES ASSUME SortInv, PartitionStep PROVE SortInv'
  OBVIOUS
<1> DEFINE n == Len(visible)
<1>1. /\ pc = "sort" /\ calls # <<>> /\ Len(calls) \in Nat \ {0}
      /\ Top = calls[Len(calls)] /\ Top.at = "loop"
      /\ Top \in Frames /\ Top.low \in Int /\ Top.high \in Int /\ Top.pi \in Int
      /\ Fits(n, Top, Len(calls))
  BY OnStack DEF PartitionStep
<1>2. /\ j < Top.high /\ j' = j + 1
      /\ UNCHANGED <<input, pc, calls, heading, printed, ret>>
  BY DEF PartitionStep
<1>3. /\ Typed /\ Phases
      /\ 2 <= n /\ Stacked(n, calls) /\ Placed(input, visible, calls)
      /\ Active(input, visible, calls, i, j)
  BY <1>1 DEF SortInv, Sorting
<1>4. /\ Count \in Nat /\ n \in Nat /\ n <= Count
      /\ i \in Int /\ j \in Int
      /\ calls \in Seq(IntFrames) /\ visible \in Seq(Indices(input))
      /\ \A k \in 1..n : visible[k] \in Indices(input)
      /\ input \in Inputs /\ visible \in Seq(1..Count)
  BY <1>3, Numbers DEF Typed
<1>5. /\ Top.low - 1 <= i /\ i < j /\ j <= Top.high
      /\ Scanned(input, visible, Top.low, i, j, Top.high)
  BY <1>1, <1>3 DEF Active
<1>6. 1 <= Top.low /\ Top.high <= n
  BY <1>1 DEF Fits
<1>7. i + 1 \in 1..n /\ j \in 1..n /\ Top.high \in 1..n
  <2> HIDE DEF n
  <2> QED
    BY <1>1, <1>2, <1>4, <1>5, <1>6, SMTT(30)
<1>8. /\ visible' \in Seq(1..Count) /\ Len(visible') = n
      /\ i' \in Int /\ Top.low - 1 <= i' /\ i' < j + 1
      /\ Scanned(input, visible', Top.low, i', j + 1, Top.high)
      /\ Placed(input, visible', calls)
  <2>1. CASE Cmp(visible[j], visible[Top.high]) < 0
    <3>1. i' = i + 1 /\ visible' = SwapSymbols(visible, i + 1, j)
      BY <2>1 DEF PartitionStep
    <3>2. C(input, visible[j], visible[Top.high]) < 0
      BY <2>1 DEF Cmp, C, Symbol
    <3>3. visible' \in Seq(1..Count) /\ Len(visible') = n
      BY <1>4, <1>7, <3>1, Swap
    <3>4. Scanned(input, visible', Top.low, i', j + 1, Top.high)
      BY <1>1, <1>2, <1>4, <1>5, <1>6, <3>1, <3>2, ScanSmaller
    <3>5. Placed(input, visible', calls)
      <4>1. Top.low <= i + 1 /\ i + 1 <= Top.high /\ Top.low <= j /\ j <= Top.high
        BY <1>1, <1>2, <1>4, <1>5
      <4>2. i + 1 \in Int
        BY <1>4
      <4> QED
        BY <1>1, <1>3, <1>4, <3>1, <4>1, <4>2, PlacedSwap
    <3>6. i' \in Int /\ Top.low - 1 <= i' /\ i' < j + 1
      BY <1>1, <1>4, <1>5, <3>1
    <3> QED
      BY <3>3, <3>4, <3>5, <3>6
  <2>2. CASE ~ (Cmp(visible[j], visible[Top.high]) < 0)
    <3>1. i' = i /\ visible' = visible
      BY <2>2 DEF PartitionStep
    <3>2. C(input, visible[j], visible[Top.high]) >= 0
      <4>1. C(input, visible[j], visible[Top.high]) \in Int
        BY <1>4, <1>7, Comparing
      <4>2. ~ (C(input, visible[j], visible[Top.high]) < 0)
        BY <2>2 DEF Cmp, C, Symbol
      <4> QED
        BY <4>1, <4>2
    <3>3. Scanned(input, visible', Top.low, i', j + 1, Top.high)
      BY <1>1, <1>4, <1>5, <3>1, <3>2, ScanOther
    <3> QED
      BY <1>1, <1>3, <1>4, <1>5, <3>1, <3>3
  <2> QED
    BY <2>1, <2>2
<1> HIDE DEF n
<1>9. Typed'
  <2>1. i' \in 0..(Count + 1) /\ j' \in 0..(Count + 1)
    <3>1. /\ i' \in Int /\ Top.low - 1 <= i' /\ i' < j + 1
          /\ 1 <= Top.low /\ Top.high <= Count
          /\ j' = j + 1 /\ j < Top.high
      BY <1>1, <1>2, <1>4, <1>6, <1>8
    <3>2. Top.low \in Int /\ Top.high \in Int /\ j \in Int /\ Count \in Nat
      BY <1>1, <1>4
    <3>3. Top.low - 1 <= j + 1
      BY <3>1, <3>2
    <3> QED
      BY <3>1, <3>2, <3>3
  <2> QED
    BY <1>2, <1>3, <1>4, <1>8, <2>1, TypedKept DEF Typed
<1>10. Phases'
  BY <1>1, <1>2, <1>3 DEF Phases
<1>11. Active(input, visible', calls, i', j')
  <2>1. j' <= Top.high
    BY <1>1, <1>2, <1>4
  <2> QED
    BY <1>1, <1>2, <1>8, <2>1 DEF Active
<1>12. Sorting'
  BY <1>1, <1>2, <1>3, <1>8, <1>11 DEF Sorting
<1> QED
  BY <1>9, <1>10, <1>12 DEF SortInv

(* Its end puts the pivot in its place and calls for the left part.        *)
LEMMA PartitionEndsKeeps == SortInv /\ PartitionEnds => SortInv'
<1> SUFFICES ASSUME SortInv, PartitionEnds PROVE SortInv'
  OBVIOUS
<1> DEFINE n == Len(visible)
           f == [Top EXCEPT !.pi = i + 1, !.at = "left"]
           g == Frame(Top.low, i)
<1>1. /\ pc = "sort" /\ calls # <<>> /\ Len(calls) \in Nat \ {0}
      /\ Top = calls[Len(calls)] /\ Top.at = "loop"
      /\ Top \in Frames /\ Top.low \in Int /\ Top.high \in Int /\ Top.pi \in Int
      /\ Fits(n, Top, Len(calls))
  BY OnStack DEF PartitionEnds
<1>2. /\ j >= Top.high
      /\ visible' = SwapSymbols(visible, i + 1, Top.high)
      /\ calls' = Append(Append(Front(calls), f), g)
      /\ UNCHANGED <<input, pc, i, j, heading, printed, ret>>
  BY DEF PartitionEnds, Call
<1>3. /\ Typed /\ Phases
      /\ 2 <= n /\ Stacked(n, calls) /\ Placed(input, visible, calls)
      /\ Active(input, visible, calls, i, j)
  BY <1>1 DEF SortInv, Sorting
<1>4. /\ Count \in Nat /\ n \in Nat /\ n <= Count
      /\ i \in Int /\ j \in Int
      /\ calls \in Seq(IntFrames) /\ Frames \subseteq IntFrames
      /\ input \in Inputs /\ visible \in Seq(1..Count)
  BY <1>3, Numbers DEF Typed
<1>5. /\ Top.low - 1 <= i /\ i < j /\ j <= Top.high /\ j = Top.high
      /\ Scanned(input, visible, Top.low, i, Top.high, Top.high)
  <2>1. /\ Top.low - 1 <= i /\ i < j /\ j <= Top.high
        /\ Scanned(input, visible, Top.low, i, j, Top.high)
    BY <1>1, <1>3 DEF Active
  <2>2. j = Top.high
    BY <1>1, <1>2, <1>4, <2>1
  <2> QED
    BY <2>1, <2>2
<1>6. 1 <= Top.low /\ Top.high <= n
  BY <1>1 DEF Fits
<1>7. i + 1 \in 1..n /\ Top.high \in 1..n /\ i \in 0..Count
      /\ Top.low <= i + 1 /\ i + 1 <= Top.high /\ Top.low <= Top.high
  <2> HIDE DEF n
  <2> QED
    BY <1>1, <1>4, <1>5, <1>6
<1>8. /\ f \in Frames /\ f.low = Top.low /\ f.high = Top.high
      /\ f.pi = i + 1 /\ f.at = "left"
  <2>1. i + 1 \in 0..Count
    BY <1>4, <1>7
  <2> QED
    BY <1>1, <2>1 DEF Frames
<1>9. /\ g \in Frames /\ g.low = f.low /\ g.high = f.pi - 1 /\ g.at = "enter"
  <2>1. Top.low \in 1..(Count + 1)
    BY <1>1 DEF Frames
  <2>2. g = [low |-> Top.low, high |-> i, pi |-> 0, at |-> "enter"]
    BY DEF Frame
  <2>3. g \in Frames
    BY <1>4, <1>7, <2>1, <2>2 DEF Frames
  <2> QED
    BY <1>4, <1>8, <2>2, <2>3
<1>10. /\ visible' \in Seq(1..Count) /\ Len(visible') = n
  BY <1>2, <1>4, <1>7, Swap
<1>11. Placed(input, visible', calls)
  <2>1. /\ i + 1 \in Int
        /\ Top.low <= i + 1 /\ i + 1 <= Top.high
        /\ Top.low <= Top.high /\ Top.high <= Top.high
    BY <1>1, <1>4, <1>7
  <2>2. Top.at \notin {"left", "right"}
    BY <1>1
  <2>3. Placed(input, SwapSymbols(visible, i + 1, Top.high), calls)
    <3> HIDE DEF n, f, g
    <3> QED
      BY <1>1, <1>3, <1>4, <2>1, <2>2, PlacedSwap DEF n
  <2> QED
    BY <1>2, <2>3
<1>12. Parted(input, visible', f.low, f.pi, f.high)
  BY <1>1, <1>2, <1>4, <1>5, <1>6, <1>8, ScanEnd
<1> HIDE DEF n, f, g
<1>13. calls' \in Seq(Frames) /\ Len(calls') = Len(calls) + 1
  <2>1. calls \in Seq(Frames)
    BY <1>3 DEF Typed
  <2> QED
    BY <1>1, <1>2, <1>8, <1>9, <2>1, CallEffect
<1>14. Stacked(n, calls')
  <2>1. Child(f, g)
    BY <1>8, <1>9 DEF Child
  <2>2. f \in IntFrames /\ g \in IntFrames
    BY <1>4, <1>8, <1>9
  <2>3. f.low <= f.pi /\ f.pi <= f.high
    BY <1>7, <1>8
  <2> QED
    BY <1>1, <1>2, <1>3, <1>4, <1>8, <1>9, <2>1, <2>2, <2>3, StackCall
<1>15. Placed(input, visible', calls') /\ Active(input, visible', calls', i', j')
  <2>1. \A m \in 1..(Len(calls) - 1) :
           /\ calls[m].at \in {"left", "right"} =>
                Parted(input, visible', calls[m].low, calls[m].pi, calls[m].high)
           /\ calls[m].at = "right" =>
                Ordered(input, visible', calls[m].low, calls[m].pi)
    BY <1>1, <1>11 DEF Placed
  <2>2. f \in IntFrames /\ g \in IntFrames /\ f.at # "right"
    BY <1>4, <1>8, <1>9
  <2> HIDE DEF Parted, Ordered
  <2> QED
    BY <1>1, <1>2, <1>4, <1>9, <1>12, <2>1, <2>2, PlacedCall
<1>16. Typed'
  <2>1. i' \in 0..(Count + 1) /\ j' \in 0..(Count + 1)
    BY <1>2, <1>3 DEF Typed
  <2>2. pc' \in {"start", "alloc", "filter", "sort", "reverse", "print", "done"}
    BY <1>1, <1>2
  <2>3. Len(visible') <= Count
    BY <1>4, <1>10
  <2> QED
    BY <1>2, <1>3, <1>10, <1>13, <2>1, <2>2, <2>3, TypedKept
<1>17. Phases'
  BY <1>1, <1>2, <1>3 DEF Phases
<1>18. Sorting'
  <2>1. calls' # <<>>
    BY <1>1, <1>13
  <2> QED
    BY <1>2, <1>3, <1>10, <1>14, <1>15, <2>1 DEF Sorting
<1> QED
  BY <1>16, <1>17, <1>18 DEF SortInv

(* When the left part is in order, the right one is called for.            *)
LEMMA LeftReturnsKeeps == SortInv /\ LeftReturns => SortInv'
<1> SUFFICES ASSUME SortInv, LeftReturns PROVE SortInv'
  OBVIOUS
<1> DEFINE n == Len(visible)
           f == [Top EXCEPT !.at = "right"]
           g == Frame(Top.pi + 1, Top.high)
<1>1. /\ pc = "sort" /\ calls # <<>> /\ Len(calls) \in Nat \ {0}
      /\ Top = calls[Len(calls)] /\ Top.at = "left"
      /\ Top \in Frames /\ Top.low \in Int /\ Top.high \in Int /\ Top.pi \in Int
      /\ Fits(n, Top, Len(calls))
  BY OnStack DEF LeftReturns
<1>2. /\ calls' = Append(Append(Front(calls), f), g)
      /\ UNCHANGED <<input, pc, visible, i, j, heading, printed, ret>>
  BY DEF LeftReturns, Call
<1>3. /\ Typed /\ Phases
      /\ 2 <= n /\ Stacked(n, calls) /\ Placed(input, visible, calls)
      /\ Active(input, visible, calls, i, j)
  BY <1>1 DEF SortInv, Sorting
<1>4. /\ Count \in Nat /\ n \in Nat /\ n <= Count
      /\ calls \in Seq(IntFrames) /\ Frames \subseteq IntFrames
      /\ input \in Inputs /\ visible \in Seq(1..Count)
      /\ \A k \in 1..n : visible[k] \in Indices(input)
  BY <1>3, Numbers DEF Typed
<1>5. 1 <= Top.low /\ Top.high <= n /\ Top.low <= Top.pi /\ Top.pi <= Top.high
  BY <1>1 DEF Fits
<1>6. /\ f \in Frames /\ f.low = Top.low /\ f.high = Top.high
      /\ f.pi = Top.pi /\ f.at = "right"
  BY <1>1 DEF Frames
<1>7. /\ g \in Frames /\ g.low = f.pi + 1 /\ g.high = f.high /\ g.at = "enter"
  <2>1. Top.high \in 0..Count /\ Top.pi + 1 \in 1..(Count + 1)
    BY <1>1, <1>4 DEF Frames
  <2>2. g = [low |-> Top.pi + 1, high |-> Top.high, pi |-> 0, at |-> "enter"]
    BY DEF Frame
  <2>3. g \in Frames
    BY <1>4, <2>1, <2>2 DEF Frames
  <2> QED
    BY <1>6, <2>2, <2>3
<1> HIDE DEF n, f, g
<1>8. /\ Parted(input, visible, Top.low, Top.pi, Top.high)
      /\ Ordered(input, visible, Top.low, Top.pi)
  <2>1. Parted(input, visible, Top.low, Top.pi, Top.high)
    BY <1>1, <1>3 DEF Placed
  <2>2. Ordered(input, visible, Top.low, Top.pi - 1)
    BY <1>1, <1>3 DEF Active
  <2>3. \A k \in Top.low..Top.high : visible[k] \in Indices(input)
    BY <1>1, <1>4, <1>5
  <2> QED
    BY <1>1, <1>4, <1>5, <2>1, <2>2, <2>3, OrderedToPivot
<1>9. calls' \in Seq(Frames) /\ Len(calls') = Len(calls) + 1
  <2>1. calls \in Seq(Frames)
    BY <1>3 DEF Typed
  <2> QED
    BY <1>1, <1>2, <1>6, <1>7, <2>1, CallEffect
<1>10. Stacked(n, calls')
  <2>1. Child(f, g)
    BY <1>6, <1>7 DEF Child
  <2>2. f \in IntFrames /\ g \in IntFrames
    BY <1>4, <1>6, <1>7
  <2> QED
    BY <1>1, <1>2, <1>3, <1>4, <1>5, <1>6, <1>7, <2>1, <2>2, StackCall
<1>11. Placed(input, visible, calls') /\ Active(input, visible, calls', i', j')
  <2>1. \A m \in 1..(Len(calls) - 1) :
           /\ calls[m].at \in {"left", "right"} =>
                Parted(input, visible, calls[m].low, calls[m].pi, calls[m].high)
           /\ calls[m].at = "right" =>
                Ordered(input, visible, calls[m].low, calls[m].pi)
    BY <1>1, <1>3 DEF Placed
  <2>2. f \in IntFrames /\ g \in IntFrames
    BY <1>4, <1>6, <1>7
  <2> QED
    BY <1>1, <1>2, <1>4, <1>6, <1>7, <1>8, <2>1, <2>2, PlacedCall
<1>12. Typed'
  <2>1. i' \in 0..(Count + 1) /\ j' \in 0..(Count + 1)
    BY <1>2, <1>3 DEF Typed
  <2>2. pc' \in {"start", "alloc", "filter", "sort", "reverse", "print", "done"}
    BY <1>1, <1>2
  <2>3. visible' \in Seq(1..Count) /\ Len(visible') <= Count
    BY <1>2, <1>4 DEF n
  <2> QED
    BY <1>2, <1>3, <1>9, <2>1, <2>2, <2>3, TypedKept
<1>13. Phases'
  BY <1>1, <1>2, <1>3 DEF Phases
<1>14. Sorting'
  <2>1. calls' # <<>>
    BY <1>1, <1>9
  <2> QED
    BY <1>2, <1>3, <1>10, <1>11, <2>1 DEF Sorting, n
<1> QED
  BY <1>12, <1>13, <1>14 DEF SortInv

(* A return leaves its part in order to the call that waits for it.        *)
LEMMA QuicksortReturnsKeeps == SortInv /\ QuicksortReturns => SortInv'
<1> SUFFICES ASSUME SortInv, QuicksortReturns PROVE SortInv'
  OBVIOUS
<1> DEFINE n == Len(visible)
           d == Len(calls)
<1>1. /\ pc = "sort" /\ calls # <<>> /\ d \in Nat \ {0}
      /\ Top = calls[d]
      /\ Top \in Frames /\ Top.low \in Int /\ Top.high \in Int /\ Top.pi \in Int
      /\ Fits(n, Top, d)
  BY OnStack DEF QuicksortReturns
<1>2. /\ calls' = Front(calls)
      /\ UNCHANGED <<input, pc, visible, i, j, heading, printed, ret>>
      /\ \/ Top.at = "enter" /\ Top.low >= Top.high
         \/ Top.at = "right"
  BY DEF QuicksortReturns, Pop, At
<1>3. /\ Typed /\ Phases
      /\ 2 <= n /\ Stacked(n, calls) /\ Placed(input, visible, calls)
      /\ Active(input, visible, calls, i, j)
  BY <1>1 DEF SortInv, Sorting
<1>4. /\ Count \in Nat /\ n \in Nat /\ n <= Count
      /\ calls \in Seq(IntFrames) /\ calls \in Seq(Frames)
      /\ input \in Inputs /\ visible \in Seq(1..Count)
      /\ \A k \in 1..n : visible[k] \in Indices(input)
  BY <1>3, Numbers DEF Typed
<1> HIDE DEF n, d
<1>5. Ordered(input, visible, Top.low, Top.high)
  <2>1. CASE Top.at = "enter" /\ Top.low >= Top.high
    <3>1. \A k, l \in Top.low..Top.high : ~ (k < l)
      BY <1>1, <2>1
    <3> QED
      BY <3>1 DEF Ordered
  <2>2. CASE Top.at = "right"
    <3>1. 1 <= Top.low /\ Top.high <= n /\ Top.low <= Top.pi /\ Top.pi <= Top.high
      BY <1>1, <2>2 DEF Fits
    <3>2. /\ Parted(input, visible, Top.low, Top.pi, Top.high)
          /\ Ordered(input, visible, Top.low, Top.pi)
      BY <1>1, <1>3, <2>2 DEF Placed, d
    <3>3. Ordered(input, visible, Top.pi + 1, Top.high)
      BY <1>1, <1>3, <2>2 DEF Active, d
    <3>4. \A k \in Top.low..Top.high : visible[k] \in Indices(input)
      BY <1>1, <1>4, <3>1
    <3> QED
      BY <1>1, <1>4, <3>1, <3>2, <3>3, <3>4, OrderedThroughout
  <2> QED
    BY <1>2, <2>1, <2>2
<1>6. /\ calls' \in Seq(Frames) /\ Len(calls') = d - 1
      /\ \A m \in 1..(d - 1) : calls'[m] = calls[m]
  BY <1>1, <1>2, <1>4, PopEffect DEF d
<1>7. Stacked(n, calls')
  BY <1>1, <1>2, <1>3, <1>4, StackPop
<1>8. Placed(input, visible, calls')
  <2>1. \A m \in 1..(d - 1) : m \in 1..d
    BY <1>1
  <2>2. Placed(input, visible, calls)
    BY <1>3
  <2> QED
    BY <1>6, <2>1, <2>2 DEF Placed, d
<1>9. ASSUME calls' # <<>> PROVE Active(input, visible, calls', i', j')
  <2> DEFINE p == calls[d - 1]
  <2>1. d - 1 \in 1..(d - 1) /\ (d - 1) + 1 = d
    BY <1>1, <1>6, <1>9
  <2>2. /\ calls'[Len(calls')] = p
        /\ p.at \in {"left", "right"} /\ Child(p, Top)
    BY <1>1, <1>3, <1>6, <2>1 DEF Stacked, d
  <2> HIDE DEF p
  <2>3. /\ p.at = "left" => Ordered(input, visible, p.low, p.pi - 1)
        /\ p.at = "right" => Ordered(input, visible, p.pi + 1, p.high)
    BY <1>5, <2>2 DEF Child
  <2> QED
    BY <2>2, <2>3 DEF Active
<1>10. ASSUME calls' = <<>> PROVE Ordered(input, visible, 1, n)
  <2>1. d = 1
    BY <1>1, <1>6, <1>10
  <2>2. Top.low = 1 /\ Top.high = n
    BY <1>1, <1>3, <2>1 DEF Stacked, d
  <2> QED
    BY <1>5, <2>2
<1>11. Typed'
  <2>1. i' \in 0..(Count + 1) /\ j' \in 0..(Count + 1)
    BY <1>2, <1>3 DEF Typed
  <2>2. pc' \in {"start", "alloc", "filter", "sort", "reverse", "print", "done"}
    BY <1>1, <1>2
  <2>3. visible' \in Seq(1..Count) /\ Len(visible') <= Count
    BY <1>2, <1>4 DEF n
  <2> QED
    BY <1>2, <1>3, <1>6, <2>1, <2>2, <2>3, TypedKept
<1>12. Phases'
  BY <1>1, <1>2, <1>3 DEF Phases
<1>13. Sorting'
  BY <1>2, <1>3, <1>7, <1>8, <1>9, <1>10 DEF Sorting, n
<1> QED
  BY <1>11, <1>12, <1>13 DEF SortInv

-----------------------------------------------------------------------------
(* The steps around quicksort. *)

LEMMA SortInitially == Init => SortInv
<1> SUFFICES ASSUME Init PROVE SortInv
  OBVIOUS
<1>1. Count \in Nat /\ input \in Inputs
  BY InputsAssumption DEF Init, Count
<1>2. <<>> \in Seq(1..Count) /\ <<>> \in Seq(Frames) /\ Len(<<>>) = 0
  OBVIOUS
<1>3. i \in 0..(Count + 1) /\ j \in 0..(Count + 1)
  BY <1>1 DEF Init
<1>4. Typed
  BY <1>1, <1>2, <1>3 DEF Init, Typed
<1>5. Phases /\ Sorting
  BY DEF Init, Phases, Sorting
<1> QED
  BY <1>4, <1>5 DEF SortInv

LEMMA PreparationKeeps ==
  ASSUME SortInv, Start \/ AllocFails \/ Alloc PROVE SortInv'
<1>1. /\ Typed /\ Phases /\ Count \in Nat
  BY Numbers DEF SortInv
<1>2. /\ UNCHANGED <<input, visible, j, calls, printed>>
      /\ pc \in {"start", "alloc"}
      /\ \/ pc' = "alloc" /\ i' = i /\ ret' = ret
         \/ pc' = "filter" /\ i' = 1 /\ ret' = ret
         \/ pc' = "done" /\ i' = i /\ ret' = "FAIL_PATH"
  BY DEF Start, AllocFails, Alloc
<1>3. visible = <<>> /\ calls = <<>> /\ ret = "none"
  BY <1>1, <1>2 DEF Phases
<1>4. i' \in 0..(Count + 1)
  BY <1>1, <1>2 DEF Typed
<1>5. Count' = Count /\ Frames' = Frames
  BY <1>2 DEF Count, Frames
<1>6. Typed'
  BY <1>1, <1>2, <1>4, <1>5 DEF Typed
<1>7. Len(visible') = 0
  BY <1>2, <1>3
<1>8. Phases' /\ Sorting'
  BY <1>2, <1>3, <1>7 DEF Phases, Sorting
<1> QED
  BY <1>6, <1>8 DEF SortInv

LEMMA FilterSymbolKeeps == ASSUME SortInv, FilterSymbol PROVE SortInv'
<1>1. /\ Typed /\ Phases /\ Count \in Nat /\ Len(visible) \in Nat
  BY Numbers DEF SortInv
<1>2. /\ pc = "filter" /\ i <= Count /\ i' = i + 1
      /\ UNCHANGED <<input, pc, j, calls, heading, printed, ret>>
      /\ visible' = visible \/ visible' = Append(visible, i)
  BY DEF FilterSymbol
<1>3. 1 <= i /\ Len(visible) < i /\ i \in 1..Count /\ visible \in Seq(1..Count)
  BY <1>1, <1>2 DEF Phases, Typed
<1>4. /\ visible' \in Seq(1..Count) /\ Len(visible') \in Nat
      /\ Len(visible') <= Len(visible) + 1
  <2>1. CASE visible' = visible
    BY <1>1, <1>3, <2>1
  <2>2. CASE visible' = Append(visible, i)
    BY <1>1, <1>3, <2>2
  <2> QED
    BY <1>2, <2>1, <2>2
<1>5. Len(visible') <= Count /\ Len(visible') < i' /\ 1 <= i' /\ i' \in 0..(Count + 1)
  BY <1>1, <1>2, <1>3, <1>4
<1>6. Typed'
  BY <1>1, <1>2, <1>4, <1>5, TypedKept DEF Typed
<1>7. Phases' /\ Sorting'
  BY <1>1, <1>2, <1>5 DEF Phases, Sorting
<1> QED
  BY <1>6, <1>7 DEF SortInv

(* The first call is for the whole array.                                  *)
LEMMA FilterEndsKeeps == ASSUME SortInv, FilterEnds PROVE SortInv'
<1> DEFINE n == Len(visible)
           f == Frame(1, n)
<1>1. /\ Typed /\ Phases /\ Count \in Nat /\ n \in Nat /\ n <= Count
      /\ visible \in Seq(1..Count) /\ Frames \subseteq IntFrames
  BY Numbers DEF SortInv, Typed
<1>2. pc = "filter" /\ UNCHANGED <<input, visible, j, heading, printed, ret>>
  BY DEF FilterEnds
<1>3. calls = <<>> /\ ret = "none"
  BY <1>1, <1>2 DEF Phases
<1>4. f = [low |-> 1, high |-> n, pi |-> 0, at |-> "enter"]
  BY DEF Frame
<1>5. CASE n > 1
  <2>1. pc' = "sort" /\ calls' = <<f>> /\ i' = i
    BY <1>5 DEF FilterEnds
  <2>2. f \in Frames
    <3>1. n \in 0..Count /\ 1 \in 1..(Count + 1) /\ 0 \in 0..Count
      BY <1>1
    <3> HIDE DEF n, f
    <3> QED
      BY <1>4, <3>1 DEF Frames
  <2> HIDE DEF f
  <2>3. /\ calls' \in Seq(Frames) /\ Len(calls') = 1 /\ calls' # <<>>
        /\ calls'[1] = f /\ calls'[Len(calls')] = f
    BY <2>1, <2>2
  <2>4. f.low = 1 /\ f.high = n /\ f.at = "enter"
    BY <1>4
  <2> HIDE DEF n
  <2>5. Fits(n, f, 1)
    BY <1>1, <1>5, <2>4 DEF Fits
  <2>6. Stacked(n, calls')
    <3>1. \A m \in 1..1 : m = 1
      OBVIOUS
    <3>2. \A m \in 1..(1 - 1) : FALSE
      OBVIOUS
    <3>3. 1 <= n
      BY <1>1, <1>5
    <3> QED
      BY <2>3, <2>4, <2>5, <3>1, <3>2, <3>3 DEF Stacked
  <2>7. Placed(input, visible, calls')
    <3>1. \A m \in 1..1 : m = 1
      OBVIOUS
    <3> QED
      BY <2>3, <2>4, <3>1 DEF Placed
  <2>8. Active(input, visible, calls', i', j')
    BY <2>3, <2>4 DEF Active
  <2>9. Typed'
    <3>1. i' \in 0..(Count + 1) /\ j' \in 0..(Count + 1)
      BY <1>1, <1>2, <2>1 DEF Typed
    <3>2. visible' \in Seq(1..Count) /\ Len(visible') <= Count
      BY <1>1, <1>2 DEF n
    <3> QED
      BY <1>1, <1>2, <2>1, <2>3, <3>1, <3>2, TypedKept
  <2>10. Phases'
    BY <1>2, <1>3, <2>1 DEF Phases
  <2>11. Sorting'
    <3>1. 2 <= n
      BY <1>1, <1>5
    <3> QED
      BY <1>2, <2>1, <2>3, <2>6, <2>7, <2>8, <3>1 DEF Sorting, n
  <2> QED
    BY <2>9, <2>10, <2>11 DEF SortInv
<1>6. CASE ~ (n > 1)
  <2>1. pc' = "print" /\ i' = 1 /\ calls' = calls
    BY <1>6 DEF FilterEnds
  <2>2. Typed'
    <3>1. i' \in 0..(Count + 1) /\ j' \in 0..(Count + 1)
      BY <1>1, <1>2, <2>1 DEF Typed
    <3>2. visible' \in Seq(1..Count) /\ Len(visible') <= Count
      BY <1>1, <1>2
    <3>3. calls' \in Seq(Frames)
      BY <1>1, <2>1 DEF Typed
    <3> QED
      BY <1>1, <1>2, <2>1, <3>1, <3>2, <3>3, TypedKept
  <2>3. Phases'
    <3>1. 1 <= i' /\ i' <= Len(visible') + 1
      BY <1>1, <1>2, <2>1
    <3> QED
      BY <1>2, <1>3, <2>1, <3>1 DEF Phases
  <2>4. Sorting'
    BY <2>1 DEF Sorting
  <2> QED
    BY <2>2, <2>3, <2>4 DEF SortInv
<1> QED
  BY <1>5, <1>6

LEMMA FinishKeeps ==
  ASSUME SortInv, SortEnds \/ ReverseStep \/ PrintStep \/ Return PROVE SortInv'
<1> DEFINE n == Len(visible)
<1>1. /\ Typed /\ Phases /\ Count \in Nat /\ n \in Nat /\ n <= Count
      /\ visible \in Seq(1..Count) /\ i \in Int /\ j \in Int
      /\ calls \in Seq(Frames) /\ printed \in Seq(1..Count)
      /\ i \in 0..(Count + 1) /\ j \in 0..(Count + 1)
  BY Numbers DEF SortInv, Typed
<1> HIDE DEF n
<1>2. CASE SortEnds
  <2>1. /\ pc = "sort" /\ calls = <<>> /\ i' = 1
        /\ \/ pc' = "reverse" /\ j' = n
           \/ pc' = "print" /\ j' = j
        /\ UNCHANGED <<input, visible, calls, heading, printed, ret>>
    BY <1>2 DEF SortEnds, n
  <2>2. ret = "none"
    BY <1>1, <2>1 DEF Phases
  <2>3. i' \in 0..(Count + 1) /\ j' \in 0..(Count + 1) /\ i' <= n + 1
    BY <1>1, <2>1
  <2>4. j' <= n \/ pc' = "print"
    BY <1>1, <2>1
  <2>5. Typed'
    BY <1>1, <2>1, <2>3, TypedKept DEF n
  <2>6. Phases' /\ Sorting'
    BY <2>1, <2>2, <2>3, <2>4 DEF Phases, Sorting, n
  <2> QED
    BY <2>5, <2>6 DEF SortInv
<1>3. CASE ReverseStep
  <2>1. /\ pc = "reverse" /\ UNCHANGED <<input, calls, heading, printed, ret>>
        /\ \/ /\ i < j /\ pc' = pc
              /\ visible' = SwapSymbols(visible, i, j)
              /\ i' = i + 1 /\ j' = j - 1
           \/ pc' = "print" /\ i' = 1 /\ visible' = visible /\ j' = j
    BY <1>3 DEF ReverseStep
  <2>2. calls = <<>> /\ ret = "none" /\ 1 <= i /\ i <= n + 1 /\ j <= n
    BY <1>1, <2>1 DEF Phases, n
  <2>3. /\ visible' \in Seq(1..Count) /\ Len(visible') = n
        /\ 1 <= i' /\ i' <= n + 1 /\ j' <= n
        /\ i' \in 0..(Count + 1) /\ j' \in 0..(Count + 1)
    <3>1. CASE i < j /\ visible' = SwapSymbols(visible, i, j) /\ i' = i + 1 /\ j' = j - 1
      <4>1. i \in 1..n /\ j \in 1..n
        BY <1>1, <2>2, <3>1
      <4>2. visible' \in Seq(1..Count) /\ Len(visible') = n
        BY <1>1, <3>1, <4>1, Swap DEF n
      <4> QED
        BY <1>1, <2>2, <3>1, <4>1, <4>2
    <3>2. CASE i' = 1 /\ visible' = visible /\ j' = j
      BY <1>1, <2>2, <3>2 DEF n
    <3> QED
      BY <2>1, <3>1, <3>2
  <2>4. Typed'
    <3>1. Len(visible') <= Count
      BY <1>1, <2>3
    <3> QED
      BY <1>1, <2>1, <2>3, <3>1, TypedKept
  <2>5. Phases' /\ Sorting'
    BY <2>1, <2>2, <2>3 DEF Phases, Sorting
  <2> QED
    BY <2>4, <2>5 DEF SortInv
<1>4. CASE PrintStep
  <2>1. /\ pc = "print" /\ i <= n /\ i' = i + 1
        /\ printed' = Append(printed, visible[i])
        /\ UNCHANGED <<input, pc, visible, j, calls, heading, ret>>
    BY <1>4 DEF PrintStep, n
  <2>2. calls = <<>> /\ ret = "none" /\ 1 <= i
    BY <1>1, <2>1 DEF Phases
  <2>3. i \in 1..n /\ i' \in 0..(Count + 1) /\ 1 <= i' /\ i' <= n + 1
    BY <1>1, <2>1, <2>2
  <2>4. printed' \in Seq(1..Count)
    <3>1. visible[i] \in 1..Count
      BY <1>1, <2>3 DEF n
    <3> QED
      BY <1>1, <2>1, <3>1
  <2>5. Count' = Count /\ Frames' = Frames
    BY <2>1 DEF Count, Frames
  <2>6. Typed'
    BY <1>1, <2>1, <2>3, <2>4, <2>5 DEF Typed
  <2>7. Phases' /\ Sorting'
    BY <2>1, <2>2, <2>3 DEF Phases, Sorting, n
  <2> QED
    BY <2>6, <2>7 DEF SortInv
<1>5. CASE Return
  <2>1. /\ pc = "print" /\ pc' = "done" /\ ret' = "OK"
        /\ UNCHANGED <<input, visible, i, j, calls, heading, printed>>
    BY <1>5 DEF Return
  <2>2. calls = <<>>
    BY <1>1, <2>1 DEF Phases
  <2>3. Count' = Count /\ Frames' = Frames
    BY <2>1 DEF Count, Frames
  <2>4. Typed'
    BY <1>1, <2>1, <2>3 DEF Typed
  <2>5. Phases' /\ Sorting'
    BY <2>1, <2>2 DEF Phases, Sorting
  <2> QED
    BY <2>4, <2>5 DEF SortInv
<1> QED
  BY <1>2, <1>3, <1>4, <1>5

LEMMA SortStep == SortInv /\ [Next]_vars => SortInv'
<1> SUFFICES ASSUME SortInv, [Next]_vars PROVE SortInv'
  OBVIOUS
<1>1. CASE Start \/ AllocFails \/ Alloc
  BY <1>1, PreparationKeeps
<1>2. CASE FilterSymbol
  BY <1>2, FilterSymbolKeeps
<1>3. CASE FilterEnds
  BY <1>3, FilterEndsKeeps
<1>4. CASE PartitionStarts
  BY <1>4, PartitionStartsKeeps
<1>5. CASE PartitionStep
  BY <1>5, PartitionStepKeeps
<1>6. CASE PartitionEnds
  BY <1>6, PartitionEndsKeeps
<1>7. CASE LeftReturns
  BY <1>7, LeftReturnsKeeps
<1>8. CASE QuicksortReturns
  BY <1>8, QuicksortReturnsKeeps
<1>9. CASE SortEnds \/ ReverseStep \/ PrintStep \/ Return
  BY <1>9, FinishKeeps
<1>10. CASE UNCHANGED vars
  <2>1. UNCHANGED <<input, pc, visible, i, j, calls, heading, printed, ret>>
    BY <1>10 DEF vars
  <2>2. Count' = Count /\ Frames' = Frames
    BY <2>1 DEF Count, Frames
  <2>3. Typed'
    BY <2>1, <2>2 DEF SortInv, Typed
  <2>4. Phases' /\ Sorting'
    BY <2>1 DEF SortInv, Phases, Sorting
  <2> QED
    BY <2>3, <2>4 DEF SortInv
<1> QED
  BY <1>1, <1>2, <1>3, <1>4, <1>5, <1>6, <1>7, <1>8, <1>9, <1>10 DEF Next, Done

-----------------------------------------------------------------------------
(* The invariant that no symbol is lost or doubled. *)

LEMMA AppendNew ==
  ASSUME NEW S, NEW s \in Seq(S), NEW x, x \notin Range(s), IsInjective(s)
  PROVE  IsInjective(Append(s, x)) /\ Range(Append(s, x)) = Range(s) \cup {x}
<1> DEFINE t == Append(s, x)
           n == Len(s)
<1>1. /\ n \in Nat /\ DOMAIN s = 1..n /\ DOMAIN t = 1..(n + 1)
      /\ \A k \in 1..n : t[k] = s[k]
      /\ t[n + 1] = x
  OBVIOUS
<1>2. \A k \in 1..(n + 1) : k \in 1..n \/ k = n + 1
  BY <1>1
<1>3. \A k \in 1..n : k \in 1..(n + 1) /\ s[k] # x
  BY <1>1 DEF Range
<1>4. n + 1 \in 1..(n + 1)
  BY <1>1
<1> HIDE DEF t, n
<1>5. IsInjective(t)
  BY <1>1, <1>2, <1>3 DEF IsInjective
<1>6. Range(t) = Range(s) \cup {x}
  BY <1>1, <1>2, <1>3, <1>4 DEF Range
<1> QED
  BY <1>5, <1>6 DEF t

(* From the filter on the steps only move symbols.                         *)
LEMMA OnlyMoved ==
  ASSUME SortsAPermutation,
         pc \notin {"start", "alloc"}, pc = "filter" => \A k \in 1..Count : k < i,
         pc' \in {"sort", "reverse", "print", "done"},
         input' = input, ret = "none", ret' # "FAIL_PATH",
         IsInjective(visible) => IsInjective(visible'), Range(visible') = Range(visible)
  PROVE  SortsAPermutation'
<1> DEFINE accepted == {k \in 1..Count : IsVisible(Symbol(k), input.opt)}
<1>1. Range(visible) = accepted
  BY DEF SortsAPermutation
<1>2. accepted' = accepted
  BY DEF Count, Symbol
<1>3. Range(visible') =
        {k \in 1..Count' :
           /\ IsVisible(Symbol(k), input.opt)'
           /\ pc' = "filter" => k < i'
           /\ pc' \notin {"start", "alloc"} /\ ret' # "FAIL_PATH"}
  <2>1. {k \in 1..Count' :
           /\ IsVisible(Symbol(k), input.opt)'
           /\ pc' = "filter" => k < i'
           /\ pc' \notin {"start", "alloc"} /\ ret' # "FAIL_PATH"} = accepted'
    OBVIOUS
  <2> QED
    BY <1>1, <1>2, <2>1
<1> QED
  BY <1>3 DEF SortsAPermutation

LEMMA PermutationInitially == Init => SortsAPermutation
<1> SUFFICES ASSUME Init PROVE SortsAPermutation
  OBVIOUS
<1>1. IsInjective(<<>>) /\ Range(<<>>) = {}
  BY DEF IsInjective, Range
<1> QED
  BY <1>1 DEF Init, SortsAPermutation

(* The filter takes the symbols it accepts, each once: those it holds come *)
(* before the one it looks at.                                             *)
LEMMA FilterPermutes ==
  ASSUME SortInv, SortsAPermutation, FilterSymbol PROVE SortsAPermutation'
<1> DEFINE seen(n) == {k \in 1..Count : IsVisible(Symbol(k), input.opt) /\ k < n}
<1>1. /\ Typed /\ Phases /\ Count \in Nat
      /\ visible \in Seq(1..Count) /\ i \in Int
  BY Numbers DEF SortInv, Typed
<1>2. /\ pc = "filter" /\ i <= Count /\ i' = i + 1
      /\ visible' = IF IsVisible(Symbol(i), input.opt) THEN Append(visible, i)
                                                       ELSE visible
      /\ UNCHANGED <<input, pc, ret>>
  BY DEF FilterSymbol
<1>3. ret = "none" /\ i \in 1..Count
  BY <1>1, <1>2 DEF Phases
<1>4. IsInjective(visible) /\ Range(visible) = seen(i)
  BY <1>2, <1>3 DEF SortsAPermutation
<1>5. IsInjective(visible') /\ Range(visible') = seen(i + 1)
  <2>1. CASE IsVisible(Symbol(i), input.opt)
    <3>1. i \notin seen(i) /\ seen(i + 1) = seen(i) \cup {i}
      BY <1>1, <1>3, <2>1
    <3>2. visible' = Append(visible, i)
      BY <1>2, <2>1
    <3> HIDE DEF seen
    <3> QED
      BY <1>1, <1>4, <3>1, <3>2, AppendNew
  <2>2. CASE ~ IsVisible(Symbol(i), input.opt)
    <3>1. seen(i + 1) = seen(i)
      BY <1>1, <1>3, <2>2
    <3> HIDE DEF seen
    <3> QED
      BY <1>2, <1>4, <2>2, <3>1
  <2> QED
    BY <2>1, <2>2
<1>6. Count' = Count /\ \A k : Symbol(k)' = Symbol(k)
  BY <1>2 DEF Count, Symbol
<1> QED
  BY <1>2, <1>3, <1>5, <1>6 DEF SortsAPermutation

LEMMA PermutationStep ==
  SortInv /\ SortsAPermutation /\ [Next]_vars => SortsAPermutation'
<1> SUFFICES ASSUME SortInv, SortsAPermutation, [Next]_vars PROVE SortsAPermutation'
  OBVIOUS
<1> DEFINE n == Len(visible)
<1>1. /\ Typed /\ Phases /\ Count \in Nat /\ n \in Nat /\ n <= Count
      /\ visible \in Seq(1..Count) /\ i \in Int /\ j \in Int
  BY Numbers DEF SortInv, Typed
<1> HIDE DEF n
<1>2. CASE Start \/ AllocFails \/ Alloc
  <2>1. /\ UNCHANGED <<input, visible>> /\ pc \in {"start", "alloc"}
        /\ \/ pc' = "alloc" /\ ret' = ret
           \/ pc' = "filter" /\ i' = 1 /\ ret' = ret
           \/ pc' = "done" /\ ret' = "FAIL_PATH"
    BY <1>2 DEF Start, AllocFails, Alloc
  <2>2. visible' = <<>>
    BY <1>1, <2>1 DEF Phases
  <2>3. IsInjective(visible') /\ Range(visible') = {}
    BY <2>2 DEF IsInjective, Range
  <2>4. \A k \in 1..Count' : ~ (/\ pc' = "filter" => k < i'
                                /\ pc' \notin {"start", "alloc"} /\ ret' # "FAIL_PATH")
    <3>1. Count' = Count
      BY <2>1 DEF Count
    <3> QED
      BY <1>1, <2>1, <3>1
  <2> QED
    BY <2>3, <2>4 DEF SortsAPermutation
<1>3. CASE FilterSymbol
  BY <1>3, FilterPermutes
<1>4. CASE FilterEnds
  <2>1. /\ pc = "filter" /\ i > Count /\ pc' \in {"sort", "print"}
        /\ UNCHANGED <<input, visible, ret>>
    BY <1>4 DEF FilterEnds
  <2>2. \A k \in 1..Count : k < i
    BY <1>1, <2>1
  <2>3. ret = "none"
    BY <1>1, <2>1 DEF Phases
  <2>4. pc \notin {"start", "alloc"} /\ ret' # "FAIL_PATH"
    BY <2>1, <2>3
  <2>5. Range(visible') = Range(visible) /\ (IsInjective(visible) => IsInjective(visible'))
    BY <2>1
  <2> QED
    BY <2>1, <2>2, <2>3, <2>4, <2>5, OnlyMoved
<1>5. ASSUME PartitionStarts \/ LeftReturns \/ QuicksortReturns \/ SortEnds
             \/ PrintStep \/ Return
      PROVE  SortsAPermutation'
  <2>1. /\ pc \in {"sort", "print"} /\ pc' \in {"sort", "reverse", "print", "done"}
        /\ UNCHANGED <<input, visible>> /\ (ret' = ret \/ ret' = "OK")
    BY <1>5 DEF PartitionStarts, LeftReturns, QuicksortReturns, SortEnds,
                PrintStep, Return, At
  <2>2. ret = "none" /\ ret' # "FAIL_PATH"
    BY <1>1, <2>1 DEF Phases
  <2>3. pc \notin {"start", "alloc"} /\ pc # "filter"
    BY <2>1
  <2>4. Range(visible') = Range(visible) /\ (IsInjective(visible) => IsInjective(visible'))
    BY <2>1
  <2> QED
    BY <2>1, <2>2, <2>3, <2>4, OnlyMoved
<1>6. ASSUME NEW a \in 1..n, NEW b \in 1..n,
             visible' = SwapSymbols(visible, a, b),
             pc \in {"sort", "reverse"}, UNCHANGED <<input, pc, ret>>
      PROVE  SortsAPermutation'
  <2>1. ret = "none" /\ ret' # "FAIL_PATH"
    BY <1>1, <1>6 DEF Phases
  <2>2. (IsInjective(visible) => IsInjective(visible')) /\ Range(visible') = Range(visible)
    BY <1>1, <1>6, SwapPermutes DEF n
  <2>3. /\ pc \notin {"start", "alloc"} /\ pc # "filter"
        /\ pc' \in {"sort", "reverse", "print", "done"}
    BY <1>6
  <2> QED
    BY <1>6, <2>1, <2>2, <2>3, OnlyMoved
<1>7. CASE PartitionStep
  <2>1. /\ pc = "sort" /\ calls # <<>> /\ Top = calls[Len(calls)] /\ Top.at = "loop"
        /\ Top.low \in Int /\ Top.high \in Int /\ Fits(n, Top, Len(calls))
    BY <1>7, OnStack DEF PartitionStep, n
  <2>2. /\ j < Top.high /\ UNCHANGED <<input, pc, ret>>
        /\ visible' = visible \/ visible' = SwapSymbols(visible, i + 1, j)
    BY <1>7 DEF PartitionStep
  <2>3. Top.low - 1 <= i /\ i < j /\ 1 <= Top.low /\ Top.high <= n
    <3>1. Active(input, visible, calls, i, j)
      BY <2>1 DEF SortInv, Sorting
    <3> QED
      BY <2>1, <3>1 DEF Active, Fits
  <2>4. i + 1 \in 1..n /\ j \in 1..n
    BY <1>1, <2>1, <2>2, <2>3
  <2>5. CASE visible' = visible
    <3>1. ret = "none" /\ ret' # "FAIL_PATH"
      BY <1>1, <2>1, <2>2 DEF Phases
    <3>2. /\ pc \notin {"start", "alloc"} /\ pc # "filter"
          /\ pc' \in {"sort", "reverse", "print", "done"}
      BY <2>1, <2>2
    <3>3. Range(visible') = Range(visible) /\ (IsInjective(visible) => IsInjective(visible'))
      BY <2>5
    <3> QED
      BY <2>2, <3>1, <3>2, <3>3, OnlyMoved
  <2> QED
    BY <1>6, <2>1, <2>2, <2>4, <2>5
<1>8. CASE PartitionEnds
  <2>1. /\ pc = "sort" /\ calls # <<>> /\ Top = calls[Len(calls)] /\ Top.at = "loop"
        /\ Top.low \in Int /\ Top.high \in Int /\ Fits(n, Top, Len(calls))
    BY <1>8, OnStack DEF PartitionEnds, n
  <2>2. /\ UNCHANGED <<input, pc, ret>>
        /\ visible' = SwapSymbols(visible, i + 1, Top.high)
    BY <1>8 DEF PartitionEnds
  <2>3. /\ Top.low - 1 <= i /\ i < j /\ j <= Top.high
        /\ 1 <= Top.low /\ Top.high <= n
    <3>1. Active(input, visible, calls, i, j)
      BY <2>1 DEF SortInv, Sorting
    <3> QED
      BY <2>1, <3>1 DEF Active, Fits
  <2>4. i + 1 \in 1..n /\ Top.high \in 1..n
    BY <1>1, <2>1, <2>3
  <2> QED
    BY <1>6, <2>1, <2>2, <2>4
<1>9. CASE ReverseStep
  <2>1. /\ pc = "reverse" /\ UNCHANGED <<input, ret>>
        /\ \/ i < j /\ pc' = pc /\ visible' = SwapSymbols(visible, i, j)
           \/ pc' = "print" /\ visible' = visible
    BY <1>9 DEF ReverseStep
  <2>2. ret = "none" /\ 1 <= i /\ j <= n
    BY <1>1, <2>1 DEF Phases, n
  <2>3. CASE i < j /\ pc' = pc /\ visible' = SwapSymbols(visible, i, j)
    <3>1. i \in 1..n /\ j \in 1..n
      BY <1>1, <2>2, <2>3
    <3> QED
      BY <1>6, <2>1, <2>3, <3>1
  <2>4. CASE pc' = "print" /\ visible' = visible
    <3>1. ret' # "FAIL_PATH" /\ pc \notin {"start", "alloc"} /\ pc # "filter"
      BY <2>1, <2>2
    <3>2. Range(visible') = Range(visible) /\ (IsInjective(visible) => IsInjective(visible'))
      BY <2>4
    <3> QED
      BY <2>1, <2>2, <2>4, <3>1, <3>2, OnlyMoved
  <2> QED
    BY <2>1, <2>3, <2>4
<1>10. CASE UNCHANGED vars
  BY <1>10 DEF vars, SortsAPermutation, Count, Symbol
<1> QED
  BY <1>2, <1>3, <1>4, <1>5, <1>7, <1>8, <1>9, <1>10 DEF Next, Done

-----------------------------------------------------------------------------
(* The theorems. *)

THEOREM SortInvHolds == Spec => []SortInv
<1>1. Init => SortInv
  BY SortInitially
<1>2. SortInv /\ [Next]_vars => SortInv'
  BY SortStep
<1> QED
  BY <1>1, <1>2, PTL DEF Spec

(* No swap of the sort or of the reversal loses or doubles a symbol.       *)
THEOREM SortsAPermutationHolds == Spec => []SortsAPermutation
<1>1. Init => SortsAPermutation
  BY PermutationInitially
<1>2. SortInv /\ SortsAPermutation /\ [Next]_vars => SortsAPermutation'
  BY PermutationStep
<1> QED
  BY <1>1, <1>2, SortInvHolds, PTL DEF Spec

(* partition splits what it has seen around its pivot.                     *)
THEOREM PartitionSplitsHolds == Spec => []PartitionSplits
<1>1. SortInv => PartitionSplits
  <2> SUFFICES ASSUME SortInv, At("loop") PROVE PartitionSplits
    BY DEF PartitionSplits
  <2>1. pc = "sort" /\ calls # <<>> /\ Top = calls[Len(calls)] /\ Top.at = "loop"
    BY OnStack
  <2>2. Active(input, visible, calls, i, j)
    BY <2>1 DEF SortInv, Sorting
  <2> QED
    BY <2>1, <2>2 DEF Active, Scanned, PartitionSplits, Cmp, C, Symbol
<1> QED
  BY <1>1, SortInvHolds, PTL

(* The pivots of all calls on the stack hold while deeper calls move       *)
(* symbols, and the left part of a call is in order before the right one   *)
(* is started.                                                             *)
THEOREM PivotsHoldThroughout == Spec => []PivotsHold
<1>1. SortInv => PivotsHold
  <2> SUFFICES ASSUME SortInv, pc = "sort" PROVE PivotsHold
    BY DEF PivotsHold
  <2>1. Placed(input, visible, calls) /\ DOMAIN calls = 1..Len(calls)
    BY DEF SortInv, Sorting, Typed
  <2> QED
    BY <2>1 DEF PivotsHold, Placed, Parted, Ordered, Cmp, C, Symbol
<1> QED
  BY <1>1, SortInvHolds, PTL

(* Every partition on the stack, the running one and those whose pivots    *)
(* are placed, holds while quicksort moves symbols.                        *)
THEOREM PartitionsHoldThroughout == Spec => []PartitionsHold
<1>1. PartitionSplits /\ PivotsHold => PartitionsHold
  BY DEF PartitionsHold
<1> QED
  BY <1>1, PartitionSplitsHolds, PivotsHoldThroughout, PTL

(* quicksort is never more than as many calls deep as there are symbols.   *)
THEOREM StackWithinCountHolds == Spec => []StackWithinCount
<1>1. SortInv => StackWithinCount
  <2> SUFFICES ASSUME SortInv PROVE StackWithinCount
    OBVIOUS
  <2>1. CASE pc = "sort"
    BY <2>1 DEF SortInv, Sorting, Stacked, StackWithinCount
  <2>2. CASE pc # "sort"
    <3>1. Len(calls) = 0 /\ Len(visible) \in Nat
      BY <2>2, Numbers DEF SortInv, Phases
    <3> QED
      BY <3>1 DEF StackWithinCount
  <2> QED
    BY <2>1, <2>2
<1> QED
  BY <1>1, SortInvHolds, PTL

(* When the outermost call of quicksort has returned, the array is in the  *)
(* order of the comparator.                                                *)
Sorted ==
  pc = "sort" /\ calls = <<>> =>
    \A k, l \in 1..Len(visible) : k < l => Cmp(visible[k], visible[l]) <= 0

THEOREM QuicksortSorts == Spec => []Sorted
<1>1. SortInv => Sorted
  BY DEF SortInv, Sorting, Ordered, Sorted, Cmp, C, Symbol
<1> QED
  BY <1>1, SortInvHolds, PTL

(* The types; whether the heading is printed is a Boolean of the call.     *)
THEOREM TypesHold == Spec => []TypeOK
<1> DEFINE Heading == heading \in BOOLEAN
<1>1. Init => Heading
  BY ZenonT(30) DEF Init
<1>2. SortInv /\ Heading /\ [Next]_vars => Heading'
  <2> SUFFICES ASSUME SortInv, Heading, [Next]_vars PROVE heading' \in BOOLEAN
    OBVIOUS
  <2>1. CASE Start
    <3>1. input \in Inputs
      BY DEF SortInv, Typed
    <3>2. input.multiple \in BOOLEAN
      BY <3>1, InputsAssumption, Zenon
    <3> QED
      BY <2>1, <3>2, Zenon DEF Start
  <2>2. CASE ~ Start
    <3>1. heading' = heading
      BY <2>2 DEF Next, vars, AllocFails, Alloc, FilterSymbol, FilterEnds,
           PartitionStarts, PartitionStep, PartitionEnds, LeftReturns,
           QuicksortReturns, SortEnds, ReverseStep, PrintStep, Return, Done
    <3> QED
      BY <3>1, Zenon
  <2> QED
    BY <2>1, <2>2
<1>3. SortInv /\ Heading => TypeOK
  BY DEF SortInv, Typed, TypeOK, Frames
<1> QED
  BY <1>1, <1>2, <1>3, SortInvHolds, PTL DEF Spec

-----------------------------------------------------------------------------
(***************************************************************************)
(* sort_and_print_symbols implements the listing of SymbolListing.         *)
(***************************************************************************)

(* The order of the comparators is the order of the listing. *)

(* A negative difference is a place in the dictionary before.              *)
LEMMA DictionaryOrder ==
  ASSUME NEW s \in Names, NEW t \in Names
  PROVE  Listing!Before(s, t) <=> StrDiff(s, t) < 0
<1>1. /\ Len(s) \in Nat /\ Len(t) \in Nat
      /\ \A p \in 1..Len(s) : p \in Places /\ Char(s, p) = s[p] /\ s[p] \in Int
      /\ \A p \in 1..Len(t) : p \in Places /\ Char(t, p) = t[p] /\ t[p] \in Int
  <2>1. Len(s) \in Nat /\ Len(t) \in Nat
    BY DEF Names
  <2>2. \A p \in 1..Len(s) : p \in Places /\ Char(s, p) = s[p]
    BY <2>1 DEF Places, Char
  <2>3. \A p \in 1..Len(t) : p \in Places /\ Char(t, p) = t[p]
    BY <2>1 DEF Places, Char
  <2> QED
    BY <2>1, <2>2, <2>3, Chars
<1>2. ASSUME Listing!Before(s, t) PROVE StrDiff(s, t) < 0
  <2>1. PICK k \in 1..Len(t) :
          /\ \A l \in 1..(k - 1) : l <= Len(s) /\ s[l] = t[l]
          /\ k <= Len(s) => s[k] < t[k]
    BY <1>2 DEF Listing!Before
  <2>2. k \in Places /\ Char(s, k) < Char(t, k) /\ Char(s, k) \in Nat /\ Char(t, k) \in Nat
    <3>1. k \in Places /\ Char(s, k) \in Nat /\ Char(t, k) \in Nat
      BY <1>1, Chars
    <3>2. CASE k <= Len(s)
      <4>1. k \in 1..Len(s)
        BY <1>1, <3>2
      <4> QED
        BY <1>1, <2>1, <3>1, <3>2, <4>1
    <3>3. CASE k > Len(s)
      <4>1. Char(s, k) = 0 /\ Char(t, k) # 0
        BY <1>1, <3>1, <3>3, Chars
      <4> QED
        BY <3>1, <4>1
    <3> QED
      BY <1>1, <3>1, <3>2, <3>3
  <2>3. ASSUME NEW q \in Places, q < k PROVE Char(s, q) = Char(t, q)
    <3>1. q \in 1..(k - 1) /\ q \in 1..Len(t)
      BY <1>1, <2>3 DEF Places
    <3>2. q \in 1..Len(s) /\ s[q] = t[q]
      BY <1>1, <2>1, <3>1
    <3> QED
      BY <1>1, <3>1, <3>2
  <2>4. StrDiff(s, t) = Char(s, k) - Char(t, k)
    BY <2>2, <2>3, Decided
  <2> QED
    BY <2>2, <2>4
<1>3. ASSUME StrDiff(s, t) < 0 PROVE Listing!Before(s, t)
  <2>1. PICK p \in Places :
          /\ StrDiff(s, t) = Char(s, p) - Char(t, p)
          /\ \A q \in Places : q < p => Char(s, q) = Char(t, q)
    BY <1>3, FirstDifference
  <2>2. p \in Nat /\ p > 0 /\ Char(s, p) \in Nat /\ Char(t, p) \in Nat
        /\ Char(s, p) < Char(t, p)
    BY <1>3, <2>1, Chars DEF Places
  <2>3. p \in 1..Len(t)
    BY <1>1, <2>2, Chars
  <2>4. ASSUME NEW l \in 1..(p - 1) PROVE l <= Len(s) /\ s[l] = t[l]
    <3>1. l \in Places /\ l < p /\ l \in 1..Len(t) /\ l \in Nat
      BY <1>1, <2>2, <2>3 DEF Places
    <3>2. Char(s, l) = Char(t, l) /\ Char(t, l) # 0
      <4>1. ~ (l > Len(t))
        BY <1>1, <3>1
      <4> QED
        BY <2>1, <3>1, <4>1, Chars
    <3>3. ~ (l > Len(s))
      BY <3>1, <3>2, Chars
    <3>4. l \in 1..Len(s)
      BY <1>1, <3>1, <3>3
    <3> QED
      BY <1>1, <3>1, <3>2, <3>4
  <2>5. p <= Len(s) => s[p] < t[p]
    <3> SUFFICES ASSUME p <= Len(s) PROVE s[p] < t[p]
      OBVIOUS
    <3>1. p \in 1..Len(s)
      BY <1>1, <2>2
    <3> QED
      BY <1>1, <2>2, <2>3, <3>1
  <2> QED
    BY <2>3, <2>4, <2>5 DEF Listing!Before
<1> QED
  BY <1>2, <1>3

(* No difference means the same string.                                    *)
LEMMA NoDifference ==
  ASSUME NEW s \in Names, NEW t \in Names
  PROVE  StrDiff(s, t) = 0 <=> s = t
<1>1. s = t => StrDiff(s, t) = 0
  BY Same
<1>2. ASSUME StrDiff(s, t) = 0 PROVE s = t
  <2>1. \A p \in Places : Char(s, p) = Char(t, p)
    <3>1. ASSUME NEW p \in Places,
                 StrDiff(s, t) = Char(s, p) - Char(t, p), Char(s, p) # Char(t, p)
          PROVE  FALSE
      BY <1>2, <3>1, Chars
    <3> QED
      BY <3>1, FirstDifference
  <2>2. Len(s) \in Nat /\ Len(t) \in Nat
    BY DEF Names
  <2>3. Len(s) = Len(t)
    <3>1. Len(s) + 1 \in Places /\ Len(t) + 1 \in Places
      BY <2>2 DEF Places
    <3>2. Char(s, Len(s) + 1) = 0 /\ Char(t, Len(t) + 1) = 0
      BY <2>2, <3>1, Chars
    <3>3. Len(s) + 1 > Len(t) /\ Len(t) + 1 > Len(s)
      BY <2>1, <3>1, <3>2, Chars
    <3> QED
      BY <2>2, <3>3
  <2>4. \A p \in 1..Len(s) : s[p] = t[p]
    <3>1. \A p \in 1..Len(s) : p \in Places
      BY <2>2 DEF Places
    <3> QED
      BY <2>1, <2>2, <2>3, <3>1 DEF Char
  <2> QED
    BY <2>3, <2>4 DEF Names
<1> QED
  BY <1>1, <1>2

LEMMA StemIsStem ==
  ASSUME NEW s \in Names
  PROVE  /\ Listing!Stem(s) = ToUpper(SkipSpecialPrefix(s))
         /\ Listing!Stem(s) \in Names
<1>1. Listing!Stem(s) = ToUpper(SkipSpecialPrefix(s))
  BY DEF Listing!Stem, ToUpper, SkipSpecialPrefix, Special
<1> QED
  BY <1>1, ToUpperName, SkipSpecialName

LEMMA NameOrder ==
  ASSUME NEW s \in Names, NEW t \in Names
  PROVE  /\ StrCompare(s, t) \in Int
         /\ Listing!NameBefore(s, t) <=> StrCompare(s, t) < 0
         /\ s = t <=> StrCompare(s, t) = 0
<1> DEFINE a == Listing!Stem(s)
           b == Listing!Stem(t)
<1>1. a \in Names /\ b \in Names /\ (s = t => a = b)
  BY StemIsStem
<1>2. StrCompare(s, t) = Then(StrDiff(a, b), StrDiff(s, t))
  <2>1. StrCompare(s, t) = Then(StrCompareToUpper(SkipSpecialPrefix(s), SkipSpecialPrefix(t)),
                                StrDiff(s, t))
    BY DEF StrCompare, Then
  <2> QED
    BY <2>1, StemIsStem DEF StrCompareToUpper
<1>3. Listing!NameBefore(s, t) <=> Listing!Before(a, b) \/ (a = b /\ Listing!Before(s, t))
  BY DEF Listing!NameBefore
<1> HIDE DEF a, b
<1>4. StrDiff(a, b) \in Int /\ StrDiff(s, t) \in Int
  BY <1>1, StrDiffInt
<1>5. /\ Listing!Before(a, b) <=> StrDiff(a, b) < 0
      /\ Listing!Before(s, t) <=> StrDiff(s, t) < 0
      /\ a = b <=> StrDiff(a, b) = 0
      /\ s = t <=> StrDiff(s, t) = 0
  BY <1>1, DictionaryOrder, NoDifference
<1> QED
  BY <1>1, <1>2, <1>3, <1>4, <1>5 DEF Then

(* What has to precede what, and the comparators.                          *)
LEMMA PrecedesIsCompare ==
  ASSUME NEW opt, NEW a, NEW b, Symbols({a, b})
  PROVE  Listing!Precedes(opt, a, b) <=> Compare(opt, a, b) < 0
<1> DEFINE N == StrCompare(a.name, b.name)
           V == CompareValues(a.value, b.value)
           R == CompareValues(Value0Rank(a), Value0Rank(b))
<1>1. a.name \in Names /\ b.name \in Names /\ a.value \in Nat /\ b.value \in Nat
  BY DEF Symbols
<1>2. /\ N \in Int
      /\ Listing!NameBefore(a.name, b.name) <=> N < 0
      /\ a.name = b.name <=> N = 0
  BY <1>1, NameOrder
<1>3. V \in Int /\ (V < 0 <=> a.value < b.value) /\ (V = 0 <=> a.value = b.value)
  BY <1>1 DEF CompareValues
<1>4. R \in Int /\ (R < 0 <=> Value0Rank(a) < Value0Rank(b))
      /\ (R = 0 <=> Value0Rank(a) = Value0Rank(b))
  BY DEF CompareValues, Value0Rank
<1>5. CASE "n" \notin opt
  <2>1. Compare(opt, a, b) = Then(N, V)
    BY <1>5 DEF Compare, CompareByName, Then
  <2>2. Listing!Precedes(opt, a, b) <=>
          Listing!NameBefore(a.name, b.name) \/ (a.name = b.name /\ a.value < b.value)
    BY <1>5 DEF Listing!Precedes
  <2> HIDE DEF N, V, R
  <2> QED
    BY <1>2, <1>3, <2>1, <2>2 DEF Then
<1>6. CASE "n" \in opt
  <2>1. Compare(opt, a, b) = Then(V, Then(R, N))
    BY <1>6, ByValue DEF Compare
  <2>2. Listing!Precedes(opt, a, b) <=>
          \/ a.value < b.value
          \/ a.value = b.value /\ Value0Rank(a) < Value0Rank(b)
          \/ /\ a.value = b.value /\ Value0Rank(a) = Value0Rank(b)
             /\ Listing!NameBefore(a.name, b.name)
    BY <1>6 DEF Listing!Precedes, Value0Rank
  <2> HIDE DEF N, V, R
  <2> QED
    BY <1>2, <1>3, <1>4, <2>1, <2>2 DEF Then
<1> QED
  BY <1>5, <1>6

(* The filter selects what the listing selects.                            *)
LEMMA SelectedIsVisible ==
  ASSUME NEW s, NEW opt
  PROVE  Listing!Selected(s, opt) <=> IsVisible(s, opt)
BY DEF Listing!Selected, IsVisible

(* A symbol that precedes another one in the listing.                      *)
LEMMA EarlierIsCompare ==
  ASSUME input \in Inputs, NEW k \in Indices(input), NEW l \in Indices(input)
  PROVE  Listing!Earlier(k, l) <=>
           IF "r" \in input.opt THEN C(input, l, k) < 0 ELSE C(input, k, l) < 0
<1> DEFINE a == input.symbols[k]
           b == input.symbols[l]
<1>1. Symbols({a, b}) /\ Symbols({b, a})
  <2>1. \A n \in Indices(input) :
          input.symbols[n].name \in Names /\ input.symbols[n].value \in Nat
    <3>1. DOMAIN input.symbols = Indices(input)
      BY InputsAssumption DEF Indices
    <3> QED
      BY <3>1, InputsAssumption DEF Names, Characters
  <2> QED
    BY <2>1 DEF Symbols
<1>2. Listing!Earlier(k, l) <=>
        IF "r" \in input.opt THEN Listing!Precedes(input.opt, b, a)
                             ELSE Listing!Precedes(input.opt, a, b)
  BY DEF Listing!Earlier
<1> HIDE DEF a, b
<1>3. /\ Listing!Precedes(input.opt, a, b) <=> Compare(input.opt, a, b) < 0
      /\ Listing!Precedes(input.opt, b, a) <=> Compare(input.opt, b, a) < 0
  BY <1>1, PrecedesIsCompare
<1> QED
  BY <1>2, <1>3 DEF C, a, b

-----------------------------------------------------------------------------
(* The reversal.  Up to the places i and j it has not reached yet the      *)
(* array is in order; any other two symbols are in the opposite order.     *)

Turned(in, v, lo, hi) ==
  \A k, l \in 1..Len(v) : k < l =>
    IF lo <= k /\ l <= hi THEN C(in, v[k], v[l]) <= 0 ELSE C(in, v[k], v[l]) >= 0

(* One step of it.                                                         *)
LEMMA TurnStep ==
  ASSUME NEW in \in Inputs, NEW v \in Seq(Indices(in)),
         NEW a \in 1..Len(v), NEW b \in 1..Len(v), a < b, Turned(in, v, a, b)
  PROVE  Turned(in, SwapSymbols(v, a, b), a + 1, b - 1)
<1> DEFINE w == SwapSymbols(v, a, b)
           n == Len(v)
<1>1. /\ w[a] = v[b] /\ w[b] = v[a] /\ Len(w) = n
      /\ \A k \in 1..n : k \notin {a, b} => w[k] = v[k]
  BY DEF SwapSymbols
<1>2. n \in Nat /\ a \in Int /\ b \in Int /\ a \in 1..n /\ b \in 1..n
  OBVIOUS
<1>3. ASSUME NEW k \in 1..n, NEW l \in 1..n PROVE
        /\ C(in, v[k], v[l]) \in Int /\ C(in, v[l], v[k]) \in Int
        /\ C(in, v[k], v[l]) <= 0 => C(in, v[l], v[k]) >= 0
  <2>1. v[k] \in Indices(in) /\ v[l] \in Indices(in)
    OBVIOUS
  <2>2. /\ C(in, v[k], v[l]) \in Int /\ C(in, v[l], v[k]) \in Int
        /\ Swapped(C(in, v[k], v[l]), C(in, v[l], v[k]))
    BY <2>1, Comparing
  <2> QED
    BY <2>2 DEF Swapped
<1>4. /\ \A k, l \in 1..n : k < l /\ a <= k /\ l <= b => C(in, v[k], v[l]) <= 0
      /\ \A k, l \in 1..n : k < l /\ ~ (a <= k /\ l <= b) => C(in, v[k], v[l]) >= 0
  BY DEF Turned
<1> HIDE DEF w, n
<1>5. ASSUME NEW k \in 1..n, NEW l \in 1..n, k < l, a + 1 <= k, l <= b - 1
      PROVE  C(in, w[k], w[l]) <= 0
  <2>1. k \notin {a, b} /\ l \notin {a, b} /\ a <= k /\ l <= b
    BY <1>2, <1>5
  <2> QED
    BY <1>1, <1>4, <1>5, <2>1
<1>6. ASSUME NEW k \in 1..n, NEW l \in 1..n, k < l, ~ (a + 1 <= k /\ l <= b - 1)
      PROVE  C(in, w[k], w[l]) >= 0
  <2>0. k \in Int /\ l \in Int
    BY <1>2
  <2>1. CASE k \notin {a, b} /\ l \notin {a, b}
    <3>1. ~ (a <= k /\ l <= b)
      BY <1>2, <1>6, <2>0, <2>1
    <3> QED
      BY <1>1, <1>4, <1>6, <2>1, <3>1
  <2>2. CASE k = a /\ l = b
    <3>1. C(in, v[a], v[b]) <= 0
      BY <1>2, <1>4, <2>0
    <3>2. C(in, v[b], v[a]) >= 0
      BY <1>3, <2>2, <3>1
    <3> QED
      BY <1>1, <2>2, <3>2
  <2>3. CASE k = a /\ l < b
    <3>1. w[k] = v[b] /\ w[l] = v[l] /\ a <= l /\ b \in 1..n
      BY <1>1, <1>2, <1>6, <2>0, <2>3
    <3>2. C(in, v[l], v[b]) <= 0
      BY <1>2, <1>4, <2>0, <2>3, <3>1
    <3> QED
      BY <1>3, <3>1, <3>2
  <2>4. CASE k = a /\ l > b
    <3>1. w[k] = v[b] /\ w[l] = v[l] /\ ~ (l <= b) /\ b \in 1..n
      BY <1>1, <1>2, <1>6, <2>0, <2>4
    <3> QED
      BY <1>2, <1>4, <2>0, <2>4, <3>1
  <2>5. CASE k = b
    <3>1. w[k] = v[a] /\ w[l] = v[l] /\ ~ (l <= b) /\ a \in 1..n /\ a < l
      BY <1>1, <1>2, <1>6, <2>0, <2>5
    <3> QED
      BY <1>4, <3>1
  <2>6. CASE l = a
    <3>1. w[l] = v[b] /\ w[k] = v[k] /\ ~ (a <= k) /\ b \in 1..n /\ k < b
      BY <1>1, <1>2, <1>6, <2>0, <2>6
    <3> QED
      BY <1>4, <3>1
  <2>7. CASE l = b /\ k < a
    <3>1. w[l] = v[a] /\ w[k] = v[k] /\ ~ (a <= k) /\ a \in 1..n
      BY <1>1, <1>2, <2>0, <2>7
    <3> QED
      BY <1>4, <2>7, <3>1
  <2>8. CASE l = b /\ k > a
    <3>1. w[l] = v[a] /\ w[k] = v[k] /\ a \in 1..n /\ k <= b
      BY <1>1, <1>2, <1>6, <2>0, <2>8
    <3>2. C(in, v[a], v[k]) <= 0
      BY <1>2, <1>4, <2>0, <2>8, <3>1
    <3> QED
      BY <1>3, <3>1, <3>2
  <2> QED
    BY <1>2, <1>6, <2>0, <2>1, <2>2, <2>3, <2>4, <2>5, <2>6, <2>7, <2>8
<1>7. Turned(in, w, a + 1, b - 1)
  BY <1>1, <1>5, <1>6 DEF Turned
<1> QED
  BY <1>7 DEF w

-----------------------------------------------------------------------------
(* What is printed is the front of the array, which is in the order asked  *)
(* for; no symbol is printed before.                                       *)

Final(in, v) ==
  \A k, l \in 1..Len(v) : k < l =>
    IF "r" \in in.opt THEN C(in, v[k], v[l]) >= 0 ELSE C(in, v[k], v[l]) <= 0

Showing ==
  /\ pc \notin {"print", "done"} => printed = <<>>
  /\ pc = "reverse" => "r" \in input.opt /\ Turned(input, visible, i, j)
  /\ pc = "print" =>
       /\ Final(input, visible)
       /\ Len(printed) = i - 1
       /\ \A m \in 1..(i - 1) : printed[m] = visible[m]

LEMMA ShowingStep == SortInv /\ Showing /\ [Next]_vars => Showing'
<1> SUFFICES ASSUME SortInv, Showing, [Next]_vars PROVE Showing'
  OBVIOUS
<1> DEFINE n == Len(visible)
<1>1. /\ Typed /\ Phases /\ Sorting /\ n \in Nat /\ Count \in Nat
      /\ i \in Int /\ j \in Int /\ input \in Inputs
      /\ visible \in Seq(Indices(input)) /\ printed \in Seq(1..Count)
  BY Numbers DEF SortInv, Typed
<1>2. Len(<<>>) = 0 /\ \A m \in 1..(1 - 1) : FALSE
  OBVIOUS
<1> HIDE DEF n
<1>3. CASE Start \/ AllocFails \/ Alloc \/ FilterSymbol
  <2>1. /\ pc' \in {"alloc", "filter", "done"} /\ printed' = printed
        /\ pc \in {"start", "alloc", "filter"}
    BY <1>3 DEF Start, AllocFails, Alloc, FilterSymbol
  <2> QED
    BY <2>1 DEF Showing
<1>4. CASE FilterEnds
  <2>1. /\ pc = "filter" /\ UNCHANGED <<input, visible, printed>>
        /\ \/ pc' = "sort"
           \/ pc' = "print" /\ i' = 1 /\ ~ (n > 1)
    BY <1>4 DEF FilterEnds, n
  <2>2. printed' = <<>>
    BY <2>1 DEF Showing
  <2>3. CASE pc' = "sort"
    BY <2>2, <2>3 DEF Showing
  <2>4. CASE pc' = "print" /\ i' = 1 /\ ~ (n > 1)
    <3>1. \A k, l \in 1..n : ~ (k < l)
      BY <1>1, <2>4
    <3>2. Final(input', visible')
      BY <2>1, <3>1 DEF Final, n
    <3> QED
      BY <1>2, <2>2, <2>4, <3>2 DEF Showing
  <2> QED
    BY <2>1, <2>3, <2>4
<1>5. CASE PartitionStarts \/ PartitionStep \/ PartitionEnds \/ LeftReturns
           \/ QuicksortReturns
  <2>1. pc = "sort" /\ pc' = pc /\ printed' = printed
    BY <1>5 DEF PartitionStarts, PartitionStep, PartitionEnds, LeftReturns,
                QuicksortReturns, At
  <2> QED
    BY <2>1 DEF Showing
<1>6. CASE SortEnds
  <2>1. /\ pc = "sort" /\ calls = <<>> /\ i' = 1
        /\ UNCHANGED <<input, visible, printed>>
        /\ \/ pc' = "reverse" /\ j' = n /\ "r" \in input.opt
           \/ pc' = "print" /\ "r" \notin input.opt
    BY <1>6 DEF SortEnds, Has, n
  <2>2. printed' = <<>>
    BY <2>1 DEF Showing
  <2>3. Ordered(input, visible, 1, n)
    BY <1>1, <2>1 DEF Sorting, n
  <2>4. CASE pc' = "reverse" /\ j' = n /\ "r" \in input.opt
    <3>1. Turned(input, visible, 1, n)
      <4>1. \A k, l \in 1..n : 1 <= k /\ l <= n
        BY <1>1
      <4> QED
        BY <2>3, <4>1 DEF Turned, Ordered, n
    <3> QED
      BY <2>1, <2>2, <2>4, <3>1 DEF Showing
  <2>5. CASE pc' = "print" /\ "r" \notin input.opt
    <3>1. Final(input, visible)
      BY <2>3, <2>5 DEF Final, Ordered, n
    <3> QED
      BY <1>2, <2>1, <2>2, <2>5, <3>1 DEF Showing
  <2> QED
    BY <2>1, <2>4, <2>5
<1>7. CASE ReverseStep
  <2>1. /\ pc = "reverse" /\ UNCHANGED <<input, printed>>
        /\ \/ /\ i < j /\ pc' = pc /\ visible' = SwapSymbols(visible, i, j)
              /\ i' = i + 1 /\ j' = j - 1
           \/ ~ (i < j) /\ pc' = "print" /\ i' = 1 /\ visible' = visible
    BY <1>7 DEF ReverseStep
  <2>2. /\ printed' = <<>> /\ "r" \in input.opt /\ Turned(input, visible, i, j)
        /\ 1 <= i /\ j <= n
    BY <1>1, <2>1 DEF Showing, Phases, n
  <2>3. CASE /\ i < j /\ pc' = pc /\ visible' = SwapSymbols(visible, i, j)
             /\ i' = i + 1 /\ j' = j - 1
    <3>1. i \in 1..n /\ j \in 1..n
      BY <1>1, <2>2, <2>3
    <3>2. Turned(input, SwapSymbols(visible, i, j), i + 1, j - 1)
      BY <1>1, <2>2, <2>3, <3>1, TurnStep DEF n
    <3> QED
      BY <2>1, <2>2, <2>3, <3>2 DEF Showing
  <2>4. CASE ~ (i < j) /\ pc' = "print" /\ i' = 1 /\ visible' = visible
    <3>1. \A k, l \in 1..n : k < l => ~ (i <= k /\ l <= j)
      BY <1>1, <2>4
    <3>2. Final(input, visible)
      BY <2>2, <3>1 DEF Turned, Final, n
    <3> QED
      BY <1>2, <2>1, <2>2, <2>4, <3>2 DEF Showing
  <2> QED
    BY <2>1, <2>3, <2>4
<1>8. CASE PrintStep
  <2>1. /\ pc = "print" /\ pc' = "print" /\ i <= n /\ i' = i + 1
        /\ printed' = Append(printed, visible[i])
        /\ UNCHANGED <<input, visible>>
    BY <1>8 DEF PrintStep, n
  <2>2. /\ Final(input, visible) /\ Len(printed) = i - 1
        /\ \A m \in 1..(i - 1) : printed[m] = visible[m]
        /\ 1 <= i
    BY <1>1, <2>1 DEF Showing, Phases
  <2>3. visible[i] \in 1..Count
    BY <1>1, <2>1, <2>2 DEF Indices, Count, n
  <2>4. /\ Len(printed') = i /\ printed'[i] = visible[i]
        /\ \A m \in 1..(i - 1) : printed'[m] = visible[m]
    <3>1. /\ Len(printed') = Len(printed) + 1 /\ printed'[Len(printed) + 1] = visible[i]
          /\ \A m \in 1..Len(printed) : printed'[m] = printed[m]
      BY <1>1, <2>1, <2>3, Appending
    <3>2. Len(printed) + 1 = i
      BY <1>1, <2>2
    <3> QED
      BY <2>2, <3>1, <3>2
  <2>5. Len(printed') = i' - 1 /\ \A m \in 1..(i' - 1) : printed'[m] = visible[m]
    <3>1. i' - 1 = i /\ \A m \in 1..i : m \in 1..(i - 1) \/ m = i
      BY <1>1, <2>1
    <3> QED
      BY <2>4, <3>1
  <2> QED
    BY <2>1, <2>2, <2>5 DEF Showing
<1>9. CASE Return
  BY <1>9 DEF Return, Showing
<1>10. CASE UNCHANGED vars
  BY <1>10 DEF vars, Showing
<1> QED
  BY <1>3, <1>4, <1>5, <1>6, <1>7, <1>8, <1>9, <1>10 DEF Next, Done

(* The heading is printed when the call starts, if at all.                 *)
Headed ==
  /\ pc = "start" => heading = FALSE
  /\ pc # "start" => heading = input.multiple

LEMMA HeadedStep == Headed /\ [Next]_vars => Headed'
<1> SUFFICES ASSUME Headed, [Next]_vars PROVE Headed'
  OBVIOUS
<1>1. CASE Start
  <2>1. heading' = input.multiple /\ input' = input /\ pc' # "start"
    BY <1>1 DEF Start
  <2> QED
    BY <2>1 DEF Headed
<1>2. CASE ~ Start
  <2>1. /\ heading' = heading /\ input' = input
        /\ pc = "start" <=> pc' = "start"
    BY <1>2 DEF Next, vars, AllocFails, Alloc, FilterSymbol, FilterEnds,
         PartitionStarts, PartitionStep, PartitionEnds, LeftReturns,
         QuicksortReturns, SortEnds, ReverseStep, PrintStep, Return, Done, At
  <2> QED
    BY <2>1 DEF Headed
<1> QED
  BY <1>1, <1>2

-----------------------------------------------------------------------------
(* The refinement. *)

ListingInv == SortInv /\ SortsAPermutation /\ Showing /\ Headed

(* While symbols are printed, those missing are the rest of the array.     *)
LEMMA MissingIsTheRest ==
  ASSUME ListingInv, pc = "print"
  PROVE  \A k : k \in Listing!Missing <=> \E m \in i..Len(visible) : visible[m] = k
<1> DEFINE n == Len(visible)
<1>1. /\ n \in Nat /\ i \in Int /\ 1 <= i /\ ret = "none"
      /\ visible \in Seq(1..Count) /\ printed \in Seq(1..Count)
      /\ input \in Inputs
  BY Numbers DEF ListingInv, SortInv, Typed, Phases
<1>2. /\ DOMAIN visible = 1..n /\ DOMAIN printed = 1..(i - 1)
      /\ \A m \in 1..(i - 1) : printed[m] = visible[m]
  <2>1. Len(printed) = i - 1 /\ \A m \in 1..(i - 1) : printed[m] = visible[m]
    BY DEF ListingInv, Showing
  <2> QED
    BY <1>1, <2>1
<1>3. i - 1 <= n
  BY <1>1 DEF ListingInv, SortInv, Phases
<1>4. DOMAIN input.symbols = 1..Count
  BY <1>1, InputsAssumption DEF Count
<1>5. \A k \in 1..Count : IsVisible(Symbol(k), input.opt) <=> \E m \in 1..n : visible[m] = k
  <2>1. Range(visible) = {k \in 1..Count : IsVisible(Symbol(k), input.opt)}
    BY <1>1 DEF ListingInv, SortsAPermutation
  <2>2. \A k : k \in Range(visible) <=> \E m \in 1..n : visible[m] = k
    BY <1>2 DEF Range
  <2> QED
    BY <2>1, <2>2
<1>6. \A m, q \in 1..n : visible[m] = visible[q] => m = q
  BY <1>2 DEF ListingInv, SortsAPermutation, IsInjective
<1>7. \A k : k \in Listing!Missing <=>
        /\ k \in 1..Count /\ IsVisible(Symbol(k), input.opt)
        /\ \A m \in 1..(i - 1) : printed[m] # k
  BY <1>2, <1>4, SelectedIsVisible DEF Listing!Missing, Symbol
<1>8. \A m \in 1..n : visible[m] \in 1..Count
  <2>1. \A m \in 1..n : visible[m] \in Indices(input)
    BY Numbers DEF ListingInv, SortInv
  <2> QED
    BY <2>1 DEF Indices, Count
<1> HIDE DEF n
<1>9. ASSUME NEW k, k \in Listing!Missing PROVE \E m \in i..n : visible[m] = k
  <2>1. PICK m \in 1..n : visible[m] = k
    BY <1>5, <1>7, <1>9
  <2>2. m \notin 1..(i - 1)
    BY <1>2, <1>7, <1>9, <2>1
  <2>3. m \in i..n
    BY <1>1, <2>1, <2>2
  <2> QED
    BY <2>1, <2>3
<1>10. ASSUME NEW m \in i..n PROVE visible[m] \in Listing!Missing
  <2>1. m \in 1..n
    BY <1>1
  <2>2. visible[m] \in 1..Count /\ IsVisible(Symbol(visible[m]), input.opt)
    BY <1>5, <1>8, <2>1
  <2>3. ASSUME NEW q \in 1..(i - 1) PROVE printed[q] # visible[m]
    <3>1. q \in 1..n /\ q # m
      BY <1>1, <1>3, <1>10
    <3>2. visible[q] # visible[m]
      BY <1>6, <2>1, <3>1
    <3> QED
      BY <1>2, <3>2
  <2> QED
    BY <1>7, <2>2, <2>3
<1> QED
  BY <1>9, <1>10 DEF n

(* A symbol printed: one that no missing one has to precede.               *)
LEMMA PrintStepPrints ==
  ASSUME ListingInv, PrintStep PROVE Listing!PrintSymbol
<1> DEFINE n == Len(visible)
           k == visible[i]
<1>1. /\ pc = "print" /\ i <= n /\ printed' = Append(printed, k)
      /\ UNCHANGED <<input, heading, ret>>
  BY DEF PrintStep
<1>2. /\ n \in Nat /\ i \in Int /\ 1 <= i /\ ret = "none" /\ input \in Inputs
      /\ \A m \in 1..n : visible[m] \in Indices(input)
  BY <1>1, Numbers DEF ListingInv, SortInv, Typed, Phases
<1>3. heading = input.multiple
  BY <1>1 DEF ListingInv, Headed
<1>4. \A l : l \in Listing!Missing <=> \E m \in i..n : visible[m] = l
  BY <1>1, MissingIsTheRest
<1> HIDE DEF n
<1>5. k \in Listing!Missing
  <2>1. i \in i..n
    BY <1>1, <1>2
  <2> QED
    BY <1>4, <2>1
<1>6. ASSUME NEW l \in Listing!Missing PROVE ~ Listing!Earlier(l, k)
  <2>1. PICK m \in i..n : visible[m] = l
    BY <1>4
  <2>2. i \in 1..n /\ m \in 1..n /\ i <= m /\ k \in Indices(input) /\ l \in Indices(input)
    BY <1>1, <1>2, <2>1
  <2>3. /\ C(input, k, l) \in Int /\ C(input, l, k) \in Int
        /\ Swapped(C(input, k, l), C(input, l, k))
    BY <1>2, <2>2, Comparing
  <2>4. IF "r" \in input.opt THEN C(input, k, l) >= 0 ELSE C(input, k, l) <= 0
    <3>1. CASE i < m
      <4>1. Final(input, visible)
        BY <1>1 DEF ListingInv, Showing
      <4> QED
        BY <2>1, <2>2, <3>1, <4>1 DEF Final, n
    <3>2. CASE i = m
      <4>1. k = l
        BY <2>1, <3>2
      <4>2. C(input, k, l) = 0
        BY <2>3, <4>1 DEF Swapped
      <4> QED
        BY <4>2
    <3> QED
      BY <1>2, <2>2, <3>1, <3>2
  <2>5. ~ (IF "r" \in input.opt THEN C(input, k, l) < 0 ELSE C(input, l, k) < 0)
    BY <2>3, <2>4 DEF Swapped
  <2> QED
    BY <1>2, <2>2, <2>5, EarlierIsCompare
<1>7. (IF ret = "none" THEN "busy" ELSE ret) = "busy"
      /\ (IF ret' = "none" THEN "busy" ELSE ret') = "busy"
  BY <1>1, <1>2
<1> HIDE DEF k
<1> QED
  BY <1>1, <1>3, <1>5, <1>6, <1>7, Zenon DEF Listing!PrintSymbol

(* Each step is one of the listing or leaves all it speaks of alone.       *)
LEMMA StepListed ==
  ListingInv /\ [Next]_vars => [Listing!Next]_(Listing!abstractVars)
<1> SUFFICES ASSUME ListingInv, [Next]_vars
             PROVE  Listing!Next \/ UNCHANGED Listing!abstractVars
  BY Zenon
<1>1. /\ Typed /\ Phases /\ Showing /\ Headed /\ input \in Inputs
  BY DEF ListingInv, SortInv, Typed
<1>2. ASSUME input' = input, heading' = heading, printed' = printed, ret' = ret
      PROVE  UNCHANGED Listing!abstractVars
  BY <1>2 DEF Listing!abstractVars
<1>3. CASE Start
  <2>1. /\ pc = "start" /\ heading' = input.multiple
        /\ input' = input /\ printed' = printed /\ ret' = ret
    BY <1>3 DEF Start
  <2>2. heading = FALSE /\ ret = "none"
    BY <1>1, <2>1, Zenon DEF Headed, Phases
  <2>3. input.multiple = TRUE \/ input.multiple = FALSE
    <3>1. input.multiple \in BOOLEAN
      BY <1>1, InputsAssumption, Zenon
    <3> QED
      BY <3>1, Zenon
  <2>4. CASE input.multiple = TRUE
    <3>1. (IF ret = "none" THEN "busy" ELSE ret) = "busy"
          /\ (IF ret' = "none" THEN "busy" ELSE ret') = (IF ret = "none" THEN "busy" ELSE ret)
      BY <2>1, <2>2
    <3>2. Listing!PrintHeading
      BY <2>1, <2>2, <2>4, <3>1, Zenon DEF Listing!PrintHeading
    <3> QED
      BY <3>2, Zenon DEF Listing!Next
  <2>5. CASE input.multiple = FALSE
    <3>1. heading' = heading
      BY <2>1, <2>2, <2>5, Zenon
    <3> QED
      BY <1>2, <2>1, <3>1
  <2> QED
    BY <2>3, <2>4, <2>5, Zenon
<1>4. CASE AllocFails
  <2>1. /\ pc = "alloc" /\ ret' = "FAIL_PATH"
        /\ input' = input /\ heading' = heading /\ printed' = printed
    BY <1>4 DEF AllocFails
  <2>2. ret = "none" /\ printed = <<>>
    BY <1>1, <2>1 DEF Phases, Showing
  <2>3. heading = input.multiple
    <3>1. pc # "start"
      BY <2>1
    <3> QED
      BY <1>1, <3>1, Zenon DEF Headed
  <2>4. (IF ret = "none" THEN "busy" ELSE ret) = "busy"
        /\ (IF ret' = "none" THEN "busy" ELSE ret') = "FAIL_PATH"
    BY <2>1, <2>2
  <2>5. Listing!Fail
    BY <2>1, <2>2, <2>3, <2>4, Zenon DEF Listing!Fail
  <2> QED
    BY <2>5, Zenon DEF Listing!Next
<1>5. CASE PrintStep
  <2>1. Listing!PrintSymbol
    BY <1>5, PrintStepPrints
  <2> QED
    BY <2>1, Zenon DEF Listing!Next
<1>6. CASE Return
  <2>1. /\ pc = "print" /\ i > Len(visible) /\ ret' = "OK"
        /\ input' = input /\ heading' = heading /\ printed' = printed
    BY <1>6 DEF Return
  <2>2. ret = "none"
    BY <1>1, <2>1 DEF Phases
  <2>3. heading = input.multiple
    <3>1. pc # "start"
      BY <2>1
    <3> QED
      BY <1>1, <3>1, Zenon DEF Headed
  <2>4. (IF ret = "none" THEN "busy" ELSE ret) = "busy"
        /\ (IF ret' = "none" THEN "busy" ELSE ret') = "OK"
    BY <2>1, <2>2
  <2>5. Listing!Missing = {}
    <3>1. \A k : k \in Listing!Missing <=> \E m \in i..Len(visible) : visible[m] = k
      BY <2>1, MissingIsTheRest
    <3>2. \A m \in i..Len(visible) : FALSE
      BY <1>1, <2>1, Numbers
    <3> QED
      BY <3>1, <3>2
  <2>6. Listing!Succeed
    BY <2>1, <2>3, <2>4, <2>5, Zenon DEF Listing!Succeed
  <2> QED
    BY <2>6, Zenon DEF Listing!Next
<1>7. CASE ~ (Start \/ AllocFails \/ PrintStep \/ Return)
  <2>1. input' = input /\ heading' = heading /\ printed' = printed /\ ret' = ret
    BY <1>7 DEF Next, vars, Alloc, FilterSymbol, FilterEnds, PartitionStarts,
         PartitionStep, PartitionEnds, LeftReturns, QuicksortReturns, SortEnds,
         ReverseStep, Done
  <2> QED
    BY <1>2, <2>1
<1> QED
  BY <1>3, <1>4, <1>5, <1>6, <1>7, Zenon

(* sort_and_print_symbols prints the heading first, then each visible      *)
(* symbol once and in the order asked for, and only then returns OK; or it *)
(* fails and has printed nothing but the heading.                          *)
THEOREM ListingImplemented ==
  Spec => Listing!Init /\ [][Listing!Next]_(Listing!abstractVars)
<1>1. Init => Listing!Init
  BY DEF Init, Listing!Init
<1>2. Init => Showing /\ Headed
  <2> SUFFICES ASSUME Init PROVE Showing /\ Headed
    OBVIOUS
  <2>1. Showing
    BY DEF Init, Showing
  <2>2. Headed
    BY DEF Init, Headed
  <2> QED
    BY <2>1, <2>2, Zenon
<1>3. SortInv /\ Showing /\ [Next]_vars => Showing'
  BY ShowingStep
<1>4. Headed /\ [Next]_vars => Headed'
  BY HeadedStep
<1>5. Spec => []ListingInv
  BY <1>2, <1>3, <1>4, SortInvHolds, SortsAPermutationHolds, PTL DEF Spec, ListingInv
<1>6. ListingInv /\ [Next]_vars => [Listing!Next]_(Listing!abstractVars)
  BY StepListed
<1> QED
  BY <1>1, <1>5, <1>6, PTL DEF Spec

=============================================================================
