---------------------------- MODULE ElfParserProofs ----------------------------
(***************************************************************************)
(* The safety properties of ElfParser, proved for every set of units whose *)
(* fields are numbers and for every word size.                             *)
(***************************************************************************)
EXTENDS ElfParser, DataLemmas

-----------------------------------------------------------------------------
(* Lemmas about the structures of a unit. *)

(* The sizes of the structures, in one class or the other. *)
LEMMA Sizes ==
  ASSUME NEW class \in {32, 64}
  PROVE  /\ EhdrSize(class) \in Nat /\ ShdrSize(class) \in {40, 64}
         /\ SymSize(class) \in {16, 24}
BY DEF EhdrSize, ShdrSize, SymSize

(* A table of structures holds as many as its size says.                   *)
LEMMA WholeTable ==
  ASSUME NEW s \in {16, 24}, NEW size \in Nat, size % s = 0
  PROVE  size \div s \in Nat /\ (size \div s) * s = size
<1>1. CASE s = 16
  BY <1>1
<1>2. CASE s = 24
  BY <1>2
<1> QED
  BY <1>1, <1>2

(* The least of a set of naturals is one of them.                          *)
LEMMA MinOf ==
  ASSUME NEW S, S \subseteq Nat, S # {}
  PROVE  Min(S) \in S /\ \A n \in S : Min(S) <= n
<1>1. \E m \in S : \A n \in S : m <= n
  BY Least
<1> QED
  BY <1>1 DEF Min

(* What is searched for the end of a string lies inside the unit; and in   *)
(* its table, unless nothing is searched at all.                           *)
LEMMA ScannedFits ==
  ASSUME NEW u, u.limit \in Nat, u.nuls \subseteq Nat,
         NEW tab \in Nat, NEW size \in Nat, NEW off \in Nat
  PROVE  LET w == Scanned(u, tab, size, off)
         IN  \/ w = Empty
             \/ /\ w.off = tab + off /\ w.len \in Nat /\ w.len > 0
                /\ w.off + w.len <= tab + size
                /\ tab + size <= u.limit
                /\ \A n \in u.nuls : w.off <= n => w.off + w.len <= n + 1
<1> DEFINE ends == {n \in u.nuls : tab + off <= n /\ n < tab + size}
           S    == {n + 1 : n \in ends} \cup {tab + size}
           w    == Scanned(u, tab, size, off)
<1>1. CASE off >= size \/ ~ CheckRange(tab, size, u.limit)
  BY <1>1 DEF Scanned
<1>2. CASE off < size /\ CheckRange(tab, size, u.limit)
  <2>1. w = [off |-> tab + off, len |-> Min(S) - (tab + off)]
    BY <1>2 DEF Scanned
  <2>2. S \subseteq Nat /\ tab + size \in S
    OBVIOUS
  <2>3. Min(S) \in S /\ \A n \in S : Min(S) <= n
    <3> HIDE DEF S
    <3> QED
      BY <2>2, MinOf
  <2>4. Min(S) \in Nat /\ tab + off < Min(S) /\ Min(S) <= tab + size
    BY <1>2, <2>2, <2>3
  <2>5. ASSUME NEW n \in u.nuls, tab + off <= n PROVE Min(S) <= n + 1
    <3>1. CASE n < tab + size
      <4>1. n + 1 \in S
        BY <2>5, <3>1
      <4> QED
        BY <2>3, <4>1
    <3>2. CASE n >= tab + size
      BY <2>4, <2>5, <3>2
    <3> QED
      BY <2>5, <3>1, <3>2
  <2> HIDE DEF S
  <2>6. w.off = tab + off /\ w.len = Min(S) - (tab + off)
    BY <2>1
  <2> HIDE DEF w
  <2>7. tab + size <= u.limit
    BY <1>2 DEF CheckRange
  <2>8. w.off + w.len = Min(S) /\ w.len \in Nat /\ w.len > 0
    BY <2>4, <2>6
  <2> QED
    BY <2>4, <2>5, <2>6, <2>7, <2>8 DEF w
<1> QED
  BY <1>1, <1>2 DEF CheckRange

(* The string w has one NUL, its last byte.                                *)
EndsOnce(u, w) ==
  {n \in u.nuls : w.off <= n /\ n < w.off + w.len} = {w.off + w.len - 1}

(* A string that safe_get_string returns ends with the only NUL it has and *)
(* lies in its table.                                                      *)
LEMMA StringEnds ==
  ASSUME NEW u, u.limit \in Nat, u.nuls \subseteq Nat,
         NEW tab \in Nat, NEW size \in Nat, NEW off \in Nat,
         SafeGetString(u, tab, size, off) # NULL
  PROVE  LET w == SafeGetString(u, tab, size, off)
         IN  /\ tab <= w.off /\ w.off + w.len <= tab + size
             /\ EndsOnce(u, w)
<1> DEFINE w == Scanned(u, tab, size, off)
<1>1. SafeGetString(u, tab, size, off) = w /\ w.off + w.len - 1 \in u.nuls
  BY DEF SafeGetString
<1>2. w # Empty
  BY <1>1 DEF Empty
<1>3. /\ w.off = tab + off /\ w.len \in Nat /\ w.len > 0
      /\ w.off + w.len <= tab + size
      /\ \A n \in u.nuls : w.off <= n => w.off + w.len <= n + 1
  BY <1>2, ScannedFits
<1> HIDE DEF w
<1>4. ASSUME NEW n \in u.nuls, w.off <= n, n < w.off + w.len
      PROVE  n = w.off + w.len - 1
  <2>1. n \in Nat
    OBVIOUS
  <2> QED
    BY <1>3, <1>4, <2>1
<1>5. w.off <= w.off + w.len - 1 /\ w.off + w.len - 1 < w.off + w.len
  BY <1>3
<1>6. EndsOnce(u, w)
  BY <1>1, <1>4, <1>5 DEF EndsOnce
<1> QED
  BY <1>1, <1>3, <1>6

(* A sequence extended by an element, whatever it holds.                   *)
LEMMA SeqOfItsElements ==
  ASSUME NEW s, s \in Seq(Range(s)), NEW e
  PROVE  /\ Append(s, e) \in Seq(Range(Append(s, e)))
         /\ Len(s) \in Nat /\ Len(Append(s, e)) = Len(s) + 1
         /\ DOMAIN s = 1..Len(s) /\ DOMAIN Append(s, e) = 1..(Len(s) + 1)
         /\ \A k \in 1..Len(s) : Append(s, e)[k] = s[k]
         /\ Append(s, e)[Len(s) + 1] = e
<1> DEFINE T == Range(s) \cup {e}
           t == Append(s, e)
<1>1. s \in Seq(T) /\ e \in T
  BY SeqOfMore
<1>2. /\ t \in Seq(T) /\ Len(s) \in Nat /\ Len(t) = Len(s) + 1
      /\ DOMAIN s = 1..Len(s) /\ DOMAIN t = 1..(Len(s) + 1)
      /\ \A k \in 1..Len(s) : t[k] = s[k]
      /\ t[Len(s) + 1] = e
  <2> HIDE DEF T
  <2> QED
    BY <1>1, Appending
<1>3. t \in Seq(Range(t))
  <2> HIDE DEF t, T
  <2>1. \A k \in 1..Len(t) : t[k] \in Range(t)
    BY <1>2 DEF Range
  <2> QED
    BY <1>2, <2>1
<1> QED
  BY <1>2, <1>3

-----------------------------------------------------------------------------
(* The inductive invariant: what is known of the unit, of the symbol table *)
(* and of the arrays in each phase of the call.                            *)

Unloaded == {"verify", "find", "table", "alloc", "cache"}
Counting == {"alloc", "cache", "load", "print"}

Progress ==
  /\ unit \in Units
  /\ pc \in Unloaded \cup {"load", "print", "done"}
  /\ pc \notin {"verify", "done"} => HeaderOK(unit)
  /\ i \in Nat /\ symtab \in Nat /\ sym_count \in Nat

Located ==
  /\ pc \in Counting \cup {"table"} =>
       symtab < Shnum /\ Section(symtab).type = "SYMTAB"
  /\ pc \in Counting =>
       /\ TableOK
       /\ sym_count = Section(symtab).size \div SymSize(Class)

Loaded ==
  /\ symbols \in Seq(Range(symbols)) /\ Len(symbols) <= sym_count
  /\ pc \in Unloaded => symbols = <<>>
  /\ pc = "load" => Len(symbols) = i /\ i <= sym_count
  /\ pc = "print" => Len(symbols) = i /\ i = sym_count
  /\ pc \in {"load", "print"} =>
       cache = [k \in 0..(Shnum - 1) |->
                  [type |-> Section(k).type, flags |-> Section(k).flags]]

Held ==
  /\ pc \in {"verify", "find", "table", "alloc", "done"} => heap = {}
  /\ pc = "cache" => heap = {"symbols"}
  /\ pc \in {"load", "print"} => heap = {"symbols", "shdr_cache"}

Silent ==
  /\ pc # "done" => logged = <<>> /\ ret = "none"
  /\ logged \in Seq({"not_recognized", "no_symbols"}) /\ Len(logged) <= 1
  /\ ret \in {"none", OK, FAIL_PATH}

Unlisted == listed \in BOOLEAN /\ (listed => pc = "done")

ElfInv == Progress /\ Located /\ Loaded /\ Held /\ Silent /\ Unlisted

(* What depends on the unit and on the place of the symbol table alone.    *)
LEMMA SameUnit ==
  ASSUME unit' = unit
  PROVE  Class' = Class /\ Shnum' = Shnum /\ \A k : Section(k)' = Section(k)
BY DEF Class, Shnum, Section

LEMMA SameTable ==
  ASSUME unit' = unit, symtab' = symtab
  PROVE  /\ TableOK' <=> TableOK
         /\ Class' = Class /\ Shnum' = Shnum
         /\ Section(symtab)' = Section(symtab)
         /\ StrTab' = StrTab /\ ShStrTab' = ShStrTab
BY DEF Class, Shnum, Section, StrTab, ShStrTab, TableOK

(* A refused unit.                                                         *)
LEMMA Refused ==
  ASSUME Silent, pc # "done", NotRecognized
  PROVE  /\ pc' = "done" /\ heap' = {} /\ ret' = FAIL_PATH
         /\ Len(logged') = 1 /\ logged' # <<>>
         /\ Silent'
<1>1. /\ pc' = "done" /\ heap' = {} /\ ret' = FAIL_PATH
      /\ logged' \in Seq({"not_recognized", "no_symbols"})
      /\ Len(logged') = 1 /\ logged' # <<>>
  BY DEF Silent, NotRecognized
<1>2. Silent'
  BY <1>1 DEF Silent
<1> QED
  BY <1>1, <1>2

LEMMA InitHolds == Init => ElfInv
<1> SUFFICES ASSUME Init PROVE ElfInv
  OBVIOUS
<1>1. symbols \in Seq(Range(symbols)) /\ Len(symbols) = 0 /\ logged = <<>>
  BY DEF Init
<1>2. Progress /\ Located /\ Held
  BY DEF Init, Progress, Located, Held, Unloaded, Counting
<1>3. Loaded
  BY <1>1 DEF Init, Loaded, Unloaded
<1>4. Silent
  BY <1>1 DEF Init, Silent
<1>5. Unlisted
  BY DEF Init, Unlisted
<1> QED
  BY <1>2, <1>3, <1>4, <1>5 DEF ElfInv

LEMMA StepHolds ==
  ElfInv /\ [Next]_vars => Progress' /\ Located' /\ Loaded' /\ Held' /\ Silent'
<1> SUFFICES ASSUME ElfInv, [Next]_vars
             PROVE  Progress' /\ Located' /\ Loaded' /\ Held' /\ Silent'
  OBVIOUS
<1> USE DEF ElfInv
<1>1. CASE VerifyElfHeader
  <2>1. CASE HeaderOK(unit)
    <3>1. Progress' /\ Located' /\ Held'
      BY <1>1, <2>1 DEF VerifyElfHeader, Progress, Located, Held, Unloaded, Counting
    <3>2. Loaded' /\ Silent'
      BY <1>1, <2>1 DEF VerifyElfHeader, Loaded, Silent, Unloaded
    <3> QED
      BY <3>1, <3>2
  <2>2. CASE ~ HeaderOK(unit)
    <3>1. NotRecognized /\ pc = "verify"
      BY <1>1, <2>2 DEF VerifyElfHeader
    <3>2. Progress' /\ Located' /\ Held'
      BY <1>1, <3>1, Refused DEF VerifyElfHeader, Progress, Located, Held, Unloaded,
         Counting
    <3>3. Loaded'
      BY <1>1, <3>1, Refused DEF VerifyElfHeader, Loaded, Unloaded
    <3>4. Silent' /\ pc' = "done"
      BY <3>1, Refused
    <3> QED
      BY <3>2, <3>3, <3>4
  <2> QED
    BY <2>1, <2>2
<1>2. CASE FindStep
  <2>1. Progress' /\ Held'
    BY <1>2 DEF FindStep, Progress, Held, Unloaded
  <2>2. Located'
    BY <1>2, SameUnit DEF FindStep, Progress, Located, Counting
  <2>3. Loaded' /\ Silent'
    BY <1>2 DEF FindStep, Loaded, Silent, Unloaded
  <2> QED
    BY <2>1, <2>2, <2>3
<1>3. CASE NoSymbols
  <2>1. Progress' /\ Located' /\ Held' /\ Loaded'
    BY <1>3 DEF NoSymbols, Progress, Held, Located, Counting, Loaded, Unloaded
  <2>2. Silent'
    BY <1>3 DEF NoSymbols, Silent
  <2> QED
    BY <2>1, <2>2
<1>4. CASE CheckTable
  <2>1. CASE TableOK
    <3>1. /\ pc = "table" /\ pc' = "alloc" /\ HeaderOK(unit) /\ TableOK'
          /\ sym_count' = (Section(symtab).size \div SymSize(Class))'
          /\ sym_count' \in Nat
      <4>1. HeaderOK(unit) /\ Class \in {32, 64} /\ pc = "table"
        BY <1>4 DEF CheckTable, Progress, HeaderOK, Class
      <4>2. symtab \in 0..(Shnum - 1) /\ Section(symtab).size \in Nat
        BY <1>4, <4>1, UnitsAssumption
           DEF UnitOK, CheckTable, Progress, Located, Shnum, Section
      <4>3. SymSize(Class) \in {16, 24} /\ Section(symtab).size % SymSize(Class) = 0
        BY <4>1, <2>1, Sizes DEF TableOK
      <4> QED
        BY <1>4, <2>1, <4>1, <4>2, <4>3, WholeTable, SameTable DEF CheckTable
    <3>2. Progress' /\ Held'
      BY <1>4, <2>1, <3>1 DEF CheckTable, Progress, Held, Unloaded
    <3>3. Located'
      BY <1>4, <2>1, <3>1, SameTable DEF CheckTable, Located, Counting
    <3>4. Loaded' /\ Silent'
      BY <1>4, <2>1, <3>1 DEF CheckTable, Loaded, Silent, Unloaded
    <3> QED
      BY <3>2, <3>3, <3>4
  <2>2. CASE ~ TableOK
    <3>1. NotRecognized /\ pc = "table"
      BY <1>4, <2>2 DEF CheckTable
    <3>2. Progress' /\ Located' /\ Held'
      BY <1>4, <2>2, <3>1, Refused DEF CheckTable, Progress, Located, Held, Unloaded,
         Counting
    <3>3. Loaded'
      BY <1>4, <2>2, <3>1, Refused DEF CheckTable, Loaded, Unloaded
    <3>4. Silent' /\ pc' = "done"
      BY <3>1, Refused
    <3> QED
      BY <3>2, <3>3, <3>4
  <2> QED
    BY <2>1, <2>2
<1>5. CASE AllocFails
  <2>1. NotRecognized /\ pc # "done"
    BY <1>5 DEF AllocFails
  <2>2. Progress' /\ Located' /\ Held'
    BY <1>5, <2>1, Refused DEF AllocFails, Progress, Located, Held, Unloaded, Counting
  <2>3. Loaded'
    BY <1>5, <2>1, Refused DEF AllocFails, Loaded, Unloaded
  <2>4. Silent' /\ pc' = "done"
    BY <2>1, Refused
  <2> QED
    BY <2>2, <2>3, <2>4
<1>6. CASE AllocSymbols
  <2>1. Progress' /\ Held'
    BY <1>6 DEF AllocSymbols, Progress, Held, Unloaded
  <2>2. Located'
    BY <1>6, SameTable DEF AllocSymbols, Located, Counting
  <2>3. Loaded' /\ Silent'
    BY <1>6 DEF AllocSymbols, Loaded, Silent, Unloaded
  <2> QED
    BY <2>1, <2>2, <2>3
<1>7. CASE CacheSections
  <2>1. Progress' /\ Held'
    BY <1>7 DEF CacheSections, Progress, Held, Unloaded
  <2>2. Located'
    BY <1>7, SameTable DEF CacheSections, Located, Counting
  <2>3. Loaded'
    <3>1. cache' = [k \in 0..(Shnum - 1) |->
                     [type |-> Section(k).type, flags |-> Section(k).flags]]'
      BY <1>7, SameUnit DEF CacheSections
    <3>2. Len(<<>>) = 0
      OBVIOUS
    <3> QED
      BY <1>7, <3>1, <3>2 DEF CacheSections, Loaded, Unloaded, Progress
  <2>4. Silent'
    BY <1>7 DEF CacheSections, Silent
  <2> QED
    BY <2>1, <2>2, <2>3, <2>4
<1>8. CASE LoadSymbol
  <2>1. Progress' /\ Held'
    BY <1>8 DEF LoadSymbol, Progress, Held, Unloaded
  <2>2. Located'
    BY <1>8, SameTable DEF LoadSymbol, Located, Counting
  <2>3. Loaded'
    <3> DEFINE e == [name |-> FinalName(unit.syms[i]),
                     type |-> ClassifySymbol(unit.syms[i], cache)]
    <3>1. symbols' = Append(symbols, e)
      BY <1>8 DEF LoadSymbol
    <3> HIDE DEF e
    <3>2. symbols' \in Seq(Range(symbols')) /\ Len(symbols') = Len(symbols) + 1
      BY <3>1, SeqOfItsElements DEF Loaded
    <3>3. cache' = [k \in 0..(Shnum - 1) |->
                     [type |-> Section(k).type, flags |-> Section(k).flags]]'
      BY <1>8, SameUnit DEF LoadSymbol, Loaded
    <3>4. /\ pc' = "load" /\ i' = i + 1 /\ sym_count' = sym_count /\ i < sym_count
          /\ Len(symbols) = i
      BY <1>8 DEF LoadSymbol, Loaded
    <3> QED
      BY <3>2, <3>3, <3>4 DEF Loaded, Unloaded, Progress
  <2>4. Silent'
    BY <1>8 DEF LoadSymbol, Silent
  <2> QED
    BY <2>1, <2>2, <2>3, <2>4
<1>9. CASE LoadFails
  <2>1. NotRecognized /\ pc # "done"
    BY <1>9 DEF LoadFails
  <2>2. Progress' /\ Located' /\ Held'
    BY <1>9, <2>1, Refused DEF LoadFails, Progress, Located, Held, Unloaded, Counting
  <2>3. Loaded'
    BY <1>9, <2>1, Refused DEF LoadFails, Loaded, Unloaded
  <2>4. Silent' /\ pc' = "done"
    BY <2>1, Refused
  <2> QED
    BY <2>2, <2>3, <2>4
<1>10. CASE LoadEnds
  <2>1. Progress' /\ Held'
    BY <1>10 DEF LoadEnds, Progress, Held, Unloaded
  <2>2. Located'
    BY <1>10, SameTable DEF LoadEnds, Located, Counting
  <2>3. Loaded' /\ Silent'
    BY <1>10, SameUnit DEF LoadEnds, Loaded, Silent, Unloaded, Progress
  <2> QED
    BY <2>1, <2>2, <2>3
<1>11. CASE SortAndPrint
  <2>1. Progress' /\ Located' /\ Held'
    BY <1>11 DEF SortAndPrint, Progress, Held, Located, Counting, Unloaded
  <2>2. Loaded' /\ Silent'
    BY <1>11 DEF SortAndPrint, Loaded, Silent, Unloaded
  <2> QED
    BY <2>1, <2>2
<1>12. CASE UNCHANGED vars
  <2>1. Progress' /\ Held'
    BY <1>12 DEF vars, Progress, Held
  <2>2. Located'
    BY <1>12, SameTable DEF vars, Located
  <2>3. Loaded'
    BY <1>12, SameUnit DEF vars, Loaded
  <2>4. Silent'
    BY <1>12 DEF vars, Silent
  <2> QED
    BY <2>1, <2>2, <2>3, <2>4
<1> QED
  BY <1>1, <1>2, <1>3, <1>4, <1>5, <1>6, <1>7, <1>8, <1>9, <1>10, <1>11, <1>12
     DEF Next, Done

(* Only the last step of all lists anything.                               *)
LEMMA UnlistedHolds == ElfInv /\ [Next]_vars => Unlisted'
<1> SUFFICES ASSUME Unlisted, [Next]_vars PROVE Unlisted'
  BY DEF ElfInv
<1>1. CASE pc # "done" /\ UNCHANGED listed
  BY <1>1 DEF Unlisted
<1>2. CASE SortAndPrint
  BY <1>2 DEF SortAndPrint, Unlisted
<1>3. CASE UNCHANGED vars
  BY <1>3 DEF vars, Unlisted
<1>4. Next =>
        \/ pc # "done" /\ UNCHANGED listed
        \/ SortAndPrint \/ UNCHANGED vars
  BY DEF Next, VerifyElfHeader, FindStep, NoSymbols, CheckTable, AllocFails, AllocSymbols,
     CacheSections, LoadSymbol, LoadFails, LoadEnds, Done
<1> QED
  BY <1>1, <1>2, <1>3, <1>4

LEMMA ElfInvStep == ElfInv /\ [Next]_vars => ElfInv'
BY StepHolds, UnlistedHolds DEF ElfInv

(* The inductive invariant of the call.                                    *)
THEOREM ElfInvHolds == Spec => []ElfInv
BY InitHolds, ElfInvStep, PTL DEF Spec

(* Every variable keeps its type.                                          *)
THEOREM TypesHold == Spec => []TypeOK
<1>1. ASSUME ElfInv PROVE TypeOK
  <2>1. heap \subseteq {"symbols", "shdr_cache"}
    BY <1>1 DEF ElfInv, Progress, Held, Unloaded
  <2>2. listed \in BOOLEAN
    BY <1>1 DEF ElfInv, Unlisted
  <2> QED
    BY <1>1, <2>1, <2>2 DEF ElfInv, Progress, Loaded, Silent, Unloaded, TypeOK
<1> QED
  BY <1>1, ElfInvHolds, PTL

(* The two arrays are held while symbols are loaded into them, and no way  *)
(* out keeps either.                                                       *)
THEOREM HeapBalancedHolds == Spec => []HeapBalanced
<1>1. ElfInv => HeapBalanced
  BY DEF ElfInv, Held, HeapBalanced
<1> QED
  BY <1>1, ElfInvHolds, PTL

-----------------------------------------------------------------------------
(* Reads. *)

(* The fields that the code goes on to use are numbers.                    *)
LEMMA Numbers ==
  ASSUME Progress, HeaderOK(unit)
  PROVE  /\ Class \in {32, 64} /\ unit.limit \in Nat /\ unit.limit < WORD
         /\ unit.nuls \subseteq Nat
         /\ Shnum \in Nat /\ unit.ehdr.shoff \in Nat
         /\ unit.ehdr.shstrndx \in Nat /\ unit.ehdr.shstrndx < Shnum
         /\ CheckRange(unit.ehdr.shoff, Shnum * ShdrSize(Class), unit.limit)
         /\ \A k \in Nat : k < Shnum =>
              /\ Section(k).offset \in Nat /\ Section(k).size \in Nat
              /\ Section(k).link \in Nat /\ Section(k).name \in Nat
<1>1. /\ Class \in {32, 64} /\ unit.ehdr.shstrndx < Shnum
      /\ CheckRange(unit.ehdr.shoff, Shnum * ShdrSize(Class), unit.limit)
  BY DEF HeaderOK, Class, Shnum
<1>2. /\ unit.limit \in Nat /\ unit.limit < WORD /\ unit.nuls \subseteq Nat
      /\ Shnum \in Nat /\ unit.ehdr.shoff \in Nat /\ unit.ehdr.shstrndx \in Nat
      /\ \A k \in 0..(Shnum - 1) :
           {Section(k).offset, Section(k).size, Section(k).link, Section(k).name}
             \subseteq Nat
  BY UnitsAssumption DEF UnitOK, Progress, Shnum, Section
<1>3. \A k \in Nat : k < Shnum => k \in 0..(Shnum - 1)
  BY <1>2
<1> QED
  BY <1>1, <1>2, <1>3

(* A window on the unit and on nothing else.                               *)
Inside(w) == w.off \in Nat /\ w.len \in Nat /\ w.off + w.len <= unit.limit

LEMMA ShdrInBounds ==
  ASSUME Progress, HeaderOK(unit), NEW k \in Nat, k < Shnum
  PROVE  Inside(ShdrWindow(k))
<1> DEFINE s == ShdrSize(Class)
<1>1. s \in {40, 64}
  BY Numbers, Sizes
<1>2. /\ Wrap(unit.ehdr.shoff + k * s) \in Nat
      /\ Wrap(unit.ehdr.shoff + k * s) + s <= unit.limit
  <2> DEFINE start == unit.ehdr.shoff
             limit == unit.limit
  <2>1. /\ CheckRange(start, Shnum * s, limit) /\ start \in Nat
        /\ Shnum \in Nat /\ limit \in Nat /\ limit < WORD
    BY Numbers
  <2> HIDE DEF s, start, limit
  <2>2. Wrap(start + k * s) \in Nat /\ Wrap(start + k * s) + s <= limit
    <3>1. CASE s = 40
      BY <2>1, <3>1, WordAssumption DEF CheckRange, Wrap
    <3>2. CASE s = 64
      BY <2>1, <3>2, WordAssumption DEF CheckRange, Wrap
    <3> QED
      BY <1>1, <3>1, <3>2
  <2> QED
    BY <2>2 DEF start, limit
<1>3. ShdrWindow(k).off = Wrap(unit.ehdr.shoff + k * s) /\ ShdrWindow(k).len = s
  BY DEF ShdrWindow, Window
<1> QED
  BY <1>1, <1>2, <1>3 DEF Inside

(* What the load relies on once the tables are checked.                    *)
LEMMA Tables ==
  ASSUME Progress, Located, pc \in Counting
  PROVE  /\ HeaderOK(unit)
         /\ SymSize(Class) \in {16, 24}
         /\ Section(symtab).offset \in Nat /\ Section(symtab).size \in Nat
         /\ sym_count * SymSize(Class) = Section(symtab).size
         /\ CheckRange(Section(symtab).offset, Section(symtab).size, unit.limit)
         /\ StrTab.offset \in Nat /\ StrTab.size \in Nat
         /\ ShStrTab.offset \in Nat /\ ShStrTab.size \in Nat
         /\ \A k \in Nat : k < sym_count =>
              unit.syms[k].name \in Nat /\ unit.syms[k].shndx \in Nat
<1>1. HeaderOK(unit) /\ symtab \in Nat /\ symtab < Shnum /\ TableOK
      /\ Section(symtab).type = "SYMTAB" /\ sym_count \in Nat
      /\ sym_count = Section(symtab).size \div SymSize(Class)
  BY DEF Progress, Located, Counting
<1>2. SymSize(Class) \in {16, 24}
  BY <1>1, Numbers, Sizes
<1>3. Section(symtab).offset \in Nat /\ Section(symtab).size \in Nat
      /\ Section(symtab).link \in Nat
  BY <1>1, Numbers
<1>4. CheckRange(Section(symtab).offset, Section(symtab).size, unit.limit)
      /\ Section(symtab).size % SymSize(Class) = 0 /\ Section(symtab).link < Shnum
  BY <1>1 DEF TableOK
<1>5. sym_count * SymSize(Class) = Section(symtab).size
  BY <1>1, <1>2, <1>3, <1>4, WholeTable
<1>6. /\ StrTab.offset \in Nat /\ StrTab.size \in Nat
      /\ ShStrTab.offset \in Nat /\ ShStrTab.size \in Nat
  BY <1>1, <1>3, <1>4, Numbers DEF StrTab, ShStrTab
<1>7. \A k \in 0..(sym_count - 1) :
        unit.syms[k].name \in Nat /\ unit.syms[k].shndx \in Nat
  <2>1. symtab \in 0..(Shnum - 1)
    BY <1>1, Numbers
  <2> QED
    BY <1>1, <1>4, <2>1, UnitsAssumption DEF UnitOK, Progress, Shnum, Section, Class
<1>8. \A k \in Nat : k < sym_count => k \in 0..(sym_count - 1)
  BY <1>1
<1> QED
  BY <1>1, <1>2, <1>3, <1>4, <1>5, <1>6, <1>7, <1>8

LEMMA SymInBounds ==
  ASSUME Progress, Located, pc \in Counting, NEW k \in Nat, k < sym_count
  PROVE  Inside(SymWindow(k))
<1> DEFINE s == SymSize(Class)
           start == Section(symtab).offset
<1>1. s \in {16, 24}
  BY Tables
<1>2. /\ Wrap(start + k * s) \in Nat
      /\ Wrap(start + k * s) + s <= unit.limit
  <2> DEFINE limit == unit.limit
  <2>1. /\ CheckRange(start, sym_count * s, limit) /\ start \in Nat
        /\ sym_count \in Nat /\ limit \in Nat /\ limit < WORD
    BY Tables, Numbers DEF Progress
  <2> HIDE DEF s, start, limit
  <2>2. Wrap(start + k * s) \in Nat /\ Wrap(start + k * s) + s <= limit
    <3>1. CASE s = 16
      BY <2>1, <3>1, WordAssumption DEF CheckRange, Wrap
    <3>2. CASE s = 24
      BY <2>1, <3>2, WordAssumption DEF CheckRange, Wrap
    <3> QED
      BY <1>1, <3>1, <3>2
  <2> QED
    BY <2>2 DEF limit
<1>3. SymWindow(k).off = Wrap(start + k * s) /\ SymWindow(k).len = s
  BY DEF SymWindow, Window
<1> QED
  BY <1>1, <1>2, <1>3 DEF Inside

LEMMA ScannedInBounds ==
  ASSUME unit.limit \in Nat, unit.nuls \subseteq Nat,
         NEW tab \in Nat, NEW size \in Nat, NEW off \in Nat
  PROVE  Inside(Scanned(unit, tab, size, off))
<1> DEFINE w == Scanned(unit, tab, size, off)
<1>1. \/ w = Empty
      \/ w.off = tab + off /\ w.len \in Nat /\ w.off + w.len <= tab + size
         /\ tab + size <= unit.limit
  BY ScannedFits
<1>2. Inside(Empty)
  BY DEF Empty, Inside
<1> HIDE DEF w
<1>3. Inside(w)
  BY <1>1, <1>2 DEF Inside
<1> QED
  BY <1>3 DEF w

LEMMA NamesInBounds ==
  ASSUME Progress, Located, pc \in Counting, NEW k \in Nat, k < sym_count,
         IndexOK(unit.syms[k]),
         NEW w \in NameReads(unit.syms[k])
  PROVE  Inside(w)
<1> DEFINE s == unit.syms[k]
<1>1. CASE w = Scanned(unit, StrTab.offset, StrTab.size, s.name)
  BY <1>1, Tables, Numbers, ScannedInBounds
<1>2. CASE NamedBySection(s)
           /\ w \in {ShdrWindow(s.shndx),
                     Scanned(unit, ShStrTab.offset, ShStrTab.size,
                             Section(s.shndx).name)}
  <2>1. s.shndx \in Nat /\ s.shndx < Shnum
    BY <1>2, Tables DEF NamedBySection, IndexOK
  <2>2. Section(s.shndx).name \in Nat
    BY <2>1, Tables, Numbers
  <2>3. CASE w = ShdrWindow(s.shndx)
    BY <2>1, <2>3, Tables, ShdrInBounds
  <2>4. CASE w = Scanned(unit, ShStrTab.offset, ShStrTab.size, Section(s.shndx).name)
    BY <2>2, <2>4, Tables, Numbers, ScannedInBounds
  <2> QED
    BY <1>2, <2>3, <2>4
<1> QED
  BY <1>1, <1>2 DEF NameReads

ReadsInside == \A w \in reads : Inside(w)

LEMMA ReadsStep == ElfInv /\ ReadsInside /\ [Next]_vars => ReadsInside'
<1>1. ASSUME ElfInv, ReadsInside, [Next]_vars PROVE ReadsInside'
  <2>1. unit' = unit
    BY <1>1 DEF Next, vars, VerifyElfHeader, FindStep, NoSymbols, CheckTable, AllocFails,
       AllocSymbols, CacheSections, LoadSymbol, LoadFails, LoadEnds, SortAndPrint, Done
  <2>2. SUFFICES ASSUME NEW w \in reads', w \notin reads
                 PROVE  Inside(w)
    BY <1>1, <2>1 DEF ReadsInside, Inside
  <2>3. CASE VerifyElfHeader
    <3>1. /\ CheckRange(0, EI_NIDENT, unit.limit)
          /\ \/ w = Window(0, EI_NIDENT)
             \/ HeaderOK(unit) /\ w = Window(0, EhdrSize(Class))
      BY <2>2, <2>3 DEF VerifyElfHeader
    <3>2. unit.limit \in Nat
      BY <1>1, UnitsAssumption DEF UnitOK, ElfInv, Progress
    <3>3. CASE w = Window(0, EI_NIDENT)
      BY <3>1, <3>2, <3>3 DEF Window, CheckRange, EI_NIDENT, Inside
    <3>4. CASE HeaderOK(unit) /\ w = Window(0, EhdrSize(Class))
      <4>1. CheckRange(0, EhdrSize(Class), unit.limit) /\ EhdrSize(Class) \in Nat
        BY <3>4, Sizes DEF HeaderOK, Class
      <4>2. w.off = 0 /\ w.len = EhdrSize(Class)
        BY <3>4 DEF Window
      <4> QED
        BY <3>2, <4>1, <4>2 DEF CheckRange, Inside
    <3> QED
      BY <3>1, <3>3, <3>4
  <2>4. CASE FindStep
    <3>1. w = ShdrWindow(i) /\ pc = "find" /\ i < Shnum
      BY <2>2, <2>4 DEF FindStep
    <3> QED
      BY <1>1, <3>1, ShdrInBounds DEF ElfInv, Progress
  <2>5. CASE CheckTable
    <3>1. HeaderOK(unit) /\ symtab \in Nat /\ symtab < Shnum
      BY <1>1, <2>5 DEF CheckTable, ElfInv, Progress, Located
    <3>2. Section(symtab).link \in Nat
      BY <1>1, <3>1, Numbers DEF ElfInv
    <3>3. \/ w = ShdrWindow(symtab)
          \/ Section(symtab).link < Shnum /\ w = ShdrWindow(Section(symtab).link)
          \/ w = ShdrWindow(unit.ehdr.shstrndx)
      BY <2>2, <2>5 DEF CheckTable
    <3> QED
      BY <1>1, <3>1, <3>2, <3>3, Numbers, ShdrInBounds DEF ElfInv
  <2>6. CASE CacheSections
    <3>1. HeaderOK(unit)
      BY <1>1, <2>6 DEF CacheSections, ElfInv, Progress
    <3>2. PICK k \in 0..(Shnum - 1) : w = ShdrWindow(k)
      BY <2>2, <2>6 DEF CacheSections
    <3>3. k \in Nat /\ k < Shnum
      BY <1>1, <3>1, Numbers DEF ElfInv
    <3> QED
      BY <1>1, <3>1, <3>2, <3>3, ShdrInBounds DEF ElfInv
  <2>7. CASE LoadSymbol \/ LoadFails
    <3>1. i \in Nat /\ i < sym_count /\ pc \in Counting
      BY <1>1, <2>7 DEF LoadSymbol, LoadFails, ElfInv, Progress, Counting
    <3>2. \/ w = SymWindow(i)
          \/ IndexOK(unit.syms[i]) /\ w \in NameReads(unit.syms[i])
      BY <2>2, <2>7 DEF LoadSymbol, LoadFails
    <3> QED
      BY <1>1, <3>1, <3>2, SymInBounds, NamesInBounds DEF ElfInv
  <2>8. CASE UNCHANGED reads
    BY <2>2, <2>8
  <2> QED
    BY <1>1, <2>3, <2>4, <2>5, <2>6, <2>7, <2>8
       DEF Next, vars, NoSymbols, AllocFails, AllocSymbols, LoadEnds, SortAndPrint, Done
<1> QED
  BY <1>1

(* Whatever the fields of the unit say, nothing behind its end is read.    *)
THEOREM ReadsInBoundsHolds == Spec => []ReadsInBounds
<1>1. Init => ReadsInside
  BY DEF Init, ReadsInside
<1>2. ReadsInside => ReadsInBounds
  BY DEF ReadsInside, ReadsInBounds, Inside
<1> QED
  BY <1>1, <1>2, ReadsStep, ElfInvHolds, PTL DEF Spec

-----------------------------------------------------------------------------
(* Outcomes. *)

(* What leads to the end of the call.                                      *)
LEMMA Ends ==
  ASSUME ElfInv, [Next]_vars, pc' = "done"
  PROVE  \/ NotRecognized /\ pc # "done" /\ UNCHANGED listed
         \/ NoSymbols \/ SortAndPrint \/ UNCHANGED vars
BY DEF ElfInv, Next, VerifyElfHeader, FindStep, NoSymbols, CheckTable, AllocFails,
   AllocSymbols, CacheSections, LoadSymbol, LoadFails, LoadEnds, Done

(* What a finished call has listed.                                        *)
Listing ==
  listed => /\ ret = OK /\ Len(symbols) = sym_count
            /\ sym_count * SymSize(Class) = Section(symtab).size

LEMMA ListingHolds == ElfInv /\ Listing /\ [Next]_vars => Listing'
<1> SUFFICES ASSUME ElfInv, Listing, [Next]_vars, listed' PROVE Listing'
  BY DEF Listing
<1>1. ElfInv'
  BY StepHolds, UnlistedHolds DEF ElfInv
<1>2. pc' = "done"
  BY <1>1 DEF ElfInv, Unlisted
<1>3. ~ listed => SortAndPrint
  <2>1. CASE NotRecognized /\ UNCHANGED listed
    BY <2>1
  <2>2. CASE NoSymbols
    BY <2>2 DEF NoSymbols
  <2>3. CASE UNCHANGED vars
    BY <2>3 DEF vars
  <2> QED
    BY <1>2, <2>1, <2>2, <2>3, Ends
<1>4. CASE SortAndPrint
  <2>1. /\ pc = "print" /\ ret' = OK /\ symbols' = symbols /\ sym_count' = sym_count
        /\ unit' = unit /\ symtab' = symtab
    BY <1>4 DEF SortAndPrint
  <2>2. Len(symbols) = sym_count
    BY <2>1 DEF ElfInv, Loaded
  <2>3. sym_count * SymSize(Class) = Section(symtab).size
    BY <2>1, Tables DEF ElfInv, Counting
  <2> QED
    BY <2>1, <2>2, <2>3, SameTable DEF Listing
<1>5. CASE listed
  <2>1. pc = "done"
    BY <1>5 DEF ElfInv, Unlisted
  <2>2. UNCHANGED vars
    BY <2>1 DEF Next, VerifyElfHeader, FindStep, NoSymbols, CheckTable, AllocFails,
       AllocSymbols, CacheSections, LoadSymbol, LoadFails, LoadEnds, SortAndPrint, Done
  <2>3. /\ ret' = ret /\ symbols' = symbols /\ sym_count' = sym_count
        /\ unit' = unit /\ symtab' = symtab
    BY <2>2 DEF vars
  <2> QED
    BY <1>5, <2>3, SameTable DEF Listing
<1> QED
  BY <1>3, <1>4, <1>5

(* A table is listed completely or not at all.                             *)
THEOREM AllOrNothingHolds == Spec => []AllOrNothing
<1>1. Init => Listing
  BY DEF Init, Listing
<1>2. ElfInv /\ Listing => AllOrNothing
  <2> SUFFICES ASSUME ElfInv, Listing PROVE AllOrNothing
    OBVIOUS
  <2>1. pc \in {"load", "print"} => Len(symbols) = i
    BY DEF ElfInv, Loaded
  <2>2. ret = FAIL_PATH => ~ listed
    BY DEF Listing, OK, FAIL_PATH
  <2> QED
    BY <2>1, <2>2 DEF Listing, AllOrNothing
<1> QED
  BY <1>1, <1>2, ElfInvHolds, ListingHolds, PTL DEF Spec

(* The outcomes process_elf_unit shares with its callers.                  *)
LEMMA Outcomes ==
  UNION {UnitOutcomes(s) : s \in {"malformed", "none", "some"}}
    = {"malformed", "no_symbols", "listed", "no_load", "no_sort"}
<1>1. /\ UnitOutcomes("malformed") = {"malformed"}
      /\ UnitOutcomes("none") = {"no_symbols"}
      /\ UnitOutcomes("some") = {"listed", "no_load", "no_sort"}
  BY DEF UnitOutcomes
<1> QED
  BY <1>1

(* How the call has ended, read off its result, diagnostics and listing.   *)
Result ==
  /\ ret \in {OK, FAIL_PATH}
  /\ listed => ret = OK /\ logged = <<>>
  /\ ret = OK /\ ~ listed => logged # <<>>
  /\ ret = FAIL_PATH /\ logged = <<>> =>
       /\ Len(symbols) = sym_count
       /\ sym_count * SymSize(Class) = Section(symtab).size

Ended == pc = "done" => Result

LEMMA EndedHolds == ElfInv /\ Ended /\ [Next]_vars => Ended'
<1> SUFFICES ASSUME ElfInv, Ended, [Next]_vars, pc' = "done"
             PROVE  Result'
  BY DEF Ended
<1>1. CASE NotRecognized /\ pc # "done" /\ UNCHANGED listed
  <2>1. ret' = FAIL_PATH /\ logged' # <<>>
    BY <1>1, Refused DEF ElfInv
  <2>2. ~ listed'
    BY <1>1 DEF ElfInv, Unlisted
  <2> QED
    BY <2>1, <2>2 DEF Result
<1>2. CASE NoSymbols
  <2>1. ret' = OK /\ logged' # <<>>
    BY <1>2 DEF NoSymbols, ElfInv, Silent
  <2>2. ~ listed'
    BY <1>2 DEF NoSymbols, ElfInv, Unlisted
  <2> QED
    BY <2>1, <2>2 DEF Result, OK, FAIL_PATH
<1>3. CASE SortAndPrint
  <2>1. /\ logged' = <<>> /\ symbols' = symbols /\ sym_count' = sym_count
        /\ Len(symbols) = sym_count
        /\ unit' = unit /\ symtab' = symtab
    BY <1>3 DEF SortAndPrint, ElfInv, Silent, Loaded
  <2>2. \/ listed' = TRUE /\ ret' = OK
        \/ listed' = FALSE /\ ret' = FAIL_PATH
    BY <1>3 DEF SortAndPrint
  <2>5. sym_count * SymSize(Class) = Section(symtab).size
    BY <1>3, Tables DEF SortAndPrint, ElfInv, Counting
  <2>3. CASE listed' = TRUE /\ ret' = OK
    BY <2>1, <2>3 DEF Result, OK, FAIL_PATH
  <2>4. CASE listed' = FALSE /\ ret' = FAIL_PATH
    BY <2>1, <2>4, <2>5, SameTable DEF Result, OK, FAIL_PATH
  <2> QED
    BY <2>2, <2>3, <2>4
<1>4. CASE UNCHANGED vars
  BY <1>4, SameTable DEF vars, Ended, Result
<1> QED
  BY <1>1, <1>2, <1>3, <1>4, Ends

(* All that a caller needs to know of a unit it has handed over.           *)
UnitInv == ElfInv /\ ReadsInside /\ Ended

LEMMA UnitInvInit == Init => UnitInv
BY InitHolds DEF Init, UnitInv, ReadsInside, Ended

LEMMA UnitInvStep == UnitInv /\ [Next]_vars => UnitInv'
BY ElfInvStep, ReadsStep, EndedHolds DEF UnitInv

(* A unit ends in one of the ways its callers allow for, with at most one  *)
(* diagnostic, and silently only for want of memory to sort.               *)
THEOREM UnitContractHolds == Spec => []UnitContract
<1>1. Init => Ended
  BY DEF Init, Ended
<1>2. ElfInv /\ Ended => UnitContract
  <2> SUFFICES ASSUME ElfInv, pc = "done", Result PROVE UnitContract
    BY DEF Ended, UnitContract
  <2> DEFINE fits(why) == /\ ret = FAIL_PATH <=> why \in UnitFails
                          /\ logged # <<>> <=> why \in UnitLogs
                          /\ listed <=> why = "listed"
  <2>1. \E why \in UNION {UnitOutcomes(s) : s \in {"malformed", "none", "some"}} :
          /\ ret = FAIL_PATH <=> why \in UnitFails
          /\ logged # <<>> <=> why \in UnitLogs
          /\ listed <=> why = "listed"
    <3>1. CASE listed
      <4>1. fits("listed")
        BY <3>1 DEF Result, OK, FAIL_PATH, UnitFails, UnitLogs
      <4> QED
        BY <4>1, Outcomes
    <3>2. CASE ~ listed /\ ret = OK
      <4>1. fits("no_symbols")
        BY <3>2 DEF Result, OK, FAIL_PATH, UnitFails, UnitLogs
      <4> QED
        BY <4>1, Outcomes
    <3>3. CASE ~ listed /\ ret = FAIL_PATH /\ logged # <<>>
      <4>1. fits("malformed")
        BY <3>3 DEF UnitFails, UnitLogs
      <4> QED
        BY <4>1, Outcomes
    <3>4. CASE ~ listed /\ ret = FAIL_PATH /\ logged = <<>>
      <4>1. fits("no_sort")
        BY <3>4 DEF UnitFails, UnitLogs
      <4> QED
        BY <4>1, Outcomes
    <3> QED
      BY <3>1, <3>2, <3>3, <3>4 DEF Result
  <2>2. Len(logged) <= 1
    BY DEF ElfInv, Silent
  <2>3. ret = FAIL_PATH /\ logged = <<>> =>
          /\ Len(symbols) = sym_count
          /\ sym_count * SymSize(Class) = Section(symtab).size
    BY DEF Result
  <2> QED
    BY <2>1, <2>2, <2>3 DEF UnitContract
<1> QED
  BY <1>1, <1>2, EndedHolds, ElfInvHolds, PTL DEF Spec

-----------------------------------------------------------------------------
(* Names and letters. *)

NameEnds(w) ==
  \/ w = Empty
  \/ /\ InTable(w, StrTab) \/ InTable(w, ShStrTab)
     /\ EndsOnce(unit, w)

(* The name given to a symbol that is accepted.                            *)
LEMMA FinalNameEnds ==
  ASSUME Progress, Located, pc \in Counting, NEW k \in Nat, k < sym_count,
         IndexOK(unit.syms[k]), OwnName(unit.syms[k]) # NULL
  PROVE  NameEnds(FinalName(unit.syms[k]))
<1> DEFINE s == unit.syms[k]
<1>1. CASE ~ NamedBySection(s)
  <2>1. FinalName(s) = SafeGetString(unit, StrTab.offset, StrTab.size, s.name)
        /\ FinalName(s) # NULL
    BY <1>1 DEF FinalName, OwnName
  <2>2. s.name \in Nat /\ StrTab.offset \in Nat /\ StrTab.size \in Nat
    BY Tables
  <2>3. unit.limit \in Nat /\ unit.nuls \subseteq Nat
    BY Tables, Numbers
  <2> DEFINE tab == StrTab.offset
             size == StrTab.size
             off == s.name
             w == SafeGetString(unit, tab, size, off)
  <2>4. tab \in Nat /\ size \in Nat /\ off \in Nat /\ w # NULL
    BY <2>1, <2>2
  <2>5. /\ tab <= w.off /\ w.off + w.len <= tab + size
       /\ EndsOnce(unit, w)
    <3> HIDE DEF tab, size, off
    <3> QED
      BY <2>3, <2>4, StringEnds
  <2> QED
    BY <2>1, <2>5 DEF NameEnds, InTable
<1>2. CASE NamedBySection(s) /\ SectionName(s) = NULL
  BY <1>2 DEF FinalName, NameEnds
<1>3. CASE NamedBySection(s) /\ SectionName(s) # NULL
  <2>1. FinalName(s) = SafeGetString(unit, ShStrTab.offset, ShStrTab.size,
                                     Section(s.shndx).name)
        /\ FinalName(s) # NULL
    BY <1>3 DEF FinalName, SectionName
  <2>2. s.shndx \in Nat /\ s.shndx < Shnum
    BY <1>3, Tables DEF NamedBySection, IndexOK
  <2>3. Section(s.shndx).name \in Nat
    BY <2>2, Tables, Numbers
  <2>4. ShStrTab.offset \in Nat /\ ShStrTab.size \in Nat
    BY Tables
  <2>5. unit.limit \in Nat /\ unit.nuls \subseteq Nat
    BY Tables, Numbers
  <2> DEFINE tab == ShStrTab.offset
             size == ShStrTab.size
             off == Section(s.shndx).name
             w == SafeGetString(unit, tab, size, off)
  <2>6. tab \in Nat /\ size \in Nat /\ off \in Nat /\ w # NULL
    BY <2>1, <2>3, <2>4
  <2>7. /\ tab <= w.off /\ w.off + w.len <= tab + size
       /\ EndsOnce(unit, w)
    <3> HIDE DEF tab, size, off
    <3> QED
      BY <2>5, <2>6, StringEnds
  <2> QED
    BY <2>1, <2>7 DEF NameEnds, InTable
<1> QED
  BY <1>1, <1>2, <1>3

LetterSays(s, c) ==
  LET kind  == Section(s.shndx).type
      flags == Section(s.shndx).flags
  IN  /\ c \in {"U", "v", "w"} => s.shndx = SHN_UNDEF
      /\ c \in {"a", "A"} => s.shndx = SHN_ABS
      /\ c = "C" => s.shndx = SHN_COMMON
      /\ s.shndx = SHN_UNDEF => c \in {"U", "v", "w", "i", "u"}
      /\ s.shndx = SHN_ABS => c \in {"a", "A", "V", "W", "i", "u"}
      /\ s.shndx = SHN_COMMON => c \in {"C", "V", "W", "i", "u"}
      /\ c \in {"V", "W", "v", "w"} <=> s.bind = "WEAK" /\ c # "i"
      /\ c \in {"a", "b", "d", "r", "t"} => s.bind = "LOCAL"
      /\ c \in {"A", "B", "D", "R", "T"} => s.bind # "LOCAL"
      /\ c \in {"b", "B", "d", "D"} => {"ALLOC", "WRITE"} \subseteq flags
      /\ c \in {"b", "B"} => kind = "NOBITS"
      /\ c \in {"d", "D"} => kind # "NOBITS"
      /\ c = "p" => kind = "UNWIND"
      /\ c \in {"r", "R"} => "ALLOC" \in flags /\ "WRITE" \notin flags
      /\ c \in {"t", "T"} => {"ALLOC", "EXEC"} \subseteq flags
      /\ c = "N" => kind = "PROGBITS" /\ "ALLOC" \notin flags

(* A section decides by its type and flags, and never for a weak letter.   *)
LEMMA SectionLetter ==
  ASSUME NEW s, NEW sec
  PROVE  LET c == ClassifyBySection(s, sec)
         IN  /\ c \in {"p", "b", "B", "t", "T", "d", "D", "r", "R", "N", "n", "?"}
             /\ c \in {"b", "d", "r", "t"} => s.bind = "LOCAL"
             /\ c \in {"B", "D", "R", "T"} => s.bind # "LOCAL"
             /\ c \in {"b", "B", "d", "D"} => {"ALLOC", "WRITE"} \subseteq sec.flags
             /\ c \in {"r", "R"} => "ALLOC" \in sec.flags /\ "WRITE" \notin sec.flags
             /\ c \in {"t", "T"} => {"ALLOC", "EXEC"} \subseteq sec.flags
             /\ c \in {"b", "B"} => sec.type = "NOBITS"
             /\ c \in {"d", "D"} => sec.type # "NOBITS"
             /\ c = "p" => sec.type = "UNWIND"
             /\ c = "N" => sec.type = "PROGBITS" /\ "ALLOC" \notin sec.flags
BY DEF ClassifyBySection, ByBinding

(* The letter of a symbol that is accepted.                                *)
LEMMA LetterFaithful ==
  ASSUME NEW s, IndexOK(s), s.shndx \in Nat, Shnum \in Nat,
         cache = [k \in 0..(Shnum - 1) |->
                    [type |-> Section(k).type, flags |-> Section(k).flags]]
  PROVE  LetterSays(s, ClassifySymbol(s, cache))
<1> DEFINE c == ClassifySymbol(s, cache)
<1> USE DEF SHN_UNDEF, SHN_ABS, SHN_COMMON
<1>1. CASE s.info_type = "GNU_IFUNC"
  BY <1>1 DEF ClassifySymbol, LetterSays
<1>2. CASE s.info_type # "GNU_IFUNC" /\ s.bind = "GNU_UNIQUE"
  BY <1>2 DEF ClassifySymbol, LetterSays
<1>3. CASE s.info_type # "GNU_IFUNC" /\ s.bind = "WEAK"
  BY <1>3 DEF ClassifySymbol, UndefinedWeak, LetterSays
<1>4. CASE s.info_type # "GNU_IFUNC" /\ s.bind \notin {"GNU_UNIQUE", "WEAK"}
  <2>1. c = ClassifyByShndx(s, cache)
    BY <1>4 DEF ClassifySymbol
  <2>2. CASE s.shndx \in {SHN_UNDEF, SHN_ABS, SHN_COMMON}
    <3>1. \/ s.shndx = SHN_ABS /\ c = ByBinding(s, "a", "A")
          \/ s.shndx = SHN_COMMON /\ c = "C"
          \/ s.shndx = SHN_UNDEF /\ c = "U"
      BY <1>4, <2>1, <2>2 DEF ClassifyByShndx
    <3> HIDE DEF c
    <3>2. LetterSays(s, c)
      BY <1>4, <3>1 DEF ByBinding, LetterSays
    <3> QED
      BY <3>2 DEF c
  <2>3. CASE s.shndx \notin {SHN_UNDEF, SHN_ABS, SHN_COMMON}
    <3> DEFINE sec == cache[s.shndx]
    <3>1. c = ClassifyBySection(s, sec)
      BY <2>1, <2>3 DEF ClassifyByShndx
    <3>2. sec.type = Section(s.shndx).type /\ sec.flags = Section(s.shndx).flags
      <4>1. s.shndx \in 0..(Shnum - 1)
        BY <2>3 DEF IndexOK
      <4> QED
        BY <4>1
    <3> HIDE DEF c, sec
    <3>3. LetterSays(s, c)
      BY <1>4, <2>3, <3>1, <3>2, SectionLetter DEF LetterSays
    <3> QED
      BY <3>3 DEF c
  <2> QED
    BY <2>2, <2>3
<1> QED
  BY <1>1, <1>2, <1>3, <1>4

(* What is known of the symbols loaded so far, and how a step adds to it.  *)
LEMMA Loading ==
  ASSUME ElfInv, [Next]_vars
  PROVE  /\ unit' = unit
         /\ \/ LoadSymbol
            \/ symbols' = symbols /\ symtab' = symtab
            \/ symbols' = <<>>
<1>1. CASE FindStep
  BY <1>1 DEF FindStep, ElfInv, Loaded, Unloaded
<1> QED
  BY <1>1 DEF Next, vars, VerifyElfHeader, NoSymbols, CheckTable, AllocFails, AllocSymbols,
     CacheSections, LoadSymbol, LoadFails, LoadEnds, SortAndPrint, Done

(* The symbol a step loads.                                                *)
LEMMA Loads ==
  ASSUME ElfInv, LoadSymbol
  PROVE  LET s == unit.syms[i]
             e == [name |-> FinalName(s), type |-> ClassifySymbol(s, cache)]
         IN  /\ i \in Nat /\ i < sym_count /\ pc \in Counting
             /\ IndexOK(s) /\ OwnName(s) # NULL
             /\ unit' = unit /\ symtab' = symtab
             /\ DOMAIN symbols = 1..i /\ DOMAIN symbols' = 1..(i + 1)
             /\ \A k \in 1..i : symbols'[k] = symbols[k]
             /\ symbols'[i + 1] = e
<1> DEFINE s == unit.syms[i]
           e == [name |-> FinalName(s), type |-> ClassifySymbol(s, cache)]
<1>1. /\ i \in Nat /\ i < sym_count /\ pc = "load"
      /\ IndexOK(s) /\ OwnName(s) # NULL
      /\ unit' = unit /\ symtab' = symtab
      /\ symbols' = Append(symbols, e)
  BY DEF LoadSymbol, ElfInv, Progress
<1> HIDE DEF e
<1>2. symbols \in Seq(Range(symbols)) /\ Len(symbols) = i
  BY <1>1 DEF ElfInv, Loaded
<1>3. /\ DOMAIN symbols = 1..i /\ DOMAIN symbols' = 1..(i + 1)
      /\ \A k \in 1..i : symbols'[k] = symbols[k]
      /\ symbols'[i + 1] = e
  BY <1>1, <1>2, SeqOfItsElements
<1> QED
  BY <1>1, <1>3 DEF e, Counting

(* Every name handed to the sort is ended by the only NUL it has, inside   *)
(* the table it was looked up in.                                          *)
THEOREM NamesTerminatedHolds == Spec => []NamesTerminated
<1> DEFINE Named == \A k \in DOMAIN symbols : NameEnds(symbols[k].name)
<1>1. NamesTerminated <=> Named
  BY DEF NamesTerminated, NameEnds, EndsOnce
<1>2. Init => NamesTerminated
  BY DEF Init, NamesTerminated
<1>3. ASSUME ElfInv, NamesTerminated, [Next]_vars PROVE NamesTerminated'
  <2>1. CASE LoadSymbol
    <3>1. NameEnds(FinalName(unit.syms[i]))
      BY <1>3, <2>1, Loads, FinalNameEnds DEF ElfInv
    <3>2. /\ i \in Nat /\ DOMAIN symbols = 1..i /\ DOMAIN symbols' = 1..(i + 1)
          /\ \A k \in 1..i : symbols'[k] = symbols[k]
          /\ symbols'[i + 1].name = FinalName(unit.syms[i])
          /\ unit' = unit /\ symtab' = symtab
      BY <1>3, <2>1, Loads
    <3>3. \A k \in DOMAIN symbols' : NameEnds(symbols'[k].name)
      BY <1>1, <1>3, <3>1, <3>2
    <3> QED
      BY <3>2, <3>3, SameTable DEF NamesTerminated, NameEnds, EndsOnce, InTable
  <2>2. CASE symbols' = symbols /\ symtab' = symtab
    BY <1>3, <2>2, Loading, SameTable DEF NamesTerminated, InTable
  <2>3. CASE symbols' = <<>>
    BY <2>3 DEF NamesTerminated
  <2> QED
    BY <1>3, <2>1, <2>2, <2>3, Loading
<1> QED
  BY <1>2, <1>3, ElfInvHolds, PTL DEF Spec

(* The letter of every symbol loaded says what its unit says of it.        *)
THEOREM LettersFaithfulHolds == Spec => []LettersFaithful
<1>1. LettersFaithful <=>
        \A k \in DOMAIN symbols : LetterSays(unit.syms[k - 1], symbols[k].type)
  BY DEF LettersFaithful, LetterSays
<1>2. Init => LettersFaithful
  BY DEF Init, LettersFaithful
<1>3. ASSUME ElfInv, LettersFaithful, [Next]_vars PROVE LettersFaithful'
  <2>1. CASE LoadSymbol
    <3>1. LetterSays(unit.syms[i], ClassifySymbol(unit.syms[i], cache))
      <4>1. IndexOK(unit.syms[i]) /\ i \in Nat /\ i < sym_count /\ pc \in Counting
        BY <1>3, <2>1, Loads
      <4>2. unit.syms[i].shndx \in Nat /\ Shnum \in Nat
        BY <1>3, <4>1, Tables, Numbers DEF ElfInv
      <4>3. cache = [k \in 0..(Shnum - 1) |->
                       [type |-> Section(k).type, flags |-> Section(k).flags]]
        BY <1>3, <2>1 DEF LoadSymbol, ElfInv, Loaded
      <4> QED
        BY <4>1, <4>2, <4>3, LetterFaithful
    <3>2. /\ i \in Nat /\ DOMAIN symbols = 1..i /\ DOMAIN symbols' = 1..(i + 1)
          /\ \A k \in 1..i : symbols'[k] = symbols[k]
          /\ symbols'[i + 1].type = ClassifySymbol(unit.syms[i], cache)
          /\ unit' = unit
      BY <1>3, <2>1, Loads
    <3>3. \A k \in DOMAIN symbols' : LetterSays(unit.syms[k - 1], symbols'[k].type)
      BY <1>1, <1>3, <3>1, <3>2
    <3> QED
      BY <3>2, <3>3, SameUnit DEF LettersFaithful, LetterSays
  <2>2. CASE symbols' = symbols
    BY <1>3, <2>2, Loading, SameUnit DEF LettersFaithful
  <2>3. CASE symbols' = <<>>
    BY <2>3 DEF LettersFaithful
  <2> QED
    BY <1>3, <2>1, <2>2, <2>3, Loading
<1> QED
  BY <1>2, <1>3, ElfInvHolds, PTL DEF Spec
=============================================================================
