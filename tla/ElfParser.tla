------------------------------ MODULE ElfParser ------------------------------
(***************************************************************************)
(* process_elf_unit (src/elf_parser.c): header check, search of the symbol *)
(* table, loading and classification of its symbols, hand-over to          *)
(* sort_and_print_symbols, on one ELF unit.                                *)
(*                                                                         *)
(* A unit is a record of                                                   *)
(*   limit   its size in bytes                                             *)
(*   ident   magic, data and class of e_ident                              *)
(*   ehdr    type, machine, shoff, shnum, shstrndx, shentsize              *)
(*   shdr    what each section header holds: type, flags, offset, size,    *)
(*           link, entsize and name, by section index                      *)
(*   syms    what each symbol holds: name, shndx, info_type and bind, by   *)
(*           index in the table                                            *)
(*   nuls    the offsets of the NUL bytes that end its strings             *)
(* The two classes differ in the sizes of their structures alone.          *)
(***************************************************************************)
EXTENDS NmTypes, SymClassify, SequencesExt

CONSTANT Units   \* the units process_elf_unit may be called on

EI_NIDENT == 16
EhdrSize(class) == IF class = 64 THEN 64 ELSE 52
ShdrSize(class) == IF class = 64 THEN 64 ELSE 40
SymSize(class)  == IF class = 64 THEN 24 ELSE 16
NmSymSize == 48          \* sizeof (t_NmSymData)
SIZE_MAX  == WORD - 1

(* verify_elf_header. *)
HeaderOK(u) ==
  /\ CheckRange(0, EI_NIDENT, u.limit)
  /\ u.ident.magic = "ELF"
  /\ u.ident.data = "LSB"
  /\ u.ident.class \in {32, 64}
  /\ CheckRange(0, EhdrSize(u.ident.class), u.limit)
  /\ u.ehdr.type \in {"REL", "EXEC", "DYN"}
  /\ u.ehdr.machine \in {"X86_64", "386"}
  /\ u.ehdr.shoff # 0 /\ u.ehdr.shnum # 0
  /\ u.ehdr.shstrndx < u.ehdr.shnum
  /\ u.ehdr.shentsize = ShdrSize(u.ident.class)
  /\ CheckRange(u.ehdr.shoff, u.ehdr.shnum * u.ehdr.shentsize, u.limit)

(* The fields of the structures in a unit are unsigned.  What a section    *)
(* header holds is known for those of the header table, what a symbol      *)
(* holds for those of each symbol table inside the unit.                   *)
UnitOK(u) ==
  /\ u.limit \in Nat /\ u.limit < WORD /\ u.nuls \subseteq Nat
  /\ HeaderOK(u) =>
       /\ u.ehdr.shoff \in Nat /\ u.ehdr.shnum \in Nat /\ u.ehdr.shstrndx \in Nat
       /\ \A k \in 0..(u.ehdr.shnum - 1) :
            LET t == u.shdr[k]
                n == t.size \div SymSize(u.ident.class)
            IN  /\ {t.offset, t.size, t.link, t.name} \subseteq Nat
                /\ t.type = "SYMTAB" /\ CheckRange(t.offset, t.size, u.limit) =>
                     \A j \in 0..(n - 1) :
                       u.syms[j].name \in Nat /\ u.syms[j].shndx \in Nat

ASSUME UnitsAssumption == \A u \in Units : UnitOK(u)

(* safe_get_string: the string at an offset of a table, as the window of   *)
(* its bytes, or NULL when no NUL ends it inside the table.  Scanned is the *)
(* window ft_memchr searches, up to the first NUL or to the table's end.   *)
NULL  == [off |-> -1, len |-> 0]
Empty == [off |-> 0, len |-> 0]      \* the literal "", or nothing

Scanned(u, tab, tabsize, off) ==
  LET ends == {n \in u.nuls : tab + off <= n /\ n < tab + tabsize}
  IN  IF off >= tabsize \/ ~ CheckRange(tab, tabsize, u.limit) THEN Empty
      ELSE [off |-> tab + off,
            len |-> Min({n + 1 : n \in ends} \cup {tab + tabsize}) - (tab + off)]

(* Mutant: no search for the terminator. *)
SafeGetStringUnterminated(u, tab, tabsize, off) ==
  LET w == Scanned(u, tab, tabsize, off)
  IN  IF w # Empty THEN w ELSE NULL

SafeGetString(u, tab, tabsize, off) ==
  LET w == Scanned(u, tab, tabsize, off)
  IN  IF w.off + w.len - 1 \in u.nuls THEN w ELSE NULL

VARIABLES
  unit,
  pc,         \* "verify", "find", "table", "alloc", "cache", "load", "print",
              \* "done"
  i,          \* section or symbol index
  symtab,     \* index of the symbol table's section
  sym_count,
  symbols,    \* the symbols loaded so far: name and letter
  cache,      \* shdr_cache, by section index
  heap,       \* which of "symbols" and "shdr_cache" are allocated
  reads,      \* history: the windows [off, len] of the unit that were read
  listed,     \* were the symbols printed?
  logged,     \* diagnostics written
  ret

vars == <<unit, pc, i, symtab, sym_count, symbols, cache, heap, reads, listed,
          logged, ret>>

Class    == unit.ident.class
Shnum    == unit.ehdr.shnum
Section(k) == unit.shdr[k]
StrTab   == Section(Section(symtab).link)
ShStrTab == Section(unit.ehdr.shstrndx)

Window(off, len) == [off |-> off, len |-> len]
ShdrWindow(k) == Window(Wrap(unit.ehdr.shoff + k * ShdrSize(Class)), ShdrSize(Class))
SymWindow(k)  == Window(Wrap(Section(symtab).offset + k * SymSize(Class)), SymSize(Class))

Init ==
  /\ unit \in Units
  /\ pc = "verify"
  /\ i = 0 /\ symtab = 0 /\ sym_count = 0
  /\ symbols = <<>> /\ cache = <<>>
  /\ heap = {} /\ reads = {}
  /\ listed = FALSE /\ logged = <<>> /\ ret = "none"

(* Mutant: the early returns forget the arrays. *)
NotRecognizedLeaks ==
  /\ pc' = "done" /\ ret' = FAIL_PATH
  /\ logged' = Append(logged, "not_recognized")
  /\ UNCHANGED heap

(* Every failure but one: free what was allocated, one diagnostic.         *)
NotRecognized ==
  /\ pc' = "done" /\ ret' = FAIL_PATH
  /\ logged' = Append(logged, "not_recognized")
  /\ heap' = {}

VerifyElfHeader ==
  /\ pc = "verify"
  /\ reads' = IF ~ CheckRange(0, EI_NIDENT, unit.limit) THEN reads
              ELSE reads \cup {Window(0, EI_NIDENT)} \cup
                   (IF HeaderOK(unit) THEN {Window(0, EhdrSize(Class))} ELSE {})
  /\ IF HeaderOK(unit) THEN pc' = "find" /\ UNCHANGED <<heap, logged, ret>>
                       ELSE NotRecognized
  /\ UNCHANGED <<unit, i, symtab, sym_count, symbols, cache, listed>>

(* Mutant: a null header is skipped before the index has moved. *)
FindStepStuck ==
  /\ pc = "find" /\ i < Shnum
  /\ reads' = reads \cup {ShdrWindow(i)}
  /\ IF Section(i).type = "SYMTAB"
     THEN symtab' = i /\ pc' = "table" /\ UNCHANGED i
     ELSE /\ i' = IF Section(i).type = "NULL" THEN i ELSE i + 1
          /\ UNCHANGED <<symtab, pc>>
  /\ UNCHANGED <<unit, sym_count, symbols, cache, heap, listed, logged, ret>>

(* find_symbol_table: the first SHT_SYMTAB section. *)
FindStep ==
  /\ pc = "find" /\ i < Shnum
  /\ reads' = reads \cup {ShdrWindow(i)}
  /\ IF Section(i).type = "SYMTAB"
     THEN symtab' = i /\ pc' = "table" /\ UNCHANGED i
     ELSE i' = i + 1 /\ UNCHANGED <<symtab, pc>>
  /\ UNCHANGED <<unit, sym_count, symbols, cache, heap, listed, logged, ret>>

NoSymbols ==
  /\ pc = "find" /\ i >= Shnum
  /\ pc' = "done" /\ ret' = OK
  /\ logged' = Append(logged, "no_symbols")
  /\ UNCHANGED <<unit, i, symtab, sym_count, symbols, cache, heap, reads, listed>>

(* Mutant: the symbol table is not checked against the unit's end. *)
TableOKUnbounded ==
  LET t == Section(symtab)
  IN  /\ t.link < Shnum
      /\ Section(t.link).type = "STRTAB"
      /\ t.entsize = SymSize(Class)
      /\ t.size % SymSize(Class) = 0
      /\ CheckRange(StrTab.offset, StrTab.size, unit.limit)
      /\ CheckRange(ShStrTab.offset, ShStrTab.size, unit.limit)

TableOK ==
  LET t == Section(symtab)
  IN  /\ t.link < Shnum
      /\ Section(t.link).type = "STRTAB"
      /\ t.entsize = SymSize(Class)
      /\ t.size % SymSize(Class) = 0
      /\ CheckRange(t.offset, t.size, unit.limit)
      /\ CheckRange(StrTab.offset, StrTab.size, unit.limit)
      /\ CheckRange(ShStrTab.offset, ShStrTab.size, unit.limit)

CheckTable ==
  /\ pc = "table"
  /\ reads' = reads \cup {ShdrWindow(symtab)} \cup
              (IF Section(symtab).link < Shnum
               THEN {ShdrWindow(Section(symtab).link)} ELSE {}) \cup
              (IF TableOK THEN {ShdrWindow(unit.ehdr.shstrndx)} ELSE {})
  /\ IF TableOK
     THEN /\ sym_count' = Section(symtab).size \div SymSize(Class)
          /\ pc' = "alloc"
          /\ UNCHANGED <<heap, logged, ret>>
     ELSE NotRecognized /\ UNCHANGED sym_count
  /\ UNCHANGED <<unit, i, symtab, symbols, cache, listed>>

(* load_symbols.  For a table of no symbols malloc is asked for 0 bytes,   *)
(* and may answer NULL as it may for any other size.                       *)
AllocFails ==
  /\ pc \in {"alloc", "cache"}
  /\ NotRecognized
  /\ UNCHANGED <<unit, i, symtab, sym_count, symbols, cache, reads, listed>>

AllocSymbols ==
  /\ pc = "alloc"
  /\ sym_count <= SIZE_MAX \div NmSymSize
  /\ heap' = heap \cup {"symbols"}
  /\ pc' = "cache"
  /\ UNCHANGED <<unit, i, symtab, sym_count, symbols, cache, reads, listed,
                 logged, ret>>

CacheSections ==
  /\ pc = "cache"
  /\ heap' = heap \cup {"shdr_cache"}
  /\ cache' = [k \in 0..(Shnum - 1) |->
                 [type |-> Section(k).type, flags |-> Section(k).flags]]
  /\ reads' = reads \cup {ShdrWindow(k) : k \in 0..(Shnum - 1)}
  /\ i' = 0
  /\ pc' = "load"
  /\ UNCHANGED <<unit, symtab, sym_count, symbols, listed, logged, ret>>

(* A section index must be that of a section, or one of the two reserved   *)
(* ones, which a section symbol may not have.                              *)
IndexOK(s) ==
  \/ s.shndx < Shnum
  \/ s.shndx \in {SHN_ABS, SHN_COMMON} /\ s.info_type # "SECTION"

OwnName(s) == SafeGetString(unit, StrTab.offset, StrTab.size, s.name)

NamedBySection(s) ==
  s.info_type = "SECTION" /\ ShStrTab.offset # 0 /\ ShStrTab.size # 0

SectionName(s) ==
  SafeGetString(unit, ShStrTab.offset, ShStrTab.size, Section(s.shndx).name)

(* A section symbol takes its section's name, if that can be read. *)
FinalName(s) ==
  IF ~ NamedBySection(s) THEN OwnName(s)
  ELSE IF SectionName(s) = NULL THEN Empty ELSE SectionName(s)

(* What is read of the unit for a symbol whose section index is valid. *)
NameReads(s) ==
  {Scanned(unit, StrTab.offset, StrTab.size, s.name)} \cup
  (IF OwnName(s) # NULL /\ NamedBySection(s)
   THEN {ShdrWindow(s.shndx),
         Scanned(unit, ShStrTab.offset, ShStrTab.size, Section(s.shndx).name)}
   ELSE {})

(* Mutant: the loop runs one symbol too far. *)
LoadSymbolBeyond ==
  /\ pc = "load" /\ i <= sym_count
  /\ IndexOK(unit.syms[i]) /\ OwnName(unit.syms[i]) # NULL
  /\ symbols' = Append(symbols, [name |-> FinalName(unit.syms[i]),
                                 type |-> ClassifySymbol(unit.syms[i], cache)])
  /\ i' = i + 1
  /\ UNCHANGED <<unit, pc, symtab, sym_count, cache, heap, reads, listed,
                 logged, ret>>

LoadSymbol ==
  /\ pc = "load" /\ i < sym_count
  /\ IndexOK(unit.syms[i]) /\ OwnName(unit.syms[i]) # NULL
  /\ LET s == unit.syms[i]
     IN  /\ symbols' = Append(symbols, [name |-> FinalName(s),
                                        type |-> ClassifySymbol(s, cache)])
         /\ reads' = reads \cup {SymWindow(i)} \cup NameReads(s)
  /\ i' = i + 1
  /\ UNCHANGED <<unit, pc, symtab, sym_count, cache, heap, listed, logged, ret>>

(* Mutant: a bad symbol ends the loop instead of the call. *)
LoadFailsBreaks ==
  /\ pc = "load" /\ i < sym_count
  /\ ~ IndexOK(unit.syms[i]) \/ OwnName(unit.syms[i]) = NULL
  /\ pc' = "print"
  /\ UNCHANGED <<unit, i, symtab, sym_count, symbols, cache, heap, reads,
                 listed, logged, ret>>

LoadFails ==
  /\ pc = "load" /\ i < sym_count
  /\ ~ IndexOK(unit.syms[i]) \/ OwnName(unit.syms[i]) = NULL
  /\ reads' = reads \cup {SymWindow(i)} \cup
              (IF IndexOK(unit.syms[i]) THEN NameReads(unit.syms[i]) ELSE {})
  /\ NotRecognized
  /\ UNCHANGED <<unit, i, symtab, sym_count, symbols, cache, listed>>

LoadEnds ==
  /\ pc = "load" /\ i >= sym_count
  /\ pc' = "print"
  /\ UNCHANGED <<unit, i, symtab, sym_count, symbols, cache, heap, reads,
                 listed, logged, ret>>

(* Mutant: its result is dropped. *)
SortAndPrintIgnored ==
  /\ pc = "print"
  /\ listed' \in BOOLEAN
  /\ ret' = OK
  /\ heap' = {}
  /\ pc' = "done"
  /\ UNCHANGED <<unit, i, symtab, sym_count, symbols, cache, reads, logged>>

(* sort_and_print_symbols, which fails without a diagnostic when it cannot *)
(* allocate its copy; then both arrays are freed.                          *)
SortAndPrint ==
  /\ pc = "print"
  /\ \/ listed' = TRUE /\ ret' = OK
     \/ listed' = FALSE /\ ret' = FAIL_PATH
  /\ heap' = {}
  /\ pc' = "done"
  /\ UNCHANGED <<unit, i, symtab, sym_count, symbols, cache, reads, logged>>

Done == pc = "done" /\ UNCHANGED vars

Next ==
  \/ VerifyElfHeader \/ FindStep \/ NoSymbols \/ CheckTable \/ AllocFails
  \/ AllocSymbols \/ CacheSections \/ LoadSymbol \/ LoadFails \/ LoadEnds
  \/ SortAndPrint \/ Done

(* A sequential call with nothing to wait for. *)
Spec == Init /\ [][Next]_vars /\ WF_vars(Next)

-----------------------------------------------------------------------------
(* Properties. *)

TypeOK ==
  /\ pc \in {"verify", "find", "table", "alloc", "cache", "load", "print", "done"}
  /\ i \in Nat /\ symtab \in Nat /\ sym_count \in Nat
  /\ symbols \in Seq(Range(symbols)) /\ Len(symbols) <= sym_count
  /\ heap \subseteq {"symbols", "shdr_cache"}
  /\ listed \in BOOLEAN
  /\ logged \in Seq({"not_recognized", "no_symbols"})
  /\ ret \in {"none", OK, FAIL_PATH}

(* Whatever the fields of the unit say, no byte behind its end is read:    *)
(* not by the walk over the section headers, not by the one over the       *)
(* symbols and not by a search for the end of a string.                    *)
ReadsInBounds == \A w \in reads : w.off + w.len <= unit.limit

(* Every name that goes to the sort is a string that its own NUL ends      *)
(* inside the table it comes from, even when the tables overlap, or "".    *)
InTable(w, t) == t.offset <= w.off /\ w.off + w.len <= t.offset + t.size

NamesTerminated ==
  \A k \in DOMAIN symbols :
    LET w == symbols[k].name
    IN  \/ w = Empty
        \/ /\ InTable(w, StrTab) \/ InTable(w, ShStrTab)
           /\ {n \in unit.nuls : w.off <= n /\ n < w.off + w.len}
                = {w.off + w.len - 1}

(* The symbols listed are those of the whole table, in its order: a table  *)
(* is never listed in part, and a refused unit lists nothing.              *)
AllOrNothing ==
  /\ listed => ret = OK /\ Len(symbols) = sym_count
                        /\ sym_count * SymSize(Class) = Section(symtab).size
  /\ pc \in {"load", "print"} => Len(symbols) = i
  /\ ret = FAIL_PATH => ~ listed

(* The letter computed for a symbol says of it what its unit says: where   *)
(* it is defined, in what kind of section and how it is bound.             *)
LettersFaithful ==
  \A k \in DOMAIN symbols :
    LET s     == unit.syms[k - 1]
        c     == symbols[k].type
        kind  == Section(s.shndx).type
        flags == Section(s.shndx).flags
    IN  /\ c \in {"U", "v", "w"} => s.shndx = SHN_UNDEF
        /\ c \in {"a", "A"} => s.shndx = SHN_ABS
        /\ c = "C" => s.shndx = SHN_COMMON
        /\ s.shndx = SHN_UNDEF => c \in {"U", "v", "w", "i", "u"}
        /\ s.shndx = SHN_ABS => c \in {"a", "A", "V", "W", "i", "u"}
        /\ s.shndx = SHN_COMMON => c \in {"C", "V", "W", "i", "u"}
        /\ c \in {"V", "W", "v", "w"} <=> s.bind = "WEAK" /\ c # "i"
        /\ c \in {"a", "b", "d", "r", "t"} => s.bind = "LOCAL"
        /\ c \in {"A", "B", "D", "R", "T"} => s.bind # "LOCAL"
        /\ c \in {"b", "B", "d", "D"} => {"ALLOC", "WRITE"} \subseteq flags
        /\ c \in {"b", "B"} => kind = "NOBITS"
        /\ c \in {"d", "D"} => kind # "NOBITS"
        /\ c = "p" => kind = "UNWIND"
        /\ c \in {"r", "R"} => "ALLOC" \in flags /\ "WRITE" \notin flags
        /\ c \in {"t", "T"} => {"ALLOC", "EXEC"} \subseteq flags
        /\ c = "N" => kind = "PROGBITS" /\ "ALLOC" \notin flags

(* The arrays are both there as long as symbols are loaded into them, and  *)
(* both released on every way out.                                         *)
HeapBalanced ==
  /\ pc \in {"load", "print"} => heap = {"symbols", "shdr_cache"}
  /\ pc = "done" => heap = {}

(* What the callers, process_path and process_ar_archive, rely on: a unit  *)
(* ends in one of the ways of UnitOutcomes, with at most one diagnostic,   *)
(* and only a complete table whose copy could not be allocated fails       *)
(* without one.                                                            *)
UnitContract ==
  pc = "done" =>
    /\ \E why \in UNION {UnitOutcomes(s) : s \in {"malformed", "none", "some"}} :
         /\ ret = FAIL_PATH <=> why \in UnitFails
         /\ logged # <<>> <=> why \in UnitLogs
         /\ listed <=> why = "listed"
    /\ Len(logged) <= 1
    /\ ret = FAIL_PATH /\ logged = <<>> =>
         /\ Len(symbols) = sym_count
         /\ sym_count * SymSize(Class) = Section(symtab).size

(* The call returns. *)
Terminates == <>(pc = "done")

(* archi/architecture.md: an entry size of 0 stands for the size of the    *)
(* structure when the symbols are counted.                                 *)
ZeroEntsizeResolved ==
  pc = "done" /\ HeaderOK(unit) =>
    \A k \in 0..(Shnum - 1) :
      Section(k).type = "SYMTAB" /\ Section(k).entsize = 0 =>
        sym_count = Section(k).size \div SymSize(Class)
=============================================================================
