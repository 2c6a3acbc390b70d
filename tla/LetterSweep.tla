----------------------------- MODULE LetterSweep -----------------------------
(***************************************************************************)
(* Every symbol against every kind of section, one after the other: the    *)
(* letters classify_symbol computes for them.                              *)
(***************************************************************************)
EXTENDS SymClassify

(* The places a symbol may be defined in, and the symbols there may be, as *)
(* far as the tests of sym_classify.c tell them apart.                     *)
Places ==
  [shndx : {SHN_UNDEF, 1, SHN_ABS, SHN_COMMON},
   type  : {"PROGBITS", "NOBITS", "UNWIND", "NOTE"},
   flags : SUBSET {"ALLOC", "WRITE", "EXEC"}]

Symbols(shndx) ==
  [info_type : {"NOTYPE", "OBJECT", "GNU_IFUNC"},
   bind  : {"LOCAL", "GLOBAL", "WEAK", "GNU_UNIQUE"},
   shndx : {shndx}]

VARIABLES
  rest,   \* the places still to be tried
  seen    \* the letters computed so far

vars == <<rest, seen>>

Init == rest = Places /\ seen = {}

ClassifyNext ==
  /\ rest # {}
  /\ LET p == CHOOSE q \in rest : TRUE
         cache == [k \in 0..1 |-> [type |-> p.type, flags |-> p.flags]]
     IN  /\ seen' = seen \cup {ClassifySymbol(s, cache) : s \in Symbols(p.shndx)}
         /\ rest' = rest \ {p}

Done == rest = {} /\ UNCHANGED vars

Next == ClassifyNext \/ Done

Spec == Init /\ [][Next]_vars /\ WF_vars(Next)

-----------------------------------------------------------------------------
(* Properties. *)

(* The letters portfolio_audit/implementation_scope.md counts: 22 of them. *)
Documented ==
  {"a", "A", "C", "U", "v", "V", "w", "W", "i", "u", "b", "B", "t", "T",
   "d", "D", "r", "R", "p", "N", "n", "?"}

(* classify_symbol answers with a letter for every symbol there can be,    *)
(* and each letter it knows is the answer for some symbol, except 'n': an  *)
(* allocated section is writable, executable or read-only before it can be *)
(* asked whether it is anything else.                                      *)
LettersComputed ==
  /\ seen \subseteq Documented \ {"n"}
  /\ rest = {} => seen = Documented \ {"n"}

(* What the document says: classify_symbol can return 22 letters.          *)
EveryDocumentedLetter == rest = {} => seen = Documented
=============================================================================
