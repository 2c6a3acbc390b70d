----------------------------- MODULE SymClassify -----------------------------
(***************************************************************************)
(* classify_symbol (sym_classify.c): the letter of a symbol, from its      *)
(* binding, type and section index and from the cached type and flags of   *)
(* its section.                                                            *)
(*                                                                         *)
(* A symbol is a record with shndx, info_type and bind; a section one with *)
(* type and flags, a subset of {"ALLOC", "WRITE", "EXEC"}.                 *)
(***************************************************************************)
EXTENDS Integers

SHN_UNDEF  == 0
SHN_ABS    == 65521
SHN_COMMON == 65522

ByBinding(sym, local, global) == IF sym.bind = "LOCAL" THEN local ELSE global

(* Mutant: unwind sections are not singled out. *)
ClassifyBySectionNoUnwind(sym, sec) ==
  CASE {"ALLOC", "EXEC"} \subseteq sec.flags  -> ByBinding(sym, "t", "T")
    [] {"ALLOC", "WRITE"} \subseteq sec.flags /\ "EXEC" \notin sec.flags ->
         IF sec.type = "NOBITS" THEN ByBinding(sym, "b", "B")
                                ELSE ByBinding(sym, "d", "D")
    [] sec.flags = {"ALLOC"}  -> ByBinding(sym, "r", "R")
    [] "ALLOC" \notin sec.flags -> IF sec.type = "PROGBITS" THEN "N" ELSE "?"

(* The tests are made in this order, and the first that holds decides.     *)
ClassifyBySection(sym, sec) ==
  LET alloc == "ALLOC" \in sec.flags
      write == "WRITE" \in sec.flags
      exec  == "EXEC" \in sec.flags
  IN  IF sec.type = "UNWIND"                      THEN "p"
      ELSE IF sec.type = "NOBITS" /\ alloc /\ write THEN ByBinding(sym, "b", "B")
      ELSE IF alloc /\ exec                       THEN ByBinding(sym, "t", "T")
      ELSE IF alloc /\ write                      THEN ByBinding(sym, "d", "D")
      ELSE IF alloc /\ ~ write                    THEN ByBinding(sym, "r", "R")
      ELSE IF sec.type = "PROGBITS" /\ ~ alloc    THEN "N"
      ELSE IF sec.type = "PROGBITS"               THEN "n"
      ELSE "?"

UndefinedWeak(sym) == IF sym.info_type = "OBJECT" THEN "v" ELSE "w"

ClassifyByShndx(sym, cache) ==
  CASE sym.shndx = SHN_ABS    -> ByBinding(sym, "a", "A")
    [] sym.shndx = SHN_COMMON -> "C"
    [] sym.shndx = SHN_UNDEF  -> IF sym.bind = "WEAK" THEN UndefinedWeak(sym)
                                                      ELSE "U"
    [] OTHER                  -> ClassifyBySection(sym, cache[sym.shndx])

(* Mutant: weak symbols are classified by their section. *)
ClassifyWithoutWeak(sym, cache) ==
  CASE sym.info_type = "GNU_IFUNC" -> "i"
    [] sym.info_type # "GNU_IFUNC" /\ sym.bind = "GNU_UNIQUE" -> "u"
    [] OTHER -> ClassifyByShndx(sym, cache)

ClassifySymbol(sym, cache) ==
  IF sym.info_type = "GNU_IFUNC"     THEN "i"
  ELSE IF sym.bind = "GNU_UNIQUE"    THEN "u"
  ELSE IF sym.bind # "WEAK"          THEN ClassifyByShndx(sym, cache)
  ELSE IF sym.shndx = SHN_UNDEF      THEN UndefinedWeak(sym)
  ELSE IF sym.info_type = "OBJECT"   THEN "V" ELSE "W"
=============================================================================
