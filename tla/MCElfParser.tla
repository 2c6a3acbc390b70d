----------------------------- MODULE MCElfParser -----------------------------
(***************************************************************************)
(* ElfParser on a small sound unit of either class, and on every unit that *)
(* differs from it in one field, in its length or in one symbol.           *)
(***************************************************************************)
EXTENDS ElfParser

Big == WORD - 1

Shdr(type, flags, offset, size, link, entsize, name) ==
  [type |-> type, flags |-> flags, offset |-> offset, size |-> size,
   link |-> link, entsize |-> entsize, name |-> name]

Sym(name, shndx, info_type, bind) ==
  [name |-> name, shndx |-> shndx, info_type |-> info_type, bind |-> bind]

(* Header, section headers, symbols, ".strtab" (6 bytes, 2 names behind    *)
(* the empty one) and ".shstrtab" (5 bytes).  What a sixth section header  *)
(* would hold, behind the five there are, is there to be read as well.     *)
Base(class) ==
  LET sht == EhdrSize(class)
      sym == sht + 5 * ShdrSize(class)
      str == sym + 3 * SymSize(class)
      shs == str + 6
  IN  [limit |-> shs + 5,
       ident |-> [magic |-> "ELF", data |-> "LSB", class |-> class],
       ehdr  |-> [type |-> "REL", machine |-> "X86_64", shoff |-> sht, shnum |-> 5,
                  shstrndx |-> 4, shentsize |-> ShdrSize(class)],
       shdr  |-> [k \in 0..5 |->
                    CASE k = 1 -> Shdr("PROGBITS", {"ALLOC", "EXEC"}, sht, 1, 0, 0, 1)
                      [] k = 2 -> Shdr("SYMTAB", {}, sym, 3 * SymSize(class),
                                       3, SymSize(class), 1)
                      [] k = 3 -> Shdr("STRTAB", {}, str, 6, 0, 0, 1)
                      [] k = 4 -> Shdr("STRTAB", {}, shs, 5, 0, 0, 1)
                      [] OTHER -> Shdr("NULL", {}, 0, 0, 0, 0, 0)],
       syms  |-> [k \in 0..3 |->
                    CASE k = 1 -> Sym(1, 1, "FUNC", "GLOBAL")
                      [] k = 2 -> Sym(0, 1, "SECTION", "LOCAL")
                      [] OTHER -> Sym(0, 0, "NOTYPE", "LOCAL")],
       nuls  |-> {str, str + 2, str + 5, shs, shs + 4}]

Sound == {Base(32), Base(64)}

Boundaries(u) == {0, 1, u.limit - 1, u.limit, u.limit + 1, Big}
Near(n)       == {n - 1, n, n + 1}

(* The length, and each field of the header. *)
BadHeader(u) ==
  {[u EXCEPT !.limit = n] :
     n \in {4, 15, 16, 51, 52, 63, 64, u.shdr[2].offset - 1, u.limit - 6,
            u.limit - 1, u.limit + 1}}
  \cup {[u EXCEPT !.ident.data = "MSB"], [u EXCEPT !.ident.class = 0],
        [u EXCEPT !.ehdr.type = "CORE"], [u EXCEPT !.ehdr.machine = "ARM"]}
  \cup {[u EXCEPT !.ehdr.shoff = n] :
          n \in Boundaries(u) \cup Near(u.limit - 5 * ShdrSize(u.ident.class))}
  \cup {[u EXCEPT !.ehdr.shnum = n] : n \in {0, 1, 2, 3, 4, 6}}
  \cup {[u EXCEPT !.ehdr.shstrndx = n] : n \in {0, 3, 5, 6}}
  \cup {[u EXCEPT !.ehdr.shentsize = n] : n \in {0, 40, 63, 64, 65}}

(* Each field of the headers of the symbol table and the string tables. *)
BadSection(u) ==
  {[u EXCEPT !.shdr[k].type = t] : k \in 2..4, t \in {"NULL", "SYMTAB", "STRTAB"}}
  \cup {[u EXCEPT !.shdr[1] = u.shdr[2]]}
  \cup {[u EXCEPT !.shdr[2].link = n] : n \in {0, 2, 4, 5, 6}}
  \cup {[u EXCEPT !.shdr[2].entsize = n] :
          n \in {0} \cup Near(u.shdr[2].entsize)}
  \cup {[u EXCEPT !.shdr[k].offset = n] :
          k \in 2..4, n \in Boundaries(u) \cup Near(u.shdr[3].offset)}
  \cup {[u EXCEPT !.shdr[2].size = n] :
          n \in {0, SymSize(u.ident.class), Big} \cup Near(u.shdr[2].size)
               \cup Near(4 * SymSize(u.ident.class))}
  \cup {[u EXCEPT !.shdr[k].size = n] :
          k \in 3..4, n \in Boundaries(u) \cup 0..7}
  \cup {[u EXCEPT !.shdr[1].name = n] : n \in {0, 4, 5, Big}}
  \cup {[u EXCEPT !.nuls = @ \ {n}] : n \in u.nuls}

(* Another symbol 1, and another kind of section to define it. *)
BadSymbol(u) ==
  {[u EXCEPT !.syms[1] = Sym(name, shndx, info_type, bind)] :
     name \in {0, 3, 5, 6, Big}, shndx \in {0, 1, 4, 5, SHN_ABS, SHN_COMMON, 65535},
     info_type \in {"FUNC", "OBJECT", "SECTION"},
     bind \in {"LOCAL", "GLOBAL", "WEAK"}}
  \cup
  {[u EXCEPT !.syms[1] = Sym(1, 1, info_type, bind),
             !.shdr[1].type = type, !.shdr[1].flags = flags] :
     info_type \in {"FUNC", "OBJECT", "GNU_IFUNC"},
     bind \in {"LOCAL", "GLOBAL", "WEAK", "GNU_UNIQUE"},
     type \in {"PROGBITS", "NOBITS", "UNWIND", "NOTE"},
     flags \in SUBSET {"ALLOC", "WRITE", "EXEC"}}

MCUnits ==
  UNION {{u} \cup BadHeader(u) \cup BadSection(u) \cup BadSymbol(u) : u \in Sound}
=============================================================================
