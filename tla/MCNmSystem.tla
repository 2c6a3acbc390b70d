------------------------------ MODULE MCNmSystem ------------------------------
(***************************************************************************)
(* The whole program on command lines of up to MaxArgs arguments, over     *)
(* files and archives with small contents of every kind.                   *)
(***************************************************************************)
EXTENDS NmSystem

CONSTANT MaxArgs

Shdr(type, offset, size, link, entsize) ==
  [type |-> type, flags |-> {}, offset |-> offset, size |-> size, link |-> link,
   entsize |-> entsize, name |-> 0]

(* A unit of 64 bits with three section headers, the second one of type    *)
(* table, one symbol, and a string table that names it.                    *)
Unit(etype, table) ==
  [limit |-> 284,
   ident |-> [magic |-> "ELF", data |-> "LSB", class |-> 64],
   ehdr  |-> [type |-> etype, machine |-> "X86_64", shoff |-> 64, shnum |-> 3,
              shstrndx |-> 2, shentsize |-> 64],
   shdr  |-> [k \in 0..2 |->
                CASE k = 1 -> Shdr(table, 256, 24, 2, 24)
                  [] k = 2 -> Shdr("STRTAB", 280, 4, 0, 0)
                  [] OTHER -> Shdr("NULL", 0, 0, 0, 0)],
   syms  |-> [k \in 0..0 |-> [name |-> 1, shndx |-> 65521,
                              info_type |-> "FUNC", bind |-> "GLOBAL"]],
   nuls  |-> {280, 283}]

Content ==
  [some |-> Unit("REL", "SYMTAB"), none |-> Unit("DYN", "PROGBITS"),
   malformed |-> Unit("CORE", "SYMTAB")]

-----------------------------------------------------------------------------
(* Archives: a sequence of members, written one behind the other; the last *)
(* tail bytes are missing.                                                 *)

Digit == <<"0", "1", "2", "3", "4", "5", "6", "7", "8", "9">>
Digits(n) == <<Digit[(n \div 100) + 1], Digit[((n \div 10) % 10) + 1],
               Digit[(n % 10) + 1]>>

Member(name, field, size, symbols) ==
  [name |-> name, field |-> field \o [n \in 1..(NameField - Len(field)) |-> " "],
   size |-> size,
   payload |-> [magic |-> "ELF", symbols |-> symbols, text |-> <<>>,
                unit |-> Content[symbols]]]

Long == [n \in 1..NameField |-> "x"]

Table == LET text == Append(Long, "\n")
         IN  [Member(<<>>, <<"/", "/">>, Len(text), "malformed")
                EXCEPT !.payload.text = text, !.payload.magic = "text"]

Image(l, tail) ==
  LET offs[k \in 1..(Len(l) + 1)] ==
        IF k = 1 THEN SARMAG
        ELSE offs[k - 1] + 60 + l[k - 1].size + (l[k - 1].size % 2)
      of(off) == CHOOSE k \in DOMAIN l : offs[k] = off
      end == IF tail = 0 THEN Len(l) + 1 ELSE Len(l)
  IN  [limit   |-> offs[Len(l) + 1] - tail,
       header  |-> [off \in {offs[k] : k \in DOMAIN l} |->
                      [name |-> l[of(off)].field, size |-> Digits(l[of(off)].size),
                       fmag |-> TRUE]],
       payload |-> [off \in {offs[k] + 60 : k \in DOMAIN l} |->
                      l[of(off - 60)].payload],
       start   |-> [k \in 1..end |-> offs[k]],
       written |-> [k \in 1..(end - 1) |-> l[k].name]]

Short(symbols) == Member(<<"a", "b">>, <<"a", "b", "/">>, 284, symbols)
Other(symbols) == Member(<<"c">>, <<"c", "/">>, 284, symbols)
Far(symbols)   == Member(Long, <<"/", "0">>, 284, symbols)

(* The header says less than the unit needs; its table is out of reach.    *)
StubUnit == [Member(<<"s">>, <<"s", "/">>, 255, "malformed")
               EXCEPT !.payload.unit = Content["some"]]

F(readable, size, magic, symbols) ==
  [exists |-> TRUE, readable |-> readable, size |-> size, magic |-> magic,
   symbols |-> symbols]

Object(symbols) ==
  [exists |-> TRUE, readable |-> TRUE, size |-> 284, magic |-> "ELF",
   symbols |-> symbols, unit |-> Content[symbols]]

Archive(l, tail, symbols) ==
  LET image == Image(l, tail)
  IN  [exists |-> TRUE, readable |-> TRUE, size |-> image.limit, magic |-> "AR",
       symbols |-> symbols, image |-> image]

MCFile(path) ==
  CASE path = AOut -> Object("some")
    [] path = <<"o">> -> Object("some")
    [] path = <<"n">> -> Object("none")
    [] path = <<"b">> -> Object("malformed")
    [] path = <<"l">> -> Archive(<<Table, Far("some"), Short("some")>>, 0, "some")
    [] path = <<"m">> -> Archive(<<Other("none"), Short("some")>>, 0, "mixed")
    [] path = <<"x">> -> Archive(<<Short("some"), StubUnit, Other("some")>>, 0,
                                 "malformed")
    [] path = <<"t">> -> Archive(<<Other("some"), Short("none")>>, 1, "malformed")
    [] path = <<"v">> -> Archive(<<>>, 0, "some")
    [] path = <<"e">> -> F(TRUE, 0, "none", "malformed")
    [] path = <<"u">> -> F(FALSE, 9, "none", "malformed")
    [] path = <<"w">> -> F(TRUE, 9, "none", "malformed")
    [] OTHER -> [F(FALSE, 0, "none", "malformed") EXCEPT !.exists = FALSE]

Args == {<<"-", "n">>, <<"-", "z">>} \cup
        {<<c>> : c \in {"o", "n", "b", "l", "m", "x", "t", "v", "e", "u", "w"}}

MCArgVectors == UNION {[1..n -> Args] : n \in 0..MaxArgs}
=============================================================================
