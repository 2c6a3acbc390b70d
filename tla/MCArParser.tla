------------------------------ MODULE MCArParser ------------------------------
(***************************************************************************)
(* ArParser on every archive of up to MaxMembers members out of a small    *)
(* catalogue, whole or damaged in one place.                               *)
(***************************************************************************)
EXTENDS ArParser

CONSTANT MaxMembers

Pad(s, n) == s \o [i \in 1..(n - Len(s)) |-> " "]
Rep(c, n) == [i \in 1..n |-> c]
Field(n)  == Pad(IF n < 10 THEN <<Decimal[n + 1]>>
                 ELSE <<Decimal[(n \div 10) + 1], Decimal[(n % 10) + 1]>>, 4)

(* Long names in the table: the second starts where the first ends, and    *)
(* does not fit long_name_buf.                                             *)
Long1 == Rep("x", NameField)
Long2 == Rep("y", LongNameBuf)
Table == Long1 \o <<"/", NewLine>> \o Long2 \o <<"/", NewLine>>

Member(name, field, size, magic, symbols) ==
  [name |-> name, field |-> Pad(field, NameField), size |-> size,
   digits |-> Field(size), fmag |-> TRUE,
   payload |-> [magic |-> magic, symbols |-> symbols, text |-> <<>>]]

Catalogue == {
  Member(<<"a", "b">>, <<"a", "b", "/">>, 5, "ELF", "some"),
  Member(<<"a", " ", "b">>, <<"a", " ", "b", "/">>, 4, "ELF", "malformed"),
  Member(Long1, <<"/", "0">>, 6, "ELF", "some"),
  Member(Long2, <<"/", "1", "0">>, 7, "ELF", "none"),
  Member(<<"c">>, <<"c", "/">>, 0, "text", "malformed"),
  Member(<<"n">>, <<"n", "/">>, 8, "AR", "malformed"),
  Member(<<>>, <<"/">>, 3, "text", "malformed"),
  Member(<<>>, <<"/", "S", "Y", "M", "6", "4", "/">>, 2, "text", "malformed"),
  [Member(<<>>, <<"/", "/">>, Len(Table), "text", "malformed")
     EXCEPT !.payload.text = Table] }

Layouts == UNION {[1..n -> Catalogue] : n \in 0..MaxMembers}

(* The offset of each member as it was written, and of the archive's end. *)
Starts(l) ==
  FoldLeft(LAMBDA s, m : Append(s, Last(s) + HDR + m.size + (m.size % 2)),
           <<SARMAG>>, l)

(* The image of layout l, of which start is intact and limit is left. *)
Image(l, start, limit) ==
  LET s == Starts(l)
      at(off) == CHOOSE k \in DOMAIN l : s[k] = off
  IN  [limit   |-> limit,
       header  |-> [off \in {s[k] : k \in DOMAIN l} |->
                      [name |-> l[at(off)].field,
                       size |-> l[at(off)].digits,
                       fmag |-> l[at(off)].fmag]],
       payload |-> [off \in {s[k] + HDR : k \in DOMAIN l} |->
                      l[at(off - HDR)].payload],
       start   |-> start,
       written |-> [k \in DOMAIN l |-> l[k].name]]

(* One place damaged: the header of member k (its end bytes, or its size   *)
(* field), or the end of the file.  A size field of "4" points short of    *)
(* the next header; one of "9999" points behind the archive.               *)
Damages ==
  {<<"none", 0>>, <<"long", 0>>} \cup
  ({"fmag", "blank", "letter", "big", "small", "cut1", "cutHDR"}
     \X (1..MaxMembers))

BadField == [blank |-> Rep(" ", 4), letter |-> <<"4", "x", " ", " ">>,
             big |-> Rep("9", 4), small |-> Field(4)]

DamagedImage(l, kind, k) ==
  LET s == Starts(l)
  IN  CASE kind = "long" -> Image(l, s, Last(s) + 1)
        [] kind = "fmag" /\ k \in DOMAIN l ->
             Image([l EXCEPT ![k].fmag = FALSE], SubSeq(s, 1, k), Last(s))
        [] kind \in {"blank", "letter", "big"} /\ k \in DOMAIN l ->
             Image([l EXCEPT ![k].digits = BadField[kind]],
                   SubSeq(s, 1, k), Last(s))
        [] kind = "small" /\ k \in DOMAIN l /\ l[k].size > 4 ->
             Image([l EXCEPT ![k].digits = BadField[kind]],
                   Append(SubSeq(s, 1, k), s[k] + HDR + 4), Last(s))
        [] kind \in {"cut1", "cutHDR"} /\ k = Len(l) ->
             Image(l, Front(s), Last(s) - (IF kind = "cut1" THEN 1 ELSE HDR))
        [] OTHER -> Image(l, s, Last(s))

MCArchives ==
  {DamagedImage(l, d[1], d[2]) : l \in Layouts, d \in Damages}
=============================================================================
