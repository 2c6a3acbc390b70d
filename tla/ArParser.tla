------------------------------- MODULE ArParser -------------------------------
(***************************************************************************)
(* process_ar_archive (src/ar_parser.c): the walk over the members of a    *)
(* mapped System V / GNU archive.                                          *)
(*                                                                         *)
(* An archive image is a record of                                         *)
(*   limit    its size in bytes                                            *)
(*   header   the offsets at which the bytes form a struct ar_hdr, each    *)
(*            with its fields: name and size (sequences of characters) and *)
(*            fmag (whether the two end bytes are ARFMAG)                  *)
(*   payload  at the offset of each payload: magic (what its first bytes   *)
(*            spell), symbols (what process_elf_unit finds in it) and text *)
(*            (its characters, when it is a long-name table)               *)
(* and, for the properties only, of what its writer laid out:              *)
(*   start    the offset of every well-formed member in file order, then   *)
(*            the offset at which they end                                 *)
(*   written  the file name the writer gave to each of these members       *)
(***************************************************************************)
EXTENDS NmTypes, SequencesExt

CONSTANTS
  Archives,     \* the images process_ar_archive may be called on
  NameField,    \* sizeof ar_name: 16
  LongNameBuf   \* sizeof long_name_buf: 4095

HDR     == 60        \* sizeof (struct ar_hdr)
NUL     == "NUL"
NewLine == "\n"
Decimal == <<"0", "1", "2", "3", "4", "5", "6", "7", "8", "9">>
Digits  == {"0", "1", "2", "3", "4", "5", "6", "7", "8", "9"}
Value   == [c \in Digits |-> CHOOSE d \in 0..9 : Decimal[d + 1] = c]

-----------------------------------------------------------------------------
(* Header fields. *)

LeadingDigits(s) == Before(s, Range(s) \ Digits)

Number(digits) ==
  LET n[i \in 0..Len(digits)] ==
        IF i = 0 THEN 0 ELSE 10 * n[i - 1] + Value[digits[i]]
  IN  n[Len(digits)]

(* parse_ar_size succeeds on digits followed by padding up to the end of   *)
(* the field, and on nothing else.                                         *)
SizeOK(s) ==
  LET d == Len(LeadingDigits(s))
  IN  d > 0 /\ \A i \in (d + 1)..Len(s) : s[i] = " "

ParseArSize(s) == Number(LeadingDigits(s))

HasPrefix(name, s) == SubSeq(name, 1, Len(s)) = s

Kind(name) ==
  CASE HasPrefix(name, <<"/", "/">>) -> "strtab"
    [] HasPrefix(name, <<"/", " ">>) -> "index"
    [] HasPrefix(name, <<"/", "S", "Y", "M", "6", "4", "/">>) -> "index"
    [] OTHER -> "member"

-----------------------------------------------------------------------------
(* extract_ar_name.  Both results live in static buffers, which keep what  *)
(* earlier members left behind the terminator.                             *)

NoTable == [size |-> 0, text |-> <<>>]

(* Mutant: the terminator is forgotten. *)
OverwriteUnterminated(buf, s) == s \o SubSeq(buf, Len(s) + 1, Len(buf))

Overwrite(buf, s) == s \o <<NUL>> \o SubSeq(buf, Len(s) + 2, Len(buf))

CString(buf) == Before(buf, {NUL})

(* What ends a name in its field, and in the long-name table. *)
FieldStops == {"/", " "}
TableStops == {"/", NewLine, NUL}

TableOffset(name) == Number(LeadingDigits(Tail(name)))

IsLong(name, table) ==
  name[1] = "/" /\ name[2] \in Digits /\ TableOffset(name) < table.size

(* The table entry at an offset: up to its '/', newline or NUL, the end of *)
(* the table, or what long_name_buf can hold.                              *)
TableEntry(table, offset) ==
  LET room == offset + LongNameBuf - 1
      last == IF room < table.size THEN room ELSE table.size
  IN  Before(SubSeq(table.text, offset + 1, last), TableStops)

ExtractArName(name, table, bufs) ==
  IF IsLong(name, table)
  THEN [bufs EXCEPT !.long = Overwrite(@, TableEntry(table, TableOffset(name)))]
  ELSE [bufs EXCEPT !.short = Overwrite(@, Before(name, FieldStops))]

ReturnedName(name, table, bufs) ==
  CString(IF IsLong(name, table) THEN bufs.long ELSE bufs.short)

-----------------------------------------------------------------------------
(* Walking from header to header. *)

HeaderSize(u, off) == ParseArSize(u.header[off].size)

PayloadOff(off) == Wrap(off + HDR)

(* The tests that end the walk with a break. *)
Acceptable(u, off) ==
  /\ CheckRange(off, HDR, u.limit)
  /\ off \in DOMAIN u.header
  /\ u.header[off].fmag
  /\ SizeOK(u.header[off].size)
  /\ LET size == HeaderSize(u, off)
     IN  CheckRange(PayloadOff(off), Wrap(size + (size % 2)), u.limit)

(* Members are aligned on two bytes. *)
NextOff(u, off) ==
  LET end == Wrap(PayloadOff(off) + HeaderSize(u, off))
  IN  IF end % 2 = 1 THEN Wrap(end + 1) ELSE end

Payload(u, off) == u.payload[PayloadOff(off)]

IsElfMember(u, off) ==
  /\ Kind(u.header[off].name) = "member"
  /\ DetectFormat(Payload(u, off).magic, HeaderSize(u, off)) = "FMT_ELF"

(* The chain of headers the writer laid out: every start but the last is   *)
(* an acceptable header, each start follows from the one before, and at    *)
(* the last one the archive is over or damaged.                            *)
Laid(u) ==
  /\ u.start \in Seq(Nat) /\ u.start # <<>>
  /\ u.start[1] = SARMAG
  /\ \A k \in 1..(Len(u.start) - 1) :
       /\ Acceptable(u, u.start[k])
       /\ u.start[k + 1] = NextOff(u, u.start[k])
  /\ ~ Acceptable(u, u.start[Len(u.start)])

Members(u) == 1..(Len(u.start) - 1)
Intact(u)  == u.start[Len(u.start)] = u.limit
KindOf(u, k) == Kind(u.header[u.start[k]].name)

(* The names an archive carries whole: those without a space, '/', newline *)
(* or NUL and, when they are long, of an archive whose one name table      *)
(* precedes the member.                                                    *)
NameCarried(u, k) ==
  /\ Range(u.written[k]) \cap (FieldStops \cup TableStops) = {}
  /\ Len(u.written[k]) >= NameField =>
       \E t \in 1..(k - 1) : {t} = {j \in Members(u) : KindOf(u, j) = "strtab"}

(* How the writer spells such a name: at the beginning of the field, ended *)
(* by '/' or a space; or in the name table, at the offset in the field.    *)
InField(field, name) ==
  /\ name # <<>> /\ Len(name) < Len(field)
  /\ SubSeq(field, 1, Len(name)) = name
  /\ field[Len(name) + 1] \in FieldStops

InTable(text, size, offset, name) ==
  /\ offset < size /\ offset + Len(name) <= size
  /\ SubSeq(text, offset + 1, offset + Len(name)) = name
  /\ offset + Len(name) < size =>
       text[offset + Len(name) + 1] \in TableStops

Spelled(u, k) ==
  LET field == u.header[u.start[k]].name
      name  == u.written[k]
  IN  IF Len(name) < NameField THEN InField(field, name)
      ELSE /\ field[1] = "/" /\ field[2] \in Digits
           /\ \A t \in 1..(k - 1) : KindOf(u, t) = "strtab" =>
                InTable(Payload(u, u.start[t]).text, HeaderSize(u, u.start[t]),
                        TableOffset(field), name)

ImageOK(u) ==
  /\ u.limit \in Nat /\ u.limit >= SARMAG /\ u.limit + 1 < WORD
  /\ \A off \in DOMAIN u.header :
       SizeOK(u.header[off].size) =>
         HeaderSize(u, off) \in Nat /\ HeaderSize(u, off) + 1 < WORD
  /\ \A off \in DOMAIN u.header :
       Acceptable(u, off) =>
         /\ Payload(u, off).symbols \in {"some", "none", "malformed"}
         /\ u.header[off].name \in Seq(STRING)
         /\ Len(u.header[off].name) = NameField
         /\ Kind(u.header[off].name) = "strtab" =>
              /\ Payload(u, off).text \in Seq(STRING)
              /\ HeaderSize(u, off) <= Len(Payload(u, off).text)
  /\ Laid(u)
  /\ Intact(u) =>
       \A k \in Members(u) :
         IsElfMember(u, u.start[k]) /\ NameCarried(u, k) =>
           u.written[k] \in Seq(STRING) /\ Spelled(u, k)

ASSUME ArchivesAssumption == \A u \in Archives : ImageOK(u)

ASSUME BuffersAssumption ==
  NameField \in Nat /\ LongNameBuf \in Nat /\ 2 <= NameField /\ NameField <= LongNameBuf

-----------------------------------------------------------------------------
VARIABLES
  unit,        \* the mapped archive; never written
  pc,          \* "loop", "tail" (below the loop) or "done"
  member_off,
  strtab,      \* strtab and strtab_size
  bufs,        \* name_buf and long_name_buf
  result,
  listed,      \* the member headings printed, with what came of each
  logged       \* the payloads, 0 for the archive, with a diagnostic

vars == <<unit, pc, member_off, strtab, bufs, result, listed, logged>>

Init ==
  /\ unit \in Archives
  /\ pc = IF CheckRange(0, SARMAG, unit.limit) THEN "loop" ELSE "done"
  /\ result = IF CheckRange(0, SARMAG, unit.limit) THEN OK ELSE FAIL_PATH
  /\ member_off = SARMAG
  /\ strtab = NoTable
  /\ bufs = [short |-> [i \in 1..(NameField + 1) |-> NUL],
             long  |-> [i \in 1..LongNameBuf |-> NUL]]
  /\ listed = <<>>
  /\ logged = {}

Name == unit.header[member_off].name

(* Mutants of Visit: no padding, no header. *)
VisitMoving(kind, next) ==
  /\ pc = "loop"
  /\ member_off < unit.limit
  /\ Acceptable(unit, member_off)
  /\ Kind(Name) = kind
  /\ bufs' = ExtractArName(Name, strtab, bufs)
  /\ member_off' = next
  /\ UNCHANGED <<unit, pc>>

VisitUnaligned(kind) ==
  VisitMoving(kind, PayloadOff(member_off) + HeaderSize(unit, member_off))

VisitHeaderless(kind) ==
  VisitMoving(kind, NextOff(unit, member_off) - HDR)

(* Every acceptable member has its name extracted before its kind is known,*)
(* and the walk moves behind its payload.                                  *)
Visit(kind) ==
  /\ pc = "loop"
  /\ member_off < unit.limit
  /\ Acceptable(unit, member_off)
  /\ Kind(Name) = kind
  /\ bufs' = ExtractArName(Name, strtab, bufs)
  /\ member_off' = NextOff(unit, member_off)
  /\ UNCHANGED <<unit, pc>>

NameTable ==
  /\ Visit("strtab")
  /\ strtab' = [size |-> HeaderSize(unit, member_off),
                text |-> Payload(unit, member_off).text]
  /\ UNCHANGED <<result, listed, logged>>

SymbolIndex ==
  /\ Visit("index")
  /\ UNCHANGED <<strtab, result, listed, logged>>

OtherMember ==
  /\ Visit("member")
  /\ ~ IsElfMember(unit, member_off)
  /\ UNCHANGED <<strtab, result, listed, logged>>

(* Mutants of ElfMember: a unit without symbols gets no heading, the       *)
(* window reaches up to the next header, the last unit's result wins.      *)
ElfMemberAs(Heading(_), size, Result(_)) ==
  /\ Visit("member")
  /\ IsElfMember(unit, member_off)
  /\ \E why \in UnitOutcomes(Payload(unit, member_off).symbols) :
       /\ result' = Result(why)
       /\ logged' = IF why \in UnitLogs
                    THEN logged \cup {PayloadOff(member_off)} ELSE logged
       /\ listed' = IF ~ Heading(why) THEN listed ELSE
            Append(listed, [name |-> ReturnedName(Name, strtab, bufs'),
                            off |-> PayloadOff(member_off), size |-> size,
                            why |-> why])
  /\ UNCHANGED strtab

Failing(why) == IF why \in UnitFails THEN FAIL_PATH ELSE result

ElfMemberHeadless ==
  ElfMemberAs(LAMBDA why : why # "no_symbols", HeaderSize(unit, member_off), Failing)

ElfMemberWide ==
  ElfMemberAs(LAMBDA why : TRUE, HeaderSize(unit, member_off) + HDR, Failing)

ElfMemberLastWins ==
  ElfMemberAs(LAMBDA why : TRUE, HeaderSize(unit, member_off),
              LAMBDA why : IF why \in UnitFails THEN FAIL_PATH ELSE OK)

ElfMember ==
  /\ Visit("member")
  /\ IsElfMember(unit, member_off)
  /\ \E why \in UnitOutcomes(Payload(unit, member_off).symbols) :
       /\ result' = IF why \in UnitFails THEN FAIL_PATH ELSE result
       /\ logged' = IF why \in UnitLogs
                    THEN logged \cup {PayloadOff(member_off)} ELSE logged
       /\ listed' = Append(listed,
                      [name |-> ReturnedName(Name, strtab, bufs'),
                       off  |-> PayloadOff(member_off),
                       size |-> HeaderSize(unit, member_off),
                       why  |-> why])
  /\ UNCHANGED strtab

(* member_off reached the limit, or the loop breaks on a bad header.       *)
LeaveLoop ==
  /\ pc = "loop"
  /\ member_off < unit.limit => ~ Acceptable(unit, member_off)
  /\ pc' = "tail"
  /\ UNCHANGED <<unit, member_off, strtab, bufs, result, listed, logged>>

(* Mutant: the damaged tail is not reported. *)
ReturnSilently ==
  /\ pc = "tail"
  /\ pc' = "done"
  /\ result' = IF member_off # unit.limit THEN FAIL_PATH ELSE result
  /\ UNCHANGED <<unit, member_off, strtab, bufs, listed, logged>>

Return ==
  /\ pc = "tail"
  /\ pc' = "done"
  /\ IF member_off # unit.limit
     THEN result' = FAIL_PATH /\ logged' = logged \cup {0}
     ELSE UNCHANGED <<result, logged>>
  /\ UNCHANGED <<unit, member_off, strtab, bufs, listed>>

Done == pc = "done" /\ UNCHANGED vars

Next ==
  NameTable \/ SymbolIndex \/ OtherMember \/ ElfMember \/ LeaveLoop \/ Return
  \/ Done

(* One sequential process with no blocking call in the walk: it keeps      *)
(* running.                                                                *)
Spec == Init /\ [][Next]_vars /\ WF_vars(Next)

-----------------------------------------------------------------------------
(* Properties. *)

TypeOK ==
  /\ pc \in {"loop", "tail", "done"}
  /\ member_off \in SARMAG..unit.limit
  /\ member_off % 2 = 0
  /\ strtab.size \in Nat
  /\ result \in {OK, FAIL_PATH}
  /\ listed \in Seq(Range(listed))
  /\ \A i \in DOMAIN listed :
       /\ listed[i].off \in Nat /\ listed[i].size \in Nat
       /\ listed[i].why \in {"listed"} \cup UnitFails \cup UnitLogs
  /\ logged \subseteq 0..unit.limit

(* The walk never loses the chain of headers: it stands on one of the      *)
(* writer's offsets, the headings printed so far are those of exactly the  *)
(* ELF members in front of it, each once and in file order, and it stops   *)
(* only where the chain ends.                                              *)
ListedExactly ==
  /\ \E k \in 1..Len(unit.start) :
       /\ member_off = unit.start[k]
       /\ {listed[i].off : i \in DOMAIN listed} =
            {PayloadOff(unit.start[j]) :
               j \in {m \in 1..(k - 1) : IsElfMember(unit, unit.start[m])}}
       /\ pc # "loop" => k = Len(unit.start)
  /\ \A i, j \in DOMAIN listed : i < j => listed[i].off < listed[j].off

(* The windows handed to process_elf_unit lie inside the archive and never *)
(* overlap one another or a header: a member's table cannot be read        *)
(* through its neighbour.                                                  *)
WindowsDisjoint ==
  \A i \in DOMAIN listed :
    /\ SARMAG + HDR <= listed[i].off
    /\ listed[i].off + listed[i].size <= member_off
    /\ \A j \in DOMAIN listed :
         i < j => listed[i].off + listed[i].size + HDR <= listed[j].off

(* The verdict on the archive says whether every byte of it was accounted  *)
(* for and every ELF member was listed: one bad member or a damaged tail   *)
(* is never forgotten, and nothing else fails the archive.                 *)
VerdictExact ==
  pc = "done" =>
    (result = OK <=>
       /\ Intact(unit)
       /\ \A i \in DOMAIN listed : listed[i].why \notin UnitFails)

(* A failed archive has been explained on stderr, except when the only     *)
(* thing that failed is the allocation of sort_and_print_symbols.          *)
FailureExplained ==
  pc = "done" /\ result = FAIL_PATH /\ logged = {} =>
    /\ Intact(unit)
    /\ \E i \in DOMAIN listed : listed[i].why = "no_sort"

(* The name printed for a member is the one its writer gave it, up to what *)
(* long_name_buf holds, whichever of the two encodings carried it and      *)
(* whatever the static buffers held before.                                *)
NamesAsWritten ==
  Intact(unit) =>
    \A i \in DOMAIN listed : \A k \in Members(unit) :
      listed[i].off = PayloadOff(unit.start[k]) /\ NameCarried(unit, k) =>
        /\ IsPrefix(listed[i].name, unit.written[k])
        /\ Len(listed[i].name) = Min({Len(unit.written[k]), LongNameBuf - 1})

(* What the docs promise of a short name: the field without the '/' or the *)
(* spaces that pad its end (archi/architecture.md).  A name with a space   *)
(* inside is short, intact and well-formed, too.                           *)
ShortNamesAsWritten ==
  \A i \in DOMAIN listed : \A k \in Members(unit) :
    /\ listed[i].off = PayloadOff(unit.start[k])
    /\ Len(unit.written[k]) < NameField
    => listed[i].name = unit.written[k]

(* No step takes back a heading or a failure, and every turn of the loop   *)
(* moves the walk at least a header forward.                               *)
WalkAdvances ==
  [][/\ IsPrefix(listed, listed')
     /\ result = FAIL_PATH => result' = FAIL_PATH
     /\ pc' = "loop" => member_off' >= member_off + HDR]_vars
=============================================================================
