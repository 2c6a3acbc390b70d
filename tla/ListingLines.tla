----------------------------- MODULE ListingLines -----------------------------
(***************************************************************************)
(* The text of a listing: print_symbol, write_hex and print_hex_field of   *)
(* sort_filter_print.c, as the calls of ft_printf they make.               *)
(*                                                                         *)
(* A listing is a record of heading (a file name, or NULL), symbols        *)
(* (records of name, type, value, size, class) and opt.                    *)
(***************************************************************************)
EXTENDS FtPrintf

CONSTANT Listings   \* a sequence of listings, printed by the first sessions

Colon == ":"

Printf(fmt, args) == [fn |-> "ft_printf", fd |-> STDOUT, fmt |-> fmt, args |-> args]

(* An address has twice as many digits in an ELF file of 64 bits. *)
Width(class) == IF class = 64 THEN 2 * DIGITS ELSE DIGITS

FtMemset(c, n) == [i \in 1..n |-> c]

(* Mutant: an address has the digits of 32 bits in every file. *)
WriteHexNarrow(addr, class) ==
  LET left == Quotients(addr, 16)
  IN  [i \in 1..DIGITS |-> LOWER[(left[DIGITS - i] % 16) + 1]]

(* write_hex: one digit per position, from the last one to the first. *)
WriteHex(addr, class) ==
  LET left  == Quotients(addr, 16)
      width == Width(class)
  IN  [i \in 1..width |-> LOWER[(left[width - i] % 16) + 1]]

(* Leading zeros are skipped, but not the last digit. *)
PrintHexField(value) ==
  LET digits == WriteHex(value, 64)
      first  == CHOOSE i \in DOMAIN digits :
                  /\ digits[i] # "0" \/ i = Len(digits)
                  /\ \A j \in 1..(i - 1) : digits[j] = "0"
  IN  Printf(<<Space, Percent, "s">>, <<SubSeq(digits, first, Len(digits))>>)

Unresolved(sym) == sym.type \in {"U", "w", "v"}

EndLine == Printf(<<NewLine>>, <<>>)

PrintSymbol(sym, opt) ==
  IF "P" \in opt
  THEN <<Printf(<<Percent, "s", Space, Percent, "c">>, <<sym.name, sym.type>>)>>
       \o (IF Unresolved(sym) THEN <<>>
           ELSE IF sym.size = 0 THEN <<PrintHexField(sym.value)>>
           ELSE <<PrintHexField(sym.value), PrintHexField(sym.size)>>)
       \o <<EndLine>>
  ELSE LET arr == IF Unresolved(sym) THEN FtMemset(Space, Width(sym.class))
                                     ELSE WriteHex(sym.value, sym.class)
       IN  <<Printf(<<Percent, "s", Space, Percent, "c", Space, Percent, "s", NewLine>>,
                    <<arr, sym.type, sym.name>>)>>

Heading(name) ==
  IF name = NULL THEN <<>>
  ELSE <<Printf(<<NewLine, Percent, "s", Colon, NewLine>>, <<name>>)>>

(* sort_and_print_symbols behind its sort: the heading and the loop. *)
PrintListing(listing) ==
  Heading(listing.heading)
    \o FlattenSeq([n \in DOMAIN listing.symbols |->
                     PrintSymbol(listing.symbols[n], listing.opt)])

Printed == [n \in DOMAIN Listings |-> PrintListing(Listings[n])]

(* Names are C strings, letters are neither a space nor the end of a line, *)
(* and a value of a 32-bit file has 32 bits.                               *)
SymbolOK(sym) ==
  /\ sym.name \in Seq(STRING) \ {NULL}
  /\ sym.type \in STRING \ {Space, NewLine}
  /\ sym.value \in 0..(Power(16, Width(sym.class)) - 1)
  /\ sym.size \in 0..(Power(16, 2 * DIGITS) - 1)

ListingOK(listing) ==
  /\ listing.heading \in Seq(STRING)              \* NULL included
  /\ listing.symbols \in Seq(Range(listing.symbols))
  /\ \A n \in DOMAIN listing.symbols : SymbolOK(listing.symbols[n])

ASSUME ListingsAssumption ==
  \A n \in DOMAIN Listings : ListingOK(Listings[n]) /\ Sessions[n] = Printed[n]

-----------------------------------------------------------------------------
(* Reading a listing back. *)

Text == FlattenSeq([n \in DOMAIN sent |-> [i \in DOMAIN sent[n] |-> sent[n][i].char]])

(* What the first characters of a text are divided into. *)
Parts(text, sep) ==
  LET parts[n \in 0..Len(text)] ==
        IF n = 0 THEN << <<>> >>
        ELSE IF text[n] = sep THEN Append(parts[n - 1], <<>>)
        ELSE Append(Front(parts[n - 1]), Append(Last(parts[n - 1]), text[n]))
  IN  parts

(* The parts of a text between the separators and behind the last one. *)
Split(text, sep) == Parts(text, sep)[Len(text)]

(* The number that the first digits stand for. *)
Values(digits) ==
  LET value[n \in 0..Len(digits)] ==
        IF n = 0 THEN 0
        ELSE 16 * value[n - 1] + CHOOSE d \in 0..15 : LOWER[d + 1] = digits[n]
  IN  value

HexValue(digits) == Values(digits)[Len(digits)]

Without(text, c) == \A i \in DOMAIN text : text[i] # c

(* The number without leading zeros. *)
Plain(digits, n) ==
  /\ digits # <<>> /\ (digits[1] = "0" => Len(digits) = 1)
  /\ HexValue(digits) = n

ReadsAs(line, sym, opt) ==
  IF "P" \in opt
  THEN Without(sym.name, Space) =>
       LET fields == Split(line, Space)
       IN  /\ fields[1] = sym.name /\ fields[2] = <<sym.type>>
           /\ Len(fields) = IF Unresolved(sym) THEN 2 ELSE IF sym.size = 0 THEN 3 ELSE 4
           /\ ~ Unresolved(sym) =>
                /\ Plain(fields[3], sym.value)
                /\ sym.size # 0 => Plain(fields[4], sym.size)
  ELSE LET w == IF sym.class = 64 THEN 2 * DIGITS ELSE DIGITS
       IN  /\ Len(line) = w + 3 + Len(sym.name)
           /\ IF Unresolved(sym) THEN \A i \in 1..w : line[i] = Space
                                 ELSE HexValue(SubSeq(line, 1, w)) = sym.value
           /\ SubSeq(line, w + 1, w + 3) = <<Space, sym.type, Space>>
           /\ SubSeq(line, w + 4, Len(line)) = sym.name

(* No name ends a line. *)
OneLined(listing) ==
  /\ Without(listing.heading, NewLine)
  /\ \A n \in DOMAIN listing.symbols : Without(listing.symbols[n].name, NewLine)

(* A listing that lost nothing says all there is to say: behind the        *)
(* heading's two lines it has one line per symbol, in order, from which    *)
(* name, letter, value and, under -P, size can be read back, as long as no *)
(* name has the end of a line in it and, under -P, no space.               *)
LineReadsBack ==
  s \in DOMAIN Listings /\ SessionOver /\ failures = 0 /\ STDOUT \notin closed =>
    LET lines == Split(Text, NewLine)
        l     == Listings[s]
        top   == IF l.heading = NULL THEN 0 ELSE 2
    IN  OneLined(l) =>
        /\ Len(lines) = top + Len(l.symbols) + 1 /\ Last(lines) = <<>>
        /\ top = 2 => lines[1] = <<>> /\ lines[2] = Append(l.heading, Colon)
        /\ \A n \in DOMAIN l.symbols : ReadsAs(lines[top + n], l.symbols[n], l.opt)
=============================================================================
