------------------------------ MODULE MCFtPrintf ------------------------------
(***************************************************************************)
(* Listings of one and two symbols, and calls that reach every conversion, *)
(* on a word of DIGITS hexadecimal digits.                                 *)
(***************************************************************************)
EXTENDS ListingLines

Sym(name, type, value, size, class) ==
  [name |-> name, type |-> type, value |-> value, size |-> size, class |-> class]

Syms == <<
  <<Sym(<<"m">>, "T", 0, 0, 64), Sym(<<"a", "_">>, "U", 0, 0, 64)>>,
  <<Sym(<<"z", "0">>, "d", 4660, 16, 64)>>,
  <<Sym(<<"b">>, "b", 255, 160, 32), Sym(<<"v">>, "v", 7, 1, 32)>>,
  <<Sym(<<>>, "a", 65535, 0, 64), Sym(<<"w", ".">>, "w", 0, 0, 32)>>,
  <<Sym(<<"o", Space>>, "T", 16, 0, 64), Sym(<<"l">>, "t", 1, 3, 32)>>>>

Listing(h, o, n) == [heading |-> h, opt |-> o, symbols |-> Syms[n]]

MCListings ==
  [n \in 1..4 |-> Listing(NULL, {}, n)] \o [n \in 1..4 |-> Listing(NULL, {"P"}, n)]
  \o <<Listing(<<"f">>, {}, 2), Listing(<<"f">>, {"P", "n"}, 1),
       Listing(NULL, {}, 5), Listing(NULL, {"P"}, 5)>>

Fprintf(fd, fmt, args) == [fn |-> "ft_fprintf", fd |-> fd, fmt |-> fmt, args |-> args]

(* Every conversion at 0, in the middle and at its limits, through both    *)
(* functions, and the formats that are refused.                            *)
One(c, a) ==
  <<Printf(<<"%", c>>, <<a>>), Fprintf(2, <<"<", "%", c, "\n">>, <<a>>)>>

Numbers == <<0, 9, 10, 63, 64, 127, 255, -1, -128>>

Conversion1(c) == [n \in DOMAIN Numbers |-> One(c, Numbers[n])]

Pointers == <<0, 1, 255, 256, 65535>>

MCCalls ==
  Conversion1("d") \o Conversion1("u") \o Conversion1("x") \o Conversion1("X")
  \o Conversion1("o")
  \o [n \in DOMAIN Pointers |-> One("p", Pointers[n])]
  \o [n \in DOMAIN Pointers |-> One("P", Pointers[n])]
  \o <<One("i", -12), One("*", 3), One("*", 0), One("c", "q"),
       One("s", <<"a", "b">>), One("s", <<>>), One("s", NULL),
       <<Printf(NULL, <<>>), Fprintf(2, NULL, <<>>), Printf(<<>>, <<>>)>>,
       <<Printf(<<"a", "%", "k">>, <<>>), Printf(<<"%">>, <<>>),
         Fprintf(2, <<"%", "%", "\n">>, <<>>)>>,
       <<Fprintf(1, <<"%", "s", "%", "s", "\n">>, <<<<"a", "b">>, <<"c", "d">>>>),
         Printf(<<"e", "\n">>, <<>>)>>>>

MCSessions == Printed \o MCCalls
=============================================================================
