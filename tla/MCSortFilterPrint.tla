-------------------------- MODULE MCSortFilterPrint --------------------------
(***************************************************************************)
(* SortFilterPrint on every short table over a catalogue of symbols under  *)
(* every set of options, and on longer tables that exercise the sort.      *)
(***************************************************************************)
EXTENDS SortFilterPrint

CONSTANTS MaxTable,   \* length of the tables tried under every option set
          MaxSorted   \* length of the tables tried under -a and -a -n

Sym(name, value, type, info, bind, undef) ==
  [name |-> name, value |-> value, type |-> type, info_type |-> info,
   bind |-> bind, undef |-> undef]

(* "b", "_B", "B", ".b" and "$" collide once prefix and case are dropped.  *)
Kinds == {
  Sym(<<>>,         0, "U", "NOTYPE",  "LOCAL",  TRUE),
  Sym(<<98>>,       0, "U", "NOTYPE",  "GLOBAL", TRUE),
  Sym(<<97, 46>>,   0, "a", "FILE",    "LOCAL",  FALSE),
  Sym(<<46, 98>>,   1, "t", "SECTION", "LOCAL",  FALSE),
  Sym(<<95, 66>>,   0, "T", "FUNC",    "GLOBAL", FALSE),
  Sym(<<>>,         1, "d", "OBJECT",  "LOCAL",  FALSE),
  Sym(<<98, 97>>,   0, "w", "NOTYPE",  "WEAK",   TRUE)}

SortKinds == {
  Sym(<<66>>,       2, "T", "FUNC", "GLOBAL", FALSE),
  Sym(<<98>>,       1, "t", "FUNC", "LOCAL",  FALSE),
  Sym(<<98>>,       0, "U", "FUNC", "GLOBAL", TRUE),
  Sym(<<36>>,       0, "T", "FUNC", "GLOBAL", FALSE)}

Tables(S, n) == UNION {[1..m -> S] : m \in 0..n}

MCInputs ==
  [symbols : Tables(Kinds, MaxTable),
   opt : SUBSET {"a", "g", "u", "r", "n"}, multiple : BOOLEAN]
  \cup
  [symbols : Tables(SortKinds, MaxSorted),
   opt : {{"a"}, {"a", "n"}, {"a", "n", "r"}}, multiple : {FALSE}]
=============================================================================
