---------------------------- MODULE MCGetNextLine ----------------------------
(***************************************************************************)
(* Both variants of get_next_line on texts of up to MaxText characters,    *)
(* with newlines at every set of places and all other characters distinct. *)
(***************************************************************************)
EXTENDS GetNextLine

CONSTANT MaxText

Letters == <<"a", "b", "c", "d">>

MCTexts ==
  UNION {{[i \in 1..n |-> IF i \in newlines THEN NL ELSE Letters[i]] :
            newlines \in SUBSET (1..n)} : n \in 0..MaxText}
=============================================================================
