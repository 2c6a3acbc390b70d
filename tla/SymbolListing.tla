---------------------------- MODULE SymbolListing ----------------------------
(***************************************************************************)
(* What sort_and_print_symbols promises, without saying how: behind an     *)
(* optional heading, each visible symbol is printed once, always one that  *)
(* no symbol still missing has to precede; or nothing is printed and the   *)
(* call fails.                                                             *)
(***************************************************************************)
EXTENDS Integers, Sequences

CONSTANTS
  Inputs   \* records of symbols (a table), opt (the options), multiple

VARIABLES
  input,
  heading,   \* has the heading been printed?
  printed,   \* the indices of the symbols printed
  status     \* "busy", or the result returned

abstractVars == <<input, heading, printed, status>>

(* A name sorts without its prefix of '_', '.' and '$' and without case,   *)
(* and by its own bytes when that makes no difference.                     *)
Stem(name) ==
  LET plain == {k \in DOMAIN name : name[k] \notin {95, 46, 36}}
      first == CHOOSE k \in plain : \A l \in plain : k <= l
      kept  == IF plain = {} THEN name ELSE SubSeq(name, first, Len(name))
  IN  [k \in DOMAIN kept |-> IF kept[k] \in 97..122 THEN kept[k] - 32 ELSE kept[k]]

Before(s, t) ==   \* dictionary order
  \E k \in 1..(Len(t)) :
    /\ \A l \in 1..(k - 1) : l <= Len(s) /\ s[l] = t[l]
    /\ k <= Len(s) => s[k] < t[k]

NameBefore(s, t) ==
  Before(Stem(s), Stem(t)) \/ (Stem(s) = Stem(t) /\ Before(s, t))

(* The order by name is refined by value; the order by value puts the      *)
(* unresolved symbols first among those of value 0 and is refined by name. *)
Precedes(opt, a, b) ==
  IF "n" \notin opt
  THEN NameBefore(a.name, b.name) \/ (a.name = b.name /\ a.value < b.value)
  ELSE LET rank(s) == IF s.value = 0 /\ s.type \in {"U", "w"} THEN 0 ELSE 1
       IN  \/ a.value < b.value
           \/ a.value = b.value /\ rank(a) < rank(b)
           \/ /\ a.value = b.value /\ rank(a) = rank(b)
              /\ NameBefore(a.name, b.name)

Earlier(i, j) ==
  LET a == input.symbols[i]
      b == input.symbols[j]
  IN  IF "r" \in input.opt THEN Precedes(input.opt, b, a)
                           ELSE Precedes(input.opt, a, b)

(* The symbols an option set selects. *)
Selected(s, opt) ==
  /\ s.name # <<>> \/ ("a" \in opt /\ s.type # "U")
  /\ s.info_type \in {"FILE", "SECTION"} => "a" \in opt
  /\ "g" \in opt => s.bind # "LOCAL"
  /\ "u" \in opt => s.undef

Missing ==
  {i \in DOMAIN input.symbols :
     /\ Selected(input.symbols[i], input.opt)
     /\ \A k \in DOMAIN printed : printed[k] # i}

Init ==
  /\ input \in Inputs
  /\ heading = FALSE
  /\ printed = <<>>
  /\ status = "busy"

PrintHeading ==
  /\ status = "busy" /\ input.multiple /\ ~ heading
  /\ heading' = TRUE
  /\ UNCHANGED <<input, printed, status>>

PrintSymbol ==
  /\ status = "busy" /\ heading = input.multiple
  /\ \E i \in Missing :
       /\ \A j \in Missing : ~ Earlier(j, i)
       /\ printed' = Append(printed, i)
  /\ UNCHANGED <<input, heading, status>>

Succeed ==
  /\ status = "busy" /\ heading = input.multiple
  /\ Missing = {}
  /\ status' = "OK"
  /\ UNCHANGED <<input, heading, printed>>

Fail ==
  /\ status = "busy" /\ heading = input.multiple
  /\ printed = <<>>
  /\ status' = "FAIL_PATH"
  /\ UNCHANGED <<input, heading, printed>>

Next == PrintHeading \/ PrintSymbol \/ Succeed \/ Fail

Spec == Init /\ [][Next]_abstractVars /\ WF_abstractVars(Next)
=============================================================================
