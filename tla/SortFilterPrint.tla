--------------------------- MODULE SortFilterPrint ---------------------------
(***************************************************************************)
(* sort_and_print_symbols: the filter loop, the recursive quicksort with   *)
(* its Lomuto partition, the reversal and the printing loop.               *)
(*                                                                         *)
(* The array visible holds copies of symbols; here it holds their indices  *)
(* in the table.  Indices are one more than in the code, where arrays      *)
(* start at 0.                                                             *)
(***************************************************************************)
EXTENDS SymbolOrder, SequencesExt

CONSTANTS
  Inputs,   \* the calls: records of symbols (a sequence), opt (the set of
            \* options) and multiple (multiple_files and filename are set)
  INT_MAX   \* the largest int: 2^31 - 1

ASSUME InputsAssumption ==
  /\ INT_MAX \in Nat
  /\ \A in \in Inputs :
       /\ in.symbols \in Seq(Range(in.symbols))
       /\ Len(in.symbols) <= INT_MAX   \* quicksort takes int indices
       /\ \A k \in DOMAIN in.symbols :   \* names hold no NUL
            in.symbols[k].name \in Seq(1..255) /\ in.symbols[k].value \in Nat
       /\ in.multiple \in BOOLEAN

VARIABLES
  input,
  pc,        \* "start", "alloc", "filter", "sort", "reverse", "print", "done"
  visible,
  i, j,      \* the loop variables, shared by the loops that use them
  calls,     \* quicksort's call stack, innermost call last: each with low,
             \* high, pi and at ("enter", "loop", "left", "right")
  heading,   \* has the heading been printed?
  printed,   \* the indices of the symbols printed
  ret

vars == <<input, pc, visible, i, j, calls, heading, printed, ret>>

Symbol(k) == input.symbols[k]
Count     == Len(input.symbols)
Has(o)    == o \in input.opt
Cmp(k, l) == Compare(input.opt, Symbol(k), Symbol(l))

(* Mutant: a swap without the temporary copy. *)
SwapSymbolsOverwriting(arr, k, l) == [arr EXCEPT ![k] = arr[l]]

SwapSymbols(arr, k, l) == [arr EXCEPT ![k] = arr[l], ![l] = arr[k]]

Frame(low, high) == [low |-> low, high |-> high, pi |-> 0, at |-> "enter"]

Init ==
  /\ input \in Inputs
  /\ pc = "start"
  /\ visible = <<>>
  /\ i = 1 /\ j = 1
  /\ calls = <<>>
  /\ heading = FALSE
  /\ printed = <<>>
  /\ ret = "none"

Start ==
  /\ pc = "start"
  /\ heading' = input.multiple
  /\ pc' = "alloc"
  /\ UNCHANGED <<input, visible, i, j, calls, printed, ret>>

(* A table of no symbols asks for 0 bytes, and malloc may refuse them too. *)
AllocFails ==
  /\ pc = "alloc"
  /\ pc' = "done"
  /\ ret' = "FAIL_PATH"
  /\ UNCHANGED <<input, visible, i, j, calls, heading, printed>>

Alloc ==
  /\ pc = "alloc"
  /\ pc' = "filter"
  /\ i' = 1
  /\ UNCHANGED <<input, visible, j, calls, heading, printed, ret>>

(* Mutant: what is copied is the symbol before the one that was looked at. *)
FilterSymbolShifted ==
  /\ pc = "filter" /\ i <= Count
  /\ visible' = IF IsVisible(Symbol(i), input.opt) THEN Append(visible, i - 1)
                                                   ELSE visible
  /\ i' = i + 1
  /\ UNCHANGED <<input, pc, j, calls, heading, printed, ret>>

FilterSymbol ==
  /\ pc = "filter" /\ i <= Count
  /\ visible' = IF IsVisible(Symbol(i), input.opt) THEN Append(visible, i)
                                                   ELSE visible
  /\ i' = i + 1
  /\ UNCHANGED <<input, pc, j, calls, heading, printed, ret>>

FilterEnds ==
  /\ pc = "filter" /\ i > Count
  /\ IF Len(visible) > 1
     THEN pc' = "sort" /\ calls' = <<Frame(1, Len(visible))>> /\ UNCHANGED i
     ELSE pc' = "print" /\ i' = 1 /\ UNCHANGED calls
  /\ UNCHANGED <<input, visible, j, heading, printed, ret>>

-----------------------------------------------------------------------------
(* quicksort and partition. *)

Top == Last(calls)

At(place) == pc = "sort" /\ calls # <<>> /\ Top.at = place

Pop == calls' = Front(calls)

Goto(place) == calls' = [calls EXCEPT ![Len(calls)].at = place]

Call(frame, low, high) == Append(Append(Front(calls), frame), Frame(low, high))

(* partition starts only on two elements or more. *)
PartitionStarts ==
  /\ At("enter") /\ Top.low < Top.high
  /\ i' = Top.low - 1
  /\ j' = Top.low
  /\ Goto("loop")
  /\ UNCHANGED <<input, pc, visible, heading, printed, ret>>

PartitionStep ==
  /\ At("loop") /\ j < Top.high
  /\ IF Cmp(visible[j], visible[Top.high]) < 0
     THEN i' = i + 1 /\ visible' = SwapSymbols(visible, i + 1, j)
     ELSE UNCHANGED <<i, visible>>
  /\ j' = j + 1
  /\ UNCHANGED <<input, pc, calls, heading, printed, ret>>

(* Mutant: the pivot is left where it is. *)
PartitionEndsUnswapped ==
  /\ At("loop") /\ j >= Top.high
  /\ calls' = Call([Top EXCEPT !.pi = i + 1, !.at = "left"], Top.low, i)
  /\ UNCHANGED <<input, pc, visible, i, j, heading, printed, ret>>

(* The pivot goes between the two parts; the left one is sorted first. *)
PartitionEnds ==
  /\ At("loop") /\ j >= Top.high
  /\ visible' = SwapSymbols(visible, i + 1, Top.high)
  /\ calls' = Call([Top EXCEPT !.pi = i + 1, !.at = "left"], Top.low, i)
  /\ UNCHANGED <<input, pc, i, j, heading, printed, ret>>

(* Mutant: the right part takes the pivot with it. *)
LeftReturnsWithPivot ==
  /\ At("left")
  /\ calls' = Call([Top EXCEPT !.at = "right"], Top.pi, Top.high)
  /\ UNCHANGED <<input, pc, visible, i, j, heading, printed, ret>>

LeftReturns ==
  /\ At("left")
  /\ calls' = Call([Top EXCEPT !.at = "right"], Top.pi + 1, Top.high)
  /\ UNCHANGED <<input, pc, visible, i, j, heading, printed, ret>>

QuicksortReturns ==
  /\ \/ At("enter") /\ Top.low >= Top.high
     \/ At("right")
  /\ Pop
  /\ UNCHANGED <<input, pc, visible, i, j, heading, printed, ret>>

SortEnds ==
  /\ pc = "sort" /\ calls = <<>>
  /\ IF Has("r") THEN pc' = "reverse" /\ j' = Len(visible)
                 ELSE pc' = "print" /\ UNCHANGED j
  /\ i' = 1
  /\ UNCHANGED <<input, visible, calls, heading, printed, ret>>

ReverseStep ==
  /\ pc = "reverse"
  /\ IF i < j
     THEN /\ visible' = SwapSymbols(visible, i, j)
          /\ i' = i + 1 /\ j' = j - 1
          /\ UNCHANGED pc
     ELSE /\ pc' = "print"
          /\ i' = 1
          /\ UNCHANGED <<visible, j>>
  /\ UNCHANGED <<input, calls, heading, printed, ret>>

PrintStep ==
  /\ pc = "print" /\ i <= Len(visible)
  /\ printed' = Append(printed, visible[i])
  /\ i' = i + 1
  /\ UNCHANGED <<input, pc, visible, j, calls, heading, ret>>

Return ==
  /\ pc = "print" /\ i > Len(visible)
  /\ pc' = "done"
  /\ ret' = "OK"
  /\ UNCHANGED <<input, visible, i, j, calls, heading, printed>>

Done == pc = "done" /\ UNCHANGED vars

Next ==
  \/ Start \/ AllocFails \/ Alloc \/ FilterSymbol \/ FilterEnds
  \/ PartitionStarts \/ PartitionStep \/ PartitionEnds
  \/ LeftReturns \/ QuicksortReturns \/ SortEnds
  \/ ReverseStep \/ PrintStep \/ Return \/ Done

(* A sequential call with nothing to wait for. *)
Spec == Init /\ [][Next]_vars /\ WF_vars(Next)

-----------------------------------------------------------------------------
(* Properties. *)

TypeOK ==
  /\ pc \in {"start", "alloc", "filter", "sort", "reverse", "print", "done"}
  /\ visible \in Seq(1..Count)
  /\ i \in 0..(Count + 1) /\ j \in 0..(Count + 1)
  /\ calls \in Seq([low  : 1..(Count + 1), high : 0..Count, pi : 0..Count,
                    at   : {"enter", "loop", "left", "right"}])
  /\ heading \in BOOLEAN
  /\ printed \in Seq(1..Count)
  /\ ret \in {"none", "OK", "FAIL_PATH"}

(* No swap loses or doubles a symbol: from the filter on, the array holds  *)
(* each symbol the filter has accepted exactly once.                       *)
SortsAPermutation ==
  /\ IsInjective(visible)
  /\ Range(visible) =
       {k \in 1..Count :
          /\ IsVisible(Symbol(k), input.opt)
          /\ pc = "filter" => k < i
          /\ pc \notin {"start", "alloc"} /\ ret # "FAIL_PATH"}

(* While partition runs, the pivot stays where it is and splits what has   *)
(* been seen: smaller symbols up to i, the others up to j.                 *)
PartitionSplits ==
  At("loop") =>
    /\ Top.low - 1 <= i /\ i < j /\ j <= Top.high
    /\ \A k \in Top.low..i : Cmp(visible[k], visible[Top.high]) < 0
    /\ \A k \in (i + 1)..(j - 1) : Cmp(visible[k], visible[Top.high]) >= 0

(* The pivots placed by all the calls still on the stack stay in order     *)
(* with what is on either side of them, whatever deeper calls move; the    *)
(* left part of a call is sorted when its right part is started.           *)
PivotsHold ==
  pc = "sort" =>
    \A n \in DOMAIN calls :
      LET f == calls[n]
      IN  /\ f.at \in {"left", "right"} =>
               /\ \A k \in f.low..(f.pi - 1) : Cmp(visible[k], visible[f.pi]) < 0
               /\ \A k \in (f.pi + 1)..f.high : Cmp(visible[k], visible[f.pi]) >= 0
          /\ f.at = "right" =>
               \A k, l \in f.low..f.pi : k < l => Cmp(visible[k], visible[l]) <= 0

(* The partitions of all the calls on the stack, the running one included, *)
(* hold from the first comparison of partition to the return of quicksort. *)
PartitionsHold == PartitionSplits /\ PivotsHold

(* Quicksort recurses on both parts: on sorted or constant input the stack *)
(* grows with the number of symbols, and never beyond it.                  *)
StackWithinCount == Len(calls) <= Len(visible)

(* The whole of it implements the listing of SymbolListing. *)
Listing == INSTANCE SymbolListing
             WITH status <- IF ret = "none" THEN "busy" ELSE ret

ImplementsListing == Listing!Spec

(* The -n order as archi/architecture.md describes it: by value, and by    *)
(* name among equal values.                                                *)
EqualValuesByName ==
  \A k, l \in DOMAIN printed :
    LET a == Symbol(printed[k])
        b == Symbol(printed[l])
    IN  Has("n") /\ ~ Has("r") /\ k < l /\ a.value = b.value =>
          StrCompare(a.name, b.name) <= 0
=============================================================================
