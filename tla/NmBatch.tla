-------------------------------- MODULE NmBatch --------------------------------
(***************************************************************************)
(* What ft_nm promises for a command line, without saying how: the paths   *)
(* are taken one after the other, each contributes listings its contents   *)
(* permit, and the exit status tells whether all of them succeeded.        *)
(***************************************************************************)
EXTENDS Integers, Sequences

CONSTANTS
  ArgVectors,
  Permitted(_),    \* for a path, what may come of it: the units listed,
                   \* by offset, and whether all of them were sound (ok)
  Asked(_),        \* the paths a command line asks for, in order
  Refused(_)       \* does it hold a letter that is no option?

VARIABLES
  argv,
  blocks,   \* for each path taken: the offsets of the units listed, 0 for
            \* the file itself
  failed,   \* has a path failed?
  status    \* -1 while running, then the exit status

batchVars == <<argv, blocks, failed, status>>

Init ==
  /\ argv \in ArgVectors
  /\ blocks = <<>>
  /\ failed = FALSE
  /\ status = -1

Take ==
  /\ status = -1 /\ ~ Refused(argv)
  /\ Len(blocks) < Len(Asked(argv))
  /\ \E b \in Permitted(Asked(argv)[Len(blocks) + 1]) :
       /\ blocks' = Append(blocks, b.listed)
       /\ failed' = (failed \/ ~ b.ok)
  /\ UNCHANGED <<argv, status>>

Finish ==
  /\ status = -1 /\ ~ Refused(argv)
  /\ Len(blocks) = Len(Asked(argv))
  /\ status' = IF failed THEN 1 ELSE 0
  /\ UNCHANGED <<argv, blocks, failed>>

(* Nothing is begun: a wrong letter, or no memory for the paths. *)
GiveUp ==
  /\ status = -1 /\ blocks = <<>>
  /\ status' = 1
  /\ UNCHANGED <<argv, blocks, failed>>

Next == Take \/ Finish \/ GiveUp

Safe == Init /\ [][Next]_batchVars

(* The command comes to its end. *)
Spec == Safe /\ <>(status # -1)
=============================================================================
