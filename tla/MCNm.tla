--------------------------------- MODULE MCNm ---------------------------------
(***************************************************************************)
(* Nm on every command line of up to MaxArgs arguments.                    *)
(***************************************************************************)
EXTENDS Nm

CONSTANT MaxArgs

F(exists, readable, size, magic, symbols) ==
  [exists |-> exists, readable |-> readable, size |-> size,
   magic |-> magic, symbols |-> symbols]

Files ==
  (AOut     :> F(TRUE, TRUE, 9, "ELF", "some")) @@
  (<<"o">>  :> F(TRUE, TRUE, 9, "ELF", "none")) @@
  (<<"l">>  :> F(TRUE, TRUE, 8, "AR", "some")) @@
  (<<"m">>  :> F(TRUE, TRUE, 8, "AR", "mixed")) @@
  (<<"t">>  :> F(TRUE, TRUE, 3, "ELF", "some")) @@
  (<<"e">>  :> F(TRUE, TRUE, 0, "none", "malformed")) @@
  (<<"d">>  :> F(TRUE, FALSE, 9, "none", "malformed"))

MCFile(path) ==
  IF path \in DOMAIN Files THEN Files[path]
  ELSE F(FALSE, FALSE, 0, "none", "malformed")

Args == {<<"-", "a">>, <<"-", "n", "r">>, <<"-", "g", "z", "u">>, <<"-", "-">>,
         <<"-">>} \cup (DOMAIN Files \ {AOut})

MCArgVectors == UNION {[1..n -> Args] : n \in 0..MaxArgs}
=============================================================================
