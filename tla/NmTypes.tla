------------------------------- MODULE NmTypes -------------------------------
(***************************************************************************)
(* What include/nm.h and format_router.c give to every other part of       *)
(* ft_nm: result codes, the range check that guards each access to a       *)
(* mapped file, word arithmetic and format detection.                      *)
(***************************************************************************)
EXTENDS Integers, Sequences

CONSTANT WORD   \* 2^64, the modulus of uint64_t

ASSUME WordAssumption == WORD \in Nat /\ WORD > 255

(* t_result; SKIP_UNIT never leaves elf_parser.c. *)
OK        == "OK"
SKIP_UNIT == "SKIP_UNIT"
FAIL_PATH == "FAIL_PATH"
FATAL     == "FATAL"

SARMAG  == 8     \* "!<arch>\n"
SELFMAG == 4     \* "\177ELF"

(* The sum of two words: at most one wrap. *)
Wrap(n) == IF n < WORD THEN n ELSE n - WORD

(* CHECK_RANGE: [offset, offset + size) lies inside limit, tested without  *)
(* forming offset + size.                                                  *)
CheckRange(offset, size, limit) ==
  offset <= limit /\ size <= limit - offset

(* detect_format.  magic names what the first bytes of the unit spell.     *)
DetectFormat(magic, limit) ==
  CASE limit >= SARMAG  /\ magic = "AR"  -> "FMT_AR"
    [] limit >= SELFMAG /\ magic = "ELF" -> "FMT_ELF"
    [] OTHER                             -> "FMT_UNKNOWN"

(* What may come of process_elf_unit, or of an archive's members taken     *)
(* together, on sound content: an allocation may fail in load_symbols or   *)
(* in sort_and_print_symbols.                                              *)
UnitOutcomes(symbols) ==
  CASE symbols = "malformed" -> {"malformed"}
    [] symbols = "none"      -> {"no_symbols"}
    [] symbols = "some"      -> {"listed", "no_load", "no_sort"}

UnitFails == {"malformed", "no_load", "no_sort"}     \* returns FAIL_PATH
UnitLogs  == {"malformed", "no_load", "no_symbols"}  \* writes to stderr

(* The characters of s before the first one that belongs to stops. *)
Before(s, stops) ==
  LET hits == {i \in DOMAIN s : s[i] \in stops}
  IN  IF hits = {} THEN s
      ELSE SubSeq(s, 1, (CHOOSE i \in hits : \A j \in hits : i <= j) - 1)
=============================================================================
