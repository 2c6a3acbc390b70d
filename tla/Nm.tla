---------------------------------- MODULE Nm ----------------------------------
(***************************************************************************)
(* The driver: main (nm.c), parse_arguments (arg.c), process_path          *)
(* (io_unit.c) and the routing by format (format_router.c).                *)
(*                                                                         *)
(* An argument is a sequence of characters; a file is a record of          *)
(*   exists, readable   whether open finds it, whether mmap can map it     *)
(*   size               its st_size                                        *)
(*   magic, symbols     what it starts with, what its units hold           *)
(***************************************************************************)
EXTENDS NmTypes, SequencesExt

CONSTANTS
  ArgVectors,   \* the command lines, without argv[0]
  File(_)       \* what a path name leads to

Letters == {"a", "g", "u", "r", "P", "n"}   \* is_valid_option
Dash == "-"
AOut == <<"a.out">>

ASSUME NmAssumption ==
  \A args \in ArgVectors :
    /\ args \in Seq(Seq(STRING))
    /\ \A path \in Range(args) \cup {AOut} :
         File(path).symbols \in {"some", "none", "malformed", "mixed"}

VARIABLES
  argv,
  pc,         \* "scan", "alloc", "copy", "default", "paths" (main's loop);
              \* "fstat", "route" (in process_path); "exit"
  index,      \* of parse_arguments' loops
  opts,
  path_count,
  paths,
  heap,       \* is the paths array allocated?
  i,          \* main's loop variable
  ret,        \* main's ret, and process_path's while it cleans up
  fd, map,    \* is the path's descriptor open, is its file mapped?
  processed,  \* history: each path tried, the options and multiple_files it
              \* was tried with, and its outcome
  explained   \* history: what stderr names: a path by its index, a letter of
              \* the command line that is no option by 0

vars == <<argv, pc, index, opts, path_count, paths, heap, i, ret, fd, map,
          processed, explained>>
parseVars == <<index, opts, path_count, paths, heap>>

IsOption(arg) == arg # <<>> /\ arg[1] = Dash /\ Len(arg) > 1

Given(arg) == Range(Tail(arg))

(* Mutant: letters are set before they are validated. *)
AcceptedUnchecked(arg) == Given(arg)

(* parse_option_string sets the letters in front of the first invalid one. *)
Accepted(arg) == Range(Before(Tail(arg), Given(arg) \ Letters))

Init ==
  /\ argv \in ArgVectors
  /\ pc = "scan"
  /\ index = 1
  /\ opts = {} /\ path_count = 0 /\ paths = <<>> /\ heap = FALSE
  /\ i = 1 /\ ret = 0
  /\ fd = FALSE /\ map = FALSE
  /\ processed = <<>> /\ explained = {}

-----------------------------------------------------------------------------
(* parse_arguments: options are taken wherever they stand. *)

(* Mutants: the last option replaces the others; "--" is skipped before    *)
(* the index has moved.                                                    *)
ScanOptionReplacing ==
  /\ pc = "scan" /\ index <= Len(argv) /\ IsOption(argv[index])
  /\ Given(argv[index]) \subseteq Letters
  /\ opts' = Accepted(argv[index])
  /\ index' = index + 1
  /\ UNCHANGED <<argv, pc, path_count, paths, heap, i, ret, fd, map,
                 processed, explained>>

ScanOptionStuck ==
  /\ pc = "scan" /\ index <= Len(argv) /\ IsOption(argv[index])
  /\ Given(argv[index]) \subseteq Letters
  /\ opts' = opts \cup Accepted(argv[index])
  /\ UNCHANGED <<argv, pc, index, path_count, paths, heap, i, ret, fd, map,
                 processed, explained>>

ScanOption ==
  /\ pc = "scan" /\ index <= Len(argv) /\ IsOption(argv[index])
  /\ Given(argv[index]) \subseteq Letters
  /\ opts' = opts \cup Accepted(argv[index])
  /\ index' = index + 1
  /\ UNCHANGED <<argv, pc, path_count, paths, heap, i, ret, fd, map,
                 processed, explained>>

(* An unknown letter: a diagnostic, FATAL, and main returns 1. *)
ScanInvalid ==
  /\ pc = "scan" /\ index <= Len(argv) /\ IsOption(argv[index])
  /\ ~ (Given(argv[index]) \subseteq Letters)
  /\ opts' = opts \cup Accepted(argv[index])
  /\ pc' = "exit" /\ ret' = 1
  /\ explained' = explained \cup {0}
  /\ UNCHANGED <<argv, index, path_count, paths, heap, i, fd, map, processed>>

ScanPath ==
  /\ pc = "scan" /\ index <= Len(argv) /\ ~ IsOption(argv[index])
  /\ path_count' = path_count + 1
  /\ index' = index + 1
  /\ UNCHANGED <<argv, pc, opts, paths, heap, i, ret, fd, map,
                 processed, explained>>

ScanEnds ==
  /\ pc = "scan" /\ index > Len(argv)
  /\ pc' = IF path_count = 0 THEN "default" ELSE "alloc"
  /\ UNCHANGED <<argv, parseVars, i, ret, fd, map, processed, explained>>

(* Both allocations of the array of paths end the program when they fail,  *)
(* without a diagnostic.                                                   *)
AllocFails ==
  /\ pc \in {"alloc", "default"}
  /\ pc' = "exit" /\ ret' = 1
  /\ UNCHANGED <<argv, parseVars, i, fd, map, processed, explained>>

Alloc ==
  /\ pc = "alloc"
  /\ heap' = TRUE
  /\ index' = 1
  /\ pc' = "copy"
  /\ UNCHANGED <<argv, opts, path_count, paths, i, ret, fd, map,
                 processed, explained>>

CopyPath ==
  /\ pc = "copy" /\ index <= Len(argv)
  /\ paths' = IF IsOption(argv[index]) THEN paths ELSE Append(paths, argv[index])
  /\ index' = index + 1
  /\ UNCHANGED <<argv, pc, opts, path_count, heap, i, ret, fd, map,
                 processed, explained>>

CopyEnds ==
  /\ pc = "copy" /\ index > Len(argv)
  /\ pc' = "paths"
  /\ UNCHANGED <<argv, parseVars, i, ret, fd, map, processed, explained>>

DefaultPath ==
  /\ pc = "default"
  /\ heap' = TRUE
  /\ paths' = <<AOut>>
  /\ path_count' = 1
  /\ pc' = "paths"
  /\ UNCHANGED <<argv, index, opts, i, ret, fd, map, processed, explained>>

-----------------------------------------------------------------------------
(* process_path on paths[i].  Whatever stops it, main goes on with the     *)
(* next path and remembers the failure.                                    *)

Now == File(paths[i])

Attempt(why) == [path |-> paths[i], opts |-> opts, multiple |-> path_count > 1,
                 why |-> why]

(* Mutant: the last path decides. *)
FinishLastWins(why) ==
  /\ processed' = Append(processed, Attempt(why))
  /\ ret' = IF why \in {"listed", "no_symbols"} THEN 0 ELSE 1
  /\ i' = i + 1
  /\ pc' = "paths"

Finish(why) ==
  /\ processed' = Append(processed, Attempt(why))
  /\ ret' = IF why \in {"listed", "no_symbols"} THEN ret ELSE 1
  /\ i' = i + 1
  /\ pc' = "paths"

Explain == explained' = explained \cup {i}

InPaths == pc = "paths" /\ i <= path_count

OpenFails ==
  /\ InPaths
  /\ Finish("no_open") /\ Explain
  /\ UNCHANGED <<argv, parseVars, fd, map>>

Open ==
  /\ InPaths /\ Now.exists
  /\ fd' = TRUE
  /\ pc' = "fstat"
  /\ UNCHANGED <<argv, parseVars, i, ret, map, processed, explained>>

FstatFails ==
  /\ pc = "fstat"
  /\ Explain
  /\ fd' = FALSE
  /\ Finish("no_fstat")
  /\ UNCHANGED <<argv, parseVars, map>>

(* Mutant: the descriptor stays open. *)
EmptyFileOpen ==
  /\ pc = "fstat" /\ Now.size = 0
  /\ Finish("empty")
  /\ UNCHANGED <<argv, parseVars, fd, map, explained>>

(* An empty file fails without a diagnostic. *)
EmptyFile ==
  /\ pc = "fstat" /\ Now.size = 0
  /\ fd' = FALSE
  /\ Finish("empty")
  /\ UNCHANGED <<argv, parseVars, map, explained>>

(* Mutant: no diagnostic. *)
MmapFailsSilently ==
  /\ pc = "fstat" /\ Now.size # 0
  /\ fd' = FALSE
  /\ Finish("no_mmap")
  /\ UNCHANGED <<argv, parseVars, map, explained>>

MmapFails ==
  /\ pc = "fstat" /\ Now.size # 0
  /\ Explain
  /\ fd' = FALSE
  /\ Finish("no_mmap")
  /\ UNCHANGED <<argv, parseVars, map>>

Mmap ==
  /\ pc = "fstat" /\ Now.size # 0 /\ Now.readable
  /\ map' = TRUE
  /\ pc' = "route"
  /\ UNCHANGED <<argv, parseVars, i, ret, fd, processed, explained>>

(* process_elf_unit or process_ar_archive runs, or the format is unknown;  *)
(* then munmap and close.                                                  *)
(* An archive of which some members have symbols and others have none      *)
(* explains those that have none.                                          *)
Outcomes(file) ==
  CASE DetectFormat(file.magic, file.size) = "FMT_UNKNOWN" -> {"malformed"}
    [] file.symbols = "mixed" -> {"no_symbols", "no_load"}
    [] OTHER -> UnitOutcomes(file.symbols)

Route ==
  /\ pc = "route"
  /\ \E why \in Outcomes(Now) :
       /\ Finish(why)
       /\ explained' = IF why \in UnitLogs THEN explained \cup {i} ELSE explained
  /\ map' = FALSE
  /\ fd' = FALSE
  /\ UNCHANGED <<argv, parseVars>>

(* free(paths); return ret. *)
Exit ==
  /\ pc = "paths" /\ i > path_count
  /\ heap' = FALSE
  /\ pc' = "exit"
  /\ UNCHANGED <<argv, index, opts, path_count, paths, i, ret, fd, map,
                 processed, explained>>

Done == pc = "exit" /\ UNCHANGED vars

Next ==
  \/ ScanOption \/ ScanInvalid \/ ScanPath \/ ScanEnds \/ AllocFails \/ Alloc
  \/ CopyPath \/ CopyEnds \/ DefaultPath
  \/ OpenFails \/ Open \/ FstatFails \/ EmptyFile \/ MmapFails \/ Mmap \/ Route
  \/ Exit \/ Done

(* One process; every system call it makes on a regular file returns.      *)
Spec == Init /\ [][Next]_vars /\ WF_vars(Next)

-----------------------------------------------------------------------------
(* Properties. *)

TypeOK ==
  /\ pc \in {"scan", "alloc", "copy", "default", "paths", "fstat", "route", "exit"}
  /\ index \in 1..(Len(argv) + 1)
  /\ opts \subseteq Letters
  /\ path_count \in Nat
  /\ paths \in Seq(Range(paths))
  /\ i \in 1..(path_count + 1)
  /\ ret \in {0, 1}
  /\ heap \in BOOLEAN /\ fd \in BOOLEAN /\ map \in BOOLEAN
  /\ explained \subseteq 0..path_count

(* What a command line asks for; the paths among its first n arguments.    *)
PathsIn(args) ==
  LET paths_in[n \in 0..Len(args)] ==
        IF n = 0 THEN <<>>
        ELSE IF IsOption(args[n]) THEN paths_in[n - 1]
        ELSE Append(paths_in[n - 1], args[n])
  IN  paths_in

OptionIndices(args) == {k \in DOMAIN args : IsOption(args[k])}
Wellformed(args) == \A k \in OptionIndices(args) : Given(args[k]) \subseteq Letters
AskedOptions(args) == UNION {Given(args[k]) : k \in OptionIndices(args)}
AskedPaths(args) ==
  IF PathsIn(args)[Len(args)] = <<>> THEN <<AOut>> ELSE PathsIn(args)[Len(args)]

Failed(k) == processed[k].why \notin {"listed", "no_symbols"}

(* The paths are tried one after the other, each once, in the order of the *)
(* command line, each under all the options of the command line, those     *)
(* that stand behind it too, and with its name announced exactly when      *)
(* there are several.  One wrong letter anywhere on the command line, and  *)
(* no file is touched.                                                     *)
TriedInOrder ==
  /\ \A k \in DOMAIN processed :
       /\ k <= Len(AskedPaths(argv))
       /\ processed[k].path = AskedPaths(argv)[k]
       /\ processed[k].opts = AskedOptions(argv)
       /\ processed[k].multiple <=> Len(AskedPaths(argv)) > 1
  /\ ~ Wellformed(argv) => processed = <<>> /\ ~ fd

(* The exit status is 0 exactly when every path asked for was tried and    *)
(* none failed: a later success does not hide an earlier failure, and a    *)
(* failure does not keep the paths behind it from being tried.             *)
ExitStatusExact ==
  pc = "exit" =>
    /\ ret = 0 <=> /\ Len(processed) = Len(AskedPaths(argv))
                   /\ \A k \in DOMAIN processed : ~ Failed(k)
    /\ processed # <<>> => Len(processed) = Len(AskedPaths(argv))

(* At most one file is open and mapped at a time, a mapping never outlives *)
(* its descriptor, and nothing is held when the program returns.           *)
ResourcesBalanced ==
  /\ map => fd
  /\ pc \notin {"fstat", "route"} => ~ fd
  /\ pc = "exit" => ~ heap
  /\ pc \in {"paths", "fstat", "route"} => heap

(* An empty file and a listing that cannot be sorted for want of memory    *)
(* fail without a word.                                                    *)
SilentFailure(k) == processed[k].why \in {"empty", "no_sort"}

PathsExplained ==
  \A k \in DOMAIN processed : Failed(k) /\ ~ SilentFailure(k) => k \in explained

NoArray == Wellformed(argv) /\ processed = <<>>

ExitExplained ==
  pc = "exit" /\ ret = 1 /\ explained = {} =>
    NoArray \/ \E k \in DOMAIN processed : SilentFailure(k)

(* Every path that failed was named on stderr unless it failed in one of   *)
(* the two silent ways, and the program does not return 1 with nothing     *)
(* said at all unless a path failed so or a valid command line found no    *)
(* memory for the array of paths: three ways to fail silently, no fourth.  *)
FailureExplained == PathsExplained /\ ExitExplained

(* The program returns. *)
Terminates == <>(pc = "exit")
=============================================================================
