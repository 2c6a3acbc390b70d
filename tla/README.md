# ft_nm: a verification project

TLA+ models of `ft_nm`, a re-implementation of `nm` in C: what it does with a
command line, with a file, with an archive and with the symbol table of an ELF
unit, and what its own `ft_printf` and `get_next_line` do; checked with TLC on
small instances and, for the core of it, proved with TLAPS for every instance.
Paths below are relative to the repository.

## The system

`ft_nm` is one sequential process. `main` parses the command line and calls
`process_path` for each path; that maps the file and routes it by format; an
archive is walked member by member, and each ELF unit, a file or a member, is
checked, loaded, classified, sorted and printed.

    main -> parse_arguments
         -> process_path -> detect_format
                         -> process_elf_unit ------------------+
                         -> process_ar_archive -> detect_format |
                                               -> process_elf_unit
    process_elf_unit -> verify_elf_header, find_symbol_table,
                        load_symbols (-> classify_symbol), sort_and_print_symbols

Components interact by calls and results only: a unit is a window (`base`,
`limit`) on the mapping, a result is `OK` or `FAIL_PATH` (`FATAL` from the parser
of the command line), diagnostics go to stderr. No threads, no callbacks. What is
hard is elsewhere: every offset and size comes from the file; a failure of one
part must not be lost, nor stop the others; state is kept in static buffers and
on a recursion stack; allocations and system calls may fail anywhere.

| Component | State | Operations | What makes it correct |
|---|---|---|---|
| Driver (`nm.c`, `arg.c`, `io_unit.c`) | options, paths, exit status, descriptor, mapping | parse, try each path, release | all paths tried in order under all options; the status tells whether one failed; nothing leaks; one wrong letter touches nothing |
| Routing (`format_router.c`, `nm.h`) | none | `detect_format`, `CHECK_RANGE` | range checks that no wrap defeats |
| Archive walk (`ar_parser.c`) | offset, name table, two static buffers, result | walk headers, extract names, hand out windows | exactly the ELF members, disjoint windows, right names, exact verdict, an end |
| ELF unit (`elf_parser.c`) | header, table and string table positions, two arrays | verify, find, load, hand over | no read behind the unit, terminated names, whole table or nothing, arrays released |
| Classification (`sym_classify.c`) | none | `classify_symbol` | the letter says where and how the symbol is bound |
| Listing (`sort_filter_print.c`) | array of visible symbols, call stack | filter, quicksort, reverse, print | a permutation in order; pivots hold through the recursion |
| `ft_printf` | the write results added up so far | walk the format, convert, write | the result tells whether anything was lost; a line that is reported is ended; no buffer is overrun |
| `libft` | the backups of `get_next_line` | memory and string helpers, `get_next_line` | lines are those of the file whatever the reads bring; only a lack of memory crashes |
| `TestserMachine.py`, `test/`, `diff/`, `portfolio_audit/` | recorded results | drive the program from outside | not part of the program |

## Modules

| Module | Models | Correspondence |
|---|---|---|
| `NmTypes` | `nm.h`, `format_router.c` | result codes, `CheckRange`, `DetectFormat`, sums modulo `WORD` (2^64 in the code); `UnitOutcomes` is the contract of `process_elf_unit` |
| `ArParser` | `ar_parser.c` | one action per kind of turn of the loop (`NameTable`, `SymbolIndex`, `OtherMember`, `ElfMember`), `LeaveLoop` for its breaks and its end, `Return` for what follows |
| `ArParserProofs` | | the theorems about `ArParser` |
| `SymClassify` | `sym_classify.c` | the nested tests, as operators |
| `LetterSweep` | | drives `ClassifySymbol` over all it can be asked |
| `ElfParser` | `elf_parser.c` | one action per step: header, each section header visited, each check of the table, each allocation, each symbol, each way out |
| `SymbolOrder` | filter and comparators of `sort_filter_print.c` | as operators |
| `SortFilterPrint` | the rest of that file | `calls` is the stack of `quicksort`, with the place each call is at; the loops move one element per step |
| `SymbolListing` | | abstract: what a listing promises, without an algorithm |
| `Nm` | `nm.c`, `arg.c`, `io_unit.c` | one action per argument and per system call's outcome |
| `NmBatch` | | abstract: what a command line is promised, without files, formats or calls |
| `NmSystem` | the calls between `Nm`, `ArParser` and `ElfParser` | the three as instances with their own state; `callee` says who runs; a caller goes on with what its callee computed from the contents of the file |
| `FtPrintf` | `ft_printf/`, twelve conversions in both functions | an action per character or conversion, then one per `write` with its outcome: all, a part, or refused |
| `ListingLines` | `print_symbol`, `write_hex`, `print_hex_field` | a listing as the sequence of `ft_printf` calls it makes, run by `FtPrintf` |
| `GetNextLine` | `libft/gnl_check_bonus/`, both variants | an action per read, per allocation and per test between them |
| `ElfParserProofs` | | the theorems about `ElfParser` |
| `LetterProofs` | | the theorem about `LetterSweep`, and about `classify_symbol` for any symbol |
| `SortProofs` | | the theorems about `SortFilterPrint`: its comparators are total preorders, it sorts, and it implements `SymbolListing` |
| `NmSystemProofs` | | the theorems about `Nm`; then those about `NmSystem`, on top of those about its parts; that it implements `NmBatch` |
| `GetNextLineProofs` | | the theorems about `GetNextLine` |
| `FtPrintfProofs` | | the theorems about `FtPrintf` and `ListingLines` |
| `DataLemmas` | | lemmas on naturals, recursive functions and sequences the proofs share |
| `MC...` | | instances for TLC |

Definitions named `...` after a comment that starts with *Mutant* are plausible
bugs: put in place of the definition they mutate, they break one property each.
They are not part of any specification.

**Abstractions.** A file's bytes appear by what the code reads from them: an
archive is its headers and payloads by offset, a unit is the fields of its header,
of its section headers and symbols, and the offsets of the NUL bytes of its
strings. A damaged section table's position (`shoff`) does not change what its
headers hold: any content is a possible content. `ElfParser` keeps in `reads` every
window of the unit it reads. Diagnostics are the fact that something was named on
stderr. The text of printed lines is in `ListingLines` alone, on names of a few
characters and numbers of a few hexadecimal digits: the widths are parameters.

The components meet in `NmSystem`. `Nm` by itself lets a file yield any outcome that
its label (`symbols`) permits, and `ArParser` does the same for a member; in the
composition the labels no longer decide anything: `process_elf_unit` and
`process_ar_archive` run on the contents, and the run fails if what they compute
is not among the outcomes their callers were checked with.

## Runs

| Run | Question | Bounds, and why they are enough |
|---|---|---|
| `archive_walk` | is every member found, named and accounted for? | up to 3 members of 9 kinds (short, long and overlong names, even, odd and empty payloads, name table, both symbol indices, non-ELF, nested archive) and 8 kinds of damage at each place: a table before, between and behind its users, a failure in front of, between and behind successes. Fields are scaled (`NameField` 8, `LongNameBuf` 12, `WORD` 2^15) with every comparison reached on both sides |
| `archive_short_names` | *expects a violation* | one member suffices |
| `elf_unit` | is a unit read safely and listed whole or not at all? | 5 sections and 3 symbols in both classes; every field that is compared takes the values around each of its boundaries and near `WORD`, one field at a time, and symbol 1 takes every combination of its fields' kinds; allocation failures at each place |
| `elf_zero_entsize` | *expects a violation* | same instance |
| `letters` | which letters are computed? | complete for the tests made |
| `letter_count` | *expects a violation* | same |
| `sort_and_print` | is the listing right? | every table of up to 2 symbols of 7 kinds under all 32 option sets with and without heading (the filter looks at symbols one by one, the comparator at pairs), and every table of up to 4 symbols of 4 kinds under `-a`, `-a -n`, `-a -n -r` (4 is where both recursive calls have work, and where pivots nest) |
| `sort_value_ties` | *expects a violation* | same |
| `driver` | are all paths tried, is the status exact, is everything released? | up to 3 arguments out of 11: options, an invalid letter in the middle, `-`, `--`, an object without symbols, archives (one of them with and without symbols in turn), short file, empty file, unreadable file; three positions order options and paths in every way |
| `whole_program` | does the composition of driver, walk and unit keep its promise? | up to 2 arguments out of 13, `a.out` for none: objects with, without and with damaged symbols, archives with a name table, with mixed members, with a member whose payload is shorter than its unit, cut at the end, empty; an empty, an unreadable and an unknown file. Two arguments are two archives one after the other, which is what the static buffers need |
| `printf_calls` | what does the result of a call say of what was lost, and what is printed when nothing was? | 12 listings (both formats, both classes, with and without heading, unresolved symbols, sizes 0 and not, an empty name and one with a space in it) and every conversion at 0, in the middle and at its limits, through both functions; `DIGITS` 2 instead of 8, up to 3 writes refused or cut short anywhere, each descriptor open or closed: three losses are what it takes for refused and short writes to cancel out |
| `next_line` | are the lines those of the file? | every text of up to 3 characters with newlines at any places, `BUFFER_SIZE` 2, any short reads, descriptors 0, 1 and 1024, up to 5 calls, one read error and one failed allocation anywhere: three characters hold a line longer than the buffer, an empty line and a last line without newline; five calls read everything and then ask again |

What the passing runs show is stated above each property in its module. The four
violations are divergences between the documents and the code: names with spaces,
entry size 0, the letter `n`, and the order of equal values under `-n`; each is
recorded under `findings` with the line it contradicts.

Three things the passing runs allow for, because the code does them:
`ft_fputnbr` sends the minus sign to standard output whatever descriptor it has
(`ft_printf/ft_putnbr.c:76`, part of `Expected` in `ResultTellsLoss`); the buffer of
`%o` has 8 characters and is overrun from 2^24 on (`ft_printf/ft_putaddress.c:131`,
the one exception in `BuffersHold`; `ft_nm` uses no `%o`); and a `-1` of a refused
write is summed with the counts of the others, so that a call with losses may
return a positive number, but, as `ResultTellsLoss` shows, never the right one.
A call that returns -1 may leave its line open, and since `ft_nm` looks at no result
the next line is then appended to it; `LinesTerminated` says that no other result,
0 and sums below -1 included, comes from a call that has not ended its line.

Three failures of the program are silent: an empty file (`io_unit.c:24`), a listing
whose copy cannot be allocated (`sort_filter_print.c:206`) and an array of paths that
cannot be (`nm.c:42`, `arg.c:91`). `FailureExplained` of `Nm` says that there is no
fourth. `malloc` may refuse 0 bytes as it may refuse any other number, so a table of
no symbols can fail in `load_symbols` and in `sort_and_print_symbols` too.

In the plain variant of `get_next_line` a last line `a` with its newline comes in
two parts (`LinesExact` says when).

**Deadlock** is checked everywhere: a returned call stutters in `Done`.

**Fairness.** `WF_vars(Next)` everywhere and nothing more: a sequential process
that can take its next step takes it. No call the models make waits for another
party; `open`, `fstat`, `mmap` and writes on regular files return. Termination
then depends on the code alone. `NmBatch` states its liveness as `<>(status # -1)`,
which is what the program's fairness is shown to imply: with `ImplementsBatch`
every command line comes to its end, each archive walk on the way included.
`get_next_line` is not claimed to return while reads fail: it makes a failed read
behind a part of a line again, and the bound on errors, not the code, ends that.

## Proofs

`ArParserProofs` proves, from `ArchivesAssumption` and `BuffersAssumption`, for every
set of images, every word size above 255 and every size of the name field and of the
static buffers with `2 <= NameField <= LongNameBuf`:

- `ArInvHolds`, the inductive invariant, of which the properties below are parts or
  consequences. `EnteredHolds` and `StepHolds` say of it, without reference to time,
  that it holds wherever the walk is entered and that each step keeps it: this is the
  form in which the proof of the composition uses it.
- `TypesHold`: the offset stays even and inside the archive. The step that matters is
  `StepFits`: behind an acceptable header no sum wraps, and payload and padding end
  inside the archive.
- `WindowsHold`: windows are disjoint and lie behind their headers, by induction on
  the fact that all of them end before `member_off`.
- `ListedExactlyHolds`: the walk stands on the k-th offset of the writer's chain
  and has listed the ELF members in front of it (`StandsAt`), in order (`InOrder`).
- `VerdictExactHolds` and `FailureExplainedHolds` from `VerdictInv`: the verdict alone
  is not inductive, because until the test below the loop `result` speaks of the
  members only and a silent failure is known only from `listed`; `VerdictInv` says so
  for each value of `pc`.
- `NamesAsWrittenHolds`: `NamesAsWritten` is inductive once it is known that the
  buffers hold characters whatever was in them (`BufsOK`), that the table kept is one
  the archive holds (`TableOK`), and that it is the last one in front of the walk
  (`LastTableKept`). What `extract_ar_name` then returns is computed for both its
  ways, the field and the table: `Overwrite` puts a NUL behind what it copies, so
  `CString` gives that back whatever the buffer held before. A table offset is a
  recursive function on its digits (`Number`); that it is a natural is proved from the
  equation of the function, whose existence is `Least` in `DataLemmas`.
- `WalkAdvancesHolds`, an action property, from the type invariant.

`ArchivesAssumption` says that images fit in memory with room for one header field
more (`limit + 1 < WORD`, sizes of ten digits are below 2^64), that fields and tables
are sequences of characters of their length, that `start` is the chain of acceptable
headers, which exists for every file, and that where an archive carries a name whole
(`NameCarried`: no space, `/`, newline or NUL in it, and for a long one a single name
table in front of it) the field or the table spells it as `ar` does. TLC evaluates it.

`NmSystemProofs` first proves about the driver alone, from `NmAssumption` (arguments
are sequences of strings, every file named has its label), for every command line
and every file system:

- `NmInvHolds`: the driver's inductive invariant. `Types` comes first; `Scanned`,
  `ScannedAll` and `Counted` say what the parser of arguments has done with the words
  it has passed; `Untouched` that nothing is opened before it has accepted them all;
  `Looping` and `Held` what the current path holds, for each value of `pc`; `History`
  and `Returned` what the results of the paths so far come to.
- `TriedInOrderHolds`, `ExitStatusExactHolds` and `ResourcesBalancedHolds` each follow
  from it without another induction.
- `FailureExplainedHolds` takes one more small invariant, `Excused`: a program that ends
  before any path is tried has either named a wrong letter or accepted its command line,
  and then only the array of paths can have been refused. With `Returned`, which gives
  a failed path for every status 1 behind the first path, that leaves the three silent
  ways to fail.

The paths of a command line (`PathsIn`) are a recursive function on its arguments;
that each word adds its path or nothing is proved from the equation of the function,
again by `Least`: a set of naturals that is not empty has a least element, so a
smallest place where the equation fails does not exist.

`ElfParserProofs` proves, from `UnitsAssumption` (a unit ends below `WORD`, and the
fields of its header, section headers and symbols are naturals), for every unit:

- `ElfInvHolds`: what the passed checks have established in each phase. `Located`
  says where the section table lies, `Loaded` what the arrays hold and that every
  name has its NUL inside its table, `Held` which arrays there are, `Progress`,
  `Silent` and `Unlisted` what came of it.
- `UnitInv` adds where the reads lie and how the call ends; `UnitInvStep` says that
  each step keeps it, for the proof of the composition.
- from it, `ReadsInBoundsHolds` (no read behind the unit, whatever its fields say),
  `NamesTerminatedHolds`, `AllOrNothingHolds`, `LettersFaithfulHolds`,
  `HeapBalancedHolds` and `UnitContractHolds`.

`SortProofs` proves that `quicksort` sorts, from `InputsAssumption` (names are
sequences of bytes other than 0, values are naturals, a table has at most `INT_MAX`
symbols), for every table and every set of options:

- `TotalPreorder` gives what a sort needs of its comparator: each of the five is a
  total preorder (`Swapped`, `Chained`). For `StrDiff` that follows from its being
  decided at the first place where two strings differ; a comparison refined by
  another one (`Then`) inherits it.
- `SortInvHolds`: `PivotsHold` by itself is not inductive: it does not say that a
  deeper call moves symbols only inside the part its caller gave it. `Stacked` does
  (each call on the stack lies inside the part of every call under it), so a swap of
  the innermost call disturbs no pivot (`PlacedSwap`); and a part shrinks by at least
  the pivot per call, which bounds the stack. `Active` says what the innermost call
  is at: how far `partition` has come, or that the part it waited for is in order.
- `QuicksortSorts`, `PartitionsHoldThroughout` (from `PartitionSplitsHolds` and
  `PivotsHoldThroughout`) and `StackWithinCountHolds` from it;
  `SortsAPermutationHolds` by an induction of its own, since no swap changes the
  range of the array or makes it less injective.

It goes on from there to `ListingImplemented`: every initial state of
`SortFilterPrint` is one of `SymbolListing`, every step one of its steps or a stutter.

- `PrecedesIsCompare`: the order of the listing (`Before`, `NameBefore`, `Precedes`,
  written without differences or cases) is the sign of the comparator.
- `ShowingStep`: the reversal keeps `Turned` (what it has not reached is in order,
  all other pairs are in the opposite order), so the array is `Final` when printing
  starts, and what is printed is its front.
- `MissingIsTheRest`: with the permutation, the symbols missing are those behind, so
  the one printed next is one that no missing symbol precedes.

Its liveness half, that a listing ends, is left to TLC (`ImplementsListing`).

`GetNextLineProofs` proves, from `GnlAssumption` (texts are sequences of characters,
descriptor 0 is among those asked for), for every text, every `BUFFER_SIZE` and any
number of calls, errors and failed allocations:

- `GnlInvHolds`: `LinesExact` speaks of the moments between two calls. `Slices` says
  at every moment where in its text a backup lies, counting what is still in the
  buffer (`Arrived`), and `Buffered` what the buffer holds, so that `ft_gnl_strjoin`
  joins neighbours. `Ready` says why there is a line to take: a newline, or the end
  of the file. `Remembered` says that nothing is null without a failed allocation.
- `LineTaken` and `LineOfText`: both versions of `ft_get_head` cut the backup in two at
  the first newline or at the end, the plain one also before a newline that comes
  second at the end of the file. `Returned` carries that exception from one call to
  the next: the line that follows is the newline alone.
- `LinesExactHolds`, `NullMeansEndHolds`, `CrashOnlyOutOfMemoryHolds` and `TypesHold`
  from it. The concatenation of the lines (`FlattenSeq`) is a recursive function; its
  equation is `FlattenJoined` in `DataLemmas`.

`FtPrintfProofs` proves, from `PrintfAssumption`, for every session of calls, every
number of digits of an unsigned int, every set of closed descriptors and any number of
writes refused or cut short:

- `DecimalIsPositional` and `NumeralIsPositional`: both ways of making digits, from the
  last one by division and remainder and from the first one by falling powers of ten,
  give the digits by their places (`Positional`). The functions behind them are recursive
  (`Power`, `Quotients`, the remainders of `Decimal`); `Recursion` in `DataLemmas` proves
  the equation of such a function from `Least`, and `LowDigits` and `Division` are the
  arithmetic. `PositionalText` bounds the number of digits.
- `ConversionMakes`: what each of the twelve conversions writes is, put together, what
  the conversion means, and it stays in its buffer unless it is a long octal number.
  `BuffersHoldHolds` follows once it is known where in a format a call can be.
- `Place` says that: all conversions so far are known, the next character is not a
  letter, and `arg` is the next argument. `PlaceBehindPlain` and `PlaceBehindConversion`
  keep it, so an argument is only ever taken for what the caller meant it to be.
- `PrintfInvHolds`: `ResultTellsLoss` speaks of calls that have returned. While a call
  runs, `Loss` says that it is `Faithful` (what is sent, and what is still to write, is
  the text of the format so far, and every character has been counted) or `Lacking`
  (even if all the rest is written, the text and the count both stay too short). A
  refused write leads from the first to the second and adds -1 where at least one
  character was due; nothing leads back, which is why the sum of counts and refusals
  can be positive but never right. `Ending` adds that a newline at the end of a format
  is a write of its own, whose refusal makes the whole call fail; `Verdicts` keeps what
  was shown for each call that has returned.
- `PrintsExpectedHolds`: the same invariant seen from the other side. `Verdict` records of
  each call whether it was `harmed`, by a refused or short write so far or by a closed
  descriptor of its own, and says that a call that was not has sent its text and
  returned its length; `Going` that whatever is on its way goes to standard output or to
  the call's own descriptor, so that no other closed descriptor can harm it.
- `TypesHold`, `BuffersHoldHolds`, `ResultTellsLossHolds` and `LinesTerminatedHolds`
  from it.

The last part of the module is about the listings of `ListingLines`, and uses also
`ListingsAssumption` (names are strings, a type is neither a space nor a newline, a value
has the digits of its class):

- `Upto` follows a format to its end: the first n characters are known and stand for a
  certain text. `SymbolSays`, `NameSays`, `FieldSays`, `HeadingSays` and `EndLineSays` do it
  for the five formats of a listing, `PrintableIs` sums them up: such a call is sound and
  asks for no octal digits. That it reaches its end and never overruns a buffer follows
  (`StuckHolds`), so `SessionOver` means that every call has returned.
- `HexReadsBack`: the digits of `write_hex`, made from the last one by shifting, have the
  value they were made from when read from the first one, whenever the number fits the
  width; `FieldIs` and `FieldOf`: `print_hex_field` skips the zeros that add nothing, and
  leaves one digit of 0.
- `SplitWord`, `SplitLine`: a text that ends with a separator (`Closed`), followed by a word
  without one, is divided into the same parts and that word. `ReadsPortable` divides a
  line of `-P` at its spaces with it, `ListingSplits` a listing at its newlines, symbol by
  symbol; `ReadsPlain` finds the columns of the other format.
- `LineReadsBackHolds` joins them: with no loss the text sent is what the calls say
  (`PrintsExpected`, `ListingSaid`), and that is read back as the listing
  (`ListingReads`). The recursions of the property (`Parts`, `Values`) are functions on
  the positions of one text, so that their equations come from `Recursion`, and what is
  shown of every length from `Least`.

`LetterProofs` proves `LettersComputedHolds`: what the sweep has seen is what it has tried
(`SweepInv`), in any order and not only in the one in which TLC picks the places;
`LettersOnly`, that 'n' is never answered, holds for every symbol and every section, whatever
their types and flags are; `EveryLetter` has a symbol for each of the other 21 letters.

`PrintfAssumption` says that the arguments of a call suit the conversions of its format,
in front of the first unknown one (`CallOK`): with others `va_arg` is undefined. TLC
evaluates it for every call it checks, those that print listings included: for these it
is assumed of the calls, not derived from the symbols. Counts and
the arguments of `%d` are integers of any size: texts of 2^31 characters are left out.

`NmSystemProofs` then proves, from the assumptions above and `ContentsAssumption` (what the
files named hold are images and units that satisfy those assumptions, an image with
the size of its file), for every command line over any files, and with every failure
of a system call or an allocation:

- The composition instantiates `ArParser` and `ElfParser`; the proofs instantiate
  `ArParserProofs` and `ElfParserProofs` with the same substitutions (`Walk`, `Unit`).
  To the provers these are two sets of operators, so `ImagesSame` to `WalkSame` and
  `UnitsSame` to `UnitSame` first show that they agree, definition by definition.
  `WalkAssumptions` and `UnitAssumptions` discharge the assumptions of the parts from
  what the files hold: a member that the walk stands on is a unit that `ElfParser` was
  verified for. After that the invariants of the parts carry over with their proofs.
- `SysInvHolds`: the invariant of the program is that of the driver (`NmInv`), that of
  whichever part is at work (`AtArchive`, `Running`), and what joins them. `Calls`
  says that a part runs only for a path that is mapped; `AtFile` and `AtMember` which
  unit was handed over and where it lies; `Tallied` that the units listed are those
  whose outcome the walk has recorded as listed, plus the one at work; `Kept` what
  the static buffers and the names in them are between two archives.
- `ReadsInMappingHolds`: `ReadsInBounds` of the unit, within the payload of the member
  (`MemberFits`), within the file. `NamesSurviveHolds` from `Kept` and `ArInv`.
- `BatchImplemented`: every initial state of the program is one of `NmBatch`, every
  step one of its steps or a stutter. What is hard is that the abstract program takes
  a path in one step and in no particular way, while the concrete one has gone through
  any number of members. `ArchiveYields` sums these up: the places listed are in order
  and belong to units with symbols, and they are all of them, with no malformed one
  and nothing cut off, exactly when nothing has failed; so the step in which
  `process_path` returns is a `Take` with a permitted contribution (`Takes`), whether
  it failed early (`FailsEarly`) or not.

The liveness half of `ImplementsBatch`, that a command line comes to its end, is left
to TLC.

**Model-checked only:** liveness: `Terminates` of `ElfParser` and of `Nm`, and the liveness
halves of the two refinements `ImplementsListing` and `ImplementsBatch`. Progress under
fairness rests on `ENABLED`, which is out of the prover's reach. Every invariant and every
action property that a passing run checks is stated by a theorem.

## Not modelled

- the wording of diagnostics; the unused error table of `nm.c`;
- a file that shrinks while it is mapped: the code does not react to it;
- tables of more than 2^31 - 1 symbols, excluded by `InputsAssumption`;
- `ft_printf/what_printf.c`, a `main` of experiments that no build rule compiles;
- in `get_next_line`: memory leaks, a descriptor closed before `NULL` was returned
  and opened again as another file (its old backup comes first), and several
  descriptors in the plain variant, which is made for one;
- the string, list and conversion helpers of `libft` that `ft_nm` does not call:
  pure functions on one buffer, with no state and no failure but `malloc`'s;
- the test harnesses and recorded results.

## Plan

1. *Done:* `ArParser` with its proofs, `ElfParser`, `SymClassify`, `SymbolOrder`,
   `SortFilterPrint` against `SymbolListing`, `Nm`.
2. *Done:* `FtPrintf` and `ListingLines`; `GetNextLine`.
3. *Done:* `NmSystem`, the composition, against `NmBatch`.
4. *Done:* proofs about `ArParser`, `Nm`, `ElfParser`, `SortFilterPrint`, `GetNextLine`,
   `FtPrintf`, `ListingLines` and `LetterSweep`; of the composition `NmSystem` and its
   refinement of `NmBatch`.
5. Left: to derive from the symbols that the calls of a listing satisfy `CallOK`, instead of
   assuming it; to let `NmSystem` print its listings through `FtPrintf`, so that a refused
   write can be followed from the exit status to the line it cut.
