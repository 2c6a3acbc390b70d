----------------------------- MODULE NmSystemProofs -----------------------------
(***************************************************************************)
(* The driver, proved for every set of command lines and every file        *)
(* system; and NmSystem, which extends it by the walk of archives and the  *)
(* reading of ELF files: what it reads and prints, and that it implements  *)
(* NmBatch, for every file system whose files hold what ContentsAssumption *)
(* says.                                                                   *)
(*                                                                         *)
(* Nothing is proved again of the parts.  The first half speaks of Nm and  *)
(* of its Spec alone; ArParserProofs and ElfParserProofs are taken as Walk *)
(* and Unit, instances over the same variables as Ar and Elf.              *)
(***************************************************************************)
EXTENDS NmSystem, DataLemmas, FiniteSetTheorems

-----------------------------------------------------------------------------
(* The driver: lemmas. *)

(* The paths among the first n arguments are what PathsIn says, argument   *)
(* by argument.                                                            *)
LEMMA PathsInDef ==
  ASSUME NEW args, Len(args) \in Nat
  PROVE  PathsIn(args) =
           [n \in 0..Len(args) |->
              IF n = 0 THEN <<>>
              ELSE IF IsOption(args[n]) THEN PathsIn(args)[n - 1]
              ELSE Append(PathsIn(args)[n - 1], args[n])]
<1> DEFINE step(f, n) == IF n = 0 THEN <<>>
                         ELSE IF IsOption(args[n]) THEN f[n - 1]
                         ELSE Append(f[n - 1], args[n])
           defined(m) == \E f : f = [n \in 0..m |-> step(f, n)]
           missing == {m \in 0..Len(args) : ~ defined(m)}
<1>1. missing = {}
  <2> SUFFICES ASSUME missing # {} PROVE FALSE
    OBVIOUS
  <2>1. PICK m \in missing : \A n \in missing : m <= n
    <3>1. missing \subseteq Nat
      OBVIOUS
    <3> HIDE DEF missing
    <3> QED
      BY <3>1, Least
  <2>2. CASE m = 0
    <3> DEFINE f == [n \in 0..0 |-> <<>>]
    <3>1. f = [n \in 0..0 |-> step(f, n)]
      OBVIOUS
    <3> QED
      BY <2>2, <3>1
  <2>3. CASE m # 0
    <3>1. m - 1 \in 0..Len(args) /\ m - 1 \notin missing
      <4> HIDE DEF defined
      <4> QED
        BY <2>1, <2>3
    <3>2. PICK f : f = [n \in 0..(m - 1) |-> step(f, n)]
      BY <3>1
    <3> DEFINE g == [n \in 0..m |-> IF n < m THEN f[n] ELSE step(f, m)]
    <3>3. ASSUME NEW n \in 0..m PROVE g[n] = step(g, n)
      <4>1. n \in Int /\ m \in Int /\ n <= m
        BY <2>1
      <4>2. n # 0 => g[n - 1] = f[n - 1]
        BY <4>1
      <4>3. step(g, n) = step(f, n)
        BY <4>2
      <4>4. ASSUME n < m PROVE f[n] = step(f, n)
        <5>1. n \in 0..(m - 1)
          BY <4>1, <4>4
        <5> HIDE DEF step
        <5> QED
          BY <3>2, <5>1
      <4>5. g[n] = IF n < m THEN f[n] ELSE step(f, m)
        OBVIOUS
      <4>6. n < m \/ n = m
        BY <4>1
      <4> HIDE DEF g, step
      <4> QED
        BY <4>3, <4>4, <4>5, <4>6
    <3>4. g = [n \in 0..m |-> step(g, n)]
      BY <3>3
    <3> HIDE DEF g, step
    <3> QED
      BY <2>1, <3>4
  <2> QED
    BY <2>2, <2>3
<1>2. defined(Len(args))
  <2> HIDE DEF defined
  <2> QED
    BY <1>1
<1> QED
  BY <1>2 DEF PathsIn

(* The arguments of a command line. *)
LEMMA Arguments ==
  ASSUME argv \in ArgVectors
  PROVE  /\ argv \in Seq(Seq(STRING))
         /\ Len(argv) \in Nat
         /\ DOMAIN argv = 1..Len(argv)
         /\ \A k \in 1..Len(argv) : argv[k] \in Seq(STRING)
<1>1. argv \in Seq(Seq(STRING))
  BY NmAssumption
<1> QED
  BY <1>1

(* Collecting the paths of one more argument. *)
LEMMA PathsInStep ==
  ASSUME argv \in ArgVectors
  PROVE  /\ PathsIn(argv)[0] = <<>>
         /\ \A n \in 1..Len(argv) :
              PathsIn(argv)[n] = IF IsOption(argv[n]) THEN PathsIn(argv)[n - 1]
                                 ELSE Append(PathsIn(argv)[n - 1], argv[n])
<1>1. Len(argv) \in Nat
  BY Arguments
<1> DEFINE P == PathsIn(argv)
<1>2. P = [n \in 0..Len(argv) |->
             IF n = 0 THEN <<>>
             ELSE IF IsOption(argv[n]) THEN P[n - 1]
             ELSE Append(P[n - 1], argv[n])]
  BY <1>1, PathsInDef
<1> HIDE DEF P
<1>3. P[0] = <<>>
  BY <1>1, <1>2
<1>4. ASSUME NEW n \in 1..Len(argv)
      PROVE  P[n] = IF IsOption(argv[n]) THEN P[n - 1] ELSE Append(P[n - 1], argv[n])
  <2>1. n \in 0..Len(argv) /\ n # 0
    BY <1>1
  <2> QED
    BY <1>2, <2>1
<1> QED
  BY <1>3, <1>4 DEF P

(* They are arguments of the command line. *)
LEMMA PathsInType ==
  ASSUME argv \in ArgVectors, NEW n \in 0..Len(argv)
  PROVE  PathsIn(argv)[n] \in Seq(Range(argv))
<1> DEFINE P == PathsIn(argv)
           wrong == {m \in 0..Len(argv) : P[m] \notin Seq(Range(argv))}
<1>1. Len(argv) \in Nat
  BY Arguments
<1>2. wrong = {}
  <2> SUFFICES ASSUME wrong # {} PROVE FALSE
    OBVIOUS
  <2>1. PICK m \in wrong : \A k \in wrong : m <= k
    <3>1. wrong \subseteq Nat
      BY <1>1
    <3> HIDE DEF wrong
    <3> QED
      BY <3>1, Least
  <2>2. m # 0
    <3>1. P[m] \notin Seq(Range(argv))
      OBVIOUS
    <3>2. P[0] = <<>>
      BY PathsInStep
    <3> HIDE DEF P
    <3> QED
      BY <3>1, <3>2, NoElements
  <2>3. m - 1 \in 0..Len(argv) /\ m - 1 \notin wrong /\ m \in 1..Len(argv)
    <3> HIDE DEF P
    <3> QED
      BY <1>1, <2>1, <2>2
  <2>4. argv[m] \in Range(argv)
    BY <2>3, Arguments DEF Range
  <2>5. P[m - 1] \in Seq(Range(argv))
    BY <2>3
  <2>6. P[m] \in Seq(Range(argv))
    <3>1. P[m] = P[m - 1] \/ P[m] = Append(P[m - 1], argv[m])
      BY <2>3, PathsInStep
    <3> HIDE DEF P
    <3>2. Append(P[m - 1], argv[m]) \in Seq(Range(argv))
      BY <2>4, <2>5, Appending
    <3> QED
      BY <2>5, <3>1, <3>2
  <2> QED
    BY <2>6
<1> QED
  BY <1>2

(* A command line asks for one path at least, all of them its own, unless  *)
(* it asks for a.out.                                                      *)
LEMMA AskedType ==
  ASSUME argv \in ArgVectors
  PROVE  /\ AskedPaths(argv) \in Seq(Range(argv) \cup {AOut})
         /\ AskedPaths(argv) # <<>>
         /\ Len(AskedPaths(argv)) \in Nat \ {0}
<1>1. PathsIn(argv)[Len(argv)] \in Seq(Range(argv))
  BY Arguments, PathsInType
<1>2. AskedPaths(argv) \in Seq(Range(argv) \cup {AOut}) /\ AskedPaths(argv) # <<>>
  <2> DEFINE given == PathsIn(argv)[Len(argv)]
  <2>1. given \in Seq(Range(argv) \cup {AOut})
    BY <1>1, SeqOfMore
  <2>2. <<AOut>> \in Seq(Range(argv) \cup {AOut}) /\ <<AOut>> # <<>>
    <3>1. <<AOut>> = Append(<<>>, AOut) /\ <<>> \in Seq(Range(argv) \cup {AOut})
      BY NoElements
    <3>2. Append(<<>>, AOut) \in Seq(Range(argv) \cup {AOut})
      BY <3>1, Appending
    <3> QED
      BY <3>1, <3>2
  <2>3. CASE given = <<>>
    BY <2>2, <2>3 DEF AskedPaths
  <2>4. CASE given # <<>>
    BY <2>1, <2>4 DEF AskedPaths
  <2> QED
    BY <2>3, <2>4
<1> QED
  BY <1>2

(* An option that is valid throughout is accepted throughout. *)
LEMMA ValidAccepted ==
  ASSUME NEW arg, Given(arg) \subseteq Letters
  PROVE  Accepted(arg) = Given(arg)
BY DEF Accepted, Before, Given

(* In front of the first invalid letter all letters are valid. *)
LEMMA AcceptedValid ==
  ASSUME NEW arg \in Seq(STRING), arg # <<>>
  PROVE  Accepted(arg) \subseteq Letters
<1> DEFINE s == Tail(arg)
           stops == Range(s) \ Letters
           hits == {k \in DOMAIN s : s[k] \in stops}
<1>1. s \in Seq(STRING) /\ Len(s) \in Nat /\ DOMAIN s = 1..Len(s)
  OBVIOUS
<1> HIDE DEF s
<1>2. \A k \in DOMAIN s : k \notin hits => s[k] \in Letters
  BY DEF Range
<1>3. CASE hits = {}
  BY <1>2, <1>3 DEF Accepted, Before, Given, Range, s
<1>4. CASE hits # {}
  <2> DEFINE m == CHOOSE k \in hits : \A j \in hits : k <= j
  <2>1. \E k \in hits : \A j \in hits : k <= j
    <3>1. hits \subseteq Nat
      BY <1>1
    <3> HIDE DEF hits
    <3> QED
      BY <1>4, <3>1, Least
  <2>2. m \in hits /\ \A j \in hits : m <= j
    <3> HIDE DEF hits
    <3> QED
      BY <2>1
  <2>3. m \in 1..Len(s)
    BY <1>1, <2>2
  <2>4. Before(s, stops) = SubSeq(s, 1, m - 1)
    BY <1>4 DEF Before
  <2> HIDE DEF m, hits
  <2>5. \A k \in 1..(m - 1) : s[k] \in Letters
    BY <1>1, <1>2, <2>2, <2>3
  <2>6. Range(SubSeq(s, 1, m - 1)) \subseteq Letters
    BY <1>1, <2>3, <2>5 DEF Range
  <2> QED
    BY <2>4, <2>6 DEF Accepted, Given, s
<1> QED
  BY <1>3, <1>4

-----------------------------------------------------------------------------
(* The driver: the inductive invariant. *)

Parsing == {"scan", "alloc", "copy", "default"}
Serving == {"paths", "fstat", "route"}
Whys    == {"no_open", "no_fstat", "empty", "no_mmap", "listed"} \cup UnitFails \cup UnitLogs

PathNames == (UNION {Range(args) : args \in ArgVectors}) \cup {AOut}

Attempts == [path : PathNames, opts : SUBSET Letters, multiple : BOOLEAN,
             why : Whys]

Types ==
  /\ argv \in ArgVectors
  /\ pc \in Parsing \cup Serving \cup {"exit"}
  /\ index \in 1..(Len(argv) + 1)
  /\ opts \subseteq Letters
  /\ ret \in {0, 1}
  /\ heap \in BOOLEAN /\ fd \in BOOLEAN /\ map \in BOOLEAN
  /\ processed \in Seq(Attempts)

(* What the scan has found in the arguments behind it. *)
Scanned ==
  pc = "scan" =>
    /\ path_count = Len(PathsIn(argv)[index - 1])
    /\ \A k \in OptionIndices(argv) : k < index => Given(argv[k]) \subseteq Letters
    /\ opts = UNION {Given(argv[k]) : k \in {j \in OptionIndices(argv) : j < index}}

(* Behind the scan every letter is known to be valid. *)
ScannedAll ==
  pc \in {"alloc", "copy", "default"} \cup Serving =>
    Wellformed(argv) /\ opts = AskedOptions(argv)

Counted ==
  /\ pc \in {"alloc", "copy"} =>
       /\ path_count = Len(PathsIn(argv)[Len(argv)])
       /\ PathsIn(argv)[Len(argv)] # <<>>
  /\ pc = "default" => path_count = 0 /\ PathsIn(argv)[Len(argv)] = <<>>
  /\ pc \in {"scan", "alloc", "default"} => paths = <<>> /\ ~ heap
  /\ pc = "copy" => paths = PathsIn(argv)[index - 1] /\ heap

(* Nothing is tried before the command line is parsed. *)
Untouched ==
  pc \in Parsing =>
    /\ processed = <<>> /\ explained = {}
    /\ i = 1 /\ ret = 0
    /\ ~ fd /\ ~ map

(* main's loop. *)
Looping ==
  pc \in Serving =>
    /\ paths = AskedPaths(argv) /\ path_count = Len(paths)
    /\ heap
    /\ i \in 1..(path_count + 1)
    /\ pc # "paths" => i <= path_count
    /\ ret = 0 <=> \A k \in DOMAIN processed : ~ Failed(k)

(* The descriptor and the mapping belong to the path that is served. *)
Held == (fd <=> pc \in {"fstat", "route"}) /\ (map <=> pc = "route")

(* The paths tried are the first ones asked for. *)
History ==
  /\ Len(processed) = i - 1
  /\ i \in Nat \ {0}
  /\ explained \subseteq 0..(i - 1)
  /\ TriedInOrder /\ PathsExplained

Returned ==
  pc = "exit" =>
    /\ ~ heap
    /\ \/ processed = <<>> /\ i = 1 /\ ret = 1 /\ path_count \in Nat
          /\ paths \in {<<>>, AskedPaths(argv)}
       \/ /\ paths = AskedPaths(argv) /\ path_count = Len(paths)
          /\ Len(processed) = path_count
          /\ ret = 0 <=> \A k \in DOMAIN processed : ~ Failed(k)

NmInv ==
  /\ Types /\ Scanned /\ ScannedAll /\ Counted /\ Untouched /\ Looping /\ Held
  /\ History /\ Returned

(* While nothing is added to it, the history keeps its invariant. *)
LEMMA HistoryKept ==
  ASSUME NmInv, argv' = argv, processed' = processed, explained' = explained,
         i' = i, fd' => Wellformed(argv)
  PROVE  History'
BY DEF NmInv, History, TriedInOrder, PathsExplained, SilentFailure, Failed

(* The scan of one more argument. *)
LEMMA ScanKeeps ==
  ASSUME NmInv, ScanOption \/ ScanPath
  PROVE  NmInv'
<1>1. /\ pc = "scan" /\ pc' = "scan" /\ argv' = argv
      /\ index \in 1..Len(argv) /\ index' = index + 1
      /\ UNCHANGED <<paths, heap, i, ret, fd, map, processed, explained>>
  <2>1. Len(argv) \in Nat
    BY Arguments DEF NmInv, Types
  <2> QED
    BY <2>1 DEF ScanOption, ScanPath, NmInv, Types
<1>2. Len(argv) \in Nat /\ DOMAIN argv = 1..Len(argv)
  BY Arguments DEF NmInv, Types
<1>3. PathsIn(argv)[index] = IF IsOption(argv[index]) THEN PathsIn(argv)[index - 1]
                             ELSE Append(PathsIn(argv)[index - 1], argv[index])
  BY <1>1, PathsInStep DEF NmInv, Types
<1>4. Scanned' /\ opts' \subseteq Letters
  <2> DEFINE seen(n) == UNION {Given(argv[k]) : k \in {j \in OptionIndices(argv) : j < n}}
  <2>1. /\ path_count = Len(PathsIn(argv)[index - 1])
        /\ \A k \in OptionIndices(argv) : k < index => Given(argv[k]) \subseteq Letters
        /\ opts = seen(index) /\ opts \subseteq Letters
    BY <1>1 DEF NmInv, Scanned, Types
  <2>2. \A k \in OptionIndices(argv) : k < index + 1 => k < index \/ k = index
    BY <1>1, <1>2 DEF OptionIndices
  <2>3. CASE ScanOption
    <3>1. IsOption(argv[index]) /\ Given(argv[index]) \subseteq Letters
      BY <2>3 DEF ScanOption
    <3>2. /\ opts' = opts \cup Given(argv[index])
          /\ path_count' = path_count
      BY <2>3, <3>1, ValidAccepted DEF ScanOption
    <3>3. index \in OptionIndices(argv)
      BY <1>1, <1>2, <3>1 DEF OptionIndices
    <3>4. seen(index + 1) = seen(index) \cup Given(argv[index])
      <4>1. {j \in OptionIndices(argv) : j < index + 1}
              = {j \in OptionIndices(argv) : j < index} \cup {index}
        BY <1>1, <1>2, <2>2, <3>3 DEF OptionIndices
      <4> QED
        BY <4>1
    <3>5. path_count' = Len(PathsIn(argv)[index])
      BY <1>3, <2>1, <3>1, <3>2
    <3> HIDE DEF seen
    <3>6. opts' = seen(index + 1) /\ opts' \subseteq Letters
      BY <2>1, <3>1, <3>2, <3>4
    <3>7. index' - 1 = index
      BY <1>1
    <3>8. opts' = UNION {Given(argv[k]) : k \in {j \in OptionIndices(argv) : j < index'}}
      BY <1>1, <3>6 DEF seen
    <3> QED
      BY <1>1, <2>1, <2>2, <3>1, <3>5, <3>6, <3>7, <3>8 DEF Scanned
  <2>4. CASE ScanPath
    <3>1. ~ IsOption(argv[index]) /\ opts' = opts /\ path_count' = path_count + 1
      BY <2>4 DEF ScanPath
    <3>2. index \notin OptionIndices(argv)
      BY <3>1 DEF OptionIndices
    <3>3. {j \in OptionIndices(argv) : j < index + 1}
            = {j \in OptionIndices(argv) : j < index}
      BY <1>1, <1>2, <2>2, <3>2 DEF OptionIndices
    <3>4. path_count' = Len(PathsIn(argv)[index])
      <4>1. PathsIn(argv)[index - 1] \in Seq(Range(argv))
        BY <1>1, <1>2, PathsInType DEF NmInv, Types
      <4>2. argv[index] \in Range(argv)
        BY <1>1, <1>2 DEF Range
      <4> QED
        BY <1>3, <2>1, <3>1, <4>1, <4>2, Appending
    <3>5. index' - 1 = index
      BY <1>1
    <3>6. opts' = UNION {Given(argv[k]) : k \in {j \in OptionIndices(argv) : j < index'}}
      BY <1>1, <2>1, <3>1, <3>3
    <3> QED
      BY <1>1, <2>1, <2>2, <3>1, <3>2, <3>4, <3>5, <3>6 DEF Scanned
  <2> QED
    BY <2>3, <2>4
<1>5. Types'
  BY <1>1, <1>2, <1>4 DEF NmInv, Types
<1>6. ScannedAll' /\ Counted' /\ Untouched' /\ Looping' /\ Held' /\ Returned'
  BY <1>1 DEF NmInv, ScannedAll, Counted, Untouched, Looping, Held, Returned,
              Parsing, Serving
<1>7. History'
  BY <1>1, HistoryKept DEF NmInv, Untouched, Parsing
<1> QED
  BY <1>4, <1>5, <1>6, <1>7 DEF NmInv

(* A wrong letter, or no memory for the paths: back with nothing begun. *)
LEMMA GivingUpKeeps ==
  ASSUME NmInv, ScanInvalid \/ AllocFails
  PROVE  NmInv'
<1>1. /\ pc \in {"scan", "alloc", "default"} /\ pc' = "exit" /\ ret' = 1
      /\ UNCHANGED <<argv, index, path_count, paths, heap, i, fd, map, processed>>
      /\ explained' \subseteq explained \cup {0}
      /\ pc = "scan" => IsOption(argv[index])
      /\ opts' = opts \/ opts' = opts \cup Accepted(argv[index])
  BY DEF ScanInvalid, AllocFails, parseVars
<1>2. ~ fd /\ ~ map /\ processed = <<>> /\ explained = {} /\ i = 1 /\ paths = <<>> /\ ~ heap
  BY <1>1 DEF NmInv, Untouched, Counted, Parsing
<1>3. path_count \in Nat
  <2>1. Len(argv) \in Nat /\ index - 1 \in 0..Len(argv)
    BY Arguments DEF NmInv, Types
  <2>2. /\ Len(PathsIn(argv)[index - 1]) \in Nat
        /\ Len(PathsIn(argv)[Len(argv)]) \in Nat
    <3>1. /\ PathsIn(argv)[index - 1] \in Seq(Range(argv))
          /\ PathsIn(argv)[Len(argv)] \in Seq(Range(argv))
      BY <2>1, PathsInType DEF NmInv, Types
    <3> QED
      BY <3>1
  <2> QED
    BY <1>1, <2>2 DEF NmInv, Scanned, Counted
<1>4. opts' \subseteq Letters
  <2>1. CASE opts' = opts
    BY <2>1 DEF NmInv, Types
  <2>2. CASE ScanInvalid
    <3>1. index \in 1..Len(argv) /\ opts' = opts \cup Accepted(argv[index])
      BY <2>2, Arguments DEF ScanInvalid, NmInv, Types
    <3>2. argv[index] \in Seq(STRING) /\ argv[index] # <<>>
      BY <1>1, <2>2, <3>1, Arguments DEF ScanInvalid, IsOption, NmInv, Types
    <3> QED
      BY <3>1, <3>2, AcceptedValid DEF NmInv, Types
  <2> QED
    BY <2>1, <2>2 DEF AllocFails, parseVars
<1>5. Types'
  BY <1>1, <1>4 DEF NmInv, Types
<1>6. /\ Scanned' /\ ScannedAll' /\ Counted' /\ Untouched' /\ Looping' /\ Held'
      /\ Returned'
  BY <1>1, <1>2, <1>3 DEF NmInv, Scanned, ScannedAll, Counted, Untouched, Looping,
                          Held, Returned, Parsing, Serving
<1>7. History'
  <2>1. processed' = <<>> /\ i' = 1 /\ ~ fd' /\ DOMAIN processed' = {}
    BY <1>1, <1>2
  <2>2. TriedInOrder' /\ PathsExplained'
    BY <2>1 DEF TriedInOrder, PathsExplained
  <2>3. explained' \subseteq 0..(i' - 1)
    BY <1>1, <1>2
  <2> QED
    BY <2>1, <2>2, <2>3 DEF History
<1> QED
  BY <1>5, <1>6, <1>7 DEF NmInv

(* The end of the scan knows how many paths there are, and all options.    *)
LEMMA ScanEndsKeeps ==
  ASSUME NmInv, ScanEnds
  PROVE  NmInv'
<1>1. /\ pc = "scan" /\ pc' \in {"default", "alloc"}
      /\ pc' = "default" <=> path_count = 0
      /\ UNCHANGED <<argv, index, opts, path_count, paths, heap, i, ret, fd, map,
                     processed, explained>>
  BY DEF ScanEnds, parseVars
<1>2. Len(argv) \in Nat /\ index = Len(argv) + 1 /\ DOMAIN argv = 1..Len(argv)
  BY Arguments DEF ScanEnds, NmInv, Types
<1>3. \A k \in OptionIndices(argv) : k < index
  BY <1>2 DEF OptionIndices
<1>4. ScannedAll'
  <2>1. Wellformed(argv)
    BY <1>1, <1>3 DEF NmInv, Scanned, Wellformed
  <2>2. {j \in OptionIndices(argv) : j < index} = OptionIndices(argv)
    BY <1>3
  <2>3. opts = AskedOptions(argv)
    BY <1>1, <2>2 DEF NmInv, Scanned, AskedOptions
  <2>4. Wellformed(argv)' /\ opts' = AskedOptions(argv)'
    BY <1>1, <2>1, <2>3 DEF Wellformed, AskedOptions, OptionIndices
  <2> QED
    BY <2>4 DEF ScannedAll
<1>5. Counted'
  <2>1. PathsIn(argv)[Len(argv)] \in Seq(Range(argv))
    BY <1>2, PathsInType DEF NmInv, Types
  <2>2. path_count = Len(PathsIn(argv)[Len(argv)])
    BY <1>1, <1>2 DEF NmInv, Scanned
  <2>3. path_count = 0 <=> PathsIn(argv)[Len(argv)] = <<>>
    BY <2>1, <2>2
  <2> QED
    BY <1>1, <2>2, <2>3 DEF NmInv, Counted
<1>6. Types' /\ Scanned' /\ Untouched' /\ Looping' /\ Held' /\ Returned'
  BY <1>1 DEF NmInv, Types, Scanned, Untouched, Looping, Held, Returned,
              Parsing, Serving
<1>7. History'
  BY <1>1, HistoryKept DEF NmInv, Untouched, Parsing
<1> QED
  BY <1>4, <1>5, <1>6, <1>7 DEF NmInv

(* The second pass begins with no path copied. *)
LEMMA AllocKeeps ==
  ASSUME NmInv, Alloc
  PROVE  NmInv'
<1>1. /\ pc = "alloc" /\ pc' = "copy" /\ heap' = TRUE /\ index' = 1
      /\ UNCHANGED <<argv, opts, path_count, paths, i, ret, fd, map, processed,
                     explained>>
  BY DEF Alloc
<1>2. Len(argv) \in Nat /\ PathsIn(argv)[0] = <<>>
  BY Arguments, PathsInStep DEF NmInv, Types
<1>3. Types' /\ Counted'
  BY <1>1, <1>2 DEF NmInv, Types, Counted, Parsing, Serving
<1>4. /\ Scanned' /\ ScannedAll' /\ Untouched' /\ Looping' /\ Held' /\ Returned'
  BY <1>1 DEF NmInv, Scanned, ScannedAll, Untouched, Looping, Held, Returned,
              Parsing, Serving
<1>5. History'
  BY <1>1, HistoryKept DEF NmInv, Untouched, Parsing
<1> QED
  BY <1>3, <1>4, <1>5 DEF NmInv

(* It copies them in their order. *)
LEMMA CopyPathKeeps ==
  ASSUME NmInv, CopyPath
  PROVE  NmInv'
<1>1. /\ pc = "copy" /\ pc' = "copy" /\ index' = index + 1
      /\ paths' = IF IsOption(argv[index]) THEN paths ELSE Append(paths, argv[index])
      /\ UNCHANGED <<argv, opts, path_count, heap, i, ret, fd, map, processed,
                     explained>>
  BY DEF CopyPath
<1>2. Len(argv) \in Nat /\ index \in 1..Len(argv)
  BY Arguments DEF CopyPath, NmInv, Types
<1>3. paths' = PathsIn(argv)[index] /\ index' - 1 = index
  BY <1>1, <1>2, PathsInStep DEF NmInv, Types, Counted
<1>4. Types'
  BY <1>1, <1>2 DEF NmInv, Types
<1>8. Counted'
  <2>1. paths' = PathsIn(argv')[index' - 1]
    BY <1>1, <1>3
  <2> QED
    BY <1>1, <2>1 DEF NmInv, Counted
<1>5. /\ Scanned' /\ ScannedAll' /\ Untouched' /\ Looping' /\ Held' /\ Returned'
  BY <1>1 DEF NmInv, Scanned, ScannedAll, Untouched, Looping, Held, Returned,
              Parsing, Serving
<1>6. History'
  BY <1>1, HistoryKept DEF NmInv, Untouched, Parsing
<1> QED
  BY <1>4, <1>5, <1>6, <1>8 DEF NmInv

(* main's loop begins with the paths asked for, whichever way they came.   *)
LEMMA BeginKeeps ==
  ASSUME NmInv, CopyEnds \/ DefaultPath
  PROVE  NmInv'
<1>1. /\ pc \in {"copy", "default"} /\ pc' = "paths"
      /\ UNCHANGED <<argv, index, opts, i, ret, fd, map, processed, explained>>
  BY DEF CopyEnds, DefaultPath, parseVars
<1>2. paths' = AskedPaths(argv) /\ path_count' = Len(AskedPaths(argv)) /\ heap' = TRUE
  <2>1. CASE CopyEnds
    <3>1. index - 1 = Len(argv)
      BY <2>1, Arguments DEF CopyEnds, NmInv, Types
    <3> QED
      BY <2>1, <3>1 DEF CopyEnds, parseVars, NmInv, Types, Counted, AskedPaths
  <2>2. CASE DefaultPath
    BY <2>2 DEF DefaultPath, NmInv, Counted, AskedPaths
  <2> QED
    BY <2>1, <2>2
<1>3. /\ processed = <<>> /\ i = 1 /\ ret = 0 /\ ~ fd /\ ~ map
      /\ Wellformed(argv) /\ opts = AskedOptions(argv)
  BY <1>1 DEF NmInv, Untouched, ScannedAll, Parsing
<1>4. Looping'
  <2>1. Len(AskedPaths(argv)) \in Nat \ {0}
    BY AskedType DEF NmInv, Types
  <2>2. DOMAIN processed = {}
    BY <1>3
  <2>3. paths' = AskedPaths(argv)' /\ path_count' = Len(paths')
    BY <1>1, <1>2
  <2>4. i' \in 1..(path_count' + 1)
    BY <1>1, <1>2, <1>3, <2>1
  <2>5. (ret = 0 <=> \A k \in DOMAIN processed : ~ Failed(k))'
    BY <1>1, <1>3, <2>2
  <2> QED
    BY <1>1, <1>2, <2>3, <2>4, <2>5 DEF Looping
<1>5. ScannedAll'
  BY <1>1, <1>3 DEF ScannedAll, Wellformed, AskedOptions, OptionIndices
<1>6. Types' /\ Scanned' /\ Counted' /\ Untouched' /\ Held' /\ Returned'
  BY <1>1, <1>2, <1>3 DEF NmInv, Types, Scanned, Counted, Untouched, Held, Returned,
                          Parsing, Serving
<1>7. History'
  BY <1>1, <1>3, HistoryKept
<1> QED
  BY <1>4, <1>5, <1>6, <1>7 DEF NmInv

(* A path on its way: opened, then mapped. *)
LEMMA ServingKeeps ==
  ASSUME NmInv, Open \/ Mmap
  PROVE  NmInv'
<1>1. /\ pc \in Serving /\ pc' \in {"fstat", "route"}
      /\ i <= path_count
      /\ fd' /\ (map' <=> pc' = "route")
      /\ fd' \in BOOLEAN /\ map' \in BOOLEAN
      /\ UNCHANGED <<argv, index, opts, path_count, paths, heap, i, ret, processed,
                     explained>>
  <2>1. CASE Open
    BY <2>1 DEF Open, InPaths, parseVars, NmInv, Types, Held, Serving
  <2>2. CASE Mmap
    BY <2>2 DEF Mmap, parseVars, NmInv, Types, Looping, Held, Serving
  <2> QED
    BY <2>1, <2>2
<1>2. Wellformed(argv)
  BY <1>1 DEF NmInv, ScannedAll, Serving
<1>3. Looping'
  BY <1>1 DEF NmInv, Looping, Serving, Failed, AskedPaths
<1>4. ScannedAll'
  BY <1>1 DEF NmInv, ScannedAll, Wellformed, AskedOptions, OptionIndices, Serving
<1>5. Types' /\ Scanned' /\ Counted' /\ Untouched' /\ Held' /\ Returned'
  BY <1>1 DEF NmInv, Types, Scanned, Counted, Untouched, Held, Returned,
                          Parsing, Serving
<1>6. History'
  BY <1>1, <1>2, HistoryKept
<1> QED
  BY <1>3, <1>4, <1>5, <1>6 DEF NmInv

(* The path served is the next one asked for. *)
LEMMA ServedPath ==
  ASSUME NmInv, pc \in Serving, i <= path_count
  PROVE  /\ i \in 1..Len(AskedPaths(argv))
         /\ paths[i] = AskedPaths(argv)[i]
         /\ paths[i] \in Range(argv) \cup {AOut}
         /\ paths[i] \in PathNames
<1>1. paths = AskedPaths(argv) /\ path_count = Len(paths) /\ i \in Nat \ {0}
  BY DEF NmInv, Looping, History
<1>2. AskedPaths(argv) \in Seq(Range(argv) \cup {AOut})
  BY AskedType DEF NmInv, Types
<1> HIDE DEF AOut
<1>3. i \in 1..Len(AskedPaths(argv)) /\ paths[i] \in Range(argv) \cup {AOut}
  BY <1>1, <1>2
<1>4. Range(argv) \cup {AOut} \subseteq PathNames
  BY DEF NmInv, Types, PathNames
<1> QED
  BY <1>1, <1>3, <1>4

(* A path is done with: it is recorded with its outcome, the status takes  *)
(* note of it, and a failure has been explained unless it is one of two.   *)
LEMMA FinishKeeps ==
  ASSUME NmInv, NEW why \in Whys, Finish(why),
         pc \in Serving, i <= path_count,
         argv' = argv, index' = index, opts' = opts,
         path_count' = path_count, paths' = paths, heap' = heap,
         fd' = FALSE, map' = FALSE,
         explained' = explained \/ explained' = explained \cup {i},
         why \notin {"listed", "no_symbols", "empty", "no_sort"}
           => explained' = explained \cup {i}
  PROVE  NmInv'
<1> DEFINE e == Attempt(why)
<1>1. /\ processed' = Append(processed, e)
      /\ i' = i + 1 /\ pc' = "paths"
      /\ ret' = IF why \in {"listed", "no_symbols"} THEN ret ELSE 1
  BY DEF Finish
<1>2. /\ Wellformed(argv) /\ opts = AskedOptions(argv)
      /\ paths = AskedPaths(argv) /\ path_count = Len(paths) /\ heap
      /\ i \in 1..(path_count + 1) /\ Len(processed) = i - 1
      /\ path_count \in Nat
  <2>1. Len(AskedPaths(argv)) \in Nat
    BY AskedType DEF NmInv, Types
  <2> QED
    BY <2>1 DEF NmInv, ScannedAll, Looping, History
<1>3. /\ e.path = AskedPaths(argv)[i] /\ e.opts = AskedOptions(argv)
      /\ (e.multiple <=> Len(AskedPaths(argv)) > 1) /\ e.why = why
      /\ e \in Attempts
  <2>1. /\ paths[i] = AskedPaths(argv)[i] /\ paths[i] \in PathNames
        /\ opts \in SUBSET Letters /\ (path_count > 1) \in BOOLEAN
    BY <1>2, ServedPath DEF NmInv, Types
  <2>2. /\ e.path = paths[i] /\ e.opts = opts /\ e.why = why
        /\ e.multiple = (path_count > 1)
    BY DEF Attempt
  <2>3. e \in Attempts
    BY <2>1 DEF Attempt, Attempts
  <2>4. (path_count > 1) = (Len(AskedPaths(argv)) > 1)
    BY <1>2
  <2> HIDE DEF e
  <2> QED
    BY <1>2, <2>1, <2>2, <2>3, <2>4
<1> HIDE DEF e
<1>4. /\ processed' \in Seq(Attempts)
      /\ Len(processed') = i
      /\ DOMAIN processed = 1..(i - 1) /\ DOMAIN processed' = 1..i
      /\ \A k \in 1..(i - 1) : processed'[k] = processed[k]
      /\ processed'[i] = e
  <2>1. processed \in Seq(Attempts)
    BY DEF NmInv, Types
  <2> QED
    BY <1>1, <1>2, <1>3, <2>1, Appending
<1>5. Types'
  BY <1>1, <1>4 DEF NmInv, Types, Serving
<1>6. Looping'
  <2>1. (\A k \in DOMAIN processed' : ~ Failed(k)')
          <=> (\A k \in DOMAIN processed : ~ Failed(k)) /\ why \in {"listed", "no_symbols"}
    <3>1. \A k \in 1..(i - 1) : Failed(k)' <=> Failed(k)
      BY <1>4 DEF Failed
    <3>2. processed'[i].why \notin {"listed", "no_symbols"} <=> why \notin {"listed", "no_symbols"}
      BY <1>3, <1>4
    <3>3. i \in DOMAIN processed' /\ \A k \in 1..i : k \in 1..(i - 1) \/ k = i
      BY <1>2, <1>4
    <3>4. 1..(i - 1) \subseteq 1..i
      BY <1>2
    <3> QED
      BY <1>4, <3>1, <3>2, <3>3, <3>4 DEF Failed
  <2>2. ret = 0 <=> \A k \in DOMAIN processed : ~ Failed(k)
    BY DEF NmInv, Looping
  <2>3. (ret = 0 <=> \A k \in DOMAIN processed : ~ Failed(k))'
    BY <1>1, <2>1, <2>2
  <2>4. i' \in 1..(path_count' + 1)
    BY <1>1, <1>2
  <2>5. paths' = AskedPaths(argv)' /\ path_count' = Len(paths') /\ heap'
    BY <1>1, <1>2
  <2> QED
    BY <1>1, <2>3, <2>4, <2>5 DEF Looping
<1>7. History'
  <2>1. \A k \in DOMAIN processed :
          /\ k <= Len(AskedPaths(argv))
          /\ processed[k].path = AskedPaths(argv)[k]
          /\ processed[k].opts = AskedOptions(argv)
          /\ processed[k].multiple <=> Len(AskedPaths(argv)) > 1
    BY DEF NmInv, History, TriedInOrder
  <2>2. \A k \in DOMAIN processed' :
          /\ k <= Len(AskedPaths(argv))
          /\ processed'[k].path = AskedPaths(argv)[k]
          /\ processed'[k].opts = AskedOptions(argv)
          /\ processed'[k].multiple <=> Len(AskedPaths(argv)) > 1
    BY <1>2, <1>3, <1>4, <2>1
  <2>3. TriedInOrder'
    BY <1>1, <1>2, <2>2 DEF TriedInOrder
  <2>4. PathsExplained'
    <3>1. PathsExplained
      BY DEF NmInv, History
    <3> QED
      BY <1>2, <1>3, <1>4, <3>1 DEF PathsExplained, SilentFailure, Failed
  <2>5. explained' \subseteq 0..(i' - 1)
    <3>1. explained \subseteq 0..(i - 1)
      BY DEF NmInv, History
    <3>2. explained \cup {i} \subseteq 0..i /\ i' - 1 = i
      BY <1>1, <1>2, <3>1
    <3> QED
      BY <3>2
  <2> QED
    BY <1>1, <1>2, <1>4, <2>3, <2>4, <2>5 DEF History
<1>8. ScannedAll'
  BY <1>1, <1>2 DEF ScannedAll, Wellformed, AskedOptions, OptionIndices
<1>9. Scanned' /\ Counted' /\ Untouched' /\ Held' /\ Returned'
  BY <1>1 DEF Scanned, Counted, Untouched, Held, Returned, Parsing, Serving
<1> QED
  BY <1>5, <1>6, <1>7, <1>8, <1>9 DEF NmInv

(* A path ends in one of these ways. *)
LEMMA ServedKeeps ==
  ASSUME NmInv, OpenFails \/ FstatFails \/ EmptyFile \/ MmapFails \/ Route
  PROVE  NmInv'
<1>1. CASE OpenFails
  <2>1. pc \in Serving /\ i <= path_count /\ fd' = FALSE /\ map' = FALSE
    BY <1>1 DEF OpenFails, InPaths, NmInv, Types, Held, Serving
  <2> QED
    BY <1>1, <2>1, FinishKeeps DEF OpenFails, parseVars, Explain, Whys
<1>2. CASE FstatFails
  <2>1. pc \in Serving /\ i <= path_count /\ fd' = FALSE /\ map' = FALSE
    BY <1>2 DEF FstatFails, NmInv, Types, Held, Looping, Serving
  <2> QED
    BY <1>2, <2>1, FinishKeeps DEF FstatFails, parseVars, Explain, Whys
<1>3. CASE EmptyFile
  <2>1. pc \in Serving /\ i <= path_count /\ fd' = FALSE /\ map' = FALSE
    BY <1>3 DEF EmptyFile, NmInv, Types, Held, Looping, Serving
  <2> QED
    BY <1>3, <2>1, FinishKeeps DEF EmptyFile, parseVars, Whys
<1>4. CASE MmapFails
  <2>1. pc \in Serving /\ i <= path_count /\ fd' = FALSE /\ map' = FALSE
    BY <1>4 DEF MmapFails, NmInv, Types, Held, Looping, Serving
  <2> QED
    BY <1>4, <2>1, FinishKeeps DEF MmapFails, parseVars, Explain, Whys
<1>5. CASE Route
  <2>1. pc \in Serving /\ i <= path_count /\ fd' = FALSE /\ map' = FALSE
    BY <1>5 DEF Route, NmInv, Looping, Serving
  <2>2. PICK why \in Outcomes(Now) :
          /\ Finish(why)
          /\ explained' = IF why \in UnitLogs THEN explained \cup {i} ELSE explained
    BY <1>5 DEF Route
  <2>3. Now.symbols \in {"some", "none", "malformed", "mixed"}
    BY <2>1, ServedPath, NmAssumption DEF Now, NmInv, Types
  <2>4. why \in Whys \ {"empty", "no_open", "no_fstat", "no_mmap"}
    BY <2>2, <2>3 DEF Outcomes, UnitOutcomes, Whys, UnitFails, UnitLogs
  <2>5. why \notin {"listed", "no_sort"} => why \in UnitLogs
    BY <2>4 DEF Whys, UnitFails, UnitLogs
  <2> QED
    BY <1>5, <2>1, <2>2, <2>4, <2>5, FinishKeeps DEF Route, parseVars
<1> QED
  BY <1>1, <1>2, <1>3, <1>4, <1>5

(* The loop ends when every path asked for was tried. *)
LEMMA ExitKeeps ==
  ASSUME NmInv, Exit
  PROVE  NmInv'
<1>1. /\ pc = "paths" /\ pc' = "exit" /\ heap' = FALSE /\ i > path_count
      /\ UNCHANGED <<argv, index, opts, path_count, paths, i, ret, fd, map,
                     processed, explained>>
  BY DEF Exit
<1>2. /\ paths = AskedPaths(argv) /\ path_count = Len(paths)
      /\ i \in 1..(path_count + 1) /\ Len(processed) = i - 1
      /\ ret = 0 <=> \A k \in DOMAIN processed : ~ Failed(k)
  BY <1>1 DEF NmInv, Looping, History, Serving
<1>3. Len(AskedPaths(argv)) \in Nat
  BY AskedType DEF NmInv, Types
<1>4. Returned'
  <2>1. Len(processed') = path_count'
    BY <1>1, <1>2, <1>3
  <2>2. paths' = AskedPaths(argv)' /\ path_count' = Len(paths')
    BY <1>1, <1>2
  <2>3. (ret = 0 <=> \A k \in DOMAIN processed : ~ Failed(k))'
    BY <1>1, <1>2 DEF Failed
  <2> QED
    BY <1>1, <2>1, <2>2, <2>3 DEF Returned
<1>5. /\ Types' /\ Scanned' /\ ScannedAll' /\ Counted' /\ Untouched' /\ Looping'
      /\ Held'
  BY <1>1 DEF NmInv, Types, Scanned, ScannedAll, Counted, Untouched, Looping, Held,
              Parsing, Serving
<1>6. History'
  BY <1>1, HistoryKept DEF NmInv, Held
<1> QED
  BY <1>4, <1>5, <1>6 DEF NmInv

LEMMA NmInvInit == Init => NmInv
<1> SUFFICES ASSUME Init PROVE NmInv
  OBVIOUS
<1>1. Len(argv) \in Nat /\ PathsIn(argv)[0] = <<>>
  BY Arguments, PathsInStep DEF Init
<1>2. Types
  <2>1. processed \in Seq(Attempts)
    BY NoElements DEF Init
  <2>2. index \in 1..(Len(argv) + 1) /\ pc \in Parsing /\ opts \subseteq Letters
    BY <1>1 DEF Init, Parsing
  <2> QED
    BY <2>1, <2>2 DEF Init, Types
<1>3. Scanned
  <2>1. \A k \in OptionIndices(argv) : ~ (k < 1)
    BY Arguments DEF Init, OptionIndices
  <2> QED
    BY <1>1, <2>1 DEF Init, Scanned
<1>4. /\ ScannedAll /\ Counted /\ Untouched /\ Looping /\ Held /\ Returned
  BY DEF Init, ScannedAll, Counted, Untouched, Looping, Held, Returned, Parsing, Serving
<1>5. History
  BY DEF Init, History, TriedInOrder, PathsExplained
<1> QED
  BY <1>2, <1>3, <1>4, <1>5 DEF NmInv

LEMMA NmInvStep == NmInv /\ [Next]_vars => NmInv'
<1> SUFFICES ASSUME NmInv, [Next]_vars PROVE NmInv'
  OBVIOUS
<1>1. CASE UNCHANGED vars
  <2>1. /\ Types' /\ Scanned' /\ ScannedAll' /\ Counted' /\ Untouched' /\ Looping'
        /\ Held' /\ Returned'
    BY <1>1 DEF vars, NmInv, Types, Scanned, ScannedAll, Counted, Untouched, Looping,
                Held, Returned, Failed, Wellformed, AskedOptions, OptionIndices
  <2>2. History'
    BY <1>1 DEF vars, NmInv, History, TriedInOrder, PathsExplained, SilentFailure, Failed,
                Wellformed, OptionIndices
  <2> QED
    BY <2>1, <2>2 DEF NmInv
<1> QED
  BY <1>1, ScanKeeps, GivingUpKeeps, ScanEndsKeeps, AllocKeeps, CopyPathKeeps,
     BeginKeeps, ServingKeeps, ServedKeeps, ExitKeeps DEF Next, Done

(* The inductive invariant of the driver, for every command line.          *)
THEOREM NmInvHolds == Spec => []NmInv
BY NmInvInit, NmInvStep, PTL DEF Spec

-----------------------------------------------------------------------------
(* The driver: the properties. *)

(* Every variable keeps its type, the indices their ranges. *)
THEOREM TypesHold == Spec => []TypeOK
<1>1. NmInv => TypeOK
  <2> SUFFICES ASSUME NmInv PROVE TypeOK
    OBVIOUS
  <2>1. Len(argv) \in Nat /\ Len(AskedPaths(argv)) \in Nat
    BY Arguments, AskedType DEF NmInv, Types
  <2>2. path_count \in Nat
    <3>1. \A n \in 0..Len(argv) : Len(PathsIn(argv)[n]) \in Nat
      BY PathsInType DEF NmInv, Types
    <3> QED
      BY <2>1, <3>1 DEF NmInv, Types, Scanned, Counted, Looping, Returned, Parsing, Serving
  <2>3. paths \in Seq(Range(paths))
    <3>1. ASSUME NEW S, paths \in Seq(S) PROVE paths \in Seq(Range(paths))
      BY <3>1 DEF Range
    <3>2. \A n \in 0..Len(argv) : PathsIn(argv)[n] \in Seq(Range(argv))
      BY PathsInType DEF NmInv, Types
    <3>3. AskedPaths(argv) \in Seq(Range(argv) \cup {AOut})
      BY AskedType DEF NmInv, Types
    <3>4. \/ paths = <<>> \/ paths = AskedPaths(argv)
          \/ paths = PathsIn(argv)[index - 1] /\ index - 1 \in 0..Len(argv)
      BY <2>1 DEF NmInv, Types, Counted, Looping, Returned, Parsing, Serving
    <3> HIDE DEF AOut
    <3> QED
      BY <3>1, <3>2, <3>3, <3>4, NoElements
  <2>4. i \in 1..(path_count + 1) /\ explained \subseteq 0..path_count
    BY <2>1, <2>2 DEF NmInv, Types, Untouched, Looping, Returned, History, Parsing, Serving
  <2> QED
    BY <2>2, <2>3, <2>4 DEF NmInv, Types, TypeOK, Parsing, Serving
<1> QED
  BY <1>1, NmInvHolds, PTL

(* The paths of the command line are tried in their order, each once,      *)
(* under all its options; one wrong letter, and no file is touched.        *)
THEOREM TriedInOrderHolds == Spec => []TriedInOrder
<1>1. NmInv => TriedInOrder
  BY DEF NmInv, History
<1> QED
  BY <1>1, NmInvHolds, PTL

(* The exit status is 0 exactly when every path asked for was tried and    *)
(* none failed.                                                            *)
THEOREM ExitStatusExactHolds == Spec => []ExitStatusExact
<1>1. NmInv => ExitStatusExact
  <2> SUFFICES ASSUME NmInv, pc = "exit" PROVE ExitStatusExact
    BY DEF ExitStatusExact
  <2>1. Len(AskedPaths(argv)) \in Nat \ {0}
    BY AskedType DEF NmInv, Types
  <2> QED
    BY <2>1 DEF NmInv, Returned, ExitStatusExact
<1> QED
  BY <1>1, NmInvHolds, PTL

(* A file at a time is open and mapped, and nothing is held at the end.    *)
THEOREM ResourcesBalancedHolds == Spec => []ResourcesBalanced
<1>1. NmInv => ResourcesBalanced
  BY DEF NmInv, Held, Looping, Returned, ResourcesBalanced, Serving
<1> QED
  BY <1>1, NmInvHolds, PTL

(* A program that ends with no path tried has found a letter that is no    *)
(* option and said so, or had no memory for the array of paths.            *)
Excused == pc = "exit" /\ processed = <<>> => 0 \in explained \/ Wellformed(argv)

LEMMA ExcusedStep == NmInv /\ Excused /\ [Next]_vars => Excused'
<1> SUFFICES ASSUME NmInv, Excused, [Next]_vars, pc' = "exit", processed' = <<>>
             PROVE  (0 \in explained \/ Wellformed(argv))'
  BY DEF Excused
<1>1. CASE ScanInvalid
  BY <1>1 DEF ScanInvalid
<1>2. CASE AllocFails \/ Exit
  <2>1. argv' = argv /\ pc \in {"alloc", "default", "paths"}
    BY <1>2 DEF AllocFails, Exit
  <2>2. Wellformed(argv)
    BY <2>1 DEF NmInv, ScannedAll, Serving
  <2> QED
    BY <2>1, <2>2 DEF Wellformed, OptionIndices
<1>3. CASE UNCHANGED vars
  <2>1. argv' = argv /\ explained' = explained /\ pc = "exit" /\ processed = <<>>
    BY <1>3 DEF vars
  <2> QED
    BY <2>1 DEF Excused, Wellformed, OptionIndices
<1> QED
  BY <1>1, <1>2, <1>3 DEF Next, Done, ScanOption, ScanPath, ScanEnds, Alloc, CopyPath,
     CopyEnds, DefaultPath, OpenFails, Open, FstatFails, EmptyFile, MmapFails, Mmap,
     Route, Finish

(* Every failed path was explained, except an empty file and a listing     *)
(* that could not be sorted for want of memory; and nm returns 1 with      *)
(* nothing said at all only because of one of these or of a valid command  *)
(* line for which the array of paths could not be allocated.               *)
THEOREM FailureExplainedHolds == Spec => []FailureExplained
<1>1. Init => Excused
  BY DEF Init, Excused
<1>2. NmInv /\ Excused => FailureExplained
  <2> SUFFICES ASSUME NmInv, Excused PROVE FailureExplained
    OBVIOUS
  <2>1. PathsExplained
    BY DEF NmInv, History
  <2>2. ASSUME pc = "exit", ret = 1, explained = {}
        PROVE  NoArray \/ \E k \in DOMAIN processed : SilentFailure(k)
    <3>1. CASE processed = <<>>
      BY <2>2, <3>1 DEF Excused, NoArray
    <3>2. CASE processed # <<>>
      <4>1. PICK k \in DOMAIN processed : Failed(k)
        BY <2>2, <3>2 DEF NmInv, Returned
      <4> QED
        BY <2>1, <2>2, <4>1 DEF PathsExplained
    <3> QED
      BY <3>1, <3>2
  <2> QED
    BY <2>1, <2>2 DEF FailureExplained, ExitExplained
<1> QED
  BY <1>1, <1>2, ExcusedStep, NmInvHolds, PTL DEF Spec

-----------------------------------------------------------------------------
(* The system: its parts. *)

Walk == INSTANCE ArParserProofs WITH
          Archives <- Images, unit <- arUnit, pc <- arPc, member_off <- arOff,
          strtab <- arStrtab, bufs <- arBufs, result <- arResult,
          listed <- arListed, logged <- arLogged

Unit == INSTANCE ElfParserProofs WITH
          Units <- ElfUnits, unit <- elfUnit, pc <- elfPc, i <- elfI,
          symtab <- elfSymtab, sym_count <- elfCount, symbols <- elfSymbols,
          cache <- elfCache, heap <- elfHeap, reads <- elfReads,
          listed <- elfListed, logged <- elfLogged, ret <- elfRet

-----------------------------------------------------------------------------
(* Ar and Walk instantiate the same definitions over the same variables,   *)
(* and so do Elf and Unit; to the provers they are operators of their own, *)
(* so that they agree is shown, definition by definition.                  *)

(* What the walk reads of an image. *)
LEMMA ImagesSame ==
  /\ \A s : Ar!LeadingDigits(s) = Walk!LeadingDigits(s)
  /\ \A s : Ar!Number(s) = Walk!Number(s)
  /\ \A u, off : Ar!HeaderSize(u, off) = Walk!HeaderSize(u, off)
  /\ \A n : Ar!Wrap(n) = Walk!Wrap(n)
  /\ \A off : Ar!PayloadOff(off) = Walk!PayloadOff(off)
  /\ \A u, off : Ar!Acceptable(u, off) <=> Walk!Acceptable(u, off)
  /\ \A u, off : Ar!NextOff(u, off) = Walk!NextOff(u, off)
  /\ \A name : Ar!Kind(name) = Walk!Kind(name)
  /\ \A u, off : Ar!Payload(u, off) = Walk!Payload(u, off)
  /\ \A u, off : Ar!IsElfMember(u, off) <=> Walk!IsElfMember(u, off)
<1>1. \A s : Ar!LeadingDigits(s) = Walk!LeadingDigits(s)
  BY DEF Ar!LeadingDigits, Walk!LeadingDigits, Ar!Before, Walk!Before, Ar!Range, Walk!Range,
         Ar!Digits, Walk!Digits
<1>2. \A s : Ar!Number(s) = Walk!Number(s)
  BY DEF Ar!Number, Walk!Number, Ar!Value, Walk!Value, Ar!Decimal, Walk!Decimal,
         Ar!Digits, Walk!Digits
<1>3. \A u, off : Ar!HeaderSize(u, off) = Walk!HeaderSize(u, off)
  BY <1>1, <1>2 DEF Ar!HeaderSize, Walk!HeaderSize, Ar!ParseArSize, Walk!ParseArSize
<1>4. \A n : Ar!Wrap(n) = Walk!Wrap(n)
  BY DEF Ar!Wrap, Walk!Wrap
<1>5. \A off : Ar!PayloadOff(off) = Walk!PayloadOff(off)
  BY <1>4 DEF Ar!PayloadOff, Walk!PayloadOff, Ar!HDR, Walk!HDR
<1>6. \A u, off : Ar!Acceptable(u, off) <=> Walk!Acceptable(u, off)
  BY <1>1, <1>3, <1>4, <1>5 DEF Ar!Acceptable, Walk!Acceptable, Ar!CheckRange,
     Walk!CheckRange, Ar!HDR, Walk!HDR, Ar!SizeOK, Walk!SizeOK
<1>7. \A u, off : Ar!NextOff(u, off) = Walk!NextOff(u, off)
  BY <1>3, <1>4, <1>5 DEF Ar!NextOff, Walk!NextOff
<1>8. \A name : Ar!Kind(name) = Walk!Kind(name)
  BY DEF Ar!Kind, Walk!Kind, Ar!HasPrefix, Walk!HasPrefix
<1>9. \A u, off : Ar!Payload(u, off) = Walk!Payload(u, off)
  BY <1>5 DEF Ar!Payload, Walk!Payload
<1>10. \A u, off : Ar!IsElfMember(u, off) <=> Walk!IsElfMember(u, off)
  <2>1. \A m, n : Ar!DetectFormat(m, n) = Walk!DetectFormat(m, n)
    BY DEF Ar!DetectFormat, Walk!DetectFormat, Ar!SARMAG, Walk!SARMAG, Ar!SELFMAG,
           Walk!SELFMAG
  <2> QED
    BY <1>3, <1>8, <1>9, <2>1 DEF Ar!IsElfMember, Walk!IsElfMember
<1> QED
  BY <1>1, <1>2, <1>3, <1>4, <1>5, <1>6, <1>7, <1>8, <1>9, <1>10

(* What it makes of a member's name. *)
LEMMA ExtractionSame ==
  /\ \A s : Ar!TableOffset(s) = Walk!TableOffset(s)
  /\ \A n, t, b : Ar!ExtractArName(n, t, b) = Walk!ExtractArName(n, t, b)
  /\ \A n, t, b : Ar!ReturnedName(n, t, b) = Walk!ReturnedName(n, t, b)
<1>1. \A s : Ar!TableOffset(s) = Walk!TableOffset(s)
  BY ImagesSame DEF Ar!TableOffset, Walk!TableOffset
<1>2. \A n, t : Ar!IsLong(n, t) <=> Walk!IsLong(n, t)
  BY <1>1 DEF Ar!IsLong, Walk!IsLong, Ar!Digits, Walk!Digits
<1>3. \A t, off : Ar!TableEntry(t, off) = Walk!TableEntry(t, off)
  BY DEF Ar!TableEntry, Walk!TableEntry, Ar!Before, Walk!Before, Ar!TableStops,
         Walk!TableStops, Ar!NewLine, Walk!NewLine, Ar!NUL, Walk!NUL
<1>4. \A b, s : Ar!Overwrite(b, s) = Walk!Overwrite(b, s)
  BY DEF Ar!Overwrite, Walk!Overwrite, Ar!NUL, Walk!NUL
<1>5. \A s : Ar!Before(s, Ar!FieldStops) = Walk!Before(s, Walk!FieldStops)
  BY DEF Ar!Before, Walk!Before, Ar!FieldStops, Walk!FieldStops
<1>6. \A b : Ar!CString(b) = Walk!CString(b)
  BY DEF Ar!CString, Walk!CString, Ar!Before, Walk!Before, Ar!NUL, Walk!NUL
<1>7. \A n, t, b : Ar!ExtractArName(n, t, b) = Walk!ExtractArName(n, t, b)
  BY <1>1, <1>2, <1>3, <1>4, <1>5 DEF Ar!ExtractArName, Walk!ExtractArName
<1>8. \A n, t, b : Ar!ReturnedName(n, t, b) = Walk!ReturnedName(n, t, b)
  BY <1>2, <1>6 DEF Ar!ReturnedName, Walk!ReturnedName
<1> QED
  BY <1>1, <1>7, <1>8

(* Its steps. *)
LEMMA WalkSame ==
  /\ Ar!NameTable <=> Walk!NameTable
  /\ Ar!SymbolIndex <=> Walk!SymbolIndex
  /\ Ar!OtherMember <=> Walk!OtherMember
  /\ Ar!ElfMember <=> Walk!ElfMember
  /\ Ar!LeaveLoop <=> Walk!LeaveLoop
  /\ Ar!Return <=> Walk!Return
<1>1. \A kind : Ar!Visit(kind) <=> Walk!Visit(kind)
  BY ImagesSame, ExtractionSame DEF Ar!Visit, Walk!Visit, Ar!Name, Walk!Name
<1>2. Ar!NameTable <=> Walk!NameTable
  BY <1>1, ImagesSame DEF Ar!NameTable, Walk!NameTable
<1>3. Ar!SymbolIndex <=> Walk!SymbolIndex
  BY <1>1 DEF Ar!SymbolIndex, Walk!SymbolIndex
<1>4. Ar!OtherMember <=> Walk!OtherMember
  BY <1>1, ImagesSame DEF Ar!OtherMember, Walk!OtherMember
<1>5. Ar!ElfMember <=> Walk!ElfMember
  BY <1>1, ImagesSame, ExtractionSame DEF Ar!ElfMember, Walk!ElfMember, Ar!Name, Walk!Name,
     Ar!UnitOutcomes, Walk!UnitOutcomes, Ar!UnitFails, Walk!UnitFails, Ar!UnitLogs,
     Walk!UnitLogs, Ar!FAIL_PATH, Walk!FAIL_PATH
<1>6. Ar!LeaveLoop <=> Walk!LeaveLoop
  BY ImagesSame DEF Ar!LeaveLoop, Walk!LeaveLoop
<1>7. Ar!Return <=> Walk!Return
  BY DEF Ar!Return, Walk!Return, Ar!FAIL_PATH, Walk!FAIL_PATH
<1> QED
  BY <1>2, <1>3, <1>4, <1>5, <1>6, <1>7

(* What is said of it. *)
LEMMA PromisesSame ==
  /\ Ar!NamesAsWritten <=> Walk!NamesAsWritten
  /\ \A u : Ar!ImageOK(u) <=> Walk!ImageOK(u)
<1>1. \A u, k : Ar!NameCarried(u, k) <=> Walk!NameCarried(u, k)
  BY ImagesSame DEF Ar!NameCarried, Walk!NameCarried, Ar!FieldStops, Walk!FieldStops,
     Ar!TableStops, Walk!TableStops, Ar!NewLine, Walk!NewLine, Ar!NUL, Walk!NUL,
     Ar!Range, Walk!Range, Ar!Members, Walk!Members, Ar!KindOf, Walk!KindOf
<1>2. Ar!NamesAsWritten <=> Walk!NamesAsWritten
  BY <1>1, ImagesSame DEF Ar!NamesAsWritten, Walk!NamesAsWritten, Ar!Intact, Walk!Intact,
     Ar!Members, Walk!Members, Ar!IsPrefix, Walk!IsPrefix, Ar!Min, Walk!Min
<1>3. \A u, k : Ar!Spelled(u, k) <=> Walk!Spelled(u, k)
  <2>1. \A f, n : Ar!InField(f, n) <=> Walk!InField(f, n)
    BY DEF Ar!InField, Walk!InField, Ar!FieldStops, Walk!FieldStops
  <2>2. \A t, s, off, n : Ar!InTable(t, s, off, n) <=> Walk!InTable(t, s, off, n)
    BY DEF Ar!InTable, Walk!InTable, Ar!TableStops, Walk!TableStops, Ar!NewLine,
           Walk!NewLine, Ar!NUL, Walk!NUL
  <2>3. \A u, k : Ar!KindOf(u, k) = Walk!KindOf(u, k)
    BY ImagesSame DEF Ar!KindOf, Walk!KindOf
  <2>4. Ar!Digits = Walk!Digits
    BY DEF Ar!Digits, Walk!Digits
  <2> QED
    BY <2>1, <2>2, <2>3, <2>4, ImagesSame, ExtractionSame DEF Ar!Spelled, Walk!Spelled
<1>4. \A u : Ar!Laid(u) <=> Walk!Laid(u)
  BY ImagesSame DEF Ar!Laid, Walk!Laid, Ar!SARMAG, Walk!SARMAG
<1>5. \A u : Ar!ImageOK(u) <=> Walk!ImageOK(u)
  <2>1. \A s : Ar!SizeOK(s) <=> Walk!SizeOK(s)
    BY ImagesSame DEF Ar!SizeOK, Walk!SizeOK
  <2>2. \A u : (Ar!Intact(u) <=> Walk!Intact(u)) /\ Ar!Members(u) = Walk!Members(u)
    BY DEF Ar!Intact, Walk!Intact, Ar!Members, Walk!Members
  <2>3. Ar!SARMAG = Walk!SARMAG
    BY DEF Ar!SARMAG, Walk!SARMAG
  <2> QED
    BY <1>1, <1>3, <1>4, <2>1, <2>2, <2>3, ImagesSame, SMTT(40) DEF Ar!ImageOK, Walk!ImageOK
<1> QED
  BY <1>2, <1>5

(* What process_elf_unit reads of a unit. *)
LEMMA UnitsSame ==
  /\ \A c : /\ Elf!EhdrSize(c) = Unit!EhdrSize(c)
            /\ Elf!ShdrSize(c) = Unit!ShdrSize(c)
            /\ Elf!SymSize(c) = Unit!SymSize(c)
  /\ \A off, size, limit : Elf!CheckRange(off, size, limit) <=> Unit!CheckRange(off, size, limit)
  /\ \A u : Elf!HeaderOK(u) <=> Unit!HeaderOK(u)
  /\ \A u : Elf!UnitOK(u) <=> Unit!UnitOK(u)
  /\ \A u, t, n, off : Elf!Scanned(u, t, n, off) = Unit!Scanned(u, t, n, off)
  /\ \A u, t, n, off : Elf!SafeGetString(u, t, n, off) = Unit!SafeGetString(u, t, n, off)
  /\ \A s, c : Elf!ClassifySymbol(s, c) = Unit!ClassifySymbol(s, c)
<1>1. /\ \A c : /\ Elf!EhdrSize(c) = Unit!EhdrSize(c)
                /\ Elf!ShdrSize(c) = Unit!ShdrSize(c)
                /\ Elf!SymSize(c) = Unit!SymSize(c)
      /\ \A off, size, limit :
           Elf!CheckRange(off, size, limit) <=> Unit!CheckRange(off, size, limit)
  BY DEF Elf!EhdrSize, Unit!EhdrSize, Elf!ShdrSize, Unit!ShdrSize, Elf!SymSize,
         Unit!SymSize, Elf!CheckRange, Unit!CheckRange
<1>2. \A u : Elf!HeaderOK(u) <=> Unit!HeaderOK(u)
  BY <1>1 DEF Elf!HeaderOK, Unit!HeaderOK, Elf!EI_NIDENT, Unit!EI_NIDENT
<1>3. \A u : Elf!UnitOK(u) <=> Unit!UnitOK(u)
  BY <1>1, <1>2 DEF Elf!UnitOK, Unit!UnitOK
<1>4. \A u, t, n, off : Elf!Scanned(u, t, n, off) = Unit!Scanned(u, t, n, off)
  BY <1>1 DEF Elf!Scanned, Unit!Scanned, Elf!Empty, Unit!Empty, Elf!Min, Unit!Min
<1>5. \A u, t, n, off : Elf!SafeGetString(u, t, n, off) = Unit!SafeGetString(u, t, n, off)
  BY <1>4 DEF Elf!SafeGetString, Unit!SafeGetString, Elf!NULL, Unit!NULL
<1>6. \A s, c : Elf!ClassifySymbol(s, c) = Unit!ClassifySymbol(s, c)
  <2>1. \A s, l, g : Elf!ByBinding(s, l, g) = Unit!ByBinding(s, l, g)
    BY DEF Elf!ByBinding, Unit!ByBinding
  <2>2. \A s, c : Elf!ClassifyBySection(s, c) = Unit!ClassifyBySection(s, c)
    BY <2>1 DEF Elf!ClassifyBySection, Unit!ClassifyBySection
  <2>3. \A s : Elf!UndefinedWeak(s) = Unit!UndefinedWeak(s)
    BY DEF Elf!UndefinedWeak, Unit!UndefinedWeak
  <2>4. \A s, c : Elf!ClassifyByShndx(s, c) = Unit!ClassifyByShndx(s, c)
    BY <2>1, <2>2, <2>3 DEF Elf!ClassifyByShndx, Unit!ClassifyByShndx, Elf!SHN_ABS,
       Unit!SHN_ABS, Elf!SHN_COMMON, Unit!SHN_COMMON, Elf!SHN_UNDEF, Unit!SHN_UNDEF
  <2> QED
    BY <2>3, <2>4 DEF Elf!ClassifySymbol, Unit!ClassifySymbol, Elf!SHN_UNDEF, Unit!SHN_UNDEF
<1> QED
  BY <1>1, <1>2, <1>3, <1>4, <1>5, <1>6

(* What it computes from the fields of a unit on its way. *)
LEMMA PlacesSame ==
  /\ Elf!Class = Unit!Class /\ Elf!Shnum = Unit!Shnum
  /\ \A k : Elf!Section(k) = Unit!Section(k)
  /\ Elf!StrTab = Unit!StrTab /\ Elf!ShStrTab = Unit!ShStrTab
  /\ \A k : Elf!ShdrWindow(k) = Unit!ShdrWindow(k) /\ Elf!SymWindow(k) = Unit!SymWindow(k)
  /\ \A off, len : Elf!Window(off, len) = Unit!Window(off, len)
  /\ Elf!TableOK <=> Unit!TableOK
  /\ \A s : /\ Elf!IndexOK(s) <=> Unit!IndexOK(s)
            /\ Elf!OwnName(s) = Unit!OwnName(s)
            /\ Elf!FinalName(s) = Unit!FinalName(s)
            /\ Elf!NameReads(s) = Unit!NameReads(s)
<1>1. /\ Elf!Class = Unit!Class /\ Elf!Shnum = Unit!Shnum
      /\ \A k : Elf!Section(k) = Unit!Section(k)
      /\ Elf!StrTab = Unit!StrTab /\ Elf!ShStrTab = Unit!ShStrTab
      /\ \A off, len : Elf!Window(off, len) = Unit!Window(off, len)
  BY DEF Elf!Class, Unit!Class, Elf!Shnum, Unit!Shnum, Elf!Section, Unit!Section,
         Elf!StrTab, Unit!StrTab, Elf!ShStrTab, Unit!ShStrTab, Elf!Window, Unit!Window
<1>2. \A k : Elf!ShdrWindow(k) = Unit!ShdrWindow(k) /\ Elf!SymWindow(k) = Unit!SymWindow(k)
  BY <1>1, UnitsSame DEF Elf!ShdrWindow, Unit!ShdrWindow, Elf!SymWindow, Unit!SymWindow,
     Elf!Wrap, Unit!Wrap
<1>3. Elf!TableOK <=> Unit!TableOK
  BY <1>1, UnitsSame DEF Elf!TableOK, Unit!TableOK
<1>4. \A s : Elf!IndexOK(s) <=> Unit!IndexOK(s)
  BY <1>1 DEF Elf!IndexOK, Unit!IndexOK, Elf!SHN_ABS, Unit!SHN_ABS, Elf!SHN_COMMON,
     Unit!SHN_COMMON
<1>5. \A s : Elf!OwnName(s) = Unit!OwnName(s) /\ Elf!SectionName(s) = Unit!SectionName(s)
  BY <1>1, UnitsSame DEF Elf!OwnName, Unit!OwnName, Elf!SectionName, Unit!SectionName
<1>6. \A s : Elf!NamedBySection(s) <=> Unit!NamedBySection(s)
  BY <1>1 DEF Elf!NamedBySection, Unit!NamedBySection
<1>7. \A s : Elf!FinalName(s) = Unit!FinalName(s)
  BY <1>5, <1>6 DEF Elf!FinalName, Unit!FinalName, Elf!NULL, Unit!NULL, Elf!Empty,
     Unit!Empty
<1>8. \A s : Elf!NameReads(s) = Unit!NameReads(s)
  BY <1>1, <1>2, <1>5, <1>6, UnitsSame DEF Elf!NameReads, Unit!NameReads, Elf!NULL, Unit!NULL
<1> QED
  BY <1>1, <1>2, <1>3, <1>4, <1>5, <1>7, <1>8

(* Its steps. *)
LEMMA UnitSame == Elf!Next <=> Unit!Next
<1>1. Elf!NotRecognized <=> Unit!NotRecognized
  BY DEF Elf!NotRecognized, Unit!NotRecognized, Elf!FAIL_PATH, Unit!FAIL_PATH
<1>2. Elf!VerifyElfHeader <=> Unit!VerifyElfHeader
  BY <1>1, UnitsSame, PlacesSame DEF Elf!VerifyElfHeader, Unit!VerifyElfHeader,
     Elf!EI_NIDENT, Unit!EI_NIDENT
<1>3. (Elf!FindStep <=> Unit!FindStep) /\ (Elf!NoSymbols <=> Unit!NoSymbols)
  BY PlacesSame DEF Elf!FindStep, Unit!FindStep, Elf!NoSymbols, Unit!NoSymbols, Elf!OK,
     Unit!OK
<1>4. Elf!CheckTable <=> Unit!CheckTable
  BY <1>1, UnitsSame, PlacesSame DEF Elf!CheckTable, Unit!CheckTable
<1>5. (Elf!AllocFails <=> Unit!AllocFails) /\ (Elf!AllocSymbols <=> Unit!AllocSymbols)
  BY <1>1 DEF Elf!AllocFails, Unit!AllocFails, Elf!AllocSymbols, Unit!AllocSymbols,
     Elf!SIZE_MAX, Unit!SIZE_MAX, Elf!NmSymSize, Unit!NmSymSize
<1>6. Elf!CacheSections <=> Unit!CacheSections
  BY PlacesSame DEF Elf!CacheSections, Unit!CacheSections
<1>7. Elf!LoadSymbol <=> Unit!LoadSymbol
  BY UnitsSame, PlacesSame DEF Elf!LoadSymbol, Unit!LoadSymbol, Elf!NULL, Unit!NULL
<1>8. Elf!LoadFails <=> Unit!LoadFails
  BY <1>1, PlacesSame DEF Elf!LoadFails, Unit!LoadFails, Elf!NULL, Unit!NULL
<1>9. (Elf!LoadEnds <=> Unit!LoadEnds) /\ (Elf!SortAndPrint <=> Unit!SortAndPrint)
  BY DEF Elf!LoadEnds, Unit!LoadEnds, Elf!SortAndPrint, Unit!SortAndPrint, Elf!OK, Unit!OK,
     Elf!FAIL_PATH, Unit!FAIL_PATH
<1> QED
  BY <1>2, <1>3, <1>4, <1>5, <1>6, <1>7, <1>8, <1>9 DEF Elf!Next, Unit!Next, Elf!Done,
     Unit!Done, Elf!vars, Unit!vars

-----------------------------------------------------------------------------
(* What holds of the parts when they are entered, and kept by their steps. *)

(* The assumptions under which the walk and the units were verified hold   *)
(* of what the files hold.                                                 *)
LEMMA WalkAssumptions ==
  /\ Walk!WordAssumption /\ Walk!ArchivesAssumption /\ Walk!BuffersAssumption
<1>1. \A u \in Images : Walk!ImageOK(u)
  BY ContentsAssumption, PromisesSame DEF Images
<1> QED
  BY <1>1, ContentsAssumption, WordAssumption
     DEF Walk!WordAssumption, Walk!ArchivesAssumption, Walk!BuffersAssumption

LEMMA UnitAssumptions ==
  Unit!WordAssumption /\ Unit!UnitsAssumption
BY ContentsAssumption, UnitsSame, WordAssumption
   DEF Unit!WordAssumption, Unit!UnitsAssumption

(* So the invariants of the parts hold when they are entered, and their     *)
(* steps keep them.                                                        *)
LEMMA WalkEnters == (Walk!Entered => Walk!ArInv)'
<1>1. Walk!Entered => Walk!ArInv
  BY WalkAssumptions, Walk!EnteredHolds
<1> QED
  BY <1>1, PTL

LEMMA WalkSteps == Walk!ArInv /\ Walk!Next => Walk!ArInv'
BY WalkAssumptions, Walk!StepHolds

LEMMA UnitEnters == (Unit!Init => Unit!UnitInv)'
<1>1. Unit!Init => Unit!UnitInv
  BY UnitAssumptions, Unit!UnitInvInit
<1> QED
  BY <1>1, PTL

LEMMA UnitSteps == Unit!UnitInv /\ Unit!Next => Unit!UnitInv'
BY UnitAssumptions, Unit!UnitInvStep

(* Standing on a member, the walk has a payload inside the image to hand over. *)
LEMMA MemberFits ==
  ASSUME Walk!ArInv, Ar!Acceptable(arUnit, arOff)
  PROVE  /\ arOff \in DOMAIN arUnit.header
         /\ arOff \in Nat /\ arUnit.limit \in Nat
         /\ Ar!HeaderSize(arUnit, arOff) \in Nat
         /\ Ar!PayloadOff(arOff) \in Nat /\ arOff < Ar!PayloadOff(arOff)
         /\ Ar!PayloadOff(arOff) + Ar!HeaderSize(arUnit, arOff) <= arUnit.limit
         /\ Ar!Payload(arUnit, arOff).symbols \in {"some", "none", "malformed"}
<1>1. Walk!TypeInv /\ Walk!Acceptable(arUnit, arOff)
  BY ImagesSame DEF Walk!ArInv
<1>2. /\ arOff \in Nat
      /\ arUnit.limit \in Nat
      /\ Walk!HeaderSize(arUnit, arOff) \in Nat
      /\ Walk!PayloadOff(arOff) = arOff + 60
      /\ Walk!NextOff(arUnit, arOff) \in Nat
      /\ arOff + 60 + Walk!HeaderSize(arUnit, arOff) <= Walk!NextOff(arUnit, arOff)
      /\ Walk!NextOff(arUnit, arOff) <= arUnit.limit
      /\ Walk!Payload(arUnit, arOff).symbols \in {"some", "none", "malformed"}
  BY <1>1, WalkAssumptions, Walk!StepFits DEF Walk!HDR
<1>3. arOff \in DOMAIN arUnit.header
  BY DEF Ar!Acceptable
<1>4. /\ Ar!HeaderSize(arUnit, arOff) = Walk!HeaderSize(arUnit, arOff)
      /\ Ar!PayloadOff(arOff) = Walk!PayloadOff(arOff)
      /\ Ar!Payload(arUnit, arOff) = Walk!Payload(arUnit, arOff)
  BY ImagesSame
<1> DEFINE size == Walk!HeaderSize(arUnit, arOff)
           next == Walk!NextOff(arUnit, arOff)
           limit == arUnit.limit
<1>5. /\ arOff \in Nat /\ limit \in Nat /\ size \in Nat /\ next \in Nat
      /\ arOff + 60 + size <= next /\ next <= limit
  BY <1>2
<1> HIDE DEF size, next, limit
<1>6. arOff + 60 \in Nat /\ arOff < arOff + 60 /\ (arOff + 60) + size <= limit
  BY <1>5
<1> QED
  BY <1>2, <1>3, <1>4, <1>6 DEF size, limit

(* Every heading printed so far stands in front of the walk. *)
LEMMA HeadingsBehind ==
  ASSUME Walk!ArInv, NEW n \in DOMAIN arListed
  PROVE  arListed[n].off \in Nat /\ arListed[n].off <= arOff /\ arOff \in Nat
<1>1. Walk!WindowsDisjoint /\ Walk!TypeInv
  BY DEF Walk!ArInv
<1>2. /\ arListed[n].off \in Nat /\ arListed[n].size \in Nat
      /\ arListed[n].off + arListed[n].size <= arOff
  BY <1>1 DEF Walk!WindowsDisjoint, Walk!TypeInv, Walk!TypeOK
<1>3. arOff \in Nat
  <2>1. arUnit.limit \in Nat
    BY <1>1, WalkAssumptions, Walk!ArchiveFacts DEF Walk!TypeInv
  <2> QED
    BY <1>1, <2>1 DEF Walk!TypeInv, Walk!TypeOK, Walk!SARMAG
<1> DEFINE off == arListed[n].off
           size == arListed[n].size
<1>4. off \in Nat /\ size \in Nat /\ off + size <= arOff
  BY <1>2
<1> HIDE DEF off, size
<1>5. off <= arOff
  BY <1>3, <1>4
<1> QED
  BY <1>3, <1>4, <1>5 DEF off

-----------------------------------------------------------------------------
(* The inductive invariant. *)

Increasing(s) == \A a, b \in DOMAIN s : a < b => s[a] < s[b]

(* The places of the members whose symbols were listed. *)
ListedAt == {arListed[n].off : n \in {m \in DOMAIN arListed : arListed[m].why = "listed"}}

Calls ==
  /\ callee \in {"none", "elf", "archive", "member"}
  /\ callee # "none" => pc = "route"
  /\ pc = "fstat" => Now.exists
  /\ pc = "route" => Mappable(Now)
  /\ base \in Nat
  /\ listing \in Seq(Nat)
  /\ blocks \in Seq(Seq(Nat)) /\ Len(blocks) = Len(processed)
  /\ callee = "none" => listing = <<>>

AtFile ==
  callee = "elf" =>
    /\ FormatOf(Now) = "FMT_ELF"
    /\ base = 0 /\ elfUnit = Bounded(Now.unit, Now.size)
    /\ listing = IF elfListed THEN <<0>> ELSE <<>>

AtArchive ==
  callee \in {"archive", "member"} =>
    FormatOf(Now) = "FMT_AR" /\ arUnit = Now.image /\ Walk!ArInv

AtMember ==
  callee = "member" =>
    /\ arPc = "loop" /\ arOff < arUnit.limit
    /\ Ar!Acceptable(arUnit, arOff) /\ Ar!IsElfMember(arUnit, arOff)
    /\ base = Ar!PayloadOff(arOff) /\ elfUnit = MemberUnit(arUnit, arOff)

Running == callee \in {"elf", "member"} => Unit!UnitInv

(* The listings printed for an archive are those of its members that were  *)
(* listed, and of the one at work when it has come to that.                *)
Tallied ==
  callee \in {"archive", "member"} =>
    /\ \A n \in DOMAIN arListed :
         arListed[n].why \in UnitOutcomes(arUnit.payload[arListed[n].off].symbols)
    /\ Increasing(listing)
    /\ Range(listing) =
         ListedAt \cup (IF callee = "member" /\ elfListed THEN {base} ELSE {})

(* What the archive before has left in the static buffers, and its names. *)
Kept == Walk!BufsOK /\ (arListed # <<>> => Ar!NamesAsWritten)

SysInv ==
  /\ NmInv /\ Calls /\ AtFile /\ AtArchive /\ AtMember /\ Running /\ Tallied /\ Kept

-----------------------------------------------------------------------------

(* It holds before anything is called. *)
LEMMA SysInvInit == SystemInit => SysInv
<1> SUFFICES ASSUME SystemInit PROVE SysInv
  OBVIOUS
<1>1. NmInv
  BY NmInvInit DEF SystemInit
<1>2. Calls
  BY NoElements DEF SystemInit, Init, Calls
<1>3. AtFile /\ AtArchive /\ AtMember /\ Running /\ Tallied
  BY DEF SystemInit, AtFile, AtArchive, AtMember, Running, Tallied
<1>4. Walk!BufsOK
  <2>1. NameField + 1 \in Nat /\ LongNameBuf \in Nat
    BY ContentsAssumption
  <2>2. Ar!NUL \in Walk!Chars
    BY DEF Ar!NUL, Walk!Chars, Walk!NUL
  <2>3. [n \in 1..(NameField + 1) |-> Ar!NUL] \in Seq(Walk!Chars)
    BY <2>1, <2>2
  <2>4. [n \in 1..LongNameBuf |-> Ar!NUL] \in Seq(Walk!Chars)
    BY <2>1, <2>2
  <2> QED
    BY <2>3, <2>4 DEF SystemInit, Walk!BufsOK
<1> QED
  BY <1>1, <1>2, <1>3, <1>4 DEF SysInv, Kept, SystemInit

(* What depends on the file served alone. *)
LEMMA SameFile ==
  ASSUME UNCHANGED vars
  PROVE  /\ Now' = Now /\ FormatOf(Now)' = FormatOf(Now) /\ Mappable(Now)' = Mappable(Now)
         /\ pc' = pc /\ processed' = processed /\ argv' = argv /\ map' = map
         /\ paths' = paths /\ i' = i
BY DEF vars, Now, FormatOf, Mappable

(* A part that takes no step keeps what is known of it. *)
LEMMA WalkRests ==
  ASSUME UNCHANGED arVars
  PROVE  /\ Walk!ArInv => Walk!ArInv'
         /\ Kept => Kept'
         /\ ListedAt' = ListedAt
         /\ arUnit' = arUnit /\ arPc' = arPc /\ arOff' = arOff /\ arListed' = arListed
<1>1. /\ arUnit' = arUnit /\ arPc' = arPc /\ arOff' = arOff /\ arStrtab' = arStrtab
      /\ arBufs' = arBufs /\ arResult' = arResult /\ arListed' = arListed
      /\ arLogged' = arLogged
  BY DEF arVars
<1>2. Walk!ArInv => Walk!ArInv'
  BY <1>1, WalkAssumptions, Walk!StepHolds DEF Walk!vars
<1>3. ListedAt' = ListedAt
  BY <1>1 DEF ListedAt
<1>4. Kept => Kept'
  BY <1>1 DEF Kept, Walk!BufsOK, Ar!NamesAsWritten
<1> QED
  BY <1>1, <1>2, <1>3, <1>4

LEMMA UnitRests ==
  ASSUME UNCHANGED elfVars
  PROVE  /\ Unit!UnitInv => Unit!UnitInv'
         /\ elfUnit' = elfUnit /\ elfListed' = elfListed
<1>1. /\ elfUnit' = elfUnit /\ elfPc' = elfPc /\ elfI' = elfI /\ elfSymtab' = elfSymtab
      /\ elfCount' = elfCount /\ elfSymbols' = elfSymbols /\ elfCache' = elfCache
      /\ elfHeap' = elfHeap /\ elfReads' = elfReads /\ elfListed' = elfListed
      /\ elfLogged' = elfLogged /\ elfRet' = elfRet
  BY DEF elfVars
<1> QED
  BY <1>1, UnitAssumptions, Unit!UnitInvStep DEF Unit!vars

(* Steps of the driver. *)
LEMMA DriverKeeps == SysInv /\ Driver => SysInv'
<1> SUFFICES ASSUME SysInv, Driver PROVE SysInv'
  OBVIOUS
<1>1. /\ pc # "route" /\ Next
      /\ callee' = callee /\ base' = base /\ listing' = listing
      /\ UNCHANGED arVars /\ UNCHANGED elfVars
      /\ blocks' = IF processed' = processed THEN blocks ELSE Append(blocks, <<>>)
  <2>1. pc # "route"
    BY DEF Driver, ScanOption, ScanInvalid, ScanPath, ScanEnds, AllocFails, Alloc, CopyPath,
       CopyEnds, DefaultPath, OpenFails, Open, FstatFails, EmptyFile, MmapFails, Mmap, Exit,
       InPaths
  <2>2. Next
    BY DEF Driver, Next
  <2> QED
    BY <2>1, <2>2 DEF Driver
<1>2. callee = "none"
  BY <1>1 DEF SysInv, Calls
<1>3. NmInv'
  BY <1>1, NmInvStep DEF SysInv
<1>4. processed' = processed \/ \E e : processed' = Append(processed, e)
  BY DEF Driver, ScanOption, ScanInvalid, ScanPath, ScanEnds, AllocFails, Alloc, CopyPath,
       CopyEnds, DefaultPath, OpenFails, Open, FstatFails, EmptyFile, MmapFails, Mmap, Exit,
       InPaths, Finish
<1>5. blocks' \in Seq(Seq(Nat)) /\ Len(blocks') = Len(processed')
  <2>1. /\ blocks \in Seq(Seq(Nat)) /\ Len(blocks) = Len(processed)
        /\ processed \in Seq(Attempts)
    BY DEF SysInv, Calls, NmInv, Types
  <2>2. CASE processed' = processed
    BY <1>1, <2>1, <2>2
  <2>3. CASE processed' # processed
    <3>1. PICK e : processed' = Append(processed, e)
      BY <1>4, <2>3
    <3>2. blocks' = Append(blocks, <<>>) /\ <<>> \in Seq(Nat)
      BY <1>1, <2>3
    <3> QED
      BY <2>1, <3>1, <3>2
  <2> QED
    BY <2>2, <2>3
<1>6. (pc' = "fstat" => Now'.exists) /\ (pc' = "route" => Mappable(Now'))
  <2>1. CASE Open
    BY <2>1 DEF Open, InPaths, parseVars, Now
  <2>2. CASE Mmap
    BY <2>2 DEF SysInv, Calls, Mmap, parseVars, Now, Mappable
  <2>3. Open \/ Mmap \/ pc' \notin {"fstat", "route"}
    BY DEF SysInv, NmInv, Types, Parsing, Serving, Driver, ScanOption, ScanInvalid, ScanPath,
       ScanEnds, AllocFails, Alloc, CopyPath,
       CopyEnds, DefaultPath, OpenFails, Open, FstatFails, EmptyFile, MmapFails, Mmap, Exit,
       InPaths, Finish
  <2> QED
    BY <2>1, <2>2, <2>3
<1>7. Calls'
  BY <1>1, <1>2, <1>5, <1>6 DEF SysInv, Calls
<1>8. AtFile' /\ AtArchive' /\ AtMember' /\ Running' /\ Tallied'
  BY <1>1, <1>2 DEF AtFile, AtArchive, AtMember, Running, Tallied
<1> QED
  BY <1>1, <1>3, <1>7, <1>8, WalkRests DEF SysInv

-----------------------------------------------------------------------------
(* The calls. *)

(* The file that process_path has mapped is one of those assumed. *)
LEMMA ServedFile ==
  ASSUME SysInv, pc = "route"
  PROVE  /\ paths[i] \in Holding(FormatOf(Now))
         /\ Now = File(paths[i])
         /\ i \in 1..Len(AskedPaths(argv)) /\ paths[i] = AskedPaths(argv)[i]
<1>1. pc \in Serving /\ i <= path_count
  BY DEF SysInv, NmInv, Looping, Serving
<1>2. paths[i] \in PathNames /\ i \in 1..Len(AskedPaths(argv)) /\ paths[i] = AskedPaths(argv)[i]
  BY <1>1, ServedPath DEF SysInv
<1>3. paths[i] \in Paths
  BY <1>2 DEF PathNames, Paths
<1>4. Mappable(File(paths[i]))
  BY DEF SysInv, Calls, Now
<1> QED
  BY <1>2, <1>3, <1>4 DEF Holding, Now

(* A unit is entered. *)
LEMMA UnitEntered ==
  ASSUME NEW who, NEW content, NEW from, NEW limit,
         EnterUnit(who, content, from, limit), Bounded(content, limit) \in ElfUnits
  PROVE  Unit!UnitInv'
<1>1. Unit!Init'
  BY DEF EnterUnit, Unit!Init
<1> QED
  BY <1>1, UnitEnters

(* A file that is a unit is handed over. *)
LEMMA CallElfKeeps ==
  ASSUME SysInv, CallElf
  PROVE  SysInv'
<1>1. /\ pc = "route" /\ callee = "none" /\ FormatOf(Now) = "FMT_ELF"
      /\ callee' = "elf" /\ base' = 0 /\ elfUnit' = Bounded(Now.unit, Now.size)
      /\ elfListed' = FALSE /\ listing' = listing /\ blocks' = blocks
      /\ UNCHANGED vars /\ UNCHANGED arVars
  BY DEF CallElf, Calling, EnterUnit
<1>2. NmInv'
  BY <1>1, NmInvStep DEF SysInv
<1>3. Bounded(Now.unit, Now.size) \in ElfUnits
  BY <1>1, ServedFile DEF ElfUnits
<1>4. Unit!UnitInv'
  BY <1>3, UnitEntered DEF CallElf
<1>5. Calls'
  BY <1>1, SameFile DEF SysInv, Calls
<1>6. AtFile'
  BY <1>1, SameFile DEF SysInv, Calls, AtFile
<1>7. AtArchive' /\ AtMember' /\ Running' /\ Tallied'
  BY <1>1, <1>4 DEF AtArchive, AtMember, Running, Tallied
<1> QED
  BY <1>1, <1>2, <1>5, <1>6, <1>7, WalkRests DEF SysInv

(* An archive is handed over. *)
LEMMA CallArchiveKeeps ==
  ASSUME SysInv, CallArchive
  PROVE  SysInv'
<1>1. /\ pc = "route" /\ callee = "none" /\ FormatOf(Now) = "FMT_AR"
      /\ callee' = "archive" /\ arUnit' = Now.image
      /\ arListed' = <<>> /\ base' = base /\ listing' = listing /\ blocks' = blocks
      /\ arBufs' = arBufs
      /\ UNCHANGED vars /\ UNCHANGED elfVars
  BY DEF CallArchive, Calling
<1>2. NmInv'
  BY <1>1, NmInvStep DEF SysInv
<1>3. Now.image \in Images
  BY <1>1, ServedFile DEF Images
<1>4. Walk!BufsOK'
  BY <1>1 DEF SysInv, Kept, Walk!BufsOK
<1>5. Walk!Entered'
  BY <1>3, <1>4 DEF CallArchive, Walk!Entered, Walk!SARMAG, SARMAG, Walk!NoTable, Ar!NoTable,
     Walk!OK, OK
<1>6. Walk!ArInv'
  BY <1>5, WalkEnters
<1>7. Calls'
  BY <1>1, SameFile DEF SysInv, Calls
<1>8. AtArchive'
  BY <1>1, <1>6, SameFile DEF AtArchive
<1>9. AtFile' /\ AtMember' /\ Running'
  BY <1>1 DEF AtFile, AtMember, Running
<1>10. Tallied'
  <2>1. listing' = <<>>
    BY <1>1 DEF SysInv, Calls
  <2>2. ListedAt' = {}
    BY <1>1 DEF ListedAt
  <2>3. Increasing(<<>>) /\ Range(<<>>) = {}
    BY DEF Increasing, Range
  <2> QED
    BY <1>1, <2>1, <2>2, <2>3 DEF Tallied
<1>11. Kept'
  BY <1>1, <1>4 DEF Kept
<1> QED
  BY <1>2, <1>7, <1>8, <1>9, <1>10, <1>11 DEF SysInv

(* A member is handed over, within the bounds of its payload. *)
LEMMA CallMemberKeeps ==
  ASSUME SysInv, CallMember
  PROVE  SysInv'
<1>1. /\ callee = "archive" /\ arPc = "loop" /\ arOff < arUnit.limit
      /\ Ar!Acceptable(arUnit, arOff) /\ Ar!IsElfMember(arUnit, arOff)
      /\ callee' = "member" /\ base' = Ar!PayloadOff(arOff)
      /\ elfUnit' = MemberUnit(arUnit, arOff)
      /\ elfListed' = FALSE /\ listing' = listing /\ blocks' = blocks
      /\ UNCHANGED vars /\ UNCHANGED arVars
  BY DEF CallMember, AtElfMember, EnterUnit, MemberUnit, Payload
<1>2. NmInv'
  BY <1>1, NmInvStep DEF SysInv
<1>3. /\ pc = "route" /\ FormatOf(Now) = "FMT_AR" /\ arUnit = Now.image /\ Walk!ArInv
  BY <1>1 DEF SysInv, Calls, AtArchive
<1>4. Ar!PayloadOff(arOff) \in Nat /\ arOff \in DOMAIN arUnit.header
  BY <1>1, <1>3, MemberFits
<1>5. arUnit \in Images /\ arOff \in ElfHeaders(arUnit)
  BY <1>1, <1>3, <1>4, ServedFile DEF Images, ElfHeaders
<1>6. MemberUnit(arUnit, arOff) \in ElfUnits
  BY <1>5 DEF ElfUnits
<1>7. Unit!UnitInv'
  BY <1>6, UnitEntered DEF CallMember, MemberUnit, Payload
<1>8. Calls'
  BY <1>1, <1>4, SameFile DEF SysInv, Calls
<1>9. AtArchive'
  BY <1>1, <1>3, SameFile, WalkRests DEF AtArchive
<1>10. AtMember'
  <2>1. arUnit' = arUnit /\ arPc' = arPc /\ arOff' = arOff
    BY <1>1, WalkRests
  <2> QED
    BY <1>1, <2>1 DEF AtMember
<1>11. AtFile' /\ Running'
  BY <1>1, <1>7 DEF AtFile, Running
<1>12. Tallied'
  BY <1>1, WalkRests DEF SysInv, Tallied
<1> QED
  BY <1>1, <1>2, <1>8, <1>9, <1>10, <1>11, <1>12, WalkRests DEF SysInv

-----------------------------------------------------------------------------
(* A step of the walk past something that is no unit. *)
LEMMA ArchiveStepKeeps ==
  ASSUME SysInv, ArchiveStep
  PROVE  SysInv'
<1>1. /\ callee = "archive" /\ callee' = callee /\ base' = base /\ listing' = listing
      /\ blocks' = blocks /\ UNCHANGED vars /\ UNCHANGED elfVars
  BY DEF ArchiveStep
<1>2. Walk!NameTable \/ Walk!SymbolIndex \/ Walk!OtherMember \/ Walk!LeaveLoop \/ Walk!Return
  BY WalkSame DEF ArchiveStep
<1>3. arUnit' = arUnit /\ arListed' = arListed
  BY <1>2 DEF Walk!NameTable, Walk!SymbolIndex, Walk!OtherMember, Walk!Visit,
     Walk!LeaveLoop, Walk!Return
<1>4. Walk!Next
  BY <1>2 DEF Walk!Next
<1>5. Walk!ArInv'
  BY <1>1, <1>4, WalkSteps DEF SysInv, AtArchive
<1>6. NmInv'
  BY <1>1, NmInvStep DEF SysInv
<1>7. Calls'
  BY <1>1, SameFile DEF SysInv, Calls
<1>8. AtFile' /\ AtMember' /\ Running'
  BY <1>1 DEF AtFile, AtMember, Running
<1>9. AtArchive'
  BY <1>1, <1>3, <1>5, SameFile DEF SysInv, AtArchive
<1>10. Tallied'
  BY <1>1, <1>3 DEF SysInv, Tallied, ListedAt
<1>11. Kept'
  <2>1. Walk!BufsOK' /\ Walk!NamesAsWritten'
    BY <1>5 DEF Walk!ArInv
  <2>2. (Ar!NamesAsWritten <=> Walk!NamesAsWritten)'
    BY PromisesSame, PTL
  <2> QED
    BY <2>1, <2>2 DEF Kept
<1> QED
  BY <1>6, <1>7, <1>8, <1>9, <1>10, <1>11 DEF SysInv

-----------------------------------------------------------------------------
(* The steps of the parts, and the way back. *)

(* A listing grows by a place behind all the others. *)
LEMMA ListingGrows ==
  ASSUME NEW s \in Seq(Nat), Increasing(s), NEW b \in Nat,
         \A x \in Range(s) : x < b
  PROVE  /\ Append(s, b) \in Seq(Nat)
         /\ Increasing(Append(s, b))
         /\ Range(Append(s, b)) = Range(s) \cup {b}
<1> DEFINE t == Append(s, b)
<1>1. /\ t \in Seq(Nat) /\ Len(s) \in Nat
      /\ DOMAIN s = 1..Len(s) /\ DOMAIN t = 1..(Len(s) + 1)
      /\ \A k \in 1..Len(s) : t[k] = s[k]
      /\ t[Len(s) + 1] = b
  BY Appending
<1> HIDE DEF t
<1>2. \A k \in 1..Len(s) : s[k] < b
  BY <1>1 DEF Range
<1>3. Increasing(t)
  <2> SUFFICES ASSUME NEW j \in 1..(Len(s) + 1), NEW k \in 1..(Len(s) + 1), j < k
               PROVE  t[j] < t[k]
    BY <1>1 DEF Increasing
  <2>1. j \in 1..Len(s) /\ t[j] = s[j]
    BY <1>1
  <2>2. CASE k = Len(s) + 1
    BY <1>1, <1>2, <2>1, <2>2
  <2>3. CASE k \in 1..Len(s)
    <3>1. s[j] < s[k]
      BY <1>1, <2>1, <2>3 DEF Increasing
    <3> QED
      BY <1>1, <2>1, <2>3, <3>1
  <2>4. ASSUME NEW n \in Nat, k \in 1..(n + 1) PROVE k = n + 1 \/ k \in 1..n
    BY <2>4
  <2>5. k = Len(s) + 1 \/ k \in 1..Len(s)
    BY <1>1, <2>4
  <2> QED
    BY <2>2, <2>3, <2>5
<1>4. Range(t) = Range(s) \cup {b}
  <2> DEFINE n == Len(s)
  <2>1. n \in Nat
    BY <1>1
  <2>2. 1..(n + 1) = 1..n \cup {n + 1}
    <3> HIDE DEF n
    <3> QED
      BY <2>1
  <2>3. /\ DOMAIN s = 1..n /\ DOMAIN t = 1..n \cup {n + 1}
        /\ \A k \in 1..n : t[k] = s[k]
        /\ t[n + 1] = b
    BY <1>1, <2>2
  <2> HIDE DEF n
  <2> QED
    BY <2>3, Zenon DEF Range
<1> QED
  BY <1>1, <1>3, <1>4 DEF t

(* A step of a unit, the last of which may list it. *)
LEMMA UnitStepKeeps ==
  ASSUME SysInv, UnitStep
  PROVE  SysInv'
<1>1. /\ callee \in {"elf", "member"} /\ callee' = callee /\ base' = base
      /\ blocks' = blocks /\ UNCHANGED vars /\ UNCHANGED arVars
      /\ listing' = IF elfListed' THEN Append(listing, base) ELSE listing
      /\ elfPc # "done"
  BY DEF UnitStep
<1>2. Unit!UnitInv /\ Unit!Next
  BY <1>1, UnitSame DEF UnitStep, SysInv, Running
<1>3. Unit!UnitInv'
  BY <1>2, UnitSteps
<1>4. elfUnit' = elfUnit
  BY <1>2 DEF Unit!Next, Unit!VerifyElfHeader, Unit!FindStep, Unit!NoSymbols,
     Unit!CheckTable, Unit!AllocFails, Unit!AllocSymbols, Unit!CacheSections,
     Unit!LoadSymbol, Unit!LoadFails, Unit!LoadEnds, Unit!SortAndPrint, Unit!Done, Unit!vars
<1>5. elfListed = FALSE /\ elfListed' \in BOOLEAN
  BY <1>1, <1>2, <1>3 DEF Unit!UnitInv, Unit!ElfInv, Unit!Unlisted
<1>6. NmInv'
  BY <1>1, NmInvStep DEF SysInv
<1>7. base \in Nat /\ listing \in Seq(Nat)
  BY DEF SysInv, Calls
<1>8. listing' \in Seq(Nat)
  BY <1>1, <1>7
<1>9. Calls'
  BY <1>1, <1>8, SameFile DEF SysInv, Calls
<1>10. AtFile'
  <2> SUFFICES ASSUME callee = "elf"
               PROVE  /\ FormatOf(Now)' = "FMT_ELF" /\ base' = 0
                      /\ elfUnit' = Bounded(Now.unit, Now.size)'
                      /\ listing' = IF elfListed' THEN <<0>> ELSE <<>>
    BY <1>1 DEF AtFile
  <2>1. /\ FormatOf(Now) = "FMT_ELF" /\ base = 0
        /\ elfUnit = Bounded(Now.unit, Now.size) /\ listing = <<>>
    BY <1>5 DEF SysInv, AtFile
  <2>2. Now' = Now /\ FormatOf(Now)' = FormatOf(Now)
    BY <1>1, SameFile
  <2>3. Append(<<>>, 0) = <<0>>
    OBVIOUS
  <2> QED
    BY <1>1, <1>4, <2>1, <2>2, <2>3 DEF Bounded
<1>11. AtArchive'
  BY <1>1, SameFile, WalkRests DEF SysInv, AtArchive
<1>12. AtMember'
  <2>1. arUnit' = arUnit /\ arPc' = arPc /\ arOff' = arOff
    BY <1>1, WalkRests
  <2> QED
    BY <1>1, <1>4, <2>1 DEF SysInv, AtMember
<1>13. Running'
  BY <1>3 DEF Running
<1>14. Tallied'
  <2> SUFFICES ASSUME callee = "member" PROVE Tallied'
    BY <1>1 DEF Tallied
  <2>1. /\ Walk!ArInv /\ Ar!Acceptable(arUnit, arOff) /\ base = Ar!PayloadOff(arOff)
    BY DEF SysInv, AtArchive, AtMember
  <2>2. /\ \A n \in DOMAIN arListed :
             arListed[n].why \in UnitOutcomes(arUnit.payload[arListed[n].off].symbols)
        /\ Increasing(listing) /\ Range(listing) = ListedAt
    BY <1>5 DEF SysInv, Tallied
  <2>3. ListedAt' = ListedAt /\ arListed' = arListed /\ arUnit' = arUnit
    BY <1>1, WalkRests
  <2>4. CASE ~ elfListed'
    BY <1>1, <2>2, <2>3, <2>4 DEF Tallied
  <2>5. CASE elfListed'
    <3>1. \A x \in Range(listing) : x < base
      <4> SUFFICES ASSUME NEW n \in DOMAIN arListed PROVE arListed[n].off < base
        BY <2>2 DEF ListedAt
      <4>1. arListed[n].off \in Nat /\ arListed[n].off <= arOff /\ arOff \in Nat
        BY <2>1, HeadingsBehind
      <4>2. arOff < Ar!PayloadOff(arOff) /\ Ar!PayloadOff(arOff) \in Nat
        BY <2>1, MemberFits
      <4> QED
        BY <2>1, <4>1, <4>2
    <3>2. Increasing(Append(listing, base)) /\ Range(Append(listing, base)) = ListedAt \cup {base}
      BY <1>7, <2>2, <3>1, ListingGrows
    <3> QED
      BY <1>1, <2>2, <2>3, <2>5, <3>2 DEF Tallied
  <2> QED
    BY <2>4, <2>5
<1> QED
  BY <1>1, <1>6, <1>9, <1>10, <1>11, <1>12, <1>13, <1>14, WalkRests DEF SysInv

(* A finished unit was listed exactly when the outcome its caller goes on  *)
(* with says so.                                                           *)
LEMMA OutcomeTells ==
  ASSUME Unit!UnitInv, elfPc = "done",
         NEW why \in {"malformed", "no_symbols", "listed", "no_load", "no_sort"},
         Agrees(why, elfRet, Explains)
  PROVE  elfListed <=> why = "listed"
<1>1. Unit!Result
  BY DEF Unit!UnitInv, Unit!Ended
<1>2. /\ elfRet \in {OK, FAIL_PATH} /\ OK # FAIL_PATH
      /\ elfListed => elfRet = OK /\ elfLogged = <<>>
      /\ elfRet = OK /\ ~ elfListed => elfLogged # <<>>
  BY <1>1 DEF Unit!Result, Unit!OK, Unit!FAIL_PATH, OK, FAIL_PATH
<1>3. why = "listed" <=> why \notin UnitFails /\ why \notin UnitLogs
  BY DEF UnitFails, UnitLogs
<1>4. (why \in UnitFails <=> elfRet = FAIL_PATH) /\ (why \in UnitLogs <=> elfLogged # <<>>)
  BY DEF Agrees, Explains
<1> QED
  BY <1>2, <1>3, <1>4

(* The walk goes on with the outcome of the member. *)
LEMMA MemberReturnsKeeps ==
  ASSUME SysInv, MemberReturns
  PROVE  SysInv'
<1>1. /\ callee = "member" /\ elfPc = "done" /\ callee' = "archive"
      /\ base' = base /\ listing' = listing /\ blocks' = blocks
      /\ UNCHANGED vars /\ UNCHANGED elfVars
      /\ Agrees(Last(arListed').why, elfRet, Explains)
      /\ Walk!ElfMember
  BY WalkSame DEF MemberReturns
<1>2. /\ pc = "route" /\ FormatOf(Now) = "FMT_AR" /\ arUnit = Now.image /\ Walk!ArInv
      /\ Ar!Acceptable(arUnit, arOff) /\ base = Ar!PayloadOff(arOff)
      /\ Unit!UnitInv
  BY <1>1 DEF SysInv, Calls, AtArchive, AtMember, Running
<1>3. Walk!ArInv'
  BY <1>1, <1>2, WalkSteps DEF Walk!Next
<1>4. arUnit' = arUnit
  BY <1>1 DEF Walk!ElfMember, Walk!Visit
<1>5. PICK e : /\ arListed' = Append(arListed, e)
               /\ e.off = base
               /\ e.why \in UnitOutcomes(arUnit.payload[e.off].symbols)
  <2>1. Ar!ElfMember
    BY DEF MemberReturns
  <2>2. PICK why \in Ar!UnitOutcomes(Ar!Payload(arUnit, arOff).symbols) :
          arListed' = Append(arListed,
                        [name |-> Ar!ReturnedName(Ar!Name, arStrtab, arBufs'),
                         off  |-> Ar!PayloadOff(arOff),
                         size |-> Ar!HeaderSize(arUnit, arOff),
                         why  |-> why])
    BY <2>1 DEF Ar!ElfMember
  <2> DEFINE e == [name |-> Ar!ReturnedName(Ar!Name, arStrtab, arBufs'),
                   off  |-> Ar!PayloadOff(arOff),
                   size |-> Ar!HeaderSize(arUnit, arOff),
                   why  |-> why]
  <2>3. e.off = base /\ e.why = why
    BY <1>2
  <2>4. why \in UnitOutcomes(arUnit.payload[base].symbols)
    BY <1>2, <2>2 DEF Ar!Payload, Ar!UnitOutcomes, UnitOutcomes
  <2>5. arListed' = Append(arListed, e)
    BY <2>2
  <2> HIDE DEF e
  <2> QED
    BY <2>3, <2>4, <2>5
<1>6. arListed \in Seq(Range(arListed))
  BY <1>2 DEF Walk!ArInv, Walk!TypeInv, Walk!TypeOK, Walk!Range, Range
<1>7. /\ DOMAIN arListed = 1..Len(arListed) /\ DOMAIN arListed' = 1..(Len(arListed) + 1)
      /\ Len(arListed) \in Nat /\ Len(arListed') = Len(arListed) + 1
      /\ \A k \in 1..Len(arListed) : arListed'[k] = arListed[k]
      /\ arListed'[Len(arListed) + 1] = e
  <2>1. /\ DOMAIN arListed = 1..Len(arListed)
        /\ DOMAIN Append(arListed, e) = 1..(Len(arListed) + 1)
        /\ Len(arListed) \in Nat /\ Len(Append(arListed, e)) = Len(arListed) + 1
        /\ \A k \in 1..Len(arListed) : Append(arListed, e)[k] = arListed[k]
        /\ Append(arListed, e)[Len(arListed) + 1] = e
    <3> DEFINE T == Range(arListed) \cup {e}
    <3>1. arListed \in Seq(T) /\ e \in T
      BY <1>6, SeqOfMore
    <3> HIDE DEF T
    <3> QED
      BY <3>1, Appending
  <2> QED
    BY <1>5, <2>1
<1>8. elfListed <=> e.why = "listed"
  <2>1. Last(arListed') = e
    BY <1>7 DEF Last
  <2>2. arUnit.payload[e.off].symbols \in {"some", "none", "malformed"}
    BY <1>2, <1>5, MemberFits DEF Ar!Payload
  <2>3. e.why \in {"malformed", "no_symbols", "listed", "no_load", "no_sort"}
    BY <1>5, <2>2 DEF UnitOutcomes
  <2> QED
    BY <1>1, <1>2, <2>1, <2>3, OutcomeTells
<1>9. NmInv'
  BY <1>1, NmInvStep DEF SysInv
<1>10. Calls'
  BY <1>1, SameFile DEF SysInv, Calls
<1>11. AtFile' /\ AtMember' /\ Running'
  BY <1>1 DEF AtFile, AtMember, Running
<1>12. AtArchive'
  BY <1>1, <1>2, <1>3, <1>4, SameFile DEF AtArchive
<1>13. Tallied'
  <2>1. /\ \A n \in DOMAIN arListed :
             arListed[n].why \in UnitOutcomes(arUnit.payload[arListed[n].off].symbols)
        /\ Increasing(listing)
        /\ Range(listing) = ListedAt \cup (IF elfListed THEN {base} ELSE {})
    BY <1>1 DEF SysInv, Tallied
  <2>2. \A n \in DOMAIN arListed' :
          arListed'[n].why \in UnitOutcomes(arUnit.payload[arListed'[n].off].symbols)
    BY <1>5, <1>7, <2>1
  <2>3. ListedAt' = ListedAt \cup (IF elfListed THEN {base} ELSE {})
    <3>1. \A k : k \in 1..(Len(arListed) + 1) <=> k \in 1..Len(arListed) \/ k = Len(arListed) + 1
      BY <1>7
    <3> QED
      BY <1>5, <1>7, <1>8, <3>1 DEF ListedAt
  <2> QED
    BY <1>1, <1>4, <2>1, <2>2, <2>3 DEF Tallied
<1>14. Kept'
  <2>1. Walk!BufsOK' /\ Walk!NamesAsWritten'
    BY <1>3 DEF Walk!ArInv
  <2>2. (Ar!NamesAsWritten <=> Walk!NamesAsWritten)'
    BY PromisesSame, PTL
  <2> QED
    BY <2>1, <2>2 DEF Kept
<1> QED
  BY <1>9, <1>10, <1>11, <1>12, <1>13, <1>14 DEF SysInv

(* The path is done with. *)
LEMMA BackKeeps ==
  ASSUME SysInv, NEW result, NEW explains, Back(result, explains)
  PROVE  SysInv'
<1>1. /\ Route /\ callee' = "none" /\ blocks' = Append(blocks, listing) /\ listing' = <<>>
      /\ base' = base /\ UNCHANGED arVars /\ UNCHANGED elfVars
  BY DEF Back
<1>2. NmInv'
  BY <1>1, NmInvStep DEF SysInv, Next
<1>3. /\ pc' = "paths" /\ \E e : processed' = Append(processed, e)
  BY <1>1 DEF Route, Finish
<1>4. blocks' \in Seq(Seq(Nat)) /\ Len(blocks') = Len(processed')
  <2>1. /\ blocks \in Seq(Seq(Nat)) /\ Len(blocks) = Len(processed)
        /\ processed \in Seq(Attempts) /\ listing \in Seq(Nat)
    BY DEF SysInv, Calls, NmInv, Types
  <2> QED
    BY <1>1, <1>3, <2>1
<1>5. Calls'
  BY <1>1, <1>3, <1>4, NoElements DEF SysInv, Calls
<1>6. AtFile' /\ AtArchive' /\ AtMember' /\ Running' /\ Tallied'
  BY <1>1 DEF AtFile, AtArchive, AtMember, Running, Tallied
<1> QED
  BY <1>1, <1>2, <1>5, <1>6, WalkRests DEF SysInv

(* Nothing happens. *)
LEMMA SysRests ==
  ASSUME SysInv, UNCHANGED sysVars
  PROVE  SysInv'
<1>1. /\ callee' = callee /\ base' = base /\ listing' = listing /\ blocks' = blocks
      /\ UNCHANGED vars /\ UNCHANGED arVars /\ UNCHANGED elfVars
  BY DEF sysVars
<1>2. NmInv'
  BY <1>1, NmInvStep DEF SysInv
<1>3. Calls'
  BY <1>1, SameFile DEF SysInv, Calls
<1>4. /\ arUnit' = arUnit /\ arPc' = arPc /\ arOff' = arOff /\ arListed' = arListed
      /\ ListedAt' = ListedAt /\ elfUnit' = elfUnit /\ elfListed' = elfListed
  BY <1>1, WalkRests, UnitRests
<1>5. AtFile' /\ AtArchive'
  BY <1>1, <1>4, SameFile, WalkRests DEF SysInv, AtFile, AtArchive, Bounded
<1>6. AtMember' /\ Tallied'
  BY <1>1, <1>4 DEF SysInv, AtMember, Tallied
<1>7. Running'
  BY <1>1, UnitRests DEF SysInv, Running
<1> QED
  BY <1>1, <1>2, <1>3, <1>5, <1>6, <1>7, WalkRests DEF SysInv

(* Every step of the program keeps the invariant. *)
LEMMA SysInvStep == SysInv /\ [SystemNext]_sysVars => SysInv'
<1>1. SysInv /\ (Unknown \/ ElfReturns \/ ArchiveReturns) => SysInv'
  BY BackKeeps DEF Unknown, ElfReturns, ArchiveReturns
<1> QED
  BY <1>1, DriverKeeps, CallElfKeeps, CallArchiveKeeps, ArchiveStepKeeps, CallMemberKeeps,
     UnitStepKeeps, MemberReturnsKeeps, SysRests DEF SystemNext, Stop

(* The inductive invariant of the program: that of the driver, and while a *)
(* part runs, that of the part and how its state relates to the caller's.  *)
THEOREM SysInvHolds == System => []SysInv
BY SysInvInit, SysInvStep, PTL DEF System

-----------------------------------------------------------------------------
(* What is read and printed. *)

(* The window handed to process_elf_unit is what Bounded says. *)
LEMMA BoundedLimit ==
  ASSUME NEW content, "limit" \in DOMAIN content, NEW limit
  PROVE  Bounded(content, limit).limit = limit
BY DEF Bounded

(* A unit is read only while its file is mapped, inside the mapping and,   *)
(* for a member, inside its payload.                                       *)
THEOREM ReadsInMappingHolds == System => []ReadsInMapping
<1>1. SysInv => ReadsInMapping
  <2> SUFFICES ASSUME SysInv, callee \in {"elf", "member"}
               PROVE  /\ map
                      /\ \A w \in elfReads : base + w.off + w.len <= Now.size
                      /\ callee = "member" =>
                           /\ base = Ar!PayloadOff(arOff)
                           /\ \A w \in elfReads : w.off + w.len <= Ar!HeaderSize(arUnit, arOff)
    BY DEF ReadsInMapping
  <2>1. pc = "route"
    BY DEF SysInv, Calls
  <2>2. map
    BY <2>1 DEF SysInv, NmInv, Held
  <2>3. \A w \in elfReads : /\ w.off \in Nat /\ w.len \in Nat
                            /\ w.off + w.len <= elfUnit.limit
    BY DEF SysInv, Running, Unit!UnitInv, Unit!ReadsInside, Unit!Inside
  <2>4. CASE callee = "elf"
    <3>1. /\ FormatOf(Now) = "FMT_ELF" /\ base = 0
          /\ elfUnit = Bounded(Now.unit, Now.size)
      BY <2>4 DEF SysInv, AtFile
    <3>2. "limit" \in DOMAIN Now.unit
      BY <2>1, <3>1, ServedFile, ContentsAssumption
    <3>3. elfUnit.limit = Now.size
      BY <3>1, <3>2, BoundedLimit
    <3>4. ASSUME NEW w \in elfReads PROVE base + w.off + w.len <= Now.size
      <4>1. w.off \in Nat /\ w.len \in Nat /\ w.off + w.len <= Now.size
        BY <2>3, <3>3
      <4>2. base + w.off + w.len = w.off + w.len
        BY <3>1, <4>1
      <4> QED
        BY <4>1, <4>2
    <3> QED
      BY <2>2, <2>4, <3>4
  <2>5. CASE callee = "member"
    <3>1. /\ FormatOf(Now) = "FMT_AR" /\ arUnit = Now.image /\ Walk!ArInv
          /\ Ar!Acceptable(arUnit, arOff) /\ Ar!IsElfMember(arUnit, arOff)
          /\ base = Ar!PayloadOff(arOff) /\ elfUnit = MemberUnit(arUnit, arOff)
      BY <2>5 DEF SysInv, AtArchive, AtMember
    <3>2. /\ arOff \in DOMAIN arUnit.header
          /\ Ar!HeaderSize(arUnit, arOff) \in Nat /\ Ar!PayloadOff(arOff) \in Nat
          /\ arUnit.limit \in Nat
          /\ Ar!PayloadOff(arOff) + Ar!HeaderSize(arUnit, arOff) <= arUnit.limit
      BY <3>1, MemberFits
    <3>3. arOff \in ElfHeaders(arUnit)
      BY <3>1, <3>2 DEF ElfHeaders
    <3>4. Now.image.limit = Now.size /\ "limit" \in DOMAIN Ar!Payload(arUnit, arOff).unit
      BY <2>1, <3>1, <3>3, ServedFile, ContentsAssumption
    <3>5. elfUnit.limit = Ar!HeaderSize(arUnit, arOff)
      BY <3>1, <3>4, BoundedLimit DEF MemberUnit
    <3> DEFINE size == Ar!HeaderSize(arUnit, arOff)
    <3>6. size \in Nat /\ base \in Nat /\ Now.size \in Nat /\ base + size <= Now.size
      BY <3>1, <3>2, <3>4
    <3>7. \A w \in elfReads : w.off \in Nat /\ w.len \in Nat /\ w.off + w.len <= size
      BY <2>3, <3>5
    <3> HIDE DEF size
    <3>8. \A w \in elfReads : base + w.off + w.len <= Now.size
      BY <3>6, <3>7
    <3> QED
      BY <2>2, <3>1, <3>7, <3>8 DEF size
  <2> QED
    BY <2>4, <2>5
<1> QED
  BY <1>1, SysInvHolds, PTL

(* The names printed for the members are the writer's, whatever an archive *)
(* listed before has left in the buffers.                                  *)
THEOREM NamesSurviveHolds == System => []NamesSurvive
<1>1. SysInv => NamesSurvive
  BY DEF SysInv, Kept, NamesSurvive
<1> QED
  BY <1>1, SysInvHolds, PTL

-----------------------------------------------------------------------------
(* What comes of a file, and what its contents permit. *)

(* A sequence of increasing places of a finite set is one of its orders. *)
LEMMA InOrderHas ==
  ASSUME NEW S, IsFiniteSet(S), NEW s \in Seq(Nat), Increasing(s), Range(s) \subseteq S
  PROVE  s \in InOrder(S)
<1> DEFINE n == Len(s)
<1>1. n \in Nat /\ DOMAIN s = 1..n /\ s \in [1..n -> Nat] /\ \A k \in 1..n : s[k] \in S
  BY DEF Range
<1>2. s \in [1..n -> S]
  BY <1>1
<1>3. s \in Injection(1..n, S)
  <2>1. ASSUME NEW a \in 1..n, NEW b \in 1..n, s[a] = s[b] PROVE a = b
    <3>1. s[a] \in Nat /\ s[b] \in Nat /\ a \in Nat /\ b \in Nat
      BY <1>1
    <3>2. (a < b => s[a] < s[b]) /\ (b < a => s[b] < s[a])
      BY <1>1 DEF Increasing
    <3> QED
      BY <2>1, <3>1, <3>2
  <2> QED
    BY <1>1, <1>2, <2>1 DEF Injection, IsInjective
<1>4. n <= Cardinality(S) /\ Cardinality(S) \in Nat
  <2> HIDE DEF n
  <2>1. Cardinality(1..n) <= Cardinality(S)
    BY <1>3, FS_Injection
  <2>2. Cardinality(1..n) = n
    <3>1. 1 \in Int /\ n \in Int
      BY <1>1
    <3>2. Cardinality(1..n) = IF 1 > n THEN 0 ELSE n - 1 + 1
      BY <3>1, FS_Interval
    <3> QED
      BY <1>1, <3>2
  <2>3. Cardinality(S) \in Nat
    BY FS_CardinalityType
  <2> QED
    BY <2>1, <2>2, <2>3
<1>5. s \in SeqOf(S, Cardinality(S))
  <2> HIDE DEF n
  <2>1. n \in 0..Cardinality(S)
    BY <1>1, <1>4
  <2> QED
    BY <1>2, <2>1 DEF SeqOf
<1> QED
  BY <1>5 DEF InOrder, Increasing

(* The places of the units of an image, as the walk's proofs name them. *)
LEMMA UnitsOfImage ==
  ASSUME NEW f, f.image \in Images, FormatOf(f) = "FMT_AR", NEW symbols
  PROVE  /\ UnitsOf(f, symbols) =
              {Walk!PayloadOff(f.image.start[k]) :
                 k \in {j \in 1..(Len(f.image.start) - 1) :
                          /\ Walk!IsElfMember(f.image, f.image.start[j])
                          /\ Walk!Payload(f.image, f.image.start[j]).symbols = symbols}}
         /\ IsFiniteSet(UnitsOf(f, symbols))
<1> DEFINE image == f.image
           last == Len(image.start) - 1
           M == {j \in 1..last :
                   /\ Walk!IsElfMember(image, image.start[j])
                   /\ Walk!Payload(image, image.start[j]).symbols = symbols}
           T == {Walk!PayloadOff(image.start[k]) : k \in M}
<1>1. UnitsOf(f, symbols) = T
  BY ImagesSame DEF UnitsOf, Ar!Members
<1>2. IsFiniteSet(T)
  <2>1. last \in Int
    BY WalkAssumptions, Walk!ChainIsLaid
  <2>2. IsFiniteSet(M)
    <3> HIDE DEF last
    <3>1. 1 \in Int /\ IsFiniteSet(1..last)
      BY <2>1, FS_Interval
    <3>2. M \in SUBSET (1..last)
      OBVIOUS
    <3> HIDE DEF M
    <3> QED
      BY <3>1, <3>2, FS_Subset
  <2> DEFINE g == [k \in M |-> Walk!PayloadOff(image.start[k])]
  <2> HIDE DEF M
  <2>3. g \in Surjection(M, T)
    BY DEF Surjection
  <2> HIDE DEF g, T
  <2> QED
    BY <2>2, <2>3, FS_Surjection
<1> QED
  BY <1>1, <1>2

(* What the walk has made of an archive when it is over. *)
WalkOver == SysInv /\ callee = "archive" /\ arPc = "done"

(* The headings printed are those of all units of the image; each unit was *)
(* listed only if it holds symbols, and fails for certain if it is         *)
(* malformed.                                                              *)
LEMMA HeadingsAre ==
  ASSUME WalkOver
  PROVE  /\ Now.image \in Images /\ FormatOf(Now) = "FMT_AR" /\ arUnit = Now.image
         /\ \A n \in DOMAIN arListed : \E s \in {"some", "none", "malformed"} :
              arListed[n].off \in UnitsOf(Now, s) /\ arListed[n].why \in UnitOutcomes(s)
         /\ \A s \in {"some", "none", "malformed"} : \A x \in UnitsOf(Now, s) :
              \E n \in DOMAIN arListed :
                arListed[n].off = x /\ arListed[n].why \in UnitOutcomes(s)
<1>1. /\ pc = "route" /\ FormatOf(Now) = "FMT_AR" /\ arUnit = Now.image /\ Walk!ArInv
      /\ \A n \in DOMAIN arListed :
           arListed[n].why \in UnitOutcomes(arUnit.payload[arListed[n].off].symbols)
  BY DEF WalkOver, SysInv, Calls, AtArchive, Tallied
<1>2. arUnit \in Images
  BY <1>1, ServedFile DEF WalkOver, Images
<1> DEFINE M == {j \in 1..(Len(arUnit.start) - 1) :
                   Walk!IsElfMember(arUnit, arUnit.start[j])}
<1>3. {arListed[n].off : n \in DOMAIN arListed} = {Walk!PayloadOff(arUnit.start[j]) : j \in M}
  BY <1>1 DEF WalkOver, Walk!ArInv, Walk!ListedExactly
<1>4. \A s : UnitsOf(Now, s) =
               {Walk!PayloadOff(arUnit.start[k]) :
                  k \in {j \in M : Walk!Payload(arUnit, arUnit.start[j]).symbols = s}}
  BY <1>1, <1>2, UnitsOfImage
<1>5. \A j \in M : Walk!Payload(arUnit, arUnit.start[j]).symbols \in {"some", "none", "malformed"}
  <2> SUFFICES ASSUME NEW j \in M
               PROVE  Walk!Payload(arUnit, arUnit.start[j]).symbols \in {"some", "none", "malformed"}
    OBVIOUS
  <2>1. Walk!Acceptable(arUnit, arUnit.start[j])
    BY <1>2, WalkAssumptions, Walk!ChainIsLaid
  <2>2. arUnit.start[j] \in DOMAIN arUnit.header
    BY <2>1 DEF Walk!Acceptable
  <2> QED
    BY <1>2, <2>1, <2>2, WalkAssumptions, Walk!ArchiveFacts
<1>6. \A j \in M : Walk!Payload(arUnit, arUnit.start[j]).symbols
                     = arUnit.payload[Walk!PayloadOff(arUnit.start[j])].symbols
  BY DEF Walk!Payload
<1> HIDE DEF M
<1>7. ASSUME NEW n \in DOMAIN arListed
      PROVE  \E s \in {"some", "none", "malformed"} :
               arListed[n].off \in UnitsOf(Now, s) /\ arListed[n].why \in UnitOutcomes(s)
  <2>1. PICK j \in M : arListed[n].off = Walk!PayloadOff(arUnit.start[j])
    BY <1>3
  <2> DEFINE s == Walk!Payload(arUnit, arUnit.start[j]).symbols
  <2>2. s \in {"some", "none", "malformed"} /\ arListed[n].why \in UnitOutcomes(s)
    BY <1>1, <1>5, <1>6, <2>1
  <2>3. arListed[n].off \in UnitsOf(Now, s)
    BY <1>4, <2>1
  <2> QED
    BY <2>2, <2>3
<1>8. ASSUME NEW s \in {"some", "none", "malformed"}, NEW x \in UnitsOf(Now, s)
      PROVE  \E n \in DOMAIN arListed :
               arListed[n].off = x /\ arListed[n].why \in UnitOutcomes(s)
  <2>1. PICK j \in M : /\ Walk!Payload(arUnit, arUnit.start[j]).symbols = s
                       /\ x = Walk!PayloadOff(arUnit.start[j])
    BY <1>4
  <2>2. PICK n \in DOMAIN arListed : arListed[n].off = x
    BY <1>3, <2>1
  <2>3. arListed[n].why \in UnitOutcomes(s)
    BY <1>1, <1>6, <2>1, <2>2
  <2> QED
    BY <2>2, <2>3
<1> QED
  BY <1>1, <1>2, <1>7, <1>8

(* The units listed are units with symbols, in order; and they are all of  *)
(* them, of a sound archive, exactly when nothing has failed.              *)
LEMMA ArchiveYields ==
  ASSUME WalkOver
  PROVE  /\ listing \in InOrder(UnitsOf(Now, "some"))
         /\ arResult = OK <=>
              /\ Sound(Now) /\ Range(listing) = UnitsOf(Now, "some")
              /\ UnitsOf(Now, "malformed") = {}
<1>1. /\ Now.image \in Images /\ FormatOf(Now) = "FMT_AR" /\ arUnit = Now.image
      /\ \A n \in DOMAIN arListed : \E s \in {"some", "none", "malformed"} :
           arListed[n].off \in UnitsOf(Now, s) /\ arListed[n].why \in UnitOutcomes(s)
      /\ \A s \in {"some", "none", "malformed"} : \A x \in UnitsOf(Now, s) :
           \E n \in DOMAIN arListed :
             arListed[n].off = x /\ arListed[n].why \in UnitOutcomes(s)
  BY HeadingsAre
<1>2. /\ Increasing(listing) /\ Range(listing) = ListedAt /\ listing \in Seq(Nat)
  BY DEF WalkOver, SysInv, Tallied, Calls
<1>3. /\ Walk!ListedExactly /\ Walk!VerdictInv
      /\ \A n \in DOMAIN arListed : arListed[n].off \in Nat /\ n \in Nat
  <2>1. Walk!ArInv
    BY DEF WalkOver, SysInv, AtArchive
  <2>2. arListed \in Seq(Walk!Range(arListed)) /\ \A n \in DOMAIN arListed : arListed[n].off \in Nat
    BY <2>1 DEF Walk!ArInv, Walk!TypeInv, Walk!TypeOK
  <2> QED
    BY <2>1, <2>2 DEF Walk!ArInv
<1>4. /\ UnitOutcomes("some") = {"listed", "no_load", "no_sort"}
      /\ UnitOutcomes("none") = {"no_symbols"} /\ UnitOutcomes("malformed") = {"malformed"}
  BY DEF UnitOutcomes
<1>5. ASSUME NEW n \in DOMAIN arListed, NEW m \in DOMAIN arListed,
             arListed[n].off = arListed[m].off
      PROVE  n = m
  <2>1. (n < m => arListed[n].off < arListed[m].off) /\ (m < n => arListed[m].off < arListed[n].off)
    BY <1>3 DEF Walk!ListedExactly
  <2>2. n \in Nat /\ m \in Nat /\ arListed[n].off \in Nat
    BY <1>3
  <2> QED
    BY <1>5, <2>1, <2>2
<1>6. ListedAt \subseteq UnitsOf(Now, "some")
  BY <1>1, <1>4 DEF ListedAt
<1>7. listing \in InOrder(UnitsOf(Now, "some"))
  BY <1>1, <1>2, <1>6, UnitsOfImage, InOrderHas
<1>8. arResult = OK <=> Ar!Intact(arUnit) /\ \A n \in DOMAIN arListed : arListed[n].why \notin UnitFails
  BY <1>3 DEF WalkOver, Walk!VerdictInv, Walk!AllListed, Walk!Intact, Ar!Intact, Walk!UnitFails,
     UnitFails, Walk!OK, OK
<1>9. Sound(Now) <=> Ar!Intact(arUnit)
  BY <1>1 DEF Sound
<1>10. (\A n \in DOMAIN arListed : arListed[n].why \notin UnitFails)
          <=> ListedAt = UnitsOf(Now, "some") /\ UnitsOf(Now, "malformed") = {}
  <2>1. ASSUME \A n \in DOMAIN arListed : arListed[n].why \notin UnitFails
        PROVE  ListedAt = UnitsOf(Now, "some") /\ UnitsOf(Now, "malformed") = {}
    <3>1. ASSUME NEW x \in UnitsOf(Now, "some") PROVE x \in ListedAt
      <4>1. PICK n \in DOMAIN arListed :
              arListed[n].off = x /\ arListed[n].why \in UnitOutcomes("some")
        BY <1>1
      <4>2. arListed[n].why = "listed"
        BY <1>4, <2>1, <4>1 DEF UnitFails
      <4> QED
        BY <4>1, <4>2 DEF ListedAt
    <3>2. ASSUME NEW x \in UnitsOf(Now, "malformed") PROVE FALSE
      <4>1. PICK n \in DOMAIN arListed :
              arListed[n].off = x /\ arListed[n].why \in UnitOutcomes("malformed")
        BY <1>1
      <4> QED
        BY <1>4, <2>1, <4>1 DEF UnitFails
    <3> QED
      BY <1>6, <3>1, <3>2
  <2>2. ASSUME ListedAt = UnitsOf(Now, "some"), UnitsOf(Now, "malformed") = {},
               NEW n \in DOMAIN arListed
        PROVE  arListed[n].why \notin UnitFails
    <3>1. PICK s \in {"some", "none", "malformed"} :
            arListed[n].off \in UnitsOf(Now, s) /\ arListed[n].why \in UnitOutcomes(s)
      BY <1>1
    <3>2. CASE s = "some"
      <4>1. PICK m \in DOMAIN arListed :
              arListed[m].off = arListed[n].off /\ arListed[m].why = "listed"
        BY <2>2, <3>1, <3>2 DEF ListedAt
      <4>2. m = n
        BY <1>5, <4>1
      <4> QED
        BY <4>1, <4>2 DEF UnitFails
    <3>3. CASE s = "none"
      BY <1>4, <3>1, <3>3 DEF UnitFails
    <3>4. CASE s = "malformed"
      BY <2>2, <3>1, <3>4
    <3> QED
      BY <3>2, <3>3, <3>4
  <2> QED
    BY <2>1, <2>2
<1> QED
  BY <1>2, <1>7, <1>8, <1>9, <1>10

-----------------------------------------------------------------------------
(* The steps of the batch. *)

Succeeds == {"listed", "no_symbols"}

(* A path is done with as its contents permit. *)
LEMMA Takes ==
  ASSUME SysInv, pc \in Serving, i <= path_count,
         NEW why \in Whys, Finish(why), argv' = argv,
         NEW b \in Permitted(paths[i]), b.ok <=> why \in Succeeds,
         blocks' = Append(blocks, b.listed)
  PROVE  Batch!Take
<1>1. /\ i \in 1..Len(AskedPaths(argv)) /\ paths[i] = AskedPaths(argv)[i]
      /\ Len(blocks) = i - 1 /\ Wellformed(argv) /\ pc # "exit"
  BY ServedPath DEF SysInv, NmInv, Calls, History, ScannedAll, Serving
<1>2. /\ processed' = Append(processed, Attempt(why)) /\ pc' = "paths"
      /\ processed \in Seq(Attempts)
  BY DEF Finish, SysInv, NmInv, Types
<1>3. /\ Len(processed) \in Nat /\ DOMAIN processed = 1..Len(processed)
      /\ DOMAIN processed' = 1..(Len(processed) + 1)
      /\ \A k \in 1..Len(processed) : processed'[k] = processed[k]
      /\ processed'[Len(processed) + 1].why = why
  <2> DEFINE e == Attempt(why)
             T == Attempts \cup {e}
  <2>1. e.why = why
    BY DEF Attempt
  <2>2. processed \in Seq(T) /\ e \in T /\ processed' = Append(processed, e)
    BY <1>2
  <2> HIDE DEF e, T
  <2>3. /\ Len(processed) \in Nat /\ DOMAIN processed = 1..Len(processed)
        /\ DOMAIN processed' = 1..(Len(processed) + 1)
        /\ \A k \in 1..Len(processed) : processed'[k] = processed[k]
        /\ processed'[Len(processed) + 1] = e
    BY <2>2, Appending
  <2> QED
    BY <2>1, <2>3
<1>4. AnyFailed' <=> AnyFailed \/ ~ b.ok
  <2>1. \A n \in Nat : 1..(n + 1) = 1..n \cup {n + 1}
    OBVIOUS
  <2>2. PICK n, m : /\ DOMAIN processed = 1..n
                    /\ DOMAIN processed' = 1..n \cup {m}
                    /\ \A k \in 1..n : processed'[k] = processed[k]
                    /\ processed'[m].why = why
    BY <1>3, <2>1
  <2>3. AnyFailed' <=> \E k \in DOMAIN processed' : processed'[k].why \notin Succeeds
    BY Zenon DEF AnyFailed, Failed, Succeeds
  <2>4. AnyFailed <=> \E k \in DOMAIN processed : processed[k].why \notin Succeeds
    BY Zenon DEF AnyFailed, Failed, Succeeds
  <2>5. AnyFailed' <=> \E k \in 1..n \cup {m} : processed'[k].why \notin Succeeds
    BY <2>2, <2>3
  <2>6. AnyFailed <=> \E k \in 1..n : processed[k].why \notin Succeeds
    BY <2>2, <2>4
  <2> QED
    <3>1. \A k \in 1..n : processed'[k].why \notin Succeeds <=> processed[k].why \notin Succeeds
      BY <2>2
    <3>2. processed'[m].why \notin Succeeds <=> why \notin Succeeds
      BY <2>2
    <3>3. ~ b.ok <=> why \notin Succeeds
      OBVIOUS
    <3> QED
      BY <2>5, <2>6, <3>1, <3>2, <3>3, Zenon
<1>5. /\ ExitStatus = -1 /\ ExitStatus' = ExitStatus
  BY <1>1, <1>2 DEF ExitStatus
<1>6. Len(blocks) < Len(AskedPaths(argv)) /\ paths[i] = AskedPaths(argv)[Len(blocks) + 1]
  <2>1. Len(AskedPaths(argv)) \in Nat
    BY AskedType DEF SysInv, NmInv, Types
  <2> DEFINE n == Len(AskedPaths(argv))
             m == Len(blocks)
  <2>2. n \in Nat /\ i \in 1..n /\ m = i - 1
    BY <1>1, <2>1
  <2> HIDE DEF n, m
  <2>3. m < n /\ m + 1 = i
    BY <2>2
  <2> QED
    BY <1>1, <2>3 DEF n, m
<1>7. ~ Illformed(argv)
  BY <1>1 DEF Illformed
<1>8. AnyFailed' = (AnyFailed \/ ~ b.ok)
  BY <1>4, Zenon
<1>9. \E c \in Permitted(AskedPaths(argv)[Len(blocks) + 1]) :
        blocks' = Append(blocks, c.listed) /\ AnyFailed' = (AnyFailed \/ ~ c.ok)
  BY <1>6, <1>8, Zenon
<1> QED
  BY <1>5, <1>6, <1>7, <1>9, Zenon DEF Batch!Take

(* Any path may fail before anything of it is listed. *)
LEMMA FailsEarly ==
  ASSUME SysInv, pc \in Serving, i <= path_count,
         NEW why \in Whys \ Succeeds, Finish(why), argv' = argv,
         blocks' = Append(blocks, <<>>)
  PROVE  Batch!Take
<1> DEFINE b == [listed |-> <<>>, ok |-> FALSE]
<1>1. b \in Permitted(paths[i])
  BY DEF Permitted
<1>2. b.ok <=> why \in Succeeds
  OBVIOUS
<1>3. b.listed = <<>>
  OBVIOUS
<1> HIDE DEF b
<1> QED
  BY <1>1, <1>2, <1>3, Takes

(* What Permitted says of a file that is mapped. *)
LEMMA PermittedOf ==
  ASSUME SysInv, pc = "route", FormatOf(Now) \in {"FMT_ELF", "FMT_AR"},
         NEW s \in InOrder(UnitsOf(Now, "some"))
  PROVE  [listed |-> s,
          ok |-> /\ Sound(Now) /\ Range(s) = UnitsOf(Now, "some")
                 /\ UnitsOf(Now, "malformed") = {}] \in Permitted(paths[i])
<1>1. paths[i] \in Holding("FMT_ELF") \cup Holding("FMT_AR") /\ Now = File(paths[i])
  BY ServedFile
<1>2. paths[i] \in DOMAIN Contributions /\ Contributions[paths[i]] = Contributes(Now)
  BY <1>1 DEF Contributions
<1>3. [listed |-> s,
       ok |-> /\ Sound(Now) /\ Range(s) = UnitsOf(Now, "some")
              /\ UnitsOf(Now, "malformed") = {}] \in Contributes(Now)
  BY DEF Contributes
<1> QED
  BY <1>2, <1>3 DEF Permitted

(* What the driver goes on with when the contents of a file were looked at. *)
LEMMA RouteIs ==
  ASSUME SysInv, NEW result, NEW explains, Back(result, explains)
  PROVE  /\ pc = "route" /\ pc \in Serving /\ i <= path_count /\ argv' = argv
         /\ blocks' = Append(blocks, listing)
         /\ \E why \in Outcomes(Now) :
              /\ Finish(why) /\ Agrees(why, result, explains)
              /\ why \in {"malformed", "no_symbols", "listed", "no_load", "no_sort"}
              /\ why \in Whys
<1>1. /\ Route /\ blocks' = Append(blocks, listing)
      /\ Agrees(Last(processed').why, result, explains)
  BY DEF Back
<1>2. pc = "route" /\ argv' = argv
  BY <1>1 DEF Route
<1>3. pc \in Serving /\ i <= path_count
  BY <1>2 DEF SysInv, NmInv, Looping, Serving
<1>4. PICK why \in Outcomes(Now) : Finish(why)
  BY <1>1 DEF Route
<1>5. Last(processed').why = why
  <2>1. processed \in Seq(Attempts) /\ processed' = Append(processed, Attempt(why))
    BY <1>4 DEF Finish, SysInv, NmInv, Types
  <2>2. Attempt(why).why = why
    BY DEF Attempt
  <2> DEFINE e == Attempt(why)
             T == Attempts \cup {e}
  <2>3. processed \in Seq(T) /\ e \in T /\ processed' = Append(processed, e) /\ e.why = why
    BY <2>1, <2>2
  <2> HIDE DEF e, T
  <2>4. Len(processed') = Len(processed) + 1 /\ processed'[Len(processed) + 1] = e
    BY <2>3, Appending
  <2> QED
    BY <2>3, <2>4 DEF Last
<1>6. Now.symbols \in {"some", "none", "malformed", "mixed"}
  BY <1>3, ServedPath, NmAssumption DEF Now, SysInv, NmInv, Types
<1>7. why \in {"malformed", "no_symbols", "listed", "no_load", "no_sort"}
  BY <1>4, <1>6 DEF Outcomes, UnitOutcomes
<1>8. why \in Whys
  BY <1>7 DEF Whys, UnitFails, UnitLogs
<1> QED
  BY <1>1, <1>2, <1>3, <1>4, <1>5, <1>7, <1>8

(* Recording a path changes the history. *)
LEMMA Recorded ==
  ASSUME SysInv, NEW why, Finish(why)
  PROVE  processed' # processed
<1> DEFINE e == Attempt(why)
           T == Attempts \cup {e}
<1>1. processed \in Seq(T) /\ e \in T /\ processed' = Append(processed, e)
  BY DEF SysInv, NmInv, Types, Finish
<1> HIDE DEF e, T
<1>2. Len(processed) \in Nat /\ Len(processed') = Len(processed) + 1
  BY <1>1, Appending
<1> QED
  BY <1>2

(* What the batch does when the driver moves on. *)
LEMMA DriverMaps ==
  ASSUME SysInv, Driver
  PROVE  Batch!Next \/ UNCHANGED Batch!batchVars
<1>1. blocks' = IF processed' = processed THEN blocks ELSE Append(blocks, <<>>)
  BY DEF Driver
<1>2. CASE OpenFails \/ FstatFails \/ EmptyFile \/ MmapFails
  <2>1. PICK why \in {"no_open", "no_fstat", "empty", "no_mmap"} :
          /\ Finish(why) /\ argv' = argv /\ pc \in Serving /\ i <= path_count
    BY <1>2 DEF OpenFails, FstatFails, EmptyFile, MmapFails, InPaths, SysInv, NmInv, Looping,
       Serving
  <2>2. blocks' = Append(blocks, <<>>)
    BY <1>1, <2>1, Recorded
  <2>3. why \in Whys \ Succeeds
    BY <2>1 DEF Whys, Succeeds
  <2>4. Batch!Take
    BY <2>1, <2>2, <2>3, FailsEarly
  <2> QED
    BY <2>4 DEF Batch!Next
<1>3. CASE Exit
  <2>1. /\ pc = "paths" /\ i > path_count /\ pc' = "exit" /\ argv' = argv
        /\ processed' = processed /\ ret' = ret /\ blocks' = blocks
    BY <1>1, <1>3 DEF Exit
  <2>2. /\ paths = AskedPaths(argv) /\ path_count = Len(paths) /\ i \in 1..(path_count + 1)
        /\ Len(blocks) = i - 1 /\ Wellformed(argv) /\ ret \in {0, 1}
        /\ ret = 0 <=> \A k \in DOMAIN processed : ~ Failed(k)
    BY <2>1 DEF SysInv, NmInv, Types, Calls, Looping, History, ScannedAll, Serving
  <2>3. Len(blocks) = Len(AskedPaths(argv))
    <3>1. Len(AskedPaths(argv)) \in Nat
      BY AskedType DEF SysInv, NmInv, Types
    <3> DEFINE n == Len(AskedPaths(argv))
               m == Len(blocks)
    <3>2. n \in Nat /\ n = path_count /\ i \in 1..(n + 1) /\ i > n /\ m = i - 1
      BY <2>1, <2>2, <3>1
    <3> HIDE DEF n, m
    <3>3. m = n
      BY <3>2
    <3> QED
      BY <3>3 DEF n, m
  <2>4. ExitStatus = -1 /\ ExitStatus' = ret
    BY <2>1 DEF ExitStatus
  <2>5. AnyFailed' = AnyFailed
    BY <2>1 DEF AnyFailed, Failed
  <2>6. ret = IF AnyFailed THEN 1 ELSE 0
    BY <2>2 DEF AnyFailed
  <2>7. ~ Illformed(argv)
    BY <2>2 DEF Illformed
  <2>8. ExitStatus' = IF AnyFailed THEN 1 ELSE 0
    BY <2>4, <2>6
  <2>9. Batch!Finish
    BY <2>1, <2>3, <2>4, <2>5, <2>7, <2>8, Zenon DEF Batch!Finish
  <2> QED
    BY <2>9 DEF Batch!Next
<1>4. CASE ScanInvalid \/ AllocFails
  <2>1. /\ pc \in Parsing /\ pc' = "exit" /\ ret' = 1 /\ argv' = argv /\ processed' = processed
        /\ blocks' = blocks
    BY <1>1, <1>4 DEF ScanInvalid, AllocFails, parseVars, Parsing
  <2>2. blocks = <<>>
    <3>1. processed = <<>> /\ blocks \in Seq(Seq(Nat)) /\ Len(blocks) = Len(processed)
      BY <2>1 DEF SysInv, NmInv, Untouched, Calls
    <3> QED
      BY <3>1
  <2>3. ExitStatus = -1 /\ ExitStatus' = 1
    BY <2>1 DEF ExitStatus, Parsing
  <2>4. AnyFailed' = AnyFailed
    BY <2>1 DEF AnyFailed, Failed
  <2>5. Batch!GiveUp
    BY <2>1, <2>2, <2>3, <2>4 DEF Batch!GiveUp
  <2> QED
    BY <2>5 DEF Batch!Next
<1>5. CASE \/ ScanOption \/ ScanPath \/ ScanEnds \/ Alloc \/ CopyPath \/ CopyEnds
           \/ DefaultPath \/ Open \/ Mmap
  <2>1. /\ pc # "exit" /\ pc' # "exit" /\ argv' = argv /\ processed' = processed
    BY <1>5 DEF ScanOption, ScanPath, ScanEnds, Alloc, CopyPath, CopyEnds, DefaultPath, Open,
       Mmap, InPaths, parseVars
  <2>2. ExitStatus = -1 /\ ExitStatus' = -1
    BY <2>1 DEF ExitStatus
  <2>3. AnyFailed' = AnyFailed
    BY <2>1 DEF AnyFailed, Failed
  <2> QED
    BY <1>1, <2>1, <2>2, <2>3 DEF Batch!batchVars
<1> QED
  BY <1>2, <1>3, <1>4, <1>5 DEF Driver

(* A file of no known format. *)
LEMMA UnknownMaps == SysInv /\ Unknown => Batch!Take
<1> SUFFICES ASSUME SysInv, Unknown PROVE Batch!Take
  OBVIOUS
<1>1. Back(FAIL_PATH, TRUE) /\ callee = "none"
  BY DEF Unknown, Calling
<1>2. /\ pc \in Serving /\ i <= path_count /\ argv' = argv
      /\ blocks' = Append(blocks, listing)
  BY <1>1, RouteIs
<1>3. PICK why \in Whys : Finish(why) /\ Agrees(why, FAIL_PATH, TRUE)
  BY <1>1, RouteIs
<1>4. why \notin Succeeds
  BY <1>3 DEF Agrees, Succeeds, UnitFails
<1>5. listing = <<>>
  BY <1>1 DEF SysInv, Calls
<1> QED
  BY <1>2, <1>3, <1>4, <1>5, FailsEarly

(* A file that is a unit. *)
LEMMA ElfMaps == SysInv /\ ElfReturns => Batch!Take
<1> SUFFICES ASSUME SysInv, ElfReturns PROVE Batch!Take
  OBVIOUS
<1>1. Back(elfRet, Explains) /\ callee = "elf" /\ elfPc = "done"
  BY DEF ElfReturns
<1>2. /\ pc = "route" /\ pc \in Serving /\ i <= path_count /\ argv' = argv
      /\ blocks' = Append(blocks, listing)
  BY <1>1, RouteIs
<1>3. PICK why \in Outcomes(Now) :
        /\ Finish(why) /\ Agrees(why, elfRet, Explains) /\ why \in Whys
        /\ why \in {"malformed", "no_symbols", "listed", "no_load", "no_sort"}
  BY <1>1, RouteIs
<1>4. /\ FormatOf(Now) = "FMT_ELF" /\ Unit!UnitInv
      /\ listing = IF elfListed THEN <<0>> ELSE <<>>
  BY <1>1 DEF SysInv, AtFile, Running
<1>5. elfListed <=> why = "listed"
  BY <1>1, <1>3, <1>4, OutcomeTells
<1>6. Now.symbols \in {"some", "none", "malformed", "mixed"}
  BY <1>2, ServedPath, NmAssumption DEF Now, SysInv, NmInv, Types
<1>7. /\ why = "listed" => Now.symbols = "some"
      /\ why = "no_symbols" => Now.symbols \in {"none", "mixed"}
  BY <1>3, <1>4, <1>6 DEF Outcomes, UnitOutcomes, FormatOf
<1>8. CASE why = "listed"
  <2>1. UnitsOf(Now, "some") = {0} /\ UnitsOf(Now, "malformed") = {} /\ Sound(Now)
    BY <1>4, <1>7, <1>8 DEF UnitsOf, Sound
  <2>2. listing = <<0>>
    BY <1>4, <1>5, <1>8
  <2>3. Range(<<0>>) = {0} /\ <<0>> \in Seq(Nat) /\ Increasing(<<0>>)
    BY DEF Range, Increasing
  <2>4. <<0>> \in InOrder({0})
    BY <2>3, InOrderHas, FS_Singleton
  <2> DEFINE b == [listed |-> <<0>>,
                   ok |-> /\ Sound(Now) /\ Range(<<0>>) = UnitsOf(Now, "some")
                          /\ UnitsOf(Now, "malformed") = {}]
  <2>5. b \in Permitted(paths[i])
    BY <1>2, <1>4, <2>1, <2>4, PermittedOf
  <2>6. b.ok <=> why \in Succeeds
    BY <1>8, <2>1, <2>3 DEF Succeeds
  <2>7. b.listed = <<0>>
    OBVIOUS
  <2> HIDE DEF b
  <2> QED
    BY <1>2, <1>3, <2>2, <2>5, <2>6, <2>7, Takes
<1>9. CASE why = "no_symbols"
  <2>1. UnitsOf(Now, "some") = {} /\ UnitsOf(Now, "malformed") = {} /\ Sound(Now)
    BY <1>4, <1>7, <1>9 DEF UnitsOf, Sound
  <2>2. listing = <<>>
    BY <1>4, <1>5, <1>9
  <2>3. Range(<<>>) = {} /\ <<>> \in Seq(Nat) /\ Increasing(<<>>)
    BY DEF Range, Increasing
  <2>4. <<>> \in InOrder({})
    BY <2>3, InOrderHas, FS_EmptySet
  <2> DEFINE b == [listed |-> <<>>,
                   ok |-> /\ Sound(Now) /\ Range(<<>>) = UnitsOf(Now, "some")
                          /\ UnitsOf(Now, "malformed") = {}]
  <2>5. b \in Permitted(paths[i])
    BY <1>2, <1>4, <2>1, <2>4, PermittedOf
  <2>6. b.ok <=> why \in Succeeds
    BY <1>9, <2>1, <2>3 DEF Succeeds
  <2>7. b.listed = <<>>
    OBVIOUS
  <2> HIDE DEF b
  <2> QED
    BY <1>2, <1>3, <2>2, <2>5, <2>6, <2>7, Takes
<1>10. CASE why \notin Succeeds
  <2>1. listing = <<>>
    BY <1>4, <1>5, <1>10 DEF Succeeds
  <2> QED
    BY <1>2, <1>3, <1>10, <2>1, FailsEarly
<1> QED
  BY <1>8, <1>9, <1>10 DEF Succeeds

(* An archive. *)
LEMMA ArchiveMaps == SysInv /\ ArchiveReturns => Batch!Take
<1> SUFFICES ASSUME SysInv, ArchiveReturns PROVE Batch!Take
  OBVIOUS
<1>1. Back(arResult, arLogged # {}) /\ callee = "archive" /\ arPc = "done"
  BY DEF ArchiveReturns
<1>2. /\ pc = "route" /\ pc \in Serving /\ i <= path_count /\ argv' = argv
      /\ blocks' = Append(blocks, listing)
  BY <1>1, RouteIs
<1>3. PICK why \in Whys :
        /\ Finish(why) /\ Agrees(why, arResult, arLogged # {})
        /\ why \in {"malformed", "no_symbols", "listed", "no_load", "no_sort"}
  BY <1>1, RouteIs
<1>4. WalkOver /\ FormatOf(Now) = "FMT_AR" /\ arResult \in {OK, FAIL_PATH}
  <2>1. FormatOf(Now) = "FMT_AR" /\ Walk!ArInv
    BY <1>1 DEF SysInv, AtArchive
  <2> QED
    BY <1>1, <2>1 DEF WalkOver, Walk!ArInv, Walk!TypeInv, Walk!TypeOK, Walk!OK, OK,
       Walk!FAIL_PATH, FAIL_PATH
<1>5. why \in Succeeds <=> arResult = OK
  <2>1. why \in Succeeds <=> why \notin UnitFails
    BY <1>3 DEF Succeeds, UnitFails
  <2>2. why \in UnitFails <=> arResult = FAIL_PATH
    BY <1>3 DEF Agrees
  <2> QED
    BY <1>4, <2>1, <2>2 DEF OK, FAIL_PATH
<1> DEFINE b == [listed |-> listing,
                 ok |-> /\ Sound(Now) /\ Range(listing) = UnitsOf(Now, "some")
                        /\ UnitsOf(Now, "malformed") = {}]
<1>6. b \in Permitted(paths[i])
  BY <1>2, <1>4, ArchiveYields, PermittedOf
<1>7. b.ok <=> why \in Succeeds
  BY <1>4, <1>5, ArchiveYields
<1>8. b.listed = listing
  OBVIOUS
<1> HIDE DEF b
<1> QED
  BY <1>2, <1>3, <1>6, <1>7, <1>8, Takes

(* Every step of the program is one of the batch or changes nothing of it. *)
LEMMA StepMaps == SysInv /\ [SystemNext]_sysVars => [Batch!Next]_(Batch!batchVars)
<1> SUFFICES ASSUME SysInv, [SystemNext]_sysVars
             PROVE  Batch!Next \/ UNCHANGED Batch!batchVars
  OBVIOUS
<1>1. CASE CallElf \/ CallArchive \/ ArchiveStep \/ CallMember \/ UnitStep \/ MemberReturns
           \/ UNCHANGED sysVars
  <2>1. UNCHANGED vars /\ blocks' = blocks
    BY <1>1 DEF CallElf, CallArchive, ArchiveStep, CallMember, UnitStep, MemberReturns,
       EnterUnit, sysVars
  <2>2. argv' = argv /\ pc' = pc /\ ret' = ret /\ processed' = processed
    BY <2>1 DEF vars
  <2>3. ExitStatus' = ExitStatus /\ AnyFailed' = AnyFailed
    BY <2>2 DEF ExitStatus, AnyFailed, Failed
  <2> QED
    BY <2>1, <2>2, <2>3 DEF Batch!batchVars
<1>2. CASE Unknown \/ ElfReturns \/ ArchiveReturns
  BY <1>2, UnknownMaps, ElfMaps, ArchiveMaps DEF Batch!Next
<1> QED
  BY <1>1, <1>2, DriverMaps DEF SystemNext, Stop

(* The program begins where the batch begins. *)
LEMMA InitMaps == SystemInit => Batch!Init
<1> SUFFICES ASSUME SystemInit PROVE Batch!Init
  OBVIOUS
<1>1. argv \in ArgVectors /\ pc = "scan" /\ processed = <<>> /\ blocks = <<>>
  BY DEF SystemInit, Init
<1>2. AnyFailed = FALSE
  BY <1>1 DEF AnyFailed
<1>3. ExitStatus = -1
  BY <1>1 DEF ExitStatus
<1> QED
  BY <1>1, <1>2, <1>3 DEF Batch!Init

(* The program does what the batch promises, as far as safety goes. *)
THEOREM BatchImplemented == System => Batch!Safe
BY InitMaps, StepMaps, SysInvHolds, PTL DEF System, Batch!Safe
=============================================================================
