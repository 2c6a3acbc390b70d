------------------------------- MODULE NmSystem -------------------------------
(***************************************************************************)
(* The program as a whole: Nm calls ArParser and ElfParser, and ArParser   *)
(* calls ElfParser, each with its own state.  A caller goes on only with   *)
(* the outcome its callee has computed from the contents of the file; the  *)
(* label "symbols" of a file or member is only what that must agree with.  *)
(*                                                                         *)
(* A file has, besides the fields of Nm, its unit (magic "ELF") or its     *)
(* image (magic "AR"); a payload has, besides those of ArParser, its unit. *)
(***************************************************************************)
EXTENDS Nm

CONSTANTS NameField, LongNameBuf

VARIABLES
  callee,  \* what runs on behalf of process_path: "none", "elf", "archive",
           \* or "member" (an ELF unit on behalf of the archive)
  base,    \* the offset of the unit's base in the mapping
  listing, \* history: the offsets of the units of this path listed so far
  blocks,  \* history: for each path tried, the offsets of the units listed
  arUnit, arPc, arOff, arStrtab, arBufs, arResult, arListed, arLogged,
  elfUnit, elfPc, elfI, elfSymtab, elfCount, elfSymbols, elfCache, elfHeap,
  elfReads, elfListed, elfLogged, elfRet

arVars  == <<arUnit, arPc, arOff, arStrtab, arBufs, arResult, arListed, arLogged>>
elfVars == <<elfUnit, elfPc, elfI, elfSymtab, elfCount, elfSymbols, elfCache,
             elfHeap, elfReads, elfListed, elfLogged, elfRet>>
sysVars == <<vars, callee, base, listing, blocks, arVars, elfVars>>

FormatOf(f) == DetectFormat(f.magic, f.size)
Mappable(f) == f.exists /\ f.readable /\ f.size # 0

Paths == {AOut} \cup UNION {Range(args) : args \in ArgVectors}
Holding(format) == {p \in Paths : Mappable(File(p)) /\ FormatOf(File(p)) = format}
Images == {File(p).image : p \in Holding("FMT_AR")}

Ar == INSTANCE ArParser WITH
        Archives <- Images, unit <- arUnit, pc <- arPc, member_off <- arOff,
        strtab <- arStrtab, bufs <- arBufs, result <- arResult,
        listed <- arListed, logged <- arLogged

(* The unit process_elf_unit is given: so many bytes of a file. *)
Bounded(content, limit) == [content EXCEPT !.limit = limit]

MemberUnit(image, off) ==
  Bounded(Ar!Payload(image, off).unit, Ar!HeaderSize(image, off))

ElfHeaders(image) ==
  {off \in DOMAIN image.header :
     Ar!Acceptable(image, off) /\ Ar!IsElfMember(image, off)}

ElfUnits ==
  {Bounded(File(p).unit, File(p).size) : p \in Holding("FMT_ELF")} \cup
  UNION {{MemberUnit(image, off) : off \in ElfHeaders(image)} : image \in Images}

Elf == INSTANCE ElfParser WITH
         Units <- ElfUnits, unit <- elfUnit, pc <- elfPc, i <- elfI,
         symtab <- elfSymtab, sym_count <- elfCount, symbols <- elfSymbols,
         cache <- elfCache, heap <- elfHeap, reads <- elfReads,
         listed <- elfListed, logged <- elfLogged, ret <- elfRet

(* What the mapped files hold, as the parts expect it: an image of the     *)
(* file's size, and units that have a size.                                *)
ASSUME ContentsAssumption ==
  /\ \A p \in Holding("FMT_ELF") : "limit" \in DOMAIN File(p).unit
  /\ \A p \in Holding("FMT_AR") :
       LET image == File(p).image
       IN  /\ image.limit = File(p).size
           /\ Ar!ImageOK(image)
           /\ \A off \in ElfHeaders(image) :
                "limit" \in DOMAIN Ar!Payload(image, off).unit
  /\ \A u \in ElfUnits : Elf!UnitOK(u)
  /\ NameField \in Nat /\ LongNameBuf \in Nat
  /\ 2 <= NameField /\ NameField <= LongNameBuf

SystemInit ==
  /\ Init
  /\ callee = "none" /\ base = 0 /\ listing = <<>> /\ blocks = <<>>
  /\ arUnit = <<>> /\ arPc = "done" /\ arOff = 0 /\ arStrtab = Ar!NoTable
  /\ arBufs = [short |-> [n \in 1..(NameField + 1) |-> Ar!NUL],
               long  |-> [n \in 1..LongNameBuf |-> Ar!NUL]]
  /\ arResult = OK /\ arListed = <<>> /\ arLogged = {}
  /\ elfUnit = <<>> /\ elfPc = "done"
  /\ elfI = 0 /\ elfSymtab = 0 /\ elfCount = 0 /\ elfSymbols = <<>>
  /\ elfCache = <<>> /\ elfHeap = {} /\ elfReads = {}
  /\ elfListed = FALSE /\ elfLogged = <<>> /\ elfRet = "none"

(* An outcome against a result and whether there was a diagnostic. *)
Agrees(why, result, explains) ==
  /\ why \in UnitFails <=> result = FAIL_PATH
  /\ why \in UnitLogs <=> explains

-----------------------------------------------------------------------------
(* main and process_path up to the call: no file's contents are looked at. *)
Driver ==
  /\ \/ ScanOption \/ ScanInvalid \/ ScanPath \/ ScanEnds \/ AllocFails \/ Alloc
     \/ CopyPath \/ CopyEnds \/ DefaultPath
     \/ OpenFails \/ Open \/ FstatFails \/ EmptyFile \/ MmapFails \/ Mmap \/ Exit
  /\ blocks' = IF processed' = processed THEN blocks ELSE Append(blocks, <<>>)
  /\ UNCHANGED <<callee, base, listing, arVars, elfVars>>

Calling(format) == pc = "route" /\ callee = "none" /\ FormatOf(Now) = format

(* process_elf_unit is entered on a unit of which limit bytes are handed   *)
(* over.                                                                   *)
EnterUnit(who, content, from, limit) ==
  /\ callee' = who
  /\ base' = from
  /\ elfUnit' = Bounded(content, limit)
  /\ elfPc' = "verify"
  /\ elfI' = 0 /\ elfSymtab' = 0 /\ elfCount' = 0
  /\ elfSymbols' = <<>> /\ elfCache' = <<>>
  /\ elfHeap' = {} /\ elfReads' = {}
  /\ elfListed' = FALSE /\ elfLogged' = <<>> /\ elfRet' = "none"
  /\ UNCHANGED <<vars, listing, blocks, arVars>>

CallElf == Calling("FMT_ELF") /\ EnterUnit("elf", Now.unit, 0, Now.size)

(* The static buffers keep the names of the archive before. *)
CallArchive ==
  /\ Calling("FMT_AR")
  /\ callee' = "archive"
  /\ arUnit' = Now.image
  /\ arPc' = "loop" /\ arOff' = SARMAG /\ arStrtab' = Ar!NoTable
  /\ arResult' = OK /\ arListed' = <<>> /\ arLogged' = {}
  /\ UNCHANGED <<vars, base, listing, blocks, arBufs, elfVars>>

ArchiveStep ==
  /\ callee = "archive"
  /\ Ar!NameTable \/ Ar!SymbolIndex \/ Ar!OtherMember \/ Ar!LeaveLoop \/ Ar!Return
  /\ UNCHANGED <<vars, callee, base, listing, blocks, elfVars>>

AtElfMember ==
  /\ callee = "archive" /\ arPc = "loop" /\ arOff < arUnit.limit
  /\ Ar!Acceptable(arUnit, arOff) /\ Ar!IsElfMember(arUnit, arOff)

Payload == Ar!Payload(arUnit, arOff)

(* Mutant: the unit ends where the archive ends. *)
CallMemberUnbounded ==
  /\ AtElfMember
  /\ EnterUnit("member", Payload.unit, Ar!PayloadOff(arOff),
               arUnit.limit - Ar!PayloadOff(arOff))

(* The member's heading is printed, and its unit looked at. *)
CallMember ==
  /\ AtElfMember
  /\ EnterUnit("member", Payload.unit, Ar!PayloadOff(arOff),
               Ar!HeaderSize(arUnit, arOff))

UnitStep ==
  /\ callee \in {"elf", "member"}
  /\ elfPc # "done" /\ Elf!Next
  /\ listing' = IF elfListed' THEN Append(listing, base) ELSE listing
  /\ UNCHANGED <<vars, callee, base, blocks, arVars>>

Explains == elfLogged # <<>>

(* The archive goes on with what came of the unit. *)
MemberReturns ==
  /\ callee = "member" /\ elfPc = "done"
  /\ Ar!ElfMember
  /\ Agrees(Last(arListed').why, elfRet, Explains)
  /\ callee' = "archive"
  /\ UNCHANGED <<vars, base, listing, blocks, elfVars>>

(* process_path goes on: main's ret, munmap and close. *)
Back(result, explains) ==
  /\ Route
  /\ Agrees(Last(processed').why, result, explains)
  /\ callee' = "none"
  /\ blocks' = Append(blocks, listing)
  /\ listing' = <<>>
  /\ UNCHANGED <<base, arVars, elfVars>>

Unknown == Calling("FMT_UNKNOWN") /\ Back(FAIL_PATH, TRUE)

ElfReturns ==
  /\ callee = "elf" /\ elfPc = "done"
  /\ Back(elfRet, Explains)

ArchiveReturns ==
  /\ callee = "archive" /\ arPc = "done"
  /\ Back(arResult, arLogged # {})

Stop == pc = "exit" /\ UNCHANGED sysVars

SystemNext ==
  \/ Driver \/ CallElf \/ CallArchive \/ ArchiveStep \/ CallMember \/ UnitStep
  \/ MemberReturns \/ Unknown \/ ElfReturns \/ ArchiveReturns \/ Stop

System == SystemInit /\ [][SystemNext]_sysVars /\ WF_sysVars(SystemNext)

-----------------------------------------------------------------------------
(* Properties. *)

(* What the contents of a file permit.                                     *)

(* The places of the units that hold symbols of this kind, in front of any *)
(* damage, and whether there is none.                                      *)
UnitsOf(f, symbols) ==
  IF FormatOf(f) = "FMT_ELF" THEN IF f.symbols = symbols THEN {0} ELSE {}
  ELSE {Ar!PayloadOff(f.image.start[k]) :
          k \in {j \in Ar!Members(f.image) :
                   /\ Ar!IsElfMember(f.image, f.image.start[j])
                   /\ Ar!Payload(f.image, f.image.start[j]).symbols = symbols}}

Sound(f) == FormatOf(f) = "FMT_AR" => Ar!Intact(f.image)

InOrder(S) == {s \in SeqOf(S, Cardinality(S)) : \A a, b \in DOMAIN s : a < b => s[a] < s[b]}

(* Memory may fail for any of the units: those listed, in order, and       *)
(* whether all went well.                                                  *)
Contributes(f) ==
  {[listed |-> s, ok |-> /\ Sound(f) /\ Range(s) = UnitsOf(f, "some")
                         /\ UnitsOf(f, "malformed") = {}] :
     s \in InOrder(UnitsOf(f, "some"))}

Contributions ==
  [p \in Holding("FMT_ELF") \cup Holding("FMT_AR") |-> Contributes(File(p))]

(* Any system call may fail on any path. *)
Permitted(path) ==
  {[listed |-> <<>>, ok |-> FALSE]} \cup
  (IF path \in DOMAIN Contributions THEN Contributions[path] ELSE {})

AnyFailed  == \E k \in DOMAIN processed : Failed(k)
ExitStatus == IF pc = "exit" THEN ret ELSE -1
Illformed(args) == ~ Wellformed(args)

Batch == INSTANCE NmBatch WITH
           Asked <- AskedPaths, Refused <- Illformed,
           failed <- AnyFailed, status <- ExitStatus

(* The program implements the batch: whatever fails on the way down to a   *)
(* symbol of a member, every path yields the listings of its sound units,  *)
(* in order, the exit status tells of every failure and of nothing else,   *)
(* and the program ends.                                                   *)
ImplementsBatch == Batch!Spec

(* A unit is read only while its file is mapped, and only inside the       *)
(* mapping; an archive's member only inside the payload of the header the  *)
(* walk stands on.                                                         *)
ReadsInMapping ==
  callee \in {"elf", "member"} =>
    /\ map
    /\ \A w \in elfReads : base + w.off + w.len <= Now.size
    /\ callee = "member" =>
         /\ base = Ar!PayloadOff(arOff)
         /\ \A w \in elfReads : w.off + w.len <= Ar!HeaderSize(arUnit, arOff)

(* The names printed for the members of an archive are those of its writer *)
(* although the buffers still hold the names of an archive listed before.  *)
NamesSurvive == arListed # <<>> => Ar!NamesAsWritten
=============================================================================
