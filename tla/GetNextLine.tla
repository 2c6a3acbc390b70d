----------------------------- MODULE GetNextLine -----------------------------
(***************************************************************************)
(* get_next_line of libft: the variant with one backup ("plain", in        *)
(* get_next_line.c) and the one with a backup per descriptor ("bonus", in  *)
(* get_next_line_bonus.c), reading from descriptors that may deliver less  *)
(* than was asked for, fail for a time, or run out of memory on the way.   *)
(*                                                                         *)
(* A text is a sequence of characters without NUL; NULL is no text.        *)
(***************************************************************************)
EXTENDS Integers, SequencesExt

CONSTANTS
  Variants,      \* the variants, a subset of {"plain", "bonus"}
  Fds,           \* the descriptors asked for, 0 among them
  Texts,         \* what a descriptor may hold
  BUFFER_SIZE,
  MaxCalls,      \* bound on the calls
  MaxErrors,     \* bound on the reads that fail
  MaxOoms        \* bound on the allocations that fail

ASSUME GnlAssumption ==
  /\ Variants \subseteq {"plain", "bonus"}
  /\ Fds \subseteq Int /\ 0 \in Fds
  /\ \A t \in Texts : t \in Seq(STRING \ {"NULL"})
  /\ BUFFER_SIZE \in Nat \ {0}
  /\ {MaxCalls, MaxErrors, MaxOoms} \subseteq Nat

NL   == "\n"
NULL == <<"NULL">>

VARIABLES
  variant,
  text,       \* what each descriptor holds
  off,        \* how much of it has been read
  backup,     \* by slot: what was read and not returned, or NULL
  pc,         \* "idle", "buffer", "first", "dup", "more", "join", "head",
              \* "rest", "crashed"
  fd,         \* of the call
  buf,        \* what the last read brought
  read_len,   \* what it returned; ft_read_file's result
  gnl,        \* the line, while the rest is put back
  lines,      \* history: the lines returned for each descriptor
  answer,     \* what the last call returned
  calls, errors, ooms

vars == <<variant, text, off, backup, pc, fd, buf, read_len, gnl, lines, answer,
          calls, errors, ooms>>

FdOK(f) == f \in 0..1023
Open    == {f \in Fds : FdOK(f)}

(* The plain variant keeps the rest of every descriptor in one place. *)
Slot(f) == IF variant = "plain" THEN 0 ELSE f
Kept    == backup[Slot(fd)]
Keep(t) == backup' = [backup EXCEPT ![Slot(fd)] = t]

(* The position of the first newline, in C's counting; the length when     *)
(* there is none.                                                          *)
FirstNewline(str) ==
  CHOOSE n \in 0..Len(str) :
    /\ n = Len(str) \/ str[n + 1] = NL
    /\ \A m \in 1..n : str[m] # NL

(* ft_new_line: 1 for a newline in front as for one behind a character.    *)
FtNewLine(str, len) ==
  LET n == FirstNewline(str)
  IN  IF str # <<>> /\ str[1] = NL THEN 1
      ELSE IF n = Len(str) /\ len # 0 THEN 0 ELSE n

(* ft_get_head: how many characters the line has.  At the end of a file    *)
(* position 1 may mean a last line of one character.                       *)
HeadLenPlain(str, re_frf) ==
  LET i == FtNewLine(str, re_frf)
  IN  IF i = 1 /\ (str[1] = NL \/ re_frf = 0) THEN 1 ELSE i + 1

(* Mutant: an empty line is not told apart. *)
HeadLenBonusLong(str, re_frf) ==
  LET i == FtNewLine(str, re_frf)
  IN  IF i = 1 /\ re_frf = 0 /\ Len(str) = 1 THEN 1 ELSE i + 1

HeadLenBonus(str, re_frf) ==
  LET i == FtNewLine(str, re_frf)
  IN  IF i = 1 /\ (str[1] = NL \/ (re_frf = 0 /\ Len(str) = 1)) THEN 1 ELSE i + 1

HeadLen(str, re_frf) ==
  IF variant = "plain" THEN HeadLenPlain(str, re_frf) ELSE HeadLenBonus(str, re_frf)

(* ft_gnl_strdup and ft_gnl_substr, when memory lasts. *)
FtGnlStrdup(str, len)   == IF len < Len(str) THEN SubSeq(str, 1, len) ELSE str
FtGnlSubstr(str, start) == SubSeq(str, start + 1, Len(str))

(* malloc fails. *)
Oom == ooms < MaxOoms /\ ooms' = ooms + 1

(* A null pointer is followed. *)
Crash ==
  /\ pc' = "crashed"
  /\ UNCHANGED <<variant, text, off, fd, buf, read_len, gnl, lines, answer, calls,
                 errors>>

Init ==
  /\ variant \in Variants
  /\ text \in [Open -> Texts]
  /\ off = [f \in Open |-> 0]
  /\ backup = [f \in Open \cup {0} |-> NULL]
  /\ pc = "idle"
  /\ fd = 0
  /\ buf = <<>> /\ read_len = 0 /\ gnl = NULL
  /\ lines = [f \in Open |-> <<>>]
  /\ answer = <<>>
  /\ calls = 0 /\ errors = 0 /\ ooms = 0

(* A program links one variant; the plain one is for one descriptor.       *)
Callable(f) == variant = "bonus" \/ ~ FdOK(f) \/ f = 0

Return(line) ==
  /\ answer' = line
  /\ lines' = IF line = NULL THEN lines ELSE [lines EXCEPT ![fd] = Append(@, line)]
  /\ pc' = "idle"

(* Descriptors out of range are refused. *)
CallRefused ==
  /\ pc = "idle" /\ calls < MaxCalls
  /\ \E f \in Fds : ~ FdOK(f) /\ fd' = f
  /\ calls' = calls + 1
  /\ answer' = NULL
  /\ UNCHANGED <<variant, text, off, backup, pc, buf, read_len, gnl, lines,
                 errors, ooms>>

(* The bonus variant reads only when it keeps no whole line: ft_new_line   *)
(* with a length that is not 0.                                            *)
Call ==
  /\ pc = "idle" /\ calls < MaxCalls
  /\ \E f \in Open :
       /\ Callable(f)
       /\ fd' = f
       /\ pc' = IF variant = "bonus" /\ backup[f] # NULL /\ FtNewLine(backup[f], 10) # 0
                THEN "head" ELSE "buffer"
  /\ calls' = calls + 1
  /\ read_len' = 0
  /\ UNCHANGED <<variant, text, off, backup, buf, gnl, lines, answer, errors, ooms>>

-----------------------------------------------------------------------------
(* ft_read_file. *)

(* Mutant: what was read first is joined to nothing. *)
BufferJoins ==
  /\ pc = "buffer"
  /\ pc' = "more"
  /\ UNCHANGED <<variant, text, off, backup, fd, buf, read_len, gnl, lines, answer,
                 calls, errors, ooms>>

Buffer ==
  /\ pc = "buffer"
  /\ pc' = IF Kept = NULL THEN "first" ELSE "more"
  /\ UNCHANGED <<variant, text, off, backup, fd, buf, read_len, gnl, lines, answer,
                 calls, errors, ooms>>

(* Without a buffer the file seems to have ended. *)
BufferFails ==
  /\ pc = "buffer" /\ Oom
  /\ pc' = "head"
  /\ UNCHANGED <<variant, text, off, backup, fd, buf, read_len, gnl, lines, answer,
                 calls, errors>>

Reading == pc \in {"first", "more"}

Then == pc' = IF pc = "first" THEN "dup" ELSE "join"

(* ft_read_sub: anything from one character to a full buffer; nothing at   *)
(* the end of the file.                                                    *)
Read ==
  /\ Reading
  /\ LET left == Len(text[fd]) - off[fd]
         most == IF left < BUFFER_SIZE THEN left ELSE BUFFER_SIZE
     IN  \E n \in (IF left = 0 THEN {0} ELSE 1..most) :
           /\ buf' = SubSeq(text[fd], off[fd] + 1, off[fd] + n)
           /\ off' = [off EXCEPT ![fd] = @ + n]
           /\ read_len' = n
  /\ Then
  /\ UNCHANGED <<variant, text, backup, fd, gnl, lines, answer, calls, errors, ooms>>

(* Mutant: the buffer is not cleared. *)
ReadFailsDirty ==
  /\ Reading /\ errors < MaxErrors
  /\ read_len' = -1
  /\ errors' = errors + 1
  /\ Then
  /\ UNCHANGED <<variant, text, off, backup, fd, buf, gnl, lines, answer, calls, ooms>>

(* The buffer is cleared before each read. *)
ReadFails ==
  /\ Reading /\ errors < MaxErrors
  /\ buf' = <<>>
  /\ read_len' = -1
  /\ errors' = errors + 1
  /\ Then
  /\ UNCHANGED <<variant, text, off, backup, fd, gnl, lines, answer, calls, ooms>>

Dup ==
  /\ pc = "dup"
  /\ Keep(buf)
  /\ pc' = IF FtNewLine(buf, read_len) # 0 \/ (read_len <= 0 /\ buf = <<>>)
           THEN "head" ELSE "more"
  /\ UNCHANGED <<variant, text, off, fd, buf, read_len, gnl, lines, answer, calls,
                 errors, ooms>>

(* ft_new_line takes a null pointer in the bonus variant only, and the     *)
(* test behind it follows that pointer at the end of a file.               *)
DupFails ==
  /\ pc = "dup" /\ Oom
  /\ Keep(NULL)
  /\ IF variant = "plain" \/ read_len <= 0 THEN Crash
     ELSE /\ pc' = "more"
          /\ UNCHANGED <<variant, text, off, fd, buf, read_len, gnl, lines, answer,
                         calls, errors>>

(* A failed read behind a part of a line is made again. *)
Join ==
  /\ pc = "join" /\ Kept # NULL
  /\ Keep(Kept \o buf)
  /\ pc' = IF FtNewLine(Kept \o buf, read_len) # 0 THEN "head" ELSE "more"
  /\ UNCHANGED <<variant, text, off, fd, buf, read_len, gnl, lines, answer, calls,
                 errors, ooms>>

(* The plain variant looks at the missing copy; the bonus variant has lost *)
(* what it kept and reads on.                                              *)
JoinFails ==
  /\ pc = "join" /\ Kept # NULL /\ Oom
  /\ Keep(NULL)
  /\ IF variant = "plain" THEN Crash
     ELSE /\ pc' = "first"
          /\ UNCHANGED <<variant, text, off, fd, buf, read_len, gnl, lines, answer,
                         calls, errors>>

(* ft_gnl_strjoin, and the test of get_next_line, on nothing kept. *)
FollowsNull ==
  /\ pc \in {"join", "head"} /\ Kept = NULL
  /\ Crash
  /\ UNCHANGED <<backup, ooms>>

-----------------------------------------------------------------------------
(* get_next_line and ft_get_head. *)

Nothing == read_len <= 0 /\ Kept = <<>>

(* Mutant: an empty backup is kept. *)
EndOfFileKept ==
  /\ pc = "head" /\ Nothing
  /\ Return(NULL)
  /\ UNCHANGED <<variant, text, off, backup, fd, buf, read_len, gnl, calls, errors,
                 ooms>>

EndOfFile ==
  /\ pc = "head" /\ Nothing
  /\ Keep(NULL)
  /\ Return(NULL)
  /\ UNCHANGED <<variant, text, off, fd, buf, read_len, gnl, calls, errors, ooms>>

TakeLine ==
  /\ pc = "head" /\ Kept # NULL /\ ~ Nothing
  /\ \/ /\ gnl' = FtGnlStrdup(Kept, HeadLen(Kept, read_len))
        /\ UNCHANGED ooms
     \/ Oom /\ gnl' = NULL   \* the line is lost
  /\ pc' = "rest"
  /\ UNCHANGED <<variant, text, off, backup, fd, buf, read_len, lines, answer,
                 calls, errors>>

(* An empty rest is freed. *)
PutBack ==
  /\ pc = "rest"
  /\ LET rest == FtGnlSubstr(Kept, HeadLen(Kept, read_len))
     IN  Keep(IF rest = <<>> THEN NULL ELSE rest)
  /\ Return(gnl)
  /\ gnl' = NULL
  /\ UNCHANGED <<variant, text, off, fd, buf, read_len, calls, errors, ooms>>

(* The missing copy is looked at. *)
PutBackFails == pc = "rest" /\ Oom /\ Keep(NULL) /\ Crash

Done ==
  /\ pc = "crashed" \/ (pc = "idle" /\ calls = MaxCalls)
  /\ UNCHANGED vars

Next ==
  \/ CallRefused \/ Call \/ Buffer \/ BufferFails \/ Read \/ ReadFails
  \/ Dup \/ DupFails \/ Join \/ JoinFails \/ FollowsNull
  \/ EndOfFile \/ TakeLine \/ PutBack \/ PutBackFails \/ Done

Spec == Init /\ [][Next]_vars /\ WF_vars(Next)

-----------------------------------------------------------------------------
(* Properties. *)

Part(f) == {SubSeq(text[f], m, n) : m \in 1..(Len(text[f]) + 1), n \in 0..Len(text[f])}

TypeOK ==
  /\ pc \in {"idle", "buffer", "first", "dup", "more", "join", "head", "rest",
             "crashed"}
  /\ fd \in Fds /\ read_len \in -1..BUFFER_SIZE
  /\ \A f \in Open :
       /\ off[f] \in 0..Len(text[f])
       /\ backup[f] \in Part(f) \cup {NULL}
       /\ backup[f] = <<>> => pc = "head" /\ Slot(fd) = f
  /\ answer = NULL \/ \E f \in Open : answer \in Part(f)

(* While memory lasts, calls on several descriptors, short reads and reads *)
(* that fail for a time neither lose nor double a character: the lines     *)
(* returned for a descriptor and what is kept of it are what was read, in  *)
(* order.  A line has its newline last, and the only lines without one are *)
(* the last of the file and, in the plain variant, a single character      *)
(* whose newline comes alone in the next line (at the end of the file      *)
(* ft_get_head takes "a\n" for a last line "a").                           *)
LinesExact ==
  pc = "idle" /\ ooms = 0 =>
    \A f \in Open :
      LET given == FlattenSeq(lines[f])
      IN  /\ given \o (IF backup[f] = NULL THEN <<>> ELSE backup[f])
               = SubSeq(text[f], 1, off[f])
          /\ \A n \in DOMAIN lines[f] :
               LET line == lines[f][n]
               IN  /\ line # <<>> /\ \A m \in 1..(Len(line) - 1) : line[m] # NL
                   /\ \/ Last(line) = NL
                      \/ n = Len(lines[f]) /\ given = text[f]
                      \/ /\ variant = "plain" /\ Len(line) = 1 /\ off[f] = Len(text[f])
                         /\ n < Len(lines[f]) => lines[f][n + 1] = <<NL>>

(* A program that stops reading at NULL has seen the whole file, unless a  *)
(* read or an allocation failed; and nothing of the file is kept then for  *)
(* whatever is opened next under the same number.                          *)
NullMeansEnd ==
  pc = "idle" /\ answer = NULL /\ FdOK(fd) /\ ooms = 0 =>
    /\ Kept = NULL
    /\ errors = 0 => off[fd] = Len(text[fd])

(* Pointers are followed unchecked; while memory lasts, whatever the reads *)
(* bring and however often they fail, none of them is null.                *)
CrashOnlyOutOfMemory == pc = "crashed" => ooms > 0
=============================================================================
