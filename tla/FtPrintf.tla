------------------------------- MODULE FtPrintf -------------------------------
(***************************************************************************)
(* ft_printf and ft_fprintf: the loop over a format, the conversions, and  *)
(* what becomes of each write they make.                                   *)
(*                                                                         *)
(* A session is a sequence of calls, each a record of                      *)
(*   fn     "ft_printf" or "ft_fprintf"                                    *)
(*   fd     the descriptor (ft_printf has 1)                               *)
(*   fmt    the format, a sequence of characters, or NULL                  *)
(*   args   the arguments: characters, strings (sequences or NULL), numbers*)
(* Integers are scaled: an unsigned int has DIGITS hexadecimal digits, 8   *)
(* in the code, and a pointer twice as many.                               *)
(***************************************************************************)
EXTENDS Integers, SequencesExt

CONSTANTS
  Sessions,     \* a sequence of sessions
  DIGITS,       \* sizeof hex in ft_put_hex
  MaxFailures   \* bound on the writes refused or cut short on open descriptors

STDOUT == 1
NULL   == <<"NULL">>

Percent == "%"
Star    == "*"
Minus   == "-"
Space   == " "
NewLine == "\n"

(* b to the n-th. *)
Power(b, n) ==
  LET power[m \in Nat] == IF m = 0 THEN 1 ELSE b * power[m - 1]
  IN  power[n]

UINT == Power(16, DIGITS)

LOWER == <<"0", "1", "2", "3", "4", "5", "6", "7",
           "8", "9", "a", "b", "c", "d", "e", "f">>
UPPER == <<"0", "1", "2", "3", "4", "5", "6", "7",
           "8", "9", "A", "B", "C", "D", "E", "F">>

Unsigned(n) == n % UINT

Conversions == {"c", "s", "p", "P", "d", "i", "u", "x", "X", "o", Star, Percent}

-----------------------------------------------------------------------------
(* What a format asks for, and the calls its callers make. *)

(* What is known behind n characters of a format: is the next one the      *)
(* letter of a conversion, and which argument comes next?                  *)
Behind(call) ==
  LET behind[n \in Nat] ==
        IF n = 0 THEN [letter |-> FALSE, arg |-> 1]
        ELSE IF ~ behind[n - 1].letter
        THEN [letter |-> call.fmt[n] = Percent, arg |-> behind[n - 1].arg]
        ELSE [letter |-> FALSE,
              arg |-> behind[n - 1].arg + IF call.fmt[n] = Percent THEN 0 ELSE 1]
  IN  behind

IsLetter(call, n) == Behind(call)[n - 1].letter

ArgumentOf(call, n) == call.args[Behind(call)[n - 1].arg]

(* All conversions in front of the n-th character are known. *)
Reaches(call, n) ==
  \A m \in 1..(n - 1) : IsLetter(call, m) => call.fmt[m] \in Conversions

(* An argument is what its conversion takes it for. *)
Suits(c, a) ==
  CASE c = "c"         -> a \in STRING
    [] c = "s"         -> a \in Seq(STRING)      \* NULL included
    [] c \in {"p","P"} -> a \in 0..(Power(16, 2 * DIGITS) - 1)
    [] OTHER           -> a \in Int

CallOK(call) ==
  /\ call.fn \in {"ft_printf", "ft_fprintf"} /\ call.fd \in {1, 2}
  /\ call.fn = "ft_printf" => call.fd = STDOUT
  /\ call.fmt \in Seq(STRING)                   \* NULL included
  /\ \A n \in 1..Len(call.fmt) :
       IsLetter(call, n) /\ Reaches(call, n) /\ call.fmt[n] \in Conversions \ {Percent} =>
         Suits(call.fmt[n], ArgumentOf(call, n))

ASSUME PrintfAssumption ==
  /\ DIGITS \in Nat \ {0}
  /\ MaxFailures \in Nat
  /\ \A s \in DOMAIN Sessions :
       /\ Sessions[s] \in Seq(Range(Sessions[s]))
       /\ \A k \in DOMAIN Sessions[s] : CallOK(Sessions[s][k])

-----------------------------------------------------------------------------
(* The conversions: the writes each of them makes.  Those that fill a      *)
(* buffer from its end need it large enough.                               *)

(* One call of write; fits: has the text stayed inside its buffer?         *)
Write(fd, text) == [fd |-> fd, text |-> text, fits |-> TRUE]

WriteBuffer(fd, text, size) ==
  [fd |-> fd, text |-> text, fits |-> Len(text) <= size]

Bytewise(fd, text) == [n \in DOMAIN text |-> Write(fd, <<text[n]>>)]

(* n and what is left of it, divided by the base again and again. *)
Quotients(n, base) ==
  LET quotient[m \in Nat] == IF m = 0 THEN n ELSE quotient[m - 1] \div base
  IN  quotient

(* The digits of n; the buffers are filled from the last one to the first. *)
Numeral(n, base, digits) ==
  LET left  == Quotients(n, base)
      width == CHOOSE w \in 1..(n + 1) : left[w] = 0 /\ (w > 1 => left[w - 1] # 0)
  IN  [i \in 1..width |-> digits[(left[width - i] % base) + 1]]

(* The digits of nb from the first to the last, by falling powers of ten.  *)
Decimal(nb) ==
  LET top == CHOOSE p \in 0..nb :
               nb \div Power(10, p) <= 9 /\ (p > 0 => nb \div Power(10, p - 1) > 9)
      rest[i \in 0..top] ==
        IF i = 0 THEN nb ELSE rest[i - 1] % Power(10, top + 1 - i)
  IN  [i \in 1..(top + 1) |-> LOWER[(rest[i - 1] \div Power(10, top + 1 - i)) + 1]]

FtFputchar(c, fd) == <<Write(fd, <<c>>)>>
FtPutchar(c)      == FtFputchar(c, STDOUT)

(* Mutant: a string is one write, of no bytes when it is empty. *)
FtPutstrWhole(str) == <<Write(STDOUT, str)>>

NullText == <<"(", "n", "u", "l", "l", ")">>
NilText  == <<"(", "n", "i", "l", ")">>

FtFputstr(str, fd) ==
  IF str = NULL THEN <<Write(fd, NullText)>>
              ELSE Bytewise(fd, str)
FtPutstr(str) == FtFputstr(str, STDOUT)

FtFputSpace(n, fd) == Bytewise(fd, [i \in 1..n |-> Space])
FtPutSpace(n)      == FtFputSpace(n, STDOUT)

(* Mutant: %d prints what %u prints. *)
FtFputnbrUnsigned(n, fd) == Bytewise(fd, Decimal(Unsigned(n)))

(* The minus sign goes to standard output in both. *)
FtFputnbr(n, fd) ==
  IF n < 0 THEN FtPutchar(Minus) \o Bytewise(fd, Decimal(-n))
           ELSE Bytewise(fd, Decimal(n))
FtPutnbr(n) == FtFputnbr(n, STDOUT)

FtFputnbrUn(n, fd) == Bytewise(fd, Decimal(n))
FtPutnbrUn(n)      == FtFputnbrUn(n, STDOUT)

FtFputHex(n, fd) == <<WriteBuffer(fd, Numeral(n, 16, LOWER), DIGITS)>>
FtPutHex(n)      == FtFputHex(n, STDOUT)

FtFputHexUpper(n, fd) == <<WriteBuffer(fd, Numeral(n, 16, UPPER), DIGITS)>>
FtPutHexUpper(n)      == FtFputHexUpper(n, STDOUT)

(* The buffer for octal digits is as small as the one for hexadecimal ones.*)
FtFputOctal(n, fd) == <<WriteBuffer(fd, Numeral(n, 8, LOWER), DIGITS)>>
FtPutOctal(n)      == FtFputOctal(n, STDOUT)

Nil(fd)     == <<Write(fd, NilText)>>
HexMark(fd) == <<Write(fd, <<"0", "x">>)>>

(* Mutant: the buffer is that of an unsigned int. *)
FtFputaddressShort(a, fd) ==
  IF a = 0 THEN Nil(fd)
  ELSE HexMark(fd) \o <<WriteBuffer(fd, Numeral(a, 16, LOWER), DIGITS)>>

FtFputaddress(a, fd) ==
  IF a = 0 THEN Nil(fd)
  ELSE HexMark(fd) \o <<WriteBuffer(fd, Numeral(a, 16, LOWER), 2 * DIGITS)>>
FtPutaddress(a) == FtFputaddress(a, STDOUT)

FtFputaddressUpper(a, fd) ==
  IF a = 0 THEN Nil(fd)
  ELSE HexMark(fd) \o <<WriteBuffer(fd, Numeral(a, 16, UPPER), 2 * DIGITS)>>
FtPutaddressUpper(a) == FtFputaddressUpper(a, STDOUT)

(* ft_type and ft_ftype, on a conversion they know. *)
FtType(c, a) ==
  CASE c = "c"         -> FtPutchar(a)
    [] c = "s"         -> FtPutstr(a)
    [] c = "p"         -> FtPutaddress(a)
    [] c = "P"         -> FtPutaddressUpper(a)
    [] c \in {"d","i"} -> FtPutnbr(a)
    [] c = "u"         -> FtPutnbrUn(Unsigned(a))
    [] c = "x"         -> FtPutHex(Unsigned(a))
    [] c = "X"         -> FtPutHexUpper(Unsigned(a))
    [] c = "o"         -> FtPutOctal(Unsigned(a))
    [] c = Star        -> FtPutSpace(Unsigned(a))
    [] c = Percent     -> FtPutchar(Percent)

FtFtype(c, a, fd) ==
  CASE c = "c"         -> FtFputchar(a, fd)
    [] c = "s"         -> FtFputstr(a, fd)
    [] c = "p"         -> FtFputaddress(a, fd)
    [] c = "P"         -> FtFputaddressUpper(a, fd)
    [] c \in {"d","i"} -> FtFputnbr(a, fd)
    [] c = "u"         -> FtFputnbrUn(Unsigned(a), fd)
    [] c = "x"         -> FtFputHex(Unsigned(a), fd)
    [] c = "X"         -> FtFputHexUpper(Unsigned(a), fd)
    [] c = "o"         -> FtFputOctal(Unsigned(a), fd)
    [] c = Star        -> FtFputSpace(Unsigned(a), fd)
    [] c = Percent     -> FtFputchar(Percent, fd)

-----------------------------------------------------------------------------
VARIABLES
  s,          \* the session
  closed,     \* the descriptors that are closed
  k,          \* the call
  pc,         \* "call", "scan" (the format), "write", "undefined"
  pos, arg,   \* the next character of the format, the next argument
  runs,       \* the writes the conversion has still to make
  flag, cnt2, \* of ft_callstr; flag adds up while the conversion writes
  failures,   \* writes refused or cut short so far, on open descriptors
  sent,       \* history: for each call, the characters taken and by which fd
  results     \* history: what each call returned

vars == <<s, closed, k, pc, pos, arg, runs, flag, cnt2, failures, sent, results>>

Calls == Sessions[s]
Call  == Calls[k]
More  == pos <= Len(Call.fmt)

Init ==
  /\ s \in DOMAIN Sessions
  /\ closed \in SUBSET {1, 2}
  /\ k = 1
  /\ pc = "call"
  /\ pos = 1 /\ arg = 1
  /\ runs = <<>>
  /\ flag = 0 /\ cnt2 = 0
  /\ failures = 0
  /\ sent = <<>> /\ results = <<>>

(* No caller looks at the result: the session goes on. *)
Return(n) ==
  /\ results' = Append(results, n)
  /\ k' = k + 1
  /\ pc' = "call"

Unusable == Call.fd \in closed \/ Call.fmt = NULL

(* The write of no bytes that begins a call fails on a closed descriptor.  *)
Refuse ==
  /\ pc = "call" /\ k <= Len(Calls) /\ Unusable
  /\ sent' = Append(sent, <<>>)
  /\ Return(-1)
  /\ UNCHANGED <<s, closed, pos, arg, runs, flag, cnt2, failures>>

Enter ==
  /\ pc = "call" /\ k <= Len(Calls) /\ ~ Unusable
  /\ sent' = Append(sent, <<>>)
  /\ pos' = 1 /\ arg' = 1
  /\ flag' = 0 /\ cnt2' = 0
  /\ pc' = "scan"
  /\ UNCHANGED <<s, closed, k, runs, failures, results>>

Scanning == pc = "scan" /\ More /\ cnt2 # -1

PlainChar ==
  /\ Scanning /\ Call.fmt[pos] # Percent
  /\ flag' = 0
  /\ runs' = IF Call.fn = "ft_printf" THEN FtPutchar(Call.fmt[pos])
                                      ELSE FtFputchar(Call.fmt[pos], Call.fd)
  /\ pos' = pos + 1
  /\ pc' = "write"
  /\ UNCHANGED <<s, closed, k, arg, cnt2, failures, sent, results>>

Known ==
  /\ Scanning /\ Call.fmt[pos] = Percent
  /\ pos < Len(Call.fmt) /\ Call.fmt[pos + 1] \in Conversions

Writes ==
  LET c == Call.fmt[pos + 1]
  IN  IF Call.fn = "ft_printf" THEN FtType(c, Call.args[arg])
                               ELSE FtFtype(c, Call.args[arg], Call.fd)

Overruns == \E n \in DOMAIN Writes : ~ Writes[n].fits

Convert ==
  /\ Known /\ ~ Overruns
  /\ flag' = 0
  /\ runs' = Writes
  /\ arg' = IF Call.fmt[pos + 1] = Percent THEN arg ELSE arg + 1
  /\ pos' = pos + 2
  /\ pc' = "write"
  /\ UNCHANGED <<s, closed, k, cnt2, failures, sent, results>>

(* Digits are stored in front of a buffer: anything may happen from here.  *)
Overrun ==
  /\ Known /\ Overruns
  /\ pc' = "undefined"
  /\ UNCHANGED <<s, closed, k, pos, arg, runs, flag, cnt2, failures, sent, results>>

(* A letter that is no conversion, or a '%' that ends the format. *)
Unknown ==
  /\ Scanning /\ Call.fmt[pos] = Percent /\ ~ Known
  /\ Return(-1)
  /\ UNCHANGED <<s, closed, pos, arg, runs, flag, cnt2, failures, sent>>

EndOfFormat ==
  /\ pc = "scan" /\ (~ More \/ cnt2 = -1)
  /\ Return(cnt2)
  /\ UNCHANGED <<s, closed, pos, arg, runs, flag, cnt2, failures, sent>>

-----------------------------------------------------------------------------
(* One write, with its outcome. *)

Writing == pc = "write" /\ runs # <<>>

(* The descriptor takes the first n bytes. *)
Take(n) ==
  /\ sent' = [sent EXCEPT ![k] = @ \o
                [i \in 1..n |-> [fd |-> Head(runs).fd, char |-> Head(runs).text[i]]]]
  /\ flag' = flag + n
  /\ runs' = Tail(runs)

WriteAll ==
  /\ Writing /\ Head(runs).fd \notin closed
  /\ Take(Len(Head(runs).text))
  /\ UNCHANGED <<s, closed, k, pc, pos, arg, cnt2, failures, results>>

(* Nobody writes the rest. *)
WriteShort ==
  /\ Writing /\ Head(runs).fd \notin closed
  /\ failures < MaxFailures
  /\ \E n \in 1..(Len(Head(runs).text) - 1) : Take(n)
  /\ failures' = failures + 1
  /\ UNCHANGED <<s, closed, k, pc, pos, arg, cnt2, results>>

(* The -1 of a refused write is added like a count. *)
WriteRefused ==
  /\ Writing
  /\ IF Head(runs).fd \in closed
     THEN UNCHANGED failures
     ELSE failures < MaxFailures /\ failures' = failures + 1
  /\ flag' = flag - 1
  /\ runs' = Tail(runs)
  /\ UNCHANGED <<s, closed, k, pc, pos, arg, cnt2, sent, results>>

(* Mutants: the call goes on behind a refused character; only the last     *)
(* conversion counts.                                                      *)
ConversionEndsAnyway ==
  /\ pc = "write" /\ runs = <<>>
  /\ cnt2' = cnt2 + flag
  /\ pc' = "scan"
  /\ UNCHANGED <<s, closed, k, pos, arg, runs, flag, failures, sent, results>>

ConversionEndsForgetting ==
  /\ pc = "write" /\ runs = <<>>
  /\ IF flag = -1
     THEN Return(-1) /\ UNCHANGED cnt2
     ELSE cnt2' = flag /\ pc' = "scan" /\ UNCHANGED <<k, results>>
  /\ UNCHANGED <<s, closed, pos, arg, runs, flag, failures, sent>>

ConversionEnds ==
  /\ pc = "write" /\ runs = <<>>
  /\ cnt2' = cnt2 + flag
  /\ IF flag = -1
     THEN Return(-1)
     ELSE pc' = "scan" /\ UNCHANGED <<k, results>>
  /\ UNCHANGED <<s, closed, pos, arg, runs, flag, failures, sent>>

SessionOver == pc = "undefined" \/ (pc = "call" /\ k > Len(Calls))

Done == SessionOver /\ UNCHANGED vars

Next ==
  \/ Refuse \/ Enter \/ PlainChar \/ Convert \/ Overrun \/ Unknown \/ EndOfFormat
  \/ WriteAll \/ WriteShort \/ WriteRefused \/ ConversionEnds \/ Done

(* A write to a file, a terminal or a closed descriptor returns. *)
Spec == Init /\ [][Next]_vars /\ WF_vars(Next)

-----------------------------------------------------------------------------
(* Properties. *)

TypeOK ==
  /\ s \in DOMAIN Sessions
  /\ closed \subseteq {1, 2}
  /\ k \in 1..(Len(Calls) + 1)
  /\ pc \in {"call", "scan", "write", "undefined"}
  /\ pos \in Nat /\ arg \in Nat
  /\ \A n \in DOMAIN runs :
       runs[n].fd \in {1, 2} /\ runs[n].text # <<>> /\ runs[n].fits
  /\ flag \in Int /\ cnt2 \in Int
  /\ failures \in 0..MaxFailures
  /\ Len(results) = k - 1
  /\ Len(sent) = IF pc = "call" THEN k - 1 ELSE k

(* What a format and its arguments mean, position by position; characters  *)
(* come with the descriptor they are for.                                  *)
Positional(n, base, digits) ==
  LET width == CHOOSE w \in 1..(n + 1) :
                 n < Power(base, w) /\ (w > 1 => n >= Power(base, w - 1))
  IN  [i \in 1..width |-> digits[((n \div Power(base, width - i)) % base) + 1]]

Meaning(c, a) ==
  CASE c = "c" -> <<a>>
    [] c = "s" -> IF a = NULL THEN NullText ELSE a
    [] c \in {"d", "i"} -> Positional(IF a < 0 THEN -a ELSE a, 10, LOWER)
    [] c = "u" -> Positional(Unsigned(a), 10, LOWER)
    [] c = "x" -> Positional(Unsigned(a), 16, LOWER)
    [] c = "X" -> Positional(Unsigned(a), 16, UPPER)
    [] c = "o" -> Positional(Unsigned(a), 8, LOWER)
    [] c = Star -> [i \in 1..Unsigned(a) |-> Space]
    [] c = Percent -> <<Percent>>
    [] OTHER -> IF a = 0 THEN NilText
                ELSE <<"0", "x">> \o Positional(a, 16, IF c = "p" THEN LOWER ELSE UPPER)

For(fd, text) == [i \in DOMAIN text |-> [fd |-> fd, char |-> text[i]]]

(* The n-th character of the format stands for this: the '%' in front of a *)
(* letter for nothing.                                                     *)
Piece(call, n) ==
  LET c == call.fmt[n]
      a == ArgumentOf(call, n)
  IN  IF ~ IsLetter(call, n)
      THEN IF c = Percent THEN <<>> ELSE For(call.fd, <<c>>)
      ELSE IF c \in {"d", "i"} /\ a < 0
      THEN For(STDOUT, <<Minus>>) \o For(call.fd, Meaning(c, a))
      ELSE For(call.fd, Meaning(c, a))

Expected(call) == FlattenSeq([n \in 1..Len(call.fmt) |-> Piece(call, n)])

(* A format all of whose conversions are known. *)
Sound(call) ==
  /\ call.fmt # NULL
  /\ Reaches(call, Len(call.fmt) + 1)
  /\ ~ IsLetter(call, Len(call.fmt) + 1)

(* Refused writes are counted as -1 and short ones as they come, over all  *)
(* conversions; still the result of a call is the length of its text       *)
(* exactly when every character reached its descriptor, in order and only  *)
(* once.  The text is on the call's descriptor, except for the minus sign  *)
(* of %d, which ft_fputnbr sends to standard output.                       *)
ResultTellsLoss ==
  \A n \in DOMAIN results :
    Sound(Calls[n]) /\ Expected(Calls[n]) # <<>> =>
      (results[n] = Len(Expected(Calls[n])) <=> sent[n] = Expected(Calls[n]))

(* With its descriptors open and no write refused or cut short, a call     *)
(* writes what its format and its arguments mean, character by character,  *)
(* and returns how many they are, whatever the buffers and divisions in    *)
(* between.                                                                *)
PrintsExpected ==
  failures = 0 =>
    \A n \in DOMAIN results :
      Sound(Calls[n]) /\ closed \cap {STDOUT, Calls[n].fd} = {} =>
        /\ sent[n] = Expected(Calls[n])
        /\ results[n] = Len(Expected(Calls[n]))

(* Only a call that returns -1 may leave its line open: after any other    *)
(* result, negative sums of refused writes included, what the next call    *)
(* prints starts a line of its own, whatever was lost inside.              *)
LinesTerminated ==
  \A n \in DOMAIN results :
    results[n] # -1 /\ Calls[n].fmt # <<>> /\ Last(Calls[n].fmt) = NewLine =>
      sent[n] # <<>> /\ Last(sent[n]).char = NewLine

(* The digits of every pointer and every number fit the buffer they are    *)
(* written to, except octal ones: %o needs more digits than %x.            *)
BuffersHold ==
  pc = "undefined" =>
    Call.fmt[pos + 1] = "o" /\ Unsigned(Call.args[arg]) >= Power(8, DIGITS)
=============================================================================
