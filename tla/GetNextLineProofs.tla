--------------------------- MODULE GetNextLineProofs ---------------------------
(***************************************************************************)
(* The safety properties of GetNextLine, proved for every set of texts and *)
(* of descriptors and every BUFFER_SIZE.                                   *)
(***************************************************************************)
EXTENDS GetNextLine, DataLemmas

-----------------------------------------------------------------------------
(* Lemmas about sequences. *)

(* The characters of a text. *)
Chars == STRING \ {"NULL"}

(* There is a first newline, or the end. *)
LEMMA FirstNewlineFound ==
  ASSUME NEW str \in Seq(Chars)
  PROVE  /\ FirstNewline(str) \in Int
         /\ 0 <= FirstNewline(str) /\ FirstNewline(str) <= Len(str)
         /\ FirstNewline(str) = Len(str) \/ str[FirstNewline(str) + 1] = NL
         /\ \A m \in 1..FirstNewline(str) : str[m] # NL
<1> DEFINE stops == {n \in 0..Len(str) : n = Len(str) \/ str[n + 1] = NL}
<1>1. Len(str) \in Nat
  OBVIOUS
<1>2. stops \subseteq Nat /\ stops # {}
  BY <1>1
<1>3. PICK n \in stops : \A k \in stops : n <= k
  <2> HIDE DEF stops
  <2> QED
    BY <1>2, Least
<1>4. n \in 0..Len(str) /\ (n = Len(str) \/ str[n + 1] = NL)
  OBVIOUS
<1>5. ASSUME NEW m \in 1..n PROVE str[m] # NL
  <2>1. m - 1 \in 0..Len(str) /\ (m - 1) + 1 = m /\ ~ (n <= m - 1)
    BY <1>1, <1>4
  <2>2. m - 1 \notin stops
    BY <1>3, <2>1
  <2> QED
    BY <2>1, <2>2
<1>6. \E k \in 0..Len(str) :
        /\ k = Len(str) \/ str[k + 1] = NL
        /\ \A m \in 1..k : str[m] # NL
  BY <1>4, <1>5
<1>7. /\ FirstNewline(str) \in 0..Len(str)
      /\ FirstNewline(str) = Len(str) \/ str[FirstNewline(str) + 1] = NL
      /\ \A m \in 1..FirstNewline(str) : str[m] # NL
  BY <1>6 DEF FirstNewline
<1> QED
  BY <1>1, <1>7

-----------------------------------------------------------------------------
(* The line that is taken. *)

(* What ft_new_line tells of a text that is not empty. *)
LEMMA NewLine ==
  ASSUME NEW str \in Seq(Chars), str # <<>>, NEW len \in Int
  PROVE  \E n \in Int :
           /\ 0 <= n /\ n <= Len(str) /\ Len(str) \in Nat /\ 1 <= Len(str)
           /\ n = Len(str) \/ str[n + 1] = NL
           /\ \A m \in 1..n : str[m] # NL
           /\ str[1] = NL <=> n = 0
           /\ n = 0 => FtNewLine(str, len) = 1
           /\ n # 0 => FtNewLine(str, len) = IF n = Len(str) /\ len # 0 THEN 0 ELSE n
<1> DEFINE n == FirstNewline(str)
<1>1. /\ n \in Int /\ 0 <= n /\ n <= Len(str)
      /\ n = Len(str) \/ str[n + 1] = NL
      /\ \A m \in 1..n : str[m] # NL
  BY FirstNewlineFound
<1>2. Len(str) \in Nat /\ 1 <= Len(str)
  OBVIOUS
<1>3. FtNewLine(str, len) = IF str[1] = NL THEN 1
                            ELSE IF n = Len(str) /\ len # 0 THEN 0 ELSE n
  BY DEF FtNewLine
<1> HIDE DEF n
<1>4. str[1] = NL <=> n = 0
  <2>1. CASE n = 0
    BY <1>1, <1>2, <2>1
  <2>2. CASE n # 0
    <3>1. 1 \in 1..n
      BY <1>1, <2>2
    <3> QED
      BY <1>1, <2>2, <3>1
  <2> QED
    BY <2>1, <2>2
<1>5. n = 0 => FtNewLine(str, len) = 1
  BY <1>3, <1>4
<1>6. n # 0 => FtNewLine(str, len) = IF n = Len(str) /\ len # 0 THEN 0 ELSE n
  BY <1>3, <1>4
<1> QED
  BY <1>1, <1>2, <1>4, <1>5, <1>6

(* The line that get_next_line takes from what it keeps, and the rest.     *)
LEMMA LineTaken ==
  ASSUME NEW str \in Seq(Chars), str # <<>>, NEW len \in Int,
         FtNewLine(str, len) # 0
  PROVE  \E l \in Int :
           /\ 1 <= l /\ l <= Len(str)
           /\ FtGnlStrdup(str, HeadLen(str, len)) = SubSeq(str, 1, l)
           /\ FtGnlSubstr(str, HeadLen(str, len)) = SubSeq(str, l + 1, Len(str))
           /\ \A m \in 1..(l - 1) : str[m] # NL
           /\ str[1] = NL => l = 1
           /\ \/ str[l] = NL
              \/ l = Len(str) /\ len = 0 /\ FtNewLine(str, 10) = 0
              \/ variant = "plain" /\ l = 1 /\ len = 0 /\ 1 < Len(str) /\ str[2] = NL
<1> DEFINE h == HeadLen(str, len)
           i == FtNewLine(str, len)
           l == IF h < Len(str) THEN h ELSE Len(str)
<1>1. PICK n \in Int :
           /\ 0 <= n /\ n <= Len(str) /\ Len(str) \in Nat /\ 1 <= Len(str)
           /\ n = Len(str) \/ str[n + 1] = NL
           /\ \A m \in 1..n : str[m] # NL
           /\ str[1] = NL <=> n = 0
           /\ n = 0 => i = 1
           /\ n # 0 => i = IF n = Len(str) /\ len # 0 THEN 0 ELSE n
  BY NewLine
<1>2. n = Len(str) => len = 0 /\ FtNewLine(str, 10) = 0
  <2> DEFINE ten == 10
  <2>0. ten \in Int /\ ten # 0
    OBVIOUS
  <2> HIDE DEF ten
  <2>1. PICK k \in Int :
           /\ 0 <= k /\ k <= Len(str) /\ Len(str) \in Nat /\ 1 <= Len(str)
           /\ k = Len(str) \/ str[k + 1] = NL
           /\ \A m \in 1..k : str[m] # NL
           /\ str[1] = NL <=> k = 0
           /\ k = 0 => FtNewLine(str, ten) = 1
           /\ k # 0 => FtNewLine(str, ten) = IF k = Len(str) /\ ten # 0 THEN 0 ELSE k
    BY <2>0, NewLine
  <2> SUFFICES ASSUME n = Len(str) PROVE len = 0 /\ FtNewLine(str, 10) = 0
    OBVIOUS
  <2>2. len = 0
    BY <1>1
  <2>3. k = Len(str)
    <3>1. k < Len(str) => k + 1 \in 1..n
      BY <1>1, <2>1
    <3> QED
      BY <1>1, <2>1, <3>1
  <2>4. FtNewLine(str, ten) = 0
    BY <1>1, <2>0, <2>1, <2>3
  <2> QED
    BY <2>2, <2>4 DEF ten
<1>3. h = IF variant = "plain"
          THEN IF i = 1 /\ (str[1] = NL \/ len = 0) THEN 1 ELSE i + 1
          ELSE IF i = 1 /\ (str[1] = NL \/ (len = 0 /\ Len(str) = 1)) THEN 1 ELSE i + 1
  BY DEF HeadLen, HeadLenPlain, HeadLenBonus
<1>4. i \in Int /\ i # 0
  BY <1>1
<1> HIDE DEF h, i
<1>5. /\ h \in Int /\ 1 <= h /\ h <= Len(str) + 1
      /\ n = 0 => h = 1
      /\ n # 0 => h = n + 1 \/ (h = 1 /\ n = 1 /\ len = 0
                                /\ (variant = "plain" \/ Len(str) = 1))
  <2>1. CASE n = 0
    BY <1>1, <1>3, <2>1
  <2>2. CASE n # 0
    BY <1>1, <1>3, <1>4, <2>2
  <2> QED
    BY <2>1, <2>2
<1>6. l \in Int /\ 1 <= l /\ l <= Len(str)
  BY <1>1, <1>5
<1>7. FtGnlStrdup(str, h) = SubSeq(str, 1, l)
  <2>1. SubSeq(str, 1, Len(str)) = str
    BY SubSeqFull
  <2> QED
    BY <1>1, <1>5, <2>1 DEF FtGnlStrdup
<1>8. FtGnlSubstr(str, h) = SubSeq(str, l + 1, Len(str))
  <2>1. CASE h < Len(str)
    BY <2>1 DEF FtGnlSubstr
  <2>2. CASE ~ (h < Len(str))
    <3>1. h + 1 \in Int /\ Len(str) < h + 1 /\ l + 1 \in Int /\ Len(str) < l + 1
      BY <1>1, <1>5, <2>2
    <3>2. SubSeq(str, h + 1, Len(str)) = <<>> /\ SubSeq(str, l + 1, Len(str)) = <<>>
      BY <1>1, <3>1, SubSeqEmpty
    <3> QED
      BY <3>2 DEF FtGnlSubstr
  <2> QED
    BY <2>1, <2>2
<1>9. \A m \in 1..(l - 1) : str[m] # NL
  <2> SUFFICES ASSUME NEW m \in 1..(l - 1) PROVE str[m] # NL
    OBVIOUS
  <2>1. m \in 1..n
    BY <1>1, <1>5, <1>6
  <2> QED
    BY <1>1, <2>1
<1>10. str[1] = NL => l = 1
  <2>1. str[1] = NL => n = 0
    BY <1>1
  <2>2. n = 0 => h = 1
    BY <1>5
  <2>3. h = 1 => l = 1
    <3> DEFINE len_str == Len(str)
    <3>1. /\ l = IF h < len_str THEN h ELSE len_str
          /\ len_str \in Nat /\ 1 <= len_str
      BY <1>1
    <3> HIDE DEF l, len_str
    <3> QED
      BY <3>1
  <2> QED
    BY <2>1, <2>2, <2>3
<1>11. \/ str[l] = NL
       \/ l = Len(str) /\ len = 0 /\ FtNewLine(str, 10) = 0
       \/ variant = "plain" /\ l = 1 /\ len = 0 /\ 1 < Len(str) /\ str[2] = NL
  <2>1. CASE n = Len(str)
    <3>1. l = Len(str)
      BY <1>1, <1>5, <2>1
    <3> QED
      BY <1>2, <2>1, <3>1
  <2>2. CASE n < Len(str) /\ h = n + 1
    <3>1. l = n + 1
      BY <1>1, <2>2
    <3> QED
      BY <1>1, <2>2, <3>1
  <2>3. CASE n < Len(str) /\ h # n + 1
    <3>1. h = 1 /\ n = 1 /\ len = 0 /\ variant = "plain"
      BY <1>1, <1>5, <2>3
    <3>2. l = 1 /\ 1 < Len(str)
      BY <1>1, <2>3, <3>1
    <3> QED
      BY <1>1, <2>3, <3>1, <3>2
  <2> QED
    BY <1>1, <1>5, <2>1, <2>2, <2>3
<1> HIDE DEF l
<1>12. /\ 1 <= l /\ l <= Len(str)
       /\ FtGnlStrdup(str, h) = SubSeq(str, 1, l)
       /\ FtGnlSubstr(str, h) = SubSeq(str, l + 1, Len(str))
       /\ \A m \in 1..(l - 1) : str[m] # NL
       /\ str[1] = NL => l = 1
       /\ \/ str[l] = NL
          \/ l = Len(str) /\ len = 0 /\ FtNewLine(str, 10) = 0
          \/ variant = "plain" /\ l = 1 /\ len = 0 /\ 1 < Len(str) /\ str[2] = NL
  BY <1>6, <1>7, <1>8, <1>9, <1>10, <1>11
<1> QED
  BY <1>6, <1>12 DEF h

-----------------------------------------------------------------------------
(* The invariant. *)

(* What has arrived in the backup of f and what of it has been returned:   *)
(* the last read is still in the buffer between the read and its join.     *)
Arrived(f) ==
  off[f] - (IF f = fd /\ pc \in {"dup", "join"} THEN Len(buf) ELSE 0)
Held(f)  == IF backup[f] = NULL THEN <<>> ELSE backup[f]
Given(f) == Arrived(f) - Len(Held(f))

Shapes ==
  /\ variant \in Variants
  /\ text \in [Open -> Texts]
  /\ off \in [Open -> Nat]
  /\ backup \in [Open -> Seq(Chars) \cup {NULL}]
  /\ pc \in {"idle", "buffer", "first", "dup", "more", "join", "head", "rest",
             "crashed"}
  /\ fd \in Fds
  /\ buf \in Seq(Chars)
  /\ read_len \in -1..BUFFER_SIZE
  /\ lines \in [Open -> Seq(Seq(Chars))]
  /\ errors \in Nat /\ ooms \in Nat

(* A call works on the descriptor it was made for. *)
Slotted ==
  /\ pc # "idle" => FdOK(fd)
  /\ FdOK(fd) /\ variant = "plain" => fd = 0

(* What is kept of a descriptor is the last of what arrived.               *)
SliceOf(f) ==
  /\ off[f] <= Len(text[f])
  /\ Len(Held(f)) <= Arrived(f)
  /\ Held(f) = SubSeq(text[f], Given(f) + 1, Arrived(f))
  /\ backup[f] = <<>> => pc = "head" /\ f = fd

Slices == \A f \in Open : SliceOf(f)

(* What the last read brought. *)
Buffered ==
  /\ read_len = -1 => errors > 0
  /\ pc \in {"dup", "join"} =>
       /\ Len(buf) <= off[fd]
       /\ buf = SubSeq(text[fd], off[fd] - Len(buf) + 1, off[fd])
       /\ buf = <<>> <=> read_len <= 0
       /\ read_len = 0 => off[fd] = Len(text[fd])
  /\ pc \in {"first", "dup"} => backup[fd] = NULL
  /\ pc = "buffer" => read_len = 0

(* A line can be taken: it has its newline, or the file is at its end.     *)
Ready ==
  pc \in {"head", "rest"} /\ backup[fd] # NULL =>
    /\ backup[fd] = <<>> =>
         read_len <= 0 /\ (read_len = 0 => off[fd] = Len(text[fd]))
    /\ backup[fd] # <<>> =>
         /\ FtNewLine(backup[fd], read_len) # 0
         /\ ooms = 0 /\ read_len = 0 =>
              \/ off[fd] = Len(text[fd])
              \/ variant = "bonus" /\ FtNewLine(backup[fd], 10) # 0

Taken ==
  pc = "rest" =>
    /\ backup[fd] # NULL
    /\ gnl \in {NULL, FtGnlStrdup(backup[fd], HeadLen(backup[fd], read_len))}

(* While memory lasts nothing is missing. *)
Remembered ==
  ooms = 0 =>
    /\ pc # "crashed"
    /\ pc \in {"more", "join", "head", "rest"} => backup[fd] # NULL
    /\ pc = "rest" => gnl # NULL

Answered == answer = NULL \/ \E f \in Open : answer \in Part(f)

(* The lines of f are the beginning of its text. *)
Returned(f) ==
  /\ FlattenSeq(lines[f]) = SubSeq(text[f], 1, Given(f))
  /\ \A n \in 1..Len(lines[f]) :
       /\ lines[f][n] # <<>>
       /\ \A m \in 1..(Len(lines[f][n]) - 1) : lines[f][n][m] # NL
       /\ \/ lines[f][n][Len(lines[f][n])] = NL
          \/ n = Len(lines[f]) /\ Given(f) = Len(text[f])
          \/ /\ variant = "plain" /\ Len(lines[f][n]) = 1 /\ off[f] = Len(text[f])
             /\ IF n < Len(lines[f]) THEN lines[f][n + 1] = <<NL>>
                ELSE Given(f) < Len(text[f]) /\ text[f][Given(f) + 1] = NL

Exact == ooms = 0 => \A f \in Open : Returned(f)

GnlInv ==
  /\ Shapes /\ Slotted /\ Slices /\ Buffered /\ Ready /\ Taken /\ Remembered
  /\ Answered /\ NullMeansEnd /\ Exact

(* The descriptors have their places, and texts are of characters. *)
LEMMA Places ==
  /\ 0 \in Open /\ Open \cup {0} = Open
  /\ Open \subseteq Int
  /\ \A f \in Open : FdOK(f) /\ f \in Fds
  /\ \A t \in Texts : t \in Seq(Chars)
<1>1. 0 \in Open
  BY GnlAssumption DEF Open, FdOK
<1>2. Open \subseteq Int
  BY GnlAssumption DEF Open
<1>3. \A f \in Open : FdOK(f) /\ f \in Fds
  BY DEF Open
<1>4. \A t \in Texts : t \in Seq(Chars)
  BY GnlAssumption DEF Chars
<1> QED
  BY <1>1, <1>2, <1>3, <1>4

(* NULL is no text. *)
LEMMA NullIsNoText == NULL \notin Seq(Chars) /\ NULL # <<>>
<1> DEFINE nul == <<"NULL">>
<1>1. Len(nul) = 1 /\ nul[1] = "NULL"
  OBVIOUS
<1>2. ASSUME nul \in Seq(Chars) PROVE FALSE
  <2>1. 1 \in 1..Len(nul)
    BY <1>1
  <2> HIDE DEF nul
  <2>2. nul[1] \in Chars
    BY <1>2, <2>1, ElementOfSeq
  <2> QED
    BY <1>1, <2>2 DEF Chars
<1>3. nul # <<>>
  OBVIOUS
<1> QED
  BY <1>2, <1>3 DEF NULL

(* During a call the descriptor is open and has its slot. *)
LEMMA AtWork ==
  ASSUME Shapes, Slotted, pc # "idle"
  PROVE  /\ fd \in Open /\ fd \in Int /\ FdOK(fd)
         /\ Slot(fd) = fd /\ Kept = backup[fd]
         /\ \A t : Keep(t) <=> backup' = [backup EXCEPT ![fd] = t]
         /\ text[fd] \in Seq(Chars) /\ Len(text[fd]) \in Nat
         /\ off[fd] \in Nat
         /\ backup[fd] \in Seq(Chars) \cup {NULL}
         /\ lines[fd] \in Seq(Seq(Chars))
<1>1. fd \in Open /\ fd \in Int /\ FdOK(fd)
  BY Places DEF Shapes, Slotted, Open
<1>2. Slot(fd) = fd
  BY <1>1 DEF Slotted, Slot
<1>3. text[fd] \in Seq(Chars)
  BY <1>1, Places DEF Shapes
<1>4. Len(text[fd]) \in Nat
  BY <1>3
<1>5. Kept = backup[fd] /\ \A t : Keep(t) <=> backup' = [backup EXCEPT ![fd] = t]
  BY <1>2 DEF Kept, Keep
<1>6. off[fd] \in Nat /\ backup[fd] \in Seq(Chars) \cup {NULL}
      /\ lines[fd] \in Seq(Seq(Chars))
  BY <1>1 DEF Shapes
<1> QED
  BY <1>1, <1>2, <1>3, <1>4, <1>5, <1>6

(* In the beginning every variable has its type. *)
LEMMA ShapesInit ==
  ASSUME Init PROVE Shapes
<1>1. backup = [f \in Open |-> NULL]
  BY Places DEF Init
<1>2. backup \in [Open -> Seq(Chars) \cup {NULL}]
  BY <1>1
<1>3. 0 \in -1..BUFFER_SIZE /\ 0 \in Fds
  BY GnlAssumption
<1>4. lines \in [Open -> Seq(Seq(Chars))]
  BY NoElements DEF Init
<1>5. buf \in Seq(Chars)
  BY NoElements DEF Init
<1>6. off \in [Open -> Nat]
  BY DEF Init
<1> QED
  BY <1>2, <1>3, <1>4, <1>5, <1>6 DEF Init, Shapes

(* What one read brings. *)
LEMMA WhatIsRead ==
  ASSUME Shapes, Slotted, Slices, Read
  PROVE  \E n \in Nat :
           /\ n <= BUFFER_SIZE /\ off[fd] + n <= Len(text[fd])
           /\ buf' = SubSeq(text[fd], off[fd] + 1, off[fd] + n)
           /\ buf' \in Seq(Chars) /\ Len(buf') = n
           /\ off' = [off EXCEPT ![fd] = @ + n]
           /\ read_len' = n
           /\ n = 0 => off[fd] = Len(text[fd])
<1> DEFINE left == Len(text[fd]) - off[fd]
           most == IF left < BUFFER_SIZE THEN left ELSE BUFFER_SIZE
<1>1. pc # "idle"
  BY DEF Read, Reading
<1>2. /\ fd \in Open /\ text[fd] \in Seq(Chars) /\ Len(text[fd]) \in Nat
      /\ off[fd] \in Nat /\ off[fd] <= Len(text[fd])
  BY <1>1, AtWork DEF Slices, SliceOf
<1>3. PICK n \in (IF left = 0 THEN {0} ELSE 1..most) :
           /\ buf' = SubSeq(text[fd], off[fd] + 1, off[fd] + n)
           /\ off' = [off EXCEPT ![fd] = @ + n]
           /\ read_len' = n
  BY DEF Read
<1>4. BUFFER_SIZE \in Nat
  BY GnlAssumption
<1>5. n \in Nat /\ n <= BUFFER_SIZE /\ off[fd] + n <= Len(text[fd])
      /\ (n = 0 => off[fd] = Len(text[fd]))
  BY <1>2, <1>3, <1>4
<1> DEFINE a == off[fd] + 1
           b == off[fd] + n
<1>6. a \in Int /\ b \in Int /\ 1 <= a /\ a <= b + 1 /\ b <= Len(text[fd])
      /\ b - a + 1 = n
  BY <1>2, <1>5
<1>7. SubSeq(text[fd], a, b) \in Seq(Chars) /\ Len(SubSeq(text[fd], a, b)) = b - a + 1
  <2> HIDE DEF a, b
  <2> QED
    BY <1>2, <1>6, Slice
<1>8. buf' \in Seq(Chars) /\ Len(buf') = n
  BY <1>3, <1>6, <1>7
<1> QED
  BY <1>3, <1>5, <1>8

(* The line that is taken and the rest, as parts of the text.              *)
LEMMA LineOfText ==
  ASSUME Shapes, Slotted, Slices, Ready, pc \in {"head", "rest"},
         backup[fd] # NULL, backup[fd] # <<>>
  PROVE  \E l \in Int :
           /\ 1 <= l /\ Given(fd) \in Int /\ 0 <= Given(fd) /\ Given(fd) + l <= off[fd]
           /\ FtGnlStrdup(Kept, HeadLen(Kept, read_len))
                = SubSeq(text[fd], Given(fd) + 1, Given(fd) + l)
           /\ FtGnlStrdup(Kept, HeadLen(Kept, read_len)) \in Seq(Chars)
           /\ Len(FtGnlStrdup(Kept, HeadLen(Kept, read_len))) = l
           /\ \A m \in 1..l :
                FtGnlStrdup(Kept, HeadLen(Kept, read_len))[m] = text[fd][Given(fd) + m]
           /\ FtGnlSubstr(Kept, HeadLen(Kept, read_len))
                = SubSeq(text[fd], Given(fd) + l + 1, off[fd])
           /\ FtGnlSubstr(Kept, HeadLen(Kept, read_len)) \in Seq(Chars)
           /\ Len(FtGnlSubstr(Kept, HeadLen(Kept, read_len))) = off[fd] - Given(fd) - l
           /\ \A m \in 1..(l - 1) : text[fd][Given(fd) + m] # NL
           /\ text[fd][Given(fd) + 1] = NL => l = 1
           /\ \/ text[fd][Given(fd) + l] = NL
              \/ Given(fd) + l = off[fd] /\ read_len = 0 /\ FtNewLine(Kept, 10) = 0
              \/ /\ variant = "plain" /\ l = 1 /\ read_len = 0
                 /\ Given(fd) + l < off[fd] /\ text[fd][Given(fd) + 2] = NL
<1>1. /\ fd \in Open /\ Kept = backup[fd]
      /\ text[fd] \in Seq(Chars) /\ Len(text[fd]) \in Nat /\ off[fd] \in Nat
      /\ backup[fd] \in Seq(Chars) \cup {NULL}
  BY AtWork
<1> DEFINE t == text[fd]
           g == Given(fd)
           k == Len(Kept)
           o == off[fd]
<1>2. Kept \in Seq(Chars) /\ Kept # <<>> /\ k \in Nat /\ Held(fd) = Kept
  BY <1>1 DEF Held
<1>3. Arrived(fd) = o
  BY <1>1 DEF Arrived
<1>4. g = o - k
  BY <1>2, <1>3 DEF Given
<1>5. o <= Len(t) /\ k <= o /\ Kept = SubSeq(t, g + 1, o)
  BY <1>1, <1>2, <1>3 DEF Slices, SliceOf
<1>6. g \in Int /\ 0 <= g /\ g + k = o /\ g + 1 \in Int /\ 1 <= g + 1 /\ g + 1 <= o + 1
      /\ o \in Int /\ o - (g + 1) + 1 = k
  <2>1. o \in Nat /\ k \in Nat /\ k <= o /\ g = o - k
    BY <1>1, <1>2, <1>4, <1>5
  <2> HIDE DEF g, k, o
  <2> QED
    BY <2>1
<1>7. \A i \in 1..k : Kept[i] = t[g + i]
  <2>1. \A i \in 1..(o - (g + 1) + 1) : SubSeq(t, g + 1, o)[i] = t[(g + 1) + i - 1]
    <3> HIDE DEF g, k, o, t
    <3> QED
      BY <1>1, <1>5, <1>6, Slice DEF t
  <2>2. ASSUME NEW i \in 1..k PROVE Kept[i] = t[g + i]
    <3>1. (g + 1) + i - 1 = g + i
      BY <1>2, <1>6
    <3> QED
      BY <1>5, <1>6, <2>1, <3>1
  <2> QED
    BY <2>2
<1>8. FtNewLine(Kept, read_len) # 0 /\ read_len \in Int
  BY <1>1, GnlAssumption DEF Ready, Shapes
<1> DEFINE line == FtGnlStrdup(Kept, HeadLen(Kept, read_len))
           rest == FtGnlSubstr(Kept, HeadLen(Kept, read_len))
<1>9. PICK l \in Int :
           /\ 1 <= l /\ l <= k
           /\ line = SubSeq(Kept, 1, l)
           /\ rest = SubSeq(Kept, l + 1, k)
           /\ \A m \in 1..(l - 1) : Kept[m] # NL
           /\ Kept[1] = NL => l = 1
           /\ \/ Kept[l] = NL
              \/ l = k /\ read_len = 0 /\ FtNewLine(Kept, 10) = 0
              \/ variant = "plain" /\ l = 1 /\ read_len = 0 /\ 1 < k /\ Kept[2] = NL
  BY <1>2, <1>8, LineTaken
<1> HIDE DEF line, rest, g, k, o, t
<1>10. t \in Seq(Chars) /\ Len(t) \in Nat
  BY <1>1 DEF t
<1>11. line = SubSeq(t, g + 1, g + l)
  <2>1. 1 \in Int /\ 1 <= 1 /\ 1 <= l + 1 /\ l <= o - (g + 1) + 1
    BY <1>6, <1>9
  <2>2. SubSeq(SubSeq(t, g + 1, o), 1, l) = SubSeq(t, (g + 1) + 1 - 1, (g + 1) + l - 1)
    BY <1>5, <1>6, <1>9, <1>10, <2>1, PartOfPart
  <2>3. (g + 1) + 1 - 1 = g + 1 /\ (g + 1) + l - 1 = g + l
    BY <1>6, <1>9
  <2> QED
    BY <1>5, <1>9, <2>2, <2>3
<1>12. rest = SubSeq(t, g + l + 1, o)
  <2>1. k \in Int /\ l + 1 \in Int /\ 1 <= l + 1 /\ l + 1 <= k + 1 /\ k <= o - (g + 1) + 1
    BY <1>2, <1>6, <1>9 DEF k
  <2>2. SubSeq(SubSeq(t, g + 1, o), l + 1, k)
          = SubSeq(t, (g + 1) + (l + 1) - 1, (g + 1) + k - 1)
    BY <1>5, <1>6, <1>9, <1>10, <2>1, PartOfPart
  <2>3. (g + 1) + (l + 1) - 1 = g + l + 1 /\ (g + 1) + k - 1 = o
    BY <1>6, <1>9, <2>1
  <2> QED
    BY <1>5, <1>9, <2>2, <2>3
<1>13. line \in Seq(Chars) /\ Len(line) = l /\ \A m \in 1..l : line[m] = t[g + m]
  <2>1. g + l \in Int /\ g + 1 <= g + l + 1 /\ g + l <= Len(t) /\ g + l - (g + 1) + 1 = l
    <3>1. l <= k /\ g + k = o /\ o <= Len(t) /\ k \in Int
      BY <1>2, <1>5, <1>6, <1>9 DEF k
    <3> QED
      BY <1>6, <1>9, <1>10, <3>1
  <2>2. /\ SubSeq(t, g + 1, g + l) \in Seq(Chars)
        /\ Len(SubSeq(t, g + 1, g + l)) = g + l - (g + 1) + 1
        /\ \A i \in 1..(g + l - (g + 1) + 1) : SubSeq(t, g + 1, g + l)[i] = t[(g + 1) + i - 1]
    BY <1>6, <1>10, <2>1, Slice
  <2>3. ASSUME NEW m \in 1..l PROVE line[m] = t[g + m]
    <3>1. (g + 1) + m - 1 = g + m
      BY <1>6, <1>9
    <3> QED
      BY <1>11, <2>1, <2>2, <3>1
  <2> QED
    BY <1>11, <2>1, <2>2, <2>3
<1>14. rest \in Seq(Chars) /\ Len(rest) = o - g - l
  <2>1. g + l + 1 \in Int /\ 1 <= g + l + 1 /\ g + l + 1 <= o + 1 /\ o <= Len(t)
        /\ o - (g + l + 1) + 1 = o - g - l
    <3>1. l <= k /\ g + k = o /\ k \in Int
      BY <1>2, <1>6, <1>9 DEF k
    <3> QED
      BY <1>5, <1>6, <1>9, <1>10, <3>1
  <2>2. /\ SubSeq(t, g + l + 1, o) \in Seq(Chars)
        /\ Len(SubSeq(t, g + l + 1, o)) = o - (g + l + 1) + 1
    <3> DEFINE a == g + l + 1
    <3>1. a \in Int /\ o \in Int /\ 1 <= a /\ a <= o + 1 /\ o <= Len(t)
      BY <1>6, <2>1
    <3> HIDE DEF a
    <3>2. SubSeq(t, a, o) \in Seq(Chars) /\ Len(SubSeq(t, a, o)) = o - a + 1
      BY <1>10, <3>1, Slice
    <3> QED
      BY <3>2 DEF a
  <2> QED
    BY <1>12, <2>1, <2>2
<1>15. \A m \in 1..(l - 1) : t[g + m] # NL
  <2> SUFFICES ASSUME NEW m \in 1..(l - 1) PROVE t[g + m] # NL
    OBVIOUS
  <2>1. m \in 1..k
    BY <1>2, <1>9 DEF k
  <2> QED
    BY <1>7, <1>9, <2>1
<1>16. /\ g + l <= o
       /\ Kept[1] = t[g + 1] /\ Kept[l] = t[g + l]
       /\ 1 < k => Kept[2] = t[g + 2]
       /\ l = k => g + l = o
       /\ l < k => g + l < o
  <2>1. k \in Nat
    BY <1>2 DEF k
  <2>2. 1 \in 1..k /\ l \in 1..k /\ (1 < k => 2 \in 1..k)
    BY <1>9, <2>1
  <2>3. g + l <= o /\ (l = k => g + l = o) /\ (l < k => g + l < o)
    BY <1>6, <1>9, <2>1
  <2>4. Kept[1] = t[g + 1] /\ Kept[l] = t[g + l]
    BY <1>7, <2>2
  <2>5. 1 < k => Kept[2] = t[g + 2]
    BY <1>7, <2>2
  <2> QED
    BY <2>3, <2>4, <2>5
<1>17. t[g + 1] = NL => l = 1
  BY <1>9, <1>16
<1>18. \/ t[g + l] = NL
       \/ g + l = o /\ read_len = 0 /\ FtNewLine(Kept, 10) = 0
       \/ variant = "plain" /\ l = 1 /\ read_len = 0 /\ g + l < o /\ t[g + 2] = NL
  BY <1>9, <1>16
<1> QED
  BY <1>6, <1>9, <1>11, <1>12, <1>13, <1>14, <1>15, <1>16, <1>17, <1>18
  DEF line, rest, g, o, t

(* Every step keeps the types. *)
LEMMA ShapesStep ==
  ASSUME Shapes, Slotted, Slices, Ready, Taken, [Next]_vars
  PROVE  Shapes'
<1> USE GnlAssumption DEF Shapes
<1>1. CASE CallRefused
  BY <1>1 DEF CallRefused
<1>2. CASE Call
  <2>1. \A f \in Open : f \in Fds
    BY DEF Open
  <2> QED
    BY <1>2, <2>1 DEF Call
<1>3. CASE Buffer
  BY <1>3 DEF Buffer
<1>4. CASE BufferFails
  BY <1>4 DEF BufferFails, Oom
<1>5. CASE Read
  <2>1. PICK n \in Nat :
           /\ n <= BUFFER_SIZE /\ off[fd] + n <= Len(text[fd])
           /\ buf' = SubSeq(text[fd], off[fd] + 1, off[fd] + n)
           /\ buf' \in Seq(Chars) /\ Len(buf') = n
           /\ off' = [off EXCEPT ![fd] = @ + n]
           /\ read_len' = n
           /\ n = 0 => off[fd] = Len(text[fd])
    BY <1>5, WhatIsRead
  <2>2. off' \in [Open -> Nat]
    <3>1. fd \in Open /\ off[fd] \in Nat
      BY <1>5, AtWork DEF Read, Reading
    <3>2. off[fd] + n \in Nat
      BY <3>1
    <3> QED
      BY <2>1, <3>2
  <2>3. read_len' \in -1..BUFFER_SIZE /\ buf' \in Seq(Chars)
    BY <2>1
  <2>4. pc' \in {"dup", "join"}
    BY <1>5 DEF Read, Then
  <2> QED
    BY <1>5, <2>2, <2>3, <2>4 DEF Read
<1>6. CASE ReadFails
  <2>1. pc' \in {"dup", "join"} /\ buf' = <<>> /\ read_len' = -1 /\ errors' = errors + 1
    BY <1>6 DEF ReadFails, Then
  <2>2. buf' \in Seq(Chars)
    BY <2>1, NoElements
  <2> QED
    BY <1>6, <2>1, <2>2 DEF ReadFails
<1>7. CASE Dup
  <2>1. backup' = [backup EXCEPT ![fd] = buf]
    BY <1>7, AtWork DEF Dup
  <2>2. backup' \in [Open -> Seq(Chars) \cup {NULL}]
    BY <2>1
  <2> QED
    BY <1>7, <2>2 DEF Dup
<1>8. CASE DupFails
  <2>1. backup' = [backup EXCEPT ![fd] = NULL]
    BY <1>8, AtWork DEF DupFails
  <2>2. backup' \in [Open -> Seq(Chars) \cup {NULL}]
    BY <2>1
  <2> QED
    BY <1>8, <2>2 DEF DupFails, Oom, Crash
<1>9. CASE Join
  <2>1. backup' = [backup EXCEPT ![fd] = Kept \o buf] /\ Kept \in Seq(Chars)
    BY <1>9, AtWork DEF Join
  <2>2. Kept \o buf \in Seq(Chars)
    BY <2>1, ConcatProperties
  <2>3. backup' \in [Open -> Seq(Chars) \cup {NULL}]
    BY <2>1, <2>2
  <2> QED
    BY <1>9, <2>3 DEF Join
<1>10. CASE JoinFails
  <2>1. backup' = [backup EXCEPT ![fd] = NULL]
    BY <1>10, AtWork DEF JoinFails
  <2>2. backup' \in [Open -> Seq(Chars) \cup {NULL}]
    BY <2>1
  <2> QED
    BY <1>10, <2>2 DEF JoinFails, Oom, Crash
<1>11. CASE FollowsNull
  BY <1>11 DEF FollowsNull, Crash
<1>12. CASE EndOfFile
  <2>1. backup' = [backup EXCEPT ![fd] = NULL]
    BY <1>12, AtWork DEF EndOfFile
  <2>2. backup' \in [Open -> Seq(Chars) \cup {NULL}]
    BY <2>1
  <2> QED
    BY <1>12, <2>2 DEF EndOfFile, Return
<1>13. CASE TakeLine
  BY <1>13 DEF TakeLine, Oom
<1>14. CASE PutBack
  <2> DEFINE rest == FtGnlSubstr(Kept, HeadLen(Kept, read_len))
  <2>1. fd \in Open /\ backup[fd] # NULL /\ backup[fd] # <<>> /\ Kept = backup[fd]
        /\ lines[fd] \in Seq(Seq(Chars)) /\ pc = "rest"
    BY <1>14, AtWork DEF PutBack, Taken, Slices, SliceOf
  <2>2. rest \in Seq(Chars) /\ FtGnlStrdup(Kept, HeadLen(Kept, read_len)) \in Seq(Chars)
    BY <2>1, LineOfText
  <2>3. backup' = [backup EXCEPT ![fd] = IF rest = <<>> THEN NULL ELSE rest]
    BY <1>14, AtWork DEF PutBack
  <2>4. gnl # NULL => gnl \in Seq(Chars)
    BY <2>1, <2>2 DEF Taken
  <2>5. gnl # NULL => lines' = [lines EXCEPT ![fd] = Append(@, gnl)]
    BY <1>14 DEF PutBack, Return
  <2>6. gnl = NULL => lines' = lines
    BY <1>14 DEF PutBack, Return
  <2>7. gnl # NULL => Append(lines[fd], gnl) \in Seq(Seq(Chars))
    BY <2>1, <2>4, Appending
  <2>8. lines' \in [Open -> Seq(Seq(Chars))]
    BY <2>1, <2>5, <2>6, <2>7
  <2>9. backup' \in [Open -> Seq(Chars) \cup {NULL}]
    <3> HIDE DEF rest
    <3> QED
      BY <2>2, <2>3
  <2>10. pc' = "idle"
    BY <1>14 DEF PutBack, Return
  <2> QED
    BY <1>14, <2>8, <2>9, <2>10 DEF PutBack
<1>15. CASE PutBackFails
  <2>1. backup' = [backup EXCEPT ![fd] = NULL]
    BY <1>15, AtWork DEF PutBackFails
  <2>2. backup' \in [Open -> Seq(Chars) \cup {NULL}]
    BY <2>1
  <2> QED
    BY <1>15, <2>2 DEF PutBackFails, Oom, Crash
<1>16. CASE Done
  BY <1>16 DEF Done, vars
<1>17. CASE UNCHANGED vars
  BY <1>17 DEF vars
<1> QED
  BY <1>1, <1>2, <1>3, <1>4, <1>5, <1>6, <1>7, <1>8, <1>9, <1>10, <1>11, <1>12,
     <1>13, <1>14, <1>15, <1>16, <1>17 DEF Next

(* A call keeps its descriptor, and the plain variant its only one. *)
LEMMA SlottedStep ==
  ASSUME Shapes, Slotted, [Next]_vars
  PROVE  Slotted'
<1>1. CASE CallRefused
  BY <1>1 DEF CallRefused, Slotted, FdOK
<1>2. CASE Call
  <2>1. PICK f \in Open : Callable(f) /\ fd' = f
    BY <1>2 DEF Call
  <2>2. FdOK(f) /\ variant' = variant
    BY <1>2, Places DEF Call
  <2>3. FdOK(fd')
    BY <2>1, <2>2
  <2>4. variant' = "plain" => fd' = 0
    BY <2>1, <2>2 DEF Callable
  <2> QED
    BY <2>3, <2>4 DEF Slotted, FdOK
<1>3. ASSUME fd' = fd, variant' = variant, pc # "idle" \/ pc' = "idle"
      PROVE  Slotted'
  BY <1>3 DEF Slotted, FdOK
<1>4. CASE Buffer
  BY <1>3, <1>4 DEF Buffer
<1>5. CASE BufferFails
  BY <1>3, <1>5 DEF BufferFails
<1>6. CASE Read
  BY <1>3, <1>6 DEF Read, Reading
<1>7. CASE ReadFails
  BY <1>3, <1>7 DEF ReadFails, Reading
<1>8. CASE Dup
  BY <1>3, <1>8 DEF Dup
<1>9. CASE DupFails
  BY <1>3, <1>9 DEF DupFails, Crash
<1>10. CASE Join
  BY <1>3, <1>10 DEF Join
<1>11. CASE JoinFails
  BY <1>3, <1>11 DEF JoinFails, Crash
<1>12. CASE FollowsNull
  BY <1>3, <1>12 DEF FollowsNull, Crash
<1>13. CASE EndOfFile
  BY <1>3, <1>13 DEF EndOfFile
<1>14. CASE TakeLine
  BY <1>3, <1>14 DEF TakeLine
<1>15. CASE PutBack
  BY <1>3, <1>15 DEF PutBack
<1>16. CASE PutBackFails
  BY <1>3, <1>16 DEF PutBackFails, Crash
<1>17. CASE Done
  BY <1>3, <1>17 DEF Done, vars
<1>18. CASE UNCHANGED vars
  BY <1>3, <1>18 DEF vars
<1> QED
  BY <1>1, <1>2, <1>4, <1>5, <1>6, <1>7, <1>8, <1>9, <1>10, <1>11, <1>12, <1>13,
     <1>14, <1>15, <1>16, <1>17, <1>18 DEF Next

-----------------------------------------------------------------------------
(* Every step keeps the invariant. *)

(* Nothing is lost but by PutBack, which returns it, and without memory.   *)
Same(f) == Given(f)' = Given(f) /\ off[f] <= off'[f]

(* The types of what belongs to a descriptor. *)
LEMMA SliceFacts ==
  ASSUME Shapes, Slices, NEW f \in Open
  PROVE  /\ off[f] \in Nat /\ text[f] \in Seq(Chars) /\ Len(text[f]) \in Nat
         /\ backup[f] \in Seq(Chars) \cup {NULL}
         /\ Held(f) \in Seq(Chars) /\ Len(Held(f)) \in Nat
         /\ SliceOf(f)
<1>1. text[f] \in Seq(Chars) /\ off[f] \in Nat /\ backup[f] \in Seq(Chars) \cup {NULL}
  BY Places DEF Shapes
<1>2. Held(f) \in Seq(Chars)
  BY <1>1, NoElements DEF Held
<1> QED
  BY <1>1, <1>2 DEF Slices

(* A call leaves the other descriptors alone. *)
LEMMA Elsewhere ==
  ASSUME Shapes, Slices, NEW f \in Open, f # fd, fd' = fd, text' = text,
         off'[f] = off[f], backup'[f] = backup[f]
  PROVE  SliceOf(f)' /\ Same(f)
<1>1. Arrived(f)' = Arrived(f)
  BY DEF Arrived
<1>2. backup[f] # <<>>
  BY SliceFacts DEF SliceOf
<1>3. Held(f)' = Held(f)
  BY DEF Held
<1>4. Given(f)' = Given(f)
  BY <1>1, <1>3 DEF Given
<1> QED
  BY <1>1, <1>2, <1>3, <1>4, SliceFacts DEF SliceOf, Same

(* Putting back the rest returns exactly the line. *)
LEMMA PutBackSlice ==
  ASSUME Shapes, Slotted, Slices, Ready, Taken, PutBack, NEW f \in Open
  PROVE  /\ SliceOf(f)'
         /\ f # fd => Same(f)
         /\ f = fd => Given(f)' = Given(f) + Len(FtGnlStrdup(Kept, HeadLen(Kept, read_len)))
<1>1. /\ text' = text /\ off' = off /\ fd' = fd /\ fd \in Open /\ pc = "rest"
      /\ pc' = "idle" /\ Kept = backup[fd]
      /\ backup[fd] # NULL /\ backup[fd] # <<>>
  BY AtWork DEF PutBack, Return, Taken, Slices, SliceOf
<1> DEFINE rest == FtGnlSubstr(Kept, HeadLen(Kept, read_len))
<1>2. backup' = [backup EXCEPT ![fd] = IF rest = <<>> THEN NULL ELSE rest]
  BY AtWork DEF PutBack
<1>3. CASE f # fd
  BY <1>1, <1>2, <1>3, Elsewhere DEF Shapes
<1>4. CASE f = fd
  <2>1. PICK l \in Int :
          /\ 1 <= l /\ Given(fd) \in Int /\ 0 <= Given(fd) /\ Given(fd) + l <= off[fd]
          /\ Len(FtGnlStrdup(Kept, HeadLen(Kept, read_len))) = l
          /\ rest = SubSeq(text[fd], Given(fd) + l + 1, off[fd])
          /\ rest \in Seq(Chars)
          /\ Len(rest) = off[fd] - Given(fd) - l
    BY <1>1, LineOfText
  <2> HIDE DEF rest
  <2>2. backup'[f] = IF rest = <<>> THEN NULL ELSE rest
    BY <1>2, <1>4 DEF Shapes
  <2>3. Held(f)' = rest
    BY <2>1, <2>2, NullIsNoText DEF Held
  <2>4. Arrived(f)' = off[f]
    BY SliceFacts, <1>1 DEF Arrived
  <2>5. Given(f)' = off[f] - Len(rest)
    BY <1>1, <2>3, <2>4 DEF Given
  <2>6. Given(f)' = Given(f) + l /\ Len(rest) <= off[f]
    <3> DEFINE o == off[f]
               g == Given(f)
               r == Len(rest)
    <3>1. o \in Nat /\ g \in Int /\ 0 <= g /\ g + l <= o /\ r = o - g - l /\ 1 <= l
          /\ Given(f)' = o - r
      BY SliceFacts, <1>4, <2>1, <2>5
    <3> HIDE DEF o, g, r
    <3>2. o - r = g + l /\ r <= o
      BY <3>1
    <3> QED
      BY <3>1, <3>2 DEF o, g, r
  <2>7. backup'[f] # <<>>
    BY <2>2, NullIsNoText
  <2>8. off[f] <= Len(text[f])
    BY SliceFacts DEF SliceOf
  <2>9. SliceOf(f)'
    BY <1>1, <1>4, <2>1, <2>3, <2>4, <2>6, <2>7, <2>8 DEF SliceOf
  <2> QED
    BY <1>4, <2>1, <2>6, <2>9
<1> QED
  BY <1>3, <1>4

(* Every step keeps what is kept of a descriptor a part of its text, and   *)
(* while memory lasts none but PutBack changes how much of it was          *)
(* returned.                                                               *)
LEMMA SliceOfStep ==
  ASSUME Shapes, Slotted, Slices, Buffered, Ready, Taken, Remembered, Shapes',
         [Next]_vars, NEW f \in Open
  PROVE  /\ SliceOf(f)'
         /\ ooms' = 0 /\ ~ (PutBack /\ f = fd) => Same(f)
<1>1. /\ off[f] \in Nat /\ text[f] \in Seq(Chars) /\ Len(text[f]) \in Nat
      /\ backup[f] \in Seq(Chars) \cup {NULL}
      /\ Held(f) \in Seq(Chars) /\ Len(Held(f)) \in Nat
      /\ SliceOf(f)
  BY SliceFacts
<1>2. ASSUME text' = text, off'[f] = off[f], backup'[f] = backup[f],
             Arrived(f)' = Arrived(f), backup[f] = <<>> => pc' = "head" /\ f = fd'
      PROVE  SliceOf(f)' /\ Same(f)
  <2>1. Held(f)' = Held(f)
    BY <1>2 DEF Held
  <2>2. Given(f)' = Given(f)
    BY <1>2, <2>1 DEF Given
  <2> QED
    BY <1>1, <1>2, <2>1, <2>2 DEF SliceOf, Same
<1>3. ASSUME f # fd, fd' = fd, text' = text, off'[f] = off[f], backup'[f] = backup[f]
      PROVE  SliceOf(f)' /\ Same(f)
  BY <1>3, Elsewhere
<1>4. ASSUME fd' = fd, text' = text, off' = off, backup' = [backup EXCEPT ![fd] = NULL],
             pc' \notin {"dup", "join"}, pc # "idle"
      PROVE  SliceOf(f)'
  <2>1. CASE f # fd
    BY <1>3, <1>4, <2>1 DEF Shapes
  <2>2. CASE f = fd
    <3>1. backup'[f] = NULL /\ Arrived(f)' = off[f]
      BY <1>1, <1>4, <2>2 DEF Arrived, Shapes
    <3>2. Held(f)' = <<>> /\ Given(f)' = off[f]
      BY <1>1, <3>1 DEF Held, Given
    <3>3. off[f] + 1 \in Int /\ off[f] < off[f] + 1
      BY <1>1
    <3>4. SubSeq(text[f], off[f] + 1, off[f]) = <<>>
      BY <1>1, <3>3, SubSeqEmpty
    <3>5. Len(Held(f)') <= off[f]
      BY <1>1, <3>2
    <3>6. off[f] <= Len(text[f])
      BY <1>1 DEF SliceOf
    <3> QED
      BY <1>4, <3>1, <3>2, <3>4, <3>5, <3>6, NullIsNoText DEF SliceOf
  <2> QED
    BY <2>1, <2>2
<1>5. ASSUME Oom PROVE ooms' # 0
  BY <1>5 DEF Oom, Shapes
<1>6. ASSUME off' = off, text' = text, backup' = backup,
             pc \notin {"dup", "join"}, pc' \notin {"dup", "join"}, backup[f] # <<>>
      PROVE  SliceOf(f)' /\ Same(f)
  <2>1. Arrived(f)' = Arrived(f)
    BY <1>6 DEF Arrived
  <2> QED
    BY <1>2, <1>6, <2>1
<1>7. pc # "head" => backup[f] # <<>>
  BY <1>1 DEF SliceOf
<1>8. CASE CallRefused
  BY <1>6, <1>7, <1>8 DEF CallRefused
<1>9. CASE Call
  BY <1>6, <1>7, <1>9 DEF Call
<1>10. CASE Buffer
  BY <1>6, <1>7, <1>10 DEF Buffer
<1>11. CASE BufferFails
  BY <1>6, <1>7, <1>11 DEF BufferFails
<1>12. CASE Read
  <2>1. PICK n \in Nat :
           /\ n <= BUFFER_SIZE /\ off[fd] + n <= Len(text[fd])
           /\ buf' = SubSeq(text[fd], off[fd] + 1, off[fd] + n)
           /\ buf' \in Seq(Chars) /\ Len(buf') = n
           /\ off' = [off EXCEPT ![fd] = @ + n]
           /\ read_len' = n
           /\ n = 0 => off[fd] = Len(text[fd])
    BY <1>12, WhatIsRead
  <2>2. /\ text' = text /\ backup' = backup /\ fd' = fd /\ pc \in {"first", "more"}
        /\ pc' \in {"dup", "join"} /\ backup[f] # <<>>
    BY <1>7, <1>12 DEF Read, Reading, Then
  <2>3. CASE f # fd
    <3>1. off'[f] = off[f]
      BY <2>1, <2>3 DEF Shapes
    <3> QED
      BY <1>3, <2>2, <2>3, <3>1
  <2>4. CASE f = fd
    <3>1. off'[f] = off[f] + n
      BY <2>1, <2>4 DEF Shapes
    <3> DEFINE o == off[f]
    <3>2. Arrived(f)' = off[f] /\ Arrived(f) = off[f]
      <4>1. Arrived(f)' = off'[f] - Len(buf')
        BY <2>2, <2>4 DEF Arrived
      <4>2. Arrived(f) = o - 0
        BY <2>2 DEF Arrived
      <4>3. Len(buf') = n /\ off'[f] = o + n /\ o \in Nat
        BY <1>1, <2>1, <3>1
      <4> HIDE DEF o
      <4>4. off'[f] - Len(buf') = o /\ o - 0 = o
        BY <4>3
      <4> QED
        BY <4>1, <4>2, <4>4 DEF o
    <3>3. Held(f)' = Held(f)
      BY <2>2 DEF Held
    <3>4. Given(f)' = Given(f)
      BY <3>2, <3>3 DEF Given
    <3>5. off'[f] <= Len(text[f]) /\ off[f] <= off'[f]
      <4>1. o \in Nat /\ o + n <= Len(text[f]) /\ off'[f] = o + n
        BY <1>1, <2>1, <2>4, <3>1
      <4>2. o <= o + n
        <5> HIDE DEF o
        <5> QED
          BY <4>1
      <4> QED
        BY <4>1, <4>2
    <3> HIDE DEF o
    <3> QED
      BY <1>1, <2>2, <3>2, <3>3, <3>4, <3>5 DEF SliceOf, Same
  <2> QED
    BY <2>3, <2>4
<1>13. CASE ReadFails
  <2>1. /\ text' = text /\ backup' = backup /\ fd' = fd /\ off' = off
        /\ pc \in {"first", "more"} /\ buf' = <<>> /\ backup[f] # <<>>
    BY <1>7, <1>13 DEF ReadFails, Reading
  <2>2. Arrived(f)' = Arrived(f)
    BY <1>1, <2>1 DEF Arrived
  <2> QED
    BY <1>2, <2>1, <2>2
<1>14. CASE Dup
  <2>1. /\ text' = text /\ off' = off /\ fd' = fd /\ fd \in Open /\ pc = "dup"
        /\ backup' = [backup EXCEPT ![fd] = buf]
        /\ pc' = IF FtNewLine(buf, read_len) # 0 \/ (read_len <= 0 /\ buf = <<>>)
                 THEN "head" ELSE "more"
    BY <1>14, AtWork DEF Dup
  <2>2. CASE f # fd
    BY <1>3, <2>1, <2>2 DEF Shapes
  <2>3. CASE f = fd
    <3>1. /\ Len(buf) <= off[f]
          /\ buf = SubSeq(text[f], off[f] - Len(buf) + 1, off[f])
          /\ buf = <<>> <=> read_len <= 0
          /\ backup[f] = NULL
      BY <2>1, <2>3 DEF Buffered
    <3>2. backup'[f] = buf /\ buf \in Seq(Chars) /\ Len(buf) \in Nat
      BY <2>1, <2>3 DEF Shapes
    <3>3. buf # NULL
      BY <3>2, NullIsNoText
    <3>4. Held(f) = <<>> /\ Held(f)' = buf
      BY <3>1, <3>2, <3>3 DEF Held
    <3>5. pc' \notin {"dup", "join"}
      BY <2>1
    <3>6. Arrived(f) = off[f] - Len(buf) /\ Arrived(f)' = off[f]
      BY <1>1, <2>1, <2>3, <3>5 DEF Arrived
    <3>7. Given(f) = off[f] - Len(buf) /\ Given(f)' = off[f] - Len(buf)
      BY <1>1, <3>2, <3>4, <3>6 DEF Given
    <3>8. backup'[f] = <<>> => pc' = "head" /\ f = fd'
      BY <2>1, <2>3, <3>1, <3>2
    <3>9. off[f] <= Len(text[f])
      BY <1>1 DEF SliceOf
    <3>10. off'[f] <= Len(text'[f]) /\ off[f] <= off'[f]
      BY <1>1, <2>1, <3>9
    <3>11. Len(Held(f)') <= Arrived(f)'
      BY <3>1, <3>4, <3>6
    <3>12. Held(f)' = SubSeq(text'[f], Given(f)' + 1, Arrived(f)')
      BY <2>1, <3>1, <3>4, <3>6, <3>7
    <3>13. SliceOf(f)'
      BY <3>8, <3>10, <3>11, <3>12 DEF SliceOf
    <3> QED
      BY <3>7, <3>10, <3>13 DEF Same
  <2> QED
    BY <2>2, <2>3
<1>15. CASE DupFails
  <2>1. /\ backup' = [backup EXCEPT ![fd] = NULL]
        /\ pc' \notin {"dup", "join"} /\ pc # "idle"
        /\ fd' = fd /\ text' = text /\ off' = off
    BY <1>15, AtWork DEF DupFails, Crash
  <2>2. ooms' # 0
    BY <1>5, <1>15 DEF DupFails
  <2> QED
    BY <1>4, <2>1, <2>2
<1>16. CASE Join
  <2>1. /\ text' = text /\ off' = off /\ fd' = fd /\ fd \in Open /\ pc = "join"
        /\ backup' = [backup EXCEPT ![fd] = backup[fd] \o buf]
        /\ pc' \in {"head", "more"} /\ backup[fd] # NULL
    BY <1>16, AtWork DEF Join
  <2>2. CASE f # fd
    BY <1>3, <2>1, <2>2 DEF Shapes
  <2>3. CASE f = fd
    <3>1. /\ Len(buf) <= off[f]
          /\ buf = SubSeq(text[f], off[f] - Len(buf) + 1, off[f])
      BY <2>1, <2>3 DEF Buffered
    <3>2. /\ buf \in Seq(Chars) /\ Len(buf) \in Nat
          /\ backup[f] \in Seq(Chars) /\ backup[f] # <<>>
          /\ Held(f) = backup[f]
      BY <1>1, <1>7, <2>1, <2>3 DEF Shapes, Held
    <3> DEFINE both == backup[f] \o buf
    <3>3. backup'[f] = both
      BY <2>1, <2>3 DEF Shapes
    <3>4. both \in Seq(Chars) /\ Len(both) = Len(Held(f)) + Len(buf)
      BY <3>2, ConcatProperties
    <3>5. both # <<>>
      BY <3>2, ConcatSimplifications
    <3>6. Held(f)' = both
      BY <3>3, <3>4, NullIsNoText DEF Held
    <3> DEFINE k == Len(Held(f))
               b == Len(buf)
               o == off[f]
    <3>7. Arrived(f) = o - b /\ Arrived(f)' = o
      BY <1>1, <2>1, <2>3 DEF Arrived
    <3>8. Given(f) = o - b - k /\ Given(f)' = o - (k + b)
      BY <3>4, <3>6, <3>7 DEF Given
    <3>9. k \in Nat /\ b \in Nat /\ o \in Nat /\ k <= o - b /\ o <= Len(text[f])
      BY <1>1, <3>2, <3>7 DEF SliceOf
    <3>10. backup[f] = SubSeq(text[f], o - b - k + 1, o - b)
      BY <1>1, <3>2, <3>7, <3>8 DEF SliceOf
    <3>11. buf = SubSeq(text[f], o - b + 1, o)
      BY <3>1
    <3>12. both = SubSeq(text[f], o - b - k + 1, o)
      <4> DEFINE from == o - b - k + 1
                 mid  == o - b
      <4>1. /\ from \in Int /\ mid \in Int /\ o \in Int
            /\ 1 <= from /\ from <= mid + 1 /\ mid <= o /\ o <= Len(text[f])
        <5> HIDE DEF o, b, k
        <5> QED
          BY <3>9
      <4>2. backup[f] = SubSeq(text[f], from, mid) /\ buf = SubSeq(text[f], mid + 1, o)
        BY <3>10, <3>11
      <4> HIDE DEF from, mid, o
      <4>3. SubSeq(text[f], from, mid) \o SubSeq(text[f], mid + 1, o)
              = SubSeq(text[f], from, o)
        BY <1>1, <4>1, Cut
      <4>4. both = SubSeq(text[f], from, o)
        BY <4>2, <4>3
      <4> QED
        BY <4>4 DEF from, o
    <3>13. Given(f)' = Given(f) /\ Given(f)' + 1 = o - b - k + 1 /\ k + b <= o
      <4> HIDE DEF o, b, k
      <4> QED
        BY <3>8, <3>9
    <3>14. Held(f)' = SubSeq(text[f], Given(f)' + 1, Arrived(f)')
      BY <3>6, <3>7, <3>12, <3>13
    <3>15. Len(Held(f)') <= Arrived(f)'
      BY <3>4, <3>6, <3>7, <3>13
    <3>16. off'[f] <= Len(text'[f]) /\ off[f] <= off'[f]
      BY <2>1, <3>9
    <3> HIDE DEF both, k, b, o
    <3>17. SliceOf(f)'
      BY <2>1, <3>3, <3>5, <3>14, <3>15, <3>16 DEF SliceOf
    <3> QED
      BY <3>13, <3>16, <3>17 DEF Same
  <2> QED
    BY <2>2, <2>3
<1>17. CASE JoinFails
  <2>1. /\ backup' = [backup EXCEPT ![fd] = NULL]
        /\ pc' \notin {"dup", "join"} /\ pc # "idle"
        /\ fd' = fd /\ text' = text /\ off' = off
    BY <1>17, AtWork DEF JoinFails, Crash
  <2>2. ooms' # 0
    BY <1>5, <1>17 DEF JoinFails
  <2> QED
    BY <1>4, <2>1, <2>2
<1>18. CASE FollowsNull
  <2>1. /\ backup[fd] = NULL /\ backup' = backup /\ ooms' = ooms
        /\ pc' \notin {"dup", "join"} /\ pc \in {"join", "head"}
        /\ fd' = fd /\ text' = text /\ off' = off
    BY <1>18, AtWork DEF FollowsNull, Crash
  <2>2. ooms' # 0
    BY <2>1 DEF Remembered
  <2>3. backup' = [backup EXCEPT ![fd] = NULL]
    BY <2>1 DEF Shapes
  <2>4. SliceOf(f)'
    BY <1>4, <2>1, <2>3
  <2> QED
    BY <2>2, <2>4
<1>19. CASE EndOfFile
  <2>1. /\ backup' = [backup EXCEPT ![fd] = NULL] /\ backup[fd] = <<>>
        /\ pc' \notin {"dup", "join"} /\ pc = "head"
        /\ fd' = fd /\ text' = text /\ off' = off
    BY <1>19, AtWork DEF EndOfFile, Nothing, Return
  <2>2. SliceOf(f)'
    BY <1>4, <2>1
  <2>3. Held(f)' = Held(f)
    <3>1. CASE f = fd
      BY <2>1, <3>1 DEF Held, Shapes
    <3>2. CASE f # fd
      BY <2>1, <3>2 DEF Held, Shapes
    <3> QED
      BY <3>1, <3>2
  <2>4. Arrived(f)' = Arrived(f)
    BY <2>1 DEF Arrived
  <2> QED
    BY <1>1, <2>1, <2>2, <2>3, <2>4 DEF Given, Same
<1>20. CASE TakeLine
  <2>1. /\ backup' = backup /\ pc = "head" /\ pc' = "rest" /\ off' = off /\ text' = text
        /\ backup[fd] # NULL /\ ~ (read_len <= 0 /\ backup[fd] = <<>>)
    BY <1>20, AtWork DEF TakeLine, Nothing
  <2>2. backup[fd] # <<>>
    BY <2>1 DEF Ready
  <2>3. backup[f] # <<>>
    BY <1>1, <2>2 DEF SliceOf
  <2> QED
    BY <1>6, <2>1, <2>3
<1>21. CASE PutBack
  BY <1>21, PutBackSlice
<1>22. CASE PutBackFails
  <2>1. /\ backup' = [backup EXCEPT ![fd] = NULL]
        /\ pc' \notin {"dup", "join"} /\ pc # "idle"
        /\ fd' = fd /\ text' = text /\ off' = off
    BY <1>22, AtWork DEF PutBackFails, Crash
  <2>2. ooms' # 0
    BY <1>5, <1>22 DEF PutBackFails
  <2> QED
    BY <1>4, <2>1, <2>2
<1>23. CASE UNCHANGED vars
  <2>1. Arrived(f)' = Arrived(f)
    BY <1>23 DEF Arrived, vars
  <2> QED
    BY <1>1, <1>2, <1>23, <2>1 DEF vars, SliceOf
<1>24. CASE Done
  BY <1>23, <1>24 DEF Done
<1> QED
  BY <1>8, <1>9, <1>10, <1>11, <1>12, <1>13, <1>14, <1>15, <1>16, <1>17, <1>18, <1>19,
     <1>20, <1>21, <1>22, <1>23, <1>24 DEF Next

(* The buffer holds what was read last. *)
LEMMA BufferedStep ==
  ASSUME Shapes, Slotted, Slices, Buffered, [Next]_vars
  PROVE  Buffered'
<1>1. errors \in Nat /\ errors + 1 > 0
  BY DEF Shapes
<1>2. CASE CallRefused
  BY <1>2 DEF CallRefused, Buffered
<1>3. CASE Call
  BY <1>3 DEF Call, Buffered
<1>4. CASE Buffer
  <2>1. Kept = backup[fd]
    BY <1>4, AtWork DEF Buffer
  <2> QED
    BY <1>4, <2>1 DEF Buffer, Buffered
<1>5. CASE BufferFails
  BY <1>5 DEF BufferFails, Buffered
<1>6. CASE Read
  <2>1. PICK n \in Nat :
           /\ n <= BUFFER_SIZE /\ off[fd] + n <= Len(text[fd])
           /\ buf' = SubSeq(text[fd], off[fd] + 1, off[fd] + n)
           /\ buf' \in Seq(Chars) /\ Len(buf') = n
           /\ off' = [off EXCEPT ![fd] = @ + n]
           /\ read_len' = n
           /\ n = 0 => off[fd] = Len(text[fd])
    BY <1>6, WhatIsRead
  <2> DEFINE o == off[fd]
  <2>2. /\ pc \in {"first", "more"} /\ fd' = fd /\ text' = text /\ backup' = backup
        /\ pc' = IF pc = "first" THEN "dup" ELSE "join"
        /\ fd \in Open /\ o \in Nat /\ errors' = errors
    BY <1>6, AtWork DEF Read, Reading, Then
  <2>3. off'[fd] = o + n
    BY <2>1, <2>2 DEF Shapes
  <2>4. n <= o + n /\ o + n - n = o
    <3> HIDE DEF o
    <3> QED
      BY <2>2
  <2>5. Len(buf') <= off'[fd]
    BY <2>1, <2>3, <2>4
  <2>6. buf' = SubSeq(text[fd], off'[fd] - Len(buf') + 1, off'[fd])
    <3>1. off'[fd] - Len(buf') = o
      <4>1. Len(buf') = n /\ off'[fd] = o + n /\ o \in Nat
        BY <2>1, <2>2, <2>3
      <4> HIDE DEF o
      <4> QED
        BY <4>1
    <3> QED
      BY <2>1, <2>3, <3>1
  <2>7. read_len' = 0 => off'[fd] = Len(text[fd])
    <3>1. n = 0 => o + n = o
      <4> HIDE DEF o
      <4> QED
        BY <2>2
    <3> QED
      BY <2>1, <2>3, <3>1
  <2>8. buf' = <<>> <=> read_len' <= 0
    <3>1. buf' \in Seq(Chars) /\ Len(buf') = n /\ read_len' = n
      BY <2>1
    <3>2. buf' = <<>> <=> n = 0
      BY <3>1, EmptySeq
    <3> QED
      BY <3>1, <3>2
  <2>9. pc' = "dup" => backup[fd] = NULL
    BY <2>2 DEF Buffered
  <2>10. ~ (read_len' = -1) /\ pc' \notin {"first", "buffer"}
    BY <2>1, <2>2
  <2> HIDE DEF o
  <2> QED
    BY <2>2, <2>5, <2>6, <2>7, <2>8, <2>9, <2>10 DEF Buffered
<1>7. CASE ReadFails
  <2>1. /\ pc \in {"first", "more"} /\ fd' = fd /\ text' = text /\ backup' = backup
        /\ pc' = IF pc = "first" THEN "dup" ELSE "join"
        /\ buf' = <<>> /\ read_len' = -1 /\ errors' = errors + 1 /\ off' = off
        /\ off[fd] \in Nat /\ text[fd] \in Seq(Chars)
    BY <1>7, AtWork DEF ReadFails, Reading, Then
  <2> DEFINE o == off[fd]
  <2>2. Len(buf') = 0 /\ o - 0 + 1 \in Int /\ o < o - 0 + 1 /\ o \in Int /\ 0 <= o
    BY <2>1
  <2>3. SubSeq(text[fd], o - 0 + 1, o) = <<>>
    <3> HIDE DEF o
    <3> QED
      BY <2>2, SubSeqEmpty
  <2>4. buf' = SubSeq(text[fd], off[fd] - Len(buf') + 1, off[fd]) /\ Len(buf') <= off[fd]
    BY <2>1, <2>2, <2>3
  <2>5. read_len' <= 0 /\ read_len' # 0
    BY <2>1
  <2>6. pc' = "dup" => backup[fd] = NULL
    BY <2>1 DEF Buffered
  <2> HIDE DEF o
  <2> QED
    BY <1>1, <2>1, <2>4, <2>5, <2>6 DEF Buffered
<1>8. CASE Dup
  BY <1>8 DEF Dup, Buffered
<1>9. CASE DupFails
  BY <1>9 DEF DupFails, Crash, Buffered
<1>10. CASE Join
  BY <1>10 DEF Join, Buffered
<1>11. CASE JoinFails
  <2>1. backup' = [backup EXCEPT ![fd] = NULL] /\ fd \in Open
    BY <1>11, AtWork DEF JoinFails
  <2>2. backup'[fd] = NULL
    BY <2>1 DEF Shapes
  <2> QED
    BY <1>11, <2>2 DEF JoinFails, Crash, Buffered
<1>12. CASE FollowsNull
  BY <1>12 DEF FollowsNull, Crash, Buffered
<1>13. CASE EndOfFile
  BY <1>13 DEF EndOfFile, Return, Buffered
<1>14. CASE TakeLine
  BY <1>14 DEF TakeLine, Buffered
<1>15. CASE PutBack
  BY <1>15 DEF PutBack, Return, Buffered
<1>16. CASE PutBackFails
  BY <1>16 DEF PutBackFails, Crash, Buffered
<1>17. CASE UNCHANGED vars
  BY <1>17 DEF vars, Buffered
<1>18. CASE Done
  BY <1>17, <1>18 DEF Done
<1> QED
  BY <1>2, <1>3, <1>4, <1>5, <1>6, <1>7, <1>8, <1>9, <1>10, <1>11, <1>12, <1>13,
     <1>14, <1>15, <1>16, <1>17, <1>18 DEF Next

(* At the end of a file every text is a line. *)
LEMMA AtTheEnd ==
  ASSUME NEW str \in Seq(Chars), str # <<>>
  PROVE  FtNewLine(str, 0) # 0
<1> DEFINE none == 0
<1>1. none \in Int /\ none = 0
  OBVIOUS
<1> HIDE DEF none
<1>2. PICK n \in Int :
           /\ 0 <= n /\ n <= Len(str) /\ Len(str) \in Nat /\ 1 <= Len(str)
           /\ n = Len(str) \/ str[n + 1] = NL
           /\ \A m \in 1..n : str[m] # NL
           /\ str[1] = NL <=> n = 0
           /\ n = 0 => FtNewLine(str, none) = 1
           /\ n # 0 => FtNewLine(str, none) = IF n = Len(str) /\ none # 0 THEN 0 ELSE n
  BY <1>1, NewLine
<1>3. FtNewLine(str, none) # 0
  BY <1>1, <1>2
<1> QED
  BY <1>3 DEF none

(* ft_read_file ends with a line or at the end of the file. *)
LEMMA ReadyStep ==
  ASSUME Shapes, Slotted, Slices, Buffered, Ready, Slotted', [Next]_vars
  PROVE  Ready'
<1>1. ASSUME pc' \notin {"head", "rest"} PROVE Ready'
  BY <1>1 DEF Ready
<1>2. ASSUME Oom PROVE ooms' # 0
  BY <1>2 DEF Oom, Shapes
<1>3. CASE CallRefused
  BY <1>1, <1>3 DEF CallRefused
<1>4. CASE Call
  <2>1. PICK f \in Open :
          /\ fd' = f
          /\ pc' = IF variant = "bonus" /\ backup[f] # NULL /\ FtNewLine(backup[f], 10) # 0
                   THEN "head" ELSE "buffer"
    BY <1>4 DEF Call
  <2>2. read_len' = 0 /\ backup' = backup /\ variant' = variant /\ pc = "idle"
    BY <1>4 DEF Call
  <2>3. backup[f] \in Seq(Chars) \cup {NULL} /\ backup[f] # <<>>
    BY <2>2 DEF Shapes, Slices, SliceOf
  <2>4. backup[f] # NULL => FtNewLine(backup[f], 0) # 0
    BY <2>3, AtTheEnd
  <2>5. CASE pc' = "head"
    <3>1. /\ variant' = "bonus" /\ FtNewLine(backup'[fd'], 10) # 0
          /\ FtNewLine(backup'[fd'], read_len') # 0 /\ backup'[fd'] # <<>>
      BY <2>1, <2>2, <2>3, <2>4, <2>5
    <3> QED
      BY <3>1 DEF Ready, FtNewLine, FirstNewline
  <2> QED
    BY <1>1, <2>1, <2>5
<1>5. CASE Buffer
  BY <1>1, <1>5 DEF Buffer
<1>6. CASE BufferFails
  <2>1. /\ read_len' = read_len /\ read_len = 0 /\ backup' = backup /\ fd' = fd
        /\ backup[fd] \in Seq(Chars) \cup {NULL} /\ backup[fd] # <<>>
    BY <1>6, AtWork DEF BufferFails, Buffered, Slices, SliceOf
  <2>2. backup[fd] # NULL => FtNewLine(backup[fd], 0) # 0
    BY <2>1, AtTheEnd
  <2>3. ooms' # 0
    BY <1>2, <1>6 DEF BufferFails
  <2>4. backup'[fd'] # NULL => FtNewLine(backup'[fd'], read_len') # 0 /\ backup'[fd'] # <<>>
    BY <2>1, <2>2
  <2> QED
    BY <2>3, <2>4 DEF Ready, FtNewLine, FirstNewline
<1>7. CASE Read
  BY <1>1, <1>7 DEF Read, Then
<1>8. CASE ReadFails
  BY <1>1, <1>8 DEF ReadFails, Then
<1>9. CASE Dup
  <2>1. /\ text' = text /\ off' = off /\ fd' = fd /\ fd \in Open /\ pc = "dup"
        /\ backup' = [backup EXCEPT ![fd] = buf] /\ read_len' = read_len
        /\ pc' = IF FtNewLine(buf, read_len) # 0 \/ (read_len <= 0 /\ buf = <<>>)
                 THEN "head" ELSE "more"
    BY <1>9, AtWork DEF Dup
  <2>2. backup'[fd'] = buf
    BY <2>1 DEF Shapes
  <2>3. /\ buf = <<>> <=> read_len <= 0
        /\ read_len = 0 => off[fd] = Len(text[fd])
    BY <2>1 DEF Buffered
  <2>4. CASE pc' = "head" /\ buf = <<>>
    BY <2>1, <2>2, <2>3, <2>4 DEF Ready
  <2>5. CASE pc' = "head" /\ buf # <<>>
    <3>1. FtNewLine(buf, read_len) # 0
      BY <2>1, <2>5
    <3>2. FtNewLine(backup'[fd'], read_len') # 0 /\ backup'[fd'] # <<>>
      BY <2>1, <2>2, <2>5, <3>1
    <3>3. read_len' # 0
      BY <2>1, <2>3, <2>5
    <3> QED
      BY <3>2, <3>3 DEF Ready, FtNewLine, FirstNewline
  <2> QED
    BY <1>1, <2>1, <2>4, <2>5
<1>10. CASE DupFails
  BY <1>1, <1>10 DEF DupFails, Crash
<1>11. CASE Join
  <2>1. /\ text' = text /\ off' = off /\ fd' = fd /\ fd \in Open /\ pc = "join"
        /\ backup' = [backup EXCEPT ![fd] = backup[fd] \o buf] /\ read_len' = read_len
        /\ pc' = IF FtNewLine(backup[fd] \o buf, read_len) # 0 THEN "head" ELSE "more"
        /\ backup[fd] \in Seq(Chars)
    BY <1>11, AtWork DEF Join
  <2>2. backup'[fd'] = backup[fd] \o buf /\ buf \in Seq(Chars)
    BY <2>1 DEF Shapes
  <2>3. read_len = 0 => off'[fd'] = Len(text'[fd'])
    BY <2>1 DEF Buffered
  <2>4. backup'[fd'] # <<>>
    BY <2>1, <2>2, ConcatSimplifications DEF Slices, SliceOf
  <2>5. CASE pc' = "head"
    <3>1. FtNewLine(backup'[fd'], read_len') # 0
      BY <2>1, <2>2, <2>5
    <3> QED
      BY <2>1, <2>3, <2>4, <3>1 DEF Ready, FtNewLine, FirstNewline
  <2> QED
    BY <1>1, <2>1, <2>5
<1>12. CASE JoinFails
  BY <1>1, <1>12 DEF JoinFails, Crash
<1>13. CASE FollowsNull
  BY <1>1, <1>13 DEF FollowsNull, Crash
<1>14. CASE EndOfFile
  BY <1>1, <1>14 DEF EndOfFile, Return
<1>15. CASE TakeLine
  <2>1. /\ pc = "head" /\ backup' = backup /\ fd' = fd /\ read_len' = read_len
        /\ text' = text /\ off' = off /\ variant' = variant
        /\ backup[fd] # NULL
    BY <1>15, AtWork DEF TakeLine
  <2>2. ooms' = 0 => ooms = 0
    BY <1>15 DEF TakeLine, Oom, Shapes
  <2> QED
    BY <2>1, <2>2 DEF Ready, FtNewLine, FirstNewline
<1>16. CASE PutBack
  BY <1>1, <1>16 DEF PutBack, Return
<1>17. CASE PutBackFails
  BY <1>1, <1>17 DEF PutBackFails, Crash
<1>18. CASE UNCHANGED vars
  BY <1>18 DEF vars, Ready, FtNewLine, FirstNewline
<1>19. CASE Done
  BY <1>18, <1>19 DEF Done
<1> QED
  BY <1>3, <1>4, <1>5, <1>6, <1>7, <1>8, <1>9, <1>10, <1>11, <1>12, <1>13,
     <1>14, <1>15, <1>16, <1>17, <1>18, <1>19 DEF Next

(* Between the line and its rest nothing moves. *)
LEMMA TakenStep ==
  ASSUME Shapes, Slotted, Taken, [Next]_vars
  PROVE  Taken'
<1>1. ASSUME pc' # "rest" PROVE Taken'
  BY <1>1 DEF Taken
<1>2. CASE CallRefused
  BY <1>1, <1>2 DEF CallRefused
<1>3. CASE Call
  BY <1>1, <1>3 DEF Call
<1>4. CASE Buffer
  BY <1>1, <1>4 DEF Buffer
<1>5. CASE BufferFails
  BY <1>1, <1>5 DEF BufferFails
<1>6. CASE Read
  BY <1>1, <1>6 DEF Read, Then
<1>7. CASE ReadFails
  BY <1>1, <1>7 DEF ReadFails, Then
<1>8. CASE Dup
  BY <1>1, <1>8 DEF Dup
<1>9. CASE DupFails
  BY <1>1, <1>9 DEF DupFails, Crash
<1>10. CASE Join
  BY <1>1, <1>10 DEF Join
<1>11. CASE JoinFails
  BY <1>1, <1>11 DEF JoinFails, Crash
<1>12. CASE FollowsNull
  BY <1>1, <1>12 DEF FollowsNull, Crash
<1>13. CASE EndOfFile
  BY <1>1, <1>13 DEF EndOfFile, Return
<1>14. CASE TakeLine
  <2>1. /\ backup' = backup /\ fd' = fd /\ read_len' = read_len /\ variant' = variant
        /\ backup[fd] # NULL
        /\ gnl' \in {NULL, FtGnlStrdup(backup[fd], HeadLen(backup[fd], read_len))}
    BY <1>14, AtWork DEF TakeLine
  <2>2. HeadLen(backup[fd], read_len)' = HeadLen(backup[fd], read_len)
    BY <2>1 DEF HeadLen
  <2> QED
    BY <2>1, <2>2 DEF Taken
<1>15. CASE PutBack
  BY <1>1, <1>15 DEF PutBack, Return
<1>16. CASE PutBackFails
  BY <1>1, <1>16 DEF PutBackFails, Crash
<1>17. CASE UNCHANGED vars
  BY <1>17 DEF vars, Taken, HeadLen
<1>18. CASE Done
  BY <1>17, <1>18 DEF Done
<1> QED
  BY <1>2, <1>3, <1>4, <1>5, <1>6, <1>7, <1>8, <1>9, <1>10, <1>11, <1>12, <1>13,
     <1>14, <1>15, <1>16, <1>17, <1>18 DEF Next

(* Only a failed allocation leaves a null pointer. *)
LEMMA RememberedStep ==
  ASSUME Shapes, Slotted, Slices, Ready, Remembered, [Next]_vars
  PROVE  Remembered'
<1>1. ASSUME Oom PROVE Remembered'
  <2>1. ooms' # 0
    BY <1>1 DEF Oom, Shapes
  <2> QED
    BY <2>1 DEF Remembered
<1>2. CASE CallRefused
  BY <1>2 DEF CallRefused, Remembered
<1>3. CASE Call
  <2>1. PICK f \in Open :
          /\ fd' = f
          /\ pc' = IF variant = "bonus" /\ backup[f] # NULL /\ FtNewLine(backup[f], 10) # 0
                   THEN "head" ELSE "buffer"
    BY <1>3 DEF Call
  <2>2. backup' = backup
    BY <1>3 DEF Call
  <2> QED
    BY <2>1, <2>2 DEF Remembered
<1>4. CASE Buffer
  <2>1. Kept = backup[fd]
    BY <1>4, AtWork DEF Buffer
  <2> QED
    BY <1>4, <2>1 DEF Buffer, Remembered
<1>5. CASE BufferFails
  BY <1>1, <1>5 DEF BufferFails
<1>6. CASE Read
  BY <1>6 DEF Read, Reading, Then, Remembered
<1>7. CASE ReadFails
  BY <1>7 DEF ReadFails, Reading, Then, Remembered
<1>8. CASE Dup
  <2>1. /\ backup' = [backup EXCEPT ![fd] = buf] /\ fd \in Open /\ fd' = fd
        /\ pc' \in {"head", "more"}
    BY <1>8, AtWork DEF Dup
  <2>2. backup'[fd'] = buf
    BY <2>1 DEF Shapes
  <2>3. buf # NULL
    BY NullIsNoText DEF Shapes
  <2> QED
    BY <2>1, <2>2, <2>3 DEF Remembered
<1>9. CASE DupFails
  BY <1>1, <1>9 DEF DupFails
<1>10. CASE Join
  <2>1. /\ backup' = [backup EXCEPT ![fd] = backup[fd] \o buf] /\ fd \in Open /\ fd' = fd
        /\ pc' \in {"head", "more"} /\ backup[fd] \in Seq(Chars)
    BY <1>10, AtWork DEF Join
  <2>2. backup'[fd'] = backup[fd] \o buf
    BY <2>1 DEF Shapes
  <2>3. backup[fd] \o buf \in Seq(Chars)
    BY <2>1, ConcatProperties DEF Shapes
  <2> QED
    BY <2>1, <2>2, <2>3, NullIsNoText DEF Remembered
<1>11. CASE JoinFails
  BY <1>1, <1>11 DEF JoinFails
<1>12. CASE FollowsNull
  <2>1. pc \in {"join", "head"} /\ backup[fd] = NULL /\ ooms' = ooms
    BY <1>12, AtWork DEF FollowsNull
  <2>2. ooms # 0
    BY <2>1 DEF Remembered
  <2> QED
    BY <2>1, <2>2 DEF Remembered
<1>13. CASE EndOfFile
  BY <1>13 DEF EndOfFile, Return, Remembered
<1>14. CASE TakeLine
  <2>1. /\ backup' = backup /\ fd' = fd /\ pc = "head" /\ pc' = "rest"
        /\ backup[fd] # NULL /\ ~ (read_len <= 0 /\ backup[fd] = <<>>)
        /\ \/ Oom
           \/ gnl' = FtGnlStrdup(Kept, HeadLen(Kept, read_len))
    BY <1>14, AtWork DEF TakeLine, Nothing
  <2>2. backup[fd] # <<>>
    BY <2>1 DEF Ready
  <2>3. FtGnlStrdup(Kept, HeadLen(Kept, read_len)) \in Seq(Chars)
    BY <2>1, <2>2, LineOfText
  <2>4. CASE gnl' = FtGnlStrdup(Kept, HeadLen(Kept, read_len))
    BY <2>1, <2>3, <2>4, NullIsNoText DEF Remembered
  <2> QED
    BY <1>1, <2>1, <2>4
<1>15. CASE PutBack
  BY <1>15 DEF PutBack, Return, Remembered
<1>16. CASE PutBackFails
  BY <1>1, <1>16 DEF PutBackFails
<1>17. CASE UNCHANGED vars
  BY <1>17 DEF vars, Remembered
<1>18. CASE Done
  BY <1>17, <1>18 DEF Done
<1> QED
  BY <1>2, <1>3, <1>4, <1>5, <1>6, <1>7, <1>8, <1>9, <1>10, <1>11, <1>12, <1>13,
     <1>14, <1>15, <1>16, <1>17, <1>18 DEF Next

(* What is returned is a part of a text. *)
LEMMA AnsweredStep ==
  ASSUME Shapes, Slotted, Slices, Ready, Taken, Answered, [Next]_vars
  PROVE  Answered'
<1>1. ASSUME answer' = NULL PROVE Answered'
  BY <1>1 DEF Answered
<1>2. ASSUME answer' = answer, text' = text PROVE Answered'
  <2>1. \A f \in Open : Part(f)' = Part(f)
    BY <1>2 DEF Part
  <2> QED
    BY <1>2, <2>1 DEF Answered
<1>3. CASE CallRefused
  BY <1>1, <1>3 DEF CallRefused
<1>4. CASE Call
  BY <1>2, <1>4 DEF Call
<1>5. CASE Buffer
  BY <1>2, <1>5 DEF Buffer
<1>6. CASE BufferFails
  BY <1>2, <1>6 DEF BufferFails
<1>7. CASE Read
  BY <1>2, <1>7 DEF Read
<1>8. CASE ReadFails
  BY <1>2, <1>8 DEF ReadFails
<1>9. CASE Dup
  BY <1>2, <1>9 DEF Dup
<1>10. CASE DupFails
  BY <1>2, <1>10 DEF DupFails, Crash
<1>11. CASE Join
  BY <1>2, <1>11 DEF Join
<1>12. CASE JoinFails
  BY <1>2, <1>12 DEF JoinFails, Crash
<1>13. CASE FollowsNull
  BY <1>2, <1>13 DEF FollowsNull, Crash
<1>14. CASE EndOfFile
  BY <1>1, <1>14 DEF EndOfFile, Return
<1>15. CASE TakeLine
  BY <1>2, <1>15 DEF TakeLine
<1>16. CASE PutBack
  <2>1. /\ fd \in Open /\ pc = "rest" /\ Kept = backup[fd] /\ text' = text
        /\ backup[fd] # NULL /\ backup[fd] # <<>> /\ answer' = gnl
        /\ gnl \in {NULL, FtGnlStrdup(Kept, HeadLen(Kept, read_len))}
        /\ Len(text[fd]) \in Nat /\ off[fd] \in Nat /\ off[fd] <= Len(text[fd])
    BY <1>16, AtWork DEF PutBack, Return, Taken, Slices, SliceOf
  <2>2. PICK l \in Int :
          /\ 1 <= l /\ Given(fd) \in Int /\ 0 <= Given(fd) /\ Given(fd) + l <= off[fd]
          /\ FtGnlStrdup(Kept, HeadLen(Kept, read_len))
               = SubSeq(text[fd], Given(fd) + 1, Given(fd) + l)
    BY <2>1, LineOfText
  <2>3. Given(fd) + 1 \in 1..(Len(text[fd]) + 1) /\ Given(fd) + l \in 0..Len(text[fd])
    <3> DEFINE g == Given(fd)
               o == off[fd]
               n == Len(text[fd])
    <3>1. g \in Int /\ o \in Nat /\ n \in Nat /\ 0 <= g /\ g + l <= o /\ o <= n
      BY <2>1, <2>2
    <3> HIDE DEF g, o, n
    <3>2. g + 1 \in 1..(n + 1) /\ g + l \in 0..n
      BY <2>2, <3>1
    <3> QED
      BY <3>2 DEF g, n
  <2>4. FtGnlStrdup(Kept, HeadLen(Kept, read_len)) \in Part(fd)
    <3> DEFINE from == Given(fd) + 1
               to   == Given(fd) + l
               line == FtGnlStrdup(Kept, HeadLen(Kept, read_len))
    <3>1. /\ from \in 1..(Len(text[fd]) + 1) /\ to \in 0..Len(text[fd])
          /\ line = SubSeq(text[fd], from, to)
      BY <2>2, <2>3
    <3> HIDE DEF from, to, line
    <3>2. line \in Part(fd)
      BY <3>1 DEF Part
    <3> QED
      BY <3>2 DEF line
  <2>5. CASE gnl # NULL
    <3>1. PICK f \in Open : f = fd
      BY <2>1
    <3>2. Part(f)' = Part(f)
      BY <2>1 DEF Part
    <3>3. answer' \in Part(f)'
      BY <2>1, <2>4, <2>5, <3>1, <3>2
    <3> QED
      BY <3>3 DEF Answered
  <2> QED
    BY <1>1, <2>1, <2>5
<1>17. CASE PutBackFails
  BY <1>2, <1>17 DEF PutBackFails, Crash
<1>18. CASE UNCHANGED vars
  BY <1>2, <1>18 DEF vars
<1>19. CASE Done
  BY <1>18, <1>19 DEF Done
<1> QED
  BY <1>3, <1>4, <1>5, <1>6, <1>7, <1>8, <1>9, <1>10, <1>11, <1>12, <1>13,
     <1>14, <1>15, <1>16, <1>17, <1>18, <1>19 DEF Next

(* NULL is returned with nothing kept. *)
LEMMA NullMeansEndStep ==
  ASSUME Shapes, Slotted, Buffered, Ready, Remembered, NullMeansEnd, [Next]_vars
  PROVE  NullMeansEnd'
<1>1. ASSUME pc' # "idle" PROVE NullMeansEnd'
  BY <1>1 DEF NullMeansEnd
<1>2. CASE CallRefused
  BY <1>2 DEF CallRefused, NullMeansEnd, FdOK
<1>3. CASE Call
  BY <1>1, <1>3 DEF Call
<1>4. CASE Buffer
  BY <1>1, <1>4 DEF Buffer
<1>5. CASE BufferFails
  BY <1>1, <1>5 DEF BufferFails
<1>6. CASE Read
  BY <1>1, <1>6 DEF Read, Then
<1>7. CASE ReadFails
  BY <1>1, <1>7 DEF ReadFails, Then
<1>8. CASE Dup
  BY <1>1, <1>8 DEF Dup
<1>9. CASE DupFails
  BY <1>1, <1>9 DEF DupFails, Crash
<1>10. CASE Join
  BY <1>1, <1>10 DEF Join
<1>11. CASE JoinFails
  BY <1>1, <1>11 DEF JoinFails, Crash
<1>12. CASE FollowsNull
  BY <1>1, <1>12 DEF FollowsNull, Crash
<1>13. CASE EndOfFile
  <2>1. /\ pc = "head" /\ read_len <= 0 /\ backup[fd] = <<>> /\ fd \in Open
        /\ Slot(fd) = fd
        /\ backup' = [backup EXCEPT ![fd] = NULL] /\ fd' = fd /\ variant' = variant
        /\ off' = off /\ text' = text /\ errors' = errors
    BY <1>13, AtWork DEF EndOfFile, Nothing
  <2>2. Kept' = NULL
    <3>1. Slot(fd)' = fd
      BY <2>1 DEF Slot
    <3> QED
      BY <2>1, <3>1 DEF Kept, Shapes
  <2>3. errors = 0 => read_len = 0
    BY <2>1, GnlAssumption DEF Shapes, Buffered
  <2>4. errors = 0 => off[fd] = Len(text[fd])
    BY <2>1, <2>3, NullIsNoText DEF Ready
  <2> QED
    BY <2>1, <2>2, <2>4 DEF NullMeansEnd
<1>14. CASE TakeLine
  BY <1>1, <1>14 DEF TakeLine
<1>15. CASE PutBack
  BY <1>15 DEF PutBack, Return, Remembered, NullMeansEnd
<1>16. CASE PutBackFails
  BY <1>1, <1>16 DEF PutBackFails, Crash
<1>17. CASE UNCHANGED vars
  BY <1>17 DEF vars, NullMeansEnd, Kept, Slot, FdOK
<1>18. CASE Done
  BY <1>17, <1>18 DEF Done
<1> QED
  BY <1>2, <1>3, <1>4, <1>5, <1>6, <1>7, <1>8, <1>9, <1>10, <1>11, <1>12, <1>13,
     <1>14, <1>15, <1>16, <1>17, <1>18 DEF Next

(* The line returned, at the end of the lines returned so far. *)
LEMMA ReturnedStep ==
  ASSUME Shapes, Slotted, Slices, Ready, Taken, Remembered, PutBack, ooms = 0,
         Returned(fd), NEW f \in Open, f = fd
  PROVE  Returned(f)'
<1>1. /\ fd \in Open /\ fd' = fd /\ pc = "rest" /\ text' = text /\ off' = off
      /\ variant' = variant /\ Kept = backup[fd]
      /\ backup[fd] # NULL /\ backup[fd] # <<>>
      /\ gnl # NULL /\ gnl = FtGnlStrdup(Kept, HeadLen(Kept, read_len))
      /\ lines' = [lines EXCEPT ![fd] = Append(@, gnl)]
      /\ lines[fd] \in Seq(Seq(Chars))
      /\ text[fd] \in Seq(Chars) /\ Len(text[fd]) \in Nat /\ off[fd] \in Nat
      /\ off[fd] <= Len(text[fd])
  BY AtWork DEF PutBack, Return, Taken, Slices, SliceOf, Remembered
<1> DEFINE line == FtGnlStrdup(Kept, HeadLen(Kept, read_len))
           g == Given(fd)
           t == text[fd]
           o == off[fd]
           L == lines[fd]
           M == Append(L, line)
<1>2. PICK l \in Int :
        /\ 1 <= l /\ g \in Int /\ 0 <= g /\ g + l <= o
        /\ line = SubSeq(t, g + 1, g + l)
        /\ line \in Seq(Chars)
        /\ Len(line) = l
        /\ \A m \in 1..l : line[m] = t[g + m]
        /\ \A m \in 1..(l - 1) : t[g + m] # NL
        /\ t[g + 1] = NL => l = 1
        /\ \/ t[g + l] = NL
           \/ g + l = o /\ read_len = 0 /\ FtNewLine(Kept, 10) = 0
           \/ variant = "plain" /\ l = 1 /\ read_len = 0 /\ g + l < o /\ t[g + 2] = NL
  BY <1>1, LineOfText
<1>3. Given(f)' = g + l
  BY <1>2, PutBackSlice
<1>4. read_len = 0 /\ (variant = "plain" \/ FtNewLine(Kept, 10) = 0) => o = Len(t)
  BY <1>1 DEF Ready
<1>5. lines'[f] = M
  BY <1>1 DEF Shapes
<1> HIDE DEF line
<1>6. /\ Len(L) \in Nat /\ Len(M) = Len(L) + 1
      /\ \A k \in 1..Len(L) : M[k] = L[k]
      /\ M[Len(L) + 1] = line
  <2>1. L \in Seq(Seq(Chars)) /\ line \in Seq(Chars)
    BY <1>1, <1>2
  <2> HIDE DEF L
  <2> QED
    BY <2>1, Appending
<1>7. /\ FlattenSeq(L) = SubSeq(t, 1, g)
      /\ \A n \in 1..Len(L) :
           /\ L[n] # <<>>
           /\ \A m \in 1..(Len(L[n]) - 1) : L[n][m] # NL
           /\ \/ L[n][Len(L[n])] = NL
              \/ n = Len(L) /\ g = Len(t)
              \/ /\ variant = "plain" /\ Len(L[n]) = 1 /\ o = Len(t)
                 /\ IF n < Len(L) THEN L[n + 1] = <<NL>>
                    ELSE g < Len(t) /\ t[g + 1] = NL
  BY DEF Returned
<1>8. t \in Seq(Chars) /\ Len(t) \in Nat /\ o \in Nat /\ o <= Len(t)
  BY <1>1
<1>9. FlattenSeq(M) = FlattenSeq(L) \o line
  BY <1>1, <1>2, FlattenAppend
<1> HIDE DEF g, t, o, L, M
<1>10. FlattenSeq(M) = SubSeq(t, 1, g + l)
  <2> DEFINE to == g + l
  <2>1. to \in Int /\ 1 <= 1 /\ 1 \in Int /\ 1 <= g + 1 /\ g <= to /\ to <= Len(t)
    <3>1. g \in Int /\ 1 <= l /\ 0 <= g /\ g + l <= o /\ o \in Nat /\ Len(t) \in Nat
          /\ o <= Len(t)
      BY <1>2, <1>8
    <3> QED
      BY <3>1
  <2> HIDE DEF to
  <2>2. SubSeq(t, 1, g) \o SubSeq(t, g + 1, to) = SubSeq(t, 1, to)
    BY <1>2, <1>8, <2>1, Cut
  <2> QED
    BY <1>2, <1>7, <1>9, <2>2 DEF to
<1>11. t[g + 1] = NL => line = <<NL>>
  <2> SUFFICES ASSUME t[g + 1] = NL PROVE line = <<NL>>
    OBVIOUS
  <2>1. l = 1 /\ 1 \in 1..l
    BY <1>2
  <2>2. line[1] = NL /\ Len(line) = 1 /\ line \in Seq(Chars)
    BY <1>2, <2>1
  <2>3. NL \in Chars
    <3>1. 1 \in 1..Len(line)
      BY <2>2
    <3>2. line[1] \in Chars
      BY <2>2, <3>1, ElementOfSeq
    <3> QED
      BY <2>2, <3>2
  <2> DEFINE one == <<NL>>
  <2>4. one \in Seq(Chars) /\ Len(one) = 1 /\ one[1] = NL
    BY <2>3
  <2> HIDE DEF one
  <2>5. line = one
    BY <2>2, <2>4, SeqEqual
  <2> QED
    BY <2>5 DEF one
<1> DEFINE Fine(n) ==
             /\ M[n] # <<>>
             /\ \A m \in 1..(Len(M[n]) - 1) : M[n][m] # NL
             /\ \/ M[n][Len(M[n])] = NL
                \/ n = Len(M) /\ g + l = Len(t)
                \/ /\ variant = "plain" /\ Len(M[n]) = 1 /\ o = Len(t)
                   /\ IF n < Len(M) THEN M[n + 1] = <<NL>>
                      ELSE g + l < Len(t) /\ t[g + l + 1] = NL
<1>12. ASSUME NEW n \in 1..Len(L) PROVE Fine(n)
  <2>1. M[n] = L[n] /\ n < Len(M) /\ n \in Int
    BY <1>6
  <2>2. /\ L[n] # <<>>
        /\ \A m \in 1..(Len(L[n]) - 1) : L[n][m] # NL
        /\ \/ L[n][Len(L[n])] = NL
           \/ n = Len(L) /\ g = Len(t)
           \/ /\ variant = "plain" /\ Len(L[n]) = 1 /\ o = Len(t)
              /\ IF n < Len(L) THEN L[n + 1] = <<NL>>
                 ELSE g < Len(t) /\ t[g + 1] = NL
    BY <1>7
  <2>3. g # Len(t)
    BY <1>2, <1>8
  <2>4. CASE L[n][Len(L[n])] = NL
    BY <2>1, <2>2, <2>4
  <2>5. CASE /\ variant = "plain" /\ Len(L[n]) = 1 /\ o = Len(t)
             /\ IF n < Len(L) THEN L[n + 1] = <<NL>>
                ELSE g < Len(t) /\ t[g + 1] = NL
    <3>1. M[n + 1] = <<NL>>
      <4>1. CASE n < Len(L)
        <5>1. n + 1 \in 1..Len(L)
          BY <1>6, <4>1
        <5> QED
          BY <1>6, <2>5, <4>1, <5>1
      <4>2. CASE ~ (n < Len(L))
        <5>1. n + 1 = Len(L) + 1
          BY <1>6, <4>2
        <5> QED
          BY <1>6, <1>11, <2>5, <4>2, <5>1
      <4> QED
        BY <4>1, <4>2
    <3> QED
      BY <2>1, <2>2, <2>5, <3>1
  <2> QED
    BY <2>2, <2>3, <2>4, <2>5
<1>13. ASSUME NEW n, n = Len(M) PROVE Fine(n)
  <2>1. M[n] = line /\ ~ (n < Len(M))
    BY <1>6, <1>13
  <2>2. line # <<>>
    <3>1. l # 0
      BY <1>2
    <3>2. line \in Seq(Chars) /\ Len(line) = l
      BY <1>2
    <3> QED
      BY <3>1, <3>2, EmptySeq
  <2>3. \A m \in 1..(Len(line) - 1) : line[m] # NL
    BY <1>2
  <2>4. line[Len(line)] = t[g + l]
    <3>1. l \in 1..l
      BY <1>2
    <3> QED
      BY <1>2, <3>1
  <2>5. CASE t[g + l] = NL
    BY <2>1, <2>2, <2>3, <2>4, <2>5
  <2>6. CASE g + l = o /\ read_len = 0 /\ FtNewLine(Kept, 10) = 0
    <3>1. g + l = Len(t)
      BY <1>4, <2>6
    <3> QED
      BY <1>13, <2>1, <2>2, <2>3, <3>1
  <2>7. CASE variant = "plain" /\ l = 1 /\ read_len = 0 /\ g + l < o /\ t[g + 2] = NL
    <3>1. o = Len(t) /\ g + l < Len(t) /\ Len(line) = 1
      BY <1>2, <1>4, <2>7
    <3>2. t[g + l + 1] = NL
      <4>1. g + l + 1 = g + 2
        BY <1>2, <2>7
      <4> QED
        BY <2>7, <4>1
    <3> QED
      BY <2>1, <2>2, <2>3, <2>7, <3>1, <3>2
  <2> QED
    BY <1>2, <2>5, <2>6, <2>7
<1>14. \A n \in 1..Len(M) : Fine(n)
  <2> SUFFICES ASSUME NEW n \in 1..Len(M) PROVE Fine(n)
    OBVIOUS
  <2>1. n \in 1..Len(L) \/ n = Len(M)
    BY <1>6
  <2> HIDE DEF Fine
  <2> QED
    BY <1>12, <1>13, <2>1
<1>15. /\ lines'[f] = M /\ Given(f)' = g + l /\ text'[f] = t /\ off'[f] = o
       /\ variant' = variant
  BY <1>1, <1>3, <1>5 DEF t, o
<1> QED
  BY <1>10, <1>14, <1>15 DEF Returned

(* The lines stay the beginning of the text. *)
LEMMA ExactStep ==
  ASSUME Shapes, Slotted, Slices, Buffered, Ready, Taken, Remembered, Exact,
         Shapes', Slices', [Next]_vars
  PROVE  Exact'
<1> SUFFICES ASSUME ooms' = 0, NEW f \in Open PROVE Returned(f)'
  BY DEF Exact
<1>1. text' = text /\ variant' = variant
  BY DEF Next, vars, CallRefused, Call, Buffer, BufferFails, Read, ReadFails, Dup, DupFails,
         Join, JoinFails, FollowsNull, EndOfFile, TakeLine, PutBack, PutBackFails, Done, Crash
<1>2. ooms = 0
  BY DEF Next, vars, CallRefused, Call, Buffer, BufferFails, Read, ReadFails, Dup, DupFails,
         Join, JoinFails, FollowsNull, EndOfFile, TakeLine, PutBack, PutBackFails, Done, Crash,
         Oom, Shapes
<1>3. Returned(f)
  BY <1>2 DEF Exact
<1>4. CASE PutBack /\ f = fd
  BY <1>2, <1>3, <1>4, ReturnedStep
<1>5. CASE ~ (PutBack /\ f = fd)
  <2>1. lines'[f] = lines[f]
    BY <1>5 DEF Next, vars, CallRefused, Call, Buffer, BufferFails, Read, ReadFails, Dup,
         DupFails, Join, JoinFails, FollowsNull, EndOfFile, TakeLine, PutBack, PutBackFails,
         Done, Crash, Return, Shapes
  <2>2. Same(f)
    BY <1>5, SliceOfStep
  <2>3. off[f] = Len(text[f]) => off'[f] = Len(text[f])
    <3>1. off[f] \in Nat /\ off'[f] \in Nat /\ Len(text[f]) \in Nat /\ off'[f] <= Len(text[f])
      BY <1>1, SliceFacts DEF Shapes, Slices, SliceOf
    <3> QED
      BY <2>2, <3>1 DEF Same
  <2> QED
    BY <1>1, <1>3, <2>1, <2>2, <2>3 DEF Returned, Same
<1> QED
  BY <1>4, <1>5

(* The invariant holds in the beginning. *)
LEMMA GnlInvInit ==
  ASSUME Init PROVE GnlInv
<1>1. Shapes
  BY ShapesInit
<1>2. Slotted
  BY DEF Init, Slotted, FdOK
<1>3. backup = [f \in Open |-> NULL]
  BY Places DEF Init
<1>4. ASSUME NEW f \in Open
      PROVE  /\ Held(f) = <<>> /\ Arrived(f) = 0 /\ Given(f) = 0
             /\ text[f] \in Seq(Chars) /\ Len(text[f]) \in Nat /\ backup[f] = NULL
             /\ SubSeq(text[f], 1, 0) = <<>>
             /\ lines[f] = <<>> /\ off[f] = 0
  <2>1. backup[f] = NULL /\ lines[f] = <<>> /\ off[f] = 0 /\ pc = "idle"
    BY <1>3 DEF Init
  <2>2. Held(f) = <<>>
    BY <2>1 DEF Held
  <2>3. Arrived(f) = 0
    <3>1. Arrived(f) = off[f] - 0
      BY <2>1 DEF Arrived
    <3> QED
      BY <2>1, <3>1
  <2>4. Given(f) = 0
    <3>1. Len(Held(f)) = 0
      BY <2>2
    <3>2. Given(f) = 0 - 0
      BY <2>3, <3>1 DEF Given
    <3> QED
      BY <3>2
  <2>5. text[f] \in Seq(Chars)
    BY <1>1, Places DEF Shapes
  <2>6. SubSeq(text[f], 1, 0) = <<>>
    BY SubSeqEmpty
  <2> QED
    BY <2>1, <2>2, <2>3, <2>4, <2>5, <2>6
<1>5. Slices
  <2> SUFFICES ASSUME NEW f \in Open PROVE SliceOf(f)
    BY DEF Slices
  <2>1. Len(Held(f)) <= Arrived(f)
    BY <1>4
  <2>2. off[f] <= Len(text[f])
    BY <1>4
  <2>3. Held(f) = SubSeq(text[f], Given(f) + 1, Arrived(f))
    <3>1. Given(f) + 1 = 1
      BY <1>4
    <3> QED
      BY <1>4, <3>1
  <2> QED
    BY <1>4, <2>1, <2>2, <2>3, NullIsNoText DEF SliceOf
<1>6. Buffered /\ Ready /\ Taken /\ Remembered
  BY DEF Init, Buffered, Ready, Taken, Remembered
<1>7. Answered
  <2>1. answer = SubSeq(text[0], 1, 0) /\ 1 \in 1..(Len(text[0]) + 1) /\ 0 \in 0..Len(text[0])
    BY <1>4, Places DEF Init
  <2>2. answer \in Part(0)
    BY <2>1 DEF Part
  <2> QED
    BY <2>2, Places DEF Answered
<1>8. NullMeansEnd
  BY NullIsNoText DEF Init, NullMeansEnd
<1>9. Exact
  <2> SUFFICES ASSUME NEW f \in Open PROVE Returned(f)
    BY DEF Exact
  <2>1. lines[f] = <<>> /\ Given(f) = 0 /\ SubSeq(text[f], 1, 0) = <<>>
    BY <1>4
  <2>2. FlattenSeq(<<>>) = <<>>
    BY NoElements, FlattenAppend
  <2>3. 1..Len(lines[f]) = {}
    BY <2>1
  <2> QED
    BY <2>1, <2>2, <2>3 DEF Returned
<1> QED
  BY <1>1, <1>2, <1>5, <1>6, <1>7, <1>8, <1>9 DEF GnlInv

(* Every step keeps the invariant. *)
LEMMA GnlInvStep ==
  ASSUME GnlInv, [Next]_vars PROVE GnlInv'
<1> USE DEF GnlInv
<1>1. Shapes'
  BY ShapesStep
<1>2. Slotted'
  BY SlottedStep
<1>3. Slices'
  BY <1>1, SliceOfStep DEF Slices
<1>4. Buffered'
  BY BufferedStep
<1>5. Ready'
  BY <1>2, ReadyStep
<1>6. Taken'
  BY TakenStep
<1>7. Remembered'
  BY RememberedStep
<1>8. Answered'
  BY AnsweredStep
<1>9. NullMeansEnd'
  BY NullMeansEndStep
<1>10. Exact'
  BY <1>1, <1>3, ExactStep
<1> QED
  BY <1>1, <1>2, <1>3, <1>4, <1>5, <1>6, <1>7, <1>8, <1>9, <1>10

(* The invariant that the properties follow from.                          *)
THEOREM GnlInvHolds == Spec => []GnlInv
<1>1. Init => GnlInv
  BY GnlInvInit
<1>2. GnlInv /\ [Next]_vars => GnlInv'
  BY GnlInvStep
<1> QED
  BY <1>1, <1>2, PTL DEF Spec

-----------------------------------------------------------------------------
(* The properties. *)

(* Every variable keeps its type; what is kept of a descriptor and what is *)
(* returned are parts of what it holds, and nothing empty is kept between  *)
(* calls.                                                                  *)
THEOREM TypesHold == Spec => []TypeOK
<1>1. GnlInv => TypeOK
  <2> SUFFICES ASSUME GnlInv PROVE TypeOK
    OBVIOUS
  <2>1. fd \in Fds /\ read_len \in -1..BUFFER_SIZE /\ pc \in
          {"idle", "buffer", "first", "dup", "more", "join", "head", "rest", "crashed"}
    BY DEF GnlInv, Shapes
  <2>2. answer = NULL \/ \E f \in Open : answer \in Part(f)
    BY DEF GnlInv, Answered
  <2>3. ASSUME NEW f \in Open
        PROVE  /\ off[f] \in 0..Len(text[f])
               /\ backup[f] \in Part(f) \cup {NULL}
               /\ backup[f] = <<>> => pc = "head" /\ Slot(fd) = f
    <3>1. /\ off[f] \in Nat /\ Len(text[f]) \in Nat /\ SliceOf(f)
          /\ backup[f] \in Seq(Chars) \cup {NULL} /\ Len(Held(f)) \in Nat
      BY SliceFacts DEF GnlInv
    <3>2. off[f] \in 0..Len(text[f])
      BY <3>1 DEF SliceOf
    <3>3. backup[f] = <<>> => pc = "head" /\ Slot(fd) = f
      <4> SUFFICES ASSUME backup[f] = <<>> PROVE pc = "head" /\ Slot(fd) = f
        OBVIOUS
      <4>1. pc = "head" /\ f = fd
        BY <3>1 DEF SliceOf
      <4> QED
        BY <4>1, AtWork DEF GnlInv
    <3>4. backup[f] # NULL => backup[f] \in Part(f)
      <4> SUFFICES ASSUME backup[f] # NULL PROVE backup[f] \in Part(f)
        OBVIOUS
      <4> DEFINE from == Given(f) + 1
                 to   == Arrived(f)
      <4>1. backup[f] = SubSeq(text[f], from, to) /\ Len(Held(f)) <= to
            /\ from = to - Len(Held(f)) + 1
        BY <3>1 DEF SliceOf, Held, Given
      <4>2. to \in Int /\ to <= off[f]
        <5>1. Len(buf) \in Nat
          BY DEF GnlInv, Shapes
        <5> QED
          BY <3>1, <5>1 DEF Arrived
      <4> HIDE DEF from, to
      <4>3. from \in 1..(Len(text[f]) + 1) /\ to \in 0..Len(text[f])
        BY <3>1, <3>2, <4>1, <4>2
      <4> DEFINE kept == backup[f]
      <4>4. kept = SubSeq(text[f], from, to)
        BY <4>1
      <4> HIDE DEF kept
      <4>5. kept \in Part(f)
        BY <4>3, <4>4 DEF Part
      <4> QED
        BY <4>5 DEF kept
    <3> QED
      BY <3>2, <3>3, <3>4
  <2> QED
    BY <2>1, <2>2, <2>3 DEF TypeOK
<1> QED
  BY <1>1, GnlInvHolds, PTL

(* NULL is returned at the end of the file only, with nothing kept of it,  *)
(* whatever is read at a time and between calls on other descriptors,      *)
(* unless a read or an allocation failed.                                  *)
THEOREM NullMeansEndHolds == Spec => []NullMeansEnd
<1>1. GnlInv => NullMeansEnd
  BY DEF GnlInv
<1> QED
  BY <1>1, GnlInvHolds, PTL

(* No null pointer is followed while memory lasts. *)
THEOREM CrashOnlyOutOfMemoryHolds == Spec => []CrashOnlyOutOfMemory
<1>1. GnlInv => CrashOnlyOutOfMemory
  BY DEF GnlInv, Remembered, Shapes, CrashOnlyOutOfMemory
<1> QED
  BY <1>1, GnlInvHolds, PTL

(* While memory lasts the lines returned for a descriptor and what is kept *)
(* of it are exactly what was read, in order, and each ends with the first *)
(* newline behind the line before, but for the last of the file and the    *)
(* plain variant's single character before it.                             *)
THEOREM LinesExactHolds == Spec => []LinesExact
<1>1. GnlInv => LinesExact
  <2> HAVE GnlInv
  <2> SUFFICES
        ASSUME pc = "idle", ooms = 0, NEW f \in Open
        PROVE  LET given == FlattenSeq(lines[f])
               IN  /\ given \o (IF backup[f] = NULL THEN <<>> ELSE backup[f])
                        = SubSeq(text[f], 1, off[f])
                   /\ \A n \in DOMAIN lines[f] :
                        LET line == lines[f][n]
                        IN  /\ line # <<>> /\ \A m \in 1..(Len(line) - 1) : line[m] # NL
                            /\ \/ Last(line) = NL
                               \/ n = Len(lines[f]) /\ given = text[f]
                               \/ /\ variant = "plain" /\ Len(line) = 1
                                  /\ off[f] = Len(text[f])
                                  /\ n < Len(lines[f]) => lines[f][n + 1] = <<NL>>
    BY DEF LinesExact
  <2> DEFINE given == FlattenSeq(lines[f])
             g == Given(f)
             t == text[f]
             o == off[f]
  <2>1. /\ o \in Nat /\ t \in Seq(Chars) /\ Len(t) \in Nat
        /\ Held(f) \in Seq(Chars) /\ Len(Held(f)) \in Nat /\ SliceOf(f)
    BY SliceFacts DEF GnlInv
  <2>2. Returned(f)
    BY DEF GnlInv, Exact
  <2>3. Arrived(f) = o
    BY <2>1 DEF Arrived
  <2>4. /\ Held(f) = SubSeq(t, g + 1, o) /\ g = o - Len(Held(f))
        /\ Len(Held(f)) <= o /\ o <= Len(t)
    BY <2>1, <2>3 DEF SliceOf, Given
  <2>5. given = SubSeq(t, 1, g)
    BY <2>2 DEF Returned
  <2>6. given \o Held(f) = SubSeq(t, 1, o)
    <3> HIDE DEF given, g, t, o
    <3>1. /\ g \in Int /\ o \in Int /\ 1 \in Int /\ 1 <= 1 /\ 1 <= g + 1
          /\ g <= o /\ o <= Len(t)
      BY <2>1, <2>4
    <3>2. SubSeq(t, 1, g) \o SubSeq(t, g + 1, o) = SubSeq(t, 1, o)
      BY <2>1, <3>1, Cut
    <3> QED
      BY <2>4, <2>5, <3>2
  <2>7. DOMAIN lines[f] = 1..Len(lines[f])
    BY DEF GnlInv, Shapes
  <2>8. g = Len(t) => given = t
    BY <2>1, <2>5, SubSeqFull
  <2>9. ASSUME NEW n \in DOMAIN lines[f]
        PROVE  /\ lines[f][n] # <<>>
               /\ \A m \in 1..(Len(lines[f][n]) - 1) : lines[f][n][m] # NL
               /\ \/ lines[f][n][Len(lines[f][n])] = NL
                  \/ n = Len(lines[f]) /\ given = t
                  \/ /\ variant = "plain" /\ Len(lines[f][n]) = 1 /\ o = Len(t)
                     /\ n < Len(lines[f]) => lines[f][n + 1] = <<NL>>
    <3>1. n \in 1..Len(lines[f])
      BY <2>7
    <3> HIDE DEF given
    <3> QED
      BY <2>2, <2>8, <3>1 DEF Returned
  <2> QED
    BY <2>6, <2>9 DEF Held, Last
<1> QED
  BY <1>1, GnlInvHolds, PTL
=============================================================================
