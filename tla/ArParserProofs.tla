---------------------------- MODULE ArParserProofs ----------------------------
(***************************************************************************)
(* The safety properties of ArParser, proved for every set of archive      *)
(* images, every word size and every buffer size.                          *)
(***************************************************************************)
EXTENDS ArParser, DataLemmas

-----------------------------------------------------------------------------
(* Strings. *)

(* What Before keeps of a sequence: its beginning, free of the stops, and  *)
(* a stop is next unless nothing is left.                                  *)
LEMMA BeforeCuts ==
  ASSUME NEW S, NEW str \in Seq(S), NEW stops
  PROVE  \E n \in 0..Len(str) :
           /\ Before(str, stops) = SubSeq(str, 1, n)
           /\ \A j \in 1..n : str[j] \notin stops
           /\ n < Len(str) => str[n + 1] \in stops
<1> DEFINE hits == {j \in DOMAIN str : str[j] \in stops}
<1>1. Len(str) \in Nat /\ DOMAIN str = 1..Len(str)
  OBVIOUS
<1>2. CASE hits = {}
  <2>1. Before(str, stops) = str
    BY <1>2 DEF Before
  <2>2. SubSeq(str, 1, Len(str)) = str
    BY SubSeqFull
  <2>3. \A j \in 1..Len(str) : str[j] \notin stops
    BY <1>1, <1>2
  <2>4. Len(str) \in 0..Len(str) /\ ~ (Len(str) < Len(str))
    BY <1>1
  <2> WITNESS Len(str) \in 0..Len(str)
  <2> HIDE DEF hits
  <2> QED
    BY <2>1, <2>2, <2>3, <2>4
<1>3. CASE hits # {}
  <2> DEFINE m == CHOOSE j \in hits : \A k \in hits : j <= k
  <2>1. \E j \in hits : \A k \in hits : j <= k
    <3>1. hits \subseteq Nat
      BY <1>1
    <3> HIDE DEF hits
    <3> QED
      BY <1>3, <3>1, Least
  <2>2. m \in hits /\ \A k \in hits : m <= k
    <3> HIDE DEF hits
    <3> QED
      BY <2>1
  <2>3. Before(str, stops) = SubSeq(str, 1, m - 1)
    BY <1>3 DEF Before
  <2> HIDE DEF m
  <2>4. m \in 1..Len(str) /\ str[m] \in stops
    BY <1>1, <2>2
  <2>5. ASSUME NEW j \in 1..(m - 1) PROVE str[j] \notin stops
    <3>1. j \in DOMAIN str /\ ~ (m <= j)
      BY <1>1, <2>4
    <3> QED
      BY <2>2, <3>1
  <2>6. m - 1 \in 0..Len(str) /\ (m - 1) + 1 = m
    BY <1>1, <2>4
  <2> QED
    BY <2>3, <2>4, <2>5, <2>6
<1> QED
  BY <1>2, <1>3

(* Where Before stops is known from what surrounds the place.              *)
LEMMA BeforeIs ==
  ASSUME NEW S, NEW str \in Seq(S), NEW stops, NEW n \in 0..Len(str),
         \A j \in 1..n : str[j] \notin stops,
         n < Len(str) => str[n + 1] \in stops
  PROVE  Before(str, stops) = SubSeq(str, 1, n)
<1>1. PICK m \in 0..Len(str) :
        /\ Before(str, stops) = SubSeq(str, 1, m)
        /\ \A j \in 1..m : str[j] \notin stops
        /\ m < Len(str) => str[m + 1] \in stops
  BY BeforeCuts
<1>2. Len(str) \in Nat
  OBVIOUS
<1>3. ~ (m < n)
  BY <1>1, <1>2
<1>4. ~ (n < m)
  BY <1>1, <1>2
<1>5. m = n
  BY <1>2, <1>3, <1>4
<1> QED
  BY <1>1, <1>5

(* The beginning of a sequence is one itself. *)
LEMMA BeforeSeq ==
  ASSUME NEW S, NEW str \in Seq(S), NEW stops
  PROVE  /\ Before(str, stops) \in Seq(S)
         /\ Before(str, stops) \in Seq(S \ stops)
<1>1. PICK n \in 0..Len(str) :
        /\ Before(str, stops) = SubSeq(str, 1, n)
        /\ \A j \in 1..n : str[j] \notin stops
  BY BeforeCuts
<1>2. \A j \in 1..n : str[j] \in S \ stops
  BY <1>1
<1>3. SubSeq(str, 1, n) \in Seq(S \ stops)
  BY <1>2, SubSeqProperties
<1>4. SubSeq(str, 1, n) \in Seq(S)
  BY <1>2, SubSeqProperties
<1> QED
  BY <1>1, <1>3, <1>4

-----------------------------------------------------------------------------
(* The static buffers. *)

Chars == STRING \cup {NUL}

(* A buffer that was written to begins with what was written, terminated.  *)
LEMMA OverwriteType ==
  ASSUME NEW buf \in Seq(Chars), NEW str \in Seq(Chars)
  PROVE  LET all == Overwrite(buf, str)
         IN  /\ all \in Seq(Chars) /\ Len(str) \in 0..Len(all)
             /\ all[Len(str) + 1] = NUL
             /\ \A j \in 1..Len(str) : all[j] = str[j]
<1> DEFINE rest == SubSeq(buf, Len(str) + 2, Len(buf))
           head == str \o <<NUL>>
           all  == head \o rest
<1>1. /\ Len(str) \in Nat /\ Len(buf) \in Nat /\ DOMAIN str = 1..Len(str)
      /\ DOMAIN buf = 1..Len(buf) /\ \A j \in 1..Len(buf) : buf[j] \in Chars
  OBVIOUS
<1>2. rest \in Seq(Chars)
  <2>1. \A j \in (Len(str) + 2)..Len(buf) : buf[j] \in Chars
    BY <1>1
  <2>2. Len(str) + 2 \in Int /\ Len(buf) \in Int
    BY <1>1
  <2> QED
    BY <2>1, <2>2, SubSeqProperties
<1>3. <<NUL>> \in Seq(Chars) /\ Len(<<NUL>>) = 1 /\ <<NUL>>[1] = NUL
  <2>1. NUL \in Chars
    BY DEF Chars
  <2>2. <<NUL>> \in Seq(Chars)
    BY <2>1, OneElement
  <2> QED
    BY <2>2
<1>4. /\ head \in Seq(Chars) /\ Len(head) = Len(str) + 1
      /\ \A j \in 1..(Len(str) + 1) : head[j] = IF j <= Len(str) THEN str[j] ELSE <<NUL>>[j - Len(str)]
  <2> DEFINE nul == <<NUL>>
  <2>1. nul \in Seq(Chars) /\ Len(nul) = 1
    BY <1>3
  <2> HIDE DEF nul
  <2>2. /\ str \o nul \in Seq(Chars) /\ Len(str \o nul) = Len(str) + Len(nul)
        /\ \A j \in 1..(Len(str) + Len(nul)) :
             (str \o nul)[j] = IF j <= Len(str) THEN str[j] ELSE nul[j - Len(str)]
    BY <2>1, ConcatProperties
  <2> QED
    BY <2>1, <2>2 DEF nul
<1>5. head[Len(str) + 1] = NUL /\ \A j \in 1..Len(str) : head[j] = str[j]
  <2>1. Len(str) + 1 \in 1..(Len(str) + 1) /\ ~ (Len(str) + 1 <= Len(str))
        /\ Len(str) + 1 - Len(str) = 1
    BY <1>1
  <2>2. \A j \in 1..Len(str) : j \in 1..(Len(str) + 1) /\ j <= Len(str)
    BY <1>1
  <2> QED
    BY <1>3, <1>4, <2>1, <2>2
<1> HIDE DEF rest, head
<1>6. /\ all \in Seq(Chars) /\ Len(all) = Len(head) + Len(rest)
      /\ \A j \in 1..(Len(head) + Len(rest)) :
           all[j] = IF j <= Len(head) THEN head[j] ELSE rest[j - Len(head)]
  <2>1. head \in Seq(Chars) /\ rest \in Seq(Chars)
    BY <1>2, <1>4
  <2> QED
    BY <2>1, ConcatProperties
<1>7. Overwrite(buf, str) = all
  BY DEF Overwrite, rest, head
<1>8. Len(rest) \in Nat
  BY <1>2
<1> DEFINE l == Len(str)
<1> HIDE DEF all, l
<1>9. /\ l \in 0..Len(all) /\ all[l + 1] = NUL /\ \A j \in 1..l : all[j] = str[j]
  BY <1>1, <1>4, <1>5, <1>6, <1>8 DEF l
<1> QED
  BY <1>6, <1>7, <1>9 DEF l

(* A string without NUL is read back from a buffer it was written to,      *)
(* whatever the buffer held.                                               *)
LEMMA BufferReadsBack ==
  ASSUME NEW buf \in Seq(Chars), NEW str \in Seq(Chars), NUL \notin Range(str)
  PROVE  CString(Overwrite(buf, str)) = str
<1> DEFINE l == Len(str)
           all == Overwrite(buf, str)
<1>1. l \in Nat /\ DOMAIN str = 1..l
  OBVIOUS
<1>6. all \in Seq(Chars) /\ Len(all) \in Nat
  BY OverwriteType
<1>9. l \in 0..Len(all) /\ all[l + 1] = NUL /\ \A j \in 1..l : all[j] = str[j]
  BY OverwriteType
<1> HIDE DEF all, l
<1>10. \A j \in 1..l : all[j] \notin {NUL}
  BY <1>1, <1>9 DEF l, Range
<1>11. Before(all, {NUL}) = SubSeq(all, 1, l)
  BY <1>6, <1>9, <1>10, BeforeIs
<1>12. SubSeq(all, 1, l) = str
  <2>1. l \in Int /\ 1 <= l + 1 /\ l <= Len(all)
    BY <1>1, <1>9, <1>6
  <2>2. /\ SubSeq(all, 1, l) \in Seq(Chars)
        /\ Len(SubSeq(all, 1, l)) = l - 1 + 1
        /\ \A j \in 1..(l - 1 + 1) : SubSeq(all, 1, l)[j] = all[1 + j - 1]
    BY <1>6, <2>1, Slice
  <2>3. l - 1 + 1 = l /\ \A j \in 1..l : 1 + j - 1 = j
    BY <2>1
  <2>4. Len(SubSeq(all, 1, l)) = Len(str)
    BY <2>2, <2>3 DEF l
  <2>5. \A j \in 1..Len(SubSeq(all, 1, l)) : SubSeq(all, 1, l)[j] = str[j]
    BY <1>9, <2>2, <2>3
  <2> QED
    BY <2>2, <2>4, <2>5, SeqEqual
<1> QED
  BY <1>11, <1>12 DEF CString, all

-----------------------------------------------------------------------------
(* Numbers. *)

(* The numbers a sequence of digits spells, one digit more at a time. *)
Numbers(digits) ==
  CHOOSE f : f = [i \in 0..Len(digits) |->
                    IF i = 0 THEN 0 ELSE 10 * f[i - 1] + Value[digits[i]]]

(* What Numbers is behind each digit. *)
LEMMA NumbersDef ==
  ASSUME NEW digits, Len(digits) \in Nat
  PROVE  Numbers(digits) =
           [i \in 0..Len(digits) |->
              IF i = 0 THEN 0 ELSE 10 * Numbers(digits)[i - 1] + Value[digits[i]]]
<1> DEFINE step(f, n) == IF n = 0 THEN 0 ELSE 10 * f[n - 1] + Value[digits[n]]
           defined(m) == \E f : f = [n \in 0..m |-> step(f, n)]
           missing == {m \in 0..Len(digits) : ~ defined(m)}
<1>1. missing = {}
  <2> SUFFICES ASSUME missing # {} PROVE FALSE
    OBVIOUS
  <2>1. PICK m \in missing : \A n \in missing : m <= n
    <3>1. missing \subseteq Nat
      OBVIOUS
    <3> HIDE DEF missing
    <3> QED
      BY <3>1, Least
  <2>2. CASE m = 0
    <3> DEFINE f == [n \in 0..0 |-> 0]
    <3>1. f = [n \in 0..0 |-> step(f, n)]
      OBVIOUS
    <3> QED
      BY <2>2, <3>1
  <2>3. CASE m # 0
    <3>1. m - 1 \in 0..Len(digits) /\ m - 1 \notin missing
      <4> HIDE DEF defined
      <4> QED
        BY <2>1, <2>3
    <3>2. PICK f : f = [n \in 0..(m - 1) |-> step(f, n)]
      BY <3>1
    <3> DEFINE g == [n \in 0..m |-> IF n < m THEN f[n] ELSE step(f, m)]
    <3>3. ASSUME NEW n \in 0..m PROVE g[n] = step(g, n)
      <4>1. n \in Int /\ m \in Int /\ n <= m
        BY <2>1
      <4>2. n # 0 => g[n - 1] = f[n - 1]
        BY <4>1
      <4>3. step(g, n) = step(f, n)
        BY <4>2
      <4>4. ASSUME n < m PROVE f[n] = step(f, n)
        <5>1. n \in 0..(m - 1)
          BY <4>1, <4>4
        <5> HIDE DEF step
        <5> QED
          BY <3>2, <5>1
      <4>5. g[n] = IF n < m THEN f[n] ELSE step(f, m)
        OBVIOUS
      <4>6. n < m \/ n = m
        BY <4>1
      <4> HIDE DEF g, step
      <4> QED
        BY <4>3, <4>4, <4>5, <4>6
    <3>4. g = [n \in 0..m |-> step(g, n)]
      BY <3>3
    <3> HIDE DEF g, step
    <3> QED
      BY <2>1, <3>4
  <2> QED
    BY <2>2, <2>3
<1>2. defined(Len(digits))
  <2> HIDE DEF defined
  <2> QED
    BY <1>1
<1> QED
  BY <1>2 DEF Numbers

(* Every digit has a value. *)
LEMMA ValueType == ASSUME NEW c \in Digits PROVE Value[c] \in 0..9
<1>1. \E d \in 0..9 : Decimal[d + 1] = c
  BY DEF Decimal, Digits
<1>2. Value[c] = CHOOSE d \in 0..9 : Decimal[d + 1] = c
  BY DEF Value
<1> QED
  BY <1>1, <1>2

(* Digits spell a natural number. *)
LEMMA NumberType == ASSUME NEW digits \in Seq(Digits) PROVE Number(digits) \in Nat
<1> DEFINE N == Numbers(digits)
           wrong == {m \in 0..Len(digits) : N[m] \notin Nat}
<1>1. Len(digits) \in Nat /\ \A m \in 1..Len(digits) : digits[m] \in Digits
  OBVIOUS
<1>2. N = [i \in 0..Len(digits) |->
             IF i = 0 THEN 0 ELSE 10 * N[i - 1] + Value[digits[i]]]
  BY <1>1, NumbersDef
<1> HIDE DEF N
<1>3. wrong = {}
  <2> SUFFICES ASSUME wrong # {} PROVE FALSE
    OBVIOUS
  <2>1. PICK m \in wrong : \A k \in wrong : m <= k
    <3>1. wrong \subseteq Nat
      BY <1>1
    <3> HIDE DEF wrong
    <3> QED
      BY <3>1, Least
  <2>2. m # 0
    BY <1>1, <1>2
  <2>3. m - 1 \in 0..Len(digits) /\ m - 1 \notin wrong /\ m \in 1..Len(digits)
    BY <1>1, <2>1, <2>2
  <2>4. N[m - 1] \in Nat /\ Value[digits[m]] \in Nat
    BY <1>1, <2>3, ValueType
  <2>5. N[m] = 10 * N[m - 1] + Value[digits[m]]
    BY <1>2, <2>2
  <2> QED
    BY <2>4, <2>5
<1>4. N[Len(digits)] \in Nat
  BY <1>1, <1>3
<1> QED
  BY <1>4 DEF N, Numbers, Number

(* The offset a name field holds. *)
LEMMA TableOffsetType ==
  ASSUME NEW field \in Seq(Chars), field # <<>>
  PROVE  TableOffset(field) \in Nat
<1> DEFINE t == Tail(field)
           digits == Before(t, Range(t) \ Digits)
<1>1. t \in Seq(Chars)
  OBVIOUS
<1> HIDE DEF t
<1>2. PICK n \in 0..Len(t) :
        /\ digits = SubSeq(t, 1, n)
        /\ \A j \in 1..n : t[j] \notin Range(t) \ Digits
  BY <1>1, BeforeCuts
<1>3. \A j \in 1..n : t[j] \in Digits
  <2>1. DOMAIN t = 1..Len(t) /\ Len(t) \in Nat
    BY <1>1
  <2> QED
    BY <1>2, <2>1 DEF Range
<1>4. digits \in Seq(Digits)
  <2>1. n \in Int /\ 1 \in Int
    OBVIOUS
  <2>2. SubSeq(t, 1, n) \in Seq(Digits)
    BY <1>3, <2>1, SubSeqProperties
  <2> QED
    BY <1>2, <2>2
<1> QED
  BY <1>4, NumberType DEF TableOffset, LeadingDigits, t

-----------------------------------------------------------------------------
(* The two encodings of a name. *)

(* A name spelled in the field itself is extracted whole. *)
LEMMA ShortExtracted ==
  ASSUME NEW field \in Seq(Chars), NEW name \in Seq(Chars),
         InField(field, name), Range(name) \cap FieldStops = {}
  PROVE  /\ \A table : ~ IsLong(field, table)
         /\ Before(field, FieldStops) = name
<1>1. /\ Len(name) \in Nat /\ DOMAIN name = 1..Len(name) /\ Len(field) \in Nat
  BY LenProperties
<1>2. name # <<>> /\ Len(name) < Len(field)
  BY DEF InField
<1>3. Len(name) # 0
  BY <1>2, EmptySeq
<1>4. /\ SubSeq(field, 1, Len(name)) = name
      /\ field[Len(name) + 1] \in FieldStops
  BY DEF InField
<1> DEFINE l == Len(name)
           f == Len(field)
           front == SubSeq(field, 1, l)
<1>5. l \in Nat \ {0} /\ f \in Nat /\ l < f
  BY <1>1, <1>2, <1>3
<1>6. front = name /\ field[l + 1] \in FieldStops /\ DOMAIN name = 1..l
  BY <1>1, <1>4
<1> HIDE DEF l, f, front
<1>7. /\ l \in Int /\ 1 <= l + 1 /\ l <= f /\ 1 \in Int /\ 1 <= 1
      /\ l - 1 + 1 = l /\ \A j \in 1..l : 1 + j - 1 = j
  BY <1>5
<1>8. \A j \in 1..l : name[j] = field[j]
  <2>1. \A j \in 1..(l - 1 + 1) : front[j] = field[1 + j - 1]
    BY <1>7, Slice DEF front, f
  <2> QED
    BY <1>6, <1>7, <2>1
<1>9. \A j \in 1..l : field[j] \notin FieldStops
  <2> SUFFICES ASSUME NEW j \in 1..l PROVE field[j] \notin FieldStops
    OBVIOUS
  <2>1. name[j] \in Range(name)
    BY <1>6 DEF Range
  <2> QED
    BY <1>8, <2>1
<1>10. Before(field, FieldStops) = front
  <2>1. l \in 0..Len(field)
    BY <1>5 DEF f
  <2>2. field[l + 1] \in FieldStops
    BY <1>6
  <2> QED
    BY <1>9, <2>1, <2>2, BeforeIs DEF front
<1>11. field[1] # "/"
  <2>1. 1 \in 1..l
    BY <1>5
  <2>2. "/" \in FieldStops
    BY DEF FieldStops
  <2> QED
    BY <1>9, <2>1, <2>2
<1> QED
  BY <1>6, <1>10, <1>11 DEF IsLong

(* A name spelled in the table is extracted as far as long_name_buf can    *)
(* hold it.                                                                *)
LEMMA LongExtracted ==
  ASSUME NEW table, NEW offset \in Nat,
         table.text \in Seq(Chars), table.size \in Nat,
         table.size <= Len(table.text),
         NEW name \in Seq(Chars),
         InTable(table.text, table.size, offset, name),
         Range(name) \cap TableStops = {}
  PROVE  /\ TableEntry(table, offset) \in Seq(Chars)
         /\ NUL \notin Range(TableEntry(table, offset))
         /\ IsPrefix(TableEntry(table, offset), name)
         /\ Len(TableEntry(table, offset)) = Min({Len(name), LongNameBuf - 1})
<1> DEFINE text  == table.text
           size  == table.size
           l     == Len(name)
           room  == offset + LongNameBuf - 1
           last  == IF room < size THEN room ELSE size
           part  == SubSeq(text, offset + 1, last)
           stops == TableStops
           n     == IF l <= LongNameBuf - 1 THEN l ELSE LongNameBuf - 1
<1>1. /\ text \in Seq(Chars) /\ size \in Nat /\ size <= Len(text) /\ l \in Nat
      /\ Len(text) \in Nat /\ DOMAIN name = 1..l
      /\ LongNameBuf \in Nat /\ 2 <= LongNameBuf
  BY BuffersAssumption
<1>2. /\ offset < size /\ offset + l <= size
      /\ SubSeq(text, offset + 1, offset + l) = name
      /\ offset + l < size => text[offset + l + 1] \in stops
  BY DEF InTable
<1>3. TableEntry(table, offset) = Before(part, stops)
  BY DEF TableEntry
<1> HIDE DEF text, size, l, stops
<1>4. /\ last \in Int /\ room \in Int /\ offset < last /\ last <= Len(text)
      /\ n \in Nat /\ n <= l /\ n <= last - offset
      /\ n = l \/ n = last - offset
      /\ n < last - offset => n = l /\ offset + l < size
  BY <1>1, <1>2
<1> DEFINE w == last - offset
<1> HIDE DEF last, n, room
<1>5. w \in Nat \ {0} /\ n \in 0..w /\ offset + 1 \in Int /\ 1 <= offset + 1
      /\ offset + 1 <= last + 1 /\ last - (offset + 1) + 1 = w
  BY <1>4
<1>6. /\ part \in Seq(Chars) /\ Len(part) = w
      /\ \A j \in 1..w : part[j] = text[offset + 1 + j - 1]
  BY <1>1, <1>4, <1>5, Slice, SMTT(30)
<1>7. \A j \in 1..w : offset + 1 + j - 1 = offset + j
  BY <1>5
<1>8. /\ Len(SubSeq(text, offset + 1, offset + l)) = offset + l - (offset + 1) + 1
      /\ \A j \in 1..(offset + l - (offset + 1) + 1) :
           SubSeq(text, offset + 1, offset + l)[j] = text[offset + 1 + j - 1]
  BY <1>1, <1>2, Slice
<1>9. \A j \in 1..l : name[j] = text[offset + j]
  <2>1. offset + l - (offset + 1) + 1 = l /\ \A j \in 1..l : offset + 1 + j - 1 = offset + j
    BY <1>1
  <2> QED
    BY <1>2, <1>8, <2>1
<1> HIDE DEF part, w
<1>10. \A j \in 1..n : part[j] = name[j] /\ name[j] \notin stops
  <2> SUFFICES ASSUME NEW j \in 1..n PROVE part[j] = name[j] /\ name[j] \notin stops
    OBVIOUS
  <2>1. j \in 1..l /\ j \in 1..w
    BY <1>1, <1>4, <1>5
  <2>2. name[j] \in Range(name)
    BY <1>1, <2>1 DEF Range
  <2> QED
    BY <1>6, <1>7, <1>9, <2>1, <2>2 DEF stops
<1>11. n < Len(part) => part[n + 1] \in stops
  <2> SUFFICES ASSUME n < w PROVE part[n + 1] \in stops
    BY <1>6
  <2>1. n = l /\ offset + l < size
    BY <1>4 DEF w
  <2>2. n + 1 \in 1..w /\ offset + (n + 1) = offset + l + 1
    BY <1>1, <1>5, <2>1
  <2> QED
    BY <1>2, <1>6, <1>7, <2>1, <2>2
<1>12. Before(part, stops) = SubSeq(part, 1, n)
  <2>1. n \in 0..Len(part) /\ \A j \in 1..n : part[j] \notin stops
    BY <1>5, <1>6, <1>10
  <2> QED
    BY <1>6, <1>11, <2>1, BeforeIs
<1> DEFINE entry == SubSeq(part, 1, n)
<1>13. /\ entry \in Seq(Chars) /\ Len(entry) = n
       /\ \A j \in 1..n : entry[j] = name[j]
  <2>1. n \in Int /\ 1 <= n + 1 /\ n <= Len(part) /\ n - 1 + 1 = n
        /\ \A j \in 1..n : 1 + j - 1 = j
    BY <1>5, <1>6
  <2> QED
    BY <1>6, <1>10, <2>1, Slice
<1> HIDE DEF entry
<1>14. NUL \notin Range(entry)
  <2>1. DOMAIN entry = 1..n
    BY <1>13
  <2> QED
    BY <1>10, <1>13, <2>1 DEF Range, stops, TableStops
<1>15. IsPrefix(entry, name)
  <2> DEFINE front == SubSeq(name, 1, n)
  <2>1. n \in Int /\ 1 <= n + 1 /\ n - 1 + 1 = n
        /\ \A j \in 1..n : 1 + j - 1 = j
    BY <1>1, <1>4
  <2>6. n <= Len(name)
    BY <1>4 DEF l
  <2>2. front \in Seq(Chars) /\ Len(front) = n /\ \A j \in 1..n : front[j] = name[j]
    BY <2>1, <2>6, Slice
  <2> HIDE DEF front
  <2>3. entry = front
    BY <1>13, <2>2, SeqEqual
  <2>4. Len(entry) <= Len(name) /\ SubSeq(name, 1, Len(entry)) = front
    BY <1>13, <2>6 DEF front
  <2>5. SubSeq(entry, 1, Len(entry)) = entry
    BY <1>13, SubSeqFull
  <2> QED
    BY <2>3, <2>4, <2>5 DEF IsPrefix
<1>16. n = Min({l, LongNameBuf - 1})
  <2>1. n \in {l, LongNameBuf - 1} /\ \A m \in {l, LongNameBuf - 1} : n <= m
    BY <1>1 DEF n
  <2>2. \A m \in {l, LongNameBuf - 1} :
          (\A k \in {l, LongNameBuf - 1} : m <= k) => m = n
    BY <1>1 DEF n
  <2> QED
    BY <2>1, <2>2 DEF Min
<1> QED
  BY <1>3, <1>12, <1>13, <1>14, <1>15, <1>16 DEF entry, l

-----------------------------------------------------------------------------
(* The walk. *)

(* Appending keeps a sequence a sequence and extends it. *)
LEMMA AppendSeq ==
  ASSUME NEW s, s \in Seq(Range(s)), NEW e
  PROVE  /\ Append(s, e) \in Seq(Range(Append(s, e)))
         /\ DOMAIN Append(s, e) = 1..(Len(s) + 1)
         /\ Len(s) \in Nat
         /\ DOMAIN s = 1..Len(s)
         /\ \A i \in 1..Len(s) : Append(s, e)[i] = s[i]
         /\ Append(s, e)[Len(s) + 1] = e
         /\ IsPrefix(s, Append(s, e))
<1> DEFINE t == Append(s, e)
           S == Range(s) \cup {e}
<1>1. t \in Seq(S) /\ s \in Seq(S)
  OBVIOUS
<1>2. /\ DOMAIN t = 1..(Len(s) + 1)
      /\ Len(s) \in Nat
      /\ DOMAIN s = 1..Len(s)
      /\ \A i \in 1..Len(s) : t[i] = s[i]
      /\ t[Len(s) + 1] = e
      /\ Len(t) = Len(s) + 1
  BY <1>1
<1>3. t \in Seq(Range(t))
  BY <1>1, <1>2 DEF Range
<1>4. IsPrefix(s, t)
  BY <1>1, <1>2 DEF IsPrefix
<1> QED
  BY <1>2, <1>3, <1>4

(* What is assumed of every archive image.                                *)
LEMMA ArchiveFacts ==
  ASSUME NEW u \in Archives
  PROVE  /\ u.limit \in Nat /\ u.limit >= SARMAG /\ u.limit + 1 < WORD
         /\ \A off \in DOMAIN u.header :
              SizeOK(u.header[off].size) =>
                HeaderSize(u, off) \in Nat /\ HeaderSize(u, off) + 1 < WORD
         /\ \A off \in DOMAIN u.header :
              Acceptable(u, off) =>
                Payload(u, off).symbols \in {"some", "none", "malformed"}
         /\ Laid(u)
BY ArchivesAssumption DEF ImageOK

(* The range checks exclude every wrap: behind an acceptable header come   *)
(* its payload and the padding, and they end inside the archive.           *)
LEMMA AcceptableFits ==
  ASSUME NEW u \in Archives, NEW off \in Nat, off % 2 = 0,
         Acceptable(u, off)
  PROVE  /\ off \in DOMAIN u.header
         /\ HeaderSize(u, off) \in Nat
         /\ PayloadOff(off) = off + HDR
         /\ NextOff(u, off) \in Nat
         /\ off + HDR + HeaderSize(u, off) <= NextOff(u, off)
         /\ NextOff(u, off) <= u.limit
         /\ NextOff(u, off) % 2 = 0
         /\ Payload(u, off).symbols \in {"some", "none", "malformed"}
<1> DEFINE size == HeaderSize(u, off)
<1>1. u.limit \in Nat /\ u.limit + 1 < WORD /\ WORD \in Nat
  BY ArchiveFacts, WordAssumption
<1>2. /\ off \in DOMAIN u.header
      /\ CheckRange(off, HDR, u.limit)
      /\ SizeOK(u.header[off].size)
      /\ CheckRange(PayloadOff(off), Wrap(size + (size % 2)), u.limit)
  BY DEF Acceptable
<1>3. size \in Nat /\ size + 1 < WORD
  BY <1>2, ArchiveFacts
<1>4. off + HDR <= u.limit
  BY <1>1, <1>2 DEF CheckRange, HDR
<1>5. PayloadOff(off) = off + HDR
  BY <1>1, <1>4 DEF PayloadOff, Wrap, HDR
<1> HIDE DEF size
<1>6. size % 2 \in {0, 1} /\ Wrap(size + (size % 2)) = size + (size % 2)
  BY <1>1, <1>3 DEF Wrap
<1>7. off + HDR + size + (size % 2) <= u.limit
  BY <1>1, <1>2, <1>3, <1>5, <1>6 DEF CheckRange, HDR, size
<1>8. Wrap(PayloadOff(off) + size) = off + HDR + size
  BY <1>1, <1>3, <1>5, <1>6, <1>7 DEF Wrap, HDR
<1>9. NextOff(u, off) = off + HDR + size + (size % 2)
  <2>1. (off + HDR + size) % 2 = size % 2
    BY <1>3 DEF HDR, size
  <2>2. CASE size % 2 = 0
    BY <1>8, <2>1, <2>2, <1>3 DEF NextOff, size, HDR
  <2>3. CASE size % 2 = 1
    <3>1. Wrap(off + HDR + size + 1) = off + HDR + size + 1
      BY <1>1, <1>3, <1>7, <2>3 DEF Wrap, HDR
    <3> QED
      BY <1>8, <2>1, <2>3, <3>1 DEF NextOff, size
  <2> QED
    BY <1>6, <2>2, <2>3
<1>10. (off + HDR + size + (size % 2)) % 2 = 0
  BY <1>3 DEF HDR
<1>11. Payload(u, off).symbols \in {"some", "none", "malformed"}
  BY <1>2, ArchiveFacts
<1>12. /\ NextOff(u, off) \in Nat
       /\ off + HDR + size <= NextOff(u, off)
       /\ NextOff(u, off) <= u.limit
       /\ NextOff(u, off) % 2 = 0
  BY <1>3, <1>6, <1>7, <1>9, <1>10 DEF HDR
<1> QED
  BY <1>2, <1>3, <1>5, <1>11, <1>12 DEF size

(* An archive's chain of headers is a sequence of offsets. *)
LEMMA ChainIsLaid ==
  ASSUME NEW u \in Archives
  PROVE  /\ Len(u.start) \in Nat \ {0}
         /\ DOMAIN u.start = 1..Len(u.start)
         /\ \A k \in 1..Len(u.start) : u.start[k] \in Nat
         /\ u.start[1] = SARMAG
         /\ \A k \in 1..(Len(u.start) - 1) :
              /\ Acceptable(u, u.start[k])
              /\ u.start[k + 1] = NextOff(u, u.start[k])
         /\ ~ Acceptable(u, u.start[Len(u.start)])
<1>1. Laid(u)
  BY ArchiveFacts
<1>2. u.start \in Seq(Nat) /\ u.start # <<>>
  BY <1>1 DEF Laid
<1>3. /\ Len(u.start) \in Nat \ {0}
      /\ DOMAIN u.start = 1..Len(u.start)
      /\ \A k \in 1..Len(u.start) : u.start[k] \in Nat
  BY <1>2
<1> QED
  BY <1>1, <1>3 DEF Laid

-----------------------------------------------------------------------------
(* Type correctness. *)

TypeInv == unit \in Archives /\ TypeOK

(* Standing on an acceptable header, the walk moves over exactly that      *)
(* member and stays inside the archive.                                    *)
LEMMA StepFits ==
  ASSUME TypeInv, Acceptable(unit, member_off)
  PROVE  /\ member_off \in Nat
         /\ unit.limit \in Nat
         /\ HeaderSize(unit, member_off) \in Nat
         /\ PayloadOff(member_off) = member_off + HDR
         /\ NextOff(unit, member_off) \in Nat
         /\ member_off + HDR + HeaderSize(unit, member_off)
              <= NextOff(unit, member_off)
         /\ NextOff(unit, member_off) <= unit.limit
         /\ NextOff(unit, member_off) % 2 = 0
         /\ Payload(unit, member_off).symbols \in {"some", "none", "malformed"}
<1>1. unit \in Archives /\ unit.limit \in Nat
  BY ArchiveFacts DEF TypeInv
<1>2. member_off \in Nat /\ member_off % 2 = 0
  BY <1>1 DEF TypeInv, TypeOK, SARMAG
<1> QED
  BY <1>1, <1>2, AcceptableFits

(* A visit leaves member_off in its type. *)
LEMMA VisitType ==
  ASSUME TypeInv, NEW kind, Visit(kind)
  PROVE  /\ unit' \in Archives
         /\ pc' \in {"loop", "tail", "done"}
         /\ member_off' \in SARMAG..unit'.limit
         /\ member_off' % 2 = 0
<1>1. /\ unit' = unit /\ pc' = pc
      /\ member_off' = NextOff(unit, member_off)
      /\ Acceptable(unit, member_off)
  BY DEF Visit
<1>2. SARMAG <= member_off
  BY StepFits, <1>1 DEF TypeInv, TypeOK, SARMAG
<1> QED
  BY <1>1, <1>2, StepFits DEF TypeInv, TypeOK, SARMAG, HDR

Whys == {"listed"} \cup UnitFails \cup UnitLogs

(* What ElfMember adds to the listing and to the log, in one place. *)
LEMMA ElfMemberAdds ==
  ASSUME TypeInv, ElfMember
  PROVE  \E e :
           /\ listed' = Append(listed, e)
           /\ e.off = member_off + HDR
           /\ e.off = PayloadOff(member_off)
           /\ e.size = HeaderSize(unit, member_off)
           /\ e.why \in Whys
           /\ result' = IF e.why \in UnitFails THEN FAIL_PATH ELSE result
           /\ logged' = IF e.why \in UnitLogs
                        THEN logged \cup {PayloadOff(member_off)} ELSE logged
<1>1. Acceptable(unit, member_off)
  BY DEF ElfMember, Visit
<1>2. PICK why \in UnitOutcomes(Payload(unit, member_off).symbols) :
        /\ result' = IF why \in UnitFails THEN FAIL_PATH ELSE result
        /\ logged' = IF why \in UnitLogs
                     THEN logged \cup {PayloadOff(member_off)} ELSE logged
        /\ listed' = Append(listed,
                       [name |-> ReturnedName(Name, strtab, bufs'),
                        off  |-> PayloadOff(member_off),
                        size |-> HeaderSize(unit, member_off),
                        why  |-> why])
  BY DEF ElfMember
<1>3. why \in Whys
  BY <1>1, StepFits DEF UnitOutcomes, Whys, UnitFails, UnitLogs
<1> DEFINE e == [name |-> ReturnedName(Name, strtab, bufs'),
                 off  |-> PayloadOff(member_off),
                 size |-> HeaderSize(unit, member_off),
                 why  |-> why]
<1>4. /\ e.off = member_off + HDR
      /\ e.off = PayloadOff(member_off)
      /\ e.size = HeaderSize(unit, member_off)
      /\ e.why = why
  BY <1>1, StepFits
<1>5. listed' = Append(listed, e)
  BY <1>2
<1> HIDE DEF e
<1> QED
  BY <1>2, <1>3, <1>4, <1>5

(* Every step keeps every variable in its type. *)
LEMMA TypeStep ==
  TypeInv /\ [Next]_vars => TypeInv'
<1> SUFFICES ASSUME TypeInv, [Next]_vars PROVE TypeInv'
  OBVIOUS
<1>1. CASE NameTable
  <2>1. Visit("strtab") /\ strtab'.size = HeaderSize(unit, member_off)
    BY <1>1 DEF NameTable
  <2>2. Acceptable(unit, member_off) /\ unit' = unit
    BY <2>1 DEF Visit
  <2>3. strtab'.size \in Nat
    BY <2>1, <2>2, StepFits
  <2> QED
    BY <1>1, <2>1, <2>2, <2>3, VisitType DEF NameTable, TypeInv, TypeOK
<1>2. CASE SymbolIndex
  BY <1>2, VisitType DEF SymbolIndex, Visit, TypeInv, TypeOK
<1>3. CASE OtherMember
  BY <1>3, VisitType DEF OtherMember, Visit, TypeInv, TypeOK
<1>4. CASE ElfMember
  <2>1. /\ Visit("member") /\ Acceptable(unit, member_off)
        /\ unit' = unit /\ strtab' = strtab
    BY <1>4 DEF ElfMember, Visit
  <2>2. PICK e :
          /\ listed' = Append(listed, e)
          /\ e.off \in Nat /\ e.size \in Nat /\ e.why \in Whys
          /\ result' = IF e.why \in UnitFails THEN FAIL_PATH ELSE result
          /\ logged' = IF e.why \in UnitLogs
                       THEN logged \cup {PayloadOff(member_off)} ELSE logged
    BY <1>4, <2>1, ElfMemberAdds, StepFits DEF HDR
  <2>3. /\ listed' \in Seq(Range(listed'))
        /\ \A i \in DOMAIN listed' :
             /\ listed'[i].off \in Nat /\ listed'[i].size \in Nat
             /\ listed'[i].why \in Whys
    <3>1. listed \in Seq(Range(listed))
      BY DEF TypeInv, TypeOK
    <3> QED
      BY <2>2, <3>1, AppendSeq DEF TypeInv, TypeOK, Whys
  <2>4. PayloadOff(member_off) \in 0..unit.limit
    BY <2>1, StepFits DEF HDR
  <2>5. logged' \subseteq 0..unit'.limit
    BY <2>1, <2>2, <2>4 DEF TypeInv, TypeOK
  <2>6. result' \in {OK, FAIL_PATH}
    BY <2>2 DEF TypeInv, TypeOK
  <2> QED
    BY <2>1, <2>3, <2>5, <2>6, VisitType DEF TypeInv, TypeOK, Whys
<1>5. CASE LeaveLoop
  BY <1>5 DEF LeaveLoop, TypeInv, TypeOK
<1>6. CASE Return
  <2>1. 0 \in 0..unit.limit
    BY ArchiveFacts DEF TypeInv
  <2> QED
    BY <1>6, <2>1 DEF Return, TypeInv, TypeOK
<1>7. CASE UNCHANGED vars
  BY <1>7 DEF vars, TypeInv, TypeOK
<1> QED
  BY <1>1, <1>2, <1>3, <1>4, <1>5, <1>6, <1>7 DEF Next, Done

-----------------------------------------------------------------------------
(* The windows. *)

(* A new window lies behind every other. *)
LEMMA WindowsStep ==
  TypeInv /\ TypeInv' /\ WindowsDisjoint /\ [Next]_vars => WindowsDisjoint'
<1> SUFFICES ASSUME TypeInv, TypeInv', WindowsDisjoint, [Next]_vars
             PROVE  WindowsDisjoint'
  OBVIOUS
<1>1. ASSUME NEW kind, Visit(kind), listed' = listed
      PROVE  WindowsDisjoint'
  <2>1. /\ member_off \in Nat /\ member_off' \in Nat
        /\ member_off <= member_off'
    BY <1>1, StepFits DEF Visit, HDR
  <2> QED
    BY <1>1, <2>1 DEF WindowsDisjoint, TypeInv, TypeOK
<1>2. CASE NameTable \/ SymbolIndex \/ OtherMember
  BY <1>1, <1>2 DEF NameTable, SymbolIndex, OtherMember
<1>3. CASE ElfMember
  <2>1. PICK e :
          /\ listed' = Append(listed, e)
          /\ e.off = member_off + HDR
          /\ e.size = HeaderSize(unit, member_off)
    BY <1>3, ElfMemberAdds
  <2>2. /\ member_off \in Nat /\ member_off' \in Nat
        /\ SARMAG <= member_off
        /\ e.size \in Nat
        /\ e.off + e.size <= member_off'
    BY <1>3, <2>1, StepFits DEF ElfMember, Visit, TypeInv, TypeOK, HDR, SARMAG
  <2>3. /\ DOMAIN listed' = 1..(Len(listed) + 1)
        /\ Len(listed) \in Nat
        /\ DOMAIN listed = 1..Len(listed)
        /\ \A i \in DOMAIN listed : listed'[i] = listed[i]
        /\ listed'[Len(listed) + 1] = e
    BY <2>1, AppendSeq DEF TypeInv, TypeOK
  <2>4. \A i \in DOMAIN listed :
          /\ SARMAG + HDR <= listed'[i].off
          /\ listed'[i].off + listed'[i].size <= member_off
          /\ listed'[i].off \in Nat /\ listed'[i].size \in Nat
          /\ \A j \in DOMAIN listed :
               i < j => listed'[i].off + listed'[i].size + HDR
                          <= listed'[j].off
    BY <2>3 DEF WindowsDisjoint, TypeInv, TypeOK
  <2>5. ASSUME NEW i \in DOMAIN listed'
        PROVE  /\ SARMAG + HDR <= listed'[i].off
               /\ listed'[i].off + listed'[i].size <= member_off'
               /\ \A j \in DOMAIN listed' :
                    i < j => listed'[i].off + listed'[i].size + HDR
                               <= listed'[j].off
    <3>1. CASE i \in DOMAIN listed
      BY <2>1, <2>2, <2>3, <2>4, <3>1, SMTT(30) DEF HDR, SARMAG
    <3>2. CASE i = Len(listed) + 1
      BY <2>1, <2>2, <2>3, <3>2 DEF HDR, SARMAG
    <3> QED
      BY <2>3, <3>1, <3>2
  <2> QED
    BY <2>5 DEF WindowsDisjoint
<1>4. CASE LeaveLoop \/ Return \/ UNCHANGED vars
  BY <1>4 DEF LeaveLoop, Return, vars, WindowsDisjoint
<1> QED
  BY <1>2, <1>3, <1>4 DEF Next, Done

-----------------------------------------------------------------------------
(* The chain of headers. *)

(* The walk stands on the writer's k-th offset, having listed exactly the  *)
(* ELF members in front of it.                                             *)
ElfStarts(k) ==
  {PayloadOff(unit.start[j]) :
     j \in {m \in 1..(k - 1) : IsElfMember(unit, unit.start[m])}}

StandsAt(k) ==
  /\ k \in 1..Len(unit.start)
  /\ member_off = unit.start[k]
  /\ {listed[i].off : i \in DOMAIN listed} = ElfStarts(k)
  /\ pc # "loop" => k = Len(unit.start)

(* Headings are printed in file order. *)
InOrder == \A i, j \in DOMAIN listed : i < j => listed[i].off < listed[j].off

(* ListedExactly, taken apart. *)
LEMMA ListedExactlyParts == ListedExactly <=> (\E k : StandsAt(k)) /\ InOrder
BY DEF ListedExactly, StandsAt, InOrder, ElfStarts

(* One member further, the ELF members in front grow by that member alone. *)
LEMMA ElfStartsGrow ==
  ASSUME NEW k \in Nat \ {0}
  PROVE  ElfStarts(k + 1) =
           IF IsElfMember(unit, unit.start[k])
           THEN ElfStarts(k) \cup {PayloadOff(unit.start[k])} ELSE ElfStarts(k)
<1>1. \A m : m \in 1..((k + 1) - 1) <=> m \in 1..(k - 1) \/ m = k
  OBVIOUS
<1> QED
  BY <1>1 DEF ElfStarts

(* A visit moves from one offset of the writer's to the next. *)
LEMMA VisitMoves ==
  ASSUME TypeInv, NEW kind, Visit(kind), NEW k, StandsAt(k)
  PROVE  /\ k \in Nat \ {0} /\ k + 1 \in 1..Len(unit'.start)
         /\ member_off' = unit'.start[k + 1]
         /\ unit' = unit
         /\ pc' = "loop"
<1>1. /\ Acceptable(unit, unit.start[k])
      /\ member_off' = NextOff(unit, unit.start[k])
      /\ unit' = unit /\ pc' = "loop"
  BY DEF Visit, StandsAt
<1>2. /\ Len(unit.start) \in Nat \ {0}
      /\ k # Len(unit.start)
      /\ k \in 1..Len(unit.start)
  BY <1>1, ChainIsLaid DEF StandsAt, TypeInv
<1> HIDE DEF StandsAt
<1>3. k \in 1..(Len(unit.start) - 1)
  BY <1>2
<1>4. unit.start[k + 1] = NextOff(unit, unit.start[k])
  BY <1>3, ChainIsLaid DEF TypeInv
<1> QED
  BY <1>1, <1>3, <1>4, <1>2

(* A step from one offset of the chain leads to the next, and out of the   *)
(* loop only at the last.                                                  *)
LEMMA ListedExactlyStep ==
  /\ TypeInv /\ WindowsDisjoint /\ WindowsDisjoint'
  /\ ListedExactly /\ [Next]_vars
  => ListedExactly'
<1> SUFFICES ASSUME TypeInv, WindowsDisjoint, WindowsDisjoint',
                    ListedExactly, [Next]_vars
             PROVE  ListedExactly'
  OBVIOUS
<1>1. PICK k : StandsAt(k)
  BY ListedExactlyParts
<1>2. InOrder
  BY ListedExactlyParts
<1>3. ASSUME NEW kind, Visit(kind), listed' = listed,
             ~ IsElfMember(unit, member_off)
      PROVE  ListedExactly'
  <2>1. /\ k \in Nat \ {0} /\ k + 1 \in 1..Len(unit'.start)
        /\ member_off' = unit'.start[k + 1]
        /\ unit' = unit /\ pc' = "loop"
    BY <1>1, <1>3, VisitMoves
  <2>2. ElfStarts(k + 1) = ElfStarts(k)
    BY <1>1, <1>3, <2>1, ElfStartsGrow DEF StandsAt
  <2>3. StandsAt(k + 1)' /\ InOrder'
    BY <1>1, <1>2, <1>3, <2>1, <2>2 DEF StandsAt, InOrder, ElfStarts
  <2> QED
    BY <2>3 DEF ListedExactly, StandsAt, InOrder, ElfStarts
<1>4. CASE NameTable \/ SymbolIndex \/ OtherMember
  <2>1. /\ \E kind : Visit(kind)
        /\ listed' = listed
        /\ ~ IsElfMember(unit, member_off)
    BY <1>4 DEF NameTable, SymbolIndex, OtherMember, Visit, IsElfMember, Name
  <2> QED
    BY <1>3, <2>1
<1>5. CASE ElfMember
  <2>1. PICK e :
          /\ listed' = Append(listed, e)
          /\ e.off = PayloadOff(member_off)
    BY <1>5, ElfMemberAdds
  <2>2. Visit("member") /\ IsElfMember(unit, member_off)
    BY <1>5 DEF ElfMember
  <2>3. /\ k \in Nat \ {0} /\ k + 1 \in 1..Len(unit'.start)
        /\ member_off' = unit'.start[k + 1]
        /\ unit' = unit /\ pc' = "loop"
    BY <1>1, <2>2, VisitMoves
  <2>4. ElfStarts(k + 1) = ElfStarts(k) \cup {e.off}
    BY <1>1, <2>1, <2>2, <2>3, ElfStartsGrow DEF StandsAt
  <2>5. /\ DOMAIN listed' = 1..(Len(listed) + 1)
        /\ Len(listed) \in Nat
        /\ DOMAIN listed = 1..Len(listed)
        /\ \A i \in DOMAIN listed : listed'[i] = listed[i]
        /\ listed'[Len(listed) + 1] = e
    BY <2>1, AppendSeq DEF TypeInv, TypeOK
  <2>6. {listed'[i].off : i \in DOMAIN listed'} =
          {listed[i].off : i \in DOMAIN listed} \cup {e.off}
    BY <2>5
  <2>7. StandsAt(k + 1)'
    BY <1>1, <2>3, <2>4, <2>6 DEF StandsAt, ElfStarts
  <2>8. InOrder'
    <3>1. \A i \in DOMAIN listed : listed[i].off < e.off
      <4>1. /\ e.off = member_off + HDR /\ member_off \in Nat
        BY <2>1, <2>2, StepFits DEF Visit
      <4>2. ASSUME NEW i \in DOMAIN listed
            PROVE  listed[i].off < member_off + HDR
        <5>1. listed[i].off \in Nat /\ listed[i].size \in Nat
          BY DEF TypeInv, TypeOK
        <5>2. listed[i].off + listed[i].size <= member_off
          BY DEF WindowsDisjoint
        <5> QED
          BY <4>1, <5>1, <5>2 DEF HDR
      <4> QED
        BY <4>1, <4>2
    <3> QED
      BY <1>2, <2>5, <3>1 DEF InOrder
  <2> QED
    BY <2>7, <2>8 DEF ListedExactly, StandsAt, InOrder, ElfStarts
<1>6. CASE LeaveLoop
  <2>1. ~ Acceptable(unit, member_off)
    <3>1. member_off \in Nat /\ unit.limit \in Nat /\ member_off <= unit.limit
      BY ArchiveFacts DEF TypeInv, TypeOK, SARMAG
    <3> QED
      BY <1>6, <3>1 DEF LeaveLoop, Acceptable, CheckRange, HDR
  <2>2. k = Len(unit.start)
    <3>1. k \in 1..Len(unit.start) /\ ~ Acceptable(unit, unit.start[k])
      BY <1>1, <2>1 DEF StandsAt
    <3>2. /\ Len(unit.start) \in Nat
          /\ \A m \in 1..(Len(unit.start) - 1) :
               Acceptable(unit, unit.start[m])
      BY ChainIsLaid DEF TypeInv
    <3> QED
      BY <3>1, <3>2
  <2> QED
    BY <1>1, <1>2, <1>6, <2>2
    DEF LeaveLoop, StandsAt, InOrder, ElfStarts, ListedExactly
<1>7. CASE Return
  BY <1>1, <1>2, <1>7 DEF Return, StandsAt, InOrder, ElfStarts, ListedExactly
<1>8. CASE UNCHANGED vars
  BY <1>8 DEF vars, ListedExactly
<1> QED
  BY <1>4, <1>5, <1>6, <1>7, <1>8 DEF Next, Done

-----------------------------------------------------------------------------
(* The verdict. *)

AllListed == \A i \in DOMAIN listed : listed[i].why \notin UnitFails

NoSortFailed == \E i \in DOMAIN listed : listed[i].why = "no_sort"

(* Inductive: before the last test, result stands for the members alone,   *)
(* and a failure without a word can only come from one of them.            *)
VerdictInv ==
  /\ pc # "done" =>
       /\ result = OK <=> AllListed
       /\ result = FAIL_PATH /\ logged = {} => NoSortFailed
  /\ pc = "done" =>
       /\ result = OK <=> Intact(unit) /\ AllListed
       /\ result = FAIL_PATH /\ logged = {} => Intact(unit) /\ NoSortFailed

(* The result kept while the archive is walked is the verdict on the       *)
(* members seen so far, and a silent failure is a failure to sort.         *)
LEMMA VerdictStep ==
  TypeInv /\ ListedExactly /\ VerdictInv /\ [Next]_vars => VerdictInv'
<1> SUFFICES ASSUME TypeInv, ListedExactly, VerdictInv, [Next]_vars
             PROVE  VerdictInv'
  OBVIOUS
<1>1. CASE NameTable \/ SymbolIndex \/ OtherMember
  BY <1>1 DEF NameTable, SymbolIndex, OtherMember, Visit,
              VerdictInv, AllListed, NoSortFailed
<1>2. CASE ElfMember
  <2>1. PICK e :
          /\ listed' = Append(listed, e)
          /\ e.why \in Whys
          /\ result' = IF e.why \in UnitFails THEN FAIL_PATH ELSE result
          /\ logged' = IF e.why \in UnitLogs
                       THEN logged \cup {PayloadOff(member_off)} ELSE logged
    BY <1>2, ElfMemberAdds
  <2>2. /\ DOMAIN listed' = 1..(Len(listed) + 1)
        /\ Len(listed) \in Nat
        /\ DOMAIN listed = 1..Len(listed)
        /\ \A i \in DOMAIN listed : listed'[i] = listed[i]
        /\ listed'[Len(listed) + 1] = e
    BY <2>1, AppendSeq DEF TypeInv, TypeOK
  <2>3. AllListed' <=> AllListed /\ e.why \notin UnitFails
    BY <2>2 DEF AllListed
  <2>4. ASSUME NoSortFailed PROVE NoSortFailed'
    <3>1. PICK i \in DOMAIN listed : listed[i].why = "no_sort"
      BY <2>4 DEF NoSortFailed
    <3>2. listed'[i] = listed[i]
      BY <2>2
    <3>3. i \in 1..Len(listed)
      BY <2>2
    <3>4. i \in DOMAIN listed'
      BY <2>2, <3>3
    <3> QED
      BY <3>1, <3>2, <3>4 DEF NoSortFailed
  <2>5. e.why = "no_sort" => NoSortFailed'
    <3>1. Len(listed) + 1 \in DOMAIN listed'
      BY <2>2
    <3> QED
      BY <2>2, <3>1 DEF NoSortFailed
  <2>6. pc # "done" /\ pc' # "done"
    BY <1>2 DEF ElfMember, Visit
  <2>7. result' = OK <=> AllListed'
    BY <2>1, <2>3, <2>6 DEF VerdictInv, OK, FAIL_PATH
  <2>8. ASSUME result' = FAIL_PATH, logged' = {} PROVE NoSortFailed'
    <3>1. e.why \notin UnitLogs /\ logged = {}
      BY <2>1, <2>8
    <3>2. e.why = "no_sort" \/ e.why = "listed"
      BY <2>1, <3>1 DEF Whys, UnitFails, UnitLogs
    <3>3. CASE e.why = "no_sort"
      BY <2>5, <3>3
    <3>4. CASE e.why = "listed"
      BY <2>1, <2>4, <2>6, <2>8, <3>1, <3>4 DEF VerdictInv, UnitFails
    <3> QED
      BY <3>2, <3>3, <3>4
  <2> QED
    BY <2>6, <2>7, <2>8 DEF VerdictInv
<1>3. CASE LeaveLoop
  BY <1>3 DEF LeaveLoop, VerdictInv, AllListed, NoSortFailed
<1>4. CASE Return
  <2>1. member_off = unit.start[Len(unit.start)]
    BY <1>4 DEF Return, ListedExactly
  <2>2. pc = "tail" /\ pc' = "done" /\ listed' = listed /\ unit' = unit
    BY <1>4 DEF Return
  <2>3. CASE member_off # unit.limit
    BY <1>4, <2>1, <2>2, <2>3
    DEF Return, VerdictInv, Intact, OK, FAIL_PATH
  <2>4. CASE member_off = unit.limit
    BY <1>4, <2>1, <2>2, <2>4
    DEF Return, VerdictInv, Intact, AllListed, NoSortFailed
  <2> QED
    BY <2>3, <2>4
<1>5. CASE UNCHANGED vars
  BY <1>5 DEF vars, VerdictInv, Intact, AllListed, NoSortFailed
<1> QED
  BY <1>1, <1>2, <1>3, <1>4, <1>5 DEF Next, Done

-----------------------------------------------------------------------------
(* The names. *)

(* The chain of headers runs through ever larger even offsets. *)
LEMMA StartsEven ==
  ASSUME NEW u \in Archives
  PROVE  \A k \in 1..Len(u.start) : u.start[k] % 2 = 0
<1> DEFINE n == Len(u.start)
           odd == {k \in 1..n : u.start[k] % 2 # 0}
<1>1. /\ n \in Nat \ {0} /\ \A k \in 1..n : u.start[k] \in Nat
      /\ u.start[1] = SARMAG
      /\ \A k \in 1..(n - 1) : /\ Acceptable(u, u.start[k])
                               /\ u.start[k + 1] = NextOff(u, u.start[k])
  BY ChainIsLaid
<1> HIDE DEF n
<1> SUFFICES ASSUME odd # {} PROVE FALSE
  BY DEF n
<1>2. PICK k \in odd : \A m \in odd : k <= m
  <2>1. odd \subseteq Nat
    BY <1>1
  <2> HIDE DEF odd
  <2> QED
    BY <2>1, Least
<1>3. k # 1
  BY <1>1, <1>2 DEF SARMAG
<1>4. k - 1 \in 1..(n - 1) /\ k - 1 \notin odd /\ (k - 1) + 1 = k /\ k - 1 \in 1..n
  BY <1>1, <1>2, <1>3
<1>5. u.start[k - 1] \in Nat /\ u.start[k - 1] % 2 = 0
  BY <1>1, <1>4
<1>6. Acceptable(u, u.start[k - 1]) /\ u.start[k] = NextOff(u, u.start[k - 1])
  BY <1>1, <1>4
<1>7. u.start[k] % 2 = 0
  BY <1>5, <1>6, AcceptableFits
<1> QED
  BY <1>2, <1>7

(* Every member lies behind the ones before it. *)
LEMMA StartsIncrease ==
  ASSUME NEW u \in Archives, NEW j \in 1..Len(u.start), NEW k \in 1..Len(u.start),
         j < k
  PROVE  u.start[j] < u.start[k]
<1> DEFINE n == Len(u.start)
           low == {m \in 1..n : j < m /\ ~ (u.start[j] < u.start[m])}
<1>1. /\ n \in Nat \ {0} /\ \A m \in 1..n : u.start[m] \in Nat
      /\ \A m \in 1..(n - 1) : /\ Acceptable(u, u.start[m])
                               /\ u.start[m + 1] = NextOff(u, u.start[m])
  BY ChainIsLaid
<1>2. j \in 1..n /\ k \in 1..n
  OBVIOUS
<1> HIDE DEF n
<1> SUFFICES ASSUME low # {} PROVE FALSE
  BY <1>2
<1>3. PICK m \in low : \A i \in low : m <= i
  <2>1. low \subseteq Nat
    BY <1>1
  <2> HIDE DEF low
  <2> QED
    BY <2>1, Least
<1>4. m - 1 \in 1..(n - 1) /\ (m - 1) + 1 = m /\ m - 1 \in 1..n /\ m - 1 \notin low
  BY <1>1, <1>2, <1>3
<1>5. u.start[m - 1] \in Nat /\ u.start[m - 1] % 2 = 0
  BY <1>1, <1>4, StartsEven DEF n
<1>6. Acceptable(u, u.start[m - 1]) /\ u.start[m] = NextOff(u, u.start[m - 1])
  BY <1>1, <1>4
<1>7. u.start[m - 1] < u.start[m]
  BY <1>5, <1>6, AcceptableFits DEF HDR
<1>8. u.start[j] \in Nat /\ u.start[m] \in Nat
  BY <1>1, <1>2, <1>3
<1>9. j < m /\ ~ (u.start[j] < u.start[m])
  BY <1>3
<1>10. j = m - 1 \/ u.start[j] < u.start[m - 1]
  BY <1>2, <1>4, <1>9
<1> QED
  BY <1>5, <1>7, <1>8, <1>9, <1>10

(* No two members have their payloads at one offset. *)
LEMMA PayloadsApart ==
  ASSUME NEW u \in Archives, NEW j \in Members(u), NEW k \in Members(u),
         PayloadOff(u.start[j]) = PayloadOff(u.start[k])
  PROVE  j = k
<1>1. /\ Len(u.start) \in Nat
      /\ \A m \in Members(u) :
           m \in 1..Len(u.start) /\ u.start[m] \in Nat /\ Acceptable(u, u.start[m])
  BY ChainIsLaid DEF Members
<1>2. \A m \in Members(u) : PayloadOff(u.start[m]) = u.start[m] + HDR
  BY <1>1, StartsEven, AcceptableFits
<1>3. u.start[j] = u.start[k] /\ j \in Int /\ k \in Int
  BY <1>1, <1>2 DEF HDR, Members
<1>4. ~ (j < k) /\ ~ (k < j)
  <2>1. ~ (u.start[j] < u.start[k]) /\ ~ (u.start[k] < u.start[j])
    BY <1>1, <1>3
  <2> QED
    BY <1>1, <2>1, StartsIncrease
<1> QED
  BY <1>3, <1>4

(* A name is extracted before anything is known of the member; the buffers *)
(* stay strings whatever the field and the table hold.                     *)
BufsOK  == bufs \in [short : Seq(Chars), long : Seq(Chars)]

TableOK ==
  /\ strtab.text \in Seq(Chars) /\ strtab.size \in Nat
  /\ strtab.size <= Len(strtab.text)

TableOf(t) == [size |-> HeaderSize(unit, unit.start[t]),
               text |-> Payload(unit, unit.start[t]).text]

(* The table kept is that of the last name table in front of the k-th      *)
(* offset.                                                                 *)
TableKept(k) ==
  \A t \in 1..(k - 1) :
    /\ KindOf(unit, t) = "strtab"
    /\ \A j \in (t + 1)..(k - 1) : KindOf(unit, j) # "strtab"
    => strtab = TableOf(t)

LastTableKept == \E k \in 1..Len(unit.start) : StandsAt(k) /\ TableKept(k)

(* What is assumed of the fields that hold names.                          *)
LEMMA NameFacts ==
  ASSUME NEW u \in Archives, NEW off, Acceptable(u, off)
  PROVE  /\ u.header[off].name \in Seq(Chars)
         /\ Len(u.header[off].name) = NameField
         /\ u.header[off].name # <<>>
         /\ Kind(u.header[off].name) = "strtab" =>
              /\ Payload(u, off).text \in Seq(Chars)
              /\ HeaderSize(u, off) \in Nat
              /\ HeaderSize(u, off) <= Len(Payload(u, off).text)
<1>1. off \in DOMAIN u.header /\ SizeOK(u.header[off].size)
  BY DEF Acceptable
<1>2. /\ u.header[off].name \in Seq(STRING)
      /\ Len(u.header[off].name) = NameField
      /\ Kind(u.header[off].name) = "strtab" =>
           /\ Payload(u, off).text \in Seq(STRING)
           /\ HeaderSize(u, off) <= Len(Payload(u, off).text)
  BY <1>1, ArchivesAssumption DEF ImageOK
<1>3. HeaderSize(u, off) \in Nat
  BY <1>1, ArchiveFacts
<1>4. STRING \subseteq Chars
  BY DEF Chars
<1>5. u.header[off].name \in Seq(Chars)
  BY <1>2, <1>4, SeqOfMore
<1>6. Kind(u.header[off].name) = "strtab" => Payload(u, off).text \in Seq(Chars)
  BY <1>2, <1>4, SeqOfMore
<1>7. u.header[off].name # <<>>
  <2>1. Len(u.header[off].name) # 0
    BY <1>2, BuffersAssumption
  <2> QED
    BY <2>1, EmptySeq
<1> QED
  BY <1>2, <1>3, <1>5, <1>6, <1>7

(* Writing a string to a buffer leaves a buffer. *)
LEMMA EntryType ==
  ASSUME NEW table, NEW offset \in Nat,
         table.text \in Seq(Chars), table.size \in Nat,
         table.size <= Len(table.text), offset < table.size
  PROVE  TableEntry(table, offset) \in Seq(Chars)
<1> DEFINE text == table.text
           size == table.size
           room == offset + LongNameBuf - 1
           last == IF room < size THEN room ELSE size
           part == SubSeq(text, offset + 1, last)
<1>1. /\ text \in Seq(Chars) /\ size \in Nat /\ size <= Len(text) /\ offset < size
      /\ Len(text) \in Nat /\ LongNameBuf \in Nat /\ 2 <= LongNameBuf
  BY BuffersAssumption
<1>2. TableEntry(table, offset) = Before(part, TableStops)
  BY DEF TableEntry
<1> HIDE DEF text, size
<1>3. last \in Int /\ offset + 1 \in Int /\ 1 <= offset + 1 /\ offset + 1 <= last + 1
      /\ last <= Len(text)
  BY <1>1
<1> HIDE DEF last
<1>4. part \in Seq(Chars)
  BY <1>1, <1>3, Slice
<1> HIDE DEF part
<1> QED
  BY <1>2, <1>4, BeforeSeq

(* Extracting a name writes one of the two buffers. *)
LEMMA ExtractingKeepsBuffers ==
  ASSUME NEW name \in Seq(Chars), name # <<>>, NEW table, NEW b,
         b \in [short : Seq(Chars), long : Seq(Chars)],
         table.text \in Seq(Chars), table.size \in Nat,
         table.size <= Len(table.text)
  PROVE  ExtractArName(name, table, b) \in [short : Seq(Chars), long : Seq(Chars)]
<1>1. b.short \in Seq(Chars) /\ b.long \in Seq(Chars)
  OBVIOUS
<1>2. CASE IsLong(name, table)
  <2>1. TableOffset(name) \in Nat /\ TableOffset(name) < table.size
    BY <1>2, TableOffsetType DEF IsLong
  <2>2. TableEntry(table, TableOffset(name)) \in Seq(Chars)
    BY <2>1, EntryType
  <2>3. Overwrite(b.long, TableEntry(table, TableOffset(name))) \in Seq(Chars)
    BY <1>1, <2>2, OverwriteType
  <2> QED
    BY <1>2, <2>3 DEF ExtractArName
<1>3. CASE ~ IsLong(name, table)
  <2>1. Before(name, FieldStops) \in Seq(Chars)
    BY BeforeSeq
  <2>2. Overwrite(b.short, Before(name, FieldStops)) \in Seq(Chars)
    BY <1>1, <2>1, OverwriteType
  <2> QED
    BY <1>3, <2>2 DEF ExtractArName
<1> QED
  BY <1>2, <1>3

(* Every step leaves strings in the buffers and in the table. *)
LEMMA BuffersStep ==
  TypeInv /\ BufsOK /\ TableOK /\ [Next]_vars => BufsOK' /\ TableOK'
<1> SUFFICES ASSUME TypeInv, BufsOK, TableOK, [Next]_vars PROVE BufsOK' /\ TableOK'
  OBVIOUS
<1>1. ASSUME NEW kind, Visit(kind) PROVE BufsOK'
  <2>1. /\ Acceptable(unit, member_off) /\ bufs' = ExtractArName(Name, strtab, bufs)
        /\ unit \in Archives
    BY <1>1 DEF Visit, TypeInv
  <2>2. Name \in Seq(Chars) /\ Name # <<>>
    BY <2>1, NameFacts DEF Name
  <2> QED
    BY <2>1, <2>2, ExtractingKeepsBuffers DEF BufsOK, TableOK
<1>2. CASE NameTable
  <2>1. /\ Acceptable(unit, member_off) /\ Kind(Name) = "strtab" /\ unit \in Archives
        /\ strtab' = [size |-> HeaderSize(unit, member_off),
                      text |-> Payload(unit, member_off).text]
        /\ Visit("strtab")
    BY <1>2 DEF NameTable, Visit, TypeInv
  <2>2. /\ Payload(unit, member_off).text \in Seq(Chars)
        /\ HeaderSize(unit, member_off) \in Nat
        /\ HeaderSize(unit, member_off) <= Len(Payload(unit, member_off).text)
    BY <2>1, NameFacts DEF Name
  <2>3. TableOK'
    BY <2>1, <2>2 DEF TableOK
  <2> QED
    BY <1>1, <2>1, <2>3
<1>3. CASE SymbolIndex \/ OtherMember \/ ElfMember
  <2>1. strtab' = strtab /\ \E kind : Visit(kind)
    BY <1>3 DEF SymbolIndex, OtherMember, ElfMember
  <2> QED
    BY <1>1, <2>1 DEF TableOK
<1>4. CASE LeaveLoop \/ Return \/ UNCHANGED vars
  BY <1>4 DEF LeaveLoop, Return, vars, BufsOK, TableOK
<1> QED
  BY <1>2, <1>3, <1>4 DEF Next, Done

(* The walk stands at one offset of the writer's only. *)
LEMMA OnePlace ==
  ASSUME unit \in Archives, NEW j, NEW k, StandsAt(j), k \in 1..Len(unit.start),
         member_off = unit.start[k]
  PROVE  j = k
<1>1. /\ Len(unit.start) \in Nat /\ j \in 1..Len(unit.start)
      /\ unit.start[j] = unit.start[k] /\ unit.start[j] \in Nat
  BY ChainIsLaid DEF StandsAt
<1>2. ~ (j < k) /\ ~ (k < j)
  <2>1. ~ (unit.start[j] < unit.start[k]) /\ ~ (unit.start[k] < unit.start[j])
    BY <1>1
  <2> QED
    BY <1>1, <2>1, StartsIncrease
<1> QED
  BY <1>1, <1>2

(* Behind a visit the walk stands one member further. *)
LEMMA VisitPlace ==
  ASSUME TypeInv, ListedExactly', NEW kind, Visit(kind), NEW k, StandsAt(k)
  PROVE  StandsAt(k + 1)' /\ KindOf(unit, k) = kind
<1>1. /\ k \in Nat \ {0} /\ k + 1 \in 1..Len(unit'.start)
      /\ member_off' = unit'.start[k + 1]
      /\ unit' = unit /\ pc' = "loop"
  BY VisitMoves
<1>2. PICK m : StandsAt(m)'
  <2>1. (\E m : StandsAt(m))'
    BY DEF ListedExactly, StandsAt, ElfStarts
  <2> QED
    BY <2>1
<1>3. unit \in Archives /\ m \in 1..Len(unit.start) /\ member_off' = unit.start[m]
  BY <1>1, <1>2 DEF StandsAt, TypeInv
<1>4. m = k + 1
  <2>1. Len(unit.start) \in Nat /\ unit.start[m] = unit.start[k + 1]
        /\ unit.start[m] \in Nat /\ k + 1 \in 1..Len(unit.start)
    BY <1>1, <1>3, ChainIsLaid
  <2>2. ~ (m < k + 1) /\ ~ (k + 1 < m)
    <3>1. ~ (unit.start[m] < unit.start[k + 1]) /\ ~ (unit.start[k + 1] < unit.start[m])
      BY <2>1
    <3> QED
      BY <1>3, <2>1, <3>1, StartsIncrease
  <2> QED
    BY <1>1, <1>3, <2>1, <2>2
<1>5. KindOf(unit, k) = kind
  BY DEF Visit, Name, KindOf, StandsAt
<1> QED
  BY <1>2, <1>4, <1>5

(* One member further, the last name table in front is that member or the  *)
(* one kept before.                                                        *)
LEMMA TableStep ==
  TypeInv /\ ListedExactly' /\ LastTableKept /\ [Next]_vars => LastTableKept'
<1> SUFFICES ASSUME TypeInv, ListedExactly', LastTableKept, [Next]_vars
             PROVE  LastTableKept'
  OBVIOUS
<1>1. PICK k \in 1..Len(unit.start) : StandsAt(k) /\ TableKept(k)
  BY DEF LastTableKept
<1>2. ASSUME NEW kind, Visit(kind),
             kind = "strtab" => strtab' = TableOf(k),
             kind # "strtab" => strtab' = strtab
      PROVE  LastTableKept'
  <2>1. /\ StandsAt(k + 1)' /\ KindOf(unit, k) = kind
        /\ k \in Nat \ {0} /\ unit' = unit
    BY <1>1, <1>2, VisitPlace, VisitMoves
  <2>2. ASSUME NEW t \in 1..k, KindOf(unit, t) = "strtab",
               \A j \in (t + 1)..k : KindOf(unit, j) # "strtab"
        PROVE  strtab' = TableOf(t)
    <3>1. CASE t = k
      BY <1>2, <2>1, <2>2, <3>1
    <3>2. CASE t # k
      <4>1. t \in 1..(k - 1) /\ k \in (t + 1)..k
            /\ \A j \in (t + 1)..(k - 1) : j \in (t + 1)..k
        BY <2>1, <3>2
      <4>2. kind # "strtab"
        BY <2>1, <2>2, <4>1
      <4> QED
        BY <1>1, <1>2, <2>2, <4>1, <4>2 DEF TableKept
    <3> QED
      BY <3>1, <3>2
  <2>3. (k + 1) - 1 = k
    BY <2>1
  <2>4. TableKept(k + 1)'
    BY <2>1, <2>2, <2>3 DEF TableKept, TableOf
  <2>5. k + 1 \in 1..Len(unit'.start)
    BY <2>1 DEF StandsAt
  <2> QED
    BY <2>1, <2>4, <2>5 DEF LastTableKept
<1>3. CASE NameTable
  BY <1>1, <1>2, <1>3 DEF NameTable, StandsAt, TableOf
<1>4. CASE SymbolIndex \/ OtherMember \/ ElfMember
  <2>1. \E kind \in {"index", "member"} : Visit(kind)
    BY <1>4 DEF SymbolIndex, OtherMember, ElfMember
  <2>2. strtab' = strtab
    BY <1>4 DEF SymbolIndex, OtherMember, ElfMember
  <2> QED
    BY <1>2, <2>1, <2>2
<1>5. CASE LeaveLoop \/ Return \/ UNCHANGED vars
  <2>1. unit' = unit /\ member_off' = member_off /\ strtab' = strtab
    BY <1>5 DEF LeaveLoop, Return, vars
  <2>2. PICK m : StandsAt(m)'
    <3>1. (\E m : StandsAt(m))'
      BY DEF ListedExactly, StandsAt, ElfStarts
    <3> QED
      BY <3>1
  <2>3. m \in 1..Len(unit.start) /\ member_off = unit.start[m]
    BY <2>1, <2>2 DEF StandsAt
  <2>4. m = k
    BY <1>1, <2>3, OnePlace DEF TypeInv
  <2>5. TableKept(k)'
    BY <1>1, <2>1 DEF TableKept, TableOf
  <2>6. k \in 1..Len(unit'.start)
    BY <2>1, <2>3, <2>4
  <2> QED
    BY <2>2, <2>4, <2>5, <2>6 DEF LastTableKept
<1> QED
  BY <1>3, <1>4, <1>5 DEF Next, Done

(* What NamesAsWritten asks of one heading. *)
NameIs(name, written) ==
  /\ IsPrefix(name, written)
  /\ Len(name) = Min({Len(written), LongNameBuf - 1})

(* The whole of a short name is what the buffers can hold of it. *)
LEMMA WholeName ==
  ASSUME NEW name \in Seq(Chars), Len(name) < NameField
  PROVE  NameIs(name, name)
<1>1. Len(name) \in Nat /\ SubSeq(name, 1, Len(name)) = name
  BY LenProperties, SubSeqFull
<1>2. IsPrefix(name, name)
  BY <1>1 DEF IsPrefix
<1> DEFINE l == Len(name)
           b == LongNameBuf - 1
<1>3. l \in Int /\ b \in Int /\ l <= b
  BY <1>1, BuffersAssumption
<1> HIDE DEF l, b
<1>4. Min({l, b}) = l
  <2>1. l \in {l, b} /\ \A m \in {l, b} : l <= m
    BY <1>3
  <2>2. \A m \in {l, b} : (\A k \in {l, b} : m <= k) => m = l
    BY <1>3
  <2> QED
    BY <2>1, <2>2 DEF Min
<1> QED
  BY <1>2, <1>4 DEF NameIs, l, b

(* The name extracted from a member of an intact archive, provided the     *)
(* table kept is that of the one name table in front.                      *)
LEMMA NameExtracted ==
  ASSUME TypeInv, BufsOK, TableOK, NEW k \in Members(unit), StandsAt(k), TableKept(k),
         Intact(unit), NameCarried(unit, k), IsElfMember(unit, member_off),
         Acceptable(unit, member_off)
  PROVE  NameIs(ReturnedName(Name, strtab, ExtractArName(Name, strtab, bufs)),
                unit.written[k])
<1> DEFINE written == unit.written[k]
           extracted == ExtractArName(Name, strtab, bufs)
<1>1. unit \in Archives /\ member_off = unit.start[k]
  BY DEF TypeInv, StandsAt
<1>2. written \in Seq(STRING) /\ Spelled(unit, k)
  BY <1>1, ArchivesAssumption DEF ImageOK
<1>3. STRING \subseteq Chars
  BY DEF Chars
<1>4. written \in Seq(Chars)
  BY <1>2, <1>3, SeqOfMore
<1>5. Range(written) \cap FieldStops = {} /\ Range(written) \cap TableStops = {}
  BY DEF NameCarried
<1>6. NUL \notin Range(written)
  BY <1>5 DEF TableStops
<1>7. /\ Name \in Seq(Chars) /\ Name # <<>> /\ Len(Name) = NameField
      /\ Name = unit.header[unit.start[k]].name
  BY <1>1, NameFacts DEF Name
<1>8. bufs.short \in Seq(Chars) /\ bufs.long \in Seq(Chars)
  BY DEF BufsOK
<1>9. CASE Len(written) < NameField
  <2>1. InField(Name, written)
    BY <1>2, <1>7, <1>9 DEF Spelled
  <2>2. ~ IsLong(Name, strtab) /\ Before(Name, FieldStops) = written
    BY <1>4, <1>5, <1>7, <2>1, ShortExtracted
  <2>3. extracted.short = Overwrite(bufs.short, written)
    BY <2>2 DEF ExtractArName, BufsOK
  <2>4. CString(extracted.short) = written
    BY <1>4, <1>6, <1>8, <2>3, BufferReadsBack
  <2>5. ReturnedName(Name, strtab, extracted) = written
    BY <2>2, <2>4 DEF ReturnedName
  <2>6. NameIs(written, written)
    BY <1>4, <1>9, WholeName
  <2> HIDE DEF written, extracted
  <2>7. NameIs(ReturnedName(Name, strtab, extracted), written)
    BY <2>5, <2>6
  <2> QED
    BY <2>7 DEF written, extracted
<1>10. CASE ~ (Len(written) < NameField)
  <2>1. Len(written) >= NameField
    BY <1>4, <1>10, LenProperties, BuffersAssumption
  <2>2. PICK t \in 1..(k - 1) : {t} = {j \in Members(unit) : KindOf(unit, j) = "strtab"}
    BY <2>1 DEF NameCarried
  <2>3. k \in Nat /\ k \in 1..(Len(unit.start) - 1) /\ Len(unit.start) \in Nat
    BY <1>1, ChainIsLaid DEF Members
  <2>4. /\ KindOf(unit, t) = "strtab"
        /\ \A j \in (t + 1)..(k - 1) : KindOf(unit, j) # "strtab"
    <3>1. t \in {j \in Members(unit) : KindOf(unit, j) = "strtab"}
      BY <2>2
    <3>2. ASSUME NEW j \in (t + 1)..(k - 1), KindOf(unit, j) = "strtab" PROVE FALSE
      <4>1. j \in Members(unit) /\ j # t
        BY <2>3, <3>2 DEF Members
      <4> QED
        BY <2>2, <3>2, <4>1
    <3> QED
      BY <3>1, <3>2
  <2>5. strtab = TableOf(t)
    BY <2>4 DEF TableKept
  <2>6. strtab.text = Payload(unit, unit.start[t]).text
        /\ strtab.size = HeaderSize(unit, unit.start[t])
    BY <2>5 DEF TableOf
  <2>7. /\ Name[1] = "/" /\ Name[2] \in Digits
        /\ InTable(strtab.text, strtab.size, TableOffset(Name), written)
    BY <1>2, <1>7, <1>10, <2>4, <2>6 DEF Spelled
  <2>8. TableOffset(Name) \in Nat
    BY <1>7, TableOffsetType
  <2>9. IsLong(Name, strtab)
    BY <2>7 DEF IsLong, InTable
  <2> DEFINE entry == TableEntry(strtab, TableOffset(Name))
  <2>10. /\ entry \in Seq(Chars) /\ NUL \notin Range(entry)
         /\ IsPrefix(entry, written)
         /\ Len(entry) = Min({Len(written), LongNameBuf - 1})
    BY <1>4, <1>5, <2>7, <2>8, LongExtracted DEF TableOK
  <2>11. extracted.long = Overwrite(bufs.long, entry)
    BY <2>9 DEF ExtractArName, BufsOK
  <2>12. CString(extracted.long) = entry
    BY <1>8, <2>10, <2>11, BufferReadsBack
  <2>13. ReturnedName(Name, strtab, extracted) = entry
    BY <2>9, <2>12 DEF ReturnedName
  <2> HIDE DEF written, extracted, entry
  <2>14. NameIs(ReturnedName(Name, strtab, extracted), written)
    BY <2>10, <2>13 DEF NameIs
  <2> QED
    BY <2>14 DEF written, extracted
<1> QED
  BY <1>9, <1>10

(* What a heading consists of. *)
LEMMA HeadingOf ==
  ASSUME TypeInv, ElfMember
  PROVE  \E e : /\ listed' = Append(listed, e)
                /\ e.off = PayloadOff(member_off)
                /\ e.name = ReturnedName(Name, strtab, ExtractArName(Name, strtab, bufs))
<1>1. bufs' = ExtractArName(Name, strtab, bufs)
  BY DEF ElfMember, Visit
<1>2. PICK why : listed' = Append(listed,
                       [name |-> ReturnedName(Name, strtab, bufs'),
                        off  |-> PayloadOff(member_off),
                        size |-> HeaderSize(unit, member_off),
                        why  |-> why])
  BY DEF ElfMember
<1> DEFINE e == [name |-> ReturnedName(Name, strtab, bufs'),
                 off  |-> PayloadOff(member_off),
                 size |-> HeaderSize(unit, member_off),
                 why  |-> why]
<1>3. listed' = Append(listed, e)
  BY <1>2
<1>4. /\ e.off = PayloadOff(member_off)
      /\ e.name = ReturnedName(Name, strtab, ExtractArName(Name, strtab, bufs))
  BY <1>1
<1> HIDE DEF e
<1> QED
  BY <1>3, <1>4

(* NamesAsWritten, heading by heading. *)
LEMMA NamesParts ==
  NamesAsWritten <=>
    (Intact(unit) =>
       \A i \in DOMAIN listed : \A k \in Members(unit) :
         listed[i].off = PayloadOff(unit.start[k]) /\ NameCarried(unit, k) =>
           NameIs(listed[i].name, unit.written[k]))
BY DEF NamesAsWritten, NameIs

(* A new heading has its own name, and no step changes an old one. *)
LEMMA NamesStep ==
  /\ TypeInv /\ BufsOK /\ TableOK /\ LastTableKept /\ NamesAsWritten /\ [Next]_vars
  => NamesAsWritten'
<1> SUFFICES ASSUME TypeInv, BufsOK, TableOK, LastTableKept, NamesAsWritten, [Next]_vars
             PROVE  NamesAsWritten'
  OBVIOUS
<1>1. CASE ElfMember
  <2>1. PICK e : /\ listed' = Append(listed, e)
                 /\ e.off = PayloadOff(member_off)
                 /\ e.name = ReturnedName(Name, strtab, ExtractArName(Name, strtab, bufs))
    BY <1>1, HeadingOf
  <2>2. /\ DOMAIN listed' = 1..(Len(listed) + 1)
        /\ Len(listed) \in Nat
        /\ DOMAIN listed = 1..Len(listed)
        /\ \A i \in DOMAIN listed : listed'[i] = listed[i]
        /\ listed'[Len(listed) + 1] = e
    BY <2>1, AppendSeq DEF TypeInv, TypeOK
  <2>3. /\ unit' = unit /\ Acceptable(unit, member_off) /\ IsElfMember(unit, member_off)
        /\ Visit("member") /\ unit \in Archives
    BY <1>1 DEF ElfMember, Visit, TypeInv
  <2>4. PICK k \in 1..Len(unit.start) : StandsAt(k) /\ TableKept(k)
    BY DEF LastTableKept
  <2>5. k \in Members(unit)
    <3>1. k \in Nat \ {0} /\ k + 1 \in 1..Len(unit.start) /\ Len(unit.start) \in Nat
      BY <2>3, <2>4, VisitMoves, ChainIsLaid
    <3> QED
      BY <3>1 DEF Members
  <2>6. ASSUME Intact(unit), NEW i \in DOMAIN listed', NEW m \in Members(unit),
               listed'[i].off = PayloadOff(unit.start[m]), NameCarried(unit, m)
        PROVE  NameIs(listed'[i].name, unit.written[m])
    <3>1. CASE i \in DOMAIN listed
      BY <2>2, <2>6, <3>1, NamesParts
    <3>2. CASE i = Len(listed) + 1
      <4>1. e.off = PayloadOff(unit.start[m]) /\ e.off = PayloadOff(unit.start[k])
        BY <2>1, <2>2, <2>4, <2>6, <3>2 DEF StandsAt
      <4>2. m = k
        BY <2>3, <2>5, <2>6, <4>1, PayloadsApart
      <4>3. NameIs(ReturnedName(Name, strtab, ExtractArName(Name, strtab, bufs)),
                   unit.written[k])
        BY <2>3, <2>4, <2>5, <2>6, <4>2, NameExtracted
      <4> QED
        BY <2>1, <2>2, <3>2, <4>2, <4>3
    <3> QED
      BY <2>2, <2>6, <3>1, <3>2
  <2>7. Intact(unit) =>
           \A i \in DOMAIN listed' : \A m \in Members(unit) :
             listed'[i].off = PayloadOff(unit.start[m]) /\ NameCarried(unit, m) =>
               NameIs(listed'[i].name, unit.written[m])
    BY <2>6
  <2> QED
    BY <2>3, <2>7 DEF NamesAsWritten, NameIs
<1>2. CASE NameTable \/ SymbolIndex \/ OtherMember \/ LeaveLoop \/ Return \/ UNCHANGED vars
  <2>1. unit' = unit /\ listed' = listed
    BY <1>2 DEF NameTable, SymbolIndex, OtherMember, Visit, LeaveLoop, Return, vars
  <2> QED
    BY <2>1 DEF NamesAsWritten
<1> QED
  BY <1>1, <1>2 DEF Next, Done

-----------------------------------------------------------------------------
(* The theorems. *)

(* Inductive: what holds whenever an archive is being walked. *)
ArInv ==
  /\ TypeInv /\ WindowsDisjoint /\ ListedExactly /\ VerdictInv
  /\ BufsOK /\ TableOK /\ LastTableKept /\ NamesAsWritten

(* The state in which the walk is entered, whatever the static buffers     *)
(* hold.                                                                   *)
Entered ==
  /\ unit \in Archives /\ pc = "loop" /\ member_off = SARMAG /\ strtab = NoTable
  /\ result = OK /\ listed = <<>> /\ logged = {} /\ BufsOK

(* The invariant holds wherever the walk is entered... *)
LEMMA EnteredHolds == Entered => ArInv
<1> SUFFICES ASSUME Entered PROVE ArInv
  OBVIOUS
<1>1. /\ unit.limit \in Nat /\ unit.limit >= SARMAG /\ unit \in Archives
      /\ Len(unit.start) \in Nat \ {0} /\ unit.start[1] = SARMAG
  BY ArchiveFacts, ChainIsLaid DEF Entered
<1>2. listed \in Seq(Range(listed)) /\ DOMAIN listed = {}
  BY DEF Entered
<1>3. TypeInv
  BY <1>1, <1>2 DEF Entered, TypeInv, TypeOK, SARMAG, NoTable
<1>4. WindowsDisjoint
  BY <1>2 DEF WindowsDisjoint
<1>5. ElfStarts(1) = {}
  BY DEF ElfStarts
<1>6. StandsAt(1) /\ InOrder
  BY <1>1, <1>2, <1>5 DEF Entered, StandsAt, InOrder
<1>7. ListedExactly
  BY <1>6, ListedExactlyParts
<1>8. VerdictInv
  BY <1>2 DEF Entered, VerdictInv, AllListed, NoSortFailed, OK, FAIL_PATH
<1>9. TableOK
  <2>1. strtab.text = <<>> /\ strtab.size = 0
    BY DEF Entered, NoTable
  <2>2. strtab.text \in Seq(Chars) /\ Len(strtab.text) = 0
    BY <2>1, NoElements, EmptySeq
  <2> QED
    BY <2>1, <2>2 DEF TableOK
<1>10. LastTableKept
  <2>1. TableKept(1)
    BY DEF TableKept
  <2> QED
    BY <1>1, <1>6, <2>1 DEF LastTableKept
<1>11. NamesAsWritten
  BY <1>2 DEF NamesAsWritten
<1> QED
  BY <1>3, <1>4, <1>7, <1>8, <1>9, <1>10, <1>11 DEF ArInv, Entered

(* ... and so at the beginning... *)
LEMMA InitHolds == Init => ArInv
<1> SUFFICES ASSUME Init PROVE Entered
  BY EnteredHolds
<1>1. CheckRange(0, SARMAG, unit.limit)
  BY ArchiveFacts DEF Init, CheckRange, SARMAG
<1>2. NUL \in Chars
  BY DEF Chars
<1>3. /\ [j \in 1..(NameField + 1) |-> NUL] \in Seq(Chars)
      /\ [j \in 1..LongNameBuf |-> NUL] \in Seq(Chars)
  <2>1. NameField + 1 \in Nat /\ LongNameBuf \in Nat
    BY BuffersAssumption
  <2> QED
    BY <1>2, <2>1
<1>4. BufsOK
  BY <1>3 DEF Init, BufsOK
<1> QED
  BY <1>1, <1>4 DEF Init, Entered

(* ... and every step keeps it. *)
LEMMA StepHolds == ArInv /\ [Next]_vars => ArInv'
<1> SUFFICES ASSUME ArInv, [Next]_vars PROVE ArInv'
  OBVIOUS
<1>1. TypeInv'
  BY TypeStep DEF ArInv
<1>2. WindowsDisjoint'
  BY <1>1, WindowsStep DEF ArInv
<1>3. ListedExactly'
  BY <1>2, ListedExactlyStep DEF ArInv
<1>4. VerdictInv'
  BY VerdictStep DEF ArInv
<1>5. BufsOK' /\ TableOK'
  BY BuffersStep DEF ArInv
<1>6. LastTableKept'
  BY <1>3, TableStep DEF ArInv
<1>7. NamesAsWritten'
  BY NamesStep DEF ArInv
<1> QED
  BY <1>1, <1>2, <1>3, <1>4, <1>5, <1>6, <1>7 DEF ArInv

(* The invariant of the walk. *)
THEOREM ArInvHolds == Spec => []ArInv
BY InitHolds, StepHolds, PTL DEF Spec

(* Every variable keeps its type: member_off even and never beyond the     *)
(* archive, whatever the size fields say.                                  *)
THEOREM TypesHold == Spec => []TypeOK
<1>1. ArInv => TypeOK
  BY DEF ArInv, TypeInv
<1> QED
  BY <1>1, ArInvHolds, PTL

(* Payload windows never overlap and stay inside the archive. *)
THEOREM WindowsHold == Spec => []WindowsDisjoint
<1>1. ArInv => WindowsDisjoint
  BY DEF ArInv
<1> QED
  BY <1>1, ArInvHolds, PTL

(* Every ELF member is listed, once and in file order, and the walk stops  *)
(* nowhere but at the end of the chain of headers.                         *)
THEOREM ListedExactlyHolds == Spec => []ListedExactly
<1>1. ArInv => ListedExactly
  BY DEF ArInv
<1> QED
  BY <1>1, ArInvHolds, PTL

(* The name printed for a member is its writer's, as far as long_name_buf  *)
(* can hold it: the field or the name table gives it back whole, and what  *)
(* earlier members left in the static buffers never shows.                 *)
THEOREM NamesAsWrittenHolds == Spec => []NamesAsWritten
<1>1. ArInv => NamesAsWritten
  BY DEF ArInv
<1> QED
  BY <1>1, ArInvHolds, PTL

(* An archive is accepted exactly when all of it was accounted for and no  *)
(* ELF member failed.                                                      *)
THEOREM VerdictExactHolds == Spec => []VerdictExact
<1>1. ArInv => VerdictExact
  BY DEF ArInv, VerdictInv, VerdictExact, AllListed
<1> QED
  BY <1>1, ArInvHolds, PTL

(* A failed archive is explained on stderr, unless only sorting ran out of *)
(* memory.                                                                 *)
THEOREM FailureExplainedHolds == Spec => []FailureExplained
<1>1. ArInv => FailureExplained
  BY DEF ArInv, VerdictInv, FailureExplained, NoSortFailed
<1> QED
  BY <1>1, ArInvHolds, PTL

(* No step takes back a heading or a failure, and each turn of the loop    *)
(* moves at least a header forward.                                        *)
THEOREM WalkAdvancesHolds == Spec => WalkAdvances
<1> DEFINE Advance ==
      /\ IsPrefix(listed, listed')
      /\ result = FAIL_PATH => result' = FAIL_PATH
      /\ pc' = "loop" => member_off' >= member_off + HDR
<1>1. ArInv /\ [Next]_vars => [Advance]_vars
  <2> SUFFICES ASSUME TypeInv, Next PROVE [Advance]_vars
    BY DEF ArInv
  <2>1. IsPrefix(listed, listed)
    BY DEF TypeInv, TypeOK, IsPrefix
  <2>2. ASSUME NEW kind, Visit(kind) PROVE member_off' >= member_off + HDR
    BY <2>2, StepFits DEF Visit, HDR
  <2>3. CASE NameTable \/ SymbolIndex \/ OtherMember
    BY <2>1, <2>2, <2>3 DEF NameTable, SymbolIndex, OtherMember
  <2>4. CASE ElfMember
    BY <2>2, <2>4, ElfMemberAdds, AppendSeq DEF ElfMember, TypeInv, TypeOK
  <2>5. CASE LeaveLoop \/ Return
    BY <2>1, <2>5 DEF LeaveLoop, Return
  <2>6. CASE Done
    BY <2>6 DEF Done
  <2> QED
    BY <2>3, <2>4, <2>5, <2>6 DEF Next
<1> QED
  BY <1>1, ArInvHolds, PTL DEF Spec, WalkAdvances
=============================================================================
