------------------------------ MODULE DataLemmas ------------------------------
(***************************************************************************)
(* Facts about numbers, sequences and functions defined by recursion that  *)
(* several proofs rest on.                                                 *)
(***************************************************************************)
EXTENDS Integers, SequencesExt, SequenceTheorems, WellFoundedInduction, TLAPS

(* Every set of numbers has a least one.  Applied to the set of those that *)
(* lack a property, this is induction.                                     *)
LEMMA Least ==
  ASSUME NEW S, S \subseteq Nat, S # {}
  PROVE  \E m \in S : \A n \in S : m <= n
<1>1. PICK m \in S : \A n \in S : ~ (<<n, m>> \in OpToRel(<, Nat))
  <2> HIDE DEF OpToRel
  <2> QED
    BY WFMin, NatLessThanWellFounded
<1>2. \A n \in S : ~ (n < m)
  BY <1>1 DEF OpToRel
<1> QED
  BY <1>2

LEMMA NoElements == ASSUME NEW S PROVE <<>> \in Seq(S)
OBVIOUS

LEMMA OneElement ==
  ASSUME NEW S, NEW e \in S
  PROVE  /\ <<e>> \in Seq(S)
         /\ <<e>> # <<>>
<1>1. <<e>> = Append(<<>>, e)
  OBVIOUS
<1>2. Append(<<>>, e) \in Seq(S) /\ Append(<<>>, e) # <<>>
  OBVIOUS
<1> QED
  BY <1>1, <1>2

(* A sequence over a set is one over every larger set. *)
LEMMA SeqOfMore ==
  ASSUME NEW S, NEW T, S \subseteq T, NEW s \in Seq(S)
  PROVE  s \in Seq(T)
OBVIOUS

(* Appending, element by element. *)
LEMMA Appending ==
  ASSUME NEW S, NEW s \in Seq(S), NEW e \in S
  PROVE  /\ Append(s, e) \in Seq(S)
         /\ Len(s) \in Nat
         /\ Len(Append(s, e)) = Len(s) + 1
         /\ DOMAIN s = 1..Len(s)
         /\ DOMAIN Append(s, e) = 1..(Len(s) + 1)
         /\ \A k \in 1..Len(s) : Append(s, e)[k] = s[k]
         /\ Append(s, e)[Len(s) + 1] = e
OBVIOUS

(* The parts of a sequence. *)
LEMMA Slice ==
  ASSUME NEW S, NEW s \in Seq(S), NEW a \in Int, NEW b \in Int,
         1 <= a, a <= b + 1, b <= Len(s)
  PROVE  /\ SubSeq(s, a, b) \in Seq(S)
         /\ Len(SubSeq(s, a, b)) = b - a + 1
         /\ \A i \in 1..(b - a + 1) : SubSeq(s, a, b)[i] = s[a + i - 1]
<1>1. \A i \in a..b : s[i] \in S
  OBVIOUS
<1>2. /\ SubSeq(s, a, b) \in Seq(S)
      /\ Len(SubSeq(s, a, b)) = IF a <= b THEN b - a + 1 ELSE 0
      /\ \A i \in 1..(b - a + 1) : SubSeq(s, a, b)[i] = s[a + i - 1]
  BY <1>1, SubSeqProperties
<1> QED
  BY <1>2

(* A sequence is cut in two. *)
LEMMA Cut ==
  ASSUME NEW S, NEW s \in Seq(S), NEW a \in Int, NEW b \in Int, NEW c \in Int,
         1 <= a, a <= b + 1, b <= c, c <= Len(s)
  PROVE  SubSeq(s, a, b) \o SubSeq(s, b + 1, c) = SubSeq(s, a, c)
<1>1. Len(s) \in Nat
  OBVIOUS
<1>2. a \in 1..(Len(s) + 1) /\ b \in (a - 1)..Len(s) /\ c \in b..Len(s)
  BY <1>1
<1> QED
  BY <1>2, ConcatAdjacentSubSeq

(* A part of a part. *)
LEMMA PartOfPart ==
  ASSUME NEW S, NEW s \in Seq(S), NEW a \in Int, NEW b \in Int,
         1 <= a, a <= b + 1, b <= Len(s),
         NEW c \in Int, NEW d \in Int, 1 <= c, c <= d + 1, d <= b - a + 1
  PROVE  SubSeq(SubSeq(s, a, b), c, d) = SubSeq(s, a + c - 1, a + d - 1)
<1>1. /\ SubSeq(s, a, b) \in Seq(S)
      /\ Len(SubSeq(s, a, b)) = b - a + 1
      /\ \A i \in 1..(b - a + 1) : SubSeq(s, a, b)[i] = s[a + i - 1]
  BY Slice
<1> DEFINE p == SubSeq(s, a, b)
<1>2. p \in Seq(S) /\ Len(p) = b - a + 1
  BY <1>1
<1>3. \A i \in 1..(b - a + 1) : p[i] = s[a + i - 1]
  BY <1>1
<1> HIDE DEF p
<1>4. /\ SubSeq(p, c, d) \in Seq(S)
      /\ Len(SubSeq(p, c, d)) = d - c + 1
      /\ \A i \in 1..(d - c + 1) : SubSeq(p, c, d)[i] = p[c + i - 1]
  BY <1>2, Slice
<1>5. a + c - 1 \in Int /\ a + d - 1 \in Int /\ 1 <= a + c - 1
      /\ a + c - 1 <= a + d - 1 + 1 /\ a + d - 1 <= Len(s)
  OBVIOUS
<1>6. /\ SubSeq(s, a + c - 1, a + d - 1) \in Seq(S)
      /\ Len(SubSeq(s, a + c - 1, a + d - 1)) = (a + d - 1) - (a + c - 1) + 1
      /\ \A i \in 1..((a + d - 1) - (a + c - 1) + 1) :
           SubSeq(s, a + c - 1, a + d - 1)[i] = s[a + c - 1 + i - 1]
  BY <1>5, Slice
<1>7. (a + d - 1) - (a + c - 1) + 1 = d - c + 1
  OBVIOUS
<1>8. ASSUME NEW i \in 1..(d - c + 1)
      PROVE  SubSeq(p, c, d)[i] = SubSeq(s, a + c - 1, a + d - 1)[i]
  <2>1. c + i - 1 \in 1..(b - a + 1) /\ a + (c + i - 1) - 1 = a + c - 1 + i - 1
    OBVIOUS
  <2> QED
    BY <1>3, <1>4, <1>6, <1>7, <2>1
<1>9. SubSeq(p, c, d) = SubSeq(s, a + c - 1, a + d - 1)
  <2> DEFINE u == SubSeq(p, c, d)
             v == SubSeq(s, a + c - 1, a + d - 1)
  <2>1. /\ u \in Seq(S) /\ v \in Seq(S) /\ Len(u) = d - c + 1 /\ Len(v) = d - c + 1
        /\ \A i \in 1..(d - c + 1) : u[i] = v[i]
    BY <1>4, <1>6, <1>7, <1>8
  <2> HIDE DEF u, v
  <2>2. u = v
    BY <2>1, SeqEqual
  <2> QED
    BY <2>2 DEF u, v
<1> QED
  BY <1>9 DEF p

(* The length of two sequences joined. *)
LEMMA Longer ==
  ASSUME NEW S, NEW x \in Seq(S), NEW y \in Seq(S)
  PROVE  Len(x \o y) = Len(x) + Len(y) /\ Len(x) \in Nat /\ Len(y) \in Nat
OBVIOUS

(* The two halves of a sequence over a set. *)
LEMMA Halves ==
  ASSUME NEW S, NEW T, NEW x \in Seq(T), NEW y \in Seq(T), x \o y \in Seq(S)
  PROVE  x \in Seq(S) /\ y \in Seq(S)
<1> DEFINE z == x \o y
<1>1. /\ Len(z) = Len(x) + Len(y) /\ Len(x) \in Nat /\ Len(y) \in Nat
      /\ \A i \in 1..Len(x) : z[i] = x[i]
      /\ \A i \in 1..Len(y) : z[Len(x) + i] = y[i]
  OBVIOUS
<1> HIDE DEF z
<1>2. /\ \A i \in 1..Len(x) : i \in 1..Len(z)
      /\ \A i \in 1..Len(y) : Len(x) + i \in 1..Len(z)
  BY <1>1
<1>3. \A i \in 1..Len(z) : z[i] \in S
  BY DEF z
<1>4. /\ \A i \in 1..Len(x) : x[i] \in S
      /\ \A i \in 1..Len(y) : y[i] \in S
  BY <1>1, <1>2, <1>3
<1> QED
  BY <1>4

-----------------------------------------------------------------------------
(* Sequences of sequences. *)

(* The concatenation of a sequence of sequences, one more at a time.       *)
Joined(seqs) ==
  CHOOSE f : f = [i \in 1..Len(seqs) |->
                    IF i = 1 THEN seqs[i] ELSE f[i - 1] \o seqs[i]]

(* What Joined is after each of them. *)
LEMMA JoinedDef ==
  ASSUME NEW seqs, Len(seqs) \in Nat
  PROVE  \A i \in 1..Len(seqs) :
           Joined(seqs)[i] = IF i = 1 THEN seqs[i] ELSE Joined(seqs)[i - 1] \o seqs[i]
<1> DEFINE step(f, i) == IF i = 1 THEN seqs[i] ELSE f[i - 1] \o seqs[i]
           defined(m) == \E f : f = [i \in 1..m |-> step(f, i)]
           missing == {m \in 0..Len(seqs) : ~ defined(m)}
<1>1. missing = {}
  <2> SUFFICES ASSUME missing # {} PROVE FALSE
    OBVIOUS
  <2>1. PICK m \in missing : \A n \in missing : m <= n
    <3>1. missing \subseteq Nat
      <4> HIDE DEF defined
      <4> QED
        OBVIOUS
    <3> HIDE DEF missing
    <3> QED
      BY <3>1, Least
  <2>2. CASE m = 0
    <3> DEFINE f == [i \in 1..0 |-> <<>>]
    <3>1. f = [i \in 1..0 |-> step(f, i)]
      OBVIOUS
    <3> QED
      BY <2>2, <3>1
  <2>3. CASE m # 0
    <3>1. m - 1 \in 0..Len(seqs) /\ m - 1 \notin missing
      <4> HIDE DEF defined
      <4> QED
        BY <2>1, <2>3
    <3>2. PICK f : f = [i \in 1..(m - 1) |-> step(f, i)]
      BY <3>1
    <3> DEFINE g == [i \in 1..m |-> IF i < m THEN f[i] ELSE step(f, m)]
    <3>3. ASSUME NEW i \in 1..m PROVE g[i] = step(g, i)
      <4>1. i \in Int /\ m \in Int /\ i <= m
        BY <2>1
      <4>2. i # 1 => g[i - 1] = f[i - 1]
        BY <4>1
      <4>3. step(g, i) = step(f, i)
        BY <4>2
      <4>4. i < m => f[i] = step(f, i)
        <5> HIDE DEF step
        <5> QED
          BY <3>2, <4>1
      <4> QED
        BY <4>1, <4>3, <4>4
    <3>4. g = [i \in 1..m |-> step(g, i)]
      <4>1. g = [i \in 1..m |-> g[i]]
        OBVIOUS
      <4> HIDE DEF g, step
      <4> QED
        BY <3>3, <4>1
    <3>5. defined(m)
      <4> HIDE DEF g, step
      <4> QED
        BY <3>4
    <3> QED
      BY <3>5
  <2> QED
    BY <2>2, <2>3
<1>2. defined(Len(seqs))
  <2> HIDE DEF defined
  <2> QED
    BY <1>1
<1>3. Joined(seqs) = [i \in 1..Len(seqs) |-> step(Joined(seqs), i)]
  BY <1>2 DEF Joined
<1> QED
  <2> DEFINE J == Joined(seqs)
  <2>1. J = [i \in 1..Len(seqs) |-> step(J, i)]
    BY <1>3
  <2> HIDE DEF J
  <2>2. \A i \in 1..Len(seqs) : J[i] = step(J, i)
    BY <2>1
  <2> QED
    BY <2>2 DEF J

(* FlattenSeq is what Joined is in the end. *)
LEMMA FlattenJoined ==
  ASSUME NEW seqs
  PROVE  FlattenSeq(seqs) = IF Len(seqs) = 0 THEN seqs ELSE Joined(seqs)[Len(seqs)]
BY DEF FlattenSeq, Joined

(* One sequence more. *)
LEMMA FlattenAppend ==
  ASSUME NEW S, NEW seqs \in Seq(Seq(S)), NEW s \in Seq(S)
  PROVE  /\ FlattenSeq(<<>>) = <<>>
         /\ FlattenSeq(Append(seqs, s)) = FlattenSeq(seqs) \o s
<1> DEFINE more == Append(seqs, s)
           J == Joined(seqs)
           K == Joined(more)
           differ == {i \in 1..Len(seqs) : J[i] # K[i]}
<1>1. /\ Len(seqs) \in Nat /\ more \in Seq(Seq(S))
      /\ Len(more) = Len(seqs) + 1
      /\ \A k \in 1..Len(seqs) : more[k] = seqs[k]
      /\ more[Len(seqs) + 1] = s
  OBVIOUS
<1>2. \A i \in 1..Len(seqs) : J[i] = IF i = 1 THEN seqs[i] ELSE J[i - 1] \o seqs[i]
  BY JoinedDef
<1>3. \A i \in 1..Len(more) : K[i] = IF i = 1 THEN more[i] ELSE K[i - 1] \o more[i]
  <2>1. Len(more) \in Nat
    BY <1>1
  <2> HIDE DEF more
  <2> QED
    BY <2>1, JoinedDef
<1>4. FlattenSeq(seqs) = IF Len(seqs) = 0 THEN seqs ELSE J[Len(seqs)]
  BY FlattenJoined
<1>5. FlattenSeq(more) = IF Len(more) = 0 THEN more ELSE K[Len(more)]
  <2> HIDE DEF more
  <2> QED
    BY FlattenJoined
<1> HIDE DEF J, K, more
<1>6. differ = {}
  <2> SUFFICES ASSUME differ # {} PROVE FALSE
    OBVIOUS
  <2>1. PICK i \in differ : \A k \in differ : i <= k
    <3>1. differ \subseteq Nat
      BY <1>1
    <3> HIDE DEF differ
    <3> QED
      BY <3>1, Least
  <2>2. i \in 1..Len(seqs) /\ i \in 1..Len(more) /\ more[i] = seqs[i] /\ J[i] # K[i]
    BY <1>1
  <2>3. CASE i = 1
    BY <1>2, <1>3, <2>2, <2>3
  <2>4. CASE i # 1
    <3>1. i - 1 \in 1..Len(seqs) /\ ~ (i <= i - 1)
      <4> DEFINE l == Len(seqs)
      <4>1. l \in Nat /\ i \in 1..l /\ i # 1
        BY <1>1, <2>2, <2>4
      <4> HIDE DEF l, differ
      <4>2. i - 1 \in 1..l /\ ~ (i <= i - 1)
        BY <4>1
      <4> QED
        BY <4>2 DEF l
    <3>2. J[i - 1] = K[i - 1]
      BY <2>1, <3>1
    <3> QED
      BY <1>2, <1>3, <2>2, <2>4, <3>2
  <2> QED
    BY <2>3, <2>4
<1>7. FlattenSeq(<<>>) = <<>>
  <2> DEFINE none == <<>>
  <2>1. none \in Seq(S) /\ Len(none) = 0
    OBVIOUS
  <2> HIDE DEF none
  <2>2. FlattenSeq(none) = none
    BY <2>1, FlattenJoined
  <2> QED
    BY <2>2 DEF none
<1>8. ASSUME seqs # <<>> PROVE FlattenSeq(more) = FlattenSeq(seqs) \o s
  <2>1. Len(seqs) # 0
    BY <1>8
  <2>2. Len(more) \in 1..Len(more) /\ Len(more) # 1 /\ Len(more) - 1 = Len(seqs)
        /\ Len(seqs) \in 1..Len(seqs) /\ Len(more) # 0
    BY <1>1, <2>1
  <2>3. K[Len(more)] = K[Len(seqs)] \o s
    BY <1>1, <1>3, <2>2
  <2>4. K[Len(seqs)] = J[Len(seqs)]
    BY <1>6, <2>2
  <2> QED
    BY <1>4, <1>5, <2>1, <2>2, <2>3, <2>4
<1>9. FlattenSeq(Append(<<>>, s)) = s
  <2> DEFINE one == Append(<<>>, s)
  <2>1. one \in Seq(Seq(S)) /\ Len(one) = 1 /\ one[1] = s
        /\ Len(one) \in Nat /\ 1 \in 1..Len(one)
    OBVIOUS
  <2> HIDE DEF one
  <2>2. FlattenSeq(one) = IF Len(one) = 0 THEN one ELSE Joined(one)[Len(one)]
    BY FlattenJoined
  <2>3. Joined(one)[1] = one[1]
    BY <2>1, JoinedDef
  <2> QED
    BY <2>1, <2>2, <2>3 DEF one
<1>10. <<>> \o s = s
  BY ConcatEmptySeq
<1> QED
  BY <1>7, <1>8, <1>9, <1>10 DEF more

(* Concatenation is associative. *)
Regroups(x, y, z) == (x \o y) \o z = x \o (y \o z)

LEMMA Associative == \A S : \A x, y, z \in Seq(S) : Regroups(x, y, z)
BY ConcatAssociative DEF Regroups

(* The first m of a sequence of sequences, joined. *)
JoinedTo(seqs, m) == FlattenSeq(SubSeq(seqs, 1, m))

LEMMA JoinedToIs ==
  ASSUME NEW S, NEW seqs \in Seq(Seq(S))
  PROVE  /\ JoinedTo(seqs, 0) = <<>>
         /\ \A m \in 0..(Len(seqs) - 1) : JoinedTo(seqs, m + 1) = JoinedTo(seqs, m) \o seqs[m + 1]
         /\ \A m \in 0..Len(seqs) : JoinedTo(seqs, m) \in Seq(S)
         /\ JoinedTo(seqs, Len(seqs)) = FlattenSeq(seqs)
<1>1. Len(seqs) \in Nat
  OBVIOUS
<1>2. JoinedTo(seqs, 0) = <<>>
  <2>1. SubSeq(seqs, 1, 0) = <<>>
    OBVIOUS
  <2>2. <<>> \in Seq(Seq(S)) /\ <<>> \in Seq(S)
    OBVIOUS
  <2>3. FlattenSeq(<<>>) = <<>>
    BY <2>2, FlattenAppend
  <2> QED
    BY <2>1, <2>3 DEF JoinedTo
<1>3. ASSUME NEW m \in 0..(Len(seqs) - 1)
      PROVE  JoinedTo(seqs, m + 1) = JoinedTo(seqs, m) \o seqs[m + 1]
  <2> DEFINE p == SubSeq(seqs, 1, m)
             q == SubSeq(seqs, 1, m + 1)
  <2>1. m \in Int /\ m + 1 \in 1..Len(seqs) /\ seqs[m + 1] \in Seq(S)
    BY <1>1
  <2>2. /\ p \in Seq(Seq(S)) /\ Len(p) = m
        /\ \A i \in 1..m : p[i] = seqs[i]
    <3>1. 1 \in Int /\ 1 <= 1 /\ 1 <= m + 1 /\ m <= Len(seqs)
      BY <1>1, <2>1
    <3>2. /\ SubSeq(seqs, 1, m) \in Seq(Seq(S))
          /\ Len(SubSeq(seqs, 1, m)) = m - 1 + 1
          /\ \A i \in 1..(m - 1 + 1) : SubSeq(seqs, 1, m)[i] = seqs[1 + i - 1]
      BY <2>1, <3>1, Slice
    <3> HIDE DEF p
    <3> QED
      BY <2>1, <3>2 DEF p
  <2>3. /\ q \in Seq(Seq(S)) /\ Len(q) = m + 1
        /\ \A i \in 1..(m + 1) : q[i] = seqs[i]
    <3>1. 1 \in Int /\ 1 <= 1 /\ 1 <= (m + 1) + 1 /\ m + 1 <= Len(seqs) /\ m + 1 \in Int
      BY <1>1, <2>1
    <3>2. /\ SubSeq(seqs, 1, m + 1) \in Seq(Seq(S))
          /\ Len(SubSeq(seqs, 1, m + 1)) = (m + 1) - 1 + 1
          /\ \A i \in 1..((m + 1) - 1 + 1) : SubSeq(seqs, 1, m + 1)[i] = seqs[1 + i - 1]
      BY <3>1, Slice
    <3> HIDE DEF q
    <3> QED
      BY <2>1, <3>2 DEF q
  <2> HIDE DEF p, q
  <2>4. q = Append(p, seqs[m + 1])
    <3>1. /\ Append(p, seqs[m + 1]) \in Seq(Seq(S))
          /\ Len(Append(p, seqs[m + 1])) = m + 1
          /\ \A i \in 1..m : Append(p, seqs[m + 1])[i] = p[i]
          /\ Append(p, seqs[m + 1])[m + 1] = seqs[m + 1]
      BY <2>1, <2>2, Appending
    <3>2. ASSUME NEW i \in 1..(m + 1) PROVE q[i] = Append(p, seqs[m + 1])[i]
      <4>1. i \in 1..m \/ i = m + 1
        BY <2>1
      <4>2. CASE i \in 1..m
        BY <2>2, <2>3, <3>1, <4>2
      <4>3. CASE i = m + 1
        BY <2>3, <3>1, <4>3
      <4> QED
        BY <4>1, <4>2, <4>3
    <3> QED
      BY <2>3, <3>1, <3>2, SeqEqual
  <2>5. FlattenSeq(q) = FlattenSeq(p) \o seqs[m + 1]
    BY <2>1, <2>2, <2>4, FlattenAppend
  <2> QED
    BY <2>5 DEF JoinedTo, p, q
<1>4. ASSUME NEW m \in 0..Len(seqs) PROVE JoinedTo(seqs, m) \in Seq(S)
  <2> DEFINE bad == {i \in 0..Len(seqs) : JoinedTo(seqs, i) \notin Seq(S)}
  <2>1. bad = {}
    <3> SUFFICES ASSUME bad # {} PROVE FALSE
      OBVIOUS
    <3>1. PICK i \in bad : \A j \in bad : i <= j
      <4>1. bad \subseteq Nat
        OBVIOUS
      <4> HIDE DEF bad
      <4> QED
        BY <4>1, Least
    <3>2. CASE i = 0
      BY <1>2, <3>1, <3>2, NoElements
    <3>3. CASE i # 0
      <4>1. /\ i - 1 \in 0..(Len(seqs) - 1) /\ i - 1 \in 0..Len(seqs)
            /\ ~ (i <= i - 1) /\ (i - 1) + 1 = i /\ i \in 1..Len(seqs)
        BY <1>1, <3>1, <3>3
      <4>2. JoinedTo(seqs, i - 1) \in Seq(S)
        BY <3>1, <4>1
      <4>3. JoinedTo(seqs, i) = JoinedTo(seqs, i - 1) \o seqs[i]
        BY <1>3, <4>1
      <4>4. seqs[i] \in Seq(S)
        BY <4>1
      <4>5. JoinedTo(seqs, i - 1) \o seqs[i] \in Seq(S)
        BY <4>2, <4>4
      <4> QED
        BY <3>1, <4>3, <4>5
    <3> QED
      BY <3>2, <3>3
  <2> QED
    BY <2>1
<1>5. JoinedTo(seqs, Len(seqs)) = FlattenSeq(seqs)
  <2>1. SubSeq(seqs, 1, Len(seqs)) = seqs
    OBVIOUS
  <2> QED
    BY <2>1 DEF JoinedTo
<1> QED
  BY <1>2, <1>3, <1>4, <1>5

LEMMA FlattenTyped ==
  ASSUME NEW S, NEW seqs \in Seq(Seq(S))
  PROVE  FlattenSeq(seqs) \in Seq(S)
<1>1. Len(seqs) \in 0..Len(seqs)
  OBVIOUS
<1> QED
  BY <1>1, JoinedToIs

(* The first elements of a sequence, one more. *)
LEMMA OneLonger ==
  ASSUME NEW S, NEW s0 \in Seq(S), NEW i \in 1..Len(s0)
  PROVE  SubSeq(s0, 1, i) = Append(SubSeq(s0, 1, i - 1), s0[i])
<1>1. Len(s0) \in Nat /\ i \in Nat /\ i - 1 \in 0..Len(s0) /\ (i - 1) + 1 = i /\ s0[i] \in S
  OBVIOUS
<1>2. SubSeq(s0, 1, i - 1) \o SubSeq(s0, (i - 1) + 1, i) = SubSeq(s0, 1, i)
  <2>1. 1 \in Int /\ i - 1 \in Int /\ i \in Int /\ 1 <= 1 /\ 1 <= (i - 1) + 1 /\ i - 1 <= i
        /\ i <= Len(s0)
    BY <1>1
  <2> QED
    BY <2>1, Cut
<1>3. SubSeq(s0, i, i) = <<s0[i]>>
  <2>1. 1 <= i /\ i <= i + 1 /\ i <= Len(s0) /\ i - i + 1 = 1 /\ i + 1 - 1 = i
    BY <1>1
  <2> DEFINE z == SubSeq(s0, i, i)
  <2>2. z \in Seq(S) /\ Len(z) = 1 /\ z[1] = s0[i]
    BY <2>1
  <2>3. /\ <<s0[i]>> \in Seq(S) /\ Len(<<s0[i]>>) = 1 /\ <<s0[i]>>[1] = s0[i]
    BY <1>1, OneElement
  <2> HIDE DEF z
  <2>4. z = <<s0[i]>>
    BY <2>2, <2>3, SeqEqual
  <2> QED
    BY <2>4 DEF z
<1>4. SubSeq(s0, 1, i - 1) \in Seq(S)
  BY <1>1
<1> QED
  BY <1>1, <1>2, <1>3, <1>4

(* An element behind two sequences. *)
LEMMA AppendJoined ==
  ASSUME NEW S, NEW x \in Seq(S), NEW y \in Seq(S), NEW e \in S
  PROVE  x \o Append(y, e) = Append(x \o y, e) /\ x \o y \in Seq(S)
OBVIOUS

(* Two elements. *)
LEMMA TwoElements ==
  ASSUME NEW S, NEW x \in S, NEW y \in S
  PROVE  <<x, y>> \in Seq(S) /\ Append(<<x>>, y) = <<x, y>>
<1> DEFINE one == <<x>>
           two == <<x, y>>
<1>1. one \in Seq(S) /\ Len(one) = 1 /\ one[1] = x
  BY OneElement
<1>2. two \in Seq(S) /\ Len(two) = 2 /\ two[1] = x /\ two[2] = y
  OBVIOUS
<1> HIDE DEF one, two
<1> DEFINE z == Append(one, y)
<1>3. /\ z \in Seq(S) /\ Len(z) = Len(one) + 1 /\ z[Len(one) + 1] = y
      /\ \A i \in 1..Len(one) : z[i] = one[i]
  <2>1. one \in Seq(S) /\ y \in S
    BY <1>1
  <2> QED
    BY <2>1, Appending
<1> HIDE DEF z
<1>4. z \in Seq(S) /\ Len(z) = 2 /\ z[1] = x /\ z[2] = y
  BY <1>1, <1>3
<1>5. \A i \in 1..2 : z[i] = two[i]
  <2>1. \A i \in 1..2 : i = 1 \/ i = 2
    OBVIOUS
  <2> QED
    BY <1>2, <1>4, <2>1
<1>6. z = two
  BY <1>2, <1>4, <1>5, SeqEqual
<1> QED
  BY <1>2, <1>6 DEF z, one, two

(* The parts of a concatenation over a set. *)
LEMMA FlattenParts ==
  ASSUME NEW S, NEW T, NEW seqs \in Seq(Seq(T)), FlattenSeq(seqs) \in Seq(S)
  PROVE  /\ seqs \in Seq(Seq(S))
         /\ \A m \in 0..Len(seqs) : JoinedTo(seqs, m) \in Seq(S)
<1> DEFINE l == Len(seqs)
           J(m) == JoinedTo(seqs, m)
           bad == {i \in 0..l : J(l - i) \notin Seq(S)}
<1>1. /\ l \in Nat /\ J(l) \in Seq(S)
      /\ \A m \in 0..(l - 1) : J(m + 1) = J(m) \o seqs[m + 1]
      /\ \A m \in 0..l : J(m) \in Seq(T)
  BY JoinedToIs
<1>2. \A m \in 1..l : seqs[m] \in Seq(T)
  OBVIOUS
<1> HIDE DEF J, l
<1>3. ASSUME NEW m \in 0..(l - 1), J(m + 1) \in Seq(S)
      PROVE  J(m) \in Seq(S) /\ seqs[m + 1] \in Seq(S)
  <2> DEFINE x == J(m)
             y == seqs[m + 1]
  <2>1. m + 1 \in 1..l /\ m \in 0..l
    BY <1>1
  <2>2. x \in Seq(T) /\ y \in Seq(T) /\ x \o y \in Seq(S)
    BY <1>1, <1>2, <1>3, <2>1
  <2> HIDE DEF x, y
  <2>3. x \in Seq(S) /\ y \in Seq(S)
    BY <2>2, Halves
  <2> QED
    BY <2>3 DEF x, y
<1>4. bad = {}
  <2> SUFFICES ASSUME bad # {} PROVE FALSE
    OBVIOUS
  <2>1. PICK n \in bad : \A j \in bad : n <= j
    <3>1. bad \subseteq Nat
      BY <1>1
    <3> HIDE DEF bad
    <3> QED
      BY <3>1, Least
  <2>2. n \in 0..l /\ J(l - n) \notin Seq(S)
    BY <2>1
  <2>3. n # 0
    <3>1. l - 0 = l
      BY <1>1
    <3> QED
      BY <1>1, <2>2, <3>1
  <2>4. /\ n - 1 \in 0..l /\ ~ (n <= n - 1) /\ l - n \in 0..(l - 1)
        /\ l - (n - 1) = (l - n) + 1
    BY <1>1, <2>2, <2>3
  <2>5. J((l - n) + 1) \in Seq(S)
    BY <2>1, <2>4
  <2> QED
    BY <1>3, <2>2, <2>4, <2>5
<1>5. ASSUME NEW m \in 0..l PROVE J(m) \in Seq(S)
  <2>1. l - m \in 0..l /\ l - (l - m) = m
    BY <1>1
  <2> QED
    BY <1>4, <2>1
<1>6. ASSUME NEW m \in 1..l PROVE seqs[m] \in Seq(S)
  <2>1. m - 1 \in 0..(l - 1) /\ (m - 1) + 1 = m /\ m \in 0..l
    BY <1>1
  <2> QED
    BY <1>3, <1>5, <2>1
<1>7. seqs \in Seq(Seq(S))
  <2>1. seqs \in Seq(Seq(T)) /\ \A m \in 1..Len(seqs) : seqs[m] \in Seq(S)
    BY <1>6 DEF l
  <2>2. seqs = [m \in 1..Len(seqs) |-> seqs[m]]
    OBVIOUS
  <2>3. Len(seqs) \in Nat
    OBVIOUS
  <2>4. seqs \in [1..Len(seqs) -> Seq(S)]
    BY <2>1, <2>2
  <2>5. \A U : \A n \in Nat : \A f \in [1..n -> U] : f \in Seq(U)
    OBVIOUS
  <2> QED
    BY <2>3, <2>4, <2>5, Zenon
<1> QED
  BY <1>5, <1>7 DEF J, l

LEMMA JoinedToGrows ==
  ASSUME NEW S, NEW seqs \in Seq(Seq(S)), NEW m \in 0..Len(seqs), NEW n \in 0..Len(seqs),
         m <= n
  PROVE  Len(JoinedTo(seqs, m)) <= Len(JoinedTo(seqs, n))
<1> DEFINE L(i) == Len(JoinedTo(seqs, i))
           bad == {i \in 0..Len(seqs) : m <= i /\ ~ (L(m) <= L(i))}
<1>1. Len(seqs) \in Nat /\ \A i \in 0..Len(seqs) : JoinedTo(seqs, i) \in Seq(S)
  BY JoinedToIs
<1>2. \A i \in 0..Len(seqs) : L(i) \in Nat
  BY <1>1
<1>3. ASSUME NEW i \in 0..(Len(seqs) - 1) PROVE L(i) <= L(i + 1)
  <2>1. JoinedTo(seqs, i + 1) = JoinedTo(seqs, i) \o seqs[i + 1]
    BY JoinedToIs
  <2>2. i \in 0..Len(seqs) /\ i + 1 \in 1..Len(seqs) /\ i + 1 \in 0..Len(seqs)
    BY <1>1
  <2>3. JoinedTo(seqs, i) \in Seq(S) /\ seqs[i + 1] \in Seq(S)
    BY <1>1, <2>2
  <2>4. Len(JoinedTo(seqs, i) \o seqs[i + 1]) = Len(JoinedTo(seqs, i)) + Len(seqs[i + 1])
        /\ Len(seqs[i + 1]) \in Nat /\ Len(JoinedTo(seqs, i)) \in Nat
    BY <2>3
  <2> QED
    BY <2>1, <2>4
<1> HIDE DEF L
<1>4. bad = {}
  <2> SUFFICES ASSUME bad # {} PROVE FALSE
    OBVIOUS
  <2>1. PICK i \in bad : \A j \in bad : i <= j
    <3>1. bad \subseteq Nat
      OBVIOUS
    <3> HIDE DEF bad
    <3> QED
      BY <3>1, Least
  <2>2. i \in 0..Len(seqs) /\ m <= i /\ ~ (L(m) <= L(i)) /\ i \in Nat /\ m \in Nat
    BY <1>1
  <2>3. CASE i = m
    BY <1>2, <2>2, <2>3
  <2>4. CASE i # m
    <3>1. /\ i - 1 \in 0..(Len(seqs) - 1) /\ i - 1 \in 0..Len(seqs)
          /\ ~ (i <= i - 1) /\ (i - 1) + 1 = i /\ m <= i - 1
      BY <1>1, <2>2, <2>4
    <3>2. L(m) <= L(i - 1)
      BY <2>1, <3>1
    <3>3. L(i - 1) <= L(i)
      BY <1>3, <3>1
    <3>4. L(m) \in Nat /\ L(i - 1) \in Nat /\ L(i) \in Nat
      BY <1>2, <2>2, <3>1
    <3> QED
      BY <2>2, <3>2, <3>3, <3>4
  <2> QED
    BY <2>3, <2>4
<1>5. L(m) <= L(n)
  BY <1>4
<1> QED
  BY <1>5 DEF L

(* The first, then the others. *)
LEMMA FlattenFirst ==
  ASSUME NEW S, NEW seqs \in Seq(Seq(S)), seqs # <<>>
  PROVE  FlattenSeq(seqs) = seqs[1] \o FlattenSeq(Tail(seqs))
<1> DEFINE t == Tail(seqs)
           U(i) == JoinedTo(seqs, i)
           V(i) == JoinedTo(t, i)
           bad == {i \in 0..Len(t) : U(i + 1) # seqs[1] \o V(i)}
<1>1. /\ Len(seqs) \in Nat /\ Len(seqs) >= 1 /\ seqs[1] \in Seq(S)
      /\ t \in Seq(Seq(S)) /\ Len(t) = Len(seqs) - 1 /\ Len(t) \in Nat
      /\ \A i \in 1..Len(t) : t[i] = seqs[i + 1] /\ seqs[i + 1] \in Seq(S)
  OBVIOUS
<1>2. /\ U(0) = <<>>
      /\ \A m \in 0..(Len(seqs) - 1) : U(m + 1) = U(m) \o seqs[m + 1]
      /\ \A m \in 0..Len(seqs) : U(m) \in Seq(S)
      /\ U(Len(seqs)) = FlattenSeq(seqs)
  BY JoinedToIs
<1> HIDE DEF t
<1>3. /\ V(0) = <<>>
      /\ \A m \in 0..(Len(t) - 1) : V(m + 1) = V(m) \o t[m + 1]
      /\ \A m \in 0..Len(t) : V(m) \in Seq(S)
      /\ V(Len(t)) = FlattenSeq(t)
  BY <1>1, JoinedToIs
<1> HIDE DEF U, V
<1>4. bad = {}
  <2> SUFFICES ASSUME bad # {} PROVE FALSE
    OBVIOUS
  <2>1. PICK i \in bad : \A j \in bad : i <= j
    <3>1. bad \subseteq Nat
      BY <1>1
    <3> HIDE DEF bad
    <3> QED
      BY <3>1, Least
  <2>2. i \in 0..Len(t) /\ U(i + 1) # seqs[1] \o V(i) /\ i \in Nat
    BY <1>1
  <2>3. CASE i = 0
    <3>1. 0 \in 0..(Len(seqs) - 1)
      BY <1>1
    <3>2. U(0 + 1) = U(0) \o seqs[0 + 1]
      BY <1>2, <3>1
    <3>3. <<>> \o seqs[1] = seqs[1] /\ seqs[1] \o <<>> = seqs[1]
      BY <1>1, ConcatEmptySeq
    <3>4. U(1) = seqs[1] /\ V(0) = <<>>
      <4>1. 0 + 1 = 1
        OBVIOUS
      <4>2. U(1) = U(0) \o seqs[1]
        BY <3>2, <4>1, Zenon
      <4>3. U(1) = <<>> \o seqs[1]
        BY <1>2, <4>2, Zenon
      <4> QED
        BY <1>3, <3>3, <4>3, Zenon
    <3>5. U(0 + 1) # seqs[1] \o V(0)
      BY <2>2, <2>3
    <3> QED
      BY <3>3, <3>4, <3>5
  <2>4. CASE i # 0
    <3>1. /\ i - 1 \in 0..Len(t) /\ i - 1 \in 0..(Len(t) - 1) /\ ~ (i <= i - 1)
          /\ (i - 1) + 1 = i /\ i \in 0..(Len(seqs) - 1) /\ i \in 1..Len(t)
      BY <1>1, <2>2, <2>4
    <3>2. U((i - 1) + 1) = seqs[1] \o V(i - 1)
      BY <2>1, <3>1
    <3>3. U(i + 1) = U(i) \o seqs[i + 1]
      BY <1>2, <3>1
    <3>4. V(i) = V(i - 1) \o t[i]
      BY <1>3, <3>1
    <3>5. t[i] = seqs[i + 1] /\ t[i] \in Seq(S) /\ V(i - 1) \in Seq(S)
      BY <1>1, <1>3, <3>1
    <3>6. (seqs[1] \o V(i - 1)) \o t[i] = seqs[1] \o (V(i - 1) \o t[i])
      <4> DEFINE a == seqs[1]
                 b == V(i - 1)
                 c == t[i]
      <4>1. a \in Seq(S) /\ b \in Seq(S) /\ c \in Seq(S)
        BY <1>1, <3>5
      <4> HIDE DEF a, b, c
      <4>2. Regroups(a, b, c)
        BY <4>1, Associative, Zenon
      <4>3. (a \o b) \o c = a \o (b \o c)
        BY <4>2, Zenon DEF Regroups
      <4> QED
        BY <4>3 DEF a, b, c
    <3> QED
      BY <2>2, <3>1, <3>2, <3>3, <3>4, <3>5, <3>6
  <2> QED
    BY <2>3, <2>4
<1>5. Len(t) \in 0..Len(t) /\ Len(t) + 1 = Len(seqs)
  BY <1>1
<1>6. U(Len(seqs)) = seqs[1] \o V(Len(t))
  BY <1>4, <1>5
<1> QED
  BY <1>2, <1>3, <1>6 DEF t

(* A sequence is its elements, joined. *)
LEMMA FlattenOnes ==
  ASSUME NEW S, NEW s \in Seq(S)
  PROVE  FlattenSeq([n \in 1..Len(s) |-> <<s[n]>>]) = s
<1> DEFINE ones == [n \in 1..Len(s) |-> <<s[n]>>]
           U(i) == JoinedTo(ones, i)
           bad == {i \in 0..Len(s) : U(i) # SubSeq(s, 1, i)}
<1>1. /\ Len(s) \in Nat /\ SubSeq(s, 1, 0) = <<>> /\ SubSeq(s, 1, Len(s)) = s
      /\ \A i \in 1..Len(s) : s[i] \in S
  OBVIOUS
<1>2. \A i \in 1..Len(s) : <<s[i]>> \in Seq(S)
  BY <1>1, OneElement
<1>3. ones \in Seq(Seq(S)) /\ Len(ones) = Len(s) /\ \A i \in 1..Len(s) : ones[i] = <<s[i]>>
  BY <1>1, <1>2
<1> HIDE DEF ones
<1>4. /\ U(0) = <<>>
      /\ \A m \in 0..(Len(s) - 1) : U(m + 1) = U(m) \o ones[m + 1]
      /\ U(Len(s)) = FlattenSeq(ones)
  BY <1>3, JoinedToIs
<1> HIDE DEF U
<1>5. bad = {}
  <2> SUFFICES ASSUME bad # {} PROVE FALSE
    OBVIOUS
  <2>1. PICK i \in bad : \A j \in bad : i <= j
    <3>1. bad \subseteq Nat
      BY <1>1
    <3> HIDE DEF bad
    <3> QED
      BY <3>1, Least
  <2>2. i \in 0..Len(s) /\ U(i) # SubSeq(s, 1, i) /\ i \in Nat
    BY <1>1
  <2>3. CASE i = 0
    BY <1>1, <1>4, <2>2, <2>3
  <2>4. CASE i # 0
    <3>1. /\ i - 1 \in 0..Len(s) /\ i - 1 \in 0..(Len(s) - 1) /\ ~ (i <= i - 1)
          /\ (i - 1) + 1 = i /\ i \in 1..Len(s)
      BY <1>1, <2>2, <2>4
    <3>2. U(i - 1) = SubSeq(s, 1, i - 1)
      BY <2>1, <3>1
    <3>3. U(i) = U(i - 1) \o <<s[i]>>
      BY <1>3, <1>4, <3>1
    <3>4. SubSeq(s, 1, i) = SubSeq(s, 1, i - 1) \o SubSeq(s, i, i)
      <4>1. 1 \in Int /\ i - 1 \in Int /\ i \in Int /\ 1 <= (i - 1) + 1 /\ i - 1 <= i
            /\ i <= Len(s) /\ 1 <= 1
        BY <1>1, <3>1
      <4>2. SubSeq(s, 1, i - 1) \o SubSeq(s, (i - 1) + 1, i) = SubSeq(s, 1, i)
        BY <4>1, Cut
      <4> QED
        BY <3>1, <4>2
    <3>5. SubSeq(s, i, i) = <<s[i]>>
      <4>1. i \in Int /\ 1 <= i /\ i <= i + 1 /\ i <= Len(s) /\ i - i + 1 = 1
            /\ i + 1 - 1 = i /\ s[i] \in S
        BY <1>1, <3>1
      <4>2. /\ SubSeq(s, i, i) \in Seq(S) /\ Len(SubSeq(s, i, i)) = i - i + 1
            /\ \A j \in 1..(i - i + 1) : SubSeq(s, i, i)[j] = s[i + j - 1]
        BY <4>1, Slice
      <4>3. <<s[i]>> \in Seq(S) /\ Len(<<s[i]>>) = 1 /\ <<s[i]>>[1] = s[i]
        BY <4>1
      <4>4. Len(SubSeq(s, i, i)) = 1 /\ SubSeq(s, i, i)[1] = s[i]
        BY <4>1, <4>2
      <4>5. \A j \in 1..1 : SubSeq(s, i, i)[j] = <<s[i]>>[j]
        BY <4>3, <4>4
      <4> QED
        BY <4>2, <4>3, <4>4, <4>5, SeqEqual
    <3> QED
      BY <2>2, <3>2, <3>3, <3>4, <3>5
  <2> QED
    BY <2>3, <2>4
<1>6. U(Len(s)) = s
  <2>1. Len(s) \in 0..Len(s)
    BY <1>1
  <2> QED
    BY <1>1, <1>5, <2>1
<1> QED
  BY <1>4, <1>6 DEF ones

-----------------------------------------------------------------------------
(* Functions defined by recursion on a number. *)

(* The numbers up to some one, or all of them. *)
Initial(D) == D \subseteq Nat /\ \A n \in D : n = 0 \/ n - 1 \in D

(* Two functions on D that agree at n whenever they agree at n - 1. *)
Tracks(h, f, D) ==
  /\ f = [n \in D |-> f[n]] /\ h = [n \in D |-> h[n]]
  /\ \A n \in D : (n # 0 => h[n - 1] = f[n - 1]) => h[n] = f[n]

(* They are equal. *)
LEMMA SameFunction ==
  ASSUME NEW D, Initial(D), NEW f, NEW h, Tracks(h, f, D)
  PROVE  h = f
<1> DEFINE differ == {n \in D : h[n] # f[n]}
<1>1. differ = {}
  <2> SUFFICES ASSUME differ # {} PROVE FALSE
    OBVIOUS
  <2>1. differ \subseteq Nat
    BY DEF Initial
  <2>2. PICK n \in differ : \A m \in differ : n <= m
    <3> HIDE DEF differ
    <3> QED
      BY <2>1, Least
  <2>3. n \in D /\ h[n] # f[n] /\ n \in Nat
    BY <2>1
  <2>4. CASE n = 0
    BY <2>3, <2>4 DEF Tracks
  <2>5. CASE n # 0
    <3>1. n - 1 \in D /\ ~ (n <= n - 1)
      BY <2>3, <2>5 DEF Initial
    <3>2. n - 1 \notin differ
      BY <2>2, <3>1
    <3>3. h[n - 1] = f[n - 1]
      BY <3>1, <3>2
    <3> QED
      BY <2>3, <3>3 DEF Tracks
  <2> QED
    BY <2>4, <2>5
<1>2. \A n \in D : h[n] = f[n]
  BY <1>1
<1> QED
  BY <1>2 DEF Tracks

(* A function that is a at 0 and follows from its value in front elsewhere.*)
Follows(f, D, a, g) ==
  \A n \in D : f[n] = IF n = 0 THEN a ELSE g[<<n, f[n - 1]>>]

(* Functions defined by recursion on the number in front exist.            *)
LEMMA Recursion ==
  ASSUME NEW D, Initial(D), NEW S, NEW a \in S, NEW g \in [D \X S -> S]
  PROVE  \E f \in [D -> S] : Follows(f, D, a, g)
<1> DEFINE step(f, n) == IF n = 0 THEN a ELSE g[<<n, f[n - 1]>>]
           Upto(m) == {f \in [0..m -> S] : \A n \in 0..m : f[n] = step(f, n)}
           missing == {m \in D : Upto(m) = {}}
<1>1. D \subseteq Nat /\ \A n \in D : n = 0 \/ n - 1 \in D
  BY DEF Initial
<1>2. missing = {}
  <2> SUFFICES ASSUME missing # {} PROVE FALSE
    OBVIOUS
  <2>1. PICK m \in missing : \A n \in missing : m <= n
    <3>1. missing \subseteq Nat
      BY <1>1
    <3> HIDE DEF missing
    <3> QED
      BY <3>1, Least
  <2>2. m \in D /\ m \in Nat /\ Upto(m) = {}
    BY <1>1, <2>1
  <2>3. CASE m = 0
    <3> DEFINE f == [n \in 0..0 |-> a]
    <3>1. f \in [0..0 -> S]
      OBVIOUS
    <3>2. \A n \in 0..0 : f[n] = step(f, n)
      OBVIOUS
    <3>3. f \in Upto(0)
      <4> HIDE DEF f, step
      <4> QED
        BY <3>1, <3>2
    <3> QED
      BY <2>2, <2>3, <3>3
  <2>4. CASE m # 0
    <3>1. m - 1 \in D /\ m - 1 \in Nat /\ ~ (m <= m - 1)
      BY <1>1, <2>2, <2>4
    <3>2. m - 1 \notin missing
      <4> HIDE DEF missing
      <4> QED
        BY <2>1, <3>1
    <3>3. PICK f : f \in Upto(m - 1)
      <4> HIDE DEF Upto
      <4> QED
        BY <3>1, <3>2
    <3>4. f \in [0..(m - 1) -> S] /\ \A n \in 0..(m - 1) : f[n] = step(f, n)
      <4> HIDE DEF step
      <4> QED
        BY <3>3
    <3> DEFINE e == [n \in 0..m |-> IF n < m THEN f[n] ELSE g[<<m, f[m - 1]>>]]
    <3>5. f[m - 1] \in S /\ g[<<m, f[m - 1]>>] \in S
      BY <2>2, <3>1, <3>4
    <3>6. e \in [0..m -> S]
      <4>1. ASSUME NEW n \in 0..m, n < m PROVE f[n] \in S
        <5>1. n \in 0..(m - 1)
          BY <2>2, <4>1
        <5> HIDE DEF step
        <5> QED
          BY <3>4, <5>1
      <4>2. \A n \in 0..m : (IF n < m THEN f[n] ELSE g[<<m, f[m - 1]>>]) \in S
        BY <3>5, <4>1
      <4> QED
        BY <4>2
    <3>7. ASSUME NEW n \in 0..m PROVE e[n] = step(e, n)
      <4>1. n # 0 => e[n - 1] = f[n - 1]
        BY <2>2
      <4>2. step(e, n) = step(f, n)
        BY <4>1
      <4>3. n < m => e[n] = f[n] /\ n \in 0..(m - 1)
        BY <2>2
      <4>4. n = m => e[n] = step(f, n)
        BY <2>2, <2>4
      <4>5. n < m \/ n = m
        BY <2>2
      <4> HIDE DEF e, step
      <4> QED
        BY <3>4, <4>2, <4>3, <4>4, <4>5
    <3>8. e \in Upto(m)
      <4> HIDE DEF e, step
      <4> QED
        BY <3>6, <3>7
    <3> QED
      BY <2>2, <3>8
  <2> QED
    BY <2>3, <2>4
<1> DEFINE U(m) == CHOOSE f : f \in Upto(m)
<1>3. ASSUME NEW m \in D PROVE U(m) \in Upto(m)
  <2>1. Upto(m) # {}
    <3> HIDE DEF Upto
    <3> QED
      BY <1>2
  <2> HIDE DEF Upto
  <2> QED
    BY <2>1
<1>4. ASSUME NEW m \in D, NEW n \in D, n <= m PROVE U(m)[n] = U(n)[n]
  <2> DEFINE u == U(m)
             v == U(n)
             differ == {i \in 0..n : u[i] # v[i]}
  <2>1. m \in Nat /\ n \in Nat
    BY <1>1
  <2>2. /\ \A i \in 0..m : u[i] = step(u, i)
        /\ \A i \in 0..n : v[i] = step(v, i)
    <3>1. u \in Upto(m) /\ v \in Upto(n)
      <4> HIDE DEF U, Upto
      <4> QED
        BY <1>3
    <3> HIDE DEF u, v, step
    <3> QED
      BY <3>1
  <2> HIDE DEF u, v
  <2>3. differ = {}
    <3> SUFFICES ASSUME differ # {} PROVE FALSE
      OBVIOUS
    <3>1. PICK i \in differ : \A j \in differ : i <= j
      <4>1. differ \subseteq Nat
        BY <2>1
      <4> HIDE DEF differ
      <4> QED
        BY <4>1, Least
    <3>2. i \in 0..n /\ i \in 0..m /\ i \in Nat /\ u[i] # v[i]
      BY <1>4, <2>1
    <3>3. CASE i = 0
      BY <2>2, <3>2, <3>3
    <3>4. CASE i # 0
      <4>1. i - 1 \in 0..n /\ ~ (i <= i - 1)
        BY <2>1, <3>2, <3>4
      <4>2. u[i - 1] = v[i - 1]
        BY <3>1, <4>1
      <4>3. step(u, i) = step(v, i)
        BY <4>2
      <4> HIDE DEF step
      <4> QED
        BY <2>2, <3>2, <4>3
    <3> QED
      BY <3>3, <3>4
  <2>4. n \in 0..n
    BY <2>1
  <2>5. u[n] = v[n]
    BY <2>3, <2>4
  <2> QED
    BY <2>5 DEF u, v
<1> DEFINE F == [n \in D |-> U(n)[n]]
<1>5. ASSUME NEW n \in D PROVE F[n] \in S /\ F[n] = step(F, n)
  <2>1. U(n) \in [0..n -> S] /\ \A i \in 0..n : U(n)[i] = step(U(n), i)
    <3>1. U(n) \in Upto(n)
      BY <1>3
    <3> HIDE DEF U, step
    <3> QED
      BY <3>1
  <2>2. n \in Nat /\ n \in 0..n
    BY <1>1
  <2>3. F[n] = U(n)[n]
    <3> HIDE DEF U
    <3> QED
      OBVIOUS
  <2>4. n # 0 => F[n - 1] = U(n)[n - 1]
    <3> SUFFICES ASSUME n # 0 PROVE F[n - 1] = U(n)[n - 1]
      OBVIOUS
    <3>1. n - 1 \in D /\ n - 1 <= n
      BY <1>1, <2>2
    <3>2. U(n)[n - 1] = U(n - 1)[n - 1]
      <4> HIDE DEF U
      <4> QED
        BY <1>4, <3>1
    <3> HIDE DEF U
    <3> QED
      BY <3>1, <3>2
  <2>5. step(F, n) = step(U(n), n)
    <3> HIDE DEF F, U
    <3> QED
      BY <2>4
  <2> HIDE DEF F, U, step
  <2> QED
    BY <2>1, <2>2, <2>3, <2>5
<1>6. F \in [D -> S]
  <2>1. \A n \in D : F[n] \in S
    BY <1>5
  <2>2. F = [n \in D |-> F[n]]
    <3> HIDE DEF U
    <3> QED
      OBVIOUS
  <2> HIDE DEF F
  <2> QED
    BY <2>1, <2>2
<1> HIDE DEF F, step
<1>7. \A n \in D : F[n] = step(F, n)
  BY <1>5
<1> QED
  <2>1. Follows(F, D, a, g)
    BY <1>7 DEF step, Follows
  <2> QED
    BY <1>6, <2>1

-----------------------------------------------------------------------------
(* Quotients and remainders. *)

(* Quotient and remainder are the only ones. *)
LEMMA Division ==
  ASSUME NEW m \in Nat \ {0}, NEW q \in Nat, NEW r \in 0..(m - 1)
  PROVE  (m * q + r) \div m = q /\ (m * q + r) % m = r
<1> DEFINE n == m * q + r
<1>1. n \in Nat
  OBVIOUS
<1>2. \A l \in Nat : l \div m \in Int /\ l % m \in 0..(m - 1) /\ l = m * (l \div m) + (l % m)
  <2> SUFFICES ASSUME NEW l \in Nat
               PROVE  l \div m \in Int /\ l % m \in 0..(m - 1) /\ l = m * (l \div m) + (l % m)
    OBVIOUS
  <2>1. l \div m \in Int
    OBVIOUS
  <2>2. l % m \in 0..(m - 1)
    OBVIOUS
  <2>3. l = m * (l \div m) + (l % m)
    OBVIOUS
  <2> QED
    BY <2>1, <2>2, <2>3
<1> DEFINE u == n \div m
           v == n % m
<1>3. u \in Int /\ v \in 0..(m - 1) /\ m * q + r = m * u + v
  BY <1>1, <1>2
<1> HIDE DEF n, u, v
<1>4. ASSUME NEW x \in Int, NEW y \in Int, x < y PROVE m * x + m <= m * y
  <2>1. x + 1 <= y
    BY <1>4
  <2>2. \A d \in Nat : m * d >= 0
    OBVIOUS
  <2>3. y - x - 1 \in Nat
    BY <2>1
  <2>4. m * (y - x - 1) >= 0
    BY <2>2, <2>3
  <2>5. m * (y - x - 1) = m * y - m * x - m
    OBVIOUS
  <2>6. m * y \in Int /\ m * x \in Int
    OBVIOUS
  <2> QED
    BY <2>4, <2>5, <2>6
<1>5. m * q \in Int /\ m * u \in Int
  BY <1>3
<1>6. ~ (q < u)
  <2> SUFFICES ASSUME q < u PROVE FALSE
    OBVIOUS
  <2>1. m * q + m <= m * u
    BY <1>3, <1>4
  <2> QED
    BY <1>3, <1>5, <2>1
<1>7. ~ (u < q)
  <2> SUFFICES ASSUME u < q PROVE FALSE
    OBVIOUS
  <2>1. m * u + m <= m * q
    BY <1>3, <1>4
  <2> QED
    BY <1>3, <1>5, <2>1
<1>8. u = q
  BY <1>3, <1>6, <1>7
<1>9. v = r
  BY <1>3, <1>5, <1>8
<1> QED
  BY <1>8, <1>9 DEF n, u, v

(* Cutting a number down to some digits keeps those digits. *)
LEMMA LowDigits ==
  ASSUME NEW n \in Nat, NEW m \in Nat \ {0}, NEW b \in Nat \ {0}
  PROVE  /\ (n % (b * m)) % m = n % m
         /\ (n % (b * m)) \div m = (n \div m) % b
<1> DEFINE q == n \div m
           r == n % m
           a == q \div b
           c == q % b
<1>1. q \in Nat /\ r \in 0..(m - 1) /\ n = m * q + r
  OBVIOUS
<1>2. a \in Nat /\ c \in 0..(b - 1) /\ q = b * a + c
  <2> HIDE DEF q
  <2> QED
    BY <1>1
<1> HIDE DEF q, r, a, c
<1>3. b * m \in Nat \ {0} /\ m * c \in Nat
  BY <1>2
<1>4. m * c + r \in 0..(b * m - 1)
  <2>1. b - 1 - c \in Nat
    BY <1>2
  <2>2. \A d \in Nat : m * d \in Nat
    OBVIOUS
  <2>3. m * (b - 1 - c) >= 0
    BY <2>1, <2>2
  <2>4. m * (b - 1 - c) = b * m - m - m * c
    BY <1>2
  <2> QED
    BY <1>1, <1>3, <2>3, <2>4
<1>5. n = (b * m) * a + (m * c + r)
  <2>1. m * (b * a + c) = (b * m) * a + m * c
    BY <1>2
  <2>2. (b * m) * a \in Int
    BY <1>2
  <2> QED
    BY <1>1, <1>2, <1>3, <2>1, <2>2
<1>6. n % (b * m) = m * c + r
  BY <1>2, <1>3, <1>4, <1>5, Division
<1>7. (m * c + r) \div m = c /\ (m * c + r) % m = r
  <2>1. c \in Nat
    BY <1>2
  <2> QED
    BY <1>1, <2>1, Division
<1> QED
  BY <1>6, <1>7 DEF q, r, c
=============================================================================
