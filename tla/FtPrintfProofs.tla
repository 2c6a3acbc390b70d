---------------------------- MODULE FtPrintfProofs ----------------------------
(***************************************************************************)
(* Proofs about ft_printf and ft_fprintf, for every session of calls whose *)
(* arguments suit their conversions, every set of closed descriptors and   *)
(* every bound on the writes that fail.                                    *)
(*                                                                         *)
(* The inductive invariant PrintfInv relates the text a call has written,  *)
(* the text still to write and the count to the text of the format up to   *)
(* the place that has been read: either nothing is lost and every          *)
(* character has been counted, or something is lost and neither the text   *)
(* nor the count can ever make it up.                                      *)
(*                                                                         *)
(* The last part follows the formats of a listing to their ends, divides   *)
(* the text they stand for into lines and fields, and reads each symbol    *)
(* back from its line.                                                     *)
(***************************************************************************)
EXTENDS ListingLines, DataLemmas

-----------------------------------------------------------------------------
(* Numbers and their digits. *)

(* The recursions of the model run over all numbers. *)
LEMMA AllNumbers == Initial(Nat)
BY DEF Initial

(* The powers of b, as a function. *)
Powers(b) == CHOOSE f : f = [m \in Nat |-> IF m = 0 THEN 1 ELSE b * f[m - 1]]

(* They are what their recursion says. *)
LEMMA PowersAre ==
  ASSUME NEW b \in Nat
  PROVE  /\ Powers(b) \in [Nat -> Nat]
         /\ \A m \in Nat : Powers(b)[m] = IF m = 0 THEN 1 ELSE b * Powers(b)[m - 1]
<1> DEFINE g == [p \in Nat \X Nat |-> b * p[2]]
<1>1. g \in [Nat \X Nat -> Nat]
  OBVIOUS
<1>2. \A m \in Nat, x \in Nat : g[<<m, x>>] = b * x
  OBVIOUS
<1> HIDE DEF g
<1>3. PICK f \in [Nat -> Nat] : Follows(f, Nat, 1, g)
  <2>1. 1 \in Nat
    OBVIOUS
  <2> QED
    BY <1>1, <2>1, AllNumbers, Recursion, Zenon
<1>4. \A n \in Nat : f[n] = IF n = 0 THEN 1 ELSE b * f[n - 1]
  <2>1. ASSUME NEW n \in Nat, n # 0 PROVE g[<<n, f[n - 1]>>] = b * f[n - 1]
    BY <1>2, <2>1
  <2> QED
    BY <1>3, <2>1 DEF Follows
<1>5. f = [m \in Nat |-> IF m = 0 THEN 1 ELSE b * f[m - 1]]
  BY <1>4
<1> DEFINE h == Powers(b)
<1>6. h = [m \in Nat |-> IF m = 0 THEN 1 ELSE b * h[m - 1]]
  BY <1>5 DEF Powers
<1> HIDE DEF h
<1>7. h = f
  <2>1. h = [n \in Nat |-> h[n]]
    BY <1>6
  <2>2. \A n \in Nat : h[n] = IF n = 0 THEN 1 ELSE b * h[n - 1]
    BY <1>6
  <2>3. f = [n \in Nat |-> f[n]]
    OBVIOUS
  <2>4. \A n \in Nat : (n # 0 => h[n - 1] = f[n - 1]) => h[n] = f[n]
    BY <1>4, <2>2
  <2>5. Tracks(h, f, Nat)
    BY <2>1, <2>3, <2>4 DEF Tracks
  <2> QED
    BY <2>5, AllNumbers, SameFunction
<1> QED
  BY <1>4, <1>7 DEF h

LEMMA PowerIs ==
  ASSUME NEW b \in Nat
  PROVE  /\ Power(b, 0) = 1
         /\ \A n \in Nat : Power(b, n) \in Nat /\ Power(b, n + 1) = b * Power(b, n)
<1> DEFINE P == Powers(b)
<1>1. \A n : Power(b, n) = P[n]
  BY DEF Power, Powers
<1>2. P \in [Nat -> Nat] /\ \A m \in Nat : P[m] = IF m = 0 THEN 1 ELSE b * P[m - 1]
  BY PowersAre
<1> HIDE DEF P
<1>3. P[0] = 1
  BY <1>2
<1>4. ASSUME NEW n \in Nat PROVE P[n] \in Nat /\ P[n + 1] = b * P[n]
  <2>1. n + 1 \in Nat /\ n + 1 # 0 /\ (n + 1) - 1 = n
    OBVIOUS
  <2> QED
    BY <1>2, <2>1
<1> QED
  BY <1>1, <1>3, <1>4

LEMMA PowerPositive ==
  ASSUME NEW b \in Nat \ {0}, NEW n \in Nat
  PROVE  Power(b, n) \in Nat \ {0}
<1> DEFINE zero == {m \in Nat : Power(b, m) = 0}
<1>1. zero = {}
  <2> SUFFICES ASSUME zero # {} PROVE FALSE
    OBVIOUS
  <2>1. PICK m \in zero : \A l \in zero : m <= l
    <3>1. zero \subseteq Nat
      OBVIOUS
    <3> HIDE DEF zero
    <3> QED
      BY <3>1, Least
  <2>2. CASE m = 0
    BY <2>2, PowerIs
  <2>3. CASE m # 0
    <3>1. m - 1 \in Nat /\ ~ (m <= m - 1) /\ (m - 1) + 1 = m
      BY <2>3
    <3>2. Power(b, m - 1) # 0
      BY <2>1, <3>1
    <3>3. Power(b, m) = b * Power(b, m - 1) /\ Power(b, m - 1) \in Nat
      BY <3>1, PowerIs
    <3>4. \A x \in Nat : x # 0 => b * x # 0
      OBVIOUS
    <3> QED
      BY <3>2, <3>3, <3>4
  <2> QED
    BY <2>2, <2>3
<1> QED
  BY <1>1, PowerIs

(* Quotients. *)
LEMMA QuotientsAre ==
  ASSUME NEW n \in Nat, NEW b \in Nat \ {0}
  PROVE  /\ Quotients(n, b) \in [Nat -> Nat]
         /\ \A m \in Nat : Quotients(n, b)[m] =
                             IF m = 0 THEN n ELSE Quotients(n, b)[m - 1] \div b
<1> DEFINE g == [p \in Nat \X Nat |-> p[2] \div b]
<1>1. g \in [Nat \X Nat -> Nat]
  OBVIOUS
<1>2. \A m \in Nat, x \in Nat : g[<<m, x>>] = x \div b
  OBVIOUS
<1> HIDE DEF g
<1>3. PICK f \in [Nat -> Nat] : Follows(f, Nat, n, g)
  BY <1>1, AllNumbers, Recursion, Zenon
<1>4. \A m \in Nat : f[m] = IF m = 0 THEN n ELSE f[m - 1] \div b
  <2>1. ASSUME NEW m \in Nat, m # 0 PROVE g[<<m, f[m - 1]>>] = f[m - 1] \div b
    BY <1>2, <2>1
  <2> QED
    BY <1>3, <2>1 DEF Follows
<1>5. f = [m \in Nat |-> IF m = 0 THEN n ELSE f[m - 1] \div b]
  BY <1>4
<1> DEFINE h == Quotients(n, b)
<1>6. h = [m \in Nat |-> IF m = 0 THEN n ELSE h[m - 1] \div b]
  BY <1>5 DEF Quotients
<1> HIDE DEF h
<1>7. h = f
  <2>1. h = [m \in Nat |-> h[m]]
    BY <1>6
  <2>2. \A m \in Nat : h[m] = IF m = 0 THEN n ELSE h[m - 1] \div b
    BY <1>6
  <2>3. f = [m \in Nat |-> f[m]]
    OBVIOUS
  <2>4. \A m \in Nat : (m # 0 => h[m - 1] = f[m - 1]) => h[m] = f[m]
    BY <1>4, <2>2
  <2>5. Tracks(h, f, Nat)
    BY <2>1, <2>3, <2>4 DEF Tracks
  <2> QED
    BY <2>5, AllNumbers, SameFunction
<1> QED
  BY <1>4, <1>7 DEF h

(* Dividing by b m times is dividing by b to the m-th. *)
LEMMA QuotientIs ==
  ASSUME NEW n \in Nat, NEW b \in Nat \ {0}, NEW m \in Nat
  PROVE  Quotients(n, b)[m] = n \div Power(b, m)
<1> DEFINE Q == Quotients(n, b)
           P(i) == Power(b, i)
           differ == {i \in Nat : Q[i] # n \div P(i)}
<1>1. /\ Q \in [Nat -> Nat]
      /\ \A i \in Nat : Q[i] = IF i = 0 THEN n ELSE Q[i - 1] \div b
  BY QuotientsAre
<1>2. P(0) = 1 /\ \A i \in Nat : P(i) \in Nat \ {0} /\ P(i + 1) = b * P(i)
  BY PowerIs, PowerPositive
<1> HIDE DEF Q, P
<1>3. differ = {}
  <2> SUFFICES ASSUME differ # {} PROVE FALSE
    OBVIOUS
  <2>1. PICK i \in differ : \A j \in differ : i <= j
    <3>1. differ \subseteq Nat
      OBVIOUS
    <3> HIDE DEF differ
    <3> QED
      BY <3>1, Least
  <2>2. CASE i = 0
    BY <1>1, <1>2, <2>1, <2>2
  <2>3. CASE i # 0
    <3>1. i - 1 \in Nat /\ ~ (i <= i - 1) /\ (i - 1) + 1 = i /\ i \in Nat
      BY <2>3
    <3>2. Q[i - 1] = n \div P(i - 1)
      BY <2>1, <3>1
    <3>3. Q[i] = (n \div P(i - 1)) \div b
      BY <1>1, <2>3, <3>1, <3>2
    <3>4. P(i) = b * P(i - 1) /\ P(i - 1) \in Nat \ {0}
      BY <1>2, <3>1
    <3>5. \A p \in Nat \ {0} : (n \div p) \div b = n \div (b * p)
      OBVIOUS
    <3> QED
      BY <2>1, <3>3, <3>4, <3>5
  <2> QED
    BY <2>2, <2>3
<1> QED
  BY <1>3 DEF Q, P

(* Powers grow. *)
LEMMA PowerGrows ==
  ASSUME NEW b \in Nat, b >= 2
  PROVE  /\ \A m \in Nat : m < Power(b, m)
         /\ \A m \in Nat, n \in Nat : m <= n => Power(b, m) <= Power(b, n)
<1> DEFINE P(i) == Power(b, i)
<1>1. P(0) = 1 /\ \A i \in Nat : P(i) \in Nat \ {0} /\ P(i + 1) = b * P(i)
  <2>1. b \in Nat \ {0}
    OBVIOUS
  <2>2. \A i \in Nat : P(i) \in Nat \ {0}
    BY <2>1, PowerPositive
  <2> QED
    BY <2>2, PowerIs
<1> HIDE DEF P
<1>2. \A i \in Nat : 2 * P(i) <= P(i + 1)
  <2>1. \A p \in Nat : 2 * p <= b * p
    OBVIOUS
  <2> QED
    BY <1>1, <2>1
<1>3. ASSUME NEW m \in Nat PROVE m < P(m)
  <2> DEFINE bad == {i \in Nat : ~ (i < P(i))}
  <2>1. bad = {}
    <3> SUFFICES ASSUME bad # {} PROVE FALSE
      OBVIOUS
    <3>1. PICK i \in bad : \A j \in bad : i <= j
      <4>1. bad \subseteq Nat
        OBVIOUS
      <4> HIDE DEF bad
      <4> QED
        BY <4>1, Least
    <3>2. CASE i = 0
      BY <1>1, <3>1, <3>2
    <3>3. CASE i # 0
      <4>1. i \in Nat /\ i - 1 \in Nat /\ ~ (i <= i - 1) /\ (i - 1) + 1 = i
        BY <3>3
      <4>2. i - 1 < P(i - 1)
        BY <3>1, <4>1
      <4>3. 2 * P(i - 1) <= P(i) /\ P(i - 1) \in Nat /\ P(i) \in Nat
        BY <1>1, <1>2, <4>1
      <4>4. i < P(i)
        BY <4>1, <4>2, <4>3
      <4> QED
        BY <3>1, <4>4
    <3> QED
      BY <3>2, <3>3
  <2> QED
    BY <2>1
<1>4. ASSUME NEW m \in Nat, NEW n \in Nat, m <= n PROVE P(m) <= P(n)
  <2> DEFINE bad == {i \in Nat : m <= i /\ ~ (P(m) <= P(i))}
  <2>1. bad = {}
    <3> SUFFICES ASSUME bad # {} PROVE FALSE
      OBVIOUS
    <3>1. PICK i \in bad : \A j \in bad : i <= j
      <4>1. bad \subseteq Nat
        OBVIOUS
      <4> HIDE DEF bad
      <4> QED
        BY <4>1, Least
    <3>2. CASE i = m
      BY <1>1, <3>1, <3>2
    <3>3. CASE i # m
      <4>1. i \in Nat /\ i - 1 \in Nat /\ ~ (i <= i - 1) /\ (i - 1) + 1 = i /\ m <= i - 1
        BY <3>1, <3>3
      <4>2. P(m) <= P(i - 1)
        BY <3>1, <4>1
      <4>3. 2 * P(i - 1) <= P(i) /\ P(i - 1) \in Nat /\ P(i) \in Nat /\ P(m) \in Nat
        BY <1>1, <1>2, <4>1
      <4>4. P(m) <= P(i)
        BY <4>2, <4>3
      <4> QED
        BY <3>1, <4>4
    <3> QED
      BY <3>2, <3>3
  <2> QED
    BY <1>4, <2>1
<1> QED
  BY <1>3, <1>4 DEF P

(* How many digits n has in base b. *)
IsWidth(n, b, w) ==
  w \in 1..(n + 1) /\ n < Power(b, w) /\ (w > 1 => n >= Power(b, w - 1))

(* Every number has one width, and only one. *)
LEMMA OneWidth ==
  ASSUME NEW n \in Nat, NEW b \in Nat, b >= 2
  PROVE  /\ \E w : IsWidth(n, b, w)
         /\ \A v, w : IsWidth(n, b, v) /\ IsWidth(n, b, w) => v = w
<1> DEFINE P(i) == Power(b, i)
           wide == {w \in Nat \ {0} : n < P(w)}
<1>1. /\ \A m \in Nat : P(m) \in Nat /\ m < P(m)
      /\ \A l \in Nat, m \in Nat : l <= m => P(l) <= P(m)
  BY PowerIs, PowerGrows
<1> HIDE DEF P
<1>2. n + 1 \in wide
  <2>1. n + 1 \in Nat \ {0} /\ n + 1 < P(n + 1) /\ P(n + 1) \in Nat
    BY <1>1
  <2> QED
    BY <2>1
<1>3. PICK w \in wide : \A v \in wide : w <= v
  <2>1. wide \subseteq Nat /\ wide # {}
    BY <1>2
  <2> HIDE DEF wide
  <2> QED
    BY <2>1, Least
<1>4. w \in 1..(n + 1) /\ n < P(w)
  BY <1>2, <1>3
<1>5. w > 1 => n >= P(w - 1)
  <2> SUFFICES ASSUME w > 1 PROVE n >= P(w - 1)
    OBVIOUS
  <2>1. w - 1 \in Nat \ {0} /\ ~ (w <= w - 1) /\ P(w - 1) \in Nat
    BY <1>1, <1>4
  <2>2. w - 1 \notin wide
    BY <1>3, <2>1
  <2> QED
    BY <2>1, <2>2
<1>6. ASSUME NEW u, NEW v, IsWidth(n, b, u), IsWidth(n, b, v) PROVE ~ (u < v)
  <2> SUFFICES ASSUME u < v PROVE FALSE
    OBVIOUS
  <2>1. /\ u \in 1..(n + 1) /\ v \in 1..(n + 1)
        /\ n < P(u) /\ (v > 1 => n >= P(v - 1))
    BY <1>6 DEF IsWidth, P
  <2>2. u \in Nat /\ v - 1 \in Nat /\ u <= v - 1 /\ v > 1
    BY <2>1
  <2>3. P(u) <= P(v - 1) /\ P(u) \in Nat /\ P(v - 1) \in Nat
    BY <1>1, <2>2
  <2> QED
    BY <2>1, <2>2, <2>3
<1>7. ASSUME NEW u, NEW v, IsWidth(n, b, u), IsWidth(n, b, v) PROVE u = v
  <2>1. u \in Nat /\ v \in Nat
    BY <1>7 DEF IsWidth
  <2> QED
    BY <1>6, <1>7, <2>1
<1>8. IsWidth(n, b, w)
  BY <1>4, <1>5 DEF IsWidth, P
<1> QED
  BY <1>7, <1>8

(* No fewer digits do. *)
LEMMA WidthIsLeast ==
  ASSUME NEW n \in Nat, NEW b \in Nat, b >= 2, NEW w, IsWidth(n, b, w),
         NEW d \in Nat \ {0}, n < Power(b, d)
  PROVE  w <= d
<1> SUFFICES ASSUME ~ (w <= d) PROVE FALSE
  OBVIOUS
<1>1. w \in Nat /\ w - 1 \in Nat /\ d <= w - 1 /\ w > 1 /\ n >= Power(b, w - 1)
  BY DEF IsWidth
<1>2. Power(b, d) <= Power(b, w - 1) /\ Power(b, d) \in Nat /\ Power(b, w - 1) \in Nat
  BY <1>1, PowerGrows, PowerIs
<1> QED
  BY <1>1, <1>2

(* A number in positional notation. *)
LEMMA PositionalIs ==
  ASSUME NEW n \in Nat, NEW b \in Nat, b >= 2, NEW digits
  PROVE  \E w \in Nat \ {0} :
           /\ IsWidth(n, b, w)
           /\ Positional(n, b, digits) =
                [i \in 1..w |-> digits[((n \div Power(b, w - i)) % b) + 1]]
<1> DEFINE v == CHOOSE w \in 1..(n + 1) : n < Power(b, w) /\ (w > 1 => n >= Power(b, w - 1))
<1>1. \E w \in 1..(n + 1) : n < Power(b, w) /\ (w > 1 => n >= Power(b, w - 1))
  BY OneWidth DEF IsWidth
<1>2. v \in 1..(n + 1) /\ n < Power(b, v) /\ (v > 1 => n >= Power(b, v - 1))
  BY <1>1
<1>3. Positional(n, b, digits) =
        [i \in 1..v |-> digits[((n \div Power(b, v - i)) % b) + 1]]
  BY DEF Positional
<1> HIDE DEF v
<1>4. v \in Nat \ {0} /\ IsWidth(n, b, v)
  BY <1>2 DEF IsWidth
<1> QED
  BY <1>3, <1>4

(* Dividing again and again, as ft_put_hex and its like do, gives the      *)
(* positional digits.                                                      *)
LEMMA NumeralIsPositional ==
  ASSUME NEW n \in Nat, NEW b \in Nat, b >= 2, NEW digits
  PROVE  Numeral(n, b, digits) = Positional(n, b, digits)
<1> DEFINE Q == Quotients(n, b)
           v == CHOOSE w \in 1..(n + 1) : Q[w] = 0 /\ (w > 1 => Q[w - 1] # 0)
<1>1. PICK w \in Nat \ {0} :
        /\ IsWidth(n, b, w)
        /\ Positional(n, b, digits) =
             [i \in 1..w |-> digits[((n \div Power(b, w - i)) % b) + 1]]
  BY PositionalIs
<1>2. \A m \in Nat : Q[m] = n \div Power(b, m) /\ Power(b, m) \in Nat \ {0}
  BY QuotientIs, PowerPositive
<1>3. Numeral(n, b, digits) = [i \in 1..v |-> digits[(Q[v - i] % b) + 1]]
  BY DEF Numeral
<1> HIDE DEF Q
<1>4. \A m \in Nat : Q[m] = 0 <=> n < Power(b, m)
  <2>1. \A p \in Nat \ {0} : n \div p = 0 <=> n < p
    OBVIOUS
  <2> QED
    BY <1>2, <2>1
<1>5. \A u \in 1..(n + 1) : (Q[u] = 0 /\ (u > 1 => Q[u - 1] # 0)) <=> IsWidth(n, b, u)
  <2> SUFFICES ASSUME NEW u \in 1..(n + 1)
               PROVE  (Q[u] = 0 /\ (u > 1 => Q[u - 1] # 0)) <=> IsWidth(n, b, u)
    OBVIOUS
  <2>1. u \in Nat /\ (u > 1 => u - 1 \in Nat)
    OBVIOUS
  <2>2. Q[u] = 0 <=> n < Power(b, u)
    BY <1>4, <2>1
  <2>3. u > 1 => (Q[u - 1] # 0 <=> n >= Power(b, u - 1))
    BY <1>2, <1>4, <2>1
  <2> QED
    BY <2>2, <2>3 DEF IsWidth
<1>6. w \in 1..(n + 1)
  BY <1>1 DEF IsWidth
<1>7. v \in 1..(n + 1) /\ Q[v] = 0 /\ (v > 1 => Q[v - 1] # 0)
  BY <1>1, <1>5, <1>6
<1> HIDE DEF v
<1>8. v = w
  BY <1>1, <1>5, <1>7, OneWidth
<1>9. \A i \in 1..w : Q[w - i] = n \div Power(b, w - i)
  <2>1. \A i \in 1..w : w - i \in Nat
    OBVIOUS
  <2> QED
    BY <1>2, <2>1
<1> QED
  BY <1>1, <1>3, <1>8, <1>9

(* The exponent ft_putnbr begins with, and what it has left at each step. *)
DecimalTop(nb) ==
  CHOOSE p \in 0..nb : nb \div Power(10, p) <= 9 /\ (p > 0 => nb \div Power(10, p - 1) > 9)

Rests(nb) ==
  CHOOSE f : f = [i \in 0..DecimalTop(nb) |->
                    IF i = 0 THEN nb ELSE f[i - 1] % Power(10, DecimalTop(nb) + 1 - i)]

LEMMA DecimalIs ==
  ASSUME NEW nb \in Nat
  PROVE  Decimal(nb) =
           [i \in 1..(DecimalTop(nb) + 1) |->
              LOWER[(Rests(nb)[i - 1] \div Power(10, DecimalTop(nb) + 1 - i)) + 1]]
BY DEF Decimal, DecimalTop, Rests

LEMMA DecimalTopIs ==
  ASSUME NEW nb \in Nat
  PROVE  DecimalTop(nb) \in Nat /\ IsWidth(nb, 10, DecimalTop(nb) + 1)
<1>1. \A p \in Nat : /\ Power(10, p) \in Nat \ {0} /\ Power(10, p + 1) \in Nat \ {0}
                     /\ Power(10, p + 1) = 10 * Power(10, p)
  BY PowerIs, PowerPositive
<1>2. \A p \in Nat : nb \div Power(10, p) <= 9 <=> nb < Power(10, p + 1)
  <2>1. \A q \in Nat \ {0} : nb \div q <= 9 <=> nb < 10 * q
    OBVIOUS
  <2> QED
    BY <1>1, <2>1
<1>3. \A p \in 0..nb : /\ p \in Nat /\ p + 1 \in 1..(nb + 1) /\ (p + 1) - 1 = p
                       /\ p + 1 > 1 <=> p > 0
                       /\ p > 0 => p - 1 \in Nat /\ (p - 1) + 1 = p
  OBVIOUS
<1>4. ASSUME NEW p \in 0..nb
      PROVE  (nb \div Power(10, p) <= 9 /\ (p > 0 => nb \div Power(10, p - 1) > 9))
               <=> IsWidth(nb, 10, p + 1)
  <2>1. nb \div Power(10, p) <= 9 <=> nb < Power(10, p + 1)
    BY <1>2, <1>3
  <2>2. p > 0 => (nb \div Power(10, p - 1) > 9 <=> nb >= Power(10, p))
    <3> SUFFICES ASSUME p > 0 PROVE nb \div Power(10, p - 1) > 9 <=> nb >= Power(10, p)
      OBVIOUS
    <3>1. p - 1 \in Nat /\ (p - 1) + 1 = p /\ p \in Nat
      BY <1>3
    <3>2. nb \div Power(10, p - 1) <= 9 <=> nb < Power(10, p)
      BY <1>2, <3>1
    <3>3. Power(10, p - 1) \in Nat \ {0} /\ Power(10, p) \in Nat
      BY <1>1, <3>1
    <3>4. nb \div Power(10, p - 1) \in Int
      BY <3>3
    <3> QED
      BY <3>2, <3>3, <3>4
  <2> QED
    BY <1>3, <2>1, <2>2 DEF IsWidth
<1>5. \E p \in 0..nb : IsWidth(nb, 10, p + 1)
  <2>1. PICK w : IsWidth(nb, 10, w)
    BY OneWidth
  <2>2. w - 1 \in 0..nb /\ (w - 1) + 1 = w
    BY <2>1 DEF IsWidth
  <2> QED
    BY <2>1, <2>2
<1>6. DecimalTop(nb) \in 0..nb /\ IsWidth(nb, 10, DecimalTop(nb) + 1)
  <2>1. /\ DecimalTop(nb) \in 0..nb
        /\ nb \div Power(10, DecimalTop(nb)) <= 9
        /\ DecimalTop(nb) > 0 => nb \div Power(10, DecimalTop(nb) - 1) > 9
    BY <1>4, <1>5 DEF DecimalTop
  <2> QED
    BY <1>4, <2>1
<1> QED
  BY <1>6

(* What is left of nb behind each digit. *)
LEMMA RestsAre ==
  ASSUME NEW nb \in Nat
  PROVE  LET t == DecimalTop(nb)
         IN  /\ Rests(nb) \in [0..t -> Nat]
             /\ \A i \in 0..t : Rests(nb)[i] = nb % Power(10, t + 1 - i)
<1> DEFINE t == DecimalTop(nb)
           M(i) == Power(10, t + 1 - i)
           D == 0..t
           g == [p \in D \X Nat |-> p[2] % M(p[1])]
<1>1. t \in Nat /\ nb < Power(10, t + 1)
  BY DecimalTopIs DEF IsWidth
<1> HIDE DEF t
<1>2. \A i \in D : M(i) \in Nat \ {0}
  <2>1. \A i \in D : t + 1 - i \in Nat
    BY <1>1
  <2> QED
    BY <2>1, PowerPositive
<1>3. \A i \in D : i # 0 => i - 1 \in D /\ M(i - 1) = 10 * M(i)
  <2>1. ASSUME NEW i \in D, i # 0
        PROVE  i - 1 \in D /\ t + 1 - i \in Nat /\ t + 1 - (i - 1) = (t + 1 - i) + 1
    BY <1>1, <2>1
  <2> QED
    BY <2>1, PowerIs
<1>4. Initial(D) /\ nb < M(0)
  <2>1. t + 1 - 0 = t + 1
    BY <1>1
  <2> QED
    BY <1>1, <2>1 DEF Initial
<1> HIDE DEF M
<1>5. g \in [D \X Nat -> Nat] /\ \A i \in D, x \in Nat : g[<<i, x>>] = x % M(i)
  <2>1. \A i \in D, x \in Nat : x % M(i) \in Nat
    BY <1>2
  <2> HIDE DEF D
  <2> QED
    BY <2>1
<1> HIDE DEF D, g
<1>6. PICK f \in [D -> Nat] : Follows(f, D, nb, g)
  BY <1>4, <1>5, Recursion, Zenon
<1>7. \A i \in D : f[i] = IF i = 0 THEN nb ELSE f[i - 1] % M(i)
  <2>1. ASSUME NEW i \in D, i # 0 PROVE g[<<i, f[i - 1]>>] = f[i - 1] % M(i)
    BY <1>3, <1>5, <2>1
  <2> QED
    BY <1>6, <2>1 DEF Follows
<1>8. f = [i \in D |-> IF i = 0 THEN nb ELSE f[i - 1] % M(i)]
  BY <1>7
<1> DEFINE h == Rests(nb)
<1>9. h = [i \in D |-> IF i = 0 THEN nb ELSE h[i - 1] % M(i)]
  <2>1. h = CHOOSE e : e = [i \in D |-> IF i = 0 THEN nb ELSE e[i - 1] % M(i)]
    BY DEF Rests, D, M, t
  <2> HIDE DEF h
  <2> QED
    BY <1>8, <2>1
<1> HIDE DEF h
<1>10. h = f
  <2>1. h = [i \in D |-> h[i]] /\ f = [i \in D |-> f[i]]
    BY <1>9
  <2>2. \A i \in D : h[i] = IF i = 0 THEN nb ELSE h[i - 1] % M(i)
    BY <1>9
  <2>3. \A i \in D : (i # 0 => h[i - 1] = f[i - 1]) => h[i] = f[i]
    BY <1>7, <2>2
  <2>4. Tracks(h, f, D)
    BY <2>1, <2>3 DEF Tracks
  <2> QED
    BY <1>4, <2>4, SameFunction
<1> DEFINE differ == {i \in D : f[i] # nb % M(i)}
<1>11. differ = {}
  <2> SUFFICES ASSUME differ # {} PROVE FALSE
    OBVIOUS
  <2>1. D \subseteq Nat
    BY <1>4 DEF Initial
  <2>2. PICK i \in differ : \A j \in differ : i <= j
    <3>1. differ \subseteq Nat
      BY <2>1
    <3> HIDE DEF differ
    <3> QED
      BY <3>1, Least
  <2>3. i \in D /\ i \in Nat /\ f[i] # nb % M(i)
    BY <2>1
  <2>4. CASE i = 0
    <3>1. f[0] = nb /\ M(0) \in Nat \ {0}
      BY <1>2, <1>7, <2>3, <2>4
    <3>2. nb % M(0) = nb
      <4>1. \A m \in Nat \ {0} : nb < m => nb % m = nb
        OBVIOUS
      <4> QED
        BY <1>4, <3>1, <4>1
    <3> QED
      BY <2>3, <2>4, <3>1, <3>2
  <2>5. CASE i # 0
    <3>1. i - 1 \in D /\ M(i - 1) = 10 * M(i) /\ M(i) \in Nat \ {0} /\ ~ (i <= i - 1)
      BY <1>2, <1>3, <2>3, <2>5
    <3>2. f[i - 1] = nb % M(i - 1)
      BY <2>2, <3>1
    <3>3. f[i] = (nb % (10 * M(i))) % M(i)
      BY <1>7, <2>3, <2>5, <3>1, <3>2
    <3>4. (nb % (10 * M(i))) % M(i) = nb % M(i)
      <4>1. 10 \in Nat \ {0}
        OBVIOUS
      <4> QED
        BY <3>1, <4>1, LowDigits
    <3> QED
      BY <2>3, <3>1, <3>3, <3>4
  <2> QED
    BY <2>4, <2>5
<1>12. h \in [D -> Nat] /\ \A i \in D : h[i] = nb % M(i)
  BY <1>10, <1>11
<1> QED
  BY <1>12 DEF h, D, M, t

(* Falling powers of ten, as ft_putnbr uses them, give the positional      *)
(* digits.                                                                 *)
LEMMA DecimalIsPositional ==
  ASSUME NEW nb \in Nat
  PROVE  Decimal(nb) = Positional(nb, 10, LOWER)
<1> DEFINE t == DecimalTop(nb)
           P(i) == Power(10, i)
           R == Rests(nb)
<1>1. PICK w \in Nat \ {0} :
        /\ IsWidth(nb, 10, w)
        /\ Positional(nb, 10, LOWER) = [i \in 1..w |-> LOWER[((nb \div P(w - i)) % 10) + 1]]
  <2> HIDE DEF P
  <2>1. \A digits : \A b \in Nat : b >= 2 =>
          \E w \in Nat \ {0} :
            /\ IsWidth(nb, b, w)
            /\ Positional(nb, b, digits) =
                 [i \in 1..w |-> digits[((nb \div Power(b, w - i)) % b) + 1]]
    BY PositionalIs
  <2>2. PICK w \in Nat \ {0} :
          /\ IsWidth(nb, 10, w)
          /\ Positional(nb, 10, LOWER) =
               [i \in 1..w |-> LOWER[((nb \div Power(10, w - i)) % 10) + 1]]
    BY <2>1
  <2> QED
    BY <2>2 DEF P
<1>2. w = t + 1 /\ t \in Nat
  BY <1>1, DecimalTopIs, OneWidth
<1>3. \A i \in 0..t : R[i] = nb % P(t + 1 - i)
  BY RestsAre
<1>4. Decimal(nb) = [i \in 1..(t + 1) |-> LOWER[(R[i - 1] \div P(t + 1 - i)) + 1]]
  BY DecimalIs
<1>5. \A i \in Nat : P(i) \in Nat \ {0} /\ P(i + 1) = 10 * P(i)
  BY PowerIs, PowerPositive
<1> HIDE DEF t, P, R
<1>6. ASSUME NEW i \in 1..w PROVE R[i - 1] \div P(t + 1 - i) = (nb \div P(w - i)) % 10
  <2>1. /\ i - 1 \in 0..t /\ w - i \in Nat
        /\ t + 1 - i = w - i /\ t + 1 - (i - 1) = (w - i) + 1
    BY <1>2
  <2>2. R[i - 1] = nb % (10 * P(w - i)) /\ P(w - i) \in Nat \ {0}
    BY <1>3, <1>5, <2>1
  <2>3. (nb % (10 * P(w - i))) \div P(w - i) = (nb \div P(w - i)) % 10
    <3>1. 10 \in Nat \ {0}
      OBVIOUS
    <3> QED
      BY <2>2, <3>1, LowDigits
  <2> QED
    BY <2>1, <2>2, <2>3
<1> QED
  BY <1>1, <1>2, <1>4, <1>6

-----------------------------------------------------------------------------
(* Characters and tables. *)

(* The characters of a format that are no letters. *)
LEMMA Special ==
  /\ \A c \in {Percent, Star} :
       /\ c # "c" /\ c # "s" /\ c # "p" /\ c # "P" /\ c # "d" /\ c # "i"
       /\ c # "u" /\ c # "x" /\ c # "X" /\ c # "o"
  /\ Percent # Star
  /\ NewLine # Percent /\ NewLine \notin Conversions
<1>1. /\ Percent # "c" /\ Percent # "s" /\ Percent # "p" /\ Percent # "P" /\ Percent # "d"
      /\ Percent # "i" /\ Percent # "u" /\ Percent # "x" /\ Percent # "X" /\ Percent # "o"
  BY Zenon DEF Percent
<1>2. /\ Star # "c" /\ Star # "s" /\ Star # "p" /\ Star # "P" /\ Star # "d"
      /\ Star # "i" /\ Star # "u" /\ Star # "x" /\ Star # "X" /\ Star # "o"
  BY Zenon DEF Star
<1>3. Percent # Star /\ NewLine # Percent
  BY Zenon DEF Percent, Star, NewLine
<1>4. NewLine \notin Conversions
  BY Zenon DEF Conversions, NewLine, Percent, Star
<1> QED
  BY <1>1, <1>2, <1>3, <1>4

(* What ft_ftype does with each conversion. *)
LEMMA TypeOf ==
  ASSUME NEW a
  PROVE  \A fd :
         /\ FtFtype("c", a, fd) = FtFputchar(a, fd)
         /\ FtFtype("s", a, fd) = FtFputstr(a, fd)
         /\ FtFtype("p", a, fd) = FtFputaddress(a, fd)
         /\ FtFtype("P", a, fd) = FtFputaddressUpper(a, fd)
         /\ \A c \in {"d", "i"} : FtFtype(c, a, fd) = FtFputnbr(a, fd)
         /\ FtFtype("u", a, fd) = FtFputnbrUn(Unsigned(a), fd)
         /\ FtFtype("x", a, fd) = FtFputHex(Unsigned(a), fd)
         /\ FtFtype("X", a, fd) = FtFputHexUpper(Unsigned(a), fd)
         /\ FtFtype("o", a, fd) = FtFputOctal(Unsigned(a), fd)
         /\ FtFtype(Star, a, fd) = FtFputSpace(Unsigned(a), fd)
         /\ FtFtype(Percent, a, fd) = FtFputchar(Percent, fd)
<1> SUFFICES ASSUME NEW fd
             PROVE  /\ FtFtype("c", a, fd) = FtFputchar(a, fd)
         /\ FtFtype("s", a, fd) = FtFputstr(a, fd)
         /\ FtFtype("p", a, fd) = FtFputaddress(a, fd)
         /\ FtFtype("P", a, fd) = FtFputaddressUpper(a, fd)
         /\ \A c \in {"d", "i"} : FtFtype(c, a, fd) = FtFputnbr(a, fd)
         /\ FtFtype("u", a, fd) = FtFputnbrUn(Unsigned(a), fd)
         /\ FtFtype("x", a, fd) = FtFputHex(Unsigned(a), fd)
         /\ FtFtype("X", a, fd) = FtFputHexUpper(Unsigned(a), fd)
         /\ FtFtype("o", a, fd) = FtFputOctal(Unsigned(a), fd)
         /\ FtFtype(Star, a, fd) = FtFputSpace(Unsigned(a), fd)
         /\ FtFtype(Percent, a, fd) = FtFputchar(Percent, fd)
  OBVIOUS
<1>1. /\ FtFtype("c", a, fd) = FtFputchar(a, fd)
      /\ FtFtype("s", a, fd) = FtFputstr(a, fd)
      /\ FtFtype("p", a, fd) = FtFputaddress(a, fd)
      /\ FtFtype("P", a, fd) = FtFputaddressUpper(a, fd)
  BY Special DEF FtFtype
<1>2. \A c \in {"d", "i"} : FtFtype(c, a, fd) = FtFputnbr(a, fd)
  BY Special DEF FtFtype
<1>3. /\ FtFtype("u", a, fd) = FtFputnbrUn(Unsigned(a), fd)
      /\ FtFtype("x", a, fd) = FtFputHex(Unsigned(a), fd)
      /\ FtFtype("X", a, fd) = FtFputHexUpper(Unsigned(a), fd)
      /\ FtFtype("o", a, fd) = FtFputOctal(Unsigned(a), fd)
  BY Special DEF FtFtype
<1>4. FtFtype(Star, a, fd) = FtFputSpace(Unsigned(a), fd)
  BY Special DEF FtFtype
<1>5. FtFtype(Percent, a, fd) = FtFputchar(Percent, fd)
  BY Special DEF FtFtype
<1> QED
  BY <1>1, <1>2, <1>3, <1>4, <1>5

(* What each conversion means. *)
LEMMA MeaningOf ==
  ASSUME NEW a
  PROVE  /\ Meaning("c", a) = <<a>>
         /\ Meaning("s", a) = IF a = NULL THEN NullText ELSE a
         /\ Meaning("p", a) = IF a = 0 THEN NilText
                              ELSE <<"0", "x">> \o Positional(a, 16, LOWER)
         /\ Meaning("P", a) = IF a = 0 THEN NilText
                              ELSE <<"0", "x">> \o Positional(a, 16, UPPER)
         /\ \A c \in {"d", "i"} :
              Meaning(c, a) = Positional(IF a < 0 THEN -a ELSE a, 10, LOWER)
         /\ Meaning("u", a) = Positional(Unsigned(a), 10, LOWER)
         /\ Meaning("x", a) = Positional(Unsigned(a), 16, LOWER)
         /\ Meaning("X", a) = Positional(Unsigned(a), 16, UPPER)
         /\ Meaning("o", a) = Positional(Unsigned(a), 8, LOWER)
         /\ Meaning(Star, a) = [i \in 1..Unsigned(a) |-> Space]
         /\ Meaning(Percent, a) = <<Percent>>
<1>1. /\ Meaning("c", a) = <<a>>
      /\ Meaning("s", a) = IF a = NULL THEN NullText ELSE a
  BY Special DEF Meaning
<1>2. /\ Meaning("p", a) = IF a = 0 THEN NilText
                           ELSE <<"0", "x">> \o Positional(a, 16, LOWER)
      /\ Meaning("P", a) = IF a = 0 THEN NilText
                           ELSE <<"0", "x">> \o Positional(a, 16, UPPER)
  BY Special DEF Meaning
<1>3. \A c \in {"d", "i"} :
        Meaning(c, a) = Positional(IF a < 0 THEN -a ELSE a, 10, LOWER)
  BY Special DEF Meaning
<1>4. /\ Meaning("u", a) = Positional(Unsigned(a), 10, LOWER)
      /\ Meaning("x", a) = Positional(Unsigned(a), 16, LOWER)
      /\ Meaning("X", a) = Positional(Unsigned(a), 16, UPPER)
      /\ Meaning("o", a) = Positional(Unsigned(a), 8, LOWER)
  BY Special DEF Meaning
<1>5. Meaning(Star, a) = [i \in 1..Unsigned(a) |-> Space]
  BY Special DEF Meaning
<1>6. Meaning(Percent, a) = <<Percent>>
  BY Special DEF Meaning
<1> QED
  BY <1>1, <1>2, <1>3, <1>4, <1>5, <1>6

(* What each conversion takes. *)
LEMMA SuitsIs ==
  ASSUME NEW a
  PROVE  /\ Suits("c", a) <=> a \in STRING
         /\ Suits("s", a) <=> a \in Seq(STRING)
         /\ \A c \in {"p", "P"} : Suits(c, a) <=> a \in 0..(Power(16, 2 * DIGITS) - 1)
         /\ \A c \in {"d", "i", "u", "x", "X", "o", Star} : Suits(c, a) <=> a \in Int
<1>1. /\ Suits("c", a) <=> a \in STRING
      /\ Suits("s", a) <=> a \in Seq(STRING)
      /\ \A c \in {"p", "P"} : Suits(c, a) <=> a \in 0..(Power(16, 2 * DIGITS) - 1)
  BY DEF Suits
<1>2. \A c \in {"d", "i", "u", "x", "X", "o"} : Suits(c, a) <=> a \in Int
  BY DEF Suits
<1>3. Suits(Star, a) <=> a \in Int
  BY Special DEF Suits
<1> QED
  BY <1>1, <1>2, <1>3

(* What may be written.  The provers do not look into strings, so that the *)
(* characters the code itself writes are listed.                           *)
Chars == STRING \cup {Percent, Minus, Space}
                \cup {LOWER[i] : i \in 1..16} \cup {UPPER[i] : i \in 1..16}
                \cup {NullText[i] : i \in 1..6} \cup {NilText[i] : i \in 1..5}
                \cup {<<"0", "x">>[i] : i \in 1..2}

Texts == Seq(Chars) \ {<<>>}
Items == [fd : {1, 2}, char : Chars]
OneOf == [fd : {1, 2}, text : Texts, fits : BOOLEAN]

LEMMA TablesAre ==
  /\ LOWER \in [1..16 -> Chars] /\ UPPER \in [1..16 -> Chars]
  /\ NullText \in Texts /\ NilText \in Texts /\ <<"0", "x">> \in Texts
  /\ Percent \in Chars /\ Minus \in Chars /\ Space \in Chars /\ STRING \subseteq Chars
<1>1. LOWER = [i \in 1..16 |-> LOWER[i]]
  BY DEF LOWER
<1>2. UPPER = [i \in 1..16 |-> UPPER[i]]
  BY DEF UPPER
<1>3. NullText = [i \in 1..6 |-> NullText[i]]
  BY DEF NullText
<1>4. NilText = [i \in 1..5 |-> NilText[i]]
  BY DEF NilText
<1> DEFINE mark == <<"0", "x">>
<1>5. mark = [i \in 1..2 |-> mark[i]]
  OBVIOUS
<1>6. Percent \in Chars /\ Minus \in Chars /\ Space \in Chars /\ STRING \subseteq Chars
  BY DEF Chars
<1>7. /\ \A i \in 1..16 : LOWER[i] \in Chars /\ UPPER[i] \in Chars
      /\ \A i \in 1..6 : NullText[i] \in Chars
      /\ \A i \in 1..5 : NilText[i] \in Chars
      /\ \A i \in 1..2 : mark[i] \in Chars
  BY DEF Chars
<1> HIDE DEF mark
<1>8. LOWER \in [1..16 -> Chars]
  BY <1>1, <1>7
<1>9. UPPER \in [1..16 -> Chars]
  BY <1>2, <1>7
<1>10. ASSUME NEW n \in Nat \ {0}, NEW t \in [1..n -> Chars] PROVE t \in Texts
  <2>1. t \in Seq(Chars) /\ Len(t) = n
    OBVIOUS
  <2>2. t # <<>>
    BY <2>1
  <2> QED
    BY <2>1, <2>2 DEF Texts
<1>11. NullText \in Texts
  <2>1. NullText \in [1..6 -> Chars] /\ 6 \in Nat \ {0}
    BY <1>3, <1>7
  <2> QED
    BY <1>10, <2>1
<1>12. NilText \in Texts
  <2>1. NilText \in [1..5 -> Chars] /\ 5 \in Nat \ {0}
    BY <1>4, <1>7
  <2> QED
    BY <1>10, <2>1
<1>13. mark \in Texts
  <2>1. mark \in [1..2 -> Chars] /\ 2 \in Nat \ {0}
    BY <1>5, <1>7
  <2> QED
    BY <1>10, <2>1
<1> QED
  BY <1>6, <1>8, <1>9, <1>11, <1>12, <1>13 DEF mark

LEMMA ForIs ==
  ASSUME NEW fd \in {1, 2}, NEW text \in Seq(Chars)
  PROVE  /\ For(fd, text) \in Seq(Items)
         /\ Len(For(fd, text)) = Len(text) /\ Len(text) \in Nat
         /\ \A i \in 1..Len(text) : For(fd, text)[i] = [fd |-> fd, char |-> text[i]]
<1>1. /\ Len(text) \in Nat /\ DOMAIN text = 1..Len(text)
      /\ \A i \in 1..Len(text) : text[i] \in Chars
  OBVIOUS
<1>2. \A i \in 1..Len(text) : [fd |-> fd, char |-> text[i]] \in Items
  BY <1>1 DEF Items
<1>3. For(fd, text) = [i \in 1..Len(text) |-> [fd |-> fd, char |-> text[i]]]
  BY <1>1 DEF For
<1> DEFINE f == [i \in 1..Len(text) |-> [fd |-> fd, char |-> text[i]]]
<1>4. f \in [1..Len(text) -> Items]
  BY <1>2
<1>5. \A i \in 1..Len(text) : f[i] = [fd |-> fd, char |-> text[i]]
  OBVIOUS
<1> HIDE DEF f
<1>6. f \in Seq(Items) /\ Len(f) = Len(text)
  BY <1>1, <1>4
<1> QED
  BY <1>1, <1>3, <1>5, <1>6 DEF f

(* The digits of a number. *)
LEMMA PositionalText ==
  ASSUME NEW n \in Nat, NEW b \in 2..16, NEW digits \in {LOWER, UPPER}
  PROVE  /\ Positional(n, b, digits) \in Texts
         /\ Len(Positional(n, b, digits)) \in Nat
         /\ \A d \in Nat \ {0} :
              Len(Positional(n, b, digits)) <= d <=> n < Power(b, d)
<1> SUFFICES ASSUME NEW c \in Nat, c >= 2, c <= 16, NEW table, table \in {LOWER, UPPER}
             PROVE  /\ Positional(n, c, table) \in Texts
                    /\ Len(Positional(n, c, table)) \in Nat
                    /\ \A d \in Nat \ {0} :
                         Len(Positional(n, c, table)) <= d <=> n < Power(c, d)
  OBVIOUS
<1>1. c \in Nat /\ c >= 2 /\ c <= 16
  OBVIOUS
<1>2. PICK w \in Nat \ {0} :
        /\ IsWidth(n, c, w)
        /\ Positional(n, c, table) =
             [i \in 1..w |-> table[((n \div Power(c, w - i)) % c) + 1]]
  BY PositionalIs
<1> DEFINE p == [i \in 1..w |-> table[((n \div Power(c, w - i)) % c) + 1]]
<1>3. ASSUME NEW i \in 1..w PROVE table[((n \div Power(c, w - i)) % c) + 1] \in Chars
  <2>1. w - i \in Nat /\ c \in Nat \ {0}
    BY <1>1
  <2>2. Power(c, w - i) \in Nat \ {0}
    BY <2>1, PowerPositive
  <2>3. \A q \in Nat \ {0} : ((n \div q) % c) + 1 \in 1..c
    <3>1. \A q \in Nat \ {0} : n \div q \in Nat
      OBVIOUS
    <3>2. \A x \in Nat : (x % c) + 1 \in 1..c
      BY <2>1
    <3> QED
      BY <3>1, <3>2
  <2>4. ((n \div Power(c, w - i)) % c) + 1 \in 1..16
    BY <1>1, <2>2, <2>3
  <2> QED
    BY <2>4, TablesAre
<1>4. p \in [1..w -> Chars]
  BY <1>3
<1> HIDE DEF p
<1>5. p \in Seq(Chars) /\ Len(p) = w
  BY <1>4
<1>6. p \in Texts
  BY <1>5 DEF Texts
<1>7. ASSUME NEW d \in Nat \ {0} PROVE w <= d <=> n < Power(c, d)
  <2>1. ASSUME n < Power(c, d) PROVE w <= d
    BY <1>1, <1>2, <2>1, WidthIsLeast
  <2>2. ASSUME w <= d PROVE n < Power(c, d)
    <3>1. w \in Nat /\ d \in Nat
      OBVIOUS
    <3>2. Power(c, w) <= Power(c, d)
      BY <1>1, <2>2, <3>1, PowerGrows
    <3>3. Power(c, w) \in Nat /\ Power(c, d) \in Nat
      BY <1>1, <3>1, PowerIs
    <3> QED
      BY <1>2, <3>2, <3>3 DEF IsWidth
  <2> QED
    BY <2>1, <2>2
<1> QED
  BY <1>2, <1>5, <1>6, <1>7 DEF p

-----------------------------------------------------------------------------
(* What a sequence of writes writes. *)
Wrote(W) == FlattenSeq([n \in 1..Len(W) |-> For(W[n].fd, W[n].text)])

Makes(W, items) == W \in Seq(OneOf) /\ Wrote(W) = items

Fit(W) == \A n \in 1..Len(W) : W[n].fits

(* The first write, then the others. *)
LEMMA WroteFirst ==
  ASSUME NEW W \in Seq(OneOf)
  PROVE  /\ Wrote(W) \in Seq(Items) /\ Len(Wrote(W)) \in Nat
         /\ W = <<>> => Wrote(W) = <<>>
         /\ W # <<>> => /\ Head(W) \in OneOf /\ Tail(W) \in Seq(OneOf)
                        /\ Wrote(W) = For(Head(W).fd, Head(W).text) \o Wrote(Tail(W))
<1> DEFINE f(V) == [n \in 1..Len(V) |-> For(V[n].fd, V[n].text)]
<1>1. ASSUME NEW V \in Seq(OneOf)
      PROVE  /\ f(V) \in Seq(Seq(Items)) /\ Len(f(V)) = Len(V) /\ Len(V) \in Nat
             /\ \A n \in 1..Len(V) : f(V)[n] = For(V[n].fd, V[n].text)
  <2>1. ASSUME NEW n \in 1..Len(V) PROVE For(V[n].fd, V[n].text) \in Seq(Items)
    <3>1. V[n] \in OneOf
      OBVIOUS
    <3>2. V[n].fd \in {1, 2} /\ V[n].text \in Seq(Chars)
      BY <3>1 DEF OneOf, Texts
    <3> QED
      BY <3>2, ForIs
  <2>2. f(V) \in [1..Len(V) -> Seq(Items)]
    BY <2>1
  <2>3. Len(V) \in Nat /\ \A n \in 1..Len(V) : f(V)[n] = For(V[n].fd, V[n].text)
    OBVIOUS
  <2> HIDE DEF f
  <2> QED
    BY <2>2, <2>3
<1>2. \A V : Wrote(V) = FlattenSeq(f(V))
  BY DEF Wrote
<1> HIDE DEF f
<1>3. Wrote(W) \in Seq(Items)
  BY <1>1, <1>2, FlattenTyped
<1>4. ASSUME W = <<>> PROVE Wrote(W) = <<>>
  <2>1. f(W) \in Seq(Seq(Items)) /\ Len(f(W)) = 0
    BY <1>1, <1>4
  <2>2. f(W) = <<>>
    BY <2>1
  <2>3. <<>> \in Seq(Seq(Items)) /\ <<>> \in Seq(Items)
    OBVIOUS
  <2>4. FlattenSeq(<<>>) = <<>>
    BY <2>3, FlattenAppend
  <2> QED
    BY <1>2, <2>2, <2>4
<1>5. ASSUME W # <<>>
      PROVE  /\ Head(W) \in OneOf /\ Tail(W) \in Seq(OneOf)
             /\ Wrote(W) = For(Head(W).fd, Head(W).text) \o Wrote(Tail(W))
  <2>1. /\ Head(W) \in OneOf /\ Tail(W) \in Seq(OneOf) /\ Head(W) = W[1]
        /\ Len(W) \in Nat /\ Len(W) >= 1 /\ Len(Tail(W)) = Len(W) - 1
        /\ \A n \in 1..(Len(W) - 1) : Tail(W)[n] = W[n + 1]
    BY <1>5
  <2>2. /\ f(W) \in Seq(Seq(Items)) /\ Len(f(W)) = Len(W)
        /\ f(W)[1] = For(Head(W).fd, Head(W).text)
    BY <1>1, <2>1
  <2>3. f(W) # <<>>
    BY <2>1, <2>2
  <2>4. FlattenSeq(f(W)) = f(W)[1] \o FlattenSeq(Tail(f(W)))
    BY <2>2, <2>3, FlattenFirst
  <2>5. Tail(f(W)) = f(Tail(W))
    <3>1. /\ Tail(f(W)) \in Seq(Seq(Items)) /\ Len(Tail(f(W))) = Len(W) - 1
          /\ \A n \in 1..(Len(W) - 1) : Tail(f(W))[n] = f(W)[n + 1]
      BY <2>1, <2>2, <2>3
    <3>2. f(Tail(W)) \in Seq(Seq(Items)) /\ Len(f(Tail(W))) = Len(W) - 1
      BY <1>1, <2>1
    <3>3. ASSUME NEW n \in 1..(Len(W) - 1) PROVE Tail(f(W))[n] = f(Tail(W))[n]
      <4>1. f(W)[n + 1] = For(W[n + 1].fd, W[n + 1].text)
        BY <1>1, <2>1
      <4>2. f(Tail(W))[n] = For(Tail(W)[n].fd, Tail(W)[n].text)
        BY <1>1, <2>1
      <4> QED
        BY <2>1, <3>1, <4>1, <4>2
    <3> QED
      BY <3>1, <3>2, <3>3, SeqEqual
  <2> QED
    BY <1>2, <2>1, <2>2, <2>4, <2>5
<1> QED
  BY <1>3, <1>4, <1>5

(* One write in front of others. *)
LEMMA OneMore ==
  ASSUME NEW w \in OneOf, NEW W \in Seq(OneOf)
  PROVE  /\ Makes(<<w>> \o W, For(w.fd, w.text) \o Wrote(W))
         /\ Fit(<<w>> \o W) <=> w.fits /\ Fit(W)
<1> DEFINE V == <<w>> \o W
<1>1. /\ V \in Seq(OneOf) /\ V # <<>> /\ Len(V) = Len(W) + 1 /\ Len(W) \in Nat
      /\ V[1] = w /\ \A n \in 1..Len(W) : V[n + 1] = W[n]
  OBVIOUS
<1>2. Head(V) = w /\ Tail(V) = W
  <2> HIDE DEF V
  <2>1. /\ Tail(V) \in Seq(OneOf) /\ Len(Tail(V)) = Len(W)
        /\ \A n \in 1..Len(W) : Tail(V)[n] = V[n + 1]
    BY <1>1
  <2>2. Tail(V) = W
    BY <1>1, <2>1, SeqEqual
  <2> QED
    BY <1>1, <2>2
<1> HIDE DEF V
<1>3. Wrote(V) = For(w.fd, w.text) \o Wrote(W)
  BY <1>1, <1>2, WroteFirst
<1>4. Fit(V) <=> w.fits /\ Fit(W)
  <2>1. \A n \in 1..Len(V) : n = 1 \/ (n - 1 \in 1..Len(W) /\ (n - 1) + 1 = n)
    BY <1>1
  <2>2. 1 \in 1..Len(V) /\ \A n \in 1..Len(W) : n + 1 \in 1..Len(V)
    BY <1>1
  <2>3. ASSUME Fit(V) PROVE w.fits /\ Fit(W)
    BY <1>1, <2>2, <2>3 DEF Fit
  <2>4. ASSUME w.fits, Fit(W) PROVE Fit(V)
    <3> SUFFICES ASSUME NEW n \in 1..Len(V) PROVE V[n].fits
      BY DEF Fit
    <3>1. CASE n = 1
      BY <1>1, <2>4, <3>1
    <3>2. CASE n # 1
      <4>1. n - 1 \in 1..Len(W) /\ (n - 1) + 1 = n
        BY <2>1, <3>2
      <4>2. V[n] = W[n - 1]
        BY <1>1, <4>1
      <4> QED
        BY <2>4, <4>1, <4>2 DEF Fit
    <3> QED
      BY <3>1, <3>2
  <2> QED
    BY <2>3, <2>4
<1> QED
  BY <1>1, <1>3, <1>4 DEF Makes, V

LEMMA NoWrites == <<>> \in Seq(OneOf) /\ Makes(<<>>, <<>>) /\ Fit(<<>>)
<1>1. <<>> \in Seq(OneOf) /\ Len(<<>>) = 0
  OBVIOUS
<1>2. Wrote(<<>>) = <<>>
  BY <1>1, WroteFirst
<1> QED
  BY <1>1, <1>2 DEF Makes, Fit

LEMMA OneWrite ==
  ASSUME NEW w \in OneOf
  PROVE  /\ Makes(<<w>>, For(w.fd, w.text))
         /\ Fit(<<w>>) <=> w.fits
<1>1. /\ Makes(<<w>> \o <<>>, For(w.fd, w.text) \o <<>>)
      /\ Fit(<<w>> \o <<>>) <=> w.fits
  BY NoWrites, OneMore DEF Makes
<1>2. <<w>> \o <<>> = <<w>>
  OBVIOUS
<1>3. For(w.fd, w.text) \in Seq(Items)
  BY ForIs DEF OneOf, Texts
<1>4. For(w.fd, w.text) \o <<>> = For(w.fd, w.text)
  BY <1>3, ConcatEmptySeq
<1> QED
  BY <1>1, <1>2, <1>4

(* A text written byte by byte. *)
LEMMA ByteWrites ==
  ASSUME NEW fd \in {1, 2}, NEW text \in Seq(Chars)
  PROVE  Makes(Bytewise(fd, text), For(fd, text)) /\ Fit(Bytewise(fd, text))
<1> DEFINE W == Bytewise(fd, text)
           F == For(fd, text)
<1>1. /\ Len(text) \in Nat /\ DOMAIN text = 1..Len(text)
      /\ \A i \in 1..Len(text) : text[i] \in Chars
  OBVIOUS
<1>2. ASSUME NEW i \in 1..Len(text)
      PROVE  /\ Write(fd, <<text[i]>>) \in OneOf /\ Write(fd, <<text[i]>>).fits
             /\ For(fd, <<text[i]>>) = <<F[i]>>
  <2>1. <<text[i]>> \in Seq(Chars) /\ <<text[i]>> # <<>>
    BY <1>1, OneElement
  <2>2. Write(fd, <<text[i]>>) \in OneOf /\ Write(fd, <<text[i]>>).fits
    BY <2>1 DEF Write, OneOf, Texts
  <2>3. /\ For(fd, <<text[i]>>) \in Seq(Items)
        /\ Len(For(fd, <<text[i]>>)) = Len(<<text[i]>>)
        /\ \A j \in 1..Len(<<text[i]>>) :
             For(fd, <<text[i]>>)[j] = [fd |-> fd, char |-> <<text[i]>>[j]]
    BY <2>1, ForIs
  <2>4. Len(<<text[i]>>) = 1 /\ <<text[i]>>[1] = text[i]
    OBVIOUS
  <2>5. F[i] = [fd |-> fd, char |-> text[i]]
    BY ForIs
  <2>6. For(fd, <<text[i]>>)[1] = F[i] /\ Len(For(fd, <<text[i]>>)) = 1
    BY <2>3, <2>4, <2>5
  <2> HIDE DEF F
  <2>7. F[i] \in Items
    BY ForIs DEF F
  <2>8. <<F[i]>> \in Seq(Items) /\ Len(<<F[i]>>) = 1 /\ <<F[i]>>[1] = F[i]
    BY <2>7
  <2>9. \A j \in 1..1 : For(fd, <<text[i]>>)[j] = <<F[i]>>[j]
    BY <2>6, <2>8
  <2>10. For(fd, <<text[i]>>) = <<F[i]>>
    BY <2>3, <2>6, <2>8, <2>9, SeqEqual
  <2> QED
    BY <2>2, <2>10
<1>3. W = [n \in 1..Len(text) |-> Write(fd, <<text[n]>>)]
  BY <1>1 DEF Bytewise
<1>4. /\ W \in Seq(OneOf) /\ Len(W) = Len(text)
      /\ \A n \in 1..Len(text) : W[n] = Write(fd, <<text[n]>>)
  <2> DEFINE V == [n \in 1..Len(text) |-> Write(fd, <<text[n]>>)]
  <2>1. V \in [1..Len(text) -> OneOf]
    BY <1>2
  <2>2. \A n \in 1..Len(text) : V[n] = Write(fd, <<text[n]>>)
    OBVIOUS
  <2> HIDE DEF V
  <2>3. V \in Seq(OneOf) /\ Len(V) = Len(text)
    BY <1>1, <2>1
  <2>4. W = V
    BY <1>3 DEF V
  <2> HIDE DEF W
  <2> QED
    BY <2>2, <2>3, <2>4
<1> HIDE DEF W
<1>5. Fit(W)
  BY <1>2, <1>4 DEF Fit
<1>6. F \in Seq(Items) /\ Len(F) = Len(text)
  BY ForIs
<1> HIDE DEF F
<1>7. \A n \in 1..Len(W) : For(W[n].fd, W[n].text) = <<F[n]>>
  <2>1. \A n \in 1..Len(W) : W[n] = Write(fd, <<text[n]>>)
    BY <1>4
  <2>2. \A t : Write(fd, t).fd = fd /\ Write(fd, t).text = t
    BY DEF Write
  <2> TAKE n \in 1..Len(W)
  <2>3. n \in 1..Len(text) /\ W[n].fd = fd /\ W[n].text = <<text[n]>>
    <3>1. n \in 1..Len(text) /\ W[n] = Write(fd, <<text[n]>>)
      BY <1>4, <2>1, Zenon
    <3> QED
      BY <2>2, <3>1, Zenon
  <2>4. For(fd, <<text[n]>>) = <<F[n]>>
    BY <1>2, <2>3
  <2> QED
    BY <2>3, <2>4
<1>8. [n \in 1..Len(W) |-> For(W[n].fd, W[n].text)] = [n \in 1..Len(F) |-> <<F[n]>>]
  BY <1>4, <1>6, <1>7
<1>9. Wrote(W) = F
  BY <1>6, <1>8, FlattenOnes DEF Wrote
<1> QED
  BY <1>4, <1>5, <1>9 DEF Makes, W, F

LEMMA UnsignedIs ==
  ASSUME NEW a \in Int
  PROVE  Unsigned(a) \in Nat /\ Unsigned(a) < UINT /\ UINT \in Nat \ {0}
<1>1. DIGITS \in Nat /\ 16 \in Nat \ {0}
  BY PrintfAssumption
<1>2. UINT \in Nat \ {0}
  BY <1>1, PowerPositive DEF UINT
<1>3. \A u \in Nat \ {0} : a % u \in Nat /\ a % u < u
  OBVIOUS
<1> QED
  BY <1>2, <1>3 DEF Unsigned

(* A buffer of d characters and the digits of n. *)
LEMMA BufferWrite ==
  ASSUME NEW fd \in {1, 2}, NEW n \in Nat, NEW b \in 2..16, NEW digits \in {LOWER, UPPER},
         NEW d \in Nat \ {0}
  PROVE  LET w == WriteBuffer(fd, Numeral(n, b, digits), d)
         IN  /\ w \in OneOf
             /\ For(w.fd, w.text) = For(fd, Positional(n, b, digits))
             /\ Makes(<<w>>, For(fd, Positional(n, b, digits)))
             /\ Fit(<<w>>) <=> n < Power(b, d)
             /\ w.fits <=> n < Power(b, d)
<1> DEFINE p == Positional(n, b, digits)
           w == WriteBuffer(fd, p, d)
<1>1. Numeral(n, b, digits) = p
  <2>1. b \in Nat /\ b >= 2
    OBVIOUS
  <2>2. \A table : \A c \in Nat :
          c >= 2 => Numeral(n, c, table) = Positional(n, c, table)
    BY NumeralIsPositional
  <2> QED
    BY <2>1, <2>2, Zenon
<1>2. p \in Texts /\ Len(p) \in Nat /\ (Len(p) <= d <=> n < Power(b, d))
  BY PositionalText
<1> HIDE DEF p
<1>3. w.fd = fd /\ w.text = p /\ (w.fits <=> Len(p) <= d)
  <2>1. w = [fd |-> fd, text |-> p, fits |-> Len(p) <= d]
    BY DEF WriteBuffer
  <2> HIDE DEF w
  <2> QED
    BY <2>1
<1>4. w \in OneOf
  BY <1>2 DEF OneOf, WriteBuffer
<1> HIDE DEF w
<1>5. Makes(<<w>>, For(fd, p)) /\ (Fit(<<w>>) <=> w.fits)
  BY <1>3, <1>4, OneWrite
<1>6. /\ w \in OneOf
      /\ For(w.fd, w.text) = For(fd, p)
      /\ Makes(<<w>>, For(fd, p))
      /\ Fit(<<w>>) <=> n < Power(b, d)
      /\ w.fits <=> n < Power(b, d)
  BY <1>2, <1>3, <1>4, <1>5
<1> QED
  BY <1>1, <1>6 DEF w, p

(* A text written at once. *)
LEMMA PlainWrite ==
  ASSUME NEW fd \in {1, 2}, NEW text \in Texts
  PROVE  /\ Write(fd, text) \in OneOf
         /\ Write(fd, text).fd = fd /\ Write(fd, text).text = text /\ Write(fd, text).fits
         /\ Makes(<<Write(fd, text)>>, For(fd, text)) /\ Fit(<<Write(fd, text)>>)
<1>1. /\ Write(fd, text) \in OneOf
      /\ Write(fd, text).fd = fd /\ Write(fd, text).text = text /\ Write(fd, text).fits
  BY DEF Write, OneOf
<1> QED
  BY <1>1, OneWrite

(* ft_putchar. *)
LEMMA CharWrite ==
  ASSUME NEW fd \in {1, 2}, NEW c \in Chars
  PROVE  /\ <<c>> \in Texts
         /\ Makes(FtFputchar(c, fd), For(fd, <<c>>)) /\ Fit(FtFputchar(c, fd))
<1>1. <<c>> \in Texts
  BY OneElement DEF Texts
<1> QED
  BY <1>1, PlainWrite DEF FtFputchar

(* ft_putstr. *)
LEMMA StringWrites ==
  ASSUME NEW fd \in {1, 2}, NEW a \in Seq(STRING)
  PROVE  /\ Makes(FtFputstr(a, fd), For(fd, Meaning("s", a)))
         /\ Fit(FtFputstr(a, fd)) /\ Meaning("s", a) \in Seq(Chars)
<1>1. CASE a = NULL
  <2>1. FtFputstr(a, fd) = <<Write(fd, NullText)>> /\ Meaning("s", a) = NullText
    BY <1>1, MeaningOf DEF FtFputstr
  <2> QED
    BY <2>1, TablesAre, PlainWrite DEF Texts
<1>2. CASE a # NULL
  <2>1. FtFputstr(a, fd) = Bytewise(fd, a) /\ Meaning("s", a) = a
    BY <1>2, MeaningOf DEF FtFputstr
  <2>2. a \in Seq(Chars)
    BY TablesAre, SeqOfMore
  <2> QED
    BY <2>1, <2>2, ByteWrites
<1> QED
  BY <1>1, <1>2

(* ft_putnbr, on a number that is not negative. *)
LEMMA DecimalWrites ==
  ASSUME NEW fd \in {1, 2}, NEW n \in Nat
  PROVE  LET text == Positional(n, 10, LOWER)
         IN  /\ text \in Seq(Chars)
             /\ Makes(Bytewise(fd, Decimal(n)), For(fd, text))
             /\ Fit(Bytewise(fd, Decimal(n)))
<1>1. Decimal(n) = Positional(n, 10, LOWER)
  BY DecimalIsPositional
<1>2. Positional(n, 10, LOWER) \in Seq(Chars)
  <2>1. 10 \in 2..16 /\ LOWER \in {LOWER, UPPER}
    OBVIOUS
  <2>2. \A b \in 2..16, table \in {LOWER, UPPER} : Positional(n, b, table) \in Texts
    BY PositionalText
  <2> QED
    BY <2>1, <2>2 DEF Texts
<1> QED
  BY <1>1, <1>2, ByteWrites

(* The sign and the digits. *)
LEMMA NumberWrites ==
  ASSUME NEW fd \in {1, 2}, NEW a \in Int, NEW c \in {"d", "i"}
  PROVE  /\ Meaning(c, a) \in Seq(Chars)
         /\ Fit(FtFputnbr(a, fd))
         /\ Makes(FtFputnbr(a, fd),
                  IF a < 0 THEN For(STDOUT, <<Minus>>) \o For(fd, Meaning(c, a))
                           ELSE For(fd, Meaning(c, a)))
<1>1. Meaning(c, a) = Positional(IF a < 0 THEN -a ELSE a, 10, LOWER)
  BY MeaningOf
<1>2. CASE a < 0
  <2>1. -a \in Nat /\ Meaning(c, a) = Positional(-a, 10, LOWER)
    BY <1>1, <1>2
  <2>2. /\ Meaning(c, a) \in Seq(Chars)
        /\ Makes(Bytewise(fd, Decimal(-a)), For(fd, Meaning(c, a)))
        /\ Fit(Bytewise(fd, Decimal(-a)))
    BY <2>1, DecimalWrites
  <2>3. FtFputnbr(a, fd) = <<Write(STDOUT, <<Minus>>)>> \o Bytewise(fd, Decimal(-a))
    BY <1>2 DEF FtFputnbr, FtPutchar, FtFputchar
  <2>4. STDOUT \in {1, 2} /\ <<Minus>> \in Texts
    BY TablesAre, CharWrite DEF STDOUT
  <2> DEFINE w == Write(STDOUT, <<Minus>>)
  <2>5. w \in OneOf /\ w.fd = STDOUT /\ w.text = <<Minus>> /\ w.fits
    BY <2>4, PlainWrite
  <2> HIDE DEF w
  <2>6. Makes(<<w>> \o Bytewise(fd, Decimal(-a)),
              For(w.fd, w.text) \o Wrote(Bytewise(fd, Decimal(-a))))
        /\ Fit(<<w>> \o Bytewise(fd, Decimal(-a)))
    BY <2>2, <2>5, OneMore DEF Makes
  <2>7. Wrote(Bytewise(fd, Decimal(-a))) = For(fd, Meaning(c, a))
    BY <2>2 DEF Makes
  <2> QED
    BY <1>2, <2>2, <2>3, <2>5, <2>6, <2>7 DEF w
<1>3. CASE ~ (a < 0)
  <2>1. a \in Nat /\ Meaning(c, a) = Positional(a, 10, LOWER)
    BY <1>1, <1>3
  <2>2. /\ Meaning(c, a) \in Seq(Chars)
        /\ Makes(Bytewise(fd, Decimal(a)), For(fd, Meaning(c, a)))
        /\ Fit(Bytewise(fd, Decimal(a)))
    BY <2>1, DecimalWrites
  <2>3. FtFputnbr(a, fd) = Bytewise(fd, Decimal(a))
    BY <1>3 DEF FtFputnbr
  <2> QED
    BY <1>3, <2>2, <2>3
<1> QED
  BY <1>2, <1>3

(* Addresses. *)
LEMMA AddressWrites ==
  ASSUME NEW fd \in {1, 2}, NEW a \in 0..(Power(16, 2 * DIGITS) - 1),
         NEW digits \in {LOWER, UPPER}
  PROVE  LET W == IF a = 0 THEN Nil(fd)
                  ELSE HexMark(fd) \o <<WriteBuffer(fd, Numeral(a, 16, digits), 2 * DIGITS)>>
             text == IF a = 0 THEN NilText ELSE <<"0", "x">> \o Positional(a, 16, digits)
         IN  text \in Seq(Chars) /\ Makes(W, For(fd, text)) /\ Fit(W)
<1>1. CASE a = 0
  <2>1. NilText \in Texts /\ NilText \in Seq(Chars)
    BY TablesAre DEF Texts
  <2> QED
    BY <1>1, <2>1, PlainWrite DEF Nil
<1>2. CASE a # 0
  <2> DEFINE mark == <<"0", "x">>
             p == Positional(a, 16, digits)
             v == WriteBuffer(fd, Numeral(a, 16, digits), 2 * DIGITS)
             w == Write(fd, mark)
  <2>1. /\ 16 \in 2..16 /\ 2 * DIGITS \in Nat \ {0} /\ 2 * DIGITS \in Nat
        /\ Power(16, 2 * DIGITS) \in Nat /\ a \in Nat
        /\ a < Power(16, 2 * DIGITS)
    <3>1. 16 \in 2..16 /\ 16 \in Nat /\ 2 * DIGITS \in Nat \ {0} /\ 2 * DIGITS \in Nat
      BY PrintfAssumption
    <3>2. Power(16, 2 * DIGITS) \in Nat
      BY <3>1, PowerIs
    <3> QED
      BY <3>1, <3>2
  <2>2. mark \in Texts /\ mark \in Seq(Chars)
    BY TablesAre DEF Texts
  <2>3. p \in Texts /\ p \in Seq(Chars)
    <3>1. \A b \in 2..16 : Positional(a, b, digits) \in Texts
      BY <2>1, PositionalText
    <3> QED
      BY <2>1, <3>1 DEF Texts
  <2>4. v \in OneOf /\ Makes(<<v>>, For(fd, p)) /\ (v.fits <=> a < Power(16, 2 * DIGITS))
        /\ (Fit(<<v>>) <=> a < Power(16, 2 * DIGITS))
    <3>1. \A b \in 2..16 :
            LET x == WriteBuffer(fd, Numeral(a, b, digits), 2 * DIGITS)
            IN  /\ x \in OneOf
                /\ Makes(<<x>>, For(fd, Positional(a, b, digits)))
                /\ Fit(<<x>>) <=> a < Power(b, 2 * DIGITS)
                /\ x.fits <=> a < Power(b, 2 * DIGITS)
      BY <2>1, BufferWrite
    <3> QED
      BY <2>1, <3>1
  <2>5. w \in OneOf /\ w.fd = fd /\ w.text = mark /\ w.fits
    <3> HIDE DEF mark
    <3> QED
      BY <2>2, PlainWrite
  <2> HIDE DEF mark, p, v, w
  <2>6. <<v>> \in Seq(OneOf) /\ Wrote(<<v>>) = For(fd, p) /\ Fit(<<v>>)
    BY <2>1, <2>4 DEF Makes
  <2>7. Makes(<<w>> \o <<v>>, For(fd, mark) \o For(fd, p)) /\ Fit(<<w>> \o <<v>>)
    BY <2>5, <2>6, OneMore
  <2>8. mark \o p \in Seq(Chars) /\ For(fd, mark \o p) = For(fd, mark) \o For(fd, p)
    <3>1. mark \o p \in Seq(Chars) /\ Len(mark \o p) = Len(mark) + Len(p)
          /\ Len(mark) \in Nat /\ Len(p) \in Nat
          /\ \A i \in 1..(Len(mark) + Len(p)) :
               (mark \o p)[i] = IF i <= Len(mark) THEN mark[i] ELSE p[i - Len(mark)]
      BY <2>2, <2>3
    <3> DEFINE F == For(fd, mark)
               G == For(fd, p)
               H == For(fd, mark \o p)
    <3>2. /\ F \in Seq(Items) /\ Len(F) = Len(mark)
          /\ \A i \in 1..Len(mark) : F[i] = [fd |-> fd, char |-> mark[i]]
      BY <2>2, ForIs
    <3>3. /\ G \in Seq(Items) /\ Len(G) = Len(p)
          /\ \A i \in 1..Len(p) : G[i] = [fd |-> fd, char |-> p[i]]
      BY <2>3, ForIs
    <3>4. /\ H \in Seq(Items) /\ Len(H) = Len(mark \o p)
          /\ \A i \in 1..Len(mark \o p) : H[i] = [fd |-> fd, char |-> (mark \o p)[i]]
      BY <3>1, ForIs
    <3> HIDE DEF F, G, H
    <3>5. /\ F \o G \in Seq(Items) /\ Len(F \o G) = Len(mark) + Len(p)
          /\ \A i \in 1..(Len(mark) + Len(p)) :
               (F \o G)[i] = IF i <= Len(mark) THEN F[i] ELSE G[i - Len(mark)]
      BY <3>1, <3>2, <3>3
    <3>6. ASSUME NEW i \in 1..(Len(mark) + Len(p)) PROVE H[i] = (F \o G)[i]
      <4>1. CASE i <= Len(mark)
        BY <3>1, <3>2, <3>4, <3>5, <4>1
      <4>2. CASE ~ (i <= Len(mark))
        <5>1. i - Len(mark) \in 1..Len(p)
          BY <3>1, <4>2
        <5> QED
          BY SMTT(30), <3>1, <3>3, <3>4, <3>5, <4>2, <5>1
      <4> QED
        BY <4>1, <4>2
    <3>7. H = F \o G
      BY <3>1, <3>4, <3>5, <3>6, SeqEqual
    <3> QED
      BY <3>1, <3>7 DEF F, G, H
  <2>9. /\ mark \o p \in Seq(Chars)
        /\ Makes(<<w>> \o <<v>>, For(fd, mark \o p)) /\ Fit(<<w>> \o <<v>>)
    BY <2>7, <2>8
  <2>10. HexMark(fd) = <<w>>
    BY DEF HexMark, w, mark
  <2> QED
    BY <1>2, <2>9, <2>10 DEF mark, p, v
<1> QED
  BY <1>1, <1>2

-----------------------------------------------------------------------------
(* The conversions. *)

(* The octal digits that do not fit. *)
TooLong(c, a) == c = "o" /\ Unsigned(a) >= Power(8, DIGITS)

(* What the text of a conversion is, on which descriptor. *)
Said(c, a, fd) ==
  IF c \in {"d", "i"} /\ a < 0 THEN For(STDOUT, <<Minus>>) \o For(fd, Meaning(c, a))
                               ELSE For(fd, Meaning(c, a))

LEMMA NotSigned ==
  ASSUME NEW c, c \notin {"d", "i"}, NEW a, NEW fd
  PROVE  Said(c, a, fd) = For(fd, Meaning(c, a))
BY DEF Said

(* Every conversion writes what it means, and only octal digits miss their *)
(* buffer.                                                                 *)
LEMMA ConversionMakes ==
  ASSUME NEW fd \in {1, 2}, NEW c \in Conversions, NEW a, c # Percent => Suits(c, a)
  PROVE  /\ Makes(FtFtype(c, a, fd), Said(c, a, fd))
         /\ ~ Fit(FtFtype(c, a, fd)) => TooLong(c, a)
<1>1. CASE c = "c"
  <2>1. a \in STRING /\ a \in Chars
    BY <1>1, Special, SuitsIs, TablesAre
  <2>2. Said(c, a, fd) = For(fd, <<a>>) /\ FtFtype(c, a, fd) = FtFputchar(a, fd)
    BY <1>1, NotSigned, MeaningOf, TypeOf
  <2> QED
    BY <2>1, <2>2, CharWrite
<1>2. CASE c = "s"
  <2>1. a \in Seq(STRING)
    BY <1>2, Special, SuitsIs
  <2>2. Said(c, a, fd) = For(fd, Meaning("s", a)) /\ FtFtype(c, a, fd) = FtFputstr(a, fd)
    BY <1>2, NotSigned, TypeOf
  <2> QED
    BY <2>1, <2>2, StringWrites
<1>3. CASE c = "p"
  <2>1. a \in 0..(Power(16, 2 * DIGITS) - 1)
    BY <1>3, Special, SuitsIs
  <2>2. /\ Said(c, a, fd) = For(fd, Meaning("p", a))
        /\ FtFtype(c, a, fd) = FtFputaddress(a, fd)
    BY <1>3, NotSigned, TypeOf
  <2>3. Meaning("p", a) = IF a = 0 THEN NilText ELSE <<"0", "x">> \o Positional(a, 16, LOWER)
    BY MeaningOf
  <2>4. \A digits \in {LOWER, UPPER} :
          LET W == IF a = 0 THEN Nil(fd)
                   ELSE HexMark(fd) \o <<WriteBuffer(fd, Numeral(a, 16, digits), 2 * DIGITS)>>
              text == IF a = 0 THEN NilText ELSE <<"0", "x">> \o Positional(a, 16, digits)
          IN  text \in Seq(Chars) /\ Makes(W, For(fd, text)) /\ Fit(W)
    BY <2>1, AddressWrites
  <2>5. /\ Makes(FtFputaddress(a, fd), For(fd, Meaning("p", a)))
        /\ Fit(FtFputaddress(a, fd))
    BY <2>3, <2>4 DEF FtFputaddress
  <2> QED
    BY <2>2, <2>5
<1>4. CASE c = "P"
  <2>1. a \in 0..(Power(16, 2 * DIGITS) - 1)
    BY <1>4, Special, SuitsIs
  <2>2. /\ Said(c, a, fd) = For(fd, Meaning("P", a))
        /\ FtFtype(c, a, fd) = FtFputaddressUpper(a, fd)
    BY <1>4, NotSigned, TypeOf
  <2>3. Meaning("P", a) = IF a = 0 THEN NilText ELSE <<"0", "x">> \o Positional(a, 16, UPPER)
    BY MeaningOf
  <2>4. \A digits \in {LOWER, UPPER} :
          LET W == IF a = 0 THEN Nil(fd)
                   ELSE HexMark(fd) \o <<WriteBuffer(fd, Numeral(a, 16, digits), 2 * DIGITS)>>
              text == IF a = 0 THEN NilText ELSE <<"0", "x">> \o Positional(a, 16, digits)
          IN  text \in Seq(Chars) /\ Makes(W, For(fd, text)) /\ Fit(W)
    BY <2>1, AddressWrites
  <2>5. /\ Makes(FtFputaddressUpper(a, fd), For(fd, Meaning("P", a)))
        /\ Fit(FtFputaddressUpper(a, fd))
    BY <2>3, <2>4 DEF FtFputaddressUpper
  <2> QED
    BY <2>2, <2>5
<1>5. CASE c \in {"d", "i"}
  <2>1. a \in Int
    BY <1>5, Special, SuitsIs
  <2>2. FtFtype(c, a, fd) = FtFputnbr(a, fd)
    BY <1>5, TypeOf
  <2>3. Said(c, a, fd) = IF a < 0 THEN For(STDOUT, <<Minus>>) \o For(fd, Meaning(c, a))
                                  ELSE For(fd, Meaning(c, a))
    BY <1>5 DEF Said
  <2> QED
    BY <1>5, <2>1, <2>2, <2>3, NumberWrites
<1> DEFINE n == Unsigned(a)
<1>6. ASSUME c \in {"u", "x", "X", "o", Star}
      PROVE  n \in Nat /\ n < UINT /\ c \notin {"d", "i"}
  <2>1. c # Percent /\ c \notin {"d", "i"}
    BY <1>6, Special
  <2>2. a \in Int
    BY <1>6, <2>1, SuitsIs
  <2> QED
    BY <2>1, <2>2, UnsignedIs
<1>7. CASE c = "u"
  <2>1. n \in Nat /\ Said(c, a, fd) = For(fd, Positional(n, 10, LOWER))
    <3>1. n \in Nat /\ c \notin {"d", "i"}
      BY <1>6, <1>7
    <3>2. Said(c, a, fd) = For(fd, Meaning(c, a))
      BY <3>1, NotSigned
    <3>3. Meaning(c, a) = Positional(n, 10, LOWER)
      BY <1>7, MeaningOf
    <3> QED
      BY <3>1, <3>2, <3>3
  <2>2. FtFtype(c, a, fd) = Bytewise(fd, Decimal(n))
    BY <1>7, TypeOf DEF FtFputnbrUn
  <2> HIDE DEF n
  <2> QED
    BY <2>1, <2>2, DecimalWrites
<1>8. ASSUME NEW b \in 2..16, NEW digits \in {LOWER, UPPER}, n \in Nat
      PROVE  LET W == <<WriteBuffer(fd, Numeral(n, b, digits), DIGITS)>>
             IN  Makes(W, For(fd, Positional(n, b, digits))) /\ (Fit(W) <=> n < Power(b, DIGITS))
  <2>1. DIGITS \in Nat \ {0}
    BY PrintfAssumption
  <2> HIDE DEF n
  <2> QED
    BY <1>8, <2>1, BufferWrite
<1>9. CASE c = "x"
  <2>1. n \in Nat /\ n < UINT /\ Said(c, a, fd) = For(fd, Positional(n, 16, LOWER))
    <3>1. n \in Nat /\ n < UINT /\ c \notin {"d", "i"}
      BY <1>6, <1>9
    <3>2. Said(c, a, fd) = For(fd, Meaning(c, a))
      BY <3>1, NotSigned
    <3>3. Meaning(c, a) = Positional(n, 16, LOWER)
      BY <1>9, MeaningOf
    <3> QED
      BY <3>1, <3>2, <3>3
  <2>2. FtFtype(c, a, fd) = <<WriteBuffer(fd, Numeral(n, 16, LOWER), DIGITS)>>
    BY <1>9, TypeOf DEF FtFputHex
  <2>3. 16 \in 2..16 /\ LOWER \in {LOWER, UPPER} /\ UINT = Power(16, DIGITS)
    BY DEF UINT
  <2> HIDE DEF n
  <2> QED
    BY <1>8, <2>1, <2>2, <2>3
<1>10. CASE c = "X"
  <2>1. n \in Nat /\ n < UINT /\ Said(c, a, fd) = For(fd, Positional(n, 16, UPPER))
    <3>1. n \in Nat /\ n < UINT /\ c \notin {"d", "i"}
      BY <1>6, <1>10
    <3>2. Said(c, a, fd) = For(fd, Meaning(c, a))
      BY <3>1, NotSigned
    <3>3. Meaning(c, a) = Positional(n, 16, UPPER)
      BY <1>10, MeaningOf
    <3> QED
      BY <3>1, <3>2, <3>3
  <2>2. FtFtype(c, a, fd) = <<WriteBuffer(fd, Numeral(n, 16, UPPER), DIGITS)>>
    BY <1>10, TypeOf DEF FtFputHexUpper
  <2>3. 16 \in 2..16 /\ UPPER \in {LOWER, UPPER} /\ UINT = Power(16, DIGITS)
    BY DEF UINT
  <2> HIDE DEF n
  <2> QED
    BY <1>8, <2>1, <2>2, <2>3
<1>11. CASE c = "o"
  <2>1. n \in Nat /\ Said(c, a, fd) = For(fd, Positional(n, 8, LOWER))
    <3>1. n \in Nat /\ c \notin {"d", "i"}
      BY <1>6, <1>11
    <3>2. Said(c, a, fd) = For(fd, Meaning(c, a))
      BY <3>1, NotSigned
    <3>3. Meaning(c, a) = Positional(n, 8, LOWER)
      BY <1>11, MeaningOf
    <3> QED
      BY <3>1, <3>2, <3>3
  <2>2. FtFtype(c, a, fd) = <<WriteBuffer(fd, Numeral(n, 8, LOWER), DIGITS)>>
    BY <1>11, TypeOf DEF FtFputOctal
  <2>3. 8 \in 2..16 /\ LOWER \in {LOWER, UPPER}
    OBVIOUS
  <2>4. Power(8, DIGITS) \in Nat
    <3>1. 8 \in Nat /\ DIGITS \in Nat
      BY PrintfAssumption
    <3> QED
      BY <3>1, PowerIs
  <2>5. TooLong(c, a) <=> n >= Power(8, DIGITS)
    BY <1>11 DEF TooLong
  <2> HIDE DEF n
  <2>6. /\ Makes(<<WriteBuffer(fd, Numeral(n, 8, LOWER), DIGITS)>>,
                 For(fd, Positional(n, 8, LOWER)))
        /\ Fit(<<WriteBuffer(fd, Numeral(n, 8, LOWER), DIGITS)>>) <=> n < Power(8, DIGITS)
    BY <1>8, <2>1, <2>3
  <2>7. ~ (n < Power(8, DIGITS)) => n >= Power(8, DIGITS)
    BY <2>1, <2>4
  <2> QED
    BY <2>1, <2>2, <2>5, <2>6, <2>7
<1>12. CASE c = Star
  <2>1. n \in Nat /\ Said(c, a, fd) = For(fd, [i \in 1..n |-> Space])
    <3>1. n \in Nat /\ c \notin {"d", "i"}
      BY <1>6, <1>12
    <3>2. Said(c, a, fd) = For(fd, Meaning(c, a))
      BY <3>1, NotSigned
    <3>3. Meaning(c, a) = [i \in 1..n |-> Space]
      BY <1>12, MeaningOf
    <3> QED
      BY <3>1, <3>2, <3>3
  <2>2. FtFtype(c, a, fd) = Bytewise(fd, [i \in 1..n |-> Space])
    BY <1>12, TypeOf DEF FtFputSpace
  <2> HIDE DEF n
  <2>3. [i \in 1..n |-> Space] \in Seq(Chars)
    BY <2>1, TablesAre
  <2> QED
    BY <2>1, <2>2, <2>3, ByteWrites
<1>13. CASE c = Percent
  <2>1. c \notin {"d", "i"}
    BY <1>13, Special
  <2>2. Said(c, a, fd) = For(fd, Meaning(c, a))
    BY <2>1, NotSigned
  <2>3. Meaning(c, a) = <<Percent>> /\ FtFtype(c, a, fd) = FtFputchar(Percent, fd)
    BY <1>13, MeaningOf, TypeOf
  <2> QED
    BY <2>2, <2>3, TablesAre, CharWrite
<1> QED
  BY <1>1, <1>2, <1>3, <1>4, <1>5, <1>7, <1>9, <1>10, <1>11, <1>12, <1>13 DEF Conversions

-----------------------------------------------------------------------------
(* Reading a format. *)

Sight == [letter : BOOLEAN, arg : Nat \ {0}]

(* What a character adds to what is known in front of it. *)
Beyond(call, n, b) ==
  IF ~ b.letter
  THEN [letter |-> call.fmt[n] = Percent, arg |-> b.arg]
  ELSE [letter |-> FALSE, arg |-> b.arg + IF call.fmt[n] = Percent THEN 0 ELSE 1]

(* What is known behind a character follows from what is known in front of *)
(* it.                                                                     *)
LEMMA BehindAre ==
  ASSUME NEW call
  PROVE  /\ Behind(call)[0] = [letter |-> FALSE, arg |-> 1]
         /\ \A n \in Nat : /\ Behind(call)[n] \in Sight
                           /\ Behind(call)[n + 1] = Beyond(call, n + 1, Behind(call)[n])
<1> DEFINE g == [p \in Nat \X Sight |-> Beyond(call, p[1], p[2])]
           start == [letter |-> FALSE, arg |-> 1]
<1>1. ASSUME NEW n \in Nat, NEW b \in Sight PROVE Beyond(call, n, b) \in Sight
  <2>1. b.letter \in BOOLEAN /\ b.arg \in Nat \ {0} /\ b.arg + 0 \in Nat \ {0}
        /\ b.arg + 1 \in Nat \ {0}
    BY DEF Sight
  <2>2. (call.fmt[n] = Percent) \in BOOLEAN /\ FALSE \in BOOLEAN
    OBVIOUS
  <2>3. \A l \in BOOLEAN, m \in Nat \ {0} : [letter |-> l, arg |-> m] \in Sight
    BY DEF Sight
  <2> QED
    BY <2>1, <2>2, <2>3 DEF Beyond
<1>2. start \in Sight
  BY DEF Sight
<1>3. /\ g \in [Nat \X Sight -> Sight]
      /\ \A n \in Nat, b \in Sight : g[<<n, b>>] = Beyond(call, n, b)
  BY <1>1
<1> HIDE DEF g, start
<1>4. PICK f \in [Nat -> Sight] : Follows(f, Nat, start, g)
  BY <1>2, <1>3, AllNumbers, Recursion, Zenon
<1>5. \A n \in Nat : f[n] = IF n = 0 THEN start ELSE Beyond(call, n, f[n - 1])
  <2>1. ASSUME NEW n \in Nat, n # 0 PROVE g[<<n, f[n - 1]>>] = Beyond(call, n, f[n - 1])
    BY <1>3, <2>1
  <2> QED
    BY <1>4, <2>1 DEF Follows
<1>6. f = [n \in Nat |-> IF n = 0 THEN start ELSE Beyond(call, n, f[n - 1])]
  BY <1>5
<1> DEFINE h == Behind(call)
<1>7. h = [n \in Nat |-> IF n = 0 THEN start ELSE Beyond(call, n, h[n - 1])]
  <2>1. h = CHOOSE e : e = [n \in Nat |-> IF n = 0 THEN start ELSE Beyond(call, n, e[n - 1])]
    BY DEF Behind, Beyond, start
  <2> HIDE DEF h
  <2> QED
    BY <1>6, <2>1
<1> HIDE DEF h
<1>8. h = f
  <2>1. h = [n \in Nat |-> h[n]]
    BY <1>7
  <2>2. \A n \in Nat : h[n] = IF n = 0 THEN start ELSE Beyond(call, n, h[n - 1])
    BY <1>7
  <2>3. f = [n \in Nat |-> f[n]]
    OBVIOUS
  <2>4. \A n \in Nat : (n # 0 => h[n - 1] = f[n - 1]) => h[n] = f[n]
    BY <1>5, <2>2
  <2>5. Tracks(h, f, Nat)
    BY <2>1, <2>3, <2>4 DEF Tracks
  <2> QED
    BY <2>5, AllNumbers, SameFunction
<1>9. h[0] = start
  BY <1>5, <1>8
<1>10. ASSUME NEW n \in Nat PROVE h[n] \in Sight /\ h[n + 1] = Beyond(call, n + 1, h[n])
  <2>1. n + 1 \in Nat /\ n + 1 # 0 /\ (n + 1) - 1 = n
    OBVIOUS
  <2> QED
    BY <1>5, <1>8, <2>1
<1> QED
  BY <1>9, <1>10 DEF h, start

-----------------------------------------------------------------------------
(* The call has come to the n-th character, the a-th argument is next.     *)
Place(call, n, a) ==
  /\ n \in 1..(Len(call.fmt) + 1) /\ a \in Nat \ {0}
  /\ Behind(call)[n - 1] = [letter |-> FALSE, arg |-> a]
  /\ Reaches(call, n)

LEMMA PlaceAtStart ==
  ASSUME NEW call, call.fmt \in Seq(STRING)
  PROVE  Place(call, 1, 1)
<1>1. Len(call.fmt) \in Nat
  OBVIOUS
<1>2. 1 - 1 = 0 /\ 1 \in 1..(Len(call.fmt) + 1) /\ 1 \in Nat \ {0}
  BY <1>1
<1>3. Reaches(call, 1)
  BY DEF Reaches
<1> QED
  BY <1>2, <1>3, BehindAre DEF Place

(* A character that is no conversion. *)
LEMMA PlaceBehindPlain ==
  ASSUME NEW call, call.fmt \in Seq(STRING), NEW n, NEW a, Place(call, n, a),
         n <= Len(call.fmt), call.fmt[n] # Percent
  PROVE  Place(call, n + 1, a) /\ ~ IsLetter(call, n)
<1>1. /\ n \in Nat /\ n - 1 \in Nat /\ (n - 1) + 1 = n /\ (n + 1) - 1 = n
      /\ n + 1 \in 1..(Len(call.fmt) + 1) /\ Len(call.fmt) \in Nat /\ a \in Nat \ {0}
  BY DEF Place
<1>2. Behind(call)[n - 1] = [letter |-> FALSE, arg |-> a] /\ Reaches(call, n)
  BY DEF Place
<1>3. ~ IsLetter(call, n)
  BY <1>2 DEF IsLetter
<1>4. Behind(call)[n] = Beyond(call, n, Behind(call)[n - 1])
  BY <1>1, BehindAre
<1>5. Beyond(call, n, [letter |-> FALSE, arg |-> a]) = [letter |-> FALSE, arg |-> a]
  BY DEF Beyond
<1>6. Reaches(call, n + 1)
  <2> SUFFICES ASSUME NEW m \in 1..((n + 1) - 1), IsLetter(call, m)
               PROVE  call.fmt[m] \in Conversions
    BY DEF Reaches
  <2>1. m # n /\ m \in 1..n
    BY <1>1, <1>3
  <2>2. m \in 1..(n - 1)
    BY <1>1, <2>1
  <2> QED
    BY <1>2, <2>2 DEF Reaches
<1> QED
  BY <1>1, <1>2, <1>3, <1>4, <1>5, <1>6 DEF Place

(* A '%' and the letter behind it. *)
LEMMA PlaceBehindConversion ==
  ASSUME NEW call, call.fmt \in Seq(STRING), NEW n, NEW a, Place(call, n, a),
         n < Len(call.fmt), call.fmt[n] = Percent, call.fmt[n + 1] \in Conversions
  PROVE  /\ Place(call, n + 2, IF call.fmt[n + 1] = Percent THEN a ELSE a + 1)
         /\ ~ IsLetter(call, n) /\ IsLetter(call, n + 1)
         /\ ArgumentOf(call, n + 1) = call.args[a]
         /\ Reaches(call, n + 1)
<1>1. /\ n \in Nat /\ n - 1 \in Nat /\ (n - 1) + 1 = n /\ (n + 1) - 1 = n
      /\ (n + 2) - 1 = n + 1 /\ n + 1 \in Nat
      /\ n + 2 \in 1..(Len(call.fmt) + 1) /\ Len(call.fmt) \in Nat
      /\ a \in Nat \ {0} /\ a + 0 = a /\ a + 1 \in Nat \ {0}
  BY SMTT(30) DEF Place
<1>2. Behind(call)[n - 1] = [letter |-> FALSE, arg |-> a] /\ Reaches(call, n)
  BY DEF Place
<1>3. ~ IsLetter(call, n)
  BY <1>2 DEF IsLetter
<1>4. Behind(call)[n] = [letter |-> TRUE, arg |-> a]
  <2>1. Behind(call)[n] = Beyond(call, n, Behind(call)[n - 1])
    BY <1>1, BehindAre
  <2>2. Beyond(call, n, [letter |-> FALSE, arg |-> a]) = [letter |-> TRUE, arg |-> a]
    BY DEF Beyond
  <2> QED
    BY <1>2, <2>1, <2>2
<1>5. IsLetter(call, n + 1) /\ ArgumentOf(call, n + 1) = call.args[a]
  BY <1>1, <1>4 DEF IsLetter, ArgumentOf
<1> DEFINE b == IF call.fmt[n + 1] = Percent THEN a ELSE a + 1
<1>6. Behind(call)[n + 1] = [letter |-> FALSE, arg |-> b] /\ b \in Nat \ {0}
  <2>1. Behind(call)[n + 1] = Beyond(call, n + 1, [letter |-> TRUE, arg |-> a])
    BY <1>1, <1>4, BehindAre
  <2>2. Beyond(call, n + 1, [letter |-> TRUE, arg |-> a]) =
          [letter |-> FALSE, arg |-> a + IF call.fmt[n + 1] = Percent THEN 0 ELSE 1]
    BY DEF Beyond
  <2>3. a + (IF call.fmt[n + 1] = Percent THEN 0 ELSE 1) = b
    BY <1>1
  <2> QED
    BY <1>1, <2>1, <2>2, <2>3
<1> HIDE DEF b
<1>7. Reaches(call, n + 1)
  <2> SUFFICES ASSUME NEW m \in 1..((n + 1) - 1), IsLetter(call, m)
               PROVE  call.fmt[m] \in Conversions
    BY DEF Reaches
  <2>1. m # n /\ m \in 1..n
    BY <1>1, <1>3
  <2>2. m \in 1..(n - 1)
    BY <1>1, <2>1
  <2> QED
    BY <1>2, <2>2 DEF Reaches
<1>8. Reaches(call, n + 2)
  <2> SUFFICES ASSUME NEW m \in 1..((n + 2) - 1), IsLetter(call, m)
               PROVE  call.fmt[m] \in Conversions
    BY DEF Reaches
  <2>1. m = n + 1 \/ m \in 1..((n + 1) - 1)
    BY <1>1
  <2> QED
    BY <1>7, <2>1 DEF Reaches
<1> QED
  BY <1>1, <1>3, <1>5, <1>6, <1>7, <1>8 DEF Place, b

-----------------------------------------------------------------------------
(* A session of calls. *)

(* ft_printf is ft_fprintf on standard output. *)
LEMMA OnStdout ==
  ASSUME NEW c, NEW a
  PROVE  FtType(c, a) = FtFtype(c, a, STDOUT) /\ FtPutchar(a) = FtFputchar(a, STDOUT)
BY DEF FtType, FtFtype, FtPutchar, FtPutstr, FtPutSpace, FtPutnbr, FtPutnbrUn, FtPutHex,
       FtPutHexUpper, FtPutOctal, FtPutaddress, FtPutaddressUpper

LEMMA CallIs ==
  ASSUME NEW session, session \in DOMAIN Sessions, NEW n \in 1..Len(Sessions[session])
  PROVE  /\ Len(Sessions[session]) \in Nat
         /\ CallOK(Sessions[session][n])
         /\ Sessions[session][n].fmt \in Seq(STRING)
         /\ Sessions[session][n].fd \in {1, 2}
<1> DEFINE q == Sessions[session]
<1>1. q \in Seq(Range(q)) /\ \A i \in DOMAIN q : CallOK(q[i])
  BY PrintfAssumption
<1> HIDE DEF q
<1>2. Len(q) \in Nat /\ DOMAIN q = 1..Len(q)
  BY <1>1
<1>3. n \in DOMAIN q
  BY <1>2 DEF q
<1>4. CallOK(q[n])
  BY <1>1, <1>3
<1>5. q[n].fmt \in Seq(STRING) /\ q[n].fd \in {1, 2}
  BY <1>4 DEF CallOK
<1> QED
  BY <1>2, <1>4, <1>5 DEF q

-----------------------------------------------------------------------------
(* The types the steps keep. *)
Typed ==
  /\ s \in DOMAIN Sessions /\ closed \subseteq {1, 2}
  /\ Len(Calls) \in Nat /\ k \in 1..(Len(Calls) + 1)
  /\ pc \in {"call", "scan", "write", "undefined"}
  /\ pc # "call" => k <= Len(Calls)
  /\ pos \in Nat /\ arg \in Nat
  /\ runs \in Seq(OneOf) /\ Fit(runs)
  /\ flag \in Int /\ cnt2 \in Int
  /\ failures \in 0..MaxFailures
  /\ results \in Seq(Int) /\ Len(results) = k - 1
  /\ sent \in Seq(Seq(Items)) /\ Len(sent) = IF pc = "call" THEN k - 1 ELSE k

(* The format has been read up to a place between two conversions. *)
Placed == pc # "call" => Place(Call, pos, arg)

(* Nothing is left to write outside of a conversion. *)
Idle == pc # "write" => runs = <<>>

ScanInv == Typed /\ Placed /\ Idle /\ BuffersHold

LEMMA InitScan == Init => ScanInv
<1> SUFFICES ASSUME Init PROVE ScanInv
  OBVIOUS
<1>1. /\ s \in DOMAIN Sessions /\ closed \in SUBSET {1, 2} /\ k = 1 /\ pc = "call"
      /\ pos = 1 /\ arg = 1 /\ runs = <<>> /\ flag = 0 /\ cnt2 = 0 /\ failures = 0
      /\ sent = <<>> /\ results = <<>>
  BY DEF Init
<1>2. Len(Calls) \in Nat
  <2>1. Calls \in Seq(Range(Calls))
    BY <1>1, PrintfAssumption DEF Calls
  <2> QED
    BY <2>1
<1>3. k \in 1..(Len(Calls) + 1) /\ failures \in 0..MaxFailures
  BY <1>1, <1>2, PrintfAssumption
<1>4. runs \in Seq(OneOf) /\ Fit(runs)
  BY <1>1, NoWrites
<1>5. /\ results \in Seq(Int) /\ Len(results) = k - 1
      /\ sent \in Seq(Seq(Items)) /\ Len(sent) = k - 1
  BY <1>1
<1>6. Typed
  BY <1>1, <1>2, <1>3, <1>4, <1>5 DEF Typed
<1> QED
  BY <1>1, <1>6 DEF ScanInv, Placed, Idle, BuffersHold

(* The current call. *)
LEMMA AtCall ==
  ASSUME Typed, k <= Len(Calls)
  PROVE  /\ k \in 1..Len(Calls) /\ k \in Nat /\ Len(Calls) \in Nat
         /\ CallOK(Call) /\ Call.fmt \in Seq(STRING) /\ Call.fd \in {1, 2}
         /\ Len(Call.fmt) \in Nat
<1>1. s \in DOMAIN Sessions /\ k \in 1..Len(Calls) /\ k \in Nat
  BY DEF Typed
<1>2. CallOK(Call) /\ Call.fmt \in Seq(STRING) /\ Call.fd \in {1, 2} /\ Len(Calls) \in Nat
  BY <1>1, CallIs DEF Call, Calls
<1> QED
  BY <1>1, <1>2

(* Characters on their way to standard output or to a call's descriptor.   *)
Aimed(fd) == {i \in Items : i.fd \in {STDOUT, fd}}

LEMMA ForAimed ==
  ASSUME NEW fd \in {1, 2}, NEW x \in {STDOUT, fd}, NEW text \in Seq(Chars)
  PROVE  For(x, text) \in Seq(Aimed(fd))
<1>1. x \in {1, 2}
  BY DEF STDOUT
<1>2. /\ For(x, text) \in Seq(Items) /\ Len(For(x, text)) = Len(text) /\ Len(text) \in Nat
      /\ \A i \in 1..Len(text) : For(x, text)[i] = [fd |-> x, char |-> text[i]]
  BY <1>1, ForIs
<1> DEFINE f == For(x, text)
<1> HIDE DEF f
<1>3. f \in Seq(Items) /\ \A i \in 1..Len(f) : f[i].fd = x /\ f[i] \in Items
  <2>1. \A i \in 1..Len(f) : f[i] = [fd |-> x, char |-> text[i]]
    BY <1>2 DEF f
  <2>2. f \in Seq(Items)
    BY <1>2 DEF f
  <2>3. ASSUME NEW i \in 1..Len(f) PROVE f[i].fd = x /\ f[i] \in Items
    <3>1. f[i] = [fd |-> x, char |-> text[i]]
      BY <2>1
    <3>2. f[i] \in Items
      BY <2>2
    <3> QED
      BY <3>1, <3>2
  <2> QED
    BY <2>2, <2>3
<1>4. \A i \in 1..Len(f) : f[i] \in Aimed(fd)
  BY <1>3 DEF Aimed
<1>5. f \in Seq(Aimed(fd))
  BY <1>3, <1>4
<1> QED
  BY <1>5 DEF f

LEMMA SaidAimed ==
  ASSUME NEW fd \in {1, 2}, NEW c \in Conversions, NEW a, c # Percent => Suits(c, a)
  PROVE  Said(c, a, fd) \in Seq(Aimed(fd))
<1>1. CASE c \in {"d", "i"} /\ a < 0
  <2>1. a \in Int
    BY <1>1, Special, SuitsIs
  <2>2. Meaning(c, a) = Positional(-a, 10, LOWER) /\ -a \in Nat
    BY <1>1, <2>1, MeaningOf
  <2>3. Meaning(c, a) \in Seq(Chars)
    <3>1. 10 \in 2..16
      OBVIOUS
    <3> QED
      BY <2>2, <3>1, PositionalText DEF Texts
  <2>4. <<Minus>> \in Seq(Chars)
    <3>1. Minus \in Chars
      BY DEF Chars
    <3> QED
      BY <3>1, OneElement
  <2>5. /\ For(STDOUT, <<Minus>>) \in Seq(Aimed(fd))
        /\ For(fd, Meaning(c, a)) \in Seq(Aimed(fd))
    BY <2>3, <2>4, ForAimed
  <2> QED
    BY <1>1, <2>5 DEF Said
<1>2. CASE ~ (c \in {"d", "i"} /\ a < 0)
  <2> DEFINE text == Meaning(c, a)
             f    == For(fd, text)
  <2>1. Said(c, a, fd) = f
    BY <1>2 DEF Said
  <2>2. f \in Seq(Items)
    <3>1. Said(c, a, fd) \in Seq(Items)
      BY ConversionMakes, WroteFirst DEF Makes
    <3> QED
      BY <2>1, <3>1
  <2>3. \A i \in DOMAIN f : f[i].fd = fd
    BY DEF For
  <2> HIDE DEF f
  <2>4. \A i \in 1..Len(f) : f[i] \in Aimed(fd)
    <3>1. DOMAIN f = 1..Len(f) /\ \A i \in 1..Len(f) : f[i] \in Items
      BY <2>2
    <3> QED
      BY <2>3, <3>1 DEF Aimed
  <2> QED
    BY <2>1, <2>2, <2>4
<1> QED
  BY <1>1, <1>2

(* What a known conversion writes. *)
LEMMA KnownWrites ==
  ASSUME Typed, Placed, Known
  PROVE  LET c == Call.fmt[pos + 1]
             a == Call.args[arg]
         IN  /\ pc = "scan" /\ k <= Len(Calls) /\ pos < Len(Call.fmt) /\ pos \in Nat
             /\ Call.fmt[pos] = Percent /\ c \in Conversions
             /\ Place(Call, pos + 2, IF c = Percent THEN arg ELSE arg + 1)
             /\ ~ IsLetter(Call, pos) /\ IsLetter(Call, pos + 1)
             /\ ArgumentOf(Call, pos + 1) = a
             /\ Makes(Writes, Said(c, a, Call.fd))
             /\ Said(c, a, Call.fd) \in Seq(Aimed(Call.fd))
             /\ ~ Fit(Writes) => TooLong(c, a)
             /\ Overruns <=> ~ Fit(Writes)
<1> DEFINE c == Call.fmt[pos + 1]
           a == Call.args[arg]
<1>1. /\ pc = "scan" /\ k <= Len(Calls) /\ pos < Len(Call.fmt) /\ Call.fmt[pos] = Percent
      /\ c \in Conversions /\ Place(Call, pos, arg) /\ pos \in Nat
  BY DEF Typed, Placed, Known, Scanning
<1>2. CallOK(Call) /\ Call.fmt \in Seq(STRING) /\ Call.fd \in {1, 2} /\ Len(Call.fmt) \in Nat
  BY <1>1, AtCall
<1>3. /\ Place(Call, pos + 2, IF c = Percent THEN arg ELSE arg + 1)
      /\ ~ IsLetter(Call, pos) /\ IsLetter(Call, pos + 1)
      /\ ArgumentOf(Call, pos + 1) = a
      /\ Reaches(Call, pos + 1)
  BY <1>1, <1>2, PlaceBehindConversion
<1>4. c # Percent => Suits(c, a)
  <2>1. pos + 1 \in 1..Len(Call.fmt)
    BY <1>1, <1>2
  <2>2. c # Percent => c \in Conversions \ {Percent}
    BY <1>1
  <2> QED
    BY <1>2, <1>3, <2>1, <2>2 DEF CallOK
<1>5. Writes = FtFtype(c, a, Call.fd)
  <2>1. Call.fn = "ft_printf" => Call.fd = STDOUT
    BY <1>2 DEF CallOK
  <2> QED
    BY <2>1, OnStdout DEF Writes
<1> HIDE DEF c, a
<1>6. Makes(Writes, Said(c, a, Call.fd)) /\ (~ Fit(Writes) => TooLong(c, a))
  BY <1>1, <1>2, <1>4, <1>5, ConversionMakes
<1>7. Said(c, a, Call.fd) \in Seq(Aimed(Call.fd))
  BY <1>1, <1>2, <1>4, SaidAimed
<1>8. Overruns <=> ~ Fit(Writes)
  <2>1. Writes \in Seq(OneOf)
    BY <1>6 DEF Makes
  <2>2. DOMAIN Writes = 1..Len(Writes)
    BY <2>1
  <2> QED
    BY <2>2 DEF Overruns, Fit
<1> QED
  BY <1>1, <1>3, <1>6, <1>7, <1>8 DEF c, a

(* Every return of a call. *)
LEMMA Returned ==
  ASSUME Typed, k <= Len(Calls), NEW n \in Int, Return(n),
         UNCHANGED <<s, closed, pos, arg, runs, failures>>,
         flag' \in Int, cnt2' \in Int, runs = <<>>,
         sent' \in Seq(Seq(Items)), Len(sent') = k
  PROVE  ScanInv'
<1>1. results' = Append(results, n) /\ k' = k + 1 /\ pc' = "call"
  BY DEF Return
<1>2. /\ s' \in DOMAIN Sessions /\ closed' \subseteq {1, 2} /\ Calls' = Calls
      /\ Len(Calls) \in Nat /\ k \in 1..Len(Calls) /\ k \in Nat
      /\ pos' \in Nat /\ arg' \in Nat /\ runs' \in Seq(OneOf) /\ Fit(runs')
      /\ failures' \in 0..MaxFailures
      /\ results \in Seq(Int) /\ Len(results) = k - 1
  BY DEF Typed, Calls
<1>3. results' \in Seq(Int) /\ Len(results') = k
  BY <1>1, <1>2, Appending
<1>4. k' \in 1..(Len(Calls) + 1) /\ k' - 1 = k
  BY <1>1, <1>2
<1>5. Typed'
  BY <1>1, <1>2, <1>3, <1>4 DEF Typed
<1>6. Placed' /\ Idle' /\ BuffersHold'
  BY <1>1 DEF Placed, Idle, BuffersHold
<1> QED
  BY <1>5, <1>6 DEF ScanInv

(* The first n characters of a write. *)
Part(w, n) == [i \in 1..n |-> [fd |-> w.fd, char |-> w.text[i]]]

LEMMA PartIs ==
  ASSUME NEW w \in OneOf, NEW n \in 0..Len(w.text)
  PROVE  /\ Part(w, n) \in Seq(Items) /\ Len(Part(w, n)) = n /\ n \in Nat
         /\ Part(w, Len(w.text)) = For(w.fd, w.text)
         /\ Len(w.text) \in Nat \ {0} /\ w.text \in Seq(Chars) /\ w.fd \in {1, 2}
<1>1. w.fd \in {1, 2} /\ w.text \in Seq(Chars) /\ w.text # <<>>
  BY DEF OneOf, Texts
<1>2. /\ Len(w.text) \in Nat \ {0} /\ DOMAIN w.text = 1..Len(w.text)
      /\ \A i \in 1..Len(w.text) : w.text[i] \in Chars
  BY <1>1
<1>3. n \in Nat /\ \A i \in 1..n : i \in 1..Len(w.text)
  BY <1>2
<1>4. \A i \in 1..n : [fd |-> w.fd, char |-> w.text[i]] \in Items
  BY <1>1, <1>2, <1>3 DEF Items
<1> DEFINE p == [i \in 1..n |-> [fd |-> w.fd, char |-> w.text[i]]]
<1>5. p \in [1..n -> Items]
  BY <1>4
<1> HIDE DEF p
<1>6. p \in Seq(Items) /\ Len(p) = n
  BY <1>3, <1>5
<1>7. Part(w, Len(w.text)) = For(w.fd, w.text)
  BY <1>2 DEF Part, For
<1> QED
  BY <1>1, <1>2, <1>3, <1>6, <1>7 DEF Part, p

(* A write that takes n characters. *)
LEMMA Taken ==
  ASSUME Typed, k <= Len(Calls), Writing, NEW n \in 0..Len(Head(runs).text), Take(n)
  PROVE  /\ Head(runs) \in OneOf /\ Tail(runs) \in Seq(OneOf) /\ Fit(Tail(runs))
         /\ Len(Head(runs).text) \in Nat \ {0} /\ Head(runs).fits
         /\ runs' = Tail(runs) /\ flag' = flag + n /\ n \in Nat
         /\ sent' \in Seq(Seq(Items)) /\ Len(sent') = k /\ k \in 1..Len(sent)
         /\ sent[k] \in Seq(Items) /\ sent'[k] = sent[k] \o Part(Head(runs), n)
         /\ \A m \in 1..(k - 1) : sent'[m] = sent[m]
<1>1. /\ runs \in Seq(OneOf) /\ Fit(runs) /\ runs # <<>> /\ pc = "write"
      /\ sent \in Seq(Seq(Items)) /\ Len(sent) = k /\ k \in 1..Len(sent) /\ k \in Nat
  BY AtCall DEF Typed, Writing
<1>2. Head(runs) \in OneOf /\ Tail(runs) \in Seq(OneOf) /\ Fit(Tail(runs)) /\ Head(runs).fits
  <2>1. /\ Head(runs) \in OneOf /\ Tail(runs) \in Seq(OneOf)
        /\ Len(Tail(runs)) = Len(runs) - 1
        /\ Len(runs) \in Nat /\ Head(runs) = runs[1] /\ 1 \in 1..Len(runs)
        /\ \A i \in 1..(Len(runs) - 1) : Tail(runs)[i] = runs[i + 1]
    BY <1>1
  <2>2. \A i \in 1..(Len(runs) - 1) : i + 1 \in 1..Len(runs)
    BY <2>1
  <2> QED
    BY <1>1, <2>1, <2>2 DEF Fit
<1> DEFINE p == Part(Head(runs), n)
<1>3. p \in Seq(Items) /\ Len(Head(runs).text) \in Nat \ {0} /\ n \in Nat
  BY <1>2, PartIs
<1>4. /\ sent' = [sent EXCEPT ![k] = sent[k] \o p] /\ flag' = flag + n /\ runs' = Tail(runs)
  BY DEF Take, Part
<1> HIDE DEF p
<1>5. sent[k] \in Seq(Items) /\ sent[k] \o p \in Seq(Items)
  BY <1>1, <1>3
<1>6. /\ sent' \in Seq(Seq(Items)) /\ Len(sent') = k
      /\ sent'[k] = sent[k] \o p /\ \A m \in 1..(k - 1) : sent'[m] = sent[m]
  BY <1>1, <1>4, <1>5
<1> QED
  BY <1>1, <1>2, <1>3, <1>4, <1>5, <1>6 DEF p

(* Every step keeps it. *)
LEMMA NextScan == ScanInv /\ [Next]_vars => ScanInv'
<1> SUFFICES ASSUME ScanInv, [Next]_vars PROVE ScanInv'
  OBVIOUS
<1>1. Typed /\ Placed /\ Idle /\ BuffersHold
  BY DEF ScanInv
<1>2. /\ s \in DOMAIN Sessions /\ closed \subseteq {1, 2}
      /\ Len(Calls) \in Nat /\ k \in 1..(Len(Calls) + 1) /\ k \in Nat
      /\ pc # "call" => k <= Len(Calls)
      /\ pos \in Nat /\ arg \in Nat
      /\ runs \in Seq(OneOf) /\ Fit(runs) /\ (pc # "write" => runs = <<>>)
      /\ flag \in Int /\ cnt2 \in Int /\ failures \in 0..MaxFailures
      /\ results \in Seq(Int) /\ Len(results) = k - 1
      /\ sent \in Seq(Seq(Items)) /\ Len(sent) = IF pc = "call" THEN k - 1 ELSE k
  BY <1>1 DEF Typed, Idle
<1>3. k <= Len(Calls) => /\ Call.fmt \in Seq(STRING) /\ Call.fd \in {1, 2} /\ CallOK(Call)
                         /\ Len(Call.fmt) \in Nat
  BY <1>1, AtCall
<1>4. Append(sent, <<>>) \in Seq(Seq(Items)) /\ Len(Append(sent, <<>>)) = Len(sent) + 1
  <2>1. <<>> \in Seq(Items)
    OBVIOUS
  <2> QED
    BY <1>2, <2>1, Appending
<1>5. CASE Refuse
  <2>1. /\ pc = "call" /\ k <= Len(Calls) /\ sent' = Append(sent, <<>>) /\ Return(-1)
        /\ UNCHANGED <<s, closed, pos, arg, runs, flag, cnt2, failures>>
    BY <1>5 DEF Refuse
  <2>2. -1 \in Int /\ runs = <<>> /\ Len(sent') = k /\ sent' \in Seq(Seq(Items))
        /\ flag' \in Int /\ cnt2' \in Int
    BY <1>2, <1>4, <2>1
  <2> QED
    BY <1>1, <2>1, <2>2, Returned
<1>6. CASE Enter
  <2>1. /\ pc = "call" /\ k <= Len(Calls) /\ sent' = Append(sent, <<>>)
        /\ pos' = 1 /\ arg' = 1 /\ flag' = 0 /\ cnt2' = 0 /\ pc' = "scan"
        /\ UNCHANGED <<s, closed, k, runs, failures, results>>
    BY <1>6 DEF Enter
  <2>2. Calls' = Calls /\ Call' = Call
    BY <2>1 DEF Calls, Call
  <2>3. Len(sent') = k /\ sent' \in Seq(Seq(Items))
    BY <1>2, <1>4, <2>1
  <2>4. Typed'
    BY <1>2, <2>1, <2>2, <2>3 DEF Typed
  <2>5. Placed'
    <3>1. Place(Call, 1, 1)
      BY <1>3, <2>1, PlaceAtStart
    <3> QED
      BY <2>1, <2>2, <3>1 DEF Placed
  <2>6. Idle' /\ BuffersHold'
    BY <1>2, <2>1 DEF Idle, BuffersHold
  <2> QED
    BY <2>4, <2>5, <2>6 DEF ScanInv
<1>7. CASE PlainChar
  <2>1. /\ pc = "scan" /\ pos <= Len(Call.fmt) /\ Call.fmt[pos] # Percent
        /\ flag' = 0 /\ pos' = pos + 1 /\ pc' = "write"
        /\ UNCHANGED <<s, closed, k, arg, cnt2, failures, sent, results>>
    BY <1>7 DEF PlainChar, Scanning, More
  <2>2. Calls' = Calls /\ Call' = Call
    BY <2>1 DEF Calls, Call
  <2>3. runs' = FtFputchar(Call.fmt[pos], Call.fd)
    <3>1. Call.fn = "ft_printf" => Call.fd = STDOUT
      BY <1>2, <1>3, <2>1 DEF CallOK
    <3> QED
      BY <1>7, <3>1, OnStdout DEF PlainChar
  <2>4. Place(Call, pos, arg) /\ k <= Len(Calls)
    BY <1>1, <1>2, <2>1 DEF Placed
  <2>5. Place(Call, pos + 1, arg)
    BY <1>3, <2>1, <2>4, PlaceBehindPlain
  <2>6. runs' \in Seq(OneOf) /\ Fit(runs')
    <3>1. Call.fmt[pos] \in Chars
      <4>1. pos \in 1..Len(Call.fmt)
        BY <1>2, <1>3, <2>1, <2>4 DEF Place
      <4>2. Call.fmt \in Seq(STRING)
        BY <1>3, <2>4
      <4>3. Call.fmt[pos] \in STRING
        BY <4>1, <4>2
      <4> QED
        BY <4>3, TablesAre
    <3> QED
      BY <1>3, <2>3, <2>4, <3>1, CharWrite DEF Makes
  <2>7. Typed'
    <3>1. pos' \in Nat /\ flag' \in Int
      BY <1>2, <2>1
    <3> QED
      BY <1>2, <2>1, <2>2, <2>6, <3>1 DEF Typed
  <2>8. Placed' /\ Idle' /\ BuffersHold'
    BY <2>1, <2>2, <2>5 DEF Placed, Idle, BuffersHold
  <2> QED
    BY <2>7, <2>8 DEF ScanInv
<1>8. CASE Convert
  <2>1. /\ Known /\ ~ Overruns /\ flag' = 0 /\ runs' = Writes
        /\ arg' = (IF Call.fmt[pos + 1] = Percent THEN arg ELSE arg + 1)
        /\ pos' = pos + 2 /\ pc' = "write"
        /\ UNCHANGED <<s, closed, k, cnt2, failures, sent, results>>
    BY <1>8 DEF Convert
  <2>2. Calls' = Calls /\ Call' = Call
    BY <2>1 DEF Calls, Call
  <2>3. /\ pc = "scan" /\ k <= Len(Calls)
        /\ Place(Call, pos + 2, IF Call.fmt[pos + 1] = Percent THEN arg ELSE arg + 1)
        /\ Writes \in Seq(OneOf) /\ Fit(Writes)
    BY <1>1, <2>1, KnownWrites DEF Makes
  <2>4. Typed'
    <3>1. pos' \in Nat /\ flag' \in Int /\ arg' \in Nat
      BY <1>2, <2>1
    <3> QED
      BY <1>2, <2>1, <2>2, <2>3, <3>1 DEF Typed
  <2>5. Placed' /\ Idle' /\ BuffersHold'
    BY <2>1, <2>2, <2>3 DEF Placed, Idle, BuffersHold
  <2> QED
    BY <2>4, <2>5 DEF ScanInv
<1>9. CASE Overrun
  <2>1. /\ Known /\ Overruns /\ pc' = "undefined"
        /\ UNCHANGED <<s, closed, k, pos, arg, runs, flag, cnt2, failures, sent, results>>
    BY <1>9 DEF Overrun
  <2>2. Calls' = Calls /\ Call' = Call
    BY <2>1 DEF Calls, Call
  <2>3. pc = "scan" /\ k <= Len(Calls) /\ TooLong(Call.fmt[pos + 1], Call.args[arg])
    BY <1>1, <2>1, KnownWrites
  <2>4. Typed'
    BY <1>2, <2>1, <2>2, <2>3 DEF Typed
  <2>5. Placed' /\ Idle'
    BY <1>1, <1>2, <2>1, <2>2, <2>3 DEF Placed, Idle
  <2>6. BuffersHold'
    BY <2>1, <2>2, <2>3 DEF BuffersHold, TooLong
  <2> QED
    BY <2>4, <2>5, <2>6 DEF ScanInv
<1>10. CASE Unknown
  <2>1. /\ pc = "scan" /\ Return(-1)
        /\ UNCHANGED <<s, closed, pos, arg, runs, flag, cnt2, failures, sent>>
    BY <1>10 DEF Unknown, Scanning
  <2>2. -1 \in Int /\ runs = <<>> /\ Len(sent') = k /\ sent' \in Seq(Seq(Items))
        /\ flag' \in Int /\ cnt2' \in Int /\ k <= Len(Calls)
    BY <1>2, <2>1
  <2> QED
    BY <1>1, <2>1, <2>2, Returned
<1>11. CASE EndOfFormat
  <2>1. /\ pc = "scan" /\ Return(cnt2)
        /\ UNCHANGED <<s, closed, pos, arg, runs, flag, cnt2, failures, sent>>
    BY <1>11 DEF EndOfFormat
  <2>2. cnt2 \in Int /\ runs = <<>> /\ Len(sent') = k /\ sent' \in Seq(Seq(Items))
        /\ flag' \in Int /\ cnt2' \in Int /\ k <= Len(Calls)
    BY <1>2, <2>1
  <2> QED
    BY <1>1, <2>1, <2>2, Returned
<1>12. ASSUME Writing, NEW n \in 0..Len(Head(runs).text), Take(n),
              failures' \in 0..MaxFailures,
              UNCHANGED <<s, closed, k, pc, pos, arg, cnt2, results>>
       PROVE  ScanInv'
  <2>1. pc = "write" /\ k <= Len(Calls)
    BY <1>2, <1>12 DEF Writing
  <2>2. /\ runs' \in Seq(OneOf) /\ Fit(runs') /\ flag' \in Int
        /\ sent' \in Seq(Seq(Items)) /\ Len(sent') = k
    <3>1. /\ Tail(runs) \in Seq(OneOf) /\ Fit(Tail(runs)) /\ runs' = Tail(runs)
          /\ flag' = flag + n /\ n \in Nat
          /\ sent' \in Seq(Seq(Items)) /\ Len(sent') = k
      BY <1>1, <1>12, <2>1, Taken
    <3> QED
      BY <1>2, <3>1
  <2>3. Calls' = Calls /\ Call' = Call
    BY <1>12 DEF Calls, Call
  <2>4. Typed'
    BY <1>2, <1>12, <2>1, <2>2, <2>3 DEF Typed
  <2>5. Placed' /\ Idle' /\ BuffersHold'
    BY <1>1, <1>12, <2>1, <2>3 DEF Placed, Idle, BuffersHold
  <2> QED
    BY <2>4, <2>5 DEF ScanInv
<1>13. ASSUME Writing PROVE Len(Head(runs).text) \in Nat \ {0}
  <2>1. Head(runs) \in OneOf
    BY <1>2, <1>13 DEF Writing
  <2> QED
    BY <2>1 DEF OneOf, Texts
<1>14. CASE WriteAll
  <2>1. /\ Writing /\ Take(Len(Head(runs).text))
        /\ UNCHANGED <<s, closed, k, pc, pos, arg, cnt2, failures, results>>
    BY <1>14 DEF WriteAll
  <2>2. Len(Head(runs).text) \in 0..Len(Head(runs).text)
    BY <1>13, <2>1
  <2> QED
    BY <1>2, <1>12, <2>1, <2>2
<1>15. CASE WriteShort
  <2>1. /\ Writing /\ failures < MaxFailures /\ failures' = failures + 1
        /\ UNCHANGED <<s, closed, k, pc, pos, arg, cnt2, results>>
    BY <1>15 DEF WriteShort
  <2>2. PICK n \in 1..(Len(Head(runs).text) - 1) : Take(n)
    BY <1>15 DEF WriteShort
  <2>3. n \in 0..Len(Head(runs).text)
    BY <1>13, <2>1
  <2>4. failures' \in 0..MaxFailures
    BY <1>2, <2>1, PrintfAssumption
  <2> QED
    BY <1>12, <2>1, <2>2, <2>3, <2>4
<1>16. CASE WriteRefused
  <2>1. /\ Writing /\ flag' = flag - 1 /\ runs' = Tail(runs)
        /\ UNCHANGED <<s, closed, k, pc, pos, arg, cnt2, sent, results>>
    BY <1>16 DEF WriteRefused
  <2>2. failures' \in 0..MaxFailures
    <3>1. failures' = failures \/ (failures < MaxFailures /\ failures' = failures + 1)
      BY <1>16 DEF WriteRefused
    <3> QED
      BY <1>2, <3>1, PrintfAssumption
  <2>3. pc = "write" /\ k <= Len(Calls) /\ runs # <<>>
    BY <1>2, <2>1 DEF Writing
  <2>4. runs' \in Seq(OneOf) /\ Fit(runs') /\ flag' \in Int
    <3>1. /\ Tail(runs) \in Seq(OneOf) /\ Len(Tail(runs)) = Len(runs) - 1 /\ Len(runs) \in Nat
          /\ \A i \in 1..(Len(runs) - 1) :
               Tail(runs)[i] = runs[i + 1] /\ i + 1 \in 1..Len(runs)
      BY <1>2, <2>3
    <3>2. Fit(Tail(runs))
      BY <1>2, <3>1 DEF Fit
    <3> QED
      BY <1>2, <2>1, <3>1, <3>2
  <2>5. Calls' = Calls /\ Call' = Call
    BY <2>1 DEF Calls, Call
  <2>6. Typed'
    BY <1>2, <2>1, <2>2, <2>3, <2>4, <2>5 DEF Typed
  <2>7. Placed' /\ Idle' /\ BuffersHold'
    BY <1>1, <2>1, <2>3, <2>5 DEF Placed, Idle, BuffersHold
  <2> QED
    BY <2>6, <2>7 DEF ScanInv
<1>17. CASE ConversionEnds
  <2>1. /\ pc = "write" /\ runs = <<>> /\ cnt2' = cnt2 + flag
        /\ UNCHANGED <<s, closed, pos, arg, runs, flag, failures, sent>>
    BY <1>17 DEF ConversionEnds
  <2>2. cnt2' \in Int /\ flag' \in Int /\ k <= Len(Calls)
    BY <1>2, <2>1
  <2>3. CASE flag = -1
    <3>1. Return(-1)
      BY <1>17, <2>3 DEF ConversionEnds
    <3>2. -1 \in Int /\ Len(sent') = k /\ sent' \in Seq(Seq(Items))
      BY <1>2, <2>1
    <3> QED
      BY <1>1, <2>1, <2>2, <3>1, <3>2, Returned
  <2>4. CASE flag # -1
    <3>1. pc' = "scan" /\ UNCHANGED <<k, results>>
      BY <1>17, <2>4 DEF ConversionEnds
    <3>2. Calls' = Calls /\ Call' = Call
      BY <2>1, <3>1 DEF Calls, Call
    <3>3. Typed'
      BY <1>2, <2>1, <2>2, <3>1, <3>2 DEF Typed
    <3>4. Placed' /\ Idle' /\ BuffersHold'
      BY <1>1, <2>1, <3>1, <3>2 DEF Placed, Idle, BuffersHold
    <3> QED
      BY <3>3, <3>4 DEF ScanInv
  <2> QED
    BY <2>3, <2>4
<1>18. CASE UNCHANGED vars
  BY <1>1, <1>18 DEF vars, ScanInv, Typed, Placed, Idle, BuffersHold, Calls, Call
<1> QED
  BY <1>5, <1>6, <1>7, <1>8, <1>9, <1>10, <1>11, <1>14, <1>15, <1>16, <1>17, <1>18
     DEF Next, Done

-----------------------------------------------------------------------------
(* Results. *)

(* A format that ends a line; a text that does. *)
LineEnds(call) == call.fmt # <<>> /\ Last(call.fmt) = NewLine

EndsLine(items) == items # <<>> /\ Last(items).char = NewLine

(* A write of the session failed, or one of the call's descriptors is closed.*)
Troubled(call) == failures # 0 \/ closed \cap {STDOUT, call.fd} # {}

(* What a result must be for the text that was taken, by a call that was    *)
(* harmed or not.                                                          *)
Verdict(call, result, items, harmed) ==
  /\ result # -1 /\ LineEnds(call) => EndsLine(items)
  /\ Sound(call) /\ Expected(call) # <<>> =>
       (result = Len(Expected(call)) <=> items = Expected(call))
  /\ Sound(call) /\ ~ harmed =>
       result = Len(Expected(call)) /\ items = Expected(call)

Verdicts ==
  \A n \in DOMAIN results : Verdict(Calls[n], results[n], sent[n], Troubled(Calls[n]))

(* The three properties about results are the parts of a verdict. *)
LEMMA VerdictsSay == Verdicts => ResultTellsLoss /\ LinesTerminated /\ PrintsExpected
<1>1. Verdicts => ResultTellsLoss /\ LinesTerminated
  BY DEF Verdicts, Verdict, ResultTellsLoss, LinesTerminated, LineEnds, EndsLine
<1>2. Verdicts => PrintsExpected
  BY DEF Verdicts, Verdict, Troubled, PrintsExpected
<1> QED
  BY <1>1, <1>2

(* Trouble does not go away. *)
Lasting == closed' = closed /\ (failures' = 0 => failures = 0)

LEMMA VerdictLasts ==
  ASSUME NEW call, NEW r, NEW items, NEW h, NEW g, Verdict(call, r, items, h), h => g
  PROVE  Verdict(call, r, items, g)
BY DEF Verdict

(* A step that returns nothing leaves the verdicts alone; one that does    *)
(* adds a verdict.                                                         *)
LEMMA VerdictsKept ==
  ASSUME Typed, Verdicts, UNCHANGED <<s, results>>, Lasting,
         \A m \in 1..(k - 1) : sent'[m] = sent[m]
  PROVE  Verdicts'
<1>1. results \in Seq(Int) /\ Len(results) = k - 1
  BY DEF Typed
<1>2. DOMAIN results = 1..(k - 1) /\ Calls' = Calls
  BY <1>1 DEF Calls
<1> SUFFICES ASSUME NEW n \in DOMAIN results
             PROVE  Verdict(Calls[n], results[n], sent[n], Troubled(Calls[n])')
  BY <1>2 DEF Verdicts
<1>3. Verdict(Calls[n], results[n], sent[n], Troubled(Calls[n]))
  BY DEF Verdicts
<1>4. Troubled(Calls[n]) => Troubled(Calls[n])'
  BY <1>2 DEF Troubled, Lasting
<1> QED
  BY <1>3, <1>4, VerdictLasts

LEMMA VerdictsGrow ==
  ASSUME Typed, Verdicts, k <= Len(Calls), UNCHANGED <<s, closed, failures>>,
         NEW r \in Int, Return(r), \A m \in 1..(k - 1) : sent'[m] = sent[m],
         Verdict(Call, r, sent'[k], Troubled(Call))
  PROVE  Verdicts'
<1>1. /\ results \in Seq(Int) /\ Len(results) = k - 1 /\ k \in Nat
      /\ results' = Append(results, r)
  BY AtCall DEF Typed, Return
<1>2. /\ DOMAIN results = 1..(k - 1) /\ DOMAIN results' = 1..k
      /\ \A n \in 1..(k - 1) : results'[n] = results[n]
      /\ results'[k] = r
  <2>1. (k - 1) + 1 = k
    BY <1>1
  <2> QED
    BY <1>1, <2>1, Appending
<1>3. Calls' = Calls
  BY DEF Calls
<1> SUFFICES ASSUME NEW n \in 1..k
             PROVE  Verdict(Calls[n], results'[n], sent'[n], Troubled(Calls[n])')
  BY <1>2, <1>3 DEF Verdicts
<1>4. Troubled(Calls[n])' <=> Troubled(Calls[n])
  BY <1>3 DEF Troubled
<1>5. CASE n = k
  <2>1. Verdict(Calls[n], results'[n], sent'[n], Troubled(Calls[n]))
    BY <1>2, <1>5 DEF Call
  <2> QED
    BY <1>4, <2>1, VerdictLasts
<1>6. CASE n # k
  <2>1. n \in 1..(k - 1)
    BY <1>1, <1>6
  <2>2. Verdict(Calls[n], results[n], sent[n], Troubled(Calls[n]))
    BY <1>2, <2>1 DEF Verdicts
  <2>3. results'[n] = results[n] /\ sent'[n] = sent[n]
    BY <1>2, <2>1
  <2> QED
    BY <1>4, <2>2, <2>3, VerdictLasts
<1> QED
  BY <1>5, <1>6

-----------------------------------------------------------------------------
(* The text of the first n characters of a format. *)
DueAt(call, n) == JoinedTo([i \in 1..Len(call.fmt) |-> Piece(call, i)], n)

LEMMA PieceIs ==
  ASSUME NEW call, NEW n
  PROVE  /\ ~ IsLetter(call, n) /\ call.fmt[n] = Percent => Piece(call, n) = <<>>
         /\ ~ IsLetter(call, n) /\ call.fmt[n] # Percent =>
              Piece(call, n) = For(call.fd, <<call.fmt[n]>>)
         /\ IsLetter(call, n) =>
              Piece(call, n) = Said(call.fmt[n], ArgumentOf(call, n), call.fd)
BY DEF Piece, Said

(* The text of a format whose conversions are all known grows piece by     *)
(* piece, up to what is expected.                                          *)
LEMMA DueIs ==
  ASSUME NEW call, CallOK(call), Sound(call)
  PROVE  /\ Len(call.fmt) \in Nat
         /\ DueAt(call, 0) = <<>>
         /\ \A n \in 0..(Len(call.fmt) - 1) :
              /\ DueAt(call, n + 1) = DueAt(call, n) \o Piece(call, n + 1)
              /\ Piece(call, n + 1) \in Seq(Items)
         /\ \A n \in 0..Len(call.fmt) :
              /\ DueAt(call, n) \in Seq(Items) /\ Len(DueAt(call, n)) \in Nat
              /\ Len(DueAt(call, n)) <= Len(Expected(call))
         /\ DueAt(call, Len(call.fmt)) = Expected(call)
         /\ Expected(call) \in Seq(Items) /\ Len(Expected(call)) \in Nat
<1> DEFINE l == Len(call.fmt)
           pieces == [i \in 1..l |-> Piece(call, i)]
<1>1. call.fmt \in Seq(STRING) /\ call.fd \in {1, 2} /\ l \in Nat
  BY DEF CallOK
<1>2. Reaches(call, l + 1)
  BY DEF Sound
<1> HIDE DEF l
<1>3. ASSUME NEW n \in 1..l PROVE Piece(call, n) \in Seq(Items)
  <2>1. call.fmt[n] \in STRING /\ call.fmt[n] \in Chars
    <3>1. call.fmt[n] \in STRING
      BY <1>1 DEF l
    <3> QED
      BY <3>1, TablesAre
  <2>2. CASE ~ IsLetter(call, n) /\ call.fmt[n] = Percent
    BY <2>2, PieceIs, NoElements
  <2>3. CASE ~ IsLetter(call, n) /\ call.fmt[n] # Percent
    <3>1. <<call.fmt[n]>> \in Seq(Chars)
      BY <2>1, OneElement
    <3>2. For(call.fd, <<call.fmt[n]>>) \in Seq(Items)
      BY <1>1, <3>1, ForIs
    <3>3. Piece(call, n) = For(call.fd, <<call.fmt[n]>>)
      BY <2>3, PieceIs
    <3> QED
      BY <3>2, <3>3
  <2>4. CASE IsLetter(call, n)
    <3> DEFINE c == call.fmt[n]
               a == ArgumentOf(call, n)
    <3>1. (l + 1) - 1 = l /\ \A m \in 1..(n - 1) : m \in 1..l
      BY <1>1
    <3>2. c \in Conversions /\ Reaches(call, n)
      BY <1>2, <2>4, <3>1 DEF Reaches
    <3>3. c # Percent => Suits(c, a)
      <4>1. c # Percent => c \in Conversions \ {Percent}
        BY <3>2
      <4> QED
        BY <2>4, <3>2, <4>1 DEF CallOK, l
    <3> HIDE DEF c, a
    <3>4. Makes(FtFtype(c, a, call.fd), Said(c, a, call.fd))
      BY <1>1, <3>2, <3>3, ConversionMakes
    <3>5. Said(c, a, call.fd) \in Seq(Items)
      BY <3>4, WroteFirst DEF Makes
    <3> QED
      BY <2>4, <3>5, PieceIs DEF c, a
  <2> QED
    BY <2>2, <2>3, <2>4
<1>4. pieces \in Seq(Seq(Items)) /\ Len(pieces) = l
      /\ \A n \in 1..l : pieces[n] = Piece(call, n)
  <2>1. pieces \in [1..l -> Seq(Items)]
    BY <1>3
  <2>2. \A n \in 1..l : pieces[n] = Piece(call, n)
    OBVIOUS
  <2> HIDE DEF pieces
  <2> QED
    BY <1>1, <2>1, <2>2
<1>5. \A n : DueAt(call, n) = JoinedTo(pieces, n)
  BY DEF DueAt, l
<1>6. Expected(call) = FlattenSeq(pieces)
  BY DEF Expected, l
<1> HIDE DEF pieces
<1>7. /\ DueAt(call, 0) = <<>>
      /\ \A n \in 0..(l - 1) : DueAt(call, n + 1) = DueAt(call, n) \o pieces[n + 1]
      /\ \A n \in 0..l : DueAt(call, n) \in Seq(Items)
      /\ DueAt(call, l) = Expected(call)
  BY <1>4, <1>5, <1>6, JoinedToIs
<1>8. \A n \in 0..(l - 1) : n + 1 \in 1..l
  BY <1>1
<1>9. l \in 0..l
  BY <1>1
<1>10. \A n \in 0..l : Len(DueAt(call, n)) \in Nat
  BY <1>7
<1>11. ASSUME NEW n \in 0..l PROVE Len(DueAt(call, n)) <= Len(Expected(call))
  <2>1. n <= l
    OBVIOUS
  <2>2. Len(JoinedTo(pieces, n)) <= Len(JoinedTo(pieces, l))
    BY <1>4, <1>9, <2>1, JoinedToGrows
  <2> QED
    BY <1>5, <1>7, <2>2
<1> QED
  BY <1>1, <1>3, <1>4, <1>7, <1>8, <1>9, <1>10, <1>11 DEF l

-----------------------------------------------------------------------------
(* The last character of a format is written alone. *)
Ending ==
  /\ pc = "write" /\ ~ More /\ LineEnds(Call) =>
       \/ flag = 0 /\ runs = FtFputchar(NewLine, Call.fd)
       \/ runs = <<>> /\ (flag = -1 \/ EndsLine(sent[k]))
  /\ pc = "scan" /\ ~ More /\ LineEnds(Call) => EndsLine(sent[k])

(* What the call has to say so far, what it has counted and what the       *)
(* conversion has still to write.                                          *)
Due   == DueAt(Call, pos - 1)
Count == IF pc = "write" THEN cnt2 + flag ELSE cnt2
Rest  == Len(Wrote(runs))

(* Nothing is lost, and every character has been counted. *)
Faithful ==
  /\ sent[k] \o Wrote(runs) = Due
  /\ Count + Rest = Len(Due)
  /\ pc = "write" => flag >= 0

(* Something is lost, not for nothing, and the count will not make it up.  *)
Lacking ==
  /\ Len(sent[k]) + Rest < Len(Due) /\ Count + Rest < Len(Due)
  /\ Troubled(Call)

Loss == pc \in {"scan", "write"} /\ Sound(Call) => Faithful \/ Lacking

(* What is left to write is for standard output or the call's descriptor.  *)
Going == pc = "write" => Wrote(runs) \in Seq(Aimed(Call.fd))

(* The inductive invariant. *)
PrintfInv == ScanInv /\ Ending /\ Loss /\ Going /\ Verdicts

LEMMA InitPrintf == Init => PrintfInv
<1> SUFFICES ASSUME Init PROVE PrintfInv
  OBVIOUS
<1>1. pc = "call" /\ results = <<>>
  BY DEF Init
<1>2. Verdicts
  BY <1>1 DEF Verdicts
<1>3. Ending /\ Loss /\ Going
  BY <1>1 DEF Ending, Loss, Going
<1> QED
  BY <1>2, <1>3, InitScan DEF PrintfInv

(* Losing a part of a write of length l. *)
LEMMA Shrinks ==
  ASSUME NEW x \in Int, NEW y \in Int, NEW l \in Int, NEW r \in Int, NEW d \in Int,
         NEW n \in Int,
         x + (l + r) <= d, y <= x + n, n < l
  PROVE  y + r < d
OBVIOUS

-----------------------------------------------------------------------------
(* Steps. *)

(* The texts a call has still to write, and what it has written. *)
LEMMA Amounts ==
  ASSUME Typed, k <= Len(Calls), pc # "call"
  PROVE  /\ sent[k] \in Seq(Items) /\ Len(sent[k]) \in Nat
         /\ Wrote(runs) \in Seq(Items) /\ Rest \in Nat
         /\ cnt2 \in Int /\ flag \in Int /\ Count \in Int
         /\ runs = <<>> => Wrote(runs) = <<>> /\ Rest = 0
<1>1. /\ k \in 1..Len(sent) /\ sent \in Seq(Seq(Items)) /\ runs \in Seq(OneOf)
      /\ cnt2 \in Int /\ flag \in Int
  BY AtCall DEF Typed
<1>2. sent[k] \in Seq(Items) /\ Len(sent[k]) \in Nat
  BY <1>1
<1>3. /\ Wrote(runs) \in Seq(Items) /\ Len(Wrote(runs)) \in Nat
      /\ runs = <<>> => Wrote(runs) = <<>>
  BY <1>1, WroteFirst
<1>4. runs = <<>> => Rest = 0
  BY <1>3 DEF Rest
<1>5. Count \in Int
  BY <1>1 DEF Count
<1> QED
  BY <1>1, <1>2, <1>3, <1>4, <1>5 DEF Rest

(* A character or a conversion is taken up. *)
LEMMA Ahead ==
  ASSUME Typed, Idle, Loss, pc = "scan", UNCHANGED <<s, closed, k, cnt2, failures, sent>>,
         pc' = "write", flag' = 0, runs' \in Seq(OneOf),
         Sound(Call) => /\ Due \in Seq(Items)
                        /\ Due' = Due \o Wrote(runs')
  PROVE  Loss'
<1>1. k <= Len(Calls) /\ runs = <<>> /\ Call' = Call
  BY DEF Typed, Idle, Call, Calls
<1>2. /\ sent[k] \in Seq(Items) /\ Len(sent[k]) \in Nat /\ cnt2 \in Int
      /\ Wrote(runs) = <<>> /\ Rest = 0
  BY <1>1, Amounts
<1>3. Wrote(runs') \in Seq(Items) /\ Len(Wrote(runs')) \in Nat
  BY WroteFirst
<1> SUFFICES ASSUME Sound(Call) PROVE Faithful' \/ Lacking'
  BY <1>1 DEF Loss
<1>4. Due \in Seq(Items) /\ Due' = Due \o Wrote(runs')
  OBVIOUS
<1>5. Len(Due') = Len(Due) + Len(Wrote(runs')) /\ Len(Due) \in Nat
  BY <1>3, <1>4
<1>6. Rest' = Len(Wrote(runs')) /\ Count' = cnt2 + 0 /\ Count = cnt2
  BY DEF Rest, Count
<1>7. CASE Faithful
  <2>1. sent[k] \o <<>> = Due /\ cnt2 + 0 = Len(Due)
    BY <1>2, <1>6, <1>7 DEF Faithful
  <2>2. sent[k] = Due
    BY <1>2, <2>1, ConcatEmptySeq
  <2>3. Count' + Rest' = Len(Due')
    BY <1>2, <1>3, <1>5, <1>6, <2>1
  <2> QED
    BY <1>4, <2>2, <2>3 DEF Faithful
<1>8. CASE Lacking
  <2>1. Len(sent[k]) + 0 < Len(Due) /\ cnt2 + 0 < Len(Due) /\ Troubled(Call)
    BY <1>2, <1>6, <1>8 DEF Lacking
  <2>2. Troubled(Call)'
    BY <1>1, <2>1 DEF Troubled
  <2>3. Len(sent'[k']) + Rest' < Len(Due') /\ Count' + Rest' < Len(Due')
    BY <1>2, <1>3, <1>5, <1>6, <2>1
  <2> QED
    BY <2>2, <2>3 DEF Lacking
<1> QED
  BY <1>7, <1>8 DEF Loss

(* The write that comes next. *)
LEMMA NextWrite ==
  ASSUME Typed, k <= Len(Calls), Writing
  PROVE  LET w == Head(runs)
         IN  /\ w \in OneOf /\ Tail(runs) \in Seq(OneOf)
             /\ Len(w.text) \in Nat \ {0}
             /\ For(w.fd, w.text) \in Seq(Items) /\ Len(For(w.fd, w.text)) = Len(w.text)
             /\ Wrote(Tail(runs)) \in Seq(Items) /\ Len(Wrote(Tail(runs))) \in Nat
             /\ Wrote(runs) = For(w.fd, w.text) \o Wrote(Tail(runs))
             /\ Rest = Len(w.text) + Len(Wrote(Tail(runs)))
<1> DEFINE w == Head(runs)
<1>1. runs \in Seq(OneOf) /\ runs # <<>>
  BY DEF Typed, Writing
<1>2. w \in OneOf /\ Tail(runs) \in Seq(OneOf)
      /\ Wrote(runs) = For(w.fd, w.text) \o Wrote(Tail(runs))
  BY <1>1, WroteFirst
<1> HIDE DEF w
<1>3. w.fd \in {1, 2} /\ w.text \in Seq(Chars) /\ w.text # <<>>
  BY <1>2 DEF OneOf, Texts
<1>4. Len(w.text) \in Nat \ {0}
  BY <1>3
<1>5. For(w.fd, w.text) \in Seq(Items) /\ Len(For(w.fd, w.text)) = Len(w.text)
  BY <1>3, ForIs
<1>6. Wrote(Tail(runs)) \in Seq(Items) /\ Len(Wrote(Tail(runs))) \in Nat
  BY <1>2, WroteFirst
<1>7. Rest = Len(w.text) + Len(Wrote(Tail(runs)))
  <2>1. Len(Wrote(runs)) = Len(For(w.fd, w.text)) + Len(Wrote(Tail(runs)))
    BY <1>2, <1>5, <1>6, Longer
  <2> QED
    BY <1>5, <2>1 DEF Rest
<1> QED
  BY <1>2, <1>4, <1>5, <1>6, <1>7 DEF w

(* Where it goes, and the others. *)
LEMMA WhereTo ==
  ASSUME Typed, Going, k <= Len(Calls), Writing
  PROVE  /\ Head(runs).fd \in {STDOUT, Call.fd}
         /\ Wrote(Tail(runs)) \in Seq(Aimed(Call.fd))
<1> DEFINE w == Head(runs)
           f == For(w.fd, w.text)
           r == Wrote(Tail(runs))
           S == Aimed(Call.fd)
<1>1. /\ w \in OneOf /\ f \in Seq(Items) /\ Len(f) = Len(w.text) /\ Len(w.text) \in Nat \ {0}
      /\ r \in Seq(Items) /\ Wrote(runs) = f \o r
  BY NextWrite
<1>2. f \o r \in Seq(S)
  BY <1>1 DEF Going, Writing
<1>3. f[1].fd = w.fd
  <2>1. 1 \in DOMAIN w.text
    <3>1. w.text \in Seq(Chars)
      BY <1>1 DEF OneOf, Texts
    <3> QED
      BY <1>1, <3>1
  <2> QED
    BY <2>1 DEF For
<1> HIDE DEF w, f, r, S
<1>4. f \in Seq(S) /\ r \in Seq(S)
  BY <1>1, <1>2, Halves
<1>5. f[1] \in S
  <2>1. Len(f) \in Nat \ {0}
    BY <1>1
  <2> QED
    BY <1>4, <2>1
<1>6. w.fd \in {STDOUT, Call.fd}
  BY <1>3, <1>5 DEF S, Aimed
<1> QED
  BY <1>4, <1>6 DEF w, r, S

LEMMA NextGoing ==
  ASSUME ScanInv, Going, Next
  PROVE  Going'
<1>1. Typed /\ Placed /\ Idle
  BY DEF ScanInv
<1>2. pc # "call" => k <= Len(Calls)
  BY <1>1 DEF Typed
<1>3. CASE pc' # "write"
  BY <1>3 DEF Going
<1>4. CASE PlainChar
  <2>1. /\ pc = "scan" /\ pos <= Len(Call.fmt) /\ UNCHANGED <<s, k>>
    BY <1>4 DEF PlainChar, Scanning, More
  <2>2. /\ CallOK(Call) /\ Call.fmt \in Seq(STRING) /\ Call.fd \in {1, 2}
        /\ Len(Call.fmt) \in Nat /\ pos \in 1..Len(Call.fmt) /\ Call' = Call
    BY <1>1, <1>2, <2>1, AtCall DEF Typed, Placed, Place, Call, Calls
  <2>3. runs' = FtFputchar(Call.fmt[pos], Call.fd)
    <3>1. Call.fn = "ft_printf" => Call.fd = STDOUT
      BY <2>2 DEF CallOK
    <3> QED
      BY <1>4, <3>1, OnStdout DEF PlainChar
  <2>4. Call.fmt[pos] \in Chars
    <3>1. Call.fmt[pos] \in STRING
      BY <2>2
    <3> QED
      BY <3>1, TablesAre
  <2>5. Wrote(runs') = For(Call.fd, <<Call.fmt[pos]>>)
    BY <2>2, <2>3, <2>4, CharWrite DEF Makes
  <2>6. For(Call.fd, <<Call.fmt[pos]>>) \in Seq(Aimed(Call.fd))
    BY <2>2, <2>4, OneElement, ForAimed
  <2> QED
    BY <2>2, <2>5, <2>6 DEF Going
<1>5. CASE Convert
  <2>1. Known /\ runs' = Writes /\ UNCHANGED <<s, k>>
    BY <1>5 DEF Convert
  <2>2. Wrote(runs') \in Seq(Aimed(Call.fd))
    BY <1>1, <2>1, KnownWrites DEF Makes
  <2> QED
    BY <2>1, <2>2 DEF Going, Call, Calls
<1>6. CASE WriteAll \/ WriteShort \/ WriteRefused
  <2>1. Writing /\ runs' = Tail(runs) /\ UNCHANGED <<s, k>>
    BY <1>6 DEF WriteAll, WriteShort, WriteRefused, Take
  <2>2. Wrote(Tail(runs)) \in Seq(Aimed(Call.fd))
    BY <1>1, <1>2, <2>1, WhereTo DEF Writing
  <2> QED
    BY <2>1, <2>2 DEF Going, Call, Calls
<1>7. CASE Done
  BY <1>7 DEF Done, vars, Going, Call, Calls
<1>8. CASE Refuse \/ Enter \/ Overrun \/ Unknown \/ EndOfFormat
  BY <1>3, <1>8 DEF Refuse, Enter, Overrun, Unknown, EndOfFormat, Return
<1>9. CASE ConversionEnds
  BY <1>3, <1>9 DEF ConversionEnds, Return
<1> QED
  BY <1>4, <1>5, <1>6, <1>7, <1>8, <1>9 DEF Next

(* A whole write loses nothing. *)
LEMMA WholeWrite ==
  ASSUME Typed, Loss, k <= Len(Calls), Writing, Take(Len(Head(runs).text)),
         UNCHANGED <<s, closed, k, pc, pos, cnt2, failures>>
  PROVE  Loss'
<1> DEFINE w == Head(runs)
           l == Len(w.text)
           f == For(w.fd, w.text)
           r == Wrote(Tail(runs))
<1>1. /\ w \in OneOf /\ l \in Nat \ {0} /\ f \in Seq(Items) /\ Len(f) = l
      /\ r \in Seq(Items) /\ Len(r) \in Nat /\ Wrote(runs) = f \o r /\ Rest = l + Len(r)
  BY NextWrite
<1>2. l \in 0..l
  BY <1>1
<1>3. /\ runs' = Tail(runs) /\ flag' = flag + l
      /\ sent[k] \in Seq(Items) /\ sent'[k] = sent[k] \o Part(w, l)
  BY <1>2, Taken
<1>4. Part(w, l) = f
  BY <1>1, <1>2, PartIs
<1>5. pc = "write" /\ pc' = "write" /\ Call' = Call /\ Due' = Due
  BY DEF Writing, Call, Calls, Due
<1>6. Rest' = Len(r) /\ Count = cnt2 + flag /\ Count' = cnt2 + flag'
      /\ Wrote(runs') = r
  BY <1>3, <1>5 DEF Rest, Count
<1>7. cnt2 \in Int /\ flag \in Int /\ Len(sent[k]) \in Nat
  BY <1>3 DEF Typed
<1> HIDE DEF w, l, f, r
<1>8. Len(sent'[k]) = Len(sent[k]) + l
  <2>1. Len(sent[k] \o f) = Len(sent[k]) + Len(f)
    BY <1>1, <1>3, Longer
  <2> QED
    BY <1>1, <1>3, <1>4, <2>1
<1> SUFFICES ASSUME Sound(Call) PROVE Faithful' \/ Lacking'
  BY <1>5 DEF Loss
<1>9. CASE Faithful
  <2>1. sent[k] \o (f \o r) = Due /\ (cnt2 + flag) + (l + Len(r)) = Len(Due) /\ flag >= 0
    BY <1>1, <1>5, <1>6, <1>9 DEF Faithful
  <2>2. (sent[k] \o f) \o r = sent[k] \o (f \o r)
    <3> DEFINE a == sent[k]
    <3>1. a \in Seq(Items)
      BY <1>3
    <3> HIDE DEF a
    <3>2. Regroups(a, f, r)
      BY <1>1, <3>1, Associative, Zenon
    <3>3. (a \o f) \o r = a \o (f \o r)
      BY <3>2, Zenon DEF Regroups
    <3> QED
      BY <3>3 DEF a
  <2>3. sent'[k] \o Wrote(runs') = Due'
    BY <1>3, <1>4, <1>5, <1>6, <2>1, <2>2
  <2>4. Count' + Rest' = Len(Due') /\ flag' >= 0
    <3>1. (cnt2 + (flag + l)) + Len(r) = (cnt2 + flag) + (l + Len(r)) /\ flag + l >= 0
      BY <1>1, <1>7, <2>1
    <3>2. Count' + Rest' = (cnt2 + (flag + l)) + Len(r)
      BY <1>3, <1>6
    <3>3. Count' + Rest' = Len(Due)
      BY <2>1, <3>1, <3>2
    <3> QED
      BY <1>3, <1>5, <3>1, <3>3
  <2> QED
    BY <2>3, <2>4 DEF Faithful
<1>10. CASE Lacking
  <2>1. /\ Len(sent[k]) + (l + Len(r)) < Len(Due)
        /\ (cnt2 + flag) + (l + Len(r)) < Len(Due)
    BY <1>1, <1>6, <1>10 DEF Lacking
  <2>2. /\ (cnt2 + (flag + l)) + Len(r) = (cnt2 + flag) + (l + Len(r))
        /\ (Len(sent[k]) + l) + Len(r) = Len(sent[k]) + (l + Len(r))
    <3>1. \A a, b, c, d \in Int :
            (a + (b + c)) + d = (a + b) + (c + d)
      OBVIOUS
    <3>2. \A a, c, d \in Int : (a + c) + d = a + (c + d)
      OBVIOUS
    <3>3. l \in Int /\ Len(r) \in Int /\ cnt2 \in Int /\ flag \in Int /\ Len(sent[k]) \in Int
      BY <1>1, <1>7
    <3> DEFINE q == Len(r)
               z == Len(sent[k])
    <3> HIDE DEF q, z
    <3>4. (cnt2 + (flag + l)) + q = (cnt2 + flag) + (l + q)
      BY <3>1, <3>3 DEF q
    <3>5. (z + l) + q = z + (l + q)
      BY <3>2, <3>3 DEF q, z
    <3> QED
      BY <3>4, <3>5 DEF q, z
  <2>3. /\ Len(sent'[k]) + Rest' = (Len(sent[k]) + l) + Len(r)
        /\ Count' + Rest' = (cnt2 + (flag + l)) + Len(r)
    <3>1. Len(sent'[k]) + Rest' = (Len(sent[k]) + l) + Len(r)
      <4>1. Rest' = Len(r)
        BY <1>6
      <4> QED
        BY <1>8, <4>1, Zenon
    <3>2. Count' + Rest' = (cnt2 + (flag + l)) + Len(r)
      <4>1. Count' = cnt2 + (flag + l)
        BY <1>3, <1>6
      <4> QED
        BY <1>6, <4>1, Zenon
    <3> QED
      BY <3>1, <3>2
  <2>4. Len(sent'[k]) + Rest' < Len(Due)
    BY <2>1, <2>2, <2>3
  <2>5. Count' + Rest' < Len(Due)
    BY <2>1, <2>2, <2>3
  <2>6. Troubled(Call)'
    BY <1>5, <1>10 DEF Lacking, Troubled
  <2> QED
    BY <1>5, <2>4, <2>5, <2>6 DEF Lacking
<1> QED
  BY <1>5, <1>9, <1>10 DEF Loss

(* A write that is refused or cut short leaves a loss for good. *)
LEMMA LostWrite ==
  ASSUME Typed, Loss, k <= Len(Calls), Writing, NEW n \in 0..(Len(Head(runs).text) - 1),
         runs' = Tail(runs), flag' \in Int, flag' <= flag + n, sent'[k] \in Seq(Items),
         Len(sent'[k]) = Len(sent[k]) + n,
         UNCHANGED <<s, k, pc, pos, cnt2>>, Sound(Call) => Len(Due) \in Nat,
         failures' # 0 \/ closed' \cap {STDOUT, Call.fd} # {}
  PROVE  Loss'
<1> DEFINE l == Len(Head(runs).text)
           r == Len(Wrote(Tail(runs)))
<1>1. l \in Nat \ {0} /\ r \in Nat /\ Rest = l + r
  BY NextWrite
<1>2. pc = "write" /\ pc' = "write" /\ Call' = Call /\ Due' = Due
  BY DEF Writing, Call, Calls, Due
<1>3. Rest' = r /\ Count = cnt2 + flag /\ Count' = cnt2 + flag'
  BY <1>2 DEF Rest, Count
<1>4. cnt2 \in Int /\ flag \in Int /\ Len(sent[k]) \in Nat /\ Wrote(runs) \in Seq(Items)
      /\ sent[k] \in Seq(Items)
  BY <1>2, Amounts
<1>5. n \in 0..(l - 1)
  OBVIOUS
<1> HIDE DEF l, r
<1> SUFFICES ASSUME Sound(Call) PROVE Lacking'
  BY <1>2 DEF Loss
<1>7. Len(Due) \in Nat /\ Len(Due') = Len(Due)
  BY <1>2
<1>6. Len(sent[k]) + (l + r) <= Len(Due) /\ (cnt2 + flag) + (l + r) <= Len(Due)
  <2>1. CASE Faithful
    <3>1. Len(sent[k] \o Wrote(runs)) = Len(sent[k]) + Rest
      BY <1>4 DEF Rest
    <3>2. Len(sent[k]) + Rest = Len(Due) /\ Count + Rest = Len(Due)
      BY <2>1, <3>1 DEF Faithful
    <3>3. Len(sent[k]) + (l + r) = Len(Due) /\ (cnt2 + flag) + (l + r) = Len(Due)
      BY <1>1, <1>3, <3>2
    <3> QED
      BY <1>7, <3>3
  <2>2. CASE Lacking
    <3>1. Len(sent[k]) + (l + r) < Len(Due) /\ (cnt2 + flag) + (l + r) < Len(Due)
      BY <1>1, <1>3, <2>2 DEF Lacking
    <3> DEFINE a == Len(sent[k]) + (l + r)
               c == (cnt2 + flag) + (l + r)
    <3>2. a \in Int /\ c \in Int
      BY <1>1, <1>4
    <3>3. a < Len(Due) /\ c < Len(Due)
      BY <3>1
    <3> HIDE DEF a, c
    <3>4. a <= Len(Due) /\ c <= Len(Due)
      BY <1>7, <3>2, <3>3
    <3> QED
      BY <3>4 DEF a, c
  <2> QED
    BY <1>2, <2>1, <2>2 DEF Loss
<1>8. n \in Int /\ n < l /\ Len(sent'[k]) \in Int /\ Len(sent'[k]) <= Len(sent[k]) + n
  <2>1. n \in Int /\ n < l
    BY <1>1, <1>5
  <2>2. \A y : \A x \in Int : y = x + n => y \in Int /\ y <= x + n
    BY <2>1
  <2>3. Len(sent[k]) \in Int
    BY <1>4
  <2> QED
    BY <2>1, <2>2, <2>3
<1>9. l \in Int /\ r \in Int /\ Len(Due) \in Int /\ Len(sent[k]) \in Int
  BY <1>1, <1>4, <1>7
<1>10. /\ cnt2 + flag \in Int /\ cnt2 + flag' \in Int
       /\ cnt2 + flag' <= (cnt2 + flag) + n
  <2>1. \A x \in Int, y \in Int, z \in Int :
          y <= z + n => x + z \in Int /\ x + y \in Int /\ x + y <= (x + z) + n
    BY <1>8
  <2>2. flag' \in Int /\ flag' <= flag + n
    OBVIOUS
  <2> QED
    BY <1>4, <2>1, <2>2, Zenon
<1>11. Len(sent'[k]) + r < Len(Due)
  BY <1>6, <1>8, <1>9, Shrinks
<1>12. (cnt2 + flag') + r < Len(Due)
  BY <1>6, <1>8, <1>9, <1>10, Shrinks
<1>13. Troubled(Call)'
  BY <1>2 DEF Troubled
<1> QED
  BY <1>3, <1>7, <1>11, <1>12, <1>13 DEF Lacking

(* What is due at a place in a format whose conversions are all known. *)
LEMMA DueHere ==
  ASSUME Typed, Placed, pc # "call", Sound(Call)
  PROVE  /\ pos \in 1..(Len(Call.fmt) + 1) /\ Len(Call.fmt) \in Nat
         /\ Due \in Seq(Items) /\ Len(Due) \in Nat
         /\ Len(Due) <= Len(Expected(Call)) /\ Len(Expected(Call)) \in Nat
         /\ pos = Len(Call.fmt) + 1 => Due = Expected(Call)
<1>1. CallOK(Call) /\ Len(Call.fmt) \in Nat
  BY AtCall DEF Typed
<1>2. pos \in 1..(Len(Call.fmt) + 1)
  BY DEF Placed, Place
<1>3. pos - 1 \in 0..Len(Call.fmt) /\ (pos = Len(Call.fmt) + 1 => pos - 1 = Len(Call.fmt))
  BY <1>1, <1>2
<1> QED
  BY <1>1, <1>2, <1>3, DueIs DEF Due

(* No step loses a character without leaving the count behind. *)
LEMMA NextLoss ==
  ASSUME ScanInv, Loss, Going, Next
  PROVE  Loss'
<1>1. Typed /\ Placed /\ Idle
  BY DEF ScanInv
<1>2. pc # "call" => k <= Len(Calls)
  BY <1>1 DEF Typed
<1>3. ASSUME pc' \in {"call", "undefined"} PROVE Loss'
  BY <1>3 DEF Loss
<1>4. CASE Refuse \/ Unknown \/ EndOfFormat \/ Overrun
  BY <1>3, <1>4 DEF Refuse, Unknown, EndOfFormat, Overrun, Return
<1>5. CASE Enter
  <2>1. /\ pc = "call" /\ k <= Len(Calls) /\ sent' = Append(sent, <<>>)
        /\ pos' = 1 /\ cnt2' = 0 /\ pc' = "scan" /\ UNCHANGED <<s, k, runs>>
    BY <1>5 DEF Enter
  <2>2. Call' = Call /\ runs' = <<>>
    BY <1>1, <2>1 DEF Idle, Call, Calls
  <2>3. Wrote(runs') = <<>> /\ Rest' = 0
    <3>1. runs' \in Seq(OneOf)
      BY <2>2
    <3>2. Wrote(runs') = <<>>
      BY <2>2, <3>1, WroteFirst
    <3> QED
      BY <3>2 DEF Rest
  <2>4. sent'[k] = <<>>
    <3>1. sent \in Seq(Seq(Items)) /\ Len(sent) = k - 1 /\ k \in Nat
      BY <1>1, <2>1, AtCall DEF Typed
    <3>2. <<>> \in Seq(Items) /\ (k - 1) + 1 = k
      BY <3>1
    <3> QED
      BY <2>1, <3>1, <3>2, Appending
  <2> SUFFICES ASSUME Sound(Call) PROVE Faithful'
    BY <2>2 DEF Loss
  <2>5. Due' = <<>>
    <3>1. DueAt(Call, 0) = <<>>
      BY <1>1, <2>1, AtCall, DueIs
    <3>2. pos' - 1 = 0
      BY <2>1
    <3> QED
      BY <2>2, <3>1, <3>2 DEF Due
  <2>6. Count' = 0
    BY <2>1 DEF Count
  <2>7. pc' # "write"
    BY <2>1
  <2>8. sent'[k'] \o Wrote(runs') = Due'
    <3>1. sent'[k'] = <<>>
      BY <2>1, <2>4
    <3>2. <<>> \o <<>> = <<>>
      BY NoElements, ConcatEmptySeq
    <3> QED
      BY <2>3, <2>5, <3>1, <3>2, Zenon
  <2>9. Count' + Rest' = Len(Due')
    BY <2>3, <2>5, <2>6
  <2> QED
    BY <2>7, <2>8, <2>9 DEF Faithful
<1>6. CASE PlainChar
  <2>1. /\ pc = "scan" /\ pos <= Len(Call.fmt) /\ Call.fmt[pos] # Percent
        /\ flag' = 0 /\ pos' = pos + 1 /\ pc' = "write"
        /\ UNCHANGED <<s, closed, k, cnt2, failures, sent>>
    BY <1>6 DEF PlainChar, Scanning, More
  <2>2. /\ k <= Len(Calls) /\ CallOK(Call) /\ Call.fmt \in Seq(STRING) /\ Call.fd \in {1, 2}
        /\ Len(Call.fmt) \in Nat /\ pos \in Nat /\ Place(Call, pos, arg) /\ Call' = Call
    BY <1>1, <1>2, <2>1, AtCall DEF Typed, Placed, Call, Calls
  <2>3. runs' = FtFputchar(Call.fmt[pos], Call.fd)
    <3>1. Call.fn = "ft_printf" => Call.fd = STDOUT
      BY <2>2 DEF CallOK
    <3> QED
      BY <1>6, <3>1, OnStdout DEF PlainChar
  <2>4. ~ IsLetter(Call, pos) /\ pos \in 1..Len(Call.fmt)
    <3>1. pos \in 1..Len(Call.fmt)
      BY <2>1, <2>2 DEF Place
    <3> QED
      BY <2>1, <2>2, <3>1, PlaceBehindPlain
  <2>5. Makes(runs', For(Call.fd, <<Call.fmt[pos]>>))
    <3>1. Call.fmt[pos] \in STRING
      BY <2>2, <2>4
    <3>2. Call.fmt[pos] \in Chars
      BY <3>1, TablesAre
    <3> QED
      BY <2>2, <2>3, <3>2, CharWrite
  <2>6. ASSUME Sound(Call) PROVE Due \in Seq(Items) /\ Due' = Due \o Wrote(runs')
    <3>1. pos - 1 \in 0..(Len(Call.fmt) - 1) /\ (pos - 1) + 1 = pos /\ pos' - 1 = pos
      BY <2>1, <2>2, <2>4
    <3>2. DueAt(Call, pos) = DueAt(Call, pos - 1) \o Piece(Call, pos)
      BY <2>2, <2>6, <3>1, DueIs
    <3>3. Piece(Call, pos) = Wrote(runs')
      BY <2>1, <2>4, <2>5, PieceIs DEF Makes
    <3>4. Due' = DueAt(Call, pos)
      BY <2>2, <3>1 DEF Due
    <3>5. Due \in Seq(Items)
      BY <1>1, <2>1, <2>6, DueHere
    <3> QED
      BY <3>2, <3>3, <3>4, <3>5 DEF Due
  <2> QED
    BY <1>1, <2>1, <2>5, <2>6, Ahead DEF Makes
<1>7. CASE Convert
  <2>1. /\ Known /\ flag' = 0 /\ runs' = Writes /\ pos' = pos + 2 /\ pc' = "write"
        /\ UNCHANGED <<s, closed, k, cnt2, failures, sent>>
    BY <1>7 DEF Convert
  <2> DEFINE c == Call.fmt[pos + 1]
             a == Call.args[arg]
  <2>2. /\ pc = "scan" /\ k <= Len(Calls) /\ pos < Len(Call.fmt) /\ pos \in Nat
        /\ Call.fmt[pos] = Percent
        /\ ~ IsLetter(Call, pos) /\ IsLetter(Call, pos + 1)
        /\ ArgumentOf(Call, pos + 1) = a
        /\ Makes(Writes, Said(c, a, Call.fd))
    BY <1>1, <2>1, KnownWrites
  <2>3. CallOK(Call) /\ Len(Call.fmt) \in Nat /\ Call' = Call
    BY <1>1, <2>1, <2>2, AtCall DEF Call, Calls
  <2>4. ASSUME Sound(Call) PROVE Due \in Seq(Items) /\ Due' = Due \o Wrote(runs')
    <3>1. pos \in 1..(Len(Call.fmt) + 1)
      BY <1>1, <2>2, <2>4, DueHere
    <3>2. /\ pos - 1 \in 0..(Len(Call.fmt) - 1) /\ (pos - 1) + 1 = pos
          /\ pos \in 0..(Len(Call.fmt) - 1) /\ pos' - 1 = pos + 1
      BY <2>1, <2>2, <2>3, <3>1
    <3>3. DueAt(Call, pos) = DueAt(Call, pos - 1) \o Piece(Call, pos)
      BY <2>3, <2>4, <3>2, DueIs
    <3>4. DueAt(Call, pos + 1) = DueAt(Call, pos) \o Piece(Call, pos + 1)
      BY <2>3, <2>4, <3>2, DueIs
    <3>5. Piece(Call, pos) = <<>>
      BY <2>2, PieceIs
    <3>6. Piece(Call, pos + 1) = Wrote(runs')
      BY <2>1, <2>2, PieceIs DEF Makes
    <3>7. Due' = DueAt(Call, pos + 1)
      BY <2>3, <3>2 DEF Due
    <3>8. Due \in Seq(Items)
      BY <1>1, <2>2, <2>4, DueHere
    <3>9. Due \o <<>> = Due
      BY <3>8, ConcatEmptySeq
    <3> QED
      BY <3>3, <3>4, <3>5, <3>6, <3>7, <3>8, <3>9 DEF Due
  <2> QED
    BY <1>1, <2>1, <2>2, <2>4, Ahead DEF Makes
<1>8. CASE WriteAll
  <2>1. /\ Writing /\ Take(Len(Head(runs).text))
        /\ UNCHANGED <<s, closed, k, pc, pos, cnt2, failures>>
    BY <1>8 DEF WriteAll
  <2> QED
    BY <1>1, <1>2, <2>1, WholeWrite DEF Writing
<1>9. ASSUME Writing PROVE k <= Len(Calls) /\ (Sound(Call) => Len(Due) \in Nat)
  BY <1>1, <1>2, <1>9, DueHere DEF Writing
<1>10. CASE WriteShort
  <2>1. Writing /\ UNCHANGED <<s, k, pc, pos, cnt2>>
    BY <1>10 DEF WriteShort
  <2>2. PICK n \in 1..(Len(Head(runs).text) - 1) : Take(n)
    BY <1>10 DEF WriteShort
  <2>3. k <= Len(Calls) /\ (Sound(Call) => Len(Due) \in Nat)
    BY <1>9, <2>1
  <2>4. Len(Head(runs).text) \in Nat /\ Head(runs) \in OneOf
    BY <1>1, <2>1, <2>3, NextWrite
  <2>5. n \in 0..Len(Head(runs).text) /\ n \in 0..(Len(Head(runs).text) - 1) /\ n \in Nat
    BY <2>4
  <2>6. /\ runs' = Tail(runs) /\ flag' = flag + n
        /\ sent[k] \in Seq(Items) /\ sent'[k] = sent[k] \o Part(Head(runs), n)
    BY <1>1, <2>1, <2>2, <2>3, <2>5, Taken
  <2>7. Part(Head(runs), n) \in Seq(Items) /\ Len(Part(Head(runs), n)) = n
    BY <2>4, <2>5, PartIs
  <2>8. sent'[k] \in Seq(Items) /\ Len(sent'[k]) = Len(sent[k]) + n
    <3>1. sent[k] \o Part(Head(runs), n) \in Seq(Items)
      BY <2>6, <2>7
    <3> QED
      BY <2>6, <2>7, <3>1, Longer
  <2>9. flag' \in Int /\ flag' <= flag + n
    <3>1. flag \in Int
      BY <1>1 DEF Typed
    <3> QED
      BY <2>5, <2>6, <3>1
  <2>10. failures' # 0
    <3>1. failures \in Nat /\ failures' = failures + 1
      BY <1>1, <1>10 DEF Typed, WriteShort
    <3> QED
      BY <3>1
  <2> QED
    BY <1>1, <2>1, <2>3, <2>5, <2>6, <2>8, <2>9, <2>10, LostWrite
<1>11. CASE WriteRefused
  <2>1. /\ Writing /\ flag' = flag - 1 /\ runs' = Tail(runs)
        /\ UNCHANGED <<s, k, pc, pos, cnt2, sent>>
    BY <1>11 DEF WriteRefused
  <2>2. k <= Len(Calls) /\ (Sound(Call) => Len(Due) \in Nat)
    BY <1>9, <2>1
  <2>3. 0 \in 0..(Len(Head(runs).text) - 1)
    BY <1>1, <2>1, <2>2, NextWrite
  <2>4. sent'[k] \in Seq(Items) /\ Len(sent'[k]) = Len(sent[k]) + 0
    <3>1. sent[k] \in Seq(Items) /\ Len(sent[k]) \in Nat
      BY <1>1, <2>1, <2>2, Amounts DEF Writing
    <3> QED
      BY <2>1, <3>1
  <2>5. flag' \in Int /\ flag' <= flag + 0
    <3>1. flag \in Int
      BY <1>1 DEF Typed
    <3> QED
      BY <2>1, <3>1
  <2>6. failures' # 0 \/ closed' \cap {STDOUT, Call.fd} # {}
    <3>1. CASE Head(runs).fd \in closed
      <4>1. Head(runs).fd \in {STDOUT, Call.fd} /\ closed' = closed
        BY <1>1, <1>11, <2>1, <2>2, WhereTo DEF WriteRefused
      <4> QED
        BY <3>1, <4>1
    <3>2. CASE Head(runs).fd \notin closed
      <4>1. failures \in Nat /\ failures' = failures + 1
        BY <1>1, <1>11, <3>2 DEF Typed, WriteRefused
      <4> QED
        BY <4>1
    <3> QED
      BY <3>1, <3>2
  <2> QED
    BY <1>1, <2>1, <2>2, <2>3, <2>4, <2>5, <2>6, LostWrite
<1>12. CASE ConversionEnds
  <2>1. /\ pc = "write" /\ runs = <<>> /\ cnt2' = cnt2 + flag
        /\ UNCHANGED <<s, closed, pos, runs, failures, sent>>
    BY <1>12 DEF ConversionEnds
  <2>2. CASE flag = -1
    BY <1>3, <1>12, <2>2 DEF ConversionEnds, Return
  <2>3. CASE flag # -1
    <3>1. pc' = "scan" /\ k' = k
      BY <1>12, <2>3 DEF ConversionEnds
    <3>2. /\ Call' = Call /\ Due' = Due /\ Rest' = Rest /\ Wrote(runs') = Wrote(runs)
          /\ sent'[k'] = sent[k] /\ Count' = Count
      BY <2>1, <3>1 DEF Call, Calls, Due, Rest, Count
    <3>3. Sound(Call) => Faithful \/ Lacking
      BY <2>1 DEF Loss
    <3>4. Faithful => Faithful'
      BY <3>1, <3>2 DEF Faithful
    <3>5. Lacking => Lacking'
      BY <2>1, <3>1, <3>2 DEF Lacking, Troubled
    <3> QED
      BY <3>2, <3>3, <3>4, <3>5 DEF Loss
  <2> QED
    BY <2>2, <2>3
<1>13. CASE Done
  BY <1>13 DEF Done, vars, Loss, Faithful, Lacking, Troubled, Call, Calls, Due, Rest, Count
<1> QED
  BY <1>4, <1>5, <1>6, <1>7, <1>8, <1>10, <1>11, <1>12, <1>13 DEF Next

(* A line that ends. *)
LEMMA LineEnd ==
  ASSUME Typed, k <= Len(Calls), LineEnds(Call)
  PROVE  /\ Len(Call.fmt) \in Nat /\ Len(Call.fmt) >= 1
         /\ Call.fmt[Len(Call.fmt)] = NewLine
<1>1. Call.fmt \in Seq(STRING) /\ Call.fmt # <<>> /\ Last(Call.fmt) = NewLine
  BY AtCall DEF LineEnds
<1>2. Len(Call.fmt) \in Nat /\ Len(Call.fmt) >= 1
  BY <1>1
<1> QED
  BY <1>1, <1>2 DEF Last

LEMMA EndsWith ==
  ASSUME NEW items \in Seq(Items), NEW i
  PROVE  i.char = NewLine => EndsLine(items \o <<i>>)
<1>1. /\ items \o <<i>> # <<>> /\ Len(items \o <<i>>) = Len(items) + 1
      /\ (items \o <<i>>)[Len(items) + 1] = i
  OBVIOUS
<1> QED
  BY <1>1 DEF EndsLine, Last

(* No step leaves a line open. *)
LEMMA NextEnding ==
  ASSUME ScanInv, Ending, Next
  PROVE  Ending'
<1>1. Typed /\ Placed /\ Idle
  BY DEF ScanInv
<1>2. pc # "call" => k <= Len(Calls)
  BY <1>1 DEF Typed
<1>3. ASSUME pc' \in {"call", "undefined"} PROVE Ending'
  BY <1>3 DEF Ending
<1>4. CASE Refuse \/ Unknown \/ EndOfFormat \/ Overrun
  BY <1>3, <1>4 DEF Refuse, Unknown, EndOfFormat, Overrun, Return
<1>5. CASE Enter
  <2>1. pc = "call" /\ k <= Len(Calls) /\ pos' = 1 /\ pc' = "scan" /\ UNCHANGED <<s, k>>
    BY <1>5 DEF Enter
  <2>2. Call' = Call
    BY <2>1 DEF Call, Calls
  <2>3. LineEnds(Call) => More'
    <3> SUFFICES ASSUME LineEnds(Call) PROVE 1 <= Len(Call.fmt)
      BY <2>1, <2>2 DEF More
    <3> QED
      BY <1>1, <2>1, LineEnd
  <2> QED
    BY <2>1, <2>2, <2>3 DEF Ending
<1>6. CASE PlainChar
  <2>1. /\ pc = "scan" /\ pos <= Len(Call.fmt) /\ flag' = 0 /\ pos' = pos + 1
        /\ UNCHANGED <<s, k>> /\ pc' = "write"
    BY <1>6 DEF PlainChar, Scanning, More
  <2>2. Call' = Call /\ pos \in Nat /\ CallOK(Call) /\ k <= Len(Calls)
    BY <1>1, <1>2, <2>1, AtCall DEF Typed, Call, Calls
  <2>3. runs' = FtFputchar(Call.fmt[pos], Call.fd)
    <3>1. Call.fn = "ft_printf" => Call.fd = STDOUT
      BY <2>2 DEF CallOK
    <3> QED
      BY <1>6, <3>1, OnStdout DEF PlainChar
  <2>4. ASSUME ~ More', LineEnds(Call) PROVE Call.fmt[pos] = NewLine
    <3>1. /\ Len(Call.fmt) \in Nat /\ Call.fmt[Len(Call.fmt)] = NewLine
          /\ ~ (pos + 1 <= Len(Call.fmt))
      BY <1>1, <2>1, <2>2, <2>4, LineEnd DEF More
    <3>2. pos = Len(Call.fmt)
      BY <2>1, <2>2, <3>1
    <3> QED
      BY <3>1, <3>2
  <2> QED
    BY <2>1, <2>2, <2>3, <2>4 DEF Ending
<1>7. CASE Convert
  <2>1. Known /\ pos' = pos + 2 /\ UNCHANGED <<s, k>> /\ pc' = "write"
    BY <1>7 DEF Convert
  <2>2. /\ pc = "scan" /\ pos < Len(Call.fmt) /\ Call.fmt[pos + 1] \in Conversions
        /\ k <= Len(Calls) /\ pos \in Nat
    BY <1>1, <1>2, <2>1 DEF Known, Scanning, Typed
  <2>3. Call' = Call
    BY <2>1 DEF Call, Calls
  <2>4. ASSUME ~ More', LineEnds(Call) PROVE FALSE
    <3>1. /\ Len(Call.fmt) \in Nat /\ Call.fmt[Len(Call.fmt)] = NewLine
          /\ ~ (pos + 2 <= Len(Call.fmt))
      BY <1>1, <2>1, <2>2, <2>3, <2>4, LineEnd DEF More
    <3>2. pos + 1 = Len(Call.fmt)
      BY <2>2, <3>1
    <3> QED
      BY <2>2, <3>1, <3>2, Special
  <2> QED
    BY <2>1, <2>3, <2>4 DEF Ending
<1>8. ASSUME Writing, UNCHANGED <<s, k, pc, pos>>, ~ More, LineEnds(Call)
      PROVE  /\ k <= Len(Calls) /\ flag = 0
             /\ Head(runs) = Write(Call.fd, <<NewLine>>) /\ Tail(runs) = <<>>
             /\ Call.fd \in {1, 2}
  <2>1. pc = "write" /\ runs # <<>>
    BY <1>8 DEF Writing
  <2>2. flag = 0 /\ runs = FtFputchar(NewLine, Call.fd)
    BY <1>8, <2>1 DEF Ending
  <2>3. Head(runs) = Write(Call.fd, <<NewLine>>) /\ Tail(runs) = <<>>
    BY <2>2 DEF FtFputchar
  <2> QED
    BY <1>1, <1>2, <2>1, <2>2, <2>3, AtCall
<1>9. ASSUME Writing, UNCHANGED <<s, k, pc, pos>>
      PROVE  Call' = Call /\ (More' <=> More) /\ pc' = "write"
  BY <1>9 DEF Writing, Call, Calls, More
<1>10. CASE WriteAll
  <2>1. Writing /\ Take(Len(Head(runs).text)) /\ UNCHANGED <<s, k, pc, pos>>
    BY <1>10 DEF WriteAll
  <2>2. ASSUME ~ More, LineEnds(Call) PROVE runs' = <<>> /\ EndsLine(sent'[k])
    <3>1. /\ k <= Len(Calls) /\ Call.fd \in {1, 2}
          /\ Head(runs) = Write(Call.fd, <<NewLine>>) /\ Tail(runs) = <<>>
      BY <1>8, <2>1, <2>2
    <3>2. Head(runs).text = <<NewLine>> /\ Len(<<NewLine>>) = 1
      BY <3>1 DEF Write
    <3>3. Len(Head(runs).text) \in 0..Len(Head(runs).text)
      BY <3>2
    <3>4. /\ runs' = Tail(runs) /\ sent[k] \in Seq(Items)
          /\ sent'[k] = sent[k] \o Part(Head(runs), Len(Head(runs).text))
      BY <1>1, <2>1, <3>1, <3>3, Taken
    <3> DEFINE i == [fd |-> Head(runs).fd, char |-> NewLine]
    <3>5. Part(Head(runs), 1) = <<i>>
      <4> DEFINE p == [n \in 1..1 |-> [fd |-> Head(runs).fd, char |-> Head(runs).text[n]]]
      <4>1. p[1] = i
        BY <3>2
      <4>2. p = <<i>>
        BY <4>1
      <4> QED
        BY <4>2 DEF Part
    <3>6. i.char = NewLine
      OBVIOUS
    <3> HIDE DEF i
    <3>7. EndsLine(sent[k] \o <<i>>)
      BY <3>4, <3>6, EndsWith
    <3> QED
      BY <3>1, <3>2, <3>4, <3>5, <3>7
  <2> QED
    BY <1>9, <2>1, <2>2 DEF Ending
<1>11. CASE WriteShort
  <2>1. Writing /\ UNCHANGED <<s, k, pc, pos>>
    BY <1>11 DEF WriteShort
  <2>2. PICK n \in 1..(Len(Head(runs).text) - 1) : Take(n)
    BY <1>11 DEF WriteShort
  <2>3. ASSUME ~ More, LineEnds(Call) PROVE FALSE
    <3>1. Head(runs) = Write(Call.fd, <<NewLine>>)
      BY <1>8, <2>1, <2>3
    <3>2. Len(Head(runs).text) = 1
      BY <3>1 DEF Write
    <3>3. 1..(1 - 1) = {}
      OBVIOUS
    <3> QED
      BY <3>2, <3>3
  <2> QED
    BY <1>9, <2>1, <2>3 DEF Ending
<1>12. CASE WriteRefused
  <2>1. /\ Writing /\ flag' = flag - 1 /\ runs' = Tail(runs) /\ UNCHANGED <<s, k, pc, pos>>
    BY <1>12 DEF WriteRefused
  <2>2. ASSUME ~ More, LineEnds(Call) PROVE runs' = <<>> /\ flag' = -1
    <3>1. flag = 0 /\ Tail(runs) = <<>>
      BY <1>8, <2>1, <2>2
    <3> QED
      BY <2>1, <3>1
  <2> QED
    BY <1>9, <2>1, <2>2 DEF Ending
<1>13. CASE ConversionEnds
  <2>1. /\ pc = "write" /\ runs = <<>> /\ UNCHANGED <<s, pos, sent>>
    BY <1>13 DEF ConversionEnds
  <2>2. CASE flag = -1
    BY <1>3, <1>13, <2>2 DEF ConversionEnds, Return
  <2>3. CASE flag # -1
    <3>1. pc' = "scan" /\ k' = k
      BY <1>13, <2>3 DEF ConversionEnds
    <3>2. Call' = Call /\ (More' <=> More)
      BY <2>1, <3>1 DEF Call, Calls, More
    <3>3. ASSUME ~ More, LineEnds(Call) PROVE EndsLine(sent[k])
      <4>1. FtFputchar(NewLine, Call.fd) # <<>>
        BY DEF FtFputchar
      <4> QED
        BY <2>1, <2>3, <3>3, <4>1 DEF Ending
    <3> QED
      BY <2>1, <3>1, <3>2, <3>3 DEF Ending
  <2> QED
    BY <2>2, <2>3
<1>14. CASE Done
  BY <1>14 DEF Done, vars, Ending, Call, Calls, More
<1> QED
  BY <1>4, <1>5, <1>6, <1>7, <1>10, <1>11, <1>12, <1>13, <1>14 DEF Next

(* A call that fails says so. *)
LEMMA FailedVerdict ==
  ASSUME NEW call, NEW items, NEW harmed,
         Sound(call) =>
           /\ Len(Expected(call)) \in Nat /\ harmed
           /\ Expected(call) # <<>> => items # Expected(call)
  PROVE  Verdict(call, -1, items, harmed)
<1>1. ~ (-1 >= 0) /\ \A l \in Nat : -1 # l
  OBVIOUS
<1> QED
  BY <1>1 DEF Verdict

(* The '%' of a format all of whose conversions are known is followed by a *)
(* known letter.                                                           *)
LEMMA SoundKnown ==
  ASSUME ScanInv, Scanning, Call.fmt[pos] = Percent, Sound(Call)
  PROVE  Known
<1>1. /\ Typed /\ Place(Call, pos, arg) /\ pos <= Len(Call.fmt) /\ k <= Len(Calls)
      /\ pos \in Nat
  BY DEF ScanInv, Scanning, More, Placed, Typed
<1>2. Call.fmt \in Seq(STRING) /\ Len(Call.fmt) \in Nat
  BY <1>1, AtCall
<1>3. /\ pos - 1 \in Nat /\ (pos - 1) + 1 = pos /\ (pos + 1) - 1 = pos
  BY <1>1 DEF Place
<1>4. IsLetter(Call, pos + 1)
  <2>1. Behind(Call)[pos] = Beyond(Call, pos, Behind(Call)[pos - 1])
    BY <1>3, BehindAre
  <2>2. Behind(Call)[pos - 1] = [letter |-> FALSE, arg |-> arg]
    BY <1>1 DEF Place
  <2>3. Beyond(Call, pos, [letter |-> FALSE, arg |-> arg]) = [letter |-> TRUE, arg |-> arg]
    BY DEF Beyond
  <2> QED
    BY <1>3, <2>1, <2>2, <2>3 DEF IsLetter
<1>5. /\ Reaches(Call, Len(Call.fmt) + 1)
      /\ ~ IsLetter(Call, Len(Call.fmt) + 1)
  BY DEF Sound
<1>6. pos < Len(Call.fmt)
  <2>1. pos # Len(Call.fmt)
    BY <1>4, <1>5
  <2> QED
    BY <1>1, <1>2, <2>1
<1>7. pos + 1 \in 1..((Len(Call.fmt) + 1) - 1)
  BY <1>1, <1>2, <1>6
<1>8. Call.fmt[pos + 1] \in Conversions
  BY <1>4, <1>5, <1>7 DEF Reaches
<1> QED
  BY <1>6, <1>8 DEF Known

(* No step returns a result that hides a loss. *)
LEMMA NextVerdicts ==
  ASSUME PrintfInv, Next
  PROVE  Verdicts'
<1>1. Typed /\ Placed /\ Idle /\ ScanInv /\ Ending /\ Loss /\ Verdicts
  BY DEF PrintfInv, ScanInv
<1>2. pc # "call" => k <= Len(Calls)
  BY <1>1 DEF Typed
<1>3. sent \in Seq(Seq(Items)) /\ Len(sent) = (IF pc = "call" THEN k - 1 ELSE k)
      /\ k \in Nat /\ k >= 1
  <2>1. k \in 1..(Len(Calls) + 1) /\ Len(Calls) \in Nat
    BY <1>1 DEF Typed
  <2> QED
    BY <1>1, <2>1 DEF Typed
<1>4. ASSUME pc = "call", sent' = Append(sent, <<>>)
      PROVE  sent'[k] = <<>> /\ \A m \in 1..(k - 1) : sent'[m] = sent[m]
  <2>1. <<>> \in Seq(Items) /\ Len(sent) = k - 1 /\ (k - 1) + 1 = k
    BY <1>3, <1>4
  <2> QED
    BY <1>3, <1>4, <2>1, Appending
<1>5. CASE Refuse
  <2>1. /\ pc = "call" /\ k <= Len(Calls) /\ sent' = Append(sent, <<>>) /\ Return(-1)
        /\ Unusable /\ UNCHANGED <<s, closed, failures>>
    BY <1>5 DEF Refuse
  <2>2. sent'[k] = <<>> /\ \A m \in 1..(k - 1) : sent'[m] = sent[m]
    BY <1>4, <2>1
  <2>3. Verdict(Call, -1, sent'[k], Troubled(Call))
    <3>1. Sound(Call) => Len(Expected(Call)) \in Nat
      BY <1>1, <2>1, AtCall, DueIs
    <3>2. Sound(Call) => Troubled(Call)
      BY <2>1 DEF Unusable, Sound, Troubled
    <3> QED
      BY <2>2, <3>1, <3>2, FailedVerdict
  <2>4. -1 \in Int
    OBVIOUS
  <2> QED
    BY <1>1, <2>1, <2>2, <2>3, <2>4, VerdictsGrow
<1>6. CASE Enter
  <2>1. pc = "call" /\ sent' = Append(sent, <<>>) /\ UNCHANGED <<s, closed, failures, results>>
    BY <1>6 DEF Enter
  <2> QED
    BY <1>1, <1>4, <2>1, VerdictsKept DEF Lasting
<1>7. ASSUME UNCHANGED <<s, sent, results>>, Lasting PROVE Verdicts'
  BY <1>1, <1>7, VerdictsKept
<1>8. CASE PlainChar \/ Convert \/ Overrun \/ WriteRefused \/ Done
  <2>1. UNCHANGED <<s, closed, sent, results>>
    BY <1>8 DEF PlainChar, Convert, Overrun, WriteRefused, Done, vars
  <2>2. failures' = failures \/ failures' = failures + 1
    BY <1>8 DEF PlainChar, Convert, Overrun, WriteRefused, Done, vars
  <2>3. failures \in Nat
    BY <1>1 DEF Typed
  <2>4. Lasting
    BY <2>1, <2>2, <2>3 DEF Lasting
  <2> QED
    BY <1>7, <2>1, <2>4
<1>9. CASE Unknown
  <2>1. /\ Scanning /\ Call.fmt[pos] = Percent /\ ~ Known /\ Return(-1)
        /\ UNCHANGED <<s, closed, failures, sent>>
    BY <1>9 DEF Unknown
  <2>2. ~ Sound(Call)
    BY <1>1, <2>1, SoundKnown
  <2>3. Verdict(Call, -1, sent'[k], Troubled(Call))
    BY <2>2, FailedVerdict
  <2> QED
    BY <1>1, <1>2, <2>1, <2>3, VerdictsGrow DEF Scanning
<1>10. CASE EndOfFormat
  <2>1. /\ pc = "scan" /\ (~ More \/ cnt2 = -1) /\ Return(cnt2)
        /\ UNCHANGED <<s, closed, failures, sent>>
    BY <1>10 DEF EndOfFormat
  <2>2. /\ k <= Len(Calls) /\ runs = <<>> /\ cnt2 \in Int /\ Count = cnt2
        /\ sent[k] \in Seq(Items) /\ Len(sent[k]) \in Nat
        /\ Wrote(runs) = <<>> /\ Rest = 0
    BY <1>1, <1>2, <2>1, Amounts DEF Idle, Count
  <2>3. cnt2 # -1 /\ LineEnds(Call) => EndsLine(sent[k])
    BY <1>1, <2>1 DEF Ending
  <2>4. ASSUME Sound(Call)
        PROVE  /\ cnt2 = Len(Expected(Call)) <=> sent[k] = Expected(Call)
               /\ ~ Troubled(Call) => sent[k] = Expected(Call)
    <3>1. /\ pos \in 1..(Len(Call.fmt) + 1) /\ Len(Call.fmt) \in Nat
          /\ Len(Due) \in Nat /\ Len(Due) <= Len(Expected(Call))
          /\ Len(Expected(Call)) \in Nat
          /\ pos = Len(Call.fmt) + 1 => Due = Expected(Call)
      BY <1>1, <2>1, <2>4, DueHere
    <3>2. CASE Lacking
      <4>1. Len(sent[k]) + 0 < Len(Due) /\ cnt2 + 0 < Len(Due)
        BY <2>2, <3>2 DEF Lacking
      <4>2. Len(sent[k]) < Len(Expected(Call)) /\ cnt2 < Len(Expected(Call))
        BY <2>2, <3>1, <4>1
      <4>3. Len(sent[k]) # Len(Expected(Call)) /\ cnt2 # Len(Expected(Call))
        BY <2>2, <3>1, <4>2
      <4>4. Troubled(Call)
        BY <3>2 DEF Lacking
      <4> QED
        BY <4>3, <4>4
    <3>3. CASE Faithful
      <4>1. sent[k] \o <<>> = Due /\ cnt2 + 0 = Len(Due)
        BY <2>2, <3>3 DEF Faithful
      <4>2. sent[k] = Due /\ cnt2 = Len(Due)
        BY <2>2, <4>1, ConcatEmptySeq
      <4>3. cnt2 # -1
        BY <3>1, <4>2
      <4>4. pos = Len(Call.fmt) + 1
        <5>1. ~ (pos <= Len(Call.fmt))
          BY <2>1, <4>3 DEF More
        <5> QED
          BY <3>1, <5>1
      <4> QED
        BY <3>1, <4>2, <4>4
    <3> QED
      BY <1>1, <2>1, <2>4, <3>2, <3>3 DEF Loss
  <2>5. Verdict(Call, cnt2, sent'[k], Troubled(Call))
    BY <2>1, <2>3, <2>4 DEF Verdict
  <2> QED
    BY <1>1, <2>1, <2>2, <2>5, VerdictsGrow
<1>11. ASSUME Writing, NEW n \in 0..Len(Head(runs).text), Take(n), UNCHANGED <<s, results>>,
              Lasting
       PROVE  Verdicts'
  <2>1. \A m \in 1..(k - 1) : sent'[m] = sent[m]
    BY <1>1, <1>2, <1>11, Taken DEF Writing
  <2> QED
    BY <1>1, <1>11, <2>1, VerdictsKept
<1>12. ASSUME Writing PROVE Len(Head(runs).text) \in Nat
  BY <1>1, <1>2, <1>12, NextWrite DEF Writing
<1>13. CASE WriteAll
  <2>1. Writing /\ Take(Len(Head(runs).text)) /\ UNCHANGED <<s, results>>
        /\ Lasting
    BY <1>13 DEF WriteAll, Lasting
  <2>2. Len(Head(runs).text) \in 0..Len(Head(runs).text)
    BY <1>12, <2>1
  <2> QED
    BY <1>11, <2>1, <2>2
<1>14. CASE WriteShort
  <2>1. Writing /\ UNCHANGED <<s, results>>
    BY <1>14 DEF WriteShort
  <2>2. PICK n \in 1..(Len(Head(runs).text) - 1) : Take(n)
    BY <1>14 DEF WriteShort
  <2>3. n \in 0..Len(Head(runs).text)
    BY <1>12, <2>1
  <2>4. Lasting
    <3>1. closed' = closed /\ failures' = failures + 1 /\ failures \in Nat
      BY <1>1, <1>14 DEF Typed, WriteShort
    <3> QED
      BY <3>1 DEF Lasting
  <2> QED
    BY <1>11, <2>1, <2>2, <2>3, <2>4
<1>15. CASE ConversionEnds
  <2>1. pc = "write" /\ runs = <<>> /\ UNCHANGED <<s, closed, failures, sent>>
    BY <1>15 DEF ConversionEnds
  <2>2. CASE flag = -1
    <3>1. Return(-1)
      BY <1>15, <2>2 DEF ConversionEnds
    <3>2. /\ k <= Len(Calls) /\ sent[k] \in Seq(Items) /\ Len(sent[k]) \in Nat /\ Rest = 0
      BY <1>1, <1>2, <2>1, Amounts
    <3>3. ASSUME Sound(Call)
          PROVE  /\ Len(Expected(Call)) \in Nat /\ sent[k] # Expected(Call)
                 /\ Troubled(Call)
      <4>1. /\ Len(Due) \in Nat /\ Len(Due) <= Len(Expected(Call))
            /\ Len(Expected(Call)) \in Nat
        BY <1>1, <2>1, <3>3, DueHere
      <4>2. ~ Faithful
        <5>1. ~ (-1 >= 0)
          OBVIOUS
        <5> QED
          BY <2>1, <2>2, <5>1 DEF Faithful
      <4>3. Lacking
        BY <1>1, <2>1, <3>3, <4>2 DEF Loss
      <4>4. Len(sent[k]) + 0 < Len(Due) /\ Troubled(Call)
        BY <3>2, <4>3 DEF Lacking
      <4>5. Len(sent[k]) # Len(Expected(Call))
        BY <3>2, <4>1, <4>4
      <4> QED
        BY <4>1, <4>4, <4>5
    <3>4. Verdict(Call, -1, sent'[k], Troubled(Call))
      BY <2>1, <3>3, FailedVerdict
    <3> QED
      BY <1>1, <2>1, <3>1, <3>2, <3>4, VerdictsGrow
  <2>3. CASE flag # -1
    <3>1. results' = results
      BY <1>15, <2>3 DEF ConversionEnds
    <3> QED
      BY <1>7, <2>1, <3>1 DEF Lasting
  <2> QED
    BY <2>2, <2>3
<1> QED
  BY <1>5, <1>6, <1>8, <1>9, <1>10, <1>13, <1>14, <1>15 DEF Next

-----------------------------------------------------------------------------
(* Theorems. *)

(* The inductive invariant of a session of calls. *)
THEOREM PrintfInvHolds == Spec => []PrintfInv
<1>1. PrintfInv /\ [Next]_vars => PrintfInv'
  <2> SUFFICES ASSUME PrintfInv, [Next]_vars PROVE PrintfInv'
    OBVIOUS
  <2>1. ScanInv'
    BY NextScan DEF PrintfInv
  <2>2. CASE Next
    BY <2>1, <2>2, NextEnding, NextLoss, NextGoing, NextVerdicts DEF PrintfInv
  <2>3. CASE UNCHANGED vars
    <3>1. Ending' /\ Loss' /\ Going'
      BY <2>3 DEF PrintfInv, vars, Ending, Loss, Faithful, Lacking, Troubled, Going, Call,
                  Calls, More, Due, Rest, Count
    <3>2. Verdicts'
      BY <2>3 DEF PrintfInv, vars, Verdicts, Calls, Troubled
    <3> QED
      BY <2>1, <3>1, <3>2 DEF PrintfInv
  <2> QED
    BY <2>2, <2>3
<1> QED
  BY <1>1, InitPrintf, PTL DEF Spec

(* Every write of ft_printf and ft_fprintf goes to standard output or      *)
(* standard error, has at least one byte and stays inside its buffer, and  *)
(* each call returns once, for every session of calls.                     *)
THEOREM TypesHold == Spec => []TypeOK
<1>1. PrintfInv => TypeOK
  <2> SUFFICES ASSUME PrintfInv PROVE TypeOK
    OBVIOUS
  <2>1. Typed
    BY DEF PrintfInv, ScanInv
  <2>2. \A n \in DOMAIN runs : runs[n].fd \in {1, 2} /\ runs[n].text # <<>> /\ runs[n].fits
    <3>1. runs \in Seq(OneOf) /\ Fit(runs)
      BY <2>1 DEF Typed
    <3>2. DOMAIN runs = 1..Len(runs) /\ \A n \in 1..Len(runs) : runs[n] \in OneOf
      BY <3>1
    <3> QED
      BY <3>1, <3>2 DEF Fit, OneOf, Texts
  <2> QED
    BY <2>1, <2>2 DEF Typed, TypeOK
<1> QED
  BY <1>1, PrintfInvHolds, PTL

(* The digits of every pointer and every number fit the buffer they are    *)
(* written to, for every width of an unsigned int, except for octal ones.  *)
THEOREM BuffersHoldHolds == Spec => []BuffersHold
<1>1. PrintfInv => BuffersHold
  BY DEF PrintfInv, ScanInv
<1> QED
  BY <1>1, PrintfInvHolds, PTL

(* The result of a call is the length of its text exactly when every       *)
(* character reached its descriptor, in order and once, whichever writes   *)
(* are refused or cut short.                                               *)
THEOREM ResultTellsLossHolds == Spec => []ResultTellsLoss
<1>1. PrintfInv => ResultTellsLoss
  BY VerdictsSay DEF PrintfInv
<1> QED
  BY <1>1, PrintfInvHolds, PTL

(* With its descriptors open and no write refused or cut short, a call of  *)
(* ft_printf or ft_fprintf writes exactly what its format and its arguments *)
(* mean and returns the number of characters, for every format, every      *)
(* argument and every width of an unsigned int.                            *)
THEOREM PrintsExpectedHolds == Spec => []PrintsExpected
<1>1. PrintfInv => PrintsExpected
  BY VerdictsSay DEF PrintfInv
<1> QED
  BY <1>1, PrintfInvHolds, PTL

(* A call with a result other than -1 has ended its line, whichever writes *)
(* are refused or cut short: only -1 can leave a line open.                *)
THEOREM LinesTerminatedHolds == Spec => []LinesTerminated
<1>1. PrintfInv => LinesTerminated
  BY VerdictsSay DEF PrintfInv
<1> QED
  BY <1>1, PrintfInvHolds, PTL

-----------------------------------------------------------------------------
(* The parts of a text. *)

(* Texts that have at least one part. *)
Rows(C) == Seq(Seq(C)) \ {<<>>}

(* What a character adds to the parts. *)
Grown(parts, c, sep) ==
  IF c = sep THEN Append(parts, <<>>)
             ELSE Append(Front(parts), Append(Last(parts), c))

LEMMA GrownIs ==
  ASSUME NEW C, NEW parts \in Rows(C), NEW c \in C, NEW sep
  PROVE  /\ Grown(parts, c, sep) \in Rows(C)
         /\ Front(parts) \in Seq(Seq(C)) /\ Last(parts) \in Seq(C)
<1>1. parts \in Seq(Seq(C)) /\ Len(parts) \in Nat /\ Len(parts) >= 1
  BY DEF Rows
<1>2. Front(parts) \in Seq(Seq(C))
  <2>1. 1 <= Len(parts) /\ 1 <= (Len(parts) - 1) + 1 /\ Len(parts) - 1 <= Len(parts)
        /\ Len(parts) - 1 \in Int
    BY <1>1
  <2> QED
    BY <1>1, <2>1, Slice DEF Front
<1>3. Last(parts) \in Seq(C)
  <2>1. Len(parts) \in 1..Len(parts)
    BY <1>1
  <2> QED
    BY <1>1, <2>1 DEF Last
<1>4. ASSUME NEW x \in Seq(C), NEW y \in Seq(Seq(C)) PROVE Append(y, x) \in Rows(C)
  <2>1. Append(y, x) \in Seq(Seq(C)) /\ Len(Append(y, x)) = Len(y) + 1 /\ Len(y) \in Nat
    BY Appending
  <2>2. Append(y, x) # <<>>
    BY <2>1
  <2> QED
    BY <2>1, <2>2 DEF Rows
<1>5. Append(parts, <<>>) \in Rows(C)
  BY <1>1, <1>4, NoElements
<1>6. Append(Front(parts), Append(Last(parts), c)) \in Rows(C)
  <2>1. Append(Last(parts), c) \in Seq(C)
    BY <1>3, Appending
  <2> QED
    BY <1>2, <1>4, <2>1
<1> QED
  BY <1>2, <1>3, <1>5, <1>6 DEF Grown

(* The parts of a text grow with it. *)
LEMMA PartsAre ==
  ASSUME NEW C, NEW text \in Seq(C), NEW sep
  PROVE  LET P == Parts(text, sep)
         IN  /\ P[0] = << <<>> >>
             /\ \A n \in 0..Len(text) : P[n] \in Rows(C)
             /\ \A n \in 1..Len(text) : P[n] = Grown(P[n - 1], text[n], sep)
<1> DEFINE D == 0..Len(text)
           S == Rows(C)
           G(n, p) == IF n = 0 THEN p ELSE Grown(p, text[n], sep)
           g == [p \in D \X S |-> G(p[1], p[2])]
           start == << <<>> >>
<1>1. Len(text) \in Nat /\ \A n \in 1..Len(text) : text[n] \in C
  OBVIOUS
<1>2. start \in S
  <2>1. <<>> \in Seq(C)
    BY NoElements
  <2>2. start \in Seq(Seq(C)) /\ start # <<>>
    BY <2>1, OneElement
  <2> QED
    BY <2>2 DEF Rows
<1>3. Initial(D)
  BY <1>1 DEF Initial
<1>4. ASSUME NEW n \in D, NEW p \in S PROVE G(n, p) \in S
  <2>1. n # 0 => n \in 1..Len(text)
    BY <1>1
  <2> QED
    BY <1>1, <2>1, GrownIs
<1> HIDE DEF S, G
<1>5. g \in [D \X S -> S] /\ \A n \in D, p \in S : g[<<n, p>>] = G(n, p)
  BY <1>4
<1> HIDE DEF g
<1>6. PICK f \in [D -> S] : Follows(f, D, start, g)
  <2> HIDE DEF D, start
  <2> QED
    BY <1>2, <1>3, <1>5, Recursion, Zenon
<1>7. \A n \in D : n # 0 => n - 1 \in D
  BY <1>1
<1>8. \A n \in D : f[n] = IF n = 0 THEN start ELSE Grown(f[n - 1], text[n], sep)
  <2> SUFFICES ASSUME NEW n \in D
               PROVE  f[n] = IF n = 0 THEN start ELSE Grown(f[n - 1], text[n], sep)
    OBVIOUS
  <2>1. f[n] = IF n = 0 THEN start ELSE g[<<n, f[n - 1]>>]
    BY <1>6 DEF Follows
  <2>2. ASSUME n # 0 PROVE g[<<n, f[n - 1]>>] = Grown(f[n - 1], text[n], sep)
    <3>1. n - 1 \in D
      BY <1>7, <2>2
    <3>2. f[n - 1] \in S
      BY <1>6, <3>1
    <3> QED
      BY <1>5, <2>2, <3>2 DEF G
  <2> QED
    BY <2>1, <2>2
<1>9. f = [n \in D |-> IF n = 0 THEN start ELSE Grown(f[n - 1], text[n], sep)]
  <2> HIDE DEF D, start
  <2> QED
    BY <1>6, <1>8
<1> DEFINE h == Parts(text, sep)
<1>10. h = [n \in D |-> IF n = 0 THEN start ELSE Grown(h[n - 1], text[n], sep)]
  <2>1. h = CHOOSE e : e = [n \in D |-> IF n = 0 THEN start ELSE Grown(e[n - 1], text[n], sep)]
    BY DEF Parts, Grown
  <2> HIDE DEF h, D, start
  <2> QED
    BY <1>9, <2>1
<1> HIDE DEF h
<1>11. h = f
  <2> HIDE DEF D, start
  <2>1. h = [n \in D |-> h[n]]
    BY <1>10
  <2>2. \A n \in D : h[n] = IF n = 0 THEN start ELSE Grown(h[n - 1], text[n], sep)
    BY <1>10
  <2>3. f = [n \in D |-> f[n]]
    BY <1>6
  <2>4. \A n \in D : (n # 0 => h[n - 1] = f[n - 1]) => h[n] = f[n]
    BY <1>8, <2>2
  <2>5. Tracks(h, f, D)
    BY <2>1, <2>3, <2>4 DEF Tracks
  <2> QED
    BY <1>3, <2>5, SameFunction
<1>12. 0 \in D /\ h[0] = start
  BY <1>1, <1>8, <1>11
<1>13. \A n \in 0..Len(text) : h[n] \in S
  BY <1>6, <1>11
<1>14. \A n \in 1..Len(text) : h[n] = Grown(h[n - 1], text[n], sep)
  <2>1. \A n \in 1..Len(text) : n \in D /\ n # 0
    BY <1>1
  <2> QED
    BY <1>8, <1>11, <2>1
<1> QED
  BY <1>12, <1>13, <1>14 DEF h, S, start

(* A character more. *)
LEMMA SplitMore ==
  ASSUME NEW C, NEW text \in Seq(C), NEW c \in C, NEW sep
  PROVE  /\ Split(<<>>, sep) = << <<>> >>
         /\ Split(text, sep) \in Rows(C)
         /\ Split(Append(text, c), sep) = Grown(Split(text, sep), c, sep)
<1> DEFINE more == Append(text, c)
           P == Parts(text, sep)
           Q == Parts(more, sep)
           l == Len(text)
           differ == {n \in 0..l : P[n] # Q[n]}
<1>1. /\ more \in Seq(C) /\ Len(more) = l + 1 /\ l \in Nat
      /\ \A n \in 1..l : more[n] = text[n]
      /\ more[l + 1] = c
  BY Appending
<1>2. /\ P[0] = << <<>> >> /\ \A n \in 0..l : P[n] \in Rows(C)
      /\ \A n \in 1..l : P[n] = Grown(P[n - 1], text[n], sep)
  BY PartsAre
<1> HIDE DEF more
<1>3. /\ Q[0] = << <<>> >>
      /\ \A n \in 1..(l + 1) : Q[n] = Grown(Q[n - 1], more[n], sep)
  BY <1>1, PartsAre
<1> HIDE DEF P, Q, l
<1>4. differ = {}
  <2> SUFFICES ASSUME differ # {} PROVE FALSE
    OBVIOUS
  <2>1. PICK n \in differ : \A j \in differ : n <= j
    <3>1. differ \subseteq Nat
      BY <1>1
    <3> HIDE DEF differ
    <3> QED
      BY <3>1, Least
  <2>2. n # 0 /\ n \in 0..l
    BY <1>2, <1>3
  <2>3. /\ n \in 1..l /\ n \in 1..(l + 1) /\ n - 1 \in 0..l /\ ~ (n <= n - 1)
    BY <1>1, <2>2
  <2>4. P[n - 1] = Q[n - 1]
    BY <2>1, <2>3
  <2>5. P[n] = Q[n]
    BY <1>1, <1>2, <1>3, <2>3, <2>4
  <2> QED
    BY <2>1, <2>5
<1>5. l \in 0..l /\ l + 1 \in 1..(l + 1) /\ (l + 1) - 1 = l
  BY <1>1
<1>6. P[l] = Q[l]
  BY <1>4, <1>5
<1>7. Q[l + 1] = Grown(P[l], c, sep)
  BY <1>1, <1>3, <1>5, <1>6
<1>8. Split(text, sep) = P[l] /\ Split(more, sep) = Q[l + 1]
  BY <1>1 DEF Split, P, Q, l
<1>9. Split(<<>>, sep) = << <<>> >>
  <2>1. <<>> \in Seq(C) /\ Len(<<>>) = 0
    BY NoElements
  <2>2. Parts(<<>>, sep)[0] = << <<>> >>
    BY <2>1, PartsAre
  <2> QED
    BY <2>1, <2>2 DEF Split
<1> QED
  BY <1>2, <1>5, <1>7, <1>8, <1>9 DEF more

(* The parts of a text that ends with a separator. *)
Closed(text, sep, lines) == Split(text, sep) = Append(lines, <<>>)

(* Growing a part. *)
LEMMA LastPart ==
  ASSUME NEW C, NEW lines \in Seq(Seq(C)), NEW x \in Seq(C)
  PROVE  /\ Front(Append(lines, x)) = lines /\ Last(Append(lines, x)) = x
         /\ Append(lines, x) \in Rows(C)
<1> DEFINE p == Append(lines, x)
<1>1. /\ p \in Seq(Seq(C)) /\ Len(p) = Len(lines) + 1 /\ Len(lines) \in Nat
      /\ \A i \in 1..Len(lines) : p[i] = lines[i]
      /\ p[Len(lines) + 1] = x
  BY Appending
<1> HIDE DEF p
<1>2. Last(p) = x
  BY <1>1 DEF Last
<1>3. Front(p) = lines
  <2>1. (Len(lines) + 1) - 1 = Len(lines)
    BY <1>1
  <2>2. Front(p) = SubSeq(p, 1, Len(lines))
    BY <1>1, <2>1 DEF Front
  <2>3. 1 <= Len(lines) + 1 /\ Len(lines) <= Len(p) /\ Len(lines) - 1 + 1 = Len(lines)
        /\ \A i \in 1..Len(lines) : 1 + i - 1 = i
    BY <1>1
  <2>4. /\ SubSeq(p, 1, Len(lines)) \in Seq(Seq(C))
        /\ Len(SubSeq(p, 1, Len(lines))) = Len(lines)
        /\ \A i \in 1..Len(lines) : SubSeq(p, 1, Len(lines))[i] = p[i]
    BY <1>1, <2>3, Slice
  <2> QED
    BY <1>1, <2>2, <2>4, SeqEqual
<1>4. p \in Rows(C)
  BY <1>1 DEF Rows
<1> QED
  BY <1>2, <1>3, <1>4 DEF p

(* A word behind it, and one more separator. *)
LEMMA SplitWord ==
  ASSUME NEW C, NEW text \in Seq(C), NEW word \in Seq(C), NEW sep,
         Without(word, sep), NEW lines \in Seq(Seq(C)), Closed(text, sep, lines)
  PROVE  Split(text \o word, sep) = Append(lines, word)
<1> DEFINE w(i) == SubSeq(word, 1, i)
           l == Len(word)
           bad == {i \in 0..l : Split(text \o w(i), sep) # Append(lines, w(i))}
<1>1. l \in Nat /\ \A i \in 1..l : word[i] \in C /\ word[i] # sep
  BY DEF Without
<1>2. w(0) = <<>> /\ w(l) = word
  OBVIOUS
<1>3. \A i \in 0..l : w(i) \in Seq(C)
  OBVIOUS
<1>4. \A i \in 1..l : w(i) = Append(w(i - 1), word[i])
  BY OneLonger
<1> HIDE DEF w, l
<1>5. bad = {}
  <2> SUFFICES ASSUME bad # {} PROVE FALSE
    OBVIOUS
  <2>1. PICK n \in bad : \A j \in bad : n <= j
    <3>1. bad \subseteq Nat
      BY <1>1
    <3> HIDE DEF bad
    <3> QED
      BY <3>1, Least
  <2>2. CASE n = 0
    <3>1. text \o <<>> = text
      BY ConcatEmptySeq
    <3>2. Split(text \o w(0), sep) = Append(lines, w(0))
      BY <1>2, <3>1 DEF Closed
    <3> QED
      BY <2>1, <2>2, <3>2
  <2>3. CASE n # 0
    <3> DEFINE v == w(n - 1)
               x == text \o v
    <3>1. n \in 1..l /\ n - 1 \in 0..l /\ ~ (n <= n - 1)
      BY <1>1, <2>1, <2>3
    <3>2. Split(x, sep) = Append(lines, v)
      BY <2>1, <3>1
    <3>3. v \in Seq(C) /\ word[n] \in C /\ word[n] # sep /\ w(n) = Append(v, word[n])
      BY <1>1, <1>3, <1>4, <3>1
    <3> HIDE DEF v
    <3>4. text \o w(n) = Append(x, word[n]) /\ x \in Seq(C)
      <4>1. text \o Append(v, word[n]) = Append(x, word[n]) /\ x \in Seq(C)
        BY <3>3, AppendJoined, Zenon
      <4> QED
        BY <3>3, <4>1, Zenon
    <3> HIDE DEF x
    <3>5. Split(text \o w(n), sep) = Grown(Append(lines, v), word[n], sep)
      <4>1. Split(Append(x, word[n]), sep) = Grown(Split(x, sep), word[n], sep)
        BY <3>3, <3>4, SplitMore
      <4> QED
        BY <3>2, <3>4, <4>1
    <3>6. Grown(Append(lines, v), word[n], sep) = Append(lines, w(n))
      <4>1. Front(Append(lines, v)) = lines /\ Last(Append(lines, v)) = v
        BY <3>3, LastPart
      <4> QED
        BY <3>3, <4>1 DEF Grown
    <3> QED
      BY <2>1, <3>5, <3>6
  <2> QED
    BY <2>2, <2>3
<1>6. Split(text \o w(l), sep) = Append(lines, w(l))
  <2>1. l \in 0..l
    BY <1>1
  <2> QED
    BY <1>5, <2>1
<1> QED
  BY <1>2, <1>6

LEMMA SplitLine ==
  ASSUME NEW C, NEW text \in Seq(C), NEW word \in Seq(C), NEW sep \in C,
         Without(word, sep), NEW lines \in Seq(Seq(C)), Closed(text, sep, lines)
  PROVE  Closed(text \o Append(word, sep), sep, Append(lines, word))
<1> DEFINE t == text \o word
<1>1. text \o Append(word, sep) = Append(t, sep) /\ t \in Seq(C)
  OBVIOUS
<1>2. Split(t, sep) = Append(lines, word)
  BY SplitWord
<1> HIDE DEF t
<1>3. Split(Append(t, sep), sep) = Grown(Split(t, sep), sep, sep)
  BY <1>1, SplitMore
<1> QED
  BY <1>1, <1>2, <1>3 DEF Closed, Grown

LEMMA SplitNothing ==
  ASSUME NEW sep
  PROVE  Closed(<<>>, sep, <<>>)
<1>1. <<>> \in Seq({1}) /\ 1 \in {1}
  BY NoElements
<1>2. Split(<<>>, sep) = << <<>> >>
  BY <1>1, SplitMore
<1> QED
  BY <1>2 DEF Closed

-----------------------------------------------------------------------------
(* Reading hexadecimal digits back. *)

(* The digit a character stands for. *)
DigitOf(c) == CHOOSE d \in 0..15 : LOWER[d + 1] = c

LEMMA DigitIs ==
  ASSUME NEW d \in 0..15
  PROVE  DigitOf(LOWER[d + 1]) = d
<1>1. \A i \in 1..16, j \in 1..16 : LOWER[i] = LOWER[j] => i = j
  BY SMT DEF LOWER
<1>2. \A e \in 0..15 : e + 1 \in 1..16
  OBVIOUS
<1>3. ASSUME NEW e \in 0..15, LOWER[e + 1] = LOWER[d + 1] PROVE e = d
  <2>1. e + 1 = d + 1
    BY <1>1, <1>2, <1>3
  <2> QED
    BY <2>1
<1> QED
  BY <1>3 DEF DigitOf

(* The value of a numeral, digit by digit. *)
LEMMA ValuesAre ==
  ASSUME NEW digits, Len(digits) \in Nat,
         \A n \in 1..Len(digits) : DigitOf(digits[n]) \in Nat
  PROVE  LET V == Values(digits)
         IN  /\ V[0] = 0
             /\ \A n \in 1..Len(digits) : V[n] = 16 * V[n - 1] + DigitOf(digits[n])
<1> DEFINE D == 0..Len(digits)
           G(n, v) == IF n = 0 THEN v ELSE 16 * v + DigitOf(digits[n])
           g == [p \in D \X Nat |-> G(p[1], p[2])]
<1>1. Initial(D) /\ \A n \in D : n # 0 => n \in 1..Len(digits) /\ n - 1 \in D
  BY DEF Initial
<1>2. ASSUME NEW n \in D, NEW v \in Nat PROVE G(n, v) \in Nat
  <2>1. n # 0 => DigitOf(digits[n]) \in Nat
    BY <1>1
  <2> QED
    BY <2>1
<1> HIDE DEF G
<1>3. g \in [D \X Nat -> Nat] /\ \A n \in D, v \in Nat : g[<<n, v>>] = G(n, v)
  BY <1>2
<1> HIDE DEF g
<1>4. PICK f \in [D -> Nat] : Follows(f, D, 0, g)
  <2>1. 0 \in Nat
    OBVIOUS
  <2> HIDE DEF D
  <2> QED
    BY <1>1, <1>3, <2>1, Recursion, Zenon
<1>5. \A n \in D : f[n] = IF n = 0 THEN 0 ELSE 16 * f[n - 1] + DigitOf(digits[n])
  <2>1. ASSUME NEW n \in D, n # 0
        PROVE  g[<<n, f[n - 1]>>] = 16 * f[n - 1] + DigitOf(digits[n])
    <3>1. f[n - 1] \in Nat
      BY <1>1, <1>4, <2>1
    <3> QED
      BY <1>3, <2>1, <3>1 DEF G
  <2> QED
    BY <1>4, <2>1 DEF Follows
<1>6. f = [n \in D |-> IF n = 0 THEN 0 ELSE 16 * f[n - 1] + DigitOf(digits[n])]
  <2> HIDE DEF D
  <2> QED
    BY <1>4, <1>5
<1> DEFINE h == Values(digits)
<1>7. h = [n \in D |-> IF n = 0 THEN 0 ELSE 16 * h[n - 1] + DigitOf(digits[n])]
  <2>1. h = CHOOSE e : e = [n \in D |-> IF n = 0 THEN 0 ELSE 16 * e[n - 1] + DigitOf(digits[n])]
    BY DEF Values, DigitOf
  <2> HIDE DEF h, D
  <2> QED
    BY <1>6, <2>1
<1> HIDE DEF h
<1>8. h = f
  <2> HIDE DEF D
  <2>1. h = [n \in D |-> h[n]]
    BY <1>7
  <2>2. \A n \in D : h[n] = IF n = 0 THEN 0 ELSE 16 * h[n - 1] + DigitOf(digits[n])
    BY <1>7
  <2>3. f = [n \in D |-> f[n]]
    BY <1>4
  <2>4. \A n \in D : (n # 0 => h[n - 1] = f[n - 1]) => h[n] = f[n]
    BY <1>5, <2>2
  <2>5. Tracks(h, f, D)
    BY <2>1, <2>3, <2>4 DEF Tracks
  <2> QED
    BY <1>1, <2>5, SameFunction
<1>9. h[0] = 0 /\ \A n \in 1..Len(digits) : h[n] = 16 * h[n - 1] + DigitOf(digits[n])
  <2>1. 0 \in D /\ \A n \in 1..Len(digits) : n \in D /\ n # 0
    OBVIOUS
  <2> QED
    BY <1>5, <1>8, <2>1
<1> QED
  BY <1>9 DEF h

(* The last w digits of v. *)
Hex(v, w) == [i \in 1..w |-> LOWER[(Quotients(v, 16)[w - i] % 16) + 1]]

LEMMA HexIs ==
  ASSUME NEW v \in Nat, NEW w \in Nat
  PROVE  /\ Hex(v, w) \in Seq(Chars) /\ Len(Hex(v, w)) = w
         /\ \A i \in 1..w :
              /\ Hex(v, w)[i] = LOWER[(Quotients(v, 16)[w - i] % 16) + 1]
              /\ DigitOf(Hex(v, w)[i]) = Quotients(v, 16)[w - i] % 16
              /\ Quotients(v, 16)[w - i] \in Nat
              /\ Quotients(v, 16)[(w - i) + 1] = Quotients(v, 16)[w - i] \div 16
<1> DEFINE Q == Quotients(v, 16)
           D(i) == (Q[w - i] % 16) + 1
<1>1. \A m \in Nat : Q[m] \in Nat /\ Q[m + 1] = Q[m] \div 16
  <2>1. \A m \in Nat : m + 1 \in Nat /\ m + 1 # 0 /\ (m + 1) - 1 = m
    OBVIOUS
  <2> QED
    BY <2>1, QuotientsAre
<1> HIDE DEF Q
<1>2. ASSUME NEW i \in 1..w
      PROVE  /\ Q[w - i] \in Nat /\ Q[(w - i) + 1] = Q[w - i] \div 16
             /\ Q[w - i] % 16 \in 0..15 /\ D(i) \in 1..16
  <2>1. w - i \in Nat
    OBVIOUS
  <2>2. \A q \in Nat : q % 16 \in 0..15 /\ (q % 16) + 1 \in 1..16
    OBVIOUS
  <2> QED
    BY <1>1, <2>1, <2>2
<1> HIDE DEF D
<1>3. \A i \in 1..w : LOWER[D(i)] \in Chars
  BY <1>2, TablesAre
<1> DEFINE h == [i \in 1..w |-> LOWER[D(i)]]
<1>4. h \in [1..w -> Chars] /\ \A i \in 1..w : h[i] = LOWER[D(i)]
  BY <1>3
<1>5. Hex(v, w) = h
  BY DEF Hex, D, Q
<1> HIDE DEF h
<1>6. h \in Seq(Chars) /\ Len(h) = w
  BY <1>4
<1>7. \A i \in 1..w : DigitOf(LOWER[D(i)]) = Q[w - i] % 16
  BY <1>2, DigitIs DEF D
<1> QED
  BY <1>2, <1>4, <1>5, <1>6, <1>7 DEF Q, D

(* Reading the digits of a number gives the number, if they are all there. *)
LEMMA HexReadsBack ==
  ASSUME NEW v \in Nat, NEW w \in Nat, Quotients(v, 16)[w] = 0
  PROVE  HexValue(Hex(v, w)) = v
<1> DEFINE Q == Quotients(v, 16)
           h == Hex(v, w)
           V == Values(h)
           bad == {n \in 0..w : V[n] # Q[w - n]}
<1>1. /\ Len(h) = w
      /\ \A i \in 1..w : /\ DigitOf(h[i]) = Q[w - i] % 16 /\ Q[w - i] \in Nat
                         /\ Q[(w - i) + 1] = Q[w - i] \div 16
  BY HexIs
<1> HIDE DEF h
<1>2. \A i \in 1..w : DigitOf(h[i]) \in Nat
  <2>1. \A q \in Nat : q % 16 \in Nat
    OBVIOUS
  <2> QED
    BY <1>1, <2>1
<1>3. V[0] = 0 /\ \A n \in 1..w : V[n] = 16 * V[n - 1] + DigitOf(h[n])
  <2>1. Len(h) \in Nat /\ \A n \in 1..Len(h) : DigitOf(h[n]) \in Nat
    BY <1>1, <1>2
  <2>2. V[0] = 0 /\ \A n \in 1..Len(h) : V[n] = 16 * V[n - 1] + DigitOf(h[n])
    BY <2>1, ValuesAre
  <2> QED
    BY <1>1, <2>2
<1>4. Q[0] = v /\ Q[w] = 0
  <2>1. 0 \in Nat /\ 16 \in Nat \ {0}
    OBVIOUS
  <2>2. Q[0] = v
    BY <2>1, QuotientsAre
  <2> QED
    BY <2>2
<1> HIDE DEF Q, V
<1>5. bad = {}
  <2> SUFFICES ASSUME bad # {} PROVE FALSE
    OBVIOUS
  <2>1. PICK n \in bad : \A j \in bad : n <= j
    <3>1. bad \subseteq Nat
      OBVIOUS
    <3> HIDE DEF bad
    <3> QED
      BY <3>1, Least
  <2>2. n \in 0..w /\ V[n] # Q[w - n]
    BY <2>1
  <2>3. n # 0
    <3>1. w - 0 = w
      OBVIOUS
    <3> QED
      BY <1>3, <1>4, <2>2, <3>1
  <2>4. n \in 1..w /\ n - 1 \in 0..w /\ ~ (n <= n - 1) /\ w - (n - 1) = (w - n) + 1
    BY <2>2, <2>3
  <2>5. V[n - 1] = Q[(w - n) + 1]
    BY <2>1, <2>4
  <2>6. V[n] = 16 * (Q[w - n] \div 16) + (Q[w - n] % 16) /\ Q[w - n] \in Nat
    BY <1>1, <1>3, <2>4, <2>5
  <2>7. \A q \in Nat : 16 * (q \div 16) + (q % 16) = q
    OBVIOUS
  <2> QED
    BY <2>2, <2>6, <2>7
<1>6. V[w] = v
  <2>1. w \in 0..w /\ w - w = 0
    OBVIOUS
  <2> QED
    BY <1>4, <1>5, <2>1
<1> QED
  BY <1>1, <1>6 DEF HexValue, V, h

(* A number below a power of 16 has no more digits. *)
LEMMA HexFits ==
  ASSUME NEW w \in Nat, NEW v \in 0..(Power(16, w) - 1)
  PROVE  v \in Nat /\ Quotients(v, 16)[w] = 0
<1> DEFINE p == Power(16, w)
<1>1. p \in Nat \ {0} /\ 16 \in Nat \ {0}
  BY PowerPositive
<1>2. v \in Nat /\ Quotients(v, 16)[w] = v \div p
  BY <1>1, QuotientIs
<1>3. v \in 0..(p - 1)
  OBVIOUS
<1> HIDE DEF p
<1>4. v \div p = 0
  <2>1. p * 0 + v = v /\ 0 \in Nat
    BY <1>1, <1>2
  <2> QED
    BY <1>1, <1>3, <2>1, Division
<1> QED
  BY <1>2, <1>4

(* What print_hex_field prints: the number without leading zeros. *)
LEMMA FieldIs ==
  ASSUME NEW w \in Nat \ {0}, NEW v \in Nat, Quotients(v, 16)[w] = 0,
         NEW n \in 1..w, Hex(v, w)[n] # "0" \/ n = w,
         \A j \in 1..(n - 1) : Hex(v, w)[j] = "0"
  PROVE  /\ SubSeq(Hex(v, w), n, w) \in Seq(Chars)
         /\ Plain(SubSeq(Hex(v, w), n, w), v)
         /\ \A i \in 1..Len(SubSeq(Hex(v, w), n, w)) :
              \E d \in 1..16 : SubSeq(Hex(v, w), n, w)[i] = LOWER[d]
<1> DEFINE Q == Quotients(v, 16)
           m == w - (n - 1)
           bad == {j \in 0..(n - 1) : Q[w - j] # 0}
<1>1. /\ m \in Nat \ {0} /\ m \in 1..w
      /\ \A i \in 1..m : n + i - 1 \in 1..w /\ w - (n + i - 1) = m - i /\ m - i \in Nat
  OBVIOUS
<1>2. /\ Hex(v, w) \in Seq(Chars) /\ Len(Hex(v, w)) = w
      /\ \A i \in 1..w : /\ Hex(v, w)[i] = LOWER[(Q[w - i] % 16) + 1]
                         /\ DigitOf(Hex(v, w)[i]) = Q[w - i] % 16
                         /\ Q[w - i] \in Nat
                         /\ Q[(w - i) + 1] = Q[w - i] \div 16
  BY HexIs
<1>3. /\ Hex(v, m) \in Seq(Chars) /\ Len(Hex(v, m)) = m
      /\ \A i \in 1..m : Hex(v, m)[i] = LOWER[(Q[m - i] % 16) + 1]
  <2>1. \A u \in Nat : /\ Hex(v, u) \in Seq(Chars) /\ Len(Hex(v, u)) = u
                        /\ \A i \in 1..u : Hex(v, u)[i] = LOWER[(Q[u - i] % 16) + 1]
    BY HexIs
  <2>2. m \in Nat
    BY <1>1
  <2> HIDE DEF m, Q
  <2> QED
    BY <2>1, <2>2, Zenon
<1> DEFINE z == SubSeq(Hex(v, w), n, w)
<1>4. z \in Seq(Chars) /\ Len(z) = m /\ \A i \in 1..m : z[i] = Hex(v, w)[n + i - 1]
  <2>1. n \in Int /\ w \in Int /\ 1 <= n /\ n <= w + 1 /\ w <= Len(Hex(v, w))
        /\ w - n + 1 = m
    BY <1>2
  <2> QED
    BY <1>2, <2>1, Slice, SMTT(30)
<1> HIDE DEF Q, z, m
<1>5. z = Hex(v, m)
  <2>1. ASSUME NEW i \in 1..m PROVE z[i] = Hex(v, m)[i]
    <3> DEFINE j == n + i - 1
    <3>1. j \in 1..w /\ w - j = m - i
      BY <1>1
    <3>2. z[i] = Hex(v, w)[j]
      BY <1>4
    <3> HIDE DEF j
    <3>3. Hex(v, w)[j] = LOWER[(Q[m - i] % 16) + 1]
      BY <1>2, <3>1
    <3> QED
      BY <1>3, <3>2, <3>3
  <2> QED
    BY <1>3, <1>4, <2>1, SeqEqual
<1>6. bad = {}
  <2> SUFFICES ASSUME bad # {} PROVE FALSE
    OBVIOUS
  <2>1. PICK j \in bad : \A i \in bad : j <= i
    <3>1. bad \subseteq Nat
      OBVIOUS
    <3> HIDE DEF bad
    <3> QED
      BY <3>1, Least
  <2>2. j \in 0..(n - 1) /\ Q[w - j] # 0
    BY <2>1
  <2>3. j # 0
    <3>1. w - 0 = w
      OBVIOUS
    <3> QED
      BY <2>2, <3>1 DEF Q
  <2>4. /\ j \in 1..(n - 1) /\ j \in 1..w /\ j - 1 \in 0..(n - 1) /\ ~ (j <= j - 1)
        /\ w - (j - 1) = (w - j) + 1
    BY <2>2, <2>3
  <2>5. Q[(w - j) + 1] = 0
    BY <2>1, <2>4
  <2>6. Hex(v, w)[j] = LOWER[0 + 1]
    BY <2>4 DEF LOWER
  <2>7. Q[w - j] % 16 = 0
    <3>1. 0 \in 0..15
      OBVIOUS
    <3> QED
      BY <1>2, <2>4, <2>6, <3>1, DigitIs
  <2>8. \A q \in Nat : q \div 16 = 0 /\ q % 16 = 0 => q = 0
    OBVIOUS
  <2> QED
    BY <1>2, <2>2, <2>4, <2>5, <2>7, <2>8
<1>7. Q[m] = 0
  <2>1. n - 1 \in 0..(n - 1)
    OBVIOUS
  <2> QED
    BY <1>6, <2>1 DEF m
<1>8. HexValue(z) = v
  BY <1>1, <1>5, <1>7, HexReadsBack DEF Q
<1>9. z # <<>> /\ (z[1] = "0" => Len(z) = 1)
  <2>1. z # <<>>
    BY <1>1, <1>4
  <2>2. z[1] = Hex(v, w)[n]
    <3>1. 1 \in 1..m /\ n + 1 - 1 = n
      BY <1>1
    <3> QED
      BY <1>4, <3>1
  <2>3. n = w => m = 1
    BY DEF m
  <2> QED
    BY <1>4, <2>1, <2>2, <2>3
<1>10. ASSUME NEW i \in 1..m PROVE \E d \in 1..16 : z[i] = LOWER[d]
  <2>1. Q[m - i] \in Nat
    <3>1. n + i - 1 \in 1..w /\ w - (n + i - 1) = m - i
      BY <1>1
    <3> QED
      BY <1>2, <3>1
  <2>2. \A q \in Nat : (q % 16) + 1 \in 1..16
    OBVIOUS
  <2> QED
    BY <1>3, <1>5, <2>1, <2>2
<1> QED
  BY <1>4, <1>8, <1>9, <1>10 DEF Plain, z

-----------------------------------------------------------------------------
(* What a call prints whose conversions are %s and %c. *)

(* The first n characters of the format are known and stand for the text.  *)
Upto(call, n, a, text) ==
  /\ n \in 0..Len(call.fmt) /\ Place(call, n + 1, a)
  /\ text \in Seq(Chars)
  /\ Sound(call) => DueAt(call, n) = For(STDOUT, text)

(* Texts that follow each other on a descriptor. *)
LEMMA ForJoin ==
  ASSUME NEW fd \in {1, 2}, NEW t \in Seq(Chars), NEW u \in Seq(Chars)
  PROVE  For(fd, t) \o For(fd, u) = For(fd, t \o u)
<1> DEFINE x == For(fd, t)
           y == For(fd, u)
           v == t \o u
           z == For(fd, v)
<1>1. /\ v \in Seq(Chars) /\ Len(v) = Len(t) + Len(u)
      /\ \A i \in 1..Len(t) : v[i] = t[i]
      /\ \A i \in 1..Len(u) : v[Len(t) + i] = u[i]
      /\ Len(t) \in Nat /\ Len(u) \in Nat
  OBVIOUS
<1> HIDE DEF v
<1>2. /\ x \in Seq(Items) /\ Len(x) = Len(t)
      /\ \A i \in 1..Len(t) : x[i] = [fd |-> fd, char |-> t[i]]
  BY ForIs
<1>3. /\ y \in Seq(Items) /\ Len(y) = Len(u)
      /\ \A i \in 1..Len(u) : y[i] = [fd |-> fd, char |-> u[i]]
  BY ForIs
<1>4. /\ z \in Seq(Items) /\ Len(z) = Len(v)
      /\ \A i \in 1..Len(v) : z[i] = [fd |-> fd, char |-> v[i]]
  BY <1>1, ForIs
<1> HIDE DEF x, y, z
<1>5. /\ x \o y \in Seq(Items) /\ Len(x \o y) = Len(t) + Len(u)
      /\ \A i \in 1..Len(t) : (x \o y)[i] = x[i]
      /\ \A i \in 1..Len(u) : (x \o y)[Len(t) + i] = y[i]
  BY <1>1, <1>2, <1>3
<1> DEFINE w == x \o y
<1> HIDE DEF w
<1>6. ASSUME NEW i \in 1..Len(v) PROVE w[i] = z[i]
  <2>1. CASE i \in 1..Len(t)
    BY <1>1, <1>2, <1>4, <1>5, <2>1 DEF w
  <2>2. CASE i \notin 1..Len(t)
    <3>1. i - Len(t) \in 1..Len(u) /\ i = Len(t) + (i - Len(t))
      BY <1>1, <2>2
    <3> DEFINE j == i - Len(t)
    <3> HIDE DEF j
    <3>2. j \in 1..Len(u) /\ i = Len(t) + j
      BY <3>1 DEF j
    <3>3. w[i] = [fd |-> fd, char |-> u[j]]
      BY <1>3, <1>5, <3>2 DEF w
    <3>4. v[i] = u[j]
      BY <1>1, <3>2
    <3> QED
      BY <1>4, <3>3, <3>4
  <2> QED
    BY <2>1, <2>2
<1>7. w = z
  <2>1. w \in Seq(Items) /\ z \in Seq(Items) /\ Len(w) = Len(z) /\ Len(w) = Len(v)
    BY <1>1, <1>4, <1>5 DEF w
  <2> QED
    BY <1>6, <2>1, SeqEqual
<1> QED
  BY <1>7 DEF w, x, y, z, v

LEMMA UptoStart ==
  ASSUME NEW call, CallOK(call)
  PROVE  Upto(call, 0, 1, <<>>)
<1>1. call.fmt \in Seq(STRING) /\ Len(call.fmt) \in Nat
  BY DEF CallOK
<1>2. Place(call, 0 + 1, 1) /\ 0 \in 0..Len(call.fmt)
  <2>1. Place(call, 1, 1)
    BY <1>1, PlaceAtStart
  <2> QED
    BY <1>1, <2>1
<1>3. <<>> \in Seq(Chars)
  BY NoElements
<1>4. For(STDOUT, <<>>) = <<>>
  <2>1. For(STDOUT, <<>>) \in Seq(Items) /\ Len(For(STDOUT, <<>>)) = 0
    BY <1>3, ForIs DEF STDOUT
  <2> DEFINE f == For(STDOUT, <<>>)
  <2> HIDE DEF f
  <2>2. f \in Seq(Items) /\ Len(f) = 0
    BY <2>1 DEF f
  <2>3. f = <<>>
    BY <2>2
  <2> QED
    BY <2>3 DEF f
<1>5. Sound(call) => DueAt(call, 0) = <<>>
  BY DueIs
<1> QED
  BY <1>2, <1>3, <1>4, <1>5 DEF Upto

(* One character more stands for a text of its own. *)
LEMMA DueNext ==
  ASSUME NEW call, CallOK(call), call.fd = STDOUT, NEW n \in 0..(Len(call.fmt) - 1),
         NEW text \in Seq(Chars), NEW more \in Seq(Chars),
         Sound(call), DueAt(call, n) = For(STDOUT, text),
         Piece(call, n + 1) = For(STDOUT, more)
  PROVE  DueAt(call, n + 1) = For(STDOUT, text \o more)
<1>1. DueAt(call, n + 1) = DueAt(call, n) \o Piece(call, n + 1)
  BY DueIs
<1>2. For(STDOUT, text) \o For(STDOUT, more) = For(STDOUT, text \o more)
  <2>1. STDOUT \in {1, 2}
    BY DEF STDOUT
  <2> QED
    BY <2>1, ForJoin
<1> QED
  BY <1>1, <1>2

LEMMA UptoPlain ==
  ASSUME NEW call, CallOK(call), call.fd = STDOUT, NEW n, NEW a, NEW text,
         Upto(call, n, a, text), n < Len(call.fmt), call.fmt[n + 1] # Percent
  PROVE  Upto(call, n + 1, a, Append(text, call.fmt[n + 1]))
<1> DEFINE c == call.fmt[n + 1]
<1>1. call.fmt \in Seq(STRING) /\ Len(call.fmt) \in Nat
  BY DEF CallOK
<1>2. /\ n \in 0..Len(call.fmt) /\ Place(call, n + 1, a) /\ text \in Seq(Chars)
      /\ Sound(call) => DueAt(call, n) = For(STDOUT, text)
  BY DEF Upto
<1>3. n \in 0..(Len(call.fmt) - 1) /\ n + 1 \in 0..Len(call.fmt) /\ n + 1 <= Len(call.fmt)
      /\ n + 1 \in 1..Len(call.fmt) /\ (n + 1) + 1 = n + 2
  BY <1>1, <1>2
<1>4. Place(call, (n + 1) + 1, a) /\ ~ IsLetter(call, n + 1)
  <2> DEFINE m == n + 1
  <2>1. Place(call, m, a) /\ m <= Len(call.fmt) /\ call.fmt[m] # Percent
    BY <1>2, <1>3
  <2> HIDE DEF m
  <2>2. Place(call, m + 1, a) /\ ~ IsLetter(call, m)
    BY <1>1, <2>1, PlaceBehindPlain
  <2> QED
    BY <2>2 DEF m
<1>5. c \in Chars
  <2>1. c \in STRING
    BY <1>1, <1>3
  <2> QED
    BY <2>1, TablesAre
<1>6. Piece(call, n + 1) = For(STDOUT, <<c>>)
  BY <1>4, PieceIs
<1> HIDE DEF c
<1>7. <<c>> \in Seq(Chars) /\ text \o <<c>> = Append(text, c) /\ Append(text, c) \in Seq(Chars)
  BY <1>2, <1>5, OneElement, AppendIsConcat
<1>8. Sound(call) => DueAt(call, n + 1) = For(STDOUT, Append(text, c))
  <2> SUFFICES ASSUME Sound(call) PROVE DueAt(call, n + 1) = For(STDOUT, Append(text, c))
    OBVIOUS
  <2>1. DueAt(call, n + 1) = For(STDOUT, text \o <<c>>)
    BY <1>2, <1>3, <1>6, <1>7, DueNext
  <2> QED
    BY <1>7, <2>1
<1> QED
  BY <1>3, <1>4, <1>7, <1>8 DEF Upto, c

LEMMA UptoConversion ==
  ASSUME NEW call, CallOK(call), call.fd = STDOUT, NEW n, NEW a, NEW text,
         Upto(call, n, a, text), n + 1 < Len(call.fmt), call.fmt[n + 1] = Percent,
         NEW c \in {"s", "c"}, call.fmt[n + 2] = c
  PROVE  /\ Upto(call, n + 2, a + 1, text \o Meaning(c, call.args[a]))
         /\ Suits(c, call.args[a]) /\ Meaning(c, call.args[a]) \in Seq(Chars)
<1> DEFINE arg0 == call.args[a]
           l == Len(call.fmt)
<1>1. call.fmt \in Seq(STRING) /\ l \in Nat
  BY DEF CallOK
<1>2. /\ n \in 0..l /\ Place(call, n + 1, a) /\ text \in Seq(Chars)
      /\ Sound(call) => DueAt(call, n) = For(STDOUT, text)
  BY DEF Upto
<1>3. /\ n \in Nat /\ n \in 0..(l - 1) /\ n + 1 \in 0..(l - 1) /\ n + 2 \in 0..l
      /\ n + 2 \in 1..l /\ (n + 1) + 1 = n + 2 /\ (n + 1) + 2 = (n + 2) + 1
  BY <1>1, <1>2
<1>4. c \in Conversions \ {Percent} /\ c \notin {"d", "i"}
  BY Special DEF Conversions
<1>5. /\ Place(call, (n + 2) + 1, a + 1)
      /\ ~ IsLetter(call, n + 1) /\ IsLetter(call, n + 2)
      /\ ArgumentOf(call, n + 2) = arg0
      /\ Reaches(call, n + 2)
  <2> DEFINE m == n + 1
  <2>1. Place(call, m, a) /\ m < l /\ call.fmt[m] = Percent /\ call.fmt[m + 1] = c
    BY <1>2, <1>3
  <2> HIDE DEF m
  <2>2. /\ Place(call, m + 2, IF c = Percent THEN a ELSE a + 1)
        /\ ~ IsLetter(call, m) /\ IsLetter(call, m + 1)
        /\ ArgumentOf(call, m + 1) = call.args[a]
        /\ Reaches(call, m + 1)
    BY <1>1, <1>4, <2>1, PlaceBehindConversion
  <2>3. m + 2 = (n + 2) + 1 /\ m + 1 = n + 2
    BY <1>3 DEF m
  <2> QED
    BY <1>4, <2>2, <2>3 DEF m
<1>6. Suits(c, arg0)
  <2>1. call.fmt[n + 2] \in Conversions \ {Percent}
    BY <1>4
  <2> QED
    BY <1>3, <1>5, <2>1 DEF CallOK
<1> HIDE DEF arg0
<1>7. Meaning(c, arg0) \in Seq(Chars)
  <2>1. CASE c = "s"
    <3>1. arg0 \in Seq(STRING) /\ Meaning(c, arg0) = IF arg0 = NULL THEN NullText ELSE arg0
      BY <1>6, <2>1, SuitsIs, MeaningOf
    <3>2. arg0 \in Seq(Chars) /\ NullText \in Seq(Chars)
      BY <3>1, TablesAre, SeqOfMore DEF Texts
    <3> QED
      BY <3>1, <3>2
  <2>2. CASE c = "c"
    <3>1. arg0 \in STRING /\ Meaning(c, arg0) = <<arg0>>
      BY <1>6, <2>2, SuitsIs, MeaningOf
    <3>2. arg0 \in Chars
      BY <3>1, TablesAre
    <3> QED
      BY <3>1, <3>2, OneElement
  <2> QED
    BY <2>1, <2>2
<1> DEFINE mean == Meaning(c, arg0)
<1>8. Piece(call, n + 1) = <<>> /\ Piece(call, n + 2) = For(STDOUT, mean)
  <2>1. Piece(call, n + 1) = <<>>
    BY <1>5, PieceIs
  <2>2. Piece(call, n + 2) = Said(c, arg0, STDOUT)
    BY <1>5, PieceIs
  <2>3. Said(c, arg0, STDOUT) = For(STDOUT, mean)
    BY <1>4, NotSigned
  <2> QED
    BY <2>1, <2>2, <2>3
<1> HIDE DEF mean
<1>9. Sound(call) => DueAt(call, n + 2) = For(STDOUT, text \o mean)
  <2> SUFFICES ASSUME Sound(call) PROVE DueAt(call, n + 2) = For(STDOUT, text \o mean)
    OBVIOUS
  <2>1. DueAt(call, n + 1) = DueAt(call, n) \o <<>>
    BY <1>3, <1>8, DueIs
  <2>2. DueAt(call, n) \in Seq(Items)
    BY <1>2, DueIs
  <2>3. DueAt(call, n + 1) = For(STDOUT, text)
    BY <1>2, <2>1, <2>2, ConcatEmptySeq
  <2>4. Piece(call, (n + 1) + 1) = For(STDOUT, mean)
    BY <1>3, <1>8
  <2>5. mean \in Seq(Chars)
    BY <1>7 DEF mean
  <2> DEFINE m == n + 1
  <2>6. m \in 0..(Len(call.fmt) - 1) /\ DueAt(call, m) = For(STDOUT, text)
        /\ Piece(call, m + 1) = For(STDOUT, mean)
    BY <1>3, <2>3, <2>4
  <2> HIDE DEF m
  <2>7. DueAt(call, m + 1) = For(STDOUT, text \o mean)
    BY <1>2, <2>5, <2>6, DueNext
  <2>8. m + 1 = n + 2
    BY <1>3 DEF m
  <2> QED
    BY <2>7, <2>8
<1>10. text \o mean \in Seq(Chars)
  BY <1>2, <1>7 DEF mean
<1> QED
  BY <1>3, <1>5, <1>6, <1>7, <1>9, <1>10 DEF Upto, mean, arg0

LEMMA UptoEnd ==
  ASSUME NEW call, CallOK(call), NEW a, NEW text,
         Upto(call, Len(call.fmt), a, text), call.fmt # NULL
  PROVE  Sound(call) /\ Expected(call) = For(STDOUT, text)
<1> DEFINE l == Len(call.fmt)
<1>1. call.fmt \in Seq(STRING) /\ l \in Nat
  BY DEF CallOK
<1>2. Place(call, l + 1, a) /\ (Sound(call) => DueAt(call, l) = For(STDOUT, text))
  BY DEF Upto
<1>3. Reaches(call, l + 1) /\ ~ IsLetter(call, l + 1)
  BY <1>2 DEF Place, IsLetter
<1>4. Sound(call)
  BY <1>3 DEF Sound
<1> QED
  BY <1>2, <1>4, DueIs

(* The text of a call, without its descriptor. *)
Says(call) == [i \in DOMAIN Expected(call) |-> Expected(call)[i].char]

(* A call whose format has been followed to its end. *)
LEMMA SaysText ==
  ASSUME NEW call, CallOK(call), NEW a, NEW text,
         Upto(call, Len(call.fmt), a, text), call.fmt # NULL
  PROVE  Sound(call) /\ Says(call) = text /\ text \in Seq(Chars)
<1>1. Sound(call) /\ Expected(call) = For(STDOUT, text)
  BY UptoEnd
<1>2. text \in Seq(Chars)
  BY DEF Upto
<1> DEFINE x == For(STDOUT, text)
<1>3. /\ x \in Seq(Items) /\ Len(x) = Len(text) /\ Len(text) \in Nat
      /\ \A i \in 1..Len(text) : x[i] = [fd |-> STDOUT, char |-> text[i]]
  BY <1>2, ForIs DEF STDOUT
<1> HIDE DEF x
<1>4. DOMAIN x = 1..Len(text) /\ \A i \in 1..Len(text) : x[i].char = text[i]
  <2>1. DOMAIN x = 1..Len(x)
    BY <1>3
  <2> QED
    BY <1>3, <2>1
<1>5. Says(call) = [i \in 1..Len(text) |-> text[i]]
  BY <1>1, <1>4 DEF Says, x
<1>6. text = [i \in 1..Len(text) |-> text[i]]
  BY <1>2
<1> QED
  BY <1>1, <1>2, <1>5, <1>6

(* The characters that the listing has between its texts. *)
LEMMA Between ==
  /\ Space # Percent /\ NewLine # Percent /\ Colon # Percent
  /\ Space # NewLine /\ Colon # NewLine /\ NewLine # "NULL" /\ Space # "NULL"
  /\ \A c \in {Space, NewLine, Colon, Percent} : c # "o"
<1>1. Space # Percent /\ NewLine # Percent /\ Colon # Percent
  BY Zenon DEF Space, NewLine, Colon, Percent
<1>2. Space # NewLine /\ Colon # NewLine
  BY Zenon DEF Space, NewLine, Colon
<1>3. NewLine # "NULL" /\ Space # "NULL"
  BY Zenon DEF Space, NewLine
<1>4. Space # "o" /\ NewLine # "o" /\ Colon # "o" /\ Percent # "o"
  BY Zenon DEF Space, NewLine, Colon, Percent
<1> QED
  BY <1>1, <1>2, <1>3, <1>4

(* The five calls of a listing. *)
SymbolCall(arr, type, name) ==
  Printf(<<Percent, "s", Space, Percent, "c", Space, Percent, "s", NewLine>>,
         <<arr, type, name>>)

NameCall(name, type) == Printf(<<Percent, "s", Space, Percent, "c">>, <<name, type>>)

FieldCall(field) == Printf(<<Space, Percent, "s">>, <<field>>)

HeadingCall(name) == Printf(<<NewLine, Percent, "s", Colon, NewLine>>, <<name>>)

(* A string that is not NULL stands for itself. *)
LEMMA StringMeans ==
  ASSUME NEW a, a # NULL
  PROVE  Meaning("s", a) = a
BY MeaningOf

LEMMA EndLineSays ==
  ASSUME CallOK(EndLine)
  PROVE  Sound(EndLine) /\ Says(EndLine) = <<NewLine>> /\ <<NewLine>> \in Seq(Chars)
<1> DEFINE call == EndLine
<1>1. call.fmt = <<NewLine>> /\ call.fd = STDOUT
  BY DEF EndLine, Printf
<1> HIDE DEF call
<1>2. Len(call.fmt) = 1 /\ call.fmt[1] = NewLine
  BY <1>1
<1>3. call.fmt # NULL
  <2>1. <<NewLine>>[1] = NewLine /\ NULL[1] = "NULL"
    BY DEF NULL
  <2> QED
    BY <1>1, <2>1, Between
<1>4. CallOK(call)
  BY DEF call
<1>5. Upto(call, 0, 1, <<>>)
  BY <1>4, UptoStart
<1>6. 0 < Len(call.fmt) /\ call.fmt[0 + 1] = NewLine
  BY <1>2
<1>7. Upto(call, 0 + 1, 1, Append(<<>>, call.fmt[0 + 1]))
  BY <1>1, <1>4, <1>5, <1>6, Between, UptoPlain
<1>8. Append(<<>>, NewLine) = <<NewLine>>
  OBVIOUS
<1>9. Upto(call, Len(call.fmt), 1, <<NewLine>>)
  <2>1. 0 + 1 = Len(call.fmt)
    BY <1>2
  <2> QED
    BY <1>6, <1>7, <1>8, <2>1
<1>10. Sound(call) /\ Says(call) = <<NewLine>> /\ <<NewLine>> \in Seq(Chars)
  BY <1>3, <1>4, <1>9, SaysText
<1> QED
  BY <1>10 DEF call

LEMMA FieldSays ==
  ASSUME NEW field, field # NULL, CallOK(FieldCall(field))
  PROVE  /\ Sound(FieldCall(field)) /\ Says(FieldCall(field)) = <<Space>> \o field
         /\ field \in Seq(Chars) /\ Space \in Chars
<1> DEFINE call == FieldCall(field)
           x == call.fmt
<1>1. x = <<Space, Percent, "s">> /\ call.fd = STDOUT /\ call.args = <<field>>
  BY DEF FieldCall, Printf
<1> HIDE DEF call
<1>2. /\ Len(x) = 3 /\ x[1] = Space /\ x[2] = Percent /\ x[3] = "s" /\ call.args[1] = field
  BY <1>1
<1>3. x # NULL
  <2>1. Len(NULL) = 1
    BY DEF NULL
  <2> QED
    BY <1>2, <2>1
<1>4. CallOK(call)
  BY DEF call
<1>5. Upto(call, 0, 1, <<>>)
  BY <1>4, UptoStart
<1>6. Upto(call, 1, 1, <<Space>>)
  <2>1. 0 < Len(x) /\ x[0 + 1] = Space /\ 0 + 1 = 1
    BY <1>2
  <2>2. Upto(call, 0 + 1, 1, Append(<<>>, x[0 + 1]))
    BY <1>1, <1>4, <1>5, <2>1, Between, UptoPlain
  <2>3. Append(<<>>, Space) = <<Space>>
    OBVIOUS
  <2> QED
    BY <2>1, <2>2, <2>3
<1>7. Upto(call, 3, 2, <<Space>> \o field) /\ field \in Seq(Chars)
  <2>1. 1 + 1 < Len(x) /\ x[1 + 1] = Percent /\ x[1 + 2] = "s" /\ 1 + 2 = 3 /\ 1 + 1 = 2
    BY <1>2
  <2>2. /\ Upto(call, 1 + 2, 1 + 1, <<Space>> \o Meaning("s", call.args[1]))
        /\ Meaning("s", call.args[1]) \in Seq(Chars)
    BY <1>1, <1>4, <1>6, <2>1, UptoConversion
  <2>3. Meaning("s", call.args[1]) = field
    BY <1>2, StringMeans
  <2> QED
    BY <2>1, <2>2, <2>3
<1>8. Sound(call) /\ Says(call) = <<Space>> \o field
  BY <1>2, <1>3, <1>4, <1>7, SaysText
<1> QED
  BY <1>7, <1>8, TablesAre DEF call

LEMMA NameSays ==
  ASSUME NEW name, NEW type, name # NULL, CallOK(NameCall(name, type))
  PROVE  /\ Sound(NameCall(name, type))
         /\ Says(NameCall(name, type)) = Append(name, Space) \o <<type>>
         /\ name \in Seq(Chars) /\ type \in Chars
<1> DEFINE call == NameCall(name, type)
           x == call.fmt
<1>1. x = <<Percent, "s", Space, Percent, "c">> /\ call.fd = STDOUT
      /\ call.args = <<name, type>>
  BY DEF NameCall, Printf
<1> HIDE DEF call
<1>2. /\ Len(x) = 5 /\ x[1] = Percent /\ x[2] = "s" /\ x[3] = Space /\ x[4] = Percent
      /\ x[5] = "c" /\ call.args[1] = name /\ call.args[2] = type
  BY <1>1
<1>3. x # NULL
  <2>1. Len(NULL) = 1
    BY DEF NULL
  <2> QED
    BY <1>2, <2>1
<1>4. CallOK(call)
  BY DEF call
<1>5. Upto(call, 0, 1, <<>>)
  BY <1>4, UptoStart
<1>6. Upto(call, 2, 2, name) /\ name \in Seq(Chars)
  <2>1. 0 + 1 < Len(x) /\ x[0 + 1] = Percent /\ x[0 + 2] = "s" /\ 0 + 2 = 2 /\ 1 + 1 = 2
    BY <1>2
  <2>2. /\ Upto(call, 0 + 2, 1 + 1, <<>> \o Meaning("s", call.args[1]))
        /\ Meaning("s", call.args[1]) \in Seq(Chars)
    BY <1>1, <1>4, <1>5, <2>1, UptoConversion
  <2>3. Meaning("s", call.args[1]) = name
    BY <1>2, StringMeans
  <2>4. <<>> \o name = name
    BY <2>2, <2>3, ConcatEmptySeq
  <2> QED
    BY <2>1, <2>2, <2>3, <2>4
<1> DEFINE t == Append(name, Space)
<1>7. Upto(call, 3, 2, t)
  <2>1. 2 < Len(x) /\ x[2 + 1] = Space /\ 2 + 1 = 3
    BY <1>2
  <2>2. Upto(call, 2 + 1, 2, Append(name, x[2 + 1]))
    BY <1>1, <1>4, <1>6, <2>1, Between, UptoPlain
  <2> QED
    BY <2>1, <2>2
<1> HIDE DEF t
<1>8. Upto(call, 5, 3, t \o <<type>>) /\ type \in Chars
  <2>1. 3 + 1 < Len(x) /\ x[3 + 1] = Percent /\ x[3 + 2] = "c" /\ 3 + 2 = 5 /\ 2 + 1 = 3
    BY <1>2
  <2>2. /\ Upto(call, 3 + 2, 2 + 1, t \o Meaning("c", call.args[2]))
        /\ Suits("c", call.args[2])
    BY <1>1, <1>4, <1>7, <2>1, UptoConversion
  <2>3. Meaning("c", call.args[2]) = <<type>>
    BY <1>2, MeaningOf
  <2>4. type \in STRING
    BY <1>2, <2>2, SuitsIs
  <2> QED
    BY <2>1, <2>2, <2>3, <2>4, TablesAre
<1>9. Sound(call) /\ Says(call) = t \o <<type>>
  BY <1>2, <1>3, <1>4, <1>8, SaysText
<1> QED
  BY <1>6, <1>8, <1>9 DEF call, t

LEMMA SymbolSays ==
  ASSUME NEW arr, NEW type, NEW name, arr # NULL, name # NULL,
         CallOK(SymbolCall(arr, type, name))
  PROVE  /\ Sound(SymbolCall(arr, type, name))
         /\ Says(SymbolCall(arr, type, name)) =
              Append(Append(Append(arr, Space) \o <<type>>, Space) \o name, NewLine)
         /\ arr \in Seq(Chars) /\ name \in Seq(Chars)
         /\ type \in Chars /\ Space \in Chars /\ NewLine \in Chars
<1> DEFINE call == SymbolCall(arr, type, name)
           x == call.fmt
<1>1. x = <<Percent, "s", Space, Percent, "c", Space, Percent, "s", NewLine>>
      /\ call.fd = STDOUT /\ call.args = <<arr, type, name>>
  BY DEF SymbolCall, Printf
<1> HIDE DEF call
<1>2. /\ Len(x) = 9 /\ x[1] = Percent /\ x[2] = "s" /\ x[3] = Space /\ x[4] = Percent
      /\ x[5] = "c" /\ x[6] = Space /\ x[7] = Percent /\ x[8] = "s" /\ x[9] = NewLine
      /\ call.args[1] = arr /\ call.args[2] = type /\ call.args[3] = name
  BY <1>1
<1>3. x # NULL
  <2>1. Len(NULL) = 1
    BY DEF NULL
  <2> QED
    BY <1>2, <2>1
<1>4. CallOK(call)
  BY DEF call
<1>5. Upto(call, 0, 1, <<>>)
  BY <1>4, UptoStart
<1>6. Upto(call, 2, 2, arr) /\ arr \in Seq(Chars)
  <2>1. 0 + 1 < Len(x) /\ x[0 + 1] = Percent /\ x[0 + 2] = "s" /\ 0 + 2 = 2 /\ 1 + 1 = 2
    BY <1>2
  <2>2. /\ Upto(call, 0 + 2, 1 + 1, <<>> \o Meaning("s", call.args[1]))
        /\ Meaning("s", call.args[1]) \in Seq(Chars)
    BY <1>1, <1>4, <1>5, <2>1, UptoConversion
  <2>3. Meaning("s", call.args[1]) = arr
    BY <1>2, StringMeans
  <2>4. <<>> \o arr = arr
    BY <2>2, <2>3, ConcatEmptySeq
  <2> QED
    BY <2>1, <2>2, <2>3, <2>4
<1> DEFINE t == Append(arr, Space)
<1>7. Upto(call, 3, 2, t)
  <2>1. 2 < Len(x) /\ x[2 + 1] = Space /\ 2 + 1 = 3
    BY <1>2
  <2>2. Upto(call, 2 + 1, 2, Append(arr, x[2 + 1]))
    BY <1>1, <1>4, <1>6, <2>1, Between, UptoPlain
  <2> QED
    BY <2>1, <2>2
<1> HIDE DEF t
<1>8. Upto(call, 5, 3, t \o <<type>>) /\ type \in Chars
  <2>1. 3 + 1 < Len(x) /\ x[3 + 1] = Percent /\ x[3 + 2] = "c" /\ 3 + 2 = 5 /\ 2 + 1 = 3
    BY <1>2
  <2>2. /\ Upto(call, 3 + 2, 2 + 1, t \o Meaning("c", call.args[2]))
        /\ Suits("c", call.args[2])
    BY <1>1, <1>4, <1>7, <2>1, UptoConversion
  <2>3. Meaning("c", call.args[2]) = <<type>>
    BY <1>2, MeaningOf
  <2>4. type \in STRING
    BY <1>2, <2>2, SuitsIs
  <2> QED
    BY <2>1, <2>2, <2>3, <2>4, TablesAre
<1> DEFINE tt == t \o <<type>>
           u == Append(tt, Space)
<1> HIDE DEF tt
<1>9. Upto(call, 6, 3, u)
  <2>1. 5 < Len(x) /\ x[5 + 1] = Space /\ 5 + 1 = 6
    BY <1>2
  <2>2. Upto(call, 5 + 1, 3, Append(tt, x[5 + 1]))
    BY <1>1, <1>4, <1>8, <2>1, Between, UptoPlain DEF tt
  <2> QED
    BY <2>1, <2>2
<1> HIDE DEF u
<1>10. Upto(call, 8, 4, u \o name) /\ name \in Seq(Chars)
  <2>1. 6 + 1 < Len(x) /\ x[6 + 1] = Percent /\ x[6 + 2] = "s" /\ 6 + 2 = 8 /\ 3 + 1 = 4
    BY <1>2
  <2>2. /\ Upto(call, 6 + 2, 3 + 1, u \o Meaning("s", call.args[3]))
        /\ Meaning("s", call.args[3]) \in Seq(Chars)
    BY <1>1, <1>4, <1>9, <2>1, UptoConversion
  <2>3. Meaning("s", call.args[3]) = name
    BY <1>2, StringMeans
  <2> QED
    BY <2>1, <2>2, <2>3
<1> DEFINE v == u \o name
<1> HIDE DEF v
<1>11. Upto(call, 9, 4, Append(v, NewLine))
  <2>1. 8 < Len(x) /\ x[8 + 1] = NewLine /\ 8 + 1 = 9
    BY <1>2
  <2>2. Upto(call, 8 + 1, 4, Append(v, x[8 + 1]))
    BY <1>1, <1>4, <1>10, <2>1, Between, UptoPlain DEF v
  <2> QED
    BY <2>1, <2>2
<1>12. Sound(call) /\ Says(call) = Append(v, NewLine)
  BY <1>2, <1>3, <1>4, <1>11, SaysText
<1>13. NewLine \in Chars
  <2>1. x \in Seq(STRING)
    BY <1>4 DEF CallOK
  <2>2. NewLine \in STRING
    BY <1>2, <2>1
  <2> QED
    BY <2>2, TablesAre
<1> QED
  BY <1>6, <1>8, <1>10, <1>12, <1>13, TablesAre DEF call, t, tt, u, v

LEMMA HeadingSays ==
  ASSUME NEW name, name # NULL, CallOK(HeadingCall(name))
  PROVE  /\ Sound(HeadingCall(name))
         /\ Says(HeadingCall(name)) = Append(Append(<<NewLine>> \o name, Colon), NewLine)
         /\ name \in Seq(Chars) /\ Colon \in Chars /\ NewLine \in Chars
<1> DEFINE call == HeadingCall(name)
           x == call.fmt
<1>1. x = <<NewLine, Percent, "s", Colon, NewLine>> /\ call.fd = STDOUT
      /\ call.args = <<name>>
  BY DEF HeadingCall, Printf
<1> HIDE DEF call
<1>2. /\ Len(x) = 5 /\ x[1] = NewLine /\ x[2] = Percent /\ x[3] = "s" /\ x[4] = Colon
      /\ x[5] = NewLine /\ call.args[1] = name
  BY <1>1
<1>3. x # NULL
  <2>1. Len(NULL) = 1
    BY DEF NULL
  <2> QED
    BY <1>2, <2>1
<1>4. CallOK(call)
  BY DEF call
<1>5. Upto(call, 0, 1, <<>>)
  BY <1>4, UptoStart
<1>6. Upto(call, 1, 1, <<NewLine>>)
  <2>1. 0 < Len(x) /\ x[0 + 1] = NewLine /\ 0 + 1 = 1
    BY <1>2
  <2>2. Upto(call, 0 + 1, 1, Append(<<>>, x[0 + 1]))
    BY <1>1, <1>4, <1>5, <2>1, Between, UptoPlain
  <2>3. Append(<<>>, NewLine) = <<NewLine>>
    OBVIOUS
  <2> QED
    BY <2>1, <2>2, <2>3
<1>7. Upto(call, 3, 2, <<NewLine>> \o name) /\ name \in Seq(Chars)
  <2>1. 1 + 1 < Len(x) /\ x[1 + 1] = Percent /\ x[1 + 2] = "s" /\ 1 + 2 = 3 /\ 1 + 1 = 2
    BY <1>2
  <2>2. /\ Upto(call, 1 + 2, 1 + 1, <<NewLine>> \o Meaning("s", call.args[1]))
        /\ Meaning("s", call.args[1]) \in Seq(Chars)
    BY <1>1, <1>4, <1>6, <2>1, UptoConversion
  <2>3. Meaning("s", call.args[1]) = name
    BY <1>2, StringMeans
  <2> QED
    BY <2>1, <2>2, <2>3
<1> DEFINE t == <<NewLine>> \o name
           u == Append(t, Colon)
<1> HIDE DEF t
<1>8. Upto(call, 4, 2, u)
  <2>1. 3 < Len(x) /\ x[3 + 1] = Colon /\ 3 + 1 = 4
    BY <1>2
  <2>2. Upto(call, 3 + 1, 2, Append(t, x[3 + 1]))
    BY <1>1, <1>4, <1>7, <2>1, Between, UptoPlain DEF t
  <2> QED
    BY <2>1, <2>2
<1> HIDE DEF u
<1>9. Upto(call, 5, 2, Append(u, NewLine))
  <2>1. 4 < Len(x) /\ x[4 + 1] = NewLine /\ 4 + 1 = 5
    BY <1>2
  <2>2. Upto(call, 4 + 1, 2, Append(u, x[4 + 1]))
    BY <1>1, <1>4, <1>8, <2>1, Between, UptoPlain
  <2> QED
    BY <2>1, <2>2
<1>10. Sound(call) /\ Says(call) = Append(u, NewLine)
  BY <1>2, <1>3, <1>4, <1>9, SaysText
<1>11. NewLine \in Chars /\ Colon \in Chars
  <2>1. x \in Seq(STRING)
    BY <1>4 DEF CallOK
  <2>2. NewLine \in STRING /\ Colon \in STRING
    BY <1>2, <2>1
  <2> QED
    BY <2>2, TablesAre
<1> QED
  BY <1>7, <1>10, <1>11 DEF call, t, u

-----------------------------------------------------------------------------
(* The calls of a listing. *)

Words == Seq(Chars) \ {NULL}

Shapes ==
  {EndLine} \cup {FieldCall(f) : f \in Words} \cup {HeadingCall(n) : n \in Words}
    \cup {NameCall(n, t) : n \in Words, t \in Chars}
    \cup {SymbolCall(a, t, n) : a \in Words, t \in Chars, n \in Words}

Printable == {c \in Shapes : CallOK(c)}

(* Their formats are known throughout, and none of them asks for octal     *)
(* digits.                                                                 *)
LEMMA PrintableIs ==
  ASSUME NEW c \in Printable
  PROVE  /\ CallOK(c) /\ Sound(c) /\ c.fd = STDOUT /\ Says(c) \in Seq(Chars)
         /\ \A i \in 1..Len(c.fmt) : c.fmt[i] # "o"
<1>1. CallOK(c) /\ c \in Shapes
  BY DEF Printable
<1>2. CASE c = EndLine
  <2>1. Sound(c) /\ Says(c) \in Seq(Chars)
    BY <1>1, <1>2, EndLineSays
  <2>2. c.fmt = <<NewLine>> /\ c.fd = STDOUT
    BY <1>2 DEF EndLine, Printf
  <2>3. \A i \in 1..Len(c.fmt) : c.fmt[i] # "o"
    BY <2>2, Between
  <2> QED
    BY <1>1, <2>1, <2>2, <2>3
<1>3. ASSUME NEW f \in Words, c = FieldCall(f)
      PROVE  /\ Sound(c) /\ c.fd = STDOUT /\ Says(c) \in Seq(Chars)
             /\ \A i \in 1..Len(c.fmt) : c.fmt[i] # "o"
  <2>1. f # NULL
    BY DEF Words
  <2>2. Sound(c) /\ Says(c) = <<Space>> \o f /\ f \in Seq(Chars) /\ Space \in Chars
    BY <1>1, <1>3, <2>1, FieldSays
  <2>3. Says(c) \in Seq(Chars)
    BY <2>2
  <2>4. c.fmt = <<Space, Percent, "s">> /\ c.fd = STDOUT
    BY <1>3 DEF FieldCall, Printf
  <2>5. \A i \in 1..Len(c.fmt) : c.fmt[i] # "o"
    BY <2>4, Between
  <2> QED
    BY <2>2, <2>3, <2>4, <2>5
<1>4. ASSUME NEW n \in Words, c = HeadingCall(n)
      PROVE  /\ Sound(c) /\ c.fd = STDOUT /\ Says(c) \in Seq(Chars)
             /\ \A i \in 1..Len(c.fmt) : c.fmt[i] # "o"
  <2>1. n # NULL
    BY DEF Words
  <2>2. /\ Sound(c) /\ Says(c) = Append(Append(<<NewLine>> \o n, Colon), NewLine)
        /\ n \in Seq(Chars) /\ Colon \in Chars /\ NewLine \in Chars
    BY <1>1, <1>4, <2>1, HeadingSays
  <2>3. Says(c) \in Seq(Chars)
    BY <2>2
  <2>4. c.fmt = <<NewLine, Percent, "s", Colon, NewLine>> /\ c.fd = STDOUT
    BY <1>4 DEF HeadingCall, Printf
  <2>5. \A i \in 1..Len(c.fmt) : c.fmt[i] # "o"
    BY <2>4, Between
  <2> QED
    BY <2>2, <2>3, <2>4, <2>5
<1>5. ASSUME NEW n \in Words, NEW t \in Chars, c = NameCall(n, t)
      PROVE  /\ Sound(c) /\ c.fd = STDOUT /\ Says(c) \in Seq(Chars)
             /\ \A i \in 1..Len(c.fmt) : c.fmt[i] # "o"
  <2>1. n # NULL /\ n \in Seq(Chars)
    BY DEF Words
  <2>2. Sound(c) /\ Says(c) = Append(n, Space) \o <<t>>
    BY <1>1, <1>5, <2>1, NameSays
  <2>3. Says(c) \in Seq(Chars)
    <3>1. Append(n, Space) \in Seq(Chars)
      BY <2>1, TablesAre, Appending
    <3> QED
      BY <2>2, <3>1, OneElement
  <2>4. c.fmt = <<Percent, "s", Space, Percent, "c">> /\ c.fd = STDOUT
    BY <1>5 DEF NameCall, Printf
  <2>5. \A i \in 1..Len(c.fmt) : c.fmt[i] # "o"
    BY <2>4, Between
  <2> QED
    BY <2>2, <2>3, <2>4, <2>5
<1>6. ASSUME NEW a \in Words, NEW t \in Chars, NEW n \in Words, c = SymbolCall(a, t, n)
      PROVE  /\ Sound(c) /\ c.fd = STDOUT /\ Says(c) \in Seq(Chars)
             /\ \A i \in 1..Len(c.fmt) : c.fmt[i] # "o"
  <2>1. n # NULL /\ n \in Seq(Chars) /\ a # NULL /\ a \in Seq(Chars)
    BY DEF Words
  <2>2. /\ Sound(c)
        /\ Says(c) = Append(Append(Append(a, Space) \o <<t>>, Space) \o n, NewLine)
        /\ NewLine \in Chars /\ Space \in Chars
    BY <1>1, <1>6, <2>1, SymbolSays
  <2>3. Says(c) \in Seq(Chars)
    <3> DEFINE x == Append(a, Space) \o <<t>>
    <3>1. Append(a, Space) \in Seq(Chars)
      BY <2>1, <2>2, Appending
    <3>2. x \in Seq(Chars)
      BY <3>1, OneElement
    <3> HIDE DEF x
    <3>3. Append(x, Space) \in Seq(Chars)
      BY <2>2, <3>2, Appending
    <3>4. Append(x, Space) \o n \in Seq(Chars)
      BY <2>1, <3>3
    <3>5. Append(Append(x, Space) \o n, NewLine) \in Seq(Chars)
      BY <2>2, <3>4, Appending
    <3> QED
      BY <2>2, <3>5 DEF x
  <2>4. c.fmt = <<Percent, "s", Space, Percent, "c", Space, Percent, "s", NewLine>>
        /\ c.fd = STDOUT
    BY <1>6 DEF SymbolCall, Printf
  <2>5. \A i \in 1..Len(c.fmt) : c.fmt[i] # "o"
    BY <2>4, Between
  <2> QED
    BY <2>2, <2>3, <2>4, <2>5
<1> QED
  BY <1>1, <1>2, <1>3, <1>4, <1>5, <1>6 DEF Shapes

(* What the calls print one after the other. *)
Spoken(calls) == FlattenSeq([n \in 1..Len(calls) |-> Says(calls[n])])

LEMMA SpokenTyped ==
  ASSUME NEW calls \in Seq(Printable)
  PROVE  /\ Spoken(<<>>) = <<>>
         /\ Spoken(calls) \in Seq(Chars)
         /\ [n \in 1..Len(calls) |-> Says(calls[n])] \in Seq(Seq(Chars))
<1> DEFINE l == Len(calls)
           texts == [n \in 1..l |-> Says(calls[n])]
<1>1. l \in Nat /\ \A n \in 1..l : calls[n] \in Printable
  OBVIOUS
<1>2. \A n \in 1..l : Says(calls[n]) \in Seq(Chars)
  BY <1>1, PrintableIs
<1>3. Spoken(calls) = FlattenSeq(texts)
  BY DEF Spoken
<1> HIDE DEF l
<1>4. texts \in Seq(Seq(Chars))
  <2>1. texts \in [1..l -> Seq(Chars)]
    BY <1>2
  <2> HIDE DEF texts
  <2> QED
    BY <1>1, <2>1
<1>5. FlattenSeq(texts) \in Seq(Chars)
  <2> HIDE DEF texts
  <2> QED
    BY <1>4, FlattenTyped
<1>6. Spoken(<<>>) = <<>>
  <2> DEFINE none == <<>>
             e == [n \in 1..Len(none) |-> Says(none[n])]
  <2>1. e = <<>>
    OBVIOUS
  <2>2. FlattenSeq(<<>>) = <<>>
    <3>1. <<>> \in Seq(Seq(Chars)) /\ <<>> \in Seq(Chars)
      BY NoElements
    <3> QED
      BY <3>1, FlattenAppend
  <2> QED
    BY <2>1, <2>2 DEF Spoken
<1> QED
  BY <1>3, <1>4, <1>5, <1>6 DEF l

LEMMA SpokenMore ==
  ASSUME NEW calls \in Seq(Printable), NEW call \in Printable
  PROVE  Spoken(Append(calls, call)) = Spoken(calls) \o Says(call)
<1> DEFINE l == Len(calls)
           texts == [n \in 1..l |-> Says(calls[n])]
           more == Append(calls, call)
           longer == [n \in 1..(l + 1) |-> Says(more[n])]
           t == Says(call)
<1>1. /\ more \in Seq(Printable) /\ Len(more) = l + 1 /\ l \in Nat
      /\ \A n \in 1..l : more[n] = calls[n]
      /\ more[l + 1] = call
  BY Appending
<1> HIDE DEF more
<1>2. texts \in Seq(Seq(Chars)) /\ longer \in Seq(Seq(Chars))
  BY <1>1, SpokenTyped
<1>3. t \in Seq(Chars)
  BY PrintableIs
<1>4. Spoken(more) = FlattenSeq(longer) /\ Spoken(calls) = FlattenSeq(texts)
  BY <1>1 DEF Spoken
<1> HIDE DEF l
<1>5. Len(texts) = l /\ \A n \in 1..l : texts[n] = Says(calls[n])
  BY <1>1
<1>6. /\ Len(longer) = l + 1 /\ \A n \in 1..l : longer[n] = Says(calls[n])
      /\ longer[l + 1] = t
  <2>1. \A n \in 1..l : n \in 1..(l + 1)
    BY <1>1
  <2>2. l + 1 \in 1..(l + 1) /\ l + 1 \in Nat
    BY <1>1
  <2> QED
    BY <1>1, <2>1, <2>2
<1> HIDE DEF texts, longer, t
<1>7. longer = Append(texts, t)
  <2>1. /\ Append(texts, t) \in Seq(Seq(Chars)) /\ Len(Append(texts, t)) = l + 1
        /\ \A n \in 1..l : Append(texts, t)[n] = texts[n]
        /\ Append(texts, t)[l + 1] = t
    BY <1>2, <1>3, <1>5, Appending
  <2>2. ASSUME NEW n \in 1..(l + 1) PROVE longer[n] = Append(texts, t)[n]
    <3>1. n \in 1..l \/ n = l + 1
      BY <1>1
    <3> QED
      BY <1>5, <1>6, <2>1, <3>1
  <2> QED
    BY <1>2, <1>6, <2>1, <2>2, SeqEqual
<1>8. FlattenSeq(longer) = FlattenSeq(texts) \o t
  BY <1>2, <1>3, <1>7, FlattenAppend
<1> QED
  BY <1>4, <1>8 DEF more, t

LEMMA SpokenOne ==
  ASSUME NEW call \in Printable
  PROVE  /\ Spoken(<<call>>) = Says(call)
         /\ \A other \in Printable : Spoken(<<call, other>>) = Says(call) \o Says(other)
<1>1. <<>> \in Seq(Printable) /\ Append(<<>>, call) = <<call>>
  BY NoElements
<1>2. Says(call) \in Seq(Chars)
  BY PrintableIs
<1>3. Spoken(<<call>>) = <<>> \o Says(call)
  BY <1>1, SpokenTyped, SpokenMore
<1>4. <<>> \o Says(call) = Says(call)
  BY <1>2, ConcatEmptySeq
<1>5. ASSUME NEW other \in Printable
      PROVE  Spoken(<<call, other>>) = Says(call) \o Says(other)
  <2>1. <<call>> \in Seq(Printable)
    BY OneElement
  <2>2. Append(<<call>>, other) = <<call, other>>
    BY TwoElements
  <2> QED
    BY <1>3, <1>4, <2>1, <2>2, SpokenMore
<1> QED
  BY <1>3, <1>4, <1>5

LEMMA SpokenJoin ==
  ASSUME NEW x \in Seq(Printable), NEW y \in Seq(Printable)
  PROVE  Spoken(x \o y) = Spoken(x) \o Spoken(y)
<1> DEFINE l == Len(y)
           w(i) == SubSeq(y, 1, i)
           bad == {i \in 0..l : Spoken(x \o w(i)) # Spoken(x) \o Spoken(w(i))}
<1>1. l \in Nat /\ \A i \in 1..l : y[i] \in Printable
  OBVIOUS
<1>2. w(0) = <<>> /\ w(l) = y
  OBVIOUS
<1>3. \A i \in 0..l : w(i) \in Seq(Printable)
  OBVIOUS
<1>4. \A i \in 1..l : w(i) = Append(w(i - 1), y[i])
  BY OneLonger
<1>5. Spoken(x) \in Seq(Chars) /\ \A i \in 0..l : Spoken(w(i)) \in Seq(Chars)
  BY <1>3, SpokenTyped
<1> HIDE DEF w, l
<1>6. bad = {}
  <2> SUFFICES ASSUME bad # {} PROVE FALSE
    OBVIOUS
  <2>1. PICK n \in bad : \A j \in bad : n <= j
    <3>1. bad \subseteq Nat
      BY <1>1
    <3> HIDE DEF bad
    <3> QED
      BY <3>1, Least
  <2>2. CASE n = 0
    <3>1. x \o <<>> = x /\ Spoken(x) \o <<>> = Spoken(x)
      BY <1>5, ConcatEmptySeq
    <3>2. Spoken(x \o w(0)) = Spoken(x) \o Spoken(w(0))
      BY <1>2, <3>1, SpokenTyped
    <3> QED
      BY <2>1, <2>2, <3>2
  <2>3. CASE n # 0
    <3> DEFINE v == w(n - 1)
               xv == x \o v
    <3>1. n \in 1..l /\ n - 1 \in 0..l /\ ~ (n <= n - 1)
      BY <1>1, <2>1, <2>3
    <3>2. Spoken(xv) = Spoken(x) \o Spoken(v)
      BY <2>1, <3>1
    <3>3. /\ v \in Seq(Printable) /\ y[n] \in Printable /\ w(n) = Append(v, y[n])
          /\ Spoken(v) \in Seq(Chars)
      BY <1>1, <1>3, <1>4, <1>5, <3>1
    <3> HIDE DEF v
    <3>4. x \o w(n) = Append(xv, y[n]) /\ xv \in Seq(Printable)
      <4>1. x \o Append(v, y[n]) = Append(xv, y[n]) /\ xv \in Seq(Printable)
        BY <3>3, AppendJoined, Zenon
      <4> QED
        BY <3>3, <4>1, Zenon
    <3> HIDE DEF xv
    <3>5. Spoken(x \o w(n)) = (Spoken(x) \o Spoken(v)) \o Says(y[n])
      BY <3>2, <3>3, <3>4, SpokenMore
    <3>6. Spoken(w(n)) = Spoken(v) \o Says(y[n])
      BY <3>3, SpokenMore
    <3>7. Says(y[n]) \in Seq(Chars)
      BY <3>3, PrintableIs
    <3>8. (Spoken(x) \o Spoken(v)) \o Says(y[n]) = Spoken(x) \o (Spoken(v) \o Says(y[n]))
      <4> DEFINE p == Spoken(x)
                 q == Spoken(v)
                 r == Says(y[n])
      <4>1. p \in Seq(Chars) /\ q \in Seq(Chars) /\ r \in Seq(Chars)
        BY <1>5, <3>3, <3>7
      <4> HIDE DEF p, q, r
      <4>2. (p \o q) \o r = p \o (q \o r)
        <5>1. Regroups(p, q, r)
          BY <4>1, Associative, Zenon
        <5> QED
          BY <5>1 DEF Regroups
      <4> QED
        BY <4>2 DEF p, q, r
    <3> QED
      BY <2>1, <3>5, <3>6, <3>8
  <2> QED
    BY <2>2, <2>3
<1>7. Spoken(x \o w(l)) = Spoken(x) \o Spoken(w(l))
  <2>1. l \in 0..l
    BY <1>1
  <2> QED
    BY <1>6, <2>1
<1> QED
  BY <1>2, <1>7

-----------------------------------------------------------------------------
(* The line of a symbol. *)

(* What print_hex_field prints behind the space. *)
Field(value) == PrintHexField(value).args[1]

Address(sym) ==
  IF Unresolved(sym) THEN FtMemset(Space, Width(sym.class)) ELSE WriteHex(sym.value, sym.class)

Fields(sym) ==
  IF Unresolved(sym) THEN <<>>
  ELSE IF sym.size = 0 THEN <<Space>> \o Field(sym.value)
  ELSE (<<Space>> \o Field(sym.value)) \o (<<Space>> \o Field(sym.size))

Line(sym, opt) ==
  IF "P" \in opt THEN (Append(sym.name, Space) \o <<sym.type>>) \o Fields(sym)
  ELSE Append(Append(Address(sym), Space) \o <<sym.type>>, Space) \o sym.name

(* The digits are neither the NULL string nor what divides a listing. *)
LEMMA DigitsDiffer ==
  \A d \in 1..16 : LOWER[d] # "NULL" /\ LOWER[d] # Space /\ LOWER[d] # NewLine
<1>1. \A d \in 1..16 : LOWER[d] # "NULL"
  BY SMT DEF LOWER
<1>2. ASSUME NEW d \in 1..16
      PROVE  LOWER[d] \in {"0", "1", "2", "3", "4", "5", "6", "7",
                           "8", "9", "a", "b", "c", "d", "e", "f"}
  BY SMT DEF LOWER
<1>3. \A c \in {"0", "1", "2", "3", "4", "5", "6", "7",
                "8", "9", "a", "b", "c", "d", "e", "f"} : c # Space
  BY Zenon DEF Space
<1>4. \A c \in {"0", "1", "2", "3", "4", "5", "6", "7",
                "8", "9", "a", "b", "c", "d", "e", "f"} : c # NewLine
  BY Zenon DEF NewLine
<1> QED
  BY <1>1, <1>2, <1>3, <1>4, Zenon

(* A field is the number without leading zeros. *)
LEMMA FieldOf ==
  ASSUME NEW v \in 0..(Power(16, 2 * DIGITS) - 1)
  PROVE  /\ PrintHexField(v) = FieldCall(Field(v))
         /\ Field(v) \in Words /\ Plain(Field(v), v)
         /\ Without(Field(v), Space) /\ Without(Field(v), NewLine)
<1> DEFINE w == 2 * DIGITS
           h == Hex(v, w)
           first == CHOOSE i \in DOMAIN h : /\ h[i] # "0" \/ i = Len(h)
                                            /\ \A j \in 1..(i - 1) : h[j] = "0"
           able == {i \in 1..w : h[i] # "0" \/ i = w}
           z == SubSeq(h, first, Len(h))
<1>1. w \in Nat \ {0} /\ w \in Nat
  BY PrintfAssumption
<1>2. WriteHex(v, 64) = h
  BY DEF WriteHex, Width, Hex
<1>3. PrintHexField(v) = FieldCall(z)
  BY <1>2 DEF PrintHexField, FieldCall
<1>4. Field(v) = z
  <2>1. \A x : FieldCall(x).args[1] = x
    BY DEF FieldCall, Printf
  <2> HIDE DEF z
  <2> QED
    BY <1>3, <2>1 DEF Field
<1> HIDE DEF w
<1>5. v \in Nat /\ Quotients(v, 16)[w] = 0
  <2>1. v \in 0..(Power(16, w) - 1)
    BY DEF w
  <2> QED
    BY <1>1, <2>1, HexFits
<1>6. h \in Seq(Chars) /\ Len(h) = w /\ DOMAIN h = 1..w
  <2>1. h \in Seq(Chars) /\ Len(h) = w
    BY <1>1, <1>5, HexIs
  <2> HIDE DEF h
  <2> QED
    BY <2>1
<1> HIDE DEF h
<1>7. PICK n \in able : \A i \in able : n <= i
  <2>1. able \subseteq Nat
    BY <1>1
  <2>2. w \in able
    BY <1>1
  <2> HIDE DEF able
  <2> QED
    BY <2>1, <2>2, Least
<1>8. /\ n \in DOMAIN h /\ (h[n] # "0" \/ n = Len(h))
      /\ \A j \in 1..(n - 1) : h[j] = "0"
  <2>1. ASSUME NEW j \in 1..(n - 1) PROVE h[j] = "0"
    <3>1. n \in 1..w
      BY <1>7
    <3>2. j \in 1..w /\ ~ (n <= j)
      BY <1>1, <3>1
    <3> QED
      BY <1>7, <3>2
  <2> QED
    BY <1>6, <1>7, <2>1
<1>9. /\ first \in 1..w /\ (h[first] # "0" \/ first = w)
      /\ \A j \in 1..(first - 1) : h[j] = "0"
  BY <1>6, <1>8
<1> HIDE DEF first
<1>10. /\ z \in Seq(Chars) /\ Plain(z, v)
       /\ \A i \in 1..Len(z) : \E d \in 1..16 : z[i] = LOWER[d]
  <2> DEFINE y == SubSeq(Hex(v, w), first, w)
  <2>1. z = y
    BY <1>6 DEF h
  <2>2. /\ first \in 1..w /\ (Hex(v, w)[first] # "0" \/ first = w)
        /\ \A j \in 1..(first - 1) : Hex(v, w)[j] = "0"
    BY <1>9 DEF h
  <2> HIDE DEF z
  <2>3. /\ y \in Seq(Chars) /\ Plain(y, v)
        /\ \A i \in 1..Len(y) : \E d \in 1..16 : y[i] = LOWER[d]
    BY <1>1, <1>5, <2>2, FieldIs
  <2> HIDE DEF y
  <2> QED
    BY <2>1, <2>3
<1> HIDE DEF z
<1>11. Len(z) \in Nat /\ Len(z) >= 1 /\ DOMAIN z = 1..Len(z)
  BY <1>10 DEF Plain
<1>12. Without(z, Space) /\ Without(z, NewLine)
  BY <1>10, <1>11, DigitsDiffer DEF Without
<1>13. z # NULL
  <2>1. z[1] # "NULL"
    <3>1. 1 \in 1..Len(z)
      BY <1>11
    <3> QED
      BY <1>10, <3>1, DigitsDiffer
  <2>2. NULL[1] = "NULL"
    BY DEF NULL
  <2> QED
    BY <2>1, <2>2
<1> QED
  BY <1>3, <1>4, <1>10, <1>12, <1>13 DEF Words

(* An address has its digits or as many spaces. *)
LEMMA AddressIs ==
  ASSUME NEW sym, SymbolOK(sym)
  PROVE  LET w == Width(sym.class)
         IN  /\ w \in Nat \ {0} /\ Address(sym) \in Words /\ Len(Address(sym)) = w
             /\ Without(Address(sym), NewLine)
             /\ IF Unresolved(sym) THEN \A i \in 1..w : Address(sym)[i] = Space
                                   ELSE HexValue(Address(sym)) = sym.value
<1> DEFINE w == Width(sym.class)
           a == Address(sym)
<1>1. w \in Nat \ {0}
  BY PrintfAssumption DEF Width
<1>2. CASE Unresolved(sym)
  <2>1. a = [i \in 1..w |-> Space]
    BY <1>2 DEF Address, FtMemset
  <2> HIDE DEF a, w
  <2>2. /\ a \in Seq(Chars) /\ Len(a) = w /\ DOMAIN a = 1..w
        /\ \A i \in 1..w : a[i] = Space
    <3>1. a \in [1..w -> Chars]
      BY <2>1, TablesAre
    <3> QED
      BY <1>1, <2>1, <3>1
  <2>3. a # NULL
    <3>1. 1 \in 1..w /\ NULL[1] = "NULL"
      BY <1>1 DEF NULL
    <3> QED
      BY <2>2, <3>1, Between
  <2>4. Without(a, NewLine)
    BY <2>2, Between DEF Without
  <2> QED
    BY <1>1, <1>2, <2>2, <2>3, <2>4 DEF Words, a, w
<1>3. CASE ~ Unresolved(sym)
  <2>1. a = Hex(sym.value, w)
    BY <1>3 DEF Address, WriteHex, Hex
  <2>2. sym.value \in 0..(Power(16, w) - 1)
    BY DEF SymbolOK
  <2> HIDE DEF a, w
  <2>3. sym.value \in Nat /\ Quotients(sym.value, 16)[w] = 0
    BY <1>1, <2>2, HexFits
  <2>4. /\ a \in Seq(Chars) /\ Len(a) = w
        /\ \A i \in 1..w : /\ a[i] = LOWER[(Quotients(sym.value, 16)[w - i] % 16) + 1]
                           /\ Quotients(sym.value, 16)[w - i] \in Nat
    BY <1>1, <2>1, <2>3, HexIs
  <2>5. HexValue(a) = sym.value
    BY <1>1, <2>1, <2>3, HexReadsBack
  <2>6. ASSUME NEW i \in 1..w PROVE \E d \in 1..16 : a[i] = LOWER[d]
    <3>1. \A q \in Nat : (q % 16) + 1 \in 1..16
      OBVIOUS
    <3> QED
      BY <2>4, <3>1
  <2>7. DOMAIN a = 1..w /\ 1 \in 1..w
    BY <1>1, <2>4
  <2>8. a # NULL
    <3>1. NULL[1] = "NULL"
      BY DEF NULL
    <3> QED
      BY <2>6, <2>7, <3>1, DigitsDiffer
  <2>9. Without(a, NewLine)
    BY <2>6, <2>7, DigitsDiffer DEF Without
  <2> QED
    BY <1>1, <1>3, <2>4, <2>5, <2>8, <2>9 DEF Words, a, w
<1> QED
  BY <1>2, <1>3

(* What the types of a symbol are. *)
LEMMA SymbolIs ==
  ASSUME NEW sym, SymbolOK(sym)
  PROVE  /\ sym.name \in Words /\ sym.type \in Chars
         /\ sym.type # Space /\ sym.type # NewLine
         /\ sym.value \in 0..(Power(16, 2 * DIGITS) - 1)
         /\ sym.size \in 0..(Power(16, 2 * DIGITS) - 1)
<1>1. sym.name \in Words
  <2>1. sym.name \in Seq(STRING) /\ sym.name # NULL
    BY DEF SymbolOK
  <2>2. sym.name \in Seq(Chars)
    BY <2>1, TablesAre, SeqOfMore
  <2> QED
    BY <2>1, <2>2 DEF Words
<1>2. sym.type \in Chars /\ sym.type # Space /\ sym.type # NewLine
  BY TablesAre DEF SymbolOK
<1>3. sym.size \in 0..(Power(16, 2 * DIGITS) - 1)
  BY DEF SymbolOK
<1>4. sym.value \in 0..(Power(16, 2 * DIGITS) - 1)
  <2> DEFINE w == Width(sym.class)
             d == 2 * DIGITS
  <2>1. sym.value \in 0..(Power(16, w) - 1)
    BY DEF SymbolOK
  <2>2. w \in Nat /\ d \in Nat /\ w <= d
    BY PrintfAssumption DEF Width
  <2> HIDE DEF w, d
  <2>3. Power(16, w) <= Power(16, d) /\ Power(16, w) \in Nat /\ Power(16, d) \in Nat
    <3>1. 16 \in Nat /\ 16 >= 2
      OBVIOUS
    <3> QED
      BY <2>2, <3>1, PowerGrows, PowerIs
  <2>4. sym.value \in 0..(Power(16, d) - 1)
    BY <2>1, <2>3
  <2> QED
    BY <2>4 DEF d
<1> QED
  BY <1>1, <1>2, <1>3, <1>4

(* What print_symbol calls ft_printf with. *)
LEMMA SymbolShapes ==
  ASSUME NEW sym, SymbolOK(sym), NEW opt
  PROVE  /\ PrintSymbol(sym, opt) \in Seq(Shapes)
         /\ "P" \notin opt =>
              PrintSymbol(sym, opt) = <<SymbolCall(Address(sym), sym.type, sym.name)>>
         /\ "P" \in opt =>
              \E mid \in Seq(Shapes) :
                /\ PrintSymbol(sym, opt) =
                     (<<NameCall(sym.name, sym.type)>> \o mid) \o <<EndLine>>
                /\ mid = IF Unresolved(sym) THEN <<>>
                         ELSE IF sym.size = 0 THEN <<FieldCall(Field(sym.value))>>
                         ELSE <<FieldCall(Field(sym.value)), FieldCall(Field(sym.size))>>
<1>1. /\ sym.name \in Words /\ sym.type \in Chars /\ Address(sym) \in Words
      /\ PrintHexField(sym.value) = FieldCall(Field(sym.value)) /\ Field(sym.value) \in Words
      /\ PrintHexField(sym.size) = FieldCall(Field(sym.size)) /\ Field(sym.size) \in Words
  BY SymbolIs, AddressIs, FieldOf
<1> DEFINE line == SymbolCall(Address(sym), sym.type, sym.name)
           name == NameCall(sym.name, sym.type)
           f1   == FieldCall(Field(sym.value))
           f2   == FieldCall(Field(sym.size))
           mid  == IF Unresolved(sym) THEN <<>> ELSE IF sym.size = 0 THEN <<f1>> ELSE <<f1, f2>>
<1>2. line \in Shapes /\ name \in Shapes /\ f1 \in Shapes /\ f2 \in Shapes /\ EndLine \in Shapes
  BY <1>1 DEF Shapes
<1>3. CASE "P" \notin opt
  <2>1. PrintSymbol(sym, opt) = <<line>>
    BY <1>3 DEF PrintSymbol, SymbolCall, Address
  <2> HIDE DEF line
  <2>2. <<line>> \in Seq(Shapes)
    BY <1>2, OneElement
  <2> QED
    BY <1>3, <2>1, <2>2 DEF line
<1>4. CASE "P" \in opt
  <2>1. PrintSymbol(sym, opt) = (<<name>> \o mid) \o <<EndLine>>
    BY <1>1, <1>4 DEF PrintSymbol, NameCall
  <2> HIDE DEF name, f1, f2
  <2>2. mid \in Seq(Shapes)
    <3>1. <<>> \in Seq(Shapes) /\ <<f1>> \in Seq(Shapes) /\ <<f1, f2>> \in Seq(Shapes)
      BY <1>2, NoElements, OneElement, TwoElements
    <3> QED
      BY <3>1
  <2> HIDE DEF mid
  <2>3. <<name>> \in Seq(Shapes) /\ <<EndLine>> \in Seq(Shapes)
    BY <1>2, OneElement
  <2>4. (<<name>> \o mid) \o <<EndLine>> \in Seq(Shapes)
    BY <2>2, <2>3
  <2> QED
    BY <1>4, <2>1, <2>2, <2>4 DEF mid, name, f1, f2
<1> QED
  BY <1>3, <1>4

(* Its calls print the symbol's line. *)
LEMMA SymbolSpeaks ==
  ASSUME NEW sym, SymbolOK(sym), NEW opt, PrintSymbol(sym, opt) \in Seq(Printable)
  PROVE  /\ Line(sym, opt) \in Seq(Chars) /\ NewLine \in Chars
         /\ Spoken(PrintSymbol(sym, opt)) = Append(Line(sym, opt), NewLine)
<1>1. sym.name \in Words /\ Address(sym) \in Words
  BY SymbolIs, AddressIs
<1>2. CASE "P" \notin opt
  <2> DEFINE call == SymbolCall(Address(sym), sym.type, sym.name)
             x == Append(Address(sym), Space)
             y == Append(x \o <<sym.type>>, Space)
  <2>1. PrintSymbol(sym, opt) = <<call>>
    BY <1>2, SymbolShapes
  <2>2. call \in Printable /\ CallOK(call)
    <3> HIDE DEF call
    <3>1. <<call>> \in Seq(Printable) /\ Len(<<call>>) = 1 /\ <<call>>[1] = call
      BY <2>1
    <3>2. call \in Printable
      BY <3>1
    <3> QED
      BY <3>2 DEF Printable
  <2>3. Spoken(<<call>>) = Says(call)
    BY <2>2, SpokenOne
  <2>4. /\ Says(call) = Append(y \o sym.name, NewLine)
        /\ Address(sym) \in Seq(Chars) /\ sym.name \in Seq(Chars)
        /\ sym.type \in Chars /\ Space \in Chars /\ NewLine \in Chars
    BY <1>1, <2>2, SymbolSays DEF Words
  <2>5. Line(sym, opt) = y \o sym.name
    BY <1>2 DEF Line
  <2>6. x \in Seq(Chars)
    BY <2>4, Appending
  <2> HIDE DEF call, x
  <2>7. x \o <<sym.type>> \in Seq(Chars)
    BY <2>4, <2>6, OneElement
  <2>8. y \in Seq(Chars)
    BY <2>4, <2>7, Appending
  <2> HIDE DEF y
  <2>9. y \o sym.name \in Seq(Chars)
    BY <2>4, <2>8
  <2> QED
    BY <2>1, <2>3, <2>4, <2>5, <2>9
<1>3. CASE "P" \in opt
  <2> DEFINE name == NameCall(sym.name, sym.type)
             f1   == FieldCall(Field(sym.value))
             f2   == FieldCall(Field(sym.size))
             t1   == <<Space>> \o Field(sym.value)
             t2   == <<Space>> \o Field(sym.size)
             n    == Append(sym.name, Space) \o <<sym.type>>
             F    == Fields(sym)
  <2>1. PICK mid \in Seq(Shapes) :
          /\ PrintSymbol(sym, opt) = (<<name>> \o mid) \o <<EndLine>>
          /\ mid = IF Unresolved(sym) THEN <<>> ELSE IF sym.size = 0 THEN <<f1>> ELSE <<f1, f2>>
    BY <1>3, SymbolShapes
  <2>2. name \in Shapes /\ EndLine \in Shapes
    BY <1>1, SymbolIs DEF Shapes
  <2> DEFINE a == <<name>> \o mid
  <2>3. <<name>> \in Seq(Printable) /\ mid \in Seq(Printable) /\ <<EndLine>> \in Seq(Printable)
        /\ a \in Seq(Printable)
    <3> HIDE DEF name
    <3>1. <<name>> \in Seq(Shapes) /\ <<EndLine>> \in Seq(Shapes)
      BY <2>2, OneElement
    <3>2. a \in Seq(Shapes)
      BY <3>1
    <3> HIDE DEF a
    <3>3. a \in Seq(Printable) /\ <<EndLine>> \in Seq(Printable)
      BY <2>1, <3>1, <3>2, Halves DEF a
    <3>4. <<name>> \in Seq(Printable) /\ mid \in Seq(Printable)
      <4>1. <<name>> \o mid \in Seq(Printable)
        BY <3>3 DEF a
      <4> QED
        BY <3>1, <4>1, Halves
    <3> QED
      BY <3>3, <3>4
  <2>4. name \in Printable /\ EndLine \in Printable
    <3> HIDE DEF name
    <3>1. \A e : <<e>> \in Seq(Printable) => e \in Printable
      <4> SUFFICES ASSUME NEW e, <<e>> \in Seq(Printable) PROVE e \in Printable
        OBVIOUS
      <4>1. Len(<<e>>) = 1 /\ <<e>>[1] = e
        OBVIOUS
      <4> QED
        BY <4>1
    <3> QED
      BY <2>3, <3>1
  <2>5. Spoken(<<name>>) = n /\ Spoken(<<EndLine>>) = <<NewLine>>
    <3>1. CallOK(name) /\ CallOK(EndLine)
      BY <2>4 DEF Printable
    <3>2. Says(name) = n
      BY <1>1, <3>1, NameSays DEF Words
    <3>3. Says(EndLine) = <<NewLine>>
      BY <3>1, EndLineSays
    <3> QED
      BY <2>4, <3>2, <3>3, SpokenOne
  <2>6. Spoken(mid) = F
    <3>1. Field(sym.value) \in Words /\ Field(sym.size) \in Words
      BY SymbolIs, FieldOf
    <3>2. ASSUME f1 \in Printable PROVE Says(f1) = t1
      <4>1. CallOK(f1) /\ Field(sym.value) # NULL
        BY <3>1, <3>2 DEF Printable, Words
      <4> QED
        BY <4>1, FieldSays
    <3>3. ASSUME f2 \in Printable PROVE Says(f2) = t2
      <4>1. CallOK(f2) /\ Field(sym.size) # NULL
        BY <3>1, <3>3 DEF Printable, Words
      <4> QED
        BY <4>1, FieldSays
    <3>4. F = IF Unresolved(sym) THEN <<>> ELSE IF sym.size = 0 THEN t1 ELSE t1 \o t2
      BY DEF Fields
    <3> HIDE DEF f1, f2, t1, t2, F
    <3>5. CASE Unresolved(sym)
      BY <2>1, <2>3, <3>4, <3>5, SpokenTyped
    <3>6. CASE ~ Unresolved(sym) /\ sym.size = 0
      <4>1. mid = <<f1>>
        BY <2>1, <3>6
      <4>2. f1 \in Printable
        <5>1. <<f1>> \in Seq(Printable) /\ Len(<<f1>>) = 1 /\ <<f1>>[1] = f1
          BY <2>3, <4>1
        <5> QED
          BY <5>1
      <4> QED
        BY <3>2, <3>4, <3>6, <4>1, <4>2, SpokenOne
    <3>7. CASE ~ Unresolved(sym) /\ sym.size # 0
      <4>1. mid = <<f1, f2>>
        BY <2>1, <3>7
      <4>2. f1 \in Printable /\ f2 \in Printable
        <5>1. <<f1, f2>> \in Seq(Printable) /\ Len(<<f1, f2>>) = 2
              /\ <<f1, f2>>[1] = f1 /\ <<f1, f2>>[2] = f2
          BY <2>3, <4>1
        <5> QED
          BY <5>1
      <4> QED
        BY <3>2, <3>3, <3>4, <3>7, <4>1, <4>2, SpokenOne
    <3> QED
      BY <3>5, <3>6, <3>7
  <2>7. /\ n \in Seq(Chars) /\ F \in Seq(Chars) /\ <<NewLine>> \in Seq(Chars)
    BY <2>3, <2>5, <2>6, SpokenTyped
  <2> HIDE DEF name, n, F
  <2>8. Spoken(PrintSymbol(sym, opt)) = (n \o F) \o <<NewLine>>
    <3>1. Spoken(a) = n \o F
      BY <2>3, <2>5, <2>6, SpokenJoin
    <3> HIDE DEF a
    <3>2. Spoken(a \o <<EndLine>>) = Spoken(a) \o <<NewLine>>
      BY <2>3, <2>5, SpokenJoin
    <3> QED
      BY <2>1, <3>1, <3>2 DEF a
  <2>9. n \o F \in Seq(Chars) /\ (n \o F) \o <<NewLine>> = Append(n \o F, NewLine)
        /\ NewLine \in Chars
    <3> DEFINE nf == n \o F
    <3>1. nf \in Seq(Chars)
      BY <2>7
    <3>2. NewLine \in Chars
      <4>1. Len(<<NewLine>>) = 1 /\ <<NewLine>>[1] = NewLine
        OBVIOUS
      <4> QED
        BY <2>7, <4>1
    <3> HIDE DEF nf
    <3>3. nf \o <<NewLine>> = Append(nf, NewLine)
      BY <3>1, <3>2, AppendIsConcat
    <3> QED
      BY <3>1, <3>2, <3>3 DEF nf
  <2>10. Line(sym, opt) = n \o F
    BY <1>3 DEF Line, n, F
  <2> QED
    BY <2>8, <2>9, <2>10
<1> QED
  BY <1>2, <1>3

-----------------------------------------------------------------------------
(* Reading the line of a symbol. *)

LEMMA WithoutJoined ==
  ASSUME NEW C, NEW x \in Seq(C), NEW y \in Seq(C), NEW c
  PROVE  /\ Without(x, c) /\ Without(y, c) => Without(x \o y, c)
         /\ \A e \in C : Without(x, c) /\ e # c => Without(Append(x, e), c)
         /\ \A e \in C : e # c => Without(<<e>>, c)
         /\ Without(<<>>, c)
<1>1. ASSUME Without(x, c), Without(y, c) PROVE Without(x \o y, c)
  <2> DEFINE z == x \o y
  <2>1. /\ z \in Seq(C) /\ Len(z) = Len(x) + Len(y) /\ Len(x) \in Nat /\ Len(y) \in Nat
        /\ \A i \in 1..Len(x) : z[i] = x[i] /\ x[i] # c
        /\ \A i \in 1..Len(y) : z[Len(x) + i] = y[i] /\ y[i] # c
    BY <1>1 DEF Without
  <2> HIDE DEF z
  <2>2. ASSUME NEW i \in 1..Len(z) PROVE z[i] # c
    <3>1. CASE i \in 1..Len(x)
      BY <2>1, <3>1
    <3>2. CASE i \notin 1..Len(x)
      <4> DEFINE j == i - Len(x)
      <4>1. j \in 1..Len(y) /\ Len(x) + j = i
        BY <2>1, <3>2
      <4> HIDE DEF j
      <4> QED
        BY <2>1, <4>1
    <3> QED
      BY <3>1, <3>2
  <2>3. DOMAIN z = 1..Len(z)
    BY <2>1
  <2> QED
    BY <2>2, <2>3 DEF Without, z
<1>2. ASSUME NEW e \in C, Without(x, c), e # c PROVE Without(Append(x, e), c)
  <2>1. /\ DOMAIN x = 1..Len(x) /\ DOMAIN Append(x, e) = 1..(Len(x) + 1) /\ Len(x) \in Nat
        /\ \A i \in 1..Len(x) : Append(x, e)[i] = x[i]
        /\ Append(x, e)[Len(x) + 1] = e
    BY Appending
  <2>2. \A i \in 1..(Len(x) + 1) : i \in 1..Len(x) \/ i = Len(x) + 1
    BY <2>1
  <2> QED
    BY <1>2, <2>1, <2>2 DEF Without
<1>3. \A e \in C : e # c => Without(<<e>>, c)
  BY DEF Without
<1>4. Without(<<>>, c)
  BY DEF Without
<1> QED
  BY <1>1, <1>2, <1>3, <1>4

(* No line is ended early, if no name does. *)
LEMMA LineWithout ==
  ASSUME NEW sym, SymbolOK(sym), NEW opt, Without(sym.name, NewLine)
  PROVE  Without(Line(sym, opt), NewLine)
<1>1. /\ sym.name \in Seq(Chars) /\ sym.type \in Chars /\ sym.type # NewLine
      /\ Space \in Chars /\ Space # NewLine
  BY SymbolIs, TablesAre, Between DEF Words
<1>2. Address(sym) \in Seq(Chars) /\ Without(Address(sym), NewLine)
  BY AddressIs DEF Words
<1>3. \A v \in 0..(Power(16, 2 * DIGITS) - 1) :
        Field(v) \in Seq(Chars) /\ Without(Field(v), NewLine)
  BY FieldOf DEF Words
<1>4. ASSUME NEW x \in Seq(Chars), Without(x, NewLine)
      PROVE  LET y == Append(x, Space) \o <<sym.type>>
             IN  y \in Seq(Chars) /\ Without(y, NewLine)
  <2> DEFINE z == Append(x, Space)
  <2>1. z \in Seq(Chars) /\ Without(z, NewLine)
    BY <1>1, <1>4, Appending, WithoutJoined
  <2>2. <<sym.type>> \in Seq(Chars) /\ Without(<<sym.type>>, NewLine)
    <3>1. <<sym.type>> \in Seq(Chars)
      BY <1>1, OneElement
    <3> QED
      BY <1>1, <3>1, WithoutJoined
  <2> DEFINE one == <<sym.type>>
  <2>3. one \in Seq(Chars) /\ Without(one, NewLine)
    BY <2>2
  <2> HIDE DEF z, one
  <2>4. z \o one \in Seq(Chars) /\ Without(z \o one, NewLine)
    BY <2>1, <2>3, WithoutJoined
  <2> QED
    BY <2>4 DEF z, one
<1>5. ASSUME NEW v \in 0..(Power(16, 2 * DIGITS) - 1)
      PROVE  LET y == <<Space>> \o Field(v)
             IN  y \in Seq(Chars) /\ Without(y, NewLine)
  <2> DEFINE f == Field(v)
  <2>1. f \in Seq(Chars) /\ Without(f, NewLine)
    BY <1>3
  <2> HIDE DEF f
  <2>2. <<Space>> \in Seq(Chars) /\ Without(<<Space>>, NewLine)
    <3>1. <<Space>> \in Seq(Chars)
      BY <1>1, OneElement
    <3> QED
      BY <1>1, <3>1, WithoutJoined
  <2> DEFINE one == <<Space>>
  <2>3. one \in Seq(Chars) /\ Without(one, NewLine)
    BY <2>2
  <2> HIDE DEF one
  <2>4. one \o f \in Seq(Chars) /\ Without(one \o f, NewLine)
    BY <2>1, <2>3, WithoutJoined
  <2> QED
    BY <2>4 DEF f, one
<1>6. CASE "P" \notin opt
  <2> DEFINE y == Append(Address(sym), Space) \o <<sym.type>>
             z == Append(y, Space)
  <2>1. y \in Seq(Chars) /\ Without(y, NewLine)
    BY <1>2, <1>4
  <2>2. Line(sym, opt) = z \o sym.name
    BY <1>6 DEF Line
  <2> HIDE DEF y
  <2>3. z \in Seq(Chars) /\ Without(z, NewLine)
    BY <1>1, <2>1, Appending, WithoutJoined
  <2> HIDE DEF z
  <2> QED
    BY <1>1, <2>2, <2>3, WithoutJoined
<1>7. CASE "P" \in opt
  <2> DEFINE y == Append(sym.name, Space) \o <<sym.type>>
             f1 == <<Space>> \o Field(sym.value)
             f2 == <<Space>> \o Field(sym.size)
             F == Fields(sym)
  <2>1. y \in Seq(Chars) /\ Without(y, NewLine)
    BY <1>1, <1>4
  <2>2. /\ f1 \in Seq(Chars) /\ Without(f1, NewLine)
        /\ f2 \in Seq(Chars) /\ Without(f2, NewLine)
    BY <1>5, SymbolIs
  <2>3. F = IF Unresolved(sym) THEN <<>> ELSE IF sym.size = 0 THEN f1 ELSE f1 \o f2
    BY DEF Fields
  <2> HIDE DEF y, f1, f2, F
  <2>4. /\ f1 \o f2 \in Seq(Chars) /\ Without(f1 \o f2, NewLine)
        /\ <<>> \in Seq(Chars) /\ Without(<<>>, NewLine)
    BY <2>2, WithoutJoined, NoElements
  <2>5. F \in Seq(Chars) /\ Without(F, NewLine)
    BY <2>2, <2>3, <2>4
  <2>6. Line(sym, opt) = y \o F
    BY <1>7 DEF Line, y, F
  <2> QED
    BY <2>1, <2>5, <2>6, WithoutJoined
<1> QED
  BY <1>6, <1>7

(* The address, the letter and the name are where they belong. *)
LEMMA ReadsPlain ==
  ASSUME NEW sym, SymbolOK(sym), NEW opt, "P" \notin opt
  PROVE  ReadsAs(Line(sym, opt), sym, opt)
<1> DEFINE w == Width(sym.class)
           a == Address(sym)
           n == sym.name
           t == sym.type
           x == Append(a, Space)
           y == x \o <<t>>
           z == Append(y, Space)
           line == z \o n
<1>1. /\ w \in Nat \ {0} /\ a \in Seq(Chars) /\ Len(a) = w
      /\ IF Unresolved(sym) THEN \A i \in 1..w : a[i] = Space ELSE HexValue(a) = sym.value
  BY AddressIs DEF Words
<1>2. n \in Seq(Chars) /\ Len(n) \in Nat /\ t \in Chars /\ Space \in Chars
  BY SymbolIs, TablesAre DEF Words
<1>3. Line(sym, opt) = line
  BY DEF Line
<1>4. Width(sym.class) = w /\ w = IF sym.class = 64 THEN 2 * DIGITS ELSE DIGITS
  BY DEF Width
<1> HIDE DEF a, n, t, w
<1>5. /\ x \in Seq(Chars) /\ Len(x) = w + 1 /\ x[w + 1] = Space
      /\ \A i \in 1..w : x[i] = a[i]
  BY <1>1, <1>2, Appending
<1> HIDE DEF x
<1>6. /\ y \in Seq(Chars) /\ Len(y) = w + 2 /\ y[w + 2] = t
      /\ \A i \in 1..(w + 1) : y[i] = x[i]
  <2>1. y = Append(x, t)
    BY <1>2, <1>5, AppendIsConcat
  <2>2. Append(x, t) \in Seq(Chars) /\ Len(Append(x, t)) = (w + 1) + 1
        /\ Append(x, t)[(w + 1) + 1] = t /\ \A i \in 1..(w + 1) : Append(x, t)[i] = x[i]
    BY <1>2, <1>5, Appending
  <2>3. (w + 1) + 1 = w + 2
    BY <1>1
  <2> QED
    BY <2>1, <2>2, <2>3
<1> HIDE DEF y
<1>7. /\ z \in Seq(Chars) /\ Len(z) = w + 3 /\ z[w + 3] = Space
      /\ \A i \in 1..(w + 2) : z[i] = y[i]
  <2>1. z \in Seq(Chars) /\ Len(z) = (w + 2) + 1 /\ z[(w + 2) + 1] = Space
        /\ \A i \in 1..(w + 2) : z[i] = y[i]
    BY <1>2, <1>6, Appending
  <2>2. (w + 2) + 1 = w + 3
    BY <1>1
  <2> QED
    BY <2>1, <2>2
<1> HIDE DEF z
<1>8. /\ line \in Seq(Chars) /\ Len(line) = w + 3 + Len(n)
      /\ \A i \in 1..(w + 3) : line[i] = z[i]
      /\ \A i \in 1..Len(n) : line[(w + 3) + i] = n[i]
  BY <1>1, <1>2, <1>7, SMTT(30)
<1> HIDE DEF line
<1>9. /\ \A i \in 1..w : line[i] = a[i]
      /\ line[w + 1] = Space /\ line[w + 2] = t /\ line[w + 3] = Space
  <2>1. /\ \A i \in 1..w : i \in 1..(w + 1) /\ i \in 1..(w + 2) /\ i \in 1..(w + 3)
        /\ w + 1 \in 1..(w + 1) /\ w + 1 \in 1..(w + 2) /\ w + 1 \in 1..(w + 3)
        /\ w + 2 \in 1..(w + 2) /\ w + 2 \in 1..(w + 3) /\ w + 3 \in 1..(w + 3)
    BY <1>1
  <2> QED
    BY <1>5, <1>6, <1>7, <1>8, <2>1
<1>10. SubSeq(line, 1, w) = a
  <2>1. 1 <= w + 1 /\ w <= Len(line) /\ w - 1 + 1 = w /\ w \in Int
        /\ \A i \in 1..w : 1 + i - 1 = i
    BY <1>1, <1>2, <1>8
  <2> DEFINE b == SubSeq(line, 1, w)
  <2>2. b \in Seq(Chars) /\ Len(b) = w /\ \A i \in 1..w : b[i] = line[i]
    BY <1>8, <2>1, Slice
  <2> HIDE DEF b
  <2>3. b = a
    BY <1>1, <1>9, <2>2, SeqEqual
  <2> QED
    BY <2>3 DEF b
<1>11. SubSeq(line, w + 1, w + 3) = <<Space, t, Space>>
  <2>1. /\ 1 <= w + 1 /\ w + 1 <= (w + 3) + 1 /\ w + 3 <= Len(line)
        /\ (w + 3) - (w + 1) + 1 = 3 /\ w + 1 \in Int /\ w + 3 \in Int
        /\ (w + 1) + 1 - 1 = w + 1 /\ (w + 1) + 2 - 1 = w + 2 /\ (w + 1) + 3 - 1 = w + 3
    BY <1>1, <1>2, <1>8
  <2> DEFINE p == w + 1
             q == w + 3
             b == SubSeq(line, p, q)
             c == <<Space, t, Space>>
  <2>2. b \in Seq(Chars) /\ Len(b) = 3 /\ \A i \in 1..3 : b[i] = line[p + i - 1]
    <3>1. /\ 1 <= p /\ p <= q + 1 /\ q <= Len(line) /\ p \in Int /\ q \in Int
          /\ q - p + 1 = 3
      BY <2>1
    <3> HIDE DEF p, q
    <3>2. /\ SubSeq(line, p, q) \in Seq(Chars) /\ Len(SubSeq(line, p, q)) = q - p + 1
          /\ \A i \in 1..(q - p + 1) : SubSeq(line, p, q)[i] = line[p + i - 1]
      BY <1>8, <3>1, Slice
    <3> QED
      BY <3>1, <3>2
  <2> HIDE DEF b
  <2>3. b[1] = Space /\ b[2] = t /\ b[3] = Space
    <3>1. b[1] = line[p + 1 - 1] /\ b[2] = line[p + 2 - 1] /\ b[3] = line[p + 3 - 1]
      <4>1. 1 \in 1..3 /\ 2 \in 1..3 /\ 3 \in 1..3
        OBVIOUS
      <4> HIDE DEF p
      <4> QED
        BY <2>2, <4>1
    <3>2. p + 1 - 1 = w + 1 /\ p + 2 - 1 = w + 2 /\ p + 3 - 1 = w + 3
      BY <2>1
    <3> QED
      BY <1>9, <3>1, <3>2
  <2>4. c \in Seq(Chars) /\ Len(c) = 3 /\ c[1] = Space /\ c[2] = t /\ c[3] = Space
    BY <1>2
  <2> HIDE DEF c
  <2>5. \A i \in 1..3 : b[i] = c[i]
    <3>1. \A i \in 1..3 : i = 1 \/ i = 2 \/ i = 3
      OBVIOUS
    <3> QED
      BY <2>3, <2>4, <3>1
  <2>6. b = c
    BY <2>2, <2>4, <2>5, SeqEqual
  <2> QED
    BY <2>6 DEF b, c, p, q
<1>12. SubSeq(line, w + 4, Len(line)) = n
  <2> DEFINE l == Len(line)
  <2>1. /\ 1 <= w + 4 /\ w + 4 <= l + 1 /\ l <= Len(line) /\ l - (w + 4) + 1 = Len(n)
        /\ w + 4 \in Int /\ l \in Int
        /\ \A i \in 1..Len(n) : (w + 4) + i - 1 = (w + 3) + i
    BY <1>1, <1>2, <1>8
  <2> DEFINE b == SubSeq(line, w + 4, l)
  <2> HIDE DEF l
  <2>2. b \in Seq(Chars) /\ Len(b) = Len(n) /\ \A i \in 1..Len(n) : b[i] = line[(w + 4) + i - 1]
    BY <1>8, <2>1, Slice, SMTT(30)
  <2> HIDE DEF b
  <2>3. \A i \in 1..Len(n) : b[i] = n[i]
    BY <1>8, <2>1, <2>2
  <2>4. b = n
    BY <1>2, <2>2, <2>3, SeqEqual
  <2> QED
    BY <2>4 DEF b, l
<1>13. IF Unresolved(sym) THEN \A i \in 1..w : line[i] = Space
                          ELSE HexValue(SubSeq(line, 1, w)) = sym.value
  BY <1>1, <1>9, <1>10
<1> QED
  BY <1>3, <1>4, <1>8, <1>11, <1>12, <1>13 DEF ReadsAs, n, t

(* A word, a separator and what follows. *)
Shifts(text, word, sep, x) ==
  (text \o word) \o (<<sep>> \o x) = (text \o Append(word, sep)) \o x

LEMMA FieldBehind ==
  ASSUME NEW C, NEW text \in Seq(C), NEW word \in Seq(C), NEW sep \in C, NEW x \in Seq(C)
  PROVE  /\ Shifts(text, word, sep, x)
         /\ text \o Append(word, sep) \in Seq(C)
<1> DEFINE t == text \o Append(word, sep)
           u == text \o word
           one == <<sep>>
<1>1. Append(word, sep) \in Seq(C)
  BY Appending
<1>2. t \in Seq(C)
  BY <1>1
<1>3. u \in Seq(C) /\ t = Append(u, sep)
  BY AppendJoined
<1>4. one \in Seq(C)
  BY OneElement
<1> HIDE DEF u, t
<1>5. Append(u, sep) = u \o one
  BY <1>3, AppendIsConcat
<1> HIDE DEF one
<1>6. (u \o one) \o x = u \o (one \o x)
  <2>1. Regroups(u, one, x)
    BY <1>3, <1>4, Associative, Zenon
  <2> QED
    BY <2>1 DEF Regroups
<1>7. t \o x = u \o (one \o x)
  BY <1>3, <1>5, <1>6
<1> QED
  BY <1>2, <1>7 DEF Shifts, u, one, t

(* The name, the letter and the numbers are the parts between the spaces.  *)
LEMMA ReadsPortable ==
  ASSUME NEW sym, SymbolOK(sym), NEW opt, "P" \in opt
  PROVE  ReadsAs(Line(sym, opt), sym, opt)
<1> DEFINE n  == sym.name
           t  == sym.type
           tt == <<t>>
           f1 == Field(sym.value)
           f2 == Field(sym.size)
           line == Line(sym, opt)
           fields == Split(line, Space)
<1> SUFFICES ASSUME Without(n, Space)
             PROVE  /\ fields[1] = n /\ fields[2] = tt
                    /\ Len(fields) = IF Unresolved(sym) THEN 2
                                     ELSE IF sym.size = 0 THEN 3 ELSE 4
                    /\ ~ Unresolved(sym) => /\ Plain(fields[3], sym.value)
                                            /\ sym.size # 0 => Plain(fields[4], sym.size)
  BY DEF ReadsAs
<1>1. /\ n \in Seq(Chars) /\ tt \in Seq(Chars) /\ Without(tt, Space) /\ Space \in Chars
  <2>1. n \in Seq(Chars) /\ t \in Chars /\ t # Space /\ Space \in Chars
    BY SymbolIs, TablesAre DEF Words
  <2>2. tt \in Seq(Chars)
    BY <2>1, OneElement
  <2> QED
    BY <2>1, <2>2, WithoutJoined
<1>2. /\ f1 \in Seq(Chars) /\ Plain(f1, sym.value) /\ Without(f1, Space)
      /\ f2 \in Seq(Chars) /\ Plain(f2, sym.size) /\ Without(f2, Space)
  BY SymbolIs, FieldOf DEF Words
<1> DEFINE T1 == Append(n, Space)
           T2 == T1 \o Append(tt, Space)
           T3 == T2 \o Append(f1, Space)
           none == <<>>
           L1 == <<n>>
           L2 == Append(L1, tt)
           L3 == Append(L2, f1)
           L4 == Append(L3, f2)
           s1 == <<Space>> \o f1
           s2 == <<Space>> \o f2
<1>3. line = (T1 \o tt) \o (IF Unresolved(sym) THEN <<>> ELSE IF sym.size = 0 THEN s1
                            ELSE s1 \o s2)
  BY DEF Line, Fields
<1>4. s1 \in Seq(Chars) /\ s2 \in Seq(Chars)
  <2> DEFINE one == <<Space>>
  <2>1. one \in Seq(Chars)
    BY <1>1, OneElement
  <2> HIDE DEF f1, f2, one
  <2>2. one \o f1 \in Seq(Chars) /\ one \o f2 \in Seq(Chars)
    BY <1>2, <2>1
  <2> QED
    BY <2>2 DEF one
<1> HIDE DEF line, n, t, f1, f2, tt
<1>5. T1 \in Seq(Chars) /\ L1 \in Seq(Seq(Chars)) /\ Closed(T1, Space, L1)
  <2>1. T1 \in Seq(Chars)
    BY <1>1, Appending
  <2>2. L1 \in Seq(Seq(Chars))
    BY <1>1, OneElement
  <2>3. none \in Seq(Chars) /\ none \in Seq(Seq(Chars)) /\ Closed(none, Space, none)
    BY NoElements, SplitNothing
  <2>4. Closed(none \o T1, Space, Append(none, n))
    <3> HIDE DEF none
    <3> QED
      BY <1>1, <2>3, SplitLine
  <2>5. none \o T1 = T1
    <3> HIDE DEF T1
    <3> QED
      BY <2>1, ConcatEmptySeq
  <2>6. Append(none, n) = L1
    OBVIOUS
  <2> QED
    BY <2>1, <2>2, <2>4, <2>5, <2>6
<1> HIDE DEF T1, L1
<1>6. /\ T2 \in Seq(Chars) /\ L2 \in Seq(Seq(Chars)) /\ Closed(T2, Space, L2)
      /\ (T1 \o tt) \o s1 = T2 \o f1
      /\ Split(T1 \o tt, Space) = L2
  <2>1. T2 \in Seq(Chars) /\ L2 \in Seq(Seq(Chars)) /\ Closed(T2, Space, L2)
    BY <1>1, <1>5, SplitLine, FieldBehind, Appending
  <2>2. (T1 \o tt) \o s1 = T2 \o f1
    <3>1. Shifts(T1, tt, Space, f1)
      BY <1>1, <1>2, <1>5, FieldBehind
    <3> QED
      BY <3>1 DEF Shifts
  <2>3. Split(T1 \o tt, Space) = L2
    BY <1>1, <1>5, SplitWord
  <2> QED
    BY <2>1, <2>2, <2>3
<1>7. T1 \o tt \in Seq(Chars)
  BY <1>1, <1>5
<1> HIDE DEF T2, L2
<1>8. /\ T3 \in Seq(Chars) /\ L3 \in Seq(Seq(Chars)) /\ Closed(T3, Space, L3)
      /\ (T2 \o f1) \o s2 = T3 \o f2
      /\ Split(T2 \o f1, Space) = L3
  <2>1. T3 \in Seq(Chars) /\ L3 \in Seq(Seq(Chars)) /\ Closed(T3, Space, L3)
    BY <1>1, <1>2, <1>6, SplitLine, FieldBehind, Appending
  <2>2. (T2 \o f1) \o s2 = T3 \o f2
    <3>1. Shifts(T2, f1, Space, f2)
      BY <1>1, <1>2, <1>6, FieldBehind
    <3> QED
      BY <3>1 DEF Shifts
  <2>3. Split(T2 \o f1, Space) = L3
    BY <1>1, <1>2, <1>6, SplitWord
  <2> QED
    BY <2>1, <2>2, <2>3
<1> HIDE DEF T3, L3
<1>9. Split(T3 \o f2, Space) = L4
  BY <1>1, <1>2, <1>8, SplitWord
<1>10. Len(L1) = 1 /\ L1[1] = n
  BY DEF L1
<1>11. Len(L2) = 2 /\ L2[1] = n /\ L2[2] = tt
  <2>1. Len(L2) = Len(L1) + 1 /\ L2[Len(L1) + 1] = tt /\ \A i \in 1..Len(L1) : L2[i] = L1[i]
    BY <1>1, <1>5, Appending DEF L2
  <2> QED
    BY <1>10, <2>1
<1>12. Len(L3) = 3 /\ L3[1] = n /\ L3[2] = tt /\ L3[3] = f1
  <2>1. Len(L3) = Len(L2) + 1 /\ L3[Len(L2) + 1] = f1 /\ \A i \in 1..Len(L2) : L3[i] = L2[i]
    BY <1>2, <1>6, Appending DEF L3
  <2> QED
    BY <1>11, <2>1
<1>13. Len(L4) = 4 /\ L4[1] = n /\ L4[2] = tt /\ L4[3] = f1 /\ L4[4] = f2
  <2>1. Len(L4) = Len(L3) + 1 /\ L4[Len(L3) + 1] = f2 /\ \A i \in 1..Len(L3) : L4[i] = L3[i]
    BY <1>2, <1>8, Appending
  <2> QED
    BY <1>12, <2>1
<1> HIDE DEF L4, s1, s2
<1>14. CASE Unresolved(sym)
  <2>1. line = T1 \o tt
    <3>1. (T1 \o tt) \o <<>> = T1 \o tt
      BY <1>7, ConcatEmptySeq
    <3> QED
      BY <1>3, <1>14, <3>1
  <2> QED
    BY <1>6, <1>11, <1>14, <2>1
<1>15. CASE ~ Unresolved(sym) /\ sym.size = 0
  <2>1. line = T2 \o f1
    BY <1>3, <1>6, <1>15
  <2> QED
    BY <1>2, <1>8, <1>12, <1>15, <2>1
<1>16. CASE ~ Unresolved(sym) /\ sym.size # 0
  <2>1. line = T3 \o f2
    <3> DEFINE u == T1 \o tt
    <3>1. u \o (s1 \o s2) = (u \o s1) \o s2
      <4>1. u \in Seq(Chars)
        BY <1>7
      <4> HIDE DEF u
      <4>2. Regroups(u, s1, s2)
        BY <1>4, <4>1, Associative, Zenon
      <4> QED
        BY <4>2 DEF Regroups
    <3> QED
      BY <1>3, <1>6, <1>8, <1>16, <3>1
  <2> QED
    BY <1>2, <1>9, <1>13, <1>16, <2>1
<1> QED
  BY <1>14, <1>15, <1>16

(* Name, letter, value and size can be read back from the line. *)
LEMMA LineReads ==
  ASSUME NEW sym, SymbolOK(sym), NEW opt
  PROVE  ReadsAs(Line(sym, opt), sym, opt)
BY ReadsPlain, ReadsPortable

-----------------------------------------------------------------------------
(* The lines of a listing. *)

Lined(l) == [n \in 1..Len(l.symbols) |-> Line(l.symbols[n], l.opt)]

Top(l) == IF l.heading = NULL THEN <<>> ELSE << <<>>, Append(l.heading, Colon)>>

Pieces(l) == [n \in DOMAIN l.symbols |-> PrintSymbol(l.symbols[n], l.opt)]

LEMMA ListingIs ==
  ASSUME NEW l, ListingOK(l)
  PROVE  /\ Len(l.symbols) \in Nat /\ DOMAIN l.symbols = 1..Len(l.symbols)
         /\ \A n \in 1..Len(l.symbols) : SymbolOK(l.symbols[n])
         /\ Pieces(l) \in Seq(Seq(Shapes)) /\ Len(Pieces(l)) = Len(l.symbols)
         /\ \A n \in 1..Len(l.symbols) : Pieces(l)[n] = PrintSymbol(l.symbols[n], l.opt)
         /\ PrintListing(l) = Heading(l.heading) \o FlattenSeq(Pieces(l))
         /\ Heading(l.heading) \in Seq(Shapes)
         /\ Heading(l.heading) = IF l.heading = NULL THEN <<>> ELSE <<HeadingCall(l.heading)>>
         /\ FlattenSeq(Pieces(l)) \in Seq(Shapes)
         /\ PrintListing(l) \in Seq(Shapes)
<1> DEFINE N == Len(l.symbols)
           P == Pieces(l)
           H == Heading(l.heading)
<1>1. N \in Nat /\ DOMAIN l.symbols = 1..N /\ \A n \in 1..N : SymbolOK(l.symbols[n])
  <2>1. l.symbols \in Seq(Range(l.symbols))
    BY DEF ListingOK
  <2>2. N \in Nat /\ DOMAIN l.symbols = 1..N
    BY <2>1
  <2> QED
    BY <2>2 DEF ListingOK
<1>2. P = [n \in 1..N |-> PrintSymbol(l.symbols[n], l.opt)]
  BY <1>1 DEF Pieces
<1> HIDE DEF P, N
<1>3. /\ P \in Seq(Seq(Shapes)) /\ Len(P) = N
      /\ \A n \in 1..N : P[n] = PrintSymbol(l.symbols[n], l.opt)
  <2>1. \A n \in 1..N : PrintSymbol(l.symbols[n], l.opt) \in Seq(Shapes)
    BY <1>1, SymbolShapes
  <2>2. P \in [1..N -> Seq(Shapes)]
    BY <1>2, <2>1
  <2> QED
    BY <1>1, <1>2, <2>2
<1>4. H = IF l.heading = NULL THEN <<>> ELSE <<HeadingCall(l.heading)>>
  BY DEF Heading, HeadingCall
<1>5. H \in Seq(Shapes)
  <2> DEFINE c == HeadingCall(l.heading)
  <2>1. CASE l.heading = NULL
    BY <1>4, <2>1, NoElements
  <2>2. CASE l.heading # NULL
    <3>1. l.heading \in Words
      <4>1. l.heading \in Seq(STRING)
        BY DEF ListingOK
      <4>2. l.heading \in Seq(Chars)
        BY <4>1, TablesAre, SeqOfMore
      <4> QED
        BY <2>2, <4>2 DEF Words
    <3>2. c \in Shapes
      BY <3>1 DEF Shapes
    <3>3. H = <<c>>
      BY <1>4, <2>2
    <3> HIDE DEF c, H
    <3> QED
      BY <3>2, <3>3, OneElement
  <2> QED
    BY <2>1, <2>2
<1>6. PrintListing(l) = H \o FlattenSeq(P)
  BY DEF PrintListing, P, Pieces
<1> HIDE DEF H
<1>7. FlattenSeq(P) \in Seq(Shapes)
  BY <1>3, FlattenTyped
<1>8. H \o FlattenSeq(P) \in Seq(Shapes)
  <2> DEFINE F == FlattenSeq(P)
  <2>1. F \in Seq(Shapes)
    BY <1>7
  <2> HIDE DEF F
  <2>2. H \o F \in Seq(Shapes)
    BY <1>5, <2>1
  <2> QED
    BY <2>2 DEF F
<1> QED
  BY <1>1, <1>3, <1>4, <1>5, <1>6, <1>7, <1>8 DEF N, P, H

(* The heading ends two lines. *)
LEMMA HeadingLines ==
  ASSUME NEW l, ListingOK(l), OneLined(l), Heading(l.heading) \in Seq(Printable),
         NewLine \in Chars
  PROVE  /\ Closed(Spoken(Heading(l.heading)), NewLine, Top(l))
         /\ Top(l) \in Seq(Seq(Chars))
         /\ Len(Top(l)) = IF l.heading = NULL THEN 0 ELSE 2
         /\ l.heading # NULL => Top(l)[1] = <<>> /\ Top(l)[2] = Append(l.heading, Colon)
<1> DEFINE H == Heading(l.heading)
           h == l.heading
           c == HeadingCall(h)
<1>1. H = IF h = NULL THEN <<>> ELSE <<c>>
  BY ListingIs
<1>2. CASE h = NULL
  <2>1. Spoken(H) = <<>> /\ Top(l) = <<>> /\ <<>> \in Seq(Seq(Chars))
    BY <1>1, <1>2, SpokenTyped, NoElements DEF Top
  <2>2. Len(<<>>) = 0
    OBVIOUS
  <2> QED
    BY <1>2, <2>1, <2>2, SplitNothing
<1>3. CASE h # NULL
  <2> DEFINE hc == Append(h, Colon)
             none == <<>>
             one == <<NewLine>>
             first == <<none>>
             tops == <<none, hc>>
  <2>1. c \in Printable /\ CallOK(c)
    <3> HIDE DEF c
    <3>1. <<c>> \in Seq(Printable) /\ Len(<<c>>) = 1 /\ <<c>>[1] = c
      BY <1>1, <1>3
    <3>2. c \in Printable
      BY <3>1
    <3> QED
      BY <3>2 DEF Printable
  <2>2. /\ Says(c) = Append(Append(one \o h, Colon), NewLine)
        /\ h \in Seq(Chars) /\ Colon \in Chars
    BY <1>3, <2>1, HeadingSays
  <2>3. Spoken(H) = Says(c)
    <3>1. H = <<c>>
      BY <1>1, <1>3
    <3> HIDE DEF H, c
    <3> QED
      BY <2>1, <3>1, SpokenOne
  <2>4. hc \in Seq(Chars) /\ one \in Seq(Chars) /\ none \in Seq(Chars)
        /\ none \in Seq(Seq(Chars))
    BY <2>2, Appending, OneElement, NoElements
  <2>5. Without(hc, NewLine) /\ Without(none, NewLine)
    <3>1. Without(h, NewLine)
      BY DEF OneLined
    <3> QED
      BY <2>2, <2>4, <3>1, Between, WithoutJoined
  <2>6. Append(Append(one \o h, Colon), NewLine) = one \o Append(hc, NewLine)
    <3>1. one \in Seq(Chars) /\ h \in Seq(Chars) /\ hc \in Seq(Chars)
      BY <2>2, <2>4
    <3> HIDE DEF one, h
    <3>2. one \o Append(h, Colon) = Append(one \o h, Colon)
      BY <2>2, <3>1, AppendJoined
    <3> HIDE DEF hc
    <3>3. one \o Append(hc, NewLine) = Append(one \o hc, NewLine)
      BY <3>1, AppendJoined
    <3> QED
      BY <3>2, <3>3 DEF hc
  <2>7. none \o Append(none, NewLine) = one /\ Append(none, none) = first
    OBVIOUS
  <2>8. Closed(none, NewLine, none)
    BY SplitNothing
  <2>9. first \in Seq(Seq(Chars)) /\ tops \in Seq(Seq(Chars)) /\ Append(first, hc) = tops
    <3> HIDE DEF none, hc
    <3>1. first \in Seq(Seq(Chars))
      BY <2>4, OneElement
    <3> QED
      BY <2>4, <3>1, TwoElements
  <2> HIDE DEF none, one, hc
  <2>10. Closed(one, NewLine, first)
    <3>1. Closed(none \o Append(none, NewLine), NewLine, Append(none, none))
      BY <2>4, <2>5, <2>8, SplitLine
    <3> QED
      BY <2>7, <3>1
  <2> HIDE DEF first
  <2>11. Closed(one \o Append(hc, NewLine), NewLine, Append(first, hc))
    BY <2>4, <2>5, <2>9, <2>10, SplitLine
  <2>12. Top(l) = tops /\ Len(tops) = 2 /\ tops[1] = none /\ tops[2] = hc
    BY <1>3 DEF Top, none, hc
  <2> HIDE DEF tops
  <2>13. Closed(Spoken(H), NewLine, tops)
    BY <2>2, <2>3, <2>6, <2>9, <2>11
  <2> QED
    BY <1>3, <2>9, <2>12, <2>13 DEF none, hc
<1> QED
  BY <1>2, <1>3

(* What the calls of a listing print has one line for each symbol behind   *)
(* those of the heading.                                                   *)
LEMMA ListingSplits ==
  ASSUME NEW l, ListingOK(l), OneLined(l), PrintListing(l) \in Seq(Printable)
  PROVE  /\ Closed(Spoken(PrintListing(l)), NewLine, Top(l) \o Lined(l))
         /\ Top(l) \in Seq(Seq(Chars)) /\ Lined(l) \in Seq(Seq(Chars))
<1> DEFINE N == Len(l.symbols)
           P == Pieces(l)
           H == Heading(l.heading)
           T == Top(l)
           L == Lined(l)
           Sym(m) == l.symbols[m]
           Ln(m) == Line(Sym(m), l.opt)
<1>1. /\ N \in Nat /\ DOMAIN l.symbols = 1..N /\ \A m \in 1..N : SymbolOK(Sym(m))
      /\ P \in Seq(Seq(Shapes)) /\ Len(P) = N
      /\ \A m \in 1..N : P[m] = PrintSymbol(Sym(m), l.opt)
      /\ PrintListing(l) = H \o FlattenSeq(P)
      /\ H \in Seq(Shapes) /\ FlattenSeq(P) \in Seq(Shapes)
      /\ H = IF l.heading = NULL THEN <<>> ELSE <<HeadingCall(l.heading)>>
  BY ListingIs
<1>2. H \in Seq(Printable) /\ FlattenSeq(P) \in Seq(Printable)
  <2> DEFINE F == FlattenSeq(P)
  <2>1. H \in Seq(Shapes) /\ F \in Seq(Shapes) /\ H \o F \in Seq(Printable)
    BY <1>1
  <2> HIDE DEF H, F
  <2>2. H \in Seq(Printable) /\ F \in Seq(Printable)
    BY <2>1, Halves
  <2> QED
    BY <2>2 DEF F
<1> HIDE DEF P, H
<1>3. /\ P \in Seq(Seq(Printable))
      /\ \A m \in 0..N : JoinedTo(P, m) \in Seq(Printable)
  BY <1>1, <1>2, FlattenParts
<1>4. /\ JoinedTo(P, 0) = <<>> /\ JoinedTo(P, N) = FlattenSeq(P)
      /\ \A m \in 0..(N - 1) : JoinedTo(P, m + 1) = JoinedTo(P, m) \o P[m + 1]
  BY <1>1, <1>3, JoinedToIs
<1>5. ASSUME NEW m \in 1..N
      PROVE  /\ P[m] \in Seq(Printable) /\ NewLine \in Chars /\ Ln(m) \in Seq(Chars)
             /\ Spoken(P[m]) = Append(Ln(m), NewLine) /\ Without(Ln(m), NewLine)
  <2>1. P[m] \in Seq(Printable)
    <3>1. m \in 1..Len(P)
      BY <1>1
    <3> QED
      BY <1>3, <3>1
  <2>2. P[m] = PrintSymbol(Sym(m), l.opt) /\ SymbolOK(Sym(m))
    BY <1>1
  <2>3. Without(Sym(m).name, NewLine)
    BY <1>1 DEF OneLined
  <2> HIDE DEF Sym
  <2>4. /\ NewLine \in Chars /\ Ln(m) \in Seq(Chars)
        /\ Spoken(P[m]) = Append(Ln(m), NewLine)
    BY <2>1, <2>2, SymbolSpeaks
  <2>5. Without(Ln(m), NewLine)
    BY <2>2, <2>3, LineWithout
  <2> QED
    BY <2>1, <2>4, <2>5
<1>6. L = [m \in 1..N |-> Ln(m)]
  BY DEF Lined
<1> HIDE DEF Ln, Sym, N, L, T
<1>7. /\ L \in Seq(Seq(Chars)) /\ Len(L) = N /\ \A m \in 1..N : L[m] = Ln(m)
  <2>1. \A m \in 1..N : Ln(m) \in Seq(Chars)
    BY <1>5
  <2>2. L \in [1..N -> Seq(Chars)]
    BY <1>6, <2>1
  <2> QED
    BY <1>1, <1>6, <2>2
<1>8. CASE NewLine \notin Chars
  <2>1. N = 0
    <3>1. 1 \notin 1..N
      BY <1>5, <1>8
    <3> QED
      BY <1>1, <3>1
  <2>2. l.heading = NULL
    <3> SUFFICES ASSUME l.heading # NULL PROVE FALSE
      OBVIOUS
    <3> DEFINE c == HeadingCall(l.heading)
    <3>1. H = <<c>>
      BY <1>1
    <3> HIDE DEF c
    <3>2. <<c>> \in Seq(Printable) /\ Len(<<c>>) = 1 /\ <<c>>[1] = c
      BY <1>2, <3>1
    <3>3. c \in Printable
      BY <3>2
    <3>4. CallOK(c)
      BY <3>3 DEF Printable
    <3> QED
      BY <1>8, <3>4, HeadingSays DEF c
  <2>3. T = <<>> /\ L = <<>> /\ H = <<>> /\ FlattenSeq(P) = <<>>
    <3>1. L = <<>>
      BY <1>7, <2>1
    <3>2. FlattenSeq(P) = <<>>
      BY <1>4, <2>1
    <3> QED
      BY <1>1, <2>2, <3>1, <3>2 DEF T, Top
  <2>4. <<>> \o <<>> = <<>> /\ <<>> \in Seq(Seq(Chars)) /\ <<>> \in Seq(Printable)
    OBVIOUS
  <2>5. Spoken(PrintListing(l)) = <<>>
    BY <1>1, <2>3, <2>4, SpokenTyped
  <2> QED
    BY <2>3, <2>4, <2>5, SplitNothing DEF T, L
<1>9. CASE NewLine \in Chars
  <2>1. /\ Closed(Spoken(H), NewLine, T) /\ T \in Seq(Seq(Chars))
    BY <1>2, <1>9, HeadingLines DEF H, T
  <2> DEFINE C(m) == H \o JoinedTo(P, m)
             R(m) == T \o SubSeq(L, 1, m)
             bad == {m \in 0..N : ~ Closed(Spoken(C(m)), NewLine, R(m))}
  <2>2. \A m \in 0..N : C(m) \in Seq(Printable) /\ R(m) \in Seq(Seq(Chars))
    BY <1>2, <1>3, <1>7, <2>1
  <2>3. C(0) = H /\ R(0) = T /\ C(N) = PrintListing(l) /\ R(N) = T \o L
    <3>1. H \o <<>> = H /\ T \o <<>> = T
      BY <1>2, <2>1
    <3>2. SubSeq(L, 1, 0) = <<>> /\ SubSeq(L, 1, N) = L
      BY <1>1, <1>7
    <3> QED
      BY <1>1, <1>4, <3>1, <3>2
  <2>4. ASSUME NEW m \in 0..(N - 1)
        PROVE  /\ Spoken(C(m + 1)) = Spoken(C(m)) \o Append(Ln(m + 1), NewLine)
               /\ R(m + 1) = Append(R(m), Ln(m + 1))
    <3> DEFINE J == JoinedTo(P, m)
               p == P[m + 1]
               K == SubSeq(L, 1, m)
               e == Ln(m + 1)
    <3>1. m \in 0..N /\ m + 1 \in 1..N /\ (m + 1) - 1 = m
      BY <1>1
    <3>2. J \in Seq(Printable) /\ p \in Seq(Printable) /\ JoinedTo(P, m + 1) = J \o p
          /\ Spoken(p) = Append(e, NewLine) /\ e \in Seq(Chars) /\ C(m) = H \o J
      BY <1>3, <1>4, <1>5, <3>1
    <3>3. SubSeq(L, 1, m + 1) = Append(K, e) /\ K \in Seq(Seq(Chars))
      <4>1. m + 1 \in 1..Len(L) /\ L[m + 1] = e
        BY <1>7, <3>1
      <4>2. SubSeq(L, 1, m + 1) = Append(SubSeq(L, 1, (m + 1) - 1), L[m + 1])
        BY <1>7, <4>1, OneLonger
      <4> QED
        BY <1>7, <3>1, <4>1, <4>2
    <3>4. C(m + 1) = H \o (J \o p) /\ R(m + 1) = T \o Append(K, e) /\ R(m) = T \o K
      BY <3>2, <3>3
    <3> HIDE DEF J, p, K, e, C, R
    <3>5. C(m + 1) = C(m) \o p
      <4>1. Regroups(H, J, p)
        BY <1>2, <3>2, Associative, Zenon
      <4> QED
        BY <3>2, <3>4, <4>1 DEF Regroups
    <3>6. R(m + 1) = Append(R(m), e)
      <4> DEFINE S == Seq(Chars)
      <4>1. T \in Seq(S) /\ K \in Seq(S) /\ e \in S
        BY <2>1, <3>2, <3>3
      <4>2. R(m + 1) = T \o Append(K, e) /\ R(m) = T \o K
        BY <3>4
      <4> HIDE DEF S, T
      <4>3. T \o Append(K, e) = Append(T \o K, e) /\ T \o K \in Seq(S)
        BY <4>1, AppendJoined, Zenon
      <4> QED
        BY <4>2, <4>3
    <3>7. C(m) \in Seq(Printable)
      BY <2>2, <3>1
    <3>8. Spoken(C(m + 1)) = Spoken(C(m)) \o Spoken(p)
      BY <3>2, <3>5, <3>7, SpokenJoin
    <3> QED
      BY <3>2, <3>6, <3>8 DEF e
  <2> HIDE DEF C, R
  <2>5. bad = {}
    <3> SUFFICES ASSUME bad # {} PROVE FALSE
      OBVIOUS
    <3>1. PICK n \in bad : \A j \in bad : n <= j
      <4>1. bad \subseteq Nat
        BY <1>1
      <4> HIDE DEF bad
      <4> QED
        BY <4>1, Least
    <3>2. n \in 0..N /\ ~ Closed(Spoken(C(n)), NewLine, R(n))
      BY <3>1
    <3>3. n # 0
      BY <2>1, <2>3, <3>2
    <3>4. /\ n - 1 \in 0..N /\ ~ (n <= n - 1) /\ n - 1 \in 0..(N - 1)
          /\ (n - 1) + 1 = n /\ n \in 1..N
      BY <1>1, <3>2, <3>3
    <3>5. Closed(Spoken(C(n - 1)), NewLine, R(n - 1))
      BY <3>1, <3>4
    <3>6. /\ Spoken(C(n)) = Spoken(C(n - 1)) \o Append(Ln(n), NewLine)
          /\ R(n) = Append(R(n - 1), Ln(n))
      BY <2>4, <3>4
    <3>7. Spoken(C(n - 1)) \in Seq(Chars) /\ R(n - 1) \in Seq(Seq(Chars))
      BY <2>2, <3>4, SpokenTyped
    <3>8. Ln(n) \in Seq(Chars) /\ Without(Ln(n), NewLine)
      BY <1>5, <3>4
    <3>9. Closed(Spoken(C(n - 1)) \o Append(Ln(n), NewLine), NewLine, Append(R(n - 1), Ln(n)))
      BY <1>9, <3>5, <3>7, <3>8, SplitLine
    <3> QED
      BY <3>2, <3>6, <3>9
  <2>6. N \in 0..N
    BY <1>1
  <2>7. Closed(Spoken(C(N)), NewLine, R(N))
    BY <2>5, <2>6
  <2> QED
    BY <1>7, <2>1, <2>3, <2>7 DEF T, L
<1> QED
  BY <1>8, <1>9

(* A listing can be read back from what its calls print. *)
LEMMA ListingReads ==
  ASSUME NEW l, ListingOK(l), OneLined(l), PrintListing(l) \in Seq(Printable)
  PROVE  LET lines == Split(Spoken(PrintListing(l)), NewLine)
             top   == IF l.heading = NULL THEN 0 ELSE 2
         IN  /\ Len(lines) = top + Len(l.symbols) + 1 /\ Last(lines) = <<>>
             /\ top = 2 => lines[1] = <<>> /\ lines[2] = Append(l.heading, Colon)
             /\ \A n \in DOMAIN l.symbols : ReadsAs(lines[top + n], l.symbols[n], l.opt)
<1> DEFINE lines == Split(Spoken(PrintListing(l)), NewLine)
           top   == IF l.heading = NULL THEN 0 ELSE 2
           N == Len(l.symbols)
           T == Top(l)
           L == Lined(l)
           R == T \o L
           hc == Append(l.heading, Colon)
           none == <<>>
           Ln(n) == Line(l.symbols[n], l.opt)
<1>1. /\ N \in Nat /\ DOMAIN l.symbols = 1..N /\ \A n \in 1..N : SymbolOK(l.symbols[n])
      /\ PrintListing(l) = Heading(l.heading) \o FlattenSeq(Pieces(l))
      /\ Heading(l.heading) = IF l.heading = NULL THEN <<>> ELSE <<HeadingCall(l.heading)>>
  BY ListingIs
<1>2. /\ lines = Append(R, none)
      /\ T \in Seq(Seq(Chars)) /\ L \in Seq(Seq(Chars))
  BY ListingSplits DEF Closed
<1>3. L = [n \in 1..N |-> Ln(n)]
  BY DEF Lined
<1>4. /\ Len(T) = top
      /\ top = 2 => T[1] = none /\ T[2] = hc
  <2>1. CASE l.heading = NULL
    BY <2>1 DEF Top
  <2>2. CASE l.heading # NULL
    <3>1. T = <<none, hc>>
      BY <2>2 DEF Top
    <3> HIDE DEF T, none, hc
    <3>2. Len(T) = 2 /\ T[1] = none /\ T[2] = hc
      BY <3>1
    <3> QED
      BY <2>2, <3>2
  <2> QED
    BY <2>1, <2>2
<1>5. none \in Seq(Chars) /\ top \in {0, 2}
  BY NoElements
<1> HIDE DEF lines, top, N, T, L, hc, none, Ln
<1>6. Len(L) = N /\ \A n \in 1..N : L[n] = Ln(n)
  <2>1. Len(L) = N
    BY <1>1, <1>2, <1>3
  <2> QED
    BY <1>3, <2>1
<1>7. /\ R \in Seq(Seq(Chars)) /\ Len(R) = top + N
      /\ \A n \in 1..top : R[n] = T[n]
      /\ \A n \in 1..N : R[top + n] = L[n]
  <2>1. top \in Nat
    BY <1>5
  <2> QED
    BY <1>1, <1>2, <1>4, <1>6, <2>1
<1> HIDE DEF R
<1>8. /\ Len(lines) = top + N + 1 /\ lines[top + N + 1] = none
      /\ \A n \in 1..(top + N) : lines[n] = R[n]
  BY <1>2, <1>5, <1>7, Appending
<1>9. Last(lines) = none
  BY <1>8 DEF Last
<1>10. top = 2 => lines[1] = none /\ lines[2] = hc
  BY <1>1, <1>4, <1>7, <1>8
<1>11. ASSUME NEW n \in 1..N PROVE ReadsAs(lines[top + n], l.symbols[n], l.opt)
  <2>1. top + n \in 1..(top + N)
    BY <1>1, <1>5
  <2>2. lines[top + n] = Ln(n)
    BY <1>6, <1>7, <1>8, <2>1
  <2>3. ReadsAs(Ln(n), l.symbols[n], l.opt)
    BY <1>1, LineReads DEF Ln
  <2> QED
    BY <2>2, <2>3
<1> QED
  BY <1>1, <1>8, <1>9, <1>10, <1>11 DEF lines, top, N, hc, none

-----------------------------------------------------------------------------
(* The session that prints a listing. *)

(* The letter that overruns its buffer is one of the format's. *)
Stuck == pc = "undefined" => pos + 1 \in 1..Len(Call.fmt)

LEMMA StuckHolds == Spec => []Stuck
<1>1. Init => Stuck
  BY DEF Init, Stuck
<1>2. PrintfInv /\ Stuck /\ [Next]_vars => Stuck'
  <2> SUFFICES ASSUME PrintfInv, Stuck, [Next]_vars, pc' = "undefined"
               PROVE  (pos + 1 \in 1..Len(Call.fmt))'
    BY DEF Stuck
  <2>1. CASE UNCHANGED vars
    BY <2>1 DEF Stuck, vars, Call, Calls
  <2>2. CASE Overrun
    <3>1. Known /\ UNCHANGED <<s, k, pos>>
      BY <2>2 DEF Overrun
    <3>2. Typed /\ Placed /\ pc = "scan" /\ pos < Len(Call.fmt)
      BY <3>1 DEF PrintfInv, ScanInv, Known, Scanning
    <3>3. pos \in Nat /\ pos >= 1 /\ Len(Call.fmt) \in Nat
      <4>1. k <= Len(Calls) /\ Place(Call, pos, arg)
        BY <3>2 DEF Typed, Placed
      <4>2. Len(Call.fmt) \in Nat
        BY <3>2, <4>1, AtCall
      <4> QED
        BY <4>1, <4>2 DEF Place
    <3> QED
      BY <3>1, <3>2, <3>3 DEF Call, Calls
  <2>3. CASE Refuse \/ Enter \/ PlainChar \/ Convert \/ Unknown \/ EndOfFormat \/ WriteAll
               \/ WriteShort \/ WriteRefused \/ ConversionEnds
    <3>1. pc' # "undefined"
      BY <2>3 DEF Refuse, Enter, PlainChar, Convert, Unknown, EndOfFormat, WriteAll, WriteShort,
                  WriteRefused, ConversionEnds, Return, Writing
    <3> QED
      BY <3>1
  <2>4. CASE Done
    BY <2>1, <2>4 DEF Done
  <2> QED
    BY <2>1, <2>2, <2>3, <2>4 DEF Next
<1> QED
  BY <1>1, <1>2, PrintfInvHolds, PTL DEF Spec

(* All calls of a listing are printable. *)
LEMMA ListingCalls ==
  ASSUME NEW session, session \in DOMAIN Sessions, session \in DOMAIN Listings
  PROVE  /\ ListingOK(Listings[session])
         /\ Sessions[session] = PrintListing(Listings[session])
         /\ Sessions[session] \in Seq(Printable)
<1> DEFINE q == Sessions[session]
           l == Listings[session]
<1>1. ListingOK(l) /\ q = PrintListing(l)
  BY ListingsAssumption DEF Printed
<1>2. q \in Seq(Shapes)
  <2> HIDE DEF l, q
  <2> QED
    BY <1>1, ListingIs
<1>3. \A n \in 1..Len(q) : CallOK(q[n])
  BY CallIs
<1> HIDE DEF q
<1>4. q \in Seq(Printable)
  <2>1. Len(q) \in Nat /\ q = [n \in 1..Len(q) |-> q[n]] /\ \A n \in 1..Len(q) : q[n] \in Shapes
    BY <1>2
  <2>2. \A n \in 1..Len(q) : q[n] \in Printable
    BY <1>3, <2>1 DEF Printable
  <2>3. q \in [1..Len(q) -> Printable]
    BY <2>1, <2>2
  <2> QED
    BY <2>1, <2>3
<1> QED
  BY <1>1, <1>4 DEF q

(* Its session neither stops in the middle nor prints anything else.       *)
LEMMA ListingSaid ==
  ASSUME PrintfInv, Stuck, s \in DOMAIN Listings, SessionOver, failures = 0,
         STDOUT \notin closed
  PROVE  /\ ListingOK(Listings[s]) /\ PrintListing(Listings[s]) \in Seq(Printable)
         /\ Text = Spoken(PrintListing(Listings[s]))
<1>1. Typed /\ BuffersHold /\ Verdicts
  BY DEF PrintfInv, ScanInv
<1>2. /\ ListingOK(Listings[s]) /\ Calls = PrintListing(Listings[s])
      /\ Calls \in Seq(Printable)
  BY <1>1, ListingCalls DEF Typed, Calls
<1>3. pc # "undefined"
  <2> SUFFICES ASSUME pc = "undefined" PROVE FALSE
    OBVIOUS
  <2>1. k \in 1..Len(Calls)
    BY <1>1, AtCall DEF Typed
  <2>2. Call \in Printable
    BY <1>2, <2>1 DEF Call
  <2>3. pos + 1 \in 1..Len(Call.fmt) /\ Call.fmt[pos + 1] = "o"
    BY <1>1 DEF Stuck, BuffersHold
  <2> QED
    BY <2>2, <2>3, PrintableIs
<1> DEFINE N == Len(Calls)
<1>4. pc = "call" /\ k = N + 1 /\ N \in Nat
  <2>1. pc = "call" /\ k > Len(Calls)
    BY <1>3 DEF SessionOver
  <2> QED
    BY <1>1, <2>1 DEF Typed
<1>5. DOMAIN results = 1..N /\ DOMAIN sent = 1..N
  <2>1. /\ results \in Seq(Int) /\ Len(results) = k - 1
        /\ sent \in Seq(Seq(Items)) /\ Len(sent) = k - 1
    BY <1>1, <1>4 DEF Typed
  <2>2. k - 1 = N
    BY <1>4
  <2> HIDE DEF N
  <2> QED
    BY <2>1, <2>2
<1>6. ASSUME NEW n \in 1..N
      PROVE  [i \in DOMAIN sent[n] |-> sent[n][i].char] = Says(Calls[n])
  <2> DEFINE c == Calls[n]
  <2>1. c \in Printable
    BY <1>2
  <2>2. Sound(c) /\ c.fd = STDOUT
    BY <2>1, PrintableIs
  <2>3. PrintsExpected
    BY <1>1, VerdictsSay
  <2>4. n \in DOMAIN results
    BY <1>5
  <2>5. closed \cap {STDOUT, Calls[n].fd} = {}
    BY <2>2
  <2>6. sent[n] = Expected(Calls[n])
    BY <2>2, <2>3, <2>4, <2>5 DEF PrintsExpected
  <2> QED
    BY <2>6 DEF Says
<1>7. Text = Spoken(Calls)
  <2>1. [n \in DOMAIN sent |-> [i \in DOMAIN sent[n] |-> sent[n][i].char]]
          = [n \in 1..N |-> Says(Calls[n])]
    BY <1>5, <1>6
  <2> QED
    BY <2>1 DEF Text, Spoken
<1> QED
  BY <1>2, <1>7

(* A session that prints a listing, loses nothing and ends has printed the *)
(* heading's two lines and then one line for each symbol, in order, from   *)
(* which its name, its letter, its value and, under -P, its size can be    *)
(* read back: what print_symbol, write_hex and print_hex_field do, through *)
(* ft_printf.                                                              *)
THEOREM LineReadsBackHolds == Spec => []LineReadsBack
<1>1. PrintfInv /\ Stuck => LineReadsBack
  <2> SUFFICES ASSUME PrintfInv, Stuck, s \in DOMAIN Listings, SessionOver, failures = 0,
                      STDOUT \notin closed, OneLined(Listings[s])
               PROVE  LET lines == Split(Text, NewLine)
                          l     == Listings[s]
                          top   == IF l.heading = NULL THEN 0 ELSE 2
                      IN  /\ Len(lines) = top + Len(l.symbols) + 1 /\ Last(lines) = <<>>
                          /\ top = 2 => lines[1] = <<>> /\ lines[2] = Append(l.heading, Colon)
                          /\ \A n \in DOMAIN l.symbols :
                               ReadsAs(lines[top + n], l.symbols[n], l.opt)
    BY Zenon DEF LineReadsBack
  <2> DEFINE q == Listings[s]
  <2>1. /\ ListingOK(q) /\ PrintListing(q) \in Seq(Printable)
        /\ Text = Spoken(PrintListing(q)) /\ OneLined(q)
    BY ListingSaid
  <2> HIDE DEF q
  <2>2. LET lines == Split(Text, NewLine)
            top   == IF q.heading = NULL THEN 0 ELSE 2
        IN  /\ Len(lines) = top + Len(q.symbols) + 1 /\ Last(lines) = <<>>
            /\ top = 2 => lines[1] = <<>> /\ lines[2] = Append(q.heading, Colon)
            /\ \A n \in DOMAIN q.symbols : ReadsAs(lines[top + n], q.symbols[n], q.opt)
    BY <2>1, ListingReads
  <2> QED
    BY <2>2 DEF q
<1> QED
  BY <1>1, PrintfInvHolds, StuckHolds, PTL
=============================================================================
