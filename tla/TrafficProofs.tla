---------------------------- MODULE TrafficProofs ---------------------------
(***************************************************************************)
(* Proofs about TrafficWire and Traffic, for any inbounds, amounts, bounds *)
(* and any base of the digits.                                             *)
(*                                                                         *)
(* The codec.  appendVarint, varint and the loop of the Unmarshal          *)
(* functions are recursive functions.  That they exist, and what they      *)
(* compute, rests on one fact: a set of naturals that is not empty has a   *)
(* least element.  From it come an induction (Everything) and a recursion  *)
(* (Recursion) that speak of sets and functions only.  AllDigits shows by  *)
(* induction on the number that varint adds up the digits appendVarint     *)
(* wrote.  Every reader leaves a proper suffix of its input (Reading), so  *)
(* the loop ends, and it unfolds field by field (FieldsUnfold).  Bytes     *)
(* carry a list of fields when the loop finds these fields in front of     *)
(* whatever follows (Carries); what carries can be put together, and the   *)
(* round trips of the messages are such compositions.                      *)
(*                                                                         *)
(* The collector.  NeverOvercounts is not inductive: what the next         *)
(* observation will add depends on values read earlier, perhaps before     *)
(* sing-box restarted.  Say that a value v is safe for a counter when      *)
(* observing v now, and the counter itself next, would not count too much. *)
(* The counter is safe at all times (CounterInv) and every value on its    *)
(* way to the collector is (PendingInv): a value is safe when it is read,  *)
(* and traffic, a restart and the observation of other values leave it so. *)
(* ExactUntilRestart holds because every value on its way lies between the *)
(* last one observed and the counter (FirstRunInv).                        *)
(*                                                                         *)
(* Both together.  The collector's proofs need that the agent reads the    *)
(* values sing-box sent (DecodesWhatWasSent); when the messages are those  *)
(* of the codec (Wired), it does (WireInv, ServiceRead).                   *)
(***************************************************************************)
EXTENDS TrafficWire, SequenceTheorems, WellFoundedInduction, TLAPS

\* The order of the naturals, as a relation.
Below == {p \in Nat \X Nat : p[1] < p[2]}

\* A set of naturals that is not empty has a least element.
LEMMA Least ==
    ASSUME NEW S \in SUBSET Nat, S # {}
    PROVE  \E x \in S : \A y \in S : x <= y
<1>1. Below = OpToRel(<, Nat)
  BY DEF OpToRel, Below
<1>2. PICK x \in S : \A y \in S : ~ (<<y, x>> \in Below)
  BY <1>1, NatLessThanWellFounded, WFMin
<1>3. ASSUME NEW y \in S
      PROVE  x <= y
  <2>1. x \in Nat /\ y \in Nat
    OBVIOUS
  <2>2. y < x => <<y, x>> \in Below
    BY <2>1 DEF Below
  <2>3. QED
    BY <1>2, <2>1, <2>2
<1>4. QED
  BY <1>3

\* A set that has every natural all of whose predecessors it has is that of all.
LEMMA Everything ==
    ASSUME NEW T, ASSUME NEW n \in Nat, \A m \in Nat : m < n => m \in T PROVE n \in T
    PROVE  \A n \in Nat : n \in T
<1> DEFINE Bad == {n \in Nat : n \notin T}
<1>1. SUFFICES ASSUME Bad # {} PROVE FALSE
  OBVIOUS
<1>2. PICK x \in Bad : \A y \in Bad : x <= y
  <2>1. Bad \in SUBSET Nat
    OBVIOUS
  <2>2. QED
    BY <1>1, <2>1, Least
<1>3. \A m \in Nat : m < x => m \in T
  BY <1>2
<1>4. QED
  BY <1>2, <1>3

\* Some function has the value g[n] of its value at J[n] at n, when J[n] is smaller.
Recursive(V, J, b, g) ==
    \E f \in [Nat -> V] : \A n \in Nat : f[n] = IF J[n] < n THEN g[n][f[J[n]]] ELSE b[n]

\* A function on the naturals whose value at n is a start value b[n], or g[n] of
\* its value at a smaller number J[n].
LEMMA Recursion ==
    ASSUME NEW V, NEW J \in [Nat -> Nat], NEW b \in [Nat -> V], NEW g \in [Nat -> [V -> V]]
    PROVE  Recursive(V, J, b, g)
<1> DEFINE Step(f, n) == IF J[n] < n THEN g[n][f[J[n]]] ELSE b[n]
           Good(f, m) == f \in [0..m -> V] /\ \A n \in 0..m : f[n] = Step(f, n)
           T == {m \in Nat : \E f : Good(f, m)}
<1>1. \A m \in Nat : m \in T
  <2>1. ASSUME NEW m \in Nat, \A k \in Nat : k < m => k \in T
        PROVE  m \in T
    <3>1. CASE m = 0
      <4> DEFINE f == [i \in 0..0 |-> b[0]]
      <4>1. f \in [0..0 -> V]
        OBVIOUS
      <4>2. \A n \in 0..0 : f[n] = Step(f, n)
        OBVIOUS
      <4>3. QED
        BY <3>1, <4>1, <4>2
    <3>2. CASE m # 0
      <4>1. m - 1 \in Nat /\ m - 1 < m
        BY <3>2
      <4>1a. m - 1 \in T
        BY <2>1, <4>1
      <4>2. PICK f : Good(f, m - 1)
        BY <4>1a
      <4> DEFINE h == [i \in 0..m |-> IF i = m THEN Step(f, m) ELSE f[i]]
      <4>3. \A i \in 0..m : i = m \/ i \in 0..(m - 1)
        OBVIOUS
      <4>4. \A i \in 0..m : J[i] < i => J[i] \in 0..(m - 1) /\ J[i] \in 0..m /\ J[i] # m
        OBVIOUS
      <4>5. Step(f, m) \in V
        BY <4>2, <4>4
      <4>6. h \in [0..m -> V]
        BY <4>2, <4>3, <4>5
      <4>7. \A i \in 0..m : J[i] < i => h[J[i]] = f[J[i]]
        BY <4>4
      <4>8. \A i \in 0..m : h[i] = Step(f, i)
        BY <4>2, <4>3
      <4>9. \A i \in 0..m : Step(h, i) = Step(f, i)
        BY <4>7
      <4> HIDE DEF h, Step
      <4>10. QED
        BY <4>6, <4>8, <4>9
    <3>3. QED
      BY <3>1, <3>2
  <2> HIDE DEF T
  <2>2. QED
    BY <2>1, Everything
<1>2. ASSUME NEW m \in Nat, NEW k \in Nat, NEW f, NEW h, Good(f, m), Good(h, k)
      PROVE  \A n \in Nat : n <= m /\ n <= k => f[n] = h[n]
  <2> DEFINE A == {n \in Nat : n <= m /\ n <= k => f[n] = h[n]}
  <2>1. ASSUME NEW n \in Nat, \A i \in Nat : i < n => i \in A
        PROVE  n \in A
    <3> SUFFICES ASSUME n <= m, n <= k PROVE f[n] = h[n]
      OBVIOUS
    <3>1. f[n] = Step(f, n) /\ h[n] = Step(h, n)
      BY <1>2
    <3>2. J[n] < n => f[J[n]] = h[J[n]]
      <4>1. J[n] \in Nat
        OBVIOUS
      <4>2. J[n] < n => J[n] <= m /\ J[n] <= k
        BY <4>1
      <4> HIDE DEF Good
      <4>3. QED
        BY <2>1, <4>1, <4>2
    <3>3. QED
      BY <3>1, <3>2
  <2>2. \A n \in Nat : n \in A
    <3> HIDE DEF A
    <3>1. QED
      BY <2>1, Everything
  <2>3. QED
    BY <2>2
<1> DEFINE c(n) == CHOOSE f : Good(f, n)
           F == [n \in Nat |-> c(n)[n]]
<1>3. \A n \in Nat : Good(c(n), n)
  BY <1>1
<1> HIDE DEF c
<1>4. F \in [Nat -> V]
  BY <1>3
<1>5. ASSUME NEW n \in Nat
      PROVE  F[n] = Step(F, n)
  <2>1. F[n] = Step(c(n), n)
    BY <1>3
  <2>2. J[n] < n => F[J[n]] = c(n)[J[n]]
    <3> SUFFICES ASSUME J[n] < n PROVE F[J[n]] = c(n)[J[n]]
      OBVIOUS
    <3>1. J[n] \in Nat /\ Good(c(J[n]), J[n]) /\ Good(c(n), n)
      BY <1>3
    <3> HIDE DEF Good
    <3>2. c(J[n])[J[n]] = c(n)[J[n]]
      BY <1>2, <3>1
    <3>3. QED
      BY <3>1, <3>2
  <2>3. QED
    BY <2>1, <2>2
<1>6. QED
  BY <1>4, <1>5 DEF Recursive
-----------------------------------------------------------------------------
\* A number is made of its last digit and the rest.
LEMMA Division ==
    ASSUME NEW n \in Nat
    PROVE  /\ n \div Base \in Nat /\ n % Base \in Nat /\ n % Base < Base
           /\ n = Base * (n \div Base) + (n % Base)
           /\ n >= Base => n \div Base < n /\ n \div Base > 0
<1> DEFINE q == n \div Base
           r == n % Base
<1>1. Base \in Nat /\ Base > 1
  BY StatsCodecAssumption
<1>2. q \in Nat /\ r \in Nat /\ r < Base
  BY <1>1
<1>3. n = Base * q + r
  <2>1. ASSUME NEW a \in Nat, NEW c \in Nat, a = n \div Base, c = n % Base
        PROVE  n = Base * a + c
    BY <1>1, <2>1, SMTT(30)
  <2>2. QED
    BY <1>2, <2>1
<1>4. n >= Base => q < n /\ q > 0
  <2>1. n >= Base => q < n
    BY <1>1
  <2>2. q = 0 => n = r
    BY <1>1, <1>2, <1>3
  <2>3. QED
    BY <1>1, <1>2, <2>1, <2>2
<1>5. QED
  BY <1>2, <1>3, <1>4

\* The mark does not change the digit.
LEMMA Marked ==
    ASSUME NEW n \in Nat
    PROVE  /\ n < Base => n % Base = n
           /\ (Base + (n % Base)) % Base = n % Base
           /\ Base + (n % Base) >= Base
<1>1. Base \in Nat /\ Base > 1
  BY StatsCodecAssumption
<1>2. \A d \in Nat : d < Base => d % Base = d /\ (Base + d) % Base = d
  BY <1>1
<1>3. QED
  BY <1>1, <1>2, Division

\* Bytes, of any size: a digit and its mark.
Bytes == Seq(Nat)

\* appendVarint writes the last digit, marked, and then the rest of the number.
LEMMA AppendVarint ==
    ASSUME NEW v \in Nat
    PROVE  /\ appendVarint(v) \in Bytes
           /\ v < Base => appendVarint(v) = <<v>>
           /\ v >= Base => appendVarint(v) = <<Base + (v % Base)>> \o appendVarint(v \div Base)
<1> DEFINE D == CHOOSE f : f = [n \in Nat |->
                  IF n >= Base THEN <<Base + (n % Base)>> \o f[n \div Base] ELSE <<n>>]
           J == [n \in Nat |-> IF n >= Base THEN n \div Base ELSE n]
           b == [n \in Nat |-> <<n>>]
           g == [n \in Nat |-> [s \in Bytes |-> <<Base + (n % Base)>> \o s]]
<1>1. Base \in Nat /\ Base > 1
  BY StatsCodecAssumption
<1>2. J \in [Nat -> Nat]
  BY Division
<1>3. b \in [Nat -> Bytes]
  BY DEF Bytes
<1>4. g \in [Nat -> [Bytes -> Bytes]]
  <2>1. \A n \in Nat : Base + (n % Base) \in Nat
    BY <1>1, Division
  <2>2. \A n \in Nat, s \in Bytes : <<Base + (n % Base)>> \o s \in Bytes
    BY <2>1 DEF Bytes
  <2>3. QED
    BY <2>2
<1>5. \A n \in Nat : J[n] < n <=> n >= Base
  BY Division, <1>1
<1>6. PICK f \in [Nat -> Bytes] :
         \A n \in Nat : f[n] = IF J[n] < n THEN g[n][f[J[n]]] ELSE b[n]
  <2> HIDE DEF J, b, g
  <2>1. Recursive(Bytes, J, b, g)
    BY <1>2, <1>3, <1>4, Recursion
  <2>2. QED
    BY <2>1 DEF Recursive
<1>7. \A n \in Nat : f[n] = IF n >= Base THEN <<Base + (n % Base)>> \o f[n \div Base] ELSE <<n>>
  <2> TAKE n \in Nat
  <2>1. n \div Base \in Nat
    BY Division
  <2>2. f[n \div Base] \in Bytes
    BY <2>1
  <2>3. CASE n >= Base
    <3>1. J[n] = n \div Base /\ J[n] < n
      BY <1>5, <2>3
    <3>2. f[n] = g[n][f[n \div Base]]
      BY <1>6, <3>1
    <3>3. QED
      BY <2>2, <2>3, <3>2
  <2>4. CASE ~(n >= Base)
    <3>1. ~(J[n] < n)
      BY <1>5, <2>4
    <3>2. QED
      BY <1>6, <2>4, <3>1
  <2>5. QED
    BY <2>3, <2>4
<1>8. f = [n \in Nat |-> IF n >= Base THEN <<Base + (n % Base)>> \o f[n \div Base] ELSE <<n>>]
  BY <1>7
<1>9. D = [n \in Nat |-> IF n >= Base THEN <<Base + (n % Base)>> \o D[n \div Base] ELSE <<n>>]
  BY <1>8
<1>10. \A n \in Nat : appendVarint(n) = D[n]
  BY DEF appendVarint
<1> HIDE DEF D, J, b, g
<1>11. D \in [Nat -> Bytes]
  <2> DEFINE T == {n \in Nat : D[n] \in Bytes}
  <2>1. ASSUME NEW n \in Nat, \A m \in Nat : m < n => m \in T
        PROVE  n \in T
    <3>1. CASE n >= Base
      <4>1. n \div Base \in Nat /\ n \div Base < n
        BY <3>1, Division
      <4>2. D[n \div Base] \in Bytes
        BY <2>1, <4>1
      <4>3. Base + (n % Base) \in Nat
        BY <1>1, Division
      <4>4. <<Base + (n % Base)>> \o D[n \div Base] \in Bytes
        BY <4>2, <4>3 DEF Bytes
      <4>5. QED
        BY <1>9, <3>1, <4>4
    <3>2. CASE ~(n >= Base)
      <4>1. D[n] = <<n>>
        BY <1>9, <3>2
      <4>2. <<n>> \in Bytes
        BY DEF Bytes
      <4>3. QED
        BY <4>1, <4>2
    <3>3. QED
      BY <3>1, <3>2
  <2>2. \A n \in Nat : n \in T
    <3> HIDE DEF T
    <3>1. QED
      BY <2>1, Everything
  <2>3. \A n \in Nat : D[n] \in Bytes
    BY <2>2
  <2>4. QED
    BY <1>9, <2>3
<1>12. v \div Base \in Nat
  BY Division
<1>13. appendVarint(v) \in Bytes
  BY <1>10, <1>11
<1>14. v < Base => D[v] = <<v>>
  BY <1>1, <1>9
<1>15. v >= Base => D[v] = <<Base + (v % Base)>> \o D[v \div Base]
  BY <1>9
<1>16. QED
  BY <1>10, <1>12, <1>13, <1>14, <1>15
\* The places of the digits: each counts Base times the one before.
LEMMA Places ==
    /\ place[0] = 1
    /\ \A k \in 1..Digits : place[k] = Base * place[k - 1]
    /\ \A k \in 0..Digits : place[k] \in Nat /\ place[k] > 0
<1> DEFINE eq(f) == f = [k \in 0..Digits |-> IF k = 0 THEN 1 ELSE Base * f[k - 1]]
           J == [n \in Nat |-> IF n = 0 THEN 0 ELSE n - 1]
           b == [n \in Nat |-> 1]
           g == [n \in Nat |-> [v \in Nat |-> Base * v]]
<1>1. Base \in Nat /\ Base > 1
  BY StatsCodecAssumption
<1>2. \E f : eq(f)
  <2>1. J \in [Nat -> Nat] /\ b \in [Nat -> Nat] /\ g \in [Nat -> [Nat -> Nat]]
    BY <1>1
  <2>2. \A n \in Nat : (n # 0 => J[n] = n - 1 /\ J[n] < n) /\ (n = 0 => ~(J[n] < n))
    OBVIOUS
  <2>3. PICK f \in [Nat -> Nat] : \A n \in Nat : f[n] = IF J[n] < n THEN g[n][f[J[n]]] ELSE b[n]
    <3> HIDE DEF J, b, g
    <3>1. Recursive(Nat, J, b, g)
      BY <2>1, Recursion
    <3>2. QED
      BY <3>1 DEF Recursive
  <2>4. \A n \in Nat : f[n] = IF n = 0 THEN 1 ELSE Base * f[n - 1]
    <3> TAKE n \in Nat
    <3>1. CASE n = 0
      BY <2>2, <2>3, <3>1
    <3>2. CASE n # 0
      <4>1. f[n] = g[n][f[n - 1]]
        BY <2>2, <2>3, <3>2
      <4>2. n - 1 \in Nat /\ f[n - 1] \in Nat
        BY <3>2
      <4>3. QED
        BY <3>2, <4>1, <4>2
    <3>3. QED
      BY <3>1, <3>2
  <2> DEFINE h == [k \in 0..Digits |-> f[k]]
  <2>5. \A k \in 0..Digits : k # 0 => k - 1 \in 0..Digits
    BY DEF Digits
  <2>6. \A k \in 0..Digits : h[k] = IF k = 0 THEN 1 ELSE Base * h[k - 1]
    BY <2>4, <2>5
  <2>7. eq(h)
    BY <2>6
  <2>8. QED
    BY <2>7
<1>3. place = CHOOSE f : eq(f)
  BY Zenon DEF place
<1>4. eq(place)
  <2> HIDE DEF eq
  <2>1. QED
    BY <1>2, <1>3, Zenon
<1>5. place[0] = 1
  BY <1>4 DEF Digits
<1>6. \A k \in 1..Digits : place[k] = Base * place[k - 1]
  BY <1>4 DEF Digits
<1> DEFINE T == {k \in Nat : k <= Digits => place[k] \in Nat /\ place[k] > 0}
<1>7. ASSUME NEW k \in Nat, \A m \in Nat : m < k => m \in T
      PROVE  k \in T
  <2>1. CASE k = 0
    BY <1>5, <2>1
  <2>2. CASE k # 0 /\ k <= Digits
    <3>1. k - 1 \in Nat /\ k - 1 < k /\ k - 1 <= Digits /\ k \in 1..Digits
      BY <2>2 DEF Digits
    <3>2. place[k - 1] \in Nat /\ place[k - 1] > 0
      BY <1>7, <3>1
    <3>3. place[k] = Base * place[k - 1]
      BY <1>6, <3>1
    <3>4. \A x \in Nat : x > 0 => Base * x \in Nat /\ Base * x > 0
      BY <1>1
    <3>5. QED
      BY <3>2, <3>3, <3>4
  <2>3. QED
    BY <2>1, <2>2
<1>8. \A k \in Nat : k \in T
  <2> HIDE DEF T
  <2>1. QED
    BY <1>7, Everything
<1>9. QED
  BY <1>5, <1>6, <1>8 DEF Digits

\* What the digit n is worth.
Worth(n, shift) == n * place[shift]

\* 2^64 and more do not fit.
LEMMA UintType == Uint \in Nat /\ Uint > 0
<1>1. place[Digits - 1] \in Nat /\ place[Digits - 1] > 0
  BY Places DEF Digits
<1>2. QED
  BY <1>1 DEF Uint

\* What a digit is worth is a number.
LEMMA WorthType ==
    ASSUME NEW n \in Nat, NEW k \in 0..Digits
    PROVE  Worth(n, k) \in Nat
<1>1. place[k] \in Nat
  BY Places
<1>2. QED
  BY <1>1 DEF Worth

\* The first digit counts once.
LEMMA WorthFirst == ASSUME NEW n \in Nat PROVE Worth(n, 0) = n
BY Places DEF Worth

\* The tenth digit of a 64-bit number is a single bit.
LEMMA WorthLast ==
    ASSUME NEW n \in Nat, n >= 2
    PROVE  Worth(n, Digits - 1) >= Uint
<1> DEFINE p == place[Digits - 1]
           w == (n - 2) * p
<1>1. p \in Nat
  BY Places DEF Digits
<1> HIDE DEF p
<1>2. \A a, d \in Nat : (2 + a) * d = 2 * d + a * d /\ a * d \in Nat
  OBVIOUS
<1>3. n - 2 \in Nat /\ n = 2 + (n - 2)
  OBVIOUS
<1>4. n * p = 2 * p + w /\ w \in Nat
  BY <1>1, <1>2, <1>3
<1> HIDE DEF w
<1>5. 2 * p \in Nat /\ 2 * p + w >= 2 * p
  BY <1>1, <1>4
<1>6. QED
  BY <1>4, <1>5 DEF Worth, Uint, p

\* A number is worth what its last digit and the rest, one place on, are worth.
LEMMA WorthSplit ==
    ASSUME NEW n \in Nat, NEW k \in 0..(Digits - 1)
    PROVE  Worth(n, k) = Worth(n \div Base, k + 1) + Worth(n % Base, k)
<1> DEFINE q == n \div Base
           r == n % Base
           p == place[k]
<1>1. q \in Nat /\ r \in Nat /\ n = Base * q + r /\ Base \in Nat
  BY Division, StatsCodecAssumption
<1>2. place[k + 1] = Base * p /\ p \in Nat
  <2>1. k + 1 \in 1..Digits /\ (k + 1) - 1 = k /\ k \in 0..Digits
    BY DEF Digits
  <2>2. QED
    BY <2>1, Places
<1> HIDE DEF q, r, p
<1>3. \A a, b, c, d \in Nat : (b * a + c) * d = a * (b * d) + c * d
  OBVIOUS
<1>4. (Base * q + r) * p = q * (Base * p) + r * p
  BY <1>1, <1>2, <1>3
<1>5. n * p = q * place[k + 1] + r * p
  BY <1>1, <1>2, <1>4
<1>6. QED
  BY <1>5 DEF Worth, q, r, p

\* What varint has read: a value and the bytes it takes.
Number(value, size) == [ok |-> TRUE, value |-> value, size |-> size]
\* Everything that varint can have read.
Numbers == {Fail} \cup {Number(v, n) : v \in Nat, n \in Nat}

\* What is read when a digit comes before it.
Plus(n, digit) == IF n.ok THEN [n EXCEPT !.value = (@ + digit) % Uint] ELSE Fail

\* One round of the loop of varint.
DigitAt(data, f, shift) ==
    IF shift = Digits \/ shift >= Len(data) THEN Fail
    ELSE IF data[shift + 1] < Base
         THEN Number(Worth(data[shift + 1] % Base, shift), shift + 1)
         ELSE Plus(f[shift + 1], Worth(data[shift + 1] % Base, shift))

\* What was read without a failure is a value and a size.
LEMMA NumberRead ==
    ASSUME NEW n \in Numbers, n.ok
    PROVE  n.value \in Nat /\ n.size \in Nat /\ n = Number(n.value, n.size)
<1>1. n # Fail
  BY DEF Fail
<1>2. PICK v \in Nat, z \in Nat : n = Number(v, z)
  BY <1>1 DEF Numbers
<1>3. n.value = v /\ n.size = z
  BY <1>2 DEF Number
<1>4. QED
  BY <1>2, <1>3

\* A digit more changes the value only.
LEMMA SumType ==
    ASSUME NEW n \in Numbers, NEW d \in Nat
    PROVE  /\ Plus(n, d) \in Numbers
           /\ Plus(n, d).ok = n.ok
           /\ n.ok => Plus(n, d) = Number((n.value + d) % Uint, n.size)
<1>1. CASE n = Fail
  BY <1>1 DEF Plus, Fail, Numbers
<1>2. CASE n # Fail
  <2>1. PICK v \in Nat, z \in Nat : n = Number(v, z)
    BY <1>2 DEF Numbers
  <2>2. Plus(n, d) = Number((v + d) % Uint, z) /\ n.ok = TRUE /\ n.value = v /\ n.size = z
    BY <2>1 DEF Plus, Number
  <2>3. (v + d) % Uint \in Nat
    BY UintType
  <2>4. Number((v + d) % Uint, z) \in Numbers
    BY <2>3 DEF Numbers
  <2>5. Number((v + d) % Uint, z).ok = TRUE
    BY DEF Number
  <2>6. QED
    BY <2>2, <2>4, <2>5
<1>3. QED
  BY <1>1, <1>2
\* varint reads digit after digit, the sum of which it returns with what follows.
LEMMA VarintReads ==
    ASSUME NEW data \in Bytes
    PROVE  \E f \in [0..Digits -> Numbers] :
              /\ varint(data) = After(f[0], data)
              /\ \A k \in 0..Digits : f[k] = DigitAt(data, f, k)
              /\ \A k \in 0..Digits : f[k].ok => k < f[k].size /\ f[k].size <= Len(data)
<1> DEFINE F == CHOOSE f : f = [k \in 0..Digits |-> DigitAt(data, f, k)]
           more(k) == ~(k = Digits \/ k >= Len(data)) /\ ~(data[k + 1] < Base)
           digit(k) == Worth(data[k + 1] % Base, k)
           J == [n \in Nat |-> IF n \in 1..Digits /\ more(Digits - n) THEN n - 1 ELSE n]
           b == [n \in Nat |-> IF n \in 0..Digits /\ DigitAt(data, <<>>, Digits - n) \in Numbers
                               THEN DigitAt(data, <<>>, Digits - n) ELSE Fail]
           g == [n \in Nat |-> [v \in Numbers |->
                   IF n \in 1..Digits /\ more(Digits - n) THEN Plus(v, digit(Digits - n)) ELSE Fail]]
<1>1. Base \in Nat /\ Base > 1 /\ Len(data) \in Nat /\ DOMAIN data = 1..Len(data)
  BY StatsCodecAssumption DEF Bytes
<1>2. ASSUME NEW k \in 0..Digits, ~(k = Digits \/ k >= Len(data))
      PROVE  data[k + 1] \in Nat /\ digit(k) \in Nat
  <2>1. k + 1 \in 1..Len(data)
    BY <1>1, <1>2 DEF Digits
  <2>2. data[k + 1] \in Nat
    BY <2>1 DEF Bytes
  <2>3. data[k + 1] % Base \in Nat
    BY <2>2, Division
  <2>4. QED
    BY <2>2, <2>3, WorthType
<1>3. \A k \in 0..Digits : ~more(k) => \A f : DigitAt(data, f, k) = DigitAt(data, <<>>, k)
  BY DEF DigitAt
<1>4. ASSUME NEW k \in 0..Digits, ~more(k), NEW f
      PROVE  DigitAt(data, f, k) \in Numbers
  <2>1. CASE k = Digits \/ k >= Len(data)
    BY <2>1 DEF DigitAt, Numbers
  <2>2. CASE ~(k = Digits \/ k >= Len(data))
    <3>1. data[k + 1] < Base
      BY <1>4, <2>2
    <3>2. DigitAt(data, f, k) = Number(digit(k), k + 1)
      BY <2>2, <3>1 DEF DigitAt
    <3>3. digit(k) \in Nat /\ k + 1 \in Nat
      BY <1>2, <2>2 DEF Digits
    <3>4. QED
      BY <3>2, <3>3 DEF Numbers
  <2>3. QED
    BY <2>1, <2>2
<1>5. \A f : \A k \in 0..Digits : more(k) => DigitAt(data, f, k) = Plus(f[k + 1], digit(k))
  <2> TAKE f
  <2> TAKE k \in 0..Digits
  <2> HAVE more(k)
  <2>1. ~(k = Digits \/ k >= Len(data)) /\ ~(data[k + 1] < Base)
    OBVIOUS
  <2>2. QED
    BY <2>1, Zenon DEF DigitAt
<1>6. \A k \in 0..Digits : more(k) => k + 1 \in 0..Digits /\ digit(k) \in Nat
  BY <1>2 DEF Digits
<1> HIDE DEF more, digit
<1>7. \E f : f = [k \in 0..Digits |-> DigitAt(data, f, k)]
  <2>1. Fail \in Numbers
    BY DEF Numbers
  <2>2. J \in [Nat -> Nat]
    BY DEF Digits
  <2>3. b \in [Nat -> Numbers]
    BY <2>1
  <2>4. g \in [Nat -> [Numbers -> Numbers]]
    <3>1. ASSUME NEW n \in Nat, NEW v \in Numbers, n \in 1..Digits /\ more(Digits - n)
          PROVE  Plus(v, digit(Digits - n)) \in Numbers
      <4>1. Digits - n \in 0..Digits
        BY <3>1 DEF Digits
      <4>2. QED
        BY <1>6, <3>1, <4>1, SumType
    <3>2. QED
      BY <2>1, <3>1
  <2>5. PICK h \in [Nat -> Numbers] :
           \A n \in Nat : h[n] = IF J[n] < n THEN g[n][h[J[n]]] ELSE b[n]
    <3> HIDE DEF J, b, g
    <3>1. Recursive(Numbers, J, b, g)
      BY <2>2, <2>3, <2>4, Recursion
    <3>2. QED
      BY <3>1 DEF Recursive
  <2> DEFINE f == [k \in 0..Digits |-> h[Digits - k]]
  <2>6. ASSUME NEW k \in 0..Digits
        PROVE  f[k] = DigitAt(data, f, k)
    <3> DEFINE n == Digits - k
    <3>1. n \in Nat /\ n \in 0..Digits /\ Digits - n = k /\ f[k] = h[n]
      BY DEF Digits
    <3>2. CASE more(k)
      <4>1. k + 1 \in 0..Digits /\ n \in 1..Digits /\ f[k + 1] = h[n - 1] /\ n - 1 \in Nat
        BY <1>6, <3>2 DEF Digits
      <4>2. J[n] = n - 1 /\ J[n] < n
        BY <3>1, <3>2, <4>1
      <4>3. h[n] = g[n][h[n - 1]]
        BY <2>5, <3>1, <4>2
      <4>4. h[n - 1] \in Numbers
        BY <4>1
      <4>5. g[n][h[n - 1]] = Plus(h[n - 1], digit(k))
        BY <3>1, <3>2, <4>1, <4>4
      <4>6. DigitAt(data, f, k) = Plus(f[k + 1], digit(k))
        BY <1>5, <3>2
      <4>7. QED
        BY <3>1, <4>1, <4>3, <4>5, <4>6
    <3>3. CASE ~more(k)
      <4>1. ~(J[n] < n)
        BY <3>1, <3>3
      <4>2. h[n] = b[n]
        BY <2>5, <3>1, <4>1
      <4>3. DigitAt(data, <<>>, k) \in Numbers
        BY <1>4, <3>3
      <4>4. b[n] = DigitAt(data, <<>>, k)
        BY <3>1, <4>3
      <4>5. QED
        BY <1>3, <3>1, <3>3, <4>2, <4>4
    <3>4. QED
      BY <3>2, <3>3
  <2>7. f = [k \in 0..Digits |-> DigitAt(data, f, k)]
    BY <2>6
  <2> HIDE DEF f
  <2>8. QED
    BY <2>7
<1>8. F = [k \in 0..Digits |-> DigitAt(data, F, k)]
  BY <1>7
<1>9. varint(data) = After(F[0], data)
  BY DEF varint, DigitAt, Plus, Number, Worth
<1> HIDE DEF F, J, b, g
<1>10. \A k \in 0..Digits : F[k] = DigitAt(data, F, k)
  BY <1>8
<1> DEFINE Right(k) == F[k] \in Numbers /\ (F[k].ok => k < F[k].size /\ F[k].size <= Len(data))
           T == {n \in Nat : n <= Digits => Right(Digits - n)}
<1>11. ASSUME NEW n \in Nat, \A m \in Nat : m < n => m \in T
       PROVE  n \in T
  <2> SUFFICES ASSUME n <= Digits PROVE Right(Digits - n)
    OBVIOUS
  <2> DEFINE k == Digits - n
  <2>1. k \in 0..Digits /\ k \in Nat
    BY DEF Digits
  <2>2. CASE more(k)
    <3>1. k + 1 \in 0..Digits /\ n - 1 \in Nat /\ n - 1 < n /\ n - 1 <= Digits /\ Digits - (n - 1) = k + 1
      BY <1>6, <2>1, <2>2 DEF Digits
    <3>2. n - 1 \in T
      BY <1>11, <3>1
    <3>3. Right(k + 1)
      BY <3>1, <3>2
    <3>4. F[k] = Plus(F[k + 1], digit(k)) /\ digit(k) \in Nat
      BY <1>5, <1>6, <1>10, <2>1, <2>2
    <3>5. /\ F[k] \in Numbers
          /\ F[k].ok = F[k + 1].ok
          /\ F[k + 1].ok => F[k] = Number((F[k + 1].value + digit(k)) % Uint, F[k + 1].size)
      <4> HIDE DEF k
      <4>1. QED
        BY <3>3, <3>4, SumType
    <3>6. F[k + 1].ok => F[k].size = F[k + 1].size
      BY <3>5 DEF Number
    <3>7. F[k + 1].ok => k + 1 < F[k + 1].size /\ F[k + 1].size <= Len(data) /\ F[k + 1].size \in Nat
      BY <3>3, NumberRead
    <3>8. QED
      BY <2>1, <3>5, <3>6, <3>7
  <2>3. CASE ~more(k)
    <3>1. F[k] \in Numbers
      BY <1>4, <1>10, <2>1, <2>3
    <3>2. CASE k = Digits \/ k >= Len(data)
      <4>1. F[k] = Fail
        BY <1>10, <2>1, <3>2 DEF DigitAt
      <4>2. QED
        BY <3>1, <4>1 DEF Fail
    <3>3. CASE ~(k = Digits \/ k >= Len(data))
      <4>1. F[k] = Number(digit(k), k + 1)
        BY <1>10, <2>1, <2>3, <3>3 DEF DigitAt, more, digit
      <4>2. F[k].size = k + 1
        BY <4>1 DEF Number
      <4>3. k < k + 1 /\ k + 1 <= Len(data)
        BY <1>1, <2>1, <3>3
      <4>4. F[k].ok => k < F[k].size /\ F[k].size <= Len(data)
        BY <4>2, <4>3
      <4>5. QED
        BY <3>1, <4>4
    <3>4. QED
      BY <3>2, <3>3
  <2>4. QED
    BY <2>2, <2>3
<1>12. \A n \in Nat : n \in T
  <2> HIDE DEF T
  <2>1. QED
    BY <1>11, Everything
<1>13. ASSUME NEW k \in 0..Digits
       PROVE  Right(k)
  <2>1. Digits - k \in Nat /\ Digits - k <= Digits /\ Digits - (Digits - k) = k
    BY DEF Digits
  <2>2. Right(Digits - (Digits - k))
    BY <1>12, <2>1
  <2>3. QED
    BY <2>1, <2>2
<1>14. F \in [0..Digits -> Numbers]
  BY <1>8, <1>13
<1>15. QED
  BY <1>9, <1>10, <1>13, <1>14

\* What follows the first k elements of a list.
Rest(data, k) == SubSeq(data, k + 1, Len(data))

\* The rest is a list of bytes, those from the next position on.
LEMMA RestOf ==
    ASSUME NEW data \in Bytes, NEW k \in Nat, k <= Len(data)
    PROVE  /\ Rest(data, k) \in Bytes /\ Len(Rest(data, k)) = Len(data) - k
           /\ \A i \in 1..(Len(data) - k) : Rest(data, k)[i] = data[k + i]
<1>1. data \in Seq(Nat) /\ Len(data) \in Nat
  BY DEF Bytes
<1>2. SubSeq(data, k + 1, Len(data)) \in Seq(Nat)
  BY <1>1
<1>3. Len(SubSeq(data, k + 1, Len(data))) = Len(data) - k
  BY <1>1
<1>4. \A i \in 1..(Len(data) - k) : SubSeq(data, k + 1, Len(data))[i] = data[k + i]
  BY <1>1
<1>5. QED
  BY <1>2, <1>3, <1>4 DEF Rest, Bytes

\* After k elements comes x, and then s.
Ahead(data, k, x, s) == Rest(data, k) = <<x>> \o s
\* The element x is at position k, and s comes after it.
Passed(data, k, x, s) ==
    /\ k < Len(data) /\ data[k + 1] = x
    /\ Rest(data, k + 1) = s
    /\ Len(s) = Len(data) - k - 1

\* One element more.
LEMMA AfterFirst ==
    ASSUME NEW data \in Bytes, NEW k \in Nat, k <= Len(data), NEW x \in Nat, NEW s \in Bytes,
           Ahead(data, k, x, s)
    PROVE  Passed(data, k, x, s)
<1> DEFINE a == Rest(data, k)
           c == Rest(data, k + 1)
<1>1. data \in Seq(Nat) /\ s \in Seq(Nat) /\ Len(data) \in Nat /\ Len(s) \in Nat /\ a = <<x>> \o s
  BY DEF Bytes, Ahead
<1>2. Len(a) = Len(data) - k /\ \A i \in 1..(Len(data) - k) : a[i] = data[k + i]
  BY RestOf
<1> HIDE DEF a
<1>3. Len(a) = 1 + Len(s) /\ a[1] = x /\ \A i \in 1..Len(s) : a[1 + i] = s[i]
  BY <1>1
<1>4. Len(data) - k = 1 + Len(s) /\ k < Len(data) /\ Len(s) = Len(data) - k - 1
  BY <1>1, <1>2, <1>3
<1>5. data[k + 1] = x
  <2>1. 1 \in 1..(Len(data) - k)
    BY <1>1, <1>4
  <2>2. QED
    BY <1>2, <1>3, <2>1
<1>6. k + 1 \in Nat /\ k + 1 <= Len(data) /\ Len(data) - (k + 1) = Len(s)
  BY <1>1, <1>4
<1>7. c \in Seq(Nat) /\ Len(c) = Len(s) /\ \A i \in 1..Len(s) : c[i] = data[k + 1 + i]
  <2> DEFINE j == k + 1
  <2>1. j \in Nat /\ j <= Len(data)
    BY <1>6
  <2> HIDE DEF j
  <2>2. /\ Rest(data, j) \in Bytes /\ Len(Rest(data, j)) = Len(data) - j
        /\ \A i \in 1..(Len(data) - j) : Rest(data, j)[i] = data[j + i]
    BY <2>1, RestOf
  <2>3. Len(data) - j = Len(s) /\ c = Rest(data, j)
    BY <1>6 DEF j
  <2> HIDE DEF c
  <2>4. c \in Bytes /\ Len(c) = Len(s) /\ \A i \in 1..Len(s) : c[i] = data[j + i]
    BY <2>2, <2>3
  <2>5. QED
    BY <2>4 DEF j, Bytes
<1> HIDE DEF c
<1>8. ASSUME NEW i \in 1..Len(s)
      PROVE  c[i] = s[i]
  <2>1. 1 + i \in 1..(Len(data) - k) /\ k + (1 + i) = k + 1 + i
    BY <1>1, <1>4
  <2>2. a[1 + i] = data[k + (1 + i)]
    BY <1>2, <2>1
  <2>3. QED
    BY <1>3, <1>7, <2>1, <2>2
<1>9. c = s
  BY <1>1, <1>7, <1>8, SeqEqual
<1>10. QED
  BY <1>4, <1>5, <1>9 DEF c, Passed

\* ... and after a first part of it.
LEMMA AfterPart ==
    ASSUME NEW S, NEW a \in Seq(S), NEW s \in Seq(S)
    PROVE  /\ SubSeq(a \o s, Len(a) + 1, Len(a \o s)) = s
           /\ SubSeq(a \o s, 1, Len(a)) = a
           /\ Len(a \o s) = Len(a) + Len(s)
<1> DEFINE d == a \o s
           c == SubSeq(d, Len(a) + 1, Len(d))
           e == SubSeq(d, 1, Len(a))
<1>1. /\ d \in Seq(S) /\ Len(d) = Len(a) + Len(s) /\ Len(a) \in Nat /\ Len(s) \in Nat
      /\ \A i \in 1..Len(a) : d[i] = a[i]
      /\ \A i \in 1..Len(s) : d[Len(a) + i] = s[i]
  OBVIOUS
<1> HIDE DEF d
<1>2. /\ c \in Seq(S) /\ Len(c) = Len(s) /\ \A i \in 1..Len(s) : c[i] = d[Len(a) + i]
  BY <1>1
<1>3. /\ e \in Seq(S) /\ Len(e) = Len(a) /\ \A i \in 1..Len(a) : e[i] = d[i]
  BY <1>1
<1> HIDE DEF c, e
<1>4. c = s
  BY <1>1, <1>2, SeqEqual
<1>5. e = a
  BY <1>1, <1>3, SeqEqual
<1>6. QED
  BY <1>1, <1>4, <1>5 DEF d, c, e

\* The bytes from position k on are those of a number and what follows it.
At(data, n, k, rest) ==
    k <= Len(data) /\ Rest(data, k) = appendVarint(n) \o rest

\* f is the run of the loop of varint over data.
Reads(data, f) ==
    f \in [0..Digits -> Numbers] /\ \A k \in 0..Digits : f[k] = DigitAt(data, f, k)

\* The last digit of a number.
LEMMA LastDigit ==
    ASSUME NEW data \in Bytes, NEW rest \in Bytes, NEW f, Reads(data, f),
           NEW n \in Nat, n < Base, NEW k \in 0..(Digits - 1), At(data, n, k, rest)
    PROVE  f[k] = Number(Worth(n, k), Len(data) - Len(rest))
<1>1. k \in 0..Digits /\ k \in Nat /\ k # Digits /\ Len(data) \in Nat /\ Len(rest) \in Nat
  BY DEF Digits, Bytes
<1>2. k <= Len(data) /\ Rest(data, k) = <<n>> \o rest
  BY AppendVarint DEF At
<1>3. k < Len(data) /\ data[k + 1] = n /\ Len(rest) = Len(data) - k - 1
  <2>1. Ahead(data, k, n, rest) /\ k \in Nat /\ k <= Len(data)
    BY <1>1, <1>2 DEF Ahead
  <2>2. Passed(data, k, n, rest)
    BY <2>1, AfterFirst
  <2>3. QED
    BY <2>2 DEF Passed
<1>4. ~(k = Digits \/ k >= Len(data)) /\ k + 1 = Len(data) - Len(rest)
  BY <1>1, <1>3
<1>5. f[k] = Number(Worth(n % Base, k), k + 1)
  BY <1>1, <1>3, <1>4 DEF DigitAt, Reads
<1>6. n % Base = n
  BY Marked
<1>7. QED
  BY <1>4, <1>5, <1>6

\* Another digit: the rest of the number follows.
LEMMA MoreDigits ==
    ASSUME NEW data \in Bytes, NEW rest \in Bytes, NEW f, Reads(data, f),
           NEW n \in Nat, n >= Base, NEW k \in 0..(Digits - 1), At(data, n, k, rest)
    PROVE  /\ At(data, n \div Base, k + 1, rest)
           /\ f[k] = Plus(f[k + 1], Worth(n % Base, k))
<1> DEFINE q == n \div Base
           b == Base + (n % Base)
<1>1. k \in 0..Digits /\ k \in Nat /\ k # Digits /\ Len(data) \in Nat
  BY DEF Digits, Bytes
<1>2. q \in Nat /\ b \in Nat /\ b >= Base /\ b % Base = n % Base /\ ~(b < Base)
  <2>1. q \in Nat /\ n % Base \in Nat /\ Base \in Nat
    BY Division, StatsCodecAssumption
  <2>2. b >= Base /\ b % Base = n % Base
    BY Marked
  <2>3. QED
    BY <2>1, <2>2
<1>3. appendVarint(n) = <<b>> \o appendVarint(q) /\ appendVarint(q) \in Bytes
  BY <1>2, AppendVarint
<1> HIDE DEF q, b
<1>4. appendVarint(q) \o rest \in Bytes /\ <<b>> \in Seq(Nat)
  BY <1>2, <1>3 DEF Bytes
<1>5. (<<b>> \o appendVarint(q)) \o rest = <<b>> \o (appendVarint(q) \o rest)
  BY <1>3, <1>4, ConcatAssociative DEF Bytes
<1>6. k <= Len(data) /\ Rest(data, k) = <<b>> \o (appendVarint(q) \o rest)
  BY <1>3, <1>5 DEF At
<1>7. /\ k < Len(data) /\ data[k + 1] = b
      /\ Rest(data, k + 1) = appendVarint(q) \o rest
  <2> DEFINE s == appendVarint(q) \o rest
  <2> HIDE DEF s
  <2>1. s \in Bytes /\ Rest(data, k) = <<b>> \o s
    BY <1>4, <1>6 DEF s
  <2>2. k < Len(data) /\ data[k + 1] = b /\ Rest(data, k + 1) = s
    <3>1. Ahead(data, k, b, s) /\ k \in Nat /\ k <= Len(data) /\ b \in Nat /\ s \in Bytes
      BY <1>1, <1>2, <1>6, <2>1 DEF Ahead
    <3>2. Passed(data, k, b, s)
      BY <3>1, AfterFirst
    <3>3. QED
      BY <3>2 DEF Passed
  <2>3. QED
    BY <2>2 DEF s
<1>8. At(data, q, k + 1, rest)
  <2>1. k + 1 <= Len(data)
    BY <1>1, <1>7
  <2>2. QED
    BY <1>7, <2>1 DEF At
<1>9. f[k] = Plus(f[k + 1], Worth(b % Base, k))
  <2>1. ~(k = Digits \/ k >= Len(data)) /\ ~(data[k + 1] < Base)
    BY <1>1, <1>2, <1>7
  <2>2. QED
    BY <1>1, <1>7, <2>1 DEF DigitAt, Reads
<1>10. QED
  BY <1>2, <1>8, <1>9 DEF q

\* The whole number.
LEMMA AllDigits ==
    ASSUME NEW data \in Bytes, NEW rest \in Bytes, NEW f, Reads(data, f)
    PROVE  \A n \in Nat : \A k \in 0..(Digits - 1) :
              At(data, n, k, rest) /\ Worth(n, k) < Uint =>
                f[k] = Number(Worth(n, k), Len(data) - Len(rest))
<1> DEFINE Right(n) == \A k \in 0..(Digits - 1) :
              At(data, n, k, rest) /\ Worth(n, k) < Uint =>
                f[k] = Number(Worth(n, k), Len(data) - Len(rest))
           T == {n \in Nat : Right(n)}
<1>1. ASSUME NEW n \in Nat, \A m \in Nat : m < n => m \in T
      PROVE  n \in T
  <2> SUFFICES ASSUME NEW k \in 0..(Digits - 1), At(data, n, k, rest), Worth(n, k) < Uint
               PROVE  f[k] = Number(Worth(n, k), Len(data) - Len(rest))
    OBVIOUS
  <2> HIDE DEF Right, T
  <2>1. CASE n < Base
    BY <2>1, LastDigit
  <2>2. CASE n >= Base
    <3> DEFINE q == n \div Base
               r == n % Base
    <3>1. q \in Nat /\ r \in Nat /\ q < n /\ n >= 2
      BY <2>2, Division, StatsCodecAssumption
    <3>2. At(data, q, k + 1, rest) /\ f[k] = Plus(f[k + 1], Worth(r, k))
      BY <2>2, MoreDigits
    <3>3. Worth(n, k) = Worth(q, k + 1) + Worth(r, k)
      BY WorthSplit
    <3> HIDE DEF q, r
    <3>4. k + 1 \in 0..(Digits - 1)
      <4>1. k # Digits - 1
        <5> SUFFICES ASSUME k = Digits - 1 PROVE FALSE
          OBVIOUS
        <5>1. Worth(n, k) >= Uint
          BY <3>1, WorthLast
        <5>2. Worth(n, k) \in Nat
          BY WorthType DEF Digits
        <5>3. QED
          BY <5>1, <5>2, UintType
      <4>2. QED
        BY <4>1 DEF Digits
    <3>5. k \in 0..Digits /\ k + 1 \in 0..Digits
      BY DEF Digits
    <3>6. Worth(q, k + 1) \in Nat /\ Worth(r, k) \in Nat
      BY <3>1, <3>5, WorthType
    <3>7. Worth(q, k + 1) < Uint
      BY <3>3, <3>6, UintType
    <3>8. f[k + 1] = Number(Worth(q, k + 1), Len(data) - Len(rest))
      <4>1. Right(q)
        BY <1>1, <3>1 DEF T
      <4>2. QED
        BY <3>2, <3>4, <3>7, <4>1 DEF Right
    <3>9. f[k] = Number((Worth(q, k + 1) + Worth(r, k)) % Uint, Len(data) - Len(rest))
      <4>1. f[k + 1] \in Numbers
        BY <3>5 DEF Reads
      <4>2. /\ f[k + 1].ok = TRUE /\ f[k + 1].value = Worth(q, k + 1)
            /\ f[k + 1].size = Len(data) - Len(rest)
        BY <3>8 DEF Number
      <4> DEFINE x == f[k + 1]
                 w == Worth(r, k)
      <4>3. x \in Numbers /\ w \in Nat /\ x.ok = TRUE
        BY <3>6, <4>1, <4>2
      <4> HIDE DEF x, w
      <4>4. Plus(x, w) = Number((x.value + w) % Uint, x.size)
        BY <4>3, SumType
      <4>5. QED
        BY <3>2, <4>2, <4>4 DEF x, w
    <3>10. Worth(n, k) % Uint = Worth(n, k)
      <4>1. \A a, b \in Nat : a < b => a % b = a
        OBVIOUS
      <4>2. Worth(n, k) \in Nat
        BY <3>5, WorthType
      <4>3. QED
        BY <4>1, <4>2, UintType
    <3>11. QED
      BY <3>3, <3>9, <3>10
  <2>3. QED
    BY <2>1, <2>2, StatsCodecAssumption
<1>2. \A n \in Nat : n \in T
  <2> HIDE DEF T
  <2>1. QED
    BY <1>1, Everything
<1>3. QED
  BY <1>2

\* varint reads back what appendVarint wrote, and leaves what follows.
LEMMA VarintRoundTrip ==
    ASSUME NEW v \in Nat, v < Uint, NEW rest \in Bytes
    PROVE  varint(appendVarint(v) \o rest) = Read(v, rest)
<1> DEFINE data == appendVarint(v) \o rest
           a == appendVarint(v)
<1>1. data \in Bytes /\ a \in Bytes
  <2>1. a \in Bytes
    BY AppendVarint
  <2>2. QED
    BY <2>1 DEF Bytes
<1>2. PICK f \in [0..Digits -> Numbers] :
         /\ varint(data) = After(f[0], data)
         /\ \A k \in 0..Digits : f[k] = DigitAt(data, f, k)
  BY <1>1, VarintReads
<1>3. Reads(data, f)
  BY <1>2 DEF Reads
<1>4. /\ SubSeq(data, Len(a) + 1, Len(data)) = rest
      /\ Len(data) = Len(a) + Len(rest)
  BY <1>1, AfterPart DEF Bytes
<1>5. Len(data) \in Nat /\ Len(rest) \in Nat /\ Len(a) \in Nat
  BY <1>1 DEF Bytes
<1>6. Rest(data, 0) = data
  BY <1>1, <1>5 DEF Bytes, Rest
<1>7. At(data, v, 0, rest)
  BY <1>5, <1>6 DEF At
<1> HIDE DEF data, a
<1>8. Worth(v, 0) = v /\ 0 \in 0..(Digits - 1)
  BY WorthFirst DEF Digits
<1>9. f[0] = Number(v, Len(data) - Len(rest))
  <2>1. At(data, v, 0, rest) /\ Worth(v, 0) < Uint =>
           f[0] = Number(Worth(v, 0), Len(data) - Len(rest))
    BY <1>1, <1>3, <1>8, AllDigits
  <2>2. QED
    BY <1>7, <1>8, <2>1
<1>10. f[0].ok = TRUE /\ f[0].value = v /\ f[0].size = Len(a)
  <2>1. Len(data) - Len(rest) = Len(a)
    BY <1>4, <1>5
  <2>2. QED
    BY <1>9, <2>1 DEF Number
<1>11. After(f[0], data) = Read(v, SubSeq(data, Len(a) + 1, Len(data)))
  BY <1>10 DEF After
<1>12. QED
  BY <1>2, <1>4, <1>11 DEF data

\* The last bytes of a list.
Suffix(data, left) == SubSeq(data, Len(data) - left + 1, Len(data))

\* A suffix has the bytes at the end.
LEMMA SuffixType ==
    ASSUME NEW data \in Bytes, NEW n \in Nat, n <= Len(data)
    PROVE  /\ Suffix(data, n) \in Bytes /\ Len(Suffix(data, n)) = n
           /\ \A i \in 1..n : Suffix(data, n)[i] = data[Len(data) - n + i]
<1>1. data \in Seq(Nat) /\ Len(data) \in Nat
  BY DEF Bytes
<1>2. SubSeq(data, Len(data) - n + 1, Len(data)) \in Seq(Nat)
  BY <1>1
<1>3. Len(SubSeq(data, Len(data) - n + 1, Len(data))) = n
  BY <1>1
<1>4. \A i \in 1..n : SubSeq(data, Len(data) - n + 1, Len(data))[i] = data[Len(data) - n + i]
  BY <1>1
<1>5. QED
  BY <1>2, <1>3, <1>4 DEF Suffix, Bytes

\* As many last bytes as there are, are all of them.
LEMMA WholeSuffix ==
    ASSUME NEW data \in Bytes
    PROVE  Suffix(data, Len(data)) = data
BY DEF Suffix, Bytes

\* The end of an end is an end.
LEMMA SuffixSuffix ==
    ASSUME NEW data \in Bytes, NEW m \in Nat, m <= Len(data), NEW n \in Nat, n <= m
    PROVE  Suffix(Suffix(data, m), n) = Suffix(data, n)
<1> DEFINE d == Suffix(data, m)
           a == Suffix(d, n)
           b == Suffix(data, n)
<1>1. Len(data) \in Nat /\ n <= Len(data)
  BY DEF Bytes
<1>2. d \in Bytes /\ Len(d) = m /\ \A i \in 1..m : d[i] = data[Len(data) - m + i]
  BY SuffixType
<1>3. b \in Bytes /\ Len(b) = n /\ \A i \in 1..n : b[i] = data[Len(data) - n + i]
  BY <1>1, SuffixType
<1> HIDE DEF d, b
<1>4. a \in Bytes /\ Len(a) = n /\ \A i \in 1..n : a[i] = d[m - n + i]
  BY <1>2, SuffixType
<1> HIDE DEF a
<1>5. ASSUME NEW i \in 1..n
      PROVE  a[i] = b[i]
  <2>1. m - n + i \in 1..m /\ Len(data) - m + (m - n + i) = Len(data) - n + i
    BY <1>1
  <2>2. d[m - n + i] = data[Len(data) - m + (m - n + i)]
    BY <1>2, <2>1
  <2>3. QED
    BY <1>3, <1>4, <2>1, <2>2
<1>6. a = b
  BY <1>3, <1>4, <1>5, SeqEqual DEF Bytes
<1>7. QED
  BY <1>6 DEF a, b, d

\* What a reader makes of data: a value and the bytes after it, at least one byte
\* fewer, or a failure.
Reading(r, data, V) ==
    \/ r = Fail
    \/ \E v \in V, n \in Nat : n < Len(data) /\ r = Read(v, Suffix(data, n))

\* Whatever the bytes are, varint reads a number or fails.
LEMMA VarintReading ==
    ASSUME NEW data \in Bytes
    PROVE  Reading(varint(data), data, Nat)
<1>1. PICK f \in [0..Digits -> Numbers] :
         /\ varint(data) = After(f[0], data)
         /\ \A k \in 0..Digits : f[k].ok => k < f[k].size /\ f[k].size <= Len(data)
  BY VarintReads
<1>2. f[0] \in Numbers /\ (f[0].ok => 0 < f[0].size /\ f[0].size <= Len(data))
  BY <1>1 DEF Digits
<1>3. CASE f[0] = Fail
  BY <1>1, <1>3 DEF After, Fail, Reading
<1>4. CASE f[0] # Fail
  <2>1. PICK v \in Nat, z \in Nat : f[0] = Number(v, z)
    BY <1>2, <1>4 DEF Numbers
  <2>2. f[0].ok = TRUE /\ f[0].value = v /\ f[0].size = z
    BY <2>1 DEF Number
  <2>3. 0 < z /\ z <= Len(data) /\ Len(data) \in Nat
    BY <1>2, <2>2 DEF Bytes
  <2> DEFINE n == Len(data) - z
  <2>4. n \in Nat /\ n < Len(data) /\ Len(data) - n + 1 = z + 1
    BY <2>3
  <2>5. varint(data) = Read(v, SubSeq(data, z + 1, Len(data)))
    BY <1>1, <2>2 DEF After
  <2> HIDE DEF n
  <2>6. varint(data) = Read(v, Suffix(data, n))
    BY <2>4, <2>5 DEF Suffix
  <2>7. QED
    BY <2>4, <2>6 DEF Reading
<1>5. QED
  BY <1>3, <1>4

\* What is read after a first reading is read of the same data.
LEMMA ReadingAfter ==
    ASSUME NEW data \in Bytes, NEW n \in Nat, n <= Len(data), NEW V, NEW r,
           Reading(r, Suffix(data, n), V)
    PROVE  Reading(r, data, V)
<1>1. CASE r = Fail
  BY <1>1 DEF Reading
<1>2. CASE r # Fail
  <2>1. Suffix(data, n) \in Bytes /\ Len(Suffix(data, n)) = n
    BY SuffixType
  <2>2. PICK v \in V, m \in Nat : m < n /\ r = Read(v, Suffix(Suffix(data, n), m))
    BY <1>2, <2>1 DEF Reading
  <2>3. m < Len(data) /\ m <= n /\ Len(data) \in Nat
    BY <2>2 DEF Bytes
  <2>4. Suffix(Suffix(data, n), m) = Suffix(data, m)
    BY <2>3, SuffixSuffix
  <2>5. QED
    BY <2>2, <2>3, <2>4 DEF Reading
<1>3. QED
  BY <1>1, <1>2

\* bytes reads as many bytes as the length says, or fails.
LEMMA BytesReading ==
    ASSUME NEW data \in Bytes
    PROVE  Reading(bytes(data), data, Bytes)
<1>1. bytes(data) = Take(varint(data))
  BY DEF bytes
<1>2. CASE varint(data) = Fail
  BY <1>1, <1>2 DEF Take, Fail, Reading
<1>3. CASE varint(data) # Fail
  <2>1. PICK v \in Nat, n \in Nat : n < Len(data) /\ varint(data) = Read(v, Suffix(data, n))
    BY <1>3, VarintReading DEF Reading
  <2> DEFINE s == Suffix(data, n)
             r == Read(v, s)
  <2>2. Len(data) \in Nat /\ n <= Len(data)
    BY <2>1 DEF Bytes
  <2>3. s \in Bytes /\ Len(s) = n
    BY <2>2, SuffixType
  <2> HIDE DEF s
  <2>4. r.ok = TRUE /\ r.value = v /\ r.rest = s
    BY DEF Read
  <2> HIDE DEF r
  <2>5. CASE v > n
    BY <1>1, <2>1, <2>3, <2>4, <2>5 DEF Take, Reading, r, s
  <2>6. CASE ~(v > n)
    <3>1. Take(r) = Read(SubSeq(s, 1, v), SubSeq(s, v + 1, n))
      BY <2>3, <2>4, <2>6 DEF Take
    <3>2. SubSeq(s, 1, v) \in Bytes
      BY <2>3, <2>6 DEF Bytes
    <3> DEFINE m == n - v
    <3>3. m \in Nat /\ m <= n /\ n - m + 1 = v + 1 /\ m < Len(data)
      BY <2>1, <2>2, <2>6
    <3> HIDE DEF m
    <3>4. SubSeq(s, v + 1, n) = Suffix(s, m)
      BY <2>3, <3>3 DEF Suffix
    <3>5. Suffix(s, m) = Suffix(data, m)
      BY <2>2, <3>3, SuffixSuffix DEF s
    <3>6. bytes(data) = Read(SubSeq(s, 1, v), Suffix(data, m))
      BY <1>1, <2>1, <3>1, <3>4, <3>5 DEF r, s
    <3>7. QED
      BY <3>2, <3>3, <3>6 DEF Reading
  <2>7. QED
    BY <2>5, <2>6
<1>4. QED
  BY <1>2, <1>3

\* What a field holds: a number or some bytes.
Payloads == Nat \cup Bytes

\* A reading stays one when more values are allowed.
LEMMA ReadingMore ==
    ASSUME NEW data, NEW V, NEW W, V \subseteq W, NEW r, Reading(r, data, V)
    PROVE  Reading(r, data, W)
BY DEF Reading

\* A payload is a number or some bytes.
LEMMA PayloadReading ==
    ASSUME NEW data \in Bytes, NEW wire \in Nat
    PROVE  Reading(payload(wire, data), data, Payloads)
<1>1. CASE wire = wireVarint
  <2>1. payload(wire, data) = varint(data)
    BY <1>1 DEF payload, wireVarint, wireBytes, wireFixed64, wireFixed32
  <2>2. Nat \subseteq Payloads /\ Reading(varint(data), data, Nat)
    BY VarintReading DEF Payloads
  <2>3. QED
    BY <2>1, <2>2, ReadingMore
<1>2. CASE wire = wireBytes
  <2>1. payload(wire, data) = bytes(data)
    BY <1>2 DEF payload, wireVarint, wireBytes, wireFixed64, wireFixed32
  <2>2. Bytes \subseteq Payloads /\ Reading(bytes(data), data, Bytes)
    BY BytesReading DEF Payloads
  <2>3. QED
    BY <2>1, <2>2, ReadingMore
<1>3. ASSUME NEW z \in {8, 4}, Len(data) >= z, payload(wire, data) = Read(<<>>, SubSeq(data, z + 1, Len(data)))
      PROVE  Reading(payload(wire, data), data, Payloads)
  <2> DEFINE n == Len(data) - z
  <2>1. Len(data) \in Nat
    BY DEF Bytes
  <2>2. n \in Nat /\ n < Len(data) /\ Len(data) - n + 1 = z + 1
    BY <1>3, <2>1
  <2> HIDE DEF n
  <2>3. payload(wire, data) = Read(<<>>, Suffix(data, n))
    BY <1>3, <2>2 DEF Suffix
  <2>4. <<>> \in Payloads
    BY DEF Payloads, Bytes
  <2>5. QED
    BY <2>2, <2>3, <2>4 DEF Reading
<1>4. CASE wire = wireFixed64 /\ Len(data) >= 8
  <2>1. payload(wire, data) = Read(<<>>, SubSeq(data, 8 + 1, Len(data)))
    BY <1>4 DEF payload, wireVarint, wireBytes, wireFixed64, wireFixed32
  <2>2. QED
    BY <1>3, <1>4, <2>1
<1>5. CASE wire = wireFixed32 /\ Len(data) >= 4
  <2>1. payload(wire, data) = Read(<<>>, SubSeq(data, 4 + 1, Len(data)))
    BY <1>5 DEF payload, wireVarint, wireBytes, wireFixed64, wireFixed32
  <2>2. QED
    BY <1>3, <1>5, <2>1
<1>6. CASE /\ wire # wireVarint /\ wire # wireBytes
           /\ ~(wire = wireFixed64 /\ Len(data) >= 8) /\ ~(wire = wireFixed32 /\ Len(data) >= 4)
  <2>1. payload(wire, data) = Fail
    BY <1>6 DEF payload
  <2>2. QED
    BY <2>1 DEF Reading
<1>7. QED
  BY <1>1, <1>2, <1>4, <1>5, <1>6

\* A decoded field.
FieldOf(field, wire, value) == [field |-> field, wire |-> wire, value |-> value]
\* Every field that can be decoded.
FieldValues == {FieldOf(k, w, v) : k \in Nat, w \in Nat, v \in Payloads}

\* What a round of the Unmarshal loop makes of a field's key and its payload.
Opened(key, body) ==
    IF ~body.ok THEN Fail ELSE Read(FieldOf(key \div 8, key % 8, body.value), body.rest)

\* A field is its key and the payload after it.
LEMMA OneFieldOf ==
    ASSUME NEW data, NEW key, NEW rest, varint(data) = Read(key, rest)
    PROVE  OneField(data) = Opened(key, payload(key % 8, rest))
<1>1. varint(data).ok = TRUE /\ varint(data).value = key /\ varint(data).rest = rest
  BY DEF Read
<1>2. QED
  BY <1>1 DEF OneField, Opened, FieldOf

\* Whatever the bytes are, a round reads one field or fails.
LEMMA OneFieldReading ==
    ASSUME NEW data \in Bytes
    PROVE  Reading(OneField(data), data, FieldValues)
<1>1. CASE varint(data) = Fail
  BY <1>1 DEF OneField, Reading, Fail
<1>2. CASE varint(data) # Fail
  <2>1. PICK key \in Nat, n \in Nat : n < Len(data) /\ varint(data) = Read(key, Suffix(data, n))
    BY <1>2, VarintReading DEF Reading
  <2> DEFINE s == Suffix(data, n)
             w == key % 8
             k == key \div 8
             p == payload(w, s)
  <2>2. Len(data) \in Nat /\ n <= Len(data)
    BY <2>1 DEF Bytes
  <2>3. s \in Bytes
    BY <2>2, SuffixType
  <2>4. w \in Nat /\ k \in Nat
    OBVIOUS
  <2>5. OneField(data) = Opened(key, p)
    BY <2>1, OneFieldOf
  <2> HIDE DEF w, k
  <2>6. Reading(p, s, Payloads)
    BY <2>3, <2>4, PayloadReading
  <2> HIDE DEF p
  <2>7. Reading(p, data, Payloads)
    BY <2>2, <2>6, ReadingAfter
  <2>8. CASE p = Fail
    BY <2>5, <2>8 DEF Opened, Reading, Fail
  <2>9. CASE p # Fail
    <3>1. PICK v \in Payloads, m \in Nat : m < Len(data) /\ p = Read(v, Suffix(data, m))
      BY <2>7, <2>9 DEF Reading
    <3>2. p.ok = TRUE /\ p.value = v /\ p.rest = Suffix(data, m)
      BY <3>1 DEF Read
    <3>3. OneField(data) = Read(FieldOf(k, w, v), Suffix(data, m))
      BY <2>5, <3>2 DEF Opened, k, w
    <3>4. FieldOf(k, w, v) \in FieldValues
      BY <2>4 DEF FieldValues
    <3>5. QED
      BY <3>1, <3>3, <3>4 DEF Reading
  <2>10. QED
    BY <2>8, <2>9
<1>3. QED
  BY <1>1, <1>2

-----------------------------------------------------------------------------
\* A message decoded without a failure.
Whole(fields) == [ok |-> TRUE, fields |-> fields]
\* What the loop of an Unmarshal function can make of a message.
Decoded == {Fail} \cup {Whole(fs) : fs \in Seq(FieldValues)}
\* One field in front of the others.
Add(field, more) == IF more.ok THEN Whole(<<field>> \o more.fields) ELSE Fail

\* One field more is still a message.
LEMMA AddType ==
    ASSUME NEW f \in FieldValues, NEW d \in Decoded
    PROVE  Add(f, d) \in Decoded
<1>1. CASE d = Fail
  BY <1>1 DEF Add, Fail, Decoded
<1>2. CASE d # Fail
  <2>1. PICK fs \in Seq(FieldValues) : d = Whole(fs)
    BY <1>2 DEF Decoded
  <2>2. d.ok = TRUE /\ d.fields = fs
    BY <2>1 DEF Whole
  <2>3. <<f>> \o fs \in Seq(FieldValues)
    OBVIOUS
  <2>4. Add(f, d) = Whole(<<f>> \o fs)
    BY <2>2 DEF Add
  <2>5. QED
    BY <2>3, <2>4 DEF Decoded
<1>3. QED
  BY <1>1, <1>2

\* What comes first in the last n bytes.
FieldHead(data, n) == OneField(Suffix(data, n))

\* A round leaves fewer bytes than it found.
LEMMA HeadReading ==
    ASSUME NEW data \in Bytes, NEW n \in Nat, n <= Len(data), n # 0
    PROVE  \/ FieldHead(data, n) = Fail
           \/ \E v \in FieldValues, m \in Nat : m < n /\ FieldHead(data, n) = Read(v, Suffix(data, m))
<1> SUFFICES ASSUME FieldHead(data, n) # Fail
             PROVE  \E v \in FieldValues, m \in Nat : m < n /\ FieldHead(data, n) = Read(v, Suffix(data, m))
  OBVIOUS
<1> DEFINE s == Suffix(data, n)
<1>1. s \in Bytes /\ Len(s) = n
  BY SuffixType
<1>2. Reading(OneField(s), s, FieldValues)
  BY <1>1, OneFieldReading
<1>3. PICK v \in FieldValues, m \in Nat : m < Len(s) /\ OneField(s) = Read(v, Suffix(s, m))
  <2> HIDE DEF s
  <2>1. OneField(s) # Fail
    BY DEF FieldHead, s
  <2>2. QED
    BY <1>2, <2>1 DEF Reading
<1>4. m < n /\ m <= n
  BY <1>1, <1>3
<1>5. Suffix(s, m) = Suffix(data, m)
  BY <1>4, SuffixSuffix
<1>6. QED
  BY <1>3, <1>4, <1>5 DEF FieldHead

\* One round of the loop.
FieldAt(data, f, n) ==
    IF n = 0 THEN Whole(<<>>)
    ELSE IF FieldHead(data, n).ok THEN Add(FieldHead(data, n).value, f[Len(FieldHead(data, n).rest)]) ELSE Fail

\* f is the run of the loop over data.
Loops(data, f) ==
    /\ f \in [0..Len(data) -> Decoded]
    /\ \A n \in 0..Len(data) : f[n] = FieldAt(data, f, n)

\* The same, for the field that was read and the bytes after it.
LEMMA HeadFields ==
    ASSUME NEW data \in Bytes, NEW n \in Nat, n <= Len(data), n # 0, FieldHead(data, n).ok
    PROVE  /\ FieldHead(data, n).value \in FieldValues
           /\ Len(FieldHead(data, n).rest) \in Nat /\ Len(FieldHead(data, n).rest) < n
           /\ FieldHead(data, n).rest = Suffix(data, Len(FieldHead(data, n).rest))
<1>1. FieldHead(data, n) # Fail
  BY DEF Fail
<1>2. PICK v \in FieldValues, m \in Nat : m < n /\ FieldHead(data, n) = Read(v, Suffix(data, m))
  BY <1>1, HeadReading
<1>3. FieldHead(data, n).value = v /\ FieldHead(data, n).rest = Suffix(data, m)
  BY <1>2 DEF Read
<1>4. Len(Suffix(data, m)) = m
  <2>1. m <= Len(data)
    BY <1>2 DEF Bytes
  <2>2. QED
    BY <2>1, SuffixType
<1>5. QED
  BY <1>2, <1>3, <1>4

\* Fields has the run of the loop that its definition asks for.
LEMMA FieldsLoops ==
    ASSUME NEW data \in Bytes
    PROVE  \E f : Loops(data, f) /\ Fields(data) = f[Len(data)]
<1> DEFINE L == Len(data)
           goes(n) == n \in 1..L /\ FieldHead(data, n).ok
           to(n) == Len(FieldHead(data, n).rest)
           val(n) == FieldHead(data, n).value
           J == [n \in Nat |-> IF goes(n) THEN to(n) ELSE n]
           b == [n \in Nat |-> IF n = 0 THEN Whole(<<>>) ELSE Fail]
           g == [n \in Nat |-> [d \in Decoded |-> IF goes(n) THEN Add(val(n), d) ELSE Fail]]
           F == CHOOSE f : f = [n \in 0..L |-> FieldAt(data, f, n)]
<1>1. L \in Nat
  BY DEF Bytes
<1>2. \A n \in Nat : goes(n) => to(n) \in Nat /\ to(n) < n /\ to(n) \in 0..L /\ val(n) \in FieldValues /\ n # 0
  <2> SUFFICES ASSUME NEW n \in Nat, goes(n)
               PROVE  to(n) \in Nat /\ to(n) < n /\ to(n) \in 0..L /\ val(n) \in FieldValues /\ n # 0
    OBVIOUS
  <2>1. n <= L /\ n # 0 /\ FieldHead(data, n).ok
    BY <1>1
  <2>2. to(n) \in Nat /\ to(n) < n /\ val(n) \in FieldValues
    BY <2>1, HeadFields
  <2>3. QED
    BY <1>1, <2>1, <2>2
<1>3. \A f : \A n \in 0..L : FieldAt(data, f, n) =
         IF n = 0 THEN Whole(<<>>) ELSE IF goes(n) THEN Add(val(n), f[to(n)]) ELSE Fail
  BY <1>1 DEF FieldAt
<1>4. Fields(data) = F[L]
  BY DEF Fields, FieldAt, FieldHead, Suffix, Whole, Add
<1> HIDE DEF goes, to, val, L, F
<1>5. \E f : f \in [0..L -> Decoded] /\ f = [n \in 0..L |-> FieldAt(data, f, n)]
  <2>1. Fail \in Decoded /\ Whole(<<>>) \in Decoded
    <3>1. <<>> \in Seq(FieldValues)
      OBVIOUS
    <3>2. QED
      BY <3>1 DEF Decoded
  <2>2. J \in [Nat -> Nat]
    BY <1>2
  <2>3. b \in [Nat -> Decoded]
    BY <2>1
  <2>4. g \in [Nat -> [Decoded -> Decoded]]
    BY <1>2, <2>1, AddType
  <2>5. PICK h \in [Nat -> Decoded] :
           \A n \in Nat : h[n] = IF J[n] < n THEN g[n][h[J[n]]] ELSE b[n]
    <3> HIDE DEF J, b, g
    <3>1. Recursive(Decoded, J, b, g)
      BY <2>2, <2>3, <2>4, Recursion
    <3>2. QED
      BY <3>1 DEF Recursive
  <2> DEFINE f == [n \in 0..L |-> h[n]]
  <2>6. ASSUME NEW n \in 0..L
        PROVE  f[n] = FieldAt(data, f, n)
    <3>1. n \in Nat /\ f[n] = h[n]
      BY <1>1
    <3>2. CASE goes(n)
      <4>1. J[n] = to(n) /\ J[n] < n /\ to(n) \in Nat /\ f[to(n)] = h[to(n)] /\ n # 0
        BY <1>2, <3>1, <3>2
      <4>2. h[n] = g[n][h[to(n)]] /\ h[to(n)] \in Decoded
        BY <2>5, <3>1, <4>1
      <4>3. g[n][h[to(n)]] = Add(val(n), h[to(n)])
        BY <3>1, <3>2, <4>2
      <4> HIDE DEF f, g, J
      <4>4. QED
        BY <1>3, <3>1, <3>2, <4>1, <4>2, <4>3
    <3>3. CASE ~goes(n)
      <4>1. ~(J[n] < n)
        BY <3>1, <3>3
      <4>2. h[n] = b[n]
        BY <2>5, <3>1, <4>1
      <4>3. QED
        BY <1>3, <3>1, <3>3, <4>2
    <3>4. QED
      BY <3>2, <3>3
  <2>7. f \in [0..L -> Decoded] /\ f = [n \in 0..L |-> FieldAt(data, f, n)]
    BY <1>1, <2>6
  <2> HIDE DEF f
  <2>8. QED
    BY <2>7
<1>6. F = [n \in 0..L |-> FieldAt(data, F, n)]
  BY <1>5 DEF F
<1>7. \A n \in 0..L : F[n] = FieldAt(data, F, n)
  BY <1>6
<1> DEFINE T == {n \in Nat : n <= L => F[n] \in Decoded}
<1>8. ASSUME NEW n \in Nat, \A m \in Nat : m < n => m \in T
      PROVE  n \in T
  <2> SUFFICES ASSUME n <= L PROVE F[n] \in Decoded
    OBVIOUS
  <2>0. n \in 0..L
    BY <1>1
  <2>1. CASE goes(n)
    <3>1. F[n] = Add(val(n), F[to(n)])
      BY <1>2, <1>3, <1>7, <2>0, <2>1
    <3>2. F[to(n)] \in Decoded
      BY <1>1, <1>2, <1>8, <2>1
    <3>3. QED
      BY <1>2, <2>1, <3>1, <3>2, AddType
  <2>2. CASE ~goes(n)
    <3>1. F[n] = Whole(<<>>) \/ F[n] = Fail
      BY <1>3, <1>7, <2>0, <2>2
    <3>2. <<>> \in Seq(FieldValues)
      OBVIOUS
    <3>3. QED
      BY <3>1, <3>2 DEF Decoded
  <2>3. QED
    BY <2>1, <2>2
<1>9. \A n \in Nat : n \in T
  <2> HIDE DEF T
  <2>1. QED
    BY <1>8, Everything
<1>10. F \in [0..L -> Decoded]
  BY <1>1, <1>6, <1>9
<1>11. QED
  BY <1>4, <1>7, <1>10 DEF Loops, L

\* The run over the last m bytes is a part of the run over all of them.
LEMMA LoopsAgree ==
    ASSUME NEW data \in Bytes, NEW m \in Nat, m <= Len(data),
           NEW f, Loops(data, f), NEW h, Loops(Suffix(data, m), h)
    PROVE  f[m] = h[m]
<1> DEFINE s == Suffix(data, m)
           T == {n \in Nat : n <= m => f[n] = h[n]}
<1>1. Len(data) \in Nat /\ s \in Bytes /\ Len(s) = m
  BY SuffixType DEF Bytes
<1>2. ASSUME NEW n \in Nat, n <= m
      PROVE  FieldHead(s, n) = FieldHead(data, n)
  <2>1. Suffix(s, n) = Suffix(data, n)
    BY <1>2, SuffixSuffix
  <2>2. QED
    BY <2>1 DEF FieldHead
<1>3. \A n \in Nat : n <= m => f[n] = FieldAt(data, f, n) /\ h[n] = FieldAt(s, h, n)
  BY <1>1 DEF Loops
<1> HIDE DEF s
<1>4. ASSUME NEW n \in Nat, \A k \in Nat : k < n => k \in T
      PROVE  n \in T
  <2> SUFFICES ASSUME n <= m PROVE f[n] = h[n]
    OBVIOUS
  <2>1. FieldHead(s, n) = FieldHead(data, n) /\ f[n] = FieldAt(data, f, n) /\ h[n] = FieldAt(s, h, n)
    BY <1>2, <1>3
  <2>2. CASE n = 0
    BY <2>1, <2>2 DEF FieldAt
  <2>3. CASE n # 0 /\ ~FieldHead(data, n).ok
    BY <2>1, <2>3 DEF FieldAt
  <2>4. CASE n # 0 /\ FieldHead(data, n).ok
    <3> DEFINE to == Len(FieldHead(data, n).rest)
    <3>1. n <= Len(data)
      BY <1>1
    <3>2. to \in Nat /\ to < n
      BY <2>4, <3>1, HeadFields
    <3>3. f[to] = h[to]
      BY <1>4, <3>2
    <3>4. QED
      BY <2>1, <2>4, <3>3 DEF FieldAt
  <2>5. QED
    BY <2>2, <2>3, <2>4
<1>5. \A n \in Nat : n \in T
  <2> HIDE DEF T
  <2>1. QED
    BY <1>4, Everything
<1>6. QED
  BY <1>5

\* The fields of a message are the first one and those of the rest.
LEMMA FieldsUnfold ==
    ASSUME NEW data \in Bytes
    PROVE  /\ Fields(data) \in Decoded
           /\ data = <<>> => Fields(data) = Whole(<<>>)
           /\ \A f, rest : data # <<>> /\ rest \in Bytes /\ OneField(data) = Read(f, rest) =>
                             Fields(data) = Add(f, Fields(rest))
<1> DEFINE L == Len(data)
<1>1. L \in Nat /\ L \in 0..L
  BY DEF Bytes
<1>2. PICK F : Loops(data, F) /\ Fields(data) = F[L]
  BY FieldsLoops
<1>3. F[L] = FieldAt(data, F, L) /\ F[L] \in Decoded
  BY <1>1, <1>2 DEF Loops
<1>4. data = <<>> => Fields(data) = Whole(<<>>)
  <2>1. data = <<>> => L = 0
    OBVIOUS
  <2>2. QED
    BY <1>2, <1>3, <2>1 DEF FieldAt
<1>5. ASSUME NEW f, NEW rest \in Bytes, data # <<>>, OneField(data) = Read(f, rest)
      PROVE  Fields(data) = Add(f, Fields(rest))
  <2>1. FieldHead(data, L) = Read(f, rest)
    BY <1>5, WholeSuffix DEF FieldHead
  <2>2. FieldHead(data, L).ok = TRUE /\ FieldHead(data, L).value = f /\ FieldHead(data, L).rest = rest
    BY <2>1 DEF Read
  <2>3. L # 0
    BY <1>5, EmptySeq DEF Bytes
  <2> DEFINE m == Len(rest)
  <2>4. m \in Nat /\ m < L /\ rest = Suffix(data, m)
    BY <1>1, <2>2, <2>3, HeadFields
  <2>5. Fields(data) = Add(f, F[m])
    BY <1>2, <1>3, <2>2, <2>3 DEF FieldAt
  <2>6. PICK h : Loops(rest, h) /\ Fields(rest) = h[m]
    BY <1>5, FieldsLoops
  <2>7. F[m] = h[m]
    <3>1. m <= Len(data) /\ Loops(Suffix(data, m), h)
      BY <1>1, <2>4, <2>6
    <3> HIDE DEF m
    <3>2. QED
      BY <1>2, <2>4, <3>1, LoopsAgree
  <2>8. QED
    BY <2>5, <2>6, <2>7
<1>6. QED
  BY <1>2, <1>3, <1>4, <1>5

-----------------------------------------------------------------------------
\* A key's number and wire type can be told apart again.
Numbered(field, wire) == field \in Nat /\ wire \in 0..7 /\ 8 * field + wire < Uint

\* Ten digits are enough for every key that the code uses.
LEMMA SmallNumbers == Uint >= 1024
<1>1. \A k \in 1..Digits : place[k] >= 2 * place[k - 1] /\ place[k] \in Nat
  <2> TAKE k \in 1..Digits
  <2>1. k \in 0..Digits /\ k - 1 \in 0..Digits
    BY DEF Digits
  <2>2. place[k] \in Nat /\ place[k - 1] \in Nat /\ place[k] = Base * place[k - 1]
    BY <2>1, Places
  <2>3. \A a \in Nat : Base * a >= 2 * a
    <3>1. Base \in Nat /\ Base >= 2
      BY StatsCodecAssumption
    <3>2. \A a, c \in Nat : c >= 2 => c * a >= 2 * a
      <4> TAKE a, c \in Nat
      <4> HAVE c >= 2
      <4>1. c - 2 \in Nat /\ (c - 2) * a \in Nat /\ c * a = (c - 2) * a + 2 * a
        OBVIOUS
      <4>2. QED
        BY <4>1
    <3>3. QED
      BY <3>1, <3>2
  <2>4. QED
    BY <2>2, <2>3
<1>2. place[0] = 1
  BY Places
<1>3. place[1] >= 2 /\ place[2] >= 4 /\ place[3] >= 8
  BY <1>1, <1>2 DEF Digits
<1>4. place[4] >= 16 /\ place[5] >= 32 /\ place[6] >= 64
  BY <1>1, <1>3 DEF Digits
<1>5. place[7] >= 128 /\ place[8] >= 256 /\ place[9] >= 512
  BY <1>1, <1>4 DEF Digits
<1>6. QED
  BY <1>1, <1>5 DEF Uint, Digits

\* A tag is bytes.
LEMMA TagType ==
    ASSUME NEW field, NEW wire, Numbered(field, wire)
    PROVE  appendTag(field, wire) \in Bytes
<1>1. 8 * field + wire \in Nat
  BY DEF Numbered
<1>2. QED
  BY <1>1, AppendVarint DEF appendTag

\* A tag is read as its field number and its wire type.
LEMMA TagRead ==
    ASSUME NEW field, NEW wire, Numbered(field, wire), NEW data \in Bytes,
           NEW v, NEW rest, payload(wire, data) = Read(v, rest)
    PROVE  OneField(appendTag(field, wire) \o data) = Read(FieldOf(field, wire, v), rest)
<1> DEFINE key == 8 * field + wire
           p == payload(wire, data)
<1>1. key \in Nat /\ key < Uint /\ key \div 8 = field /\ key % 8 = wire
  BY DEF Numbered
<1>2. appendTag(field, wire) = appendVarint(key)
  BY DEF appendTag
<1> HIDE DEF key, p
<1>3. varint(appendVarint(key) \o data) = Read(key, data)
  BY <1>1, VarintRoundTrip
<1>4. OneField(appendVarint(key) \o data) = Opened(key, p)
  <2>1. OneField(appendVarint(key) \o data) = Opened(key, payload(key % 8, data))
    BY <1>3, OneFieldOf
  <2>2. QED
    BY <1>1, <2>1 DEF p
<1>5. p.ok = TRUE /\ p.value = v /\ p.rest = rest
  BY DEF p, Read
<1>6. QED
  BY <1>1, <1>2, <1>4, <1>5 DEF Opened

\* bytes reads back what appendElement wrote after the tag.
LEMMA BytesRoundTrip ==
    ASSUME NEW text \in Bytes, Len(text) < Uint, NEW rest \in Bytes
    PROVE  bytes(appendVarint(Len(text)) \o (text \o rest)) = Read(text, rest)
<1> DEFINE n == Len(text)
           s == text \o rest
           r == Read(n, s)
<1>1. n \in Nat /\ s \in Bytes
  BY DEF Bytes
<1>2. SubSeq(s, n + 1, Len(s)) = rest /\ SubSeq(s, 1, n) = text /\ Len(s) = n + Len(rest)
  BY AfterPart DEF Bytes
<1>3. Len(rest) \in Nat
  BY DEF Bytes
<1> HIDE DEF s, n
<1>4. varint(appendVarint(n) \o s) = r
  <2>1. n < Uint
    BY DEF n
  <2>2. QED
    BY <1>1, <2>1, VarintRoundTrip
<1>5. r.ok = TRUE /\ r.value = n /\ r.rest = s
  BY DEF Read
<1> HIDE DEF r
<1>6. ~(n > Len(s))
  BY <1>1, <1>2, <1>3
<1>7. Take(r) = Read(text, rest)
  BY <1>2, <1>5, <1>6 DEF Take
<1>8. QED
  BY <1>4, <1>7 DEF bytes, s, n
-----------------------------------------------------------------------------
\* Some fields in front of the others.
Prefixed(fs, d) == IF d.ok THEN Whole(fs \o d.fields) ELSE Fail

\* The bytes x are those of the fields fs, whatever comes after them.
Carries(x, fs) ==
    /\ x \in Bytes /\ fs \in Seq(FieldValues)
    /\ \A rest \in Bytes : Fields(x \o rest) = Prefixed(fs, Fields(rest))

\* The order in which byte strings are put together does not matter.
Associates(a, b, c) == (a \o b) \o c = a \o (b \o c)

\* Concatenation is associative.
LEMMA ConcatBytes ==
    ASSUME NEW a \in Bytes, NEW b \in Bytes, NEW c \in Bytes
    PROVE  Associates(a, b, c)
<1>1. a \in Seq(Nat) /\ b \in Seq(Nat) /\ c \in Seq(Nat)
  BY DEF Bytes
<1>2. (a \o b) \o c = a \o (b \o c)
  BY <1>1, ConcatAssociative
<1>3. QED
  BY <1>2 DEF Associates

\* No fields in front change nothing.
LEMMA PrefixedNone ==
    ASSUME NEW d \in Decoded
    PROVE  Prefixed(<<>>, d) = d
<1>1. CASE d = Fail
  BY <1>1 DEF Prefixed, Fail
<1>2. CASE d # Fail
  <2>1. PICK fs \in Seq(FieldValues) : d = Whole(fs)
    BY <1>2 DEF Decoded
  <2>2. d.ok = TRUE /\ d.fields = fs
    BY <2>1 DEF Whole
  <2>3. <<>> \o fs = fs
    OBVIOUS
  <2>4. QED
    BY <2>1, <2>2, <2>3 DEF Prefixed
<1>3. QED
  BY <1>1, <1>2

\* Two lists in front are one list in front.
LEMMA PrefixedBoth ==
    ASSUME NEW fs \in Seq(FieldValues), NEW gs \in Seq(FieldValues), NEW d \in Decoded
    PROVE  Prefixed(fs, Prefixed(gs, d)) = Prefixed(fs \o gs, d)
<1>1. CASE d = Fail
  BY <1>1 DEF Prefixed, Fail
<1>2. CASE d # Fail
  <2>1. PICK hs \in Seq(FieldValues) : d = Whole(hs)
    BY <1>2 DEF Decoded
  <2>2. d.ok = TRUE /\ d.fields = hs
    BY <2>1 DEF Whole
  <2>3. Prefixed(gs, d) = Whole(gs \o hs) /\ Prefixed(fs \o gs, d) = Whole((fs \o gs) \o hs)
    BY <2>2 DEF Prefixed
  <2>4. Whole(gs \o hs).ok = TRUE /\ Whole(gs \o hs).fields = gs \o hs
    BY DEF Whole
  <2>5. Prefixed(fs, Whole(gs \o hs)) = Whole(fs \o (gs \o hs))
    BY <2>4 DEF Prefixed
  <2>6. (fs \o gs) \o hs = fs \o (gs \o hs)
    BY ConcatAssociative
  <2>7. QED
    BY <2>3, <2>5, <2>6
<1>3. QED
  BY <1>1, <1>2

\* No bytes carry no fields.
LEMMA CarriesNone == Carries(<<>>, <<>>)
<1>1. <<>> \in Bytes /\ <<>> \in Seq(FieldValues)
  BY DEF Bytes
<1>2. ASSUME NEW rest \in Bytes
      PROVE  Fields(<<>> \o rest) = Prefixed(<<>>, Fields(rest))
  <2>1. <<>> \o rest = rest
    BY DEF Bytes
  <2>2. Fields(rest) \in Decoded
    BY FieldsUnfold
  <2>3. QED
    BY <2>1, <2>2, PrefixedNone
<1>3. QED
  BY <1>1, <1>2 DEF Carries

\* Bytes that a round reads as one field carry it.
LEMMA CarriesOne ==
    ASSUME NEW x \in Bytes, x # <<>>, NEW f \in FieldValues,
           \A rest \in Bytes : OneField(x \o rest) = Read(f, rest)
    PROVE  Carries(x, <<f>>)
<1>1. <<f>> \in Seq(FieldValues)
  OBVIOUS
<1>2. ASSUME NEW rest \in Bytes
      PROVE  Fields(x \o rest) = Prefixed(<<f>>, Fields(rest))
  <2> DEFINE d == x \o rest
  <2>1. d \in Bytes /\ d # <<>>
    <3>1. Len(x) \in Nat /\ Len(x) # 0 /\ Len(rest) \in Nat /\ d \in Bytes /\ Len(d) = Len(x) + Len(rest)
      BY EmptySeq DEF Bytes
    <3> HIDE DEF d
    <3>2. Len(d) # 0
      BY <3>1
    <3>3. QED
      BY <3>1, <3>2, EmptySeq
  <2>2. OneField(d) = Read(f, rest)
    OBVIOUS
  <2> HIDE DEF d
  <2>3. Fields(d) = Add(f, Fields(rest))
    BY <2>1, <2>2, FieldsUnfold
  <2>4. Add(f, Fields(rest)) = Prefixed(<<f>>, Fields(rest))
    BY DEF Add, Prefixed
  <2>5. QED
    BY <2>3, <2>4 DEF d
<1>3. QED
  BY <1>1, <1>2 DEF Carries

\* Bytes one after another carry their fields one after another.
LEMMA CarriesBoth ==
    ASSUME NEW x, NEW fs, Carries(x, fs), NEW y, NEW gs, Carries(y, gs)
    PROVE  Carries(x \o y, fs \o gs)
<1>1. /\ x \in Bytes /\ y \in Bytes /\ x \o y \in Bytes
      /\ fs \in Seq(FieldValues) /\ gs \in Seq(FieldValues) /\ fs \o gs \in Seq(FieldValues)
  <2>1. x \in Bytes /\ y \in Bytes /\ fs \in Seq(FieldValues) /\ gs \in Seq(FieldValues)
    BY DEF Carries
  <2>2. x \o y \in Bytes
    BY <2>1 DEF Bytes
  <2>3. fs \o gs \in Seq(FieldValues)
    BY <2>1
  <2>4. QED
    BY <2>1, <2>2, <2>3
<1>2. ASSUME NEW rest \in Bytes
      PROVE  Fields((x \o y) \o rest) = Prefixed(fs \o gs, Fields(rest))
  <2>1. (x \o y) \o rest = x \o (y \o rest)
    <3>1. Associates(x, y, rest)
      BY <1>1, ConcatBytes
    <3>2. QED
      BY <3>1 DEF Associates
  <2>2. y \o rest \in Bytes
    BY <1>1 DEF Bytes
  <2>3. Fields(x \o (y \o rest)) = Prefixed(fs, Fields(y \o rest))
    BY <2>2 DEF Carries
  <2>4. Fields(y \o rest) = Prefixed(gs, Fields(rest))
    BY DEF Carries
  <2>5. Fields(rest) \in Decoded
    BY FieldsUnfold
  <2>6. QED
    BY <1>1, <2>1, <2>3, <2>4, <2>5, PrefixedBoth
<1>3. QED
  BY <1>1, <1>2 DEF Carries

\* Bytes that carry fields are decoded to them.
LEMMA CarriesFields ==
    ASSUME NEW x, NEW fs, Carries(x, fs)
    PROVE  Fields(x) = Whole(fs)
<1>1. x \in Bytes /\ fs \in Seq(FieldValues) /\ <<>> \in Bytes
  BY DEF Carries, Bytes
<1>2. x \o <<>> = x /\ fs \o <<>> = fs
  BY <1>1 DEF Bytes
<1>3. Fields(<<>>) = Whole(<<>>)
  BY <1>1, FieldsUnfold
<1>4. Fields(x \o <<>>) = Prefixed(fs, Fields(<<>>))
  BY <1>1 DEF Carries
<1>5. Whole(<<>>).ok = TRUE /\ Whole(<<>>).fields = <<>>
  BY DEF Whole
<1>6. QED
  BY <1>2, <1>3, <1>4, <1>5 DEF Prefixed

-----------------------------------------------------------------------------
\* A tag is at least one byte.
LEMMA TagFirst ==
    ASSUME NEW field, NEW wire, Numbered(field, wire), NEW s \in Bytes
    PROVE  appendTag(field, wire) \o s \in Bytes /\ appendTag(field, wire) \o s # <<>>
<1> DEFINE t == appendTag(field, wire)
           key == 8 * field + wire
           d == t \o s
<1>1. key \in Nat /\ t = appendVarint(key)
  BY DEF Numbered, appendTag
<1>2. t \in Bytes
  BY TagType
<1> HIDE DEF key, t
<1>3. Len(t) # 0
  <2>1. CASE key < Base
    <3>1. t = <<key>>
      BY <1>1, <2>1, AppendVarint
    <3>2. QED
      BY <3>1
  <2>2. CASE key >= Base
    <3> DEFINE q == key \div Base
               b == Base + (key % Base)
    <3>1. q \in Nat /\ b \in Nat
      BY <1>1, Division, StatsCodecAssumption
    <3>2. t = <<b>> \o appendVarint(q) /\ appendVarint(q) \in Bytes
      BY <1>1, <2>2, <3>1, AppendVarint
    <3> HIDE DEF q, b
    <3>3. QED
      BY <3>1, <3>2 DEF Bytes
  <2>3. QED
    BY <1>1, <2>1, <2>2, StatsCodecAssumption
<1>4. d \in Bytes /\ Len(d) = Len(t) + Len(s) /\ Len(t) \in Nat /\ Len(s) \in Nat
  BY <1>2 DEF Bytes
<1> HIDE DEF d
<1>5. Len(d) # 0
  BY <1>3, <1>4
<1>6. QED
  BY <1>4, <1>5, EmptySeq DEF d, t

\* A tag and a payload are a field.
LEMMA TagCarries ==
    ASSUME NEW field, NEW wire, Numbered(field, wire), NEW s \in Bytes, NEW v \in Payloads,
           \A rest \in Bytes : payload(wire, s \o rest) = Read(v, rest)
    PROVE  Carries(appendTag(field, wire) \o s, <<FieldOf(field, wire, v)>>)
<1> DEFINE t == appendTag(field, wire)
           f == FieldOf(field, wire, v)
<1>1. t \in Bytes /\ t \o s \in Bytes /\ t \o s # <<>>
  BY TagType, TagFirst
<1>2. f \in FieldValues
  <2>1. field \in Nat /\ wire \in Nat
    BY DEF Numbered
  <2>2. QED
    BY <2>1 DEF FieldValues
<1>3. ASSUME NEW rest \in Bytes
      PROVE  OneField((t \o s) \o rest) = Read(f, rest)
  <2>1. (t \o s) \o rest = t \o (s \o rest)
    <3>1. Associates(t, s, rest)
      BY <1>1, ConcatBytes
    <3>2. QED
      BY <3>1 DEF Associates
  <2>2. s \o rest \in Bytes /\ payload(wire, s \o rest) = Read(v, rest)
    BY DEF Bytes
  <2>3. OneField(t \o (s \o rest)) = Read(f, rest)
    BY <2>2, TagRead
  <2>4. QED
    BY <2>1, <2>3
<1> HIDE DEF t, f
<1>4. Carries(t \o s, <<f>>)
  BY <1>1, <1>2, <1>3, CarriesOne
<1>5. QED
  BY <1>4 DEF t, f

\* appendElement writes a field with bytes.
LEMMA ElementCarries ==
    ASSUME NEW field, Numbered(field, wireBytes), NEW text \in Bytes, Len(text) < Uint
    PROVE  Carries(appendElement(field, text), <<FieldOf(field, wireBytes, text)>>)
<1> DEFINE t == appendTag(field, wireBytes)
           a == appendVarint(Len(text))
           s == a \o text
<1>1. t \in Bytes /\ a \in Bytes /\ s \in Bytes
  <2>1. Len(text) \in Nat
    BY DEF Bytes
  <2>2. a \in Bytes
    BY <2>1, AppendVarint
  <2>3. QED
    BY <2>2, TagType DEF Bytes
<1>2. appendElement(field, text) = t \o s
  <2>1. Associates(t, a, text)
    BY <1>1, ConcatBytes
  <2>2. QED
    BY <2>1 DEF appendElement, Associates
<1>3. ASSUME NEW rest \in Bytes
      PROVE  payload(wireBytes, s \o rest) = Read(text, rest)
  <2>1. s \o rest = a \o (text \o rest)
    <3>1. Associates(a, text, rest)
      BY <1>1, ConcatBytes
    <3>2. QED
      BY <3>1 DEF Associates
  <2>2. bytes(a \o (text \o rest)) = Read(text, rest)
    BY BytesRoundTrip
  <2>3. payload(wireBytes, s \o rest) = bytes(s \o rest)
    BY DEF payload, wireVarint, wireBytes, wireFixed64, wireFixed32
  <2>4. QED
    BY <2>1, <2>2, <2>3
<1>4. text \in Payloads
  BY DEF Payloads
<1> HIDE DEF s, t
<1>5. Carries(appendTag(field, wireBytes) \o s, <<FieldOf(field, wireBytes, text)>>)
  BY <1>1, <1>3, <1>4, TagCarries
<1>6. QED
  BY <1>2, <1>5 DEF t

\* A tag and a varint are a field with a number.
LEMMA NumberCarries ==
    ASSUME NEW field, Numbered(field, wireVarint), NEW v \in Nat, v < Uint
    PROVE  Carries(appendTag(field, wireVarint) \o appendVarint(v), <<FieldOf(field, wireVarint, v)>>)
<1> DEFINE s == appendVarint(v)
<1>1. s \in Bytes /\ v \in Payloads
  BY AppendVarint DEF Payloads
<1>2. ASSUME NEW rest \in Bytes
      PROVE  payload(wireVarint, s \o rest) = Read(v, rest)
  <2>1. varint(s \o rest) = Read(v, rest)
    BY VarintRoundTrip
  <2>2. payload(wireVarint, s \o rest) = varint(s \o rest)
    BY DEF payload, wireVarint, wireBytes, wireFixed64, wireFixed32
  <2>3. QED
    BY <2>1, <2>2
<1> HIDE DEF s
<1>3. Carries(appendTag(field, wireVarint) \o s, <<FieldOf(field, wireVarint, v)>>)
  BY <1>1, <1>2, TagCarries
<1>4. QED
  BY <1>3 DEF s

\* Eight or four bytes are passed over.
LEMMA FixedCarries ==
    ASSUME NEW field, NEW wire, Numbered(field, wire), NEW s \in Bytes,
           \/ wire = wireFixed64 /\ Len(s) = 8
           \/ wire = wireFixed32 /\ Len(s) = 4
    PROVE  Carries(appendTag(field, wire) \o s, <<FieldOf(field, wire, <<>>)>>)
<1>1. <<>> \in Payloads
  BY DEF Payloads, Bytes
<1>2. ASSUME NEW rest \in Bytes
      PROVE  payload(wire, s \o rest) = Read(<<>>, rest)
  <2> DEFINE d == s \o rest
  <2>1. SubSeq(d, Len(s) + 1, Len(d)) = rest /\ Len(d) = Len(s) + Len(rest) /\ Len(rest) \in Nat
    BY AfterPart DEF Bytes
  <2> HIDE DEF d
  <2>2. CASE wire = wireFixed64 /\ Len(s) = 8
    <3>1. Len(d) >= 8 /\ SubSeq(d, 9, Len(d)) = rest
      BY <2>1, <2>2
    <3>2. payload(wire, d) = Read(<<>>, SubSeq(d, 9, Len(d)))
      BY <2>2, <3>1 DEF payload, wireVarint, wireBytes, wireFixed64, wireFixed32
    <3>3. QED
      BY <3>1, <3>2 DEF d
  <2>3. CASE wire = wireFixed32 /\ Len(s) = 4
    <3>1. Len(d) >= 4 /\ SubSeq(d, 5, Len(d)) = rest
      BY <2>1, <2>3
    <3>2. payload(wire, d) = Read(<<>>, SubSeq(d, 5, Len(d)))
      BY <2>3, <3>1 DEF payload, wireVarint, wireBytes, wireFixed64, wireFixed32
    <3>3. QED
      BY <3>1, <3>2 DEF d
  <2>4. QED
    BY <2>2, <2>3
<1>3. QED
  BY <1>1, <1>2, TagCarries
-----------------------------------------------------------------------------
\* FlattenSeq adds list after list.
LEMMA FlattenSteps ==
    ASSUME NEW xs \in Seq(Bytes), Len(xs) # 0
    PROVE  \E f : /\ FlattenSeq(xs) = f[Len(xs)] /\ f[1] = xs[1]
                  /\ \A i \in 2..Len(xs) : f[i] = f[i - 1] \o xs[i]
<1> DEFINE L == Len(xs)
           Step(f, i) == IF i = 1 THEN xs[i] ELSE f[i - 1] \o xs[i]
           J == [n \in Nat |-> IF n \in 2..L THEN n - 1 ELSE n]
           b == [n \in Nat |-> IF n \in 1..L THEN xs[n] ELSE <<>>]
           g == [n \in Nat |-> [s \in Bytes |-> IF n \in 1..L THEN s \o xs[n] ELSE s]]
           F == CHOOSE f : f = [i \in 1..L |-> Step(f, i)]
<1>1. L \in Nat /\ L >= 1 /\ \A i \in 1..L : xs[i] \in Bytes
  OBVIOUS
<1>2. FlattenSeq(xs) = F[L]
  BY DEF FlattenSeq
<1> HIDE DEF L
<1>3. \E f : f = [i \in 1..L |-> Step(f, i)]
  <2>1. J \in [Nat -> Nat] /\ \A n \in Nat : (n \in 2..L => J[n] = n - 1 /\ J[n] < n) /\ (n \notin 2..L => ~(J[n] < n))
    BY <1>1
  <2>2. b \in [Nat -> Bytes]
    <3>1. <<>> \in Bytes
      BY DEF Bytes
    <3>2. QED
      BY <1>1, <3>1
  <2>3. g \in [Nat -> [Bytes -> Bytes]]
    BY <1>1 DEF Bytes
  <2>4. PICK h \in [Nat -> Bytes] :
           \A n \in Nat : h[n] = IF J[n] < n THEN g[n][h[J[n]]] ELSE b[n]
    <3> HIDE DEF J, b, g
    <3>1. Recursive(Bytes, J, b, g)
      BY <2>1, <2>2, <2>3, Recursion
    <3>2. QED
      BY <3>1 DEF Recursive
  <2> DEFINE f == [i \in 1..L |-> h[i]]
  <2>5. ASSUME NEW i \in 1..L
        PROVE  f[i] = Step(f, i)
    <3>1. CASE i = 1
      <4>1. i \in Nat /\ i \notin 2..L /\ f[i] = h[i]
        BY <3>1
      <4>2. h[i] = b[i]
        BY <2>1, <2>4, <4>1
      <4>3. QED
        BY <3>1, <4>1, <4>2
    <3>2. CASE i # 1
      <4>1. i \in Nat /\ i \in 2..L /\ f[i] = h[i] /\ f[i - 1] = h[i - 1] /\ i - 1 \in Nat
        BY <1>1, <3>2
      <4>2. h[i] = g[i][h[i - 1]] /\ h[i - 1] \in Bytes
        BY <2>1, <2>4, <4>1
      <4>3. g[i][h[i - 1]] = h[i - 1] \o xs[i]
        BY <4>1, <4>2
      <4> HIDE DEF f, g
      <4>4. QED
        BY <3>2, <4>1, <4>2, <4>3
    <3>3. QED
      BY <3>1, <3>2
  <2>6. f = [i \in 1..L |-> Step(f, i)]
    BY <2>5
  <2> HIDE DEF f
  <2>7. QED
    BY <2>6
<1>4. F = [i \in 1..L |-> Step(F, i)]
  BY <1>3
<1> HIDE DEF F
<1>5. \A i \in 1..L : F[i] = Step(F, i)
  BY <1>4
<1>6. F[1] = xs[1] /\ \A i \in 2..L : F[i] = F[i - 1] \o xs[i]
  <2>1. F[1] = xs[1]
    BY <1>1, <1>5
  <2>2. ASSUME NEW i \in 2..L
        PROVE  F[i] = F[i - 1] \o xs[i]
    <3>1. i \in 1..L /\ i # 1
      OBVIOUS
    <3>2. QED
      BY <1>5, <3>1
  <2>3. QED
    BY <2>1, <2>2
<1>7. QED
  BY <1>2, <1>6 DEF L

\* Many fields, one after another.
LEMMA CarriesAll ==
    ASSUME NEW xs \in Seq(Bytes), NEW fs \in Seq(FieldValues), Len(fs) = Len(xs),
           \A i \in 1..Len(xs) : Carries(xs[i], <<fs[i]>>)
    PROVE  Carries(FlattenSeq(xs), fs)
<1> DEFINE L == Len(xs)
<1>1. L \in Nat /\ \A i \in 1..L : fs[i] \in FieldValues
  OBVIOUS
<1>2. CASE L = 0
  <2>1. xs = <<>> /\ fs = <<>> /\ FlattenSeq(xs) = <<>>
    BY <1>2, EmptySeq DEF FlattenSeq
  <2>2. QED
    BY <2>1, CarriesNone
<1>3. CASE L # 0
  <2>1. PICK f : /\ FlattenSeq(xs) = f[L] /\ f[1] = xs[1]
                 /\ \A i \in 2..L : f[i] = f[i - 1] \o xs[i]
    BY <1>3, FlattenSteps
  <2> DEFINE firsts(i) == SubSeq(fs, 1, i)
             T == {i \in Nat : i \in 1..L => Carries(f[i], firsts(i))}
  <2>2. firsts(1) = <<fs[1]>>
    <3>1. firsts(1) \in Seq(FieldValues) /\ Len(firsts(1)) = 1 /\ firsts(1)[1] = fs[1]
      BY <1>1, <1>3
    <3> HIDE DEF firsts
    <3>2. \A k \in 1..1 : firsts(1)[k] = <<fs[1]>>[k]
      BY <3>1
    <3>3. <<fs[1]>> \in Seq(FieldValues) /\ Len(<<fs[1]>>) = 1
      BY <1>1, <1>3
    <3>4. QED
      BY <3>1, <3>2, <3>3, SeqEqual
  <2>3. ASSUME NEW i \in 2..L
        PROVE  firsts(i) = firsts(i - 1) \o <<fs[i]>>
    <3> DEFINE p == firsts(i - 1)
               q == firsts(i)
               r == p \o <<fs[i]>>
    <3>1. p \in Seq(FieldValues) /\ Len(p) = i - 1 /\ \A k \in 1..(i - 1) : p[k] = fs[k]
      BY <1>1
    <3>2. q \in Seq(FieldValues) /\ Len(q) = i /\ \A k \in 1..i : q[k] = fs[k]
      BY <1>1
    <3> HIDE DEF p, q, firsts
    <3>3. fs[i] \in FieldValues
      BY <1>1
    <3>4. r \in Seq(FieldValues) /\ Len(r) = i /\ r[i] = fs[i] /\ \A k \in 1..(i - 1) : r[k] = p[k]
      <4> DEFINE l == Len(p)
                 e == fs[i]
      <4>1. p \in Seq(FieldValues) /\ e \in FieldValues
        BY <3>1, <3>3
      <4> HIDE DEF e
      <4>2. /\ p \o <<e>> \in Seq(FieldValues) /\ Len(p \o <<e>>) = l + 1 /\ (p \o <<e>>)[l + 1] = e
            /\ \A k \in 1..l : (p \o <<e>>)[k] = p[k]
        BY <4>1
      <4>3. l = i - 1 /\ l + 1 = i
        BY <3>1
      <4>4. QED
        BY <4>2, <4>3 DEF e
    <3> HIDE DEF r
    <3>5. \A k \in 1..i : r[k] = q[k]
      BY <3>1, <3>2, <3>4
    <3>6. r = q
      BY <3>2, <3>4, <3>5, SeqEqual
    <3>7. QED
      BY <3>6 DEF p, q, r
  <2> HIDE DEF firsts
  <2>4. ASSUME NEW i \in Nat, \A k \in Nat : k < i => k \in T
        PROVE  i \in T
    <3>1. CASE i \notin 1..L
      BY <3>1
    <3>2. CASE i = 1 /\ i \in 1..L
      BY <2>1, <2>2, <3>2
    <3>3. CASE i \in 2..L
      <4>1. i - 1 \in Nat /\ i - 1 < i /\ i - 1 \in 1..L
        BY <3>3
      <4>2. Carries(f[i - 1], firsts(i - 1)) /\ Carries(xs[i], <<fs[i]>>)
        BY <2>4, <3>3, <4>1
      <4>3. Carries(f[i - 1] \o xs[i], firsts(i - 1) \o <<fs[i]>>)
        BY <4>2, CarriesBoth
      <4>4. Carries(f[i], firsts(i))
        BY <2>1, <2>3, <3>3, <4>3
      <4>5. QED
        BY <4>4
    <3>4. QED
      BY <3>1, <3>2, <3>3
  <2>5. L \in T
    <3> HIDE DEF T
    <3>1. QED
      BY <1>1, <2>4, Everything
  <2>6. Carries(f[L], firsts(L))
    BY <1>1, <1>3, <2>5
  <2>7. firsts(L) = fs
    BY DEF firsts
  <2>8. QED
    BY <2>1, <2>6, <2>7
<1>4. QED
  BY <1>2, <1>3

-----------------------------------------------------------------------------
\* No element of s is the field.
Without(s, field, wire) == \A i \in DOMAIN s : ~Is(s[i], field, wire)

\* A field that is not there has its default value.
LEMMA LastNone ==
    ASSUME NEW fs, NEW field, NEW wire, Without(fs, field, wire), NEW default
    PROVE  LastOf(fs, field, wire, default) = default
<1>1. {k \in DOMAIN fs : Is(fs[k], field, wire)} = {}
  BY DEF Without
<1>2. QED
  BY <1>1 DEF LastOf

\* The field is there once.
Only(fs, k, field, wire) ==
    Is(fs[k], field, wire) /\ \A j \in DOMAIN fs : Is(fs[j], field, wire) => j = k

\* A field that is there once has the value it has there.
LEMMA LastOnly ==
    ASSUME NEW fs \in Seq(FieldValues), NEW k \in DOMAIN fs, NEW field, NEW wire,
           Only(fs, k, field, wire), NEW default
    PROVE  LastOf(fs, field, wire, default) = fs[k].value
<1> DEFINE at == {j \in DOMAIN fs : Is(fs[j], field, wire)}
<1>1. at = {k}
  BY DEF Only
<1>2. k \in Nat
  OBVIOUS
<1>3. Max({k}) = k
  <2>1. \E x \in {k} : \A y \in {k} : x >= y
    BY <1>2
  <2>2. QED
    BY <2>1 DEF Max
<1> HIDE DEF at
<1>4. at # {} /\ Max(at) = k
  BY <1>1, <1>3
<1>5. LastOf(fs, field, wire, default) = IF at = {} THEN default ELSE fs[Max(at)].value
  BY DEF LastOf, at
<1>6. QED
  BY <1>4, <1>5

\* What the fields of three lists, one after another, are.
ThreeParts(s, a, b, c) ==
    /\ s \in Seq(FieldValues) /\ DOMAIN s = 1..(Len(a) + Len(b) + Len(c))
    /\ \A j \in 1..Len(a) : s[j] = a[j]
    /\ \A j \in 1..Len(b) : s[Len(a) + j] = b[j]
    /\ \A j \in 1..Len(c) : s[Len(a) + Len(b) + j] = c[j]

\* Three lists one after another have the elements of each.
LEMMA Parts ==
    ASSUME NEW a \in Seq(FieldValues), NEW b \in Seq(FieldValues), NEW c \in Seq(FieldValues)
    PROVE  ThreeParts((a \o b) \o c, a, b, c)
<1> DEFINE d == a \o b
           s == d \o c
<1>1. /\ d \in Seq(FieldValues) /\ Len(d) = Len(a) + Len(b) /\ Len(a) \in Nat /\ Len(b) \in Nat /\ Len(c) \in Nat
      /\ \A j \in 1..Len(a) : d[j] = a[j]
      /\ \A j \in 1..Len(b) : d[Len(a) + j] = b[j]
  OBVIOUS
<1> HIDE DEF d
<1>2. /\ s \in Seq(FieldValues) /\ Len(s) = Len(d) + Len(c)
      /\ \A j \in 1..Len(d) : s[j] = d[j]
      /\ \A j \in 1..Len(c) : s[Len(d) + j] = c[j]
  <2>1. d \in Seq(FieldValues)
    BY <1>1
  <2>2. QED
    BY <2>1
<1> HIDE DEF s
<1>3. DOMAIN s = 1..Len(s)
  BY <1>2
<1>4. \A j \in 1..Len(a) : s[j] = a[j]
  BY <1>1, <1>2
<1>5. ASSUME NEW j \in 1..Len(b)
      PROVE  s[Len(a) + j] = b[j]
  <2>1. Len(a) + j \in 1..Len(d)
    BY <1>1
  <2>2. QED
    BY <1>1, <1>2, <2>1
<1>6. QED
  BY <1>1, <1>2, <1>3, <1>4, <1>5 DEF s, d, ThreeParts

\* Which part an element is in.
InPart(l, m, n, j) ==
    \/ j \in 1..l
    \/ \E i \in 1..m : j = l + i
    \/ \E i \in 1..n : j = l + m + i

\* Every position lies in one of the three parts.
LEMMA PartOf ==
    ASSUME NEW l \in Nat, NEW m \in Nat, NEW n \in Nat
    PROVE  \A j \in 1..(l + m + n) : InPart(l, m, n, j)
<1> SUFFICES ASSUME NEW j \in 1..(l + m + n) PROVE InPart(l, m, n, j)
  OBVIOUS
<1>1. CASE j <= l
  BY <1>1 DEF InPart
<1>2. CASE j > l /\ j <= l + m
  <2>1. j - l \in 1..m /\ j = l + (j - l)
    BY <1>2
  <2>2. QED
    BY <2>1 DEF InPart
<1>3. CASE j > l + m
  <2>1. j - (l + m) \in 1..n /\ j = l + m + (j - (l + m))
    BY <1>3
  <2>2. QED
    BY <2>1 DEF InPart
<1>4. QED
  BY <1>1, <1>2, <1>3

\* Where the field can be.
Found(a, b, c, j, field, wire) ==
    \/ j \in 1..Len(a) /\ Is(a[j], field, wire)
    \/ \E i \in 1..Len(b) : Is(b[i], field, wire)
    \/ \E i \in 1..Len(c) : j = Len(a) + Len(b) + i /\ Is(c[i], field, wire)

\* A field found in the three lists is found in one of them.
LEMMA Where ==
    ASSUME NEW a \in Seq(FieldValues), NEW b \in Seq(FieldValues), NEW c \in Seq(FieldValues), NEW s,
           ThreeParts(s, a, b, c), NEW field, NEW wire, NEW j \in DOMAIN s, Is(s[j], field, wire)
    PROVE  Found(a, b, c, j, field, wire)
<1>1. Len(a) \in Nat /\ Len(b) \in Nat /\ Len(c) \in Nat
  OBVIOUS
<1>2. InPart(Len(a), Len(b), Len(c), j)
  <2>1. \A k \in 1..(Len(a) + Len(b) + Len(c)) : InPart(Len(a), Len(b), Len(c), k)
    BY <1>1, PartOf
  <2>2. QED
    BY <2>1 DEF ThreeParts
<1>3. CASE j \in 1..Len(a)
  BY <1>3 DEF ThreeParts, Found
<1>4. ASSUME NEW i \in 1..Len(b), j = Len(a) + i
      PROVE  Is(b[i], field, wire)
  BY <1>4 DEF ThreeParts
<1>5. ASSUME NEW i \in 1..Len(c), j = Len(a) + Len(b) + i
      PROVE  Is(c[i], field, wire)
  BY <1>5 DEF ThreeParts
<1>6. QED
  BY <1>2, <1>3, <1>4, <1>5 DEF InPart, Found

\* A field that is in none of the lists is not in all three.
LEMMA WithoutAll ==
    ASSUME NEW a \in Seq(FieldValues), NEW b \in Seq(FieldValues), NEW c \in Seq(FieldValues), NEW field, NEW wire,
           Without(a, field, wire), Without(b, field, wire), Without(c, field, wire)
    PROVE  Without((a \o b) \o c, field, wire)
<1> DEFINE s == (a \o b) \o c
<1>1. ThreeParts(s, a, b, c)
  BY Parts
<1> HIDE DEF s
<1>2. DOMAIN a = 1..Len(a) /\ DOMAIN b = 1..Len(b) /\ DOMAIN c = 1..Len(c)
  OBVIOUS
<1>3. ASSUME NEW j \in DOMAIN s, Is(s[j], field, wire)
      PROVE  FALSE
  <2>1. Found(a, b, c, j, field, wire)
    BY <1>1, <1>3, Where
  <2>2. QED
    BY <1>2, <2>1 DEF Without, Found
<1>4. QED
  BY <1>3 DEF Without, s

\* A field that comes once, first or last, is found.
LEMMA LastFirst ==
    ASSUME NEW f \in FieldValues, NEW b \in Seq(FieldValues), NEW c \in Seq(FieldValues),
           NEW field, NEW wire, NEW default,
           Is(f, field, wire), Without(b, field, wire), Without(c, field, wire)
    PROVE  LastOf((<<f>> \o b) \o c, field, wire, default) = f.value
<1> DEFINE a == <<f>>
           s == (a \o b) \o c
<1>1. a \in Seq(FieldValues) /\ Len(a) = 1 /\ a[1] = f
  OBVIOUS
<1> HIDE DEF a
<1>2. ThreeParts(s, a, b, c)
  BY <1>1, Parts
<1> HIDE DEF s
<1>3. DOMAIN b = 1..Len(b) /\ DOMAIN c = 1..Len(c) /\ Len(b) \in Nat /\ Len(c) \in Nat
  OBVIOUS
<1>4. s \in Seq(FieldValues) /\ 1 \in DOMAIN s /\ s[1] = f
  <2>1. 1 \in 1..Len(a) /\ 1 \in 1..(Len(a) + Len(b) + Len(c))
    BY <1>1, <1>3
  <2>2. QED
    BY <1>1, <1>2, <2>1 DEF ThreeParts
<1>5. ASSUME NEW j \in DOMAIN s, Is(s[j], field, wire)
      PROVE  j = 1
  <2>1. Found(a, b, c, j, field, wire)
    BY <1>1, <1>2, <1>5, Where
  <2>2. j \in 1..Len(a)
    BY <1>3, <2>1 DEF Without, Found
  <2>3. QED
    BY <1>1, <2>2
<1>6. Only(s, 1, field, wire)
  BY <1>4, <1>5 DEF Only
<1>7. LastOf(s, field, wire, default) = s[1].value
  BY <1>4, <1>6, LastOnly
<1>8. QED
  BY <1>4, <1>7 DEF s, a

\* The same for the last of the three.
LEMMA LastThird ==
    ASSUME NEW f \in FieldValues, NEW a \in Seq(FieldValues), NEW b \in Seq(FieldValues),
           NEW field, NEW wire, NEW default,
           Is(f, field, wire), Without(a, field, wire), Without(b, field, wire)
    PROVE  LastOf((a \o b) \o <<f>>, field, wire, default) = f.value
<1> DEFINE c == <<f>>
           s == (a \o b) \o c
           k == Len(a) + Len(b) + 1
<1>1. c \in Seq(FieldValues) /\ Len(c) = 1 /\ c[1] = f
  OBVIOUS
<1> HIDE DEF c
<1>2. ThreeParts(s, a, b, c)
  BY <1>1, Parts
<1> HIDE DEF s
<1>3. DOMAIN a = 1..Len(a) /\ DOMAIN b = 1..Len(b) /\ Len(a) \in Nat /\ Len(b) \in Nat
  OBVIOUS
<1>4. s \in Seq(FieldValues) /\ k \in DOMAIN s /\ s[k] = f
  <2>1. 1 \in 1..Len(c) /\ k \in 1..(Len(a) + Len(b) + Len(c))
    BY <1>1, <1>3
  <2>2. s[k] = c[1]
    BY <1>2, <2>1 DEF ThreeParts
  <2>3. QED
    BY <1>1, <1>2, <2>1, <2>2 DEF ThreeParts
<1>5. ASSUME NEW j \in DOMAIN s, Is(s[j], field, wire)
      PROVE  j = k
  <2>1. Found(a, b, c, j, field, wire)
    BY <1>1, <1>2, <1>5, Where
  <2>2. PICK i \in 1..Len(c) : j = Len(a) + Len(b) + i
    BY <1>3, <2>1 DEF Without, Found
  <2>3. i = 1
    BY <1>1, <2>2
  <2>4. QED
    BY <2>2, <2>3
<1> HIDE DEF k
<1>6. Only(s, k, field, wire)
  BY <1>4, <1>5 DEF Only
<1>7. LastOf(s, field, wire, default) = s[k].value
  BY <1>4, <1>6, LastOnly
<1>8. QED
  BY <1>4, <1>7 DEF s, c

\* A list of no field or of another one is without the field.
LEMMA WithoutOne ==
    ASSUME NEW f, NEW field, NEW wire
    PROVE  /\ Without(<<>>, field, wire)
           /\ ~Is(f, field, wire) => Without(<<f>>, field, wire)
<1>1. \A i \in DOMAIN <<f>> : <<f>>[i] = f
  OBVIOUS
<1>2. DOMAIN <<>> = {}
  OBVIOUS
<1>3. QED
  BY <1>1, <1>2 DEF Without
-----------------------------------------------------------------------------
\* Bytes whose length fits in a varint.
Texts == {s \in Bytes : Len(s) < Uint}

\* The fields of the messages can be told apart.
LEMMA SmallFields ==
    ASSUME NEW field \in {1, 2, 3}, NEW wire \in {0, 2}
    PROVE  Numbered(field, wire)
<1>1. 8 * field + wire < 1024 /\ field \in Nat /\ wire \in 0..7 /\ 8 * field + wire \in Nat
  OBVIOUS
<1>2. QED
  BY <1>1, SmallNumbers, UintType DEF Numbered

\* The name and the value of a Stat, left out when they are the default.
NameField(name) == IF name = <<>> THEN <<>> ELSE <<FieldOf(1, wireBytes, name)>>
\* The same for the value.
ValueField(n) == IF n = 0 THEN <<>> ELSE <<FieldOf(2, wireVarint, n)>>

\* appendStringField writes the name, or nothing when it is empty.
LEMMA NameCarries ==
    ASSUME NEW name \in Texts
    PROVE  /\ Carries(appendStringField(1, name), NameField(name))
           /\ FieldOf(1, wireBytes, name) \in FieldValues
<1>1. name \in Bytes /\ Len(name) < Uint /\ Numbered(1, wireBytes)
  BY SmallFields DEF Texts, wireBytes
<1>2. Carries(appendStringField(1, name), NameField(name))
  <2>1. CASE name = <<>>
    BY <2>1, CarriesNone DEF appendStringField, NameField
  <2>2. CASE name # <<>>
    <3>1. Carries(appendElement(1, name), <<FieldOf(1, wireBytes, name)>>)
      BY <1>1, ElementCarries
    <3>2. QED
      BY <2>2, <3>1 DEF appendStringField, NameField
  <2>3. QED
    BY <2>1, <2>2
<1>3. FieldOf(1, wireBytes, name) \in FieldValues
  <2>1. 1 \in Nat /\ wireBytes \in Nat /\ name \in Payloads
    BY <1>1 DEF wireBytes, Payloads
  <2>2. QED
    BY <2>1 DEF FieldValues
<1>4. QED
  BY <1>2, <1>3

\* appendIntField writes the value, or nothing when it is zero.
LEMMA ValueCarries ==
    ASSUME NEW n \in Nat, n < Uint
    PROVE  /\ Carries(appendIntField(2, n), ValueField(n))
           /\ FieldOf(2, wireVarint, n) \in FieldValues
<1>1. Numbered(2, wireVarint)
  BY SmallFields DEF wireVarint
<1>2. Carries(appendIntField(2, n), ValueField(n))
  <2>1. CASE n = 0
    BY <2>1, CarriesNone DEF appendIntField, ValueField
  <2>2. CASE n # 0
    <3>1. Carries(appendTag(2, wireVarint) \o appendVarint(n), <<FieldOf(2, wireVarint, n)>>)
      BY <1>1, NumberCarries
    <3>2. QED
      BY <2>2, <3>1 DEF appendIntField, ValueField
  <2>3. QED
    BY <2>1, <2>2
<1>3. FieldOf(2, wireVarint, n) \in FieldValues
  <2>1. 2 \in Nat /\ wireVarint \in Nat /\ n \in Payloads
    BY DEF wireVarint, Payloads
  <2>2. QED
    BY <2>1 DEF FieldValues
<1>4. QED
  BY <1>2, <1>3

\* A Stat decoded without a failure.
Stat(name, value) == [ok |-> TRUE, name |-> name, value |-> value]

\* The bytes x carry no field that a Stat has.
Strange(x) == \E fs : Carries(x, fs) /\ Without(fs, 1, wireBytes) /\ Without(fs, 2, wireVarint)

\* A Stat is read back, whatever the order of its fields and whatever lies between.
LEMMA StatRoundTrip ==
    ASSUME NEW name \in Texts, NEW n \in Nat, n < Uint, NEW x, Strange(x)
    PROVE  /\ UnmarshalStat((appendStringField(1, name) \o x) \o appendIntField(2, n)) = Stat(name, n)
           /\ UnmarshalStat((appendIntField(2, n) \o x) \o appendStringField(1, name)) = Stat(name, n)
<1>1. PICK fs : Carries(x, fs) /\ Without(fs, 1, wireBytes) /\ Without(fs, 2, wireVarint)
  BY DEF Strange
<1> DEFINE f == FieldOf(1, wireBytes, name)
           g == FieldOf(2, wireVarint, n)
           A == NameField(name)
           C == ValueField(n)
           N == appendStringField(1, name)
           I == appendIntField(2, n)
<1>2. Carries(N, A) /\ f \in FieldValues
  BY NameCarries
<1>3. Carries(I, C) /\ g \in FieldValues
  BY ValueCarries
<1>4. (name = <<>> => A = <<>>) /\ (name # <<>> => A = <<f>>)
  BY DEF NameField
<1>5. (n = 0 => C = <<>>) /\ (n # 0 => C = <<g>>)
  BY DEF ValueField
<1>6. /\ f.value = name /\ g.value = n
      /\ Is(f, 1, wireBytes) /\ ~Is(f, 2, wireVarint) /\ Is(g, 2, wireVarint) /\ ~Is(g, 1, wireBytes)
  BY DEF FieldOf, Is, wireBytes, wireVarint
<1> HIDE DEF f, g, A, C, N, I
<1>7. fs \in Seq(FieldValues) /\ A \in Seq(FieldValues) /\ C \in Seq(FieldValues)
  BY <1>1, <1>2, <1>3 DEF Carries
<1>8. Without(A, 2, wireVarint) /\ Without(C, 1, wireBytes)
  <2>1. Without(A, 2, wireVarint)
    BY <1>4, <1>6, WithoutOne
  <2>2. Without(C, 1, wireBytes)
    BY <1>5, <1>6, WithoutOne
  <2>3. QED
    BY <2>1, <2>2
<1>9. Carries((N \o x) \o I, (A \o fs) \o C) /\ Carries((I \o x) \o N, (C \o fs) \o A)
  <2>1. Carries(N \o x, A \o fs) /\ Carries(I \o x, C \o fs)
    BY <1>1, <1>2, <1>3, CarriesBoth
  <2>2. QED
    BY <1>2, <1>3, <2>1, CarriesBoth
<1>10. ASSUME NEW y, NEW hs, Carries(y, hs), LastOf(hs, 1, wireBytes, <<>>) = name, LastOf(hs, 2, wireVarint, 0) = n
       PROVE  UnmarshalStat(y) = Stat(name, n)
  <2>1. Fields(y) = Whole(hs)
    BY <1>10, CarriesFields
  <2>2. Whole(hs).ok = TRUE /\ Whole(hs).fields = hs
    BY DEF Whole
  <2>3. QED
    BY <1>10, <2>1, <2>2 DEF UnmarshalStat, StatOf, Stat
<1>11. /\ LastOf((A \o fs) \o C, 1, wireBytes, <<>>) = name
       /\ LastOf((C \o fs) \o A, 1, wireBytes, <<>>) = name
  <2>1. CASE name = <<>>
    <3>1. Without(A, 1, wireBytes)
      BY <1>4, <2>1, WithoutOne
    <3>2. Without((A \o fs) \o C, 1, wireBytes) /\ Without((C \o fs) \o A, 1, wireBytes)
      BY <1>1, <1>7, <1>8, <3>1, WithoutAll
    <3>3. QED
      BY <2>1, <3>2, LastNone
  <2>2. CASE name # <<>>
    <3>1. A = <<f>>
      BY <1>4, <2>2
    <3>2. LastOf((<<f>> \o fs) \o C, 1, wireBytes, <<>>) = f.value
      BY <1>1, <1>2, <1>6, <1>7, <1>8, LastFirst
    <3>3. LastOf((C \o fs) \o <<f>>, 1, wireBytes, <<>>) = f.value
      BY <1>1, <1>2, <1>6, <1>7, <1>8, LastThird
    <3>4. QED
      BY <1>6, <3>1, <3>2, <3>3
  <2>3. QED
    BY <2>1, <2>2
<1>12. /\ LastOf((A \o fs) \o C, 2, wireVarint, 0) = n
       /\ LastOf((C \o fs) \o A, 2, wireVarint, 0) = n
  <2>1. CASE n = 0
    <3>1. Without(C, 2, wireVarint)
      BY <1>5, <2>1, WithoutOne
    <3>2. Without((A \o fs) \o C, 2, wireVarint) /\ Without((C \o fs) \o A, 2, wireVarint)
      BY <1>1, <1>7, <1>8, <3>1, WithoutAll
    <3>3. QED
      BY <2>1, <3>2, LastNone
  <2>2. CASE n # 0
    <3>1. C = <<g>>
      BY <1>5, <2>2
    <3>2. LastOf((A \o fs) \o <<g>>, 2, wireVarint, 0) = g.value
      BY <1>1, <1>3, <1>6, <1>7, <1>8, LastThird
    <3>3. LastOf((<<g>> \o fs) \o A, 2, wireVarint, 0) = g.value
      BY <1>1, <1>3, <1>6, <1>7, <1>8, LastFirst
    <3>4. QED
      BY <1>6, <3>1, <3>2, <3>3
  <2>3. QED
    BY <2>1, <2>2
<1>13. UnmarshalStat((N \o x) \o I) = Stat(name, n)
  BY <1>9, <1>10, <1>11, <1>12
<1>14. UnmarshalStat((I \o x) \o N) = Stat(name, n)
  BY <1>9, <1>10, <1>11, <1>12
<1>15. QED
  BY <1>13, <1>14 DEF N, I

-----------------------------------------------------------------------------
\* A repeated field is read as the list of its values.
LEMMA ValuesAll ==
    ASSUME NEW S, NEW ps \in Seq(S), NEW field, NEW wire
    PROVE  ValuesOf([i \in DOMAIN ps |-> FieldOf(field, wire, ps[i])], field, wire) = ps
<1> DEFINE L == Len(ps)
           fs == [i \in DOMAIN ps |-> FieldOf(field, wire, ps[i])]
           firsts(k) == SubSeq(ps, 1, k)
           Step(f, k) == IF k = 0 THEN <<>>
                         ELSE IF Is(fs[k], field, wire) THEN Append(f[k - 1], fs[k].value)
                         ELSE f[k - 1]
           V == CHOOSE f : f = [k \in 0..L |-> Step(f, k)]
           h == [k \in 0..L |-> firsts(k)]
<1>1. L \in Nat /\ DOMAIN ps = 1..L /\ \A i \in 1..L : ps[i] \in S
  OBVIOUS
<1>2. Len(fs) = L /\ \A k \in 1..L : fs[k] = FieldOf(field, wire, ps[k])
  <2>1. fs \in Seq({FieldOf(field, wire, p) : p \in S})
    BY <1>1
  <2>2. DOMAIN fs = 1..L
    BY <1>1
  <2>3. QED
    BY <1>1, <2>1, <2>2
<1>3. \A k \in 1..L : Is(fs[k], field, wire) /\ fs[k].value = ps[k]
  BY <1>2 DEF FieldOf, Is
<1> HIDE DEF fs
<1>4. ValuesOf(fs, field, wire) = V[L]
  BY <1>2 DEF ValuesOf
<1>5. firsts(0) = <<>> /\ firsts(L) = ps
  BY <1>1
<1>6. ASSUME NEW k \in 1..L
      PROVE  firsts(k) = Append(firsts(k - 1), ps[k])
  <2> DEFINE p == firsts(k - 1)
             q == firsts(k)
             r == Append(p, ps[k])
  <2>1. p \in Seq(S) /\ Len(p) = k - 1 /\ \A i \in 1..(k - 1) : p[i] = ps[i]
    BY <1>1
  <2>2. q \in Seq(S) /\ Len(q) = k /\ \A i \in 1..k : q[i] = ps[i]
    BY <1>1
  <2> HIDE DEF p, q, firsts
  <2>3. r \in Seq(S) /\ Len(r) = k /\ r[k] = ps[k] /\ \A i \in 1..(k - 1) : r[i] = p[i]
    <3> DEFINE l == Len(p)
               e == ps[k]
    <3>1. p \in Seq(S) /\ e \in S
      BY <1>1, <2>1
    <3> HIDE DEF e
    <3>2. /\ Append(p, e) \in Seq(S) /\ Len(Append(p, e)) = l + 1 /\ Append(p, e)[l + 1] = e
          /\ \A i \in 1..l : Append(p, e)[i] = p[i]
      BY <3>1
    <3>3. l = k - 1 /\ l + 1 = k
      BY <2>1
    <3>4. QED
      BY <3>2, <3>3 DEF e
  <2> HIDE DEF r
  <2>4. \A i \in 1..k : r[i] = q[i]
    BY <2>1, <2>2, <2>3
  <2>5. r = q
    BY <2>2, <2>3, <2>4, SeqEqual
  <2>6. QED
    BY <2>5 DEF p, q, r
<1> HIDE DEF firsts
<1>7. ASSUME NEW k \in 0..L
      PROVE  h[k] = Step(h, k)
  <2>1. CASE k = 0
    BY <1>5, <2>1
  <2>2. CASE k # 0
    <3>1. k \in 1..L /\ k - 1 \in 0..L
      BY <2>2
    <3>2. h[k] = Append(h[k - 1], ps[k])
      BY <1>6, <3>1
    <3>3. QED
      BY <1>3, <2>2, <3>1, <3>2
  <2>3. QED
    BY <2>1, <2>2
<1>8. h = [k \in 0..L |-> Step(h, k)]
  BY <1>7
<1> HIDE DEF h
<1>9. V = [k \in 0..L |-> Step(V, k)]
  BY <1>8
<1>10. \A k \in 0..L : V[k] = Step(V, k)
  <2> HIDE DEF V
  <2>1. QED
    BY <1>9
<1> HIDE DEF V
<1> DEFINE T == {k \in Nat : k \in 0..L => V[k] = firsts(k)}
<1>11. ASSUME NEW k \in Nat, \A m \in Nat : m < k => m \in T
       PROVE  k \in T
  <2> SUFFICES ASSUME k \in 0..L PROVE V[k] = firsts(k)
    OBVIOUS
  <2>1. CASE k = 0
    BY <1>5, <1>10, <2>1
  <2>2. CASE k # 0
    <3>1. k \in 1..L /\ k - 1 \in 0..L /\ k - 1 \in Nat /\ k - 1 < k
      BY <2>2
    <3>2. V[k - 1] = firsts(k - 1)
      BY <1>11, <3>1
    <3>3. V[k] = Append(V[k - 1], ps[k])
      BY <1>3, <1>10, <2>2, <3>1
    <3>4. QED
      BY <1>6, <3>1, <3>2, <3>3
  <2>3. QED
    BY <2>1, <2>2
<1>12. \A k \in Nat : k \in T
  <2> HIDE DEF T
  <2>1. QED
    BY <1>11, Everything
<1>13. V[L] = ps
  BY <1>1, <1>5, <1>12
<1>14. QED
  BY <1>4, <1>13 DEF fs

\* The values of a repeated field, as fields.
Elements(field, ps) == [i \in DOMAIN ps |-> FieldOf(field, wireBytes, ps[i])]

\* A message made of one repeated field is read as the list of its elements.
LEMMA ElementsRead ==
    ASSUME NEW S, NEW ps \in Seq(S), NEW field, NEW m, Carries(m, Elements(field, ps))
    PROVE  Fields(m).ok = TRUE /\ ValuesOf(Fields(m).fields, field, wireBytes) = ps
<1> DEFINE fs == Elements(field, ps)
<1>1. ValuesOf(fs, field, wireBytes) = ps
  BY ValuesAll DEF Elements
<1>2. Fields(m) = Whole(fs)
  BY CarriesFields
<1> HIDE DEF fs
<1>3. Whole(fs).ok = TRUE /\ Whole(fs).fields = fs
  BY DEF Whole
<1>4. QED
  BY <1>1, <1>2, <1>3

\* appendElement after appendElement writes a repeated field.
LEMMA ElementsCarry ==
    ASSUME NEW field \in {1, 2, 3}, NEW ps \in Seq(Texts)
    PROVE  Carries(FlattenSeq([i \in DOMAIN ps |-> appendElement(field, ps[i])]), Elements(field, ps))
<1> DEFINE xs == [i \in DOMAIN ps |-> appendElement(field, ps[i])]
           fs == Elements(field, ps)
           L == Len(ps)
<1>1. L \in Nat /\ DOMAIN ps = 1..L /\ \A i \in 1..L : ps[i] \in Bytes /\ Len(ps[i]) < Uint
  BY DEF Texts
<1>2. Numbered(field, wireBytes)
  BY SmallFields DEF wireBytes
<1>3. \A i \in 1..L : Carries(appendElement(field, ps[i]), <<FieldOf(field, wireBytes, ps[i])>>)
  BY <1>1, <1>2, ElementCarries
<1>4. \A i \in 1..L : appendElement(field, ps[i]) \in Bytes /\ FieldOf(field, wireBytes, ps[i]) \in FieldValues
  <2> TAKE i \in 1..L
  <2>1. appendElement(field, ps[i]) \in Bytes
    BY <1>3 DEF Carries
  <2>2. field \in Nat /\ wireBytes \in Nat /\ ps[i] \in Payloads
    BY <1>1 DEF wireBytes, Payloads
  <2>3. FieldOf(field, wireBytes, ps[i]) \in FieldValues
    BY <2>2 DEF FieldValues
  <2>4. QED
    BY <2>1, <2>3
<1>5. xs \in Seq(Bytes) /\ Len(xs) = L /\ \A i \in 1..L : xs[i] = appendElement(field, ps[i])
  <2>1. xs \in [1..L -> Bytes] /\ \A i \in 1..L : xs[i] = appendElement(field, ps[i])
    BY <1>1, <1>4
  <2> HIDE DEF xs, L
  <2>2. QED
    BY <1>1, <2>1
<1>6. fs \in Seq(FieldValues) /\ Len(fs) = L /\ \A i \in 1..L : fs[i] = FieldOf(field, wireBytes, ps[i])
  <2>1. fs \in [1..L -> FieldValues] /\ \A i \in 1..L : fs[i] = FieldOf(field, wireBytes, ps[i])
    BY <1>1, <1>4 DEF Elements
  <2> HIDE DEF fs, L
  <2>2. QED
    BY <1>1, <2>1
<1> HIDE DEF xs, fs
<1>7. \A i \in 1..Len(xs) : Carries(xs[i], <<fs[i]>>)
  BY <1>3, <1>5, <1>6
<1>8. Carries(FlattenSeq(xs), fs)
  BY <1>5, <1>6, <1>7, CarriesAll
<1>9. QED
  BY <1>8 DEF xs, fs

\* The service reads the patterns the agent asks for.
THEOREM RequestRoundTrip ==
    ASSUME NEW patterns \in Seq(Texts)
    PROVE  UnmarshalQueryStatsRequest(MarshalQueryStatsRequest(patterns)) = [ok |-> TRUE, patterns |-> patterns]
<1> DEFINE m == MarshalQueryStatsRequest(patterns)
           d == Fields(m)
<1>1. Carries(m, Elements(3, patterns))
  BY ElementsCarry DEF MarshalQueryStatsRequest
<1> HIDE DEF m
<1>2. d.ok = TRUE /\ ValuesOf(d.fields, 3, wireBytes) = patterns
  BY <1>1, ElementsRead
<1> HIDE DEF d
<1>3. PatternsOf(d) = [ok |-> TRUE, patterns |-> patterns]
  BY <1>2 DEF PatternsOf
<1>4. QED
  BY <1>3 DEF UnmarshalQueryStatsRequest, d, m

\* A response decoded without a failure.
Response(list) == [ok |-> TRUE, stats |-> list]

\* A response is the list of its Stats, each decoded.
LEMMA ResponseOf ==
    ASSUME NEW S, NEW ps \in Seq(S), NEW m, Carries(m, Elements(1, ps)),
           \A i \in DOMAIN ps : UnmarshalStat(ps[i]).ok = TRUE
    PROVE  UnmarshalQueryStatsResponse(m) = Response([i \in DOMAIN ps |-> UnmarshalStat(ps[i])])
<1> DEFINE d == Fields(m)
           list == [i \in DOMAIN ps |-> UnmarshalStat(ps[i])]
<1>1. d.ok = TRUE /\ ValuesOf(d.fields, 1, wireBytes) = ps
  BY ElementsRead
<1> HIDE DEF d
<1>2. StatsOf(d) = AllOf(list)
  BY <1>1 DEF StatsOf
<1>3. DOMAIN list = DOMAIN ps /\ \A i \in DOMAIN list : list[i].ok
  OBVIOUS
<1> HIDE DEF list
<1>4. AllOf(list) = Response(list)
  BY <1>3 DEF AllOf, Response
<1>5. QED
  BY <1>2, <1>4 DEF UnmarshalQueryStatsResponse, d, list

\* No bytes have no field of a Stat.
LEMMA StrangeNone == Strange(<<>>)
<1>1. Without(<<>>, 1, wireBytes) /\ Without(<<>>, 2, wireVarint)
  BY WithoutOne
<1>2. QED
  BY <1>1, CarriesNone DEF Strange

\* The agent reads back the Stats of a response that this codec wrote.
THEOREM ResponseRoundTrip ==
    ASSUME NEW list \in Seq([name : Texts, value : 0..(Uint - 1)]),
           \A i \in DOMAIN list : Len(MarshalStat(list[i])) < Uint
    PROVE  UnmarshalQueryStatsResponse(MarshalQueryStatsResponse(list)) =
             Response([i \in DOMAIN list |-> Stat(list[i].name, list[i].value)])
<1> DEFINE L == Len(list)
           ps == [i \in DOMAIN list |-> MarshalStat(list[i])]
           m == FlattenSeq([i \in DOMAIN ps |-> appendElement(1, ps[i])])
<1>1. /\ L \in Nat /\ DOMAIN list = 1..L
      /\ \A i \in 1..L : list[i].name \in Texts /\ list[i].value \in Nat /\ list[i].value < Uint
  <2> DEFINE R == [name : Texts, value : 0..(Uint - 1)]
  <2>1. \A r \in R : r.name \in Texts /\ r.value \in 0..(Uint - 1)
    OBVIOUS
  <2> HIDE DEF R
  <2>2. L \in Nat /\ DOMAIN list = 1..L /\ \A i \in 1..L : list[i] \in R
    <3>1. list \in Seq(R)
      BY DEF R
    <3>2. QED
      BY <3>1
  <2>3. \A v \in 0..(Uint - 1) : v \in Nat /\ v < Uint
    BY UintType
  <2>4. QED
    BY <2>1, <2>2, <2>3
<1>2. ASSUME NEW i \in 1..L
      PROVE  MarshalStat(list[i]) \in Texts /\ UnmarshalStat(MarshalStat(list[i])) = Stat(list[i].name, list[i].value)
  <2> DEFINE name == list[i].name
             n == list[i].value
             N == appendStringField(1, name)
             I == appendIntField(2, n)
  <2>1. name \in Texts /\ n \in Nat /\ n < Uint
    BY <1>1
  <2>2. MarshalStat(list[i]) = N \o I
    BY DEF MarshalStat
  <2> HIDE DEF name, n
  <2>3. N \in Bytes /\ I \in Bytes
    BY <2>1, NameCarries, ValueCarries DEF Carries
  <2>4. UnmarshalStat((N \o <<>>) \o I) = Stat(name, n)
    BY <2>1, StrangeNone, StatRoundTrip
  <2> HIDE DEF N, I
  <2>5. N \o <<>> = N /\ N \o I \in Bytes
    BY <2>3 DEF Bytes
  <2>6. Len(MarshalStat(list[i])) < Uint
    BY <1>1
  <2>7. MarshalStat(list[i]) \in Texts
    BY <2>2, <2>5, <2>6 DEF Texts
  <2>8. QED
    BY <2>2, <2>4, <2>5, <2>7 DEF name, n
<1>3. ps \in Seq(Texts) /\ DOMAIN ps = 1..L /\ \A i \in 1..L : ps[i] = MarshalStat(list[i])
  <2>1. ps \in [1..L -> Texts] /\ \A i \in 1..L : ps[i] = MarshalStat(list[i])
    BY <1>1, <1>2
  <2> HIDE DEF ps, L
  <2>2. QED
    BY <1>1, <2>1
<1>4. MarshalQueryStatsResponse(list) = m
  <2>1. [i \in DOMAIN list |-> appendElement(1, MarshalStat(list[i]))] = [i \in DOMAIN ps |-> appendElement(1, ps[i])]
    BY <1>1, <1>3
  <2>2. QED
    BY <2>1 DEF MarshalQueryStatsResponse
<1> HIDE DEF ps
<1>5. Carries(m, Elements(1, ps))
  BY <1>3, ElementsCarry
<1> HIDE DEF m
<1>6. \A i \in DOMAIN ps : UnmarshalStat(ps[i]) = Stat(list[i].name, list[i].value)
  BY <1>2, <1>3
<1>7. \A i \in DOMAIN ps : UnmarshalStat(ps[i]).ok = TRUE
  BY <1>6 DEF Stat
<1>8. UnmarshalQueryStatsResponse(m) = Response([i \in DOMAIN ps |-> UnmarshalStat(ps[i])])
  BY <1>3, <1>5, <1>7, ResponseOf
<1>9. [i \in DOMAIN ps |-> UnmarshalStat(ps[i])] = [i \in DOMAIN list |-> Stat(list[i].name, list[i].value)]
  BY <1>1, <1>3, <1>6
<1>10. QED
  BY <1>4, <1>8, <1>9

-----------------------------------------------------------------------------
\* x is a field with the number k and the wire type w, and any payload.
Encodes(x, k, w) ==
    \/ w = wireVarint /\ \E v \in 0..(Uint - 1) : x = appendTag(k, w) \o appendVarint(v)
    \/ w = wireBytes /\ \E s \in Texts : x = appendElement(k, s)
    \/ w = wireFixed64 /\ \E s \in Bytes : Len(s) = 8 /\ x = appendTag(k, w) \o s
    \/ w = wireFixed32 /\ \E s \in Bytes : Len(s) = 4 /\ x = appendTag(k, w) \o s

\* A field that is neither the name nor the value of a Stat.
Foreign ==
    {x \in Bytes : \E k, w : /\ Numbered(k, w) /\ Encodes(x, k, w)
                             /\ ~(k = 1 /\ w = wireBytes) /\ ~(k = 2 /\ w = wireVarint)}

\* The messages of the service for the value n: one Stat, its fields in either order
\* with any number of foreign fields between them, or no Stat for a zero.
Messages(n) ==
    {appendElement(1, y) : y \in {s \in Texts :
        \E xs \in Seq(Foreign), nameFirst \in BOOLEAN : s = StatBytes(n, FlattenSeq(xs), nameFirst)}}
      \cup {m \in {<<>>} : n = 0}

\* A foreign field is one field that a Stat does not have.
LEMMA ForeignCarries ==
    ASSUME NEW x \in Foreign
    PROVE  \E f \in FieldValues : Carries(x, <<f>>) /\ ~Is(f, 1, wireBytes) /\ ~Is(f, 2, wireVarint)
<1>1. PICK k, w : /\ Numbered(k, w) /\ Encodes(x, k, w)
                  /\ ~(k = 1 /\ w = wireBytes) /\ ~(k = 2 /\ w = wireVarint)
  BY DEF Foreign
<1>2. ASSUME NEW v \in Payloads, Carries(x, <<FieldOf(k, w, v)>>)
      PROVE  \E f \in FieldValues : Carries(x, <<f>>) /\ ~Is(f, 1, wireBytes) /\ ~Is(f, 2, wireVarint)
  <2> DEFINE f == FieldOf(k, w, v)
  <2>1. k \in Nat /\ w \in Nat
    BY <1>1 DEF Numbered
  <2>2. f \in FieldValues
    BY <2>1 DEF FieldValues
  <2>3. ~Is(f, 1, wireBytes) /\ ~Is(f, 2, wireVarint)
    BY <1>1 DEF Is, FieldOf
  <2> HIDE DEF f
  <2>4. Carries(x, <<f>>)
    BY <1>2 DEF f
  <2>5. QED
    BY <2>2, <2>3, <2>4
<1>3. CASE w = wireVarint /\ \E v \in 0..(Uint - 1) : x = appendTag(k, w) \o appendVarint(v)
  <2>1. PICK v \in 0..(Uint - 1) : x = appendTag(k, w) \o appendVarint(v)
    BY <1>3
  <2>2. v \in Nat /\ v < Uint /\ v \in Payloads
    BY UintType DEF Payloads
  <2>3. Carries(x, <<FieldOf(k, w, v)>>)
    BY <1>1, <1>3, <2>1, <2>2, NumberCarries
  <2>4. QED
    BY <1>2, <2>2, <2>3
<1>4. CASE w = wireBytes /\ \E s \in Texts : x = appendElement(k, s)
  <2>1. PICK s \in Texts : x = appendElement(k, s)
    BY <1>4
  <2>2. s \in Bytes /\ Len(s) < Uint /\ s \in Payloads
    BY DEF Texts, Payloads
  <2>3. Carries(x, <<FieldOf(k, w, s)>>)
    BY <1>1, <1>4, <2>1, <2>2, ElementCarries
  <2>4. QED
    BY <1>2, <2>2, <2>3
<1>5. ASSUME NEW s \in Bytes, x = appendTag(k, w) \o s,
             (w = wireFixed64 /\ Len(s) = 8) \/ (w = wireFixed32 /\ Len(s) = 4)
      PROVE  \E f \in FieldValues : Carries(x, <<f>>) /\ ~Is(f, 1, wireBytes) /\ ~Is(f, 2, wireVarint)
  <2>1. <<>> \in Payloads
    BY DEF Payloads, Bytes
  <2>2. Carries(x, <<FieldOf(k, w, <<>>)>>)
    BY <1>1, <1>5, FixedCarries
  <2>3. QED
    BY <1>2, <2>1, <2>2
<1>6. QED
  BY <1>1, <1>3, <1>4, <1>5 DEF Encodes

\* Foreign fields, however many, are passed over.
LEMMA ForeignStrange ==
    ASSUME NEW xs \in Seq(Foreign)
    PROVE  Strange(FlattenSeq(xs))
<1> DEFINE L == Len(xs)
           Chosen(x, f) == f \in FieldValues /\ Carries(x, <<f>>) /\ ~Is(f, 1, wireBytes) /\ ~Is(f, 2, wireVarint)
           pick(x) == CHOOSE f : Chosen(x, f)
           fs == [i \in 1..L |-> pick(xs[i])]
<1>1. L \in Nat /\ DOMAIN xs = 1..L /\ \A i \in 1..L : xs[i] \in Foreign
  OBVIOUS
<1>2. \A x \in Foreign : Chosen(x, pick(x))
  <2> TAKE x \in Foreign
  <2>1. \E f : Chosen(x, f)
    BY ForeignCarries
  <2> HIDE DEF Chosen
  <2>2. QED
    BY <2>1
<1> HIDE DEF pick
<1>3. \A i \in 1..L : fs[i] = pick(xs[i]) /\ Chosen(xs[i], fs[i])
  BY <1>1, <1>2
<1>4. fs \in [1..L -> FieldValues] /\ xs \in [1..L -> Bytes]
  <2>1. \A x \in Foreign : x \in Bytes
    BY DEF Foreign
  <2>2. xs \in [1..L -> Bytes]
    BY <1>1, <2>1
  <2>3. fs \in [1..L -> FieldValues]
    BY <1>3
  <2>4. QED
    BY <2>2, <2>3
<1> HIDE DEF fs, L
<1>5. fs \in Seq(FieldValues) /\ xs \in Seq(Bytes) /\ Len(fs) = Len(xs) /\ Len(xs) = L
  BY <1>1, <1>4 DEF L
<1>6. \A i \in 1..Len(xs) : Carries(xs[i], <<fs[i]>>)
  BY <1>3, <1>5
<1>7. Carries(FlattenSeq(xs), fs)
  BY <1>5, <1>6, CarriesAll
<1>8. DOMAIN fs = 1..L
  BY <1>4
<1>9. Without(fs, 1, wireBytes) /\ Without(fs, 2, wireVarint)
  BY <1>3, <1>8 DEF Without
<1>10. QED
  BY <1>7, <1>9 DEF Strange

\* The service looks for the name the agent asked for.
LEMMA AskedName == Asked = <<Name>> /\ Name \in Texts
<1>1. Name \in Texts
  BY TrafficWireAssumption DEF Texts, Bytes
<1>2. <<Name>> \in Seq(Texts)
  BY <1>1
<1>3. UnmarshalQueryStatsRequest(MarshalQueryStatsRequest(<<Name>>)) = [ok |-> TRUE, patterns |-> <<Name>>]
  BY <1>2, RequestRoundTrip
<1>4. QED
  BY <1>1, <1>3 DEF Asked

\* The agent reads the value of a Stat as the service writes it.
LEMMA StatBytesRead ==
    ASSUME NEW n \in Nat, n < Uint, NEW xs \in Seq(Foreign), NEW nameFirst \in BOOLEAN
    PROVE  UnmarshalStat(StatBytes(n, FlattenSeq(xs), nameFirst)) = Stat(Name, n)
<1> DEFINE x == FlattenSeq(xs)
           N == appendStringField(1, Name)
           I == appendIntField(2, n)
<1>1. Strange(x)
  BY ForeignStrange
<1> HIDE DEF x
<1>2. Asked[1] = Name /\ Name \in Texts
  BY AskedName
<1>3. UnmarshalStat((N \o x) \o I) = Stat(Name, n) /\ UnmarshalStat((I \o x) \o N) = Stat(Name, n)
  BY <1>1, <1>2, StatRoundTrip
<1>4. CASE nameFirst
  <2>1. StatBytes(n, x, nameFirst) = (N \o x) \o I
    BY <1>2, <1>4 DEF StatBytes
  <2>2. QED
    BY <1>3, <2>1 DEF x
<1>5. CASE ~nameFirst
  <2>1. StatBytes(n, x, nameFirst) = (I \o x) \o N
    BY <1>2, <1>5 DEF StatBytes
  <2>2. QED
    BY <1>3, <2>1 DEF x
<1>6. QED
  BY <1>4, <1>5

\* queryStats returns the value of every message that the service may send for it.
THEOREM ServiceRead ==
    ASSUME NEW n \in 0..MaxMoved, NEW m \in Messages(n)
    PROVE  queryStats(m) = n
<1>1. n \in Nat /\ n < Uint \div 2 /\ n < Uint /\ Uint \div 2 \in Nat /\ Uint \div 2 > 0
  <2>1. Uint \in Nat /\ Uint >= 1024 /\ MaxMoved \in Nat /\ MaxMoved < Uint \div 2
    BY UintType, SmallNumbers, TrafficAssumption, TrafficWireAssumption
  <2>2. QED
    BY <2>1
<1>2. CASE m = <<>> /\ n = 0
  <2> DEFINE ps == <<>>
             list == [i \in DOMAIN ps |-> UnmarshalStat(ps[i])]
  <2>1. ps \in Seq(Texts) /\ DOMAIN ps = {} /\ Elements(1, ps) = <<>> /\ list = <<>>
    BY DEF Elements
  <2>2. Carries(m, Elements(1, ps))
    BY <1>2, <2>1, CarriesNone
  <2>3. \A i \in DOMAIN ps : UnmarshalStat(ps[i]).ok = TRUE
    BY <2>1
  <2> HIDE DEF ps
  <2>4. UnmarshalQueryStatsResponse(m) = Response(list)
    BY <2>1, <2>2, <2>3, ResponseOf
  <2>5. Response(list).ok = TRUE /\ Response(list).stats = <<>>
    BY <2>1 DEF Response
  <2>6. FirstValue(Response(list)) = 0
    BY <2>5 DEF FirstValue
  <2>7. QED
    BY <1>2, <2>4, <2>6 DEF queryStats
<1>3. CASE ~(m = <<>> /\ n = 0)
  <2>1. PICK y \in Texts, xs \in Seq(Foreign), nameFirst \in BOOLEAN :
           m = appendElement(1, y) /\ y = StatBytes(n, FlattenSeq(xs), nameFirst)
    BY <1>3 DEF Messages
  <2> DEFINE st == Stat(Name, n)
             ps == <<y>>
             list == [i \in DOMAIN ps |-> UnmarshalStat(ps[i])]
  <2>2. UnmarshalStat(y) = st
    BY <1>1, <2>1, StatBytesRead
  <2>3. ps \in Seq(Texts) /\ DOMAIN ps = {1} /\ ps[1] = y
    OBVIOUS
  <2>4. Carries(m, Elements(1, ps))
    <3>1. Carries(appendElement(1, y), <<FieldOf(1, wireBytes, y)>>)
      <4>1. y \in Bytes /\ Len(y) < Uint /\ Numbered(1, wireBytes)
        BY SmallFields DEF Texts, wireBytes
      <4>2. QED
        BY <4>1, ElementCarries
    <3>2. Elements(1, ps) = <<FieldOf(1, wireBytes, y)>>
      BY DEF Elements
    <3>3. QED
      BY <2>1, <3>1, <3>2
  <2> HIDE DEF ps
  <2>5. st.ok = TRUE /\ st.value = n
    BY DEF Stat
  <2> HIDE DEF st
  <2>6. \A i \in DOMAIN ps : UnmarshalStat(ps[i]).ok = TRUE
    BY <2>2, <2>3, <2>5
  <2>7. UnmarshalQueryStatsResponse(m) = Response(list)
    BY <2>3, <2>4, <2>6, ResponseOf
  <2>8. DOMAIN list = {1} /\ list[1] = st
    BY <2>2, <2>3
  <2> HIDE DEF list
  <2>9. list # <<>>
    <3>1. DOMAIN <<>> = {}
      OBVIOUS
    <3>2. QED
      BY <2>8, <3>1
  <2>10. Response(list).ok = TRUE /\ Response(list).stats = list
    BY DEF Response
  <2>11. FirstValue(Response(list)) = n
    <3>1. ~(Response(list).stats = <<>> \/ Response(list).stats[1].value >= Uint \div 2)
      BY <1>1, <2>5, <2>8, <2>9, <2>10
    <3>2. QED
      BY <2>5, <2>8, <2>10, <3>1 DEF FirstValue
  <2>12. QED
    BY <2>7, <2>11 DEF queryStats
<1>4. QED
  BY <1>2, <1>3

-----------------------------------------------------------------------------
\* Observing v now and the counter next does not count too much.
Safe(t, d, v) ==
    exported[t][d] + deltaCounter(last[t][d], v) + deltaCounter(v, counters[t][d]) <= moved[t][d]

\* The counter is safe.
CounterInv ==
    \A t \in Tag, d \in Dir :
        exported[t][d] + deltaCounter(last[t][d], counters[t][d]) <= moved[t][d]

\* Every value on its way to the collector is safe.
PendingInv ==
    /\ \A t \in DOMAIN stats, d \in Dir : Safe(t, d, stats[t][d])
    /\ dir = "down" => Safe(tag, "up", up)
    /\ lpc = "reply" => Safe(tag, dir, sent)

\* The invariant for NeverOvercounts.
TrafficInv == TypeOK /\ CounterInv /\ PendingInv

\* Between the last value and the counter.
Between(t, d, v) == last[t][d] <= v /\ v <= counters[t][d]

\* Until sing-box restarts, no value on its way is behind the last one observed.
FirstRunInv ==
    restarts = 0 =>
        /\ exported = last
        /\ \A t \in Tag, d \in Dir : last[t][d] <= counters[t][d]
        /\ \A t \in DOMAIN stats, d \in Dir : Between(t, d, stats[t][d])
        /\ dir = "down" => Between(tag, "up", up)
        /\ lpc = "reply" => Between(tag, dir, sent)
-----------------------------------------------------------------------------
USE TrafficAssumption DEF Dir, PerTag, Zero, NoStats, singboxVars, roundVars, collectorVars

\* deltaCounter is a number of bytes, at most the value read; a value twice gives
\* nothing the second time.
LEMMA DeltaBasics ==
    \A p, c \in Nat : deltaCounter(p, c) \in Nat /\ deltaCounter(p, c) <= c /\ deltaCounter(c, c) = 0
BY DEF deltaCounter

\* n more bytes add at most n, whether or not the counter passes the last value.
LEMMA DeltaGrows ==
    \A p, c, n \in Nat : deltaCounter(p, c + n) <= deltaCounter(p, c) + n
BY DEF deltaCounter

\* A counter that starts again adds nothing yet.
LEMMA DeltaZero == \A p \in Nat : deltaCounter(p, 0) = 0
BY DEF deltaCounter

\* Traffic through an inbound moves as many bytes as it counts.
LEMMA TransferKeeps ==
    ASSUME TrafficInv, NEW t \in Tag, NEW d \in Dir, Transfer(t, d)
    PROVE  TrafficInv'
<1> USE DEF TrafficInv
<1>1. PICK n \in Amounts :
        /\ counters' = [counters EXCEPT ![t][d] = @ + n]
        /\ moved' = [moved EXCEPT ![t][d] = @ + n]
  BY DEF Transfer
<1>2. n \in Nat
  OBVIOUS
<1>3. TypeOK'
  BY <1>1, <1>2 DEF Transfer, TypeOK
<1>4. \A s \in Tag, e \in Dir : \E k \in Nat :
        /\ counters'[s][e] = counters[s][e] + k
        /\ moved'[s][e] = moved[s][e] + k
  <2> TAKE s \in Tag, e \in Dir
  <2>1. CASE s = t /\ e = d
    BY <1>1, <1>2, <2>1 DEF TypeOK
  <2>2. CASE ~(s = t /\ e = d)
    <3>1. counters'[s][e] = counters[s][e] /\ moved'[s][e] = moved[s][e]
      BY <1>1, <2>2 DEF TypeOK
    <3>2. counters[s][e] \in Nat /\ moved[s][e] \in Nat
      BY DEF TypeOK
    <3>3. QED
      BY <3>1, <3>2
  <2>3. QED
    BY <2>1, <2>2
<1>5. \A s \in Tag, e \in Dir, v \in Nat : Safe(s, e, v) => Safe(s, e, v)'
  <2> TAKE s \in Tag, e \in Dir, v \in Nat
  <2> HAVE Safe(s, e, v)
  <2>1. PICK k \in Nat : /\ counters'[s][e] = counters[s][e] + k
                         /\ moved'[s][e] = moved[s][e] + k
    BY <1>4
  <2>2. deltaCounter(v, counters'[s][e]) <= deltaCounter(v, counters[s][e]) + k
    <3>1. counters[s][e] \in Nat
      BY DEF TypeOK
    <3>2. QED
      BY <2>1, <3>1, DeltaGrows
  <2>3. /\ exported[s][e] \in Nat /\ moved[s][e] \in Nat /\ last[s][e] \in Nat
        /\ counters[s][e] \in Nat /\ counters'[s][e] \in Nat
    BY <1>3 DEF TypeOK
  <2>4. /\ deltaCounter(last[s][e], v) \in Nat
        /\ deltaCounter(v, counters[s][e]) \in Nat
        /\ deltaCounter(v, counters'[s][e]) \in Nat
    BY <2>3, DeltaBasics
  <2>5. exported' = exported /\ last' = last
    BY DEF Transfer
  <2>6. QED
    BY <2>1, <2>2, <2>3, <2>4, <2>5 DEF Safe
<1>6. CounterInv'
  <2> SUFFICES ASSUME NEW s \in Tag, NEW e \in Dir
               PROVE  exported'[s][e] + deltaCounter(last'[s][e], counters'[s][e]) <= moved'[s][e]
    BY DEF CounterInv
  <2>1. PICK k \in Nat : /\ counters'[s][e] = counters[s][e] + k
                         /\ moved'[s][e] = moved[s][e] + k
    BY <1>4
  <2>2. deltaCounter(last[s][e], counters'[s][e]) <= deltaCounter(last[s][e], counters[s][e]) + k
    <3>1. counters[s][e] \in Nat /\ last[s][e] \in Nat
      BY DEF TypeOK
    <3>2. QED
      BY <2>1, <3>1, DeltaGrows
  <2>3. /\ exported[s][e] \in Nat /\ moved[s][e] \in Nat /\ last[s][e] \in Nat
        /\ counters[s][e] \in Nat /\ counters'[s][e] \in Nat
    BY <1>3 DEF TypeOK
  <2>4. /\ deltaCounter(last[s][e], counters[s][e]) \in Nat
        /\ deltaCounter(last[s][e], counters'[s][e]) \in Nat
    BY <2>3, DeltaBasics
  <2>5. exported' = exported /\ last' = last
    BY DEF Transfer
  <2>6. exported[s][e] + deltaCounter(last[s][e], counters[s][e]) <= moved[s][e]
    BY DEF CounterInv
  <2>7. QED
    BY <2>1, <2>2, <2>3, <2>4, <2>5, <2>6
<1>7. PendingInv'
  BY <1>5 DEF PendingInv, Transfer, TypeOK
<1>8. QED
  BY <1>3, <1>6, <1>7

\* After a restart of sing-box what is pending can only count too little.
LEMMA RestartKeeps ==
    ASSUME TrafficInv, Restart
    PROVE  TrafficInv'
<1> USE DEF TrafficInv
<1>1. TypeOK'
  BY DEF Restart, TypeOK
<1>2. \A s \in Tag, e \in Dir, v \in Nat : Safe(s, e, v) => Safe(s, e, v)'
  <2> TAKE s \in Tag, e \in Dir, v \in Nat
  <2> HAVE Safe(s, e, v)
  <2>1. deltaCounter(v, counters'[s][e]) = 0
    BY DeltaZero DEF Restart
  <2>2. /\ exported[s][e] \in Nat /\ moved[s][e] \in Nat
        /\ deltaCounter(last[s][e], v) \in Nat
        /\ deltaCounter(v, counters[s][e]) \in Nat
    BY DeltaBasics DEF TypeOK
  <2>3. exported' = exported /\ last' = last /\ moved' = moved
    BY DEF Restart
  <2>4. QED
    BY <2>1, <2>2, <2>3 DEF Safe
<1>3. CounterInv'
  <2> SUFFICES ASSUME NEW s \in Tag, NEW e \in Dir
               PROVE  exported'[s][e] + deltaCounter(last'[s][e], counters'[s][e]) <= moved'[s][e]
    BY DEF CounterInv
  <2>1. deltaCounter(last[s][e], counters'[s][e]) = 0
    BY DeltaZero DEF Restart, TypeOK
  <2>2. /\ exported[s][e] \in Nat /\ moved[s][e] \in Nat
        /\ deltaCounter(last[s][e], counters[s][e]) \in Nat
    BY DeltaBasics DEF TypeOK
  <2>3. exported' = exported /\ last' = last /\ moved' = moved
    BY DEF Restart
  <2>4. exported[s][e] + deltaCounter(last[s][e], counters[s][e]) <= moved[s][e]
    BY DEF CounterInv
  <2>5. QED
    BY <2>1, <2>2, <2>3, <2>4
<1>4. PendingInv'
  BY <1>2 DEF PendingInv, Restart, TypeOK
<1>5. QED
  BY <1>1, <1>3, <1>4
-----------------------------------------------------------------------------
\* The steps that only begin or give up a round read nothing.
LEMMA RoundKeeps ==
    ASSUME TrafficInv, BeginRound \/ RoundFails \/ QueryFails
    PROVE  TrafficInv'
<1> USE DEF TrafficInv, BeginRound, RoundFails, QueryFails
<1>1. TypeOK'
  BY DEF TypeOK, Failure
<1>2. UNCHANGED <<counters, exported, last, moved, stats, sent>>
  OBVIOUS
<1>3. CounterInv'
  BY <1>2 DEF CounterInv
<1>4. PendingInv'
  BY <1>2 DEF PendingInv, Safe
<1>5. QED
  BY <1>1, <1>3, <1>4

\* A value is safe at the moment sing-box sends it: it is the counter itself.
LEMMA QueryKeeps ==
    ASSUME TrafficInv, Query
    PROVE  TrafficInv'
<1> USE DEF TrafficInv
<1>1. tag' \in Tag /\ (dir = "down" => tag' = tag)
  BY DEF Query, TypeOK
<1>2. sent' = counters[tag'][dir] /\ sent' \in Nat
  BY <1>1 DEF Query, TypeOK
<1>3. TypeOK'
  BY <1>1, <1>2 DEF Query, TypeOK
<1>4. UNCHANGED <<counters, exported, last, moved, stats, up, dir>>
  BY DEF Query
<1>5. CounterInv'
  BY <1>4 DEF CounterInv
<1>6. Safe(tag, dir, sent)'
  <2>1. deltaCounter(sent', counters[tag'][dir]) = 0
    BY <1>2, DeltaBasics
  <2>2. exported[tag'][dir] + deltaCounter(last[tag'][dir], sent') <= moved[tag'][dir]
    BY <1>1, <1>2 DEF CounterInv, TypeOK
  <2>3. /\ exported[tag'][dir] \in Nat
        /\ deltaCounter(last[tag'][dir], sent') \in Nat
    BY <1>1, <1>2, DeltaBasics DEF TypeOK
  <2>4. QED
    BY <1>4, <2>1, <2>2, <2>3 DEF Safe
<1>7. PendingInv'
  BY <1>1, <1>4, <1>6 DEF PendingInv, Safe
<1>8. QED
  BY <1>3, <1>5, <1>7

\* The value read is the value sent, so it stays safe on its way into stats.
LEMMA DecodeKeeps ==
    ASSUME TrafficInv, DecodesWhatWasSent, Decode
    PROVE  TrafficInv'
<1> USE DEF TrafficInv
<1>1. Value[reply] = sent /\ sent \in Nat /\ Value[reply] # NoValue
  BY DEF DecodesWhatWasSent, Decode, TypeOK
<1>2. UNCHANGED <<counters, exported, last, moved, tag>> /\ lpc' = "query"
  BY DEF Decode
<1>3. CounterInv'
  BY <1>2 DEF CounterInv
<1>4. Safe(tag, dir, sent)
  BY DEF PendingInv, Decode
<1>5. CASE dir = "up"
  <2>1. up' = sent /\ dir' = "down" /\ UNCHANGED <<todo, stats>> /\ sent' = 0
    BY <1>1, <1>5 DEF Decode
  <2>2. TypeOK'
    BY <1>1, <2>1 DEF Decode, TypeOK
  <2>3. PendingInv'
    BY <1>2, <1>4, <1>5, <2>1 DEF PendingInv, Safe
  <2>4. QED
    BY <1>3, <2>2, <2>3
<1>6. CASE dir = "down"
  <2>1. /\ stats' = [t \in DOMAIN stats \cup {tag} |->
                       IF t = tag THEN [d \in Dir |-> IF d = "up" THEN up ELSE sent] ELSE stats[t]]
        /\ todo' = todo \ {tag} /\ up' = 0 /\ dir' = "up" /\ sent' = 0
    BY <1>1, <1>6 DEF Decode
  <2>2. TypeOK'
    <3>1. DOMAIN stats' \subseteq Tag /\ stats' \in [DOMAIN stats' -> [Dir -> Nat]]
      BY <1>1, <2>1 DEF TypeOK
    <3>2. QED
      BY <2>1, <3>1 DEF Decode, TypeOK
  <2>3. \A t \in DOMAIN stats', d \in Dir : Safe(t, d, stats'[t][d])
    BY <1>4, <1>6, <2>1 DEF PendingInv
  <2>4. PendingInv'
    BY <1>2, <2>1, <2>3 DEF PendingInv, Safe
  <2>5. QED
    BY <1>3, <2>2, <2>4
<1>7. QED
  BY <1>5, <1>6 DEF TypeOK

\* Observing safe values counts nothing too much, and leaves none pending.
LEMMA ObserveKeeps ==
    ASSUME TrafficInv, Observe
    PROVE  TrafficInv'
<1> USE DEF TrafficInv
<1>1. UNCHANGED <<counters, moved, dir>> /\ lpc' = "idle" /\ stats' = NoStats /\ dir = "up"
  BY DEF Observe
<1>2. \A t \in Tag, d \in Dir :
        /\ exported'[t][d] = exported[t][d] +
             IF t \in DOMAIN stats THEN deltaCounter(last[t][d], stats[t][d]) ELSE 0
        /\ last'[t][d] = IF t \in DOMAIN stats THEN stats[t][d] ELSE last[t][d]
  BY DEF Observe, TypeOK
<1>3. \A t \in DOMAIN stats, d \in Dir :
        /\ t \in Tag
        /\ stats[t][d] \in Nat
        /\ deltaCounter(last[t][d], stats[t][d]) \in Nat
  BY DeltaBasics DEF TypeOK
<1>4. TypeOK'
  <2>1. exported' \in PerTag(Nat)
    <3>1. exported' = [t \in Tag |-> [d \in Dir |->
            exported[t][d] + IF t \in DOMAIN stats THEN deltaCounter(last[t][d], stats[t][d]) ELSE 0]]
      BY DEF Observe
    <3>2. \A t \in Tag, d \in Dir :
            exported[t][d] + (IF t \in DOMAIN stats THEN deltaCounter(last[t][d], stats[t][d]) ELSE 0) \in Nat
      BY <1>3 DEF TypeOK
    <3>3. QED
      BY <3>1, <3>2
  <2>2. last' \in PerTag(Nat)
    BY DEF Observe, TypeOK
  <2>3. QED
    BY <1>1, <2>1, <2>2 DEF Observe, TypeOK
<1>5. CounterInv'
  <2> SUFFICES ASSUME NEW t \in Tag, NEW d \in Dir
               PROVE  exported'[t][d] + deltaCounter(last'[t][d], counters[t][d]) <= moved[t][d]
    BY <1>1 DEF CounterInv
  <2>1. CASE t \in DOMAIN stats
    <3>1. Safe(t, d, stats[t][d])
      BY <2>1 DEF PendingInv
    <3>2. QED
      BY <1>2, <2>1, <3>1 DEF Safe
  <2>2. CASE t \notin DOMAIN stats
    <3>1. exported'[t][d] = exported[t][d] /\ last'[t][d] = last[t][d]
      BY <1>2, <2>2 DEF TypeOK
    <3>2. QED
      BY <3>1 DEF CounterInv
  <2>3. QED
    BY <2>1, <2>2
<1>6. PendingInv'
  BY <1>1 DEF PendingInv
<1>7. QED
  BY <1>4, <1>5, <1>6
-----------------------------------------------------------------------------
\* Before the first round nothing is counted and nothing pending.
LEMMA InitTraffic == Init => TrafficInv
<1> SUFFICES ASSUME Init
             PROVE  TrafficInv
  OBVIOUS
<1>1. TypeOK
  BY DEF Init, TypeOK
<1>2. CounterInv
  BY DeltaZero DEF Init, CounterInv
<1>3. PendingInv
  BY DEF Init, PendingInv
<1>4. QED
  BY <1>1, <1>2, <1>3 DEF TrafficInv

\* Every step keeps the invariant, as long as values are decoded as sent.
LEMMA StepTraffic ==
    ASSUME TrafficInv, DecodesWhatWasSent, [Next]_vars
    PROVE  TrafficInv'
<1>1. CASE UNCHANGED vars
  BY <1>1 DEF vars, TrafficInv, TypeOK, CounterInv, PendingInv, Safe
<1>2. ASSUME NEW t \in Tag, NEW d \in Dir, Transfer(t, d)
      PROVE  TrafficInv'
  BY <1>2, TransferKeeps
<1>3. QED
  BY <1>1, <1>2, RestartKeeps, RoundKeeps, QueryKeeps, DecodeKeeps, ObserveKeeps
     DEF Next, Round

\* However often sing-box restarts and whenever queries fail, ObserveInbounds never
\* exports more bytes than were moved, provided the codec returns what was sent.
THEOREM CollectorNeverOvercounts == Spec /\ []DecodesWhatWasSent => []NeverOvercounts
<1>1. TrafficInv /\ DecodesWhatWasSent /\ [Next]_vars => TrafficInv'
  BY StepTraffic
<1>2. TrafficInv => NeverOvercounts
  <2> SUFFICES ASSUME TrafficInv, NEW t \in Tag, NEW d \in Dir
               PROVE  exported[t][d] <= moved[t][d]
    BY DEF NeverOvercounts
  <2>1. exported[t][d] + deltaCounter(last[t][d], counters[t][d]) <= moved[t][d]
    BY DEF TrafficInv, CounterInv
  <2>2. /\ exported[t][d] \in Nat /\ moved[t][d] \in Nat
        /\ deltaCounter(last[t][d], counters[t][d]) \in Nat
    BY DeltaBasics DEF TrafficInv, TypeOK
  <2>3. QED
    BY <2>1, <2>2
<1>3. QED
  BY <1>1, <1>2, InitTraffic, PTL DEF Spec

\* Every variable of the collector keeps its type under the same condition.
THEOREM TrafficTypeCorrect == Spec /\ []DecodesWhatWasSent => []TypeOK
<1>1. TrafficInv /\ DecodesWhatWasSent /\ [Next]_vars => TrafficInv'
  BY StepTraffic
<1>2. TrafficInv => TypeOK
  BY DEF TrafficInv
<1>3. QED
  BY <1>1, <1>2, InitTraffic, PTL DEF Spec
-----------------------------------------------------------------------------
\* As long as sing-box runs on, counters and values only grow.
LEMMA FirstRunKept ==
    ASSUME TrafficInv, FirstRunInv, DecodesWhatWasSent, [Next]_vars
    PROVE  FirstRunInv'
<1> SUFFICES ASSUME restarts' = 0
             PROVE  FirstRunInv'
  BY DEF FirstRunInv
<1> USE DEF TrafficInv
<1>1. CASE UNCHANGED vars
  BY <1>1 DEF vars, FirstRunInv, Between
<1>2. ASSUME NEW t \in Tag, NEW d \in Dir, Transfer(t, d)
      PROVE  FirstRunInv'
  <2>1. \A s \in Tag, e \in Dir : /\ counters[s][e] \in Nat
                                  /\ counters'[s][e] \in Nat
                                  /\ counters[s][e] <= counters'[s][e]
    BY <1>2 DEF Transfer, TypeOK
  <2>2. UNCHANGED <<restarts, exported, last, stats, dir, tag, up, lpc, sent>>
    BY <1>2 DEF Transfer
  <2>3. \A s \in Tag, e \in Dir, v \in Nat : Between(s, e, v) => Between(s, e, v)'
    BY <2>1, <2>2 DEF Between, TypeOK
  <2>4. \A s \in Tag, e \in Dir : last'[s][e] <= counters'[s][e]
    BY <2>1, <2>2 DEF FirstRunInv, TypeOK
  <2>5. QED
    BY <2>2, <2>3, <2>4 DEF FirstRunInv, TypeOK
<1>3. CASE Restart
  BY <1>3 DEF Restart, TypeOK
<1>4. CASE BeginRound \/ RoundFails \/ QueryFails
  <2>1. UNCHANGED <<restarts, exported, last, counters, stats, sent>>
    BY <1>4 DEF BeginRound, RoundFails, QueryFails
  <2>2. QED
    BY <1>4, <2>1 DEF BeginRound, RoundFails, QueryFails, FirstRunInv, Between
<1>5. CASE Query
  <2>1. tag' \in Tag /\ (dir = "down" => tag' = tag)
    BY <1>5 DEF Query, TypeOK
  <2>2. UNCHANGED <<restarts, exported, last, counters, stats, up, dir>>
    BY <1>5 DEF Query
  <2>3. Between(tag, dir, sent)'
    BY <1>5, <2>1, <2>2 DEF Query, Between, FirstRunInv, TypeOK
  <2>4. QED
    BY <2>1, <2>2, <2>3 DEF FirstRunInv, Between
<1>6. CASE Decode
  <2>1. Value[reply] = sent /\ Value[reply] # NoValue /\ lpc = "reply"
    BY <1>6 DEF DecodesWhatWasSent, Decode, TypeOK
  <2>2. UNCHANGED <<restarts, exported, last, counters, tag>> /\ lpc' = "query"
    BY <1>6 DEF Decode
  <2>3. Between(tag, dir, sent)
    BY <2>1, <2>2 DEF FirstRunInv
  <2>4. CASE dir = "up"
    BY <1>6, <2>1, <2>2, <2>3, <2>4 DEF Decode, FirstRunInv, Between
  <2>5. CASE dir = "down"
    <3>1. /\ stats' = [t \in DOMAIN stats \cup {tag} |->
                         IF t = tag THEN [d \in Dir |-> IF d = "up" THEN up ELSE sent] ELSE stats[t]]
          /\ dir' = "up"
      BY <1>6, <2>1, <2>5 DEF Decode
    <3>2. \A t \in DOMAIN stats', d \in Dir : Between(t, d, stats'[t][d])
      BY <2>2, <2>3, <2>5, <3>1 DEF FirstRunInv
    <3>3. QED
      BY <2>2, <3>1, <3>2 DEF FirstRunInv, Between
  <2>6. QED
    BY <2>4, <2>5 DEF TypeOK
<1>7. CASE Observe
  <2>1. UNCHANGED <<restarts, counters, dir>> /\ lpc' = "idle" /\ stats' = NoStats /\ dir = "up"
    BY <1>7 DEF Observe
  <2>2. \A t \in DOMAIN stats, d \in Dir :
          /\ last[t][d] \in Nat /\ stats[t][d] \in Nat
          /\ last[t][d] <= stats[t][d] /\ stats[t][d] <= counters[t][d]
    <3>1. \A t \in DOMAIN stats, d \in Dir : last[t][d] \in Nat /\ stats[t][d] \in Nat
      BY DEF TypeOK
    <3>2. \A t \in DOMAIN stats, d \in Dir : Between(t, d, stats[t][d])
      BY <2>1 DEF FirstRunInv
    <3>3. QED
      BY <3>1, <3>2 DEF Between
  <2>3. \A t \in Tag, d \in Dir :
          /\ exported'[t][d] = exported[t][d] +
               IF t \in DOMAIN stats THEN deltaCounter(last[t][d], stats[t][d]) ELSE 0
          /\ last'[t][d] = IF t \in DOMAIN stats THEN stats[t][d] ELSE last[t][d]
    BY <1>7 DEF Observe, TypeOK
  <2>4. \A t \in Tag, d \in Dir : exported[t][d] = last[t][d] /\ last[t][d] \in Nat
    <3>1. exported = last
      BY <2>1 DEF FirstRunInv
    <3>2. \A t \in Tag, d \in Dir : last[t][d] \in Nat
      BY DEF TypeOK
    <3>3. QED
      BY <3>1, <3>2
  <2>5. \A t \in Tag, d \in Dir : exported'[t][d] = last'[t][d]
    BY <2>2, <2>3, <2>4 DEF deltaCounter
  <2>6. exported' \in PerTag(Nat) /\ last' \in PerTag(Nat)
    BY <1>7, ObserveKeeps DEF TypeOK
  <2>7. exported' = last'
    BY <2>5, <2>6
  <2>8. \A t \in Tag, d \in Dir : last'[t][d] <= counters'[t][d]
    BY <2>1, <2>2, <2>3 DEF FirstRunInv
  <2>9. QED
    BY <2>1, <2>7, <2>8 DEF FirstRunInv
<1>8. QED
  BY <1>1, <1>2, <1>3, <1>4, <1>5, <1>6, <1>7 DEF Next, Round

\* Until sing-box restarts, the exported counters equal the values last observed:
\* failing queries and rounds delay bytes but lose none.
THEOREM CollectorExactUntilRestart == Spec /\ []DecodesWhatWasSent => []ExactUntilRestart
<1>1. Init => FirstRunInv
  BY DEF Init, FirstRunInv
<1>2. TrafficInv /\ DecodesWhatWasSent /\ [Next]_vars => TrafficInv'
  BY StepTraffic
<1>3. TrafficInv /\ FirstRunInv /\ DecodesWhatWasSent /\ [Next]_vars => FirstRunInv'
  BY FirstRunKept
<1>4. FirstRunInv => ExactUntilRestart
  BY DEF FirstRunInv, ExactUntilRestart
<1>5. QED
  BY <1>1, <1>2, <1>3, <1>4, InitTraffic, PTL DEF Spec

-----------------------------------------------------------------------------
\* What travels is what the service and the codec make it.
Wired ==
    \A n \in 0..MaxMoved : \A m \in Replies[n] : m \in Messages(n) /\ Value[m] = queryStats(m)

\* sing-box counts no more than was moved, which the bound limits.
MovedInv == \A t \in Tag, d \in Dir : counters[t][d] <= moved[t][d] /\ moved[t][d] <= MaxMoved
\* The reply under way is one for the value sent.
ReplyInv == lpc = "reply" => sent \in 0..MaxMoved /\ reply \in Replies[sent]
\* All that the wire and the collector keep.
WireInv == TrafficInv /\ FirstRunInv /\ MovedInv /\ ReplyInv

\* The codec reads such a reply as the value that was sent.
LEMMA ReplyDecodes == Wired /\ ReplyInv => DecodesWhatWasSent
<1> SUFFICES ASSUME Wired, ReplyInv, lpc = "reply" PROVE Value[reply] = sent
  BY DEF DecodesWhatWasSent
<1>1. sent \in 0..MaxMoved /\ reply \in Replies[sent]
  BY DEF ReplyInv
<1>2. reply \in Messages(sent) /\ Value[reply] = queryStats(reply)
  BY <1>1 DEF Wired
<1>3. QED
  BY <1>1, <1>2, ServiceRead

\* It holds at the start.
LEMMA InitWire == Init => WireInv
<1>1. Init => FirstRunInv
  BY DEF Init, FirstRunInv
<1>2. Init => MovedInv
  BY DEF Init, MovedInv
<1>3. Init => ReplyInv
  BY DEF Init, ReplyInv
<1>4. QED
  BY <1>1, <1>2, <1>3, InitTraffic DEF WireInv

\* Every step keeps it.
LEMMA StepWire == Wired /\ WireInv /\ [Next]_vars => WireInv'
<1> SUFFICES ASSUME Wired, WireInv, [Next]_vars PROVE WireInv'
  OBVIOUS
<1>1. TrafficInv /\ FirstRunInv /\ MovedInv /\ ReplyInv /\ TypeOK
  BY DEF WireInv, TrafficInv
<1>2. DecodesWhatWasSent
  BY <1>1, ReplyDecodes
<1>3. TrafficInv' /\ FirstRunInv'
  BY <1>1, <1>2, StepTraffic, FirstRunKept
<1>4. MovedInv'
  <2>1. CASE UNCHANGED <<counters, moved>>
    BY <1>1, <2>1 DEF MovedInv
  <2>2. ASSUME NEW t \in Tag, NEW d \in Dir, Transfer(t, d)
        PROVE  MovedInv'
    <3>1. PICK k \in Amounts :
             /\ moved[t][d] + k <= MaxMoved
             /\ counters' = [counters EXCEPT ![t][d] = @ + k]
             /\ moved' = [moved EXCEPT ![t][d] = @ + k]
      BY <2>2 DEF Transfer
    <3>2. ASSUME NEW s \in Tag, NEW e \in Dir
          PROVE  counters'[s][e] <= moved'[s][e] /\ moved'[s][e] <= MaxMoved
      <4>1. counters[s][e] <= moved[s][e] /\ moved[s][e] <= MaxMoved
        BY <1>1 DEF MovedInv
      <4>2. counters[s][e] \in Nat /\ moved[s][e] \in Nat /\ k \in Nat
        BY <1>1 DEF TypeOK
      <4>3. CASE s = t /\ e = d
        <5>1. counters'[s][e] = counters[s][e] + k /\ moved'[s][e] = moved[s][e] + k
          BY <1>1, <3>1, <4>3 DEF TypeOK
        <5>2. QED
          BY <3>1, <4>1, <4>2, <4>3, <5>1
      <4>4. CASE ~(s = t /\ e = d)
        <5>1. counters'[s][e] = counters[s][e] /\ moved'[s][e] = moved[s][e]
          BY <1>1, <3>1, <4>4 DEF TypeOK
        <5>2. QED
          BY <4>1, <5>1
      <4>5. QED
        BY <4>3, <4>4
    <3>3. QED
      BY <3>2 DEF MovedInv
  <2>3. CASE Restart
    <3>1. counters' = Zero /\ moved' = moved
      BY <2>3 DEF Restart
    <3>2. \A s \in Tag, e \in Dir : counters'[s][e] = 0 /\ moved[s][e] \in Nat
      BY <1>1, <3>1 DEF TypeOK
    <3>3. QED
      BY <1>1, <3>1, <3>2 DEF MovedInv
  <2>4. CASE RoundFails \/ QueryFails \/ Round \/ UNCHANGED vars
    <3>1. UNCHANGED <<counters, moved>>
      BY <2>4 DEF RoundFails, QueryFails, Round, BeginRound, Query, Decode, Observe, vars
    <3>2. QED
      BY <2>1, <3>1
  <2>5. QED
    BY <2>2, <2>3, <2>4 DEF Next
<1>5. ReplyInv'
  <2>1. CASE UNCHANGED <<lpc, sent, reply>>
    BY <1>1, <2>1 DEF ReplyInv
  <2>2. CASE lpc' # "reply"
    BY <2>2 DEF ReplyInv
  <2>3. CASE Query
    <3>1. sent' = counters[tag'][dir] /\ reply' \in Replies[sent'] /\ tag' \in Tag /\ dir \in Dir
      BY <1>1, <2>3 DEF Query, TypeOK
    <3>2. counters[tag'][dir] \in Nat /\ moved[tag'][dir] \in Nat
      BY <1>1, <3>1 DEF TypeOK
    <3>3. counters[tag'][dir] <= moved[tag'][dir] /\ moved[tag'][dir] <= MaxMoved
      BY <1>1, <3>1 DEF MovedInv
    <3>4. QED
      BY <3>1, <3>2, <3>3 DEF ReplyInv
  <2>4. CASE RoundFails \/ Restart \/ UNCHANGED vars \/ \E t \in Tag, d \in Dir : Transfer(t, d)
    <3>1. UNCHANGED <<lpc, sent, reply>>
      BY <2>4 DEF RoundFails, Restart, vars, Transfer
    <3>2. QED
      BY <2>1, <3>1
  <2>5. CASE QueryFails \/ BeginRound \/ Decode \/ Observe
    <3>1. lpc' # "reply"
      BY <2>5 DEF QueryFails, BeginRound, Decode, Observe
    <3>2. QED
      BY <2>2, <3>1
  <2>6. QED
    BY <2>3, <2>4, <2>5 DEF Next, Round
<1>6. QED
  BY <1>3, <1>4, <1>5 DEF WireInv

\* The agent reads the value that sing-box's counter had when it was asked, whatever
\* the order of the fields of the message and whatever unknown fields it has.
THEOREM AgentDecodesWhatWasSent == ASSUME Wired PROVE Spec => []DecodesWhatWasSent
<1>1. Init => WireInv
  BY InitWire
<1>2. WireInv /\ [Next]_vars => WireInv'
  BY StepWire
<1>3. WireInv => DecodesWhatWasSent
  BY ReplyDecodes DEF WireInv
<1>4. QED
  BY <1>1, <1>2, <1>3, PTL DEF Spec

\* With the codec below it, the collector never counts bytes that were not moved, and
\* misses none as long as sing-box runs.
THEOREM CollectorOverTheWire ==
    ASSUME Wired PROVE Spec => [](TypeOK /\ NeverOvercounts /\ ExactUntilRestart)
<1>1. Spec => []DecodesWhatWasSent
  BY AgentDecodesWhatWasSent
<1>2. Spec /\ []DecodesWhatWasSent => []TypeOK
  BY TrafficTypeCorrect
<1>3. Spec /\ []DecodesWhatWasSent => []NeverOvercounts
  BY CollectorNeverOvercounts
<1>4. Spec /\ []DecodesWhatWasSent => []ExactUntilRestart
  BY CollectorExactUntilRestart
<1>5. QED
  BY <1>1, <1>2, <1>3, <1>4, PTL
=============================================================================
