-------------------------- MODULE ConfigDataProofs --------------------------
(***************************************************************************)
(* What the operators of ConfigData do, for all documents: how a document  *)
(* is read, what the edits of the configuration manager change, and how    *)
(* far the steps of a plan and their rollback have taken a document.       *)
(***************************************************************************)
EXTENDS ConfigData, SequenceTheorems, FiniteSetTheorems, WellFoundedInduction, TLAPS

-----------------------------------------------------------------------------
(***************************************************************************)
(* Induction.  Every set of naturals has a least element; a fact about all *)
(* naturals is proved by looking at the least one it fails for.            *)
(***************************************************************************)
Below == {p \in Nat \X Nat : p[1] < p[2]}

\* Every non-empty set of natural numbers has a least element.
LEMMA Least ==
    ASSUME NEW T \in SUBSET Nat, T # {}
    PROVE  \E x \in T : \A y \in T : x <= y
<1>1. Below = OpToRel(<, Nat)
  BY DEF OpToRel, Below
<1>2. PICK x \in T : \A y \in T : ~ (<<y, x>> \in Below)
  BY <1>1, NatLessThanWellFounded, WFMin
<1>3. ASSUME NEW y \in T
      PROVE  x <= y
  <2>1. x \in Nat /\ y \in Nat
    OBVIOUS
  <2>2. y < x => <<y, x>> \in Below
    BY <2>1 DEF Below
  <2>3. QED
    BY <1>2, <2>1, <2>2
<1>4. QED
  BY <1>3

\* A set of naturals that holds 0 and, with every number below n, its successor,
\* holds all numbers up to n.
LEMMA Reaches ==
    ASSUME NEW n \in Nat, NEW T, 0 \in T, \A m \in 1..n : m - 1 \in T => m \in T
    PROVE  \A m \in 0..n : m \in T
<1> DEFINE Bad == {m \in 0..n : m \notin T}
<1> SUFFICES ASSUME Bad # {}
             PROVE  FALSE
  OBVIOUS
<1>1. PICK x \in Bad : \A y \in Bad : x <= y
  <2>1. Bad \in SUBSET Nat
    OBVIOUS
  <2>2. QED
    BY <2>1, Least
<1>2. x \in 1..n
  BY <1>1
<1>3. x - 1 \in T
  <2>1. x - 1 \in 0..n /\ ~(x <= x - 1)
    BY <1>2
  <2>2. x - 1 \notin Bad
    BY <1>1, <2>1
  <2>3. QED
    BY <2>1, <2>2
<1>4. QED
  BY <1>1, <1>2, <1>3

\* The least of some positions of a list is one of them.
LEMMA MinOfPositions ==
    ASSUME NEW n \in Nat, NEW I \in SUBSET (1..n), I # {}
    PROVE  Min(I) \in I
<1>1. \E x \in I : \A y \in I : x <= y
  BY Least
<1>2. QED
  BY <1>1 DEF Min
-----------------------------------------------------------------------------
(* Reading a document. *)

\* The index findInboundIndex returns is that of an inbound with the tag, or 0 when
\* there is none.
LEMMA FindInbound ==
    ASSUME NEW d \in Document, NEW tag
    PROVE  LET i == findInboundIndex(d, tag)
           IN  /\ i # 0 => i \in DOMAIN d.inbounds /\ d.inbounds[i].tag = tag
               /\ i = 0 => \A j \in DOMAIN d.inbounds : d.inbounds[j].tag # tag
<1> DEFINE I == {i \in 1..Len(d.inbounds) : d.inbounds[i].tag = tag}
<1>1. d.inbounds \in Seq(InboundMap)
  BY DEF Document
<1>2. findInboundIndex(d, tag) = IF I # {} THEN Min(I) ELSE 0
  BY DEF findInboundIndex, SelectInSeq
<1>3. Len(d.inbounds) \in Nat /\ DOMAIN d.inbounds = 1..Len(d.inbounds)
  BY <1>1
<1>4. I # {} => Min(I) \in I
  <2>1. I \in SUBSET (1..Len(d.inbounds))
    OBVIOUS
  <2>2. QED
    BY <1>3, <2>1, MinOfPositions
<1>5. CASE I = {}
  BY <1>2, <1>3, <1>5
<1>6. CASE I # {}
  <2>1. findInboundIndex(d, tag) \in I
    BY <1>2, <1>4, <1>6
  <2>2. QED
    BY <1>3, <2>1
<1>7. QED
  BY <1>5, <1>6

\* The index userIndex returns is that of an entry of the user, or 0.
LEMMA FindUserEntry ==
    ASSUME NEW us \in Seq(Entry), NEW sub
    PROVE  LET k == userIndex(us, sub)
           IN  /\ k # 0 => k \in DOMAIN us /\ us[k].sub = sub
               /\ k = 0 => \A j \in DOMAIN us : us[j].sub # sub
<1> DEFINE I == {k \in 1..Len(us) : us[k].sub = sub}
<1>1. userIndex(us, sub) = IF I # {} THEN Min(I) ELSE 0
  BY DEF userIndex, SelectInSeq
<1>2. Len(us) \in Nat /\ DOMAIN us = 1..Len(us)
  OBVIOUS
<1>3. I # {} => Min(I) \in I
  <2>1. I \in SUBSET (1..Len(us))
    OBVIOUS
  <2>2. QED
    BY <1>2, <2>1, MinOfPositions
<1>4. QED
  BY <1>1, <1>2, <1>3

\* The users of an inbound, wherever they lie, are a list.
LEMMA UsersAreAList ==
    ASSUME NEW ib \in InboundMap
    PROVE  getInboundUsers(ib) \in Seq(Entry)
BY ConfigDataAssumption DEF InboundMap, UserList, getInboundUsers

\* setInboundUsers writes a list where getInboundUsers finds it, and nothing else.
LEMMA UsersWrittenBack ==
    ASSUME NEW ib \in InboundMap, NEW us \in Seq(Entry)
    PROVE  /\ setInboundUsers(ib, us) \in InboundMap
           /\ setInboundUsers(ib, us).tag = ib.tag
           /\ getInboundUsers(setInboundUsers(ib, us)) = us
BY ConfigDataAssumption DEF InboundMap, UserList, getInboundUsers, setInboundUsers
-----------------------------------------------------------------------------
(* Lists built entry by entry. *)

KeepStep(s, kept, f, k) ==
    IF k = 0 THEN <<>>
    ELSE IF s[k] \in kept THEN Append(f[k - 1], s[k]) ELSE f[k - 1]

Keeps(S, s, kept, n) ==
    \E f \in [0..n -> Seq(S)] : \A k \in 0..n : f[k] = KeepStep(s, kept, f, k)

\* There is a function that gives what `only' has kept of the first k members.
LEMMA KeepExists ==
    ASSUME NEW S, NEW s \in Seq(S), NEW kept, NEW n \in 0..Len(s)
    PROVE  Keeps(S, s, kept, n)
<1> DEFINE T == {m \in Nat : m <= Len(s) =>
                   \E f \in [0..m -> Seq(S)] : \A k \in 0..m : f[k] = KeepStep(s, kept, f, k)}
<1>1. Len(s) \in Nat
  OBVIOUS
<1>2. 0 \in T
  <2>1. [k \in 0..0 |-> <<>>] \in [0..0 -> Seq(S)]
    OBVIOUS
  <2>2. \A k \in 0..0 : [j \in 0..0 |-> <<>>][k] = KeepStep(s, kept, [j \in 0..0 |-> <<>>], k)
    BY DEF KeepStep
  <2>3. QED
    BY <2>1, <2>2
<1>3. ASSUME NEW m \in 1..n, m - 1 \in T
      PROVE  m \in T
  <2>1. m \in Nat /\ m - 1 \in Nat /\ m <= Len(s) /\ m - 1 <= Len(s)
    BY <1>1
  <2>2. PICK f \in [0..(m - 1) -> Seq(S)] :
               \A k \in 0..(m - 1) : f[k] = KeepStep(s, kept, f, k)
    BY <1>3, <2>1
  <2> DEFINE g == [k \in 0..m |-> IF k = m THEN KeepStep(s, kept, f, m) ELSE f[k]]
  <2>3. s[m] \in S
    BY <2>1
  <2>4. KeepStep(s, kept, f, m) \in Seq(S)
    <3>1. f[m - 1] \in Seq(S)
      BY <2>1
    <3>2. QED
      BY <2>3, <3>1 DEF KeepStep
  <2>5. g \in [0..m -> Seq(S)]
    BY <2>1, <2>4
  <2>6. \A k \in 0..m : g[k] = KeepStep(s, kept, g, k)
    <3>1. ASSUME NEW k \in 0..m, k # 0
          PROVE  g[k - 1] = f[k - 1]
      BY <2>1, <3>1
    <3>2. ASSUME NEW k \in 0..m
          PROVE  KeepStep(s, kept, g, k) = KeepStep(s, kept, f, k)
      BY <3>1, <3>2 DEF KeepStep
    <3>3. ASSUME NEW k \in 0..m
          PROVE  g[k] = KeepStep(s, kept, f, k)
      BY <2>1, <2>2, <3>3
    <3>4. QED
      BY <3>2, <3>3
  <2>7. QED
    BY <2>1, <2>5, <2>6
<1>4. n \in T
  <2>1. n \in Nat /\ n \in 0..n
    BY <1>1
  <2> HIDE DEF T
  <2>2. QED
    BY <1>2, <1>3, <2>1, Reaches
<1>5. QED
  BY <1>1, <1>4 DEF Keeps

\* Appending an element adds it to the set of a sequence and nothing else.
LEMMA AppendedSet ==
    ASSUME NEW S, NEW s \in Seq(S), NEW x \in S
    PROVE  \A e : e \in ToSet(Append(s, x)) <=> e \in ToSet(s) \/ e = x
<1> DEFINE a == Append(s, x)
           l == Len(s)
<1>1. /\ l \in Nat /\ DOMAIN s = 1..l /\ DOMAIN a = 1..(l + 1)
      /\ a[l + 1] = x /\ \A i \in 1..l : a[i] = s[i]
  OBVIOUS
<1> HIDE DEF a, l
<1>2. 1..(l + 1) = 1..l \cup {l + 1}
  BY <1>1
<1>3. \A e : e \in ToSet(a) <=> \E i \in 1..(l + 1) : a[i] = e
  BY <1>1 DEF ToSet
<1>4. \A e : e \in ToSet(s) <=> \E i \in 1..l : s[i] = e
  BY <1>1 DEF ToSet
<1>5. \A e : e \in ToSet(a) <=> e \in ToSet(s) \/ e = x
  BY <1>1, <1>2, <1>3, <1>4
<1>6. QED
  BY <1>5 DEF a

\* A list is a part of another when its members stand, in different places, in the
\* other list.
PartOf(a, s, g) ==
    /\ g \in [DOMAIN a -> DOMAIN s]
    /\ \A i \in DOMAIN a : a[i] = s[g[i]]
    /\ \A i, j \in DOMAIN a : g[i] = g[j] => i = j

\* `only' keeps the members in the set, only those, and each as often as it was there.
LEMMA Only ==
    ASSUME NEW S, NEW s \in Seq(S), NEW kept
    PROVE  /\ only(s, kept) \in Seq(S)
           /\ \A x : x \in ToSet(only(s, kept)) <=> x \in ToSet(s) /\ x \in kept
           /\ \E g : PartOf(only(s, kept), s, g)
<1> DEFINE n == Len(s)
           F == CHOOSE f : f = [k \in 0..n |-> KeepStep(s, kept, f, k)]
           Holds(k) == /\ F[k] \in Seq(S)
                       /\ \A x : x \in ToSet(F[k]) <=> \E j \in 1..k : x = s[j] /\ s[j] \in kept
                       /\ \E g \in [DOMAIN F[k] -> 1..k] : PartOf(F[k], s, g)
           T == {k \in Nat : k <= n => Holds(k)}
<1>1. n \in Nat /\ DOMAIN s = 1..n
  OBVIOUS
<1>2. only(s, kept) = F[n]
  BY DEF only, KeepStep
<1>3. F = [k \in 0..n |-> KeepStep(s, kept, F, k)]
  <2>1. PICK f \in [0..n -> Seq(S)] : \A k \in 0..n : f[k] = KeepStep(s, kept, f, k)
    <3>1. Keeps(S, s, kept, n)
      BY <1>1, KeepExists
    <3>2. QED
      BY <3>1 DEF Keeps
  <2>2. f = [k \in 0..n |-> KeepStep(s, kept, f, k)]
    BY <2>1
  <2>3. QED
    BY <2>2
<1> HIDE DEF F
<1>4. 0 \in T
  <2>1. F[0] = <<>>
    BY <1>1, <1>3 DEF KeepStep
  <2>2. <<>> \in Seq(S) /\ DOMAIN <<>> = {} /\ ToSet(<<>>) = {}
    BY DEF ToSet
  <2>3. [i \in {} |-> 1] \in [{} -> 1..0] /\ PartOf(<<>>, s, [i \in {} |-> 1])
    BY <2>2 DEF PartOf
  <2>4. \E g \in [DOMAIN F[0] -> 1..0] : PartOf(F[0], s, g)
    BY <2>1, <2>2, <2>3
  <2>5. 1..0 = {} /\ F[0] \in Seq(S)
    BY <2>1, <2>2
  <2>6. \A x : x \in ToSet(F[0]) <=> \E j \in 1..0 : x = s[j] /\ s[j] \in kept
    BY <2>1, <2>2, <2>5
  <2>7. QED
    BY <2>4, <2>5, <2>6
<1>5. ASSUME NEW m \in 1..n, m - 1 \in T
      PROVE  m \in T
  <2>1. m - 1 \in Nat /\ m - 1 <= n /\ m \in Nat /\ m \in 0..n /\ m # 0
    BY <1>1
  <2>2. Holds(m - 1)
    BY <1>5, <2>1
  <2>3. F[m] = IF s[m] \in kept THEN Append(F[m - 1], s[m]) ELSE F[m - 1]
    BY <1>3, <2>1 DEF KeepStep
  <2>4. s[m] \in S
    BY <1>1
  <2>5. \A j : j \in 1..m <=> j \in 1..(m - 1) \/ j = m
    BY <2>1
  <2>6. PICK g \in [DOMAIN F[m - 1] -> 1..(m - 1)] : PartOf(F[m - 1], s, g)
    BY <2>2
  <2>7. CASE s[m] \notin kept
    <3>1. F[m] = F[m - 1]
      BY <2>3, <2>7
    <3>2. g \in [DOMAIN F[m] -> 1..m]
      BY <2>1, <2>6, <3>1
    <3>3. \A x : x \in ToSet(F[m]) <=> \E j \in 1..m : x = s[j] /\ s[j] \in kept
      BY <2>2, <2>5, <2>7, <3>1
    <3>4. QED
      BY <2>2, <2>6, <3>1, <3>2, <3>3
  <2>8. CASE s[m] \in kept
    <3> DEFINE a == F[m - 1]
               l == Len(a)
               b == F[m]
               h == [i \in 1..(l + 1) |-> IF i = l + 1 THEN m ELSE g[i]]
    <3>1. b = Append(a, s[m])
      BY <2>3, <2>8
    <3>2. a \in Seq(S)
      BY <2>2
    <3>3. b \in Seq(S)
      BY <2>4, <3>1, <3>2
    <3>4. \A x : x \in ToSet(b) <=> x \in ToSet(a) \/ x = s[m]
      BY <2>4, <3>1, <3>2, AppendedSet
    <3>5. \A x : x \in ToSet(b) <=> \E j \in 1..m : x = s[j] /\ s[j] \in kept
      BY <2>2, <2>5, <2>8, <3>4
    <3>6. /\ l \in Nat /\ DOMAIN a = 1..l /\ DOMAIN b = 1..(l + 1)
          /\ b[l + 1] = s[m] /\ \A i \in 1..l : b[i] = a[i]
      BY <2>4, <3>1, <3>2
    <3> HIDE DEF a, l, b
    <3>7. /\ \A i \in 1..l : g[i] \in 1..(m - 1) /\ g[i] \in DOMAIN s /\ a[i] = s[g[i]]
          /\ \A i, j \in 1..l : g[i] = g[j] => i = j
      BY <2>6, <3>6 DEF PartOf, a
    <3>8. h \in [1..(l + 1) -> 1..m]
      BY <2>1, <3>6, <3>7
    <3>9. \A i \in 1..(l + 1) : h[i] \in DOMAIN s /\ b[i] = s[h[i]]
      BY <1>1, <2>1, <3>6, <3>7
    <3>10. \A i, j \in 1..(l + 1) : h[i] = h[j] => i = j
      BY <2>1, <3>6, <3>7
    <3>11. PartOf(b, s, h)
      BY <3>6, <3>8, <3>9, <3>10 DEF PartOf
    <3> HIDE DEF h
    <3>12. Holds(m)
      BY <3>3, <3>5, <3>6, <3>8, <3>11 DEF b
    <3>13. QED
      BY <2>1, <3>12
  <2>9. QED
    BY <2>7, <2>8
<1>6. n \in T
  <2>1. n \in 0..n
    BY <1>1
  <2> HIDE DEF T
  <2>2. QED
    BY <1>1, <1>4, <1>5, <2>1, Reaches
<1>7. Holds(n)
  BY <1>1, <1>6
<1>8. \A x : x \in ToSet(s) <=> \E j \in 1..n : x = s[j]
  BY <1>1 DEF ToSet
<1> HIDE DEF n
<1>9. QED
  BY <1>2, <1>7, <1>8

\* withoutUser keeps the entries of everybody else, and only those.
LEMMA WithoutUser ==
    ASSUME NEW us \in Seq(Entry), NEW sub
    PROVE  /\ withoutUser(us, sub) \in Seq(Entry)
           /\ ToSet(withoutUser(us, sub)) = {e \in ToSet(us) : e.sub # sub}
<1>1. withoutUser(us, sub) = only(us, {e \in ToSet(us) : e.sub # sub})
  BY DEF withoutUser
<1>2. QED
  BY <1>1, Only

FlattenStep(ss, f, i) == IF i = 1 THEN ss[i] ELSE f[i - 1] \o ss[i]

Flattens(S, ss, n) ==
    \E f \in [1..n -> Seq(S)] : \A i \in 1..n : f[i] = FlattenStep(ss, f, i)

\* There is a function that gives the concatenation of the first i lists.
LEMMA FlattenExists ==
    ASSUME NEW S, NEW ss \in Seq(Seq(S)), NEW n \in 1..Len(ss)
    PROVE  Flattens(S, ss, n)
<1> DEFINE T == {m \in Nat : m \in 1..Len(ss) =>
                   \E f \in [1..m -> Seq(S)] : \A i \in 1..m : f[i] = FlattenStep(ss, f, i)}
<1>1. Len(ss) \in Nat /\ n \in Nat
  OBVIOUS
<1>2. 0 \in T
  BY <1>1
<1>3. ASSUME NEW m \in 1..n, m - 1 \in T
      PROVE  m \in T
  <2>1. m \in Nat /\ m - 1 \in Nat /\ m \in 1..Len(ss)
    BY <1>1
  <2>2. ss[m] \in Seq(S)
    BY <2>1
  <2>3. CASE m = 1
    <3>1. [i \in 1..1 |-> ss[1]] \in [1..1 -> Seq(S)]
      BY <2>2, <2>3
    <3>2. \A i \in 1..1 : [j \in 1..1 |-> ss[1]][i] = FlattenStep(ss, [j \in 1..1 |-> ss[1]], i)
      BY DEF FlattenStep
    <3>3. QED
      BY <2>1, <2>3, <3>1, <3>2
  <2>4. CASE m # 1
    <3>1. m - 1 \in 1..Len(ss)
      BY <2>1, <2>4
    <3>2. PICK f \in [1..(m - 1) -> Seq(S)] :
                 \A i \in 1..(m - 1) : f[i] = FlattenStep(ss, f, i)
      BY <1>3, <3>1
    <3> DEFINE g == [i \in 1..m |-> IF i = m THEN FlattenStep(ss, f, m) ELSE f[i]]
    <3>3. FlattenStep(ss, f, m) \in Seq(S)
      <4>1. f[m - 1] \in Seq(S)
        BY <2>1, <2>4
      <4>2. QED
        BY <2>2, <4>1 DEF FlattenStep
    <3>4. g \in [1..m -> Seq(S)]
      BY <2>1, <3>3
    <3>5. \A i \in 1..m : g[i] = FlattenStep(ss, g, i)
      <4>1. ASSUME NEW i \in 1..m, i # 1
            PROVE  g[i - 1] = f[i - 1]
        BY <2>1, <4>1
      <4>2. ASSUME NEW i \in 1..m
            PROVE  FlattenStep(ss, g, i) = FlattenStep(ss, f, i)
        BY <4>1, <4>2 DEF FlattenStep
      <4>3. ASSUME NEW i \in 1..m
            PROVE  g[i] = FlattenStep(ss, f, i)
        BY <2>1, <3>2, <4>3
      <4>4. QED
        BY <4>2, <4>3
    <3>6. QED
      BY <2>1, <3>4, <3>5
  <2>5. QED
    BY <2>3, <2>4
<1>4. n \in T
  <2>1. n \in 0..n
    BY <1>1
  <2> HIDE DEF T
  <2>2. QED
    BY <1>1, <1>2, <1>3, <2>1, Reaches
<1>5. QED
  BY <1>4 DEF Flattens

\* FlattenSeq gives a list of exactly the elements of all lists.
LEMMA Flatten ==
    ASSUME NEW S, NEW ss \in Seq(Seq(S))
    PROVE  /\ FlattenSeq(ss) \in Seq(S)
           /\ \A x : x \in ToSet(FlattenSeq(ss)) <=> \E i \in DOMAIN ss : x \in ToSet(ss[i])
<1> DEFINE n == Len(ss)
           F == CHOOSE f : f = [i \in 1..n |-> FlattenStep(ss, f, i)]
           T == {m \in Nat : m \in 1..n =>
                   /\ F[m] \in Seq(S)
                   /\ \A x : x \in ToSet(F[m]) <=> \E i \in 1..m : x \in ToSet(ss[i])}
<1>1. n \in Nat /\ DOMAIN ss = 1..n
  OBVIOUS
<1>2. CASE n = 0
  <2>1. ss = <<>>
    BY <1>2
  <2>2. FlattenSeq(ss) = <<>>
    BY <2>1, <1>2 DEF FlattenSeq
  <2>3. DOMAIN ss = {}
    BY <1>1, <1>2
  <2>4. ToSet(ss) = {}
    BY <2>3 DEF ToSet
  <2>5. <<>> \in Seq(S)
    OBVIOUS
  <2>6. QED
    BY <2>1, <2>2, <2>3, <2>4, <2>5
<1>3. CASE n # 0
  <2>1. FlattenSeq(ss) = F[n]
    BY <1>3, Zenon DEF FlattenSeq, FlattenStep
  <2>2. F = [i \in 1..n |-> FlattenStep(ss, F, i)]
    <3>1. PICK f \in [1..n -> Seq(S)] : \A i \in 1..n : f[i] = FlattenStep(ss, f, i)
      <4>1. n \in 1..Len(ss)
        BY <1>1, <1>3
      <4> HIDE DEF n
      <4>2. Flattens(S, ss, n)
        BY <4>1, FlattenExists
      <4>3. QED
        BY <4>2 DEF Flattens
    <3>2. f = [i \in 1..n |-> FlattenStep(ss, f, i)]
      BY <3>1
    <3>3. QED
      BY <3>2, Zenon
  <2> HIDE DEF F
  <2>3. 0 \in T
    BY <1>1
  <2>4. ASSUME NEW m \in 1..n, m - 1 \in T
        PROVE  m \in T
    <3>1. m \in Nat /\ ss[m] \in Seq(S)
      BY <1>1
    <3>2. F[m] = FlattenStep(ss, F, m)
      BY <2>2
    <3>3. CASE m = 1
      BY <3>1, <3>2, <3>3 DEF FlattenStep
    <3>4. CASE m # 1
      <4>1. m - 1 \in 1..n
        BY <1>1, <3>4
      <4>2. /\ F[m - 1] \in Seq(S)
            /\ \A x : x \in ToSet(F[m - 1]) <=> \E i \in 1..(m - 1) : x \in ToSet(ss[i])
        BY <2>4, <4>1
      <4>3. F[m] = F[m - 1] \o ss[m]
        BY <3>2, <3>4 DEF FlattenStep
      <4>4. F[m] \in Seq(S)
        BY <3>1, <4>2, <4>3
      <4>5. \A x : x \in ToSet(F[m]) <=> x \in ToSet(F[m - 1]) \/ x \in ToSet(ss[m])
        <5> DEFINE a == F[m - 1]
                   b == ss[m]
        <5>1. a \in Seq(S) /\ b \in Seq(S) /\ F[m] = a \o b
          BY <3>1, <4>2, <4>3
        <5> HIDE DEF a, b
        <5>2. ASSUME NEW x, x \in ToSet(a \o b)
              PROVE  x \in ToSet(a) \/ x \in ToSet(b)
          BY <5>1, <5>2 DEF ToSet
        <5>3. ASSUME NEW i \in DOMAIN a
              PROVE  a[i] \in ToSet(a \o b)
          <6>1. i \in DOMAIN (a \o b) /\ (a \o b)[i] = a[i]
            BY <5>1
          <6>2. QED
            BY <6>1 DEF ToSet
        <5>4. ASSUME NEW i \in DOMAIN b
              PROVE  b[i] \in ToSet(a \o b)
          <6>1. Len(a) + i \in DOMAIN (a \o b) /\ (a \o b)[Len(a) + i] = b[i]
            BY <5>1
          <6>2. QED
            BY <6>1 DEF ToSet
        <5>5. \A x : x \in ToSet(a \o b) <=> x \in ToSet(a) \/ x \in ToSet(b)
          BY <5>2, <5>3, <5>4 DEF ToSet
        <5>6. QED
          BY <5>1, <5>5 DEF a, b
      <4>6. \A i : i \in 1..m <=> i \in 1..(m - 1) \/ i = m
        BY <3>1
      <4>7. QED
        BY <3>1, <4>2, <4>4, <4>5, <4>6
    <3>5. QED
      BY <3>3, <3>4
  <2>5. n \in T
    <3>1. n \in 0..n
      BY <1>1
    <3> HIDE DEF T
    <3>2. QED
      BY <1>1, <2>3, <2>4, <3>1, Reaches
  <2>6. n \in 1..n
    BY <1>1, <1>3
  <2>7. QED
    BY <1>1, <2>1, <2>5, <2>6
<1>4. QED
  BY <1>2, <1>3
-----------------------------------------------------------------------------
(* The users of a document. *)

User == [sub : STRING, uuid : STRING, tag : STRING, more : {"none", "meta"}]

\* GetUsers gives a list of the entries of all inbounds, each as a user of its
\* inbound.
LEMMA UsersOfDocument ==
    ASSUME NEW d \in Document
    PROVE  /\ GetUsers(d) \in Seq(User)
           /\ \A u : u \in ToSet(GetUsers(d)) <=>
                 \E i \in DOMAIN d.inbounds : \E e \in ToSet(getInboundUsers(d.inbounds[i])) :
                    u = userFromMap(e, d.inbounds[i].tag)
<1> DEFINE us(i) == getInboundUsers(d.inbounds[i])
           row(i) == [k \in DOMAIN us(i) |-> userFromMap(us(i)[k], d.inbounds[i].tag)]
           ss == [i \in DOMAIN d.inbounds |-> row(i)]
<1>1. d.inbounds \in Seq(InboundMap)
  BY DEF Document
<1>2. Len(d.inbounds) \in Nat /\ DOMAIN d.inbounds = 1..Len(d.inbounds)
  BY <1>1
<1>3. ASSUME NEW i \in DOMAIN d.inbounds
      PROVE  us(i) \in Seq(Entry) /\ d.inbounds[i].tag \in STRING
  <2>1. d.inbounds[i] \in InboundMap
    BY <1>1
  <2>2. QED
    BY <2>1, UsersAreAList DEF InboundMap
<1>4. ASSUME NEW i \in DOMAIN d.inbounds
      PROVE  row(i) \in Seq(User)
  <2>1. us(i) \in Seq(Entry) /\ d.inbounds[i].tag \in STRING
    BY <1>3
  <2>2. Len(us(i)) \in Nat /\ DOMAIN us(i) = 1..Len(us(i))
    BY <2>1
  <2>3. ASSUME NEW k \in 1..Len(us(i))
        PROVE  userFromMap(us(i)[k], d.inbounds[i].tag) \in User
    <3>1. us(i)[k] \in Entry
      BY <2>1
    <3>2. QED
      BY <2>1, <3>1 DEF userFromMap, User, Entry
  <2>4. row(i) \in [1..Len(us(i)) -> User]
    BY <2>2, <2>3
  <2>5. QED
    BY <2>2, <2>4
<1>5. ss \in Seq(Seq(User))
  <2>1. ss \in [1..Len(d.inbounds) -> Seq(User)]
    BY <1>2, <1>4
  <2>2. QED
    BY <1>2, <2>1
<1>6. GetUsers(d) = FlattenSeq(ss)
  BY DEF GetUsers
<1>7. ASSUME NEW u, NEW i \in DOMAIN d.inbounds
      PROVE  u \in ToSet(ss[i]) <=>
               \E e \in ToSet(us(i)) : u = userFromMap(e, d.inbounds[i].tag)
  BY DEF ToSet
<1>8. DOMAIN ss = DOMAIN d.inbounds
  OBVIOUS
<1> HIDE DEF ss
<1>9. /\ FlattenSeq(ss) \in Seq(User)
      /\ \A x : x \in ToSet(FlattenSeq(ss)) <=> \E i \in DOMAIN ss : x \in ToSet(ss[i])
  BY <1>5, Flatten
<1>10. QED
  BY <1>6, <1>7, <1>8, <1>9
-----------------------------------------------------------------------------
(***************************************************************************)
(* What a document says, as a set of facts: there is an inbound with this  *)
(* attribute, this user has this uuid in this inbound.  A fact is found by *)
(* its kind and name.                                                      *)
(***************************************************************************)
InboundFact(m) == [kind |-> "inbound", name |-> m.tag, tag |-> m.tag, value |-> m.attr]
UserFact(sub, tag, uuid) == [kind |-> "user", name |-> sub, tag |-> tag, value |-> uuid]

Part(ib) ==
    {InboundFact(ib)} \cup
    {UserFact(e.sub, ib.tag, e.uuid) : e \in ToSet(getInboundUsers(ib))}
Facts(doc) == UNION {Part(doc.inbounds[i]) : i \in DOMAIN doc.inbounds}

\* The inbounds whose users lie in a "users" list of their own.
FlatTags(doc) ==
    {doc.inbounds[i].tag : i \in {j \in DOMAIN doc.inbounds : doc.inbounds[j].users # Absent}}

\* The new document says what the old one said, except of one kind and name.
Differs(doc, new, kind, name, said) ==
    \A f : f \in Facts(new) <=>
              \/ f \in Facts(doc) /\ ~(f.kind = kind /\ f.name = name)
              \/ f \in said

\* An edit that concerns one kind and name and leaves a tidy document.
Edited(H, doc, new, kind, name, said) ==
    /\ Tidy(H, new)
    /\ FlatTags(doc) \subseteq FlatTags(new)
    /\ Differs(doc, new, kind, name, said)

\* The inbounds of a document are a list of inbound maps.
LEMMA InboundList ==
    ASSUME NEW d \in Document
    PROVE  /\ d.inbounds \in Seq(InboundMap)
           /\ Len(d.inbounds) \in Nat /\ DOMAIN d.inbounds = 1..Len(d.inbounds)
           /\ \A i \in DOMAIN d.inbounds : d.inbounds[i] \in InboundMap
BY DEF Document

\* The facts of a document are those of its inbounds.
LEMMA FactsByInbound ==
    ASSUME NEW d
    PROVE  \A f : f \in Facts(d) <=> \E i \in DOMAIN d.inbounds : f \in Part(d.inbounds[i])
BY DEF Facts

\* What an inbound says of itself and of its users.
LEMMA PartMembers ==
    ASSUME NEW ib
    PROVE  \A f : f \in Part(ib) <=>
              \/ f = InboundFact(ib)
              \/ \E e \in ToSet(getInboundUsers(ib)) : f = UserFact(e.sub, ib.tag, e.uuid)
BY DEF Part
-----------------------------------------------------------------------------
(* Edits of a document. *)

\* An inbound replaced by one with the same tag changes what that inbound says.
LEMMA ReplacedInbound ==
    ASSUME NEW H, NEW d, Tidy(H, d), NEW i \in DOMAIN d.inbounds, NEW ib \in InboundMap,
           ib.tag = d.inbounds[i].tag, TidyUsers(H, ib.tag, getInboundUsers(ib)),
           d.inbounds[i].users # Absent => ib.users # Absent
    PROVE  LET n == replaceInbound(d, i, ib)
           IN  /\ Tidy(H, n)
               /\ FlatTags(d) \subseteq FlatTags(n)
               /\ \A f : f \in Facts(n) <=>
                     \/ f \in Part(ib)
                     \/ \E j \in DOMAIN d.inbounds : j # i /\ f \in Part(d.inbounds[j])
<1> DEFINE n == replaceInbound(d, i, ib)
<1>1. d \in Document
  BY DEF Tidy
<1>2. /\ d.inbounds \in Seq(InboundMap)
      /\ Len(d.inbounds) \in Nat /\ DOMAIN d.inbounds = 1..Len(d.inbounds)
  BY <1>1, InboundList
<1>3. n.inbounds = [d.inbounds EXCEPT ![i] = ib] /\ n.stats = d.stats
  BY <1>1 DEF replaceInbound, Document
<1>4. DOMAIN n.inbounds = DOMAIN d.inbounds
  BY <1>3
<1>5. \A j \in DOMAIN d.inbounds : n.inbounds[j] = IF j = i THEN ib ELSE d.inbounds[j]
  BY <1>3
<1>6. n \in Document
  <2>1. [d.inbounds EXCEPT ![i] = ib] \in Seq(InboundMap)
    BY <1>2
  <2>2. QED
    BY <1>1, <2>1 DEF replaceInbound, Document
<1> HIDE DEF n
<1>7. DistinctTags(n.inbounds)
  BY <1>4, <1>5 DEF DistinctTags, Tidy
<1>8. \A j \in DOMAIN n.inbounds :
        TidyUsers(H, n.inbounds[j].tag, getInboundUsers(n.inbounds[j]))
  BY <1>4, <1>5 DEF Tidy
<1>9. FlatTags(d) \subseteq FlatTags(n)
  BY <1>4, <1>5 DEF FlatTags
<1>10. \A f : f \in Facts(n) <=>
          \/ f \in Part(ib)
          \/ \E j \in DOMAIN d.inbounds : j # i /\ f \in Part(d.inbounds[j])
  BY <1>4, <1>5, FactsByInbound
<1>11. QED
  BY <1>6, <1>7, <1>8, <1>9, <1>10 DEF Tidy, n

\* An inbound appended under a new tag adds what it says.
LEMMA AppendedInbound ==
    ASSUME NEW H, NEW d, Tidy(H, d), NEW ib \in InboundMap,
           \A j \in DOMAIN d.inbounds : d.inbounds[j].tag # ib.tag,
           TidyUsers(H, ib.tag, getInboundUsers(ib))
    PROVE  LET n == appendInbound(d, ib)
           IN  /\ Tidy(H, n)
               /\ FlatTags(d) \subseteq FlatTags(n)
               /\ \A f : f \in Facts(n) <=> f \in Facts(d) \/ f \in Part(ib)
<1> DEFINE n == appendInbound(d, ib)
           l == Len(d.inbounds)
<1>1. d \in Document
  BY DEF Tidy
<1>2. /\ d.inbounds \in Seq(InboundMap)
      /\ l \in Nat /\ DOMAIN d.inbounds = 1..l
  BY <1>1, InboundList
<1>3. n.inbounds = Append(d.inbounds, ib) /\ n.stats = d.stats
  BY <1>1 DEF appendInbound, Document
<1>4. /\ DOMAIN n.inbounds = 1..(l + 1) /\ n.inbounds[l + 1] = ib
      /\ \A j \in 1..l : n.inbounds[j] = d.inbounds[j]
  BY <1>2, <1>3
<1>5. n \in Document
  <2>1. Append(d.inbounds, ib) \in Seq(InboundMap)
    BY <1>2
  <2>2. QED
    BY <1>1, <2>1 DEF appendInbound, Document
<1> HIDE DEF n, l
<1>6. \A j : j \in 1..(l + 1) <=> j \in 1..l \/ j = l + 1
  BY <1>2
<1>7. l + 1 \notin 1..l
  BY <1>2
<1>8. DistinctTags(n.inbounds)
  BY <1>2, <1>4, <1>6, <1>7 DEF DistinctTags, Tidy
<1>9. \A j \in DOMAIN n.inbounds :
        TidyUsers(H, n.inbounds[j].tag, getInboundUsers(n.inbounds[j]))
  BY <1>2, <1>4, <1>6 DEF Tidy
<1>10. FlatTags(d) \subseteq FlatTags(n)
  BY <1>2, <1>4, <1>6 DEF FlatTags
<1>11. \A f : f \in Facts(n) <=> f \in Facts(d) \/ f \in Part(ib)
  BY <1>2, <1>4, <1>6, FactsByInbound
<1>12. QED
  BY <1>5, <1>8, <1>9, <1>10, <1>11 DEF Tidy, n

\* The inbound with a tag taken out takes what it says with it.
LEMMA RemovedInbound ==
    ASSUME NEW H, NEW d, Tidy(H, d), NEW tag
    PROVE  LET n == removeInbounds(d, tag)
           IN  /\ Tidy(H, n)
               /\ FlatTags(d) \ {tag} \subseteq FlatTags(n)
               /\ \A f : f \in Facts(n) <=>
                     \E j \in DOMAIN d.inbounds : d.inbounds[j].tag # tag /\ f \in Part(d.inbounds[j])
<1> DEFINE kept == {ib \in ToSet(d.inbounds) : ib.tag # tag}
           a == only(d.inbounds, kept)
           n == removeInbounds(d, tag)
<1>1. d \in Document
  BY DEF Tidy
<1>2. /\ d.inbounds \in Seq(InboundMap)
      /\ Len(d.inbounds) \in Nat /\ DOMAIN d.inbounds = 1..Len(d.inbounds)
  BY <1>1, InboundList
<1>3. n.inbounds = a /\ n.stats = d.stats
  BY <1>1 DEF Document, removeInbounds
<1>4. n \in Document <=> a \in Seq(InboundMap)
  BY <1>1 DEF Document, removeInbounds
<1> HIDE DEF n, a
<1>5. /\ a \in Seq(InboundMap)
      /\ \A x : x \in ToSet(a) <=> x \in ToSet(d.inbounds) /\ x \in kept
      /\ \E g : PartOf(a, d.inbounds, g)
  BY <1>2, Only DEF a
<1>6. PICK g : PartOf(a, d.inbounds, g)
  BY <1>5
<1>7. \A i \in DOMAIN a : a[i].tag # tag
  BY <1>5 DEF ToSet
<1>8. \A j \in DOMAIN d.inbounds : d.inbounds[j].tag # tag => \E i \in DOMAIN a : a[i] = d.inbounds[j]
  BY <1>5 DEF ToSet
<1>9. \A i \in DOMAIN a : g[i] \in DOMAIN d.inbounds /\ a[i] = d.inbounds[g[i]]
  BY <1>6 DEF PartOf
<1>10. DistinctTags(a)
  <2>1. \A i, j \in DOMAIN a : g[i] = g[j] => i = j
    BY <1>6 DEF PartOf
  <2>2. QED
    BY <1>9, <2>1 DEF DistinctTags, Tidy
<1>11. \A i \in DOMAIN a : TidyUsers(H, a[i].tag, getInboundUsers(a[i]))
  BY <1>9 DEF Tidy
<1>12. FlatTags(d) \ {tag} \subseteq FlatTags(n)
  BY <1>3, <1>8 DEF FlatTags
<1>13. \A f : f \in Facts(n) <=>
          \E j \in DOMAIN d.inbounds : d.inbounds[j].tag # tag /\ f \in Part(d.inbounds[j])
  BY <1>3, <1>7, <1>8, <1>9, FactsByInbound
<1>14. QED
  BY <1>3, <1>4, <1>5, <1>10, <1>11, <1>12, <1>13 DEF Tidy, n, a
-----------------------------------------------------------------------------
(* Edits of a users list. *)

\* A user appended to a list that has no entry of it.
LEMMA ListWith ==
    ASSUME NEW us \in Seq(Entry), DistinctSubs(us), NEW x \in Entry,
           \A k \in DOMAIN us : us[k].sub # x.sub
    PROVE  /\ Append(us, x) \in Seq(Entry) /\ DistinctSubs(Append(us, x))
           /\ \A e : e \in ToSet(Append(us, x)) <=> (e \in ToSet(us) /\ e.sub # x.sub) \/ e = x
<1> DEFINE a == Append(us, x)
           l == Len(us)
<1>1. /\ l \in Nat /\ DOMAIN us = 1..l /\ DOMAIN a = 1..(l + 1) /\ a \in Seq(Entry)
      /\ a[l + 1] = x /\ \A i \in 1..l : a[i] = us[i]
  OBVIOUS
<1>2. \A e : e \in ToSet(a) <=> e \in ToSet(us) \/ e = x
  BY AppendedSet
<1> HIDE DEF a, l
<1>3. \A j : j \in 1..(l + 1) <=> j \in 1..l \/ j = l + 1
  BY <1>1
<1>4. DistinctSubs(a)
  BY <1>1, <1>3 DEF DistinctSubs
<1>5. \A e \in ToSet(us) : e.sub # x.sub
  BY DEF ToSet
<1>6. QED
  BY <1>1, <1>2, <1>4, <1>5 DEF a

\* A user's entry replaced.
LEMMA ListUpdated ==
    ASSUME NEW us \in Seq(Entry), DistinctSubs(us), NEW x \in Entry,
           NEW k \in DOMAIN us, us[k].sub = x.sub,
           NEW a, a = [us EXCEPT ![k] = x]
    PROVE  /\ a \in Seq(Entry) /\ DistinctSubs(a)
           /\ \A e : e \in ToSet(a) <=> (e \in ToSet(us) /\ e.sub # x.sub) \/ e = x
<1>1. a \in Seq(Entry) /\ DOMAIN a = DOMAIN us
  OBVIOUS
<1>2. \A j \in DOMAIN us : a[j] = IF j = k THEN x ELSE us[j]
  OBVIOUS
<1>3. DistinctSubs(a)
  BY <1>1, <1>2 DEF DistinctSubs
<1>4. ASSUME NEW e
      PROVE  e \in ToSet(a) <=> (e \in ToSet(us) /\ e.sub # x.sub) \/ e = x
  <2>1. e \in ToSet(a) <=> \E j \in DOMAIN us : e = IF j = k THEN x ELSE us[j]
    BY <1>1, <1>2 DEF ToSet
  <2>2. e \in ToSet(us) <=> \E j \in DOMAIN us : e = us[j]
    BY DEF ToSet
  <2>3. \A j \in DOMAIN us : us[j].sub = x.sub => j = k
    BY DEF DistinctSubs
  <2>4. QED
    BY <2>1, <2>2, <2>3
<1>5. QED
  BY <1>1, <1>3, <1>4

\* A user's entry taken out.
LEMMA ListWithout ==
    ASSUME NEW us \in Seq(Entry), DistinctSubs(us), NEW sub
    PROVE  /\ withoutUser(us, sub) \in Seq(Entry) /\ DistinctSubs(withoutUser(us, sub))
           /\ \A e : e \in ToSet(withoutUser(us, sub)) <=> e \in ToSet(us) /\ e.sub # sub
<1> DEFINE kept == {e \in ToSet(us) : e.sub # sub}
           a == only(us, kept)
<1>1. withoutUser(us, sub) = a
  BY DEF withoutUser
<1>2. /\ a \in Seq(Entry)
      /\ \A x : x \in ToSet(a) <=> x \in ToSet(us) /\ x \in kept
      /\ \E g : PartOf(a, us, g)
  BY Only
<1> HIDE DEF a
<1>3. PICK g : PartOf(a, us, g)
  BY <1>2
<1>4. DistinctSubs(a)
  BY <1>3 DEF PartOf, DistinctSubs
<1>5. QED
  BY <1>1, <1>2, <1>4
-----------------------------------------------------------------------------
(* What one edit of the configuration manager does. *)

\* No other inbound speaks of an inbound's tag, or of a user whose home it is.
LEMMA Elsewhere ==
    ASSUME NEW H, OneHome(H), NEW d, Tidy(H, d),
           NEW i \in DOMAIN d.inbounds, NEW j \in DOMAIN d.inbounds, j # i,
           NEW f \in Part(d.inbounds[j])
    PROVE  /\ ~(f.kind = "inbound" /\ f.name = d.inbounds[i].tag)
           /\ \A sub : Home(sub, d.inbounds[i].tag) \in H =>
                          ~(f.kind = "user" /\ f.name = sub)
<1>1. d.inbounds[i].tag # d.inbounds[j].tag
  BY DEF Tidy, DistinctTags
<1>2. CASE f = InboundFact(d.inbounds[j])
  BY <1>1, <1>2 DEF InboundFact
<1>3. ASSUME NEW e \in ToSet(getInboundUsers(d.inbounds[j])),
             f = UserFact(e.sub, d.inbounds[j].tag, e.uuid)
      PROVE  /\ f.kind = "user" /\ f.name = e.sub
             /\ Home(e.sub, d.inbounds[j].tag) \in H
  BY <1>3 DEF Tidy, TidyUsers, UserFact
<1>4. ASSUME NEW e \in ToSet(getInboundUsers(d.inbounds[j])),
             f = UserFact(e.sub, d.inbounds[j].tag, e.uuid),
             Home(e.sub, d.inbounds[i].tag) \in H
      PROVE  FALSE
  <2> DEFINE g == Home(e.sub, d.inbounds[j].tag)
             h == Home(e.sub, d.inbounds[i].tag)
  <2>1. g \in H /\ h \in H /\ g.sub = h.sub
    BY <1>3, <1>4 DEF Home
  <2>2. g.tag = h.tag
    BY <2>1 DEF OneHome
  <2>3. QED
    BY <1>1, <2>2 DEF Home
<1>5. QED
  BY <1>2, <1>3, <1>4, PartMembers

\* A new users list in which only one user's entry differs.
LEMMA UsersEdited ==
    ASSUME NEW H, OneHome(H), NEW d, Tidy(H, d), NEW i \in DOMAIN d.inbounds,
           NEW us \in Seq(Entry), NEW sub, NEW E,
           DistinctSubs(us),
           Home(sub, d.inbounds[i].tag) \in H,
           \A e \in E : e.sub = sub,
           NEW said, \A f : f \in said <=> \E e \in E : f = UserFact(sub, d.inbounds[i].tag, e.uuid),
           \A e : e \in ToSet(us) <=>
                     (e \in ToSet(getInboundUsers(d.inbounds[i])) /\ e.sub # sub) \/ e \in E
    PROVE  Edited(H, d, replaceInbound(d, i, setInboundUsers(d.inbounds[i], us)), "user", sub, said)
<1> DEFINE old == d.inbounds[i]
           ib == setInboundUsers(old, us)
           n == replaceInbound(d, i, ib)
<1>1. d \in Document /\ old \in InboundMap
  BY InboundList DEF Tidy
<1>2. ib \in InboundMap /\ ib.tag = old.tag /\ getInboundUsers(ib) = us
  BY <1>1, UsersWrittenBack
<1>3. ib.attr = old.attr /\ (old.users # Absent => ib.users # Absent)
  BY <1>1, ConfigDataAssumption DEF setInboundUsers, InboundMap, UserList
<1>4. TidyUsers(H, old.tag, getInboundUsers(old))
  BY DEF Tidy
<1>5. TidyUsers(H, ib.tag, getInboundUsers(ib))
  BY <1>2, <1>4 DEF TidyUsers
<1> HIDE DEF ib
<1>6. /\ Tidy(H, n)
      /\ FlatTags(d) \subseteq FlatTags(n)
      /\ \A f : f \in Facts(n) <=>
            \/ f \in Part(ib)
            \/ \E j \in DOMAIN d.inbounds : j # i /\ f \in Part(d.inbounds[j])
  BY <1>2, <1>3, <1>5, ReplacedInbound
<1>7. \A f : f \in Facts(d) <=> \E j \in DOMAIN d.inbounds : f \in Part(d.inbounds[j])
  BY FactsByInbound
<1>8. \A j \in DOMAIN d.inbounds : \A f \in Part(d.inbounds[j]) :
         j # i => ~(f.kind = "user" /\ f.name = sub)
  BY Elsewhere
<1>9. InboundFact(ib) = InboundFact(old) /\ InboundFact(ib).kind = "inbound"
  BY <1>2, <1>3 DEF InboundFact
<1>10. \A f : f \in Part(ib) <=>
          \/ f \in Part(old) /\ ~(f.kind = "user" /\ f.name = sub)
          \/ \E e \in E : f = UserFact(sub, old.tag, e.uuid)
  <2>1. \A f : f \in Part(ib) <=>
           f = InboundFact(ib) \/ \E e \in ToSet(us) : f = UserFact(e.sub, old.tag, e.uuid)
    BY <1>2, PartMembers
  <2>2. \A f : f \in Part(old) <=>
           \/ f = InboundFact(ib)
           \/ \E e \in ToSet(getInboundUsers(old)) : f = UserFact(e.sub, old.tag, e.uuid)
    BY <1>9, PartMembers
  <2>3. \A s, t, v : UserFact(s, t, v).kind = "user" /\ UserFact(s, t, v).name = s
    BY DEF UserFact
  <2>4. ASSUME NEW f, f \in Part(ib)
        PROVE  \/ f \in Part(old) /\ ~(f.kind = "user" /\ f.name = sub)
               \/ \E e \in E : f = UserFact(sub, old.tag, e.uuid)
    BY <1>9, <2>1, <2>2, <2>3, <2>4
  <2>5. ASSUME NEW f, f \in Part(old), ~(f.kind = "user" /\ f.name = sub)
        PROVE  f \in Part(ib)
    BY <1>9, <2>1, <2>2, <2>3, <2>5
  <2>6. ASSUME NEW e \in E
        PROVE  UserFact(sub, old.tag, e.uuid) \in Part(ib)
    BY <2>1
  <2>7. QED
    BY <2>4, <2>5, <2>6
<1>11. Differs(d, n, "user", sub, said)
  <2> HIDE DEF n, old
  <2>1. ASSUME NEW f
        PROVE  f \in Facts(n) <=>
                  \/ f \in Facts(d) /\ ~(f.kind = "user" /\ f.name = sub)
                  \/ \E e \in E : f = UserFact(sub, old.tag, e.uuid)
    BY <1>6, <1>7, <1>8, <1>10 DEF old
  <2>2. QED
    BY <2>1 DEF Differs, old
<1>12. QED
  BY <1>6, <1>11 DEF ib, Edited

\* findInboundIndex finds the inbound a document has with the tag.
LEMMA FindsInbound ==
    ASSUME NEW d \in Document, NEW tag
    PROVE  LET i == findInboundIndex(d, tag)
           IN  /\ i # 0 => i \in DOMAIN d.inbounds /\ d.inbounds[i].tag = tag
               /\ i # 0 <=> \E f \in Facts(d) : f.kind = "inbound" /\ f.name = tag
<1> DEFINE i == findInboundIndex(d, tag)
<1>1. /\ i # 0 => i \in DOMAIN d.inbounds /\ d.inbounds[i].tag = tag
      /\ i = 0 => \A j \in DOMAIN d.inbounds : d.inbounds[j].tag # tag
  BY FindInbound
<1> HIDE DEF i
<1>2. ASSUME i # 0
      PROVE  \E f \in Facts(d) : f.kind = "inbound" /\ f.name = tag
  <2>1. InboundFact(d.inbounds[i]) \in Facts(d)
    BY <1>1, <1>2, FactsByInbound, PartMembers
  <2>2. QED
    BY <1>1, <1>2, <2>1 DEF InboundFact
<1>3. ASSUME NEW f \in Facts(d), f.kind = "inbound", f.name = tag
      PROVE  i # 0
  <2>1. PICK j \in DOMAIN d.inbounds : f \in Part(d.inbounds[j])
    BY FactsByInbound
  <2>2. f = InboundFact(d.inbounds[j])
    BY <1>3, <2>1, PartMembers DEF UserFact
  <2>3. QED
    BY <1>1, <1>3, <2>2 DEF InboundFact
<1>4. QED
  BY <1>1, <1>2, <1>3 DEF i

\* userIndex finds an entry of the user in a list exactly if the document knows the
\* user.
Indexes(d, us, sub) ==
    LET k == userIndex(us, sub)
    IN  /\ us \in Seq(Entry)
        /\ k # 0 => k \in DOMAIN us /\ us[k].sub = sub
        /\ k = 0 => \A j \in DOMAIN us : us[j].sub # sub
        /\ k # 0 <=> \E f \in Facts(d) : f.kind = "user" /\ f.name = sub

\* userIndex finds the entry of a user in the user's home.
LEMMA FindsUser ==
    ASSUME NEW H, OneHome(H), NEW d, Tidy(H, d), NEW i \in DOMAIN d.inbounds, NEW sub,
           Home(sub, d.inbounds[i].tag) \in H
    PROVE  Indexes(d, getInboundUsers(d.inbounds[i]), sub)
<1> DEFINE us == getInboundUsers(d.inbounds[i])
           k == userIndex(us, sub)
<1>1. us \in Seq(Entry)
  BY InboundList, UsersAreAList DEF Tidy
<1>2. /\ k # 0 => k \in DOMAIN us /\ us[k].sub = sub
      /\ k = 0 => \A j \in DOMAIN us : us[j].sub # sub
  <2> HIDE DEF us
  <2>1. QED
    BY <1>1, FindUserEntry
<1> HIDE DEF k
<1>3. ASSUME k # 0
      PROVE  \E f \in Facts(d) : f.kind = "user" /\ f.name = sub
  <2>1. us[k] \in ToSet(us) /\ us[k].sub = sub
    BY <1>2, <1>3 DEF ToSet
  <2>2. UserFact(us[k].sub, d.inbounds[i].tag, us[k].uuid) \in Facts(d)
    BY <2>1, FactsByInbound, PartMembers
  <2>3. QED
    BY <2>1, <2>2 DEF UserFact
<1>4. ASSUME NEW f \in Facts(d), f.kind = "user", f.name = sub
      PROVE  k # 0
  <2>1. PICK j \in DOMAIN d.inbounds : f \in Part(d.inbounds[j])
    BY FactsByInbound
  <2>2. j = i
    BY <1>4, <2>1, Elsewhere
  <2>3. f # InboundFact(d.inbounds[i])
    BY <1>4 DEF InboundFact
  <2>4. PICK e \in ToSet(us) : f = UserFact(e.sub, d.inbounds[i].tag, e.uuid)
    BY <2>1, <2>2, <2>3, PartMembers
  <2>5. e.sub = sub
    BY <1>4, <2>4 DEF UserFact
  <2>6. \E j2 \in DOMAIN us : us[j2].sub = sub
    BY <2>5 DEF ToSet
  <2>7. QED
    BY <1>2, <2>6
<1>5. QED
  BY <1>1, <1>2, <1>3, <1>4 DEF k, Indexes

\* AddInbound writes an inbound the document does not have.
LEMMA ManagerAddsInbound ==
    ASSUME NEW H, OneHome(H), NEW d, Tidy(H, d), NEW m \in InboundMap,
           TidyUsers(H, m.tag, getInboundUsers(m))
    PROVE  LET n == ManagerAddInbound(d, m)
           IN  /\ n = Err <=> \E f \in Facts(d) : f.kind = "inbound" /\ f.name = m.tag
               /\ n # Err =>
                    /\ Tidy(H, n) /\ FlatTags(d) \subseteq FlatTags(n)
                    /\ m.users \in {Absent, <<>>} =>
                         Differs(d, n, "inbound", m.tag, {InboundFact(m)})
<1> DEFINE ib == inboundToMap(m)
           n == ManagerAddInbound(d, m)
<1>1. d \in Document /\ Err \notin Document
  BY ConfigDataAssumption DEF Tidy
<1>2. findInboundIndex(d, m.tag) # 0 <=> \E f \in Facts(d) : f.kind = "inbound" /\ f.name = m.tag
  BY <1>1, FindsInbound
<1>3. CASE findInboundIndex(d, m.tag) # 0
  BY <1>2, <1>3 DEF ManagerAddInbound
<1>4. CASE findInboundIndex(d, m.tag) = 0
  <2>1. n = appendInbound(d, ib)
    BY <1>4 DEF ManagerAddInbound
  <2>2. ib \in InboundMap /\ ib.tag = m.tag /\ ib.attr = m.attr
    BY DEF inboundToMap, InboundMap, UserList
  <2>3. getInboundUsers(ib) = IF m.users = Absent THEN <<>> ELSE getInboundUsers(m)
    BY ConfigDataAssumption DEF inboundToMap, getInboundUsers, InboundMap, UserList
  <2>4. TidyUsers(H, ib.tag, getInboundUsers(ib))
    BY <2>2, <2>3 DEF TidyUsers, DistinctSubs, ToSet
  <2>5. \A j \in DOMAIN d.inbounds : d.inbounds[j].tag # ib.tag
    BY <1>1, <1>4, <2>2, FindInbound
  <2> HIDE DEF ib
  <2>6. /\ Tidy(H, n) /\ FlatTags(d) \subseteq FlatTags(n)
        /\ \A f : f \in Facts(n) <=> f \in Facts(d) \/ f \in Part(ib)
    BY <2>1, <2>2, <2>4, <2>5, AppendedInbound
  <2>7. n # Err
    BY <1>1, <2>6 DEF Tidy
  <2>8. ASSUME m.users \in {Absent, <<>>}
        PROVE  Differs(d, n, "inbound", m.tag, {InboundFact(m)})
    <3>1. getInboundUsers(ib) = <<>>
      BY <2>3, <2>8, ConfigDataAssumption DEF getInboundUsers
    <3>2. \A f : f \in Part(ib) <=> f = InboundFact(m)
      <4>1. ToSet(<<>>) = {}
        BY DEF ToSet
      <4>2. InboundFact(ib) = InboundFact(m)
        BY <2>2 DEF InboundFact
      <4>3. QED
        BY <3>1, <4>1, <4>2, PartMembers
    <3>3. \A f \in Facts(d) : ~(f.kind = "inbound" /\ f.name = m.tag)
      BY <1>2, <1>4
    <3>4. QED
      BY <2>6, <3>2, <3>3 DEF Differs
  <2>9. QED
    BY <1>2, <1>4, <2>6, <2>7, <2>8
<1>5. QED
  BY <1>3, <1>4

\* UpdateInbound changes an inbound and leaves its users where they are, unless the
\* new map brings a list of its own and the old one had none to hide it.
LEMMA ManagerUpdatesInbound ==
    ASSUME NEW H, OneHome(H), NEW d, Tidy(H, d), NEW m \in InboundMap,
           TidyUsers(H, m.tag, getInboundUsers(m))
    PROVE  LET n == ManagerUpdateInbound(d, m)
           IN  /\ n # Err <=> \E f \in Facts(d) : f.kind = "inbound" /\ f.name = m.tag
               /\ n # Err =>
                    /\ Tidy(H, n) /\ FlatTags(d) \subseteq FlatTags(n)
                    /\ m.users = Absent \/ m.tag \in FlatTags(d) =>
                         Differs(d, n, "inbound", m.tag, {InboundFact(m)})
<1> DEFINE i == findInboundIndex(d, m.tag)
           old == d.inbounds[i]
           ib == preserveUsers(old, inboundToMap(m))
           n == ManagerUpdateInbound(d, m)
<1>1. d \in Document /\ Err \notin Document
  BY ConfigDataAssumption DEF Tidy
<1>2. /\ i # 0 => i \in DOMAIN d.inbounds /\ old.tag = m.tag
      /\ i # 0 <=> \E f \in Facts(d) : f.kind = "inbound" /\ f.name = m.tag
  BY <1>1, FindsInbound
<1>3. CASE i = 0
  BY <1>2, <1>3 DEF ManagerUpdateInbound
<1>4. CASE i # 0
  <2>1. n = replaceInbound(d, i, ib)
    BY <1>4 DEF ManagerUpdateInbound
  <2>2. i \in DOMAIN d.inbounds /\ old.tag = m.tag /\ old \in InboundMap
    BY <1>1, <1>2, <1>4, InboundList
  <2> HIDE DEF i
  <2>3. /\ ib \in InboundMap /\ ib.tag = m.tag /\ ib.attr = m.attr
        /\ ib.users = old.users
        /\ ib.ousers = IF m.users # Absent THEN m.users ELSE old.ousers
    BY <2>2 DEF preserveUsers, inboundToMap, InboundMap
  <2>4. getInboundUsers(ib) = IF old.users = Absent /\ m.users # Absent
                              THEN getInboundUsers(m) ELSE getInboundUsers(old)
    BY <2>3 DEF getInboundUsers
  <2>5. TidyUsers(H, ib.tag, getInboundUsers(ib))
    BY <2>2, <2>3, <2>4 DEF Tidy
  <2> HIDE DEF ib
  <2>6. /\ Tidy(H, n) /\ FlatTags(d) \subseteq FlatTags(n)
        /\ \A f : f \in Facts(n) <=>
              \/ f \in Part(ib)
              \/ \E j \in DOMAIN d.inbounds : j # i /\ f \in Part(d.inbounds[j])
    BY <2>1, <2>2, <2>3, <2>5, ReplacedInbound
  <2>7. n # Err
    BY <1>1, <2>6 DEF Tidy
  <2>8. ASSUME m.users = Absent \/ m.tag \in FlatTags(d)
        PROVE  Differs(d, n, "inbound", m.tag, {InboundFact(m)})
    <3>1. m.tag \in FlatTags(d) => old.users # Absent
      BY <2>2 DEF FlatTags, Tidy, DistinctTags
    <3>2. getInboundUsers(ib) = getInboundUsers(old)
      BY <2>4, <2>8, <3>1
    <3>3. InboundFact(ib) = InboundFact(m)
      BY <2>3 DEF InboundFact
    <3>4. \A f : f \in Part(ib) <=>
             \/ f \in Part(old) /\ ~(f.kind = "inbound" /\ f.name = m.tag)
             \/ f = InboundFact(m)
      BY <2>2, <2>3, <3>2, <3>3, PartMembers DEF UserFact, InboundFact
    <3>5. \A j \in DOMAIN d.inbounds : \A f \in Part(d.inbounds[j]) :
             j # i => ~(f.kind = "inbound" /\ f.name = m.tag)
      BY <2>2, Elsewhere
    <3>6. \A f : f \in Facts(d) <=> \E j \in DOMAIN d.inbounds : f \in Part(d.inbounds[j])
      BY FactsByInbound
    <3> HIDE DEF n
    <3>7. ASSUME NEW f
          PROVE  f \in Facts(n) <=>
                    \/ f \in Facts(d) /\ ~(f.kind = "inbound" /\ f.name = m.tag)
                    \/ f = InboundFact(m)
      BY <2>2, <2>6, <3>4, <3>5, <3>6
    <3>8. QED
      BY <3>7 DEF Differs
  <2>9. QED
    BY <1>2, <1>4, <2>6, <2>7, <2>8 DEF i
<1>5. QED
  BY <1>3, <1>4

\* DeleteInbound takes out an inbound, and what is said of its users if it has any.
LEMMA ManagerDeletesInbound ==
    ASSUME NEW H, OneHome(H), NEW d, Tidy(H, d), NEW tag
    PROVE  LET n == ManagerDeleteInbound(d, tag)
           IN  /\ n # Err <=> \E f \in Facts(d) : f.kind = "inbound" /\ f.name = tag
               /\ n # Err =>
                    /\ Tidy(H, n) /\ FlatTags(d) \ {tag} \subseteq FlatTags(n)
                    /\ (\A f \in Facts(d) : f.kind = "user" => f.tag # tag) =>
                         Differs(d, n, "inbound", tag, {})
<1> DEFINE i == findInboundIndex(d, tag)
           n == ManagerDeleteInbound(d, tag)
<1>1. d \in Document /\ Err \notin Document
  BY ConfigDataAssumption DEF Tidy
<1>2. i # 0 <=> \E f \in Facts(d) : f.kind = "inbound" /\ f.name = tag
  BY <1>1, FindsInbound
<1>3. CASE i = 0
  BY <1>2, <1>3 DEF ManagerDeleteInbound
<1>4. CASE i # 0
  <2>1. n = removeInbounds(d, tag)
    BY <1>4 DEF ManagerDeleteInbound
  <2>2. /\ Tidy(H, n) /\ FlatTags(d) \ {tag} \subseteq FlatTags(n)
        /\ \A f : f \in Facts(n) <=>
              \E j \in DOMAIN d.inbounds : d.inbounds[j].tag # tag /\ f \in Part(d.inbounds[j])
    BY <2>1, RemovedInbound
  <2>3. n # Err
    BY <1>1, <2>2 DEF Tidy
  <2> HIDE DEF n
  <2>4. ASSUME \A f \in Facts(d) : f.kind = "user" => f.tag # tag
        PROVE  Differs(d, n, "inbound", tag, {})
    <3>1. ASSUME NEW j \in DOMAIN d.inbounds, NEW f \in Part(d.inbounds[j])
          PROVE  d.inbounds[j].tag = tag <=> f.kind = "inbound" /\ f.name = tag
      <4>1. f \in Facts(d)
        BY FactsByInbound
      <4>2. CASE f = InboundFact(d.inbounds[j])
        BY <4>2 DEF InboundFact
      <4>3. ASSUME NEW e, f = UserFact(e.sub, d.inbounds[j].tag, e.uuid)
            PROVE  f.kind = "user" /\ f.tag = d.inbounds[j].tag /\ f.tag # tag
        BY <2>4, <4>1, <4>3 DEF UserFact
      <4>4. QED
        BY <4>2, <4>3, PartMembers
    <3>2. QED
      BY <2>2, <3>1, FactsByInbound DEF Differs
  <2>5. QED
    BY <1>2, <1>4, <2>2, <2>3, <2>4 DEF n
<1>5. QED
  BY <1>3, <1>4

\* AddUser writes a user the document does not have into an inbound it has.
LEMMA ManagerAddsUser ==
    ASSUME NEW H, OneHome(H), NEW d, Tidy(H, d), NEW u \in DesiredUser,
           Home(u.sub, u.tag) \in H
    PROVE  LET n == ManagerAddUser(d, u)
           IN  /\ n # Err <=> /\ \E f \in Facts(d) : f.kind = "inbound" /\ f.name = u.tag
                              /\ ~\E f \in Facts(d) : f.kind = "user" /\ f.name = u.sub
               /\ n # Err => Edited(H, d, n, "user", u.sub, {UserFact(u.sub, u.tag, u.uuid)})
<1> DEFINE i == findInboundIndex(d, u.tag)
           us == getInboundUsers(d.inbounds[i])
           k == userIndex(us, u.sub)
           n == ManagerAddUser(d, u)
<1>1. d \in Document /\ Err \notin Document
  BY ConfigDataAssumption DEF Tidy
<1>2. /\ i # 0 => i \in DOMAIN d.inbounds /\ d.inbounds[i].tag = u.tag
      /\ i # 0 <=> \E f \in Facts(d) : f.kind = "inbound" /\ f.name = u.tag
  BY <1>1, FindsInbound
<1>3. CASE i = 0
  BY <1>2, <1>3 DEF ManagerAddUser
<1>4. CASE i # 0
  <2>1. i \in DOMAIN d.inbounds /\ d.inbounds[i].tag = u.tag
    BY <1>2, <1>4
  <2>2. n = IF k # 0 THEN Err
            ELSE replaceInbound(d, i, setInboundUsers(d.inbounds[i], Append(us, modelToMap(u))))
    BY <1>4 DEF ManagerAddUser
  <2> HIDE DEF i
  <2>3. /\ us \in Seq(Entry)
        /\ k # 0 => k \in DOMAIN us /\ us[k].sub = u.sub
        /\ k = 0 => \A j \in DOMAIN us : us[j].sub # u.sub
        /\ k # 0 <=> \E f \in Facts(d) : f.kind = "user" /\ f.name = u.sub
    <3>1. i \in DOMAIN d.inbounds /\ Home(u.sub, d.inbounds[i].tag) \in H
      BY <2>1
    <3>2. Indexes(d, us, u.sub)
      BY <3>1, FindsUser
    <3>3. QED
      BY <3>2 DEF Indexes
  <2>4. DistinctSubs(us)
    BY <2>1 DEF Tidy, TidyUsers
  <2> HIDE DEF k
  <2>5. CASE k # 0
    BY <1>2, <1>4, <2>2, <2>3, <2>5 DEF i
  <2>6. CASE ~(k # 0)
    <3> DEFINE x == modelToMap(u)
               new == Append(us, x)
    <3>0. x \in Entry /\ x.sub = u.sub /\ x.uuid = u.uuid
      BY DEF modelToMap, Entry, DesiredUser
    <3> HIDE DEF x
    <3>1. /\ new \in Seq(Entry) /\ DistinctSubs(new)
          /\ \A e : e \in ToSet(new) <=> (e \in ToSet(us) /\ e.sub # u.sub) \/ e \in {x}
      <4>1. new = Append(us, x)
        OBVIOUS
      <4> HIDE DEF us, new
      <4>2. \A k2 \in DOMAIN us : us[k2].sub # x.sub
        BY <2>3, <2>6, <3>0
      <4>3. /\ new \in Seq(Entry) /\ DistinctSubs(new)
            /\ \A e : e \in ToSet(new) <=> (e \in ToSet(us) /\ e.sub # x.sub) \/ e = x
        BY <2>3, <2>4, <3>0, <4>1, <4>2, ListWith
      <4>4. QED
        BY <3>0, <4>3
    <3> HIDE DEF new
    <3>2. Edited(H, d, n, "user", u.sub, {UserFact(u.sub, u.tag, u.uuid)})
      <4>1. n = replaceInbound(d, i, setInboundUsers(d.inbounds[i], new))
        BY <2>2, <2>6 DEF new, x
      <4> DEFINE E == {x}
                 said == {UserFact(u.sub, u.tag, u.uuid)}
      <4>2. \A e \in E : e.sub = u.sub
        BY <3>0
      <4>3. \A f : f \in said <=> \E e \in E : f = UserFact(u.sub, d.inbounds[i].tag, e.uuid)
        BY <2>1, <3>0
      <4>4. i \in DOMAIN d.inbounds /\ Home(u.sub, d.inbounds[i].tag) \in H
        BY <2>1
      <4>5. /\ new \in Seq(Entry) /\ DistinctSubs(new)
            /\ \A e : e \in ToSet(new) <=>
                  (e \in ToSet(getInboundUsers(d.inbounds[i])) /\ e.sub # u.sub) \/ e \in E
        BY <3>1
      <4> HIDE DEF n, E, said
      <4>6. Edited(H, d, n, "user", u.sub, said)
        BY <4>1, <4>2, <4>3, <4>4, <4>5, UsersEdited
      <4>7. QED
        BY <4>6 DEF said
    <3>3. n # Err
      BY <1>1, <3>2 DEF Edited, Tidy
    <3>4. QED
      BY <1>2, <1>4, <2>3, <2>6, <3>2, <3>3 DEF i
  <2>7. QED
    BY <2>5, <2>6
<1>5. QED
  BY <1>3, <1>4

\* UpdateUser replaces the entry of a user the document has.
LEMMA ManagerUpdatesUser ==
    ASSUME NEW H, OneHome(H), NEW d, Tidy(H, d), NEW u \in DesiredUser,
           Home(u.sub, u.tag) \in H
    PROVE  LET n == ManagerUpdateUser(d, u)
           IN  /\ n # Err <=> /\ \E f \in Facts(d) : f.kind = "inbound" /\ f.name = u.tag
                              /\ \E f \in Facts(d) : f.kind = "user" /\ f.name = u.sub
               /\ n # Err => Edited(H, d, n, "user", u.sub, {UserFact(u.sub, u.tag, u.uuid)})
<1> DEFINE i == findInboundIndex(d, u.tag)
           us == getInboundUsers(d.inbounds[i])
           k == userIndex(us, u.sub)
           n == ManagerUpdateUser(d, u)
<1>1. d \in Document /\ Err \notin Document
  BY ConfigDataAssumption DEF Tidy
<1>2. /\ i # 0 => i \in DOMAIN d.inbounds /\ d.inbounds[i].tag = u.tag
      /\ i # 0 <=> \E f \in Facts(d) : f.kind = "inbound" /\ f.name = u.tag
  BY <1>1, FindsInbound
<1>3. CASE i = 0
  BY <1>2, <1>3 DEF ManagerUpdateUser
<1>4. CASE i # 0
  <2>1. i \in DOMAIN d.inbounds /\ d.inbounds[i].tag = u.tag
    BY <1>2, <1>4
  <2>2. n = IF k = 0 THEN Err
            ELSE replaceInbound(d, i, setInboundUsers(d.inbounds[i], [us EXCEPT ![k] = modelToMap(u)]))
    BY <1>4 DEF ManagerUpdateUser
  <2> HIDE DEF i
  <2>3. /\ us \in Seq(Entry)
        /\ k # 0 => k \in DOMAIN us /\ us[k].sub = u.sub
        /\ k = 0 => \A j \in DOMAIN us : us[j].sub # u.sub
        /\ k # 0 <=> \E f \in Facts(d) : f.kind = "user" /\ f.name = u.sub
    <3>1. i \in DOMAIN d.inbounds /\ Home(u.sub, d.inbounds[i].tag) \in H
      BY <2>1
    <3>2. Indexes(d, us, u.sub)
      BY <3>1, FindsUser
    <3>3. QED
      BY <3>2 DEF Indexes
  <2>4. DistinctSubs(us)
    BY <2>1 DEF Tidy, TidyUsers
  <2> HIDE DEF k
  <2>5. CASE k = 0
    BY <1>2, <1>4, <2>2, <2>3, <2>5 DEF i
  <2>6. CASE ~(k = 0)
    <3> DEFINE x == modelToMap(u)
               new == [us EXCEPT ![k] = x]
    <3>0. x \in Entry /\ x.sub = u.sub /\ x.uuid = u.uuid
      BY DEF modelToMap, Entry, DesiredUser
    <3> HIDE DEF x
    <3>1. /\ new \in Seq(Entry) /\ DistinctSubs(new)
          /\ \A e : e \in ToSet(new) <=> (e \in ToSet(us) /\ e.sub # u.sub) \/ e \in {x}
      <4>1. new = [us EXCEPT ![k] = x]
        OBVIOUS
      <4> HIDE DEF us, new
      <4>2. k \in DOMAIN us /\ us[k].sub = x.sub
        BY <2>3, <2>6, <3>0
      <4>3. /\ new \in Seq(Entry) /\ DistinctSubs(new)
            /\ \A e : e \in ToSet(new) <=> (e \in ToSet(us) /\ e.sub # x.sub) \/ e = x
        BY <2>3, <2>4, <3>0, <4>1, <4>2, ListUpdated
      <4>4. QED
        BY <3>0, <4>3
    <3> HIDE DEF new
    <3>2. Edited(H, d, n, "user", u.sub, {UserFact(u.sub, u.tag, u.uuid)})
      <4>1. n = replaceInbound(d, i, setInboundUsers(d.inbounds[i], new))
        BY <2>2, <2>6 DEF new, x
      <4> DEFINE E == {x}
                 said == {UserFact(u.sub, u.tag, u.uuid)}
      <4>2. \A e \in E : e.sub = u.sub
        BY <3>0
      <4>3. \A f : f \in said <=> \E e \in E : f = UserFact(u.sub, d.inbounds[i].tag, e.uuid)
        BY <2>1, <3>0
      <4>4. i \in DOMAIN d.inbounds /\ Home(u.sub, d.inbounds[i].tag) \in H
        BY <2>1
      <4>5. /\ new \in Seq(Entry) /\ DistinctSubs(new)
            /\ \A e : e \in ToSet(new) <=>
                  (e \in ToSet(getInboundUsers(d.inbounds[i])) /\ e.sub # u.sub) \/ e \in E
        BY <3>1
      <4> HIDE DEF n, E, said
      <4>6. Edited(H, d, n, "user", u.sub, said)
        BY <4>1, <4>2, <4>3, <4>4, <4>5, UsersEdited
      <4>7. QED
        BY <4>6 DEF said
    <3>3. n # Err
      BY <1>1, <3>2 DEF Edited, Tidy
    <3>4. QED
      BY <1>2, <1>4, <2>3, <2>6, <3>2, <3>3 DEF i
  <2>7. QED
    BY <2>5, <2>6
<1>5. QED
  BY <1>3, <1>4

\* DeleteUser takes out the entry of a user the document has.
LEMMA ManagerDeletesUser ==
    ASSUME NEW H, OneHome(H), NEW d, Tidy(H, d), NEW tag, NEW sub,
           Home(sub, tag) \in H
    PROVE  LET n == ManagerDeleteUser(d, tag, sub)
           IN  /\ n # Err <=> /\ \E f \in Facts(d) : f.kind = "inbound" /\ f.name = tag
                              /\ \E f \in Facts(d) : f.kind = "user" /\ f.name = sub
               /\ n # Err => Edited(H, d, n, "user", sub, {})
<1> DEFINE i == findInboundIndex(d, tag)
           us == getInboundUsers(d.inbounds[i])
           k == userIndex(us, sub)
           n == ManagerDeleteUser(d, tag, sub)
<1>1. d \in Document /\ Err \notin Document
  BY ConfigDataAssumption DEF Tidy
<1>2. /\ i # 0 => i \in DOMAIN d.inbounds /\ d.inbounds[i].tag = tag
      /\ i # 0 <=> \E f \in Facts(d) : f.kind = "inbound" /\ f.name = tag
  BY <1>1, FindsInbound
<1>3. CASE i = 0
  BY <1>2, <1>3 DEF ManagerDeleteUser
<1>4. CASE i # 0
  <2>1. i \in DOMAIN d.inbounds /\ d.inbounds[i].tag = tag
    BY <1>2, <1>4
  <2>2. n = IF k = 0 THEN Err
            ELSE replaceInbound(d, i, setInboundUsers(d.inbounds[i], withoutUser(us, sub)))
    BY <1>4 DEF ManagerDeleteUser
  <2> HIDE DEF i
  <2>3. /\ us \in Seq(Entry)
        /\ k # 0 => k \in DOMAIN us /\ us[k].sub = sub
        /\ k = 0 => \A j \in DOMAIN us : us[j].sub # sub
        /\ k # 0 <=> \E f \in Facts(d) : f.kind = "user" /\ f.name = sub
    <3>1. i \in DOMAIN d.inbounds /\ Home(sub, d.inbounds[i].tag) \in H
      BY <2>1
    <3>2. Indexes(d, us, sub)
      BY <3>1, FindsUser
    <3>3. QED
      BY <3>2 DEF Indexes
  <2>4. DistinctSubs(us)
    BY <2>1 DEF Tidy, TidyUsers
  <2> HIDE DEF k
  <2>5. CASE k = 0
    BY <1>2, <1>4, <2>2, <2>3, <2>5 DEF i
  <2>6. CASE ~(k = 0)
    <3> DEFINE new == withoutUser(us, sub)
    <3>1. /\ new \in Seq(Entry) /\ DistinctSubs(new)
          /\ \A e : e \in ToSet(new) <=> (e \in ToSet(us) /\ e.sub # sub) \/ e \in {}
      <4>1. new = withoutUser(us, sub)
        OBVIOUS
      <4> HIDE DEF us, new
      <4>2. QED
        BY <2>3, <2>4, <4>1, ListWithout
    <3> HIDE DEF new
    <3>2. Edited(H, d, n, "user", sub, {})
      <4>1. n = replaceInbound(d, i, setInboundUsers(d.inbounds[i], new))
        BY <2>2, <2>6 DEF new
      <4> DEFINE E == {}
                 said == {}
      <4>2. \A e \in E : e.sub = sub
        OBVIOUS
      <4>3. \A f : f \in said <=> \E e \in E : f = UserFact(sub, d.inbounds[i].tag, e.uuid)
        BY <2>1
      <4>4. i \in DOMAIN d.inbounds /\ Home(sub, d.inbounds[i].tag) \in H
        BY <2>1
      <4>5. /\ new \in Seq(Entry) /\ DistinctSubs(new)
            /\ \A e : e \in ToSet(new) <=>
                  (e \in ToSet(getInboundUsers(d.inbounds[i])) /\ e.sub # sub) \/ e \in E
        BY <3>1
      <4> HIDE DEF n, E, said
      <4>6. Edited(H, d, n, "user", sub, said)
        BY <4>1, <4>2, <4>3, <4>4, <4>5, UsersEdited
      <4>7. QED
        BY <4>6 DEF said
    <3>3. n # Err
      BY <1>1, <3>2 DEF Edited, Tidy
    <3>4. QED
      BY <1>2, <1>4, <2>3, <2>6, <3>2, <3>3 DEF i
  <2>7. QED
    BY <2>5, <2>6
<1>5. QED
  BY <1>3, <1>4
-----------------------------------------------------------------------------
(***************************************************************************)
(* The changes of a plan.  A change is about one kind and name; executing  *)
(* it makes the document say of them what the desired state says, undoing  *)
(* it what the document said that the plan was made for.                   *)
(***************************************************************************)
ChangesTo(desired, doc) ==
    DiffInbounds(desired.inbounds, GetInbounds(doc)) \cup DiffUsers(desired.users, GetUsers(doc))

DesiredFacts(desired) ==
    {InboundFact(m) : m \in desired.inbounds} \cup
    {UserFact(u.sub, u.tag, u.uuid) : u \in ToSet(desired.users)}

FactOf(kind, m) ==
    IF kind = "inbound" THEN InboundFact(m) ELSE UserFact(m.sub, m.tag, m.uuid)
Name(c) == IF c.kind = "inbound" THEN c.new.tag ELSE c.new.sub
About(c, f) == f.kind = c.kind /\ f.name = Name(c)
SaidBy(c) == IF c.type = "delete" THEN {} ELSE {FactOf(c.kind, c.new)}
UnsaidBy(c) == IF c.type = "create" THEN {} ELSE {FactOf(c.kind, c.prev)}

\* The changes from the inbounds B and users W to the inbounds A and users U.
Changed(A, B, U, W, c) ==
    \/ \E m \in A : /\ \A x \in B : x.tag # m.tag
                    /\ c = InboundChange("create", m, Absent)
    \/ \E m \in A : \E x \in B : /\ m.tag = x.tag /\ inboundsDiffer(m, x)
                                 /\ c = InboundChange("update", m, x)
    \/ \E x \in B : /\ \A m \in A : m.tag # x.tag
                    /\ c = InboundChange("delete", x, x)
    \/ \E m \in U : /\ \A x \in W : x.sub # m.sub
                    /\ c = UserChange("create", m, Absent)
    \/ \E m \in U : \E x \in W : /\ m.sub = x.sub /\ m # x
                                 /\ c = UserChange("update", m, x)
    \/ \E x \in W : /\ \A m \in U : m.sub # x.sub
                    /\ c = UserChange("delete", x, x)

\* What a change of an inbound, and one of a user, has in it.
InboundShape(A, B, c) ==
    /\ c.type # "delete" => c.new \in A
    /\ c.type # "create" => c.prev \in B /\ c.prev.tag = c.new.tag
    /\ c.type = "create" => \A x \in B : x.tag # c.new.tag
    /\ c.type = "delete" => c.new = c.prev /\ \A m \in A : m.tag # c.new.tag
UserShape(U, W, c) ==
    /\ c.type # "delete" => c.new \in U
    /\ c.type # "create" => c.prev \in W /\ c.prev.sub = c.new.sub
    /\ c.type = "create" => \A x \in W : x.sub # c.new.sub
    /\ c.type = "delete" => c.new = c.prev /\ \A m \in U : m.sub # c.new.sub
ChangeForm(A, B, U, W, c) ==
    /\ c.kind \in {"inbound", "user"}
    /\ c.type \in {"create", "update", "delete"}
    /\ c.kind = "inbound" => InboundShape(A, B, c)
    /\ c.kind = "user" => UserShape(U, W, c)

\* The greatest of some positions of a list.
LEMMA Greatest ==
    ASSUME NEW n \in Nat, NEW I \in SUBSET (1..n), I # {}
    PROVE  \E x \in I : \A y \in I : y <= x
<1>1. \A y \in I : y \in 1..n /\ y \in Int /\ n - y \in Nat
  OBVIOUS
<1> DEFINE T == {n - y : y \in I}
<1>2. T \in SUBSET Nat /\ T # {}
  BY <1>1
<1>3. PICK t \in T : \A s \in T : t <= s
  <2> HIDE DEF T
  <2>1. QED
    BY <1>2, Least
<1>4. PICK x \in I : t = n - x
  BY <1>3
<1>5. \A y \in I : n - x <= n - y
  BY <1>3, <1>4
<1>6. QED
  BY <1>1, <1>4, <1>5

\* A map keyed by SubID keeps every user of a list without two users of one SubID.
LEMMA AllBySubID ==
    ASSUME NEW S, NEW us \in Seq(S), \A u, w \in ToSet(us) : u.sub = w.sub => u = w
    PROVE  bySubID(us) = ToSet(us)
<1>1. Len(us) \in Nat /\ DOMAIN us = 1..Len(us)
  OBVIOUS
<1>2. bySubID(us) \subseteq ToSet(us)
  BY DEF bySubID, ToSet
<1>3. ASSUME NEW j \in DOMAIN us
      PROVE  us[j] \in bySubID(us)
  <2> DEFINE I == {k \in DOMAIN us : us[k].sub = us[j].sub}
  <2>1. I \in SUBSET (1..Len(us)) /\ I # {}
    BY <1>1
  <2>2. PICK k \in I : \A y \in I : y <= k
    <3> HIDE DEF I
    <3>1. QED
      BY <1>1, <2>1, Greatest
  <2>3. us[k] = us[j]
    BY DEF ToSet
  <2>4. \A y \in DOMAIN us : us[y].sub = us[k].sub => y <= k
    BY <2>2
  <2>5. us[k] \in bySubID(us)
    BY <2>4 DEF bySubID
  <2>6. QED
    BY <2>3, <2>5
<1>4. QED
  BY <1>2, <1>3 DEF ToSet

\* The users of a tidy document are users, each at home and under one SubID.
LEMMA TidyGetUsers ==
    ASSUME NEW H, OneHome(H), NEW d, Tidy(H, d)
    PROVE  /\ GetUsers(d) \in Seq(User)
           /\ \A u \in ToSet(GetUsers(d)) : u \in User /\ Home(u.sub, u.tag) \in H
           /\ \A u, w \in ToSet(GetUsers(d)) : u.sub = w.sub => u = w
           /\ \A u \in ToSet(GetUsers(d)) : \E ib \in ToSet(d.inbounds) : ib.tag = u.tag
<1>1. d \in Document
  BY DEF Tidy
<1>2. /\ GetUsers(d) \in Seq(User)
      /\ \A u : u \in ToSet(GetUsers(d)) <=>
            \E i \in DOMAIN d.inbounds : \E e \in ToSet(getInboundUsers(d.inbounds[i])) :
               u = userFromMap(e, d.inbounds[i].tag)
  BY <1>1, UsersOfDocument
<1>3. \A u \in ToSet(GetUsers(d)) : u \in User
  BY <1>2 DEF ToSet
<1>4. ASSUME NEW i \in DOMAIN d.inbounds, NEW e \in ToSet(getInboundUsers(d.inbounds[i]))
      PROVE  Home(e.sub, d.inbounds[i].tag) \in H
  BY DEF Tidy, TidyUsers
<1>5. \A e, t : userFromMap(e, t).sub = e.sub /\ userFromMap(e, t).tag = t
  BY DEF userFromMap
<1>6. \A u \in ToSet(GetUsers(d)) : Home(u.sub, u.tag) \in H
  BY <1>2, <1>4, <1>5
<1>7. ASSUME NEW u \in ToSet(GetUsers(d)), NEW w \in ToSet(GetUsers(d)), u.sub = w.sub
      PROVE  u = w
  <2>0. PICK i \in DOMAIN d.inbounds : \E x \in ToSet(getInboundUsers(d.inbounds[i])) :
               u = userFromMap(x, d.inbounds[i].tag)
    BY <1>2
  <2>1. PICK e \in ToSet(getInboundUsers(d.inbounds[i])) : u = userFromMap(e, d.inbounds[i].tag)
    BY <2>0
  <2>1a. PICK j \in DOMAIN d.inbounds : \E x \in ToSet(getInboundUsers(d.inbounds[j])) :
               w = userFromMap(x, d.inbounds[j].tag)
    BY <1>2
  <2>2. PICK f \in ToSet(getInboundUsers(d.inbounds[j])) : w = userFromMap(f, d.inbounds[j].tag)
    BY <2>1a
  <2>3. e.sub = f.sub
    BY <1>5, <1>7, <2>1, <2>2
  <2>4. d.inbounds[i].tag = d.inbounds[j].tag
    <3>1. Home(e.sub, d.inbounds[i].tag) \in H /\ Home(f.sub, d.inbounds[j].tag) \in H
      BY <1>4
    <3>2. QED
      BY <2>3, <3>1 DEF OneHome, Home
  <2>5. i = j
    BY <2>4 DEF Tidy, DistinctTags
  <2>6. e = f
    <3>1. DistinctSubs(getInboundUsers(d.inbounds[i]))
      BY DEF Tidy, TidyUsers
    <3>2. QED
      BY <2>3, <2>5, <3>1 DEF DistinctSubs, ToSet
  <2>7. QED
    BY <2>1, <2>2, <2>5, <2>6
<1>8. ASSUME NEW u \in ToSet(GetUsers(d))
      PROVE  \E ib \in ToSet(d.inbounds) : ib.tag = u.tag
  <2>1. PICK i \in DOMAIN d.inbounds : u.tag = d.inbounds[i].tag
    BY <1>2, <1>5
  <2>2. d.inbounds[i] \in ToSet(d.inbounds)
    BY DEF ToSet
  <2>3. QED
    BY <2>1, <2>2
<1>9. QED
  BY <1>2, <1>3, <1>6, <1>7, <1>8

\* The facts of a document are those of what GetInbounds and GetUsers return.
LEMMA FactsByModel ==
    ASSUME NEW d \in Document
    PROVE  \A f : f \in Facts(d) <=>
              \/ \E ib \in ToSet(d.inbounds) : f = InboundFact(ib)
              \/ \E u \in ToSet(GetUsers(d)) : f = UserFact(u.sub, u.tag, u.uuid)
<1>1. \A u : u \in ToSet(GetUsers(d)) <=>
         \E i \in DOMAIN d.inbounds : \E e \in ToSet(getInboundUsers(d.inbounds[i])) :
            u = userFromMap(e, d.inbounds[i].tag)
  BY UsersOfDocument
<1>2. \A e, t : /\ userFromMap(e, t).sub = e.sub /\ userFromMap(e, t).tag = t
                /\ userFromMap(e, t).uuid = e.uuid
  BY DEF userFromMap
<1>3. \A f : f \in Facts(d) <=> \E i \in DOMAIN d.inbounds :
         \/ f = InboundFact(d.inbounds[i])
         \/ \E e \in ToSet(getInboundUsers(d.inbounds[i])) :
               f = UserFact(e.sub, d.inbounds[i].tag, e.uuid)
  BY FactsByInbound, PartMembers
<1>4. \A ib : ib \in ToSet(d.inbounds) <=> \E i \in DOMAIN d.inbounds : ib = d.inbounds[i]
  BY DEF ToSet
<1>5. ASSUME NEW f, f \in Facts(d)
      PROVE  \/ \E ib \in ToSet(d.inbounds) : f = InboundFact(ib)
             \/ \E u \in ToSet(GetUsers(d)) : f = UserFact(u.sub, u.tag, u.uuid)
  <2>1. PICK i \in DOMAIN d.inbounds :
               \/ f = InboundFact(d.inbounds[i])
               \/ \E e \in ToSet(getInboundUsers(d.inbounds[i])) :
                     f = UserFact(e.sub, d.inbounds[i].tag, e.uuid)
    BY <1>3, <1>5
  <2>2. CASE f = InboundFact(d.inbounds[i])
    BY <1>4, <2>2
  <2>3. ASSUME NEW e \in ToSet(getInboundUsers(d.inbounds[i])),
               f = UserFact(e.sub, d.inbounds[i].tag, e.uuid)
        PROVE  \E u \in ToSet(GetUsers(d)) : f = UserFact(u.sub, u.tag, u.uuid)
    <3>1. userFromMap(e, d.inbounds[i].tag) \in ToSet(GetUsers(d))
      BY <1>1
    <3>2. QED
      BY <1>2, <2>3, <3>1
  <2>4. QED
    BY <2>1, <2>2, <2>3
<1>6. ASSUME NEW u \in ToSet(GetUsers(d))
      PROVE  UserFact(u.sub, u.tag, u.uuid) \in Facts(d)
  BY <1>1, <1>2, <1>3
<1>7. \A ib \in ToSet(d.inbounds) : InboundFact(ib) \in Facts(d)
  BY <1>3, <1>4
<1>8. QED
  BY <1>5, <1>6, <1>7
-----------------------------------------------------------------------------
(* What Reconcile finds to change. *)

\* A well-formed desired state, a tidy document, and a home for every user.
Setting(H, desired, doc) == OneHome(H) /\ WellFormed(H, desired) /\ Tidy(H, doc)

\* The changes DiffInbounds returns.
LEMMA InboundChanges ==
    ASSUME NEW A, NEW B
    PROVE  \A c : c \in DiffInbounds(A, B) <=>
              \/ \E m \in A : /\ \A x \in B : x.tag # m.tag
                              /\ c = InboundChange("create", m, Absent)
              \/ \E m \in A : \E x \in B : /\ m.tag = x.tag /\ inboundsDiffer(m, x)
                                           /\ c = InboundChange("update", m, x)
              \/ \E x \in B : /\ \A m \in A : m.tag # x.tag
                              /\ c = InboundChange("delete", x, x)
<1> DEFINE creates == {InboundChange("create", d, Absent) :
                         d \in {m \in A : m.tag \notin {x.tag : x \in B}}}
           pairs == {p \in A \X B : p[1].tag = p[2].tag}
           updates == {InboundChange("update", p[1], p[2]) :
                         p \in {q \in pairs : inboundsDiffer(q[1], q[2])}}
           deletes == {InboundChange("delete", c, c) :
                         c \in {m \in B : m.tag \notin {x.tag : x \in A}}}
<1>1. DiffInbounds(A, B) = creates \cup updates \cup deletes
  BY DEF DiffInbounds
<1>2. \A c : c \in creates <=> \E m \in A : /\ \A x \in B : x.tag # m.tag
                                           /\ c = InboundChange("create", m, Absent)
  OBVIOUS
<1>3. \A c : c \in updates <=>
         \E m \in A : \E x \in B : /\ m.tag = x.tag /\ inboundsDiffer(m, x)
                                   /\ c = InboundChange("update", m, x)
  <2>1. \A p : p \in pairs <=> \E m \in A : \E x \in B : p = <<m, x>> /\ m.tag = x.tag
    OBVIOUS
  <2>2. \A c : c \in updates <=> \E p \in pairs : /\ inboundsDiffer(p[1], p[2])
                                                  /\ c = InboundChange("update", p[1], p[2])
    OBVIOUS
  <2>3. \A m, x : <<m, x>>[1] = m /\ <<m, x>>[2] = x
    OBVIOUS
  <2> HIDE DEF pairs, updates
  <2>4. ASSUME NEW c \in updates
        PROVE  \E m \in A : \E x \in B : /\ m.tag = x.tag /\ inboundsDiffer(m, x)
                                         /\ c = InboundChange("update", m, x)
    <3>1. PICK p \in pairs : inboundsDiffer(p[1], p[2]) /\ c = InboundChange("update", p[1], p[2])
      BY <2>2
    <3>2. PICK m \in A, x \in B : p = <<m, x>> /\ m.tag = x.tag
      BY <2>1
    <3>3. p[1] = m /\ p[2] = x
      BY <3>2
    <3>4. QED
      BY <3>1, <3>2, <3>3
  <2>5. ASSUME NEW m \in A, NEW x \in B, m.tag = x.tag, inboundsDiffer(m, x)
        PROVE  InboundChange("update", m, x) \in updates
    <3>1. <<m, x>> \in pairs
      BY <2>1, <2>5
    <3>2. QED
      BY <2>2, <2>3, <2>5, <3>1
  <2>6. QED
    BY <2>4, <2>5
<1>4. \A c : c \in deletes <=> \E x \in B : /\ \A m \in A : m.tag # x.tag
                                           /\ c = InboundChange("delete", x, x)
  OBVIOUS
<1> HIDE DEF creates, updates, deletes
<1>5. QED
  BY <1>1, <1>2, <1>3, <1>4

\* The changes DiffUsers returns.
LEMMA UserChanges ==
    ASSUME NEW us, NEW ws, NEW A, A = bySubID(us), NEW B, B = bySubID(ws)
    PROVE  \A c : c \in DiffUsers(us, ws) <=>
              \/ \E m \in A : /\ \A x \in B : x.sub # m.sub
                              /\ c = UserChange("create", m, Absent)
              \/ \E m \in A : \E x \in B : /\ m.sub = x.sub /\ m # x
                                           /\ c = UserChange("update", m, x)
              \/ \E x \in B : /\ \A m \in A : m.sub # x.sub
                              /\ c = UserChange("delete", x, x)
<1> DEFINE creates == {UserChange("create", d, Absent) :
                         d \in {m \in A : m.sub \notin {x.sub : x \in B}}}
           pairs == {p \in A \X B : p[1].sub = p[2].sub}
           updates == {UserChange("update", p[1], p[2]) : p \in {q \in pairs : q[1] # q[2]}}
           deletes == {UserChange("delete", c, c) :
                         c \in {m \in B : m.sub \notin {x.sub : x \in A}}}
<1>1. DiffUsers(us, ws) = creates \cup updates \cup deletes
  BY DEF DiffUsers
<1>2. \A c : c \in creates <=> \E m \in A : /\ \A x \in B : x.sub # m.sub
                                           /\ c = UserChange("create", m, Absent)
  OBVIOUS
<1>3. \A c : c \in updates <=>
         \E m \in A : \E x \in B : m.sub = x.sub /\ m # x /\ c = UserChange("update", m, x)
  <2>1. \A p : p \in pairs <=> \E m \in A : \E x \in B : p = <<m, x>> /\ m.sub = x.sub
    OBVIOUS
  <2>2. \A c : c \in updates <=> \E p \in pairs : /\ p[1] # p[2]
                                                  /\ c = UserChange("update", p[1], p[2])
    OBVIOUS
  <2>3. \A m, x : <<m, x>>[1] = m /\ <<m, x>>[2] = x
    OBVIOUS
  <2> HIDE DEF pairs, updates
  <2>4. ASSUME NEW c \in updates
        PROVE  \E m \in A : \E x \in B : /\ m.sub = x.sub /\ m # x
                                         /\ c = UserChange("update", m, x)
    <3>1. PICK p \in pairs : p[1] # p[2] /\ c = UserChange("update", p[1], p[2])
      BY <2>2
    <3>2. PICK m \in A, x \in B : p = <<m, x>> /\ m.sub = x.sub
      BY <2>1
    <3>3. p[1] = m /\ p[2] = x
      BY <3>2
    <3>4. QED
      BY <3>1, <3>2, <3>3
  <2>5. ASSUME NEW m \in A, NEW x \in B, m.sub = x.sub, m # x
        PROVE  UserChange("update", m, x) \in updates
    <3>1. <<m, x>> \in pairs
      BY <2>1, <2>5
    <3>2. QED
      BY <2>2, <2>3, <2>5, <3>1
  <2>6. QED
    BY <2>4, <2>5
<1>4. \A c : c \in deletes <=> \E x \in B : /\ \A m \in A : m.sub # x.sub
                                           /\ c = UserChange("delete", x, x)
  OBVIOUS
<1> HIDE DEF creates, updates, deletes
<1>5. QED
  BY <1>1, <1>2, <1>3, <1>4

\* The changes of a plan, by what the desired state and the document have.
LEMMA Changes ==
    ASSUME NEW H, NEW d, NEW D, Setting(H, d, D)
    PROVE  \A c : c \in ChangesTo(d, D) <=>
              Changed(d.inbounds, ToSet(D.inbounds), ToSet(d.users), ToSet(GetUsers(D)), c)
<1>1. bySubID(d.users) = ToSet(d.users)
  BY AllBySubID DEF Setting, WellFormed
<1>2. bySubID(GetUsers(D)) = ToSet(GetUsers(D))
  <2>1. /\ GetUsers(D) \in Seq(User)
        /\ \A u, w \in ToSet(GetUsers(D)) : u.sub = w.sub => u = w
    BY TidyGetUsers DEF Setting
  <2>2. QED
    BY <2>1, AllBySubID
<1> DEFINE U == ToSet(d.users)
           W == ToSet(GetUsers(D))
           A == d.inbounds
           B == ToSet(D.inbounds)
<1>3. U = bySubID(d.users) /\ W = bySubID(GetUsers(D))
  BY <1>1, <1>2
<1>4. \A c : c \in ChangesTo(d, D) <=>
         c \in DiffInbounds(A, B) \/ c \in DiffUsers(d.users, GetUsers(D))
  BY DEF ChangesTo, GetInbounds
<1> HIDE DEF U, W, A, B
<1>5. \A c : c \in DiffInbounds(A, B) <=>
              \/ \E m \in A : /\ \A x \in B : x.tag # m.tag
                              /\ c = InboundChange("create", m, Absent)
              \/ \E m \in A : \E x \in B : /\ m.tag = x.tag /\ inboundsDiffer(m, x)
                                           /\ c = InboundChange("update", m, x)
              \/ \E x \in B : /\ \A m \in A : m.tag # x.tag
                              /\ c = InboundChange("delete", x, x)
  BY InboundChanges
<1>6. \A c : c \in DiffUsers(d.users, GetUsers(D)) <=>
              \/ \E m \in U : /\ \A x \in W : x.sub # m.sub
                              /\ c = UserChange("create", m, Absent)
              \/ \E m \in U : \E x \in W : /\ m.sub = x.sub /\ m # x
                                           /\ c = UserChange("update", m, x)
              \/ \E x \in W : /\ \A m \in U : m.sub # x.sub
                              /\ c = UserChange("delete", x, x)
  BY <1>3, UserChanges
<1>7. \A c : c \in ChangesTo(d, D) <=> Changed(A, B, U, W, c)
  BY <1>4, <1>5, <1>6 DEF Changed
<1>8. QED
  BY <1>7 DEF U, W, A, B

\* Every change has its shape.
LEMMA ChangeShape ==
    ASSUME NEW A, NEW B, NEW U, NEW W, NEW c, Changed(A, B, U, W, c)
    PROVE  ChangeForm(A, B, U, W, c)
<1>1. ASSUME NEW m \in A, \A x \in B : x.tag # m.tag, c = InboundChange("create", m, Absent)
      PROVE  ChangeForm(A, B, U, W, c)
  BY <1>1 DEF ChangeForm, InboundShape, InboundChange
<1>2. ASSUME NEW m \in A, NEW x \in B, m.tag = x.tag, c = InboundChange("update", m, x)
      PROVE  ChangeForm(A, B, U, W, c)
  BY <1>2 DEF ChangeForm, InboundShape, InboundChange
<1>3. ASSUME NEW x \in B, \A m \in A : m.tag # x.tag, c = InboundChange("delete", x, x)
      PROVE  ChangeForm(A, B, U, W, c)
  BY <1>3 DEF ChangeForm, InboundShape, InboundChange
<1>4. ASSUME NEW m \in U, \A x \in W : x.sub # m.sub, c = UserChange("create", m, Absent)
      PROVE  ChangeForm(A, B, U, W, c)
  BY <1>4 DEF ChangeForm, UserShape, UserChange
<1>5. ASSUME NEW m \in U, NEW x \in W, m.sub = x.sub, c = UserChange("update", m, x)
      PROVE  ChangeForm(A, B, U, W, c)
  BY <1>5 DEF ChangeForm, UserShape, UserChange
<1>6. ASSUME NEW x \in W, \A m \in U : m.sub # x.sub, c = UserChange("delete", x, x)
      PROVE  ChangeForm(A, B, U, W, c)
  BY <1>6 DEF ChangeForm, UserShape, UserChange
<1>7. QED
  BY <1>1, <1>2, <1>3, <1>4, <1>5, <1>6 DEF Changed

\* What a fact tells of an inbound, and of a user.
LEMMA FactKinds ==
    ASSUME NEW m
    PROVE  /\ FactOf("inbound", m).kind = "inbound" /\ FactOf("inbound", m).name = m.tag
           /\ FactOf("inbound", m).tag = m.tag
           /\ FactOf("user", m).kind = "user" /\ FactOf("user", m).name = m.sub
           /\ FactOf("user", m).tag = m.tag
BY DEF FactOf, InboundFact, UserFact

\* The facts of a desired state.
LEMMA DesiredByModel ==
    ASSUME NEW d
    PROVE  \A f : f \in DesiredFacts(d) <=>
              \/ \E m \in d.inbounds : f = FactOf("inbound", m)
              \/ \E u \in ToSet(d.users) : f = FactOf("user", u)
BY DEF DesiredFacts, FactOf

\* The facts of a document.
LEMMA SaidByModel ==
    ASSUME NEW d \in Document
    PROVE  \A f : f \in Facts(d) <=>
              \/ \E m \in ToSet(d.inbounds) : f = FactOf("inbound", m)
              \/ \E u \in ToSet(GetUsers(d)) : f = FactOf("user", u)
BY FactsByModel DEF FactOf

\* In a desired state and in a document a tag is one inbound, a SubID one user.
LEMMA UniqueNames ==
    ASSUME NEW H, NEW d, NEW D, Setting(H, d, D)
    PROVE  /\ \A m, n \in d.inbounds : m.tag = n.tag => m = n
           /\ \A u, w \in ToSet(d.users) : u.sub = w.sub => u = w
           /\ \A m, n \in ToSet(D.inbounds) : m.tag = n.tag => m = n
           /\ \A u, w \in ToSet(GetUsers(D)) : u.sub = w.sub => u = w
<1>1. \A m, n \in ToSet(D.inbounds) : m.tag = n.tag => m = n
  BY DEF Setting, Tidy, DistinctTags, ToSet
<1>2. \A u, w \in ToSet(GetUsers(D)) : u.sub = w.sub => u = w
  BY TidyGetUsers DEF Setting
<1>3. QED
  BY <1>1, <1>2 DEF Setting, WellFormed

\* F is what the inbounds A and the users U, told apart by tag and SubID, say.
Tells(A, U, F) ==
    /\ \A f : f \in F <=> \/ \E m \in A : f = FactOf("inbound", m)
                          \/ \E u \in U : f = FactOf("user", u)
    /\ \A m, n \in A : m.tag = n.tag => m = n
    /\ \A u, w \in U : u.sub = w.sub => u = w
\* The facts of one kind and name.
ByName(A, U, F) ==
    /\ \A m \in A : \A f : f \in F /\ f.kind = "inbound" /\ f.name = m.tag
                              <=> f = FactOf("inbound", m)
    /\ \A u \in U : \A f : f \in F /\ f.kind = "user" /\ f.name = u.sub
                              <=> f = FactOf("user", u)
    /\ \A t : (\A m \in A : m.tag # t) => \A f \in F : ~(f.kind = "inbound" /\ f.name = t)
    /\ \A t : (\A u \in U : u.sub # t) => \A f \in F : ~(f.kind = "user" /\ f.name = t)

\* The fact of one inbound or user among those of all, found by its name.
LEMMA FactByName ==
    ASSUME NEW A, NEW U, NEW F, Tells(A, U, F)
    PROVE  ByName(A, U, F)
<1>1. \A m : /\ FactOf("inbound", m).kind = "inbound" /\ FactOf("inbound", m).name = m.tag
             /\ FactOf("user", m).kind = "user" /\ FactOf("user", m).name = m.sub
  BY FactKinds
<1>2. \A m \in A : FactOf("inbound", m) \in F
  BY DEF Tells
<1>3. \A u \in U : FactOf("user", u) \in F
  BY DEF Tells
<1>4. ASSUME NEW f \in F, f.kind = "inbound"
      PROVE  \E m \in A : f = FactOf("inbound", m) /\ f.name = m.tag
  BY <1>1, <1>4 DEF Tells
<1>5. ASSUME NEW f \in F, f.kind = "user"
      PROVE  \E u \in U : f = FactOf("user", u) /\ f.name = u.sub
  <2>1. (\E m \in A : f = FactOf("inbound", m)) \/ (\E u \in U : f = FactOf("user", u))
    BY DEF Tells
  <2>2. ~\E m \in A : f = FactOf("inbound", m)
    BY <1>1, <1>5
  <2>3. QED
    BY <1>1, <2>1, <2>2
<1>6. ASSUME NEW m \in A, NEW f
      PROVE  f \in F /\ f.kind = "inbound" /\ f.name = m.tag <=> f = FactOf("inbound", m)
  <2>1. ASSUME f \in F, f.kind = "inbound", f.name = m.tag
        PROVE  f = FactOf("inbound", m)
    <3>1. PICK n \in A : f = FactOf("inbound", n) /\ f.name = n.tag
      BY <1>4, <2>1
    <3>2. QED
      BY <2>1, <3>1 DEF Tells
  <2>2. QED
    BY <1>1, <1>2, <2>1
<1>7. ASSUME NEW u \in U, NEW f
      PROVE  f \in F /\ f.kind = "user" /\ f.name = u.sub <=> f = FactOf("user", u)
  <2>1. ASSUME f \in F, f.kind = "user", f.name = u.sub
        PROVE  f = FactOf("user", u)
    <3>1. PICK w \in U : f = FactOf("user", w) /\ f.name = w.sub
      BY <1>5, <2>1
    <3>2. QED
      BY <2>1, <3>1 DEF Tells
  <2>2. QED
    BY <1>1, <1>3, <2>1
<1>8. QED
  BY <1>4, <1>5, <1>6, <1>7 DEF ByName

\* Executing a change says what the desired state says of its kind and name.
LEMMA SaidIsDesired ==
    ASSUME NEW H, NEW d, NEW D, Setting(H, d, D), NEW c \in ChangesTo(d, D)
    PROVE  \A f : f \in SaidBy(c) <=> f \in DesiredFacts(d) /\ About(c, f)
<1> DEFINE A == d.inbounds
           U == ToSet(d.users)
           F == DesiredFacts(d)
<1>1. ChangeForm(A, ToSet(D.inbounds), U, ToSet(GetUsers(D)), c)
  BY Changes, ChangeShape
<1>2. \A f : f \in F <=> \/ \E m \in A : f = FactOf("inbound", m)
                         \/ \E u \in U : f = FactOf("user", u)
  BY DesiredByModel
<1>3. /\ \A m, n \in A : m.tag = n.tag => m = n
      /\ \A u, w \in U : u.sub = w.sub => u = w
  BY UniqueNames
<1> HIDE DEF A, U, F
<1>4. ByName(A, U, F)
  BY <1>2, <1>3, FactByName DEF Tells
<1>5. \A f : f \in SaidBy(c) <=> f \in F /\ About(c, f)
  <2>1. CASE c.kind = "inbound"
    BY <1>1, <1>4, <2>1 DEF ByName, ChangeForm, InboundShape, SaidBy, About, Name
  <2>2. CASE c.kind = "user"
    BY <1>1, <1>4, <2>2 DEF ByName, ChangeForm, UserShape, SaidBy, About, Name
  <2>3. QED
    BY <1>1, <2>1, <2>2 DEF ChangeForm
<1>6. QED
  BY <1>5 DEF F

\* Undoing a change says what the document said of its kind and name.
LEMMA UnsaidIsOld ==
    ASSUME NEW H, NEW d, NEW D, Setting(H, d, D), NEW c \in ChangesTo(d, D)
    PROVE  \A f : f \in UnsaidBy(c) <=> f \in Facts(D) /\ About(c, f)
<1> DEFINE B == ToSet(D.inbounds)
           W == ToSet(GetUsers(D))
           F == Facts(D)
<1>1. ChangeForm(d.inbounds, B, ToSet(d.users), W, c)
  BY Changes, ChangeShape
<1>2. \A f : f \in F <=> \/ \E m \in B : f = FactOf("inbound", m)
                         \/ \E u \in W : f = FactOf("user", u)
  BY SaidByModel DEF Setting, Tidy
<1>3. /\ \A m, n \in B : m.tag = n.tag => m = n
      /\ \A u, w \in W : u.sub = w.sub => u = w
  BY UniqueNames
<1> HIDE DEF B, W, F
<1>4. ByName(B, W, F)
  BY <1>2, <1>3, FactByName DEF Tells
<1>5. \A f : f \in UnsaidBy(c) <=> f \in F /\ About(c, f)
  <2>1. CASE c.kind = "inbound"
    BY <1>1, <1>4, <2>1 DEF ByName, ChangeForm, InboundShape, UnsaidBy, About, Name
  <2>2. CASE c.kind = "user"
    BY <1>1, <1>4, <2>2 DEF ByName, ChangeForm, UserShape, UnsaidBy, About, Name
  <2>3. QED
    BY <1>1, <2>1, <2>2 DEF ChangeForm
<1>6. QED
  BY <1>5 DEF F

\* A plan has one change for each kind and name.
LEMMA OneChange ==
    ASSUME NEW H, NEW d, NEW D, Setting(H, d, D), NEW c \in ChangesTo(d, D),
           NEW b \in ChangesTo(d, D), b.kind = c.kind, Name(b) = Name(c)
    PROVE  b = c
<1> DEFINE U == ToSet(d.users)
           W == ToSet(GetUsers(D))
           A == d.inbounds
           B == ToSet(D.inbounds)
<1>1. Changed(A, B, U, W, b) /\ Changed(A, B, U, W, c)
  BY Changes
<1>2. /\ \A m, n \in A : m.tag = n.tag => m = n
      /\ \A u, w \in U : u.sub = w.sub => u = w
      /\ \A m, n \in B : m.tag = n.tag => m = n
      /\ \A u, w \in W : u.sub = w.sub => u = w
  BY UniqueNames
<1>3. \A t, m, x : /\ InboundChange(t, m, x).kind = "inbound" /\ Name(InboundChange(t, m, x)) = m.tag
                   /\ UserChange(t, m, x).kind = "user" /\ Name(UserChange(t, m, x)) = m.sub
  BY DEF InboundChange, UserChange, Name
<1> HIDE DEF U, W, A, B
<1>4. CASE c.kind = "inbound"
  BY <1>1, <1>2, <1>3, <1>4 DEF Changed
<1>5. CASE c.kind = "user"
  BY <1>1, <1>2, <1>3, <1>5 DEF Changed
<1>6. QED
  BY <1>1, <1>3, <1>4, <1>5 DEF Changed

\* What the desired state and the document do not both say, some change is about.
LEMMA AllChanges ==
    ASSUME NEW H, NEW d, NEW D, Setting(H, d, D), NEW f,
           ~(f \in DesiredFacts(d) <=> f \in Facts(D))
    PROVE  \E c \in ChangesTo(d, D) : About(c, f)
<1> DEFINE U == ToSet(d.users)
           W == ToSet(GetUsers(D))
           A == d.inbounds
           B == ToSet(D.inbounds)
<1>1. \A c : Changed(A, B, U, W, c) => c \in ChangesTo(d, D)
  BY Changes
<1>2. /\ f \in DesiredFacts(d) <=>
            \/ \E m \in A : f = FactOf("inbound", m)
            \/ \E u \in U : f = FactOf("user", u)
      /\ f \in Facts(D) <=>
            \/ \E m \in B : f = FactOf("inbound", m)
            \/ \E u \in W : f = FactOf("user", u)
      /\ \A m : /\ FactOf("inbound", m).kind = "inbound" /\ FactOf("inbound", m).name = m.tag
                /\ FactOf("user", m).kind = "user" /\ FactOf("user", m).name = m.sub
  <2>1. D \in Document
    BY DEF Setting, Tidy
  <2>2. f \in DesiredFacts(d) <=>
            \/ \E m \in A : f = FactOf("inbound", m)
            \/ \E u \in U : f = FactOf("user", u)
    BY DesiredByModel
  <2>3. f \in Facts(D) <=>
            \/ \E m \in B : f = FactOf("inbound", m)
            \/ \E u \in W : f = FactOf("user", u)
    BY <2>1, SaidByModel
  <2> HIDE DEF A, B, U, W
  <2>4. QED
    BY <2>2, <2>3, FactKinds
<1>3. \A t, m, x : /\ InboundChange(t, m, x).kind = "inbound" /\ Name(InboundChange(t, m, x)) = m.tag
                   /\ UserChange(t, m, x).kind = "user" /\ Name(UserChange(t, m, x)) = m.sub
  BY DEF InboundChange, UserChange, Name
<1>4. \A m, x : m.tag = x.tag /\ ~inboundsDiffer(m, x) => FactOf("inbound", m) = FactOf("inbound", x)
  BY DEF inboundsDiffer, FactOf, InboundFact
<1> HIDE DEF U, W, A, B
<1>5. ASSUME NEW m \in A, f = FactOf("inbound", m)
      PROVE  \E c \in ChangesTo(d, D) : About(c, f)
  <2>1. CASE \A x \in B : x.tag # m.tag
    <3>1. InboundChange("create", m, Absent) \in ChangesTo(d, D)
      BY <1>1, <2>1 DEF Changed
    <3>2. QED
      BY <1>2, <1>3, <1>5, <3>1 DEF About
  <2>2. ASSUME NEW x \in B, x.tag = m.tag
        PROVE  \E c \in ChangesTo(d, D) : About(c, f)
    <3>1. inboundsDiffer(m, x)
      BY <1>2, <1>4, <1>5, <2>2
    <3>2. InboundChange("update", m, x) \in ChangesTo(d, D)
      BY <1>1, <2>2, <3>1 DEF Changed
    <3>3. QED
      BY <1>2, <1>3, <1>5, <3>2 DEF About
  <2>3. QED
    BY <2>1, <2>2
<1>6. ASSUME NEW x \in B, f = FactOf("inbound", x)
      PROVE  \E c \in ChangesTo(d, D) : About(c, f)
  <2>1. CASE \A m \in A : m.tag # x.tag
    <3>1. InboundChange("delete", x, x) \in ChangesTo(d, D)
      BY <1>1, <2>1 DEF Changed
    <3>2. QED
      BY <1>2, <1>3, <1>6, <3>1 DEF About
  <2>2. ASSUME NEW m \in A, m.tag = x.tag
        PROVE  \E c \in ChangesTo(d, D) : About(c, f)
    <3>1. inboundsDiffer(m, x)
      BY <1>2, <1>4, <1>6, <2>2
    <3>2. InboundChange("update", m, x) \in ChangesTo(d, D)
      BY <1>1, <2>2, <3>1 DEF Changed
    <3>3. QED
      BY <1>2, <1>3, <1>6, <2>2, <3>2 DEF About
  <2>3. QED
    BY <2>1, <2>2
<1>7. ASSUME NEW m \in U, f = FactOf("user", m)
      PROVE  \E c \in ChangesTo(d, D) : About(c, f)
  <2>1. CASE \A x \in W : x.sub # m.sub
    <3>1. UserChange("create", m, Absent) \in ChangesTo(d, D)
      BY <1>1, <2>1 DEF Changed
    <3>2. QED
      BY <1>2, <1>3, <1>7, <3>1 DEF About
  <2>2. ASSUME NEW x \in W, x.sub = m.sub
        PROVE  \E c \in ChangesTo(d, D) : About(c, f)
    <3>1. m # x
      BY <1>2, <1>7
    <3>2. UserChange("update", m, x) \in ChangesTo(d, D)
      BY <1>1, <2>2, <3>1 DEF Changed
    <3>3. QED
      BY <1>2, <1>3, <1>7, <3>2 DEF About
  <2>3. QED
    BY <2>1, <2>2
<1>8. ASSUME NEW x \in W, f = FactOf("user", x)
      PROVE  \E c \in ChangesTo(d, D) : About(c, f)
  <2>1. CASE \A m \in U : m.sub # x.sub
    <3>1. UserChange("delete", x, x) \in ChangesTo(d, D)
      BY <1>1, <2>1 DEF Changed
    <3>2. QED
      BY <1>2, <1>3, <1>8, <3>1 DEF About
  <2>2. ASSUME NEW m \in U, m.sub = x.sub
        PROVE  \E c \in ChangesTo(d, D) : About(c, f)
    <3>1. m # x
      BY <1>2, <1>8
    <3>2. UserChange("update", m, x) \in ChangesTo(d, D)
      BY <1>1, <2>2, <3>1 DEF Changed
    <3>3. QED
      BY <1>2, <1>3, <1>8, <2>2, <3>2 DEF About
  <2>3. QED
    BY <2>1, <2>2
<1>9. QED
  BY <1>2, <1>5, <1>6, <1>7, <1>8
-----------------------------------------------------------------------------
(***************************************************************************)
(* Executing and undoing the steps of a plan.  X is the set of changes     *)
(* that are executed and not undone.                                       *)
(***************************************************************************)
\* What the document says once the changes X are made.
Moved(desired, doc, X, f) ==
    IF \E c \in X : About(c, f) THEN f \in DesiredFacts(desired) ELSE f \in Facts(doc)

\* The document on the way from start to the desired state, after the changes X.
Reached(H, desired, start, X, doc) ==
    /\ Tidy(H, doc)
    /\ \A f : f \in Facts(doc) <=> Moved(desired, start, X, f)
    /\ \A m \in desired.inbounds : m.tag \in FlatTags(start) => m.tag \in FlatTags(doc)

\* The place of a change among the groups of buildSteps.
Rank(c) ==
    IF c.kind = "inbound"
    THEN IF c.type = "create" THEN 1 ELSE IF c.type = "update" THEN 2 ELSE 6
    ELSE IF c.type = "create" THEN 3 ELSE IF c.type = "update" THEN 4 ELSE 5

\* What a step is about has the form the manager is given.
Manageable(H, c, m) ==
    /\ c.kind = "inbound" => m \in InboundMap /\ TidyUsers(H, m.tag, getInboundUsers(m))
    /\ c.kind = "user" => m \in DesiredUser /\ Home(m.sub, m.tag) \in H

\* The shape of a change of a plan.
LEMMA PlanShape ==
    ASSUME NEW H, NEW d, NEW D, Setting(H, d, D), NEW c \in ChangesTo(d, D)
    PROVE  ChangeForm(d.inbounds, ToSet(D.inbounds), ToSet(d.users), ToSet(GetUsers(D)), c)
BY Changes, ChangeShape

\* Desired and present inbounds and users fit the manager.
LEMMA StepsFit ==
    ASSUME NEW H, NEW d, NEW D, Setting(H, d, D), NEW c \in ChangesTo(d, D)
    PROVE  Manageable(H, c, c.new) /\ (c.type # "create" => Manageable(H, c, c.prev))
<1> DEFINE U == ToSet(d.users)
           W == ToSet(GetUsers(D))
           A == d.inbounds
           B == ToSet(D.inbounds)
<1>1. ChangeForm(A, B, U, W, c)
  BY PlanShape
<1>2. \A m \in A : m \in InboundMap /\ TidyUsers(H, m.tag, getInboundUsers(m))
  <2>1. ASSUME NEW m \in A
        PROVE  m \in DesiredInbound
    BY DEF Setting, WellFormed
  <2>2. ASSUME NEW m \in DesiredInbound
        PROVE  m \in InboundMap /\ getInboundUsers(m) = <<>>
    BY DEF DesiredInbound, InboundMap, UserList, getInboundUsers
  <2>3. \A t : TidyUsers(H, t, <<>>)
    BY DEF TidyUsers, DistinctSubs, ToSet
  <2>4. QED
    BY <2>1, <2>2, <2>3
<1>3. \A m \in B : m \in InboundMap /\ TidyUsers(H, m.tag, getInboundUsers(m))
  <2>1. D \in Document
    BY DEF Setting, Tidy
  <2>2. \A i \in DOMAIN D.inbounds : D.inbounds[i] \in InboundMap
    BY <2>1, InboundList
  <2>3. QED
    BY <2>2 DEF Setting, Tidy, ToSet
<1>4. \A u \in U : u \in DesiredUser /\ Home(u.sub, u.tag) \in H
  BY DEF Setting, WellFormed, ToSet
<1>5. \A u \in W : u \in DesiredUser /\ Home(u.sub, u.tag) \in H
  <2>1. \A u \in W : u \in User /\ Home(u.sub, u.tag) \in H
    BY TidyGetUsers DEF Setting
  <2>2. \A u \in User : u \in DesiredUser
    BY DEF User, DesiredUser
  <2>3. QED
    BY <2>1, <2>2
<1> HIDE DEF A, B, U, W
<1>6. c.kind = "inbound" => c.new \in A \/ c.new \in B
  BY <1>1 DEF ChangeForm, InboundShape
<1>7. c.kind = "inbound" /\ c.type # "create" => c.prev \in B
  BY <1>1 DEF ChangeForm, InboundShape
<1>8. c.kind = "user" => c.new \in U \/ c.new \in W
  BY <1>1 DEF ChangeForm, UserShape
<1>9. c.kind = "user" /\ c.type # "create" => c.prev \in W
  BY <1>1 DEF ChangeForm, UserShape
<1>10. QED
  BY <1>2, <1>3, <1>4, <1>5, <1>6, <1>7, <1>8, <1>9 DEF Manageable

\* The inbound of a user that a document has is in it.
LEMMA UserHasInbound ==
    ASSUME NEW d, NEW f \in Facts(d), f.kind = "user"
    PROVE  \E g \in Facts(d) : g.kind = "inbound" /\ g.name = f.tag
<1>1. PICK i \in DOMAIN d.inbounds : f \in Part(d.inbounds[i])
  BY FactsByInbound
<1>2. InboundFact(d.inbounds[i]) \in Part(d.inbounds[i])
  BY PartMembers
<1>3. InboundFact(d.inbounds[i]) \in Facts(d)
  BY <1>2, FactsByInbound
<1>4. f.tag = d.inbounds[i].tag
  <2>1. \/ f = InboundFact(d.inbounds[i])
        \/ \E e \in ToSet(getInboundUsers(d.inbounds[i])) :
              f = UserFact(e.sub, d.inbounds[i].tag, e.uuid)
    BY <1>1, PartMembers
  <2>2. QED
    BY <2>1 DEF InboundFact, UserFact
<1>5. QED
  BY <1>3, <1>4 DEF InboundFact

\* Of what a change is about that is not made, the document says what it said.
LEMMA Untouched ==
    ASSUME NEW H, NEW d, NEW D, Setting(H, d, D), NEW c \in ChangesTo(d, D),
           NEW X \in SUBSET ChangesTo(d, D), c \notin X, NEW doc, Reached(H, d, D, X, doc),
           NEW f, About(c, f)
    PROVE  f \in Facts(doc) <=> f \in UnsaidBy(c)
<1>1. ~\E b \in X : About(b, f)
  BY OneChange DEF About
<1>2. f \in Facts(doc) <=> f \in Facts(D)
  BY <1>1 DEF Reached, Moved
<1>3. QED
  BY <1>2, UnsaidIsOld

\* Of what a change is about that is made, the document says what is desired.
LEMMA Touched ==
    ASSUME NEW H, NEW d, NEW D, Setting(H, d, D), NEW c \in ChangesTo(d, D),
           NEW X \in SUBSET ChangesTo(d, D), c \in X, NEW doc, Reached(H, d, D, X, doc),
           NEW f, About(c, f)
    PROVE  f \in Facts(doc) <=> f \in SaidBy(c)
<1>1. f \in Facts(doc) <=> f \in DesiredFacts(d)
  BY DEF Reached, Moved
<1>2. QED
  BY <1>1, SaidIsDesired

\* An edit that says what the change desires makes the change.
LEMMA StepMade ==
    ASSUME NEW H, NEW d, NEW D, Setting(H, d, D), NEW c \in ChangesTo(d, D),
           NEW X \in SUBSET ChangesTo(d, D), NEW doc, Reached(H, d, D, X, doc), NEW new,
           Tidy(H, new), Differs(doc, new, c.kind, Name(c), SaidBy(c)),
           \A m \in d.inbounds : m.tag \in FlatTags(doc) => m.tag \in FlatTags(new)
    PROVE  Reached(H, d, D, X \cup {c}, new)
<1>1. ASSUME NEW f, About(c, f)
      PROVE  f \in Facts(new) <=> Moved(d, D, X \cup {c}, f)
  <2>1. f \in Facts(new) <=> f \in SaidBy(c)
    BY <1>1 DEF Differs, About
  <2>2. f \in SaidBy(c) <=> f \in DesiredFacts(d)
    BY <1>1, SaidIsDesired
  <2>3. QED
    BY <1>1, <2>1, <2>2 DEF Moved
<1>2. ASSUME NEW f, ~About(c, f)
      PROVE  f \in Facts(new) <=> Moved(d, D, X \cup {c}, f)
  <2>1. f \notin SaidBy(c)
    BY <1>2, SaidIsDesired
  <2>2. f \in Facts(new) <=> f \in Facts(doc)
    BY <1>2, <2>1 DEF Differs, About
  <2>3. f \in Facts(doc) <=> Moved(d, D, X, f)
    BY DEF Reached
  <2>4. QED
    BY <1>2, <2>2, <2>3 DEF Moved
<1>3. QED
  BY <1>1, <1>2 DEF Reached

\* An edit that says what the document said before the change unmakes it.
LEMMA StepUnmade ==
    ASSUME NEW H, NEW d, NEW D, Setting(H, d, D), NEW c \in ChangesTo(d, D),
           NEW X \in SUBSET ChangesTo(d, D), c \notin X,
           NEW doc, Reached(H, d, D, X \cup {c}, doc), NEW new,
           Tidy(H, new), Differs(doc, new, c.kind, Name(c), UnsaidBy(c)),
           \A m \in d.inbounds : m.tag \in FlatTags(D) /\ m.tag \in FlatTags(doc)
                                    => m.tag \in FlatTags(new)
    PROVE  Reached(H, d, D, X, new)
<1>1. ASSUME NEW f, About(c, f)
      PROVE  f \in Facts(new) <=> Moved(d, D, X, f)
  <2>1. f \in Facts(new) <=> f \in UnsaidBy(c)
    BY <1>1 DEF Differs, About
  <2>2. f \in UnsaidBy(c) <=> f \in Facts(D)
    BY <1>1, UnsaidIsOld
  <2>3. ~\E b \in X : About(b, f)
    BY <1>1, OneChange DEF About
  <2>4. QED
    BY <2>1, <2>2, <2>3 DEF Moved
<1>2. ASSUME NEW f, ~About(c, f)
      PROVE  f \in Facts(new) <=> Moved(d, D, X, f)
  <2>1. f \notin UnsaidBy(c)
    BY <1>2, UnsaidIsOld
  <2>2. f \in Facts(new) <=> f \in Facts(doc)
    BY <1>2, <2>1 DEF Differs, About
  <2>3. f \in Facts(doc) <=> Moved(d, D, X \cup {c}, f)
    BY DEF Reached
  <2>4. QED
    BY <1>2, <2>2, <2>3 DEF Moved
<1>3. QED
  BY <1>1, <1>2 DEF Reached
-----------------------------------------------------------------------------
(* The steps find what they are about. *)

\* Once the inbounds are created and updated, every desired inbound is there.
LEMMA DesiredIsThere ==
    ASSUME NEW H, NEW d, NEW D, Setting(H, d, D), NEW X \in SUBSET ChangesTo(d, D),
           NEW doc, Reached(H, d, D, X, doc),
           \A b \in ChangesTo(d, D) : b.kind = "inbound" /\ b.type # "delete" => b \in X,
           NEW m \in d.inbounds
    PROVE  \E f \in Facts(doc) : f.kind = "inbound" /\ f.name = m.tag
<1> DEFINE f == FactOf("inbound", m)
<1>1. f \in DesiredFacts(d) /\ f.kind = "inbound" /\ f.name = m.tag
  BY DesiredByModel, FactKinds
<1> HIDE DEF f
<1>2. Moved(d, D, X, f)
  <2>1. CASE \E b \in X : About(b, f)
    BY <1>1, <2>1 DEF Moved
  <2>2. CASE ~\E b \in X : About(b, f)
    <3>1. SUFFICES ASSUME f \notin Facts(D)
                   PROVE  FALSE
      BY <2>2 DEF Moved
    <3>2. PICK b \in ChangesTo(d, D) : About(b, f)
      BY <1>1, <3>1, AllChanges
    <3>3. b.kind = "inbound" /\ b.new.tag = m.tag
      BY <1>1, <3>2 DEF About, Name
    <3>4. b.type = "delete"
      BY <2>2, <3>2, <3>3
    <3>5. ChangeForm(d.inbounds, ToSet(D.inbounds), ToSet(d.users), ToSet(GetUsers(D)), b)
      BY PlanShape
    <3>6. QED
      BY <3>3, <3>4, <3>5 DEF ChangeForm, InboundShape
  <2>3. QED
    BY <2>1, <2>2
<1>3. QED
  BY <1>1, <1>2 DEF Reached

\* Once the users are created, updated and deleted, only desired ones are there.
LEMMA OnlyDesiredUsers ==
    ASSUME NEW H, NEW d, NEW D, Setting(H, d, D), NEW X \in SUBSET ChangesTo(d, D),
           NEW doc, Reached(H, d, D, X, doc),
           \A b \in ChangesTo(d, D) : b.kind = "user" => b \in X,
           NEW f \in Facts(doc), f.kind = "user"
    PROVE  \E m \in d.inbounds : m.tag = f.tag
<1>1. Moved(d, D, X, f)
  BY DEF Reached
<1>2. f \in DesiredFacts(d)
  <2>1. CASE \E b \in X : About(b, f)
    BY <1>1, <2>1 DEF Moved
  <2>2. CASE ~\E b \in X : About(b, f)
    <3>1. f \in Facts(D)
      BY <1>1, <2>2 DEF Moved
    <3>2. SUFFICES ASSUME f \notin DesiredFacts(d)
                   PROVE  FALSE
      OBVIOUS
    <3>3. PICK b \in ChangesTo(d, D) : About(b, f)
      BY <3>1, <3>2, AllChanges
    <3>4. QED
      BY <2>2, <3>3 DEF About
  <2>3. QED
    BY <2>1, <2>2
<1>3. \/ \E m \in d.inbounds : f = FactOf("inbound", m)
      \/ \E u \in ToSet(d.users) : f = FactOf("user", u)
  BY <1>2, DesiredByModel
<1>4. ~\E m \in d.inbounds : f = FactOf("inbound", m)
  BY FactKinds
<1>5. PICK u \in ToSet(d.users) : f = FactOf("user", u)
  BY <1>3, <1>4
<1>6. f.tag = u.tag
  BY <1>5, FactKinds
<1>7. QED
  BY <1>6 DEF Setting, WellFormed

\* Before the first change of a user, the users are those that were there.
LEMMA OnlyOldUsers ==
    ASSUME NEW H, NEW d, NEW D, Setting(H, d, D), NEW X \in SUBSET ChangesTo(d, D),
           NEW doc, Reached(H, d, D, X, doc),
           \A b \in X : b.kind # "user",
           NEW f \in Facts(doc), f.kind = "user"
    PROVE  \E m \in ToSet(D.inbounds) : m.tag = f.tag
<1>1. Moved(d, D, X, f)
  BY DEF Reached
<1>2. f \in Facts(D)
  BY <1>1 DEF Moved, About
<1>3. PICK g \in Facts(D) : g.kind = "inbound" /\ g.name = f.tag
  BY <1>2, UserHasInbound
<1>4. \/ \E m \in ToSet(D.inbounds) : g = FactOf("inbound", m)
      \/ \E u \in ToSet(GetUsers(D)) : g = FactOf("user", u)
  BY SaidByModel DEF Setting, Tidy
<1>5. ~\E u \in ToSet(GetUsers(D)) : g = FactOf("user", u)
  BY <1>3, FactKinds
<1>6. PICK m \in ToSet(D.inbounds) : g = FactOf("inbound", m)
  BY <1>4, <1>5
<1>7. m.tag = f.tag
  BY <1>3, <1>6, FactKinds
<1>8. QED
  BY <1>7

\* Before the first inbound is deleted, every inbound is there that was there.
LEMMA OldIsThere ==
    ASSUME NEW H, NEW d, NEW D, Setting(H, d, D), NEW X \in SUBSET ChangesTo(d, D),
           NEW doc, Reached(H, d, D, X, doc),
           \A b \in X : ~(b.kind = "inbound" /\ b.type = "delete"),
           NEW m \in ToSet(D.inbounds)
    PROVE  \E f \in Facts(doc) : f.kind = "inbound" /\ f.name = m.tag
<1> DEFINE f == FactOf("inbound", m)
<1>1. f.kind = "inbound" /\ f.name = m.tag
  BY FactKinds
<1>2. f \in Facts(D)
  BY SaidByModel DEF Setting, Tidy
<1> HIDE DEF f
<1>3. CASE ~\E b \in X : About(b, f)
  BY <1>1, <1>2, <1>3 DEF Reached, Moved
<1>4. ASSUME NEW b \in X, About(b, f)
      PROVE  \E g \in Facts(doc) : g.kind = "inbound" /\ g.name = m.tag
  <2> DEFINE g == FactOf("inbound", b.new)
  <2>1. b.kind = "inbound" /\ b.type # "delete" /\ b.new.tag = m.tag
    BY <1>1, <1>4 DEF About, Name
  <2>2. g \in SaidBy(b) /\ g.kind = "inbound" /\ g.name = m.tag
    BY <2>1, FactKinds DEF SaidBy
  <2> HIDE DEF g
  <2>3. About(b, g)
    BY <2>1, <2>2 DEF About, Name
  <2>4. g \in Facts(doc)
    BY <2>2, <2>3, Touched
  <2>5. QED
    BY <2>2, <2>4
<1>5. QED
  BY <1>3, <1>4

\* UpdateUser on a user who is there, in an inbound that is there.
LEMMA UserUpdated ==
    ASSUME NEW H, NEW d, OneHome(H) /\ Tidy(H, d), NEW u, u \in DesiredUser /\ Home(u.sub, u.tag) \in H,
           \E f \in Facts(d) : f.kind = "inbound" /\ f.name = u.tag,
           \E f \in Facts(d) : f.kind = "user" /\ f.name = u.sub,
           NEW n, n = ManagerUpdateUser(d, u)
    PROVE  n # Err /\ Edited(H, d, n, "user", u.sub, {UserFact(u.sub, u.tag, u.uuid)})
BY ManagerUpdatesUser

\* AddUser on a user who is not there, in an inbound that is there.
LEMMA UserAdded ==
    ASSUME NEW H, NEW d, OneHome(H) /\ Tidy(H, d), NEW u, u \in DesiredUser /\ Home(u.sub, u.tag) \in H,
           \E f \in Facts(d) : f.kind = "inbound" /\ f.name = u.tag,
           ~\E f \in Facts(d) : f.kind = "user" /\ f.name = u.sub,
           NEW n, n = ManagerAddUser(d, u)
    PROVE  n # Err /\ Edited(H, d, n, "user", u.sub, {UserFact(u.sub, u.tag, u.uuid)})
BY ManagerAddsUser

\* A step executed in its turn succeeds and makes its change.
LEMMA Executes ==
    ASSUME NEW H, NEW d, NEW D, Setting(H, d, D), NEW c \in ChangesTo(d, D),
           NEW X \in SUBSET ChangesTo(d, D), c \notin X, NEW doc, Reached(H, d, D, X, doc),
           \A b \in ChangesTo(d, D) : Rank(b) < Rank(c) => b \in X
    PROVE  /\ ExecuteStep(doc, c) # Err
           /\ Reached(H, d, D, X \cup {c}, ExecuteStep(doc, c))
<1> DEFINE n == ExecuteStep(doc, c)
           A == d.inbounds
           B == ToSet(D.inbounds)
           U == ToSet(d.users)
           W == ToSet(GetUsers(D))
<1>1. ChangeForm(A, B, U, W, c)
  BY PlanShape
<1>2. Manageable(H, c, c.new)
  BY StepsFit
<1>3. OneHome(H) /\ Tidy(H, doc)
  BY DEF Setting, Reached
<1>4. \A f : About(c, f) => (f \in Facts(doc) <=> f \in UnsaidBy(c))
  BY Untouched
<1>5. ASSUME Tidy(H, n), Differs(doc, n, c.kind, Name(c), SaidBy(c)),
             \A m \in A : m.tag \in FlatTags(doc) => m.tag \in FlatTags(n)
      PROVE  Reached(H, d, D, X \cup {c}, n)
  BY <1>5, StepMade
<1>6. CASE c.kind = "inbound" /\ c.type = "create"
  <2>1. n = ManagerAddInbound(doc, c.new)
    BY <1>6 DEF ExecuteStep
  <2>2. c.new \in InboundMap /\ TidyUsers(H, c.new.tag, getInboundUsers(c.new))
    BY <1>2, <1>6 DEF Manageable
  <2>3. ~\E f \in Facts(doc) : f.kind = "inbound" /\ f.name = c.new.tag
    BY <1>4, <1>6 DEF About, Name, UnsaidBy
  <2>4. c.new \in A
    BY <1>1, <1>6 DEF ChangeForm, InboundShape
  <2>5. c.new.users \in {Absent, <<>>}
    BY <2>4 DEF Setting, WellFormed, DesiredInbound
  <2> HIDE DEF n
  <2>6. n # Err /\ Tidy(H, n) /\ FlatTags(doc) \subseteq FlatTags(n)
        /\ Differs(doc, n, "inbound", c.new.tag, {InboundFact(c.new)})
    BY <1>3, <2>1, <2>2, <2>3, <2>5, ManagerAddsInbound
  <2>7. Name(c) = c.new.tag /\ SaidBy(c) = {InboundFact(c.new)}
    BY <1>6 DEF Name, SaidBy, FactOf
  <2>8. QED
    BY <1>5, <1>6, <2>6, <2>7 DEF n
<1>7. CASE c.kind = "inbound" /\ c.type = "update"
  <2>1. n = ManagerUpdateInbound(doc, c.new)
    BY <1>7 DEF ExecuteStep
  <2>2. c.new \in InboundMap /\ TidyUsers(H, c.new.tag, getInboundUsers(c.new))
    BY <1>2, <1>7 DEF Manageable
  <2>3. \E f \in Facts(doc) : f.kind = "inbound" /\ f.name = c.new.tag
    <3> DEFINE f == FactOf("inbound", c.prev)
    <3>1. f \in UnsaidBy(c)
      BY <1>7 DEF UnsaidBy
    <3>2. f.kind = "inbound" /\ f.name = c.new.tag
      BY <1>1, <1>7, FactKinds DEF ChangeForm, InboundShape
    <3> HIDE DEF f
    <3>3. QED
      BY <1>4, <1>7, <3>1, <3>2 DEF About, Name
  <2>4. c.new \in A
    BY <1>1, <1>7 DEF ChangeForm, InboundShape
  <2>5. c.new.users = Absent
    BY <2>4 DEF Setting, WellFormed, DesiredInbound
  <2> HIDE DEF n
  <2>6. n # Err /\ Tidy(H, n) /\ FlatTags(doc) \subseteq FlatTags(n)
        /\ Differs(doc, n, "inbound", c.new.tag, {InboundFact(c.new)})
    BY <1>3, <2>1, <2>2, <2>3, <2>5, ManagerUpdatesInbound
  <2>7. Name(c) = c.new.tag /\ SaidBy(c) = {InboundFact(c.new)}
    BY <1>7 DEF Name, SaidBy, FactOf
  <2>8. QED
    BY <1>5, <1>7, <2>6, <2>7 DEF n
<1>8. CASE c.kind = "inbound" /\ c.type = "delete"
  <2>1. n = ManagerDeleteInbound(doc, c.new.tag)
    BY <1>8 DEF ExecuteStep
  <2>2. c.new = c.prev /\ \A m \in A : m.tag # c.new.tag
    BY <1>1, <1>8 DEF ChangeForm, InboundShape
  <2>3. \E f \in Facts(doc) : f.kind = "inbound" /\ f.name = c.new.tag
    <3> DEFINE f == FactOf("inbound", c.new)
    <3>1. f \in UnsaidBy(c)
      BY <1>8, <2>2 DEF UnsaidBy
    <3>2. f.kind = "inbound" /\ f.name = c.new.tag
      BY FactKinds
    <3> HIDE DEF f
    <3>3. QED
      BY <1>4, <1>8, <3>1, <3>2 DEF About, Name
  <2>4. \A b \in ChangesTo(d, D) : b.kind = "user" => b \in X
    BY <1>8 DEF Rank
  <2>5. \A f \in Facts(doc) : f.kind = "user" => f.tag # c.new.tag
    BY <2>2, <2>4, OnlyDesiredUsers
  <2> HIDE DEF n
  <2>6. n # Err /\ Tidy(H, n) /\ FlatTags(doc) \ {c.new.tag} \subseteq FlatTags(n)
        /\ Differs(doc, n, "inbound", c.new.tag, {})
    BY <1>3, <2>1, <2>3, <2>5, ManagerDeletesInbound
  <2>7. Name(c) = c.new.tag /\ SaidBy(c) = {}
    BY <1>8 DEF Name, SaidBy, FactOf
  <2>8. QED
    BY <1>5, <1>8, <2>2, <2>6, <2>7 DEF n
<1>9. CASE c.kind = "user" /\ c.type # "delete"
  <2>1. c.new \in DesiredUser /\ Home(c.new.sub, c.new.tag) \in H
    BY <1>2, <1>9 DEF Manageable
  <2>2. \A b \in ChangesTo(d, D) : b.kind = "inbound" /\ b.type # "delete" => b \in X
    <3>1. ASSUME NEW b \in ChangesTo(d, D), b.kind = "inbound", b.type # "delete"
          PROVE  Rank(b) < Rank(c)
      <4>1. b.type \in {"create", "update"}
        BY <3>1, PlanShape DEF ChangeForm
      <4>2. Rank(b) \in {1, 2}
        BY <3>1, <4>1 DEF Rank
      <4>3. Rank(c) \in {3, 4, 5}
        BY <1>9 DEF Rank
      <4>4. QED
        BY <4>2, <4>3
    <3>2. QED
      BY <3>1
  <2>3. c.new \in U
    BY <1>1, <1>9 DEF ChangeForm, UserShape
  <2>4. PICK m \in A : m.tag = c.new.tag
    BY <2>3 DEF Setting, WellFormed
  <2>5. \E f \in Facts(doc) : f.kind = "inbound" /\ f.name = c.new.tag
    <3>1. \E f \in Facts(doc) : f.kind = "inbound" /\ f.name = m.tag
      BY <2>2, DesiredIsThere
    <3>2. QED
      BY <2>4, <3>1
  <2>6. Name(c) = c.new.sub /\ SaidBy(c) = {UserFact(c.new.sub, c.new.tag, c.new.uuid)}
    BY <1>9 DEF Name, SaidBy, FactOf
  <2>7. CASE c.type = "create"
    <3>1. n = ManagerAddUser(doc, c.new)
      BY <1>9, <2>7 DEF ExecuteStep
    <3>2. ~\E f \in Facts(doc) : f.kind = "user" /\ f.name = c.new.sub
      BY <1>4, <1>9, <2>7 DEF About, Name, UnsaidBy
    <3> HIDE DEF n
    <3>3. n # Err /\ Edited(H, doc, n, "user", c.new.sub, {UserFact(c.new.sub, c.new.tag, c.new.uuid)})
      BY <1>3, <2>1, <2>5, <3>1, <3>2, UserAdded
    <3>4. QED
      BY <1>5, <1>9, <2>6, <3>3 DEF n, Edited
  <2>8. CASE c.type = "update"
    <3>1. n = ManagerUpdateUser(doc, c.new)
      BY <1>9, <2>8 DEF ExecuteStep
    <3>2. \E f \in Facts(doc) : f.kind = "user" /\ f.name = c.new.sub
      <4> DEFINE f == FactOf("user", c.prev)
      <4>1. f \in UnsaidBy(c)
        BY <1>9, <2>8 DEF UnsaidBy
      <4>2. f.kind = "user" /\ f.name = c.new.sub
        BY <1>1, <1>9, <2>8, FactKinds DEF ChangeForm, UserShape
      <4> HIDE DEF f
      <4>3. QED
        BY <1>4, <1>9, <4>1, <4>2 DEF About, Name
    <3> HIDE DEF n
    <3>3. n # Err /\ Edited(H, doc, n, "user", c.new.sub, {UserFact(c.new.sub, c.new.tag, c.new.uuid)})
      BY <1>3, <2>1, <2>5, <3>1, <3>2, UserUpdated
    <3>4. QED
      BY <1>5, <1>9, <2>6, <3>3 DEF n, Edited
  <2>9. QED
    BY <1>1, <1>9, <2>7, <2>8 DEF ChangeForm
<1>10. CASE c.kind = "user" /\ c.type = "delete"
  <2>1. n = ManagerDeleteUser(doc, c.new.tag, c.new.sub)
    BY <1>10 DEF ExecuteStep
  <2>2. Home(c.new.sub, c.new.tag) \in H
    BY <1>2, <1>10 DEF Manageable
  <2> DEFINE f == FactOf("user", c.new)
  <2>3. f \in UnsaidBy(c) /\ f.kind = "user" /\ f.name = c.new.sub /\ f.tag = c.new.tag
    BY <1>1, <1>10, FactKinds DEF UnsaidBy, ChangeForm, UserShape
  <2> HIDE DEF f, n
  <2>4. f \in Facts(doc)
    BY <1>4, <1>10, <2>3 DEF About, Name
  <2>5. \E g \in Facts(doc) : g.kind = "inbound" /\ g.name = c.new.tag
    BY <2>3, <2>4, UserHasInbound
  <2>6. n # Err /\ Edited(H, doc, n, "user", c.new.sub, {})
    <3>1. \E g \in Facts(doc) : g.kind = "user" /\ g.name = c.new.sub
      BY <2>3, <2>4
    <3>2. QED
      BY <1>3, <2>1, <2>2, <2>5, <3>1, ManagerDeletesUser
  <2>7. Name(c) = c.new.sub /\ SaidBy(c) = {}
    BY <1>10 DEF Name, SaidBy
  <2>8. QED
    BY <1>5, <1>10, <2>6, <2>7 DEF n, Edited
<1>11. QED
  BY <1>1, <1>6, <1>7, <1>8, <1>9, <1>10 DEF ChangeForm

\* A step undone in its turn succeeds and unmakes its change, if no users were
\* lost with an inbound it deleted.
LEMMA Undoes ==
    ASSUME NEW H, NEW d, NEW D, Setting(H, d, D), NEW c \in ChangesTo(d, D),
           NEW X \in SUBSET ChangesTo(d, D), c \notin X,
           NEW doc, Reached(H, d, D, X \cup {c}, doc),
           \A b \in X : Rank(b) <= Rank(c),
           c.kind = "inbound" /\ c.type = "delete" => c.prev.users \in {Absent, <<>>}
    PROVE  /\ RollbackStep(doc, c) # Err
           /\ Reached(H, d, D, X, RollbackStep(doc, c))
<1> DEFINE n == RollbackStep(doc, c)
           A == d.inbounds
           B == ToSet(D.inbounds)
           U == ToSet(d.users)
           W == ToSet(GetUsers(D))
           Y == X \cup {c}
<1>1. ChangeForm(A, B, U, W, c)
  BY PlanShape
<1>2. Manageable(H, c, c.new) /\ (c.type # "create" => Manageable(H, c, c.prev))
  BY StepsFit
<1>3. OneHome(H) /\ Tidy(H, doc)
  BY DEF Setting, Reached
<1>4. Y \in SUBSET ChangesTo(d, D) /\ c \in Y /\ Reached(H, d, D, Y, doc)
  OBVIOUS
<1>5. \A f : About(c, f) => (f \in Facts(doc) <=> f \in SaidBy(c))
  <2> HIDE DEF Y
  <2>1. QED
    BY <1>4, Touched
<1>6. ASSUME Tidy(H, n), Differs(doc, n, c.kind, Name(c), UnsaidBy(c)),
             \A m \in A : m.tag \in FlatTags(D) /\ m.tag \in FlatTags(doc)
                             => m.tag \in FlatTags(n)
      PROVE  Reached(H, d, D, X, n)
  BY <1>6, StepUnmade
<1>7. CASE c.kind = "inbound" /\ c.type = "create"
  <2>1. n = ManagerDeleteInbound(doc, c.new.tag)
    BY <1>7 DEF RollbackStep
  <2>2. \A x \in B : x.tag # c.new.tag
    BY <1>1, <1>7 DEF ChangeForm, InboundShape
  <2>3. \E f \in Facts(doc) : f.kind = "inbound" /\ f.name = c.new.tag
    <3> DEFINE f == FactOf("inbound", c.new)
    <3>1. f \in SaidBy(c)
      BY <1>7 DEF SaidBy
    <3>2. f.kind = "inbound" /\ f.name = c.new.tag
      BY FactKinds
    <3> HIDE DEF f
    <3>3. QED
      BY <1>5, <1>7, <3>1, <3>2 DEF About, Name
  <2>4. \A b \in Y : b.kind # "user"
    <3>1. ASSUME NEW b \in X
          PROVE  b.kind # "user"
      <4>1. Rank(b) <= 1
        BY <1>7 DEF Rank
      <4>2. QED
        BY <4>1 DEF Rank
    <3>2. QED
      BY <1>7, <3>1
  <2>5. \A f \in Facts(doc) : f.kind = "user" => f.tag # c.new.tag
    <3> HIDE DEF Y
    <3>1. QED
      BY <1>4, <2>2, <2>4, OnlyOldUsers
  <2> HIDE DEF n
  <2>6. n # Err /\ Tidy(H, n) /\ FlatTags(doc) \ {c.new.tag} \subseteq FlatTags(n)
        /\ Differs(doc, n, "inbound", c.new.tag, {})
    BY <1>3, <2>1, <2>3, <2>5, ManagerDeletesInbound
  <2>7. Name(c) = c.new.tag /\ UnsaidBy(c) = {}
    BY <1>7 DEF Name, UnsaidBy
  <2>8. c.new.tag \notin FlatTags(D)
    BY <2>2 DEF FlatTags, ToSet
  <2>9. QED
    BY <1>6, <1>7, <2>6, <2>7, <2>8 DEF n
<1>8. CASE c.kind = "inbound" /\ c.type = "update"
  <2>1. n = ManagerUpdateInbound(doc, c.prev)
    BY <1>8 DEF RollbackStep
  <2>2. c.prev \in InboundMap /\ TidyUsers(H, c.prev.tag, getInboundUsers(c.prev))
    BY <1>2, <1>8 DEF Manageable
  <2>3. c.new \in A /\ c.prev \in B /\ c.prev.tag = c.new.tag
    BY <1>1, <1>8 DEF ChangeForm, InboundShape
  <2>4. \E f \in Facts(doc) : f.kind = "inbound" /\ f.name = c.prev.tag
    <3> DEFINE f == FactOf("inbound", c.new)
    <3>1. f \in SaidBy(c)
      BY <1>8 DEF SaidBy
    <3>2. f.kind = "inbound" /\ f.name = c.new.tag
      BY FactKinds
    <3> HIDE DEF f
    <3>3. QED
      BY <1>5, <1>8, <2>3, <3>1, <3>2 DEF About, Name
  <2>5. c.prev.users = Absent \/ c.prev.tag \in FlatTags(doc)
    <3>1. SUFFICES ASSUME c.prev.users # Absent
                   PROVE  c.prev.tag \in FlatTags(doc)
      OBVIOUS
    <3>2. c.prev.tag \in FlatTags(D)
      BY <2>3, <3>1 DEF FlatTags, ToSet
    <3>3. QED
      BY <2>3, <3>2 DEF Reached
  <2> HIDE DEF n
  <2>6. n # Err /\ Tidy(H, n) /\ FlatTags(doc) \subseteq FlatTags(n)
        /\ Differs(doc, n, "inbound", c.prev.tag, {InboundFact(c.prev)})
    BY <1>3, <2>1, <2>2, <2>4, <2>5, ManagerUpdatesInbound
  <2>7. Name(c) = c.prev.tag /\ UnsaidBy(c) = {InboundFact(c.prev)}
    BY <1>8, <2>3 DEF Name, UnsaidBy, FactOf
  <2>8. QED
    BY <1>6, <1>8, <2>6, <2>7 DEF n
<1>9. CASE c.kind = "inbound" /\ c.type = "delete"
  <2>1. n = ManagerAddInbound(doc, c.prev)
    BY <1>9 DEF RollbackStep
  <2>2. c.prev \in InboundMap /\ TidyUsers(H, c.prev.tag, getInboundUsers(c.prev))
    BY <1>2, <1>9 DEF Manageable
  <2>3. c.prev.tag = c.new.tag
    BY <1>1, <1>9 DEF ChangeForm, InboundShape
  <2>4. ~\E f \in Facts(doc) : f.kind = "inbound" /\ f.name = c.prev.tag
    BY <1>5, <1>9, <2>3 DEF About, Name, SaidBy
  <2>5. c.prev.users \in {Absent, <<>>}
    BY <1>9
  <2> HIDE DEF n
  <2>6. n # Err /\ Tidy(H, n) /\ FlatTags(doc) \subseteq FlatTags(n)
        /\ Differs(doc, n, "inbound", c.prev.tag, {InboundFact(c.prev)})
    BY <1>3, <2>1, <2>2, <2>4, <2>5, ManagerAddsInbound
  <2>7. Name(c) = c.prev.tag /\ UnsaidBy(c) = {InboundFact(c.prev)}
    BY <1>9, <2>3 DEF Name, UnsaidBy, FactOf
  <2>8. QED
    BY <1>6, <1>9, <2>6, <2>7 DEF n
<1>10. CASE c.kind = "user" /\ c.type # "delete"
  <2>1. Home(c.new.sub, c.new.tag) \in H
    BY <1>2, <1>10 DEF Manageable
  <2> DEFINE f == FactOf("user", c.new)
  <2>2. f \in SaidBy(c) /\ f.kind = "user" /\ f.name = c.new.sub /\ f.tag = c.new.tag
    BY <1>10, FactKinds DEF SaidBy
  <2> HIDE DEF f
  <2>3. f \in Facts(doc)
    BY <1>5, <1>10, <2>2 DEF About, Name
  <2>4. \E g \in Facts(doc) : g.kind = "inbound" /\ g.name = c.new.tag
    BY <2>2, <2>3, UserHasInbound
  <2>5. \E g \in Facts(doc) : g.kind = "user" /\ g.name = c.new.sub
    BY <2>2, <2>3
  <2>6. CASE c.type = "create"
    <3>1. n = ManagerDeleteUser(doc, c.new.tag, c.new.sub)
      BY <1>10, <2>6 DEF RollbackStep
    <3> HIDE DEF n
    <3>2. n # Err /\ Edited(H, doc, n, "user", c.new.sub, {})
      BY <1>3, <2>1, <2>4, <2>5, <3>1, ManagerDeletesUser
    <3>3. Name(c) = c.new.sub /\ UnsaidBy(c) = {}
      BY <1>10, <2>6 DEF Name, UnsaidBy
    <3>4. QED
      BY <1>6, <1>10, <3>2, <3>3 DEF n, Edited
  <2>7. CASE c.type = "update"
    <3>1. n = ManagerUpdateUser(doc, c.prev)
      BY <1>10, <2>7 DEF RollbackStep
    <3>2. c.prev \in DesiredUser /\ Home(c.prev.sub, c.prev.tag) \in H
      BY <1>2, <1>10, <2>7 DEF Manageable
    <3>3. c.prev.sub = c.new.sub
      BY <1>1, <1>10, <2>7 DEF ChangeForm, UserShape
    <3>4. c.prev.tag = c.new.tag
      BY <1>3, <2>1, <3>2, <3>3 DEF OneHome, Home
    <3>5. /\ \E g \in Facts(doc) : g.kind = "inbound" /\ g.name = c.prev.tag
          /\ \E g \in Facts(doc) : g.kind = "user" /\ g.name = c.prev.sub
      BY <2>4, <2>5, <3>3, <3>4
    <3> HIDE DEF n
    <3>6. n # Err
          /\ Edited(H, doc, n, "user", c.prev.sub, {UserFact(c.prev.sub, c.prev.tag, c.prev.uuid)})
      BY <1>3, <3>1, <3>2, <3>5, UserUpdated
    <3>7. Name(c) = c.prev.sub /\ UnsaidBy(c) = {UserFact(c.prev.sub, c.prev.tag, c.prev.uuid)}
      BY <1>10, <2>7, <3>3 DEF Name, UnsaidBy, FactOf
    <3>8. QED
      BY <1>6, <1>10, <3>6, <3>7 DEF n, Edited
  <2>8. QED
    BY <1>1, <1>10, <2>6, <2>7 DEF ChangeForm
<1>11. CASE c.kind = "user" /\ c.type = "delete"
  <2>1. n = ManagerAddUser(doc, c.prev)
    BY <1>11 DEF RollbackStep
  <2>2. c.prev \in DesiredUser /\ Home(c.prev.sub, c.prev.tag) \in H
    BY <1>2, <1>11 DEF Manageable
  <2>3. c.new = c.prev /\ c.prev \in W
    BY <1>1, <1>11 DEF ChangeForm, UserShape
  <2>4. ~\E f \in Facts(doc) : f.kind = "user" /\ f.name = c.prev.sub
    BY <1>5, <1>11, <2>3 DEF About, Name, SaidBy
  <2>5. PICK m \in B : m.tag = c.prev.tag
    BY <2>3, TidyGetUsers DEF Setting
  <2>6. \A b \in Y : ~(b.kind = "inbound" /\ b.type = "delete")
    <3>1. ASSUME NEW b \in X
          PROVE  ~(b.kind = "inbound" /\ b.type = "delete")
      <4>1. Rank(b) <= 5
        BY <1>11 DEF Rank
      <4>2. QED
        BY <4>1 DEF Rank
    <3>2. QED
      BY <1>11, <3>1
  <2>7. \E f \in Facts(doc) : f.kind = "inbound" /\ f.name = c.prev.tag
    <3> HIDE DEF Y
    <3>1. \E f \in Facts(doc) : f.kind = "inbound" /\ f.name = m.tag
      BY <1>4, <2>6, OldIsThere
    <3>2. QED
      BY <2>5, <3>1
  <2> HIDE DEF n
  <2>8. n # Err
        /\ Edited(H, doc, n, "user", c.prev.sub, {UserFact(c.prev.sub, c.prev.tag, c.prev.uuid)})
    BY <1>3, <2>1, <2>2, <2>4, <2>7, UserAdded
  <2>9. Name(c) = c.prev.sub /\ UnsaidBy(c) = {UserFact(c.prev.sub, c.prev.tag, c.prev.uuid)}
    BY <1>11, <2>3 DEF Name, UnsaidBy, FactOf
  <2>10. QED
    BY <1>6, <1>11, <2>8, <2>9 DEF n, Edited
<1>12. QED
  BY <1>1, <1>7, <1>8, <1>9, <1>10, <1>11 DEF ChangeForm

\* Undoing a step of a plan on a tidy document fails or leaves a tidy document.
LEMMA UndoKeepsTidy ==
    ASSUME NEW H, NEW d, NEW D, Setting(H, d, D), NEW c \in ChangesTo(d, D),
           NEW doc, Tidy(H, doc), RollbackStep(doc, c) # Err
    PROVE  Tidy(H, RollbackStep(doc, c))
<1> DEFINE n == RollbackStep(doc, c)
<1>1. ChangeForm(d.inbounds, ToSet(D.inbounds), ToSet(d.users), ToSet(GetUsers(D)), c)
  BY PlanShape
<1>2. Manageable(H, c, c.new) /\ (c.type # "create" => Manageable(H, c, c.prev))
  BY StepsFit
<1>3. OneHome(H)
  BY DEF Setting
<1>4. CASE c.kind = "inbound" /\ c.type = "create"
  <2>1. n = ManagerDeleteInbound(doc, c.new.tag)
    BY <1>4 DEF RollbackStep
  <2> HIDE DEF n
  <2>2. n # Err => Tidy(H, n)
    BY <1>3, <2>1, ManagerDeletesInbound
  <2>3. QED
    BY <2>2 DEF n
<1>5. CASE c.kind = "inbound" /\ c.type = "update"
  <2>1. n = ManagerUpdateInbound(doc, c.prev)
    BY <1>5 DEF RollbackStep
  <2>2. c.prev \in InboundMap /\ TidyUsers(H, c.prev.tag, getInboundUsers(c.prev))
    BY <1>2, <1>5 DEF Manageable
  <2> HIDE DEF n
  <2>3. n # Err => Tidy(H, n)
    BY <1>3, <2>1, <2>2, ManagerUpdatesInbound
  <2>4. QED
    BY <2>3 DEF n
<1>6. CASE c.kind = "inbound" /\ c.type = "delete"
  <2>1. n = ManagerAddInbound(doc, c.prev)
    BY <1>6 DEF RollbackStep
  <2>2. c.prev \in InboundMap /\ TidyUsers(H, c.prev.tag, getInboundUsers(c.prev))
    BY <1>2, <1>6 DEF Manageable
  <2> HIDE DEF n
  <2>3. n # Err => Tidy(H, n)
    BY <1>3, <2>1, <2>2, ManagerAddsInbound
  <2>4. QED
    BY <2>3 DEF n
<1>7. CASE c.kind = "user" /\ c.type = "create"
  <2>1. n = ManagerDeleteUser(doc, c.new.tag, c.new.sub)
    BY <1>7 DEF RollbackStep
  <2>2. Home(c.new.sub, c.new.tag) \in H
    BY <1>2, <1>7 DEF Manageable
  <2> HIDE DEF n
  <2>3. n # Err => Edited(H, doc, n, "user", c.new.sub, {})
    BY <1>3, <2>1, <2>2, ManagerDeletesUser
  <2>4. QED
    BY <2>3 DEF n, Edited
<1>8. CASE c.kind = "user" /\ c.type = "update"
  <2>1. n = ManagerUpdateUser(doc, c.prev)
    BY <1>8 DEF RollbackStep
  <2>2. c.prev \in DesiredUser /\ Home(c.prev.sub, c.prev.tag) \in H
    BY <1>2, <1>8 DEF Manageable
  <2> HIDE DEF n
  <2>3. n # Err => Tidy(H, n)
    BY <1>3, <2>1, <2>2, ManagerUpdatesUser DEF Edited
  <2>4. QED
    BY <2>3 DEF n
<1>9. CASE c.kind = "user" /\ c.type = "delete"
  <2>1. n = ManagerAddUser(doc, c.prev)
    BY <1>9 DEF RollbackStep
  <2>2. c.prev \in DesiredUser /\ Home(c.prev.sub, c.prev.tag) \in H
    BY <1>2, <1>9 DEF Manageable
  <2> HIDE DEF n
  <2>3. n # Err => Tidy(H, n)
    BY <1>3, <2>1, <2>2, ManagerAddsUser DEF Edited
  <2>4. QED
    BY <2>3 DEF n
<1>10. QED
  BY <1>1, <1>4, <1>5, <1>6, <1>7, <1>8, <1>9 DEF ChangeForm
-----------------------------------------------------------------------------
(* The order of the steps of a plan. *)

\* A list of the members of S without repetition, lower ranks first.
InRankOrder(p, S) ==
    /\ p \in Seq(S)
    /\ \A i, j \in DOMAIN p : p[i] = p[j] => i = j
    /\ \A c \in S : \E i \in DOMAIN p : p[i] = c
    /\ \A i, j \in DOMAIN p : i < j => Rank(p[i]) <= Rank(p[j])

\* The first n members of a list.
Upto(p, n) == {p[k] : k \in 1..n}

\* The members of a list are finitely many.
LEMMA ListIsFinite ==
    ASSUME NEW S, NEW s \in Seq(S)
    PROVE  IsFiniteSet(ToSet(s))
<1>1. Len(s) \in Nat /\ DOMAIN s = 1..Len(s)
  OBVIOUS
<1>2. s \in Surjection(1..Len(s), ToSet(s))
  <2>1. s \in [1..Len(s) -> ToSet(s)]
    BY <1>1 DEF ToSet
  <2>2. \A x \in ToSet(s) : \E i \in 1..Len(s) : s[i] = x
    BY <1>1 DEF ToSet
  <2>3. QED
    BY <2>1, <2>2 DEF Surjection
<1>3. IsFiniteSet(1..Len(s))
  BY <1>1, FS_Interval
<1>4. QED
  BY <1>2, <1>3, FS_Surjection

\* A finite set of triples, and what a function makes of a finite set.
LEMMA ImageIsFinite ==
    ASSUME NEW Z, IsFiniteSet(Z), NEW f, f = [z \in Z |-> f[z]], NEW R,
           \A r \in R : \E z \in Z : r = f[z]
    PROVE  IsFiniteSet(R)
<1> DEFINE I == {f[z] : z \in Z}
<1>1. f \in Surjection(Z, I)
  <2>1. f \in [Z -> I]
    OBVIOUS
  <2>2. \A x \in I : \E z \in Z : f[z] = x
    OBVIOUS
  <2>3. QED
    BY <2>1, <2>2 DEF Surjection
<1>2. R \in SUBSET I
  OBVIOUS
<1> HIDE DEF I
<1>3. IsFiniteSet(I)
  BY <1>1, FS_Surjection
<1>4. QED
  BY <1>2, <1>3, FS_Subset

\* A plan has finitely many changes.
LEMMA FinitelyManyChanges ==
    ASSUME NEW H, NEW d, NEW D, Setting(H, d, D)
    PROVE  IsFiniteSet(ChangesTo(d, D))
<1> DEFINE U == ToSet(d.users)
           W == ToSet(GetUsers(D))
           A == d.inbounds
           B == ToSet(D.inbounds)
           T == {"create", "update", "delete"}
           M == A \cup (B \cup (U \cup (W \cup {Absent})))
           P == M \X M
           Q == T \X P
           Change(k, z) == [kind |-> k, type |-> z[1], new |-> z[2][1], prev |-> z[2][2]]
           f == [z \in Q |-> Change("inbound", z)]
           g == [z \in Q |-> Change("user", z)]
           C == ChangesTo(d, D)
<1>1. IsFiniteSet(A) /\ IsFiniteSet(U)
  <2>1. d.users \in Seq(DesiredUser) /\ IsFiniteSet(A)
    BY DEF Setting, WellFormed
  <2>2. QED
    BY <2>1, ListIsFinite
<1>2. IsFiniteSet(B) /\ IsFiniteSet(W)
  <2>1. D.inbounds \in Seq(InboundMap)
    BY InboundList DEF Setting, Tidy
  <2>2. GetUsers(D) \in Seq(User)
    BY TidyGetUsers DEF Setting
  <2>3. QED
    BY <2>1, <2>2, ListIsFinite
<1>3. \A c \in C : Changed(A, B, U, W, c)
  BY Changes
<1> HIDE DEF A, B, U, W, C
<1>4. IsFiniteSet({Absent}) /\ IsFiniteSet(T)
  <2>1. IsFiniteSet({Absent}) /\ IsFiniteSet({"create"}) /\ IsFiniteSet({"update"})
        /\ IsFiniteSet({"delete"})
    BY FS_Singleton
  <2>2. IsFiniteSet({"update"} \cup {"delete"})
    BY <2>1, FS_Union
  <2>3. IsFiniteSet({"create"} \cup ({"update"} \cup {"delete"}))
    BY <2>1, <2>2, FS_Union
  <2>4. T = {"create"} \cup ({"update"} \cup {"delete"})
    OBVIOUS
  <2>5. QED
    BY <2>1, <2>3, <2>4
<1>5. IsFiniteSet(M)
  <2>1. IsFiniteSet(W \cup {Absent})
    BY <1>2, <1>4, FS_Union
  <2>2. IsFiniteSet(U \cup (W \cup {Absent}))
    BY <1>1, <2>1, FS_Union
  <2>3. IsFiniteSet(B \cup (U \cup (W \cup {Absent})))
    BY <1>2, <2>2, FS_Union
  <2>4. QED
    BY <1>1, <2>3, FS_Union
<1>6. A \subseteq M /\ B \subseteq M /\ U \subseteq M /\ W \subseteq M /\ Absent \in M
  OBVIOUS
<1> HIDE DEF M, T
<1>7. IsFiniteSet(P)
  BY <1>5, FS_Product
<1>8. \A m, x \in M : \A t \in T : <<t, <<m, x>>>> \in Q
  OBVIOUS
<1> HIDE DEF P
<1>9. IsFiniteSet(Q)
  BY <1>4, <1>7, FS_Product
<1> HIDE DEF Q
<1>10. \A m, x \in M : \A t \in T : /\ InboundChange(t, m, x) = f[<<t, <<m, x>>>>]
                                   /\ UserChange(t, m, x) = g[<<t, <<m, x>>>>]
  BY <1>8 DEF InboundChange, UserChange
<1>11. \A c \in C : \E t \in T : \E m, x \in M : c = InboundChange(t, m, x) \/ c = UserChange(t, m, x)
  <2>1. "create" \in T /\ "update" \in T /\ "delete" \in T
    BY DEF T
  <2>2. QED
    BY <1>3, <1>6, <2>1 DEF Changed
<1>12. f = [z \in Q |-> f[z]] /\ g = [z \in Q |-> g[z]]
  OBVIOUS
<1> HIDE DEF f, g
<1>13. \A c \in C : \E z \in Q : c = f[z] \/ c = g[z]
  <2>1. ASSUME NEW c \in C
        PROVE  \E z \in Q : c = f[z] \/ c = g[z]
    <3>1. PICK t \in T, m \in M, x \in M : c = InboundChange(t, m, x) \/ c = UserChange(t, m, x)
      BY <1>11
    <3>2. QED
      BY <1>8, <1>10, <3>1
  <2>2. QED
    BY <2>1
<1> DEFINE F == {c \in C : \E z \in Q : c = f[z]}
           G == {c \in C : \E z \in Q : c = g[z]}
<1>14. C = F \cup G
  BY <1>13
<1>15. (\A r \in F : \E z \in Q : r = f[z]) /\ (\A r \in G : \E z \in Q : r = g[z])
  OBVIOUS
<1> HIDE DEF F, G
<1>16. IsFiniteSet(F)
  BY <1>9, <1>12, <1>15, ImageIsFinite
<1>17. IsFiniteSet(G)
  BY <1>9, <1>12, <1>15, ImageIsFinite
<1>18. QED
  BY <1>14, <1>16, <1>17, FS_Union DEF C

\* SetToSeqs lists all members, and changes of one group have one rank.
LEMMA GroupOrder ==
    ASSUME NEW S, IsFiniteSet(S), NEW p \in SetToSeqs(S), NEW r \in Nat,
           \A c \in S : Rank(c) = r
    PROVE  InRankOrder(p, S)
<1> DEFINE n == Cardinality(S)
<1>1. n \in Nat
  BY FS_CardinalityType
<1>2. p \in [1..n -> S] /\ \A i, j \in 1..n : i # j => p[i] # p[j]
  BY DEF SetToSeqs
<1>3. p \in Injection(1..n, S)
  BY <1>2 DEF Injection, IsInjective
<1>4. Cardinality(1..n) = n
  BY <1>1, FS_Interval
<1>5. p \in Surjection(1..n, S)
  <2> HIDE DEF n
  <2>1. Cardinality(1..n) = Cardinality(S) <=> p \in Surjection(1..n, S)
    BY <1>3, FS_Injection
  <2>2. QED
    BY <1>4, <2>1 DEF n
<1>6. \A c \in S : \E i \in 1..n : p[i] = c
  BY <1>5 DEF Surjection
<1>7. p \in Seq(S) /\ DOMAIN p = 1..n
  BY <1>1, <1>2
<1>8. \A i \in DOMAIN p : Rank(p[i]) = r
  BY <1>2, <1>7
<1> HIDE DEF n
<1>9. \A i, j \in DOMAIN p : i < j => Rank(p[i]) <= Rank(p[j])
  BY <1>8
<1>10. QED
  BY <1>2, <1>6, <1>7, <1>9 DEF InRankOrder

\* Two lists in rank order, the second of higher ranks, make one.
LEMMA ConcatOrder ==
    ASSUME NEW S, NEW T, NEW p, NEW q, InRankOrder(p, S), InRankOrder(q, T),
           \A c \in S \cup T : Rank(c) \in Nat,
           \A c \in S : \A b \in T : Rank(c) < Rank(b)
    PROVE  InRankOrder(p \o q, S \cup T)
<1> DEFINE a == p \o q
<1>1. /\ p \in Seq(S) /\ q \in Seq(T)
      /\ Len(p) \in Nat /\ DOMAIN p = 1..Len(p)
      /\ Len(q) \in Nat /\ DOMAIN q = 1..Len(q)
  BY DEF InRankOrder
<1>2. /\ a \in Seq(S \cup T) /\ DOMAIN a = 1..(Len(p) + Len(q))
      /\ \A i \in 1..Len(p) : a[i] = p[i] /\ p[i] \in S
      /\ \A i \in (Len(p) + 1)..(Len(p) + Len(q)) : a[i] = q[i - Len(p)] /\ q[i - Len(p)] \in T
  BY <1>1
<1> HIDE DEF a
<1>3. \A i \in DOMAIN a : \/ i \in 1..Len(p)
                          \/ i \in (Len(p) + 1)..(Len(p) + Len(q)) /\ i - Len(p) \in 1..Len(q)
  BY <1>1, <1>2
<1>4. ASSUME NEW i \in DOMAIN a, NEW j \in DOMAIN a
      PROVE  /\ a[i] = a[j] => i = j
             /\ i < j => Rank(a[i]) <= Rank(a[j])
  <2>1. CASE i \in 1..Len(p) /\ j \in 1..Len(p)
    BY <1>1, <1>2, <2>1 DEF InRankOrder
  <2>2. CASE i \in 1..Len(p) /\ j \in (Len(p) + 1)..(Len(p) + Len(q))
    <3>1. a[i] \in S /\ a[j] \in T
      BY <1>2, <2>2
    <3>2. Rank(a[i]) < Rank(a[j]) /\ Rank(a[i]) \in Nat /\ Rank(a[j]) \in Nat
      BY <3>1
    <3>3. QED
      BY <3>2
  <2>3. CASE i \in (Len(p) + 1)..(Len(p) + Len(q)) /\ j \in 1..Len(p)
    <3>1. a[i] \in T /\ a[j] \in S
      BY <1>2, <2>3
    <3>2. Rank(a[j]) < Rank(a[i]) /\ Rank(a[i]) \in Nat /\ Rank(a[j]) \in Nat
      BY <3>1
    <3>3. ~(i < j)
      BY <1>1, <2>3
    <3>4. QED
      BY <3>2, <3>3
  <2>4. CASE /\ i \in (Len(p) + 1)..(Len(p) + Len(q))
             /\ j \in (Len(p) + 1)..(Len(p) + Len(q))
    <3>1. i - Len(p) \in DOMAIN q /\ j - Len(p) \in DOMAIN q
      BY <1>1, <2>4
    <3>2. a[i] = q[i - Len(p)] /\ a[j] = q[j - Len(p)]
      BY <1>2, <2>4
    <3>3. i < j => i - Len(p) < j - Len(p)
      BY <1>1, <2>4
    <3>4. i - Len(p) = j - Len(p) => i = j
      BY <1>1, <2>4
    <3>5. QED
      BY <3>1, <3>2, <3>3, <3>4 DEF InRankOrder
  <2>5. QED
    BY <1>3, <2>1, <2>2, <2>3, <2>4
<1>5. ASSUME NEW c \in S \cup T
      PROVE  \E i \in DOMAIN a : a[i] = c
  <2>1. CASE c \in S
    <3>1. PICK i \in DOMAIN p : p[i] = c
      BY <2>1 DEF InRankOrder
    <3>2. i \in DOMAIN a
      BY <1>1, <1>2
    <3>3. QED
      BY <1>1, <1>2, <3>1, <3>2
  <2>2. CASE c \in T
    <3>1. PICK k \in DOMAIN q : q[k] = c
      BY <2>2 DEF InRankOrder
    <3>2. PICK i : i = Len(p) + k
      OBVIOUS
    <3>3. i \in DOMAIN a /\ i \in (Len(p) + 1)..(Len(p) + Len(q)) /\ i - Len(p) = k
      BY <1>1, <1>2, <3>2
    <3>4. QED
      BY <1>2, <3>1, <3>3
  <2>3. QED
    BY <2>1, <2>2
<1>6. QED
  BY <1>2, <1>4, <1>5 DEF InRankOrder, a

\* Every list of P is one of the members of S, whose ranks are lo to hi.
Ordered(P, S, lo, hi) ==
    /\ \A p \in P : InRankOrder(p, S)
    /\ \A c \in S : Rank(c) \in lo..hi

\* Lists of lower ranks followed by lists of higher ones.
LEMMA FollowedOrder ==
    ASSUME NEW S, NEW T, NEW P, NEW Q, NEW k \in Nat, NEW l \in Nat, NEW m \in Nat, NEW n \in Nat,
           Ordered(P, S, k, l), Ordered(Q, T, m, n), k <= l, l < m, m <= n
    PROVE  Ordered(followed(P, Q), S \cup T, k, n)
<1>1. /\ \A c \in S : Rank(c) \in k..l
      /\ \A c \in T : Rank(c) \in m..n
  BY DEF Ordered
<1>2. \A c \in S \cup T : Rank(c) \in k..n /\ Rank(c) \in Nat
  BY <1>1
<1>3. \A c \in S : \A b \in T : Rank(c) < Rank(b)
  BY <1>1
<1>4. ASSUME NEW a \in followed(P, Q)
      PROVE  InRankOrder(a, S \cup T)
  <2>1. PICK p \in P, q \in Q : a = p \o q
    BY DEF followed
  <2>2. InRankOrder(p, S) /\ InRankOrder(q, T)
    BY DEF Ordered
  <2>3. InRankOrder(p \o q, S \cup T)
    BY <1>2, <1>3, <2>2, ConcatOrder
  <2>4. QED
    BY <2>1, <2>3
<1>5. QED
  BY <1>2, <1>4 DEF Ordered

\* A plan is all its changes in rank order.
LEMMA PlanInOrder ==
    ASSUME NEW S, IsFiniteSet(S), NEW p \in buildSteps(S),
           \A c \in S : c.kind \in {"inbound", "user"} /\ c.type \in {"create", "update", "delete"}
    PROVE  InRankOrder(p, S)
<1> DEFINE group(kind, type) == {c \in S : c.kind = kind /\ c.type = type}
           G1 == group("inbound", "create")
           G2 == group("inbound", "update")
           G3 == group("user", "create")
           G4 == group("user", "update")
           G5 == group("user", "delete")
           G6 == group("inbound", "delete")
<1>1. p \in followed(followed(followed(SetToSeqs(G1), SetToSeqs(G2)),
                              followed(followed(SetToSeqs(G3), SetToSeqs(G4)), SetToSeqs(G5))),
                     SetToSeqs(G6))
  BY DEF buildSteps
<1>2. /\ G1 \in SUBSET S /\ G2 \in SUBSET S /\ G3 \in SUBSET S
      /\ G4 \in SUBSET S /\ G5 \in SUBSET S /\ G6 \in SUBSET S
  OBVIOUS
<1>3. /\ \A x \in G1 : Rank(x) = 1
      /\ \A x \in G2 : Rank(x) = 2
      /\ \A x \in G3 : Rank(x) = 3
      /\ \A x \in G4 : Rank(x) = 4
      /\ \A x \in G5 : Rank(x) = 5
      /\ \A x \in G6 : Rank(x) = 6
  BY DEF Rank
<1>4. S = ((G1 \cup G2) \cup ((G3 \cup G4) \cup G5)) \cup G6
  OBVIOUS
<1> HIDE DEF G1, G2, G3, G4, G5, G6
<1>5. /\ IsFiniteSet(G1) /\ IsFiniteSet(G2) /\ IsFiniteSet(G3)
      /\ IsFiniteSet(G4) /\ IsFiniteSet(G5) /\ IsFiniteSet(G6)
  BY <1>2, FS_Subset
<1>6. Ordered(SetToSeqs(G1), G1, 1, 1)
  <2>1. \A a \in SetToSeqs(G1) : InRankOrder(a, G1)
    BY <1>3, <1>5, GroupOrder
  <2>2. QED
    BY <1>3, <2>1 DEF Ordered
<1>7. Ordered(SetToSeqs(G2), G2, 2, 2)
  <2>1. \A a \in SetToSeqs(G2) : InRankOrder(a, G2)
    BY <1>3, <1>5, GroupOrder
  <2>2. QED
    BY <1>3, <2>1 DEF Ordered
<1>8. Ordered(SetToSeqs(G3), G3, 3, 3)
  <2>1. \A a \in SetToSeqs(G3) : InRankOrder(a, G3)
    BY <1>3, <1>5, GroupOrder
  <2>2. QED
    BY <1>3, <2>1 DEF Ordered
<1>9. Ordered(SetToSeqs(G4), G4, 4, 4)
  <2>1. \A a \in SetToSeqs(G4) : InRankOrder(a, G4)
    BY <1>3, <1>5, GroupOrder
  <2>2. QED
    BY <1>3, <2>1 DEF Ordered
<1>10. Ordered(SetToSeqs(G5), G5, 5, 5)
  <2>1. \A a \in SetToSeqs(G5) : InRankOrder(a, G5)
    BY <1>3, <1>5, GroupOrder
  <2>2. QED
    BY <1>3, <2>1 DEF Ordered
<1>11. Ordered(SetToSeqs(G6), G6, 6, 6)
  <2>1. \A a \in SetToSeqs(G6) : InRankOrder(a, G6)
    BY <1>3, <1>5, GroupOrder
  <2>2. QED
    BY <1>3, <2>1 DEF Ordered
<1> DEFINE P1 == followed(SetToSeqs(G1), SetToSeqs(G2))
           P2 == followed(SetToSeqs(G3), SetToSeqs(G4))
           P3 == followed(P2, SetToSeqs(G5))
           P4 == followed(P1, P3)
<1>12. Ordered(P1, G1 \cup G2, 1, 2)
  BY <1>6, <1>7, FollowedOrder
<1>13. Ordered(P2, G3 \cup G4, 3, 4)
  BY <1>8, <1>9, FollowedOrder
<1>14. Ordered(P3, (G3 \cup G4) \cup G5, 3, 5)
  BY <1>10, <1>13, FollowedOrder
<1>15. Ordered(P4, (G1 \cup G2) \cup ((G3 \cup G4) \cup G5), 1, 5)
  BY <1>12, <1>14, FollowedOrder
<1>16. Ordered(followed(P4, SetToSeqs(G6)),
               ((G1 \cup G2) \cup ((G3 \cup G4) \cup G5)) \cup G6, 1, 6)
  BY <1>11, <1>15, FollowedOrder
<1>17. QED
  BY <1>1, <1>4, <1>16 DEF Ordered

\* The plans of Reconcile for one read of the file.
LEMMA ReconcileInOrder ==
    ASSUME NEW H, NEW d, NEW D, Setting(H, d, D), NEW p \in Reconcile(d, D, D)
    PROVE  InRankOrder(p, ChangesTo(d, D))
<1> DEFINE S == ChangesTo(d, D)
<1>1. p \in buildSteps(S)
  BY DEF Reconcile, ChangesTo
<1>2. \A c \in S : c.kind \in {"inbound", "user"} /\ c.type \in {"create", "update", "delete"}
  BY PlanShape DEF ChangeForm
<1>3. IsFiniteSet(S)
  BY FinitelyManyChanges
<1> HIDE DEF S
<1>4. InRankOrder(p, S)
  BY <1>1, <1>2, <1>3, PlanInOrder
<1>5. QED
  BY <1>4 DEF S

\* The next step of a plan: what comes before it has been executed.
LEMMA NextInOrder ==
    ASSUME NEW S, NEW p, InRankOrder(p, S), NEW n \in Nat, n < Len(p)
    PROVE  /\ p[n + 1] \in S /\ p[n + 1] \notin Upto(p, n)
           /\ Upto(p, n) \in SUBSET S
           /\ Upto(p, n + 1) = Upto(p, n) \cup {p[n + 1]}
           /\ \A b \in S : Rank(b) < Rank(p[n + 1]) => b \in Upto(p, n)
           /\ \A b \in Upto(p, n) : Rank(b) <= Rank(p[n + 1])
<1>1. p \in Seq(S) /\ Len(p) \in Nat /\ DOMAIN p = 1..Len(p)
  BY DEF InRankOrder
<1>2. n + 1 \in DOMAIN p /\ \A k \in 1..n : k \in DOMAIN p /\ k < n + 1 /\ k # n + 1
  BY <1>1
<1>3. \A c \in S : Rank(c) \in Nat
  BY DEF Rank
<1>4. \A k \in DOMAIN p : p[k] \in S
  BY <1>1
<1>5. p[n + 1] \in S /\ p[n + 1] \notin Upto(p, n)
  BY <1>2, <1>4 DEF InRankOrder, Upto
<1>6. Upto(p, n) \in SUBSET S
  BY <1>2, <1>4 DEF Upto
<1>7. Upto(p, n + 1) = Upto(p, n) \cup {p[n + 1]}
  <2>1. \A k : k \in 1..(n + 1) <=> k \in 1..n \/ k = n + 1
    OBVIOUS
  <2>2. QED
    BY <2>1 DEF Upto
<1>8. ASSUME NEW b \in S, Rank(b) < Rank(p[n + 1])
      PROVE  b \in Upto(p, n)
  <2>1. PICK k \in DOMAIN p : p[k] = b
    BY DEF InRankOrder
  <2>2. ~(n + 1 < k) /\ k # n + 1
    <3>1. Rank(b) \in Nat /\ Rank(p[n + 1]) \in Nat
      BY <1>3, <1>5
    <3>2. QED
      BY <1>2, <1>8, <2>1, <3>1 DEF InRankOrder
  <2>3. k \in 1..n
    BY <1>1, <2>2
  <2>4. QED
    BY <2>1, <2>3 DEF Upto
<1>9. \A b \in Upto(p, n) : Rank(b) <= Rank(p[n + 1])
  BY <1>2 DEF Upto, InRankOrder
<1>10. QED
  BY <1>5, <1>6, <1>7, <1>8, <1>9

\* No steps, and all steps, of a plan.
LEMMA NoneAndAll ==
    ASSUME NEW S, NEW p, InRankOrder(p, S)
    PROVE  Upto(p, 0) = {} /\ Upto(p, Len(p)) = S
<1>1. p \in Seq(S) /\ Len(p) \in Nat /\ DOMAIN p = 1..Len(p)
  BY DEF InRankOrder
<1>2. \A k \in DOMAIN p : p[k] \in S
  BY <1>1
<1>3. QED
  BY <1>1, <1>2 DEF Upto, InRankOrder
-----------------------------------------------------------------------------
(* Where a plan begins and ends, and who is served there. *)

\* The facts F are those of the document.
Says(doc, F) == \A f : f \in Facts(doc) <=> f \in F

\* Nothing is changed before the first step.
LEMMA ReachedNone ==
    ASSUME NEW H, NEW d, NEW D, Setting(H, d, D)
    PROVE  Reached(H, d, D, {}, D)
BY DEF Reached, Moved, Setting

\* With nothing changed, the document says what it said.
LEMMA NoneSays ==
    ASSUME NEW H, NEW d, NEW D, NEW doc, Reached(H, d, D, {}, doc)
    PROVE  Says(doc, Facts(D))
BY DEF Reached, Moved, Says

\* After the last step the document says what is desired.
LEMMA AllSays ==
    ASSUME NEW H, NEW d, NEW D, Setting(H, d, D), NEW doc,
           Reached(H, d, D, ChangesTo(d, D), doc)
    PROVE  Says(doc, DesiredFacts(d))
<1>1. ASSUME NEW f
      PROVE  f \in Facts(doc) <=> f \in DesiredFacts(d)
  <2>1. f \in Facts(doc) <=> Moved(d, D, ChangesTo(d, D), f)
    BY DEF Reached
  <2>2. CASE \E c \in ChangesTo(d, D) : About(c, f)
    BY <2>1, <2>2 DEF Moved
  <2>3. CASE ~\E c \in ChangesTo(d, D) : About(c, f)
    BY <2>1, <2>3, AllChanges DEF Moved
  <2>4. QED
    BY <2>2, <2>3
<1>2. QED
  BY <1>1 DEF Says

\* Changes of a document that says what is desired change nothing it says.
LEMMA DriftSays ==
    ASSUME NEW H, NEW d, NEW D, Says(D, DesiredFacts(d)), NEW X, NEW doc,
           Reached(H, d, D, X, doc)
    PROVE  Says(doc, Facts(D))
BY DEF Reached, Moved, Says

\* Who may use the service, by what is said.
Triple(f) == [sub |-> f.name, tag |-> f.tag, uuid |-> f.value]

\* The served users of a document.
LEMMA ServedSays ==
    ASSUME NEW doc \in Document
    PROVE  /\ \A r : r \in Served(doc) <=> \E f \in Facts(doc) : f.kind = "user" /\ r = Triple(f)
           /\ \A t : t \in Tags(doc) <=> \E f \in Facts(doc) : f.kind = "inbound" /\ t = f.tag
<1> DEFINE B == ToSet(doc.inbounds)
           W == ToSet(GetUsers(doc))
<1>1. \A f : f \in Facts(doc) <=> \/ \E m \in B : f = FactOf("inbound", m)
                                  \/ \E u \in W : f = FactOf("user", u)
  BY SaidByModel
<1>2. \A m : /\ FactOf("inbound", m).kind = "inbound" /\ FactOf("inbound", m).tag = m.tag
             /\ FactOf("user", m).kind = "user"
             /\ Triple(FactOf("user", m)) = [sub |-> m.sub, tag |-> m.tag, uuid |-> m.uuid]
  BY DEF FactOf, InboundFact, UserFact, Triple
<1>3. \A r : r \in Served(doc) <=> \E u \in W : r = [sub |-> u.sub, tag |-> u.tag, uuid |-> u.uuid]
  BY DEF Served
<1>4. \A t : t \in Tags(doc) <=> \E m \in B : t = m.tag
  BY DEF Tags
<1> HIDE DEF B, W
<1>5. \A r : r \in Served(doc) <=> \E u \in W : r = Triple(FactOf("user", u))
  BY <1>2, <1>3
<1>6. \A f \in Facts(doc) : f.kind = "user" => \E u \in W : f = FactOf("user", u)
  BY <1>1, <1>2
<1>7. \A f \in Facts(doc) : f.kind = "inbound" => \E m \in B : f = FactOf("inbound", m)
  BY <1>1, <1>2
<1>8. \A u \in W : FactOf("user", u) \in Facts(doc) /\ FactOf("user", u).kind = "user"
  BY <1>1, <1>2
<1>9. \A m \in B : FactOf("inbound", m) \in Facts(doc) /\ FactOf("inbound", m).kind = "inbound"
                   /\ FactOf("inbound", m).tag = m.tag
  BY <1>1, <1>2
<1>10. \A r : r \in Served(doc) <=> \E f \in Facts(doc) : f.kind = "user" /\ r = Triple(f)
  BY <1>5, <1>6, <1>8
<1>11. \A t : t \in Tags(doc) <=> \E f \in Facts(doc) : f.kind = "inbound" /\ t = f.tag
  BY <1>4, <1>7, <1>9
<1>12. QED
  BY <1>10, <1>11

\* The wanted users of a desired state.
LEMMA WantedSays ==
    ASSUME NEW d
    PROVE  /\ \A r : r \in Wanted(d) <=> \E f \in DesiredFacts(d) : f.kind = "user" /\ r = Triple(f)
           /\ \A t : t \in {m.tag : m \in d.inbounds} <=>
                 \E f \in DesiredFacts(d) : f.kind = "inbound" /\ t = f.tag
<1> DEFINE A == d.inbounds
           U == ToSet(d.users)
<1>1. \A f : f \in DesiredFacts(d) <=> \/ \E m \in A : f = FactOf("inbound", m)
                                       \/ \E u \in U : f = FactOf("user", u)
  BY DesiredByModel
<1>2. \A m : /\ FactOf("inbound", m).kind = "inbound" /\ FactOf("inbound", m).tag = m.tag
             /\ FactOf("user", m).kind = "user"
             /\ Triple(FactOf("user", m)) = [sub |-> m.sub, tag |-> m.tag, uuid |-> m.uuid]
  BY DEF FactOf, InboundFact, UserFact, Triple
<1>3. \A r : r \in Wanted(d) <=> \E u \in U : r = [sub |-> u.sub, tag |-> u.tag, uuid |-> u.uuid]
  BY DEF Wanted
<1>4. \A t : t \in {m.tag : m \in A} <=> \E m \in A : t = m.tag
  OBVIOUS
<1> HIDE DEF A, U
<1>5. \A r : r \in Wanted(d) <=> \E u \in U : r = Triple(FactOf("user", u))
  BY <1>2, <1>3
<1>6. \A f \in DesiredFacts(d) : f.kind = "user" => \E u \in U : f = FactOf("user", u)
  BY <1>1, <1>2
<1>7. \A f \in DesiredFacts(d) : f.kind = "inbound" => \E m \in A : f = FactOf("inbound", m)
  BY <1>1, <1>2
<1>8. \A u \in U : FactOf("user", u) \in DesiredFacts(d) /\ FactOf("user", u).kind = "user"
  BY <1>1, <1>2
<1>9. \A m \in A : FactOf("inbound", m) \in DesiredFacts(d) /\ FactOf("inbound", m).kind = "inbound"
                   /\ FactOf("inbound", m).tag = m.tag
  BY <1>1, <1>2
<1>10. \A r : r \in Wanted(d) <=> \E f \in DesiredFacts(d) : f.kind = "user" /\ r = Triple(f)
  BY <1>5, <1>6, <1>8
<1>11. \A t : t \in {m.tag : m \in A} <=>
          \E f \in DesiredFacts(d) : f.kind = "inbound" /\ t = f.tag
  BY <1>4, <1>7, <1>9
<1>12. QED
  BY <1>10, <1>11 DEF A

\* Documents that say the same serve the same users over the same inbounds.
LEMMA SameService ==
    ASSUME NEW doc \in Document, NEW old \in Document, Says(doc, Facts(old))
    PROVE  Served(doc) = Served(old) /\ Tags(doc) = Tags(old)
<1>1. \A r : r \in Served(doc) <=> r \in Served(old)
  BY ServedSays DEF Says
<1>2. \A t : t \in Tags(doc) <=> t \in Tags(old)
  BY ServedSays DEF Says
<1>3. QED
  BY <1>1, <1>2 DEF Served, Tags

\* A document that says what is desired serves the desired users.
LEMMA DesiredService ==
    ASSUME NEW doc \in Document, NEW d, Says(doc, DesiredFacts(d))
    PROVE  Served(doc) = Wanted(d) /\ Tags(doc) = {m.tag : m \in d.inbounds}
<1>1. \A r : r \in Served(doc) <=> r \in Wanted(d)
  BY ServedSays, WantedSays DEF Says
<1>2. \A t : t \in Tags(doc) <=> t \in {m.tag : m \in d.inbounds}
  BY ServedSays, WantedSays DEF Says
<1>3. QED
  BY <1>1, <1>2 DEF Served, Wanted, Tags

\* ... and has the attributes of the desired inbounds.
LEMMA DesiredAttributes ==
    ASSUME NEW doc \in Document, NEW d, Says(doc, DesiredFacts(d)), NEW i \in DOMAIN doc.inbounds
    PROVE  \E m \in d.inbounds : m.attr = doc.inbounds[i].attr
<1> DEFINE f == FactOf("inbound", doc.inbounds[i])
<1>1. f \in Facts(doc)
  BY SaidByModel DEF ToSet
<1>2. f.kind = "inbound" /\ f.value = doc.inbounds[i].attr
  BY DEF FactOf, InboundFact
<1> HIDE DEF f
<1>3. f \in DesiredFacts(d)
  BY <1>1 DEF Says
<1>4. \/ \E m \in d.inbounds : f = FactOf("inbound", m)
      \/ \E u \in ToSet(d.users) : f = FactOf("user", u)
  BY <1>3, DesiredByModel
<1>5. ~\E u \in ToSet(d.users) : f = FactOf("user", u)
  BY <1>2, FactKinds
<1>6. PICK m \in d.inbounds : f = FactOf("inbound", m)
  BY <1>4, <1>5
<1>7. f.value = m.attr
  BY <1>6 DEF FactOf, InboundFact
<1>8. QED
  BY <1>2, <1>7
-----------------------------------------------------------------------------
(* Executing a whole plan. *)

StageStep(start, p, f, k) == IF k = 0 THEN start ELSE ExecuteStep(f[k - 1], p[k])
Staged(start, p, n) == \E f : f = [k \in 0..n |-> StageStep(start, p, f, k)]

\* There is a function that gives the document after the first k steps.
LEMMA StagesExist ==
    ASSUME NEW start, NEW p, NEW n \in Nat
    PROVE  Staged(start, p, n)
<1> DEFINE T == {m \in Nat : Staged(start, p, m)}
<1>1. 0 \in T
  <2> DEFINE g == [k \in 0..0 |-> start]
  <2>1. g = [k \in 0..0 |-> StageStep(start, p, g, k)]
    BY DEF StageStep
  <2>2. QED
    BY <2>1 DEF Staged
<1>2. ASSUME NEW m \in 1..n, m - 1 \in T
      PROVE  m \in T
  <2>1. m \in Nat /\ m - 1 \in Nat /\ m # 0
    OBVIOUS
  <2>2. PICK f : f = [k \in 0..(m - 1) |-> StageStep(start, p, f, k)]
    BY <1>2 DEF Staged
  <2> DEFINE g == [k \in 0..m |-> IF k = m THEN StageStep(start, p, f, m) ELSE f[k]]
  <2>3. ASSUME NEW k \in 0..m
        PROVE  g[k] = StageStep(start, p, g, k)
    <3>1. k # 0 => g[k - 1] = f[k - 1]
      BY <2>1
    <3>2. StageStep(start, p, g, k) = StageStep(start, p, f, k)
      BY <3>1 DEF StageStep
    <3>3. g[k] = StageStep(start, p, f, k)
      <4>1. CASE k = m
        BY <4>1
      <4>2. CASE k # m
        <5>1. k \in 0..(m - 1)
          BY <2>1, <4>2
        <5>2. f[k] = StageStep(start, p, f, k)
          BY <2>2, <5>1
        <5>3. QED
          BY <4>2, <5>2
      <4>3. QED
        BY <4>1, <4>2
    <3>4. QED
      BY <3>2, <3>3
  <2>4. g = [k \in 0..m |-> g[k]]
    OBVIOUS
  <2> HIDE DEF g
  <2>5. g = [k \in 0..m |-> StageStep(start, p, g, k)]
    BY <2>3, <2>4
  <2>6. QED
    BY <2>1, <2>5 DEF Staged
<1>3. n \in T
  <2>1. n \in 0..n
    OBVIOUS
  <2> HIDE DEF T
  <2>2. QED
    BY <1>1, <1>2, <2>1, Reaches
<1>4. QED
  BY <1>3

\* The documents of Stages, one after the other.
LEMMA StageByStage ==
    ASSUME NEW start, NEW S, NEW p \in Seq(S)
    PROVE  /\ Stages(start, p)[0] = start
           /\ \A k \in 1..Len(p) : Stages(start, p)[k] = ExecuteStep(Stages(start, p)[k - 1], p[k])
<1> DEFINE n == Len(p)
           F == CHOOSE f : f = [k \in 0..n |-> StageStep(start, p, f, k)]
<1>1. n \in Nat
  OBVIOUS
<1>2. Stages(start, p) = F
  BY DEF Stages, StageStep
<1>3. F = [k \in 0..n |-> StageStep(start, p, F, k)]
  <2>1. PICK f : f = [k \in 0..n |-> StageStep(start, p, f, k)]
    BY <1>1, StagesExist DEF Staged
  <2>2. QED
    BY <2>1
<1> HIDE DEF F
<1>4. F[0] = start
  BY <1>1, <1>3 DEF StageStep
<1>5. ASSUME NEW k \in 1..n
      PROVE  F[k] = ExecuteStep(F[k - 1], p[k])
  <2>1. k \in 0..n /\ k # 0
    BY <1>1
  <2>2. F[k] = StageStep(start, p, F, k)
    BY <1>3, <2>1
  <2>3. QED
    BY <2>1, <2>2 DEF StageStep
<1>6. QED
  BY <1>2, <1>4, <1>5

\* Every step of a plan succeeds and makes its change.
LEMMA PlanStages ==
    ASSUME NEW H, NEW d, NEW D, Setting(H, d, D), NEW p \in Reconcile(d, D, D), NEW n \in 0..Len(p)
    PROVE  Reached(H, d, D, Upto(p, n), Stages(D, p)[n])
<1> DEFINE S == ChangesTo(d, D)
           T == {k \in Nat : k <= Len(p) => Reached(H, d, D, Upto(p, k), Stages(D, p)[k])}
<1>1. InRankOrder(p, S)
  BY ReconcileInOrder
<1>2. p \in Seq(S) /\ Len(p) \in Nat
  BY <1>1 DEF InRankOrder
<1>3. 0 \in T
  <2>1. Stages(D, p)[0] = D
    BY <1>2, StageByStage
  <2>2. Upto(p, 0) = {}
    BY <1>1, NoneAndAll
  <2>3. QED
    BY <2>1, <2>2, ReachedNone
<1>4. ASSUME NEW m \in 1..n, m - 1 \in T
      PROVE  m \in T
  <2>1. m \in Nat /\ m - 1 \in Nat /\ m - 1 < Len(p) /\ m \in 1..Len(p) /\ (m - 1) + 1 = m
    BY <1>2
  <2>2. Reached(H, d, D, Upto(p, m - 1), Stages(D, p)[m - 1])
    BY <1>2, <1>4, <2>1
  <2>3. /\ p[m] \in S /\ p[m] \notin Upto(p, m - 1)
        /\ Upto(p, m - 1) \in SUBSET S
        /\ Upto(p, m) = Upto(p, m - 1) \cup {p[m]}
        /\ \A b \in S : Rank(b) < Rank(p[m]) => b \in Upto(p, m - 1)
    <3> DEFINE k == m - 1
    <3>1. k \in Nat /\ k < Len(p) /\ k + 1 = m
      BY <2>1
    <3> HIDE DEF k
    <3>2. /\ p[k + 1] \in S /\ p[k + 1] \notin Upto(p, k)
          /\ Upto(p, k) \in SUBSET S
          /\ Upto(p, k + 1) = Upto(p, k) \cup {p[k + 1]}
          /\ \A b \in S : Rank(b) < Rank(p[k + 1]) => b \in Upto(p, k)
      <4> HIDE DEF S
      <4>1. QED
        BY <1>1, <3>1, NextInOrder
    <3>3. QED
      BY <3>1, <3>2 DEF k
  <2>4. Stages(D, p)[m] = ExecuteStep(Stages(D, p)[m - 1], p[m])
    BY <1>2, <2>1, StageByStage
  <2>5. Reached(H, d, D, Upto(p, m - 1) \cup {p[m]}, ExecuteStep(Stages(D, p)[m - 1], p[m]))
    BY <2>2, <2>3, Executes
  <2>6. QED
    BY <2>1, <2>3, <2>4, <2>5
<1>5. n \in T
  <2>1. n \in Nat /\ n \in 0..n
    BY <1>2
  <2> HIDE DEF T
  <2>2. QED
    BY <1>3, <1>4, <2>1, Reaches
<1>6. QED
  BY <1>2, <1>5

\* A plan for a document that says what is desired disturbs nobody.
LEMMA DriftDisturbsNobody ==
    ASSUME NEW H, NEW d, NEW D, Setting(H, d, D), Says(D, DesiredFacts(d)),
           NEW p \in Reconcile(d, D, D), NEW n \in 1..Len(p)
    PROVE  /\ Stages(D, p)[n] \in Document
           /\ Served(Stages(D, p)[n]) = Served(D)
           /\ Tags(Stages(D, p)[n]) = Tags(D)
<1>1. PICK doc : doc = Stages(D, p)[n]
  OBVIOUS
<1>2. n \in 0..Len(p)
  OBVIOUS
<1>3. Reached(H, d, D, Upto(p, n), doc)
  BY <1>1, <1>2, PlanStages
<1>4. Says(doc, Facts(D))
  BY <1>3, DriftSays
<1>5. doc \in Document /\ D \in Document
  BY <1>3 DEF Reached, Tidy, Setting
<1>6. QED
  BY <1>1, <1>4, <1>5, SameService
=============================================================================
