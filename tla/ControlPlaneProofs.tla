------------------------- MODULE ControlPlaneProofs -------------------------
(***************************************************************************)
(* Proofs about ControlPlane, for any retry settings, versions and faults. *)
(*                                                                         *)
(* What the control plane may hear is the version a task is reporting, so  *)
(* ReportsAreTrue needs that such a version was applied (ReportInv); what  *)
(* may be applied next is the version a task has fetched, so OnlyPublished-*)
(* IsApplied needs that such a version was published, or the answer had no *)
(* data (FetchInv).  Both need only the shape of the tasks' variables.     *)
(*                                                                         *)
(* WaitsDouble compares two recursions: backoff caps the delay each time   *)
(* it has doubled it, the property caps the doubled delay once.  That they *)
(* agree is proved by induction, for which every set of naturals having a  *)
(* least element serves (Least, Reaches).                                  *)
(***************************************************************************)
EXTENDS ControlPlane, WellFoundedInduction, TLAPS

Fetched == 1..published \cup (IF empties THEN {0} ELSE {})

ShapeInv ==
    /\ DOMAIN pc = Task
    /\ DOMAIN call = Task
    /\ DOMAIN desired = Task
    /\ pc = [t \in Task |-> pc[t]]
    /\ call = [t \in Task |-> call[t]]
    /\ desired = [t \in Task |-> desired[t]]
    /\ published \in Nat \ {0}

ReportInv == \A t \in Task : call[t] = "status" => desired[t] \in applied

FetchInv == \A t \in Task : pc[t] = "apply" => call[t] = "config" /\ desired[t] \in Fetched

PlaneInv == ShapeInv /\ ReportInv /\ FetchInv /\ ReportsAreTrue /\ OnlyPublishedIsApplied
-----------------------------------------------------------------------------
USE ControlPlaneAssumption DEF Task, Loop, taskVars, planeVars

\* A task that returns, with or without an error, reports and applies nothing.
LEMMA ReturnsKeep ==
    ASSUME PlaneInv, NEW t \in Task, TaskReturns(t),
           UNCHANGED <<published, applied>>, empties => empties',
           heard' \subseteq heard \cup (IF call[t] = "status" THEN {desired[t]} ELSE {})
    PROVE  PlaneInv'
<1> USE DEF PlaneInv, ShapeInv, TaskReturns
<1>1. ShapeInv'
  OBVIOUS
<1>2. ReportInv'
  BY DEF ReportInv
<1>3. FetchInv'
  BY DEF FetchInv, Fetched
<1>4. ReportsAreTrue' /\ OnlyPublishedIsApplied'
  BY DEF ReportsAreTrue, OnlyPublishedIsApplied, ReportInv
<1>5. QED
  BY <1>1, <1>2, <1>3, <1>4

\* A task that goes on waiting, or to its next attempt, keeps its call.
LEMMA GoesOnKeeps ==
    ASSUME PlaneInv, NEW t \in Task, NEW to \in {"send", "wait", "done"},
           pc' = [pc EXCEPT ![t] = to],
           UNCHANGED <<call, desired, published, applied, empties>>,
           heard' \subseteq heard \cup (IF call[t] = "status" THEN {desired[t]} ELSE {})
    PROVE  PlaneInv'
<1> USE DEF PlaneInv, ShapeInv
<1>1. ShapeInv'
  OBVIOUS
<1>2. ReportInv'
  BY DEF ReportInv
<1>3. FetchInv'
  BY DEF FetchInv, Fetched
<1>4. ReportsAreTrue' /\ OnlyPublishedIsApplied'
  BY DEF ReportsAreTrue, OnlyPublishedIsApplied, ReportInv
<1>5. QED
  BY <1>1, <1>2, <1>3, <1>4

\* An attempt of doJSON that fails, is cancelled or is refused, and the wait after it.
LEMMA FailureKeeps ==
    ASSUME PlaneInv, NEW t \in Task,
           SendFails(t) \/ SendCancelled(t) \/ SendRefused(t) \/ Wait(t) \/ ApplyFails(t)
    PROVE  PlaneInv'
<1>1. UNCHANGED <<published, applied, empties>>
  BY DEF SendFails, SendCancelled, SendRefused, Wait, ApplyFails
<1>2. heard' \subseteq heard \cup (IF call[t] = "status" THEN {desired[t]} ELSE {})
  BY DEF SendFails, SendCancelled, SendRefused, Wait, ApplyFails, Receive
<1>3. \/ TaskReturns(t)
      \/ /\ \E to \in {"send", "wait"} : pc' = [pc EXCEPT ![t] = to]
         /\ UNCHANGED <<call, desired>>
  BY DEF SendFails, SendCancelled, SendRefused, Wait, ApplyFails, AttemptFails, TaskFails
<1>4. QED
  BY <1>1, <1>2, <1>3, ReturnsKeep, GoesOnKeeps

\* An answer of the control plane: a fetched version is one it has published, or
\* zero when the envelope had no data.
LEMMA AnswerKeeps ==
    ASSUME PlaneInv, NEW t \in Task, SendAnswered(t)
    PROVE  PlaneInv'
<1>1. UNCHANGED <<published, applied>> /\ (empties => empties')
  BY DEF SendAnswered
<1>2. heard' \subseteq heard \cup (IF call[t] = "status" THEN {desired[t]} ELSE {})
  BY DEF SendAnswered, Receive
<1>3. CASE call[t] # "config"
  BY <1>1, <1>2, <1>3, ReturnsKeep DEF SendAnswered
<1>4. CASE call[t] = "config"
  <2> USE DEF PlaneInv, ShapeInv
  <2>1. /\ pc' = [pc EXCEPT ![t] = "apply"]
        /\ call' = call
        /\ heard' = heard
        /\ \E v : desired' = [desired EXCEPT ![t] = v] /\ v \in Fetched'
    BY <1>1, <1>4 DEF SendAnswered, Receive, Fetched
  <2>2. ShapeInv'
    BY <1>1, <2>1
  <2>3. ReportInv'
    BY <1>1, <1>4, <2>1 DEF ReportInv
  <2>4. FetchInv'
    <3>1. Fetched \subseteq Fetched'
      BY <1>1 DEF Fetched
    <3>2. QED
      BY <1>4, <2>1, <3>1 DEF FetchInv
  <2>5. ReportsAreTrue' /\ OnlyPublishedIsApplied'
    BY <1>1, <2>1 DEF ReportsAreTrue, OnlyPublishedIsApplied
  <2>6. QED
    BY <2>2, <2>3, <2>4, <2>5
<1>5. QED
  BY <1>3, <1>4

\* Apply applies what was fetched, and only then begins the report.
LEMMA ApplyKeeps ==
    ASSUME PlaneInv, NEW t \in Task, Apply(t)
    PROVE  PlaneInv'
<1> USE DEF PlaneInv, ShapeInv, Apply
<1>1. ShapeInv'
  OBVIOUS
<1>2. ReportInv'
  BY DEF ReportInv
<1>3. FetchInv'
  BY DEF FetchInv, Fetched
<1>4. ReportsAreTrue'
  BY DEF ReportsAreTrue
<1>5. OnlyPublishedIsApplied'
  BY DEF OnlyPublishedIsApplied, FetchInv, Fetched
<1>6. QED
  BY <1>1, <1>2, <1>3, <1>4, <1>5

\* A newer desired state leaves the published ones published.
LEMMA PublishKeeps ==
    ASSUME PlaneInv, Publish
    PROVE  PlaneInv'
<1> USE DEF PlaneInv, ShapeInv, Publish
<1>1. ShapeInv'
  OBVIOUS
<1>2. ReportInv' /\ ReportsAreTrue'
  BY DEF ReportInv, ReportsAreTrue
<1>3. 1..published \subseteq 1..published'
  OBVIOUS
<1>4. FetchInv' /\ OnlyPublishedIsApplied'
  BY <1>3 DEF FetchInv, Fetched, OnlyPublishedIsApplied
<1>5. QED
  BY <1>1, <1>2, <1>4

\* Lifecycle.Start has fetched and reported nothing.
LEMMA InitPlane == Init => PlaneInv
<1> SUFFICES ASSUME Init
             PROVE  PlaneInv
  OBVIOUS
<1>1. ShapeInv
  BY DEF Init, ShapeInv
<1>2. ReportInv /\ FetchInv /\ ReportsAreTrue /\ OnlyPublishedIsApplied
  BY DEF Init, ReportInv, FetchInv, ReportsAreTrue, OnlyPublishedIsApplied
<1>3. QED
  BY <1>1, <1>2 DEF PlaneInv

\* Each step of lifecycle.go and of the client's calls keeps the invariant.
THEOREM PlaneInvariant == Spec => []PlaneInv
<1>1. ASSUME PlaneInv, [Next]_vars
      PROVE  PlaneInv'
  <2>1. CASE Stop \/ UNCHANGED vars
    BY <1>1, <2>1 DEF Stop, vars, PlaneInv, ShapeInv, ReportInv, FetchInv, Fetched,
                      ReportsAreTrue, OnlyPublishedIsApplied
  <2>2. ASSUME NEW t \in Loop, Tick(t) \/ LoopEnds(t)
        PROVE  PlaneInv'
    <3>1. /\ t \in Task
          /\ \E to \in {"send", "done"} : pc' = [pc EXCEPT ![t] = to]
          /\ UNCHANGED <<call, desired, published, applied, empties, heard>>
      BY <2>2 DEF Tick, LoopEnds
    <3>2. QED
      BY <1>1, <3>1, GoesOnKeeps
  <2>3. ASSUME NEW t \in Task, Run(t)
        PROVE  PlaneInv'
    BY <1>1, <2>3, FailureKeeps, AnswerKeeps, ApplyKeeps DEF Run
  <2>4. QED
    BY <1>1, <2>1, <2>2, <2>3, PublishKeeps DEF Next
<1>2. QED
  BY <1>1, InitPlane, PTL DEF Spec

\* Whatever is lost, repeated or refused, a version that reportStatus has told the
\* control plane of was applied by the engine.
THEOREM PlaneReportsAreTrue == Spec => []ReportsAreTrue
<1>1. PlaneInv => ReportsAreTrue
  BY DEF PlaneInv
<1>2. QED
  BY <1>1, PlaneInvariant, PTL

\* A failed, refused or cancelled FetchConfig is never applied: what is applied was
\* published, or came in an answer without data.
THEOREM PlaneAppliesPublished == Spec => []OnlyPublishedIsApplied
<1>1. PlaneInv => OnlyPublishedIsApplied
  BY DEF PlaneInv
<1>2. QED
  BY <1>1, PlaneInvariant, PTL

-----------------------------------------------------------------------------
(* Induction and recursion on 0..n. *)

Below == {p \in Nat \X Nat : p[1] < p[2]}

\* Every non-empty set of natural numbers has a least element.
LEMMA Least ==
    ASSUME NEW T \in SUBSET Nat, T # {}
    PROVE  \E x \in T : \A y \in T : x <= y
<1>1. Below = OpToRel(<, Nat)
  BY DEF OpToRel, Below
<1>2. PICK x \in T : \A y \in T : ~ (<<y, x>> \in Below)
  BY <1>1, NatLessThanWellFounded, WFMin
<1>3. ASSUME NEW y \in T
      PROVE  x <= y
  <2>1. x \in Nat /\ y \in Nat
    OBVIOUS
  <2>2. y < x => <<y, x>> \in Below
    BY <2>1 DEF Below
  <2>3. QED
    BY <1>2, <2>1, <2>2
<1>4. QED
  BY <1>3

\* A set that holds 0 and, with every number below n, its successor, holds all
\* numbers up to n.
LEMMA Reaches ==
    ASSUME NEW n \in Nat, NEW T, 0 \in T, \A m \in 1..n : m - 1 \in T => m \in T
    PROVE  \A m \in 0..n : m \in T
<1> DEFINE Bad == {m \in 0..n : m \notin T}
<1> SUFFICES ASSUME Bad # {}
             PROVE  FALSE
  OBVIOUS
<1>1. PICK x \in Bad : \A y \in Bad : x <= y
  <2>1. Bad \in SUBSET Nat
    OBVIOUS
  <2>2. QED
    BY <2>1, Least
<1>2. x \in 1..n
  BY <1>1
<1>3. x - 1 \in T
  <2>1. x - 1 \in 0..n /\ ~(x <= x - 1)
    BY <1>2
  <2>2. x - 1 \notin Bad
    BY <1>1, <2>1
  <2>3. QED
    BY <2>1, <2>2
<1>4. QED
  BY <1>1, <1>2, <1>3

Follows(f, n, c, g) == f[0] = c /\ \A k \in 1..n : f[k] = g[k][f[k - 1]]

\* A number and, for each k, a function from one value to the next determine a
\* sequence of values.
LEMMA Recursion ==
    ASSUME NEW n \in Nat, NEW c \in Nat, NEW g \in [1..n -> [Nat -> Nat]]
    PROVE  \E f \in [0..n -> Nat] : Follows(f, n, c, g)
<1> DEFINE T == {m \in Nat : m <= n =>
                   \E f \in [0..m -> Nat] : f[0] = c /\ \A k \in 1..m : f[k] = g[k][f[k - 1]]}
<1>1. 0 \in T
  <2>1. [k \in 0..0 |-> c] \in [0..0 -> Nat] /\ [k \in 0..0 |-> c][0] = c
    OBVIOUS
  <2>2. \A k \in 1..0 : FALSE
    OBVIOUS
  <2>3. QED
    BY <2>1, <2>2
<1>2. ASSUME NEW m \in 1..n, m - 1 \in T
      PROVE  m \in T
  <2>1. m \in Nat /\ m - 1 \in Nat /\ m - 1 <= n
    OBVIOUS
  <2>2. PICK f \in [0..(m - 1) -> Nat] :
               f[0] = c /\ \A k \in 1..(m - 1) : f[k] = g[k][f[k - 1]]
    BY <1>2, <2>1
  <2> DEFINE h == [k \in 0..m |-> IF k = m THEN g[m][f[m - 1]] ELSE f[k]]
  <2>3. g[m][f[m - 1]] \in Nat
    <3>1. f[m - 1] \in Nat /\ g[m] \in [Nat -> Nat]
      BY <2>1
    <3>2. QED
      BY <3>1
  <2>4. h \in [0..m -> Nat]
    <3>1. ASSUME NEW k \in 0..m, k # m
          PROVE  f[k] \in Nat
      BY <2>1, <3>1
    <3>2. QED
      BY <2>3, <3>1
  <2>5. h[0] = c
    BY <2>1, <2>2
  <2>6. ASSUME NEW k \in 1..m
        PROVE  h[k] = g[k][h[k - 1]]
    <3>1. h[k - 1] = f[k - 1]
      BY <2>1
    <3>2. CASE k = m
      BY <2>1, <3>1, <3>2
    <3>3. CASE k # m
      <4>1. k \in 1..(m - 1) /\ k \in 0..m
        BY <2>1, <3>3
      <4>2. h[k] = f[k]
        BY <3>3, <4>1
      <4>3. QED
        BY <2>2, <3>1, <4>1, <4>2
    <3>4. QED
      BY <3>2, <3>3
  <2>7. QED
    BY <2>1, <2>4, <2>5, <2>6
<1>3. n \in T
  <2>1. n \in 0..n
    OBVIOUS
  <2> HIDE DEF T
  <2>2. QED
    BY <1>1, <1>2, <2>1, Reaches
<1>4. n <= n
  OBVIOUS
<1>5. QED
  BY <1>3, <1>4, Zenon DEF Follows
-----------------------------------------------------------------------------
(* The waits of Retry. *)

R == withDefaults.MaxRetries
B == withDefaults.BaseDelay
M == withDefaults.MaxDelay

capped(d) == IF d >= M THEN M ELSE d

\* The parts of WaitsDouble.
double[i \in 0..R] == IF i = 0 THEN B ELSE 2 * double[i - 1]
delayOf(i) == IF double[i] < M THEN double[i] ELSE M
sum[n \in 0..R] == IF n = 0 THEN 0 ELSE sum[n - 1] + delayOf(n - 1)

WaitInv ==
    /\ DOMAIN attempt = Task /\ DOMAIN slept = Task /\ DOMAIN pc = Task
    /\ \A t \in Task :
         /\ attempt[t] \in 0..R
         /\ pc[t] = "wait" => attempt[t] < R
         /\ slept[t] = sum[attempt[t]]

\* The settings withDefaults gives are positive.
LEMMA Settings == R \in Nat \ {0} /\ B \in Nat \ {0} /\ M \in Nat \ {0}
BY DEF R, B, M, withDefaults

\* The delay, doubled.
LEMMA Doubles ==
    /\ double \in [0..R -> Nat] /\ double[0] = B
    /\ \A i \in 1..R : double[i] = 2 * double[i - 1]
<1> DEFINE g == [k \in 1..R |-> [v \in Nat |-> 2 * v]]
           eq(f) == f = [i \in 0..R |-> IF i = 0 THEN B ELSE 2 * f[i - 1]]
<1>1. g \in [1..R -> [Nat -> Nat]]
  BY Settings
<1>2. PICK f \in [0..R -> Nat] : Follows(f, R, B, g)
  <2> HIDE DEF g
  <2>1. R \in Nat /\ B \in Nat /\ 0 \in Nat
    BY Settings
  <2>2. QED
    BY <1>1, <2>1, Recursion
<1>3. ASSUME NEW k \in 1..R
      PROVE  f[k] = 2 * f[k - 1]
  <2>1. f[k - 1] \in Nat
    BY Settings
  <2>2. QED
    BY <1>2, <2>1 DEF Follows
<1>4. eq(f)
  BY <1>2, <1>3, Settings DEF Follows
<1>5. double = CHOOSE h : eq(h)
  BY Zenon DEF double
<1>6. eq(double)
  <2> HIDE DEF eq
  <2>1. QED
    BY <1>4, <1>5, Zenon
<1>7. double[0] = B
  BY <1>6, Settings
<1>8. \A i \in 1..R : double[i] = 2 * double[i - 1]
  BY <1>6, Settings
<1>9. double \in [0..R -> Nat]
  <2> DEFINE T == {i \in Nat : i <= R => double[i] \in Nat}
  <2>1. 0 \in T
    BY <1>7, Settings
  <2>2. ASSUME NEW m \in 1..R, m - 1 \in T
        PROVE  m \in T
    <3>1. m \in Nat /\ m - 1 \in Nat /\ m - 1 <= R
      BY Settings
    <3>2. double[m - 1] \in Nat
      BY <2>2, <3>1
    <3>3. double[m] = 2 * double[m - 1]
      BY <1>8
    <3>4. QED
      BY <3>1, <3>2, <3>3
  <2> HIDE DEF T
  <2>3. \A i \in 0..R : i \in T
    BY <2>1, <2>2, Settings, Reaches
  <2> USE DEF T
  <2>4. \A i \in 0..R : double[i] \in Nat
    BY <2>3, Settings
  <2>5. QED
    BY <1>6, <2>4
<1>10. QED
  BY <1>7, <1>8, <1>9

\* The delays, added up.
LEMMA Sums == sum[0] = 0 /\ \A n \in 1..R : sum[n] = sum[n - 1] + delayOf(n - 1)
<1> DEFINE g == [k \in 1..R |-> [v \in Nat |-> v + delayOf(k - 1)]]
           eq(f) == f = [n \in 0..R |-> IF n = 0 THEN 0 ELSE f[n - 1] + delayOf(n - 1)]
<1>1. g \in [1..R -> [Nat -> Nat]]
  <2>1. \A k \in 1..R : delayOf(k - 1) \in Nat
    BY Settings, Doubles DEF delayOf
  <2>2. QED
    BY <2>1
<1>2. PICK f \in [0..R -> Nat] : Follows(f, R, 0, g)
  <2> HIDE DEF g
  <2>1. R \in Nat /\ B \in Nat /\ 0 \in Nat
    BY Settings
  <2>2. QED
    BY <1>1, <2>1, Recursion
<1>3. ASSUME NEW k \in 1..R
      PROVE  f[k] = f[k - 1] + delayOf(k - 1)
  <2>1. f[k - 1] \in Nat
    BY Settings
  <2>2. QED
    BY <1>2, <2>1 DEF Follows
<1>4. eq(f)
  BY <1>2, <1>3, Settings DEF Follows
<1>5. sum = CHOOSE h : eq(h)
  BY Zenon DEF sum
<1>6. eq(sum)
  <2> HIDE DEF eq
  <2>1. QED
    BY <1>4, <1>5, Zenon
<1>7. QED
  BY <1>6, Settings

\* Capping before and after doubling gives what capping after it gives.
LEMMA CappedTwice ==
    ASSUME NEW x \in Nat, NEW y \in Nat, capped(x) = capped(y)
    PROVE  capped(2 * x) \in Nat /\ capped(capped(2 * x)) = capped(2 * y)
BY Settings DEF capped

\* backoff, which caps the delay after every doubling, gives the doubled delay,
\* capped.
LEMMA BackoffDoubles ==
    ASSUME NEW n \in 0..R
    PROVE  backoff(n) = delayOf(n)
<1> DEFINE g == [k \in 1..n |-> [v \in Nat |-> capped(2 * v)]]
           eq(f) == f = [i \in 0..n |-> IF i = 0 THEN B ELSE capped(2 * f[i - 1])]
           d == CHOOSE f : eq(f)
<1>1. n \in Nat /\ n <= R
  BY Settings
<1>2. g \in [1..n -> [Nat -> Nat]]
  BY Settings DEF capped
<1>3. PICK f \in [0..n -> Nat] : Follows(f, n, B, g)
  <2> HIDE DEF g
  <2>1. B \in Nat
    BY Settings
  <2>2. QED
    BY <1>1, <1>2, <2>1, Recursion
<1>4. ASSUME NEW k \in 1..n
      PROVE  f[k] = capped(2 * f[k - 1])
  <2>1. f[k - 1] \in Nat
    BY <1>1
  <2>2. QED
    BY <1>3, <2>1 DEF Follows
<1>5. eq(f)
  BY <1>1, <1>3, <1>4 DEF Follows
<1>6. backoff(n) = capped(d[n])
  BY Zenon DEF backoff, capped, M, B
<1>7. eq(d)
  <2> HIDE DEF eq
  <2>1. QED
    BY <1>5, Zenon
<1> HIDE DEF d
<1>8. d[0] = B /\ \A k \in 1..n : d[k] = capped(2 * d[k - 1])
  BY <1>1, <1>7
<1> DEFINE T == {i \in Nat : i <= n => d[i] \in Nat /\ capped(d[i]) = capped(double[i])}
<1>9. 0 \in T
  BY <1>8, Doubles, Settings
<1>10. ASSUME NEW m \in 1..n, m - 1 \in T
       PROVE  m \in T
  <2>1. m - 1 \in 0..R /\ m \in 1..R /\ m - 1 \in Nat /\ m - 1 <= n
    BY <1>1, Settings
  <2>2. d[m - 1] \in Nat /\ capped(d[m - 1]) = capped(double[m - 1])
    BY <1>10, <2>1
  <2>3. double[m - 1] \in Nat /\ double[m] = 2 * double[m - 1]
    BY <2>1, Doubles
  <2>4. d[m] = capped(2 * d[m - 1])
    BY <1>8
  <2> DEFINE x == d[m - 1]
             y == double[m - 1]
  <2>5. capped(2 * x) \in Nat /\ capped(capped(2 * x)) = capped(2 * y)
    <3>1. x \in Nat /\ y \in Nat /\ capped(x) = capped(y)
      BY <2>2, <2>3
    <3> HIDE DEF x, y
    <3>2. QED
      BY <3>1, CappedTwice
  <2>6. d[m] \in Nat /\ capped(d[m]) = capped(double[m])
    BY <2>3, <2>4, <2>5, Zenon
  <2>7. QED
    BY <2>6
<1>11. capped(d[n]) = capped(double[n])
  <2> HIDE DEF T
  <2>1. \A i \in 0..n : i \in T
    BY <1>1, <1>9, <1>10, Reaches
  <2>2. n \in T
    BY <1>1, <2>1
  <2>3. QED
    BY <1>1, <2>2 DEF T
<1>12. capped(double[n]) = delayOf(n)
  BY <1>1, Doubles, Settings DEF capped, delayOf
<1>13. QED
  BY <1>6, <1>11, <1>12

\* A call that ends, or begins, has not waited.
LEMMA WaitStartsOver ==
    ASSUME WaitInv, NEW t \in Task, attempt' = [attempt EXCEPT ![t] = 0],
           slept' = [slept EXCEPT ![t] = 0], NEW to, to # "wait", pc' = [pc EXCEPT ![t] = to]
    PROVE  WaitInv'
BY Settings, Sums DEF WaitInv

\* A task that goes elsewhere, but not to wait, has waited what it had.
LEMMA WaitGoesOn ==
    ASSUME WaitInv, NEW t \in Task, UNCHANGED <<attempt, slept>>,
           NEW to, to = "wait" => attempt[t] < R, pc' = [pc EXCEPT ![t] = to]
    PROVE  WaitInv'
BY DEF WaitInv

\* An attempt fails: Retry waits as long as attempts are left.
LEMMA WaitAttemptFails ==
    ASSUME WaitInv, NEW t \in Task, AttemptFails(t)
    PROVE  WaitInv'
<1>1. CASE attempt[t] >= R
  <2>1. TaskReturns(t)
    BY <1>1 DEF AttemptFails, TaskFails, R
  <2>2. QED
    BY <2>1, WaitStartsOver DEF TaskReturns
<1>2. CASE ~(attempt[t] >= R)
  <2>1. pc' = [pc EXCEPT ![t] = "wait"] /\ UNCHANGED <<attempt, slept>>
    BY <1>2 DEF AttemptFails, R
  <2>2. attempt[t] < R
    BY <1>2, Settings DEF WaitInv
  <2>3. QED
    BY <2>1, <2>2, WaitGoesOn
<1>3. QED
  BY <1>1, <1>2

\* Each step keeps what a call has waited.
LEMMA WaitNext ==
    ASSUME WaitInv, Next
    PROVE  WaitInv'
<1>1. CASE Publish \/ Stop
  BY <1>1 DEF Publish, Stop, WaitInv
<1>2. ASSUME NEW t \in Loop, Tick(t) \/ LoopEnds(t)
      PROVE  WaitInv'
  <2>1. \E to \in {"send", "done"} : pc' = [pc EXCEPT ![t] = to]
    BY <1>2 DEF Tick, LoopEnds
  <2>2. UNCHANGED <<attempt, slept>> /\ t \in Task
    BY <1>2 DEF Tick, LoopEnds
  <2>3. QED
    BY <2>1, <2>2, WaitGoesOn
<1>3. ASSUME NEW t \in Task, SendFails(t) \/ SendCancelled(t)
      PROVE  WaitInv'
  BY <1>3, WaitAttemptFails DEF SendFails, SendCancelled
<1>4. ASSUME NEW t \in Task, TaskReturns(t)
      PROVE  WaitInv'
  BY <1>4, WaitStartsOver DEF TaskReturns
<1>5. ASSUME NEW t \in Task, SendRefused(t) \/ ApplyFails(t)
      PROVE  WaitInv'
  BY <1>4, <1>5 DEF SendRefused, ApplyFails, TaskFails
<1>6. ASSUME NEW t \in Task, SendAnswered(t)
      PROVE  WaitInv'
  <2>1. CASE TaskReturns(t)
    BY <1>4, <2>1
  <2>2. CASE pc' = [pc EXCEPT ![t] = "apply"] /\ UNCHANGED <<attempt, slept>>
    BY <2>2, WaitGoesOn
  <2>3. QED
    BY <1>6, <2>1, <2>2 DEF SendAnswered
<1>7. ASSUME NEW t \in Task, Apply(t)
      PROVE  WaitInv'
  BY <1>7, WaitStartsOver DEF Apply
<1>8. ASSUME NEW t \in Task, Wait(t)
      PROVE  WaitInv'
  <2>1. CASE TaskFails(t)
    BY <1>4, <2>1 DEF TaskFails
  <2>2. CASE /\ pc' = [pc EXCEPT ![t] = "send"]
             /\ attempt' = [attempt EXCEPT ![t] = @ + 1]
             /\ slept' = [slept EXCEPT ![t] = @ + backoff(attempt[t])]
    <3> DEFINE n == attempt[t]
    <3>1. n \in 0..R /\ n < R /\ slept[t] = sum[n]
      BY <1>8 DEF Wait, WaitInv
    <3>2. n + 1 \in 1..R /\ (n + 1) - 1 = n
      BY <3>1, Settings
    <3>3. backoff(n) = delayOf(n)
      BY <3>1, BackoffDoubles
    <3>4. sum[n + 1] = slept[t] + backoff(n)
      BY <3>1, <3>2, <3>3, Sums
    <3>5. attempt'[t] = n + 1 /\ slept'[t] = sum[n + 1] /\ pc'[t] = "send"
      BY <2>2, <3>4 DEF WaitInv
    <3>6. ASSUME NEW s \in Task
          PROVE  /\ attempt'[s] \in 0..R
                 /\ pc'[s] = "wait" => attempt'[s] < R
                 /\ slept'[s] = sum[attempt'[s]]
      <4>1. CASE s = t
        BY <3>2, <3>5, <4>1, Settings
      <4>2. CASE s # t
        BY <2>2, <4>2 DEF WaitInv
      <4>3. QED
        BY <4>1, <4>2
    <3>7. QED
      BY <2>2, <3>6 DEF WaitInv
  <2>3. QED
    BY <1>8, <2>1, <2>2 DEF Wait
<1>9. QED
  BY <1>1, <1>2, <1>3, <1>5, <1>6, <1>7, <1>8 DEF Next, Run

\* However many attempts fail and wherever Stop interrupts, a call retries at most
\* MaxRetries times, and before its n-th retry Retry has waited the first n doubled
\* delays, none longer than MaxDelay.
THEOREM PlaneWaitsDouble == Spec => []WaitsDouble
<1>1. Init => WaitInv
  BY Settings, Sums DEF Init, WaitInv
<1>2. WaitInv /\ [Next]_vars => WaitInv'
  BY WaitNext DEF vars, WaitInv
<1>3. WaitInv => WaitsDouble
  <2> SUFFICES ASSUME WaitInv
               PROVE  WaitsDouble
    OBVIOUS
  <2>1. \A t \in Task : attempt[t] <= R /\ slept[t] = sum[attempt[t]]
    BY Settings DEF WaitInv
  <2>2. (\A t \in Task : attempt[t] <= R /\ slept[t] = sum[attempt[t]]) => WaitsDouble
    BY Zenon DEF WaitsDouble, sum, delayOf, double, R, B, M
  <2>3. QED
    BY <2>1, <2>2
<1>4. QED
  BY <1>1, <1>2, <1>3, PTL DEF Spec
=============================================================================
