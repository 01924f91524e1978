-------------------------- MODULE NonceCacheProofs --------------------------
(***************************************************************************)
(* Proofs about NonceCache, for any number of requests and nonces and any  *)
(* limits that satisfy NonceCacheAssumption.                               *)
(*                                                                         *)
(* A message is accepted once because its nonce leaves the map only by     *)
(* eviction or when the message is stale: whoever stored it read the clock *)
(* no earlier than Skew before its timestamp (SpentInv), so an entry that  *)
(* is older than TTL belongs to a timestamp that is older than Skew and    *)
(* ReadTimeout together, and no request under way can carry that any more  *)
(* (FlightInv).                                                            *)
(***************************************************************************)
EXTENDS NonceCache, FiniteSetTheorems, SequenceTheorems, TLAPS

\* Where the requests under way are in time.
FlightInv ==
    \A r \in Requests : pc[r] # "idle" =>
        /\ msg[r] \in Message
        /\ arrived[r] \in Nat
        /\ arrived[r] <= clock /\ clock <= arrived[r] + ReadTimeout
        /\ arrived[r] - msg[r].stamp <= Skew /\ msg[r].stamp - arrived[r] <= Skew
        /\ pc[r] = "nonce" => at[r] \in Nat /\ arrived[r] <= at[r] /\ at[r] <= clock

\* The queue has every nonce of the map once.
QueueInv ==
    /\ \A i, j \in 1..Len(queue) : queue[i] = queue[j] => i = j
    /\ \A n \in Nonces : n \in DOMAIN cache <=> \E i \in 1..Len(queue) : queue[i] = n
    /\ Len(queue) <= MaxSize

\* Nobody can present the message any more.
Stale(m) == clock > m.stamp + Skew + ReadTimeout

\* What is known of a message that was accepted and whose nonce was not evicted.
SpentInv ==
    \A m \in Message : accepted[m] > 0 =>
        \/ m.nonce \in evicted
        \/ Stale(m)
        \/ m.nonce \in DOMAIN cache /\ cache[m.nonce] >= m.stamp - Skew

NonceInv == TypeOK /\ FlightInv /\ QueueInv /\ SpentInv /\ AcceptedOnce
-----------------------------------------------------------------------------
USE NonceCacheAssumption

\* A position of the queue after an append is the new one or an earlier one.
LEMMA LastOrEarlier ==
    ASSUME NEW a \in Nat, NEW n \in 0..a, NEW b, b = a - n + 1
    PROVE  \A k \in 1..b : k \in 1..(a - n) \/ k = a - n + 1
OBVIOUS

\* An interval from one has as many members as its end says.
LEMMA IntervalCount ==
    ASSUME NEW n \in Nat
    PROVE  IsFiniteSet(1..n) /\ Cardinality(1..n) = n
<1>1. 1 \in Int /\ n \in Int
  OBVIOUS
<1>2. IsFiniteSet(1..n) /\ Cardinality(1..n) = IF 1 > n THEN 0 ELSE n - 1 + 1
  BY <1>1, FS_Interval
<1>3. QED
  BY <1>2

\* The nonces of a queue without repetitions are as many as its positions.
LEMMA QueueCount ==
    ASSUME TypeOK, QueueInv
    PROVE  /\ ToSet(queue) = DOMAIN cache
           /\ IsFiniteSet(DOMAIN cache)
           /\ Cardinality(DOMAIN cache) = Len(queue)
<1>1. queue \in Seq(Nonces) /\ Len(queue) \in Nat /\ DOMAIN queue = 1..Len(queue)
  BY DEF TypeOK
<1>2. ToSet(queue) = DOMAIN cache
  <2>1. ASSUME NEW n \in DOMAIN cache PROVE n \in ToSet(queue)
    BY <1>1 DEF ToSet, QueueInv, TypeOK
  <2>2. ASSUME NEW i \in 1..Len(queue) PROVE queue[i] \in DOMAIN cache
    BY <1>1 DEF QueueInv
  <2>3. QED
    BY <1>1, <2>1, <2>2 DEF ToSet
<1>3. queue \in Surjection(1..Len(queue), DOMAIN cache)
  BY <1>1, <1>2 DEF Surjection, ToSet
<1>4. queue \in Injection(1..Len(queue), DOMAIN cache)
  BY <1>3 DEF QueueInv, Injection, Surjection, IsInjective
<1>5. IsFiniteSet(1..Len(queue)) /\ Cardinality(1..Len(queue)) = Len(queue)
  BY <1>1, IntervalCount
<1>6. QED
  BY <1>2, <1>3, <1>4, <1>5, FS_Surjection

\* cleanup counts entries at the head of the queue, all of them older than TTL.
LEMMA CleanupCounts ==
    ASSUME TypeOK, NEW now \in Nat
    PROVE  /\ cleanup(now) \in 0..Len(queue)
           /\ \A i \in 1..cleanup(now) : queue[i] \in DOMAIN cache /\ now - cache[queue[i]] > TTL
<1> DEFINE Old(j) == queue[j] \in DOMAIN cache /\ now - cache[queue[j]] > TTL
           S == {i \in DOMAIN queue : \A j \in 1..i : Old(j)}
<1>1. Len(queue) \in Nat /\ DOMAIN queue = 1..Len(queue)
  BY DEF TypeOK
<1>2. cleanup(now) = Cardinality(S)
  BY DEF cleanup
<1>3. /\ IsFiniteSet(S) /\ Cardinality(S) \in Nat /\ Cardinality(S) <= Len(queue)
  <2>1. IsFiniteSet(1..Len(queue)) /\ Cardinality(1..Len(queue)) = Len(queue)
    BY <1>1, IntervalCount
  <2>2. S \in SUBSET (1..Len(queue))
    BY <1>1
  <2>3. IsFiniteSet(S) /\ Cardinality(S) <= Cardinality(1..Len(queue))
    BY <2>1, <2>2, FS_Subset
  <2>4. QED
    BY <2>1, <2>3, FS_CardinalityType
<1>4. ASSUME NEW i \in 1..Cardinality(S) PROVE i \in S
  <2>1. SUFFICES ASSUME i \notin S PROVE FALSE
    OBVIOUS
  <2>2. \A k \in S : k < i
    <3>1. SUFFICES ASSUME NEW k \in S, k >= i PROVE FALSE
      BY <1>1, <1>3
    <3>2. i \in DOMAIN queue /\ 1..i \subseteq 1..k
      BY <1>1, <1>3, <3>1
    <3>3. QED
      BY <2>1, <3>1, <3>2
  <2>3. S \in SUBSET (1..(i - 1))
    BY <1>1, <1>3, <2>2
  <2>4. IsFiniteSet(1..(i - 1)) /\ Cardinality(1..(i - 1)) = i - 1
    <3>1. i - 1 \in Nat
      BY <1>3
    <3>2. QED
      BY <3>1, IntervalCount
  <2>5. Cardinality(S) <= i - 1
    BY <2>3, <2>4, FS_Subset
  <2>6. QED
    BY <1>3, <2>5
<1>5. QED
  <2>1. \A i \in 1..cleanup(now) : i \in S
    BY <1>2, <1>4
  <2>2. \A i \in S : Old(i)
    BY <1>1
  <2>3. cleanup(now) \in 0..Len(queue)
    BY <1>1, <1>2, <1>3
  <2>4. QED
    BY <2>1, <2>2, <2>3

\* evict makes room for one entry and removes no fewer than cleanup does.
LEMMA EvictMakesRoom ==
    ASSUME TypeOK, QueueInv, NEW c \in 0..Len(queue)
    PROVE  /\ evict(c) \in c..Len(queue)
           /\ Len(queue) - evict(c) + 1 <= MaxSize
<1>1. Cardinality(DOMAIN cache) = Len(queue) /\ Len(queue) \in Nat
  BY QueueCount DEF TypeOK
<1>2. evict(c) = IF Len(queue) - c >= MaxSize THEN c + (Len(queue) - c) - MaxSize + 1 ELSE c
  BY <1>1 DEF evict
<1>3. QED
  BY <1>1, <1>2 DEF QueueInv

\* What StoreNonce makes of the queue, position by position.
LEMMA StoredQueue ==
    ASSUME TypeOK, NEW n \in 0..Len(queue), NEW nonce \in Nonces, NEW now, StoreNonce(n, nonce, now)
    PROVE  /\ queue' \in Seq(Nonces)
           /\ Len(queue') = Len(queue) - n + 1
           /\ \A i \in 1..(Len(queue) - n) : queue'[i] = queue[n + i]
           /\ queue'[Len(queue) - n + 1] = nonce
<1> DEFINE rest == SubSeq(queue, n + 1, Len(queue))
<1>1. queue \in Seq(Nonces) /\ Len(queue) \in Nat /\ n \in Nat /\ n <= Len(queue)
  BY DEF TypeOK
<1>2. /\ rest \in Seq(Nonces) /\ Len(rest) = Len(queue) - n
      /\ \A i \in 1..(Len(queue) - n) : rest[i] = queue[n + i]
  <2>1. \A i \in (n + 1)..Len(queue) : queue[i] \in Nonces
    BY <1>1
  <2>2. /\ rest \in Seq(Nonces)
        /\ Len(rest) = IF n + 1 <= Len(queue) THEN Len(queue) - (n + 1) + 1 ELSE 0
        /\ \A i \in 1..(Len(queue) - (n + 1) + 1) : rest[i] = queue[(n + 1) + i - 1]
    BY <1>1, <2>1, SubSeqProperties
  <2>3. QED
    BY <1>1, <2>2
<1>3. queue' = Append(rest, nonce)
  BY DEF StoreNonce
<1> HIDE DEF rest
<1>4. QED
  BY <1>1, <1>2, <1>3

\* The nonces at some positions of the queue.
LEMMA SubSeqSet ==
    ASSUME TypeOK, NEW a \in Nat, a >= 1, NEW b \in 0..Len(queue)
    PROVE  \A x : x \in ToSet(SubSeq(queue, a, b)) <=> \E i \in a..b : queue[i] = x
<1> DEFINE part == SubSeq(queue, a, b)
<1>1. queue \in Seq(Nonces) /\ Len(queue) \in Nat
  BY DEF TypeOK
<1>2. /\ part \in Seq(Nonces)
      /\ Len(part) = IF a <= b THEN b - a + 1 ELSE 0
      /\ \A i \in 1..(b - a + 1) : part[i] = queue[a + i - 1]
  <2>1. \A i \in a..b : queue[i] \in Nonces
    BY <1>1
  <2>2. QED
    BY <1>1, <2>1, SubSeqProperties
<1> HIDE DEF part
<1>3. DOMAIN part = 1..Len(part)
  BY <1>2
<1>4. ASSUME NEW x, x \in ToSet(part) PROVE \E i \in a..b : queue[i] = x
  <2>1. PICK k \in 1..Len(part) : part[k] = x
    BY <1>3, <1>4 DEF ToSet
  <2>2. a + k - 1 \in a..b /\ queue[a + k - 1] = x
    BY <1>1, <1>2, <2>1
  <2>3. QED
    BY <2>2
<1>5. ASSUME NEW i \in a..b PROVE queue[i] \in ToSet(part)
  <2>1. i - a + 1 \in 1..Len(part) /\ part[i - a + 1] = queue[i]
    BY <1>1, <1>2
  <2>2. QED
    BY <1>3, <2>1 DEF ToSet
<1>6. QED
  BY <1>4, <1>5 DEF part

\* What StoreNonce makes of the map and of the nonces evicted.
LEMMA StoredCache ==
    ASSUME TypeOK, NEW n \in 0..Len(queue), NEW nonce \in Nonces, NEW now \in Nat,
           StoreNonce(n, nonce, now)
    PROVE  /\ \A k : k \in DOMAIN cache' <=>
                       k = nonce \/ (k \in DOMAIN cache /\ ~ \E i \in 1..n : queue[i] = k)
           /\ cache'[nonce] = now
           /\ \A k \in DOMAIN cache' : k # nonce => cache'[k] = cache[k]
           /\ evicted \subseteq evicted'
           /\ evicted' \subseteq Nonces
           /\ \A i \in (cleanup(now) + 1)..n : queue[i] \in evicted'
<1>1. Len(queue) \in Nat /\ queue \in Seq(Nonces) /\ cleanup(now) \in 0..Len(queue)
  BY CleanupCounts DEF TypeOK
<1>2. \A x : x \in ToSet(SubSeq(queue, 1, n)) <=> \E i \in 1..n : queue[i] = x
  BY SubSeqSet
<1>3. \A x : x \in ToSet(SubSeq(queue, cleanup(now) + 1, n)) <=>
               \E i \in (cleanup(now) + 1)..n : queue[i] = x
  <2>1. cleanup(now) + 1 \in Nat /\ cleanup(now) + 1 >= 1
    BY <1>1
  <2>2. QED
    BY <2>1, SubSeqSet
<1>4. /\ cache' = [k \in (DOMAIN cache \ ToSet(SubSeq(queue, 1, n))) \cup {nonce} |->
                     IF k = nonce THEN now ELSE cache[k]]
      /\ evicted' = evicted \cup ToSet(SubSeq(queue, cleanup(now) + 1, n))
  BY DEF StoreNonce
<1>5. \A i \in (cleanup(now) + 1)..n : queue[i] \in Nonces
  BY <1>1
<1>6. evicted' \subseteq Nonces
  BY <1>3, <1>4, <1>5 DEF TypeOK
<1>7. QED
  BY <1>2, <1>3, <1>4, <1>6

\* The empty cache satisfies the invariant.
LEMMA InitEstablishes == ASSUME Init PROVE NonceInv
<1>1. /\ DOMAIN cache = {} /\ queue = <<>> /\ Len(queue) = 0 /\ clock = 0
      /\ \A r \in Requests : pc[r] = "idle"
      /\ \A m \in Message : accepted[m] = 0
  BY DEF Init
<1>2. TypeOK
  BY <1>1 DEF Init, TypeOK
<1>3. FlightInv /\ QueueInv /\ SpentInv /\ AcceptedOnce
  BY <1>1 DEF FlightInv, QueueInv, SpentInv, AcceptedOnce
<1>4. QED
  BY <1>2, <1>3 DEF NonceInv

\* A step that leaves map, queue, clock and acceptances alone disturbs only the
\* requests under way.
LEMMA CacheAlone ==
    ASSUME NonceInv, UNCHANGED <<cacheVars, clock, accepted>>, TypeOK', FlightInv'
    PROVE  NonceInv'
<1>1. UNCHANGED <<cache, queue, evicted, clock, accepted>>
  BY DEF cacheVars
<1>2. QueueInv' /\ SpentInv' /\ AcceptedOnce'
  BY <1>1 DEF NonceInv, QueueInv, SpentInv, AcceptedOnce, Stale
<1>3. QED
  BY <1>2 DEF NonceInv

\* A request under way has just arrived, within Skew of its timestamp.
LEMMA ArriveKeeps == ASSUME NonceInv, NEW r \in Requests, Arrive(r) PROVE NonceInv'
<1>1. PICK m \in Message : SkewOK(m.stamp) /\ msg' = [msg EXCEPT ![r] = m]
  BY DEF Arrive
<1>2. /\ arrived' = [arrived EXCEPT ![r] = clock] /\ pc' = [pc EXCEPT ![r] = "verify"]
      /\ UNCHANGED <<cacheVars, clock, at, accepted>> /\ arrivals' = arrivals + 1
  BY DEF Arrive
<1>3. TypeOK'
  BY <1>1, <1>2 DEF NonceInv, TypeOK, cacheVars
<1>4. m.stamp \in Nat
  BY DEF Message
<1>5. FlightInv'
  <2> SUFFICES ASSUME NEW s \in Requests, pc'[s] # "idle"
               PROVE  /\ msg'[s] \in Message
                      /\ arrived'[s] \in Nat
                      /\ arrived'[s] <= clock' /\ clock' <= arrived'[s] + ReadTimeout
                      /\ arrived'[s] - msg'[s].stamp <= Skew /\ msg'[s].stamp - arrived'[s] <= Skew
                      /\ pc'[s] = "nonce" => at'[s] \in Nat /\ arrived'[s] <= at'[s] /\ at'[s] <= clock'
    BY DEF FlightInv
  <2>1. CASE s = r
    BY <1>1, <1>2, <1>4, <2>1 DEF NonceInv, TypeOK, SkewOK
  <2>2. CASE s # r
    BY <1>1, <1>2, <2>2 DEF NonceInv, TypeOK, FlightInv
  <2>3. QED
    BY <2>1, <2>2
<1>6. QED
  BY <1>2, <1>3, <1>5, CacheAlone

\* A request that is answered leaves the others where they are in time.
LEMMA LeaveKeepsFlight ==
    ASSUME NonceInv, NEW r \in Requests, Leave(r), clock' = clock
    PROVE  /\ FlightInv'
           /\ pc' \in [Requests -> {"idle", "verify", "nonce"}]
           /\ msg' \in [Requests -> Message \cup {None}]
           /\ arrived' \in [Requests -> Nat \cup {None}]
           /\ at' \in [Requests -> Nat \cup {None}]
BY DEF Leave, NonceInv, TypeOK, FlightInv

\* A refused request leaves no trace.
LEMMA RefusedKeeps ==
    ASSUME NonceInv, NEW r \in Requests, Unsigned(r) \/ Replayed(r) PROVE NonceInv'
<1>1. Leave(r) /\ UNCHANGED <<cacheVars, clock, arrivals, accepted>>
  BY DEF Unsigned, Replayed
<1>2. TypeOK'
  BY <1>1, LeaveKeepsFlight DEF NonceInv, TypeOK, cacheVars
<1>3. QED
  BY <1>1, <1>2, LeaveKeepsFlight, CacheAlone

\* Verifying the signature reads the clock between the arrival and now.
LEMMA VerifyKeeps == ASSUME NonceInv, NEW r \in Requests, Verify(r) PROVE NonceInv'
<1>1. UNCHANGED <<cacheVars, clock, accepted>>
  BY DEF Verify
<1>2. TypeOK'
  BY DEF Verify, NonceInv, TypeOK, cacheVars
<1>3. FlightInv'
  BY DEF Verify, NonceInv, TypeOK, FlightInv
<1>4. QED
  BY <1>1, <1>2, <1>3, CacheAlone

\* Time passing keeps requests within ReadTimeout and only makes messages stale.
LEMMA TickKeeps == ASSUME NonceInv, Tick PROVE NonceInv'
<1>1. UNCHANGED <<cache, queue, evicted, pc, msg, arrived, at, arrivals, accepted>>
      /\ clock' = clock + 1 /\ clock \in Nat
  BY DEF Tick, cacheVars, NonceInv, TypeOK
<1>2. TypeOK'
  BY <1>1 DEF NonceInv, TypeOK
<1>3. FlightInv'
  BY <1>1 DEF Tick, NonceInv, FlightInv
<1>4. ASSUME NEW m \in Message, Stale(m) PROVE Stale(m)'
  BY <1>1, <1>4 DEF Stale, Message
<1>5. SpentInv'
  BY <1>1, <1>4 DEF NonceInv, SpentInv
<1>6. QueueInv' /\ AcceptedOnce'
  BY <1>1 DEF NonceInv, QueueInv, AcceptedOnce
<1>7. QED
  BY <1>2, <1>3, <1>5, <1>6 DEF NonceInv

\* A new nonce is stored.  Entries that leave are evicted or belong to messages
\* that are stale by now.
LEMMA AcceptKeeps == ASSUME NonceInv, NEW r \in Requests, Accept(r) PROVE NonceInv'
<1> DEFINE m == msg[r]
           now == at[r]
           c == cleanup(now)
           n == evict(c)
<1>1. /\ m \in Message /\ m.nonce \in Nonces /\ m.stamp \in Nat
      /\ now \in Nat /\ now <= clock /\ now >= m.stamp - Skew
      /\ clock <= m.stamp + Skew + ReadTimeout /\ clock \in Nat
      /\ m.nonce \notin DOMAIN cache
  <2>1. /\ m \in Message /\ now \in Nat /\ arrived[r] \in Nat /\ clock \in Nat
        /\ arrived[r] <= now /\ now <= clock /\ clock <= arrived[r] + ReadTimeout
        /\ arrived[r] - m.stamp <= Skew /\ m.stamp - arrived[r] <= Skew
        /\ m.nonce \notin DOMAIN cache
    BY DEF Accept, NonceInv, FlightInv, TypeOK
  <2>2. m.nonce \in Nonces /\ m.stamp \in Nat
    BY <2>1 DEF Message
  <2>3. QED
    BY <2>1, <2>2
<1>2. /\ StoreNonce(n, m.nonce, now) /\ accepted' = [accepted EXCEPT ![m] = @ + 1]
      /\ Leave(r) /\ clock' = clock /\ arrivals' = arrivals
  BY DEF Accept
<1>3. /\ c \in 0..Len(queue) /\ Len(queue) \in Nat
      /\ \A i \in 1..c : queue[i] \in DOMAIN cache /\ now - cache[queue[i]] > TTL
  <2>1. TypeOK
    BY DEF NonceInv
  <2>2. Len(queue) \in Nat
    BY <2>1 DEF TypeOK
  <2>3. QED
    BY <1>1, <2>1, <2>2, CleanupCounts
<1>4. n \in c..Len(queue) /\ n \in 0..Len(queue) /\ Len(queue) - n + 1 <= MaxSize
  <2>1. n \in c..Len(queue) /\ Len(queue) - n + 1 <= MaxSize
    BY <1>3, EvictMakesRoom DEF NonceInv
  <2>2. QED
    BY <1>3, <2>1
<1> HIDE DEF n, c
<1>5. /\ queue' \in Seq(Nonces)
      /\ Len(queue') = Len(queue) - n + 1
      /\ \A i \in 1..(Len(queue) - n) : queue'[i] = queue[n + i]
      /\ queue'[Len(queue) - n + 1] = m.nonce
  BY <1>1, <1>2, <1>4, StoredQueue DEF NonceInv
<1>6. /\ \A k : k \in DOMAIN cache' <=>
                  k = m.nonce \/ (k \in DOMAIN cache /\ ~ \E i \in 1..n : queue[i] = k)
      /\ cache'[m.nonce] = now
      /\ \A k \in DOMAIN cache' : k # m.nonce => cache'[k] = cache[k]
      /\ evicted \subseteq evicted'
      /\ evicted' \subseteq Nonces
      /\ \A i \in (c + 1)..n : queue[i] \in evicted'
  BY <1>1, <1>2, <1>4, StoredCache DEF NonceInv, c
<1> HIDE DEF m, now
<1>7. TypeOK'
  <2>1. /\ DOMAIN cache' \subseteq Nonces
        /\ \A k \in DOMAIN cache' : cache'[k] \in Nat
    <3>1. /\ DOMAIN cache \subseteq Nonces
          /\ \A k \in DOMAIN cache : cache[k] \in Nat
      BY DEF NonceInv, TypeOK
    <3>2. m.nonce \in Nonces /\ now \in Nat
      BY <1>1
    <3>3. QED
      BY <1>6, <3>1, <3>2, Zenon
  <2>2. accepted' \in [Message -> Nat]
    BY <1>1, <1>2 DEF NonceInv, TypeOK
  <2>3. QED
    BY <1>2, <1>5, <1>6, <2>1, <2>2, LeaveKeepsFlight DEF NonceInv, TypeOK
<1>8. QueueInv'
  <2>1. \A i \in 1..Len(queue) : queue[i] \in DOMAIN cache /\ queue[i] # m.nonce
    <3>1. \A i \in 1..Len(queue) : queue[i] \in Nonces
      BY DEF NonceInv, TypeOK
    <3>2. QED
      BY <1>1, <3>1, Zenon DEF NonceInv, QueueInv
  <2>2. ASSUME NEW i \in 1..Len(queue'), NEW j \in 1..Len(queue'), queue'[i] = queue'[j]
        PROVE  i = j
    <3>1. CASE i \in 1..(Len(queue) - n) /\ j \in 1..(Len(queue) - n)
      <4>1. queue[n + i] = queue[n + j] /\ n + i \in 1..Len(queue) /\ n + j \in 1..Len(queue)
        BY <1>3, <1>4, <1>5, <2>2, <3>1
      <4>2. n + i = n + j
        BY <4>1 DEF NonceInv, QueueInv
      <4>3. QED
        BY <1>4, <4>2
    <3>2. CASE i = Len(queue) - n + 1 /\ j \in 1..(Len(queue) - n)
      <4>1. queue[n + j] = m.nonce /\ n + j \in 1..Len(queue)
        BY <1>3, <1>4, <1>5, <2>2, <3>2
      <4>2. QED
        BY <2>1, <4>1
    <3>3. CASE i \in 1..(Len(queue) - n) /\ j = Len(queue) - n + 1
      <4>1. queue[n + i] = m.nonce /\ n + i \in 1..Len(queue)
        BY <1>3, <1>4, <1>5, <2>2, <3>3
      <4>2. QED
        BY <2>1, <4>1
    <3>4. \A k \in 1..Len(queue') : k \in 1..(Len(queue) - n) \/ k = Len(queue) - n + 1
      <4>1. Len(queue) \in Nat
        BY DEF NonceInv, TypeOK
      <4>2. QED
        BY <1>4, <1>5, <4>1, LastOrEarlier
    <3>5. CASE i = Len(queue) - n + 1 /\ j = Len(queue) - n + 1
      BY <3>5
    <3>6. QED
      BY <3>1, <3>2, <3>3, <3>4, <3>5
  <2>3. ASSUME NEW k \in Nonces, k \in DOMAIN cache'
        PROVE  \E i \in 1..Len(queue') : queue'[i] = k
    <3>1. CASE k = m.nonce
      <4>1. Len(queue) - n + 1 \in 1..Len(queue')
        BY <1>3, <1>4, <1>5
      <4>2. QED
        BY <1>5, <3>1, <4>1
    <3>2. CASE k # m.nonce
      <4>1. PICK i \in 1..Len(queue) : queue[i] = k
        BY <1>6, <2>3, <3>2 DEF NonceInv, QueueInv
      <4>2. i \notin 1..n
        BY <1>6, <2>3, <3>2, <4>1
      <4>3. i - n \in 1..(Len(queue) - n) /\ i - n \in 1..Len(queue') /\ n + (i - n) = i
        BY <1>3, <1>4, <1>5, <4>1, <4>2
      <4>4. queue'[i - n] = k
        BY <1>5, <4>1, <4>3
      <4>5. QED
        BY <4>3, <4>4
    <3>3. QED
      BY <3>1, <3>2
  <2>4. ASSUME NEW i \in 1..Len(queue') PROVE queue'[i] \in DOMAIN cache'
    <3>1. CASE i = Len(queue) - n + 1
      BY <1>5, <1>6, <3>1
    <3>2. CASE i \in 1..(Len(queue) - n)
      <4>1. n + i \in 1..Len(queue) /\ queue'[i] = queue[n + i] /\ n + i \notin 1..n
        BY <1>3, <1>4, <1>5, <3>2
      <4>2. \A k \in 1..n : queue[k] # queue[n + i]
        <5>1. \A k \in 1..n : k \in 1..Len(queue) /\ k # n + i
          BY <1>3, <1>4, <4>1
        <5>2. QED
          BY <4>1, <5>1, Zenon DEF NonceInv, QueueInv
      <4>3. QED
        BY <1>6, <2>1, <4>1, <4>2
    <3>3. QED
      BY <1>3, <1>4, <1>5, <3>1, <3>2
  <2>5. \A k \in Nonces : k \in DOMAIN cache' <=> \E i \in 1..Len(queue') : queue'[i] = k
    BY <2>3, <2>4, Zenon
  <2>6. Len(queue') <= MaxSize
    BY <1>4, <1>5
  <2>7. QED
    BY <2>2, <2>5, <2>6, Zenon DEF QueueInv
<1>9. ASSUME NEW x \in Message, x # m, accepted[x] > 0
      PROVE  \/ x.nonce \in evicted'
             \/ Stale(x)
             \/ x.nonce \in DOMAIN cache' /\ cache'[x.nonce] >= x.stamp - Skew
  <2>1. x.stamp \in Nat /\ x.nonce \in Nonces
    BY DEF Message
  <2>2. SUFFICES ASSUME x.nonce \notin evicted', ~Stale(x)
                 PROVE  x.nonce \in DOMAIN cache' /\ cache'[x.nonce] >= x.stamp - Skew
    OBVIOUS
  <2>3. x.nonce \in DOMAIN cache /\ cache[x.nonce] >= x.stamp - Skew /\ cache[x.nonce] \in Nat
    BY <1>6, <1>9, <2>2 DEF NonceInv, SpentInv, TypeOK
  <2>4. ASSUME NEW i \in 1..n, queue[i] = x.nonce PROVE FALSE
    <3>1. i \in 1..c
      BY <1>3, <1>4, <1>6, <2>2, <2>4
    <3>2. now - cache[x.nonce] > TTL
      BY <1>3, <2>4, <3>1
    <3>3. clock > x.stamp + Skew + ReadTimeout
      BY <1>1, <2>1, <2>3, <3>2
    <3>4. QED
      BY <2>2, <3>3 DEF Stale
  <2>5. x.nonce # m.nonce
    BY <1>1, <2>3
  <2>6. QED
    BY <1>6, <2>3, <2>4, <2>5
<1>10. SpentInv'
  <2>1. \A x \in Message : Stale(x)' = Stale(x)
    BY <1>2 DEF Stale
  <2>2. \A x \in Message : x # m => accepted'[x] = accepted[x]
    BY <1>1, <1>2 DEF NonceInv, TypeOK
  <2>3. m.nonce \in DOMAIN cache' /\ cache'[m.nonce] >= m.stamp - Skew
    BY <1>1, <1>6
  <2>4. QED
    BY <1>9, <2>1, <2>2, <2>3 DEF SpentInv
<1>11. AcceptedOnce'
  <2>1. ~Stale(m)
    BY <1>1 DEF Stale
  <2>2. accepted[m] > 0 => m.nonce \in evicted
    BY <1>1, <2>1 DEF NonceInv, SpentInv
  <2>3. accepted[m] \in Nat /\ accepted'[m] = accepted[m] + 1
    BY <1>1, <1>2 DEF NonceInv, TypeOK
  <2>4. \A x \in Message : x # m => accepted'[x] = accepted[x]
    BY <1>1, <1>2 DEF NonceInv, TypeOK
  <2>5. accepted'[m] > 1 => m.nonce \in evicted'
    BY <1>6, <2>2, <2>3
  <2>6. QED
    BY <1>6, <2>4, <2>5 DEF NonceInv, AcceptedOnce
<1>12. QED
  BY <1>2, <1>7, <1>8, <1>10, <1>11, LeaveKeepsFlight DEF NonceInv

\* The invariant of the nonce cache and of the requests on their way to it.
THEOREM NonceInvariant == Spec => []NonceInv
<1>1. Init => NonceInv
  BY InitEstablishes
<1>2. NonceInv /\ UNCHANGED vars => NonceInv'
  BY DEF vars, NonceInv, TypeOK, FlightInv, QueueInv, SpentInv, Stale, AcceptedOnce
<1>3. NonceInv /\ [Next]_vars => NonceInv'
  BY <1>2, ArriveKeeps, RefusedKeeps, VerifyKeeps, AcceptKeeps, TickKeeps DEF Next
<1>4. QED
  BY <1>1, <1>3, PTL DEF Spec

\* Types are kept by every interleaving of requests and the clock.
THEOREM NonceTypeCorrect == Spec => []TypeOK
<1>1. NonceInv => TypeOK
  BY DEF NonceInv
<1>2. QED
  BY <1>1, NonceInvariant, PTL

\* NonceCache's map and queue agree and stay within MaxNonceCacheSize, so that its
\* eviction loop never indexes an empty queue.
THEOREM NonceQueueMatchesCache == Spec => []QueueMatchesCache
<1>1. NonceInv => QueueMatchesCache
  BY QueueCount DEF NonceInv, QueueInv, QueueMatchesCache
<1>2. QED
  BY <1>1, NonceInvariant, PTL

\* CheckAndStoreNonce lets a message through once unless its nonce was evicted: a
\* TTL of twice the skew and the read timeout is enough.
THEOREM NonceAcceptedOnce == Spec => []AcceptedOnce
<1>1. NonceInv => AcceptedOnce
  BY DEF NonceInv
<1>2. QED
  BY <1>1, NonceInvariant, PTL
=============================================================================
