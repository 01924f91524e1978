----------------------------- MODULE NonceCache -----------------------------
(***************************************************************************)
(* internal/auth/replay.go and authenticateRequest of internal/middleware/ *)
(* auth.go: a request is accepted if its timestamp is close to the clock,  *)
(* its signature is right and its nonce has not been used.                 *)
(*   - token, headers and timestamp are checked                (Arrive)    *)
(*   - the body is read and the signature verified, then the   (Verify)    *)
(*     clock is read, before the mutex is taken                            *)
(*   - the nonce is checked and stored under the mutex         (Nonce)     *)
(* A message is a nonce with the timestamp it was signed with; it may be   *)
(* delivered any number of times.  The process does not end: the cache is  *)
(* lost with it.                                                           *)
(***************************************************************************)
EXTENDS Integers, Sequences, FiniteSets, SequencesExt

CONSTANTS
    Requests,    \* request goroutines
    Nonces,      \* nonces
    MaxSize,     \* MaxNonceCacheSize
    TTL,         \* NonceCacheTTL
    Skew,        \* MaxTimestampSkew
    ReadTimeout, \* the server's bound on reading a request
    None,        \* no value
    MaxTime,     \* bound on the clock
    MaxArrivals  \* bound on the number of requests

ASSUME NonceCacheAssumption ==
    /\ MaxSize \in Nat \ {0}
    /\ Skew \in Nat
    /\ ReadTimeout \in Nat
    /\ TTL \in Nat /\ TTL >= 2 * Skew + ReadTimeout
    /\ MaxTime \in Nat
    /\ MaxArrivals \in Nat

VARIABLES
    cache,     \* nc.cache: nonce -> time
    queue,     \* nc.queue
    clock,     \* time.Now()
    pc,        \* where each goroutine is
    msg,       \* its message
    arrived,   \* when it passed the timestamp check
    at,        \* the now of CheckAndStoreNonce
    arrivals,  \* requests so far
    accepted,  \* history: how often each message was accepted
    evicted    \* history: the nonces that left the cache before their TTL

vars == <<cache, queue, clock, pc, msg, arrived, at, arrivals, accepted, evicted>>
cacheVars == <<cache, queue, evicted>>

Message == [nonce : Nonces, stamp : 0..MaxTime]

Init ==
    /\ cache = [n \in {} |-> 0]
    /\ queue = <<>>
    /\ clock = 0
    /\ pc = [r \in Requests |-> "idle"]
    /\ msg = [r \in Requests |-> None]
    /\ arrived = [r \in Requests |-> None]
    /\ at = [r \in Requests |-> None]
    /\ arrivals = 0
    /\ accepted = [m \in Message |-> 0]
    /\ evicted = {}

\* CheckTimestampSkew.
SkewOK(stamp) == clock - stamp <= Skew /\ stamp - clock <= Skew

\* The checks up to the timestamp.  A request that fails one is answered 401 and
\* leaves no trace.
Arrive(r) ==
    /\ pc[r] = "idle"
    /\ arrivals < MaxArrivals
    /\ arrivals' = arrivals + 1
    /\ \E m \in Message :
         /\ SkewOK(m.stamp)
         /\ msg' = [msg EXCEPT ![r] = m]
    /\ arrived' = [arrived EXCEPT ![r] = clock]
    /\ pc' = [pc EXCEPT ![r] = "verify"]
    /\ UNCHANGED <<cacheVars, clock, at, accepted>>

\* The request is answered.
Leave(r) ==
    /\ pc' = [pc EXCEPT ![r] = "idle"]
    /\ msg' = [msg EXCEPT ![r] = None]
    /\ arrived' = [arrived EXCEPT ![r] = None]
    /\ at' = [at EXCEPT ![r] = None]

\* A body that cannot be read or a wrong signature: 401, the nonce is not stored.
Unsigned(r) ==
    /\ pc[r] = "verify"
    /\ Leave(r)
    /\ UNCHANGED <<cacheVars, clock, arrivals, accepted>>

\* The signature is right; CheckAndStoreNonce reads the clock.
Verify(r) ==
    /\ pc[r] = "verify"
    /\ at' = [at EXCEPT ![r] = clock]
    /\ pc' = [pc EXCEPT ![r] = "nonce"]
    /\ UNCHANGED <<cacheVars, clock, msg, arrived, arrivals, accepted>>

\* Mutant of cleanup: off by one at the TTL.
cleanupEarly(now) ==
    Cardinality({i \in DOMAIN queue :
        \A j \in 1..i : queue[j] \in DOMAIN cache /\ now - cache[queue[j]] >= TTL})

\* cleanup(now): how many entries at the head of the queue are expired.
cleanup(now) ==
    Cardinality({i \in DOMAIN queue :
        \A j \in 1..i : queue[j] \in DOMAIN cache /\ now - cache[queue[j]] > TTL})

\* Mutant of evict: off by one, the new entry is not counted.
evictLate(n) ==
    LET left == Cardinality(DOMAIN cache) - n
    IN  IF left > MaxSize THEN n + left - MaxSize ELSE n

\* Eviction at capacity: how many entries go so that one more fits.
evict(n) ==
    LET left == Cardinality(DOMAIN cache) - n
    IN  IF left >= MaxSize THEN n + left - MaxSize + 1 ELSE n

\* The first n entries of the queue leave, and nonce is stored with time now.
StoreNonce(n, nonce, now) ==
    LET gone == ToSet(SubSeq(queue, 1, n))
    IN  /\ queue' = Append(SubSeq(queue, n + 1, Len(queue)), nonce)
        /\ cache' = [k \in (DOMAIN cache \ gone) \cup {nonce} |->
                       IF k = nonce THEN now ELSE cache[k]]
        /\ evicted' = evicted \cup ToSet(SubSeq(queue, cleanup(now) + 1, n))

\* CheckAndStoreNonce under the mutex: a used nonce is refused ...
Replayed(r) ==
    /\ pc[r] = "nonce"
    /\ msg[r].nonce \in DOMAIN cache
    /\ Leave(r)
    /\ UNCHANGED <<cacheVars, clock, arrivals, accepted>>

\* ... a new one is stored and the request accepted.
Accept(r) ==
    /\ pc[r] = "nonce"
    /\ msg[r].nonce \notin DOMAIN cache
    /\ StoreNonce(evict(cleanup(at[r])), msg[r].nonce, at[r])
    /\ accepted' = [accepted EXCEPT ![msg[r]] = @ + 1]
    /\ Leave(r)
    /\ UNCHANGED <<clock, arrivals>>

\* Time passes; the server drops a connection it reads from for too long.  The bound
\* is put on the whole request: what follows the body takes no time worth counting.
Tick ==
    /\ clock < MaxTime
    /\ \A r \in Requests : pc[r] # "idle" => clock < arrived[r] + ReadTimeout
    /\ clock' = clock + 1
    /\ UNCHANGED <<cacheVars, pc, msg, arrived, at, arrivals, accepted>>

Next ==
    \/ \E r \in Requests : Arrive(r) \/ Unsigned(r) \/ Verify(r) \/ Replayed(r) \/ Accept(r)
    \/ Tick

Spec == Init /\ [][Next]_vars
-----------------------------------------------------------------------------
TypeOK ==
    /\ DOMAIN cache \subseteq Nonces
    /\ \A n \in DOMAIN cache : cache[n] \in Nat
    /\ queue \in Seq(Nonces)
    /\ clock \in Nat
    /\ pc \in [Requests -> {"idle", "verify", "nonce"}]
    /\ msg \in [Requests -> Message \cup {None}]
    /\ arrived \in [Requests -> Nat \cup {None}]
    /\ at \in [Requests -> Nat \cup {None}]
    /\ arrivals \in Nat
    /\ accepted \in [Message -> Nat]
    /\ evicted \subseteq Nonces

\* The map and the queue hold the same nonces, each once, and at most MaxSize:
\* the eviction loop always finds the entry it removes, although the times in the
\* queue need not be in order.
QueueMatchesCache ==
    /\ ToSet(queue) = DOMAIN cache
    /\ Len(queue) = Cardinality(DOMAIN cache)
    /\ Len(queue) <= MaxSize

\* A message is accepted at most once, unless its nonce was evicted to make room:
\* a nonce expires only after its timestamp has become too old, also for a delivery
\* that passed the timestamp check long before and for clocks read out of order.
AcceptedOnce == \A m \in Message : accepted[m] > 1 => m.nonce \in evicted
=============================================================================
