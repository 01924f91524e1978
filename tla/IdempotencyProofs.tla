------------------------- MODULE IdempotencyProofs --------------------------
(***************************************************************************)
(* Proofs about Idempotency, for any number of requests, keys, payloads    *)
(* and any limit and TTL.  A response in the store, in a recorder or in an *)
(* answer belongs to the handler run it names (OwnerInv); runs are only    *)
(* ever appended, so it keeps belonging to it.  The limit needs that the   *)
(* set of keys is finite, which it is because keys are added one at a time.*)
(***************************************************************************)
EXTENDS Idempotency, FiniteSetTheorems, TLAPS

\* The response came from a run of this key and payload.
Owns(response, key, hash) ==
    /\ response \in Response
    /\ response.run \in 1..Len(runs)
    /\ runs[response.run] = [key |-> key, hash |-> hash]

OwnerInv ==
    /\ \A k \in DOMAIN entries : Owns(entries[k].response, k, entries[k].hash)
    /\ \A r \in Requests : pc[r] # "idle" => req[r] \in Request
    /\ \A r \in Requests : pc[r] = "store" => Owns(out[r], req[r].key, req[r].hash)
    /\ \A a \in answers : a.kind # "conflict" => Owns(a.response, a.key, a.hash)

FullInv == IsFiniteSet(DOMAIN entries) /\ StoreBounded

IdempotencyInv == TypeOK /\ OwnerInv /\ FullInv
-----------------------------------------------------------------------------
USE IdempotencyAssumption

\* A response keeps belonging to its run when another run is appended.
LEMMA OwnsKept ==
    ASSUME runs \in Seq(Payload), NEW p \in Payload, runs' = Append(runs, p),
           NEW x, NEW k, NEW h, Owns(x, k, h)
    PROVE  Owns(x, k, h)'
BY DEF Owns, Response

\* A store without some of its keys has the properties the store has.
LEMMA WithoutKeeps ==
    ASSUME IdempotencyInv, NEW K
    PROVE  /\ DOMAIN Without(K) = DOMAIN entries \ K
           /\ \A k \in DOMAIN Without(K) : Without(K)[k] = entries[k]
           /\ IsFiniteSet(DOMAIN Without(K))
           /\ Cardinality(DOMAIN Without(K)) <= MaxKeys
           /\ Cardinality(DOMAIN Without(K)) \in Nat
<1>1. DOMAIN Without(K) = DOMAIN entries \ K
  BY DEF Without
<1>2. IsFiniteSet(DOMAIN entries) /\ Cardinality(DOMAIN entries) <= MaxKeys
  BY DEF IdempotencyInv, FullInv, StoreBounded
<1>3. /\ IsFiniteSet(DOMAIN entries \ K)
      /\ Cardinality(DOMAIN entries \ K) <= Cardinality(DOMAIN entries)
  BY <1>2, FS_Subset
<1>4. Cardinality(DOMAIN entries) \in Nat /\ Cardinality(DOMAIN entries \ K) \in Nat
  BY <1>2, <1>3, FS_CardinalityType
<1>5. Cardinality(DOMAIN entries \ K) <= MaxKeys
  BY <1>2, <1>3, <1>4
<1>6. QED
  BY <1>1, <1>3, <1>4, <1>5 DEF Without

\* The empty store satisfies the invariant.
LEMMA InitEstablishes == ASSUME Init PROVE IdempotencyInv
<1>1. DOMAIN entries = {}
  BY DEF Init
<1>2. FullInv
  BY <1>1, FS_EmptySet DEF FullInv, StoreBounded
<1>3. TypeOK
  BY DEF Init, TypeOK
<1>4. OwnerInv
  BY <1>1 DEF Init, OwnerInv
<1>5. QED
  BY <1>2, <1>3, <1>4 DEF IdempotencyInv

\* A lookup answers with a stored response of the same key and payload, or sends
\* the request on.
LEMMA GetKeeps == ASSUME IdempotencyInv, NEW r \in Requests, Get(r) PROVE IdempotencyInv'
<1>1. PICK k \in Key, h \in Hash :
         LET q == [key |-> k, hash |-> h, at |-> now]
         IN  BodyUnread(q) \/ GetFound(q) \/ GetMissing(r, q)
  BY DEF Get
<1> DEFINE q == [key |-> k, hash |-> h, at |-> now]
<1>2. q \in Request /\ q.key = k /\ q.hash = h /\ now' = now /\ out' = out /\ runs' = runs
  BY DEF Get, IdempotencyInv, TypeOK, Request
<1>3. arrivals' \in Nat
  BY DEF Get, IdempotencyInv, TypeOK
<1>4. ASSUME NEW x, NEW j, NEW g PROVE Owns(x, j, g)' = Owns(x, j, g)
  BY <1>2 DEF Owns
<1> HIDE DEF q
<1>5. CASE GetFound(q)
  <2>1. /\ entries' = entries /\ pc' = pc /\ req' = req
        /\ entries[k].hash = h =>
             answers' = answers \cup {[key |-> k, hash |-> h, at |-> q.at,
                                       kind |-> "replay", response |-> entries[k].response]}
        /\ entries[k].hash # h =>
             answers' = answers \cup {[key |-> k, hash |-> h, at |-> q.at,
                                       kind |-> "conflict", response |-> None]}
        /\ k \in DOMAIN entries
    BY <1>2, <1>5 DEF GetFound, Answer, Found
  <2>2. Owns(entries[k].response, k, entries[k].hash)
    BY <2>1 DEF IdempotencyInv, OwnerInv
  <2>3. \A a \in answers' : a.kind # "conflict" => Owns(a.response, a.key, a.hash)
    BY <2>1, <2>2 DEF IdempotencyInv, OwnerInv
  <2>4. OwnerInv'
    BY <1>2, <1>4, <2>1, <2>3 DEF IdempotencyInv, OwnerInv
  <2>5. TypeOK'
    BY <1>2, <1>3, <2>1 DEF IdempotencyInv, TypeOK
  <2>6. FullInv'
    BY <2>1 DEF IdempotencyInv, FullInv, StoreBounded
  <2>7. QED
    BY <2>4, <2>5, <2>6 DEF IdempotencyInv
<1>6. CASE GetMissing(r, q)
  <2>1. /\ entries' = Without({q.key}) /\ answers' = answers
        /\ req' = [req EXCEPT ![r] = q] /\ pc' = [pc EXCEPT ![r] = "handle"]
    BY <1>6 DEF GetMissing
  <2>2. /\ DOMAIN entries' \subseteq DOMAIN entries
        /\ \A j \in DOMAIN entries' : entries'[j] = entries[j]
        /\ IsFiniteSet(DOMAIN entries')
        /\ Cardinality(DOMAIN entries') <= MaxKeys
    BY <2>1, WithoutKeeps
  <2>3. FullInv'
    BY <2>2 DEF FullInv, StoreBounded
  <2>4. TypeOK'
    BY <1>2, <1>3, <2>1, <2>2 DEF IdempotencyInv, TypeOK
  <2>5. OwnerInv'
    BY <1>2, <1>4, <2>1, <2>2 DEF IdempotencyInv, OwnerInv, TypeOK
  <2>6. QED
    BY <2>3, <2>4, <2>5 DEF IdempotencyInv
<1>7. CASE BodyUnread(q)
  <2>1. /\ entries' = entries /\ pc' = pc /\ req' = req
        /\ answers' = answers \cup {[key |-> k, hash |-> h, at |-> q.at,
                                     kind |-> "conflict", response |-> None]}
    BY <1>2, <1>7 DEF BodyUnread, Answer
  <2>2. \A a \in answers' : a.kind # "conflict" => Owns(a.response, a.key, a.hash)
    BY <2>1 DEF IdempotencyInv, OwnerInv
  <2>3. OwnerInv'
    BY <1>2, <1>4, <2>1, <2>2 DEF IdempotencyInv, OwnerInv
  <2>4. TypeOK'
    BY <1>2, <1>3, <2>1 DEF IdempotencyInv, TypeOK
  <2>5. FullInv'
    BY <2>1 DEF IdempotencyInv, FullInv, StoreBounded
  <2>6. QED
    BY <2>3, <2>4, <2>5 DEF IdempotencyInv
<1>8. QED
  BY <1>1, <1>5, <1>6, <1>7 DEF q

\* A handler run is recorded as the run of its own request.
LEMMA HandleKeeps == ASSUME IdempotencyInv, NEW r \in Requests, Handle(r) PROVE IdempotencyInv'
<1> DEFINE p == [key |-> req[r].key, hash |-> req[r].hash]
<1>1. req[r] \in Request /\ runs \in Seq(Payload)
  BY DEF Handle, IdempotencyInv, OwnerInv, TypeOK
<1>2. p \in Payload /\ runs' = Append(runs, p)
  BY <1>1 DEF Handle, Request, Payload
<1>3. PICK ok \in BOOLEAN : out' = [out EXCEPT ![r] = [run |-> Len(runs'), ok |-> ok]]
  BY DEF Handle
<1>4. /\ runs' \in Seq(Payload) /\ Len(runs') = Len(runs) + 1 /\ Len(runs) \in Nat
      /\ runs'[Len(runs')] = p
  BY <1>1, <1>2
<1>5. /\ UNCHANGED <<entries, now, req, arrivals, answers>>
      /\ pc' = [pc EXCEPT ![r] = "store"]
  BY DEF Handle
<1>6. [run |-> Len(runs'), ok |-> ok] \in Response
  BY <1>4 DEF Response
<1>7. TypeOK'
  BY <1>3, <1>4, <1>5, <1>6 DEF IdempotencyInv, TypeOK
<1>8. ASSUME NEW x, NEW k, NEW h, Owns(x, k, h) PROVE Owns(x, k, h)'
  BY <1>1, <1>2, <1>8, OwnsKept
<1>9. Owns(out[r], req[r].key, req[r].hash)'
  <2>1. out'[r] = [run |-> Len(runs'), ok |-> ok]
    BY <1>3 DEF IdempotencyInv, TypeOK
  <2>2. QED
    BY <1>4, <1>5, <1>6, <2>1 DEF Owns
<1>10. \A s \in Requests : s # r => out'[s] = out[s] /\ pc'[s] = pc[s]
  BY <1>3, <1>5 DEF IdempotencyInv, TypeOK
<1>11. OwnerInv'
  <2>1. \A k \in DOMAIN entries' : Owns(entries[k].response, k, entries[k].hash)'
    BY <1>5, <1>8 DEF IdempotencyInv, OwnerInv
  <2>2. \A s \in Requests : pc'[s] # "idle" => req'[s] \in Request
    BY <1>1, <1>5, <1>10 DEF IdempotencyInv, OwnerInv
  <2>3. \A s \in Requests : pc'[s] = "store" => Owns(out[s], req[s].key, req[s].hash)'
    BY <1>5, <1>8, <1>9, <1>10 DEF IdempotencyInv, OwnerInv
  <2>4. \A a \in answers' : a.kind # "conflict" => Owns(a.response, a.key, a.hash)'
    BY <1>5, <1>8 DEF IdempotencyInv, OwnerInv
  <2>5. QED
    BY <2>1, <2>2, <2>3, <2>4 DEF OwnerInv
<1>12. FullInv'
  BY <1>5 DEF IdempotencyInv, FullInv, StoreBounded
<1>13. QED
  BY <1>7, <1>11, <1>12 DEF IdempotencyInv

\* What Store does with the cleaned store, case by case.
LEMMA StoreKeeps == ASSUME IdempotencyInv, NEW r \in Requests, Store(r) PROVE IdempotencyInv'
<1> DEFINE kept == cleanupLocked
           q == req[r]
<1>1. q \in Request /\ q.key \in Key /\ q.hash \in Hash /\ Owns(out[r], q.key, q.hash)
  BY DEF Store, IdempotencyInv, OwnerInv, Request
<1>2. /\ DOMAIN kept \subseteq DOMAIN entries
      /\ \A k \in DOMAIN kept : kept[k] = entries[k]
      /\ IsFiniteSet(DOMAIN kept)
      /\ Cardinality(DOMAIN kept) <= MaxKeys
      /\ Cardinality(DOMAIN kept) \in Nat
  BY WithoutKeeps DEF cleanupLocked
<1>3. /\ pc' = [pc EXCEPT ![r] = "idle"] /\ req' = [req EXCEPT ![r] = None]
      /\ out' = [out EXCEPT ![r] = None] /\ UNCHANGED <<now, arrivals, runs>>
      /\ StoreConflict(r, kept) \/ StoreSkips(r, kept) \/ StoreNew(r, kept)
  BY DEF Store
<1> HIDE DEF kept
<1>4. ASSUME NEW x, NEW j, NEW g PROVE Owns(x, j, g)' = Owns(x, j, g)
  BY <1>3 DEF Owns
<1>5. \/ entries' = kept
      \/ /\ DOMAIN entries' = DOMAIN kept \cup {q.key}
         /\ q.key \notin DOMAIN kept /\ Cardinality(DOMAIN kept) < MaxKeys
         /\ \A k \in DOMAIN kept : entries'[k] = kept[k]
         /\ entries'[q.key] = [hash |-> q.hash, response |-> out[r], expiresAt |-> now + TTL]
  BY <1>3 DEF StoreConflict, StoreSkips, StoreNew
<1>6. \A a \in answers' :
         \/ a \in answers
         \/ /\ a.key = q.key /\ a.hash = q.hash
            /\ a.kind # "conflict" => a.response = out[r]
  BY <1>3 DEF StoreConflict, StoreSkips, StoreNew, Answer
<1>7. \A k \in DOMAIN entries' :
         /\ k \in Key
         /\ entries'[k] \in Entry
         /\ Owns(entries'[k].response, k, entries'[k].hash)
  <2>1. ASSUME NEW k \in DOMAIN kept
        PROVE  k \in Key /\ kept[k] \in Entry /\ Owns(kept[k].response, k, kept[k].hash)
    BY <1>2, <2>1 DEF IdempotencyInv, TypeOK, OwnerInv
  <2>2. CASE entries' = kept
    BY <2>1, <2>2
  <2>3. CASE entries' # kept
    <3>1. [hash |-> q.hash, response |-> out[r], expiresAt |-> now + TTL] \in Entry
      BY <1>1 DEF Entry, Owns, IdempotencyInv, TypeOK
    <3>2. QED
      BY <1>1, <1>5, <2>1, <2>3, <3>1
  <2>4. QED
    BY <2>2, <2>3
<1>8. FullInv'
  <2>1. CASE entries' = kept
    BY <1>2, <2>1 DEF FullInv, StoreBounded
  <2>2. CASE entries' # kept
    <3>1. /\ IsFiniteSet(DOMAIN kept \cup {q.key})
          /\ Cardinality(DOMAIN kept \cup {q.key}) = Cardinality(DOMAIN kept) + 1
      BY <1>2, <1>5, <2>2, FS_AddElement
    <3>2. DOMAIN entries' = DOMAIN kept \cup {q.key} /\ Cardinality(DOMAIN kept) + 1 <= MaxKeys
      BY <1>2, <1>5, <2>2
    <3>3. QED
      BY <3>1, <3>2 DEF FullInv, StoreBounded
  <2>3. QED
    BY <2>1, <2>2
<1>9. TypeOK'
  <2>1. \A a \in answers' : a.key \in Key /\ a.hash \in Hash
    BY <1>1, <1>6 DEF IdempotencyInv, TypeOK
  <2>2. /\ pc' \in [Requests -> {"idle", "handle", "store"}]
        /\ req' \in [Requests -> Request \cup {None}]
        /\ out' \in [Requests -> Response \cup {None}]
    BY <1>3 DEF IdempotencyInv, TypeOK
  <2>3. QED
    BY <1>3, <1>7, <2>1, <2>2 DEF IdempotencyInv, TypeOK
<1>10. OwnerInv'
  <2>1. \A s \in Requests : pc'[s] # "idle" => s # r /\ pc'[s] = pc[s] /\ req'[s] = req[s] /\ out'[s] = out[s]
    BY <1>3 DEF IdempotencyInv, TypeOK
  <2>2. \A a \in answers' : a.kind # "conflict" => Owns(a.response, a.key, a.hash)
    BY <1>1, <1>6 DEF IdempotencyInv, OwnerInv
  <2>3. \A s \in Requests :
           /\ pc'[s] # "idle" => req'[s] \in Request
           /\ pc'[s] = "store" => Owns(out'[s], req'[s].key, req'[s].hash)
    BY <2>1 DEF IdempotencyInv, OwnerInv
  <2>4. QED
    BY <1>4, <1>7, <2>2, <2>3 DEF OwnerInv
<1>11. QED
  BY <1>8, <1>9, <1>10 DEF IdempotencyInv

\* Expired keys go, or time passes.
LEMMA CleanupKeeps == ASSUME IdempotencyInv, Cleanup PROVE IdempotencyInv'
<1>1. /\ DOMAIN entries' \subseteq DOMAIN entries
      /\ \A k \in DOMAIN entries' : entries'[k] = entries[k]
      /\ IsFiniteSet(DOMAIN entries')
      /\ Cardinality(DOMAIN entries') <= MaxKeys
  BY WithoutKeeps DEF Cleanup, cleanupLocked
<1>2. UNCHANGED <<now, pc, req, out, arrivals, runs, answers>>
  BY DEF Cleanup
<1>3. TypeOK'
  BY <1>1, <1>2 DEF IdempotencyInv, TypeOK
<1>4. OwnerInv'
  BY <1>1, <1>2 DEF IdempotencyInv, OwnerInv, Owns
<1>5. FullInv'
  BY <1>1 DEF FullInv, StoreBounded
<1>6. QED
  BY <1>3, <1>4, <1>5 DEF IdempotencyInv

\* Time passing takes no response out of the store and gives none to another run.
LEMMA TickKeeps == ASSUME IdempotencyInv, Tick \/ UNCHANGED vars PROVE IdempotencyInv'
<1>1. UNCHANGED <<entries, pc, req, out, arrivals, runs, answers>> /\ now' \in Nat
  BY DEF Tick, vars, IdempotencyInv, TypeOK
<1>2. TypeOK'
  BY <1>1 DEF IdempotencyInv, TypeOK
<1>3. OwnerInv'
  BY <1>1 DEF IdempotencyInv, OwnerInv, Owns
<1>4. FullInv'
  BY <1>1 DEF IdempotencyInv, FullInv, StoreBounded
<1>5. QED
  BY <1>2, <1>3, <1>4 DEF IdempotencyInv

\* The invariant of the store and the middleware.
THEOREM StoreInvariant == Spec => []IdempotencyInv
<1>1. Init => IdempotencyInv
  BY InitEstablishes
<1>2. IdempotencyInv /\ [Next]_vars => IdempotencyInv'
  BY GetKeeps, HandleKeeps, StoreKeeps, CleanupKeeps, TickKeeps DEF Next
<1>3. QED
  BY <1>1, <1>2, PTL DEF Spec

\* Types are kept by every interleaving of requests, cleanups and the clock.
THEOREM StoreTypeCorrect == Spec => []TypeOK
<1>1. IdempotencyInv => TypeOK
  BY DEF IdempotencyInv
<1>2. QED
  BY <1>1, StoreInvariant, PTL

\* IdempotencyStore never holds more than maxKeys keys, although Store checks the
\* limit long after Get.
THEOREM StoreNeverOverfull == Spec => []StoreBounded
<1>1. IdempotencyInv => StoreBounded
  BY DEF IdempotencyInv, FullInv
<1>2. QED
  BY <1>1, StoreInvariant, PTL

\* The middleware answers a request with a response of its own key and payload.
THEOREM MiddlewareAnswersOwnRun == Spec => []AnswersOwnRun
<1>1. IdempotencyInv => AnswersOwnRun
  BY DEF IdempotencyInv, OwnerInv, Owns, AnswersOwnRun
<1>2. QED
  BY <1>1, StoreInvariant, PTL

\* A stored response stays until it expires: Get removes only an expired key,
\* cleanupLocked only expired ones, and Store never replaces one.
THEOREM StoreKeepsUntilExpiry == Spec => KeptUntilExpiry
<1> DEFINE Kept == \A k \in DOMAIN entries :
                     ~Expired(k) => k \in DOMAIN entries' /\ entries'[k] = entries[k]
<1>1. ASSUME NEW r \in Requests, Get(r) PROVE Kept
  BY <1>1 DEF Get, BodyUnread, GetFound, GetMissing, Found, Without
<1>2. ASSUME NEW r \in Requests, Store(r) PROVE Kept
  <2>1. \A k \in DOMAIN entries :
           ~Expired(k) => k \in DOMAIN cleanupLocked /\ cleanupLocked[k] = entries[k]
    BY DEF cleanupLocked, Without
  <2>2. \A k \in DOMAIN cleanupLocked : k \in DOMAIN entries' /\ entries'[k] = cleanupLocked[k]
    BY <1>2 DEF Store, StoreConflict, StoreSkips, StoreNew
  <2>3. QED
    BY <2>1, <2>2
<1>3. ASSUME Cleanup PROVE Kept
  BY <1>3 DEF Cleanup, cleanupLocked, Without
<1>4. ASSUME NEW r \in Requests, Handle(r) PROVE Kept
  BY <1>4 DEF Handle
<1>5. ASSUME Tick PROVE Kept
  BY <1>5 DEF Tick
<1>6. [Next]_vars => [Kept]_vars
  BY <1>1, <1>2, <1>3, <1>4, <1>5 DEF Next
<1>7. QED
  BY <1>6, PTL DEF Spec, KeptUntilExpiry
=============================================================================
