---------------------------- MODULE Idempotency -----------------------------
(***************************************************************************)
(* internal/store/idempotency.go and internal/middleware/idempotency.go:   *)
(* a mutating request that carries an Idempotency-Key                      *)
(*   - looks its key up in the store                           (Get)       *)
(*   - runs the handler if the key is unknown                  (Handle)    *)
(*   - stores the handler's response under the key and answers (Store)     *)
(* The store's mutex is held within Get and within Store, not across them. *)
(*                                                                         *)
(* A hash stands for method, path and body.  A response is the number of   *)
(* the handler run that produced it and whether that run succeeded: two    *)
(* runs of one payload need not answer alike (201, then 409).              *)
(***************************************************************************)
EXTENDS Naturals, Sequences, FiniteSets

CONSTANTS
    Requests,    \* request goroutines
    Key,         \* idempotency keys
    Hash,        \* request hashes
    MaxKeys,     \* s.maxKeys
    TTL,         \* s.ttl
    None,        \* a goroutine without a request or a response
    MaxTime,     \* bound on the clock
    MaxArrivals  \* bound on the number of requests

ASSUME IdempotencyAssumption ==
    /\ MaxKeys \in Nat \ {0}
    /\ TTL \in Nat \ {0}
    /\ MaxTime \in Nat
    /\ MaxArrivals \in Nat

VARIABLES
    entries,   \* s.entries
    now,       \* s.nowFn()
    pc,        \* where each goroutine is
    req,       \* its key and hash, and when it looked the key up
    out,       \* the response the recorder holds
    arrivals,  \* requests so far
    runs,      \* history: key and hash of every handler run
    answers    \* history: every answer given

vars == <<entries, now, pc, req, out, arrivals, runs, answers>>

Payload == [key : Key, hash : Hash]
Request == [key : Key, hash : Hash, at : Nat]
Response == [run : Nat, ok : BOOLEAN]
Entry == [hash : Hash, response : Response, expiresAt : Nat]

Expired(k) == now > entries[k].expiresAt
Found(k) == k \in DOMAIN entries /\ ~Expired(k)

Init ==
    /\ entries = [k \in {} |-> None]
    /\ now = 0
    /\ pc = [r \in Requests |-> "idle"]
    /\ req = [r \in Requests |-> None]
    /\ out = [r \in Requests |-> None]
    /\ arrivals = 0
    /\ runs = <<>>
    /\ answers = {}

\* What is left of the store without the keys in K.
Without(K) == [k \in DOMAIN entries \ K |-> entries[k]]

\* Mutant of cleanupLocked: off by one.
cleanupEarly == Without({k \in DOMAIN entries : now >= entries[k].expiresAt})

\* cleanupLocked: all expired keys go.
cleanupLocked == Without({k \in DOMAIN entries : Expired(k)})

\* The answer to a request that was looked up at time q.at.
Answer(q, kind, response) ==
    answers' = answers \cup {[key |-> q.key, hash |-> q.hash, at |-> q.at,
                              kind |-> kind, response |-> response]}

\* Mutant of GetFound: the hashes are not compared.
GetFoundAny(q) ==
    /\ Found(q.key)
    /\ Answer(q, "replay", entries[q.key].response)
    /\ UNCHANGED <<entries, pc, req>>

\* What the middleware does with a key it finds: replay or conflict.
GetFound(q) ==
    /\ Found(q.key)
    /\ IF entries[q.key].hash = q.hash
       THEN Answer(q, "replay", entries[q.key].response)
       ELSE Answer(q, "conflict", None)
    /\ UNCHANGED <<entries, pc, req>>

\* An unknown key goes to the handler; an expired one is removed first.
GetMissing(r, q) ==
    /\ ~Found(q.key)
    /\ entries' = Without({q.key})
    /\ req' = [req EXCEPT ![r] = q]
    /\ pc' = [pc EXCEPT ![r] = "handle"]
    /\ UNCHANGED answers

\* The body cannot be read: a conflict, before the store is asked.
BodyUnread(q) ==
    /\ Answer(q, "conflict", None)
    /\ UNCHANGED <<entries, pc, req>>

\* A mutating request with a key reaches the middleware, which calls Get.
Get(r) ==
    /\ pc[r] = "idle"
    /\ arrivals < MaxArrivals
    /\ arrivals' = arrivals + 1
    /\ \E k \in Key, h \in Hash :
         LET q == [key |-> k, hash |-> h, at |-> now]
         IN  BodyUnread(q) \/ GetFound(q) \/ GetMissing(r, q)
    /\ UNCHANGED <<now, out, runs>>

\* Mutant of Handle: the response is not recorded.
HandleUnrecorded(r) ==
    /\ pc[r] = "handle"
    /\ runs' = Append(runs, [key |-> req[r].key, hash |-> req[r].hash])
    /\ pc' = [pc EXCEPT ![r] = "store"]
    /\ UNCHANGED <<entries, now, req, out, arrivals, answers>>

\* next.ServeHTTP: the handler runs, well or badly, into the recorder.
Handle(r) ==
    /\ pc[r] = "handle"
    /\ runs' = Append(runs, [key |-> req[r].key, hash |-> req[r].hash])
    /\ \E ok \in BOOLEAN : out' = [out EXCEPT ![r] = [run |-> Len(runs'), ok |-> ok]]
    /\ pc' = [pc EXCEPT ![r] = "store"]
    /\ UNCHANGED <<entries, now, req, arrivals, answers>>

(***************************************************************************)
(* Store after cleanupLocked.  A key somebody stored meanwhile is left     *)
(* alone, and is a conflict if its hash differs; a full store is an error  *)
(* the middleware ignores; else the response is stored.                    *)
(***************************************************************************)
StoreConflict(r, kept) ==
    /\ req[r].key \in DOMAIN kept
    /\ kept[req[r].key].hash # req[r].hash
    /\ entries' = kept
    /\ Answer(req[r], "conflict", None)

StoreSkips(r, kept) ==
    /\ \/ /\ req[r].key \in DOMAIN kept
          /\ kept[req[r].key].hash = req[r].hash
       \/ /\ req[r].key \notin DOMAIN kept
          /\ Cardinality(DOMAIN kept) >= MaxKeys
    /\ entries' = kept
    /\ Answer(req[r], "fresh", out[r])

\* Mutant of StoreNew: no limit.
StoreNewUnbounded(r, kept) ==
    /\ req[r].key \notin DOMAIN kept
    /\ entries' = [k \in DOMAIN kept \cup {req[r].key} |->
                     IF k = req[r].key
                     THEN [hash |-> req[r].hash, response |-> out[r], expiresAt |-> now + TTL]
                     ELSE kept[k]]
    /\ Answer(req[r], "fresh", out[r])

StoreNew(r, kept) ==
    /\ req[r].key \notin DOMAIN kept
    /\ Cardinality(DOMAIN kept) < MaxKeys
    /\ entries' = [k \in DOMAIN kept \cup {req[r].key} |->
                     IF k = req[r].key
                     THEN [hash |-> req[r].hash, response |-> out[r], expiresAt |-> now + TTL]
                     ELSE kept[k]]
    /\ Answer(req[r], "fresh", out[r])

Store(r) ==
    /\ pc[r] = "store"
    /\ \/ StoreConflict(r, cleanupLocked)
       \/ StoreSkips(r, cleanupLocked)
       \/ StoreNew(r, cleanupLocked)
    /\ pc' = [pc EXCEPT ![r] = "idle"]
    /\ req' = [req EXCEPT ![r] = None]
    /\ out' = [out EXCEPT ![r] = None]
    /\ UNCHANGED <<now, arrivals, runs>>

\* Cleanup, called by whoever runs StartCleanup; server.go does not run it, and the
\* store is cleaned by Store alone.
Cleanup ==
    /\ entries' = cleanupLocked
    /\ UNCHANGED <<now, pc, req, out, arrivals, runs, answers>>

Tick ==
    /\ now < MaxTime
    /\ now' = now + 1
    /\ UNCHANGED <<entries, pc, req, out, arrivals, runs, answers>>

Next ==
    \/ \E r \in Requests : Get(r) \/ Handle(r) \/ Store(r)
    \/ Cleanup
    \/ Tick

Spec == Init /\ [][Next]_vars
-----------------------------------------------------------------------------
TypeOK ==
    /\ DOMAIN entries \subseteq Key
    /\ \A k \in DOMAIN entries : entries[k] \in Entry
    /\ now \in Nat
    /\ pc \in [Requests -> {"idle", "handle", "store"}]
    /\ req \in [Requests -> Request \cup {None}]
    /\ out \in [Requests -> Response \cup {None}]
    /\ arrivals \in Nat
    /\ runs \in Seq(Payload)
    /\ \A a \in answers : a.key \in Key /\ a.hash \in Hash

\* The store never holds more than maxKeys keys, however many requests are
\* between Get and Store.
StoreBounded == Cardinality(DOMAIN entries) <= MaxKeys

\* A key, once stored, keeps its response until it expires: no cleanup and no
\* request in flight with the same key removes or replaces it, and neither does a
\* full store, which refuses the new key (ErrIdempotencyStoreFull, dropped by the
\* middleware) where the documents speak of an LRU cache that would evict an old one.
KeptUntilExpiry ==
    [][\A k \in DOMAIN entries :
         ~Expired(k) => k \in DOMAIN entries' /\ entries'[k] = entries[k]]_vars

\* A request is answered with the response of a handler run of its own key and
\* payload, never of another's, even after a key expired and was used again.
AnswersOwnRun ==
    \A a \in answers :
        a.kind # "conflict" => runs[a.response.run] = [key |-> a.key, hash |-> a.hash]

\* Same key and same payload: a retry within the TTL gets the original response,
\* the handler does not run a second time ("safe retry").
RetryGetsOriginal ==
    \A a, b \in answers :
        /\ a.kind = "fresh" /\ b.kind # "conflict"
        /\ a.key = b.key /\ a.hash = b.hash
        /\ a.at <= b.at /\ b.at <= a.at + TTL
        => a.response = b.response
=============================================================================
