---------------------------- MODULE RestHandlers ----------------------------
(***************************************************************************)
(* internal/handlers: the endpoints for inbounds, users and subscriptions. *)
(* A handler first reads the configuration to find out whether what the    *)
(* request is about exists (one or two reads, each under the lock only for *)
(* itself), then calls the sing-box client, which looks again under its    *)
(* lock and edits.  Between these steps other requests run, and a rollback *)
(* may bring an earlier document back.                                     *)
(*                                                                         *)
(* A client call is one step here: ConfigClient implements ConfigStore.    *)
(* The subscription handler keeps the records it generated, by SubID, in a *)
(* map that is never emptied and holds at most MaxRecords.                 *)
(***************************************************************************)
EXTENDS ConfigData

CONSTANTS
    Handlers,     \* request goroutines
    Ask,          \* the requests clients may send
    Installed,    \* the documents the agent may find when it starts
    Generated,    \* a uuid no request gives: uuid.New()
    MaxRecords,   \* maxSubscriptionCacheEntries
    MaxRequests,  \* bound on the number of requests
    MaxReverts,   \* bound on rollbacks
    MaxFaults     \* bound on failing reads and writes of the file

InboundOp == {"GetInbound", "CreateInbound", "UpdateInbound", "DeleteInbound"}
UserOp == {"GetUser", "CreateUser", "UpdateUser", "DeleteUser"}
SubscriptionOp == {"GenerateSubscription", "GetSubscription"}

Requests ==
    [op : InboundOp, tag : STRING, attr : STRING]
    \cup [op : UserOp, tag : STRING, sub : STRING, uuid : STRING \cup {""}]
    \cup [op : SubscriptionOp, sub : STRING, tag : STRING, format : {"sing-box", "v2ray"}]

Record ==
    [sub : STRING, tag : STRING, format : {"sing-box", "v2ray"}, uuid : STRING,
     attr : STRING \cup {Absent}]

(***************************************************************************)
(* sing-box refuses two inbounds with one tag, so no installed document    *)
(* has them.                                                               *)
(***************************************************************************)
UniqueTags(d) ==
    \A i, j \in DOMAIN d.inbounds : d.inbounds[i].tag = d.inbounds[j].tag => i = j

ASSUME RestHandlersAssumption ==
    /\ {MaxRecords, MaxRequests, MaxReverts, MaxFaults} \subseteq Nat
    /\ \A d \in Installed : d \in Document /\ UniqueTags(d)
    /\ Ask \subseteq Requests
    /\ Generated \in STRING

VARIABLES
    doc,       \* the configuration
    held,      \* history: the documents it has been
    hpc,       \* where each goroutine is
    req,       \* its request
    seen,      \* the document its GetInbounds read
    record,    \* the subscription record it has built
    resp,      \* its answer: [code, body]
    store,     \* SubscriptionHandler.store: SubID -> record
    requests, reverts, faults,
    during,    \* history: the documents there were during a request
    failed     \* history: the requests that met a failing read or write

configVars == <<doc, held>>
localVars == <<req, seen, record>>
boundVars == <<requests, reverts, faults>>
vars == <<configVars, hpc, localVars, resp, store, boundVars, during, failed>>

HasInbound(d, q) == findInboundIndex(d, q.tag) # 0

\* The first user in the file whom the request is about, or 0.
findUser(d, q) ==
    LET Asked(u) == u.sub = q.sub /\ u.tag = q.tag IN SelectInSeq(GetUsers(d), Asked)
-----------------------------------------------------------------------------
Init ==
    /\ doc \in Installed
    /\ held = {}
    /\ hpc = [r \in Handlers |-> "idle"]
    /\ req = [r \in Handlers |-> Absent]
    /\ seen = [r \in Handlers |-> Absent]
    /\ record = [r \in Handlers |-> Absent]
    /\ resp = [r \in Handlers |-> Absent]
    /\ store = [s \in {} |-> Absent]
    /\ requests = 0
    /\ reverts = 0
    /\ faults = 0
    /\ during = [r \in Handlers |-> {}]
    /\ failed = {}

Goto(r, pc) == hpc' = [hpc EXCEPT ![r] = pc]

\* The answer is written and the handler returns.
Answer(r, code, body) ==
    /\ Goto(r, "idle")
    /\ resp' = [resp EXCEPT ![r] = [code |-> code, body |-> body]]

Fault(r) ==
    /\ faults < MaxFaults
    /\ faults' = faults + 1
    /\ failed' = failed \cup {r}

NoFault == UNCHANGED <<faults, failed>>

\* buildLegacySubscriptionConfig: a v2ray or clash link from the request alone.
\* The SubID goes where the uuid belongs.
LegacyRecord(q) == [sub |-> q.sub, tag |-> q.tag, format |-> q.format, uuid |-> q.sub, attr |-> Absent]

\* A request arrives.
Arrive(r) ==
    /\ hpc[r] = "idle"
    /\ requests < MaxRequests
    /\ requests' = requests + 1
    /\ \E q \in Ask :
         /\ req' = [req EXCEPT ![r] = q]
         /\ CASE q.op = "GetSubscription" -> Goto(r, "lookup") /\ record' = [record EXCEPT ![r] = Absent]
              [] q.op = "GenerateSubscription" /\ q.format = "v2ray" ->
                   Goto(r, "store") /\ record' = [record EXCEPT ![r] = LegacyRecord(q)]
              [] OTHER -> Goto(r, "inbounds") /\ record' = [record EXCEPT ![r] = Absent]
    /\ seen' = [seen EXCEPT ![r] = Absent]
    /\ resp' = [resp EXCEPT ![r] = Absent]
    /\ during' = [during EXCEPT ![r] = {doc}]
    /\ failed' = failed \ {r}
    /\ UNCHANGED <<configVars, store, reverts, faults>>

\* A body or a parameter that does not decode or validate; a server address, port
\* or format no record can be built for.
Invalid(r) ==
    /\ \/ hpc[r] \in {"inbounds", "store"}
       \/ hpc[r] \in {"users", "call"} /\ req[r].op \in {"CreateUser", "UpdateUser"}
    /\ Answer(r, "INVALID_REQUEST", Absent)
    /\ UNCHANGED <<configVars, localVars, store, boundVars, during, failed>>

\* What a handler does with the inbounds it read.
AfterInbounds(r, q) ==
    LET there == HasInbound(doc, q)
        second == q.op \in {"GetUser", "DeleteUser"} \/ (q.op = "UpdateUser" /\ q.uuid = "")
    IN  \/ /\ q.op = "CreateInbound" /\ there
           /\ Answer(r, "INBOUND_EXISTS", Absent)
        \/ /\ q.op \notin SubscriptionOp \cup {"CreateInbound"} /\ ~there
           /\ Answer(r, "INBOUND_NOT_FOUND", Absent)
        \/ /\ q.op = "GetInbound" /\ there
           /\ Answer(r, "OK", doc.inbounds[findInboundIndex(doc, q.tag)])
        \/ /\ \/ q.op = "CreateInbound" /\ ~there
              \/ q.op \in {"UpdateInbound", "DeleteInbound"} \cup UserOp /\ there
              \/ q.op \in SubscriptionOp
           /\ Goto(r, IF second \/ q.op \in SubscriptionOp THEN "users" ELSE "call")
           /\ UNCHANGED resp

\* GetInbounds: the existence check of the inbound and user handlers, the first
\* read of resolveTarget.  inboundExists takes a failing read for "no".
ReadInbounds(r) ==
    /\ hpc[r] = "inbounds"
    /\ \/ /\ NoFault
          /\ AfterInbounds(r, req[r])
          /\ seen' = [seen EXCEPT ![r] = doc]
       \/ /\ Fault(r)
          /\ Answer(r, CASE req[r].op \in InboundOp -> "INTERNAL_ERROR"
                         [] req[r].op \in UserOp -> "INBOUND_NOT_FOUND"
                         [] OTHER -> "USER_NOT_FOUND", Absent)
          /\ UNCHANGED seen
    /\ UNCHANGED <<configVars, req, record, store, requests, reverts, during>>

\* Mutant of resolveTarget: the user need not be the one asked for.
resolveTargetAnyUser(q, inbounds, users) ==
    LET Fits(u) == (q.tag = "" \/ u.tag = q.tag) /\ u.tag \in Tags(inbounds)
    IN  SelectInSeq(GetUsers(users), Fits)

\* The first user that matches a subscription request and whose inbound is among
\* the inbounds read before, or 0.
resolveTarget(q, inbounds, users) ==
    LET Fits(u) == u.sub = q.sub /\ (q.tag = "" \/ u.tag = q.tag) /\ u.tag \in Tags(inbounds)
    IN  SelectInSeq(GetUsers(users), Fits)

\* buildSingBoxSubscriptionConfig for the inbound of one read and the user of
\* another: the user's uuid and the inbound's options.  The options of a
\* shadowtls inbound's detour, from the same read, are left out.
SingBoxRecord(q, inbounds, u) ==
    [sub |-> q.sub, tag |-> u.tag, format |-> "sing-box", uuid |-> u.uuid,
     attr |-> inbounds.inbounds[findInboundIndex(inbounds, u.tag)].attr]

\* What a handler does with the users it read.
AfterUsers(r, q) ==
    LET k == findUser(doc, q)
        t == resolveTarget(q, seen[r], doc)
    IN  \/ /\ q.op = "UpdateUser"
           /\ req' = [req EXCEPT ![r].uuid = IF k = 0 THEN "" ELSE GetUsers(doc)[k].uuid]
           /\ Goto(r, "call")
           /\ UNCHANGED <<record, resp>>
        \/ /\ q.op \in {"GetUser", "DeleteUser"} /\ k = 0
           /\ Answer(r, "USER_NOT_FOUND", Absent)
           /\ UNCHANGED <<req, record>>
        \/ /\ q.op = "DeleteUser" /\ k # 0
           /\ Goto(r, "call")
           /\ UNCHANGED <<req, record, resp>>
        \/ /\ q.op = "GetUser" /\ k # 0
           /\ Answer(r, "OK", GetUsers(doc)[k])
           /\ UNCHANGED <<req, record>>
        \/ /\ q.op \in SubscriptionOp /\ t = 0
           /\ Answer(r, "USER_NOT_FOUND", Absent)
           /\ UNCHANGED <<req, record>>
        \/ /\ q.op \in SubscriptionOp /\ t # 0
           /\ record' = [record EXCEPT ![r] = SingBoxRecord(q, seen[r], GetUsers(doc)[t])]
           /\ Goto(r, "store")
           /\ UNCHANGED <<req, resp>>

\* GetUsers: the second read of GetUser and DeleteUser, the uuid of an UpdateUser
\* that gives none, the second read of resolveTarget.
ReadUsers(r) ==
    /\ hpc[r] = "users"
    /\ \/ NoFault /\ AfterUsers(r, req[r])
       \/ /\ Fault(r)
          /\ Answer(r, IF req[r].op \in SubscriptionOp THEN "USER_NOT_FOUND" ELSE "INTERNAL_ERROR", Absent)
          /\ UNCHANGED <<req, record>>
    /\ UNCHANGED <<configVars, seen, store, requests, reverts, during>>

\* ToUser: a uuid is generated when there is none.
Edit(q) == IF q.op \in UserOp /\ q.uuid = "" THEN [q EXCEPT !.uuid = Generated] ELSE q

\* The document changes; every request under way lives to see it.
SetDoc(new) ==
    /\ doc' = new
    /\ held' = held \cup {doc}
    /\ during' = [r \in Handlers |-> IF hpc[r] = "idle" THEN during[r] ELSE during[r] \cup {new}]

\* Mutant of Call: an error of the client is not noticed.
CallUnchecked(r) ==
    /\ hpc[r] = "call"
    /\ LET new == ClientOp(doc, Edit(req[r]))
       IN  /\ NoFault
           /\ IF new = Err THEN UNCHANGED <<configVars, during>> ELSE SetDoc(new)
           /\ Answer(r, "OK", Absent)
    /\ UNCHANGED <<localVars, store, requests, reverts>>

\* The client method, and mapClientError for what it returns.
Call(r) ==
    /\ hpc[r] = "call"
    /\ LET q == Edit(req[r])
           new == ClientOp(doc, q)
       IN  \/ /\ new # Err
              /\ NoFault
              /\ SetDoc(new)
              /\ Answer(r, "OK", Absent)
           \/ /\ new = Err
              /\ NoFault
              /\ Answer(r, CASE q.op \in InboundOp -> "INTERNAL_ERROR"
                             [] q.op = "CreateUser" /\ HasInbound(doc, q) -> "USER_EXISTS"
                             [] OTHER -> "USER_NOT_FOUND", Absent)
              /\ UNCHANGED <<configVars, during>>
           \/ /\ Fault(r)
              /\ Answer(r, "INTERNAL_ERROR", Absent)
              /\ UNCHANGED <<configVars, during>>
    /\ UNCHANGED <<localVars, store, requests, reverts>>

\* GetSubscription looks into the map first.
Lookup(r) ==
    /\ hpc[r] = "lookup"
    /\ LET sub == req[r].sub
       IN  IF sub \in DOMAIN store THEN Answer(r, "OK", store[sub])
           ELSE Goto(r, "inbounds") /\ UNCHANGED resp
    /\ UNCHANGED <<configVars, localVars, store, boundVars, during, failed>>

\* Mutant of cacheRecord: the map is not bounded.
cacheRecordUnbounded(rec) ==
    store' = [s \in DOMAIN store \cup {rec.sub} |-> IF s = rec.sub THEN rec ELSE store[s]]

\* A full map takes no record, not even one whose SubID it has.
cacheRecord(rec) ==
    store' = IF Cardinality(DOMAIN store) >= MaxRecords THEN store
             ELSE [s \in DOMAIN store \cup {rec.sub} |-> IF s = rec.sub THEN rec ELSE store[s]]

\* Mutant of StoreRecord: what is sent is what the map then holds.
StoreRecordRereads(r) ==
    /\ hpc[r] = "store"
    /\ cacheRecord(record[r])
    /\ Answer(r, "OK", IF record[r].sub \in DOMAIN store' THEN store'[record[r].sub] ELSE record[r])
    /\ UNCHANGED <<configVars, localVars, boundVars, during, failed>>

\* The record is cached and sent.
StoreRecord(r) ==
    /\ hpc[r] = "store"
    /\ cacheRecord(record[r])
    /\ Answer(r, "OK", record[r])
    /\ UNCHANGED <<configVars, localVars, boundVars, during, failed>>

\* A failed reload brings back a document the store has been (ConfigStore!Revert).
Rollback ==
    /\ reverts < MaxReverts
    /\ reverts' = reverts + 1
    /\ \E old \in held : SetDoc(old)
    /\ UNCHANGED <<hpc, localVars, resp, store, requests, faults, failed>>

Handle(r) ==
    \/ Invalid(r) \/ ReadInbounds(r) \/ ReadUsers(r) \/ Call(r) \/ Lookup(r) \/ StoreRecord(r)

Next == Rollback \/ \E r \in Handlers : Arrive(r) \/ Handle(r)

Spec == Init /\ [][Next]_vars
-----------------------------------------------------------------------------
TypeOK ==
    /\ doc \in Document
    /\ held \subseteq Document
    /\ hpc \in [Handlers -> {"idle", "lookup", "inbounds", "users", "call", "store"}]
    /\ \A r \in Handlers : hpc[r] = "store" => record[r] \in Record
    /\ \A r \in Handlers : hpc[r] = "users" => seen[r] \in Document
    /\ Cardinality(DOMAIN store) <= MaxRecords
    /\ failed \subseteq Handlers

UsersOf(d, q) == {u \in ToSet(GetUsers(d)) : u.sub = q.sub /\ u.tag = q.tag}

\* What an answer says of the configuration.
Confirms(q, a, d) ==
    LET there == UsersOf(d, q) # {}
    IN  CASE a.code = "INBOUND_EXISTS" -> HasInbound(d, q)
          [] a.code = "INBOUND_NOT_FOUND" -> ~HasInbound(d, q)
          [] a.code = "USER_EXISTS" -> there
          [] a.code = "USER_NOT_FOUND" -> ~there
          [] a.code = "OK" ->
               CASE q.op = "GetInbound" -> a.body \in ToSet(d.inbounds)
                 [] q.op = "GetUser" -> a.body \in UsersOf(d, q)
                 [] q.op = "CreateInbound" -> HasInbound(d, q)
                 [] q.op = "UpdateInbound" -> \E ib \in ToSet(d.inbounds) : ib.tag = q.tag /\ ib.attr = q.attr
                 [] q.op = "DeleteInbound" -> ~HasInbound(d, q)
                 [] q.op \in {"CreateUser", "UpdateUser"} -> \E u \in UsersOf(d, q) : u.uuid = Edit(q).uuid
                 [] q.op = "DeleteUser" -> ~there

TrueAnswer(q, a, docs) ==
    CASE a.code = "INVALID_REQUEST" -> TRUE
      [] a.code = "INTERNAL_ERROR" -> \E d, e \in docs : HasInbound(d, q) /\ ~HasInbound(e, q)
      [] OTHER -> \E d \in docs : Confirms(q, a, d)

\* Although a handler looks first and acts later, its answer was true at some
\* moment of the request: what it says to be missing was missing, what it says to
\* be there was there, and what it says to have done was to be seen.  A request is
\* answered with an internal error only when a read or write failed or, by the
\* inbound handlers, when the inbound came or went between the two looks.
AnswersWereTrue ==
    \A r \in Handlers :
        hpc[r] = "idle" /\ resp[r] # Absent /\ r \notin failed /\ req[r].op \notin SubscriptionOp =>
            TrueAnswer(req[r], resp[r], during[r])

\* A record for sing-box names credentials its own user had, and options its
\* inbound had, in documents of the configuration, however the two reads of
\* resolveTarget and the writers in between mix.
Genuine(rec, docs) ==
    rec.format = "sing-box" =>
        /\ \E d \in docs : [sub |-> rec.sub, tag |-> rec.tag, uuid |-> rec.uuid] \in Served(d)
        /\ \E d \in docs : \E ib \in ToSet(d.inbounds) : ib.tag = rec.tag /\ ib.attr = rec.attr

RecordsAreGenuine == \A s \in DOMAIN store : store[s].sub = s /\ Genuine(store[s], held \cup {doc})

\* A subscription that was not in the map is answered from the configuration as it
\* was during the request, whether or not the map had room for it.
LiveUnlessCached ==
    \A r \in Handlers :
        hpc[r] = "idle" /\ resp[r] # Absent /\ resp[r].code = "OK" /\ record[r] # Absent =>
            Genuine(resp[r].body, during[r])
=============================================================================
