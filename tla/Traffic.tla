------------------------------ MODULE Traffic -------------------------------
(***************************************************************************)
(* The traffic metrics: the loop of internal/metrics/loop.go asks sing-box *)
(* for the counters of every inbound (singbox/v2ray_stats.go), one query   *)
(* per direction, and hands the values to Collector.ObserveInbounds        *)
(* (metrics/collector.go), which turns them into counters that survive a   *)
(* restart of sing-box.  sing-box counts and restarts at any moment, also  *)
(* between two queries of one round.                                       *)
(*                                                                         *)
(* What travels is left to the constants: Replies[n] are the messages      *)
(* sing-box may send for the value n, Value[m] is what queryStats makes of *)
(* a message m, or NoValue when it does not decode.                        *)
(***************************************************************************)
EXTENDS Naturals, FiniteSets

CONSTANTS
    Tag,           \* inbounds
    Replies,       \* messages for a value
    Value,         \* the value of a message
    NoValue,       \* a message that does not decode
    Amounts,       \* the bytes one burst of traffic may have
    MaxMoved,      \* bound on the traffic of an inbound in one direction
    MaxRestarts,   \* bound on restarts of sing-box
    MaxFailures    \* bound on failing reads and queries

ASSUME TrafficAssumption ==
    /\ Amounts \subseteq Nat
    /\ MaxMoved \in Nat
    /\ MaxRestarts \in Nat
    /\ MaxFailures \in Nat
    /\ NoValue \notin Nat

VARIABLES
    inbounds,  \* the tags in the configuration file
    counters,  \* sing-box: bytes since it started, by tag and direction
    lpc,       \* where the loop is: idle, query, reply
    todo,      \* the tags it has still to ask for
    tag,       \* the tag it is asking for
    up,        \* the answer to its first query
    dir,       \* the direction of the query
    reply,     \* the message that came back
    stats,     \* the InboundStats collected, by tag
    last,      \* Collector.lastUp and lastDown
    exported,  \* the two Prometheus counters
    restarts, failures,
    moved,     \* history: all bytes ever, by tag and direction
    sent       \* history: the value sing-box sent

singboxVars == <<inbounds, counters, restarts, moved>>
roundVars == <<todo, tag, up, dir, stats>>
collectorVars == <<last, exported>>
vars == <<singboxVars, lpc, roundVars, reply, sent, collectorVars, failures>>

Dir == {"up", "down"}
PerTag(S) == [Tag -> [Dir -> S]]
Zero == [t \in Tag |-> [d \in Dir |-> 0]]
NoStats == [t \in {} |-> [d \in Dir |-> 0]]
-----------------------------------------------------------------------------
Init ==
    /\ inbounds \in SUBSET Tag
    /\ counters = Zero
    /\ lpc = "idle"
    /\ todo = {}
    /\ tag \in Tag
    /\ up = 0
    /\ dir = "up"
    /\ reply = NoValue
    /\ stats = NoStats
    /\ last = Zero
    /\ exported = Zero
    /\ restarts = 0
    /\ failures = 0
    /\ moved = Zero
    /\ sent = 0

\* Traffic passes through an inbound (external).
Transfer(t, d) ==
    /\ t \in inbounds
    /\ \E n \in Amounts :
         /\ moved[t][d] + n <= MaxMoved
         /\ counters' = [counters EXCEPT ![t][d] = @ + n]
         /\ moved' = [moved EXCEPT ![t][d] = @ + n]
    /\ UNCHANGED <<inbounds, restarts, lpc, roundVars, reply, sent, collectorVars, failures>>

\* sing-box restarts, perhaps with other inbounds, and counts from zero (external).
Restart ==
    /\ restarts < MaxRestarts
    /\ restarts' = restarts + 1
    /\ inbounds' \in SUBSET Tag
    /\ counters' = Zero
    /\ UNCHANGED <<moved, lpc, roundVars, reply, sent, collectorVars, failures>>

Failure ==
    /\ failures < MaxFailures
    /\ failures' = failures + 1

\* collect: the inbounds are read from the file, which changes here only with a
\* restart of sing-box, and all have a tag (ObserveInbounds skips one without).
BeginRound ==
    /\ lpc = "idle"
    /\ lpc' = "query"
    /\ todo' = inbounds
    /\ UNCHANGED <<singboxVars, tag, up, dir, stats, reply, sent, collectorVars, failures>>

\* The read fails: the round is over.
RoundFails ==
    /\ lpc = "idle"
    /\ Failure
    /\ UNCHANGED <<singboxVars, lpc, roundVars, reply, sent, collectorVars>>

\* sing-box answers a query; the second query of InboundTraffic is about the tag
\* of the first.
Query ==
    /\ lpc = "query"
    /\ IF dir = "up" THEN tag' \in todo ELSE UNCHANGED tag
    /\ sent' = counters[tag'][dir]
    /\ reply' \in Replies[sent']
    /\ lpc' = "reply"
    /\ UNCHANGED <<singboxVars, todo, up, dir, stats, collectorVars, failures>>

\* A query fails: the inbound is left out of this round.
QueryFails ==
    /\ lpc = "query"
    /\ Failure
    /\ IF dir = "up" THEN tag' \in todo ELSE UNCHANGED tag
    /\ todo' = todo \ {tag'}
    /\ dir' = "up"
    /\ up' = 0
    /\ UNCHANGED <<singboxVars, lpc, stats, reply, sent, collectorVars>>

\* queryStats returns; a reply that does not decode is an error like the above.
Decode ==
    /\ lpc = "reply"
    /\ lpc' = "query"
    /\ reply' = NoValue
    /\ sent' = 0
    /\ LET v == Value[reply]
       IN  \/ /\ v = NoValue
              /\ todo' = todo \ {tag}
              /\ dir' = "up"
              /\ up' = 0
              /\ UNCHANGED stats
           \/ /\ v # NoValue
              /\ dir = "up"
              /\ up' = v
              /\ dir' = "down"
              /\ UNCHANGED <<todo, stats>>
           \/ /\ v # NoValue
              /\ dir = "down"
              /\ stats' = [t \in DOMAIN stats \cup {tag} |->
                             IF t = tag THEN [d \in Dir |-> IF d = "up" THEN up ELSE v] ELSE stats[t]]
              /\ todo' = todo \ {tag}
              /\ dir' = "up"
              /\ up' = 0
    /\ UNCHANGED <<singboxVars, tag, collectorVars, failures>>

\* Mutant of deltaCounter: a smaller value is not noticed, and the difference is
\* taken as an unsigned one.
deltaCounterUnsigned(previous, current) ==
    IF current >= previous THEN current - previous ELSE 2 * MaxMoved + current - previous

\* Mutant of deltaCounter: the difference is taken the wrong way round.
deltaCounterSwapped(previous, current) ==
    IF current >= previous THEN previous - current ELSE current

\* Bytes since the last observation; a smaller value means that sing-box restarted.
deltaCounter(previous, current) ==
    IF current >= previous THEN current - previous ELSE current

\* Mutant of Observe: the last value is forgotten when an inbound is not reported.
ObserveForgets ==
    /\ lpc = "query"
    /\ todo = {} /\ dir = "up"
    /\ exported' = [t \in Tag |-> [d \in Dir |->
         exported[t][d] + IF t \in DOMAIN stats THEN deltaCounter(last[t][d], stats[t][d]) ELSE 0]]
    /\ last' = [t \in Tag |-> IF t \in DOMAIN stats THEN stats[t] ELSE [d \in Dir |-> 0]]
    /\ lpc' = "idle"
    /\ stats' = NoStats
    /\ UNCHANGED <<singboxVars, todo, tag, up, dir, reply, sent, failures>>

\* Mutant of Observe: an inbound with traffic in one direction only is passed over.
ObserveSkipsHalf ==
    /\ lpc = "query"
    /\ todo = {} /\ dir = "up"
    /\ LET busy == {t \in DOMAIN stats : \A d \in Dir : stats[t][d] > 0}
       IN  /\ exported' = [t \in Tag |-> [d \in Dir |->
                exported[t][d] + IF t \in busy THEN deltaCounter(last[t][d], stats[t][d]) ELSE 0]]
           /\ last' = [t \in Tag |-> IF t \in busy THEN stats[t] ELSE last[t]]
    /\ lpc' = "idle"
    /\ stats' = NoStats
    /\ UNCHANGED <<singboxVars, todo, tag, up, dir, reply, sent, failures>>

\* ObserveInbounds, under the collector's mutex.
Observe ==
    /\ lpc = "query"
    /\ todo = {} /\ dir = "up"
    /\ exported' = [t \in Tag |-> [d \in Dir |->
         exported[t][d] + IF t \in DOMAIN stats THEN deltaCounter(last[t][d], stats[t][d]) ELSE 0]]
    /\ last' = [t \in Tag |-> IF t \in DOMAIN stats THEN stats[t] ELSE last[t]]
    /\ lpc' = "idle"
    /\ stats' = NoStats
    /\ UNCHANGED <<singboxVars, todo, tag, up, dir, reply, sent, failures>>

Round == BeginRound \/ Query \/ Decode \/ Observe

Next ==
    \/ \E t \in Tag, d \in Dir : Transfer(t, d)
    \/ Restart \/ RoundFails \/ QueryFails \/ Round

Spec == Init /\ [][Next]_vars

\* The ticker starts a round every StatsCollectionInterval, and a round ends.
FairSpec == Spec /\ WF_vars(Round)
-----------------------------------------------------------------------------
TypeOK ==
    /\ inbounds \subseteq Tag
    /\ counters \in PerTag(Nat)
    /\ lpc \in {"idle", "query", "reply"}
    /\ todo \subseteq Tag
    /\ tag \in Tag
    /\ up \in Nat
    /\ dir \in Dir
    /\ DOMAIN stats \subseteq Tag
    /\ stats \in [DOMAIN stats -> [Dir -> Nat]]
    /\ last \in PerTag(Nat)
    /\ exported \in PerTag(Nat)
    /\ restarts \in Nat
    /\ failures \in Nat
    /\ moved \in PerTag(Nat)
    /\ sent \in Nat

\* What the agent reads is what sing-box sent, whatever bytes carried it.
DecodesWhatWasSent == lpc = "reply" => Value[reply] = sent

\* The exported counters never count a byte twice, whenever sing-box restarts, an
\* inbound goes and comes back, or a query fails.
NeverOvercounts == \A t \in Tag, d \in Dir : exported[t][d] <= moved[t][d]

\* As long as sing-box has not restarted the counters are exact: what is missing
\* is what was moved after the last round that reached the inbound.
ExactUntilRestart == restarts = 0 => exported = last

\* ... and every byte is counted in the end.
EventuallyCounted ==
    \A t \in Tag, d \in Dir, n \in 1..MaxMoved :
        moved[t][d] >= n ~> exported[t][d] >= n \/ restarts > 0
=============================================================================
