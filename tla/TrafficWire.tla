---------------------------- MODULE TrafficWire -----------------------------
(***************************************************************************)
(* What Traffic's messages are: one query of singbox/v2ray_stats.go over   *)
(* the codec of StatsCodec.  The statistics service is external: it reads  *)
(* the agent's request and may send the fields of a Stat in any order,     *)
(* with fields the agent does not know between them.                       *)
(***************************************************************************)
EXTENDS Traffic, StatsCodec

CONSTANT Name      \* the name of a counter, as the agent's pattern has it

ASSUME TrafficWireAssumption ==
    /\ Name \in Seq(Nat) /\ Len(Name) < Uint
    /\ MaxMoved < Uint \div 2               \* a counter is an int64

\* The pattern the service finds in the agent's request.
Asked == UnmarshalQueryStatsRequest(MarshalQueryStatsRequest(<<Name>>)).patterns

\* A Stat with its fields in either order around x; a zero is left out.
StatBytes(n, x, nameFirst) ==
    LET name == appendStringField(1, Asked[1])
        value == appendIntField(2, n)
    IN  IF nameFirst THEN name \o x \o value ELSE value \o x \o name

\* queryStats, and what InboundTraffic makes of it: the value of the first Stat, or
\* zero when there is none or, as an int64, it is negative.
FirstValue(resp) ==
    CASE ~resp.ok -> NoValue
      [] resp.ok /\ (resp.stats = <<>> \/ resp.stats[1].value >= Uint \div 2) -> 0
      [] OTHER -> resp.stats[1].value

queryStats(data) == FirstValue(UnmarshalQueryStatsResponse(data))
=============================================================================
