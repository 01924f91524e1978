--------------------------- MODULE MCConfigClient ---------------------------
(***************************************************************************)
(* ConfigClient over the documents of ConfigData: one inbound that starts  *)
(* without users, and requests that create one.  sing-box refuses the user *)
(* "refused".                                                              *)
(***************************************************************************)
EXTENDS ConfigClient, ConfigData

InboundDoc(us) ==
    syncStatsUsers([inbounds |-> <<[tag |-> "in", attr |-> "ok", nested |-> FALSE,
                                    users |-> us, ousers |-> Absent]>>,
                    stats |-> {}])

ProtoEntry(sub) == [sub |-> sub, uuid |-> "x", more |-> "none", form |-> "proto"]

UserLists(S) == UNION {SetToSeqs({ProtoEntry(u) : u \in T}) : T \in SUBSET S}

Accepted(doc) == "refused" \notin doc.stats

WideConfig == {InboundDoc(us) : us \in UserLists({"u1", "u2", "refused"})}
WideInstalled == {InboundDoc(<<>>)}

UserOp(name, sub) == [op |-> name, tag |-> "in", sub |-> sub, uuid |-> "x"]

\* Only creations: no later write gives the bytes of an earlier one again.
CreateOps == {UserOp("CreateUser", u) : u \in {"u1", "u2", "refused"}}

\* ClientOp as a table, so that TLC computes each edit once.
EditTable == [doc \in WideConfig, op \in CreateOps |-> ClientOp(doc, op)]
TabledEdit(doc, op) == EditTable[doc, op]
=============================================================================
