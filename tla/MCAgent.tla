------------------------------ MODULE MCAgent -------------------------------
(***************************************************************************)
(* Server over the documents of ConfigData.  The agent finds one inbound   *)
(* "a" without users; REST requests create a user and change the inbound,  *)
(* the control plane publishes a desired state with a user, or answers     *)
(* without data.  sing-box refuses an inbound whose attribute is "bad" and *)
(* one with the user "refused".                                            *)
(***************************************************************************)
EXTENDS Server, ConfigData

MCAccepts(doc) ==
    /\ \A i \in DOMAIN doc.inbounds : doc.inbounds[i].attr # "bad"
    /\ "refused" \notin {u.sub : u \in Served(doc)}

MCInstalled ==
    {syncStatsUsers([inbounds |->
        <<[tag |-> "a", attr |-> "ok", nested |-> FALSE, ousers |-> Absent,
           users |-> <<>>]>>,
        stats |-> {}])}

MCOp == {[op |-> "CreateUser", tag |-> "a", sub |-> "u2", uuid |-> "x"],
         [op |-> "UpdateInbound", tag |-> "a", attr |-> "bad"]}

\* Only creations: no request gives the bytes of an earlier one again.
CreateOps == {[op |-> "CreateUser", tag |-> "a", sub |-> sub, uuid |-> "x"] :
                sub \in {"u3", "refused"}}

InboundModel(tag) ==
    [tag |-> tag, attr |-> "ok", nested |-> FALSE, users |-> Absent, ousers |-> Absent]
UserModel(sub, tag) == [sub |-> sub, uuid |-> "x", tag |-> tag, more |-> "none"]

\* Version 0 is the zero Config of an answer without data.
MCDesired ==
    [v \in 0..1 |->
        IF v = 0 THEN [inbounds |-> {}, users |-> <<>>]
        ELSE [inbounds |-> {InboundModel("a")},
              users |-> <<UserModel("u2", "a")>>]]

Symmetry == Permutations(Callbacks) \cup Permutations(Timers)
=============================================================================
