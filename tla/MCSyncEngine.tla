---------------------------- MODULE MCSyncEngine ----------------------------
(***************************************************************************)
(* SyncPlans with desired states of the control plane.  The agent finds    *)
(* one inbound "a" with one user "u1"; sing-box refuses an inbound whose   *)
(* attribute is "bad".                                                     *)
(***************************************************************************)
EXTENDS SyncPlans

ProtoEntry(sub) == [sub |-> sub, uuid |-> "x", more |-> "none", form |-> "proto"]
FlatInbound(tag, us) ==
    [tag |-> tag, attr |-> "ok", nested |-> FALSE, users |-> us, ousers |-> Absent]

OneInbound == syncStatsUsers([inbounds |-> <<FlatInbound("a", <<ProtoEntry("u1")>>)>>, stats |-> {}])
MCInstalled == {OneInbound}

\* Desired states.
InboundModel(tag, attr) ==
    [tag |-> tag, attr |-> attr, nested |-> FALSE, users |-> Absent, ousers |-> Absent]
UserModel(sub, tag, uuid, more) == [sub |-> sub, uuid |-> uuid, tag |-> tag, more |-> more]
State(ibs, us) == [inbounds |-> ibs, users |-> us]

\* The versions there are; version 0 is the zero Config of an answer without data.
Published(states) ==
    [v \in 0..Len(states) |-> IF v = 0 THEN State({}, <<>>) ELSE states[v]]

\* Version 1 adds an inbound and a user; version 2 drops the inbound and the user
\* again, changes u1 and the options of "a"; version 3 is refused by sing-box.
\* Nobody moves to another inbound, and the inbound that goes has no users.
Regular == Published(
    <<State({InboundModel("a", "ok"), InboundModel("b", "ok")},
            <<UserModel("u1", "a", "x", "none"), UserModel("u2", "a", "x", "meta")>>),
      State({InboundModel("a", "ok2")}, <<UserModel("u1", "a", "y", "limits")>>),
      State({InboundModel("a", "bad")}, <<UserModel("u2", "a", "x", "none")>>)>>)

\* An inbound is dropped together with its users, for one sing-box refuses.
Dropping == Published(<<State({InboundModel("b", "bad")}, <<>>)>>)

\* The instances are ones the theorems about the plans speak of.
ASSUME InstanceTrusted == Trusted
=============================================================================
