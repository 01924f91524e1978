--------------------------- MODULE MCRestHandlers ---------------------------
(***************************************************************************)
(* RestHandlers over one installed inbound "a" with the user "u1".         *)
(***************************************************************************)
EXTENDS RestHandlers, TLC

MCInstalled ==
    {syncStatsUsers([inbounds |->
        <<[tag |-> "a", attr |-> "ok", nested |-> FALSE, ousers |-> Absent,
           users |-> <<[sub |-> "u1", uuid |-> "x", more |-> "none", form |-> "proto"]>>]>>,
        stats |-> {}])}

Inbound(op, tag, attr) == [op |-> op, tag |-> tag, attr |-> attr]
User(op, tag, sub, uuid) == [op |-> op, tag |-> tag, sub |-> sub, uuid |-> uuid]
Subscription(op, sub, tag, format) == [op |-> op, sub |-> sub, tag |-> tag, format |-> format]

MCAsk ==
    {Inbound("CreateInbound", "b", "ok"), Inbound("UpdateInbound", "a", "ok2"),
     Inbound("DeleteInbound", "a", "ok"), Inbound("CreateInbound", "a", "ok"),
     Inbound("GetInbound", "a", "ok"),
     User("CreateUser", "a", "u2", ""), User("CreateUser", "b", "u1", "y"),
     User("UpdateUser", "a", "u1", ""), User("UpdateUser", "a", "u1", "y"),
     User("DeleteUser", "a", "u1", "x"), User("GetUser", "a", "u1", "x"),
     Subscription("GenerateSubscription", "u1", "", "sing-box"),
     Subscription("GenerateSubscription", "u1", "a", "v2ray"),
     Subscription("GetSubscription", "u1", "", "sing-box"),
     Subscription("GetSubscription", "u2", "", "sing-box")}

Symmetry == Permutations(Handlers)
=============================================================================
