----------------------------- MODULE ConfigData -----------------------------
(***************************************************************************)
(* The contents of the configuration file and the edits the two writers    *)
(* make: internal/singbox/client.go (REST requests) and                    *)
(* internal/sync/config_manager.go (steps of a sync plan), with the        *)
(* comparison of internal/sync/diff.go and the plans of internal/sync/     *)
(* plan.go.  Pure operators; the modules that interleave them are          *)
(* parameterised by them.                                                  *)
(*                                                                         *)
(* A document is [inbounds, stats]: the list of inbound maps, and the set  *)
(* of names in experimental.v2ray_api.stats.users.  An inbound map is      *)
(*   tag, attr   its tag; its type, address and options as one value       *)
(*   nested      its options lie under an "options" key, rather than being *)
(*               fields of the inbound as sing-box has them                *)
(*   users       its "users" list, or Absent                               *)
(*   ousers      its "options"."users" list, or Absent                     *)
(* and an entry of a users list is [sub, uuid, more, form]: "proto" is the *)
(* form buildProtocolUser gives a vless user (name, uuid), "model" the     *)
(* JSON of models.User (subId, uuid, ...).  more stands for the fields     *)
(* beyond the identity: "meta" is an e-mail or enabled = false, "limits"   *)
(* a traffic or IP limit, "none" neither.                                  *)
(***************************************************************************)
EXTENDS Naturals, Sequences, FiniteSets, SequencesExt

CONSTANTS
    Absent,  \* a key that is not there
    Err      \* an operation that returned an error

Entry ==
    [sub : STRING, uuid : STRING, more : {"none", "meta", "limits"}, form : {"proto", "model"}]
UserList == Seq(Entry) \cup {Absent}
InboundMap ==
    [tag : STRING, attr : STRING, nested : BOOLEAN, users : UserList, ousers : UserList]
Document == [inbounds : Seq(InboundMap), stats : SUBSET STRING]

ASSUME ConfigDataAssumption == Absent \notin Seq(Entry) /\ Err \notin Document
-----------------------------------------------------------------------------
(* Reading and editing a document. *)

findInboundIndex(doc, tag) ==
    LET Named(ib) == ib.tag = tag IN SelectInSeq(doc.inbounds, Named)

\* getInboundUsers: the users list, else the one under options, else none.
getInboundUsers(ib) ==
    IF ib.users # Absent THEN ib.users
    ELSE IF ib.ousers # Absent THEN ib.ousers ELSE <<>>

\* setInboundUsers writes the list back where it was found.
setInboundUsers(ib, us) ==
    IF ib.users = Absent /\ ib.ousers # Absent
    THEN [ib EXCEPT !.ousers = us] ELSE [ib EXCEPT !.users = us]

\* userMatchesSubID and userMapMatchesSubID, for entries whose name, email and
\* uuid are not the SubID of another user: the code tries these fields too.
userIndex(us, sub) == LET Is(e) == e.sub = sub IN SelectInSeq(us, Is)

\* The members of a list that are in a set, appended one by one to an empty list.
only(s, kept) ==
    LET filtered[k \in 0..Len(s)] ==
          IF k = 0 THEN <<>>
          ELSE IF s[k] \in kept THEN Append(filtered[k - 1], s[k]) ELSE filtered[k - 1]
    IN  filtered[Len(s)]

\* The list without the entries of one user.
withoutUser(us, sub) == only(us, {e \in ToSet(us) : e.sub # sub})

\* syncStatsUsers: the names of all entries that have a "name".
syncStatsUsers(doc) ==
    [doc EXCEPT !.stats =
        {e.sub : e \in {x \in UNION {ToSet(getInboundUsers(ib)) : ib \in ToSet(doc.inbounds)} :
                          x.form = "proto"}}]

\* buildProtocolUser for a vless or vmess inbound: name, uuid and flow only.
buildProtocolUser(user) ==
    [sub |-> user.sub, uuid |-> user.uuid, more |-> "none", form |-> "proto"]

\* modelToMap of a models.User: every field, under its JSON name.
modelToMap(user) ==
    [sub |-> user.sub, uuid |-> user.uuid, more |-> user.more, form |-> "model"]

\* userFromMap: limits are not read back, the rest is.
userFromMap(e, tag) ==
    [sub |-> e.sub, uuid |-> e.uuid, tag |-> tag,
     more |-> IF e.more = "meta" THEN "meta" ELSE "none"]

replaceInbound(doc, i, ib) == [doc EXCEPT !.inbounds[i] = ib]
appendInbound(doc, ib) == [doc EXCEPT !.inbounds = Append(@, ib)]
removeInbounds(doc, tag) == [doc EXCEPT !.inbounds = only(@, {ib \in ToSet(@) : ib.tag # tag})]
-----------------------------------------------------------------------------
(* ConfigClient: the REST writer. *)

\* The options of the requests modelled here carry no users of their own.
ClientCreateInbound(doc, op) ==
    IF findInboundIndex(doc, op.tag) # 0 THEN Err
    ELSE appendInbound(doc, [tag |-> op.tag, attr |-> op.attr, nested |-> FALSE,
                             users |-> Absent, ousers |-> Absent])

\* The new fields, users not among them, are merged into the map that is there.
ClientUpdateInbound(doc, op) ==
    LET i == findInboundIndex(doc, op.tag)
    IN  IF i = 0 THEN Err
        ELSE replaceInbound(doc, i, [doc.inbounds[i] EXCEPT !.attr = op.attr])

\* The first inbound with the tag goes.
ClientDeleteInbound(doc, op) ==
    LET i == findInboundIndex(doc, op.tag)
    IN  IF i = 0 THEN Err ELSE [doc EXCEPT !.inbounds = RemoveAt(@, i)]

ClientCreateUser(doc, op) ==
    LET i == findInboundIndex(doc, op.tag)
        us == getInboundUsers(doc.inbounds[i])
    IN  IF i = 0 THEN Err
        ELSE IF userIndex(us, op.sub) # 0 THEN Err
        ELSE replaceInbound(doc, i,
                 setInboundUsers(doc.inbounds[i], Append(us, buildProtocolUser(op))))

ClientUpdateUser(doc, op) ==
    LET i == findInboundIndex(doc, op.tag)
        us == getInboundUsers(doc.inbounds[i])
        k == userIndex(us, op.sub)
    IN  IF i = 0 THEN Err
        ELSE IF k = 0 THEN Err
        ELSE replaceInbound(doc, i,
                 setInboundUsers(doc.inbounds[i], [us EXCEPT ![k] = buildProtocolUser(op)]))

\* DeleteUser takes no inbound: the user leaves every inbound that has it.
ClientDeleteUser(doc, op) ==
    LET has(ib) == userIndex(getInboundUsers(ib), op.sub) # 0
    IN  IF ~\E i \in DOMAIN doc.inbounds : has(doc.inbounds[i]) THEN Err
        ELSE [doc EXCEPT !.inbounds =
                [i \in DOMAIN @ |->
                    IF has(@[i])
                    THEN setInboundUsers(@[i], withoutUser(getInboundUsers(@[i]), op.sub))
                    ELSE @[i]]]

\* One REST request on a document; saveAndReload refreshes the stats names.
ClientOp(doc, op) ==
    LET new == CASE op.op = "CreateInbound" -> ClientCreateInbound(doc, op)
                 [] op.op = "UpdateInbound" -> ClientUpdateInbound(doc, op)
                 [] op.op = "DeleteInbound" -> ClientDeleteInbound(doc, op)
                 [] op.op = "CreateUser" -> ClientCreateUser(doc, op)
                 [] op.op = "UpdateUser" -> ClientUpdateUser(doc, op)
                 [] op.op = "DeleteUser" -> ClientDeleteUser(doc, op)
    IN  IF new = Err THEN Err ELSE syncStatsUsers(new)
-----------------------------------------------------------------------------
(* ConfigManager: the writer of the sync plans.  usersAccessor fails on an *)
(* inbound without any users list unless it may create one.                *)

\* modelToMap of a models.Inbound: Options, and a users list that was read into
\* Options, go under the "options" key.  (Without Options the code leaves the key
\* out; here it is always there, and the next diff always finds a change.)
inboundToMap(m) ==
    [tag |-> m.tag, attr |-> m.attr, nested |-> TRUE,
     users |-> Absent, ousers |-> m.users]

\* Mutant of preserveUsers: only the list under "options" is copied.
preserveOptionUsers(source, target) ==
    [target EXCEPT !.ousers = IF @ = Absent THEN source.ousers ELSE @]

\* Mutant of preserveUsers: an inbound with an "options" object is taken to have
\* its users in there.
preserveNestedUsers(source, target) ==
    [target EXCEPT !.users = IF @ = Absent /\ ~source.nested THEN source.users ELSE @,
                   !.ousers = IF @ = Absent THEN source.ousers ELSE @]

\* preserveUsers: lists the new map lacks are copied from the old one.
preserveUsers(source, target) ==
    [target EXCEPT !.users = IF @ = Absent THEN source.users ELSE @,
                   !.ousers = IF @ = Absent THEN source.ousers ELSE @]

ManagerAddInbound(doc, m) ==
    IF findInboundIndex(doc, m.tag) # 0 THEN Err ELSE appendInbound(doc, inboundToMap(m))

ManagerUpdateInbound(doc, m) ==
    LET i == findInboundIndex(doc, m.tag)
    IN  IF i = 0 THEN Err
        ELSE replaceInbound(doc, i, preserveUsers(doc.inbounds[i], inboundToMap(m)))

\* Every inbound with the tag goes.
ManagerDeleteInbound(doc, tag) ==
    IF findInboundIndex(doc, tag) = 0 THEN Err ELSE removeInbounds(doc, tag)

ManagerAddUser(doc, user) ==
    LET i == findInboundIndex(doc, user.tag)
        us == getInboundUsers(doc.inbounds[i])
    IN  IF i = 0 THEN Err
        ELSE IF userIndex(us, user.sub) # 0 THEN Err
        ELSE replaceInbound(doc, i,
                 setInboundUsers(doc.inbounds[i], Append(us, modelToMap(user))))

ManagerUpdateUser(doc, user) ==
    LET i == findInboundIndex(doc, user.tag)
        us == getInboundUsers(doc.inbounds[i])
        k == userIndex(us, user.sub)
    IN  IF i = 0 THEN Err
        ELSE IF k = 0 THEN Err
        ELSE replaceInbound(doc, i,
                 setInboundUsers(doc.inbounds[i], [us EXCEPT ![k] = modelToMap(user)]))

ManagerDeleteUser(doc, tag, sub) ==
    LET i == findInboundIndex(doc, tag)
        us == getInboundUsers(doc.inbounds[i])
    IN  IF i = 0 THEN Err
        ELSE IF userIndex(us, sub) = 0 THEN Err
        ELSE replaceInbound(doc, i, setInboundUsers(doc.inbounds[i], withoutUser(us, sub)))
-----------------------------------------------------------------------------
(* Reconcile: what is on disk as models, compared with what is desired. *)

\* GetInbounds: everything that is not tag, type, address or port is Options.
GetInbounds(doc) == ToSet(doc.inbounds)

\* GetUsers: the users of all inbounds, in file order.
GetUsers(doc) ==
    FlattenSeq([i \in DOMAIN doc.inbounds |->
        [k \in DOMAIN getInboundUsers(doc.inbounds[i]) |->
            userFromMap(getInboundUsers(doc.inbounds[i])[k], doc.inbounds[i].tag)]])

\* A Go map keyed by SubID keeps the last of several users with one SubID.
bySubID(us) ==
    {us[k] : k \in {k \in DOMAIN us : \A j \in DOMAIN us : us[j].sub = us[k].sub => j <= k}}

\* inboundsDiffer: a users list on disk is one more option than desired has, and
\* options under an "options" key are not the options desired has.
inboundsDiffer(desired, current) ==
    \/ desired.attr # current.attr
    \/ current.nested
    \/ current.users # Absent

InboundChange(type, new, prev) == [kind |-> "inbound", type |-> type, new |-> new, prev |-> prev]
UserChange(type, new, prev) == [kind |-> "user", type |-> type, new |-> new, prev |-> prev]

\* For lists in which no tag is repeated (the code's maps keep the last one).
DiffInbounds(desired, current) ==
    LET tags(S) == {m.tag : m \in S}
        pairs == {p \in desired \X current : p[1].tag = p[2].tag}
    IN  {InboundChange("create", d, Absent) : d \in {m \in desired : m.tag \notin tags(current)}}
        \cup {InboundChange("update", p[1], p[2]) : p \in {q \in pairs : inboundsDiffer(q[1], q[2])}}
        \cup {InboundChange("delete", c, c) : c \in {m \in current : m.tag \notin tags(desired)}}

\* Mutant of DiffUsers: a user whose fields differ is not updated.
DiffUsersBySubID(desired, current) ==
    LET D == bySubID(desired)
        C == bySubID(current)
        subs(S) == {u.sub : u \in S}
    IN  {UserChange("create", d, Absent) : d \in {u \in D : u.sub \notin subs(C)}}
        \cup {UserChange("delete", c, c) : c \in {u \in C : u.sub \notin subs(D)}}

DiffUsers(desired, current) ==
    LET D == bySubID(desired)
        C == bySubID(current)
        subs(S) == {u.sub : u \in S}
        pairs == {p \in D \X C : p[1].sub = p[2].sub}
    IN  {UserChange("create", d, Absent) : d \in {u \in D : u.sub \notin subs(C)}}
        \cup {UserChange("update", p[1], p[2]) : p \in {q \in pairs : q[1] # q[2]}}
        \cup {UserChange("delete", c, c) : c \in {u \in C : u.sub \notin subs(D)}}

\* Each list of P followed by each list of Q.
followed(P, Q) == {p \o q : p \in P, q \in Q}

\* buildSteps: by kind and type in this order; Go's map iteration leaves the
\* order within a group open.
buildSteps(changes) ==
    LET group(kind, type) == SetToSeqs({ch \in changes : ch.kind = kind /\ ch.type = type})
        inbounds == followed(group("inbound", "create"), group("inbound", "update"))
        users == followed(followed(group("user", "create"), group("user", "update")),
                          group("user", "delete"))
    IN  followed(followed(inbounds, users), group("inbound", "delete"))

\* The plans Reconcile may return for the inbounds of one read of the file and
\* the users of a later one.
Reconcile(desired, inboundsDoc, usersDoc) ==
    buildSteps(DiffInbounds(desired.inbounds, GetInbounds(inboundsDoc))
               \cup DiffUsers(desired.users, GetUsers(usersDoc)))

\* Step.Execute and Step.Rollback.
ExecuteStep(doc, st) ==
    CASE st.kind = "inbound" /\ st.type = "create" -> ManagerAddInbound(doc, st.new)
      [] st.kind = "inbound" /\ st.type = "update" -> ManagerUpdateInbound(doc, st.new)
      [] st.kind = "inbound" /\ st.type = "delete" -> ManagerDeleteInbound(doc, st.new.tag)
      [] st.kind = "user" /\ st.type = "create" -> ManagerAddUser(doc, st.new)
      [] st.kind = "user" /\ st.type = "update" -> ManagerUpdateUser(doc, st.new)
      [] st.kind = "user" /\ st.type = "delete" -> ManagerDeleteUser(doc, st.new.tag, st.new.sub)

\* The documents a plan executed without a failure leads through.
Stages(doc, p) ==
    LET after[n \in 0..Len(p)] ==
          IF n = 0 THEN doc ELSE ExecuteStep(after[n - 1], p[n])
    IN  after

\* Mutant of RollbackStep: a deleted or changed user comes back as it is, not as
\* it was.
RollbackStepNew(doc, st) ==
    CASE st.kind = "inbound" /\ st.type = "create" -> ManagerDeleteInbound(doc, st.new.tag)
      [] st.kind = "inbound" /\ st.type = "update" -> ManagerUpdateInbound(doc, st.prev)
      [] st.kind = "inbound" /\ st.type = "delete" -> ManagerAddInbound(doc, st.prev)
      [] st.kind = "user" /\ st.type = "create" -> ManagerDeleteUser(doc, st.new.tag, st.new.sub)
      [] st.kind = "user" /\ st.type = "update" -> ManagerUpdateUser(doc, st.new)
      [] st.kind = "user" /\ st.type = "delete" -> ManagerAddUser(doc, st.new)

RollbackStep(doc, st) ==
    CASE st.kind = "inbound" /\ st.type = "create" -> ManagerDeleteInbound(doc, st.new.tag)
      [] st.kind = "inbound" /\ st.type = "update" -> ManagerUpdateInbound(doc, st.prev)
      [] st.kind = "inbound" /\ st.type = "delete" -> ManagerAddInbound(doc, st.prev)
      [] st.kind = "user" /\ st.type = "create" -> ManagerDeleteUser(doc, st.new.tag, st.new.sub)
      [] st.kind = "user" /\ st.type = "update" -> ManagerUpdateUser(doc, st.prev)
      [] st.kind = "user" /\ st.type = "delete" -> ManagerAddUser(doc, st.prev)
-----------------------------------------------------------------------------
\* Who may use the service according to a document, and according to a desired
\* state: the (user, inbound, uuid) triples.
Served(doc) == {[sub |-> u.sub, tag |-> u.tag, uuid |-> u.uuid] : u \in ToSet(GetUsers(doc))}
Wanted(desired) == {[sub |-> u.sub, tag |-> u.tag, uuid |-> u.uuid] : u \in ToSet(desired.users)}
Tags(doc) == {ib.tag : ib \in ToSet(doc.inbounds)}
-----------------------------------------------------------------------------
(* What the control plane and the writers of the file are trusted with: the *)
(* code checks none of it when it takes a desired state.  H is the set of   *)
(* homes (a user, an inbound) that may occur: a user who has one home is    *)
(* never asked to move to another inbound.                                  *)

Home(sub, tag) == [sub |-> sub, tag |-> tag]
OneHome(H) == \A g, h \in H : g.sub = h.sub => g.tag = h.tag

DistinctTags(ibs) == \A i, j \in DOMAIN ibs : ibs[i].tag = ibs[j].tag => i = j
DistinctSubs(us) == \A j, k \in DOMAIN us : us[j].sub = us[k].sub => j = k

TidyUsers(H, tag, us) ==
    /\ DistinctSubs(us)
    /\ \A e \in ToSet(us) : Home(e.sub, tag) \in H

\* A document without two inbounds of one tag or two entries of one user.
Tidy(H, doc) ==
    /\ doc \in Document
    /\ DistinctTags(doc.inbounds)
    /\ \A i \in DOMAIN doc.inbounds :
         TidyUsers(H, doc.inbounds[i].tag, getInboundUsers(doc.inbounds[i]))

DesiredInbound ==
    [tag : STRING, attr : STRING, nested : {FALSE}, users : {Absent}, ousers : {Absent}]
DesiredUser ==
    [sub : STRING, uuid : STRING, tag : STRING, more : {"none", "meta", "limits"}]

\* A desired state without two inbounds of one tag or two users of one SubID, in
\* which every user's inbound is there.
WellFormed(H, desired) ==
    /\ desired.inbounds \subseteq DesiredInbound
    /\ IsFiniteSet(desired.inbounds)
    /\ \A m, n \in desired.inbounds : m.tag = n.tag => m = n
    /\ desired.users \in Seq(DesiredUser)
    /\ \A u, w \in ToSet(desired.users) : u.sub = w.sub => u = w
    /\ \A u \in ToSet(desired.users) :
         /\ Home(u.sub, u.tag) \in H
         /\ \E m \in desired.inbounds : m.tag = u.tag
=============================================================================
