------------------------- MODULE RestHandlersProofs -------------------------
(***************************************************************************)
(* Proofs about RestHandlers, for any number of requests under way, any    *)
(* requests and any documents.                                             *)
(***************************************************************************)
EXTENDS RestHandlers, ConfigDataProofs

-----------------------------------------------------------------------------
\* A user of the request is there when an inbound with the tag has an entry of it.
LEMMA UsersOfRequest ==
    ASSUME NEW d \in Document, NEW q, NEW i \in DOMAIN d.inbounds,
           d.inbounds[i].tag = q.tag,
           NEW e \in ToSet(getInboundUsers(d.inbounds[i])), e.sub = q.sub
    PROVE  userFromMap(e, q.tag) \in UsersOf(d, q)
<1>1. userFromMap(e, q.tag) \in ToSet(GetUsers(d))
  BY UsersOfDocument
<1>2. QED
  BY <1>1 DEF UsersOf, userFromMap

\* No user of the request is there when no inbound with the tag has an entry of it.
LEMMA NoUsersOfRequest ==
    ASSUME NEW d \in Document, NEW q,
           \A i \in DOMAIN d.inbounds : d.inbounds[i].tag = q.tag =>
              \A e \in ToSet(getInboundUsers(d.inbounds[i])) : e.sub # q.sub
    PROVE  UsersOf(d, q) = {}
<1> SUFFICES ASSUME NEW u \in UsersOf(d, q)
             PROVE  FALSE
  OBVIOUS
<1>1. u \in ToSet(GetUsers(d)) /\ u.sub = q.sub /\ u.tag = q.tag
  BY DEF UsersOf
<1>2. PICK i \in DOMAIN d.inbounds : \E e \in ToSet(getInboundUsers(d.inbounds[i])) :
             u = userFromMap(e, d.inbounds[i].tag)
  BY <1>1, UsersOfDocument
<1>3. QED
  BY <1>1, <1>2 DEF userFromMap

\* findUser returns the position of a user of the request, or 0 when there is none.
LEMMA FindUser ==
    ASSUME NEW d \in Document, NEW q
    PROVE  LET k == findUser(d, q)
           IN  /\ k # 0 => GetUsers(d)[k] \in UsersOf(d, q) /\ GetUsers(d)[k] \in User
               /\ k = 0 => UsersOf(d, q) = {}
<1> DEFINE us == GetUsers(d)
           I == {k \in 1..Len(us) : us[k].sub = q.sub /\ us[k].tag = q.tag}
<1>1. us \in Seq(User)
  BY UsersOfDocument
<1>2. findUser(d, q) = IF I # {} THEN Min(I) ELSE 0
  BY DEF findUser, SelectInSeq
<1> HIDE DEF us
<1>3. Len(us) \in Nat /\ DOMAIN us = 1..Len(us)
  BY <1>1
<1>4. CASE I = {}
  BY <1>2, <1>3, <1>4 DEF UsersOf, ToSet, us
<1>5. CASE I # {}
  <2>1. I \in SUBSET (1..Len(us))
    OBVIOUS
  <2>2. findUser(d, q) \in I
    BY <1>2, <1>3, <1>5, <2>1, MinOfPositions
  <2>3. us[findUser(d, q)] \in User /\ us[findUser(d, q)] \in ToSet(us)
    BY <1>1, <1>3, <2>2 DEF ToSet
  <2>4. QED
    BY <1>3, <2>2, <2>3 DEF UsersOf, us
<1>6. QED
  BY <1>4, <1>5

\* resolveTarget returns the position of a user with the SubID whose inbound was
\* among those read first, or 0.
LEMMA ResolveTarget ==
    ASSUME NEW d \in Document, NEW inbounds, NEW q, resolveTarget(q, inbounds, d) # 0
    PROVE  LET u == GetUsers(d)[resolveTarget(q, inbounds, d)]
           IN  /\ u \in User /\ u \in ToSet(GetUsers(d))
               /\ u.sub = q.sub /\ u.tag \in Tags(inbounds)
<1> DEFINE us == GetUsers(d)
           t == resolveTarget(q, inbounds, d)
           I == {k \in 1..Len(us) : /\ us[k].sub = q.sub
                                    /\ q.tag = "" \/ us[k].tag = q.tag
                                    /\ us[k].tag \in Tags(inbounds)}
<1>1. us \in Seq(User)
  BY UsersOfDocument
<1>2. t = IF I # {} THEN Min(I) ELSE 0
  BY DEF resolveTarget, SelectInSeq
<1> HIDE DEF us
<1>3. Len(us) \in Nat /\ DOMAIN us = 1..Len(us)
  BY <1>1
<1>4. I \in SUBSET (1..Len(us)) /\ I # {}
  <2>1. I # {}
    BY <1>2 DEF t
  <2>2. QED
    BY <2>1
<1>5. t \in I
  BY <1>2, <1>3, <1>4, MinOfPositions
<1> HIDE DEF t
<1>6. us[t] \in User /\ us[t] \in ToSet(us)
  <2>1. t \in 1..Len(us)
    BY <1>5
  <2>2. QED
    BY <1>1, <1>3, <2>1 DEF ToSet
<1>7. QED
  BY <1>5, <1>6 DEF us, t
-----------------------------------------------------------------------------
(* The edits of the sing-box client. *)

Good(d) == d \in Document /\ UniqueTags(d)

\* HasInbound says whether an inbound with the tag is there.
LEMMA HasInboundMeans ==
    ASSUME NEW d \in Document, NEW q
    PROVE  HasInbound(d, q) <=> \E i \in DOMAIN d.inbounds : d.inbounds[i].tag = q.tag
BY FindInbound DEF HasInbound

\* Appending an inbound with a new tag gives a good document with that inbound.
LEMMA AppendGood ==
    ASSUME NEW d, Good(d), NEW ib \in InboundMap,
           \A i \in DOMAIN d.inbounds : d.inbounds[i].tag # ib.tag
    PROVE  /\ Good(appendInbound(d, ib))
           /\ ib \in ToSet(appendInbound(d, ib).inbounds)
<1> DEFINE l == d.inbounds
           a == Append(l, ib)
<1>1. l \in Seq(InboundMap) /\ Len(l) \in Nat /\ DOMAIN l = 1..Len(l)
  BY DEF Good, Document
<1>2. /\ a \in Seq(InboundMap) /\ Len(a) = Len(l) + 1 /\ DOMAIN a = 1..(Len(l) + 1)
      /\ a[Len(l) + 1] = ib
      /\ \A i \in 1..Len(l) : a[i] = l[i]
  BY <1>1
<1>3. appendInbound(d, ib) \in Document /\ appendInbound(d, ib).inbounds = a
  BY <1>2 DEF appendInbound, Good, Document
<1> HIDE DEF a
<1>4. UniqueTags(appendInbound(d, ib))
  <2>1. ASSUME NEW i \in 1..(Len(l) + 1), NEW j \in 1..(Len(l) + 1), a[i].tag = a[j].tag
        PROVE  i = j
    <3>1. CASE i \in 1..Len(l) /\ j \in 1..Len(l)
      BY <1>1, <1>2, <2>1, <3>1 DEF Good, UniqueTags
    <3>2. CASE i = Len(l) + 1 /\ j \in 1..Len(l)
      <4>1. l[j].tag # ib.tag
        BY <1>1, <3>2
      <4>2. QED
        BY <1>2, <2>1, <3>2, <4>1
    <3>3. CASE j = Len(l) + 1 /\ i \in 1..Len(l)
      <4>1. l[i].tag # ib.tag
        BY <1>1, <3>3
      <4>2. QED
        BY <1>2, <2>1, <3>3, <4>1
    <3>4. i \in 1..Len(l) \/ i = Len(l) + 1
      BY <1>1
    <3>5. j \in 1..Len(l) \/ j = Len(l) + 1
      BY <1>1
    <3>6. QED
      BY <3>1, <3>2, <3>3, <3>4, <3>5
  <2>2. QED
    BY <1>2, <1>3, <2>1 DEF UniqueTags
<1>5. ib \in ToSet(a)
  BY <1>1, <1>2 DEF ToSet
<1>6. QED
  BY <1>3, <1>4, <1>5 DEF Good

\* Replacing an inbound by one with the same tag gives a good document.
LEMMA ReplaceGood ==
    ASSUME NEW d, Good(d), NEW i \in DOMAIN d.inbounds, NEW ib \in InboundMap,
           ib.tag = d.inbounds[i].tag
    PROVE  /\ Good(replaceInbound(d, i, ib))
           /\ DOMAIN replaceInbound(d, i, ib).inbounds = DOMAIN d.inbounds
           /\ \A j \in DOMAIN d.inbounds :
                 replaceInbound(d, i, ib).inbounds[j] = IF j = i THEN ib ELSE d.inbounds[j]
<1> DEFINE l == d.inbounds
           a == [l EXCEPT ![i] = ib]
<1>1. l \in Seq(InboundMap) /\ Len(l) \in Nat /\ DOMAIN l = 1..Len(l)
  BY DEF Good, Document
<1>2. /\ a \in Seq(InboundMap) /\ DOMAIN a = DOMAIN l
      /\ \A j \in DOMAIN l : a[j] = IF j = i THEN ib ELSE l[j]
  BY <1>1
<1>3. replaceInbound(d, i, ib) \in Document /\ replaceInbound(d, i, ib).inbounds = a
  BY <1>2 DEF replaceInbound, Good, Document
<1> HIDE DEF a
<1>4. UniqueTags(replaceInbound(d, i, ib))
  <2>1. \A j \in DOMAIN l : a[j].tag = l[j].tag
    BY <1>2
  <2>2. QED
    BY <1>2, <1>3, <2>1 DEF UniqueTags, Good
<1>5. QED
  BY <1>2, <1>3, <1>4 DEF Good

\* syncStatsUsers changes the names in the statistics section and nothing else.
LEMMA StatsGood ==
    ASSUME NEW d, Good(d)
    PROVE  Good(syncStatsUsers(d)) /\ syncStatsUsers(d).inbounds = d.inbounds
<1> DEFINE entries == UNION {ToSet(getInboundUsers(ib)) : ib \in ToSet(d.inbounds)}
           names == {e.sub : e \in {x \in entries : x.form = "proto"}}
<1>1. d.inbounds \in Seq(InboundMap) /\ d \in Document
  BY DEF Good, Document
<1>2. ASSUME NEW ib \in ToSet(d.inbounds), NEW e \in ToSet(getInboundUsers(ib))
      PROVE  e \in Entry
  <2>1. ib \in InboundMap
    BY <1>1 DEF ToSet
  <2>2. getInboundUsers(ib) \in Seq(Entry)
    BY <2>1, UsersAreAList
  <2>3. QED
    BY <2>2 DEF ToSet
<1>3. \A e \in entries : e \in Entry
  BY <1>2
<1>4. names \in SUBSET STRING
  BY <1>3 DEF Entry
<1>5. syncStatsUsers(d) = [d EXCEPT !.stats = names]
  BY DEF syncStatsUsers
<1> HIDE DEF names
<1>6. syncStatsUsers(d) \in Document /\ syncStatsUsers(d).inbounds = d.inbounds
  BY <1>1, <1>4, <1>5 DEF Document
<1>7. QED
  BY <1>6 DEF Good, UniqueTags

Without(d, i) == [d EXCEPT !.inbounds = RemoveAt(@, i)]

\* Removing the inbound with a tag gives a good document without the tag, the
\* other inbounds in their order.
LEMMA RemoveGood ==
    ASSUME NEW d, Good(d), NEW i \in DOMAIN d.inbounds, NEW new, new = Without(d, i)
    PROVE  /\ Good(new)
           /\ \A j \in DOMAIN new.inbounds : new.inbounds[j].tag # d.inbounds[i].tag
<1> DEFINE l == d.inbounds
           a == RemoveAt(l, i)
           from(j) == IF j < i THEN j ELSE j + 1
<1>1. l \in Seq(InboundMap) /\ Len(l) \in Nat /\ DOMAIN l = 1..Len(l) /\ i \in 1..Len(l)
  BY DEF Good, Document
<1>2. /\ a \in Seq(InboundMap) /\ Len(a) = Len(l) - 1
      /\ \A j \in 1..(Len(l) - 1) : a[j] = l[from(j)]
  <2> DEFINE b == SubSeq(l, 1, i - 1)
             c == SubSeq(l, i + 1, Len(l))
  <2>1. b \in Seq(InboundMap) /\ Len(b) = i - 1 /\ \A j \in 1..(i - 1) : b[j] = l[j]
    BY <1>1
  <2>2. c \in Seq(InboundMap) /\ Len(c) = Len(l) - i
    BY <1>1
  <2>3. \A j \in 1..(Len(l) - i) : c[j] = l[i + j]
    BY <1>1
  <2>4. a = b \o c
    BY DEF RemoveAt
  <2> HIDE DEF a, b, c
  <2>5. a \in Seq(InboundMap) /\ Len(a) = Len(l) - 1
    <3>1. a \in Seq(InboundMap) /\ Len(a) = Len(b) + Len(c)
      BY <2>1, <2>2, <2>4, ConcatProperties, Zenon
    <3>2. QED
      BY <1>1, <2>1, <2>2, <3>1
  <2>6. ASSUME NEW j \in 1..(Len(l) - 1)
        PROVE  a[j] = l[from(j)]
    <3>1. CASE j < i
      BY <1>1, <2>1, <2>2, <2>4, <3>1
    <3>2. CASE j >= i
      <4>1. j - (i - 1) \in 1..(Len(l) - i) /\ i + (j - (i - 1)) = j + 1
        BY <1>1, <3>2
      <4>2. a[j] = c[j - (i - 1)]
        <5>1. \A k \in 1..(Len(b) + Len(c)) :
                (b \o c)[k] = IF k <= Len(b) THEN b[k] ELSE c[k - Len(b)]
          BY <2>1, <2>2, ConcatProperties, Zenon
        <5>2. j \in 1..(Len(b) + Len(c)) /\ ~(j <= Len(b)) /\ Len(b) = i - 1
          BY <1>1, <2>1, <2>2, <3>2
        <5>3. QED
          BY <2>4, <5>1, <5>2, Zenon
      <4>3. from(j) = j + 1
        BY <1>1, <3>2
      <4>4. QED
        BY <2>3, <4>1, <4>2, <4>3
    <3>3. QED
      BY <1>1, <3>1, <3>2
  <2>7. QED
    BY <2>5, <2>6
<1> HIDE DEF a
<1>3. new \in Document /\ new.inbounds = a
  BY <1>2 DEF Good, Document, Without, a
<1>4. DOMAIN a = 1..(Len(l) - 1)
  BY <1>2
<1>5. ASSUME NEW j \in 1..(Len(l) - 1)
      PROVE  from(j) \in DOMAIN l /\ from(j) # i
  BY <1>1
<1>6. \A j, k \in 1..(Len(l) - 1) : from(j) = from(k) => j = k
  BY <1>1
<1> HIDE DEF from
<1>7. UniqueTags(new)
  <2>1. ASSUME NEW j \in 1..(Len(l) - 1), NEW k \in 1..(Len(l) - 1), a[j].tag = a[k].tag
        PROVE  j = k
    BY <1>2, <1>5, <1>6, <2>1 DEF Good, UniqueTags
  <2>2. QED
    BY <1>3, <1>4, <2>1 DEF UniqueTags
<1>8. ASSUME NEW j \in 1..(Len(l) - 1)
      PROVE  a[j].tag # l[i].tag
  BY <1>2, <1>5 DEF Good, UniqueTags
<1>9. QED
  BY <1>3, <1>4, <1>7, <1>8 DEF Good

\* The request as an edit of the client: an operation that changes the file.
EditOp == {"CreateInbound", "UpdateInbound", "DeleteInbound", "CreateUser", "UpdateUser", "DeleteUser"}

\* What a document shows after an edit that succeeded.
Shows(new, q) ==
    /\ q.op = "CreateInbound" => HasInbound(new, q)
    /\ q.op = "UpdateInbound" =>
         \E ib \in ToSet(new.inbounds) : ib.tag = q.tag /\ ib.attr = q.attr
    /\ q.op = "DeleteInbound" => ~HasInbound(new, q)
    /\ q.op \in {"CreateUser", "UpdateUser"} => \E u \in UsersOf(new, q) : u.uuid = q.uuid
    /\ q.op = "DeleteUser" => UsersOf(new, q) = {}

\* What a document shows before an edit that failed.
Refuses(d, q) ==
    /\ q.op = "CreateInbound" => HasInbound(d, q)
    /\ q.op \in {"UpdateInbound", "DeleteInbound"} => ~HasInbound(d, q)
    /\ q.op = "CreateUser" /\ HasInbound(d, q) => UsersOf(d, q) # {}
    /\ q.op = "CreateUser" /\ ~HasInbound(d, q) => UsersOf(d, q) = {}
    /\ q.op \in {"UpdateUser", "DeleteUser"} => UsersOf(d, q) = {}

InboundRequest == [op : InboundOp, tag : STRING, attr : STRING]
UserRequest == [op : UserOp, tag : STRING, sub : STRING, uuid : STRING \cup {""}]
UserEdit == [op : UserOp, tag : STRING, sub : STRING, uuid : STRING]

\* CreateInbound fails for a tag that is taken and else adds the inbound.
LEMMA CreatesInbound ==
    ASSUME NEW d, Good(d), NEW q \in InboundRequest, NEW new,
           new = ClientCreateInbound(d, q)
    PROVE  IF HasInbound(d, q) THEN new = Err ELSE Good(new) /\ HasInbound(new, q)
<1> DEFINE ib == [tag |-> q.tag, attr |-> q.attr, nested |-> FALSE,
                  users |-> Absent, ousers |-> Absent]
<1>1. d \in Document
  BY DEF Good
<1>2. CASE HasInbound(d, q)
  BY <1>2 DEF HasInbound, ClientCreateInbound
<1>3. CASE ~HasInbound(d, q)
  <2>1. new = appendInbound(d, ib)
    BY <1>3 DEF HasInbound, ClientCreateInbound
  <2>2. ib \in InboundMap /\ ib.tag = q.tag
    BY DEF InboundMap, UserList, InboundRequest
  <2>3. \A i \in DOMAIN d.inbounds : d.inbounds[i].tag # q.tag
    BY <1>1, <1>3, HasInboundMeans
  <2> HIDE DEF ib
  <2>4. Good(new) /\ ib \in ToSet(new.inbounds)
    BY <2>1, <2>2, <2>3, AppendGood
  <2>5. HasInbound(new, q)
    BY <2>2, <2>4, HasInboundMeans DEF Good, ToSet
  <2>6. QED
    BY <1>3, <2>4, <2>5
<1>4. QED
  BY <1>2, <1>3

\* UpdateInbound fails when the inbound is not there and else gives it the fields.
LEMMA UpdatesInbound ==
    ASSUME NEW d, Good(d), NEW q \in InboundRequest, NEW new,
           new = ClientUpdateInbound(d, q)
    PROVE  IF HasInbound(d, q)
           THEN /\ Good(new)
                /\ \E ib \in ToSet(new.inbounds) : ib.tag = q.tag /\ ib.attr = q.attr
           ELSE new = Err
<1> DEFINE i == findInboundIndex(d, q.tag)
           ib == [d.inbounds[i] EXCEPT !.attr = q.attr]
<1>1. d \in Document /\ d.inbounds \in Seq(InboundMap)
  BY DEF Good, Document
<1>2. CASE ~HasInbound(d, q)
  BY <1>2 DEF HasInbound, ClientUpdateInbound
<1>3. CASE HasInbound(d, q)
  <2>1. i # 0
    BY <1>3 DEF HasInbound
  <2>2. new = replaceInbound(d, i, ib)
    BY <2>1 DEF ClientUpdateInbound
  <2>3. i \in DOMAIN d.inbounds /\ d.inbounds[i].tag = q.tag
    BY <1>1, <2>1, FindInbound
  <2> HIDE DEF i
  <2>4. ib \in InboundMap /\ ib.tag = q.tag /\ ib.attr = q.attr
    <3>1. d.inbounds[i] \in InboundMap
      BY <1>1, <2>3
    <3>2. QED
      BY <2>3, <3>1 DEF InboundMap, InboundRequest
  <2> HIDE DEF ib
  <2>5. Good(new) /\ DOMAIN new.inbounds = DOMAIN d.inbounds /\ new.inbounds[i] = ib
    BY <2>2, <2>3, <2>4, ReplaceGood
  <2>6. ib \in ToSet(new.inbounds)
    BY <2>3, <2>5 DEF ToSet
  <2>7. QED
    BY <1>3, <2>4, <2>5, <2>6
<1>4. QED
  BY <1>2, <1>3

\* DeleteInbound fails when the inbound is not there and else removes it: no other
\* has its tag.
LEMMA DeletesInbound ==
    ASSUME NEW d, Good(d), NEW q \in InboundRequest, NEW new,
           new = ClientDeleteInbound(d, q)
    PROVE  IF HasInbound(d, q) THEN Good(new) /\ ~HasInbound(new, q) ELSE new = Err
<1> DEFINE i == findInboundIndex(d, q.tag)
<1>1. d \in Document
  BY DEF Good
<1>2. CASE ~HasInbound(d, q)
  BY <1>2 DEF HasInbound, ClientDeleteInbound
<1>3. CASE HasInbound(d, q)
  <2>1. i # 0
    BY <1>3 DEF HasInbound
  <2>2. new = Without(d, i)
    BY <2>1 DEF ClientDeleteInbound, Without
  <2>3. i \in DOMAIN d.inbounds /\ d.inbounds[i].tag = q.tag
    BY <1>1, <2>1, FindInbound
  <2> HIDE DEF i
  <2>4. Good(new) /\ \A j \in DOMAIN new.inbounds : new.inbounds[j].tag # d.inbounds[i].tag
    BY <2>2, <2>3, RemoveGood
  <2>5. QED
    BY <1>3, <2>3, <2>4, HasInboundMeans DEF Good
<1>4. QED
  BY <1>2, <1>3

\* The users of the only inbound with the tag decide whether a user is there.
LEMMA NoUserOfInbound ==
    ASSUME NEW d, Good(d), NEW q, NEW i \in DOMAIN d.inbounds, d.inbounds[i].tag = q.tag,
           userIndex(getInboundUsers(d.inbounds[i]), q.sub) = 0
    PROVE  UsersOf(d, q) = {}
<1>1. d \in Document /\ d.inbounds[i] \in InboundMap
  BY DEF Good, Document
<1>2. getInboundUsers(d.inbounds[i]) \in Seq(Entry)
  BY <1>1, UsersAreAList
<1>3. \A e \in ToSet(getInboundUsers(d.inbounds[i])) : e.sub # q.sub
  BY <1>2, FindUserEntry DEF ToSet
<1>4. \A j \in DOMAIN d.inbounds : d.inbounds[j].tag = q.tag => j = i
  BY DEF Good, UniqueTags
<1>5. QED
  BY <1>1, <1>3, <1>4, NoUsersOfRequest

\* An entry of the user in the inbound with the tag is a user of the request.
LEMMA UserOfInbound ==
    ASSUME NEW d \in Document, NEW q, NEW i \in DOMAIN d.inbounds, d.inbounds[i].tag = q.tag,
           userIndex(getInboundUsers(d.inbounds[i]), q.sub) # 0
    PROVE  UsersOf(d, q) # {}
<1> DEFINE us == getInboundUsers(d.inbounds[i])
           k == userIndex(us, q.sub)
<1>1. d.inbounds[i] \in InboundMap
  BY DEF Document
<1>2. us \in Seq(Entry)
  BY <1>1, UsersAreAList
<1>3. k \in DOMAIN us /\ us[k].sub = q.sub
  BY <1>2, FindUserEntry
<1>4. us[k] \in ToSet(us)
  BY <1>3 DEF ToSet
<1>5. QED
  BY <1>3, <1>4, UsersOfRequest

\* An inbound whose users list was replaced by one with the entry of the request
\* has that user.
LEMMA PutsUser ==
    ASSUME NEW d, Good(d), NEW q \in UserEdit, NEW i \in DOMAIN d.inbounds,
           d.inbounds[i].tag = q.tag, NEW us \in Seq(Entry), buildProtocolUser(q) \in ToSet(us),
           NEW new, new = replaceInbound(d, i, setInboundUsers(d.inbounds[i], us))
    PROVE  Good(new) /\ \E u \in UsersOf(new, q) : u.uuid = q.uuid
<1> DEFINE ib == setInboundUsers(d.inbounds[i], us)
           e == buildProtocolUser(q)
<1>1. d.inbounds[i] \in InboundMap
  BY DEF Good, Document
<1>2. ib \in InboundMap /\ ib.tag = d.inbounds[i].tag /\ getInboundUsers(ib) = us
  BY <1>1, UsersWrittenBack
<1> HIDE DEF ib
<1>3. Good(new) /\ DOMAIN new.inbounds = DOMAIN d.inbounds /\ new.inbounds[i] = ib
  BY <1>2, ReplaceGood DEF ib
<1>4. e \in ToSet(getInboundUsers(new.inbounds[i])) /\ e.sub = q.sub /\ e.uuid = q.uuid
  BY <1>2, <1>3 DEF buildProtocolUser
<1>5. userFromMap(e, q.tag) \in UsersOf(new, q)
  <2>1. new \in Document /\ i \in DOMAIN new.inbounds /\ new.inbounds[i].tag = q.tag
    BY <1>2, <1>3 DEF Good
  <2> HIDE DEF e
  <2>2. QED
    BY <1>4, <2>1, UsersOfRequest
<1>6. userFromMap(e, q.tag).uuid = q.uuid
  BY <1>4 DEF userFromMap
<1>7. QED
  BY <1>3, <1>5, <1>6

\* CreateUser fails without the inbound or when it has the user, and else adds it.
LEMMA CreatesUser ==
    ASSUME NEW d, Good(d), NEW q \in UserEdit, NEW new, new = ClientCreateUser(d, q)
    PROVE  \/ new = Err /\ HasInbound(d, q) /\ UsersOf(d, q) # {}
           \/ new = Err /\ ~HasInbound(d, q) /\ UsersOf(d, q) = {}
           \/ Good(new) /\ \E u \in UsersOf(new, q) : u.uuid = q.uuid
<1> DEFINE i == findInboundIndex(d, q.tag)
           us == getInboundUsers(d.inbounds[i])
<1>1. d \in Document /\ d.inbounds \in Seq(InboundMap)
  BY DEF Good, Document
<1>2. CASE i = 0
  <2>1. new = Err /\ ~HasInbound(d, q)
    BY <1>2 DEF HasInbound, ClientCreateUser
  <2>2. UsersOf(d, q) = {}
    BY <1>1, <1>2, FindInbound, NoUsersOfRequest
  <2>3. QED
    BY <2>1, <2>2
<1>3. CASE i # 0
  <2>1. i \in DOMAIN d.inbounds /\ d.inbounds[i].tag = q.tag
    BY <1>1, <1>3, FindInbound
  <2>2. us \in Seq(Entry)
    BY <1>1, <2>1, UsersAreAList
  <2>3. CASE userIndex(us, q.sub) # 0
    <3>1. new = Err /\ HasInbound(d, q)
      BY <1>3, <2>3 DEF HasInbound, ClientCreateUser
    <3>2. UsersOf(d, q) # {}
      BY <1>1, <2>1, <2>3, UserOfInbound
    <3>3. QED
      BY <3>1, <3>2
  <2>4. CASE userIndex(us, q.sub) = 0
    <3> DEFINE e == buildProtocolUser(q)
               more == Append(us, e)
    <3>1. new = replaceInbound(d, i, setInboundUsers(d.inbounds[i], more))
      BY <1>3, <2>4 DEF ClientCreateUser
    <3>2. e \in Entry
      BY DEF buildProtocolUser, Entry, UserEdit
    <3> HIDE DEF us, e
    <3>3. more \in Seq(Entry) /\ e \in ToSet(more)
      <4>1. more \in Seq(Entry) /\ Len(us) + 1 \in DOMAIN more /\ more[Len(us) + 1] = e
        BY <2>2, <3>2
      <4>2. QED
        BY <4>1 DEF ToSet
    <3> HIDE DEF more
    <3>4. QED
      BY <2>1, <3>1, <3>3, PutsUser DEF e
  <2>5. QED
    BY <2>3, <2>4
<1>4. QED
  BY <1>2, <1>3

\* UpdateUser fails when the user is not there and else rewrites its entry.
LEMMA UpdatesUser ==
    ASSUME NEW d, Good(d), NEW q \in UserEdit, NEW new, new = ClientUpdateUser(d, q)
    PROVE  \/ new = Err /\ UsersOf(d, q) = {}
           \/ Good(new) /\ \E u \in UsersOf(new, q) : u.uuid = q.uuid
<1> DEFINE i == findInboundIndex(d, q.tag)
           us == getInboundUsers(d.inbounds[i])
           k == userIndex(us, q.sub)
<1>1. d \in Document /\ d.inbounds \in Seq(InboundMap)
  BY DEF Good, Document
<1>2. CASE i = 0
  <2>1. new = Err
    BY <1>2 DEF ClientUpdateUser
  <2>2. UsersOf(d, q) = {}
    BY <1>1, <1>2, FindInbound, NoUsersOfRequest
  <2>3. QED
    BY <2>1, <2>2
<1>3. CASE i # 0
  <2>1. i \in DOMAIN d.inbounds /\ d.inbounds[i].tag = q.tag
    BY <1>1, <1>3, FindInbound
  <2>2. us \in Seq(Entry)
    BY <1>1, <2>1, UsersAreAList
  <2>3. CASE k = 0
    <3>1. new = Err
      BY <1>3, <2>3 DEF ClientUpdateUser
    <3>2. UsersOf(d, q) = {}
      BY <2>1, <2>3, NoUserOfInbound
    <3>3. QED
      BY <3>1, <3>2
  <2>4. CASE k # 0
    <3> DEFINE e == buildProtocolUser(q)
               changed == [us EXCEPT ![k] = e]
    <3>1. new = replaceInbound(d, i, setInboundUsers(d.inbounds[i], changed))
      BY <1>3, <2>4 DEF ClientUpdateUser
    <3>2. e \in Entry
      BY DEF buildProtocolUser, Entry, UserEdit
    <3>3. k \in DOMAIN us
      BY <2>2, <2>4, FindUserEntry
    <3> HIDE DEF k, us, e
    <3>4. changed \in Seq(Entry) /\ e \in ToSet(changed)
      <4>1. changed \in Seq(Entry) /\ k \in DOMAIN changed /\ changed[k] = e
        BY <2>2, <3>2, <3>3
      <4>2. QED
        BY <4>1 DEF ToSet
    <3> HIDE DEF changed
    <3>5. QED
      BY <2>1, <3>1, <3>4, PutsUser DEF e
  <2>5. QED
    BY <2>3, <2>4
<1>4. QED
  BY <1>2, <1>3

\* DeleteUser fails when no inbound has the user and else takes it out of all.
LEMMA DeletesUser ==
    ASSUME NEW d, Good(d), NEW q \in UserEdit, NEW new, new = ClientDeleteUser(d, q)
    PROVE  \/ new = Err /\ UsersOf(d, q) = {}
           \/ Good(new) /\ UsersOf(new, q) = {}
<1> DEFINE l == d.inbounds
           us(i) == getInboundUsers(l[i])
           has(i) == userIndex(us(i), q.sub) # 0
           after(i) == IF has(i) THEN setInboundUsers(l[i], withoutUser(us(i), q.sub)) ELSE l[i]
           a == [i \in DOMAIN l |-> after(i)]
<1>1. d \in Document /\ l \in Seq(InboundMap) /\ Len(l) \in Nat /\ DOMAIN l = 1..Len(l)
  BY DEF Good, Document
<1>2. ASSUME NEW i \in DOMAIN l
      PROVE  l[i] \in InboundMap /\ us(i) \in Seq(Entry)
  BY <1>1, UsersAreAList
<1>3. ASSUME NEW i \in DOMAIN l, ~has(i)
      PROVE  \A e \in ToSet(us(i)) : e.sub # q.sub
  BY <1>2, <1>3, FindUserEntry DEF ToSet
<1>4. CASE ~\E i \in DOMAIN l : has(i)
  <2>1. new = Err
    BY <1>4 DEF ClientDeleteUser
  <2>2. UsersOf(d, q) = {}
    BY <1>1, <1>3, <1>4, NoUsersOfRequest
  <2>3. QED
    BY <2>1, <2>2
<1>5. CASE \E i \in DOMAIN l : has(i)
  <2>1. new = [d EXCEPT !.inbounds = a]
    BY <1>5 DEF ClientDeleteUser
  <2>2. ASSUME NEW i \in DOMAIN l
        PROVE  /\ after(i) \in InboundMap /\ after(i).tag = l[i].tag
               /\ \A e \in ToSet(getInboundUsers(after(i))) : e.sub # q.sub
    <3>1. l[i] \in InboundMap /\ us(i) \in Seq(Entry)
      BY <1>2
    <3>2. CASE ~has(i)
      BY <1>3, <3>1, <3>2
    <3>3. CASE has(i)
      <4> DEFINE w == withoutUser(us(i), q.sub)
      <4>1. w \in Seq(Entry) /\ ToSet(w) = {e \in ToSet(us(i)) : e.sub # q.sub}
        BY <3>1, WithoutUser
      <4>2. after(i) = setInboundUsers(l[i], w)
        BY <3>3
      <4> HIDE DEF w, us, after
      <4>3. QED
        BY <3>1, <4>1, <4>2, UsersWrittenBack
    <3>4. QED
      BY <3>2, <3>3
  <2> HIDE DEF after
  <2>3. a \in Seq(InboundMap) /\ DOMAIN a = DOMAIN l
    <3>1. a \in [1..Len(l) -> InboundMap]
      BY <1>1, <2>2
    <3>2. QED
      BY <1>1, <3>1
  <2>4. \A i \in DOMAIN l : a[i] = after(i)
    OBVIOUS
  <2> HIDE DEF a
  <2>5. new \in Document /\ new.inbounds = a
    BY <1>1, <2>1, <2>3 DEF Document
  <2>6. UniqueTags(new)
    BY <2>2, <2>3, <2>4, <2>5 DEF Good, UniqueTags
  <2>7. UsersOf(new, q) = {}
    BY <2>2, <2>3, <2>4, <2>5, NoUsersOfRequest
  <2>8. QED
    BY <2>5, <2>6, <2>7 DEF Good
<1>6. QED
  BY <1>4, <1>5

\* Edit gives a user request a uuid and changes nothing else.
LEMMA EditKeeps ==
    ASSUME NEW q \in InboundRequest \cup UserRequest
    PROVE  /\ q \in InboundRequest => Edit(q) = q /\ q.op \in InboundOp
           /\ q \in UserRequest => Edit(q) \in UserEdit /\ Edit(q).sub = q.sub /\ q.op \in UserOp
           /\ Edit(q).op = q.op /\ Edit(q).tag = q.tag
<1>1. Generated \in STRING
  BY RestHandlersAssumption
<1>2. CASE q \in InboundRequest
  BY <1>2 DEF InboundRequest, UserRequest, InboundOp, UserOp, Edit
<1>3. CASE q \in UserRequest
  BY <1>1, <1>3 DEF InboundRequest, UserRequest, UserEdit, InboundOp, UserOp, Edit
<1>4. QED
  BY <1>2, <1>3

\* What a document shows of a request depends on its inbounds alone.
LEMMA SameInboundsShowTheSame ==
    ASSUME NEW d, NEW e, d.inbounds = e.inbounds, NEW q
    PROVE  HasInbound(d, q) = HasInbound(e, q) /\ UsersOf(d, q) = UsersOf(e, q)
<1>1. HasInbound(d, q) = HasInbound(e, q)
  BY DEF HasInbound, findInboundIndex
<1>2. GetUsers(d) = GetUsers(e)
  BY DEF GetUsers
<1>3. QED
  BY <1>1, <1>2 DEF UsersOf

\* An edit that succeeds leaves a good document that shows it; one that fails had a
\* document that refuses it.
LEMMA ClientEdits ==
    ASSUME NEW d, Good(d), NEW q \in InboundRequest \cup UserEdit, q.op \in EditOp
    PROVE  LET new == ClientOp(d, q)
           IN  IF new = Err THEN Refuses(d, q) ELSE Good(new) /\ Shows(new, q)
<1> DEFINE body == CASE q.op = "CreateInbound" -> ClientCreateInbound(d, q)
                     [] q.op = "UpdateInbound" -> ClientUpdateInbound(d, q)
                     [] q.op = "DeleteInbound" -> ClientDeleteInbound(d, q)
                     [] q.op = "CreateUser" -> ClientCreateUser(d, q)
                     [] q.op = "UpdateUser" -> ClientUpdateUser(d, q)
                     [] q.op = "DeleteUser" -> ClientDeleteUser(d, q)
<1>1. ClientOp(d, q) = IF body = Err THEN Err ELSE syncStatsUsers(body)
  BY DEF ClientOp
<1>2. \/ body = Err /\ Refuses(d, q)
      \/ Good(body) /\ Shows(body, q)
  <2>1. \/ q \in InboundRequest /\ q.op \in {"CreateInbound", "UpdateInbound", "DeleteInbound"}
        \/ q \in UserEdit /\ q.op \in {"CreateUser", "UpdateUser", "DeleteUser"}
    BY DEF InboundRequest, UserEdit, InboundOp, UserOp, EditOp
  <2>2. CASE q \in InboundRequest /\ q.op = "CreateInbound"
    <3>1. body = ClientCreateInbound(d, q)
      BY <2>2
    <3> HIDE DEF body
    <3>2. IF HasInbound(d, q) THEN body = Err ELSE Good(body) /\ HasInbound(body, q)
      BY <2>2, <3>1, CreatesInbound
    <3>3. QED
      BY <2>2, <3>2 DEF Refuses, Shows
  <2>3. CASE q \in InboundRequest /\ q.op = "UpdateInbound"
    <3>1. body = ClientUpdateInbound(d, q)
      BY <2>3
    <3> HIDE DEF body
    <3>2. IF HasInbound(d, q)
          THEN /\ Good(body)
               /\ \E ib \in ToSet(body.inbounds) : ib.tag = q.tag /\ ib.attr = q.attr
          ELSE body = Err
      BY <2>3, <3>1, UpdatesInbound
    <3>3. QED
      BY <2>3, <3>2 DEF Refuses, Shows
  <2>4. CASE q \in InboundRequest /\ q.op = "DeleteInbound"
    <3>1. body = ClientDeleteInbound(d, q)
      BY <2>4
    <3> HIDE DEF body
    <3>2. IF HasInbound(d, q) THEN Good(body) /\ ~HasInbound(body, q) ELSE body = Err
      BY <2>4, <3>1, DeletesInbound
    <3>3. QED
      BY <2>4, <3>2 DEF Refuses, Shows
  <2>5. CASE q \in UserEdit /\ q.op = "CreateUser"
    <3>1. body = ClientCreateUser(d, q)
      BY <2>5
    <3> HIDE DEF body
    <3>2. \/ body = Err /\ HasInbound(d, q) /\ UsersOf(d, q) # {}
          \/ body = Err /\ ~HasInbound(d, q) /\ UsersOf(d, q) = {}
          \/ Good(body) /\ \E u \in UsersOf(body, q) : u.uuid = q.uuid
      BY <2>5, <3>1, CreatesUser
    <3>3. QED
      BY <2>5, <3>2 DEF Refuses, Shows
  <2>6. CASE q \in UserEdit /\ q.op = "UpdateUser"
    <3>1. body = ClientUpdateUser(d, q)
      BY <2>6
    <3> HIDE DEF body
    <3>2. \/ body = Err /\ UsersOf(d, q) = {}
          \/ Good(body) /\ \E u \in UsersOf(body, q) : u.uuid = q.uuid
      BY <2>6, <3>1, UpdatesUser
    <3>3. QED
      BY <2>6, <3>2 DEF Refuses, Shows
  <2>7. CASE q \in UserEdit /\ q.op = "DeleteUser"
    <3>1. body = ClientDeleteUser(d, q)
      BY <2>7
    <3> HIDE DEF body
    <3>2. \/ body = Err /\ UsersOf(d, q) = {}
          \/ Good(body) /\ UsersOf(body, q) = {}
      BY <2>7, <3>1, DeletesUser
    <3>3. QED
      BY <2>7, <3>2 DEF Refuses, Shows
  <2>8. QED
    BY <2>1, <2>2, <2>3, <2>4, <2>5, <2>6, <2>7
<1> HIDE DEF body
<1>3. CASE body = Err
  <2>1. ~Good(Err)
    BY ConfigDataAssumption DEF Good
  <2>2. QED
    BY <1>1, <1>2, <1>3, <2>1
<1>4. CASE body # Err
  <2> DEFINE new == syncStatsUsers(body)
  <2>1. Good(body) /\ Shows(body, q) /\ ClientOp(d, q) = new
    BY <1>1, <1>2, <1>4
  <2>2. Good(new) /\ new.inbounds = body.inbounds
    BY <2>1, StatsGood
  <2> HIDE DEF new
  <2>3. Shows(new, q)
    <3>1. HasInbound(new, q) = HasInbound(body, q) /\ UsersOf(new, q) = UsersOf(body, q)
      BY <2>2, SameInboundsShowTheSame
    <3>2. QED
      BY <2>1, <2>2, <3>1 DEF Shows
  <2>4. new # Err
    BY <2>2, ConfigDataAssumption DEF Good
  <2>5. QED
    BY <2>1, <2>2, <2>3, <2>4
<1>5. QED
  BY <1>3, <1>4
-----------------------------------------------------------------------------
(***************************************************************************)
(* The inductive invariant.                                                *)
(***************************************************************************)
PC == {"idle", "lookup", "inbounds", "users", "call", "store"}

\* The variables hold one value for each handler.
Shape ==
    /\ hpc \in [Handlers -> PC]
    /\ DOMAIN req = Handlers /\ DOMAIN seen = Handlers /\ DOMAIN record = Handlers
    /\ DOMAIN resp = Handlers /\ DOMAIN during = Handlers
    /\ failed \subseteq Handlers

\* The configuration was always good, and during a request it was what during says.
Documents ==
    /\ Good(doc)
    /\ \A d \in held : Good(d)
    /\ \A r \in Handlers : during[r] \subseteq held \cup {doc}
    /\ \A r \in Handlers : hpc[r] # "idle" => doc \in during[r]

\* Nobody but a subscription request gets as far as the map.
InTheMap(r) ==
    /\ hpc[r] \in {"lookup", "store"} => req[r].op \in SubscriptionOp
    /\ hpc[r] = "store" => record[r] \in Record /\ Genuine(record[r], during[r])
    /\ hpc[r] \notin {"store", "idle"} => record[r] = Absent
    /\ hpc[r] = "idle" /\ record[r] # Absent => Genuine(record[r], during[r])
    /\ hpc[r] = "idle" /\ resp[r] # Absent /\ resp[r].code = "OK" /\ record[r] # Absent =>
         resp[r].body = record[r]

\* What a handler that looked once knows.
Looked(r) ==
    /\ hpc[r] = "users" =>
         /\ seen[r] \in during[r]
         /\ req[r].op \in {"GetUser", "UpdateUser", "DeleteUser"} \cup SubscriptionOp
    /\ hpc[r] = "call" =>
         /\ req[r] \in InboundRequest \cup UserRequest
         /\ req[r].op \in EditOp
         /\ req[r].op = "CreateInbound" => \E d \in during[r] : ~HasInbound(d, req[r])
         /\ req[r].op \in {"UpdateInbound", "DeleteInbound"} =>
              \E d \in during[r] : HasInbound(d, req[r])

\* What a handler that answered said.
Said(r) ==
    hpc[r] = "idle" /\ resp[r] # Absent /\ r \notin failed /\ req[r].op \notin SubscriptionOp =>
        TrueAnswer(req[r], resp[r], during[r])

HandlerInv(r) ==
    /\ hpc[r] # "idle" => req[r] \in Requests
    /\ InTheMap(r)
    /\ Looked(r)
    /\ Said(r)

StoreInv ==
    /\ IsFiniteSet(DOMAIN store)
    /\ Cardinality(DOMAIN store) <= MaxRecords
    /\ RecordsAreGenuine

RestInv == Shape /\ Documents /\ (\A r \in Handlers : HandlerInv(r)) /\ StoreInv

-----------------------------------------------------------------------------
(* Answers. *)

Reply(code, body) == [code |-> code, body |-> body]

\* An answer that one of the documents confirms is true.
LEMMA TrueOnce ==
    ASSUME NEW q, NEW docs, NEW d \in docs, NEW body
    PROVE  /\ TrueAnswer(q, Reply("INVALID_REQUEST", body), docs)
           /\ HasInbound(d, q) => TrueAnswer(q, Reply("INBOUND_EXISTS", body), docs)
           /\ ~HasInbound(d, q) => TrueAnswer(q, Reply("INBOUND_NOT_FOUND", body), docs)
           /\ UsersOf(d, q) # {} => TrueAnswer(q, Reply("USER_EXISTS", body), docs)
           /\ UsersOf(d, q) = {} => TrueAnswer(q, Reply("USER_NOT_FOUND", body), docs)
           /\ q.op = "GetInbound" /\ body \in ToSet(d.inbounds) =>
                TrueAnswer(q, Reply("OK", body), docs)
           /\ q.op = "GetUser" /\ body \in UsersOf(d, q) => TrueAnswer(q, Reply("OK", body), docs)
BY DEF TrueAnswer, Confirms, Reply

\* The answer to an edit that succeeded is true once the document shows it.
LEMMA TrueOfEdit ==
    ASSUME NEW q \in InboundRequest \cup UserRequest, q.op \in EditOp,
           NEW docs, NEW d \in docs, Shows(d, Edit(q)), NEW body
    PROVE  TrueAnswer(q, Reply("OK", body), docs)
<1>1. Edit(q).op = q.op /\ Edit(q).tag = q.tag
  BY EditKeeps
<1>2. HasInbound(d, Edit(q)) = HasInbound(d, q)
  BY <1>1 DEF HasInbound
<1>3. CASE q \in InboundRequest
  <2>1. Edit(q) = q /\ q.op \in InboundOp
    BY <1>3, EditKeeps
  <2>2. q.op \in {"CreateInbound", "UpdateInbound", "DeleteInbound"}
    BY <2>1 DEF InboundOp, EditOp
  <2>3. Confirms(q, Reply("OK", body), d)
    BY <2>1, <2>2 DEF Shows, Confirms, Reply
  <2>4. QED
    BY <2>3 DEF TrueAnswer, Reply
<1>4. CASE q \in UserRequest
  <2>1. Edit(q).sub = q.sub /\ q.op \in UserOp
    BY <1>4, EditKeeps
  <2>2. q.op \in {"CreateUser", "UpdateUser", "DeleteUser"}
    BY <2>1 DEF UserOp, EditOp
  <2>3. UsersOf(d, Edit(q)) = UsersOf(d, q)
    BY <1>1, <2>1 DEF UsersOf
  <2>4. Confirms(q, Reply("OK", body), d)
    BY <1>1, <2>2, <2>3 DEF Shows, Confirms, Reply
  <2>5. QED
    BY <2>4 DEF TrueAnswer, Reply
<1>5. QED
  BY <1>3, <1>4

\* A record that some documents bear out is borne out by more.
LEMMA GenuineGrows ==
    ASSUME NEW rec, NEW docs, NEW more, docs \subseteq more, Genuine(rec, docs)
    PROVE  Genuine(rec, more)
BY DEF Genuine

\* A handler that answers the truth, and with the record it built if it has one,
\* keeps its part of the invariant.
LEMMA Answers ==
    ASSUME Shape, NEW r \in Handlers, NEW code, NEW body, Answer(r, code, body),
           \/ record'[r] = Absent
           \/ Genuine(record'[r], during'[r]) /\ (code = "OK" => body = record'[r]),
           \/ r \in failed' \/ req'[r].op \in SubscriptionOp
           \/ TrueAnswer(req'[r], Reply(code, body), during'[r])
    PROVE  HandlerInv(r)'
<1>1. hpc'[r] = "idle" /\ resp'[r] = Reply(code, body)
  BY DEF Answer, Goto, Shape, Reply
<1>2. InTheMap(r)'
  BY <1>1 DEF InTheMap, Reply
<1>3. Looked(r)'
  BY <1>1 DEF Looked
<1>4. Said(r)'
  BY <1>1 DEF Said
<1>5. QED
  BY <1>1, <1>2, <1>3, <1>4 DEF HandlerInv

-----------------------------------------------------------------------------
(* What a step leaves alone. *)

SameAt(s) ==
    /\ hpc'[s] = hpc[s] /\ req'[s] = req[s] /\ seen'[s] = seen[s] /\ record'[s] = record[s]
    /\ resp'[s] = resp[s] /\ (s \in failed' <=> s \in failed)

\* The documents of a request that was answered are settled; of one under way they
\* may grow.
DuringAt(s) ==
    IF hpc[s] = "idle" THEN during'[s] = during[s] ELSE during[s] \subseteq during'[s]

\* The invariant of a handler survives the steps of others.
LEMMA OthersKeep ==
    ASSUME NEW s \in Handlers, HandlerInv(s), SameAt(s), DuringAt(s)
    PROVE  HandlerInv(s)'
<1>1. hpc'[s] # "idle" => req'[s] \in Requests
  BY DEF HandlerInv, SameAt
<1>2. InTheMap(s)'
  <2>1. Genuine(record[s], during[s]) => Genuine(record[s], during'[s])
    BY GenuineGrows DEF DuringAt
  <2>2. QED
    BY <2>1 DEF HandlerInv, InTheMap, SameAt, DuringAt
<1>3. Looked(s)'
  <2>1. CASE hpc[s] = "users"
    BY <2>1 DEF HandlerInv, Looked, SameAt, DuringAt
  <2>2. CASE hpc[s] = "call"
    BY <2>2 DEF HandlerInv, Looked, SameAt, DuringAt
  <2>3. QED
    BY <2>1, <2>2 DEF Looked, SameAt
<1>4. Said(s)'
  BY DEF HandlerInv, Said, SameAt, DuringAt
<1>5. QED
  BY <1>1, <1>2, <1>3, <1>4 DEF HandlerInv

\* A request that arrives, and every step of its handler, leaves the others where
\* they are.
LEMMA OwnStep ==
    ASSUME Shape, NEW r \in Handlers, Arrive(r) \/ Handle(r)
    PROVE  Shape' /\ \A s \in Handlers \ {r} : SameAt(s)
<1>1. CASE Arrive(r)
  BY <1>1 DEF Shape, PC, SameAt, Arrive, Goto
<1>2. CASE Invalid(r)
  BY <1>2 DEF Shape, PC, SameAt, Invalid, Answer, Goto, localVars
<1>3. CASE ReadInbounds(r)
  BY <1>3 DEF Shape, PC, SameAt, ReadInbounds, AfterInbounds, Fault, NoFault, Answer, Goto
<1>4. CASE ReadUsers(r)
  BY <1>4 DEF Shape, PC, SameAt, ReadUsers, AfterUsers, Fault, NoFault, Answer, Goto
<1>5. CASE Call(r)
  BY <1>5 DEF Shape, PC, SameAt, Call, SetDoc, Fault, NoFault, Answer, Goto, localVars
<1>6. CASE Lookup(r)
  BY <1>6 DEF Shape, PC, SameAt, Lookup, Answer, Goto, localVars
<1>7. CASE StoreRecord(r)
  BY <1>7 DEF Shape, PC, SameAt, StoreRecord, Answer, Goto, localVars
<1>8. QED
  BY <1>1, <1>2, <1>3, <1>4, <1>5, <1>6, <1>7 DEF Handle

StoreSame == store' = store /\ held \cup {doc} \subseteq held' \cup {doc'}

\* Records stay genuine while the configuration's history grows.
LEMMA StoreKept ==
    ASSUME StoreInv, StoreSame
    PROVE  StoreInv'
<1>1. RecordsAreGenuine'
  BY GenuineGrows DEF StoreInv, StoreSame, RecordsAreGenuine
<1>2. QED
  BY <1>1 DEF StoreInv, StoreSame

\* A step that leaves the configuration alone.
LEMMA DocumentsStay ==
    ASSUME Documents, doc' = doc, held' = held, during' = during,
           \A s \in Handlers : hpc'[s] # "idle" => hpc[s] # "idle"
    PROVE  Documents' /\ \A s \in Handlers : DuringAt(s)
BY DEF Documents, DuringAt

\* A step that installs a good document.
LEMMA DocumentsMove ==
    ASSUME Documents, NEW new, Good(new), SetDoc(new),
           \A s \in Handlers : hpc'[s] # "idle" => hpc[s] # "idle"
    PROVE  /\ Documents'
           /\ \A s \in Handlers : DuringAt(s)
           /\ held \cup {doc} \subseteq held' \cup {doc'}
<1>1. /\ doc' = new /\ held' = held \cup {doc}
      /\ \A s \in Handlers : during'[s] = IF hpc[s] = "idle" THEN during[s] ELSE during[s] \cup {new}
  BY DEF SetDoc
<1>2. \A s \in Handlers : DuringAt(s)
  BY <1>1 DEF DuringAt
<1>3. Documents'
  BY <1>1 DEF Documents
<1>4. QED
  BY <1>1, <1>2, <1>3

-----------------------------------------------------------------------------
(* The steps of a handler. *)

\* A request is one of three kinds.
LEMMA KindOfRequest ==
    ASSUME NEW q \in Requests
    PROVE  /\ q.op \in InboundOp => q \in InboundRequest
           /\ q.op \in UserOp => q \in UserRequest
           /\ q.op \in SubscriptionOp =>
                q.sub \in STRING /\ q.tag \in STRING /\ q.format \in {"sing-box", "v2ray"}
           /\ q.op \in InboundOp \cup UserOp \cup SubscriptionOp
BY DEF Requests, InboundRequest, UserRequest, InboundOp, UserOp, SubscriptionOp

\* A request that arrives starts with nothing seen.
LEMMA ArriveStep ==
    ASSUME RestInv, NEW r \in Handlers, Arrive(r)
    PROVE  Documents' /\ StoreInv' /\ HandlerInv(r)' /\ \A s \in Handlers \ {r} : DuringAt(s)
<1>1. /\ doc' = doc /\ held' = held /\ store' = store /\ resp'[r] = Absent /\ hpc[r] = "idle"
      /\ during'[r] = {doc} /\ \A s \in Handlers \ {r} : during'[s] = during[s]
      /\ \A s \in Handlers \ {r} : hpc'[s] = hpc[s]
  BY DEF RestInv, Shape, Arrive, configVars, Goto
<1>2. PICK q \in Ask :
        /\ req' = [req EXCEPT ![r] = q]
        /\ CASE q.op = "GetSubscription" ->
                  Goto(r, "lookup") /\ record' = [record EXCEPT ![r] = Absent]
             [] q.op = "GenerateSubscription" /\ q.format = "v2ray" ->
                  Goto(r, "store") /\ record' = [record EXCEPT ![r] = LegacyRecord(q)]
             [] OTHER -> Goto(r, "inbounds") /\ record' = [record EXCEPT ![r] = Absent]
  BY DEF Arrive
<1>3. q \in Requests /\ req'[r] = q
  BY <1>2, RestHandlersAssumption DEF RestInv, Shape
<1>4. \/ hpc'[r] = "lookup" /\ q.op \in SubscriptionOp /\ record'[r] = Absent
      \/ /\ hpc'[r] = "store" /\ q.op \in SubscriptionOp /\ q.format = "v2ray"
         /\ record'[r] = LegacyRecord(q)
      \/ hpc'[r] = "inbounds" /\ record'[r] = Absent
  BY <1>2 DEF RestInv, Shape, Goto, SubscriptionOp
<1>5. InTheMap(r)'
  <2>1. CASE hpc'[r] = "store"
    <3>1. q.op \in SubscriptionOp /\ record'[r] = LegacyRecord(q) /\ q.format = "v2ray"
      BY <1>4, <2>1
    <3>2. LegacyRecord(q) \in Record /\ LegacyRecord(q).format = "v2ray"
      BY <1>3, <3>1, KindOfRequest DEF LegacyRecord, Record
    <3>3. Genuine(record'[r], during'[r])
      BY <3>1, <3>2 DEF Genuine
    <3>4. QED
      BY <1>3, <2>1, <3>1, <3>2, <3>3 DEF InTheMap
  <2>2. CASE hpc'[r] # "store"
    BY <1>3, <1>4, <2>2 DEF InTheMap
  <2>3. QED
    BY <2>1, <2>2
<1>6. HandlerInv(r)'
  <2>1. Looked(r)' /\ Said(r)'
    BY <1>4 DEF Looked, Said
  <2>2. QED
    BY <1>3, <1>5, <2>1 DEF HandlerInv
<1>7. Documents'
  BY <1>1 DEF RestInv, Documents
<1>8. \A s \in Handlers \ {r} : DuringAt(s)
  BY <1>1 DEF DuringAt
<1>9. StoreInv'
  BY <1>1, StoreKept DEF RestInv, StoreSame
<1>10. QED
  BY <1>6, <1>7, <1>8, <1>9

\* A step that leaves the documents and the map alone keeps all but the handler's
\* own part.
LEMMA QuietStep ==
    ASSUME RestInv, NEW r \in Handlers, hpc[r] # "idle",
           \A s \in Handlers \ {r} : hpc'[s] = hpc[s],
           doc' = doc, held' = held, during' = during, store' = store
    PROVE  Documents' /\ StoreInv' /\ \A s \in Handlers : DuringAt(s)
<1>1. Documents' /\ \A s \in Handlers : DuringAt(s)
  BY DocumentsStay DEF RestInv
<1>2. StoreInv'
  BY StoreKept DEF RestInv, StoreSame
<1>3. QED
  BY <1>1, <1>2

\* A request that is refused as invalid.
LEMMA InvalidStep ==
    ASSUME RestInv, NEW r \in Handlers, Invalid(r)
    PROVE  Documents' /\ StoreInv' /\ HandlerInv(r)' /\ \A s \in Handlers \ {r} : DuringAt(s)
<1>1. /\ Answer(r, "INVALID_REQUEST", Absent) /\ hpc[r] # "idle"
      /\ doc' = doc /\ held' = held /\ during' = during /\ store' = store
      /\ req' = req /\ record' = record
  BY DEF Invalid, configVars, localVars
<1>2. \A s \in Handlers \ {r} : hpc'[s] = hpc[s]
  BY <1>1 DEF Answer, Goto, RestInv, Shape
<1>3. doc \in during'[r] /\ HandlerInv(r) /\ Shape
  BY <1>1 DEF RestInv, Documents
<1>4. HandlerInv(r)'
  <2>1. TrueAnswer(req'[r], Reply("INVALID_REQUEST", Absent), during'[r])
    BY <1>3, TrueOnce
  <2>2. \/ record'[r] = Absent
        \/ Genuine(record'[r], during'[r]) /\ ("INVALID_REQUEST" = "OK" => Absent = record'[r])
    BY <1>1, <1>3 DEF HandlerInv, InTheMap
  <2>3. QED
    BY <1>1, <1>3, <2>1, <2>2, Answers
<1>5. QED
  BY <1>1, <1>2, <1>4, QuietStep

\* The first look.
LEMMA ReadInboundsStep ==
    ASSUME RestInv, NEW r \in Handlers, ReadInbounds(r)
    PROVE  Documents' /\ StoreInv' /\ HandlerInv(r)' /\ \A s \in Handlers \ {r} : DuringAt(s)
<1> DEFINE q == req[r]
<1>1. /\ hpc[r] = "inbounds"
      /\ doc' = doc /\ held' = held /\ during' = during /\ store' = store
      /\ req' = req /\ record' = record
  BY DEF ReadInbounds, configVars
<1>2. /\ doc \in during'[r] /\ HandlerInv(r) /\ Shape /\ doc \in Document
      /\ q \in Requests /\ record'[r] = Absent
  BY <1>1 DEF RestInv, Documents, HandlerInv, InTheMap, Good
<1>3. \A s \in Handlers \ {r} : hpc'[s] = hpc[s]
  BY OwnStep DEF RestInv, Handle, SameAt
<1>4. ASSUME NEW code, NEW body, Answer(r, code, body),
             \/ r \in failed' \/ q.op \in SubscriptionOp
             \/ TrueAnswer(q, Reply(code, body), during'[r])
      PROVE  HandlerInv(r)'
  BY <1>1, <1>2, <1>4, Answers
<1>5. ASSUME Fault(r), NEW code, Answer(r, code, Absent)
      PROVE  HandlerInv(r)'
  BY <1>4, <1>5 DEF Fault
<1>6. ASSUME AfterInbounds(r, q), seen' = [seen EXCEPT ![r] = doc]
      PROVE  HandlerInv(r)'
  <2>1. CASE q.op = "CreateInbound" /\ HasInbound(doc, q) /\ Answer(r, "INBOUND_EXISTS", Absent)
    BY <1>2, <1>4, <2>1, TrueOnce
  <2>2. CASE ~HasInbound(doc, q) /\ Answer(r, "INBOUND_NOT_FOUND", Absent)
    BY <1>2, <1>4, <2>2, TrueOnce
  <2>3. CASE /\ q.op = "GetInbound" /\ HasInbound(doc, q)
             /\ Answer(r, "OK", doc.inbounds[findInboundIndex(doc, q.tag)])
    <3> DEFINE ib == doc.inbounds[findInboundIndex(doc, q.tag)]
    <3>1. ib \in ToSet(doc.inbounds)
      BY <1>2, <2>3, FindInbound DEF HasInbound, ToSet
    <3>2. TrueAnswer(q, Reply("OK", ib), during'[r])
      BY <1>2, <2>3, <3>1, TrueOnce
    <3>3. QED
      BY <1>4, <2>3, <3>2
  <2>4. ASSUME \/ q.op = "CreateInbound" /\ ~HasInbound(doc, q)
               \/ q.op \in {"UpdateInbound", "DeleteInbound"} \cup UserOp /\ HasInbound(doc, q)
               \/ q.op \in SubscriptionOp,
               Goto(r, IF \/ q.op \in {"GetUser", "DeleteUser"}
                          \/ q.op = "UpdateUser" /\ q.uuid = ""
                          \/ q.op \in SubscriptionOp
                       THEN "users" ELSE "call")
        PROVE  HandlerInv(r)'
    <3>1. \/ /\ hpc'[r] = "users"
             /\ q.op \in {"GetUser", "UpdateUser", "DeleteUser"} \cup SubscriptionOp
          \/ hpc'[r] = "call" /\ q.op \in EditOp
      BY <1>2, <2>4 DEF Goto, Shape, EditOp, UserOp
    <3>2. seen'[r] = doc
      BY <1>2, <1>6 DEF Shape
    <3>3. q.op \in EditOp => q \in InboundRequest \cup UserRequest
      BY <1>2, KindOfRequest DEF EditOp, InboundOp, UserOp
    <3>4. Looked(r)'
      <4>1. CASE hpc'[r] = "users"
        <5>1. hpc'[r] # "call"
          BY <4>1
        <5>2. q.op \in {"GetUser", "UpdateUser", "DeleteUser"} \cup SubscriptionOp
          BY <3>1, <4>1
        <5>3. QED
          BY <1>1, <1>2, <3>2, <5>1, <5>2 DEF Looked
      <4>2. CASE hpc'[r] = "call"
        <5>1. q.op \in EditOp /\ q \in InboundRequest \cup UserRequest
          BY <3>1, <3>3, <4>2
        <5>2. q.op = "CreateInbound" => ~HasInbound(doc, q)
          BY <2>4 DEF UserOp, SubscriptionOp
        <5>3. q.op \in {"UpdateInbound", "DeleteInbound"} => HasInbound(doc, q)
          BY <2>4 DEF UserOp, SubscriptionOp
        <5>4. QED
          BY <1>1, <1>2, <4>2, <5>1, <5>2, <5>3 DEF Looked
      <4>3. QED
        BY <3>1, <4>1, <4>2
    <3>5. InTheMap(r)' /\ Said(r)'
      BY <1>2, <3>1 DEF InTheMap, Said
    <3>6. QED
      BY <1>1, <1>2, <3>4, <3>5 DEF HandlerInv
  <2>5. QED
    BY <1>6, <2>1, <2>2, <2>3, <2>4 DEF AfterInbounds
<1>7. HandlerInv(r)'
  BY <1>5, <1>6 DEF ReadInbounds
<1>8. QED
  BY <1>1, <1>3, <1>7, QuietStep

\* The record of a subscription names the credentials of a user in one of the two
\* documents read and the options of its inbound in the other.
LEMMA RecordIsGenuine ==
    ASSUME NEW q \in Requests, q.op \in SubscriptionOp, NEW inbounds \in Document,
           NEW d \in Document, resolveTarget(q, inbounds, d) # 0,
           NEW docs, inbounds \in docs, d \in docs
    PROVE  LET rec == SingBoxRecord(q, inbounds, GetUsers(d)[resolveTarget(q, inbounds, d)])
           IN  rec \in Record /\ Genuine(rec, docs)
<1> DEFINE u == GetUsers(d)[resolveTarget(q, inbounds, d)]
           i == findInboundIndex(inbounds, u.tag)
           rec == SingBoxRecord(q, inbounds, u)
<1>1. /\ u \in User /\ u \in ToSet(GetUsers(d))
      /\ u.sub = q.sub /\ u.tag \in Tags(inbounds)
  BY ResolveTarget
<1> HIDE DEF u
<1>2. u.tag \in STRING /\ u.uuid \in STRING
  BY <1>1 DEF User
<1>3. i \in DOMAIN inbounds.inbounds /\ inbounds.inbounds[i].tag = u.tag
  <2>1. \E j \in DOMAIN inbounds.inbounds : inbounds.inbounds[j].tag = u.tag
    BY <1>1 DEF Tags, ToSet
  <2>2. QED
    BY <2>1, FindInbound
<1> HIDE DEF i
<1>4. /\ inbounds.inbounds[i] \in ToSet(inbounds.inbounds)
      /\ inbounds.inbounds[i].attr \in STRING
  <2>1. inbounds.inbounds \in Seq(InboundMap)
    BY DEF Document
  <2>2. inbounds.inbounds[i] \in InboundMap
    BY <1>3, <2>1
  <2>3. QED
    BY <1>3, <2>2 DEF InboundMap, ToSet
<1>5. rec = [sub |-> q.sub, tag |-> u.tag, format |-> "sing-box", uuid |-> u.uuid,
             attr |-> inbounds.inbounds[i].attr]
  BY DEF SingBoxRecord, i
<1>6. rec \in Record
  BY <1>2, <1>4, <1>5, KindOfRequest DEF Record
<1>7. [sub |-> rec.sub, tag |-> rec.tag, uuid |-> rec.uuid] \in Served(d)
  BY <1>1, <1>5 DEF Served
<1>8. \E ib \in ToSet(inbounds.inbounds) : ib.tag = rec.tag /\ ib.attr = rec.attr
  BY <1>3, <1>4, <1>5
<1> HIDE DEF rec
<1>9. Genuine(rec, docs)
  BY <1>7, <1>8 DEF Genuine
<1>10. QED
  BY <1>6, <1>9 DEF rec, u

\* The second look.
LEMMA ReadUsersStep ==
    ASSUME RestInv, NEW r \in Handlers, ReadUsers(r)
    PROVE  Documents' /\ StoreInv' /\ HandlerInv(r)' /\ \A s \in Handlers \ {r} : DuringAt(s)
<1> DEFINE q == req[r]
           k == findUser(doc, q)
           t == resolveTarget(q, seen[r], doc)
<1>1. /\ hpc[r] = "users"
      /\ doc' = doc /\ held' = held /\ during' = during /\ store' = store
  BY DEF ReadUsers, configVars
<1>2. /\ doc \in during'[r] /\ HandlerInv(r) /\ Shape /\ doc \in Document
      /\ q \in Requests /\ record[r] = Absent
  BY <1>1 DEF RestInv, Documents, HandlerInv, InTheMap, Good
<1>3. \A s \in Handlers \ {r} : hpc'[s] = hpc[s]
  BY OwnStep DEF RestInv, Handle, SameAt
<1>4. ASSUME NEW code, NEW body, Answer(r, code, body), req' = req, record' = record,
             \/ r \in failed' \/ q.op \in SubscriptionOp
             \/ TrueAnswer(q, Reply(code, body), during'[r])
      PROVE  HandlerInv(r)'
  BY <1>1, <1>2, <1>4, Answers
<1>5. ASSUME NEW edit, req'[r] = edit, edit \in UserRequest, edit.op \in {"UpdateUser", "DeleteUser"},
             record'[r] = Absent, Goto(r, "call")
      PROVE  HandlerInv(r)'
  <2>1. hpc'[r] = "call"
    BY <1>2, <1>5 DEF Goto, Shape
  <2>2. edit \in Requests
    BY <1>5 DEF Requests, UserRequest
  <2>3. Looked(r)'
    BY <1>5, <2>1 DEF Looked, EditOp
  <2>4. InTheMap(r)' /\ Said(r)'
    BY <1>5, <2>1 DEF InTheMap, Said
  <2>5. QED
    BY <1>5, <2>2, <2>3, <2>4 DEF HandlerInv
<1>6. ASSUME AfterUsers(r, q)
      PROVE  HandlerInv(r)'
  <2>1. ASSUME q.op = "UpdateUser",
               req' = [req EXCEPT ![r].uuid = IF k = 0 THEN "" ELSE GetUsers(doc)[k].uuid],
               Goto(r, "call"), record' = record
        PROVE  HandlerInv(r)'
    <3> DEFINE uuid == IF k = 0 THEN "" ELSE GetUsers(doc)[k].uuid
               edit == [q EXCEPT !.uuid = uuid]
    <3>1. uuid \in STRING \cup {""}
      <4>1. k # 0 => GetUsers(doc)[k] \in User
        BY <1>2, FindUser
      <4>2. k # 0 => GetUsers(doc)[k].uuid \in STRING
        BY <4>1 DEF User
      <4> HIDE DEF k
      <4>3. QED
        BY <4>2
    <3> HIDE DEF uuid
    <3>2. q \in UserRequest
      BY <1>2, <2>1, KindOfRequest DEF UserOp
    <3>3. edit \in UserRequest /\ edit.op = "UpdateUser"
      BY <2>1, <3>1, <3>2 DEF UserRequest
    <3>4. req'[r] = edit
      BY <1>2, <2>1 DEF Shape, uuid
    <3> HIDE DEF edit
    <3>5. QED
      BY <1>2, <1>5, <2>1, <3>3, <3>4
  <2>2. ASSUME k = 0, q.op \in {"GetUser", "DeleteUser"}, Answer(r, "USER_NOT_FOUND", Absent),
               req' = req, record' = record
        PROVE  HandlerInv(r)'
    <3>1. UsersOf(doc, q) = {}
      BY <1>2, <2>2, FindUser
    <3>2. QED
      BY <1>2, <1>4, <2>2, <3>1, TrueOnce
  <2>3. ASSUME q.op = "DeleteUser", Goto(r, "call"), req' = req, record' = record
        PROVE  HandlerInv(r)'
    <3>1. q \in UserRequest
      BY <1>2, <2>3, KindOfRequest DEF UserOp
    <3>2. QED
      BY <1>2, <1>5, <2>3, <3>1
  <2>4. ASSUME q.op = "GetUser", k # 0, Answer(r, "OK", GetUsers(doc)[k]),
               req' = req, record' = record
        PROVE  HandlerInv(r)'
    <3>1. GetUsers(doc)[k] \in UsersOf(doc, q)
      BY <1>2, <2>4, FindUser
    <3>2. TrueAnswer(q, Reply("OK", GetUsers(doc)[k]), during'[r])
      BY <1>2, <2>4, <3>1, TrueOnce
    <3>3. QED
      BY <1>4, <2>4, <3>2
  <2>5. ASSUME q.op \in SubscriptionOp, Answer(r, "USER_NOT_FOUND", Absent),
               req' = req, record' = record
        PROVE  HandlerInv(r)'
    BY <1>4, <2>5
  <2>6. ASSUME q.op \in SubscriptionOp, t # 0,
               record' = [record EXCEPT ![r] = SingBoxRecord(q, seen[r], GetUsers(doc)[t])],
               Goto(r, "store"), req' = req, resp' = resp
        PROVE  HandlerInv(r)'
    <3> DEFINE rec == SingBoxRecord(q, seen[r], GetUsers(doc)[t])
    <3>1. hpc'[r] = "store" /\ record'[r] = rec
      BY <1>2, <2>6 DEF Goto, Shape
    <3>2. seen[r] \in during'[r]
      BY <1>1, <1>2 DEF HandlerInv, Looked
    <3>3. seen[r] \in Document
      BY <1>1, <3>2 DEF RestInv, Documents, Good
    <3>4. rec \in Record /\ Genuine(rec, during'[r])
      BY <1>2, <2>6, <3>2, <3>3, RecordIsGenuine
    <3> HIDE DEF rec
    <3>5. InTheMap(r)' /\ Looked(r)' /\ Said(r)'
      BY <2>6, <3>1, <3>4 DEF InTheMap, Looked, Said
    <3>6. QED
      BY <1>2, <2>6, <3>5 DEF HandlerInv
  <2>7. QED
    BY <1>6, <2>1, <2>2, <2>3, <2>4, <2>5, <2>6 DEF AfterUsers
<1>7. ASSUME Fault(r), NEW code, Answer(r, code, Absent), req' = req, record' = record
      PROVE  HandlerInv(r)'
  BY <1>4, <1>7 DEF Fault
<1>8. HandlerInv(r)'
  BY <1>6, <1>7 DEF ReadUsers
<1>9. QED
  BY <1>1, <1>3, <1>8, QuietStep

\* The edit of the client.
LEMMA CallStep ==
    ASSUME RestInv, NEW r \in Handlers, Call(r)
    PROVE  Documents' /\ StoreInv' /\ HandlerInv(r)' /\ \A s \in Handlers \ {r} : DuringAt(s)
<1> DEFINE q == req[r]
           edit == Edit(q)
           new == ClientOp(doc, edit)
<1>1. hpc[r] = "call" /\ store' = store /\ req' = req /\ record' = record
  BY DEF Call, localVars
<1>2. /\ doc \in during[r] /\ HandlerInv(r) /\ Shape /\ Good(doc)
      /\ q \in InboundRequest \cup UserRequest /\ q.op \in EditOp /\ record'[r] = Absent
  BY <1>1 DEF RestInv, Documents, HandlerInv, InTheMap, Looked
<1>3. \A s \in Handlers \ {r} : hpc'[s] = hpc[s]
  BY OwnStep DEF RestInv, Handle, SameAt
<1>4. /\ edit \in InboundRequest \cup UserEdit
      /\ edit.op = q.op /\ edit.tag = q.tag
      /\ q.op \in UserOp => edit.sub = q.sub
  BY <1>2, EditKeeps DEF InboundRequest, InboundOp, UserOp
<1>5. IF new = Err THEN Refuses(doc, edit) ELSE Good(new) /\ Shows(new, edit)
  BY <1>2, <1>4, ClientEdits
<1>6. \A s \in Handlers : hpc'[s] # "idle" => hpc[s] # "idle"
  BY <1>1, <1>3
<1>7. ASSUME NEW code, NEW body, Answer(r, code, body),
             r \in failed' \/ TrueAnswer(q, Reply(code, body), during'[r])
      PROVE  HandlerInv(r)'
  BY <1>1, <1>2, <1>7, Answers
<1> HIDE DEF new
<1>8. CASE new # Err /\ SetDoc(new) /\ Answer(r, "OK", Absent)
  <2>1. /\ Documents'
        /\ \A s \in Handlers : DuringAt(s)
        /\ held \cup {doc} \subseteq held' \cup {doc'}
    BY <1>5, <1>6, <1>8, DocumentsMove DEF RestInv
  <2>2. StoreInv'
    BY <1>1, <2>1, StoreKept DEF RestInv, StoreSame
  <2>3. new \in during'[r]
    BY <1>1, <1>8 DEF SetDoc
  <2>4. TrueAnswer(q, Reply("OK", Absent), during'[r])
    BY <1>2, <1>5, <1>8, <2>3, TrueOfEdit
  <2>5. QED
    BY <1>7, <1>8, <2>1, <2>2, <2>4
<1>9. CASE /\ new = Err
           /\ Answer(r, CASE edit.op \in InboundOp -> "INTERNAL_ERROR"
                          [] edit.op = "CreateUser" /\ HasInbound(doc, edit) -> "USER_EXISTS"
                          [] OTHER -> "USER_NOT_FOUND", Absent)
           /\ doc' = doc /\ held' = held /\ during' = during
  <2>1. Refuses(doc, edit) /\ doc \in during'[r]
    BY <1>2, <1>5, <1>9
  <2>2. HasInbound(doc, edit) = HasInbound(doc, q)
    BY <1>4 DEF HasInbound
  <2>3. CASE q.op \in InboundOp
    <3>1. Answer(r, "INTERNAL_ERROR", Absent)
      <4>1. edit.op \in InboundOp /\ edit.op # "CreateUser"
        BY <1>4, <2>3 DEF InboundOp
      <4>2. QED
        BY <1>9, <4>1
    <3>2. \E d, e \in during'[r] : HasInbound(d, q) /\ ~HasInbound(e, q)
      <4>1. CASE q.op = "CreateInbound"
        <5>1. PICK e \in during[r] : ~HasInbound(e, q)
          BY <1>1, <1>2, <4>1 DEF HandlerInv, Looked
        <5>2. HasInbound(doc, q)
          BY <1>4, <2>1, <2>2, <4>1 DEF Refuses
        <5>3. QED
          BY <1>2, <1>9, <5>1, <5>2
      <4>2. CASE q.op \in {"UpdateInbound", "DeleteInbound"}
        <5>1. PICK d \in during[r] : HasInbound(d, q)
          BY <1>1, <1>2, <4>2 DEF HandlerInv, Looked
        <5>2. ~HasInbound(doc, q)
          BY <1>4, <2>1, <2>2, <4>2 DEF Refuses
        <5>3. QED
          BY <1>2, <1>9, <5>1, <5>2
      <4>3. QED
        BY <1>2, <2>3, <4>1, <4>2 DEF EditOp, InboundOp
    <3>3. TrueAnswer(q, Reply("INTERNAL_ERROR", Absent), during'[r])
      BY <3>2 DEF TrueAnswer, Reply
    <3>4. HandlerInv(r)'
      BY <1>7, <3>1, <3>3
    <3>5. QED
      BY <1>1, <1>3, <1>9, <3>4, QuietStep
  <2>4. CASE q.op \in {"CreateUser", "UpdateUser", "DeleteUser"}
    <3>1. q.op \notin InboundOp /\ UsersOf(doc, edit) = UsersOf(doc, q)
      BY <1>4, <2>4 DEF InboundOp, UserOp, UsersOf
    <3>2. CASE q.op = "CreateUser" /\ HasInbound(doc, q)
      <4>1. Answer(r, "USER_EXISTS", Absent)
        BY <1>4, <1>9, <2>2, <3>1, <3>2
      <4>2. UsersOf(doc, q) # {}
        BY <1>4, <2>1, <2>2, <3>1, <3>2 DEF Refuses
      <4>3. TrueAnswer(q, Reply("USER_EXISTS", Absent), during'[r])
        BY <2>1, <4>2, TrueOnce
      <4>4. HandlerInv(r)'
        BY <1>7, <4>1, <4>3
      <4>5. QED
        BY <1>1, <1>3, <1>9, <4>4, QuietStep
    <3>3. CASE ~(q.op = "CreateUser" /\ HasInbound(doc, q))
      <4>1. Answer(r, "USER_NOT_FOUND", Absent)
        BY <1>4, <1>9, <2>2, <3>1, <3>3
      <4>2. UsersOf(doc, q) = {}
        BY <1>4, <2>1, <2>2, <2>4, <3>1, <3>3 DEF Refuses
      <4>3. TrueAnswer(q, Reply("USER_NOT_FOUND", Absent), during'[r])
        BY <2>1, <4>2, TrueOnce
      <4>4. HandlerInv(r)'
        BY <1>7, <4>1, <4>3
      <4>5. QED
        BY <1>1, <1>3, <1>9, <4>4, QuietStep
    <3>4. QED
      BY <3>2, <3>3
  <2>5. QED
    BY <1>2, <2>3, <2>4 DEF EditOp, InboundOp
<1>10. CASE /\ Fault(r) /\ Answer(r, "INTERNAL_ERROR", Absent)
            /\ doc' = doc /\ held' = held /\ during' = during
  <2>1. HandlerInv(r)'
    BY <1>7, <1>10 DEF Fault
  <2>2. QED
    BY <1>1, <1>3, <1>10, <2>1, QuietStep
<1>11. QED
  BY <1>8, <1>9, <1>10 DEF Call, configVars, new

\* A subscription looks into the map.
LEMMA LookupStep ==
    ASSUME RestInv, NEW r \in Handlers, Lookup(r)
    PROVE  Documents' /\ StoreInv' /\ HandlerInv(r)' /\ \A s \in Handlers \ {r} : DuringAt(s)
<1>1. /\ hpc[r] = "lookup" /\ req' = req /\ record' = record
      /\ doc' = doc /\ held' = held /\ during' = during /\ store' = store
  BY DEF Lookup, configVars, localVars
<1>2. /\ HandlerInv(r) /\ Shape /\ req[r] \in Requests
      /\ req[r].op \in SubscriptionOp /\ record'[r] = Absent
  BY <1>1 DEF RestInv, HandlerInv, InTheMap
<1>3. \A s \in Handlers \ {r} : hpc'[s] = hpc[s]
  BY OwnStep DEF RestInv, Handle, SameAt
<1>4. HandlerInv(r)'
  <2>1. CASE Answer(r, "OK", store[req[r].sub])
    BY <1>1, <1>2, <2>1, Answers
  <2>2. CASE Goto(r, "inbounds") /\ resp' = resp
    <3>1. hpc'[r] = "inbounds"
      BY <1>2, <2>2 DEF Goto, Shape
    <3>2. InTheMap(r)' /\ Looked(r)' /\ Said(r)'
      BY <1>2, <3>1 DEF InTheMap, Looked, Said
    <3>3. QED
      BY <1>1, <1>2, <3>2 DEF HandlerInv
  <2>3. QED
    BY <2>1, <2>2 DEF Lookup
<1>5. QED
  BY <1>1, <1>3, <1>4, QuietStep

\* The record is cached, if there is room, and sent.
LEMMA StoreRecordStep ==
    ASSUME RestInv, NEW r \in Handlers, StoreRecord(r)
    PROVE  Documents' /\ StoreInv' /\ HandlerInv(r)' /\ \A s \in Handlers \ {r} : DuringAt(s)
<1> DEFINE rec == record[r]
           S == DOMAIN store
<1>1. /\ hpc[r] = "store" /\ req' = req /\ record' = record
      /\ doc' = doc /\ held' = held /\ during' = during
      /\ cacheRecord(rec) /\ Answer(r, "OK", rec)
  BY DEF StoreRecord, configVars, localVars
<1>2. /\ HandlerInv(r) /\ Shape /\ Documents /\ StoreInv
      /\ req[r].op \in SubscriptionOp /\ Genuine(rec, during[r])
  BY <1>1 DEF RestInv, HandlerInv, InTheMap
<1>3. \A s \in Handlers \ {r} : hpc'[s] = hpc[s]
  BY OwnStep DEF RestInv, Handle, SameAt
<1>4. HandlerInv(r)'
  BY <1>1, <1>2, Answers
<1>5. Documents' /\ \A s \in Handlers : DuringAt(s)
  <2>1. \A s \in Handlers : hpc'[s] # "idle" => hpc[s] # "idle"
    BY <1>1, <1>3
  <2>2. QED
    BY <1>1, <1>2, <2>1, DocumentsStay
<1>6. StoreInv'
  <2>1. CASE Cardinality(S) >= MaxRecords
    <3>1. store' = store
      BY <1>1, <2>1 DEF cacheRecord
    <3>2. QED
      BY <1>1, <1>2, <3>1, StoreKept DEF StoreSame
  <2>2. CASE ~(Cardinality(S) >= MaxRecords)
    <3>1. store' = [s \in S \cup {rec.sub} |-> IF s = rec.sub THEN rec ELSE store[s]]
      BY <1>1, <2>2 DEF cacheRecord
    <3>2. DOMAIN store' = S \cup {rec.sub}
      BY <3>1
    <3>3. IsFiniteSet(S) /\ Cardinality(S) \in Nat /\ MaxRecords \in Nat
      BY <1>2, FS_CardinalityType, RestHandlersAssumption DEF StoreInv
    <3>4. /\ IsFiniteSet(S \cup {rec.sub})
          /\ Cardinality(S \cup {rec.sub}) \in {Cardinality(S), Cardinality(S) + 1}
      BY <3>3, FS_AddElement
    <3>5. Cardinality(DOMAIN store') <= MaxRecords
      BY <2>2, <3>2, <3>3, <3>4
    <3>6. Genuine(rec, held \cup {doc})
      BY <1>2, GenuineGrows DEF Documents
    <3>7. ASSUME NEW s \in DOMAIN store'
          PROVE  store'[s].sub = s /\ Genuine(store'[s], held \cup {doc})
      <4>1. CASE s = rec.sub
        BY <3>1, <3>2, <3>6, <4>1
      <4>2. CASE s # rec.sub
        <5>1. s \in S /\ store'[s] = store[s]
          BY <3>1, <3>2, <4>2
        <5>2. QED
          BY <1>2, <5>1 DEF StoreInv, RecordsAreGenuine
      <4>3. QED
        BY <4>1, <4>2
    <3>8. RecordsAreGenuine'
      BY <1>1, <3>7 DEF RecordsAreGenuine
    <3>9. QED
      BY <3>2, <3>4, <3>5, <3>8 DEF StoreInv
  <2>3. QED
    BY <2>1, <2>2
<1>7. QED
  BY <1>4, <1>5, <1>6

\* A rollback brings back a document that was good.
LEMMA RollbackKeeps ==
    ASSUME RestInv, Rollback
    PROVE  RestInv'
<1>1. /\ hpc' = hpc /\ req' = req /\ seen' = seen /\ record' = record /\ resp' = resp
      /\ store' = store /\ failed' = failed
  BY DEF Rollback, localVars
<1>2. PICK old \in held : SetDoc(old)
  BY DEF Rollback
<1>3. Good(old)
  BY DEF RestInv, Documents
<1>4. /\ Documents'
      /\ \A s \in Handlers : DuringAt(s)
      /\ held \cup {doc} \subseteq held' \cup {doc'}
  BY <1>1, <1>2, <1>3, DocumentsMove DEF RestInv
<1>5. \A s \in Handlers : HandlerInv(s)'
  BY <1>1, <1>4, OthersKeep DEF RestInv, SameAt
<1>6. Shape'
  BY <1>1, <1>2 DEF RestInv, Shape, SetDoc
<1>7. StoreInv'
  BY <1>1, <1>4, StoreKept DEF RestInv, StoreSame
<1>8. QED
  BY <1>4, <1>5, <1>6, <1>7 DEF RestInv

\* The invariant holds when the agent starts.
LEMMA RestInit ==
    ASSUME Init
    PROVE  RestInv
<1>1. Shape
  BY DEF Init, Shape, PC
<1>2. Documents
  BY RestHandlersAssumption DEF Init, Documents, Good
<1>3. \A r \in Handlers : HandlerInv(r)
  BY DEF Init, HandlerInv, InTheMap, Looked, Said
<1>4. StoreInv
  <2>1. DOMAIN store = {}
    BY DEF Init
  <2>2. IsFiniteSet({}) /\ Cardinality({}) = 0 /\ MaxRecords \in Nat
    BY FS_EmptySet, RestHandlersAssumption
  <2>3. QED
    BY <2>1, <2>2 DEF StoreInv, RecordsAreGenuine
<1>5. QED
  BY <1>1, <1>2, <1>3, <1>4 DEF RestInv

\* Every step keeps the invariant.
LEMMA RestNext ==
    ASSUME RestInv, Next
    PROVE  RestInv'
<1>1. CASE Rollback
  BY <1>1, RollbackKeeps
<1>2. ASSUME NEW r \in Handlers, Arrive(r) \/ Handle(r)
      PROVE  RestInv'
  <2>1. Documents' /\ StoreInv' /\ HandlerInv(r)' /\ \A s \in Handlers \ {r} : DuringAt(s)
    BY <1>2, ArriveStep, InvalidStep, ReadInboundsStep, ReadUsersStep, CallStep, LookupStep,
       StoreRecordStep DEF Handle
  <2>2. Shape' /\ \A s \in Handlers \ {r} : SameAt(s)
    BY <1>2, OwnStep DEF RestInv
  <2>3. \A s \in Handlers \ {r} : HandlerInv(s)'
    BY <2>1, <2>2, OthersKeep DEF RestInv
  <2>4. QED
    BY <2>1, <2>2, <2>3 DEF RestInv
<1>3. QED
  BY <1>1, <1>2 DEF Next

\* A stuttering step keeps the invariant.
LEMMA RestStutters ==
    ASSUME RestInv, UNCHANGED vars
    PROVE  RestInv'
<1>1. /\ hpc' = hpc /\ req' = req /\ seen' = seen /\ record' = record /\ resp' = resp
      /\ store' = store /\ failed' = failed /\ doc' = doc /\ held' = held /\ during' = during
  BY DEF vars, configVars, localVars
<1>2. Shape' /\ Documents'
  BY <1>1 DEF RestInv, Shape, Documents
<1>3. \A s \in Handlers : HandlerInv(s)'
  BY <1>1, OthersKeep DEF RestInv, SameAt, DuringAt
<1>4. StoreInv'
  BY <1>1, StoreKept DEF RestInv, StoreSame
<1>5. QED
  BY <1>2, <1>3, <1>4 DEF RestInv
-----------------------------------------------------------------------------
\* The inductive invariant of the handlers holds in every state.
THEOREM RestInvariant == Spec => []RestInv
<1>1. Init => RestInv
  BY RestInit
<1>2. RestInv /\ [Next]_vars => RestInv'
  BY RestNext, RestStutters
<1>3. QED
  BY <1>1, <1>2, PTL DEF Spec

\* The configuration stays a document, a handler that is to cache a record has
\* one, and the map never holds more than MaxRecords records.
THEOREM RestTypeCorrect == Spec => []TypeOK
<1>1. RestInv => TypeOK
  <2> SUFFICES ASSUME RestInv
               PROVE  TypeOK
    OBVIOUS
  <2>1. doc \in Document /\ held \subseteq Document /\ failed \subseteq Handlers
    BY DEF RestInv, Shape, Documents, Good
  <2>2. \A r \in Handlers : hpc[r] = "store" => record[r] \in Record
    BY DEF RestInv, HandlerInv, InTheMap
  <2>3. \A r \in Handlers : hpc[r] = "users" => seen[r] \in Document
    BY DEF RestInv, HandlerInv, Looked, Documents, Good
  <2>4. QED
    BY <2>1, <2>2, <2>3 DEF RestInv, Shape, PC, StoreInv, TypeOK
<1>2. QED
  BY <1>1, RestInvariant, PTL

\* Every answer of an inbound or user handler was true at some moment of its
\* request, however many requests and rollbacks come between its looks and its
\* edit.
THEOREM RestAnswersWereTrue == Spec => []AnswersWereTrue
<1>1. RestInv => AnswersWereTrue
  BY DEF RestInv, HandlerInv, Said, AnswersWereTrue
<1>2. QED
  BY <1>1, RestInvariant, PTL

\* Every cached subscription record names credentials and options its user and its
\* inbound have had.
THEOREM RestRecordsAreGenuine == Spec => []RecordsAreGenuine
<1>1. RestInv => RecordsAreGenuine
  BY DEF RestInv, StoreInv
<1>2. QED
  BY <1>1, RestInvariant, PTL

\* A subscription that was not answered from the map is answered from the
\* configuration as it was during the request.
THEOREM RestLiveUnlessCached == Spec => []LiveUnlessCached
<1>1. RestInv => LiveUnlessCached
  BY DEF RestInv, HandlerInv, InTheMap, LiveUnlessCached
<1>2. QED
  BY <1>1, RestInvariant, PTL
=============================================================================
