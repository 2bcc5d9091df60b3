--------------------------- MODULE RosterSyncProofs ---------------------------
(***************************************************************************)
(* Theorems about RosterSync, for any number of contacts and of stanzas in *)
(* flight.  The inductive invariant says what the stanzas in flight will   *)
(* do: of the pushes, that the last one about a contact is what the server *)
(* keeps; of the user's commands, that the last one that matters to a wish *)
(* grants it.                                                              *)
(***************************************************************************)
EXTENDS RosterSync, RosterProofs, FiniteSetTheorems

-----------------------------------------------------------------------------
(* Stanzas. *)

Texts  == Name \cup {NULL}
Groups == Group \cup {NULL}

ServerItem == [name : Texts, group : Groups, subscription : XmppSubscription \ {"remove"}]

Pushes == [jid : Contact, subscription : XmppSubscription, name : Texts, group : Groups]

Items ==
  {x \in [jid : Contact, subscription : {NULL, "remove"}, name : Texts, group : Groups] :
     x.subscription = "remove" => x.name = NULL /\ x.group = NULL}

Presences ==
  [jid : Contact, presence : {"subscribe", "unsubscribe", "subscribed", "unsubscribed"}]

Stanzas == Items \cup Presences

Wishes ==
  [listed : BOOLEAN \cup {ANY}, name : Texts \cup {ANY}, group : Groups \cup {ANY},
   sees : {FALSE, ANY}, seen : BOOLEAN \cup {ANY}]

LEMMA ItemFields ==
  ASSUME NEW j, NEW s, NEW n, NEW g
  PROVE  /\ Item(j, s, n, g).jid = j /\ Item(j, s, n, g).subscription = s
         /\ Item(j, s, n, g).name = n /\ Item(j, s, n, g).group = g
BY DEF Item

LEMMA PresenceFields ==
  ASSUME NEW j, NEW p
  PROVE  Presence(j, p).jid = j /\ Presence(j, p).presence = p
BY DEF Presence

(* A presence is told from an item by its type, and neither is the query. *)
LEMMA Kinds ==
  /\ \A x \in Presences : "presence" \in DOMAIN x
  /\ \A x \in Items : "presence" \notin DOMAIN x
  /\ "presence" \notin DOMAIN Query
  /\ \A x \in Stanzas : x # Query /\ x.jid \in Contact /\ x.jid # NULL
  /\ Query.jid = NULL
  /\ Items \cap Presences = {}
<1>1. \A x \in Presences : DOMAIN x = {"jid", "presence"}
  BY DEF Presences
<1>2. \A x \in Items : DOMAIN x = {"jid", "subscription", "name", "group"}
  BY DEF Items
<1>3. DOMAIN Query = {"jid", "subscription", "name", "group"} /\ Query.jid = NULL
  BY DEF Query, Item
<1>4. \A x \in Stanzas : x.jid \in Contact
  BY DEF Stanzas, Items, Presences
<1>5. NULL \notin Contact
  BY DistinctAssumption
<1>6. "presence" \notin {"jid", "subscription", "name", "group"}
  OBVIOUS
<1>7. \A x \in Stanzas : x # Query
  BY <1>3, <1>4, <1>5
<1>8. Items \cap Presences = {}
  BY <1>1, <1>2, <1>6
<1> QED BY <1>1, <1>2, <1>3, <1>4, <1>5, <1>6, <1>7, <1>8

-----------------------------------------------------------------------------
(* What an item does to the client's roster. *)

In(groups, k, g) == g \in DOMAIN groups /\ k \in groups[g]

LEMMA AddToOthers ==
  ASSUME NEW groups, NEW group, NEW jid, NEW k, k # jid, NEW g
  PROVE  In(AddTo(groups, group, jid), k, g) <=> In(groups, k, g)
<1> DEFINE set == {jid} \cup IF group \in DOMAIN groups THEN groups[group] ELSE {}
           new == [h \in DOMAIN groups \cup {group} |-> IF h = group THEN set ELSE groups[h]]
<1>1. AddTo(groups, group, jid) = new
  BY DEF AddTo, Put
<1>2. k \in set <=> group \in DOMAIN groups /\ k \in groups[group]
  OBVIOUS
<1> HIDE DEF set
<1>3. CASE g = group
  BY <1>1, <1>2, <1>3 DEF In
<1>4. CASE g # group
  BY <1>1, <1>4 DEF In
<1> QED BY <1>3, <1>4

LEMMA TakeFromOthers ==
  ASSUME NEW groups, GoodGroups(groups), NEW group \in DOMAIN groups, NEW jid, NEW k, k # jid, NEW g
  PROVE  In(TakeFrom(groups, group, jid), k, g) <=> In(groups, k, g)
<1>1. TakeFrom(groups, group, jid) = [groups EXCEPT ![group] = groups[group] \ {jid}]
  BY DEF TakeFrom
<1>2. groups = [h \in DOMAIN groups |-> groups[h]]
  BY DEF GoodGroups
<1> DEFINE new == TakeFrom(groups, group, jid)
<1>3. /\ DOMAIN new = DOMAIN groups
      /\ \A h \in DOMAIN groups : new[h] = IF h = group THEN groups[group] \ {jid} ELSE groups[h]
  BY <1>1, <1>2
<1> HIDE DEF new
<1>4. In(new, k, g) <=> In(groups, k, g)
  BY <1>3 DEF In
<1> QED BY <1>4 DEF new

LEMMA RemovedOthers ==
  ASSUME NEW groups, GoodGroups(groups), NEW group \in DOMAIN groups, NEW jid, NEW k, k # jid, NEW g
  PROVE  In(Removed(groups, group, jid), k, g) <=> In(groups, k, g)
<1>1. CASE groups[group] # {jid}
  BY <1>1, TakeFromOthers DEF Removed
<1>2. CASE groups[group] = {jid}
  <2>1. Removed(groups, group, jid) = [h \in DOMAIN groups \ {group} |-> groups[h]]
    BY <1>2 DEF Removed, Restrict
  <2> QED BY <1>2, <2>1 DEF In
<1> QED BY <1>1, <1>2

LEMMA PlacedOthers ==
  ASSUME GoodGroups(roster), NEW jid, NEW group, NEW k, k # jid, NEW g
  PROVE  In(Placed(jid, group), k, g) <=> In(roster, k, g)
<1>1. CASE ~Listed(jid)
  BY <1>1, AddToOthers DEF Placed
<1>2. CASE Listed(jid) /\ GroupOf(jid) = group
  BY <1>2 DEF Placed
<1>3. CASE Listed(jid) /\ GroupOf(jid) # group
  <2>1. GroupOf(jid) \in DOMAIN roster
    BY <1>3 DEF Listed, GroupOf
  <2>2. In(TakeFrom(roster, GroupOf(jid), jid), k, g) <=> In(roster, k, g)
    BY <2>1, TakeFromOthers
  <2>3. Placed(jid, group) = AddTo(TakeFrom(roster, GroupOf(jid), jid), group, jid)
    BY <1>3 DEF Placed
  <2> QED BY <2>2, <2>3, AddToOthers
<1> QED BY <1>1, <1>2, <1>3

(* update_user changes what the client knows of the contact of the item, to   *)
(* what the item says, and of no other.                                       *)
LEMMA UpdateShows ==
  ASSUME IInv, NEW jid \in Contact, NEW subscription \in XmppSubscription,
         NEW name \in Texts, NEW group \in Groups,
         update_user(jid, subscription, name, group)
  PROVE  /\ IInv' /\ connected' = connected
         /\ \A k : k # jid => /\ k \in DOMAIN user' <=> k \in DOMAIN user
                              /\ k \in DOMAIN user => user'[k] = user[k]
                              /\ \A g : In(roster', k, g) <=> In(roster, k, g)
         /\ subscription = "remove" => jid \notin DOMAIN user'
         /\ subscription # "remove" =>
              /\ jid \in DOMAIN user'
              /\ user'[jid].name = name /\ user'[jid].subscription = subscription
              /\ In(roster', jid, group)
<1>0. IInv'
  <2>1. subscription \in Stated
    BY DEF Stated
  <2> QED BY <2>1, UpdateUserInv DEF Texts, Groups
<1>1. /\ GoodGroups(Placed(jid, group))
      /\ group \in DOMAIN Placed(jid, group)
      /\ jid \in Placed(jid, group)[group]
  BY PlacedGood DEF IInv, Groups
<1>2. \A k, g : k # jid => (In(Placed(jid, group), k, g) <=> In(roster, k, g))
  BY PlacedOthers DEF IInv
<1>3. CASE subscription = "remove"
  <2>1. /\ roster' = Removed(Placed(jid, group), group, jid)
        /\ user' = Restrict(user, DOMAIN user \ {jid}) /\ connected' = connected
    BY <1>3 DEF update_user
  <2>2. user' = [k \in DOMAIN user \ {jid} |-> user[k]]
    BY <2>1 DEF Restrict
  <2>3. \A k, g : k # jid => (In(roster', k, g) <=> In(roster, k, g))
    BY <1>1, <1>2, <2>1, RemovedOthers
  <2> QED BY <1>0, <1>3, <2>1, <2>2, <2>3
<1>4. CASE subscription # "remove"
  <2> DEFINE old == IF Listed(jid) THEN user[jid] ELSE NewUser(name)
             new == Renamed(old, name, subscription)
  <2>1. /\ roster' = Placed(jid, group) /\ connected' = connected
        /\ user' = Put(user, jid, new)
    BY <1>4 DEF update_user
  <2>2. old \in User
    BY ListedHasRecord, NewUserType DEF IInv, GoodUsers, Texts
  <2>3. new.name = name /\ new.subscription = subscription
    <3>1. subscription # NULL
      BY DistinctAssumption
    <3> HIDE DEF old
    <3>2. new = [old EXCEPT !.name = name, !.subscription = subscription]
      BY <3>1 DEF Renamed
    <3> DEFINE half == [old EXCEPT !.name = name]
    <3>3. half \in User /\ half.name = name
      BY <2>2 DEF User, Texts
    <3>4. new = [half EXCEPT !.subscription = subscription]
      BY <3>2
    <3> HIDE DEF half, new
    <3> QED BY <3>3, <3>4 DEF User
  <2> HIDE DEF old, new
  <2>4. user' = [k \in DOMAIN user \cup {jid} |-> IF k = jid THEN new ELSE user[k]]
    BY <2>1 DEF Put
  <2>5. user'[jid] = new /\ jid \in DOMAIN user'
    BY <2>4
  <2>6. \A k : k # jid => /\ k \in DOMAIN user' <=> k \in DOMAIN user
                          /\ k \in DOMAIN user => user'[k] = user[k]
    BY <2>4
  <2>7. In(roster', jid, group)
    BY <1>1, <2>1 DEF In
  <2> QED BY <1>0, <1>2, <1>4, <2>1, <2>3, <2>5, <2>6, <2>7
<1> QED BY <1>3, <1>4

-----------------------------------------------------------------------------
(* The inductive invariant. *)

SyncTypeOK ==
  /\ DOMAIN server \subseteq Contact
  /\ server \in [DOMAIN server -> ServerItem]
  /\ IsFiniteSet(DOMAIN server)
  /\ asked \subseteq DOMAIN server /\ asking \subseteq Contact
  /\ up \in Seq(Stanzas \cup {Query})
  /\ down \in Seq(Pushes)
  /\ wanted \in [Contact -> Wishes]

(* Nothing is in flight without a connection. *)
Offline == ~connected => up = <<>> /\ down = <<>>

(* The roster is asked for once, before all else, and nothing comes before it. *)
Asking == \E i \in 1..Len(up) : up[i] = Query

Fresh ==
  Asking => /\ down = <<>> /\ DOMAIN user = {}
            /\ \A i \in 1..Len(up) : up[i] = Query => i = 1

(* The client shows what the server keeps of a contact. *)
Shows(jid) ==
  /\ jid \in DOMAIN user <=> jid \in DOMAIN server
  /\ jid \in DOMAIN server =>
       /\ user[jid].name = server[jid].name
       /\ user[jid].subscription = server[jid].subscription
       /\ In(roster, jid, server[jid].group)

(* A push says what the server keeps of a contact. *)
Tells(item, jid) ==
  /\ item.subscription = "remove" => jid \notin DOMAIN server
  /\ item.subscription # "remove" =>
       /\ jid \in DOMAIN server
       /\ item.name = server[jid].name /\ item.group = server[jid].group
       /\ item.subscription = server[jid].subscription

(* The last push about a contact does, or without one the client. *)
LastOf(jid, i) == down[i].jid = jid /\ \A j \in 1..Len(down) : j > i => down[j].jid # jid

Current(jid) ==
  /\ (\A i \in 1..Len(down) : down[i].jid # jid) => Shows(jid)
  /\ \A i \in 1..Len(down) : LastOf(jid, i) => Tells(down[i], jid)

Latest == connected /\ ~Asking => \A jid \in Contact : Current(jid)

(* What the server keeps is as the user wished. *)
Stands(w, jid) ==
  /\ w.listed # ANY => (w.listed = TRUE <=> jid \in DOMAIN server)
  /\ w.name # ANY => jid \in DOMAIN server /\ server[jid].name = w.name
  /\ w.group # ANY => jid \in DOMAIN server /\ server[jid].group = w.group

(* A stanza undoes nothing that the user wished. *)
Agrees(x, w) ==
  /\ x \in Items /\ x.subscription = "remove" =>
       w.listed # TRUE /\ w.name = ANY /\ w.group = ANY
  /\ x \in Items /\ x.subscription # "remove" =>
       w.listed # FALSE /\ w.name \in {ANY, x.name} /\ w.group \in {ANY, x.group}
  /\ x \in Presences /\ x.presence \in {"subscribe", "subscribed"} => w.listed # FALSE

Requested ==
  \A jid \in Contact :
    \/ wanted[jid].listed = ANY /\ wanted[jid].name = ANY /\ wanted[jid].group = ANY
    \/ /\ \A i \in 1..Len(up) : up[i].jid = jid => Agrees(up[i], wanted[jid])
       /\ Stands(wanted[jid], jid) \/ \E i \in 1..Len(up) : up[i] \in Items /\ up[i].jid = jid

(* The stanzas by which the user ends what a contact sees, and what it sees. *)
Removal(jid) == Item(jid, "remove", NULL, NULL)
Ends(jid)    == {Removal(jid), Presence(jid, "unsubscribed")}
Stops(jid)   == {Removal(jid), Presence(jid, "unsubscribe")}

NoMoreSeen(jid) ==
  /\ \A i \in 1..Len(up) : up[i] = Presence(jid, "subscribed") =>
       \E j \in 1..Len(up) : j > i /\ up[j] \in Ends(jid)
  /\ ~Seen(Held(jid).subscription) \/ \E j \in 1..Len(up) : up[j] \in Ends(jid)

NowSeen(jid) ==
  /\ \A i \in 1..Len(up) : up[i] \notin Ends(jid)
  /\ \/ Seen(Held(jid).subscription)
     \/ jid \in asking /\ \E i \in 1..Len(up) : up[i] = Presence(jid, "subscribed")

NoMoreSees(jid) ==
  /\ \A i \in 1..Len(up) : up[i] = Presence(jid, "subscribe") =>
       \E j \in 1..Len(up) : j > i /\ up[j] \in Stops(jid)
  /\ \/ ~Sees(Held(jid).subscription) /\ jid \notin asked
     \/ \E j \in 1..Len(up) : up[j] \in Stops(jid)

Decided ==
  \A jid \in Contact :
    /\ wanted[jid].seen = FALSE => NoMoreSeen(jid)
    /\ wanted[jid].seen = TRUE  => NowSeen(jid)
    /\ wanted[jid].sees = FALSE => NoMoreSees(jid)

(* The wishes of hurried commands may be lost (the run RosterLostUpdate).      *)
SyncInv ==
  /\ IInv /\ SyncTypeOK /\ Offline /\ Fresh /\ Latest /\ Decided
  /\ ~HurryCounts => Requested

-----------------------------------------------------------------------------
(* What the server sends. *)

LEMMA HeldType ==
  ASSUME SyncTypeOK, NEW jid
  PROVE  /\ Held(jid) \in ServerItem
         /\ jid \notin DOMAIN server => Held(jid).subscription = "none"
BY DEF SyncTypeOK, Held, ServerItem, Texts, Groups, XmppSubscription

LEMMA ItemOfType ==
  ASSUME NEW jid \in Contact, NEW held \in ServerItem
  PROVE  /\ ItemOf(jid, held) \in Pushes /\ ItemOf(jid, held).jid = jid
         /\ ItemOf(jid, held).name = held.name /\ ItemOf(jid, held).group = held.group
         /\ ItemOf(jid, held).subscription = held.subscription /\ held.subscription # "remove"
BY DEF ItemOf, Item, Pushes, ServerItem

(* The roster that the server sends has an item for each contact that it      *)
(* keeps, and each says what is kept.                                         *)
LEMMA ResultTells ==
  ASSUME SyncTypeOK
  PROVE  /\ Result \in Seq(Pushes)
         /\ \A i \in 1..Len(Result) : Tells(Result[i], Result[i].jid) /\ Result[i].jid \in DOMAIN server
         /\ \A jid \in DOMAIN server : \E i \in 1..Len(Result) : Result[i].jid = jid
<1> DEFINE S == DOMAIN server
           n == Cardinality(S)
           order == CHOOSE o \in [1..n -> S] : \A i, j \in DOMAIN o : i # j => o[i] # o[j]
<1>1. n \in Nat /\ ExistsBijection(1..n, S)
  BY FS_CardinalityType DEF SyncTypeOK
<1>2. PICK b \in Bijection(1..n, S) : TRUE
  BY <1>1 DEF ExistsBijection
<1>3. b \in [1..n -> S] /\ \A i, j \in DOMAIN b : i # j => b[i] # b[j]
  BY <1>2 DEF Bijection, Injection, IsInjective
<1>4. order \in [1..n -> S] /\ \A i, j \in DOMAIN order : i # j => order[i] # order[j]
  BY <1>3
<1>5. Result = [i \in DOMAIN order |-> ItemOf(order[i], server[order[i]])]
  BY DEF Result
<1> HIDE DEF order
<1>6. order \in Injection(1..n, S)
  BY <1>4 DEF Injection, IsInjective
<1>7. IsFiniteSet(1..n) /\ Cardinality(1..n) = n
  <2>1. IsFiniteSet(1..n) /\ Cardinality(1..n) = IF 1 > n THEN 0 ELSE n - 1 + 1
    BY <1>1, FS_Interval
  <2> QED BY <1>1, <2>1
<1>8. order \in Surjection(1..n, S)
  <2>1. IsFiniteSet(S)
    BY DEF SyncTypeOK
  <2> HIDE DEF S, n
  <2>2. Cardinality(1..n) = Cardinality(S)
    BY <1>7 DEF n
  <2> QED BY <1>6, <2>1, <2>2, FS_Injection
<1>9. \A jid \in S : \E i \in 1..n : order[i] = jid
  BY <1>8 DEF Surjection
<1> HIDE DEF n
<1>10. \A i \in 1..n : /\ order[i] \in S /\ order[i] \in Contact
                       /\ server[order[i]] \in ServerItem
  BY <1>4 DEF SyncTypeOK
<1>11. Result \in [1..n -> Pushes] /\ \A i \in 1..n : Result[i] = ItemOf(order[i], server[order[i]])
  BY <1>4, <1>5, <1>10, ItemOfType
<1>12. Result \in Seq(Pushes) /\ Len(Result) = n
  BY <1>1, <1>11
<1>13. \A i \in 1..n : Tells(Result[i], Result[i].jid) /\ Result[i].jid \in DOMAIN server
  BY <1>10, <1>11, ItemOfType DEF Tells
<1>14. \A jid \in DOMAIN server : \E i \in 1..n : Result[i].jid = jid
  BY <1>9, <1>10, <1>11, ItemOfType
<1> QED BY <1>12, <1>13, <1>14

-----------------------------------------------------------------------------
(* Sequences. *)

(* What \o leaves of two sequences. *)
Joined(b, s, t) ==
  /\ Len(s) \in Nat /\ Len(t) \in Nat /\ Len(b) = Len(s) + Len(t)
  /\ \A i \in 1..Len(s) : i \in 1..Len(b) /\ b[i] = s[i]
  /\ \A i \in 1..Len(t) : Len(s) + i \in 1..Len(b) /\ b[Len(s) + i] = t[i]
  /\ \A i \in 1..Len(b) :
       \/ i \in 1..Len(s) /\ b[i] = s[i]
       \/ i > Len(s) /\ \E j \in 1..Len(t) : i = Len(s) + j /\ b[i] = t[j]

LEMMA Concatenated ==
  ASSUME NEW A, NEW s \in Seq(A), NEW t \in Seq(A)
  PROVE  s \o t \in Seq(A) /\ Joined(s \o t, s, t)
<1>1. /\ s \o t \in Seq(A) /\ Len(s \o t) = Len(s) + Len(t) /\ Len(s) \in Nat /\ Len(t) \in Nat
  OBVIOUS
<1>2. \A i \in 1..Len(s) : i \in 1..Len(s \o t) /\ (s \o t)[i] = s[i]
  OBVIOUS
<1>3. \A i \in 1..Len(t) : Len(s) + i \in 1..Len(s \o t) /\ (s \o t)[Len(s) + i] = t[i]
  OBVIOUS
<1>4. ASSUME NEW i \in 1..Len(s \o t), i \notin 1..Len(s)
      PROVE  i > Len(s) /\ \E j \in 1..Len(t) : i = Len(s) + j /\ (s \o t)[i] = t[j]
  <2>1. i - Len(s) \in 1..Len(t) /\ i = Len(s) + (i - Len(s)) /\ i > Len(s)
    BY <1>1, <1>4
  <2>2. (s \o t)[i] = t[i - Len(s)]
    BY <1>3, <2>1
  <2> QED BY <2>1, <2>2
<1> QED BY <1>1, <1>2, <1>3, <1>4 DEF Joined

LEMMA OneElement ==
  ASSUME NEW A, NEW s \in Seq(A), NEW x \in A
  PROVE  /\ <<x>> \in Seq(A) /\ Append(s, x) = s \o <<x>> /\ Append(s, x) \in Seq(A)
         /\ Len(<<x>>) = 1 /\ <<x>>[1] = x
OBVIOUS

(* What Tail leaves, and the index at which it stood before. *)
LEMMA Tailed ==
  ASSUME NEW A, NEW s \in Seq(A), s # <<>>
  PROVE  /\ Tail(s) \in Seq(A) /\ Head(s) \in A /\ Head(s) = s[1] /\ 1 \in 1..Len(s)
         /\ Len(s) \in Nat /\ Len(Tail(s)) = Len(s) - 1
         /\ \A i \in 1..Len(Tail(s)) : i + 1 \in 1..Len(s) /\ Tail(s)[i] = s[i + 1]
         /\ \A i \in 1..Len(s) : i # 1 => i - 1 \in 1..Len(Tail(s)) /\ Tail(s)[i - 1] = s[i]
<1>1. Len(s) \in Nat /\ Len(s) # 0
  BY EmptySeq
<1>2. /\ Tail(s) \in Seq(A) /\ Head(s) = s[1] /\ 1 \in 1..Len(s) /\ Len(Tail(s)) = Len(s) - 1
      /\ s[1] \in A
  BY <1>1
<1>3. \A i \in 1..Len(Tail(s)) : i + 1 \in 1..Len(s) /\ Tail(s)[i] = s[i + 1]
  BY <1>1, <1>2
<1>4. ASSUME NEW i \in 1..Len(s), i # 1
      PROVE  i - 1 \in 1..Len(Tail(s)) /\ Tail(s)[i - 1] = s[i]
  <2>1. i - 1 \in 1..Len(Tail(s)) /\ (i - 1) + 1 = i
    BY <1>1, <1>2, <1>4
  <2> QED BY <1>3, <2>1
<1> QED BY <1>1, <1>2, <1>3, <1>4

-----------------------------------------------------------------------------
(* Commands. *)

(* What a command leaves of the wishes. *)
LEMMA WishSet ==
  ASSUME SyncTypeOK, NEW jid \in Contact, NEW w \in Wishes, Wish(jid, w)
  PROVE  /\ wanted' \in [Contact -> Wishes]
         /\ \A k \in Contact : k # jid => wanted'[k] = wanted[k]
         /\ wanted'[jid].sees = w.sees /\ wanted'[jid].seen = w.seen
         /\ Busy(jid) /\ ~HurryCounts =>
              /\ wanted'[jid].listed = ANY /\ wanted'[jid].name = ANY
              /\ wanted'[jid].group = ANY
         /\ ~Busy(jid) => wanted'[jid] = w
<1> DEFINE half == [NoWish EXCEPT !.sees = w.sees]
           none == [NoWish EXCEPT !.sees = w.sees, !.seen = w.seen]
           x == IF Busy(jid) /\ ~HurryCounts THEN none ELSE w
<1>1. NoWish \in Wishes /\ NoWish.listed = ANY /\ NoWish.name = ANY /\ NoWish.group = ANY
  BY DEF NoWish, Wishes
<1>2. /\ half \in Wishes /\ half.sees = w.sees
      /\ half.listed = ANY /\ half.name = ANY /\ half.group = ANY
  BY <1>1 DEF Wishes
<1>3. none = [half EXCEPT !.seen = w.seen]
  BY <1>1 DEF Wishes
<1> HIDE DEF half, none
<1>4. /\ none \in Wishes /\ none.sees = w.sees /\ none.seen = w.seen
      /\ none.listed = ANY /\ none.name = ANY /\ none.group = ANY
  BY <1>2, <1>3 DEF Wishes
<1>5. wanted' = [wanted EXCEPT ![jid] = x]
  BY DEF Wish, none
<1>6. x \in Wishes /\ x.sees = w.sees /\ x.seen = w.seen
  BY <1>4
<1>7. Busy(jid) /\ ~HurryCounts => x.listed = ANY /\ x.name = ANY /\ x.group = ANY
  BY <1>4
<1>8. ~Busy(jid) => x = w
  OBVIOUS
<1> HIDE DEF x
<1>9. wanted' \in [Contact -> Wishes] /\ wanted'[jid] = x /\ \A k \in Contact : k # jid => wanted'[k] = wanted[k]
  BY <1>5, <1>6 DEF SyncTypeOK
<1> QED BY <1>6, <1>7, <1>8, <1>9

(* A contact about which nothing is in flight. *)
LEMMA NotBusy ==
  ASSUME SyncInv, connected, NEW jid \in Contact, ~Busy(jid)
  PROVE  /\ \A i \in 1..Len(up) : up[i].jid # jid
         /\ ~Asking /\ Shows(jid) /\ (~HurryCounts => Stands(wanted[jid], jid))
<1>1. /\ \A i \in 1..Len(up) : up[i].jid # jid /\ up[i].jid # NULL
      /\ \A i \in 1..Len(down) : down[i].jid # jid
  BY DEF Busy
<1>2. ~Asking
  BY <1>1, Kinds DEF Asking
<1>3. Shows(jid)
  BY <1>1, <1>2 DEF SyncInv, Latest, Current
<1>4. ~HurryCounts => Stands(wanted[jid], jid)
  BY <1>1 DEF SyncInv, Requested, Stands
<1> QED BY <1>1, <1>2, <1>3, <1>4

(* What the stanzas of a command do to the wish that it makes. *)
Grants(jid, new, w) ==
  /\ new \in Seq(Stanzas) /\ \A i \in 1..Len(new) : new[i].jid = jid
  /\ ~Busy(jid) /\ ~HurryCounts =>
       /\ \A i \in 1..Len(new) : Agrees(new[i], w)
       /\ Stands(w, jid) \/ \E i \in 1..Len(new) : new[i] \in Items

Decides(jid, new, w) ==
  /\ w.seen = FALSE => /\ \A i \in 1..Len(new) : new[i] # Presence(jid, "subscribed")
                       /\ wanted[jid].seen = FALSE \/ \E i \in 1..Len(new) : new[i] \in Ends(jid)
  /\ w.seen = TRUE  => /\ \A i \in 1..Len(new) : new[i] \notin Ends(jid)
                       /\ \/ wanted[jid].seen = TRUE
                          \/ /\ jid \in asking /\ ~Busy(jid)
                             /\ \E i \in 1..Len(new) : new[i] = Presence(jid, "subscribed")
  /\ w.sees = FALSE => /\ \A i \in 1..Len(new) : new[i] # Presence(jid, "subscribe")
                       /\ wanted[jid].sees = FALSE \/ \E i \in 1..Len(new) : new[i] \in Stops(jid)

(* A command keeps the invariant when its stanzas grant the wish. *)
LEMMA CommandInv ==
  ASSUME SyncInv, connected, NEW jid \in Contact, NEW w \in Wishes, NEW new,
         Grants(jid, new, w), Decides(jid, new, w),
         up' = up \o new, Wish(jid, w), UNCHANGED <<client_vars, server_vars, down>>
  PROVE  SyncInv'
<1> USE DEF SyncInv, client_vars, server_vars
<1>1. /\ wanted' \in [Contact -> Wishes]
      /\ \A k \in Contact : k # jid => wanted'[k] = wanted[k]
      /\ wanted'[jid].sees = w.sees /\ wanted'[jid].seen = w.seen
      /\ Busy(jid) /\ ~HurryCounts =>
           /\ wanted'[jid].listed = ANY /\ wanted'[jid].name = ANY
           /\ wanted'[jid].group = ANY
      /\ ~Busy(jid) => wanted'[jid] = w
  BY WishSet
<1>2. new \in Seq(Stanzas \cup {Query}) /\ up \in Seq(Stanzas \cup {Query}) /\ new \in Seq(Stanzas)
  <2>1. new \in Seq(Stanzas)
    BY DEF Grants
  <2> QED BY <2>1 DEF SyncTypeOK
<1>3. /\ up' \in Seq(Stanzas \cup {Query}) /\ Len(up') = Len(up) + Len(new)
      /\ Len(up) \in Nat /\ Len(new) \in Nat
      /\ \A i \in 1..Len(up) : i \in 1..Len(up') /\ up'[i] = up[i]
      /\ \A i \in 1..Len(new) : Len(up) + i \in 1..Len(up') /\ up'[Len(up) + i] = new[i]
      /\ \A i \in 1..Len(up') :
           \/ i \in 1..Len(up) /\ up'[i] = up[i]
           \/ i > Len(up) /\ \E j \in 1..Len(new) : up'[i] = new[j]
  <2>1. up \o new \in Seq(Stanzas \cup {Query}) /\ Joined(up \o new, up, new)
    BY <1>2, Concatenated
  <2>2. up' \in Seq(Stanzas \cup {Query}) /\ Joined(up', up, new)
    BY <2>1
  <2> QED BY <2>2 DEF Joined
<1>4. \A i \in 1..Len(new) : new[i] \in Stanzas /\ new[i] # Query /\ new[i].jid = jid
  <2>1. \A i \in 1..Len(new) : new[i] \in Stanzas
    BY <1>2
  <2> QED BY <2>1, Kinds DEF Grants
<1>5. IInv' /\ SyncTypeOK' /\ Offline'
  <2>1. IInv'
    BY DEF IInv
  <2>2. SyncTypeOK'
    BY <1>1, <1>3 DEF SyncTypeOK
  <2>3. Offline'
    BY DEF Offline
  <2> QED BY <2>1, <2>2, <2>3
<1>6. ASSUME NEW i \in 1..Len(up'), up'[i] = Query PROVE i \in 1..Len(up) /\ up[i] = Query
  <2>1. ~\E j \in 1..Len(new) : up'[i] = new[j]
    BY <1>4, <1>6
  <2> QED BY <1>3, <1>6, <2>1
<1>7. Asking' <=> Asking
  BY <1>3, <1>6 DEF Asking
<1>8. Fresh'
  BY <1>6, <1>7 DEF Fresh
<1>9. Latest'
  <2>1. \A k \in Contact : Current(k) => Current(k)'
    BY DEF Current, LastOf, Shows, Tells, In
  <2> QED BY <1>7, <2>1 DEF Latest
<1>10. ~HurryCounts => Requested'
  <2> SUFFICES ASSUME ~HurryCounts, NEW k \in Contact
               PROVE  \/ wanted'[k].listed = ANY /\ wanted'[k].name = ANY /\ wanted'[k].group = ANY
                      \/ /\ \A i \in 1..Len(up') : up'[i].jid = k => Agrees(up'[i], wanted'[k])
                         /\ \/ Stands(wanted[k], k)'
                            \/ \E i \in 1..Len(up') : up'[i] \in Items /\ up'[i].jid = k
    BY DEF Requested
  <2>1. CASE k # jid
    <3>1. wanted'[k] = wanted[k]
      BY <1>1, <2>1
    <3>2. \A i \in 1..Len(up') : up'[i].jid = k => i \in 1..Len(up) /\ up[i].jid = k /\ up'[i] = up[i]
      BY <1>3, <1>4, <2>1
    <3>3. Stands(wanted[k], k) => Stands(wanted[k], k)'
      BY <3>1 DEF Stands
    <3> QED BY <1>3, <3>1, <3>2, <3>3 DEF Requested
  <2>2. CASE k = jid /\ Busy(jid)
    BY <1>1, <2>2
  <2>3. CASE k = jid /\ ~Busy(jid)
    <3>1. wanted'[k] = w
      BY <1>1, <2>3
    <3>2. \A i \in 1..Len(up) : up[i].jid # jid
      BY <2>3, NotBusy
    <3>3. \A i \in 1..Len(up') : up'[i].jid = k => \E j \in 1..Len(new) : up'[i] = new[j]
      BY <1>3, <2>3, <3>2
    <3>4. \A i \in 1..Len(up') : up'[i].jid = k => Agrees(up'[i], w)
      BY <2>3, <3>3 DEF Grants
    <3>5. Stands(w, jid) => Stands(w, jid)'
      BY DEF Stands
    <3>6. ASSUME NEW i \in 1..Len(new), new[i] \in Items
          PROVE  \E n \in 1..Len(up') : up'[n] \in Items /\ up'[n].jid = k
      <4>1. Len(up) + i \in 1..Len(up') /\ up'[Len(up) + i] = new[i]
        BY <1>3
      <4> QED BY <1>4, <2>3, <3>6, <4>1
    <3>7. Stands(w, jid) \/ \E i \in 1..Len(new) : new[i] \in Items
      BY <2>3 DEF Grants
    <3>8. Stands(w, jid) => Stands(wanted[k], k)'
      BY <2>3, <3>1 DEF Stands
    <3> QED BY <3>1, <3>4, <3>6, <3>7, <3>8
  <2> QED BY <2>1, <2>2, <2>3
<1>11. \A k \in Contact : Held(k)' = Held(k)
  BY DEF Held
<1>12. ASSUME NEW k \in Contact, k # jid
       PROVE  /\ NoMoreSeen(k) => NoMoreSeen(k)'
              /\ NowSeen(k) => NowSeen(k)'
              /\ NoMoreSees(k) => NoMoreSees(k)'
  <2>1. \A i \in 1..Len(new) : /\ new[i] \notin Ends(k) /\ new[i] \notin Stops(k)
                               /\ new[i] # Presence(k, "subscribed") /\ new[i] # Presence(k, "subscribe")
    BY <1>4, <1>12, ItemFields, PresenceFields DEF Ends, Stops, Removal
  <2>2. NoMoreSeen(k) => NoMoreSeen(k)'
    BY <1>3, <1>11, <2>1 DEF NoMoreSeen, Ends, Removal
  <2>3. NowSeen(k) => NowSeen(k)'
    BY <1>3, <1>11, <2>1 DEF NowSeen, Ends, Removal
  <2>4. NoMoreSees(k) => NoMoreSees(k)'
    BY <1>3, <1>11, <2>1 DEF NoMoreSees, Stops, Removal
  <2> QED BY <2>2, <2>3, <2>4
<1>13. w.seen = FALSE => NoMoreSeen(jid)'
  <2> SUFFICES ASSUME w.seen = FALSE PROVE NoMoreSeen(jid)'
    OBVIOUS
  <2>1. \A i \in 1..Len(new) : new[i] # Presence(jid, "subscribed")
    BY DEF Decides
  <2>2. CASE wanted[jid].seen = FALSE
    <3>1. NoMoreSeen(jid)
      BY <2>2 DEF Decided
    <3> QED BY <1>3, <1>11, <2>1, <3>1 DEF NoMoreSeen, Ends, Removal
  <2>3. CASE \E i \in 1..Len(new) : new[i] \in Ends(jid)
    <3>1. PICK i \in 1..Len(new) : new[i] \in Ends(jid)
      BY <2>3
    <3>2. Len(up) + i \in 1..Len(up') /\ up'[Len(up) + i] \in Ends(jid)
      BY <1>3, <3>1
    <3>3. \A k \in 1..Len(up') : up'[k] = Presence(jid, "subscribed") => Len(up) + i > k
      BY <1>3, <2>1
    <3> QED BY <3>2, <3>3 DEF NoMoreSeen, Ends, Removal
  <2> QED BY <2>2, <2>3 DEF Decides
<1>14. w.seen = TRUE => NowSeen(jid)'
  <2> SUFFICES ASSUME w.seen = TRUE PROVE NowSeen(jid)'
    OBVIOUS
  <2>1. \A i \in 1..Len(new) : new[i] \notin Ends(jid)
    BY DEF Decides
  <2>2. CASE wanted[jid].seen = TRUE
    <3>1. NowSeen(jid)
      BY <2>2 DEF Decided
    <3> QED BY <1>3, <1>11, <2>1, <3>1 DEF NowSeen, Ends, Removal
  <2>3. CASE jid \in asking /\ ~Busy(jid) /\ \E i \in 1..Len(new) : new[i] = Presence(jid, "subscribed")
    <3>1. \A i \in 1..Len(up) : up[i] \notin Ends(jid)
      <4>1. \A i \in 1..Len(up) : up[i].jid # jid
        BY <2>3, NotBusy
      <4> QED BY <4>1, ItemFields, PresenceFields DEF Ends, Removal
    <3>2. \A i \in 1..Len(up') : up'[i] \notin Ends(jid)
      BY <1>3, <2>1, <3>1
    <3>3. \E i \in 1..Len(up') : up'[i] = Presence(jid, "subscribed")
      <4>1. PICK i \in 1..Len(new) : new[i] = Presence(jid, "subscribed")
        BY <2>3
      <4>2. Len(up) + i \in 1..Len(up') /\ up'[Len(up) + i] = new[i]
        BY <1>3
      <4> QED BY <4>1, <4>2
    <3> QED BY <2>3, <3>2, <3>3 DEF NowSeen, Ends, Removal
  <2> QED BY <2>2, <2>3 DEF Decides
<1>15. w.sees = FALSE => NoMoreSees(jid)'
  <2> SUFFICES ASSUME w.sees = FALSE PROVE NoMoreSees(jid)'
    OBVIOUS
  <2>1. \A i \in 1..Len(new) : new[i] # Presence(jid, "subscribe")
    BY DEF Decides
  <2>2. CASE wanted[jid].sees = FALSE
    <3>1. NoMoreSees(jid)
      BY <2>2 DEF Decided
    <3> QED BY <1>3, <1>11, <2>1, <3>1 DEF NoMoreSees, Stops, Removal
  <2>3. CASE \E i \in 1..Len(new) : new[i] \in Stops(jid)
    <3>1. PICK i \in 1..Len(new) : new[i] \in Stops(jid)
      BY <2>3
    <3>2. Len(up) + i \in 1..Len(up') /\ up'[Len(up) + i] \in Stops(jid)
      BY <1>3, <3>1
    <3>3. \A k \in 1..Len(up') : up'[k] = Presence(jid, "subscribe") => Len(up) + i > k
      BY <1>3, <2>1
    <3> QED BY <3>2, <3>3 DEF NoMoreSees, Stops, Removal
  <2> QED BY <2>2, <2>3 DEF Decides
<1>16. Decided'
  <2> SUFFICES ASSUME NEW k \in Contact
               PROVE  /\ wanted'[k].seen = FALSE => NoMoreSeen(k)'
                      /\ wanted'[k].seen = TRUE  => NowSeen(k)'
                      /\ wanted'[k].sees = FALSE => NoMoreSees(k)'
    BY DEF Decided
  <2>1. CASE k = jid
    BY <1>1, <1>13, <1>14, <1>15, <2>1
  <2>2. CASE k # jid
    BY <1>1, <1>12, <2>2 DEF Decided
  <2> QED BY <2>1, <2>2
<1> QED BY <1>5, <1>8, <1>9, <1>10, <1>16

LEMMA ItemType ==
  ASSUME NEW jid \in Contact, NEW s \in {NULL, "remove"}, NEW name \in Texts, NEW group \in Groups,
         s = "remove" => name = NULL /\ group = NULL
  PROVE  /\ Item(jid, s, name, group) \in Items /\ Item(jid, s, name, group) \in Stanzas
         /\ Item(jid, s, name, group) \notin Presences
         /\ Item(jid, s, name, group).jid = jid
<1>1. Item(jid, s, name, group) \in Items
  BY DEF Item, Items
<1> QED BY <1>1, Kinds, ItemFields DEF Stanzas

LEMMA PresenceType ==
  ASSUME NEW jid \in Contact,
         NEW type \in {"subscribe", "unsubscribe", "subscribed", "unsubscribed"}
  PROVE  /\ Presence(jid, type) \in Presences /\ Presence(jid, type) \in Stanzas
         /\ Presence(jid, type) \notin Items
         /\ Presence(jid, type).jid = jid /\ Presence(jid, type).presence = type
         /\ Presence(jid, type) # Removal(jid)
<1>1. Presence(jid, type) \in Presences
  BY DEF Presence, Presences
<1>2. Removal(jid) \in Items
  BY ItemType DEF Removal, Texts, Groups
<1> QED BY <1>1, <1>2, Kinds, PresenceFields DEF Stanzas

(* Wishes with one attribute changed. *)
WithListed(w, x) == [w EXCEPT !.listed = x]
WithName(w, x)   == [w EXCEPT !.name = x]
WithGroup(w, x)  == [w EXCEPT !.group = x]
WithSees(w, x)   == [w EXCEPT !.sees = x]
WithSeen(w, x)   == [w EXCEPT !.seen = x]

LEMMA WithListedType ==
  ASSUME NEW w \in Wishes, NEW x \in BOOLEAN \cup {ANY}
  PROVE  /\ WithListed(w, x) \in Wishes /\ WithListed(w, x).listed = x
         /\ WithListed(w, x).name = w.name /\ WithListed(w, x).group = w.group
         /\ WithListed(w, x).sees = w.sees /\ WithListed(w, x).seen = w.seen
BY DEF WithListed, Wishes

LEMMA WithNameType ==
  ASSUME NEW w \in Wishes, NEW x \in Texts \cup {ANY}
  PROVE  /\ WithName(w, x) \in Wishes /\ WithName(w, x).name = x
         /\ WithName(w, x).listed = w.listed /\ WithName(w, x).group = w.group
         /\ WithName(w, x).sees = w.sees /\ WithName(w, x).seen = w.seen
BY DEF WithName, Wishes

LEMMA WithGroupType ==
  ASSUME NEW w \in Wishes, NEW x \in Groups \cup {ANY}
  PROVE  /\ WithGroup(w, x) \in Wishes /\ WithGroup(w, x).group = x
         /\ WithGroup(w, x).listed = w.listed /\ WithGroup(w, x).name = w.name
         /\ WithGroup(w, x).sees = w.sees /\ WithGroup(w, x).seen = w.seen
BY DEF WithGroup, Wishes

LEMMA WithSeesType ==
  ASSUME NEW w \in Wishes, NEW x \in {FALSE, ANY}
  PROVE  /\ WithSees(w, x) \in Wishes /\ WithSees(w, x).sees = x
         /\ WithSees(w, x).listed = w.listed /\ WithSees(w, x).name = w.name
         /\ WithSees(w, x).group = w.group /\ WithSees(w, x).seen = w.seen
BY DEF WithSees, Wishes

LEMMA WithSeenType ==
  ASSUME NEW w \in Wishes, NEW x \in BOOLEAN \cup {ANY}
  PROVE  /\ WithSeen(w, x) \in Wishes /\ WithSeen(w, x).seen = x
         /\ WithSeen(w, x).listed = w.listed /\ WithSeen(w, x).name = w.name
         /\ WithSeen(w, x).group = w.group /\ WithSeen(w, x).sees = w.sees
BY DEF WithSeen, Wishes

LEMMA NoWishType ==
  /\ NoWish \in Wishes /\ NoWish.listed = ANY /\ NoWish.name = ANY /\ NoWish.group = ANY
  /\ NoWish.sees = ANY /\ NoWish.seen = ANY
BY DEF NoWish, Wishes

(* A command that sends one stanza. *)
LEMMA OneStanzaInv ==
  ASSUME SyncInv, connected, NEW jid \in Contact, NEW w \in Wishes,
         NEW x \in Stanzas, x.jid = jid,
         ~Busy(jid) /\ ~HurryCounts => Agrees(x, w) /\ (Stands(w, jid) \/ x \in Items),
         w.seen = FALSE => /\ x # Presence(jid, "subscribed")
                           /\ wanted[jid].seen = FALSE \/ x \in Ends(jid),
         w.seen = TRUE  => /\ x \notin Ends(jid)
                           /\ \/ wanted[jid].seen = TRUE
                              \/ jid \in asking /\ ~Busy(jid) /\ x = Presence(jid, "subscribed"),
         w.sees = FALSE => /\ x # Presence(jid, "subscribe")
                           /\ wanted[jid].sees = FALSE \/ x \in Stops(jid),
         Send(x), Wish(jid, w), UNCHANGED <<client_vars, server_vars, down>>
  PROVE  SyncInv'
<1>1. PICK new : new = <<x>>
  OBVIOUS
<1>2. Len(new) = 1 /\ new[1] = x /\ 1 \in 1..Len(new) /\ \A i \in 1..Len(new) : new[i] = x
  BY <1>1
<1>3. new \in Seq(Stanzas)
  BY <1>1, OneElement
<1>4. up' = up \o new
  BY <1>1, OneElement, Kinds DEF Send, SyncInv, SyncTypeOK
<1>5. Grants(jid, new, w)
  BY <1>2, <1>3 DEF Grants
<1>6. Decides(jid, new, w)
  BY <1>2 DEF Decides
<1> QED BY <1>4, <1>5, <1>6, CommandInv

LEMMA TwoElements ==
  ASSUME NEW A, NEW s \in Seq(A), NEW x \in A, NEW y \in A
  PROVE  /\ <<x, y>> \in Seq(A) /\ Append(s, x) \o <<y>> = s \o <<x, y>>
         /\ Append(s, x) \o <<>> = Append(s, x)
OBVIOUS

LEMMA NoOpinion ==
  /\ ANY # TRUE /\ ANY # FALSE /\ NULL # "remove" /\ ANY \notin Texts /\ ANY \notin Groups
  /\ NULL \in Texts /\ NULL \in Groups
BY DistinctAssumption DEF XmppSubscription, Texts, Groups

(* What is asked for, typed. *)
LEMMA WantedType ==
  ASSUME SyncInv, NEW jid \in Contact
  PROVE  /\ wanted[jid] \in Wishes
         /\ wanted[jid].listed \in BOOLEAN \cup {ANY} /\ wanted[jid].name \in Texts \cup {ANY}
         /\ wanted[jid].group \in Groups \cup {ANY} /\ wanted[jid].sees \in {FALSE, ANY}
         /\ wanted[jid].seen \in BOOLEAN \cup {ANY}
<1>1. wanted[jid] \in Wishes
  BY DEF SyncInv, SyncTypeOK
<1> QED BY <1>1 DEF Wishes

(* A removal ends both subscriptions, and no other item does. *)
LEMMA Endings ==
  ASSUME NEW jid \in Contact
  PROVE  /\ \A name \in Texts, group \in Groups :
              /\ Item(jid, NULL, name, group) \notin Ends(jid)
              /\ Item(jid, NULL, name, group) \notin Stops(jid)
              /\ \A p : Item(jid, NULL, name, group) # Presence(jid, p)
         /\ Presence(jid, "subscribed") \notin Ends(jid) /\ Presence(jid, "subscribe") \notin Ends(jid)
         /\ Presence(jid, "unsubscribe") \notin Ends(jid)
         /\ Presence(jid, "subscribe") \notin Stops(jid)
         /\ \A p : Removal(jid) # Presence(jid, p)
<1>1. ASSUME NEW s, NEW name, NEW group, NEW p PROVE Item(jid, s, name, group) # Presence(jid, p)
  <2>1. DOMAIN Item(jid, s, name, group) = {"jid", "subscription", "name", "group"}
    BY DEF Item
  <2>2. DOMAIN Presence(jid, p) = {"jid", "presence"}
    BY DEF Presence
  <2> QED BY <2>1, <2>2
<1>2. \A name, group : Item(jid, NULL, name, group) # Removal(jid)
  BY ItemFields, NoOpinion DEF Removal
<1>3. \A p : Removal(jid) # Presence(jid, p)
  BY <1>1 DEF Removal
<1>4. \A p, q : p # q => Presence(jid, p) # Presence(jid, q)
  BY PresenceFields
<1> QED BY <1>1, <1>2, <1>3, <1>4 DEF Ends, Stops

LEMMA AddInv ==
  ASSUME SyncInv, NEW jid \in Contact, NEW nosub \in BOOLEAN, cmd_roster_add(jid, nosub)
  PROVE  SyncInv'
<1> DEFINE sees == IF nosub THEN wanted[jid].sees ELSE ANY
           x == Item(jid, NULL, NULL, NULL)
           p == Presence(jid, "subscribe")
           listed == WithListed(NoWish, TRUE)
           seen == WithSeen(listed, wanted[jid].seen)
<1>1. PICK w : w = WithSees(seen, sees)
  OBVIOUS
<1>2. /\ w \in Wishes /\ w.listed = TRUE /\ w.name = ANY /\ w.group = ANY
      /\ w.sees = sees /\ w.seen = wanted[jid].seen
  <2>1. listed \in Wishes /\ listed.listed = TRUE /\ listed.name = ANY /\ listed.group = ANY
    BY NoWishType, WithListedType
  <2> HIDE DEF listed
  <2>2. /\ seen \in Wishes /\ seen.listed = TRUE /\ seen.name = ANY /\ seen.group = ANY
        /\ seen.seen = wanted[jid].seen
    BY <2>1, WantedType, WithSeenType
  <2>3. sees \in {FALSE, ANY}
    BY WantedType
  <2> HIDE DEF seen, sees
  <2> QED BY <1>1, <2>2, <2>3, WithSeesType
<1>3. Wish(jid, w)
  BY <1>1 DEF cmd_roster_add, WithSees, WithSeen, WithListed
<1>4. connected /\ UNCHANGED <<client_vars, server_vars, down>>
  BY DEF cmd_roster_add, Ready
<1>5. up' = Append(up, x) \o (IF nosub THEN <<>> ELSE <<p>>)
  BY DEF cmd_roster_add
<1>6. x \in Items /\ x \in Stanzas /\ x \notin Presences /\ x.jid = jid /\ x.subscription = NULL
      /\ x.name = NULL /\ x.group = NULL
  BY NoOpinion, ItemType, ItemFields
<1>7. p \in Presences /\ p \in Stanzas /\ p \notin Items /\ p.jid = jid /\ p.presence = "subscribe"
  BY PresenceType
<1>8. Agrees(x, w) /\ Agrees(p, w)
  BY <1>2, <1>6, <1>7, NoOpinion DEF Agrees
<1>9. /\ x \notin Ends(jid) /\ x # Presence(jid, "subscribed") /\ x # Presence(jid, "subscribe")
      /\ p \notin Ends(jid) /\ p # Presence(jid, "subscribed")
  BY NoOpinion, Endings, PresenceFields
<1>10. up \in Seq(Stanzas \cup {Query})
  BY DEF SyncInv, SyncTypeOK
<1> HIDE DEF x, p
<1>11. CASE nosub
  <2>1. Send(x)
    BY <1>5, <1>6, <1>10, <1>11, TwoElements DEF Send
  <2>2. w.sees = wanted[jid].sees
    BY <1>2, <1>11
  <2> QED BY <1>2, <1>3, <1>4, <1>6, <1>8, <1>9, <2>1, <2>2, OneStanzaInv
<1>12. CASE ~nosub
  <2>1. PICK new : new = <<x, p>>
    OBVIOUS
  <2>2. up' = up \o new
    BY <1>5, <1>6, <1>7, <1>10, <1>12, <2>1, TwoElements
  <2>3. new \in Seq(Stanzas)
    BY <1>6, <1>7, <2>1
  <2>4. Len(new) = 2 /\ new[1] = x /\ new[2] = p
    BY <2>1
  <2>5. 1 \in 1..Len(new) /\ \A i \in 1..Len(new) : new[i] = x \/ new[i] = p
    BY <2>4
  <2>6. Grants(jid, new, w)
    BY <1>6, <1>7, <1>8, <2>3, <2>4, <2>5 DEF Grants
  <2>7. w.sees = ANY /\ w.seen = wanted[jid].seen
    BY <1>2, <1>12
  <2>8. Decides(jid, new, w)
    BY <1>9, <2>5, <2>7, NoOpinion DEF Decides
  <2> QED BY <1>2, <1>3, <1>4, <2>2, <2>6, <2>8, CommandInv
<1> QED BY <1>11, <1>12

LEMMA RemoveInv ==
  ASSUME SyncInv, NEW jid \in Contact, cmd_roster_remove(jid)
  PROVE  SyncInv'
<1> DEFINE x == Item(jid, "remove", NULL, NULL)
           listed == WithListed(NoWish, FALSE)
           sees == WithSees(listed, FALSE)
<1>1. PICK w : w = WithSeen(sees, FALSE)
  OBVIOUS
<1>2. /\ w \in Wishes /\ w.listed = FALSE /\ w.name = ANY /\ w.group = ANY
      /\ w.sees = FALSE /\ w.seen = FALSE
  <2>1. listed \in Wishes /\ listed.listed = FALSE /\ listed.name = ANY /\ listed.group = ANY
    BY NoWishType, WithListedType
  <2> HIDE DEF listed
  <2>2. /\ sees \in Wishes /\ sees.listed = FALSE /\ sees.name = ANY /\ sees.group = ANY
        /\ sees.sees = FALSE
    BY <2>1, WithSeesType
  <2> HIDE DEF sees
  <2> QED BY <1>1, <2>2, WithSeenType
<1>3. Wish(jid, w)
  BY <1>1 DEF cmd_roster_remove, WithSees, WithSeen, WithListed
<1>4. connected /\ Send(x) /\ UNCHANGED <<client_vars, server_vars, down>>
  BY DEF cmd_roster_remove, Ready
<1>5. x \in Items /\ x \in Stanzas /\ x \notin Presences /\ x.jid = jid /\ x.subscription = "remove"
  BY NoOpinion, ItemType, ItemFields
<1>6. Agrees(x, w)
  BY <1>2, <1>5 DEF Agrees
<1>7. x \in Ends(jid) /\ x \in Stops(jid) /\ \A p : x # Presence(jid, p)
  <2>1. x = Removal(jid)
    BY DEF Removal
  <2> QED BY <2>1, Endings DEF Ends, Stops
<1> HIDE DEF x
<1> QED BY <1>2, <1>3, <1>4, <1>5, <1>6, <1>7, OneStanzaInv

(* The group that the client finds a listed contact in is the one it is in. *)
LEMMA GroupFound ==
  ASSUME IInv, NEW jid, Listed(jid)
  PROVE  /\ GroupOf(jid) \in Groups /\ GroupOf(jid) \in DOMAIN roster
         /\ \A g : In(roster, jid, g) <=> g = GroupOf(jid)
<1>1. GroupOf(jid) \in DOMAIN roster /\ jid \in roster[GroupOf(jid)]
  BY DEF Listed, GroupOf
<1>2. GoodGroups(roster)
  BY DEF IInv
<1> QED BY <1>1, <1>2 DEF GoodGroups, In, Groups

(* What the client repeats when nothing is in flight is what was asked for. *)
LEMMA Repeats ==
  ASSUME SyncInv, connected, NEW jid \in Contact, Listed(jid), ~Busy(jid), ~HurryCounts
  PROVE  wanted[jid].name \in {ANY, user[jid].name} /\ wanted[jid].group \in {ANY, GroupOf(jid)}
<1>1. Shows(jid) /\ Stands(wanted[jid], jid)
  BY NotBusy
<1>2. jid \in DOMAIN user
  BY ListedHasRecord DEF SyncInv
<1>3. /\ jid \in DOMAIN server /\ user[jid].name = server[jid].name
      /\ In(roster, jid, server[jid].group)
  BY <1>1, <1>2 DEF Shows
<1>4. GroupOf(jid) = server[jid].group
  BY <1>3, GroupFound DEF SyncInv
<1> QED BY <1>1, <1>3, <1>4 DEF Stands

LEMMA NameInv ==
  ASSUME SyncInv, NEW jid \in Contact, NEW name \in Texts, cmd_roster_name(jid, name)
  PROVE  SyncInv'
<1>1. connected /\ Listed(jid) /\ UNCHANGED <<client_vars, server_vars, down>>
  BY DEF cmd_roster_name, Ready
<1> DEFINE named == WithName(wanted[jid], name)
<1>2. PICK x, w : x = Item(jid, NULL, name, GroupOf(jid)) /\ w = WithListed(named, TRUE)
  OBVIOUS
<1>3. /\ w \in Wishes /\ w.listed = TRUE /\ w.name = name /\ w.group = wanted[jid].group
      /\ w.sees = wanted[jid].sees /\ w.seen = wanted[jid].seen
  <2>1. /\ named \in Wishes /\ named.name = name /\ named.group = wanted[jid].group
        /\ named.sees = wanted[jid].sees /\ named.seen = wanted[jid].seen
    <3>1. wanted[jid] \in Wishes /\ name \in Texts \cup {ANY}
      BY WantedType
    <3> QED BY <3>1, WithNameType
  <2> HIDE DEF named
  <2> QED BY <1>2, <2>1, WithListedType
<1>4. Send(x) /\ Wish(jid, w)
  BY <1>2 DEF cmd_roster_name, WithName, WithListed
<1>5. GroupOf(jid) \in Groups
  BY <1>1, GroupFound DEF SyncInv
<1>6. /\ x \in Items /\ x \in Stanzas /\ x \notin Presences /\ x.jid = jid /\ x.subscription = NULL
      /\ x.name = name /\ x.group = GroupOf(jid)
  BY <1>2, <1>5, NoOpinion, ItemType, ItemFields
<1>7. x \notin Ends(jid) /\ x \notin Stops(jid) /\ \A p : x # Presence(jid, p)
  BY <1>2, <1>5, Endings
<1>8. ~Busy(jid) /\ ~HurryCounts => Agrees(x, w)
  BY <1>1, <1>3, <1>6, Repeats, NoOpinion DEF Agrees
<1> QED BY <1>1, <1>3, <1>4, <1>6, <1>7, <1>8, OneStanzaInv

LEMMA GroupInv ==
  ASSUME SyncInv, NEW jid \in Contact, NEW group \in Groups, cmd_roster_group(jid, group)
  PROVE  SyncInv'
<1>1. connected /\ Listed(jid) /\ UNCHANGED <<client_vars, server_vars, down>>
  BY DEF cmd_roster_group, Ready
<1> DEFINE grouped == WithGroup(wanted[jid], group)
<1>2. PICK x, w : x = Item(jid, NULL, user[jid].name, group) /\ w = WithListed(grouped, TRUE)
  OBVIOUS
<1>3. /\ w \in Wishes /\ w.listed = TRUE /\ w.name = wanted[jid].name /\ w.group = group
      /\ w.sees = wanted[jid].sees /\ w.seen = wanted[jid].seen
  <2>1. /\ grouped \in Wishes /\ grouped.name = wanted[jid].name /\ grouped.group = group
        /\ grouped.sees = wanted[jid].sees /\ grouped.seen = wanted[jid].seen
    <3>1. wanted[jid] \in Wishes /\ group \in Groups \cup {ANY}
      BY WantedType
    <3> QED BY <3>1, WithGroupType
  <2> HIDE DEF grouped
  <2> QED BY <1>2, <2>1, WithListedType
<1>4. Send(x) /\ Wish(jid, w)
  BY <1>2 DEF cmd_roster_group, WithGroup, WithListed
<1>5. user[jid].name \in Texts
  <2>1. jid \in DOMAIN user
    BY <1>1, ListedHasRecord DEF SyncInv
  <2> QED BY <2>1 DEF SyncInv, IInv, GoodUsers, User, Texts
<1>6. /\ x \in Items /\ x \in Stanzas /\ x \notin Presences /\ x.jid = jid /\ x.subscription = NULL
      /\ x.name = user[jid].name /\ x.group = group
  BY <1>2, <1>5, NoOpinion, ItemType, ItemFields
<1>7. x \notin Ends(jid) /\ x \notin Stops(jid) /\ \A p : x # Presence(jid, p)
  BY <1>2, <1>5, Endings
<1>8. ~Busy(jid) /\ ~HurryCounts => Agrees(x, w)
  BY <1>1, <1>3, <1>6, Repeats, NoOpinion DEF Agrees
<1> QED BY <1>1, <1>3, <1>4, <1>6, <1>7, <1>8, OneStanzaInv

(* A presence of the user asks for no name and no group. *)
LEMMA StillStands ==
  ASSUME NEW jid, NEW w, NEW v, Stands(w, jid),
         v.listed \in {w.listed, ANY}, v.name = w.name, v.group = w.group
  PROVE  Stands(v, jid)
BY DEF Stands

LEMMA AcceptInv ==
  ASSUME SyncInv, NEW jid \in Contact, cmd_presence_accept(jid)
  PROVE  SyncInv'
<1> DEFINE seen == IF jid \in asking /\ ~Busy(jid) THEN TRUE ELSE ANY
           listed == WithListed(wanted[jid], ANY)
<1>1. PICK x, w : x = Presence(jid, "subscribed") /\ w = WithSeen(listed, seen)
  OBVIOUS
<1>2. /\ w \in Wishes /\ w.listed = ANY /\ w.name = wanted[jid].name /\ w.group = wanted[jid].group
      /\ w.sees = wanted[jid].sees /\ w.seen = seen
  <2>1. wanted[jid] \in Wishes
    BY WantedType
  <2>2. /\ listed \in Wishes /\ listed.listed = ANY /\ listed.name = wanted[jid].name
        /\ listed.group = wanted[jid].group /\ listed.sees = wanted[jid].sees
    BY <2>1, WithListedType
  <2>3. seen \in BOOLEAN \cup {ANY}
    OBVIOUS
  <2> HIDE DEF listed, seen
  <2> QED BY <1>1, <2>2, <2>3, WithSeenType
<1>3. /\ connected /\ Send(x) /\ Wish(jid, w)
      /\ UNCHANGED <<client_vars, server_vars, down>>
  BY <1>1 DEF cmd_presence_accept, Ready, WithSeen, WithListed
<1>4. x \in Presences /\ x \in Stanzas /\ x \notin Items /\ x.jid = jid /\ x.presence = "subscribed"
  BY <1>1, PresenceType
<1>5. x \notin Ends(jid) /\ x # Presence(jid, "subscribe")
  BY <1>1, Endings, PresenceFields
<1>6. ~Busy(jid) /\ ~HurryCounts => Agrees(x, w) /\ Stands(w, jid)
  <2>1. Agrees(x, w)
    BY <1>2, <1>4, NoOpinion DEF Agrees
  <2>2. ~Busy(jid) /\ ~HurryCounts => Stands(wanted[jid], jid)
    BY <1>3, NotBusy
  <2> QED BY <1>2, <2>1, <2>2, StillStands
<1>7. /\ w.seen # FALSE
      /\ w.seen = TRUE => jid \in asking /\ ~Busy(jid)
  BY <1>2, NoOpinion
<1> QED BY <1>1, <1>2, <1>3, <1>4, <1>5, <1>6, <1>7, OneStanzaInv

LEMMA DenyInv ==
  ASSUME SyncInv, NEW jid \in Contact, cmd_presence_deny(jid)
  PROVE  SyncInv'
<1>1. PICK x, w : x = Presence(jid, "unsubscribed") /\ w = WithSeen(wanted[jid], FALSE)
  OBVIOUS
<1>2. /\ w \in Wishes /\ w.listed = wanted[jid].listed /\ w.name = wanted[jid].name
      /\ w.group = wanted[jid].group /\ w.sees = wanted[jid].sees /\ w.seen = FALSE
  <2>1. wanted[jid] \in Wishes
    BY WantedType
  <2> QED BY <1>1, <2>1, WithSeenType
<1>3. /\ connected /\ Send(x) /\ Wish(jid, w)
      /\ UNCHANGED <<client_vars, server_vars, down>>
  BY <1>1 DEF cmd_presence_deny, Ready, WithSeen
<1>4. x \in Presences /\ x \in Stanzas /\ x \notin Items /\ x.jid = jid /\ x.presence = "unsubscribed"
  BY <1>1, PresenceType
<1>5. x \in Ends(jid) /\ x # Presence(jid, "subscribed") /\ x # Presence(jid, "subscribe")
  BY <1>1, PresenceFields DEF Ends
<1>6. ~Busy(jid) /\ ~HurryCounts => Agrees(x, w) /\ Stands(w, jid)
  <2>1. Agrees(x, w)
    BY <1>4 DEF Agrees
  <2>2. ~Busy(jid) /\ ~HurryCounts => Stands(wanted[jid], jid)
    BY <1>3, NotBusy
  <2> QED BY <1>2, <2>1, <2>2, StillStands
<1> QED BY <1>2, <1>3, <1>4, <1>5, <1>6, OneStanzaInv

LEMMA SubscribeInv ==
  ASSUME SyncInv, NEW jid \in Contact, cmd_presence_subscribe(jid)
  PROVE  SyncInv'
<1> DEFINE listed == WithListed(wanted[jid], ANY)
<1>1. PICK x, w : x = Presence(jid, "subscribe") /\ w = WithSees(listed, ANY)
  OBVIOUS
<1>2. /\ w \in Wishes /\ w.listed = ANY /\ w.name = wanted[jid].name /\ w.group = wanted[jid].group
      /\ w.sees = ANY /\ w.seen = wanted[jid].seen
  <2>1. wanted[jid] \in Wishes
    BY WantedType
  <2>2. /\ listed \in Wishes /\ listed.listed = ANY /\ listed.name = wanted[jid].name
        /\ listed.group = wanted[jid].group /\ listed.seen = wanted[jid].seen
    BY <2>1, WithListedType
  <2> HIDE DEF listed
  <2> QED BY <1>1, <2>2, WithSeesType
<1>3. /\ connected /\ Send(x) /\ Wish(jid, w)
      /\ UNCHANGED <<client_vars, server_vars, down>>
  BY <1>1 DEF cmd_presence_subscribe, Ready, WithSees, WithListed
<1>4. x \in Presences /\ x \in Stanzas /\ x \notin Items /\ x.jid = jid /\ x.presence = "subscribe"
  BY <1>1, PresenceType
<1>5. x \notin Ends(jid) /\ x # Presence(jid, "subscribed")
  BY <1>1, Endings, PresenceFields
<1>6. ~Busy(jid) /\ ~HurryCounts => Agrees(x, w) /\ Stands(w, jid)
  <2>1. Agrees(x, w)
    BY <1>2, <1>4, NoOpinion DEF Agrees
  <2>2. ~Busy(jid) /\ ~HurryCounts => Stands(wanted[jid], jid)
    BY <1>3, NotBusy
  <2> QED BY <1>2, <2>1, <2>2, StillStands
<1>7. w.sees # FALSE
  BY <1>2, NoOpinion
<1> QED BY <1>2, <1>3, <1>4, <1>5, <1>6, <1>7, OneStanzaInv

LEMMA UnsubscribeInv ==
  ASSUME SyncInv, NEW jid \in Contact, cmd_presence_unsubscribe(jid)
  PROVE  SyncInv'
<1>1. PICK x, w : x = Presence(jid, "unsubscribe") /\ w = WithSees(wanted[jid], FALSE)
  OBVIOUS
<1>2. /\ w \in Wishes /\ w.listed = wanted[jid].listed /\ w.name = wanted[jid].name
      /\ w.group = wanted[jid].group /\ w.sees = FALSE /\ w.seen = wanted[jid].seen
  <2>1. wanted[jid] \in Wishes
    BY WantedType
  <2> QED BY <1>1, <2>1, WithSeesType
<1>3. /\ connected /\ Send(x) /\ Wish(jid, w)
      /\ UNCHANGED <<client_vars, server_vars, down>>
  BY <1>1 DEF cmd_presence_unsubscribe, Ready, WithSees
<1>4. x \in Presences /\ x \in Stanzas /\ x \notin Items /\ x.jid = jid /\ x.presence = "unsubscribe"
  BY <1>1, PresenceType
<1>5. /\ x \in Stops(jid) /\ x # Presence(jid, "subscribed") /\ x # Presence(jid, "subscribe")
      /\ x \notin Ends(jid)
  BY <1>1, PresenceFields, Endings DEF Stops
<1>6. ~Busy(jid) /\ ~HurryCounts => Agrees(x, w) /\ Stands(w, jid)
  <2>1. Agrees(x, w)
    BY <1>4 DEF Agrees
  <2>2. ~Busy(jid) /\ ~HurryCounts => Stands(wanted[jid], jid)
    BY <1>3, NotBusy
  <2> QED BY <1>2, <2>1, <2>2, StillStands
<1> QED BY <1>2, <1>3, <1>4, <1>5, <1>6, OneStanzaInv

-----------------------------------------------------------------------------
(* Steps of the server. *)

ServerType ==
  /\ DOMAIN server \subseteq Contact
  /\ server \in [DOMAIN server -> ServerItem]
  /\ IsFiniteSet(DOMAIN server)

(* The server changes the item of one contact at most, and says so to a       *)
(* client that has asked for the roster.                                      *)
Pushed(jid) ==
  /\ \A k : k # jid => /\ k \in DOMAIN server' <=> k \in DOMAIN server
                       /\ k \in DOMAIN server => server'[k] = server[k]
  /\ \/ UNCHANGED <<server, down>>
     \/ \E item \in Pushes :
          /\ item.jid = jid /\ Tells(item, jid)'
          /\ down' = IF Interested THEN down \o <<item>> ELSE down

LEMMA PushedLatest ==
  ASSUME SyncInv, NEW jid \in Contact, Pushed(jid), UNCHANGED client_vars,
         Asking' <=> Asking, ~connected \/ Asking => up' = up
  PROVE  down' \in Seq(Pushes) /\ Offline' /\ Fresh' /\ Latest'
<1> USE DEF SyncInv, client_vars
<1>1. Interested <=> connected /\ ~Asking
  BY DEF Interested, Asking
<1>2. down \in Seq(Pushes) /\ UNCHANGED <<connected, roster, user>>
  BY DEF SyncTypeOK
<1>3. ~Interested => down' = down
  BY DEF Pushed
<1>4. down' \in Seq(Pushes)
  <2>1. ASSUME NEW item \in Pushes PROVE down \o <<item>> \in Seq(Pushes)
    BY <1>2, <2>1, OneElement
  <2> QED BY <1>2, <2>1 DEF Pushed
<1>5. Offline'
  BY <1>1, <1>2, <1>3 DEF Offline
<1>6. Fresh'
  <2> SUFFICES ASSUME Asking'
               PROVE  /\ down' = <<>> /\ DOMAIN user' = {}
                      /\ \A i \in 1..Len(up') : up'[i] = Query => i = 1
    BY DEF Fresh
  <2>1. Asking /\ up' = up /\ down' = down /\ user' = user
    BY <1>1, <1>2, <1>3
  <2> QED BY <2>1 DEF Fresh
<1>7. Latest'
  <2> SUFFICES ASSUME connected, ~Asking, NEW k \in Contact PROVE Current(k)'
    BY <1>2 DEF Latest
  <2>1. Current(k)
    BY DEF Latest
  <2>2. CASE UNCHANGED <<server, down>>
    BY <1>2, <2>1, <2>2 DEF Current, LastOf, Shows, Tells, In
  <2>3. CASE \E item \in Pushes : /\ item.jid = jid /\ Tells(item, jid)'
                                  /\ down' = IF Interested THEN down \o <<item>> ELSE down
    <3>1. PICK item \in Pushes : /\ item.jid = jid /\ Tells(item, jid)'
                                 /\ down' = Append(down, item)
      <4>1. PICK item \in Pushes : /\ item.jid = jid /\ Tells(item, jid)'
                                   /\ down' = down \o <<item>>
        BY <1>1, <2>3
      <4>2. Append(down, item) = down \o <<item>>
        BY <1>2, OneElement
      <4> QED BY <4>1, <4>2
    <3>2. /\ Len(down') = Len(down) + 1 /\ Len(down) \in Nat
          /\ \A i \in 1..Len(down) : down'[i] = down[i]
          /\ down'[Len(down) + 1] = item
      BY <1>2, <3>1
    <3>3. Len(down) + 1 \in 1..Len(down')
      BY <3>2
    <3>4. CASE k = jid
      <4>1. ~ \A i \in 1..Len(down') : down'[i].jid # k
        BY <3>1, <3>2, <3>3, <3>4
      <4>2. ASSUME NEW i \in 1..Len(down'), LastOf(k, i)'
            PROVE  Tells(down[i], k)'
        <5>1. \A j \in 1..Len(down') : j > i => down'[j].jid # k
          BY <4>2 DEF LastOf
        <5>2. ~ (Len(down) + 1 > i)
          BY <3>1, <3>2, <3>3, <3>4, <5>1
        <5>3. i = Len(down) + 1
          BY <3>2, <5>2
        <5>4. down'[i] = item
          BY <3>2, <5>3
        <5> QED BY <3>1, <3>4, <5>4 DEF Tells
      <4> QED BY <4>1, <4>2 DEF Current
    <3>5. CASE k # jid
      <4>1. /\ k \in DOMAIN server' <=> k \in DOMAIN server
            /\ k \in DOMAIN server => server'[k] = server[k]
        BY <3>5 DEF Pushed
      <4>2. Shows(k) => Shows(k)'
        BY <1>2, <4>1 DEF Shows, In
      <4>3. (\A i \in 1..Len(down') : down'[i].jid # k) => \A i \in 1..Len(down) : down[i].jid # k
        BY <3>2
      <4>4. ASSUME NEW i \in 1..Len(down'), LastOf(k, i)'
            PROVE  Tells(down[i], k)'
        <5>1. down'[i].jid = k /\ \A j \in 1..Len(down') : j > i => down'[j].jid # k
          BY <4>4 DEF LastOf
        <5>2. i # Len(down) + 1
          BY <3>1, <3>2, <3>5, <5>1
        <5>3. i \in 1..Len(down) /\ down'[i] = down[i]
          BY <3>2, <5>2
        <5>4. LastOf(k, i)
          BY <3>2, <5>1, <5>3 DEF LastOf
        <5>5. Tells(down[i], k)
          BY <2>1, <5>3, <5>4 DEF Current
        <5> QED BY <4>1, <5>3, <5>5 DEF Tells
      <4> QED BY <2>1, <4>2, <4>3, <4>4 DEF Current
    <3> QED BY <3>4, <3>5
  <2> QED BY <2>2, <2>3 DEF Pushed
<1> QED BY <1>4, <1>5, <1>6, <1>7

(* The item of a contact that the server keeps from now on. *)
LEMMA KeepShows ==
  ASSUME SyncTypeOK, NEW jid \in Contact, NEW held \in ServerItem, Keep(jid, held)
  PROVE  /\ ServerType' /\ Pushed(jid)
         /\ \A k : k \in DOMAIN server' <=> k \in DOMAIN server \/ k = jid
         /\ server'[jid] = held /\ Held(jid)' = held
<1>1. server' = [k \in DOMAIN server \cup {jid} |-> IF k = jid THEN held ELSE server[k]]
  BY DEF Keep, Put
<1>2. /\ DOMAIN server' = DOMAIN server \cup {jid}
      /\ \A k : k \in DOMAIN server' <=> k \in DOMAIN server \/ k = jid
      /\ server'[jid] = held /\ \A k \in DOMAIN server : k # jid => server'[k] = server[k]
  BY <1>1
<1>3. Held(jid)' = held
  BY <1>2 DEF Held
<1>4. ServerType'
  <2>1. IsFiniteSet(DOMAIN server \cup {jid})
    BY FS_AddElement DEF SyncTypeOK
  <2>2. server' \in [DOMAIN server \cup {jid} -> ServerItem]
    BY <1>1 DEF SyncTypeOK
  <2> QED BY <1>2, <2>1, <2>2 DEF ServerType, SyncTypeOK
<1>5. Pushed(jid)
  <2> DEFINE item == ItemOf(jid, held)
  <2>1. item \in Pushes /\ item.jid = jid
    BY ItemOfType
  <2>2. /\ item.name = held.name /\ item.group = held.group
        /\ item.subscription = held.subscription /\ item.subscription # "remove"
    BY ItemOfType
  <2>3. down' = IF Interested THEN down \o <<item>> ELSE down
    BY DEF Keep, Push
  <2> HIDE DEF item
  <2>4. Tells(item, jid)'
    BY <1>2, <2>2 DEF Tells
  <2> QED BY <1>2, <2>1, <2>3, <2>4 DEF Pushed
<1> QED BY <1>2, <1>3, <1>4, <1>5

(* The server lists a contact as before, under the same name and group. *)
SameItem(jid) ==
  /\ jid \in DOMAIN server' <=> jid \in DOMAIN server
  /\ jid \in DOMAIN server => /\ server'[jid].name = server[jid].name
                              /\ server'[jid].group = server[jid].group

LEMMA MutualSubscription ==
  ASSUME NEW sees \in BOOLEAN, NEW seen \in BOOLEAN
  PROVE  /\ Mutual(sees, seen) \in XmppSubscription \ {"remove"}
         /\ Sees(Mutual(sees, seen)) <=> sees
         /\ Seen(Mutual(sees, seen)) <=> seen
BY DEF Mutual, Sees, Seen, XmppSubscription

LEMMA BecomesShows ==
  ASSUME SyncTypeOK, NEW jid \in Contact, NEW sees \in BOOLEAN, NEW seen \in BOOLEAN,
         Becomes(jid, sees, seen)
  PROVE  /\ ServerType' /\ Pushed(jid)
         /\ \A k : k \in DOMAIN server' <=> k \in DOMAIN server \/ k = jid
         /\ jid \in DOMAIN server => SameItem(jid)
         /\ Sees(Held(jid).subscription)' <=> sees
         /\ Seen(Held(jid).subscription)' <=> seen
<1>1. PICK old, held : old = Held(jid) /\ held = [old EXCEPT !.subscription = Mutual(sees, seen)]
  OBVIOUS
<1>2. old \in ServerItem
  BY <1>1, HeldType
<1>3. /\ held \in ServerItem /\ held.subscription = Mutual(sees, seen)
      /\ held.name = old.name /\ held.group = old.group
  BY <1>1, <1>2, MutualSubscription DEF ServerItem
<1>4. jid \in DOMAIN server => old = server[jid]
  BY <1>1 DEF Held
<1>5. CASE jid \in DOMAIN server /\ held = server[jid]
  <2>1. UNCHANGED <<server, down>>
    BY <1>1, <1>5 DEF Becomes
  <2>2. Held(jid)' = held
    BY <1>5, <2>1 DEF Held
  <2>3. ServerType'
    BY <2>1 DEF ServerType, SyncTypeOK
  <2>4. Pushed(jid) /\ SameItem(jid)
    BY <2>1 DEF Pushed, SameItem
  <2> QED BY <1>3, <1>5, <2>1, <2>2, <2>3, <2>4, MutualSubscription
<1>6. CASE ~(jid \in DOMAIN server /\ held = server[jid])
  <2>1. Keep(jid, held)
    BY <1>1, <1>6 DEF Becomes
  <2>2. /\ ServerType' /\ Pushed(jid)
        /\ \A k : k \in DOMAIN server' <=> k \in DOMAIN server \/ k = jid
        /\ server'[jid] = held /\ Held(jid)' = held
    BY <1>3, <2>1, KeepShows
  <2>3. jid \in DOMAIN server => SameItem(jid)
    BY <1>3, <1>4, <2>2 DEF SameItem
  <2>4. /\ Sees(Held(jid).subscription)' <=> sees
        /\ Seen(Held(jid).subscription)' <=> seen
    BY <1>3, <2>2, MutualSubscription
  <2> QED BY <2>2, <2>3, <2>4
<1> QED BY <1>5, <1>6

LEMMA EndedShows ==
  ASSUME SyncTypeOK, NEW jid \in Contact, NEW sees \in BOOLEAN, NEW seen \in BOOLEAN,
         sees => Sees(Held(jid).subscription), seen => Seen(Held(jid).subscription),
         Ended(jid, sees, seen)
  PROVE  /\ ServerType' /\ Pushed(jid) /\ SameItem(jid)
         /\ \A k : k \in DOMAIN server' <=> k \in DOMAIN server
         /\ Sees(Held(jid).subscription)' <=> sees
         /\ Seen(Held(jid).subscription)' <=> seen
<1>1. CASE jid \in DOMAIN server
  <2>1. Becomes(jid, sees, seen)
    BY <1>1 DEF Ended
  <2> QED BY <1>1, <2>1, BecomesShows
<1>2. CASE jid \notin DOMAIN server
  <2>1. UNCHANGED <<server, down>>
    BY <1>2 DEF Ended
  <2>2. Held(jid).subscription = "none" /\ Held(jid)' = Held(jid)
    BY <1>2, <2>1, HeldType DEF Held
  <2>3. ~sees /\ ~seen /\ ~Sees(Held(jid).subscription)' /\ ~Seen(Held(jid).subscription)'
    BY <2>2 DEF Sees, Seen
  <2>4. ServerType'
    BY <2>1 DEF ServerType, SyncTypeOK
  <2>5. Pushed(jid) /\ SameItem(jid)
    BY <2>1 DEF Pushed, SameItem
  <2> QED BY <2>1, <2>3, <2>4, <2>5
<1> QED BY <1>1, <1>2

LEMMA PushedOthers ==
  ASSUME NEW jid, Pushed(jid), NEW k, k # jid
  PROVE  SameItem(k) /\ Held(k)' = Held(k)
BY DEF Pushed, SameItem, Held

LEMMA StoresShows ==
  ASSUME SyncTypeOK, NEW jid \in Contact, NEW item \in Items, item.jid = jid, Stores(item)
  PROVE  /\ ServerType' /\ Pushed(jid)
         /\ item.subscription = "remove" =>
              /\ \A k : k \in DOMAIN server' <=> k \in DOMAIN server /\ k # jid
              /\ Held(jid)'.subscription = "none"
              /\ asked' = asked \ {jid} /\ asking' = asking \ {jid}
         /\ item.subscription # "remove" =>
              /\ \A k : k \in DOMAIN server' <=> k \in DOMAIN server \/ k = jid
              /\ server'[jid].name = item.name /\ server'[jid].group = item.group
              /\ Held(jid)'.subscription = Held(jid).subscription
              /\ asked' = asked /\ asking' = asking
<1>1. CASE item.subscription # "remove"
  <2>1. PICK held : held = [name |-> item.name, group |-> item.group,
                            subscription |-> Held(jid).subscription]
    OBVIOUS
  <2>2. /\ held \in ServerItem /\ held.name = item.name /\ held.group = item.group
        /\ held.subscription = Held(jid).subscription
    BY <2>1, HeldType DEF ServerItem, Items
  <2>3. Keep(jid, held) /\ UNCHANGED <<asked, asking>>
    BY <1>1, <2>1 DEF Stores
  <2>4. /\ ServerType' /\ Pushed(jid)
        /\ \A k : k \in DOMAIN server' <=> k \in DOMAIN server \/ k = jid
        /\ server'[jid] = held /\ Held(jid)' = held
    BY <2>2, <2>3, KeepShows
  <2> QED BY <1>1, <2>2, <2>3, <2>4
<1>2. CASE item.subscription = "remove"
  <2>1. /\ server' = [k \in DOMAIN server \ {jid} |-> server[k]]
        /\ asked' = asked \ {jid} /\ asking' = asking \ {jid}
        /\ Push(IF jid \in DOMAIN server THEN <<Item(jid, "remove", NULL, NULL)>> ELSE <<>>)
    BY <1>2 DEF Stores, Restrict
  <2>2. /\ DOMAIN server' = DOMAIN server \ {jid}
        /\ \A k : k \in DOMAIN server' <=> k \in DOMAIN server /\ k # jid
        /\ \A k \in DOMAIN server : k # jid => server'[k] = server[k]
    BY <2>1
  <2>3. Held(jid)'.subscription = "none"
    BY <2>2 DEF Held
  <2>4. ServerType'
    <3>1. IsFiniteSet(DOMAIN server \ {jid})
      BY FS_RemoveElement DEF SyncTypeOK
    <3>2. server' \in [DOMAIN server \ {jid} -> ServerItem]
      BY <2>1 DEF SyncTypeOK
    <3> QED BY <2>2, <3>1, <3>2 DEF ServerType, SyncTypeOK
  <2>5. CASE jid \in DOMAIN server
    <3> DEFINE x == Item(jid, "remove", NULL, NULL)
    <3>1. x \in Pushes /\ x.jid = jid /\ x.subscription = "remove"
      <4>1. NULL \in Texts /\ NULL \in Groups /\ "remove" \in XmppSubscription
        BY NoOpinion DEF XmppSubscription
      <4> QED BY <4>1 DEF Item, Pushes
    <3>2. down' = IF Interested THEN down \o <<x>> ELSE down
      BY <2>1, <2>5 DEF Push
    <3> HIDE DEF x
    <3>3. Tells(x, jid)'
      BY <2>2, <3>1 DEF Tells
    <3>4. Pushed(jid)
      BY <2>2, <3>1, <3>2, <3>3 DEF Pushed
    <3> QED BY <1>2, <2>1, <2>2, <2>3, <2>4, <3>4
  <2>6. CASE jid \notin DOMAIN server
    <3>1. server' = server
      <4>1. server = [k \in DOMAIN server |-> server[k]]
        BY DEF SyncTypeOK
      <4>2. DOMAIN server \ {jid} = DOMAIN server
        BY <2>6
      <4> QED BY <2>1, <4>1, <4>2
    <3>2. down' = down
      <4>1. down' = IF Interested THEN down \o <<>> ELSE down
        BY <2>1, <2>6 DEF Push
      <4>2. down \o <<>> = down
        BY DEF SyncTypeOK
      <4> QED BY <4>1, <4>2
    <3>3. Pushed(jid)
      BY <3>1, <3>2 DEF Pushed
    <3> QED BY <1>2, <2>1, <2>2, <2>3, <2>4, <3>3
  <2> QED BY <2>5, <2>6
<1> QED BY <1>1, <1>2

(* What the server does with a stanza of the user, for each contact. *)
Handled(x, jid) ==
  /\ x \in Ends(jid) => ~Seen(Held(jid).subscription)'
  /\ x \notin Ends(jid) =>
       /\ x # Presence(jid, "subscribed") =>
            /\ Seen(Held(jid).subscription)' => Seen(Held(jid).subscription)
            /\ jid \in asking => jid \in asking'
       /\ Seen(Held(jid).subscription) => Seen(Held(jid).subscription)'
       /\ x = Presence(jid, "subscribed") /\ jid \in asking => Seen(Held(jid).subscription)'
  /\ x \in Stops(jid) => ~Sees(Held(jid).subscription)' /\ jid \notin asked'
  /\ x \notin Stops(jid) /\ x # Presence(jid, "subscribe") =>
       /\ Sees(Held(jid).subscription)' => Sees(Held(jid).subscription)
       /\ jid \in asked' => jid \in asked

LEMMA HandledDecided ==
  ASSUME SyncTypeOK, Decided, up # <<>>, up' = Tail(up), wanted' = wanted,
         NEW x, x = Head(up), \A k \in Contact : Handled(x, k)
  PROVE  Decided'
<1>1. /\ Head(up) = up[1] /\ 1 \in 1..Len(up) /\ Len(up) \in Nat /\ Len(up') = Len(up) - 1
      /\ \A i \in 1..Len(up') : i + 1 \in 1..Len(up) /\ up'[i] = up[i + 1]
      /\ \A i \in 1..Len(up) : i # 1 => i - 1 \in 1..Len(up') /\ up'[i - 1] = up[i]
  BY Tailed DEF SyncTypeOK
<1> SUFFICES ASSUME NEW k \in Contact
             PROVE  /\ wanted[k].seen = FALSE => NoMoreSeen(k)'
                    /\ wanted[k].seen = TRUE  => NowSeen(k)'
                    /\ wanted[k].sees = FALSE => NoMoreSees(k)'
  BY DEF Decided
<1>2. Handled(x, k) /\ x = up[1]
  BY <1>1
(* A stanza that comes after another one still does. *)
<1>3. ASSUME NEW S, NEW y, NEW i \in 1..Len(up'), up'[i] = y,
             \A n \in 1..Len(up) : up[n] = y => \E j \in 1..Len(up) : j > n /\ up[j] \in S
      PROVE  \E j \in 1..Len(up') : j > i /\ up'[j] \in S
  <2>1. i + 1 \in 1..Len(up) /\ up[i + 1] = y
    BY <1>1, <1>3
  <2>2. PICK j \in 1..Len(up) : j > i + 1 /\ up[j] \in S
    BY <1>3, <2>1
  <2>3. j # 1 /\ j - 1 > i
    BY <1>1, <2>2
  <2>4. j - 1 \in 1..Len(up') /\ up'[j - 1] = up[j]
    BY <1>1, <2>3
  <2> QED BY <2>2, <2>3, <2>4
<1>4. ASSUME NEW S, NEW j \in 1..Len(up), up[j] \in S, x \notin S
      PROVE  \E n \in 1..Len(up') : up'[n] \in S
  <2>1. j # 1
    BY <1>2, <1>4
  <2> QED BY <1>1, <1>4, <2>1
<1>5. Ends(k)' = Ends(k) /\ Stops(k)' = Stops(k)
  BY DEF Ends, Stops, Removal
<1>6. wanted[k].seen = FALSE => NoMoreSeen(k)'
  <2> SUFFICES ASSUME wanted[k].seen = FALSE PROVE NoMoreSeen(k)'
    OBVIOUS
  <2>1. NoMoreSeen(k)
    BY DEF Decided
  <2>2. ASSUME NEW i \in 1..Len(up'), up'[i] = Presence(k, "subscribed")
        PROVE  \E j \in 1..Len(up') : j > i /\ up'[j] \in Ends(k)
    BY <1>3, <2>1, <2>2 DEF NoMoreSeen
  <2>3. ~Seen(Held(k).subscription)' \/ \E j \in 1..Len(up') : up'[j] \in Ends(k)
    <3>1. CASE x \in Ends(k)
      BY <1>2, <3>1 DEF Handled
    <3>2. CASE x \notin Ends(k) /\ \E j \in 1..Len(up) : up[j] \in Ends(k)
      BY <1>4, <3>2
    <3>3. CASE x \notin Ends(k) /\ ~\E j \in 1..Len(up) : up[j] \in Ends(k)
      <4>1. x # Presence(k, "subscribed")
        BY <1>1, <1>2, <2>1, <3>3 DEF NoMoreSeen
      <4>2. ~Seen(Held(k).subscription)
        BY <2>1, <3>3 DEF NoMoreSeen
      <4> QED BY <1>2, <3>3, <4>1, <4>2 DEF Handled
    <3> QED BY <3>1, <3>2, <3>3
  <2> QED BY <1>5, <2>2, <2>3 DEF NoMoreSeen
<1>7. wanted[k].seen = TRUE => NowSeen(k)'
  <2> SUFFICES ASSUME wanted[k].seen = TRUE PROVE NowSeen(k)'
    OBVIOUS
  <2>1. NowSeen(k)
    BY DEF Decided
  <2>2. x \notin Ends(k)
    BY <1>1, <1>2, <2>1 DEF NowSeen
  <2>3. \A i \in 1..Len(up') : up'[i] \notin Ends(k)
    BY <1>1, <2>1 DEF NowSeen
  <2>4. \/ Seen(Held(k).subscription)'
        \/ k \in asking' /\ \E i \in 1..Len(up') : up'[i] = Presence(k, "subscribed")
    <3>1. CASE Seen(Held(k).subscription)
      BY <1>2, <2>2, <3>1 DEF Handled
    <3>2. CASE k \in asking /\ x = Presence(k, "subscribed")
      BY <1>2, <2>2, <3>2 DEF Handled
    <3>3. CASE /\ k \in asking /\ x # Presence(k, "subscribed")
               /\ \E i \in 1..Len(up) : up[i] = Presence(k, "subscribed")
      <4>1. k \in asking'
        BY <1>2, <2>2, <3>3 DEF Handled
      <4>2. PICK j \in 1..Len(up) : up[j] = Presence(k, "subscribed")
        BY <3>3
      <4>3. j # 1
        BY <1>2, <3>3, <4>2
      <4> QED BY <1>1, <4>1, <4>2, <4>3
    <3> QED BY <2>1, <3>1, <3>2, <3>3 DEF NowSeen
  <2> QED BY <1>5, <2>3, <2>4 DEF NowSeen
<1>8. wanted[k].sees = FALSE => NoMoreSees(k)'
  <2> SUFFICES ASSUME wanted[k].sees = FALSE PROVE NoMoreSees(k)'
    OBVIOUS
  <2>1. NoMoreSees(k)
    BY DEF Decided
  <2>2. ASSUME NEW i \in 1..Len(up'), up'[i] = Presence(k, "subscribe")
        PROVE  \E j \in 1..Len(up') : j > i /\ up'[j] \in Stops(k)
    BY <1>3, <2>1, <2>2 DEF NoMoreSees
  <2>3. \/ ~Sees(Held(k).subscription)' /\ k \notin asked'
        \/ \E j \in 1..Len(up') : up'[j] \in Stops(k)
    <3>1. CASE x \in Stops(k)
      BY <1>2, <3>1 DEF Handled
    <3>2. CASE x \notin Stops(k) /\ \E j \in 1..Len(up) : up[j] \in Stops(k)
      BY <1>4, <3>2
    <3>3. CASE x \notin Stops(k) /\ ~\E j \in 1..Len(up) : up[j] \in Stops(k)
      <4>1. x # Presence(k, "subscribe")
        BY <1>1, <1>2, <2>1, <3>3 DEF NoMoreSees
      <4>2. ~Sees(Held(k).subscription) /\ k \notin asked
        BY <2>1, <3>3 DEF NoMoreSees
      <4> QED BY <1>2, <3>3, <4>1, <4>2 DEF Handled
    <3> QED BY <3>1, <3>2, <3>3
  <2> QED BY <1>5, <2>2, <2>3 DEF NoMoreSees
<1> QED BY <1>6, <1>7, <1>8

(* What a stanza does to the listing of its contact: an item that agrees with *)
(* a wish grants it, and a presence at most lists who was not.                *)
Places(x, jid) ==
  \/ x \in Items /\ \A w \in Wishes : Agrees(x, w) => Stands(w, jid)'
  \/ x \in Presences /\ SameItem(jid)
  \/ x \in Presences /\ x.presence \in {"subscribe", "subscribed"} /\ jid \notin DOMAIN server

LEMMA SameStands ==
  ASSUME NEW jid, SameItem(jid), NEW w, Stands(w, jid)
  PROVE  Stands(w, jid)'
BY DEF SameItem, Stands

LEMMA HandledRequested ==
  ASSUME SyncTypeOK, Requested, up # <<>>, up' = Tail(up), wanted' = wanted,
         NEW x, x = Head(up),
         \A k \in Contact : IF x.jid = k THEN Places(x, k) ELSE SameItem(k)
  PROVE  Requested'
<1>1. /\ Head(up) = up[1] /\ 1 \in 1..Len(up) /\ Len(up) \in Nat /\ Len(up') = Len(up) - 1
      /\ \A i \in 1..Len(up') : i + 1 \in 1..Len(up) /\ up'[i] = up[i + 1]
      /\ \A i \in 1..Len(up) : i # 1 => i - 1 \in 1..Len(up') /\ up'[i - 1] = up[i]
  BY Tailed DEF SyncTypeOK
<1> SUFFICES ASSUME NEW k \in Contact,
                    ~ (wanted[k].listed = ANY /\ wanted[k].name = ANY /\ wanted[k].group = ANY)
             PROVE  /\ \A i \in 1..Len(up') : up'[i].jid = k => Agrees(up'[i], wanted[k])
                    /\ \/ Stands(wanted[k], k)'
                       \/ \E i \in 1..Len(up') : up'[i] \in Items /\ up'[i].jid = k
  BY DEF Requested
<1>2. PICK w \in Wishes : w = wanted[k]
  BY DEF SyncTypeOK
<1>3. /\ \A i \in 1..Len(up) : up[i].jid = k => Agrees(up[i], w)
      /\ Stands(w, k) \/ \E i \in 1..Len(up) : up[i] \in Items /\ up[i].jid = k
  BY <1>2 DEF Requested
<1>4. \A i \in 1..Len(up') : up'[i].jid = k => Agrees(up'[i], w)
  BY <1>1, <1>3
<1>5. Stands(w, k)' <=> Stands(wanted[k], k)'
  BY <1>2
<1>6. CASE \E i \in 1..Len(up) : i # 1 /\ up[i] \in Items /\ up[i].jid = k
  <2>1. PICK i \in 1..Len(up) : i # 1 /\ up[i] \in Items /\ up[i].jid = k
    BY <1>6
  <2>2. i - 1 \in 1..Len(up') /\ up'[i - 1] = up[i]
    BY <1>1, <2>1
  <2> QED BY <1>2, <1>4, <2>1, <2>2
<1>7. CASE ~\E i \in 1..Len(up) : i # 1 /\ up[i] \in Items /\ up[i].jid = k
  <2>1. Stands(w, k) \/ (x \in Items /\ x.jid = k)
    BY <1>1, <1>3, <1>7
  <2>2. CASE x.jid # k
    <3>1. SameItem(k) /\ Stands(w, k)
      BY <2>1, <2>2
    <3>2. Stands(w, k)'
      BY <3>1, SameStands
    <3> QED BY <1>2, <1>4, <1>5, <3>2
  <2>3. CASE x.jid = k /\ x \in Items
    <3>1. Agrees(x, w)
      BY <1>1, <1>3, <2>3
    <3>2. Places(x, k) /\ x \notin Presences
      BY <2>3, Kinds
    <3>3. Stands(w, k)'
      BY <1>2, <2>3, <3>1, <3>2 DEF Places
    <3> QED BY <1>2, <1>4, <1>5, <3>3
  <2>4. CASE x.jid = k /\ x \notin Items
    <3>1. Stands(w, k) /\ Agrees(x, w) /\ Places(x, k)
      BY <1>1, <1>3, <2>1, <2>4
    <3>2. CASE SameItem(k)
      <4>1. Stands(w, k)'
        BY <3>1, <3>2, SameStands
      <4> QED BY <1>2, <1>4, <1>5, <4>1
    <3>3. CASE x \in Presences /\ x.presence \in {"subscribe", "subscribed"} /\ k \notin DOMAIN server
      <4>1. w.listed # FALSE
        BY <3>1, <3>3 DEF Agrees
      <4>2. w.listed \in BOOLEAN \cup {ANY} /\ w.listed # TRUE /\ w.name = ANY /\ w.group = ANY
        <5>1. w.listed \in BOOLEAN \cup {ANY}
          BY DEF Wishes
        <5>2. w.listed # TRUE
          BY <3>1, <3>3, NoOpinion DEF Stands
        <5> QED BY <3>1, <3>3, <5>1, <5>2 DEF Stands
      <4> QED BY <1>2, <4>1, <4>2
    <3> QED BY <2>4, <3>1, <3>2, <3>3 DEF Places
  <2> QED BY <2>2, <2>3, <2>4
<1> QED BY <1>6, <1>7

(* A stanza of the user that the server handles. *)
LEMMA HandledInv ==
  ASSUME SyncInv, up # <<>>, up' = Tail(up), UNCHANGED <<client_vars, wanted>>,
         NEW x \in Stanzas, x = Head(up),
         ServerType', asked' \subseteq DOMAIN server', asking' \subseteq Contact,
         \A k : k # x.jid => (k \in asking => k \in asking') /\ (k \in asked' => k \in asked),
         Pushed(x.jid), Places(x, x.jid), Handled(x, x.jid)
  PROVE  SyncInv'
<1>1. /\ Head(up) = up[1] /\ 1 \in 1..Len(up) /\ Len(up) \in Nat /\ Len(up') = Len(up) - 1
      /\ up' \in Seq(Stanzas \cup {Query})
      /\ \A i \in 1..Len(up') : i + 1 \in 1..Len(up) /\ up'[i] = up[i + 1]
      /\ \A i \in 1..Len(up) : i # 1 => i - 1 \in 1..Len(up') /\ up'[i - 1] = up[i]
  BY Tailed DEF SyncInv, SyncTypeOK
<1>2. x.jid \in Contact /\ x # Query /\ x = up[1]
  BY <1>1, Kinds
<1>3. ~Asking /\ ~Asking'
  <2>1. ASSUME NEW i \in 1..Len(up), up[i] = Query PROVE FALSE
    <3>1. Asking
      BY <2>1 DEF Asking
    <3>2. i = 1
      BY <2>1, <3>1 DEF SyncInv, Fresh
    <3> QED BY <1>2, <2>1, <3>2
  <2> QED BY <1>1, <2>1 DEF Asking
<1>4. connected
  BY DEF SyncInv, Offline
<1>5. down' \in Seq(Pushes) /\ Offline' /\ Fresh' /\ Latest'
  BY <1>2, <1>3, <1>4, PushedLatest
<1>6. IInv'
  BY DEF SyncInv, IInv, client_vars
<1>7. SyncTypeOK'
  BY <1>1, <1>5 DEF SyncInv, SyncTypeOK, ServerType
<1>8. \A k \in Contact : k # x.jid => SameItem(k) /\ Handled(x, k)
  <2> SUFFICES ASSUME NEW k \in Contact, k # x.jid PROVE SameItem(k) /\ Handled(x, k)
    OBVIOUS
  <2>1. SameItem(k) /\ Held(k)' = Held(k)
    BY <1>2, PushedOthers
  <2>2. /\ x \notin Ends(k) /\ x \notin Stops(k)
        /\ x # Presence(k, "subscribed") /\ x # Presence(k, "subscribe")
    BY ItemFields, PresenceFields DEF Ends, Stops, Removal
  <2>3. (k \in asking => k \in asking') /\ (k \in asked' => k \in asked)
    OBVIOUS
  <2> QED BY <2>1, <2>2, <2>3 DEF Handled
<1>9. Decided'
  BY <1>8, HandledDecided DEF SyncInv
<1>10. ~HurryCounts => Requested'
  BY <1>8, HandledRequested DEF SyncInv
<1> QED BY <1>5, <1>6, <1>7, <1>9, <1>10 DEF SyncInv

(* The items of the user are removals, and replacements of name and group.    *)
LEMMA ItemKinds ==
  ASSUME NEW x \in Items
  PROVE  /\ x.subscription = "remove" => x = Removal(x.jid)
         /\ x.subscription # "remove" => x \notin Ends(x.jid) /\ x \notin Stops(x.jid)
         /\ \A p \in {"subscribe", "unsubscribe", "subscribed", "unsubscribed"} :
              x # Presence(x.jid, p)
<1>1. x = [jid |-> x.jid, subscription |-> x.subscription, name |-> x.name, group |-> x.group]
  BY DEF Items
<1>2. x.subscription = "remove" => x = Removal(x.jid)
  BY <1>1 DEF Items, Removal, Item
<1>3. \A p \in {"subscribe", "unsubscribe", "subscribed", "unsubscribed"} : x # Presence(x.jid, p)
  <2>1. x.jid \in Contact
    BY DEF Items
  <2> QED BY <2>1, PresenceType
<1>4. x.subscription # "remove" => x # Removal(x.jid)
  BY ItemFields DEF Removal
<1> QED BY <1>2, <1>3, <1>4 DEF Ends, Stops

LEMMA StoresHandled ==
  ASSUME SyncInv, NEW x \in Items, Stores(x)
  PROVE  /\ ServerType' /\ asked' \subseteq DOMAIN server' /\ asking' \subseteq Contact
         /\ \A k : k # x.jid => (k \in asking => k \in asking') /\ (k \in asked' => k \in asked)
         /\ Pushed(x.jid) /\ Places(x, x.jid) /\ Handled(x, x.jid)
<1> DEFINE jid == x.jid
<1>1. jid \in Contact
  BY DEF Items
<1>2. SyncTypeOK
  BY DEF SyncInv
<1>3. CASE x.subscription = "remove"
  <2>1. /\ ServerType' /\ Pushed(jid)
        /\ \A k : k \in DOMAIN server' <=> k \in DOMAIN server /\ k # jid
        /\ Held(jid)'.subscription = "none"
        /\ asked' = asked \ {jid} /\ asking' = asking \ {jid}
    BY <1>1, <1>2, <1>3, StoresShows
  <2>2. asked' \subseteq DOMAIN server' /\ asking' \subseteq Contact
    BY <1>2, <2>1 DEF SyncTypeOK
  <2>3. Places(x, jid)
    <3>1. ASSUME NEW w \in Wishes, Agrees(x, w) PROVE Stands(w, jid)'
      BY <1>3, <2>1, <3>1 DEF Agrees, Stands
    <3> QED BY <3>1 DEF Places
  <2>4. Handled(x, jid)
    <3>1. x \in Ends(jid) /\ x \in Stops(jid)
      BY <1>3, ItemKinds DEF Ends, Stops
    <3>2. ~Seen(Held(jid).subscription)' /\ ~Sees(Held(jid).subscription)' /\ jid \notin asked'
      BY <2>1 DEF Seen, Sees
    <3> QED BY <3>1, <3>2 DEF Handled
  <2> QED BY <2>1, <2>2, <2>3, <2>4
<1>4. CASE x.subscription # "remove"
  <2>1. /\ ServerType' /\ Pushed(jid)
        /\ \A k : k \in DOMAIN server' <=> k \in DOMAIN server \/ k = jid
        /\ server'[jid].name = x.name /\ server'[jid].group = x.group
        /\ Held(jid)'.subscription = Held(jid).subscription
        /\ asked' = asked /\ asking' = asking
    BY <1>1, <1>2, <1>4, StoresShows
  <2>2. asked' \subseteq DOMAIN server' /\ asking' \subseteq Contact
    BY <1>2, <2>1 DEF SyncTypeOK
  <2>3. Places(x, jid)
    <3>1. ASSUME NEW w \in Wishes, Agrees(x, w) PROVE Stands(w, jid)'
      <4>1. w.listed # FALSE /\ w.name \in {ANY, x.name} /\ w.group \in {ANY, x.group}
        BY <1>4, <3>1 DEF Agrees
      <4>2. w.listed = ANY \/ w.listed = TRUE
        BY <4>1 DEF Wishes
      <4> QED BY <2>1, <4>1, <4>2 DEF Stands
    <3> QED BY <3>1 DEF Places
  <2>4. Handled(x, jid)
    <3>1. /\ x \notin Ends(jid) /\ x \notin Stops(jid)
          /\ x # Presence(jid, "subscribed") /\ x # Presence(jid, "subscribe")
      BY <1>4, ItemKinds
    <3>2. /\ Seen(Held(jid).subscription)' <=> Seen(Held(jid).subscription)
          /\ Sees(Held(jid).subscription)' <=> Sees(Held(jid).subscription)
      BY <2>1 DEF Seen, Sees
    <3> QED BY <2>1, <3>1, <3>2 DEF Handled
  <2> QED BY <2>1, <2>2, <2>3, <2>4
<1> QED BY <1>3, <1>4

LEMMA SubscribesHandled ==
  ASSUME SyncInv, NEW x \in Presences, Subscribes(x.jid, x.presence)
  PROVE  /\ ServerType' /\ asked' \subseteq DOMAIN server' /\ asking' \subseteq Contact
         /\ \A k : k # x.jid => (k \in asking => k \in asking') /\ (k \in asked' => k \in asked)
         /\ Pushed(x.jid) /\ Places(x, x.jid) /\ Handled(x, x.jid)
<1> DEFINE jid == x.jid
           s == Held(jid).subscription
<1>1. /\ jid \in Contact /\ x = Presence(jid, x.presence)
      /\ x.presence \in {"subscribe", "unsubscribe", "subscribed", "unsubscribed"}
  <2>1. x = [jid |-> x.jid, presence |-> x.presence]
    BY DEF Presences
  <2> QED BY <2>1 DEF Presences, Presence
<1>2. SyncTypeOK /\ asked \subseteq DOMAIN server /\ asking \subseteq Contact
  BY DEF SyncInv, SyncTypeOK
<1>3. Sees(s) \in BOOLEAN /\ Seen(s) \in BOOLEAN
  BY DEF Sees, Seen
<1>4. /\ x \in Ends(jid) <=> x.presence = "unsubscribed"
      /\ x \in Stops(jid) <=> x.presence = "unsubscribe"
      /\ \A p : x = Presence(jid, p) <=> x.presence = p
  <2>1. \A p : x = Presence(jid, p) <=> x.presence = p
    BY <1>1, PresenceFields
  <2>2. x # Removal(jid)
    BY <1>1, PresenceType
  <2> QED BY <2>1, <2>2 DEF Ends, Stops
<1>5. CASE x.presence = "subscribe"
  <2>1. /\ Becomes(jid, Sees(s), Seen(s)) /\ asking' = asking
        /\ asked' = IF Sees(s) THEN asked ELSE asked \cup {jid}
    BY <1>5 DEF Subscribes
  <2>2. /\ ServerType' /\ Pushed(jid)
        /\ \A k : k \in DOMAIN server' <=> k \in DOMAIN server \/ k = jid
        /\ jid \in DOMAIN server => SameItem(jid)
        /\ Sees(Held(jid).subscription)' <=> Sees(s)
        /\ Seen(Held(jid).subscription)' <=> Seen(s)
    BY <1>1, <1>2, <1>3, <2>1, BecomesShows
  <2>3. Places(x, jid)
    BY <1>5, <2>2 DEF Places
  <2>4. Handled(x, jid)
    BY <1>4, <1>5, <2>1, <2>2 DEF Handled
  <2>5. /\ asked' \subseteq DOMAIN server' /\ asking' \subseteq Contact
        /\ \A k : k # jid => (k \in asked' => k \in asked)
    BY <1>2, <2>1, <2>2
  <2> QED BY <2>1, <2>2, <2>3, <2>4, <2>5
<1>6. CASE x.presence = "unsubscribe"
  <2>1. Ended(jid, FALSE, Seen(s)) /\ asking' = asking /\ asked' = asked \ {jid}
    BY <1>6 DEF Subscribes
  <2>2. /\ ServerType' /\ Pushed(jid) /\ SameItem(jid)
        /\ \A k : k \in DOMAIN server' <=> k \in DOMAIN server
        /\ Sees(Held(jid).subscription)' <=> FALSE
        /\ Seen(Held(jid).subscription)' <=> Seen(s)
    BY <1>1, <1>2, <1>3, <2>1, EndedShows
  <2>3. Places(x, jid)
    BY <2>2 DEF Places
  <2>4. Handled(x, jid)
    BY <1>4, <1>6, <2>1, <2>2 DEF Handled
  <2> QED BY <1>2, <2>1, <2>2, <2>3, <2>4
<1>7. CASE x.presence = "subscribed"
  <2>1. /\ IF jid \in asking THEN Becomes(jid, Sees(s), TRUE) ELSE UNCHANGED <<server, down>>
        /\ asking' = asking \ {jid} /\ asked' = asked
    BY <1>7 DEF Subscribes
  <2>2. CASE jid \in asking
    <3>1. /\ ServerType' /\ Pushed(jid)
          /\ \A k : k \in DOMAIN server' <=> k \in DOMAIN server \/ k = jid
          /\ jid \in DOMAIN server => SameItem(jid)
          /\ Sees(Held(jid).subscription)' <=> Sees(s)
          /\ Seen(Held(jid).subscription)' <=> TRUE
      BY <1>1, <1>2, <1>3, <2>1, <2>2, BecomesShows
    <3>2. Places(x, jid)
      BY <1>7, <3>1 DEF Places
    <3>3. Handled(x, jid)
      BY <1>4, <1>7, <2>1, <3>1 DEF Handled
    <3>4. asked' \subseteq DOMAIN server'
      BY <1>2, <2>1, <3>1
    <3> QED BY <1>2, <2>1, <3>1, <3>2, <3>3, <3>4
  <2>3. CASE jid \notin asking
    <3>1. server' = server /\ down' = down
      BY <2>1, <2>3
    <3>2. ServerType' /\ Pushed(jid) /\ SameItem(jid) /\ Held(jid)' = Held(jid)
      BY <1>2, <3>1 DEF ServerType, SyncTypeOK, Pushed, SameItem, Held
    <3>3. Places(x, jid)
      BY <3>2 DEF Places
    <3>4. Handled(x, jid)
      BY <1>4, <1>7, <2>1, <2>3, <3>2 DEF Handled
    <3> QED BY <1>2, <2>1, <3>1, <3>2, <3>3, <3>4
  <2> QED BY <2>2, <2>3
<1>8. CASE x.presence = "unsubscribed"
  <2>1. Ended(jid, Sees(s), FALSE) /\ asking' = asking \ {jid} /\ asked' = asked
    BY <1>8 DEF Subscribes
  <2>2. /\ ServerType' /\ Pushed(jid) /\ SameItem(jid)
        /\ \A k : k \in DOMAIN server' <=> k \in DOMAIN server
        /\ Sees(Held(jid).subscription)' <=> Sees(s)
        /\ Seen(Held(jid).subscription)' <=> FALSE
    BY <1>1, <1>2, <1>3, <2>1, EndedShows
  <2>3. Places(x, jid)
    BY <2>2 DEF Places
  <2>4. Handled(x, jid)
    BY <1>4, <1>8, <2>1, <2>2 DEF Handled
  <2> QED BY <1>2, <2>1, <2>2, <2>3, <2>4
<1> QED BY <1>1, <1>5, <1>6, <1>7, <1>8

(* The server sends its roster to a client that knows nothing yet. *)
LEMMA QueryInv ==
  ASSUME SyncInv, up # <<>>, up' = Tail(up), Head(up) = Query, down' = down \o Result,
         UNCHANGED <<client_vars, server_vars, wanted>>
  PROVE  SyncInv'
<1>1. /\ Head(up) = up[1] /\ 1 \in 1..Len(up) /\ Len(up) \in Nat /\ Len(up') = Len(up) - 1
      /\ up' \in Seq(Stanzas \cup {Query})
      /\ \A i \in 1..Len(up') : i + 1 \in 1..Len(up) /\ up'[i] = up[i + 1]
      /\ \A i \in 1..Len(up) : i # 1 => i - 1 \in 1..Len(up') /\ up'[i - 1] = up[i]
  BY Tailed DEF SyncInv, SyncTypeOK
<1>2. PICK x : x = Query
  OBVIOUS
<1>3. Asking /\ connected
  BY <1>1 DEF Asking, SyncInv, Offline
<1>4. down = <<>> /\ DOMAIN user = {} /\ \A i \in 1..Len(up) : up[i] = Query => i = 1
  BY <1>3 DEF SyncInv, Fresh
<1>5. ~Asking'
  <2>1. ASSUME NEW i \in 1..Len(up'), up'[i] = Query PROVE FALSE
    <3>1. i + 1 \in 1..Len(up) /\ up[i + 1] = Query /\ i + 1 # 1
      BY <1>1, <2>1
    <3> QED BY <1>4, <3>1
  <2> QED BY <2>1 DEF Asking
<1>6. /\ Result \in Seq(Pushes)
      /\ \A i \in 1..Len(Result) : Tells(Result[i], Result[i].jid)
      /\ \A jid \in DOMAIN server : \E i \in 1..Len(Result) : Result[i].jid = jid
  BY ResultTells DEF SyncInv
<1>7. PICK result \in Seq(Pushes) : result = Result
  BY <1>6
<1>8. down' = result
  <2>1. <<>> \o result = result
    OBVIOUS
  <2> QED BY <1>4, <1>7, <2>1
<1>9. UNCHANGED <<connected, roster, user, my_resources, server, asked, asking, wanted>>
  BY DEF client_vars, server_vars
<1>10. IInv' /\ Offline' /\ Fresh'
  BY <1>3, <1>5, <1>9 DEF SyncInv, IInv, Offline, Fresh
<1>11. SyncTypeOK'
  BY <1>1, <1>7, <1>8, <1>9 DEF SyncInv, SyncTypeOK
<1>12. Latest'
  <2> SUFFICES ASSUME NEW jid \in Contact PROVE Current(jid)'
    BY DEF Latest
  <2>1. \A i \in 1..Len(result) : Tells(result[i], result[i].jid)
    BY <1>6, <1>7
  <2>2. \A k \in DOMAIN server : \E i \in 1..Len(result) : result[i].jid = k
    BY <1>6, <1>7
  <2>3. (\A i \in 1..Len(down') : down'[i].jid # jid) => Shows(jid)'
    BY <1>4, <1>8, <1>9, <2>2 DEF Shows
  <2>4. ASSUME NEW i \in 1..Len(down'), LastOf(jid, i)' PROVE Tells(down[i], jid)'
    <3>1. i \in 1..Len(result) /\ result[i].jid = jid /\ down'[i] = result[i]
      BY <1>8, <2>4 DEF LastOf
    <3>2. Tells(result[i], jid)
      BY <2>1, <3>1
    <3> QED BY <1>9, <3>1, <3>2 DEF Tells
  <2> QED BY <2>3, <2>4 DEF Current
<1>13. \A k \in Contact : SameItem(k) /\ Handled(x, k) /\ x.jid # k
  <2> SUFFICES ASSUME NEW k \in Contact PROVE SameItem(k) /\ Handled(x, k) /\ x.jid # k
    OBVIOUS
  <2>1. x.jid # k
    BY <1>2, Kinds, DistinctAssumption
  <2>2. SameItem(k) /\ Held(k)' = Held(k)
    BY <1>9 DEF SameItem, Held
  <2>3. /\ x \notin Ends(k) /\ x \notin Stops(k)
        /\ x # Presence(k, "subscribed") /\ x # Presence(k, "subscribe")
    BY <2>1, ItemFields, PresenceFields DEF Ends, Stops, Removal
  <2> QED BY <1>9, <2>1, <2>2, <2>3 DEF Handled
<1>14. Decided'
  BY <1>2, <1>9, <1>13, HandledDecided DEF SyncInv
<1>15. ~HurryCounts => Requested'
  BY <1>2, <1>9, <1>13, HandledRequested DEF SyncInv
<1> QED BY <1>10, <1>11, <1>12, <1>14, <1>15 DEF SyncInv

LEMMA ServerHandlesInv ==
  ASSUME SyncInv, ServerHandles
  PROVE  SyncInv'
<1>1. PICK x : x = Head(up)
  OBVIOUS
<1>2. /\ up # <<>> /\ up' = Tail(up) /\ UNCHANGED <<client_vars, wanted>>
      /\ IF "presence" \in DOMAIN x THEN Subscribes(x.jid, x.presence)
         ELSE IF x = Query THEN down' = down \o Result /\ UNCHANGED server_vars
         ELSE Stores(x)
  BY <1>1 DEF ServerHandles
<1>3. x \in Stanzas \cup {Query}
  BY <1>1, <1>2, Tailed DEF SyncInv, SyncTypeOK
<1>4. CASE x = Query
  <2>1. down' = down \o Result /\ UNCHANGED server_vars
    BY <1>2, <1>4, Kinds
  <2> QED BY <1>1, <1>2, <1>4, <2>1, QueryInv
<1>5. CASE x \in Presences
  <2>1. Subscribes(x.jid, x.presence) /\ x \in Stanzas
    BY <1>2, <1>5, Kinds DEF Stanzas
  <2> QED BY <1>1, <1>2, <1>5, <2>1, SubscribesHandled, HandledInv
<1>6. CASE x \in Items
  <2>1. Stores(x) /\ x \in Stanzas
    BY <1>2, <1>6, Kinds DEF Stanzas
  <2> QED BY <1>1, <1>2, <1>6, <2>1, StoresHandled, HandledInv
<1> QED BY <1>3, <1>4, <1>5, <1>6 DEF Stanzas

(* What somebody else makes the server do. *)
LEMMA ElsewhereInv ==
  ASSUME SyncInv, NEW jid \in Contact, UNCHANGED <<client_vars, up>>,
         ServerType', asked' \subseteq DOMAIN server', asking' \subseteq Contact,
         wanted' \in [Contact -> Wishes], Pushed(jid),
         \A k \in Contact : k # jid => /\ wanted'[k] = wanted[k]
                                       /\ k \in asking' <=> k \in asking
                                       /\ k \in asked' <=> k \in asked,
         ~HurryCounts =>
           \/ wanted'[jid].listed = ANY /\ wanted'[jid].name = ANY /\ wanted'[jid].group = ANY
           \/ /\ SameItem(jid) /\ wanted'[jid].listed = wanted[jid].listed
              /\ wanted'[jid].name = wanted[jid].name /\ wanted'[jid].group = wanted[jid].group,
         wanted'[jid].seen = FALSE =>
           /\ wanted[jid].seen = FALSE
           /\ Seen(Held(jid).subscription)' => Seen(Held(jid).subscription),
         wanted'[jid].seen = TRUE =>
           /\ wanted[jid].seen = TRUE /\ (jid \in asking => jid \in asking')
           /\ Seen(Held(jid).subscription) => Seen(Held(jid).subscription)',
         wanted'[jid].sees = FALSE =>
           /\ wanted[jid].sees = FALSE
           /\ ~Sees(Held(jid).subscription) /\ jid \notin asked =>
                ~Sees(Held(jid).subscription)' /\ jid \notin asked'
  PROVE  SyncInv'
<1>1. UNCHANGED <<connected, roster, user, my_resources, up>>
  BY DEF client_vars
<1>2. Asking' <=> Asking
  BY <1>1 DEF Asking
<1>3. down' \in Seq(Pushes) /\ Offline' /\ Fresh' /\ Latest'
  BY <1>1, <1>2, PushedLatest
<1>4. IInv' /\ SyncTypeOK'
  BY <1>1, <1>3 DEF SyncInv, IInv, SyncTypeOK, ServerType
<1>5. \A k \in Contact : k # jid => SameItem(k) /\ Held(k)' = Held(k)
  BY PushedOthers
<1>6. ~HurryCounts => Requested'
  <2> SUFFICES ASSUME ~HurryCounts, NEW k \in Contact,
                      ~ (wanted'[k].listed = ANY /\ wanted'[k].name = ANY /\ wanted'[k].group = ANY)
               PROVE  /\ \A i \in 1..Len(up') : up'[i].jid = k => Agrees(up'[i], wanted'[k])
                      /\ \/ Stands(wanted[k], k)'
                         \/ \E i \in 1..Len(up') : up'[i] \in Items /\ up'[i].jid = k
    BY DEF Requested
  <2>1. PICK w, v : w = wanted[k] /\ v = wanted'[k]
    OBVIOUS
  <2>2. SameItem(k) /\ v.listed = w.listed /\ v.name = w.name /\ v.group = w.group
    BY <1>5, <2>1
  <2>3. /\ \A i \in 1..Len(up) : up[i].jid = k => Agrees(up[i], w)
        /\ Stands(w, k) \/ \E i \in 1..Len(up) : up[i] \in Items /\ up[i].jid = k
    BY <2>1, <2>2 DEF SyncInv, Requested
  <2>4. \A i \in 1..Len(up') : up'[i].jid = k => Agrees(up'[i], v)
    BY <1>1, <2>2, <2>3 DEF Agrees
  <2>5. Stands(w, k) => Stands(v, k)'
    BY <2>2 DEF SameItem, Stands
  <2>6. Stands(v, k)' <=> Stands(wanted[k], k)'
    BY <2>1
  <2> QED BY <1>1, <2>1, <2>3, <2>4, <2>5, <2>6
<1>7. Decided'
  <2> SUFFICES ASSUME NEW k \in Contact
               PROVE  /\ wanted'[k].seen = FALSE => NoMoreSeen(k)'
                      /\ wanted'[k].seen = TRUE  => NowSeen(k)'
                      /\ wanted'[k].sees = FALSE => NoMoreSees(k)'
    BY DEF Decided
  <2>1. wanted'[k].seen = FALSE => wanted[k].seen = FALSE /\ (Seen(Held(k).subscription)' => Seen(Held(k).subscription))
    BY <1>5
  <2>2. wanted'[k].seen = TRUE => /\ wanted[k].seen = TRUE /\ (k \in asking => k \in asking')
                                  /\ Seen(Held(k).subscription) => Seen(Held(k).subscription)'
    BY <1>5
  <2>3. wanted'[k].sees = FALSE =>
          /\ wanted[k].sees = FALSE
          /\ ~Sees(Held(k).subscription) /\ k \notin asked =>
               ~Sees(Held(k).subscription)' /\ k \notin asked'
    BY <1>5
  <2>4. Ends(k)' = Ends(k) /\ Stops(k)' = Stops(k)
    BY DEF Ends, Stops, Removal
  <2>5. /\ wanted[k].seen = FALSE => NoMoreSeen(k)
        /\ wanted[k].seen = TRUE => NowSeen(k)
        /\ wanted[k].sees = FALSE => NoMoreSees(k)
    BY DEF SyncInv, Decided
  <2>6. wanted'[k].seen = FALSE => NoMoreSeen(k)'
    BY <1>1, <2>1, <2>4, <2>5 DEF NoMoreSeen
  <2>7. wanted'[k].seen = TRUE => NowSeen(k)'
    BY <1>1, <2>2, <2>4, <2>5 DEF NowSeen
  <2>8. wanted'[k].sees = FALSE => NoMoreSees(k)'
    BY <1>1, <2>3, <2>4, <2>5 DEF NoMoreSees
  <2> QED BY <2>6, <2>7, <2>8
<1> QED BY <1>3, <1>4, <1>6, <1>7 DEF SyncInv

LEMMA OtherItemInv ==
  ASSUME SyncInv, NEW jid \in Contact, NEW x \in Items, x.jid = jid, Stores(x), Wish(jid, NoWish),
         UNCHANGED <<client_vars, up>>
  PROVE  SyncInv'
<1>1. /\ ServerType' /\ asked' \subseteq DOMAIN server' /\ asking' \subseteq Contact /\ Pushed(jid)
  BY StoresHandled
<1>2. \A k \in Contact : k # jid => /\ k \in asking' <=> k \in asking
                                    /\ k \in asked' <=> k \in asked
  <2>1. \/ asked' = asked \ {jid} /\ asking' = asking \ {jid}
        \/ asked' = asked /\ asking' = asking
    BY DEF Stores
  <2> QED BY <2>1
<1>3. SyncTypeOK
  BY DEF SyncInv
<1>4. /\ wanted' \in [Contact -> Wishes]
      /\ \A k \in Contact : k # jid => wanted'[k] = wanted[k]
      /\ wanted'[jid].sees = ANY /\ wanted'[jid].seen = ANY
      /\ ~HurryCounts => /\ wanted'[jid].listed = ANY /\ wanted'[jid].name = ANY
                         /\ wanted'[jid].group = ANY
  BY <1>3, WishSet, NoWishType
<1>5. ANY # TRUE /\ ANY # FALSE
  BY NoOpinion
<1>6. wanted'[jid].seen = ANY /\ wanted'[jid].sees = ANY
  BY <1>4
<1>7. wanted'[jid].seen = FALSE => FALSE
  BY <1>5, <1>6
<1>8. wanted'[jid].seen = TRUE => FALSE
  BY <1>5, <1>6
<1>9. wanted'[jid].sees = FALSE => FALSE
  BY <1>5, <1>6
<1> QED BY <1>1, <1>2, <1>4, <1>7, <1>8, <1>9, ElsewhereInv

LEMMA OtherClientInv ==
  ASSUME SyncInv, OtherClient
  PROVE  SyncInv'
<1>1. PICK jid \in Contact :
        \E x \in {Item(jid, "remove", NULL, NULL)} \cup
                  {Item(jid, NULL, name, group) : name \in Name \cup {NULL}, group \in Group \cup {NULL}} :
          Stores(x) /\ Wish(jid, NoWish) /\ UNCHANGED <<client_vars, up>>
  BY DEF OtherClient
<1>2. PICK x \in {Item(jid, "remove", NULL, NULL)} \cup
                  {Item(jid, NULL, name, group) : name \in Name \cup {NULL}, group \in Group \cup {NULL}} :
        Stores(x) /\ Wish(jid, NoWish) /\ UNCHANGED <<client_vars, up>>
  BY <1>1
<1>3. x \in Items /\ x.jid = jid
  <2>1. CASE x = Item(jid, "remove", NULL, NULL)
    BY <2>1, NoOpinion, ItemType
  <2>2. CASE x # Item(jid, "remove", NULL, NULL)
    <3>1. PICK name \in Texts, group \in Groups : x = Item(jid, NULL, name, group)
      BY <1>2, <2>2 DEF Texts, Groups
    <3> QED BY <3>1, NoOpinion, ItemType
  <2> QED BY <2>1, <2>2
<1> QED BY <1>2, <1>3, OtherItemInv

LEMMA ContactActsInv ==
  ASSUME SyncInv, NEW jid \in Contact, ContactActs(jid)
  PROVE  SyncInv'
<1> DEFINE s == Held(jid).subscription
<1>1. /\ UNCHANGED <<client_vars, up>>
      /\ SyncTypeOK /\ asked \subseteq DOMAIN server /\ asking \subseteq Contact
      /\ wanted \in [Contact -> Wishes]
  BY DEF ContactActs, SyncInv, SyncTypeOK
<1>2. Sees(s) \in BOOLEAN /\ Seen(s) \in BOOLEAN
  BY DEF Sees, Seen
<1>3. CASE asking' = asking \cup {jid} /\ UNCHANGED <<server, asked, down, wanted>>
  <2>1. ServerType' /\ Pushed(jid) /\ SameItem(jid) /\ Held(jid)' = Held(jid)
    BY <1>1, <1>3 DEF ServerType, SyncTypeOK, Pushed, SameItem, Held
  <2> QED BY <1>1, <1>3, <2>1, ElsewhereInv
<1>4. CASE /\ Ended(jid, Sees(s), FALSE) /\ asking' = asking \ {jid}
           /\ wanted' = [wanted EXCEPT ![jid].seen = IF @ = TRUE THEN ANY ELSE @]
           /\ UNCHANGED asked
  <2>1. /\ ServerType' /\ Pushed(jid) /\ SameItem(jid)
        /\ \A k : k \in DOMAIN server' <=> k \in DOMAIN server
        /\ Sees(Held(jid).subscription)' <=> Sees(s)
        /\ Seen(Held(jid).subscription)' <=> FALSE
    BY <1>1, <1>2, <1>4, EndedShows
  <2>2. PICK v, w : /\ v = IF wanted[jid].seen = TRUE THEN ANY ELSE wanted[jid].seen
                    /\ w = WithSeen(wanted[jid], v)
    OBVIOUS
  <2>3. wanted' = [wanted EXCEPT ![jid] = w]
    BY <1>4, <2>2 DEF WithSeen
  <2>4. v \in BOOLEAN \cup {ANY} /\ v # TRUE /\ (v = FALSE => wanted[jid].seen = FALSE)
    BY <2>2, WantedType, NoOpinion
  <2>5. /\ w \in Wishes /\ w.seen = v /\ w.sees = wanted[jid].sees
        /\ w.listed = wanted[jid].listed /\ w.name = wanted[jid].name /\ w.group = wanted[jid].group
    <3>1. wanted[jid] \in Wishes
      BY WantedType
    <3> QED BY <2>2, <2>4, <3>1, WithSeenType
  <2>6. /\ wanted' \in [Contact -> Wishes] /\ wanted'[jid] = w
        /\ \A k \in Contact : k # jid => wanted'[k] = wanted[k]
    BY <1>1, <2>3, <2>5
  <2> QED BY <1>1, <1>4, <2>1, <2>4, <2>5, <2>6, ElsewhereInv
<1>5. CASE /\ jid \in asked /\ Becomes(jid, TRUE, Seen(s)) /\ asked' = asked \ {jid}
           /\ UNCHANGED <<asking, wanted>>
  <2>1. /\ ServerType' /\ Pushed(jid) /\ SameItem(jid)
        /\ \A k : k \in DOMAIN server' <=> k \in DOMAIN server \/ k = jid
        /\ Seen(Held(jid).subscription)' <=> Seen(s)
    BY <1>1, <1>2, <1>5, BecomesShows
  <2> QED BY <1>1, <1>5, <2>1, ElsewhereInv
<1>6. CASE /\ Ended(jid, FALSE, Seen(s)) /\ asked' = asked \ {jid}
           /\ UNCHANGED <<asking, wanted>>
  <2>1. /\ ServerType' /\ Pushed(jid) /\ SameItem(jid)
        /\ \A k : k \in DOMAIN server' <=> k \in DOMAIN server
        /\ Sees(Held(jid).subscription)' <=> FALSE
        /\ Seen(Held(jid).subscription)' <=> Seen(s)
    BY <1>1, <1>2, <1>6, EndedShows
  <2> QED BY <1>1, <1>6, <2>1, ElsewhereInv
<1> QED BY <1>3, <1>4, <1>5, <1>6 DEF ContactActs

-----------------------------------------------------------------------------
(* The stream. *)

LEMMA ConnectInv ==
  ASSUME SyncInv, Connect
  PROVE  SyncInv'
<1>1. /\ sig_connected /\ up' = <<Query>>
      /\ UNCHANGED <<server, asked, asking, down, wanted>>
  BY DEF Connect, server_vars
<1>2. up = <<>> /\ down = <<>> /\ connected' /\ user' = <<>>
  BY <1>1 DEF sig_connected, SyncInv, Offline
<1>3. /\ Len(up') = 1 /\ up'[1] = Query /\ up' \in Seq(Stanzas \cup {Query})
      /\ \A i \in 1..Len(up') : i = 1 /\ up'[i] = Query
  BY <1>1
<1>4. Asking'
  BY <1>3 DEF Asking
<1>5. IInv'
  BY <1>1, NextInv DEF SyncInv, Next
<1>6. SyncTypeOK' /\ Offline' /\ Latest'
  BY <1>1, <1>2, <1>3, <1>4 DEF SyncInv, SyncTypeOK, Offline, Latest
<1>7. Fresh'
  <2>1. DOMAIN user' = {}
    BY <1>2
  <2> QED BY <1>1, <1>2, <1>3, <2>1 DEF Fresh
<1>8. \A k \in Contact : Query.jid # k
  BY Kinds, DistinctAssumption
<1>9. \A i \in 1..Len(up) : FALSE
  BY <1>2
<1>10. ~HurryCounts => Requested'
  <2> SUFFICES ASSUME ~HurryCounts, NEW k \in Contact
               PROVE  \/ wanted[k].listed = ANY /\ wanted[k].name = ANY /\ wanted[k].group = ANY
                      \/ /\ \A i \in 1..Len(up') : up'[i].jid = k => Agrees(up'[i], wanted[k])
                         /\ Stands(wanted[k], k)'
    BY <1>1 DEF Requested
  <2>1. \A i \in 1..Len(up') : up'[i].jid # k
    BY <1>3, <1>8
  <2>2. Stands(wanted[k], k) => Stands(wanted[k], k)'
    BY <1>1 DEF Stands
  <2> QED BY <1>9, <2>1, <2>2 DEF SyncInv, Requested
<1>11. Decided'
  <2> SUFFICES ASSUME NEW k \in Contact
               PROVE  /\ wanted[k].seen = FALSE => NoMoreSeen(k)'
                      /\ wanted[k].seen = TRUE  => NowSeen(k)'
                      /\ wanted[k].sees = FALSE => NoMoreSees(k)'
    BY <1>1 DEF Decided
  <2>1. /\ Query \notin Ends(k) /\ Query # Presence(k, "subscribed") /\ Query # Presence(k, "subscribe")
    BY <1>8, ItemFields, PresenceFields DEF Ends, Removal
  <2>2. Held(k)' = Held(k) /\ Ends(k)' = Ends(k) /\ Stops(k)' = Stops(k)
    BY <1>1 DEF Held, Ends, Stops, Removal
  <2>3. /\ wanted[k].seen = FALSE => NoMoreSeen(k)
        /\ wanted[k].seen = TRUE  => NowSeen(k)
        /\ wanted[k].sees = FALSE => NoMoreSees(k)
    BY DEF SyncInv, Decided
  <2>4. wanted[k].seen = FALSE => NoMoreSeen(k)'
    BY <1>3, <1>9, <2>1, <2>2, <2>3 DEF NoMoreSeen
  <2>5. wanted[k].seen = TRUE => NowSeen(k)'
    BY <1>3, <1>9, <2>1, <2>2, <2>3 DEF NowSeen
  <2>6. wanted[k].sees = FALSE => NoMoreSees(k)'
    BY <1>1, <1>3, <1>9, <2>1, <2>2, <2>3 DEF NoMoreSees
  <2> QED BY <2>4, <2>5, <2>6
<1> QED BY <1>5, <1>6, <1>7, <1>10, <1>11 DEF SyncInv

LEMMA DisconnectInv ==
  ASSUME SyncInv, Disconnect
  PROVE  SyncInv'
<1>1. /\ roster_cleanup /\ up' = <<>> /\ down' = <<>> /\ ~connected'
      /\ wanted' = [jid \in Contact |-> NoWish] /\ UNCHANGED <<server, asked, asking>>
  BY DEF Disconnect, server_vars, roster_cleanup
<1>2. IInv'
  BY <1>1, NextInv DEF SyncInv, Next
<1>3. SyncTypeOK' /\ Offline' /\ Fresh' /\ Latest'
  BY <1>1, NoWishType DEF SyncInv, SyncTypeOK, Offline, Fresh, Latest, Asking
<1>4. \A k \in Contact : /\ wanted'[k].listed = ANY /\ wanted'[k].name = ANY /\ wanted'[k].group = ANY
                         /\ wanted'[k].seen # FALSE /\ wanted'[k].seen # TRUE /\ wanted'[k].sees # FALSE
  BY <1>1, NoWishType, NoOpinion
<1>5. Requested' /\ Decided'
  BY <1>4 DEF Requested, Decided
<1> QED BY <1>2, <1>3, <1>5 DEF SyncInv

LEMMA ReceiveInv ==
  ASSUME SyncInv, Receive
  PROVE  SyncInv'
<1>1. /\ down # <<>> /\ down' = Tail(down)
      /\ update_user(Head(down).jid, Head(down).subscription, Head(down).name, Head(down).group)
      /\ UNCHANGED <<server, asked, asking, up, wanted>>
  BY DEF Receive, server_vars
<1>2. /\ down' \in Seq(Pushes) /\ Head(down) \in Pushes /\ Head(down) = down[1] /\ 1 \in 1..Len(down)
      /\ Len(down) \in Nat /\ Len(down') = Len(down) - 1
      /\ \A i \in 1..Len(down') : i + 1 \in 1..Len(down) /\ down'[i] = down[i + 1]
      /\ \A i \in 1..Len(down) : i # 1 => i - 1 \in 1..Len(down') /\ down'[i - 1] = down[i]
  BY <1>1, Tailed DEF SyncInv, SyncTypeOK
<1>3. connected /\ ~Asking
  BY <1>1 DEF SyncInv, Offline, Fresh
<1>4. PICK item \in Pushes : item = Head(down)
  BY <1>2
<1>5. /\ item.jid \in Contact /\ item.subscription \in XmppSubscription
      /\ item.name \in Texts /\ item.group \in Groups
  BY DEF Pushes
<1>6. update_user(item.jid, item.subscription, item.name, item.group) /\ IInv
  BY <1>1, <1>4 DEF SyncInv
<1>7. /\ IInv' /\ connected' = connected
      /\ \A k : k # item.jid => /\ k \in DOMAIN user' <=> k \in DOMAIN user
                                /\ k \in DOMAIN user => user'[k] = user[k]
                                /\ \A g : In(roster', k, g) <=> In(roster, k, g)
      /\ item.subscription = "remove" => item.jid \notin DOMAIN user'
      /\ item.subscription # "remove" =>
           /\ item.jid \in DOMAIN user'
           /\ user'[item.jid].name = item.name /\ user'[item.jid].subscription = item.subscription
           /\ In(roster', item.jid, item.group)
  BY <1>5, <1>6, UpdateShows
<1>8. ~Asking' /\ SyncTypeOK' /\ Offline' /\ Fresh'
  <2>1. ~Asking'
    BY <1>1, <1>3 DEF Asking
  <2>2. SyncTypeOK'
    BY <1>1, <1>2 DEF SyncInv, SyncTypeOK
  <2> QED BY <1>3, <1>7, <2>1, <2>2 DEF Offline, Fresh
<1>9. Latest'
  <2> SUFFICES ASSUME NEW k \in Contact PROVE Current(k)'
    BY DEF Latest
  <2>1. Current(k)
    BY <1>3 DEF SyncInv, Latest
  <2>2. ASSUME \A i \in 1..Len(down') : down'[i].jid # k PROVE Shows(k)'
    <3>1. \A i \in 1..Len(down) : i # 1 => down[i].jid # k
      BY <1>2, <2>2
    <3>2. CASE item.jid # k
      <4>1. \A i \in 1..Len(down) : down[i].jid # k
        BY <1>2, <1>4, <3>1, <3>2
      <4>2. Shows(k)
        BY <2>1, <4>1 DEF Current
      <4>3. /\ k \in DOMAIN user' <=> k \in DOMAIN user
            /\ k \in DOMAIN user => user'[k] = user[k]
            /\ \A g : In(roster', k, g) <=> In(roster, k, g)
        BY <1>7, <3>2
      <4> QED BY <1>1, <4>2, <4>3 DEF Shows
    <3>3. CASE item.jid = k
      <4>1. LastOf(k, 1)
        BY <1>2, <1>4, <3>1, <3>3 DEF LastOf
      <4>2. Tells(item, k)
        BY <1>2, <1>4, <2>1, <4>1 DEF Current
      <4> QED BY <1>1, <1>7, <3>3, <4>2 DEF Tells, Shows
    <3> QED BY <3>2, <3>3
  <2>3. ASSUME NEW i \in 1..Len(down'), LastOf(k, i)' PROVE Tells(down[i], k)'
    <3>1. i + 1 \in 1..Len(down) /\ down'[i] = down[i + 1]
      BY <1>2
    <3>2. down'[i].jid = k /\ \A j \in 1..Len(down') : j > i => down'[j].jid # k
      BY <2>3 DEF LastOf
    <3>3. ASSUME NEW j \in 1..Len(down), j > i + 1 PROVE down[j].jid # k
      <4>1. j # 1 /\ j - 1 > i
        BY <1>2, <3>3
      <4>2. j - 1 \in 1..Len(down') /\ down'[j - 1] = down[j]
        BY <1>2, <4>1
      <4> QED BY <3>2, <4>1, <4>2
    <3>4. LastOf(k, i + 1)
      BY <3>1, <3>2, <3>3 DEF LastOf
    <3>5. Tells(down[i + 1], k)
      BY <2>1, <3>1, <3>4 DEF Current
    <3> QED BY <1>1, <3>1, <3>5 DEF Tells
  <2> QED BY <2>2, <2>3 DEF Current
<1>10. ~HurryCounts => Requested'
  <2>1. \A k \in Contact : Stands(wanted[k], k) => Stands(wanted[k], k)'
    BY <1>1 DEF Stands
  <2> QED BY <1>1, <2>1 DEF SyncInv, Requested
<1>11. Decided'
  <2>1. \A k \in Contact : Held(k)' = Held(k) /\ Ends(k)' = Ends(k) /\ Stops(k)' = Stops(k)
    BY <1>1 DEF Held, Ends, Stops, Removal
  <2>2. \A k \in Contact : /\ NoMoreSeen(k) => NoMoreSeen(k)'
                           /\ NowSeen(k) => NowSeen(k)'
                           /\ NoMoreSees(k) => NoMoreSees(k)'
    BY <1>1, <2>1 DEF NoMoreSeen, NowSeen, NoMoreSees
  <2> QED BY <1>1, <2>2 DEF SyncInv, Decided
<1> QED BY <1>7, <1>8, <1>9, <1>10, <1>11 DEF SyncInv

-----------------------------------------------------------------------------
(* The theorems. *)

LEMMA SyncInitInv == SyncInit => SyncInv
<1> SUFFICES ASSUME SyncInit PROVE SyncInv
  OBVIOUS
<1>1. /\ Init /\ ~connected /\ server = <<>> /\ asked = {} /\ asking = {}
      /\ up = <<>> /\ down = <<>> /\ wanted = [jid \in Contact |-> NoWish]
  BY DEF SyncInit, Init
<1>2. IInv
  BY <1>1, InitInv
<1>3. SyncTypeOK
  <2>1. DOMAIN server = {} /\ server \in [DOMAIN server -> ServerItem]
    BY <1>1
  <2>2. IsFiniteSet(DOMAIN server)
    BY <2>1, FS_EmptySet
  <2>3. wanted \in [Contact -> Wishes]
    BY <1>1, NoWishType
  <2> QED BY <1>1, <2>1, <2>2, <2>3 DEF SyncTypeOK
<1>4. Offline /\ Fresh /\ Latest
  BY <1>1 DEF Offline, Fresh, Latest, Asking
<1>5. \A k \in Contact : /\ wanted[k].listed = ANY /\ wanted[k].name = ANY /\ wanted[k].group = ANY
                         /\ wanted[k].seen # FALSE /\ wanted[k].seen # TRUE /\ wanted[k].sees # FALSE
  BY <1>1, NoWishType, NoOpinion
<1>6. Requested /\ Decided
  BY <1>5 DEF Requested, Decided
<1> QED BY <1>2, <1>3, <1>4, <1>6 DEF SyncInv

LEMMA SyncNextInv == SyncInv /\ [SyncNext]_sync_vars => SyncInv'
<1> SUFFICES ASSUME SyncInv, [SyncNext]_sync_vars PROVE SyncInv'
  OBVIOUS
<1>1. Managed \subseteq Contact
  BY BoundAssumption
<1>2. ASSUME NEW jid \in Managed, NEW nosub \in BOOLEAN, cmd_roster_add(jid, nosub) PROVE SyncInv'
  BY <1>1, <1>2, AddInv
<1>3. ASSUME NEW jid \in Managed, cmd_roster_remove(jid) PROVE SyncInv'
  BY <1>1, <1>3, RemoveInv
<1>4. ASSUME NEW jid \in Managed, NEW name \in Name \cup {NULL}, cmd_roster_name(jid, name) PROVE SyncInv'
  BY <1>1, <1>4, NameInv DEF Texts
<1>5. ASSUME NEW jid \in Managed, NEW group \in Group \cup {NULL}, cmd_roster_group(jid, group)
      PROVE  SyncInv'
  BY <1>1, <1>5, GroupInv DEF Groups
<1>6. ASSUME NEW jid \in Managed, cmd_presence_accept(jid) PROVE SyncInv'
  BY <1>1, <1>6, AcceptInv
<1>7. ASSUME NEW jid \in Managed, cmd_presence_deny(jid) PROVE SyncInv'
  BY <1>1, <1>7, DenyInv
<1>8. ASSUME NEW jid \in Managed, cmd_presence_subscribe(jid) PROVE SyncInv'
  BY <1>1, <1>8, SubscribeInv
<1>9. ASSUME NEW jid \in Managed, cmd_presence_unsubscribe(jid) PROVE SyncInv'
  BY <1>1, <1>9, UnsubscribeInv
<1>10. ASSUME NEW jid \in Managed, ContactActs(jid) PROVE SyncInv'
  BY <1>1, <1>10, ContactActsInv
<1>11. CASE ServerHandles
  BY <1>11, ServerHandlesInv
<1>12. CASE OtherClient
  BY <1>12, OtherClientInv
<1>13. CASE Connect
  BY <1>13, ConnectInv
<1>14. CASE Receive
  BY <1>14, ReceiveInv
<1>15. CASE Disconnect
  BY <1>15, DisconnectInv
<1>16. CASE UNCHANGED sync_vars
  <2>1. UNCHANGED <<connected, roster, user, my_resources, server, asked, asking, up, down, wanted>>
    BY <1>16 DEF sync_vars
  <2>2. IInv' /\ SyncTypeOK' /\ Offline' /\ Fresh'
    BY <2>1 DEF SyncInv, IInv, SyncTypeOK, Offline, Fresh, Asking
  <2>3. Latest'
    BY <2>1 DEF SyncInv, Latest, Current, LastOf, Shows, Tells, In, Asking
  <2>4. ~HurryCounts => Requested'
    BY <2>1 DEF SyncInv, Requested, Stands
  <2>5. Decided'
    BY <2>1 DEF SyncInv, Decided, NoMoreSeen, NowSeen, NoMoreSees, Held, Ends, Stops, Removal
  <2> QED BY <2>2, <2>3, <2>4, <2>5 DEF SyncInv
<1> QED BY <1>2, <1>3, <1>4, <1>5, <1>6, <1>7, <1>8, <1>9, <1>10, <1>11, <1>12, <1>13, <1>14,
           <1>15, <1>16 DEF SyncNext

(* The invariant holds in every state that the client, the server, the other  *)
(* clients of the account and the contacts reach.                             *)
THEOREM SyncInvariance == SyncSpec => []SyncInv
<1>1. SyncInit => SyncInv
  BY SyncInitInv
<1>2. SyncInv /\ [SyncNext]_sync_vars => SyncInv'
  BY SyncNextInv
<1> QED BY <1>1, <1>2, PTL DEF SyncSpec

(* The commands keep what the handlers of the roster keep: a contact stands in *)
(* one group only.                                                             *)
THEOREM ContactsListedOnceInSync == SyncSpec => []OneEntryPerContact
<1>1. SyncInv => OneEntryPerContact
  BY DEF SyncInv, IInv, GoodGroups, OneEntryPerContact
<1> QED BY <1>1, SyncInvariance, PTL

(* And the groups hold the records that are allocated.                         *)
THEOREM RecordsAreListedInSync == SyncSpec => []RecordsListed
<1>1. SyncInv => RecordsListed
  BY DEF SyncInv, IInv, Members, RecordsListed
<1> QED BY <1>1, SyncInvariance, PTL

(* Once every stanza has been delivered, the client shows the server's roster. *)
THEOREM ServerShown == SyncSpec => []ClientShowsServer
<1>1. SyncInv => ClientShowsServer
  <2> SUFFICES ASSUME SyncInv, Quiet
               PROVE  /\ DOMAIN user = DOMAIN server
                      /\ \A jid \in DOMAIN server :
                           [name |-> user[jid].name, group |-> GroupOf(jid),
                            subscription |-> user[jid].subscription] = server[jid]
    BY DEF ClientShowsServer
  <2>1. connected /\ up = <<>> /\ down = <<>>
    BY DEF Quiet
  <2>2. ~Asking /\ \A i \in 1..Len(down) : FALSE
    BY <2>1 DEF Asking
  <2>3. \A jid \in Contact : Shows(jid)
    BY <2>1, <2>2 DEF SyncInv, Latest, Current
  <2>4. DOMAIN user = DOMAIN server
    BY <2>3 DEF SyncInv, IInv, GoodUsers, SyncTypeOK, Shows
  <2>5. ASSUME NEW jid \in DOMAIN server
        PROVE  [name |-> user[jid].name, group |-> GroupOf(jid),
                subscription |-> user[jid].subscription] = server[jid]
    <3>1. jid \in Contact /\ server[jid] \in ServerItem
      BY <2>5 DEF SyncInv, SyncTypeOK
    <3>2. /\ user[jid].name = server[jid].name /\ user[jid].subscription = server[jid].subscription
          /\ In(roster, jid, server[jid].group)
      BY <2>3, <2>5, <3>1 DEF Shows
    <3>3. Listed(jid)
      BY <2>4, <2>5, ListedHasRecord DEF SyncInv
    <3>4. GroupOf(jid) = server[jid].group
      BY <3>2, <3>3, GroupFound DEF SyncInv
    <3> QED BY <3>1, <3>2, <3>4 DEF ServerItem
  <2> QED BY <2>4, <2>5
<1> QED BY <1>1, SyncInvariance, PTL

(* Once every stanza has been delivered, what the user asked of a contact that *)
(* nothing was in flight about stands, unless somebody else has overridden it. *)
THEOREM RequestsAreHonoured == ~HurryCounts => (SyncSpec => []RequestsHonoured)
<1> SUFFICES ASSUME ~HurryCounts PROVE SyncSpec => []RequestsHonoured
  OBVIOUS
<1>1. SyncInv => RequestsHonoured
  <2> SUFFICES ASSUME SyncInv, Quiet, NEW jid \in Contact
               PROVE  /\ wanted[jid].listed # ANY => (wanted[jid].listed <=> jid \in DOMAIN server)
                      /\ jid \in DOMAIN server =>
                           /\ wanted[jid].name  \in {ANY, server[jid].name}
                           /\ wanted[jid].group \in {ANY, server[jid].group}
    BY DEF RequestsHonoured
  <2>1. \A i \in 1..Len(up) : FALSE
    BY DEF Quiet
  <2>2. \/ wanted[jid].listed = ANY /\ wanted[jid].name = ANY /\ wanted[jid].group = ANY
        \/ Stands(wanted[jid], jid)
    BY <2>1 DEF SyncInv, Requested
  <2>3. wanted[jid].listed \in BOOLEAN \cup {ANY}
    BY WantedType
  <2>4. wanted[jid].listed # ANY => (wanted[jid].listed <=> jid \in DOMAIN server)
    BY <2>2, <2>3 DEF Stands
  <2> QED BY <2>2, <2>4 DEF Stands
<1> QED BY <1>1, SyncInvariance, PTL

(* Once every stanza has been delivered, who sees whom is what the user last   *)
(* decided, however fast it typed.                                             *)
THEOREM SubscriptionsAreHonoured == SyncSpec => []SubscriptionsHonoured
<1>1. SyncInv => SubscriptionsHonoured
  <2> SUFFICES ASSUME SyncInv, Quiet, NEW jid \in Contact
               PROVE  /\ wanted[jid].seen \in {ANY, Seen(Held(jid).subscription)}
                      /\ wanted[jid].sees = FALSE => ~Sees(Held(jid).subscription)
    BY DEF SubscriptionsHonoured
  <2>1. \A i \in 1..Len(up) : FALSE
    BY DEF Quiet
  <2>2. /\ wanted[jid].seen = FALSE => ~Seen(Held(jid).subscription)
        /\ wanted[jid].seen = TRUE  => Seen(Held(jid).subscription)
        /\ wanted[jid].sees = FALSE => ~Sees(Held(jid).subscription)
    BY <2>1 DEF SyncInv, Decided, NoMoreSeen, NowSeen, NoMoreSees
  <2>3. wanted[jid].seen \in BOOLEAN \cup {ANY}
    BY WantedType
  <2>4. Seen(Held(jid).subscription) \in BOOLEAN
    BY DEF Seen
  <2> QED BY <2>2, <2>3, <2>4
<1> QED BY <1>1, SyncInvariance, PTL

=============================================================================
