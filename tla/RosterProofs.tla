---------------------------- MODULE RosterProofs ----------------------------
(***************************************************************************)
(* Theorems about Roster, for every set of contacts, resources, groups and *)
(* priorities.  The inductive invariant IInv says of the groups that they  *)
(* are disjoint and hold the records that are allocated, and of each list  *)
(* of resources that it is sorted by priority and that no name is in it    *)
(* twice.                                                                  *)
(***************************************************************************)
EXTENDS Roster, SequenceTheorems, WellFoundedInduction, TLAPS

(* A record without a name, which a presence from a bare JID creates, may  *)
(* be in a list more than once.                                            *)
GoodNames(list) ==
  /\ \A i, j \in 1..Len(list) :
       i # j /\ list[i].name # EmptyName => list[i].name # list[j].name
  /\ Gateway = {} => \A i \in 1..Len(list) : list[i].name # EmptyName

(* A list of resources as the handlers keep it. *)
GoodList(list) ==
  /\ list \in Seq(Resource)
  /\ \A i, j \in 1..Len(list) : i < j => list[i].priority >= list[j].priority
  /\ GoodNames(list)

-----------------------------------------------------------------------------
(* Lists of resources. *)

(* Every non-empty set of natural numbers has a least element. *)
LEMMA LeastNatural ==
  ASSUME NEW S \in SUBSET Nat, S # {}
  PROVE  \E m \in S : \A n \in S : m <= n
<1> DEFINE Less == {ss \in Nat \X Nat : ss[1] < ss[2]}
<1>1. IsWellFoundedOn(Less, Nat)
  BY NatLessThanWellFounded DEF OpToRel
<1> HIDE DEF Less
<1>2. PICK m \in S : \A n \in S : ~ (<<n, m>> \in Less)
  BY <1>1, WFMin
<1>3. ASSUME NEW n \in S PROVE m <= n
  <2>1. <<n, m>> \in Nat \X Nat /\ ~ (<<n, m>> \in Less)
    BY <1>2
  <2>2. ~ (n < m)
    BY <2>1 DEF Less
  <2>3. QED
    BY <2>2
<1>4. QED
  BY <1>3

(* rosters_find_resource returns a record of the list with the name sought. *)
LEMMA FindProperties ==
  ASSUME NEW list \in Seq(Resource), NEW res, Has(list, res)
  PROVE  /\ Find(list, res) \in 1..Len(list)
         /\ list[Find(list, res)].name = res
<1> DEFINE S == {i \in 1..Len(list) : list[i].name = res}
<1>1. S \in SUBSET Nat /\ S # {}
  BY DEF Has
<1>2. PICK m \in S : \A n \in S : m <= n
  BY <1>1, LeastNatural
<1>3. /\ m \in 1..Len(list)
      /\ list[m].name = res
      /\ \A j \in 1..(m - 1) : list[j].name # res
  BY <1>2, LenProperties
<1>4. \E i \in 1..Len(list) :
        /\ list[i].name = res
        /\ \A j \in 1..(i - 1) : list[j].name # res
  BY <1>3
<1>5. QED
  BY <1>4 DEF Find

(* g_slist_sort: a sorted list has the same records, ordered by priority. *)
LEMMA SortedProperties ==
  ASSUME NEW list \in Seq(Resource), NEW s \in Sorted(list)
  PROVE  /\ s \in Seq(Resource)
         /\ Len(s) = Len(list)
         /\ \A i, j \in 1..Len(s) : i < j => s[i].priority >= s[j].priority
         /\ \E p \in Orders(Len(list)) : \A i \in 1..Len(s) : s[i] = list[p[i]]
<1>1. PICK p \in Orders(Len(list)) :
        /\ \A i, j \in 1..Len(list) : i < j => Precedes(list[p[i]], list[p[j]])
        /\ s = [i \in 1..Len(list) |-> list[p[i]]]
  BY DEF Sorted
<1>2. p \in [1..Len(list) -> 1..Len(list)]
  BY DEF Orders
<1>3. Len(list) \in Nat /\ \A i \in 1..Len(list) : list[i] \in Resource
  BY LenProperties, ElementOfSeq
<1>4. s \in [1..Len(list) -> Resource]
  BY <1>1, <1>2, <1>3
<1>5. s \in Seq(Resource) /\ Len(s) = Len(list)
  BY <1>3, <1>4
<1>6. \A i \in 1..Len(s) : s[i] = list[p[i]]
  BY <1>1, <1>5
<1>7. ASSUME NEW i \in 1..Len(s), NEW j \in 1..Len(s), i < j
      PROVE  s[i].priority >= s[j].priority
  <2>1. Precedes(s[i], s[j])
    BY <1>1, <1>5, <1>7
  <2>2. s[i].priority \in Int /\ s[j].priority \in Int
    BY <1>4, <1>5 DEF Resource
  <2>3. QED
    BY <2>1, <2>2 DEF Precedes
<1>8. QED
  BY <1>1, <1>5, <1>6, <1>7

(* Sorting keeps the names apart. *)
LEMMA SortedGood ==
  ASSUME NEW list \in Seq(Resource), NEW s \in Sorted(list), GoodNames(list)
  PROVE  GoodList(s)
<1>1. PICK p \in Orders(Len(list)) : \A i \in 1..Len(s) : s[i] = list[p[i]]
  BY SortedProperties
<1>2. /\ p \in [1..Len(list) -> 1..Len(list)]
      /\ \A i, j \in 1..Len(list) : i # j => p[i] # p[j]
  BY DEF Orders
<1>3. Len(s) = Len(list)
  BY SortedProperties
<1>4. ASSUME NEW i \in 1..Len(s), NEW j \in 1..Len(s), i # j, s[i].name # EmptyName
      PROVE  s[i].name # s[j].name
  <2>1. p[i] \in 1..Len(list) /\ p[j] \in 1..Len(list) /\ p[i] # p[j]
    BY <1>2, <1>3, <1>4
  <2>2. s[i] = list[p[i]] /\ s[j] = list[p[j]]
    BY <1>1
  <2>3. \A k, l \in 1..Len(list) :
          k # l /\ list[k].name # EmptyName => list[k].name # list[l].name
    BY DEF GoodNames
  <2>4. QED
    BY <1>4, <2>1, <2>2, <2>3
<1>5. Gateway = {} => \A i \in 1..Len(s) : s[i].name # EmptyName
  BY <1>1, <1>2, <1>3 DEF GoodNames
<1>6. QED
  BY <1>4, <1>5, SortedProperties DEF GoodList, GoodNames

(* create_resource. *)
LEMMA NewResourceType ==
  ASSUME NEW res \in Res \cup {NULL}
  PROVE  /\ NewResource(res) \in Resource
         /\ NewResource(res).name = IF res = NULL THEN EmptyName ELSE res
BY DEF NewResource, Resource, UNAVAILABLE

(* A list without its n-th element is the list before it and the list after *)
(* it.                                                                      *)
LEMMA RemoveAtGood ==
  ASSUME NEW list, GoodList(list), NEW n \in 1..Len(list)
  PROVE  GoodList(RemoveAt(list, n))
<1> DEFINE new == RemoveAt(list, n)
           Old(i) == IF i < n THEN i ELSE i + 1
<1>1. /\ list \in Seq(Resource) /\ Len(list) \in Nat
      /\ \A i \in 1..Len(list) : list[i] \in Resource
  BY LenProperties, ElementOfSeq DEF GoodList
<1>2. \A i \in 1..(Len(list) - 1) : Old(i) \in 1..Len(list)
  BY <1>1
<1>3. \A i \in 1..(Len(list) - 1) : new[i] = list[Old(i)]
  BY DEF RemoveAt
<1>4. /\ new \in Seq(Resource) /\ Len(new) = Len(list) - 1
  <2>1. Len(list) - 1 \in Nat
    BY <1>1
  <2>2. new \in [1..(Len(list) - 1) -> Resource]
    BY <1>1, <1>2 DEF RemoveAt
  <2>3. QED
    BY <2>1, <2>2
<1>5. \A i, j \in 1..Len(new) : i < j => Old(i) < Old(j)
  BY <1>1, <1>4
<1>6. \A i, j \in 1..Len(new) : i # j => Old(i) # Old(j)
  BY <1>1, <1>4
<1> HIDE DEF new, Old
<1>7. ASSUME NEW i \in 1..Len(new), NEW j \in 1..Len(new), i # j
      PROVE  /\ i < j => new[i].priority >= new[j].priority
             /\ new[i].name # EmptyName => new[i].name # new[j].name
  <2>1. /\ Old(i) \in 1..Len(list) /\ new[i] = list[Old(i)]
        /\ Old(j) \in 1..Len(list) /\ new[j] = list[Old(j)]
    BY <1>2, <1>3, <1>4, <1>7
  <2>2. (i < j => Old(i) < Old(j)) /\ Old(i) # Old(j)
    BY <1>5, <1>6, <1>7
  <2>3. QED
    BY <2>1, <2>2 DEF GoodList, GoodNames
<1>8. ASSUME Gateway = {}, NEW i \in 1..Len(new) PROVE new[i].name # EmptyName
  BY <1>2, <1>3, <1>4, <1>8 DEF GoodList, GoodNames
<1>9. QED
  BY <1>1, <1>4, <1>7, <1>8 DEF GoodList, GoodNames, new

(* user_unavailable keeps the list good. *)
LEMMA WithoutGood ==
  ASSUME NEW list, GoodList(list), NEW res
  PROVE  GoodList(Without(list, res))
<1>1. CASE Has(list, res)
  <2>1. Find(list, res) \in 1..Len(list)
    BY <1>1, FindProperties DEF GoodList
  <2>2. QED
    BY <1>1, <2>1, RemoveAtGood DEF Without
<1>2. CASE ~Has(list, res)
  BY <1>2 DEF Without
<1>3. QED
  BY <1>1, <1>2

(* user_presence_error keeps the list good: it changes no priority. *)
LEMMA WithErrorGood ==
  ASSUME NEW list, GoodList(list), NEW res
  PROVE  GoodList(WithError(list, res))
<1>1. CASE ~Has(list, res)
  BY <1>1 DEF WithError
<1>2. CASE Has(list, res)
  <2> DEFINE n == Find(list, res)
             old == list[n]
             rec == [old EXCEPT !.show = ERROR]
             new == [list EXCEPT ![n] = rec]
  <2>1. /\ list \in Seq(Resource)
        /\ n \in 1..Len(list)
        /\ old \in Resource
    BY <1>2, FindProperties, ElementOfSeq DEF GoodList
  <2> HIDE DEF old
  <2>2. /\ rec \in Resource
        /\ rec.name = old.name /\ rec.priority = old.priority
    BY <2>1 DEF Resource, ERROR
  <2>3. /\ new \in Seq(Resource) /\ Len(new) = Len(list)
        /\ \A j \in 1..Len(list) : new[j] = IF j = n THEN rec ELSE list[j]
    BY <2>1, <2>2, ExceptSeq
  <2>4. WithError(list, res) = new
    BY <1>2 DEF WithError, old
  <2> HIDE DEF n, rec, new
  <2>5. \A j \in 1..Len(new) :
          new[j].name = list[j].name /\ new[j].priority = list[j].priority
    BY <2>2, <2>3 DEF old
  <2>6. QED
    BY <2>3, <2>4, <2>5 DEF GoodList, GoodNames
<1>3. QED
  BY <1>1, <1>2

(* The record that an available presence leaves. *)
LEMMA AnnouncedType ==
  ASSUME NEW old \in Resource, NEW show \in Show,
         NEW priority \in Priority \cup {NULL}, NEW status \in Status \cup {NULL}
  PROVE  /\ Announced(old, show, priority, status) \in Resource
         /\ Announced(old, show, priority, status).name = old.name
<1>1. show \in Nat /\ old.priority \in Int
  BY DataAssumption DEF Resource
<1>2. (IF priority = NULL THEN old.priority ELSE priority) \in Int
  BY <1>1, DataAssumption
<1>3. QED
  BY <1>1, <1>2 DEF Resource, Announced

(* A list to which a name that it lacks is added keeps its names apart. *)
LEMMA NewNameDistinct ==
  ASSUME NEW list \in Seq(Resource), GoodNames(list),
         NEW res \in Res \cup {NULL}, Gateway = {} => res # NULL, ~Has(list, res)
  PROVE  /\ <<NewResource(res)>> \o list \in Seq(Resource)
         /\ GoodNames(<<NewResource(res)>> \o list)
<1> DEFINE rec == NewResource(res)
           all == <<rec>> \o list
<1>1. rec \in Resource /\ rec.name = IF res = NULL THEN EmptyName ELSE res
  BY NewResourceType
<1> HIDE DEF rec
<1>2. /\ <<rec>> \in Seq(Resource) /\ Len(<<rec>>) = 1 /\ <<rec>>[1] = rec
  BY <1>1
<1>3. /\ all \in Seq(Resource)
      /\ Len(list) \in Nat
      /\ Len(all) = 1 + Len(list)
      /\ \A i \in 1..Len(all) : all[i] = IF i = 1 THEN rec ELSE list[i - 1]
  BY <1>2, ConcatProperties, LenProperties
<1>4. \A i \in 1..Len(list) : list[i].name # res
  BY DEF Has
<1>5. \A i \in 1..Len(list) : rec.name = EmptyName \/ list[i].name # rec.name
  BY <1>1, <1>4
<1> HIDE DEF all
<1>6. ASSUME NEW i \in 1..Len(all), NEW j \in 1..Len(all),
             i # j, all[i].name # EmptyName
      PROVE  all[i].name # all[j].name
  <2>1. CASE i = 1
    <3>1. all[i] = rec /\ j - 1 \in 1..Len(list) /\ all[j] = list[j - 1]
      BY <1>3, <1>6, <2>1
    <3>2. QED
      BY <1>5, <1>6, <3>1
  <2>2. CASE j = 1
    <3>1. all[j] = rec /\ i - 1 \in 1..Len(list) /\ all[i] = list[i - 1]
      BY <1>3, <1>6, <2>2
    <3>2. QED
      BY <1>5, <1>6, <3>1
  <2>3. CASE i # 1 /\ j # 1
    <3>1. /\ i - 1 \in 1..Len(list) /\ all[i] = list[i - 1]
          /\ j - 1 \in 1..Len(list) /\ all[j] = list[j - 1]
          /\ i - 1 # j - 1
      BY <1>3, <1>6, <2>3
    <3>2. QED
      BY <1>6, <3>1 DEF GoodNames
  <2>4. QED
    BY <2>1, <2>2, <2>3
<1>7. ASSUME Gateway = {}, NEW i \in 1..Len(all) PROVE all[i].name # EmptyName
  <2>1. rec.name # EmptyName
    BY <1>1, <1>7, ResAssumption
  <2>2. CASE i = 1
    BY <1>3, <2>1, <2>2
  <2>3. CASE i # 1
    <3>1. i - 1 \in 1..Len(list) /\ all[i] = list[i - 1]
      BY <1>3, <2>3
    <3>2. QED
      BY <1>7, <3>1 DEF GoodNames
  <2>4. QED
    BY <2>2, <2>3
<1>8. QED
  BY <1>3, <1>6, <1>7 DEF GoodNames, all, rec

(* Overwriting a record without renaming it keeps the names apart. *)
LEMMA SameNameDistinct ==
  ASSUME NEW list \in Seq(Resource), GoodNames(list),
         NEW n \in 1..Len(list), NEW rec \in Resource, rec.name = list[n].name
  PROVE  /\ [list EXCEPT ![n] = rec] \in Seq(Resource)
         /\ GoodNames([list EXCEPT ![n] = rec])
<1> DEFINE new == [list EXCEPT ![n] = rec]
<1>1. /\ new \in Seq(Resource) /\ Len(new) = Len(list)
      /\ \A j \in 1..Len(list) : new[j] = IF j = n THEN rec ELSE list[j]
  BY ExceptSeq
<1> HIDE DEF new
<1>2. \A j \in 1..Len(new) : new[j].name = list[j].name
  BY <1>1
<1>3. QED
  BY <1>1, <1>2 DEF GoodNames, new

(* update_user_presence keeps the list good: it sorts after every change,   *)
(* and looks the record up before it creates one.                           *)
LEMMA WithPresenceGood ==
  ASSUME NEW list, GoodList(list),
         NEW res \in Res \cup {NULL}, Gateway = {} => res # NULL,
         NEW show \in Show, NEW priority \in Priority \cup {NULL},
         NEW status \in Status \cup {NULL},
         NEW s \in WithPresence(list, res, show, priority, status)
  PROVE  GoodList(s)
<1> DEFINE new == ~Has(list, res)
           all == IF new THEN <<NewResource(res)>> \o list ELSE list
           pos == IF new THEN 1 ELSE Find(list, res)
           old == all[pos]
           rec == Announced(old, show, priority, status)
<1>1. s \in IF new \/ rec # old THEN Sorted([all EXCEPT ![pos] = rec]) ELSE {list}
  BY DEF WithPresence
<1>2. list \in Seq(Resource) /\ GoodNames(list)
  BY DEF GoodList
<1>3. all \in Seq(Resource) /\ GoodNames(all)
  BY <1>2, NewNameDistinct
<1>4. pos \in 1..Len(all)
  <2>1. CASE new
    <3>1. /\ <<NewResource(res)>> \in Seq(Resource)
          /\ Len(<<NewResource(res)>>) = 1
      BY NewResourceType
    <3>2. Len(all) = 1 + Len(list) /\ Len(list) \in Nat
      BY <1>2, <2>1, <3>1, ConcatProperties, LenProperties
    <3>3. QED
      BY <2>1, <3>2
  <2>2. CASE ~new
    BY <1>2, <2>2, FindProperties
  <2>3. QED
    BY <2>1, <2>2
<1>5. old \in Resource
  BY <1>3, <1>4, ElementOfSeq
<1> HIDE DEF old
<1>6. rec \in Resource /\ rec.name = old.name
  BY <1>5, AnnouncedType
<1> HIDE DEF rec, pos, all
<1>7. /\ [all EXCEPT ![pos] = rec] \in Seq(Resource)
      /\ GoodNames([all EXCEPT ![pos] = rec])
  BY <1>3, <1>4, <1>6, SameNameDistinct DEF old
<1>8. CASE s \in Sorted([all EXCEPT ![pos] = rec])
  BY <1>7, <1>8, SortedGood
<1>9. QED
  BY <1>1, <1>8

-----------------------------------------------------------------------------
(* Groups. *)

Members(groups) == UNION {groups[g] : g \in DOMAIN groups}

GoodGroups(groups) ==
  /\ DOMAIN groups \subseteq Group \cup {NULL}
  /\ groups \in [DOMAIN groups -> SUBSET Contact]
  /\ \A g, h \in DOMAIN groups : g # h => groups[g] \cap groups[h] = {}

(* find_or_add_group and g_slist_append, for a contact in no group. *)
LEMMA AddToGood ==
  ASSUME NEW groups, GoodGroups(groups), NEW group \in Group \cup {NULL},
         NEW jid \in Contact, jid \notin Members(groups)
  PROVE  /\ GoodGroups(AddTo(groups, group, jid))
         /\ Members(AddTo(groups, group, jid)) = Members(groups) \cup {jid}
         /\ group \in DOMAIN AddTo(groups, group, jid)
         /\ jid \in AddTo(groups, group, jid)[group]
<1> DEFINE old == IF group \in DOMAIN groups THEN groups[group] ELSE {}
           new == AddTo(groups, group, jid)
<1>1. /\ DOMAIN new = DOMAIN groups \cup {group}
      /\ new = [g \in DOMAIN new |-> IF g = group THEN {jid} \cup old ELSE groups[g]]
  BY DEF AddTo, Put
<1>2. /\ new[group] = {jid} \cup old
      /\ \A g \in DOMAIN new : g # group => g \in DOMAIN groups /\ new[g] = groups[g]
  BY <1>1
<1>3. old \subseteq Contact /\ old \subseteq Members(groups)
  BY DEF GoodGroups, Members
<1> HIDE DEF new
<1>4. /\ DOMAIN new \subseteq Group \cup {NULL}
      /\ new \in [DOMAIN new -> SUBSET Contact]
  <2>1. \A g \in DOMAIN new : new[g] \in SUBSET Contact
    BY <1>2, <1>3 DEF GoodGroups
  <2>2. QED
    BY <1>1, <2>1 DEF GoodGroups
<1>5. ASSUME NEW g \in DOMAIN new, NEW h \in DOMAIN new, g # h
      PROVE  new[g] \cap new[h] = {}
  <2>1. \A k \in DOMAIN groups : jid \notin groups[k]
    BY DEF Members
  <2>2. CASE g = group
    BY <1>2, <1>5, <2>1, <2>2 DEF GoodGroups
  <2>3. CASE h = group
    BY <1>2, <1>5, <2>1, <2>3 DEF GoodGroups
  <2>4. CASE g # group /\ h # group
    BY <1>2, <1>5, <2>4 DEF GoodGroups
  <2>5. QED
    BY <2>2, <2>3, <2>4
<1>6. Members(new) = Members(groups) \cup {jid}
  <2>1. ASSUME NEW j \in Members(new) PROVE j \in Members(groups) \cup {jid}
    BY <1>2, <1>3, <2>1 DEF Members
  <2>2. ASSUME NEW j \in Members(groups) PROVE j \in Members(new)
    <3>1. PICK g \in DOMAIN groups : j \in groups[g]
      BY DEF Members
    <3>2. g \in DOMAIN new /\ j \in new[g]
      BY <1>1, <1>2, <3>1
    <3>3. QED
      BY <3>2 DEF Members
  <2>3. jid \in Members(new)
    BY <1>1, <1>2 DEF Members
  <2>4. QED
    BY <2>1, <2>2, <2>3
<1>7. QED
  BY <1>1, <1>2, <1>4, <1>5, <1>6 DEF GoodGroups, new

(* g_slist_remove, for a contact of the group. *)
LEMMA TakeFromGood ==
  ASSUME NEW groups, GoodGroups(groups), NEW group \in DOMAIN groups,
         NEW jid \in groups[group]
  PROVE  /\ GoodGroups(TakeFrom(groups, group, jid))
         /\ Members(TakeFrom(groups, group, jid)) = Members(groups) \ {jid}
<1> DEFINE new == TakeFrom(groups, group, jid)
<1>1. /\ DOMAIN new = DOMAIN groups
      /\ new \in [DOMAIN new -> SUBSET Contact]
      /\ new[group] = groups[group] \ {jid}
      /\ \A g \in DOMAIN new : g # group => new[g] = groups[g]
  BY DEF TakeFrom, GoodGroups
<1>2. \A g \in DOMAIN groups : g # group => jid \notin groups[g]
  BY DEF GoodGroups
<1> HIDE DEF new
<1>3. \A g \in DOMAIN new : new[g] = groups[g] \ {jid}
  BY <1>1, <1>2
<1>4. GoodGroups(new)
  BY <1>1, <1>3 DEF GoodGroups
<1>5. Members(new) = Members(groups) \ {jid}
  BY <1>1, <1>3 DEF Members
<1>6. QED
  BY <1>4, <1>5 DEF new

(* Dropping a group that holds nobody but the contact. *)
LEMMA RemovedGood ==
  ASSUME NEW groups, GoodGroups(groups), NEW group \in DOMAIN groups,
         NEW jid \in groups[group]
  PROVE  /\ GoodGroups(Removed(groups, group, jid))
         /\ Members(Removed(groups, group, jid)) = Members(groups) \ {jid}
<1>1. CASE groups[group] # {jid}
  BY <1>1, TakeFromGood DEF Removed
<1>2. CASE groups[group] = {jid}
  <2> DEFINE new == Removed(groups, group, jid)
  <2>1. /\ DOMAIN new = DOMAIN groups \ {group}
        /\ new = [g \in DOMAIN groups \ {group} |-> groups[g]]
    BY <1>2 DEF Removed, Restrict
  <2>2. \A g \in DOMAIN new : g \in DOMAIN groups /\ new[g] = groups[g]
    BY <2>1
  <2>3. \A g \in DOMAIN groups : g # group => jid \notin groups[g]
    BY DEF GoodGroups
  <2> HIDE DEF new
  <2>4. GoodGroups(new)
    BY <2>1, <2>2 DEF GoodGroups
  <2>5. Members(new) = Members(groups) \ {jid}
    <3>1. ASSUME NEW j \in Members(new) PROVE j \in Members(groups) \ {jid}
      BY <2>1, <2>2, <2>3, <3>1 DEF Members
    <3>2. ASSUME NEW j \in Members(groups), j # jid PROVE j \in Members(new)
      <4>1. PICK g \in DOMAIN groups : j \in groups[g]
        BY DEF Members
      <4>2. g # group
        BY <1>2, <3>2, <4>1
      <4>3. QED
        BY <2>1, <2>2, <4>1, <4>2 DEF Members
    <3>3. QED
      BY <3>1, <3>2
  <2>6. QED
    BY <2>4, <2>5 DEF new
<1>3. QED
  BY <1>1, <1>2

(* The first half of update_user puts the contact in the group of the item, *)
(* and in no other.                                                         *)
LEMMA PlacedGood ==
  ASSUME GoodGroups(roster), NEW jid \in Contact, NEW group \in Group \cup {NULL}
  PROVE  /\ GoodGroups(Placed(jid, group))
         /\ Members(Placed(jid, group)) = Members(roster) \cup {jid}
         /\ group \in DOMAIN Placed(jid, group)
         /\ jid \in Placed(jid, group)[group]
<1>1. Listed(jid) <=> jid \in Members(roster)
  BY DEF Listed, Members
<1>2. CASE ~Listed(jid)
  BY <1>1, <1>2, AddToGood DEF Placed
<1>3. CASE Listed(jid)
  <2> DEFINE old == GroupOf(jid)
  <2>1. old \in DOMAIN roster /\ jid \in roster[old]
    BY <1>3 DEF Listed, GroupOf
  <2>2. CASE old = group
    BY <1>1, <1>3, <2>1, <2>2 DEF Placed
  <2>3. CASE old # group
    <3>1. /\ GoodGroups(TakeFrom(roster, old, jid))
          /\ Members(TakeFrom(roster, old, jid)) = Members(roster) \ {jid}
      BY <2>1, TakeFromGood
    <3>2. Placed(jid, group) = AddTo(TakeFrom(roster, old, jid), group, jid)
      BY <1>3, <2>3 DEF Placed
    <3>3. QED
      BY <3>1, <3>2, AddToGood
  <2>4. QED
    BY <2>2, <2>3
<1>4. QED
  BY <1>2, <1>3

-----------------------------------------------------------------------------
(* Contacts. *)

GoodUsers(users) ==
  /\ DOMAIN users \subseteq Contact
  /\ users \in [DOMAIN users -> User]
  /\ \A jid \in DOMAIN users : GoodList(users[jid].resources)

(* What a presence makes of the record of a contact. *)
LEMMA PresentType ==
  ASSUME NEW rec \in User, NEW error \in BOOLEAN, NEW list \in Seq(Resource)
  PROVE  /\ Present(rec, error, list) \in User
         /\ Present(rec, error, list).resources = list
BY DEF Present, User

(* The subscription that an item may say, or none, and that of one that stays. *)
Stated == XmppSubscription \cup {NULL}
Kept   == {s \in Stated : s # "remove"}

(* What an item makes of it; its resources stay. *)
LEMMA RenamedType ==
  ASSUME NEW rec \in User, NEW name \in Name \cup {NULL},
         NEW subscription \in Kept
  PROVE  /\ Renamed(rec, name, subscription) \in User
         /\ Renamed(rec, name, subscription).resources = rec.resources
<1>1. (IF subscription = NULL THEN "none" ELSE subscription)
        \in XmppSubscription \ {"remove"}
  BY DEF XmppSubscription, Stated, Kept
<1>2. QED
  BY <1>1 DEF Renamed, User

(* A contact without resources. *)
LEMMA EmptyListGood == GoodList(<<>>)
<1>1. <<>> \in Seq(Resource) /\ Len(<<>>) = 0
  BY EmptySeq
<1>2. QED
  BY <1>1 DEF GoodList, GoodNames

(* create_user. *)
LEMMA NewUserType ==
  ASSUME NEW name \in Name \cup {NULL}
  PROVE  NewUser(name) \in User /\ NewUser(name).resources = <<>>
<1>1. <<>> \in Seq(Resource)
  BY EmptySeq
<1>2. QED
  BY <1>1 DEF NewUser, User, XmppSubscription

(* A presence replaces the list of one contact by another good one. *)
LEMMA PresentGood ==
  ASSUME NEW users, GoodUsers(users), NEW jid \in DOMAIN users,
         NEW error \in BOOLEAN, NEW list, GoodList(list)
  PROVE  LET new == [users EXCEPT ![jid] = Present(users[jid], error, list)]
         IN  GoodUsers(new) /\ DOMAIN new = DOMAIN users
<1> DEFINE rec == Present(users[jid], error, list)
           new == [users EXCEPT ![jid] = rec]
<1>1. rec \in User /\ rec.resources = list
  BY PresentType DEF GoodUsers, GoodList
<1> HIDE DEF rec
<1>2. /\ DOMAIN new = DOMAIN users
      /\ new \in [DOMAIN new -> User]
      /\ \A j \in DOMAIN new : new[j] = IF j = jid THEN rec ELSE users[j]
  BY <1>1 DEF GoodUsers
<1> HIDE DEF new
<1>3. GoodUsers(new)
  BY <1>1, <1>2 DEF GoodUsers
<1>4. QED
  BY <1>2, <1>3 DEF new, rec

(* An item adds a record without resources or leaves the resources alone. *)
LEMMA RenamedGood ==
  ASSUME NEW users, GoodUsers(users), NEW jid \in Contact,
         NEW old \in User, GoodList(old.resources),
         NEW name \in Name \cup {NULL},
         NEW subscription \in Kept
  PROVE  GoodUsers(Put(users, jid, Renamed(old, name, subscription)))
<1> DEFINE rec == Renamed(old, name, subscription)
           new == Put(users, jid, rec)
<1>1. rec \in User /\ rec.resources = old.resources
  BY RenamedType
<1> HIDE DEF rec
<1>2. /\ DOMAIN new = DOMAIN users \cup {jid}
      /\ new = [j \in DOMAIN new |-> IF j = jid THEN rec ELSE users[j]]
  BY DEF Put
<1>3. \A j \in DOMAIN new : new[j] = IF j = jid THEN rec ELSE users[j]
  BY <1>2
<1> HIDE DEF new
<1>4. \A j \in DOMAIN new : new[j] \in User /\ GoodList(new[j].resources)
  BY <1>1, <1>2, <1>3 DEF GoodUsers
<1>5. GoodUsers(new)
  BY <1>2, <1>4 DEF GoodUsers
<1>6. QED
  BY <1>5 DEF new, rec

(* cleanup_user frees one record. *)
LEMMA DroppedGood ==
  ASSUME NEW users, GoodUsers(users), NEW jid
  PROVE  LET new == Restrict(users, DOMAIN users \ {jid})
         IN  GoodUsers(new) /\ DOMAIN new = DOMAIN users \ {jid}
<1> DEFINE new == Restrict(users, DOMAIN users \ {jid})
<1>1. /\ DOMAIN new = DOMAIN users \ {jid}
      /\ new = [j \in DOMAIN users \ {jid} |-> users[j]]
  BY DEF Restrict
<1>2. \A j \in DOMAIN new : j \in DOMAIN users /\ new[j] = users[j]
  BY <1>1
<1> HIDE DEF new
<1>3. \A j \in DOMAIN new : new[j] \in User /\ GoodList(new[j].resources)
  BY <1>2 DEF GoodUsers
<1>4. GoodUsers(new)
  BY <1>1, <1>2, <1>3 DEF GoodUsers
<1>5. QED
  BY <1>1, <1>4 DEF new

-----------------------------------------------------------------------------
(* The inductive invariant. *)

IInv ==
  /\ connected \in BOOLEAN
  /\ GoodGroups(roster)
  /\ GoodUsers(user)
  /\ DOMAIN user = Members(roster)
  /\ GoodList(my_resources)

(* rosters_find_user finds the contacts that have a record, and no others. *)
LEMMA ListedHasRecord ==
  ASSUME IInv, NEW jid
  PROVE  Listed(jid) <=> jid \in DOMAIN user
BY DEF IInv, Members, Listed

(* The empty roster of a new server record, or of one that is cleaned up. *)
LEMMA EmptyGood ==
  GoodGroups(<<>>) /\ GoodUsers(<<>>) /\ DOMAIN <<>> = Members(<<>>)
<1>1. DOMAIN <<>> = {}
  OBVIOUS
<1>2. <<>> \in [DOMAIN <<>> -> SUBSET Contact] /\ <<>> \in [DOMAIN <<>> -> User]
  BY <1>1
<1>3. QED
  BY <1>1, <1>2 DEF GoodGroups, GoodUsers, Members

(* A record of a server that never was connected has no roster. *)
LEMMA InitInv == Init => IInv
BY EmptyGood, EmptyListGood DEF Init, IInv

(* update_user preserves the invariant. *)
LEMMA UpdateUserInv ==
  ASSUME IInv, NEW jid \in Contact, NEW subscription \in Stated,
         NEW name \in Name \cup {NULL}, NEW group \in Group \cup {NULL},
         update_user(jid, subscription, name, group)
  PROVE  IInv'
<1>1. UNCHANGED <<connected, my_resources>>
  BY DEF update_user
<1>2. /\ GoodGroups(Placed(jid, group))
      /\ Members(Placed(jid, group)) = Members(roster) \cup {jid}
      /\ group \in DOMAIN Placed(jid, group)
      /\ jid \in Placed(jid, group)[group]
  BY PlacedGood DEF IInv
<1>3. CASE subscription = "remove"
  <2>1. /\ roster' = Removed(Placed(jid, group), group, jid)
        /\ user' = Restrict(user, DOMAIN user \ {jid})
    BY <1>3 DEF update_user
  <2>2. GoodGroups(roster') /\ Members(roster') = Members(roster) \ {jid}
    BY <1>2, <2>1, RemovedGood
  <2>3. GoodUsers(user') /\ DOMAIN user' = DOMAIN user \ {jid}
    BY <2>1, DroppedGood DEF IInv
  <2>4. QED
    BY <1>1, <2>2, <2>3 DEF IInv
<1>4. CASE subscription # "remove"
  <2> DEFINE old == IF Listed(jid) THEN user[jid] ELSE NewUser(name)
  <2>1. /\ roster' = Placed(jid, group)
        /\ user' = Put(user, jid, Renamed(old, name, subscription))
    BY <1>4 DEF update_user
  <2>2. old \in User /\ GoodList(old.resources)
    BY ListedHasRecord, NewUserType, EmptyListGood DEF IInv, GoodUsers
  <2> HIDE DEF old
  <2>3. GoodUsers(user') /\ DOMAIN user' = DOMAIN user \cup {jid}
    <3>1. GoodUsers(user) /\ subscription \in Kept
      BY <1>4 DEF IInv, Kept
    <3>2. GoodUsers(Put(user, jid, Renamed(old, name, subscription)))
      BY <2>2, <3>1, RenamedGood
    <3>3. DOMAIN user' = DOMAIN user \cup {jid}
      BY <2>1 DEF Put
    <3>4. QED
      BY <2>1, <3>2, <3>3
  <2>4. QED
    BY <1>1, <1>2, <2>1, <2>3 DEF IInv
<1>5. QED
  BY <1>3, <1>4

(* update_user_presence preserves it. *)
LEMMA AvailableInv ==
  ASSUME IInv, NEW jid,
         NEW res \in Res \cup {NULL}, Gateway = {} => res # NULL,
         NEW show \in Show,
         NEW priority \in Priority \cup {NULL}, NEW status \in Status \cup {NULL},
         update_user_presence(jid, res, show, priority, status)
  PROVE  IInv'
<1>1. UNCHANGED <<connected, roster>>
  BY DEF update_user_presence
<1>2. CASE Listed(jid)
  <2>1. jid \in DOMAIN user /\ GoodList(user[jid].resources)
    BY <1>2, ListedHasRecord DEF IInv, GoodUsers
  <2>2. PICK list \in WithPresence(user[jid].resources, res, show, priority, status) :
          user' = [user EXCEPT ![jid] = Present(user[jid], FALSE, list)]
    BY <1>2 DEF update_user_presence
  <2>3. GoodList(list)
    BY <2>1, WithPresenceGood
  <2>4. GoodUsers(user') /\ DOMAIN user' = DOMAIN user
    BY <2>1, <2>2, <2>3, PresentGood DEF IInv
  <2>5. UNCHANGED my_resources
    BY <1>2 DEF update_user_presence
  <2>6. QED
    BY <1>1, <2>4, <2>5 DEF IInv
<1>3. CASE ~Listed(jid)
  <2>1. /\ my_resources' \in WithPresence(my_resources, res, show, priority, status)
        /\ UNCHANGED user
    BY <1>3 DEF update_user_presence
  <2>2. GoodList(my_resources')
    BY <2>1, WithPresenceGood DEF IInv
  <2>3. QED
    BY <1>1, <2>1, <2>2 DEF IInv
<1>4. QED
  BY <1>2, <1>3

(* user_unavailable preserves it. *)
LEMMA UnavailableInv ==
  ASSUME IInv, NEW jid, NEW res, user_unavailable(jid, res)
  PROVE  IInv'
<1>1. UNCHANGED <<connected, roster>>
  BY DEF user_unavailable
<1>2. CASE Listed(jid)
  <2> DEFINE list == Without(user[jid].resources, res)
  <2>1. jid \in DOMAIN user /\ GoodList(list)
    BY <1>2, ListedHasRecord, WithoutGood DEF IInv, GoodUsers
  <2>2. /\ user' = [user EXCEPT ![jid] = Present(user[jid], FALSE, list)]
        /\ UNCHANGED my_resources
    BY <1>2 DEF user_unavailable
  <2> HIDE DEF list
  <2>3. GoodUsers(user') /\ DOMAIN user' = DOMAIN user
    BY <2>1, <2>2, PresentGood DEF IInv
  <2>4. QED
    BY <1>1, <2>2, <2>3 DEF IInv
<1>3. CASE ~Listed(jid)
  BY <1>1, <1>3, WithoutGood DEF user_unavailable, IInv
<1>4. QED
  BY <1>2, <1>3

(* user_presence_error preserves it. *)
LEMMA ErrorInv ==
  ASSUME IInv, NEW jid, NEW res, user_presence_error(jid, res)
  PROVE  IInv'
<1>1. UNCHANGED <<connected, roster>>
  BY DEF user_presence_error
<1>2. CASE Listed(jid)
  <2> DEFINE list  == WithError(user[jid].resources, res)
             error == user[jid].error \/ ~Has(user[jid].resources, res)
  <2>1. jid \in DOMAIN user /\ GoodList(list)
    BY <1>2, ListedHasRecord, WithErrorGood DEF IInv, GoodUsers
  <2>2. error \in BOOLEAN
    OBVIOUS
  <2>3. /\ user' = [user EXCEPT ![jid] = Present(user[jid], error, list)]
        /\ UNCHANGED my_resources
    BY <1>2 DEF user_presence_error
  <2> HIDE DEF list, error
  <2>4. GoodUsers(user') /\ DOMAIN user' = DOMAIN user
    BY <2>1, <2>2, <2>3, PresentGood DEF IInv
  <2>5. QED
    BY <1>1, <2>3, <2>4 DEF IInv
<1>3. CASE ~Listed(jid)
  BY <1>1, <1>3, WithErrorGood DEF user_presence_error, IInv
<1>4. QED
  BY <1>2, <1>3

(* Every step of the roster preserves it. *)
LEMMA NextInv == IInv /\ [Next]_vars => IInv'
<1> SUFFICES ASSUME IInv, [Next]_vars PROVE IInv'
  OBVIOUS
<1>1. CASE RosterItem
  <2>1. \A subscription \in Subscription : subscription \in Stated
    BY SubscriptionAssumption DEF Stated
  <2>2. QED
    BY <1>1, <2>1, UpdateUserInv DEF RosterItem
<1>2. CASE Available
  <2>1. PICK sender \in Sender, show \in Show,
             priority \in Priority \cup {NULL}, status \in Status \cup {NULL} :
          update_user_presence(sender[1], sender[2], show, priority, status)
    BY <1>2 DEF Available
  <2>2. sender[2] \in Res \cup {NULL} /\ (Gateway = {} => sender[2] # NULL)
    BY DEF Sender
  <2>3. QED
    BY <2>1, <2>2, AvailableInv
<1>3. CASE Unavailable
  BY <1>3, UnavailableInv DEF Unavailable
<1>4. CASE Error
  BY <1>4, ErrorInv DEF Error
<1>5. CASE sig_connected
  BY <1>5, EmptyGood, EmptyListGood DEF sig_connected, IInv
<1>6. CASE roster_cleanup
  BY <1>6, EmptyGood, EmptyListGood DEF roster_cleanup, IInv
<1>7. CASE UNCHANGED vars
  BY <1>7 DEF vars, IInv
<1>8. QED
  BY <1>1, <1>2, <1>3, <1>4, <1>5, <1>6, <1>7 DEF Next

(* The inductive invariant holds of every behaviour of the roster. *)
THEOREM Invariance == Spec => []IInv
BY InitInv, NextInv, PTL DEF Spec

-----------------------------------------------------------------------------
(* What follows from it. *)

(* The groups, the records of the contacts and the lists of resources that  *)
(* the handlers of rosters.c build have their types.                        *)
THEOREM TypeCorrect == Spec => []TypeOK
<1>1. IInv => TypeOK
  BY DEF IInv, TypeOK, GoodGroups, GoodUsers, GoodList
<1>2. QED
  BY <1>1, Invariance, PTL

(* update_user never lists a contact in two groups, whatever items come in  *)
(* whatever order.                                                          *)
THEOREM ContactsListedOnce == Spec => []OneEntryPerContact
<1>1. IInv => OneEntryPerContact
  BY DEF IInv, OneEntryPerContact, GoodGroups
<1>2. QED
  BY <1>1, Invariance, PTL

(* No record of a contact is lost or left behind when items add, move and   *)
(* remove contacts and drop groups.                                         *)
THEOREM RecordsAreListed == Spec => []RecordsListed
<1>1. IInv => RecordsListed
  BY DEF IInv, RecordsListed, Members
<1>2. QED
  BY <1>1, Invariance, PTL

(* rosters_resolve_name gives a resource of the highest priority, whatever  *)
(* presences, errors and departures came in whatever order, from gateways   *)
(* too.                                                                     *)
THEOREM HighestPriorityResolved == Spec => []ResolvesToHighest
<1>1. ASSUME IInv PROVE ResolvesToHighest
  <2> SUFFICES ASSUME NEW jid \in DOMAIN user, rosters_resolve_name(jid) # NULL
               PROVE  \E i \in 1..Len(user[jid].resources) :
                        /\ user[jid].resources[i].name = rosters_resolve_name(jid)
                        /\ \A j \in 1..Len(user[jid].resources) :
                             user[jid].resources[j].priority
                               <= user[jid].resources[i].priority
    BY DEF ResolvesToHighest
  <2> DEFINE list == user[jid].resources
  <2>1. GoodList(list)
    BY <1>1 DEF IInv, GoodUsers
  <2>2. list # <<>> /\ rosters_resolve_name(jid) = list[1].name
    BY DEF rosters_resolve_name
  <2> HIDE DEF list
  <2>3. list \in Seq(Resource) /\ Len(list) \in Nat \ {0}
    BY <2>1, <2>2, EmptySeq DEF GoodList
  <2>4. \A j \in 1..Len(list) : list[j] \in Resource
    BY <2>3, ElementOfSeq
  <2>5. \A j \in 1..Len(list) : list[j].priority \in Int
    BY <2>4 DEF Resource
  <2>6. \A j \in 1..Len(list) : list[j].priority <= list[1].priority
    BY <2>1, <2>3, <2>5 DEF GoodList
  <2>7. QED
    BY <2>2, <2>3, <2>6 DEF list
<1>2. QED
  BY <1>1, Invariance, PTL

(* Where every contact sends presences from a full JID, no resource has two *)
(* records.  The assumption is needed: update_user_presence adds a record   *)
(* for each presence from a bare JID.                                       *)
NoGateway == Gateway = {}

THEOREM ResourcesRecordedOnce ==
  ASSUME NoGateway PROVE Spec => []OneRecordPerResource
<1>1. ASSUME IInv PROVE OneRecordPerResource
  <2>1. ASSUME NEW list, GoodList(list) PROVE DistinctNames(list)
    BY <2>1, NoGateway DEF GoodList, GoodNames, NoGateway, DistinctNames
  <2>2. QED
    BY <1>1, <2>1 DEF IInv, GoodUsers, OneRecordPerResource
<1>2. QED
  BY <1>1, Invariance, PTL

=============================================================================
