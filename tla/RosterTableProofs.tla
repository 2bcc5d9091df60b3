------------------------- MODULE RosterTableProofs -------------------------
(***************************************************************************)
(* Roster implements PresenceTable, for every set of contacts, resources,  *)
(* groups and priorities: what each handler of rosters.c does to the       *)
(* sorted lists of records is what its stanza tells the table.             *)
(*                                                                         *)
(* Two things are assumed.  Every contact sends presences from a full JID  *)
(* (see ResourcesRecordedOnce), and the server does not list the account   *)
(* among its own contacts: rosters.c would then find the presences of the  *)
(* account's other resources in one of two places.                         *)
(***************************************************************************)
EXTENDS RosterProofs, FiniteSetTheorems

NotOwnContact == OwnJid \notin Contact

-----------------------------------------------------------------------------
(* What a list of resources says. *)

Named(list) == {list[i].name : i \in 1..Len(list)}

Said(rec) == [show |-> rec.show, priority |-> rec.priority, status |-> rec.status]

(* What the record of one resource says. *)
SaidBy(list, res) == Said(list[Find(list, res)])

(* A list of records whose names are apart. *)
Apart(list) == list \in Seq(Resource) /\ DistinctNames(list)

LEMMA GoodApart ==
  ASSUME NoGateway, NEW list, GoodList(list)
  PROVE  Apart(list) /\ EmptyName \notin Named(list)
<1>1. /\ list \in Seq(Resource)
      /\ \A i, j \in 1..Len(list) :
           i # j /\ list[i].name # EmptyName => list[i].name # list[j].name
      /\ \A i \in 1..Len(list) : list[i].name # EmptyName
  BY DEF GoodList, GoodNames, NoGateway
<1>2. DistinctNames(list)
  BY <1>1 DEF DistinctNames
<1>3. EmptyName \notin Named(list)
  BY <1>1 DEF Named
<1> QED BY <1>1, <1>2, <1>3 DEF Apart

LEMMA HasNamed ==
  ASSUME NEW list, NEW res
  PROVE  Has(list, res) <=> res \in Named(list)
BY DEF Has, Named

(* rosters_find_resource gives the record of that name, the only one. *)
LEMMA FindIs ==
  ASSUME NEW list, Apart(list), NEW i \in 1..Len(list)
  PROVE  Find(list, list[i].name) = i
<1>1. PICK res : res = list[i].name
  OBVIOUS
<1>2. Has(list, res) /\ list \in Seq(Resource)
  BY <1>1 DEF Has, Apart
<1>3. Find(list, res) \in 1..Len(list) /\ list[Find(list, res)].name = res
  BY <1>2, FindProperties
<1> QED BY <1>1, <1>3 DEF Apart, DistinctNames

LEMMA SaidIs ==
  ASSUME NEW list, Apart(list), NEW i \in 1..Len(list), NEW res, res = list[i].name
  PROVE  res \in Named(list) /\ SaidBy(list, res) = Said(list[i])
<1>1. Find(list, res) = i
  BY FindIs
<1> QED BY <1>1 DEF SaidBy, Named

(* Every place of an order is taken. *)
LEMMA OrderOnto ==
  ASSUME NEW n \in Nat, NEW p \in Orders(n), NEW k \in 1..n
  PROVE  \E i \in 1..n : p[i] = k
<1>1. p \in [1..n -> 1..n] /\ \A i, j \in 1..n : i # j => p[i] # p[j]
  BY DEF Orders
<1>2. p \in Injection(1..n, 1..n)
  BY <1>1 DEF Injection, IsInjective
<1>3. IsFiniteSet(1..n)
  BY FS_Interval
<1>4. p \in Surjection(1..n, 1..n)
  BY <1>2, <1>3, FS_Injection
<1> QED BY <1>4 DEF Surjection

(* Sorting changes nothing of what the list says. *)
LEMMA SortedSays ==
  ASSUME NEW list, Apart(list), NEW s \in Sorted(list)
  PROVE  /\ Apart(s) /\ Named(s) = Named(list)
         /\ \A res \in Named(list) : SaidBy(s, res) = SaidBy(list, res)
<1>0. list \in Seq(Resource) /\ Len(list) \in Nat
  BY LenProperties DEF Apart
<1>1. s \in Seq(Resource) /\ Len(s) = Len(list)
  BY <1>0, SortedProperties
<1>2. PICK p \in Orders(Len(list)) : \A i \in 1..Len(s) : s[i] = list[p[i]]
  BY <1>0, SortedProperties
<1>3. /\ \A i \in 1..Len(list) : p[i] \in 1..Len(list)
      /\ \A i, j \in 1..Len(list) : i # j => p[i] # p[j]
  BY DEF Orders
<1>4. Apart(s)
  <2>1. ASSUME NEW i \in 1..Len(s), NEW j \in 1..Len(s), i # j
        PROVE  s[i].name # s[j].name
    <3>1. /\ p[i] \in 1..Len(list) /\ p[j] \in 1..Len(list) /\ p[i] # p[j]
          /\ s[i] = list[p[i]] /\ s[j] = list[p[j]]
      BY <1>1, <1>2, <1>3, <2>1
    <3> QED BY <3>1 DEF Apart, DistinctNames
  <2> QED BY <1>1, <2>1 DEF Apart, DistinctNames
<1>5. ASSUME NEW k \in 1..Len(list)
      PROVE  list[k].name \in Named(s) /\ SaidBy(s, list[k].name) = Said(list[k])
  <2>1. PICK i \in 1..Len(list) : p[i] = k
    BY <1>0, OrderOnto
  <2>2. s[i] = list[k] /\ i \in 1..Len(s)
    BY <1>1, <1>2, <2>1
  <2> QED BY <1>4, <2>2, SaidIs
<1>6. Named(s) = Named(list)
  <2>1. Named(s) \subseteq Named(list)
    BY <1>1, <1>2, <1>3 DEF Named
  <2>2. Named(list) \subseteq Named(s)
    BY <1>5 DEF Named
  <2> QED BY <2>1, <2>2
<1>7. ASSUME NEW res \in Named(list) PROVE SaidBy(s, res) = SaidBy(list, res)
  <2>1. PICK k \in 1..Len(list) : res = list[k].name
    BY DEF Named
  <2> QED BY <1>5, <2>1, SaidIs
<1> QED BY <1>4, <1>6, <1>7

(* Overwriting the record of one resource changes what that resource says. *)
Overwritten(list, n, rec) == [list EXCEPT ![n] = rec]

LEMMA OverwrittenSays ==
  ASSUME NEW list, Apart(list), NEW n \in 1..Len(list),
         NEW rec \in Resource, rec.name = list[n].name
  PROVE  /\ Apart(Overwritten(list, n, rec))
         /\ Named(Overwritten(list, n, rec)) = Named(list)
         /\ SaidBy(Overwritten(list, n, rec), rec.name) = Said(rec)
         /\ \A res \in Named(list) \ {rec.name} :
              SaidBy(Overwritten(list, n, rec), res) = SaidBy(list, res)
<1>1. PICK new : new = [list EXCEPT ![n] = rec]
  OBVIOUS
<1>2. /\ new \in Seq(Resource) /\ Len(new) = Len(list)
      /\ \A j \in 1..Len(list) : new[j] = IF j = n THEN rec ELSE list[j]
  <2>1. list \in Seq(Resource)
    BY DEF Apart
  <2> QED BY <1>1, <2>1, ExceptSeq
<1>3. \A j \in 1..Len(list) : new[j].name = list[j].name
  BY <1>2
<1>4. Apart(new)
  BY <1>2, <1>3 DEF Apart, DistinctNames
<1>5. Named(new) = Named(list)
  BY <1>2, <1>3 DEF Named
<1>6. SaidBy(new, rec.name) = Said(rec)
  BY <1>2, <1>4, SaidIs
<1>7. ASSUME NEW res \in Named(list) \ {rec.name} PROVE SaidBy(new, res) = SaidBy(list, res)
  <2>1. PICK k \in 1..Len(list) : res = list[k].name
    BY DEF Named
  <2>2. new[k] = list[k]
    BY <1>2, <1>7, <2>1
  <2>3. SaidBy(list, res) = Said(list[k])
    BY <2>1, SaidIs
  <2>4. SaidBy(new, res) = Said(new[k])
    BY <1>2, <1>3, <1>4, <2>1, SaidIs
  <2> QED BY <2>2, <2>3, <2>4
<1>8. Overwritten(list, n, rec) = new
  BY <1>1 DEF Overwritten
<1> QED BY <1>4, <1>5, <1>6, <1>7, <1>8

(* create_resource, in front of the list. *)
Created(list, res) == <<NewResource(res)>> \o list

LEMMA CreatedSays ==
  ASSUME NEW list, Apart(list), NEW res \in Res, res \notin Named(list),
         NEW all, all = Created(list, res)
  PROVE  /\ Apart(all) /\ Named(all) = Named(list) \cup {res}
         /\ 1 \in 1..Len(all) /\ all[1] = NewResource(res)
         /\ \A r \in Named(list) : SaidBy(all, r) = SaidBy(list, r)
<1>0. PICK rec : rec = NewResource(res)
  OBVIOUS
<1>1. rec \in Resource /\ rec.name = res
  <2>1. res # NULL
    BY ResAssumption, NullAssumption
  <2> QED BY <1>0, <2>1, NewResourceType
<1>2. list \in Seq(Resource) /\ Len(list) \in Nat
  BY LenProperties DEF Apart
<1>3. /\ <<rec>> \in Seq(Resource) /\ Len(<<rec>>) = 1 /\ <<rec>>[1] = rec
  BY <1>1
<1>4. /\ all \in Seq(Resource) /\ Len(all) = 1 + Len(list)
      /\ \A i \in 1..Len(all) : all[i] = IF i = 1 THEN rec ELSE list[i - 1]
  BY <1>0, <1>2, <1>3, ConcatProperties DEF Created
<1>5. 1 \in 1..Len(all) /\ all[1] = rec
  BY <1>2, <1>4
<1>6. ASSUME NEW k \in 1..Len(list)
      PROVE  k + 1 \in 1..Len(all) /\ all[k + 1] = list[k]
  <2>1. k + 1 \in 1..Len(all) /\ k + 1 # 1 /\ (k + 1) - 1 = k
    BY <1>2, <1>4
  <2> QED BY <1>4, <2>1
<1>7. ASSUME NEW i \in 1..Len(all), i # 1
      PROVE  i - 1 \in 1..Len(list) /\ all[i] = list[i - 1]
  BY <1>2, <1>4, <1>7
<1>8. DistinctNames(all)
  <2> SUFFICES ASSUME NEW i \in 1..Len(all), NEW j \in 1..Len(all), i # j
               PROVE  all[i].name # all[j].name
    BY DEF DistinctNames
  <2>1. \A k \in 1..Len(list) : list[k].name # res
    BY DEF Named
  <2>2. CASE i = 1 \/ j = 1
    BY <1>1, <1>5, <1>7, <2>1, <2>2
  <2>3. CASE i # 1 /\ j # 1
    <3>1. i - 1 # j - 1
      BY <1>2, <1>4
    <3> QED BY <1>7, <2>3, <3>1 DEF Apart, DistinctNames
  <2> QED BY <2>2, <2>3
<1>9. Apart(all)
  BY <1>4, <1>8 DEF Apart
<1>10. Named(all) = Named(list) \cup {res}
  <2>1. Named(all) \subseteq Named(list) \cup {res}
    <3> SUFFICES ASSUME NEW i \in 1..Len(all) PROVE all[i].name \in Named(list) \cup {res}
      BY DEF Named
    <3> QED BY <1>1, <1>5, <1>7 DEF Named
  <2>2. res \in Named(all)
    BY <1>1, <1>5 DEF Named
  <2>3. Named(list) \subseteq Named(all)
    <3> SUFFICES ASSUME NEW k \in 1..Len(list) PROVE list[k].name \in Named(all)
      BY DEF Named
    <3> QED BY <1>6 DEF Named
  <2> QED BY <2>1, <2>2, <2>3
<1>11. ASSUME NEW r \in Named(list) PROVE SaidBy(all, r) = SaidBy(list, r)
  <2>1. PICK k \in 1..Len(list) : r = list[k].name
    BY DEF Named
  <2>2. SaidBy(list, r) = Said(list[k])
    BY <2>1, SaidIs
  <2>3. SaidBy(all, r) = Said(all[k + 1])
    BY <1>6, <1>9, <2>1, SaidIs
  <2> QED BY <1>6, <2>2, <2>3
<1> QED BY <1>0, <1>5, <1>9, <1>10, <1>11

(* The record that an available presence leaves says what the presence says. *)
LEMMA AnnouncedSays ==
  ASSUME NEW old \in Resource, NEW show \in Show,
         NEW priority \in Priority \cup {NULL}, NEW status \in Status \cup {NULL}
  PROVE  Said(Announced(old, show, priority, status)) =
           [show     |-> show,
            priority |-> IF priority = NULL THEN old.priority ELSE priority,
            status   |-> status]
BY DEF Announced, Said, Resource

(* update_user_presence: the resource is in the list and says what the      *)
(* presence says; the others say what they said.                            *)
LEMMA PresenceSays ==
  ASSUME NEW list, Apart(list), NEW res \in Res, NEW show \in Show,
         NEW priority \in Priority \cup {NULL}, NEW status \in Status \cup {NULL},
         NEW s \in WithPresence(list, res, show, priority, status),
         NEW old, old = IF res \in Named(list) THEN SaidBy(list, res).priority ELSE 0
  PROVE  /\ Named(s) = Named(list) \cup {res}
         /\ SaidBy(s, res) = [show     |-> show,
                              priority |-> IF priority = NULL THEN old ELSE priority,
                              status   |-> status]
         /\ \A r \in Named(list) \ {res} : SaidBy(s, r) = SaidBy(list, r)
<1>0. /\ list \in Seq(Resource)
      /\ res \in Named(list) <=> Has(list, res)
  BY HasNamed DEF Apart
<1>1. PICK all : all = IF ~Has(list, res) THEN Created(list, res) ELSE list
  OBVIOUS
<1>2. PICK pos : pos = IF ~Has(list, res) THEN 1 ELSE Find(list, res)
  OBVIOUS
<1>3. /\ Apart(all) /\ Named(all) = Named(list) \cup {res}
      /\ pos \in 1..Len(all) /\ all[pos].name = res
      /\ all[pos].priority = old
      /\ \A r \in Named(list) : SaidBy(all, r) = SaidBy(list, r)
  <2>1. CASE Has(list, res)
    <3>1. all = list /\ pos = Find(list, res) /\ res \in Named(list)
      BY <1>0, <1>1, <1>2, <2>1
    <3>2. pos \in 1..Len(list) /\ list[pos].name = res
      BY <1>0, <2>1, <3>1, FindProperties
    <3>3. SaidBy(list, res).priority = list[pos].priority
      BY <3>1 DEF SaidBy, Said
    <3> QED BY <3>1, <3>2, <3>3
  <2>2. CASE ~Has(list, res)
    <3>1. all = Created(list, res) /\ pos = 1 /\ res \notin Named(list)
      BY <1>0, <1>1, <1>2, <2>2
    <3>2. /\ Apart(all) /\ Named(all) = Named(list) \cup {res}
          /\ 1 \in 1..Len(all) /\ all[1] = NewResource(res)
          /\ \A r \in Named(list) : SaidBy(all, r) = SaidBy(list, r)
      BY <3>1, CreatedSays
    <3>3. NewResource(res).name = res /\ NewResource(res).priority = 0
      <4>1. res # NULL
        BY ResAssumption, NullAssumption
      <4> QED BY <4>1 DEF NewResource
    <3> QED BY <3>1, <3>2, <3>3
  <2> QED BY <2>1, <2>2
<1>4. all[pos] \in Resource
  <2>1. all \in Seq(Resource)
    BY <1>3 DEF Apart
  <2> QED BY <1>3, <2>1, ElementOfSeq
<1>5. PICK rec : rec = Announced(all[pos], show, priority, status)
  OBVIOUS
<1>6. rec \in Resource /\ rec.name = res
  <2>1. PICK a : a = all[pos]
    OBVIOUS
  <2>2. a \in Resource /\ a.name = res /\ rec = Announced(a, show, priority, status)
    BY <1>3, <1>4, <1>5, <2>1
  <2> QED BY <2>2, AnnouncedType
<1>7. Said(rec) = [show     |-> show,
                   priority |-> IF priority = NULL THEN old ELSE priority,
                   status   |-> status]
  <2>1. PICK a : a = all[pos]
    OBVIOUS
  <2>2. a \in Resource /\ a.priority = old /\ rec = Announced(a, show, priority, status)
    BY <1>3, <1>4, <1>5, <2>1
  <2>3. Said(rec) = [show     |-> show,
                     priority |-> IF priority = NULL THEN a.priority ELSE priority,
                     status   |-> status]
    BY <2>2, AnnouncedSays
  <2> QED BY <2>2, <2>3
<1>8. CASE Has(list, res) /\ rec = all[pos] /\ s = list
  <2>1. all = list /\ res \in Named(list)
    BY <1>0, <1>1, <1>8
  <2>2. Named(list) = Named(list) \cup {res}
    BY <2>1
  <2>3. SaidBy(list, res) = Said(list[pos])
    BY <1>3, <2>1, SaidIs
  <2> QED BY <1>7, <1>8, <2>1, <2>2, <2>3
<1>9. CASE s \in Sorted([all EXCEPT ![pos] = rec])
  <2>1. PICK w : w = Overwritten(all, pos, rec)
    OBVIOUS
  <2>2. rec.name = all[pos].name
    BY <1>3, <1>6
  <2>3. /\ Apart(w) /\ Named(w) = Named(all) /\ SaidBy(w, rec.name) = Said(rec)
        /\ \A r \in Named(all) \ {rec.name} : SaidBy(w, r) = SaidBy(all, r)
    BY <1>3, <1>6, <2>1, <2>2, OverwrittenSays
  <2>4. s \in Sorted(w)
    BY <1>9, <2>1 DEF Overwritten
  <2>5. Named(s) = Named(w) /\ \A r \in Named(w) : SaidBy(s, r) = SaidBy(w, r)
    BY <2>3, <2>4, SortedSays
  <2>6. Named(s) = Named(list) \cup {res}
    BY <1>3, <2>3, <2>5
  <2>7. SaidBy(s, res) = Said(rec)
    BY <1>6, <2>3, <2>5, <2>6
  <2>8. \A r \in Named(list) \ {res} : SaidBy(s, r) = SaidBy(list, r)
    BY <1>3, <1>6, <2>3, <2>5, <2>6
  <2> QED BY <1>7, <2>6, <2>7, <2>8
<1> QED BY <1>1, <1>2, <1>5, <1>8, <1>9 DEF WithPresence, Created

(* user_unavailable: the resource is gone, the others say what they said. *)
LEMMA WithoutSays ==
  ASSUME NEW list, Apart(list), NEW res
  PROVE  /\ Named(Without(list, res)) = Named(list) \ {res}
         /\ \A r \in Named(list) \ {res} : SaidBy(Without(list, res), r) = SaidBy(list, r)
<1>1. CASE ~Has(list, res)
  <2>1. Without(list, res) = list /\ res \notin Named(list)
    BY <1>1, HasNamed DEF Without
  <2> QED BY <2>1
<1>2. CASE Has(list, res)
  <2>0. list \in Seq(Resource) /\ Len(list) \in Nat
    BY LenProperties DEF Apart
  <2>1. PICK n : n = Find(list, res)
    OBVIOUS
  <2>2. n \in 1..Len(list) /\ list[n].name = res
    BY <1>2, <2>0, <2>1, FindProperties
  <2>3. PICK new : new = RemoveAt(list, n)
    OBVIOUS
  <2>4. /\ new \in [1..(Len(list) - 1) -> Resource]
        /\ \A i \in 1..(Len(list) - 1) : new[i] = IF i < n THEN list[i] ELSE list[i + 1]
    <3>1. \A i \in 1..(Len(list) - 1) : i \in 1..Len(list) /\ i + 1 \in 1..Len(list)
      BY <2>0
    <3>2. \A i \in 1..Len(list) : list[i] \in Resource
      BY <2>0, ElementOfSeq
    <3> QED BY <2>3, <3>1, <3>2 DEF RemoveAt
  <2>5. new \in Seq(Resource) /\ Len(new) = Len(list) - 1
    <3>1. Len(list) - 1 \in Nat
      BY <2>0, <2>2
    <3> QED BY <2>4, <3>1
  <2>6. ASSUME NEW i \in 1..Len(new)
        PROVE  \E j \in 1..Len(list) : j # n /\ new[i] = list[j] /\ j = IF i < n THEN i ELSE i + 1
    <3>1. CASE i < n
      BY <2>0, <2>2, <2>4, <2>5, <3>1
    <3>2. CASE ~ (i < n)
      <4>1. i + 1 \in 1..Len(list) /\ i + 1 # n
        BY <2>0, <2>2, <2>5, <3>2
      <4> QED BY <2>4, <2>5, <3>2, <4>1
    <3> QED BY <3>1, <3>2
  <2>7. ASSUME NEW j \in 1..Len(list), j # n
        PROVE  \E i \in 1..Len(new) : new[i] = list[j]
    <3>1. CASE j < n
      <4>1. j \in 1..(Len(list) - 1) /\ j \in 1..Len(new)
        BY <2>0, <2>2, <2>5, <3>1
      <4> QED BY <2>4, <3>1, <4>1
    <3>2. CASE j > n
      <4>1. /\ j - 1 \in 1..(Len(list) - 1) /\ j - 1 \in 1..Len(new)
            /\ ~ (j - 1 < n) /\ (j - 1) + 1 = j
        BY <2>0, <2>2, <2>5, <3>2
      <4> QED BY <2>4, <4>1
    <3> QED BY <2>0, <2>2, <2>7, <3>1, <3>2
  <2>8. Apart(new)
    <3> SUFFICES ASSUME NEW i \in 1..Len(new), NEW j \in 1..Len(new), i # j
                 PROVE  new[i].name # new[j].name
      BY <2>5 DEF Apart, DistinctNames
    <3>1. PICK k \in 1..Len(list) : new[i] = list[k] /\ k = IF i < n THEN i ELSE i + 1
      BY <2>6
    <3>2. PICK l \in 1..Len(list) : new[j] = list[l] /\ l = IF j < n THEN j ELSE j + 1
      BY <2>6
    <3>3. k # l
      BY <2>0, <2>2, <2>5, <3>1, <3>2
    <3> QED BY <3>1, <3>2, <3>3 DEF Apart, DistinctNames
  <2>9. Named(new) = Named(list) \ {res}
    <3>1. ASSUME NEW i \in 1..Len(new) PROVE new[i].name \in Named(list) \ {res}
      <4>1. PICK j \in 1..Len(list) : j # n /\ new[i] = list[j]
        BY <2>6
      <4>2. list[j].name # res
        BY <2>2, <4>1 DEF Apart, DistinctNames
      <4> QED BY <4>1, <4>2 DEF Named
    <3>2. ASSUME NEW j \in 1..Len(list), list[j].name # res PROVE list[j].name \in Named(new)
      <4>1. j # n
        BY <2>2, <3>2
      <4>2. PICK i \in 1..Len(new) : new[i] = list[j]
        BY <2>7, <4>1
      <4> QED BY <4>2 DEF Named
    <3>3. Named(new) \subseteq Named(list) \ {res}
      BY <3>1 DEF Named
    <3>4. Named(list) \ {res} \subseteq Named(new)
      BY <3>2 DEF Named
    <3> QED BY <3>3, <3>4
  <2>10. ASSUME NEW r \in Named(list) \ {res} PROVE SaidBy(new, r) = SaidBy(list, r)
    <3>1. PICK j \in 1..Len(list) : r = list[j].name
      BY DEF Named
    <3>2. j # n
      BY <2>2, <2>10, <3>1
    <3>3. PICK i \in 1..Len(new) : new[i] = list[j]
      BY <2>7, <3>2
    <3>4. SaidBy(list, r) = Said(list[j])
      BY <3>1, SaidIs
    <3>5. SaidBy(new, r) = Said(new[i])
      BY <2>8, <3>1, <3>3, SaidIs
    <3> QED BY <3>3, <3>4, <3>5
  <2>11. Without(list, res) = new
    BY <1>2, <2>1, <2>3 DEF Without
  <2> QED BY <2>9, <2>10, <2>11
<1> QED BY <1>1, <1>2

InError(rec) == [rec EXCEPT !.show = ERROR]

LEMMA InErrorSays ==
  ASSUME NEW rec \in Resource
  PROVE  /\ InError(rec) \in Resource /\ InError(rec).name = rec.name
         /\ Said(InError(rec)) = [Said(rec) EXCEPT !.show = ERROR]
<1>1. InError(rec) \in Resource /\ InError(rec).name = rec.name
  BY DEF InError, Resource, ERROR
<1>2. Said(InError(rec)) = [Said(rec) EXCEPT !.show = ERROR]
  BY DEF InError, Said, Resource
<1> QED BY <1>1, <1>2

(* user_presence_error: only the resource that the error names says it. *)
LEMMA WithErrorSays ==
  ASSUME NEW list, Apart(list), NEW res
  PROVE  /\ Named(WithError(list, res)) = Named(list)
         /\ res \in Named(list) =>
              SaidBy(WithError(list, res), res) = [SaidBy(list, res) EXCEPT !.show = ERROR]
         /\ \A r \in Named(list) \ {res} : SaidBy(WithError(list, res), r) = SaidBy(list, r)
<1>1. CASE ~Has(list, res)
  <2>1. WithError(list, res) = list /\ res \notin Named(list)
    BY <1>1, HasNamed DEF WithError
  <2> QED BY <2>1
<1>2. CASE Has(list, res)
  <2>0. list \in Seq(Resource)
    BY DEF Apart
  <2>1. PICK n : n = Find(list, res)
    OBVIOUS
  <2>2. n \in 1..Len(list) /\ list[n].name = res /\ list[n] \in Resource
    BY <1>2, <2>0, <2>1, FindProperties, ElementOfSeq
  <2>3. PICK rec : rec = InError(list[n])
    OBVIOUS
  <2>4. /\ rec \in Resource /\ rec.name = list[n].name
        /\ Said(rec) = [Said(list[n]) EXCEPT !.show = ERROR]
    BY <2>2, <2>3, InErrorSays
  <2>5. PICK w : w = Overwritten(list, n, rec)
    OBVIOUS
  <2>6. /\ Named(w) = Named(list) /\ SaidBy(w, rec.name) = Said(rec)
        /\ \A r \in Named(list) \ {rec.name} : SaidBy(w, r) = SaidBy(list, r)
    BY <2>2, <2>4, <2>5, OverwrittenSays
  <2>7. WithError(list, res) = w
    BY <1>2, <2>1, <2>3, <2>5 DEF WithError, InError, Overwritten
  <2>8. SaidBy(list, res) = Said(list[n])
    BY <2>2, SaidIs
  <2> QED BY <2>2, <2>4, <2>6, <2>7, <2>8
<1> QED BY <1>1, <1>2

-----------------------------------------------------------------------------
(* The table that the lists of the contacts and of the account stand for. *)

RowsOf(lists) ==
  UNION {{<<jid, lists[jid][i].name>> : i \in 1..Len(lists[jid])} : jid \in DOMAIN lists}

TableOf(lists) == [key \in RowsOf(lists) |-> SaidBy(lists[key[1]], key[2])]

LEMMA InRows ==
  ASSUME NEW lists
  PROVE  /\ \A j, r : <<j, r>> \in RowsOf(lists) <=> j \in DOMAIN lists /\ r \in Named(lists[j])
         /\ \A key \in RowsOf(lists) : \E j \in DOMAIN lists : \E r \in Named(lists[j]) : key = <<j, r>>
<1>1. ASSUME NEW j \in DOMAIN lists, NEW r \in Named(lists[j]) PROVE <<j, r>> \in RowsOf(lists)
  <2>1. PICK i \in 1..Len(lists[j]) : r = lists[j][i].name
    BY DEF Named
  <2>2. <<j, r>> \in {<<j, lists[j][k].name>> : k \in 1..Len(lists[j])}
    BY <2>1
  <2> QED BY <2>2 DEF RowsOf
<1>2. ASSUME NEW key \in RowsOf(lists)
      PROVE  \E j \in DOMAIN lists : \E r \in Named(lists[j]) : key = <<j, r>>
  <2>1. PICK j \in DOMAIN lists : key \in {<<j, lists[j][i].name>> : i \in 1..Len(lists[j])}
    BY DEF RowsOf
  <2>2. PICK i \in 1..Len(lists[j]) : key = <<j, lists[j][i].name>>
    BY <2>1
  <2> QED BY <2>2 DEF Named
<1>3. ASSUME NEW j, NEW r, <<j, r>> \in RowsOf(lists)
      PROVE  j \in DOMAIN lists /\ r \in Named(lists[j])
  <2>1. PICK k \in DOMAIN lists : \E q \in Named(lists[k]) : <<j, r>> = <<k, q>>
    BY <1>2, <1>3
  <2> QED BY <2>1
<1> QED BY <1>1, <1>2, <1>3

LEMMA InTable ==
  ASSUME NEW lists
  PROVE  /\ DOMAIN TableOf(lists) = RowsOf(lists)
         /\ TableOf(lists) = [key \in RowsOf(lists) |-> TableOf(lists)[key]]
         /\ \A j \in DOMAIN lists : \A r \in Named(lists[j]) :
              TableOf(lists)[<<j, r>>] = SaidBy(lists[j], r)
<1>1. DOMAIN TableOf(lists) = RowsOf(lists)
  BY DEF TableOf
<1>2. TableOf(lists) = [key \in RowsOf(lists) |-> TableOf(lists)[key]]
  BY DEF TableOf
<1>3. ASSUME NEW j \in DOMAIN lists, NEW r \in Named(lists[j])
      PROVE  TableOf(lists)[<<j, r>>] = SaidBy(lists[j], r)
  <2>1. <<j, r>> \in RowsOf(lists)
    BY InRows
  <2> QED BY <2>1 DEF TableOf
<1> QED BY <1>1, <1>2, <1>3

(* Two tables of the same lists but one. *)
OnlyListOf(jid, a, b) ==
  jid \in DOMAIN a /\ DOMAIN b = DOMAIN a /\ \A k \in DOMAIN a \ {jid} : b[k] = a[k]

LEMMA OtherRows ==
  ASSUME NEW a, NEW b, NEW jid, OnlyListOf(jid, a, b),
         NEW j \in DOMAIN a \ {jid}, NEW r \in Named(a[j])
  PROVE  <<j, r>> \in RowsOf(b) /\ TableOf(b)[<<j, r>>] = TableOf(a)[<<j, r>>]
<1>1. b[j] = a[j] /\ j \in DOMAIN b
  BY DEF OnlyListOf
<1>2. TableOf(a)[<<j, r>>] = SaidBy(a[j], r) /\ TableOf(b)[<<j, r>>] = SaidBy(b[j], r)
  BY <1>1, InTable
<1> QED BY <1>1, <1>2, InRows

WithRow(table, key0, said) ==
  [key \in DOMAIN table \cup {key0} |-> IF key # key0 THEN table[key] ELSE said]

LEMMA AnnounceTable ==
  ASSUME NEW a, NEW b, NEW jid, NEW res, NEW said, OnlyListOf(jid, a, b),
         Named(b[jid]) = Named(a[jid]) \cup {res}, SaidBy(b[jid], res) = said,
         \A r \in Named(a[jid]) \ {res} : SaidBy(b[jid], r) = SaidBy(a[jid], r)
  PROVE  TableOf(b) = WithRow(TableOf(a), <<jid, res>>, said)
<1>1. jid \in DOMAIN a /\ DOMAIN b = DOMAIN a /\ \A k \in DOMAIN a \ {jid} : b[k] = a[k]
  BY DEF OnlyListOf
<1>2. RowsOf(b) = RowsOf(a) \cup {<<jid, res>>}
  <2>1. ASSUME NEW key \in RowsOf(b) PROVE key \in RowsOf(a) \cup {<<jid, res>>}
    <3>1. PICK j \in DOMAIN b : \E r \in Named(b[j]) : key = <<j, r>>
      BY InRows
    <3>2. PICK r \in Named(b[j]) : key = <<j, r>>
      BY <3>1
    <3>3. CASE j = jid
      BY <1>1, <3>2, <3>3, InRows
    <3>4. CASE j # jid
      BY <1>1, <3>2, <3>4, InRows
    <3> QED BY <3>3, <3>4
  <2>2. ASSUME NEW key \in RowsOf(a) PROVE key \in RowsOf(b)
    <3>1. PICK j \in DOMAIN a : \E r \in Named(a[j]) : key = <<j, r>>
      BY InRows
    <3>2. PICK r \in Named(a[j]) : key = <<j, r>>
      BY <3>1
    <3>3. j \in DOMAIN b /\ r \in Named(b[j])
      BY <1>1
    <3> QED BY <3>2, <3>3, InRows
  <2>3. <<jid, res>> \in RowsOf(b)
    BY <1>1, InRows
  <2> QED BY <2>1, <2>2, <2>3
<1>3. ASSUME NEW key \in RowsOf(b)
      PROVE  TableOf(b)[key] = IF key # <<jid, res>> THEN TableOf(a)[key] ELSE said
  <2>1. PICK j \in DOMAIN b : \E r \in Named(b[j]) : key = <<j, r>>
    BY InRows
  <2>2. PICK r \in Named(b[j]) : key = <<j, r>>
    BY <2>1
  <2>3. TableOf(b)[key] = SaidBy(b[j], r)
    BY <2>2, InTable
  <2>4. CASE j = jid /\ r = res
    BY <2>2, <2>3, <2>4
  <2>5. CASE j = jid /\ r # res
    <3>1. r \in Named(a[jid]) \ {res} /\ key # <<jid, res>>
      BY <2>2, <2>5
    <3>2. TableOf(a)[key] = SaidBy(a[jid], r)
      BY <1>1, <2>2, <2>5, <3>1, InTable
    <3> QED BY <2>3, <2>5, <3>1, <3>2
  <2>6. CASE j # jid
    <3>1. j \in DOMAIN a /\ r \in Named(a[j]) /\ b[j] = a[j] /\ key # <<jid, res>>
      BY <1>1, <2>2, <2>6
    <3>2. TableOf(a)[key] = SaidBy(a[j], r)
      BY <2>2, <3>1, InTable
    <3> QED BY <2>3, <3>1, <3>2
  <2> QED BY <2>4, <2>5, <2>6
<1>4. TableOf(b) = [key \in RowsOf(b) |-> TableOf(b)[key]]
  BY InTable
<1>5. [key \in RowsOf(b) |-> TableOf(b)[key]] =
        [key \in RowsOf(b) |-> IF key # <<jid, res>> THEN TableOf(a)[key] ELSE said]
  BY <1>3
<1>6. RowsOf(b) = DOMAIN TableOf(a) \cup {<<jid, res>>}
  BY <1>2, InTable
<1> QED BY <1>4, <1>5, <1>6 DEF WithRow

WithoutRow(table, key0) == Restrict(table, DOMAIN table \ {key0})

LEMMA LeaveTable ==
  ASSUME NEW a, NEW b, NEW jid, NEW res, OnlyListOf(jid, a, b),
         Named(b[jid]) = Named(a[jid]) \ {res},
         \A r \in Named(a[jid]) \ {res} : SaidBy(b[jid], r) = SaidBy(a[jid], r)
  PROVE  TableOf(b) = WithoutRow(TableOf(a), <<jid, res>>)
<1>1. jid \in DOMAIN a /\ DOMAIN b = DOMAIN a /\ \A k \in DOMAIN a \ {jid} : b[k] = a[k]
  BY DEF OnlyListOf
<1>2. ASSUME NEW key \in RowsOf(b)
      PROVE  key \in RowsOf(a) \ {<<jid, res>>} /\ TableOf(b)[key] = TableOf(a)[key]
  <2>1. PICK j \in DOMAIN b : \E r \in Named(b[j]) : key = <<j, r>>
    BY InRows
  <2>2. PICK r \in Named(b[j]) : key = <<j, r>>
    BY <2>1
  <2>3. CASE j = jid
    <3>1. r \in Named(a[jid]) \ {res} /\ key # <<jid, res>>
      BY <2>2, <2>3
    <3>2. TableOf(a)[key] = SaidBy(a[jid], r) /\ TableOf(b)[key] = SaidBy(b[jid], r)
      BY <1>1, <2>2, <2>3, <3>1, InTable
    <3> QED BY <1>1, <2>2, <2>3, <3>1, <3>2, InRows
  <2>4. CASE j # jid
    <3>1. j \in DOMAIN a \ {jid} /\ r \in Named(a[j]) /\ key # <<jid, res>>
      BY <1>1, <2>2, <2>4
    <3> QED BY <2>2, <3>1, OtherRows, InRows
  <2> QED BY <2>3, <2>4
<1>3. ASSUME NEW key \in RowsOf(a) \ {<<jid, res>>} PROVE key \in RowsOf(b)
  <2>1. PICK j \in DOMAIN a : \E r \in Named(a[j]) : key = <<j, r>>
    BY InRows
  <2>2. PICK r \in Named(a[j]) : key = <<j, r>>
    BY <2>1
  <2>3. CASE j = jid
    BY <1>1, <1>3, <2>2, <2>3, InRows
  <2>4. CASE j # jid
    BY <1>1, <2>2, <2>4, InRows
  <2> QED BY <2>3, <2>4
<1>4. RowsOf(b) = RowsOf(a) \ {<<jid, res>>}
  BY <1>2, <1>3
<1>5. TableOf(b) = [key \in RowsOf(b) |-> TableOf(a)[key]]
  <2>1. [key \in RowsOf(b) |-> TableOf(b)[key]] = [key \in RowsOf(b) |-> TableOf(a)[key]]
    BY <1>2
  <2> QED BY <2>1, InTable
<1> QED BY <1>4, <1>5, InTable DEF WithoutRow, Restrict

RowInError(table, key0) ==
  [key \in DOMAIN table |->
     IF key = key0 THEN [table[key] EXCEPT !.show = ERROR] ELSE table[key]]

LEMMA FailTable ==
  ASSUME NEW a, NEW b, NEW jid, NEW res, OnlyListOf(jid, a, b),
         Named(b[jid]) = Named(a[jid]),
         res \in Named(a[jid]) =>
           SaidBy(b[jid], res) = [SaidBy(a[jid], res) EXCEPT !.show = ERROR],
         \A r \in Named(a[jid]) \ {res} : SaidBy(b[jid], r) = SaidBy(a[jid], r)
  PROVE  TableOf(b) = RowInError(TableOf(a), <<jid, res>>)
<1>1. jid \in DOMAIN a /\ DOMAIN b = DOMAIN a /\ \A k \in DOMAIN a \ {jid} : b[k] = a[k]
  BY DEF OnlyListOf
<1>2. RowsOf(b) = RowsOf(a)
  <2>1. \A j \in DOMAIN a : Named(b[j]) = Named(a[j])
    BY <1>1
  <2>2. ASSUME NEW key \in RowsOf(b) PROVE key \in RowsOf(a)
    <3>1. PICK j \in DOMAIN b : \E r \in Named(b[j]) : key = <<j, r>>
      BY InRows
    <3> QED BY <1>1, <2>1, <3>1, InRows
  <2>3. ASSUME NEW key \in RowsOf(a) PROVE key \in RowsOf(b)
    <3>1. PICK j \in DOMAIN a : \E r \in Named(a[j]) : key = <<j, r>>
      BY InRows
    <3> QED BY <1>1, <2>1, <3>1, InRows
  <2> QED BY <2>2, <2>3
<1>3. ASSUME NEW key \in RowsOf(a)
      PROVE  TableOf(b)[key] =
               IF key = <<jid, res>> THEN [TableOf(a)[key] EXCEPT !.show = ERROR]
               ELSE TableOf(a)[key]
  <2>1. PICK j \in DOMAIN a : \E r \in Named(a[j]) : key = <<j, r>>
    BY InRows
  <2>2. PICK r \in Named(a[j]) : key = <<j, r>>
    BY <2>1
  <2>3. CASE j = jid
    <3>1. TableOf(a)[key] = SaidBy(a[jid], r) /\ TableOf(b)[key] = SaidBy(b[jid], r)
      BY <1>1, <2>2, <2>3, InTable
    <3>2. CASE r = res
      BY <2>2, <2>3, <3>1, <3>2
    <3>3. CASE r # res
      BY <2>2, <2>3, <3>1, <3>3
    <3> QED BY <3>2, <3>3
  <2>4. CASE j # jid
    <3>1. j \in DOMAIN a \ {jid} /\ key # <<jid, res>>
      BY <2>2, <2>4
    <3> QED BY <2>2, <3>1, OtherRows
  <2> QED BY <2>3, <2>4
<1>4. TableOf(b) = [key \in RowsOf(a) |-> TableOf(b)[key]]
  BY <1>2, InTable
<1>5. [key \in RowsOf(a) |-> TableOf(b)[key]] =
        [key \in RowsOf(a) |-> IF key = <<jid, res>> THEN [TableOf(a)[key] EXCEPT !.show = ERROR]
                               ELSE TableOf(a)[key]]
  BY <1>3
<1> QED BY <1>4, <1>5, InTable DEF RowInError

(* A contact that is listed and has no resource adds nothing to the table. *)
LEMMA ListTable ==
  ASSUME NEW a, NEW b, NEW jid, DOMAIN b = DOMAIN a \cup {jid},
         \A k \in DOMAIN a : b[k] = a[k], jid \notin DOMAIN a => Named(b[jid]) = {}
  PROVE  TableOf(b) = TableOf(a)
<1>1. ASSUME NEW key \in RowsOf(b)
      PROVE  key \in RowsOf(a) /\ TableOf(b)[key] = TableOf(a)[key]
  <2>1. PICK j \in DOMAIN b : \E r \in Named(b[j]) : key = <<j, r>>
    BY InRows
  <2>2. PICK r \in Named(b[j]) : key = <<j, r>>
    BY <2>1
  <2>3. j \in DOMAIN a /\ b[j] = a[j]
    BY <2>2
  <2>4. TableOf(a)[key] = SaidBy(a[j], r) /\ TableOf(b)[key] = SaidBy(b[j], r)
    BY <2>2, <2>3, InTable
  <2> QED BY <2>2, <2>3, <2>4, InRows
<1>2. ASSUME NEW key \in RowsOf(a) PROVE key \in RowsOf(b)
  <2>1. PICK j \in DOMAIN a : \E r \in Named(a[j]) : key = <<j, r>>
    BY InRows
  <2>2. j \in DOMAIN b /\ b[j] = a[j]
    OBVIOUS
  <2> QED BY <2>1, <2>2, InRows
<1>3. RowsOf(b) = RowsOf(a)
  BY <1>1, <1>2
<1>4. [key \in RowsOf(b) |-> TableOf(b)[key]] = [key \in RowsOf(a) |-> TableOf(a)[key]]
  BY <1>1, <1>3
<1> QED BY <1>4, InTable

(* With a contact go its rows. *)
WithoutRowsOf(table, jid) == Restrict(table, {key \in DOMAIN table : key[1] # jid})

LEMMA UnlistTable ==
  ASSUME NEW a, NEW b, NEW jid, DOMAIN b = DOMAIN a \ {jid},
         \A k \in DOMAIN b : b[k] = a[k]
  PROVE  TableOf(b) = WithoutRowsOf(TableOf(a), jid)
<1>1. ASSUME NEW key \in RowsOf(b)
      PROVE  /\ key \in RowsOf(a) /\ key[1] # jid
             /\ TableOf(b)[key] = TableOf(a)[key]
  <2>1. PICK j \in DOMAIN b : \E r \in Named(b[j]) : key = <<j, r>>
    BY InRows
  <2>2. PICK r \in Named(b[j]) : key = <<j, r>>
    BY <2>1
  <2>3. j \in DOMAIN a /\ b[j] = a[j] /\ j # jid
    OBVIOUS
  <2>4. TableOf(a)[key] = SaidBy(a[j], r) /\ TableOf(b)[key] = SaidBy(b[j], r)
    BY <2>2, <2>3, InTable
  <2> QED BY <2>2, <2>3, <2>4, InRows
<1>2. ASSUME NEW key \in RowsOf(a), key[1] # jid PROVE key \in RowsOf(b)
  <2>1. PICK j \in DOMAIN a : \E r \in Named(a[j]) : key = <<j, r>>
    BY InRows
  <2>2. j \in DOMAIN b /\ b[j] = a[j]
    BY <1>2, <2>1
  <2> QED BY <2>1, <2>2, InRows
<1>3. RowsOf(b) = {key \in DOMAIN TableOf(a) : key[1] # jid}
  <2>1. RowsOf(b) = {key \in RowsOf(a) : key[1] # jid}
    BY <1>1, <1>2
  <2> QED BY <2>1, InTable
<1>4. TableOf(b) = [key \in RowsOf(b) |-> TableOf(a)[key]]
  <2>1. [key \in RowsOf(b) |-> TableOf(b)[key]] = [key \in RowsOf(b) |-> TableOf(a)[key]]
    BY <1>1
  <2> QED BY <2>1, InTable
<1> QED BY <1>3, <1>4 DEF WithoutRowsOf, Restrict

-----------------------------------------------------------------------------
(* The mapping, and what each handler does under it. *)

Online == IF connected THEN [key \in Rows |-> Row(key[1], key[2])] ELSE <<>>

LEMMA OnlineTable ==
  ASSUME connected, connected'
  PROVE  Online = TableOf(Lists) /\ Online' = TableOf(Lists')
<1>1. Online = TableOf(Lists)
  BY DEF Online, Rows, Row, TableOf, RowsOf, SaidBy, Said
<1>2. Online' = TableOf(Lists')
  BY DEF Online, Rows, Row, TableOf, RowsOf, SaidBy, Said
<1> QED BY <1>1, <1>2

(* The list that a presence of a resource finds. *)
LEMMA ListsIs ==
  /\ DOMAIN Lists = DOMAIN user \cup {OwnJid}
  /\ \A j \in DOMAIN user : Lists[j] = user[j].resources
  /\ OwnJid \notin DOMAIN user => Lists[OwnJid] = my_resources
BY DEF Lists

LEMMA NextListsIs ==
  /\ DOMAIN Lists' = DOMAIN user' \cup {OwnJid}
  /\ \A j \in DOMAIN user' : Lists'[j] = user'[j].resources
  /\ OwnJid \notin DOMAIN user' => Lists'[OwnJid] = my_resources'
BY DEF Lists

LEMMA ListsApart ==
  ASSUME NoGateway, IInv, NEW j \in DOMAIN Lists
  PROVE  Apart(Lists[j])
<1>1. GoodList(Lists[j])
  BY ListsIs DEF IInv, GoodUsers
<1> QED BY <1>1, GoodApart

(* A presence changes the list of its sender alone. *)
LEMMA ListOfContact ==
  ASSUME IInv, NEW jid \in DOMAIN user, NEW error \in BOOLEAN, NEW list \in Seq(Resource),
         user' = [user EXCEPT ![jid] = Present(user[jid], error, list)],
         UNCHANGED my_resources
  PROVE  OnlyListOf(jid, Lists, Lists') /\ Lists'[jid] = list /\ DOMAIN user' = DOMAIN user
<1>1. PICK rec : rec = Present(user[jid], error, list)
  OBVIOUS
<1>2. rec.resources = list
  BY <1>1, PresentType DEF IInv, GoodUsers
<1>3. /\ DOMAIN user' = DOMAIN user
      /\ \A j \in DOMAIN user : user'[j] = IF j = jid THEN rec ELSE user[j]
  <2>1. user \in [DOMAIN user -> User]
    BY DEF IInv, GoodUsers
  <2> QED BY <1>1, <2>1
<1>4. Lists'[jid] = list
  BY <1>2, <1>3, NextListsIs
<1>5. ASSUME NEW k \in DOMAIN Lists \ {jid} PROVE Lists'[k] = Lists[k]
  <2>1. CASE k \in DOMAIN user
    BY <1>3, <1>5, <2>1, ListsIs, NextListsIs
  <2>2. CASE k \notin DOMAIN user
    BY <1>3, <1>5, <2>2, ListsIs, NextListsIs
  <2> QED BY <2>1, <2>2
<1>6. jid \in DOMAIN Lists /\ DOMAIN Lists' = DOMAIN Lists
  BY <1>3, ListsIs, NextListsIs
<1> QED BY <1>3, <1>4, <1>5, <1>6 DEF OnlyListOf

LEMMA ListOfAccount ==
  ASSUME OwnJid \notin DOMAIN user, UNCHANGED user
  PROVE  OnlyListOf(OwnJid, Lists, Lists') /\ Lists'[OwnJid] = my_resources'
<1>1. DOMAIN Lists' = DOMAIN Lists /\ OwnJid \in DOMAIN Lists
  BY ListsIs, NextListsIs
<1>2. \A k \in DOMAIN Lists \ {OwnJid} : Lists'[k] = Lists[k]
  BY ListsIs, NextListsIs
<1> QED BY <1>1, <1>2, NextListsIs DEF OnlyListOf

LEMMA PresenceTells ==
  ASSUME NoGateway, IInv, NEW jid, NEW res \in Res, NEW show \in Show,
         NEW priority \in Priority \cup {NULL}, NEW status \in Status \cup {NULL},
         update_user_presence(jid, res, show, priority, status)
  PROVE  Table!Announce(jid, res, show, priority, status)
<1>1. connected /\ connected'
  BY DEF update_user_presence
<1>2. PICK a, b : a = Lists /\ b = Lists'
  OBVIOUS
<1>3. /\ OnlyListOf(jid, a, b) /\ DOMAIN user' = DOMAIN user
      /\ b[jid] \in WithPresence(a[jid], res, show, priority, status)
      /\ jid \in DOMAIN user \/ (jid = OwnJid /\ res # OwnRes)
  <2>1. CASE Listed(jid)
    <3>1. jid \in DOMAIN user
      BY <2>1, ListedHasRecord
    <3>2. PICK list \in WithPresence(user[jid].resources, res, show, priority, status) :
            user' = [user EXCEPT ![jid] = Present(user[jid], FALSE, list)]
      BY <2>1 DEF update_user_presence
    <3>3. list \in Seq(Resource)
      <4>1. GoodList(user[jid].resources)
        BY <3>1 DEF IInv, GoodUsers
      <4>2. GoodList(list)
        <5>1. res # NULL
          BY ResAssumption, NullAssumption
        <5> QED BY <3>2, <4>1, <5>1, WithPresenceGood
      <4> QED BY <4>2 DEF GoodList
    <3>4. UNCHANGED my_resources
      BY <2>1 DEF update_user_presence
    <3>5. OnlyListOf(jid, Lists, Lists') /\ Lists'[jid] = list /\ DOMAIN user' = DOMAIN user
      BY <3>1, <3>2, <3>3, <3>4, ListOfContact
    <3>6. Lists[jid] = user[jid].resources
      BY <3>1, ListsIs
    <3> QED BY <1>2, <3>1, <3>2, <3>5, <3>6
  <2>2. CASE ~Listed(jid)
    <3>1. /\ jid = OwnJid /\ res # OwnRes /\ UNCHANGED user
          /\ my_resources' \in WithPresence(my_resources, res, show, priority, status)
      BY <2>2 DEF update_user_presence
    <3>2. OwnJid \notin DOMAIN user
      BY <2>2, <3>1, ListedHasRecord
    <3>3. OnlyListOf(OwnJid, Lists, Lists') /\ Lists'[OwnJid] = my_resources'
      BY <3>1, <3>2, ListOfAccount
    <3>4. Lists[OwnJid] = my_resources
      BY <3>2, ListsIs
    <3> QED BY <1>2, <3>1, <3>3, <3>4
  <2> QED BY <2>1, <2>2
<1>4. Apart(a[jid]) /\ jid \in DOMAIN a
  BY <1>2, <1>3, ListsApart DEF OnlyListOf
<1>5. PICK old : old = IF res \in Named(a[jid]) THEN SaidBy(a[jid], res).priority ELSE 0
  OBVIOUS
<1>6. PICK said : said = [show |-> show, priority |-> IF priority = NULL THEN old ELSE priority,
                          status |-> status]
  OBVIOUS
<1>7. /\ Named(b[jid]) = Named(a[jid]) \cup {res} /\ SaidBy(b[jid], res) = said
      /\ \A r \in Named(a[jid]) \ {res} : SaidBy(b[jid], r) = SaidBy(a[jid], r)
  BY <1>3, <1>4, <1>5, <1>6, PresenceSays
<1>8. TableOf(b) = WithRow(TableOf(a), <<jid, res>>, said)
  BY <1>3, <1>7, AnnounceTable
<1>9. Online = TableOf(a) /\ Online' = TableOf(b)
  BY <1>1, <1>2, OnlineTable
<1>10. old = IF <<jid, res>> \in DOMAIN Online THEN Online[<<jid, res>>].priority ELSE 0
  <2>1. <<jid, res>> \in DOMAIN TableOf(a) <=> res \in Named(a[jid])
    BY <1>4, InRows, InTable
  <2>2. res \in Named(a[jid]) => TableOf(a)[<<jid, res>>] = SaidBy(a[jid], res)
    BY <1>4, InTable
  <2> QED BY <1>5, <1>9, <2>1, <2>2
<1>11. Online' = [key \in DOMAIN Online \cup {<<jid, res>>} |->
                    IF key # <<jid, res>> THEN Online[key]
                    ELSE [show |-> show, priority |-> IF priority = NULL THEN old ELSE priority,
                          status |-> status]]
  BY <1>6, <1>8, <1>9 DEF WithRow
<1> QED BY <1>3, <1>10, <1>11 DEF Table!Announce, Table!Tracked, Online

LEMMA UnavailableTells ==
  ASSUME NoGateway, IInv, NEW jid, NEW res, user_unavailable(jid, res)
  PROVE  Table!Leave(jid, res)
<1>1. connected /\ connected'
  BY DEF user_unavailable
<1>2. PICK a, b : a = Lists /\ b = Lists'
  OBVIOUS
<1>3. OnlyListOf(jid, a, b) /\ DOMAIN user' = DOMAIN user /\ b[jid] = Without(a[jid], res)
  <2>1. CASE Listed(jid)
    <3>1. jid \in DOMAIN user
      BY <2>1, ListedHasRecord
    <3>2. PICK list : list = Without(user[jid].resources, res)
      OBVIOUS
    <3>3. list \in Seq(Resource)
      <4>1. GoodList(user[jid].resources)
        BY <3>1 DEF IInv, GoodUsers
      <4>2. GoodList(list)
        BY <3>2, <4>1, WithoutGood
      <4> QED BY <4>2 DEF GoodList
    <3>4. /\ user' = [user EXCEPT ![jid] = Present(user[jid], FALSE, list)]
          /\ UNCHANGED my_resources
      BY <2>1, <3>2 DEF user_unavailable
    <3>5. OnlyListOf(jid, Lists, Lists') /\ Lists'[jid] = list /\ DOMAIN user' = DOMAIN user
      BY <3>1, <3>3, <3>4, ListOfContact
    <3>6. Lists[jid] = user[jid].resources
      BY <3>1, ListsIs
    <3> QED BY <1>2, <3>2, <3>5, <3>6
  <2>2. CASE ~Listed(jid)
    <3>1. /\ jid = OwnJid /\ UNCHANGED user
          /\ my_resources' = Without(my_resources, res)
      BY <2>2 DEF user_unavailable
    <3>2. OwnJid \notin DOMAIN user
      BY <2>2, <3>1, ListedHasRecord
    <3>3. OnlyListOf(OwnJid, Lists, Lists') /\ Lists'[OwnJid] = my_resources'
      BY <3>1, <3>2, ListOfAccount
    <3>4. Lists[OwnJid] = my_resources
      BY <3>2, ListsIs
    <3> QED BY <1>2, <3>1, <3>3, <3>4
  <2> QED BY <2>1, <2>2
<1>4. Apart(a[jid])
  BY <1>2, <1>3, ListsApart DEF OnlyListOf
<1>5. /\ Named(b[jid]) = Named(a[jid]) \ {res}
      /\ \A r \in Named(a[jid]) \ {res} : SaidBy(b[jid], r) = SaidBy(a[jid], r)
  BY <1>3, <1>4, WithoutSays
<1>6. TableOf(b) = WithoutRow(TableOf(a), <<jid, res>>)
  BY <1>3, <1>5, LeaveTable
<1>7. Online' = WithoutRow(Online, <<jid, res>>)
  BY <1>1, <1>2, <1>6, OnlineTable
<1>8. Online' = Table!Restrict(Online, DOMAIN Online \ {<<jid, res>>})
  BY <1>7 DEF WithoutRow, Restrict, Table!Restrict
<1> QED BY <1>3, <1>8 DEF Table!Leave, Online

LEMMA ErrorTells ==
  ASSUME NoGateway, IInv, NEW jid, NEW res, user_presence_error(jid, res)
  PROVE  Table!Fail(jid, res)
<1>1. connected /\ connected'
  BY DEF user_presence_error
<1>2. PICK a, b : a = Lists /\ b = Lists'
  OBVIOUS
<1>3. OnlyListOf(jid, a, b) /\ DOMAIN user' = DOMAIN user /\ b[jid] = WithError(a[jid], res)
  <2>1. CASE Listed(jid)
    <3>1. jid \in DOMAIN user
      BY <2>1, ListedHasRecord
    <3>2. PICK list : list = WithError(user[jid].resources, res)
      OBVIOUS
    <3>3. PICK error \in BOOLEAN : error = (user[jid].error \/ ~Has(user[jid].resources, res))
      OBVIOUS
    <3>4. list \in Seq(Resource)
      <4>1. GoodList(user[jid].resources)
        BY <3>1 DEF IInv, GoodUsers
      <4>2. GoodList(list)
        BY <3>2, <4>1, WithErrorGood
      <4> QED BY <4>2 DEF GoodList
    <3>5. /\ user' = [user EXCEPT ![jid] = Present(user[jid], error, list)]
          /\ UNCHANGED my_resources
      BY <2>1, <3>2, <3>3 DEF user_presence_error
    <3>6. OnlyListOf(jid, Lists, Lists') /\ Lists'[jid] = list /\ DOMAIN user' = DOMAIN user
      BY <3>1, <3>4, <3>5, ListOfContact
    <3>7. Lists[jid] = user[jid].resources
      BY <3>1, ListsIs
    <3> QED BY <1>2, <3>2, <3>6, <3>7
  <2>2. CASE ~Listed(jid)
    <3>1. /\ jid = OwnJid /\ UNCHANGED user
          /\ my_resources' = WithError(my_resources, res)
      BY <2>2 DEF user_presence_error
    <3>2. OwnJid \notin DOMAIN user
      BY <2>2, <3>1, ListedHasRecord
    <3>3. OnlyListOf(OwnJid, Lists, Lists') /\ Lists'[OwnJid] = my_resources'
      BY <3>1, <3>2, ListOfAccount
    <3>4. Lists[OwnJid] = my_resources
      BY <3>2, ListsIs
    <3> QED BY <1>2, <3>1, <3>3, <3>4
  <2> QED BY <2>1, <2>2
<1>4. Apart(a[jid])
  BY <1>2, <1>3, ListsApart DEF OnlyListOf
<1>5. /\ Named(b[jid]) = Named(a[jid])
      /\ res \in Named(a[jid]) =>
           SaidBy(b[jid], res) = [SaidBy(a[jid], res) EXCEPT !.show = ERROR]
      /\ \A r \in Named(a[jid]) \ {res} : SaidBy(b[jid], r) = SaidBy(a[jid], r)
  BY <1>3, <1>4, WithErrorSays
<1>6. TableOf(b) = RowInError(TableOf(a), <<jid, res>>)
  BY <1>3, <1>5, FailTable
<1>7. Online' = RowInError(Online, <<jid, res>>)
  BY <1>1, <1>2, <1>6, OnlineTable
<1>8. Online' = [key \in DOMAIN Online |->
                   IF key = <<jid, res>> THEN [Online[key] EXCEPT !.show = Table!ERROR]
                   ELSE Online[key]]
  BY <1>7 DEF RowInError, ERROR, Table!ERROR
<1> QED BY <1>3, <1>8 DEF Table!Fail, Online

(* An item lists a contact, and leaves the resources of one that is listed. *)
LEMMA ItemTells ==
  ASSUME NotOwnContact, IInv, NEW jid \in Contact, NEW subscription \in Stated,
         NEW name \in Name \cup {NULL}, NEW group \in Group \cup {NULL},
         update_user(jid, subscription, name, group)
  PROVE  IF subscription = "remove" THEN Table!Unlist(jid) ELSE Table!List(jid)
<1>1. connected /\ connected' /\ UNCHANGED my_resources
  BY DEF update_user
<1>2. PICK a, b : a = Lists /\ b = Lists'
  OBVIOUS
<1>3. /\ jid # OwnJid /\ OwnJid \notin DOMAIN user
      /\ DOMAIN user \subseteq Contact
  BY DEF NotOwnContact, IInv, GoodUsers
<1>4. Online = TableOf(a) /\ Online' = TableOf(b)
  BY <1>1, <1>2, OnlineTable
<1>5. CASE subscription = "remove"
  <2>1. user' = Restrict(user, DOMAIN user \ {jid})
    BY <1>5 DEF update_user
  <2>2. /\ DOMAIN user' = DOMAIN user \ {jid}
        /\ \A j \in DOMAIN user' : user'[j] = user[j]
    BY <2>1 DEF Restrict
  <2>3. DOMAIN b = DOMAIN a \ {jid}
    BY <1>2, <1>3, <2>2, ListsIs, NextListsIs
  <2>4. \A k \in DOMAIN b : b[k] = a[k]
    BY <1>1, <1>2, <1>3, <2>2, ListsIs, NextListsIs
  <2>5. Online' = Table!Restrict(Online, {key \in DOMAIN Online : key[1] # jid})
    <3>1. TableOf(b) = WithoutRowsOf(TableOf(a), jid)
      BY <2>3, <2>4, UnlistTable
    <3>2. Online' = WithoutRowsOf(Online, jid)
      BY <1>4, <3>1
    <3> QED BY <3>2 DEF WithoutRowsOf, Restrict, Table!Restrict
  <2> QED BY <1>5, <2>2, <2>5 DEF Table!Unlist, Online
<1>6. CASE subscription # "remove"
  <2>1. PICK old : old = IF Listed(jid) THEN user[jid] ELSE NewUser(name)
    OBVIOUS
  <2>2. user' = Put(user, jid, Renamed(old, name, subscription))
    BY <1>6, <2>1 DEF update_user
  <2>3. old \in User
    BY <2>1, ListedHasRecord, NewUserType DEF IInv, GoodUsers
  <2>4. PICK rec : rec = Renamed(old, name, subscription)
    OBVIOUS
  <2>5. rec.resources = old.resources
    BY <1>6, <2>3, <2>4, RenamedType DEF Kept
  <2>6. /\ DOMAIN user' = DOMAIN user \cup {jid}
        /\ \A j \in DOMAIN user' : user'[j] = IF j = jid THEN rec ELSE user[j]
    BY <2>2, <2>4 DEF Put
  <2>7. DOMAIN b = DOMAIN a \cup {jid}
    BY <1>2, <2>6, ListsIs, NextListsIs
  <2>8. \A k \in DOMAIN a : b[k] = a[k]
    <3> SUFFICES ASSUME NEW k \in DOMAIN a PROVE b[k] = a[k]
      OBVIOUS
    <3>1. CASE k = jid
      <4>1. jid \in DOMAIN user
        BY <1>2, <1>3, <3>1, ListsIs
      <4>2. old = user[jid]
        BY <2>1, <4>1, ListedHasRecord
      <4> QED BY <1>2, <2>5, <2>6, <3>1, <4>1, <4>2, ListsIs, NextListsIs
    <3>2. CASE k # jid /\ k \in DOMAIN user
      BY <1>2, <2>6, <3>2, ListsIs, NextListsIs
    <3>3. CASE k = OwnJid
      BY <1>1, <1>2, <1>3, <2>6, <3>3, ListsIs, NextListsIs
    <3> QED BY <1>2, <3>1, <3>2, <3>3, ListsIs
  <2>9. jid \notin DOMAIN a => Named(b[jid]) = {}
    <3> SUFFICES ASSUME jid \notin DOMAIN a PROVE Named(b[jid]) = {}
      OBVIOUS
    <3>1. jid \notin DOMAIN user
      BY <1>2, ListsIs
    <3>2. old = NewUser(name)
      BY <2>1, <3>1, ListedHasRecord
    <3>3. b[jid] = <<>>
      BY <1>2, <2>5, <2>6, <3>2, NewUserType, NextListsIs
    <3>4. Len(<<>>) = 0
      OBVIOUS
    <3> QED BY <3>3, <3>4 DEF Named
  <2>10. Online' = Online
    BY <1>4, <2>7, <2>8, <2>9, ListTable
  <2> QED BY <1>6, <2>6, <2>10 DEF Table!List, Online
<1> QED BY <1>5, <1>6

-----------------------------------------------------------------------------
(* The theorems *)

(* The roster of a server record that is new or disconnected: no row. *)
LEMMA DisconnectTells ==
  ASSUME sig_connected \/ roster_cleanup
  PROVE  Table!Disconnect
<1>1. DOMAIN <<>> = {}
  OBVIOUS
<1>2. CASE roster_cleanup
  BY <1>1, <1>2 DEF roster_cleanup, Table!Disconnect
<1>3. CASE sig_connected
  <2>1. connected' /\ user' = <<>> /\ my_resources' = <<>>
    BY <1>3 DEF sig_connected
  <2>2. DOMAIN user' = {}
    BY <1>1, <2>1
  <2>3. DOMAIN Lists' = {OwnJid} /\ Lists'[OwnJid] = <<>>
    BY <2>1, <2>2, NextListsIs
  <2>4. Rows' = {}
    BY <2>3 DEF Rows
  <2>5. (IF connected THEN [key \in Rows |-> Row(key[1], key[2])] ELSE <<>>)' = <<>>
    BY <1>1, <2>1, <2>4
  <2> QED BY <2>2, <2>5 DEF Table!Disconnect
<1> QED BY <1>2, <1>3

LEMMA SenderIs ==
  ASSUME NoGateway, NEW sender \in Sender
  PROVE  sender[1] \in Jid /\ sender[2] \in Res
BY ResAssumption, NullAssumption DEF NoGateway, Sender

(* Each step of the roster is a step of the table or leaves it as it is. *)
LEMMA StepSimulation ==
  ASSUME NoGateway, NotOwnContact, IInv, [Next]_vars
  PROVE  [Table!Next]_(Table!vars)
<1>1. CASE RosterItem
  <2>1. PICK jid \in Contact, subscription \in Subscription,
             name \in Name \cup {NULL}, group \in Group \cup {NULL} :
          update_user(jid, subscription, name, group)
    BY <1>1 DEF RosterItem
  <2>2. subscription \in Stated
    BY SubscriptionAssumption DEF Stated
  <2>3. Table!Unlist(jid) \/ Table!List(jid)
    BY <2>1, <2>2, ItemTells
  <2> QED BY <2>3 DEF Table!Next
<1>2. CASE Available
  <2>1. PICK sender \in Sender, show \in Show,
             priority \in Priority \cup {NULL}, status \in Status \cup {NULL} :
          update_user_presence(sender[1], sender[2], show, priority, status)
    BY <1>2 DEF Available
  <2>2. sender[1] \in Jid /\ sender[2] \in Res
    BY SenderIs
  <2>3. Table!Announce(sender[1], sender[2], show, priority, status)
    BY <2>1, <2>2, PresenceTells
  <2> QED BY <2>2, <2>3 DEF Table!Next, Jid
<1>3. CASE Unavailable
  <2>1. PICK sender \in Sender : user_unavailable(sender[1], sender[2])
    BY <1>3 DEF Unavailable
  <2>2. sender[1] \in Jid /\ sender[2] \in Res
    BY SenderIs
  <2>3. Table!Leave(sender[1], sender[2])
    BY <2>1, UnavailableTells
  <2> QED BY <2>2, <2>3 DEF Table!Next, Jid
<1>4. CASE Error
  <2>1. PICK sender \in Sender : user_presence_error(sender[1], sender[2])
    BY <1>4 DEF Error
  <2>2. sender[1] \in Jid /\ sender[2] \in Res
    BY SenderIs
  <2>3. Table!Fail(sender[1], sender[2])
    BY <2>1, ErrorTells
  <2> QED BY <2>2, <2>3 DEF Table!Next, Jid
<1>5. CASE sig_connected \/ roster_cleanup
  <2>1. Table!Disconnect
    BY <1>5, DisconnectTells
  <2> QED BY <2>1 DEF Table!Next
<1>6. CASE UNCHANGED vars
  BY <1>6 DEF vars, Table!vars, Rows, Row, Lists
<1> QED BY <1>1, <1>2, <1>3, <1>4, <1>5, <1>6 DEF Next

LEMMA InitSimulation == Init => Table!Init
<1>1. DOMAIN <<>> = {}
  OBVIOUS
<1> QED BY <1>1 DEF Init, Table!Init

(* The sorted lists of resources, hanging from the contacts, implement the   *)
(* table of presences: whatever comes in whatever order, no handler loses,   *)
(* doubles or mixes up what the resources announced.                         *)
THEOREM RosterImplementsTable ==
  ASSUME NoGateway, NotOwnContact PROVE Spec => TracksPresence
<1>1. Init => Table!Init
  BY InitSimulation
<1>2. IInv /\ [Next]_vars => [Table!Next]_(Table!vars)
  BY StepSimulation
<1> QED BY <1>1, <1>2, Invariance, PTL DEF Spec, TracksPresence, Table!Spec

(* Each stanza does to the table what it says, and nothing else: the         *)
(* handlers of rosters.c change the row of the resource that they are        *)
(* called for, and an item none but those of the contact it removes.         *)
THEOREM StanzasTellTheTable ==
  ASSUME NoGateway, NotOwnContact PROVE Spec => StanzasTellTable
<1> DEFINE Tells ==
      /\ \A jid \in Contact, subscription \in Subscription,
           name \in Name \cup {NULL}, group \in Group \cup {NULL} :
           update_user(jid, subscription, name, group) =>
             IF subscription = "remove" THEN Table!Unlist(jid) ELSE Table!List(jid)
      /\ \A sender \in Sender :
           LET jid == sender[1]
               res == sender[2]
           IN  /\ \A show \in Show, priority \in Priority \cup {NULL},
                    status \in Status \cup {NULL} :
                    update_user_presence(jid, res, show, priority, status) =>
                      Table!Announce(jid, res, show, priority, status)
               /\ user_unavailable(jid, res) => Table!Leave(jid, res)
               /\ user_presence_error(jid, res) => Table!Fail(jid, res)
<1>1. ASSUME IInv PROVE Tells
  <2>1. ASSUME NEW jid \in Contact, NEW subscription \in Subscription,
               NEW name \in Name \cup {NULL}, NEW group \in Group \cup {NULL},
               update_user(jid, subscription, name, group)
        PROVE  IF subscription = "remove" THEN Table!Unlist(jid) ELSE Table!List(jid)
    <3>1. subscription \in Stated
      BY SubscriptionAssumption DEF Stated
    <3> QED BY <1>1, <2>1, <3>1, ItemTells
  <2>2. ASSUME NEW sender \in Sender, NEW show \in Show, NEW priority \in Priority \cup {NULL},
               NEW status \in Status \cup {NULL},
               update_user_presence(sender[1], sender[2], show, priority, status)
        PROVE  Table!Announce(sender[1], sender[2], show, priority, status)
    <3>1. sender[2] \in Res
      BY SenderIs
    <3> QED BY <1>1, <2>2, <3>1, PresenceTells
  <2>3. ASSUME NEW sender \in Sender
        PROVE  /\ user_unavailable(sender[1], sender[2]) => Table!Leave(sender[1], sender[2])
               /\ user_presence_error(sender[1], sender[2]) => Table!Fail(sender[1], sender[2])
    BY <1>1, UnavailableTells, ErrorTells
  <2> QED BY <2>1, <2>2, <2>3
<1>2. Spec => [][Tells]_vars
  <2> HIDE DEF Tells
  <2> QED BY <1>1, Invariance, PTL
<1> QED BY <1>2 DEF StanzasTellTable

=============================================================================
