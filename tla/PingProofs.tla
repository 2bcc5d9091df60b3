------------------------------ MODULE PingProofs ------------------------------
(***************************************************************************)
(* Theorems about Ping, for any number of servers and of pings in flight.  *)
(* The inductive invariant says of each ping in flight which record it     *)
(* belongs to, and that both are as old: the record of the server that     *)
(* awaits it, or what is awaited of an entity, as long as their ids agree. *)
(***************************************************************************)
EXTENDS Ping, FiniteSetTheorems, SequenceTheorems, WellFoundedInduction, TLAPS

-----------------------------------------------------------------------------
(* Counting. *)

(* A function from a finite set has no more values than arguments. *)
LEMMA ImageCounted ==
  ASSUME NEW S, IsFiniteSet(S), NEW f, f \in [S -> {f[x] : x \in S}]
  PROVE  /\ IsFiniteSet({f[x] : x \in S})
         /\ Cardinality({f[x] : x \in S}) <= Cardinality(S)
<1>1. f \in Surjection(S, {f[x] : x \in S})
  BY DEF Surjection
<1> QED BY <1>1, FS_Surjection

(* A set of indices is finite. *)
LEMMA IndicesFinite ==
  ASSUME NEW n \in Nat, NEW K \in SUBSET (1..n)
  PROVE  IsFiniteSet(K) /\ Cardinality(K) \in Nat
<1>1. IsFiniteSet(1..n)
  BY FS_Interval
<1>2. IsFiniteSet(K)
  BY <1>1, FS_Subset
<1> QED BY <1>2, FS_CardinalityType

(* The increasing enumeration of a set of indices exists, which Without       *)
(* chooses.  This is an induction on the bound of the set.                    *)
Increasing(o) == \A i, j \in DOMAIN o : i < j => o[i] < o[j]

LEMMA Enumerated ==
  ASSUME NEW n \in Nat, NEW K \in SUBSET (1..n)
  PROVE  \E o \in [1..Cardinality(K) -> K] : Increasing(o)
<1> DEFINE Good(k) == \A L \in SUBSET (1..k) :
                        \E o \in [1..Cardinality(L) -> L] : Increasing(o)
           Bad  == {k \in Nat : ~Good(k)}
           Less == {ss \in Nat \X Nat : ss[1] < ss[2]}
<1>1. IsWellFoundedOn(Less, Nat)
  BY NatLessThanWellFounded DEF OpToRel
<1>2. ASSUME Bad # {} PROVE FALSE
  <2>1. Bad \in SUBSET Nat
    OBVIOUS
  <2> HIDE DEF Bad, Less
  <2>2. PICK m \in Bad : \A k \in Bad : ~(<<k, m>> \in Less)
    BY <1>1, <1>2, <2>1, WFMin
  <2>3. m \in Nat /\ ~Good(m)
    BY <2>2 DEF Bad
  <2>4. \A k \in Nat : k < m => Good(k)
    <3> SUFFICES ASSUME NEW k \in Nat, k < m, ~Good(k) PROVE FALSE
      OBVIOUS
    <3>1. k \in Bad
      BY DEF Bad
    <3> HIDE DEF Good
    <3> QED BY <2>2, <2>3, <3>1 DEF Less
  <2>5. PICK L \in SUBSET (1..m) : ~\E o \in [1..Cardinality(L) -> L] : Increasing(o)
    BY <2>3
  <2>6. IsFiniteSet(L) /\ Cardinality(L) \in Nat
    BY <2>3, IndicesFinite
  <2>7. CASE m = 0
    <3>2. 1..0 = {}
      OBVIOUS
    <3>1. L = {} /\ Cardinality(L) = 0
      <4>1. L = {}
        BY <2>7, <3>2
      <4> QED BY <4>1, FS_EmptySet
    <3>3. <<>> \in [1..0 -> L]
      BY <3>2
    <3>4. Increasing(<<>>)
      BY DEF Increasing
    <3> QED BY <2>5, <3>1, <3>3, <3>4
  <2>8. CASE m # 0
    <3> DEFINE M == L \ {m}
               c == Cardinality(M)
    <3>1. m - 1 \in Nat /\ m - 1 < m /\ M \in SUBSET (1..(m - 1))
      BY <2>3, <2>5, <2>8
    <3>2. PICK o \in [1..c -> M] : Increasing(o)
      BY <2>4, <3>1
    <3>3. CASE m \notin L
      <4>1. M = L
        BY <3>3
      <4> QED BY <2>5, <3>2, <4>1
    <3>4. CASE m \in L
      <4>1. c \in Nat /\ Cardinality(L) = c + 1
        <5>1. c \in Nat
          BY <3>1, IndicesFinite
        <5>2. c = Cardinality(L) - 1
          BY <2>6, <3>4, FS_RemoveElement
        <5> QED BY <2>6, <5>1, <5>2
      <4> HIDE DEF M, c
      <4> DEFINE p == [i \in 1..(c + 1) |-> IF i = c + 1 THEN m ELSE o[i]]
      <4>2. M \subseteq L /\ \A x \in M : x \in Nat /\ x < m
        <5>1. m \in Nat /\ L \subseteq 1..m
          BY <2>3
        <5> QED BY <5>1 DEF M
      <4>3. p \in [1..(c + 1) -> L]
        <5> SUFFICES ASSUME NEW i \in 1..(c + 1)
                     PROVE  (IF i = c + 1 THEN m ELSE o[i]) \in L
          OBVIOUS
        <5>1. CASE i = c + 1
          BY <3>4, <5>1
        <5>2. CASE i # c + 1
          <6>1. i \in 1..c
            BY <4>1, <5>2
          <6> QED BY <3>2, <4>2, <5>2, <6>1
        <5> QED BY <5>1, <5>2
      <4>4. Increasing(p)
        <5> SUFFICES ASSUME NEW i \in 1..(c + 1), NEW j \in 1..(c + 1), i < j
                     PROVE  p[i] < p[j]
          BY DEF Increasing
        <5>1. i \in 1..c /\ o[i] \in M /\ p[i] = o[i]
          BY <3>2, <4>1
        <5>2. CASE j = c + 1
          BY <4>2, <5>1, <5>2
        <5>3. CASE j # c + 1
          <6>1. j \in 1..c /\ p[j] = o[j]
            BY <4>1, <5>3
          <6> QED BY <3>2, <5>1, <6>1 DEF Increasing
        <5> QED BY <5>2, <5>3
      <4> QED BY <2>5, <4>1, <4>3, <4>4
    <3> QED BY <3>3, <3>4
  <2> QED BY <2>7, <2>8
<1>3. Good(n)
  BY <1>2
<1> QED BY <1>3

(* A list of servers, each at one place. *)
Distinct(list) ==
  list \in Seq(Server) /\ \A i, j \in 1..Len(list) : list[i] = list[j] => i = j

(* A list has elements of another, none of them gone. *)
Remain(w, list, gone) ==
  \A i \in 1..Len(w) : w[i] \notin gone /\ \E k \in 1..Len(list) : w[i] = list[k]

(* g_slist_remove: those who stay were in the list, each at one place as      *)
(* before.                                                                    *)
LEMMA WithoutProperties ==
  ASSUME NEW list, NEW gone, Distinct(list)
  PROVE  Distinct(Without(list, gone)) /\ Remain(Without(list, gone), list, gone)
<1> DEFINE kept  == {i \in 1..Len(list) : list[i] \notin gone}
           c     == Cardinality(kept)
           order == CHOOSE o \in [1..c -> kept] : \A i, j \in DOMAIN o : i < j => o[i] < o[j]
           w     == Without(list, gone)
<1>0. list \in Seq(Server) /\ \A i, j \in 1..Len(list) : list[i] = list[j] => i = j
  BY DEF Distinct
<1>1. Len(list) \in Nat /\ kept \in SUBSET (1..Len(list))
  BY <1>0
<1>2. c \in Nat
  BY <1>1, IndicesFinite
<1>3. \E o \in [1..c -> kept] : \A i, j \in DOMAIN o : i < j => o[i] < o[j]
  BY <1>1, Enumerated DEF Increasing
<1>4. order \in [1..c -> kept] /\ \A i, j \in DOMAIN order : i < j => order[i] < order[j]
  BY <1>3
<1>5. w = [i \in DOMAIN order |-> list[order[i]]]
  BY DEF Without
<1> HIDE DEF c, order
<1>6. \A i \in 1..c : order[i] \in 1..Len(list) /\ list[order[i]] \in Server /\ list[order[i]] \notin gone
  BY <1>0, <1>1, <1>4
<1>7. w \in [1..c -> Server] /\ \A i \in 1..c : w[i] = list[order[i]]
  BY <1>4, <1>5, <1>6
<1> HIDE DEF w
<1>8. w \in Seq(Server) /\ Len(w) = c
  BY <1>2, <1>7
<1>9. ASSUME NEW i \in 1..c, NEW j \in 1..c, w[i] = w[j] PROVE i = j
  <2>1. order[i] = order[j]
    BY <1>0, <1>6, <1>7, <1>9
  <2>2. order[i] \in Nat /\ (i < j => order[i] < order[j]) /\ (j < i => order[j] < order[i])
    BY <1>1, <1>4, <1>6
  <2> QED BY <1>2, <2>1, <2>2
<1>10. Distinct(w)
  BY <1>8, <1>9 DEF Distinct
<1>11. Remain(w, list, gone)
  BY <1>6, <1>7, <1>8 DEF Remain
<1> QED BY <1>10, <1>11 DEF w

-----------------------------------------------------------------------------
(* The inductive invariant. *)

(* A record is that of a session, or of an account without one. *)
Connected == \A s \in Server : record[s].connected <=> link[s] # "closed"

(* A session that ended has nothing in flight. *)
Ended == \A s \in Server : link[s] = "closed" => InFlight(s) = {}

(* The ping that a record holds is in flight, and as old as the record says. *)
Held(s, m) ==
  m.server = s /\ m.dest = Domain /\ m.id = record[s].ping_id /\ m.age = record[s].lag_sent

PingHeld ==
  \A s \in Server :
    /\ record[s].ping_id = NULL <=> record[s].lag_sent = NULL
    /\ record[s].ping_id # NULL => \E m \in flight : Held(s, m)

(* The id of a ping tells it from the others of its account. *)
UniqueIds == \A m, n \in flight : m.server = n.server /\ m.id = n.id => m = n

(* What is awaited with the id of a ping in flight is that ping. *)
Awaited ==
  \A p \in pings, m \in flight :
    m.server = p.server /\ m.id = p.id => m.dest = p.jid /\ m.age = p.age

(* One ping at a time is awaited of an entity. *)
OnePerJid == \A p, q \in pings : p.server = q.server /\ p.jid = q.jid => p = q

(* Ages stop at the oldest that is told apart. *)
Ages ==
  /\ \A m \in flight : m.age \in 0..Oldest(m.dest)
  /\ \A p \in pings : p.age \in 0..Oldest(p.jid)

(* No more are in flight than the bound, and the one of the timer. *)
Most(s) == IF record[s].lag_sent = NULL THEN MaxPings ELSE MaxPings + 1

Counted ==
  \A s \in Server : IsFiniteSet(InFlight(s)) /\ Cardinality(InFlight(s)) <= Most(s)

IInv ==
  /\ TypeOK /\ NothingOfFreedServers
  /\ Connected /\ Ended /\ PingHeld /\ UniqueIds
  /\ Awaited /\ OnePerJid /\ Ages /\ Counted

-----------------------------------------------------------------------------
(* Ids and records. *)

LEMMA OldType == Old \in Nat /\ Old > 2 /\ Long \in Nat /\ Long > 0 /\ 0 \in Age
BY LagAssumption DEF Old, Long, Age

LEMMA IdType == Cardinality(Entity) \in Nat /\ Id \subseteq Nat /\ NULL \notin Id /\ NULL \notin Age
<1>1. Cardinality(Entity) \in Nat
  BY EntityAssumption, FS_CardinalityType
<1> QED BY <1>1, NullAssumption, BoundAssumption, OldType DEF Id, Age

(* There are more ids than an account uses while it may send a ping: those in *)
(* flight, one for each entity, and that of the record.                       *)
LEMMA FreshId ==
  ASSUME IInv, NEW s \in Server, Cardinality(InFlight(s)) <= MaxPings
  PROVE  /\ NewId(s) \in Id
         /\ \A m \in InFlight(s) : m.id # NewId(s)
         /\ \A p \in pings : p.server = s => p.id # NewId(s)
         /\ record[s].ping_id # NewId(s)
<1> DEFINE Mine == {p \in pings : p.server = s}
           jid  == [p \in Mine |-> p.jid]
           sent == [m \in InFlight(s) |-> m.id]
           wait == [p \in Mine |-> p.id]
           A == {sent[m] : m \in InFlight(s)}
           B == {wait[p] : p \in Mine}
           U == (A \cup B) \cup {record[s].ping_id}
<1>1. IsFiniteSet(Mine) /\ Cardinality(Mine) <= Cardinality(Entity)
  <2>1. jid \in [Mine -> Entity]
    BY DEF IInv, TypeOK
  <2>2. \A p, q \in Mine : jid[p] = jid[q] => p = q
    BY DEF IInv, OnePerJid
  <2>3. jid \in Injection(Mine, Entity)
    BY <2>1, <2>2 DEF Injection, IsInjective
  <2> QED BY <2>3, EntityAssumption, FS_Injection
<1>2. IsFiniteSet(A) /\ Cardinality(A) <= MaxPings
  <2>1. IsFiniteSet(InFlight(s))
    BY DEF IInv, Counted
  <2>2. sent \in [InFlight(s) -> {sent[m] : m \in InFlight(s)}]
    OBVIOUS
  <2> HIDE DEF sent
  <2>3. IsFiniteSet(A) /\ Cardinality(A) <= Cardinality(InFlight(s))
    BY <2>1, <2>2, ImageCounted
  <2>4. Cardinality(A) \in Nat /\ Cardinality(InFlight(s)) \in Nat
    BY <2>1, <2>3, FS_CardinalityType
  <2> QED BY <2>3, <2>4, BoundAssumption
<1>3. IsFiniteSet(B) /\ Cardinality(B) <= Cardinality(Entity)
  <2>2. wait \in [Mine -> {wait[p] : p \in Mine}]
    OBVIOUS
  <2> HIDE DEF wait, Mine
  <2>3. IsFiniteSet(B) /\ Cardinality(B) <= Cardinality(Mine)
    BY <1>1, <2>2, ImageCounted
  <2>4. Cardinality(B) \in Nat /\ Cardinality(Mine) \in Nat
    BY <1>1, <2>3, FS_CardinalityType
  <2> QED BY <1>1, <2>3, <2>4, IdType
<1>4. IsFiniteSet(U) /\ Cardinality(U) <= MaxPings + Cardinality(Entity) + 1
  <2> HIDE DEF A, B
  <2>1. IsFiniteSet(A \cup B) /\ Cardinality(A \cup B) = Cardinality(A) + Cardinality(B) - Cardinality(A \cap B)
    BY <1>2, <1>3, FS_Union
  <2>2. IsFiniteSet(A \cap B)
    BY <1>2, FS_Intersection
  <2>3. Cardinality(A) \in Nat /\ Cardinality(B) \in Nat /\ Cardinality(A \cap B) \in Nat
    BY <1>2, <1>3, <2>2, FS_CardinalityType
  <2>4. IsFiniteSet(U) /\ Cardinality(U) <= Cardinality(A \cup B) + 1
    <3> DEFINE AB == A \cup B
    <3>1. IsFiniteSet(AB) /\ Cardinality(AB) \in Nat
      BY <2>1, FS_CardinalityType
    <3> HIDE DEF AB
    <3> DEFINE x  == record[s].ping_id
    <3> HIDE DEF x
    <3>3. /\ IsFiniteSet(AB \cup {x})
          /\ Cardinality(AB \cup {x}) = IF x \in AB THEN Cardinality(AB) ELSE Cardinality(AB) + 1
      BY <3>1, FS_AddElement, Zenon
    <3>2. IsFiniteSet(AB \cup {x}) /\ Cardinality(AB \cup {x}) <= Cardinality(AB) + 1
      BY <3>1, <3>3
    <3> QED BY <3>2 DEF AB, x
  <2>5. Cardinality(A \cup B) \in Nat /\ Cardinality(U) \in Nat
    BY <2>1, <2>4, FS_CardinalityType
  <2> QED BY <1>2, <1>3, <2>1, <2>3, <2>4, <2>5, IdType, BoundAssumption
<1>5. IsFiniteSet(Id) /\ Cardinality(Id) = MaxPings + 2 + Cardinality(Entity)
  <2>1. MaxPings + 2 + Cardinality(Entity) \in Nat /\ MaxPings + 2 + Cardinality(Entity) >= 1
    BY IdType, BoundAssumption
  <2> QED BY <2>1, FS_Interval DEF Id
<1>6. \E id \in Id : id \notin U
  <2> HIDE DEF U
  <2>1. SUFFICES ASSUME Id \in SUBSET U PROVE FALSE
    OBVIOUS
  <2>2. Cardinality(Id) <= Cardinality(U)
    BY <1>4, <2>1, FS_Subset
  <2>3. Cardinality(U) \in Nat
    BY <1>4, FS_CardinalityType
  <2> QED BY <1>4, <1>5, <2>2, <2>3, IdType, BoundAssumption
<1>7. PICK id \in Id : id \notin U
  BY <1>6
<1>8. /\ \A m \in InFlight(s) : m.id # id
      /\ \A p \in pings : p.server = s => p.id # id
      /\ record[s].ping_id # id
  BY <1>7
<1> QED BY <1>8 DEF NewId

(* Records stay records, whichever fields change. *)
LEMMA NewRecordType ==
  ASSUME NEW c \in BOOLEAN
  PROVE  /\ NewRecord(c) \in Record /\ NewRecord(c).connected = c
         /\ NewRecord(c).ping_id = NULL /\ NewRecord(c).lag_sent = NULL
BY OldType DEF NewRecord, Record

LEMMA AskedType ==
  ASSUME NEW s \in Server, NEW r \in Record, NewId(s) \in Id
  PROVE  /\ Asked(s, r) \in Record /\ Asked(s, r).connected = r.connected
         /\ Asked(s, r).ping_id = NewId(s) /\ Asked(s, r).lag_sent = 0
<1> DEFINE a == [r EXCEPT !.ping_id = NewId(s)]
           b == [a EXCEPT !.lag_sent = 0]
           c == [b EXCEPT !.lag_last_check = 0]
<1>1. a \in Record /\ a.connected = r.connected /\ a.ping_id = NewId(s)
  BY DEF Record
<1> HIDE DEF a
<1>2. b \in Record /\ b.connected = a.connected /\ b.ping_id = a.ping_id /\ b.lag_sent = 0
  BY <1>1, OldType DEF Record
<1> HIDE DEF b
<1>3. 0 \in 0..Long
  BY OldType
<1>4. c \in Record /\ c.connected = b.connected /\ c.ping_id = b.ping_id /\ c.lag_sent = b.lag_sent
  BY <1>2, <1>3 DEF Record
<1>5. Asked(s, r) = c
  BY DEF Asked, a, b
<1> QED BY <1>1, <1>2, <1>4, <1>5

LEMMA AnsweredType ==
  ASSUME NEW r \in Record
  PROVE  /\ Answered(r) \in Record /\ Answered(r).connected = r.connected
         /\ Answered(r).ping_id = NULL /\ Answered(r).lag_sent = NULL
<1> DEFINE a == [r EXCEPT !.ping_id = NULL]
           b == [a EXCEPT !.lag_sent = NULL]
<1>1. a \in Record /\ a.connected = r.connected /\ a.ping_id = NULL
  BY DEF Record
<1> HIDE DEF a
<1>2. b \in Record /\ b.connected = a.connected /\ b.ping_id = a.ping_id /\ b.lag_sent = NULL
  BY <1>1 DEF Record
<1>3. Answered(r) = b
  BY DEF Answered, a
<1> QED BY <1>1, <1>2, <1>3

-----------------------------------------------------------------------------
(* Steps *)

(* The servers of the list, each once. *)
LEMMA SupportedGood ==
  ASSUME IInv
  PROVE  /\ supported \in Seq(Server)
         /\ \A i \in 1..Len(supported) : supported[i] \in Server /\ record[supported[i]].connected
         /\ \A i, j \in 1..Len(supported) : supported[i] = supported[j] => i = j
BY DEF IInv, TypeOK, NothingOfFreedServers

LEMMA InitInv == PingInit => IInv
<1> SUFFICES ASSUME PingInit PROVE IInv
  OBVIOUS
<1> USE DEF PingInit
<1>1. \A s \in Server : /\ NewRecord(FALSE) \in Record /\ record[s].connected = FALSE
                        /\ record[s].ping_id = NULL /\ record[s].lag_sent = NULL
  BY NewRecordType
<1>2. TypeOK
  <2>1. record \in [Server -> Record] /\ link \in [Server -> {"up", "dead", "closed"}]
    BY <1>1
  <2>2. supported \in Seq(Server)
    OBVIOUS
  <2> QED BY <2>1, <2>2 DEF TypeOK
<1>3. NothingOfFreedServers
  BY DEF NothingOfFreedServers
<1>4. Connected /\ Ended
  BY <1>1 DEF Connected, Ended, InFlight
<1>5. PingHeld
  BY <1>1 DEF PingHeld
<1>6. UniqueIds /\ Awaited /\ OnePerJid /\ Ages
  BY DEF UniqueIds, Awaited, OnePerJid, Ages
<1>7. Counted
  <2>1. \A s \in Server : InFlight(s) = {}
    BY DEF InFlight
  <2>2. IsFiniteSet({}) /\ Cardinality({}) = 0
    BY FS_EmptySet
  <2>3. \A s \in Server : 0 <= Most(s)
    <3>1. MaxPings \in Nat
      BY BoundAssumption
    <3> HIDE DEF PingInit
    <3> QED BY <3>1 DEF Most
  <2> QED BY <2>1, <2>2, <2>3 DEF Counted
<1> QED BY <1>2, <1>3, <1>4, <1>5, <1>6, <1>7 DEF IInv

(* What a step does to one record. *)
LEMMA RecordSet ==
  ASSUME NEW s \in Server, NEW r \in Record, TypeOK, record' = [record EXCEPT ![s] = r]
  PROVE  /\ record' \in [Server -> Record] /\ record'[s] = r
         /\ \A t \in Server : t # s => record'[t] = record[t]
BY DEF TypeOK

LEMMA ConnectInv ==
  ASSUME IInv, NEW s \in Server, Connect(s)
  PROVE  IInv'
<1> USE DEF Connect, IInv
<1>1. /\ record' \in [Server -> Record] /\ record'[s] = NewRecord(TRUE)
      /\ \A t \in Server : t # s => record'[t] = record[t]
  BY NewRecordType, RecordSet
<1>2. /\ record'[s].connected /\ record'[s].ping_id = NULL /\ record'[s].lag_sent = NULL
  BY <1>1, NewRecordType
<1>3. \A t \in Server : InFlight(t)' = InFlight(t)
  BY DEF InFlight
<1>4. ~record[s].connected /\ InFlight(s) = {} /\ link'[s] = "up"
  BY DEF Connected, Ended, TypeOK
<1>5. \A t \in Server : t # s => link'[t] = link[t]
  BY DEF TypeOK
<1>6. TypeOK'
  BY <1>1 DEF TypeOK
<1>7. NothingOfFreedServers'
  <2>1. \A i \in 1..Len(supported) : supported[i] \in Server
    BY DEF TypeOK
  <2>2. \A p \in pings : p.server \in Server
    BY DEF TypeOK
  <2> QED BY <1>1, <1>2, <2>1, <2>2 DEF NothingOfFreedServers
<1>8. Connected'
  BY <1>1, <1>2, <1>4, <1>5 DEF Connected
<1>9. Ended'
  BY <1>3, <1>4, <1>5 DEF Ended
<1>10. PingHeld'
  <2> SUFFICES ASSUME NEW t \in Server
               PROVE  /\ record'[t].ping_id = NULL <=> record'[t].lag_sent = NULL
                      /\ record'[t].ping_id # NULL => \E m \in flight' : Held(t, m)'
    BY DEF PingHeld
  <2>1. CASE t = s
    BY <1>2, <2>1
  <2>2. CASE t # s
    BY <1>1, <2>2 DEF PingHeld, Held
  <2> QED BY <2>1, <2>2
<1>11. UniqueIds' /\ Awaited' /\ OnePerJid' /\ Ages'
  BY DEF UniqueIds, Awaited, OnePerJid, Ages
<1>12. Counted'
  <2> SUFFICES ASSUME NEW t \in Server
               PROVE  IsFiniteSet(InFlight(t)') /\ Cardinality(InFlight(t)') <= Most(t)'
    BY DEF Counted
  <2>1. CASE t = s
    BY <1>2, <1>3, <1>4, <2>1, BoundAssumption, FS_EmptySet DEF Most
  <2>2. CASE t # s
    BY <1>1, <1>3, <2>2 DEF Counted, Most
  <2> QED BY <2>1, <2>2
<1> QED BY <1>6, <1>7, <1>8, <1>9, <1>10, <1>11, <1>12

LEMMA ServerFeaturesInv ==
  ASSUME IInv, NEW s \in Server, sig_server_features(s)
  PROVE  IInv'
<1> USE DEF sig_server_features, IInv
<1>1. record[s].connected
  BY DEF Connected
<1>2. supported' \in Seq(Server) /\ NothingOfFreedServers'
  <2>1. CASE Supported(s)
    BY <2>1 DEF NothingOfFreedServers, TypeOK
  <2>2. CASE ~Supported(s)
    <3>1. supported' = <<s>> \o supported /\ supported \in Seq(Server)
      BY <2>2 DEF TypeOK
    <3>2. supported' \in Seq(Server) /\ Len(supported') = Len(supported) + 1
      BY <3>1
    <3>3. supported'[1] = s /\ \A i \in 1..Len(supported') : i > 1 => i - 1 \in 1..Len(supported) /\ supported'[i] = supported[i - 1]
      BY <3>1
    <3>4. \A i \in 1..Len(supported') : record[supported'[i]].connected
      <4> SUFFICES ASSUME NEW i \in 1..Len(supported')
                   PROVE  record[supported'[i]].connected
        OBVIOUS
      <4>1. CASE i = 1
        BY <1>1, <3>3, <4>1
      <4>2. CASE i # 1
        <5>1. i - 1 \in 1..Len(supported) /\ supported'[i] = supported[i - 1]
          BY <3>2, <3>3, <4>2
        <5> QED BY <5>1, SupportedGood
      <4> QED BY <4>1, <4>2
    <3>5. \A i, j \in 1..Len(supported') : supported'[i] = supported'[j] => i = j
      <4> SUFFICES ASSUME NEW i \in 1..Len(supported'), NEW j \in 1..Len(supported'),
                          supported'[i] = supported'[j], i < j
                   PROVE  FALSE
        BY <3>2
      <4>1. j > 1
        BY <3>2
      <4>2. CASE i = 1
        BY <2>2, <3>3, <4>1, <4>2 DEF Supported
      <4>3. CASE i > 1
        <5>1. i - 1 = j - 1
          BY <3>3, <4>1, <4>3 DEF NothingOfFreedServers
        <5> QED BY <5>1, <3>2
      <4> QED BY <4>2, <4>3, <3>2
    <3> QED BY <3>2, <3>4, <3>5 DEF NothingOfFreedServers
  <2> QED BY <2>1, <2>2
<1>3. \A t \in Server : InFlight(t)' = InFlight(t) /\ Most(t)' = Most(t)
  BY DEF InFlight, Most
<1>4. TypeOK'
  BY <1>2 DEF TypeOK
<1>5. Connected' /\ PingHeld' /\ UniqueIds' /\ Awaited' /\ OnePerJid' /\ Ages'
  BY DEF Connected, PingHeld, Held, UniqueIds, Awaited, OnePerJid, Ages
<1>6. Ended' /\ Counted'
  BY <1>3 DEF Ended, Counted
<1> QED BY <1>2, <1>4, <1>5, <1>6

LEMMA LinkDiesInv ==
  ASSUME IInv, NEW s \in Server, LinkDies(s)
  PROVE  IInv'
<1> USE DEF LinkDies, IInv
<1>1. link'[s] = "dead" /\ link' \in [Server -> {"up", "dead", "closed"}] /\ \A t \in Server : t # s => link'[t] = link[t]
  BY DEF TypeOK
<1>2. \A t \in Server : link'[t] = "closed" <=> link[t] = "closed"
  BY <1>1
<1>3. \A t \in Server : InFlight(t)' = InFlight(t) /\ Most(t)' = Most(t)
  BY DEF InFlight, Most
<1>4. TypeOK'
  BY <1>1 DEF TypeOK
<1>5. NothingOfFreedServers' /\ PingHeld' /\ UniqueIds' /\ Awaited' /\ OnePerJid' /\ Ages'
  BY DEF NothingOfFreedServers, PingHeld, Held, UniqueIds, Awaited, OnePerJid, Ages
<1>6. Connected' /\ Ended' /\ Counted'
  BY <1>2, <1>3 DEF Connected, Ended, Counted
<1> QED BY <1>4, <1>5, <1>6

LEMMA DisconnectedInv ==
  ASSUME IInv, NEW s \in Server, Disconnected(s)
  PROVE  IInv'
<1> USE DEF Disconnected, IInv
<1>1. /\ record' \in [Server -> Record] /\ record'[s] = NewRecord(FALSE)
      /\ \A t \in Server : t # s => record'[t] = record[t]
  BY NewRecordType, RecordSet
<1>2. /\ ~record'[s].connected /\ record'[s].ping_id = NULL /\ record'[s].lag_sent = NULL
  BY <1>1, NewRecordType
<1>3. InFlight(s)' = {} /\ \A t \in Server : t # s => InFlight(t)' = InFlight(t)
  BY DEF InFlight
<1>4. link'[s] = "closed" /\ link' \in [Server -> {"up", "dead", "closed"}] /\ \A t \in Server : t # s => link'[t] = link[t]
  BY DEF TypeOK
<1>5. /\ supported' \in Seq(Server)
      /\ \A i, j \in 1..Len(supported') : supported'[i] = supported'[j] => i = j
      /\ \A i \in 1..Len(supported') : supported'[i] # s /\ \E k \in 1..Len(supported) : supported'[i] = supported[k]
  <2>1. supported' = Without(supported, {s})
    BY DEF Cleaned
  <2>2. Distinct(supported)
    BY SupportedGood DEF Distinct
  <2>3. Distinct(supported') /\ Remain(supported', supported, {s})
    BY <2>1, <2>2, WithoutProperties
  <2> QED BY <2>3 DEF Distinct, Remain
<1>6. \A p \in pings' : p \in pings /\ p.server # s
  BY DEF Cleaned
<1>7. \A m \in flight' : m \in flight /\ m.server # s
  BY DEF InFlight
<1>8. TypeOK'
  BY <1>1, <1>4, <1>5, <1>6, <1>7 DEF TypeOK
<1>9. NothingOfFreedServers'
  <2>1. \A i \in 1..Len(supported') : record'[supported'[i]].connected
    <3> SUFFICES ASSUME NEW i \in 1..Len(supported')
                 PROVE  record'[supported'[i]].connected
      OBVIOUS
    <3>1. PICK k \in 1..Len(supported) : supported'[i] = supported[k]
      BY <1>5
    <3>2. supported'[i] # s
      BY <1>5
    <3>3. supported[k] \in Server /\ record[supported[k]].connected
      BY SupportedGood
    <3> QED BY <1>1, <3>1, <3>2, <3>3
  <2>2. \A p \in pings' : record'[p.server].connected
    <3>1. \A p \in pings : p.server \in Server /\ record[p.server].connected
      BY DEF NothingOfFreedServers, TypeOK
    <3> QED BY <1>1, <1>6, <3>1
  <2> QED BY <1>5, <2>1, <2>2 DEF NothingOfFreedServers
<1>10. Connected' /\ Ended'
  BY <1>1, <1>2, <1>3, <1>4 DEF Connected, Ended
<1>11. PingHeld'
  <2> SUFFICES ASSUME NEW t \in Server
               PROVE  /\ record'[t].ping_id = NULL <=> record'[t].lag_sent = NULL
                      /\ record'[t].ping_id # NULL => \E m \in flight' : Held(t, m)'
    BY DEF PingHeld
  <2>1. CASE t = s
    BY <1>2, <2>1
  <2>2. CASE t # s
    BY <1>1, <2>2 DEF PingHeld, Held, InFlight
  <2> QED BY <2>1, <2>2
<1>12. UniqueIds' /\ Awaited' /\ OnePerJid' /\ Ages'
  BY <1>6, <1>7 DEF UniqueIds, Awaited, OnePerJid, Ages
<1>13. Counted'
  <2> SUFFICES ASSUME NEW t \in Server
               PROVE  IsFiniteSet(InFlight(t)') /\ Cardinality(InFlight(t)') <= Most(t)'
    BY DEF Counted
  <2>1. CASE t = s
    BY <1>2, <1>3, <2>1, BoundAssumption, FS_EmptySet DEF Most
  <2>2. CASE t # s
    BY <1>1, <1>3, <2>2 DEF Counted, Most
  <2> QED BY <2>1, <2>2
<1> QED BY <1>8, <1>9, <1>10, <1>11, <1>12, <1>13

(* A ping that is sent: its fields. *)
LEMMA SentFields ==
  ASSUME NEW s, NEW dest, NEW id
  PROVE  /\ Sent(s, dest, id).server = s /\ Sent(s, dest, id).dest = dest
         /\ Sent(s, dest, id).id = id /\ Sent(s, dest, id).age = 0
BY DEF Sent

LEMMA SentType ==
  ASSUME NEW s \in Server, NEW dest \in Entity \cup {Domain}, NEW id \in Id
  PROVE  Sent(s, dest, id) \in [server : Server, dest : Entity \cup {Domain}, id : Id, age : Age]
BY OldType DEF Sent

LEMMA OldestType ==
  ASSUME NEW dest
  PROVE  Oldest(dest) \in Nat /\ Oldest(dest) > 0 /\ Oldest(dest) <= Old /\ 0 \in 0..Oldest(dest)
BY OldType DEF Oldest

LEMMA PingInv ==
  ASSUME IInv, NEW s \in Server, NEW dest \in Pinged[s], cmd_ping(s, dest)
  PROVE  IInv'
<1> USE DEF cmd_ping, IInv
<1> DEFINE id == NewId(s)
<1>0. IsFiniteSet(InFlight(s)) /\ Cardinality(InFlight(s)) \in Nat /\ Cardinality(InFlight(s)) < MaxPings
  BY FS_CardinalityType DEF Counted
<1>1. /\ id \in Id
      /\ \A m \in InFlight(s) : m.id # id
      /\ \A p \in pings : p.server = s => p.id # id
      /\ record[s].ping_id # id
  BY <1>0, FreshId, BoundAssumption
<1>2. dest \in Entity \cup {Domain}
  BY BoundAssumption DEF Domain
<1>3. PICK n \in [server : Server, dest : Entity \cup {Domain}, id : Id, age : Age] :
        n = Sent(s, dest, id)
  BY <1>1, <1>2, SentType
<1>4. /\ n.server = s /\ n.dest = dest /\ n.id = id /\ n.age = 0
      /\ flight' = flight \cup {n}
  BY <1>3, SentFields
<1>5. InFlight(s)' = InFlight(s) \cup {n} /\ \A t \in Server : t # s => InFlight(t)' = InFlight(t)
  BY <1>3, <1>4 DEF InFlight
<1>6. link[s] # "closed" /\ record[s].connected
  BY DEF Connected
<1>7. UniqueIds'
  BY <1>1, <1>3, <1>4 DEF UniqueIds, InFlight
<1>8. Ended'
  BY <1>5, <1>6 DEF Ended
<1>9. \A m \in flight' : m.age \in 0..Oldest(m.dest)
  BY <1>3, <1>4, OldestType DEF Ages
<1>10. CASE dest = Domain
  <2>1. record' = [record EXCEPT ![s] = Asked(s, record[s])] /\ pings' = pings
    BY <1>10
  <2>2. /\ Asked(s, record[s]) \in Record /\ Asked(s, record[s]).connected = record[s].connected
        /\ Asked(s, record[s]).ping_id = id /\ Asked(s, record[s]).lag_sent = 0
    BY <1>1, AskedType DEF TypeOK
  <2>3. /\ record' \in [Server -> Record] /\ record'[s] = Asked(s, record[s])
        /\ \A t \in Server : t # s => record'[t] = record[t]
    BY <2>1, <2>2, RecordSet
  <2> HIDE DEF id
  <2>4. TypeOK'
    BY <1>3, <1>4, <2>1, <2>3 DEF TypeOK
  <2>5. NothingOfFreedServers'
    <3>1. \A t \in Server : record'[t].connected = record[t].connected
      BY <2>2, <2>3
    <3>2. /\ \A i \in 1..Len(supported) : supported[i] \in Server
          /\ \A p \in pings : p.server \in Server
      BY DEF TypeOK
    <3> QED BY <2>1, <3>1, <3>2 DEF NothingOfFreedServers
  <2>6. Connected'
    BY <1>6, <2>2, <2>3 DEF Connected
  <2>7. PingHeld'
    <3> SUFFICES ASSUME NEW t \in Server
                 PROVE  /\ record'[t].ping_id = NULL <=> record'[t].lag_sent = NULL
                        /\ record'[t].ping_id # NULL => \E m \in flight' : Held(t, m)'
      BY DEF PingHeld
    <3>1. CASE t = s
      <4>1. record'[t].ping_id # NULL /\ record'[t].lag_sent # NULL
        BY <1>1, <2>2, <2>3, <3>1, IdType, NullAssumption
      <4>2. n \in flight' /\ Held(t, n)'
        BY <1>4, <1>10, <2>2, <2>3, <3>1 DEF Held
      <4> QED BY <4>1, <4>2
    <3>2. CASE t # s
      BY <1>4, <2>3, <3>2 DEF PingHeld, Held
    <3> QED BY <3>1, <3>2
  <2>8. Awaited'
    BY <1>1, <1>3, <1>4, <2>1 DEF Awaited
  <2>9. OnePerJid' /\ Ages'
    BY <1>9, <2>1 DEF OnePerJid, Ages
  <2>10. Counted'
    <3> SUFFICES ASSUME NEW t \in Server
                 PROVE  IsFiniteSet(InFlight(t)') /\ Cardinality(InFlight(t)') <= Most(t)'
      BY DEF Counted
    <3>0. Most(t)' \in Nat /\ MaxPings <= Most(t)'
      BY BoundAssumption DEF Most
    <3>1. CASE t = s
      <4>1. /\ IsFiniteSet(InFlight(s) \cup {n})
            /\ Cardinality(InFlight(s) \cup {n}) =
                 IF n \in InFlight(s) THEN Cardinality(InFlight(s)) ELSE Cardinality(InFlight(s)) + 1
        BY <1>0, FS_AddElement
      <4>2. Cardinality(InFlight(s) \cup {n}) \in Nat /\ Cardinality(InFlight(s) \cup {n}) <= MaxPings
        BY <1>0, <4>1, BoundAssumption
      <4>3. InFlight(t)' = InFlight(s) \cup {n}
        BY <1>5, <3>1
      <4> QED BY <3>0, <4>1, <4>2, <4>3, BoundAssumption
    <3>2. CASE t # s
      BY <1>5, <2>3, <3>2 DEF Counted, Most
    <3> QED BY <3>1, <3>2
  <2> QED BY <1>7, <1>8, <2>4, <2>5, <2>6, <2>7, <2>8, <2>9, <2>10
<1>11. CASE dest # Domain
  <2> DEFINE a == [server |-> s, jid |-> dest, id |-> id, age |-> 0]
  <2>1. record' = record /\ pings' = {p \in pings : p.server # s \/ p.jid # dest} \cup {a}
    BY <1>11 DEF datalist_add
  <2>2. /\ a.server = s /\ a.jid = dest /\ a.id = id /\ a.age = 0
        /\ a \in [server : Server, jid : Entity, id : Id, age : Age]
    BY <1>1, <1>2, <1>11, OldType
  <2> HIDE DEF a, id
  <2>3. \A p \in pings' : p = a \/ (p \in pings /\ (p.server # s \/ p.jid # dest))
    BY <2>1
  <2>4. TypeOK'
    BY <1>3, <1>4, <2>1, <2>2 DEF TypeOK
  <2>5. NothingOfFreedServers'
    <3>1. record[a.server].connected
      BY <1>6, <2>2
    <3> QED BY <2>1, <2>3, <3>1 DEF NothingOfFreedServers
  <2>6. Connected'
    BY <2>1 DEF Connected
  <2>7. PingHeld'
    BY <1>4, <2>1 DEF PingHeld, Held
  <2>8. Awaited'
    <3> SUFFICES ASSUME NEW p \in pings', NEW m \in flight', m.server = p.server, m.id = p.id
                 PROVE  m.dest = p.jid /\ m.age = p.age
      BY DEF Awaited
    <3>1. CASE p = a
      <4>1. m \notin flight
        BY <1>1, <2>2, <3>1 DEF InFlight
      <4> QED BY <1>3, <1>4, <2>2, <3>1, <4>1
    <3>2. CASE p # a
      <4>1. p \in pings
        BY <2>3, <3>2
      <4>2. m \in flight
        BY <1>1, <1>3, <1>4, <4>1
      <4> QED BY <4>1, <4>2 DEF Awaited
    <3> QED BY <3>1, <3>2
  <2>9. OnePerJid'
    BY <2>2, <2>3 DEF OnePerJid
  <2>10. Ages'
    BY <1>9, <2>2, <2>3, OldestType DEF Ages
  <2>11. Counted'
    <3> SUFFICES ASSUME NEW t \in Server
                 PROVE  IsFiniteSet(InFlight(t)') /\ Cardinality(InFlight(t)') <= Most(t)'
      BY DEF Counted
    <3>0. Most(t)' \in Nat /\ MaxPings <= Most(t)'
      BY BoundAssumption DEF Most
    <3>1. CASE t = s
      <4>1. /\ IsFiniteSet(InFlight(s) \cup {n})
            /\ Cardinality(InFlight(s) \cup {n}) =
                 IF n \in InFlight(s) THEN Cardinality(InFlight(s)) ELSE Cardinality(InFlight(s)) + 1
        BY <1>0, FS_AddElement
      <4>2. Cardinality(InFlight(s) \cup {n}) \in Nat /\ Cardinality(InFlight(s) \cup {n}) <= MaxPings
        BY <1>0, <4>1, BoundAssumption
      <4>3. InFlight(t)' = InFlight(s) \cup {n}
        BY <1>5, <3>1
      <4> QED BY <3>0, <4>1, <4>2, <4>3, BoundAssumption
    <3>2. CASE t # s
      BY <1>5, <2>1, <3>2 DEF Counted, Most
    <3> QED BY <3>1, <3>2
  <2> QED BY <1>7, <1>8, <2>4, <2>5, <2>6, <2>7, <2>8, <2>9, <2>10, <2>11
<1> QED BY <1>10, <1>11

LEMMA AnswerInv ==
  ASSUME IInv, NEW m \in flight, Answer(m)
  PROVE  IInv'
<1> USE DEF IInv
<1> DEFINE s == m.server
<1>1. /\ s \in Server /\ m.id \in Id /\ m.age \in Age
      /\ link[s] = "up" /\ flight' = flight \ {m} /\ supported' = supported /\ pings' = pings /\ link' = link
  BY DEF Answer, TypeOK
<1>2. Pong(m)
  BY DEF Answer
<1>3. InFlight(s)' = InFlight(s) \ {m} /\ \A t \in Server : t # s => InFlight(t)' = InFlight(t)
  BY <1>1 DEF InFlight
<1>4. m \in InFlight(s) /\ IsFiniteSet(InFlight(s)) /\ Cardinality(InFlight(s)) \in Nat
  BY <1>1, FS_CardinalityType DEF InFlight, Counted
<1>5. IsFiniteSet(InFlight(s) \ {m}) /\ Cardinality(InFlight(s) \ {m}) = Cardinality(InFlight(s)) - 1
  BY <1>4, FS_RemoveElement
<1>6. UniqueIds' /\ Awaited' /\ OnePerJid' /\ Ages' /\ Ended'
  <2>1. UniqueIds' /\ Awaited' /\ OnePerJid' /\ Ages'
    BY <1>1 DEF UniqueIds, Awaited, OnePerJid, Ages
  <2>2. Ended'
    BY <1>1, <1>3 DEF Ended
  <2> QED BY <2>1, <2>2
<1>7. CASE m.dest = Domain /\ record[s].ping_id = m.id
  <2>1. record' = [record EXCEPT ![s] = Answered(record[s])] /\ report' = [measured |-> record[s].lag_sent, real |-> m.age]
    BY <1>2, <1>7 DEF Pong
  <2>2. /\ Answered(record[s]) \in Record /\ Answered(record[s]).connected = record[s].connected
        /\ Answered(record[s]).ping_id = NULL /\ Answered(record[s]).lag_sent = NULL
    BY <1>1, AnsweredType DEF TypeOK
  <2>3. /\ record' \in [Server -> Record] /\ record'[s] = Answered(record[s])
        /\ \A t \in Server : t # s => record'[t] = record[t]
    BY <1>1, <2>1, <2>2, RecordSet
  <2>4. record[s].lag_sent \in Age
    <3>1. record[s].lag_sent # NULL
      BY <1>1, <1>7, IdType DEF PingHeld
    <3> QED BY <1>1, <3>1 DEF TypeOK, Record
  <2>5. TypeOK'
    <3>1. report' \in [measured : Age, real : Age]
      BY <1>1, <2>1, <2>4
    <3> QED BY <1>1, <2>3, <3>1 DEF TypeOK
  <2>6. NothingOfFreedServers' /\ Connected'
    <3>1. \A t \in Server : record'[t].connected = record[t].connected
      BY <2>2, <2>3
    <3>2. /\ \A i \in 1..Len(supported) : supported[i] \in Server
          /\ \A p \in pings : p.server \in Server
      BY DEF TypeOK
    <3> QED BY <1>1, <3>1, <3>2 DEF NothingOfFreedServers, Connected
  <2>7. PingHeld'
    <3> SUFFICES ASSUME NEW t \in Server
                 PROVE  /\ record'[t].ping_id = NULL <=> record'[t].lag_sent = NULL
                        /\ record'[t].ping_id # NULL => \E n \in flight' : Held(t, n)'
      BY DEF PingHeld
    <3>1. CASE t = s
      BY <2>2, <2>3, <3>1
    <3>2. CASE t # s
      BY <1>1, <2>3, <3>2 DEF PingHeld, Held
    <3> QED BY <3>1, <3>2
  <2>8. Counted'
    <3> SUFFICES ASSUME NEW t \in Server
                 PROVE  IsFiniteSet(InFlight(t)') /\ Cardinality(InFlight(t)') <= Most(t)'
      BY DEF Counted
    <3>1. CASE t = s
      <4>1. Cardinality(InFlight(s)) <= MaxPings + 1
        <5>1. Most(s) \in Nat /\ Most(s) <= MaxPings + 1
          BY BoundAssumption DEF Most
        <5> QED BY <1>1, <1>4, <5>1, BoundAssumption DEF Counted
      <4>2. Most(s)' = MaxPings
        BY <2>2, <2>3 DEF Most
      <4> QED BY <1>3, <1>4, <1>5, <3>1, <4>1, <4>2, BoundAssumption
    <3>2. CASE t # s
      BY <1>3, <2>3, <3>2 DEF Counted, Most
    <3> QED BY <3>1, <3>2
  <2> QED BY <1>6, <2>5, <2>6, <2>7, <2>8
<1>8. CASE ~(m.dest = Domain /\ record[s].ping_id = m.id)
  <2> DEFINE awaited == {p \in pings : p.server = s /\ p.jid = m.dest /\ p.id = m.id}
             c == CHOOSE p \in awaited : TRUE
  <2>1. record' = record /\ report' = IF awaited = {} THEN NULL ELSE [measured |-> c.age, real |-> m.age]
    BY <1>2, <1>8 DEF Pong
  <2>2. awaited # {} => c.age \in Age
    BY DEF TypeOK
  <2>3. report' = NULL \/ report' \in [measured : Age, real : Age]
    BY <1>1, <2>1, <2>2
  <2>4. TypeOK'
    BY <1>1, <2>1, <2>3 DEF TypeOK
  <2>5. NothingOfFreedServers' /\ Connected'
    BY <1>1, <2>1 DEF NothingOfFreedServers, Connected
  <2>6. PingHeld'
    <3>1. ~Held(s, m)
      BY <1>8 DEF Held
    <3>2. \A t \in Server : t # s => ~Held(t, m)
      BY DEF Held
    <3>3. \A t \in Server : ~Held(t, m)
      BY <3>1, <3>2
    <3> QED BY <1>1, <2>1, <3>3 DEF PingHeld, Held
  <2>7. Counted'
    <3> SUFFICES ASSUME NEW t \in Server
                 PROVE  IsFiniteSet(InFlight(t)') /\ Cardinality(InFlight(t)') <= Most(t)'
      BY DEF Counted
    <3>1. Most(t)' = Most(t) /\ Most(t) \in Nat
      BY <2>1, BoundAssumption DEF Most
    <3>2. CASE t = s
      BY <1>3, <1>4, <1>5, <3>1, <3>2 DEF Counted
    <3>3. CASE t # s
      BY <1>3, <3>1, <3>3 DEF Counted
    <3> QED BY <3>2, <3>3
  <2> QED BY <1>6, <2>4, <2>5, <2>6, <2>7
<1> QED BY <1>7, <1>8

(* The walk of the timer, as far as server n of the list. *)
Met(n)  == {supported[i] : i \in 1..n}
Gone(n) == {s \in Met(n) : Late(record[s])}
Asks(n) == {s \in Met(n) : Due(record[s]) /\ record[s].connected}

Walk(n) ==
  /\ Cleaned(Gone(n))
  /\ link' = [s \in Server |-> IF s \in Gone(n) THEN "closed" ELSE link[s]]
  /\ record' = [s \in Server |-> IF s \in Gone(n) THEN NewRecord(FALSE)
                                 ELSE IF s \in Asks(n) THEN Asked(s, record[s]) ELSE record[s]]
  /\ flight' = {m \in flight : m.server \notin Gone(n)}
               \cup {Sent(s, Domain, NewId(s)) : s \in Asks(n)}
  /\ report' = NULL

LEMMA CheckPingInv ==
  ASSUME IInv, check_ping_func
  PROVE  IInv'
<1> USE DEF IInv
<1>1. PICK k \in 0..Len(supported) : Walk(k)
  BY DEF check_ping_func, Walk, Met, Gone, Asks
<1>2. Gone(k) \subseteq Server /\ Asks(k) \subseteq Server /\ Asks(k) \cap Gone(k) = {}
  <2>1. Met(k) \subseteq Server
    <3>1. Len(supported) \in Nat
      BY SupportedGood
    <3>2. \A i \in 1..k : i \in 1..Len(supported)
      BY <3>1
    <3> QED BY <3>2, SupportedGood DEF Met
  <2> QED BY <2>1 DEF Gone, Asks, Late, Due, Waiting
<1>3. PICK gone \in SUBSET Server : gone = Gone(k)
  BY <1>2
<1>4. PICK due \in SUBSET Server : due = Asks(k)
  BY <1>2
<1>5. due \cap gone = {} /\ \A s \in due : record[s].connected /\ record[s].lag_sent = NULL
  BY <1>2, <1>3, <1>4 DEF Asks, Due, Waiting
<1>6. PICK id \in [Server -> {NewId(s) : s \in Server}] : \A s \in Server : id[s] = NewId(s)
  <2>1. [s \in Server |-> NewId(s)] \in [Server -> {NewId(s) : s \in Server}]
    OBVIOUS
  <2> QED BY <2>1
<1>7. \A s \in due :
        /\ id[s] \in Id
        /\ \A m \in InFlight(s) : m.id # id[s]
        /\ \A p \in pings : p.server = s => p.id # id[s]
        /\ record[s].ping_id # id[s]
  <2> SUFFICES ASSUME NEW s \in due
               PROVE  /\ id[s] \in Id
                      /\ \A m \in InFlight(s) : m.id # id[s]
                      /\ \A p \in pings : p.server = s => p.id # id[s]
                      /\ record[s].ping_id # id[s]
    OBVIOUS
  <2>1. s \in Server /\ id[s] = NewId(s) /\ Cardinality(InFlight(s)) <= MaxPings
    BY <1>5, <1>6 DEF Counted, Most
  <2> QED BY <2>1, FreshId
<1>8. PICK sent \in [due -> {Sent(s, Domain, id[s]) : s \in due}] :
        \A s \in due : sent[s] = Sent(s, Domain, id[s])
  <2>1. [s \in due |-> Sent(s, Domain, id[s])] \in [due -> {Sent(s, Domain, id[s]) : s \in due}]
    OBVIOUS
  <2> QED BY <2>1
<1>9. \A s \in due :
        /\ sent[s].server = s /\ sent[s].dest = Domain /\ sent[s].id = id[s] /\ sent[s].age = 0
        /\ sent[s] \in [server : Server, dest : Entity \cup {Domain}, id : Id, age : Age]
  <2> SUFFICES ASSUME NEW s \in due
               PROVE  /\ sent[s].server = s /\ sent[s].dest = Domain /\ sent[s].id = id[s] /\ sent[s].age = 0
                      /\ sent[s] \in [server : Server, dest : Entity \cup {Domain}, id : Id, age : Age]
    OBVIOUS
  <2>1. s \in Server /\ id[s] \in Id /\ sent[s] = Sent(s, Domain, id[s])
    BY <1>7, <1>8
  <2> DEFINE n == Sent(s, Domain, id[s])
  <2>2. n.server = s /\ n.dest = Domain /\ n.id = id[s] /\ n.age = 0
    BY SentFields
  <2>3. n \in [server : Server, dest : Entity \cup {Domain}, id : Id, age : Age]
    BY <2>1, SentType
  <2> HIDE DEF n
  <2>4. sent[s] = n
    BY <2>1 DEF n
  <2> QED BY <2>2, <2>3, <2>4
<1>10. /\ link' \in [Server -> {"up", "dead", "closed"}]
       /\ \A s \in gone : link'[s] = "closed"
       /\ \A s \in Server : s \notin gone => link'[s] = link[s]
  BY <1>1, <1>3 DEF Walk, TypeOK
<1>11. /\ record' \in [Server -> Record]
       /\ \A s \in gone : ~record'[s].connected /\ record'[s].ping_id = NULL /\ record'[s].lag_sent = NULL
       /\ \A s \in due : record'[s].connected /\ record'[s].ping_id = id[s] /\ record'[s].lag_sent = 0
       /\ \A s \in Server : s \notin gone /\ s \notin due => record'[s] = record[s]
  <2>1. record' = [s \in Server |-> IF s \in gone THEN NewRecord(FALSE)
                                    ELSE IF s \in due THEN Asked(s, record[s]) ELSE record[s]]
    BY <1>1, <1>3, <1>4 DEF Walk
  <2>2. NewRecord(FALSE) \in Record /\ NewRecord(FALSE).connected = FALSE
        /\ NewRecord(FALSE).ping_id = NULL /\ NewRecord(FALSE).lag_sent = NULL
    BY NewRecordType
  <2>3. \A s \in due : /\ Asked(s, record[s]) \in Record /\ Asked(s, record[s]).connected = record[s].connected
                       /\ Asked(s, record[s]).ping_id = id[s] /\ Asked(s, record[s]).lag_sent = 0
    BY <1>6, <1>7, AskedType DEF TypeOK
  <2>4. \A s \in Server : record[s] \in Record
    BY DEF TypeOK
  <2>5. record' \in [Server -> Record]
    BY <2>1, <2>2, <2>3, <2>4
  <2>6. \A s \in gone : record'[s] = NewRecord(FALSE)
    BY <2>1
  <2>7. \A s \in due : record'[s] = Asked(s, record[s])
    BY <1>5, <2>1
  <2>8. \A s \in Server : s \notin gone /\ s \notin due => record'[s] = record[s]
    BY <2>1
  <2>9. \A s \in gone : ~record'[s].connected /\ record'[s].ping_id = NULL /\ record'[s].lag_sent = NULL
    BY <2>2, <2>6
  <2>10. \A s \in due : record'[s].connected /\ record'[s].ping_id = id[s] /\ record'[s].lag_sent = 0
    BY <1>5, <2>3, <2>7
  <2> QED BY <2>5, <2>8, <2>9, <2>10
<1>12. flight' = {m \in flight : m.server \notin gone} \cup {sent[s] : s \in due}
  <2>1. flight' = {m \in flight : m.server \notin gone} \cup {Sent(s, Domain, NewId(s)) : s \in due}
    BY <1>1, <1>3, <1>4 DEF Walk
  <2>2. \A s \in due : sent[s] = Sent(s, Domain, NewId(s))
    BY <1>6, <1>8
  <2> QED BY <2>1, <2>2
<1>13. \A m \in flight' : \/ m \in flight /\ m.server \notin gone
                          \/ m.server \in due /\ m = sent[m.server]
  BY <1>9, <1>12
<1>14. /\ \A s \in gone : InFlight(s)' = {}
       /\ \A s \in due : InFlight(s)' = InFlight(s) \cup {sent[s]}
       /\ \A s \in Server : s \notin gone /\ s \notin due => InFlight(s)' = InFlight(s)
  <2>1. \A s \in gone : InFlight(s)' = {}
    BY <1>5, <1>13 DEF InFlight
  <2>2. \A s \in due : InFlight(s)' = InFlight(s) \cup {sent[s]}
    <3> SUFFICES ASSUME NEW s \in due PROVE InFlight(s)' = InFlight(s) \cup {sent[s]}
      OBVIOUS
    <3>1. InFlight(s)' \subseteq InFlight(s) \cup {sent[s]}
      BY <1>13 DEF InFlight
    <3>2. InFlight(s) \cup {sent[s]} \subseteq InFlight(s)'
      BY <1>5, <1>9, <1>12 DEF InFlight
    <3> QED BY <3>1, <3>2
  <2>3. \A s \in Server : s \notin gone /\ s \notin due => InFlight(s)' = InFlight(s)
    <3> SUFFICES ASSUME NEW s \in Server, s \notin gone, s \notin due PROVE InFlight(s)' = InFlight(s)
      OBVIOUS
    <3>1. InFlight(s)' \subseteq InFlight(s)
      BY <1>13 DEF InFlight
    <3>2. InFlight(s) \subseteq InFlight(s)'
      BY <1>12 DEF InFlight
    <3> QED BY <3>1, <3>2
  <2> QED BY <2>1, <2>2, <2>3
<1>15. pings' = {p \in pings : p.server \notin gone} /\ supported' = Without(supported, gone) /\ report' = NULL
  BY <1>1, <1>3 DEF Walk, Cleaned
<1>16. Distinct(supported') /\ Remain(supported', supported, gone)
  <2>1. Distinct(supported)
    BY SupportedGood DEF Distinct
  <2> QED BY <1>15, <2>1, WithoutProperties
<1>17. \A s \in Server : s \notin gone => record'[s].connected = record[s].connected
  <2> SUFFICES ASSUME NEW s \in Server, s \notin gone
               PROVE  record'[s].connected = record[s].connected
    OBVIOUS
  <2>1. record[s].connected \in BOOLEAN /\ record'[s].connected \in BOOLEAN
    BY <1>11 DEF TypeOK, Record
  <2>2. CASE s \in due
    BY <1>5, <1>11, <2>1, <2>2
  <2>3. CASE s \notin due
    BY <1>11, <2>3
  <2> QED BY <2>2, <2>3
<1>18. TypeOK'
  <2>1. supported' \in Seq(Server)
    BY <1>16 DEF Distinct
  <2>2. flight' \subseteq [server : Server, dest : Entity \cup {Domain}, id : Id, age : Age]
    BY <1>9, <1>13 DEF TypeOK
  <2>3. pings' \subseteq [server : Server, jid : Entity, id : Id, age : Age]
    BY <1>15 DEF TypeOK
  <2> QED BY <1>10, <1>11, <1>15, <2>1, <2>2, <2>3 DEF TypeOK
<1>19. NothingOfFreedServers'
  <2>1. ASSUME NEW i \in 1..Len(supported') PROVE record'[supported'[i]].connected
    <3>1. PICK j \in 1..Len(supported) : supported'[i] = supported[j]
      BY <1>16 DEF Remain
    <3>2. supported'[i] \notin gone
      BY <1>16 DEF Remain
    <3>3. supported[j] \in Server /\ record[supported[j]].connected
      BY SupportedGood
    <3> QED BY <1>17, <3>1, <3>2, <3>3
  <2>2. ASSUME NEW p \in pings' PROVE record'[p.server].connected
    <3>1. p \in pings /\ p.server \notin gone /\ p.server \in Server
      BY <1>15 DEF TypeOK
    <3>2. record[p.server].connected
      BY <3>1 DEF NothingOfFreedServers
    <3> QED BY <1>17, <3>1, <3>2
  <2> QED BY <1>16, <2>1, <2>2 DEF NothingOfFreedServers, Distinct
<1>20. Connected'
  <2>1. ASSUME NEW s \in gone PROVE record'[s].connected <=> link'[s] # "closed"
    BY <1>10, <1>11
  <2>2. ASSUME NEW s \in Server, s \notin gone PROVE record'[s].connected <=> link'[s] # "closed"
    BY <1>10, <1>17, <2>2 DEF Connected
  <2> QED BY <2>1, <2>2 DEF Connected
<1>21. Ended'
  <2> SUFFICES ASSUME NEW s \in Server, link'[s] = "closed" PROVE InFlight(s)' = {}
    BY DEF Ended
  <2>1. CASE s \in gone
    BY <1>14, <2>1
  <2>2. CASE s \notin gone
    <3>1. link[s] = "closed" /\ s \notin due
      BY <1>5, <1>10, <2>2 DEF Connected
    <3> QED BY <1>14, <2>2, <3>1 DEF Ended
  <2> QED BY <2>1, <2>2
<1>22. PingHeld'
  <2> SUFFICES ASSUME NEW s \in Server
               PROVE  /\ record'[s].ping_id = NULL <=> record'[s].lag_sent = NULL
                      /\ record'[s].ping_id # NULL => \E m \in flight' : Held(s, m)'
    BY DEF PingHeld
  <2>1. CASE s \in gone
    BY <1>11, <2>1
  <2>2. CASE s \in due
    <3>1. sent[s] \in flight'
      BY <1>12, <2>2
    <3>2. Held(s, sent[s])'
      BY <1>9, <1>11, <2>2 DEF Held
    <3>3. record'[s].ping_id # NULL /\ record'[s].lag_sent # NULL
      BY <1>7, <1>11, <2>2, IdType, NullAssumption
    <3> QED BY <3>1, <3>2, <3>3
  <2>3. CASE s \notin gone /\ s \notin due
    <3>1. record'[s] = record[s]
      BY <1>11, <2>3
    <3>2. record[s].ping_id # NULL => \E m \in flight' : Held(s, m)
      BY <1>12, <2>3 DEF PingHeld, Held
    <3> QED BY <3>1, <3>2 DEF PingHeld, Held
  <2> QED BY <2>1, <2>2, <2>3
<1>23. UniqueIds'
  <2> SUFFICES ASSUME NEW m \in flight', NEW n \in flight', m.server = n.server, m.id = n.id
               PROVE  m = n
    BY DEF UniqueIds
  <2>1. CASE m \in flight /\ n \in flight
    BY <2>1 DEF UniqueIds
  <2>2. CASE m \notin flight /\ n \notin flight
    BY <1>13, <2>2
  <2>3. CASE m \in flight /\ n \notin flight
    BY <1>7, <1>9, <1>13, <2>3 DEF InFlight
  <2>4. CASE m \notin flight /\ n \in flight
    BY <1>7, <1>9, <1>13, <2>4 DEF InFlight
  <2> QED BY <2>1, <2>2, <2>3, <2>4
<1>24. Awaited'
  <2> SUFFICES ASSUME NEW p \in pings', NEW m \in flight', m.server = p.server, m.id = p.id
               PROVE  m.dest = p.jid /\ m.age = p.age
    BY DEF Awaited
  <2>1. p \in pings
    BY <1>15
  <2>2. m \in flight
    BY <1>7, <1>9, <1>13, <2>1
  <2> QED BY <2>1, <2>2 DEF Awaited
<1>25. OnePerJid' /\ Ages'
  <2>1. OnePerJid'
    BY <1>15 DEF OnePerJid
  <2>2. \A m \in flight' : m.age \in 0..Oldest(m.dest)
    <3> SUFFICES ASSUME NEW m \in flight' PROVE m.age \in 0..Oldest(m.dest)
      OBVIOUS
    <3>1. CASE m \in flight
      BY <3>1 DEF Ages
    <3>2. CASE m \notin flight
      <4>1. m.age = 0
        BY <1>9, <1>13, <3>2
      <4> QED BY <4>1, OldestType
    <3> QED BY <3>1, <3>2
  <2>3. \A p \in pings' : p.age \in 0..Oldest(p.jid)
    BY <1>15 DEF Ages
  <2> QED BY <2>1, <2>2, <2>3 DEF Ages
<1>26. Counted'
  <2> SUFFICES ASSUME NEW s \in Server
               PROVE  IsFiniteSet(InFlight(s)') /\ Cardinality(InFlight(s)') <= Most(s)'
    BY DEF Counted
  <2>0. Most(s)' \in Nat /\ MaxPings <= Most(s)' /\ MaxPings \in Nat
    BY BoundAssumption DEF Most
  <2>1. CASE s \in gone
    <3>1. InFlight(s)' = {}
      BY <1>14, <2>1
    <3> QED BY <2>0, <3>1, FS_EmptySet
  <2>2. CASE s \in due
    <3>1. IsFiniteSet(InFlight(s)) /\ Cardinality(InFlight(s)) \in Nat /\ Cardinality(InFlight(s)) <= MaxPings
      BY <1>5, <2>2, FS_CardinalityType DEF Counted, Most
    <3>2. /\ IsFiniteSet(InFlight(s) \cup {sent[s]})
          /\ Cardinality(InFlight(s) \cup {sent[s]}) =
               IF sent[s] \in InFlight(s) THEN Cardinality(InFlight(s)) ELSE Cardinality(InFlight(s)) + 1
      BY <3>1, FS_AddElement
    <3>3. Most(s)' = MaxPings + 1
      BY <1>11, <2>2, NullAssumption DEF Most
    <3>4. InFlight(s)' = InFlight(s) \cup {sent[s]}
      BY <1>14, <2>2
    <3> QED BY <2>0, <3>1, <3>2, <3>3, <3>4
  <2>3. CASE s \notin gone /\ s \notin due
    BY <1>11, <1>14, <2>3 DEF Counted, Most
  <2> QED BY <2>1, <2>2, <2>3
<1> QED BY <1>18, <1>19, <1>20, <1>21, <1>22, <1>23, <1>24, <1>25, <1>26

(* Time makes all pings older by as much, up to the same ages. *)
LEMMA OlderType ==
  ASSUME NEW oldest \in Nat, NEW age \in 0..oldest
  PROVE  Older(age, oldest) \in 0..oldest
<1>1. age # NULL
  BY NullAssumption
<1> QED BY <1>1 DEF Older

LEMMA TickInv ==
  ASSUME IInv, Tick
  PROVE  IInv'
<1> USE DEF IInv
<1>1. PICK old \in [flight -> {[m EXCEPT !.age = Older(@, Oldest(m.dest))] : m \in flight}] :
        \A m \in flight : old[m] = [m EXCEPT !.age = Older(@, Oldest(m.dest))]
  <2>1. [m \in flight |-> [m EXCEPT !.age = Older(@, Oldest(m.dest))]]
          \in [flight -> {[m EXCEPT !.age = Older(@, Oldest(m.dest))] : m \in flight}]
    OBVIOUS
  <2> QED BY <2>1
<1>2. PICK was \in [pings -> {[p EXCEPT !.age = Older(@, Oldest(p.jid))] : p \in pings}] :
        \A p \in pings : was[p] = [p EXCEPT !.age = Older(@, Oldest(p.jid))]
  <2>1. [p \in pings |-> [p EXCEPT !.age = Older(@, Oldest(p.jid))]]
          \in [pings -> {[p EXCEPT !.age = Older(@, Oldest(p.jid))] : p \in pings}]
    OBVIOUS
  <2> QED BY <2>1
<1>3. \A m \in flight :
        /\ old[m] \in [server : Server, dest : Entity \cup {Domain}, id : Id, age : Age]
        /\ old[m].server = m.server /\ old[m].dest = m.dest /\ old[m].id = m.id
        /\ old[m].age = Older(m.age, Oldest(m.dest)) /\ old[m].age \in 0..Oldest(m.dest)
  <2> SUFFICES ASSUME NEW m \in flight
               PROVE  /\ old[m] \in [server : Server, dest : Entity \cup {Domain}, id : Id, age : Age]
                      /\ old[m].server = m.server /\ old[m].dest = m.dest /\ old[m].id = m.id
                      /\ old[m].age = Older(m.age, Oldest(m.dest)) /\ old[m].age \in 0..Oldest(m.dest)
    OBVIOUS
  <2>1. m \in [server : Server, dest : Entity \cup {Domain}, id : Id, age : Age]
    BY DEF TypeOK
  <2>2. Older(m.age, Oldest(m.dest)) \in 0..Oldest(m.dest)
    BY OldestType, OlderType DEF Ages
  <2>3. Older(m.age, Oldest(m.dest)) \in Age
    BY <2>2, OldestType, OldType DEF Age
  <2> QED BY <1>1, <2>1, <2>2, <2>3
<1>4. \A p \in pings :
        /\ was[p] \in [server : Server, jid : Entity, id : Id, age : Age]
        /\ was[p].server = p.server /\ was[p].jid = p.jid /\ was[p].id = p.id
        /\ was[p].age = Older(p.age, Oldest(p.jid)) /\ was[p].age \in 0..Oldest(p.jid)
  <2> SUFFICES ASSUME NEW p \in pings
               PROVE  /\ was[p] \in [server : Server, jid : Entity, id : Id, age : Age]
                      /\ was[p].server = p.server /\ was[p].jid = p.jid /\ was[p].id = p.id
                      /\ was[p].age = Older(p.age, Oldest(p.jid)) /\ was[p].age \in 0..Oldest(p.jid)
    OBVIOUS
  <2>1. p \in [server : Server, jid : Entity, id : Id, age : Age]
    BY DEF TypeOK
  <2>2. Older(p.age, Oldest(p.jid)) \in 0..Oldest(p.jid)
    BY OldestType, OlderType DEF Ages
  <2>3. Older(p.age, Oldest(p.jid)) \in Age
    BY <2>2, OldestType, OldType DEF Age
  <2> QED BY <1>2, <2>1, <2>2, <2>3
<1>5. flight' = {old[m] : m \in flight} /\ pings' = {was[p] : p \in pings}
  <2>1. /\ flight' = {[m EXCEPT !.age = Older(@, Oldest(m.dest))] : m \in flight}
        /\ pings' = {[p EXCEPT !.age = Older(@, Oldest(p.jid))] : p \in pings}
    BY DEF Tick
  <2>2. \A n : n \in flight' <=> \E m \in flight : n = old[m]
    BY <1>1, <2>1, Zenon
  <2>3. \A q : q \in pings' <=> \E p \in pings : q = was[p]
    BY <1>2, <2>1, Zenon
  <2> QED BY <2>2, <2>3
<1>6. supported' = supported /\ link' = link /\ report' = NULL
  BY DEF Tick
<1>7. /\ record' \in [Server -> Record]
      /\ \A s \in Server : /\ record'[s].connected = record[s].connected
                           /\ record'[s].ping_id = record[s].ping_id
                           /\ record'[s].lag_sent = Older(record[s].lag_sent, Old)
                           /\ record'[s].lag_sent = NULL <=> record[s].lag_sent = NULL
  <2>1. ASSUME NEW r \in Record,
               NEW n, n = [r EXCEPT !.lag_sent = Older(@, Old), !.lag_last_check = Older(@, Long)]
        PROVE  /\ n \in Record /\ n.connected = r.connected /\ n.ping_id = r.ping_id
               /\ n.lag_sent = Older(r.lag_sent, Old) /\ (n.lag_sent = NULL <=> r.lag_sent = NULL)
    <3>1. r.lag_sent \in Age \cup {NULL} /\ r.lag_last_check \in 0..Long
      BY DEF Record
    <3>2. Older(r.lag_last_check, Long) \in 0..Long
      BY <3>1, OldType, OlderType
    <3>3. Older(r.lag_sent, Old) \in Age \cup {NULL} /\ (Older(r.lag_sent, Old) = NULL <=> r.lag_sent = NULL)
      <4>1. CASE r.lag_sent = NULL
        BY <4>1 DEF Older
      <4>2. CASE r.lag_sent # NULL
        <5>1. Older(r.lag_sent, Old) \in Age
          BY <3>1, <4>2, OldType, OlderType DEF Age
        <5> QED BY <4>2, <5>1, IdType
      <4> QED BY <4>1, <4>2
    <3> DEFINE a == [r EXCEPT !.lag_sent = Older(r.lag_sent, Old)]
               b == [a EXCEPT !.lag_last_check = Older(r.lag_last_check, Long)]
    <3>4. /\ a \in Record /\ a.connected = r.connected /\ a.ping_id = r.ping_id
          /\ a.lag_sent = Older(r.lag_sent, Old) /\ a.lag_last_check = r.lag_last_check
      BY <3>3 DEF Record
    <3>5. n = b
      BY <2>1, <3>4
    <3> HIDE DEF a
    <3>6. /\ b \in Record /\ b.connected = a.connected /\ b.ping_id = a.ping_id /\ b.lag_sent = a.lag_sent
      BY <3>2, <3>4 DEF Record
    <3> QED BY <3>3, <3>4, <3>5, <3>6
  <2>2. \A s \in Server : record[s] \in Record
    BY DEF TypeOK
  <2>3. record' = [s \in Server |-> [record[s] EXCEPT !.lag_sent = Older(@, Old),
                                                      !.lag_last_check = Older(@, Long)]]
    BY DEF Tick
  <2> QED BY <2>1, <2>2, <2>3
<1>8. TypeOK'
  BY <1>3, <1>4, <1>5, <1>6, <1>7 DEF TypeOK
<1>9. NothingOfFreedServers'
  <2>1. \A i \in 1..Len(supported) : record'[supported[i]].connected
    BY <1>7, SupportedGood
  <2>2. \A p \in pings : p.server \in Server /\ record[p.server].connected
    BY DEF NothingOfFreedServers, TypeOK
  <2>3. \A p \in pings : record'[was[p].server].connected
    BY <1>4, <1>7, <2>2
  <2> QED BY <1>5, <1>6, <2>1, <2>3, SupportedGood DEF NothingOfFreedServers
<1>10. \A s \in Server : InFlight(s)' = {old[m] : m \in InFlight(s)}
  <2> SUFFICES ASSUME NEW s \in Server PROVE InFlight(s)' = {old[m] : m \in InFlight(s)}
    OBVIOUS
  <2>1. ASSUME NEW n \in InFlight(s)' PROVE n \in {old[m] : m \in InFlight(s)}
    <3>1. PICK m \in flight : n = old[m]
      BY <1>5 DEF InFlight
    <3>2. m \in InFlight(s)
      BY <1>3, <3>1 DEF InFlight
    <3> QED BY <3>1, <3>2
  <2>2. ASSUME NEW m \in InFlight(s) PROVE old[m] \in InFlight(s)'
    BY <1>3, <1>5 DEF InFlight
  <2> QED BY <2>1, <2>2
<1>11. Connected' /\ Ended'
  <2>1. Connected'
    BY <1>6, <1>7 DEF Connected
  <2>2. Ended'
    BY <1>6, <1>10 DEF Ended
  <2> QED BY <2>1, <2>2
<1>12. PingHeld'
  <2> SUFFICES ASSUME NEW s \in Server
               PROVE  /\ record'[s].ping_id = NULL <=> record'[s].lag_sent = NULL
                      /\ record'[s].ping_id # NULL => \E m \in flight' : Held(s, m)'
    BY DEF PingHeld
  <2>1. record'[s].ping_id = NULL <=> record'[s].lag_sent = NULL
    BY <1>7 DEF PingHeld
  <2>2. ASSUME record[s].ping_id # NULL PROVE \E m \in flight' : Held(s, m)'
    <3>1. PICK m \in flight : Held(s, m)
      BY <2>2 DEF PingHeld
    <3>2. old[m] \in flight'
      BY <1>5
    <3>3. Oldest(m.dest) = Old
      BY <3>1 DEF Held, Oldest, Domain
    <3>4. Held(s, old[m])'
      BY <1>3, <1>7, <3>1, <3>3 DEF Held
    <3> QED BY <3>2, <3>4
  <2> QED BY <1>7, <2>1, <2>2
<1>13. UniqueIds'
  <2> SUFFICES ASSUME NEW m \in flight, NEW n \in flight,
                      old[m].server = old[n].server, old[m].id = old[n].id
               PROVE  old[m] = old[n]
    BY <1>5 DEF UniqueIds
  <2>1. m = n
    BY <1>3 DEF UniqueIds
  <2> QED BY <2>1
<1>14. Awaited'
  <2> SUFFICES ASSUME NEW p \in pings, NEW m \in flight,
                      old[m].server = was[p].server, old[m].id = was[p].id
               PROVE  old[m].dest = was[p].jid /\ old[m].age = was[p].age
    BY <1>5 DEF Awaited
  <2>1. m.dest = p.jid /\ m.age = p.age
    BY <1>3, <1>4 DEF Awaited
  <2> QED BY <1>3, <1>4, <2>1
<1>15. OnePerJid'
  <2> SUFFICES ASSUME NEW p \in pings, NEW q \in pings,
                      was[p].server = was[q].server, was[p].jid = was[q].jid
               PROVE  was[p] = was[q]
    BY <1>5 DEF OnePerJid
  <2>1. p = q
    BY <1>4 DEF OnePerJid
  <2> QED BY <2>1
<1>16. Ages'
  BY <1>3, <1>4, <1>5 DEF Ages
<1>17. Counted'
  <2> SUFFICES ASSUME NEW s \in Server
               PROVE  IsFiniteSet(InFlight(s)') /\ Cardinality(InFlight(s)') <= Most(s)'
    BY DEF Counted
  <2>1. Most(s)' = Most(s) /\ Most(s) \in Nat
    BY <1>7, BoundAssumption DEF Most
  <2>2. PICK f \in [InFlight(s) -> {old[m] : m \in InFlight(s)}] : \A m \in InFlight(s) : f[m] = old[m]
    <3>1. [m \in InFlight(s) |-> old[m]] \in [InFlight(s) -> {old[m] : m \in InFlight(s)}]
      OBVIOUS
    <3> QED BY <3>1
  <2>3. {f[m] : m \in InFlight(s)} = InFlight(s)'
    BY <1>10, <2>2
  <2>4. f \in [InFlight(s) -> {f[m] : m \in InFlight(s)}]
    BY <2>2
  <2>5. IsFiniteSet(InFlight(s)) /\ Cardinality(InFlight(s)) <= Most(s) /\ Cardinality(InFlight(s)) \in Nat
    BY FS_CardinalityType DEF Counted
  <2>6. IsFiniteSet(InFlight(s)') /\ Cardinality(InFlight(s)') <= Cardinality(InFlight(s))
    BY <2>3, <2>4, <2>5, ImageCounted
  <2>7. Cardinality(InFlight(s)') \in Nat
    BY <2>6, FS_CardinalityType
  <2> QED BY <2>1, <2>5, <2>6, <2>7
<1> QED BY <1>8, <1>9, <1>11, <1>12, <1>13, <1>14, <1>15, <1>16, <1>17

-----------------------------------------------------------------------------
LEMMA NextInv == IInv /\ [PingNext]_ping_vars => IInv'
<1> SUFFICES ASSUME IInv, [PingNext]_ping_vars PROVE IInv'
  OBVIOUS
<1>1. CASE UNCHANGED ping_vars
  <2>1. \A s \in Server : InFlight(s)' = InFlight(s) /\ Most(s)' = Most(s)
    BY <1>1 DEF ping_vars, InFlight, Most
  <2>2. TypeOK' /\ NothingOfFreedServers'
    BY <1>1 DEF IInv, ping_vars, TypeOK, NothingOfFreedServers
  <2>3. Connected' /\ PingHeld' /\ UniqueIds' /\ Awaited' /\ OnePerJid' /\ Ages'
    BY <1>1 DEF IInv, ping_vars, Connected, PingHeld, Held, UniqueIds, Awaited, OnePerJid, Ages
  <2>4. Ended' /\ Counted'
    BY <1>1, <2>1 DEF IInv, ping_vars, Ended, Counted
  <2> QED BY <2>2, <2>3, <2>4 DEF IInv
<1>2. ASSUME NEW s \in Server, Connect(s) PROVE IInv'
  BY <1>2, ConnectInv
<1>3. ASSUME NEW s \in Server, sig_server_features(s) PROVE IInv'
  BY <1>3, ServerFeaturesInv
<1>4. ASSUME NEW s \in Server, NEW dest \in Pinged[s], cmd_ping(s, dest) PROVE IInv'
  BY <1>4, PingInv
<1>5. ASSUME NEW s \in Server, Disconnected(s) PROVE IInv'
  BY <1>5, DisconnectedInv
<1>6. ASSUME NEW s \in Server, LinkDies(s) PROVE IInv'
  BY <1>6, LinkDiesInv
<1>7. ASSUME NEW m \in flight, Answer(m) PROVE IInv'
  BY <1>7, AnswerInv
<1>8. CASE check_ping_func
  BY <1>8, CheckPingInv
<1>9. CASE Tick
  BY <1>9, TickInv
<1> QED BY <1>1, <1>2, <1>3, <1>4, <1>5, <1>6, <1>7, <1>8, <1>9 DEF PingNext

(* The inductive invariant holds of all states. *)
THEOREM PingInvariance == PingSpec => []IInv
<1> QED BY InitInv, NextInv, PTL DEF PingSpec

(* TypeOK: ids in particular never run out, so a ping that is sent has one of *)
(* its own.                                                                   *)
THEOREM PingTypeCorrect == PingSpec => []TypeOK
<1>1. IInv => TypeOK
  BY DEF IInv
<1> QED BY <1>1, PingInvariance, PTL

(* NothingOfFreedServers: neither the list of servers nor what is awaited     *)
(* outlives a session.                                                        *)
THEOREM NothingKeptOfFreedServers == PingSpec => []NothingOfFreedServers
<1>1. IInv => NothingOfFreedServers
  BY DEF IInv
<1> QED BY <1>1, PingInvariance, PTL

(* The time that sig_recv_iq reports is that of the ping which was answered:  *)
(* a step that reports something answers a ping in flight that is as old.     *)
LEMMA AnswerReports ==
  ASSUME IInv, NEW m \in flight, Answer(m)
  PROVE  ReportsItsPing'
<1> USE DEF IInv
<1> DEFINE s == m.server
<1>1. s \in Server /\ m.id \in Id /\ Pong(m)
  BY DEF Answer, TypeOK
<1>2. CASE m.dest = Domain /\ record[s].ping_id = m.id
  <2>1. report' = [measured |-> record[s].lag_sent, real |-> m.age]
    BY <1>1, <1>2 DEF Pong
  <2>2. PICK n \in flight : Held(s, n)
    BY <1>1, <1>2, IdType DEF PingHeld
  <2>3. n = m
    BY <1>2, <2>2 DEF Held, UniqueIds
  <2> QED BY <2>1, <2>2, <2>3 DEF Held, ReportsItsPing
<1>3. CASE ~(m.dest = Domain /\ record[s].ping_id = m.id)
  <2> DEFINE awaited == {p \in pings : p.server = s /\ p.jid = m.dest /\ p.id = m.id}
             c == CHOOSE p \in awaited : TRUE
  <2>1. report' = IF awaited = {} THEN NULL ELSE [measured |-> c.age, real |-> m.age]
    BY <1>1, <1>3 DEF Pong
  <2>2. awaited # {} => c.age = m.age
    BY DEF Awaited
  <2> QED BY <2>1, <2>2 DEF ReportsItsPing
<1> QED BY <1>2, <1>3

(* ReportsItsPing *)
THEOREM LagIsOfItsPing == PingSpec => []ReportsItsPing
<1>1. PingInit => ReportsItsPing
  BY DEF PingInit, ReportsItsPing
<1>2. IInv /\ ReportsItsPing /\ [PingNext]_ping_vars => ReportsItsPing'
  <2> SUFFICES ASSUME IInv, ReportsItsPing, [PingNext]_ping_vars PROVE ReportsItsPing'
    OBVIOUS
  <2>1. ASSUME NEW m \in flight, Answer(m) PROVE ReportsItsPing'
    BY <2>1, AnswerReports
  <2>2. CASE UNCHANGED ping_vars
    BY <2>2 DEF ping_vars, ReportsItsPing
  <2>3. CASE report' = NULL
    BY <2>3 DEF ReportsItsPing
  <2>4. PingNext => (\E m \in flight : Answer(m)) \/ report' = NULL
    BY DEF PingNext, Connect, sig_server_features, cmd_ping, Disconnected, LinkDies, check_ping_func, Tick
  <2> QED BY <2>1, <2>2, <2>3, <2>4
<1> QED BY <1>1, <1>2, PingInvariance, PTL DEF PingSpec

(* OnlyLateServersDropped: a record that is late holds a ping in flight as    *)
(* old as it says, so its server owes the answer.                             *)
LEMMA DroppedIsLate ==
  ASSUME IInv, NEW s \in Server, check_ping_func, link[s] # "closed", link'[s] = "closed"
  PROVE  \E m \in InFlight(s) : m.dest = Domain /\ m.age > MaxLag
<1>1. PICK k \in 0..Len(supported) : Walk(k)
  BY DEF check_ping_func, Walk, Met, Gone, Asks
<1>2. s \in Gone(k)
  BY <1>1 DEF Walk
<1>3. record[s].lag_sent # NULL /\ record[s].lag_sent > MaxLag
  BY <1>2 DEF Gone, Late
<1>4. PICK m \in flight : Held(s, m)
  BY <1>3 DEF IInv, PingHeld
<1> QED BY <1>3, <1>4 DEF Held, InFlight

THEOREM DroppedServersAreLate == PingSpec => OnlyLateServersDropped
<1>1. IInv /\ [PingNext]_ping_vars =>
        [\A s \in Server :
           check_ping_func /\ link[s] # "closed" /\ link'[s] = "closed" =>
             \E m \in InFlight(s) : m.dest = Domain /\ m.age > MaxLag]_ping_vars
  BY DroppedIsLate
<1> QED BY <1>1, PingInvariance, PTL DEF PingSpec, OnlyLateServersDropped

=============================================================================
