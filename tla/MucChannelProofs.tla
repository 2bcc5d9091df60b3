-------------------------- MODULE MucChannelProofs --------------------------
(***************************************************************************)
(* Theorems about MucChannel, for every set of nicks and whatever the room *)
(* sends.  The inductive invariant says of the table of nicks that no      *)
(* chain is empty, that our own record is the first of its chain, that no  *)
(* other record is marked as ours, and that a joined room has it.          *)
(***************************************************************************)
EXTENDS MucChannel, SequenceTheorems, TLAPS

(* Tables of nicks, those where a record of ours is at the head of its      *)
(* chain only, and those that have one at most.                             *)
Table(t) ==
  /\ DOMAIN t \subseteq Nick
  /\ \A n \in DOMAIN t : t[n] \in Seq(NickRec) /\ t[n] # <<>>

HeadsOnly(t) == \A n \in DOMAIN t : \A i \in 2..Len(t[n]) : ~t[n][i].own
Unique(t)    == \A m, n \in DOMAIN t : t[m][1].own /\ t[n][1].own => m = n
Owned(t)     == \E n \in DOMAIN t : t[n][1].own

Good(t) == Table(t) /\ HeadsOnly(t) /\ Unique(t)

-----------------------------------------------------------------------------
(* Chains. *)

(* The records of a chain with one more in front, or at its end, or without *)
(* its first.                                                               *)
LEMMA FrontOfChain ==
  ASSUME NEW s \in Seq(NickRec), NEW r \in NickRec
  PROVE  /\ <<r>> \o s \in Seq(NickRec) /\ <<r>> \o s # <<>>
         /\ Len(<<r>> \o s) = Len(s) + 1
         /\ (<<r>> \o s)[1] = r
         /\ \A i \in 2..(Len(s) + 1) : (<<r>> \o s)[i] = s[i - 1]
  OBVIOUS

LEMMA EndOfChain ==
  ASSUME NEW s \in Seq(NickRec), NEW r \in NickRec
  PROVE  /\ Append(s, r) \in Seq(NickRec) /\ Append(s, r) # <<>>
         /\ Len(Append(s, r)) = Len(s) + 1
         /\ \A i \in 1..Len(s) : Append(s, r)[i] = s[i]
         /\ Append(s, r)[Len(s) + 1] = r
  OBVIOUS

LEMMA TailOfChain ==
  ASSUME NEW s \in Seq(NickRec), s # <<>>
  PROVE  /\ Len(s) \in Nat /\ Len(s) >= 1
         /\ s[1] \in NickRec /\ Head(s) = s[1]
         /\ Tail(s) \in Seq(NickRec)
         /\ Len(Tail(s)) = Len(s) - 1
         /\ Len(s) # 1 => Tail(s) # <<>>
         /\ \A i \in 1..(Len(s) - 1) : Tail(s)[i] = s[i + 1]
<1>1. Len(s) \in Nat /\ Len(s) >= 1
  OBVIOUS
<1>2. s[1] \in NickRec /\ Head(s) = s[1]
  BY <1>1
<1>3. /\ Tail(s) \in Seq(NickRec)
      /\ Len(Tail(s)) = Len(s) - 1
      /\ \A i \in 1..(Len(s) - 1) : Tail(s)[i] = s[i + 1]
  BY HeadTailProperties
<1>4. ASSUME Len(s) # 1 PROVE Tail(s) # <<>>
  <2>1. Len(Tail(s)) # 0
    BY <1>1, <1>3, <1>4
  <2>2. QED
    BY <2>1, EmptySeq
<1>5. QED
  BY <1>1, <1>2, <1>3, <1>4

LEMMA ChainType ==
  ASSUME NEW t, Table(t), NEW n
  PROVE  Chain(t, n) \in Seq(NickRec)
  BY DEF Chain, Table

-----------------------------------------------------------------------------
(* Tables. *)

(* A record that is not ours may be put at the end of any chain. *)
LEMMA PutLastGood ==
  ASSUME NEW t, Good(t), NEW n \in Nick, NEW r \in NickRec, ~r.own
  PROVE  Good(PutLast(t, n, r)) /\ (Owned(t) => Owned(PutLast(t, n, r)))
<1> DEFINE u == PutLast(t, n, r)
           s == Chain(t, n)
<1>1. s \in Seq(NickRec)
  BY ChainType DEF Good
<1>2. /\ DOMAIN u = DOMAIN t \cup {n}
      /\ u[n] = Append(s, r)
      /\ \A m \in DOMAIN t : m # n => u[m] = t[m]
  BY DEF PutLast, Put
<1>3. /\ Append(s, r) \in Seq(NickRec) /\ Append(s, r) # <<>>
      /\ Len(Append(s, r)) = Len(s) + 1
      /\ \A i \in 1..Len(s) : Append(s, r)[i] = s[i]
      /\ Append(s, r)[Len(s) + 1] = r
  BY <1>1, EndOfChain
<1>4. Len(s) \in Nat
  BY <1>1
<1>5. n \in DOMAIN t => s = t[n] /\ Len(s) >= 1
  BY <1>1 DEF Chain, Good, Table
<1>6. n \notin DOMAIN t => Len(s) = 0
  BY DEF Chain
<1> HIDE DEF u, s
<1>7. Table(u)
  BY <1>2, <1>3 DEF Good, Table
<1>8. HeadsOnly(u)
  <2> SUFFICES ASSUME NEW m \in DOMAIN u, NEW i \in 2..Len(u[m])
               PROVE  ~u[m][i].own
    BY DEF HeadsOnly
  <2>1. CASE m # n
    BY <2>1, <1>2 DEF Good, HeadsOnly
  <2>2. CASE m = n /\ i = Len(s) + 1
    BY <2>2, <1>2, <1>3
  <2>3. CASE m = n /\ i # Len(s) + 1
    <3>1. i \in 2..Len(s) /\ i \in 1..Len(s)
      BY <2>3, <1>2, <1>3, <1>4
    <3>2. n \in DOMAIN t
      BY <3>1, <1>6, <1>4
    <3>3. QED
      BY <2>3, <3>1, <3>2, <1>2, <1>3, <1>5 DEF Good, HeadsOnly
  <2>4. QED
    BY <2>1, <2>2, <2>3
<1>9. \A m \in DOMAIN u : u[m][1].own <=> m \in DOMAIN t /\ t[m][1].own
  <2> SUFFICES ASSUME NEW m \in DOMAIN u
               PROVE  u[m][1].own <=> m \in DOMAIN t /\ t[m][1].own
    OBVIOUS
  <2>1. CASE m # n
    BY <2>1, <1>2
  <2>2. CASE m = n /\ n \in DOMAIN t
    <3>1. 1 \in 1..Len(s)
      BY <2>2, <1>4, <1>5
    <3>2. QED
      BY <2>2, <3>1, <1>2, <1>3, <1>5
  <2>3. CASE m = n /\ n \notin DOMAIN t
    BY <2>3, <1>2, <1>3, <1>6
  <2>4. QED
    BY <2>1, <2>2, <2>3
<1>10. Unique(u)
  BY <1>9 DEF Unique, Good
<1>11. Owned(t) => Owned(u)
  BY <1>9, <1>2 DEF Owned
<1>12. QED
  BY <1>7, <1>8, <1>10, <1>11 DEF Good, u

(* Our own record may be put in front of a chain when no other is ours. *)
LEMMA PutFirstGood ==
  ASSUME NEW t, Good(t), ~Owned(t), NEW n \in Nick, NEW r \in NickRec
  PROVE  Good(PutFirst(t, n, r)) /\ (r.own => Owned(PutFirst(t, n, r)))
<1> DEFINE u == PutFirst(t, n, r)
           s == Chain(t, n)
<1>1. s \in Seq(NickRec)
  BY ChainType DEF Good
<1>2. /\ DOMAIN u = DOMAIN t \cup {n}
      /\ u[n] = <<r>> \o s
      /\ \A m \in DOMAIN t : m # n => u[m] = t[m]
  BY DEF PutFirst, Put
<1>3. /\ <<r>> \o s \in Seq(NickRec) /\ <<r>> \o s # <<>>
      /\ Len(<<r>> \o s) = Len(s) + 1
      /\ (<<r>> \o s)[1] = r
      /\ \A i \in 2..(Len(s) + 1) : (<<r>> \o s)[i] = s[i - 1]
  BY <1>1, FrontOfChain
<1>4. Len(s) \in Nat
  BY <1>1
<1>5. n \in DOMAIN t => s = t[n]
  BY DEF Chain
<1>6. n \notin DOMAIN t => Len(s) = 0
  BY DEF Chain
<1> HIDE DEF u, s
<1>7. Table(u)
  BY <1>2, <1>3 DEF Good, Table
<1>8. ASSUME NEW i \in 1..Len(s) PROVE ~s[i].own
  <2>1. n \in DOMAIN t /\ s = t[n]
    BY <1>4, <1>5, <1>6
  <2>2. CASE i = 1
    BY <2>1, <2>2 DEF Owned
  <2>3. CASE i # 1
    <3>1. i \in 2..Len(s)
      BY <2>3, <1>4
    <3>2. QED
      BY <2>1, <3>1 DEF Good, HeadsOnly
  <2>4. QED
    BY <2>2, <2>3
<1>9. HeadsOnly(u)
  <2> SUFFICES ASSUME NEW m \in DOMAIN u, NEW i \in 2..Len(u[m])
               PROVE  ~u[m][i].own
    BY DEF HeadsOnly
  <2>1. CASE m # n
    BY <2>1, <1>2 DEF Good, HeadsOnly
  <2>2. CASE m = n
    <3>1. i \in 2..(Len(s) + 1) /\ i - 1 \in 1..Len(s)
      BY <2>2, <1>2, <1>3, <1>4
    <3>2. u[m][i] = s[i - 1]
      BY <2>2, <3>1, <1>2, <1>3
    <3>3. QED
      BY <3>1, <3>2, <1>8
  <2>3. QED
    BY <2>1, <2>2
<1>10. \A m \in DOMAIN u : u[m][1].own => m = n
  BY <1>2 DEF Owned
<1>11. Unique(u)
  BY <1>10 DEF Unique
<1>12. r.own => Owned(u)
  BY <1>2, <1>3 DEF Owned
<1>13. QED
  BY <1>7, <1>9, <1>11, <1>12 DEF Good, u

(* The first record of a chain may go.  If it was ours, no record is ours any *)
(* more; if it was not, ours stays.                                           *)
LEMMA RemoveHeadGood ==
  ASSUME NEW t, Good(t), NEW n \in DOMAIN t
  PROVE  /\ Good(RemoveHead(t, n))
         /\ t[n][1].own => ~Owned(RemoveHead(t, n))
         /\ ~t[n][1].own /\ Owned(t) => Owned(RemoveHead(t, n))
<1> DEFINE u == RemoveHead(t, n)
           s == t[n]
<1>1. s \in Seq(NickRec) /\ s # <<>> /\ n \in Nick
  BY DEF Good, Table
<1>2. /\ Len(s) \in Nat /\ Len(s) >= 1
      /\ Tail(s) \in Seq(NickRec)
      /\ Len(Tail(s)) = Len(s) - 1
      /\ Len(s) # 1 => Tail(s) # <<>>
      /\ \A i \in 1..(Len(s) - 1) : Tail(s)[i] = s[i + 1]
  BY <1>1, TailOfChain
<1>3. /\ Len(s) = 1 => DOMAIN u = DOMAIN t \ {n}
      /\ Len(s) # 1 => DOMAIN u = DOMAIN t /\ u[n] = Tail(s)
      /\ \A m \in DOMAIN u : m \in DOMAIN t /\ (m # n => u[m] = t[m])
      /\ \A m \in DOMAIN t : m # n => m \in DOMAIN u
  BY DEF RemoveHead, Put, Restrict
<1>4. \A i \in 2..Len(s) : ~s[i].own
  BY DEF Good, HeadsOnly
<1>5. ASSUME NEW m \in DOMAIN u, m = n
      PROVE  /\ Len(s) \in Nat /\ Len(s) >= 2 /\ u[m] = Tail(s)
             /\ \A i \in 1..Len(u[m]) : ~u[m][i].own
  <2>1. Len(s) # 1 /\ u[m] = Tail(s)
    BY <1>3, <1>5
  <2>2. ASSUME NEW i \in 1..Len(u[m]) PROVE ~u[m][i].own
    <3>1. i \in 1..(Len(s) - 1) /\ i + 1 \in 2..Len(s)
      BY <1>2, <2>1
    <3>2. u[m][i] = s[i + 1]
      BY <1>2, <2>1, <3>1
    <3>3. QED
      BY <1>4, <3>1, <3>2
  <2>3. QED
    BY <1>2, <2>1, <2>2
<1> HIDE DEF u
<1>6. Table(u)
  BY <1>2, <1>3, <1>5 DEF Good, Table
<1>7. HeadsOnly(u)
  <2> SUFFICES ASSUME NEW m \in DOMAIN u, NEW i \in 2..Len(u[m])
               PROVE  ~u[m][i].own
    BY DEF HeadsOnly
  <2>1. CASE m = n
    <3>1. i \in 1..Len(u[m])
      BY <1>2, <1>5, <2>1
    <3>2. QED
      BY <1>5, <2>1, <3>1
  <2>2. CASE m # n
    BY <2>2, <1>3 DEF Good, HeadsOnly
  <2>3. QED
    BY <2>1, <2>2
<1>8. \A m \in DOMAIN u : u[m][1].own => m # n
  <2> SUFFICES ASSUME NEW m \in DOMAIN u, m = n PROVE ~u[m][1].own
    OBVIOUS
  <2>1. 1 \in 1..Len(u[m])
    BY <1>2, <1>5
  <2>2. QED
    BY <1>5, <2>1
<1>9. Unique(u)
  BY <1>3, <1>8 DEF Good, Unique
<1>10. s[1].own => ~Owned(u)
  BY <1>3, <1>8 DEF Owned, Good, Unique
<1>11. ~s[1].own /\ Owned(t) => Owned(u)
  BY <1>3 DEF Owned
<1>12. QED
  BY <1>6, <1>7, <1>9, <1>10, <1>11 DEF Good, u

(* No record is ours in a table that was disowned. *)
LEMMA DisownGood ==
  ASSUME NEW t, Good(t)
  PROVE  Good(Disown(t)) /\ ~Owned(Disown(t))
<1> DEFINE u == Disown(t)
<1>1. DOMAIN u = DOMAIN t
  BY DEF Disown
<1>2. ASSUME NEW n \in DOMAIN t
      PROVE  /\ u[n] \in Seq(NickRec) /\ u[n] # <<>>
             /\ Len(u[n]) >= 1 /\ \A i \in 1..Len(u[n]) : ~u[n][i].own
  <2>1. t[n] \in Seq(NickRec) /\ t[n] # <<>>
    BY DEF Good, Table
  <2>2. Len(t[n]) \in Nat /\ Len(t[n]) >= 1 /\ DOMAIN t[n] = 1..Len(t[n])
    BY <2>1
  <2>3. u[n] = [i \in 1..Len(t[n]) |-> [info |-> t[n][i].info, own |-> FALSE]]
    BY <2>2 DEF Disown
  <2>4. ASSUME NEW i \in 1..Len(t[n])
        PROVE  [info |-> t[n][i].info, own |-> FALSE] \in NickRec
    <3>1. t[n][i] \in NickRec
      BY <2>1
    <3>2. QED
      BY <3>1 DEF NickRec
  <2>5. u[n] \in Seq(NickRec) /\ Len(u[n]) = Len(t[n])
    BY <2>2, <2>3, <2>4
  <2>6. QED
    BY <2>2, <2>3, <2>5
<1> HIDE DEF u
<1>3. Table(u)
  BY <1>1, <1>2 DEF Good, Table
<1>4. \A n \in DOMAIN u : ~u[n][1].own
  BY <1>1, <1>2
<1>5. HeadsOnly(u)
  <2> SUFFICES ASSUME NEW n \in DOMAIN u, NEW i \in 2..Len(u[n])
               PROVE  ~u[n][i].own
    BY DEF HeadsOnly
  <2>1. i \in 1..Len(u[n])
    BY <1>1, <1>2
  <2>2. QED
    BY <1>1, <1>2, <2>1
<1>6. QED
  BY <1>3, <1>4, <1>5 DEF Good, Unique, Owned, u

(* A presence writes the first record of a chain and leaves its mark.  *)
LEMMA WrittenGood ==
  ASSUME NEW t, Good(t), NEW n \in DOMAIN t, NEW info \in Info
  PROVE  LET u == Put(t, n, <<[info |-> info, own |-> t[n][1].own]>> \o Tail(t[n]))
         IN  Good(u) /\ (Owned(t) => Owned(u))
<1> DEFINE r == [info |-> info, own |-> t[n][1].own]
           s == Tail(t[n])
           u == Put(t, n, <<r>> \o s)
<1>1. t[n] \in Seq(NickRec) /\ t[n] # <<>> /\ n \in Nick
  BY DEF Good, Table
<1>2. /\ Len(t[n]) \in Nat /\ Len(t[n]) >= 1
      /\ t[n][1] \in NickRec
      /\ s \in Seq(NickRec)
      /\ Len(s) = Len(t[n]) - 1
      /\ \A i \in 1..(Len(t[n]) - 1) : s[i] = t[n][i + 1]
  BY <1>1, TailOfChain
<1>3. r \in NickRec /\ r.own = t[n][1].own
  BY <1>2 DEF NickRec
<1>4. DOMAIN u = DOMAIN t /\ u[n] = <<r>> \o s /\ \A m \in DOMAIN t : m # n => u[m] = t[m]
  BY DEF Put
<1> HIDE DEF r, s, u
<1>5. /\ <<r>> \o s \in Seq(NickRec) /\ <<r>> \o s # <<>>
      /\ Len(<<r>> \o s) = Len(s) + 1
      /\ (<<r>> \o s)[1] = r
      /\ \A i \in 2..(Len(s) + 1) : (<<r>> \o s)[i] = s[i - 1]
  BY <1>2, <1>3, FrontOfChain
<1>6. Table(u)
  BY <1>4, <1>5 DEF Good, Table
<1>7. \A m \in DOMAIN u : u[m][1].own = t[m][1].own
  BY <1>3, <1>4, <1>5
<1>8. HeadsOnly(u)
  <2> SUFFICES ASSUME NEW m \in DOMAIN u, NEW i \in 2..Len(u[m])
               PROVE  ~u[m][i].own
    BY DEF HeadsOnly
  <2>1. CASE m # n
    BY <2>1, <1>4 DEF Good, HeadsOnly
  <2>2. CASE m = n
    <3>1. i \in 2..(Len(s) + 1) /\ i - 1 \in 1..(Len(t[n]) - 1) /\ i \in 2..Len(t[n]) /\ (i - 1) + 1 = i
      BY <2>2, <1>2, <1>4, <1>5
    <3>2. u[m][i] = s[i - 1]
      BY <2>2, <3>1, <1>4, <1>5
    <3>3. s[i - 1] = t[n][(i - 1) + 1]
      BY <3>1, <1>2
    <3>4. u[m][i] = t[n][i]
      BY <3>1, <3>2, <3>3
    <3>5. QED
      BY <3>1, <3>4 DEF Good, HeadsOnly
  <2>3. QED
    BY <2>1, <2>2
<1>9. Unique(u)
  BY <1>4, <1>7 DEF Good, Unique
<1>10. Owned(t) => Owned(u)
  BY <1>4, <1>7 DEF Owned
<1>11. QED
  BY <1>6, <1>8, <1>9, <1>10 DEF Good, u, r, s

-----------------------------------------------------------------------------
(* Records of the channel. *)

IsChannel(c) ==
  /\ c = [exists |-> c.exists, nick |-> c.nick, joined |-> c.joined, nicks |-> c.nicks,
          topic |-> c.topic, mode |-> c.mode]
  /\ c.topic \in Topic \cup {NULL} /\ c.mode \in Mode \cup {NULL}
  /\ c.exists \in BOOLEAN /\ c.joined \in BOOLEAN /\ c.nick \in Nick

Sound(c) == IsChannel(c) /\ Good(c.nicks) /\ (c.joined => Owned(c.nicks))

LEMMA FreshSound ==
  ASSUME NEW n \in Nick
  PROVE  Sound(NoChannel) /\ Sound(NewChannel(n))
<1>1. Good(NoNicks)
  BY DEF Good, Table, HeadsOnly, Unique, NoNicks
<1>2. QED
  BY <1>1, NickAssumption DEF Sound, IsChannel, NoChannel, NewChannel

(* A table as good as the one it replaces, with a record of ours if that had *)
(* one, leaves the channel sound.                                            *)
LEMMA WithNicksSound ==
  ASSUME NEW c, Sound(c), NEW t, Good(t), Owned(c.nicks) => Owned(t)
  PROVE  Sound(WithNicks(c, t))
  BY DEF Sound, IsChannel, WithNicks

(* Neither the topic nor the mode has a say in the table. *)
LEMMA WithTopicSound ==
  ASSUME NEW c, Sound(c), NEW t \in Topic \cup {NULL}
  PROVE  Sound(WithTopic(c, t))
  BY DEF Sound, IsChannel, WithTopic

LEMMA WithModeSound ==
  ASSUME NEW c, Sound(c), NEW m \in Mode
  PROVE  Sound(WithMode(c, m))
  BY DEF Sound, IsChannel, WithMode

(* The first record of a chain of a good table. *)
LEMMA HeadOfChain ==
  ASSUME NEW t, Good(t), NEW n \in DOMAIN t
  PROVE  /\ n \in Nick
         /\ Head(t[n]) = t[n][1] /\ t[n][1] \in NickRec
         /\ t[n][1].info \in Info /\ t[n][1].own \in BOOLEAN
<1>1. t[n] \in Seq(NickRec) /\ t[n] # <<>> /\ n \in Nick
  BY DEF Good, Table
<1>2. t[n][1] \in NickRec /\ Head(t[n]) = t[n][1]
  BY <1>1, TailOfChain
<1>3. QED
  BY <1>1, <1>2 DEF NickRec

(* Our own record, put first in a table that was disowned. *)
LEMMA OwnPutGood ==
  ASSUME NEW t, Good(t), NEW n \in Nick, NEW info \in Info
  PROVE  LET u == PutFirst(Disown(t), n, [info |-> info, own |-> TRUE])
         IN  Good(u) /\ Owned(u)
<1>1. [info |-> info, own |-> TRUE] \in NickRec
  BY DEF NickRec
<1>2. Good(Disown(t)) /\ ~Owned(Disown(t))
  BY DisownGood
<1>3. QED
  BY <1>1, <1>2, PutFirstGood

(* A change of nick: the record of channel->nick becomes ours; another record *)
(* that is ours is the only one, so it may go to the front of its new chain.  *)
LEMMA RenamedSound ==
  ASSUME NEW c, Sound(c), NEW old, NEW new \in Nick
  PROVE  Sound(Renamed(c, old, new))
<1>1. CASE old \notin DOMAIN c.nicks
  BY <1>1 DEF Renamed
<1>2. CASE old \in DOMAIN c.nicks
  <2> DEFINE r == Head(c.nicks[old])
             t == RemoveHead(c.nicks, old)
  <2>1. Good(c.nicks)
    BY DEF Sound
  <2>2. r = c.nicks[old][1] /\ r \in NickRec /\ r.info \in Info /\ r.own \in BOOLEAN
    BY <1>2, <2>1, HeadOfChain
  <2>3. /\ Good(t)
        /\ r.own => ~Owned(t)
        /\ ~r.own /\ Owned(c.nicks) => Owned(t)
    BY <1>2, <2>1, <2>2, RemoveHeadGood
  <2>4. Renamed(c, old, new) =
          IF old = c.nick
          THEN [exists |-> c.exists, nick |-> new, joined |-> c.joined,
                nicks |-> PutFirst(Disown(t), new, [info |-> r.info, own |-> TRUE]),
                topic |-> c.topic, mode |-> c.mode]
          ELSE WithNicks(c, IF r.own THEN PutFirst(t, new, r) ELSE PutLast(t, new, r))
    BY <1>2 DEF Renamed
  <2> HIDE DEF r, t
  <2>5. CASE old = c.nick
    <3> DEFINE u == PutFirst(Disown(t), new, [info |-> r.info, own |-> TRUE])
    <3>1. Good(u) /\ Owned(u)
      BY <2>2, <2>3, OwnPutGood
    <3>2. Renamed(c, old, new) =
            [exists |-> c.exists, nick |-> new, joined |-> c.joined, nicks |-> u,
             topic |-> c.topic, mode |-> c.mode]
      BY <2>4, <2>5
    <3> HIDE DEF u
    <3>3. QED
      BY <3>1, <3>2 DEF Sound, IsChannel
  <2>6. CASE old # c.nick /\ r.own
    <3>1. Good(PutFirst(t, new, r)) /\ Owned(PutFirst(t, new, r))
      BY <2>2, <2>3, <2>6, PutFirstGood
    <3>2. Renamed(c, old, new) = WithNicks(c, PutFirst(t, new, r))
      BY <2>4, <2>6
    <3>3. QED
      BY <3>1, <3>2, WithNicksSound
  <2>7. CASE old # c.nick /\ ~r.own
    <3>1. Good(PutLast(t, new, r)) /\ (Owned(t) => Owned(PutLast(t, new, r)))
      BY <2>2, <2>3, <2>7, PutLastGood
    <3>2. Renamed(c, old, new) = WithNicks(c, PutLast(t, new, r))
      BY <2>4, <2>7
    <3>3. QED
      BY <2>3, <2>7, <3>1, <3>2, WithNicksSound
  <2>8. QED
    BY <2>2, <2>5, <2>6, <2>7
<1>3. QED
  BY <1>1, <1>2

(* Our own join, under the nick asked for or under one the room forces. *)
LEMMA OwnJoinSound ==
  ASSUME NEW c, Sound(c), NEW n \in Nick, NEW info \in Info, NEW forced \in BOOLEAN
  PROVE  Sound(OwnJoin(c, n, info, forced))
<1> DEFINE u == PutFirst(Disown(c.nicks), n, [info |-> info, own |-> TRUE])
           j == [exists |-> c.exists, nick |-> c.nick, joined |-> TRUE, nicks |-> u,
                topic |-> c.topic, mode |-> c.mode]
<1>1. Good(u) /\ Owned(u)
  BY OwnPutGood DEF Sound
<1>2. OwnJoin(c, n, info, forced) =
        IF c.joined THEN c ELSE IF forced THEN Renamed(j, c.nick, n) ELSE j
  BY DEF OwnJoin
<1> HIDE DEF u
<1>3. Sound(j)
  BY <1>1 DEF Sound, IsChannel
<1> HIDE DEF j
<1>4. Sound(Renamed(j, c.nick, n))
  BY <1>3, RenamedSound
<1>5. QED
  BY <1>2, <1>3, <1>4

(* Our own join, when the rename reads the string that it freed: whatever it *)
(* reads, the record of ours is the only one and the first of its chain.     *)
LEMMA OwnJoinFreedSound ==
  ASSUME NEW c, Sound(c), NEW info \in Info, NEW key \in Nick, NEW nick \in Nick
  PROVE  Sound(OwnJoinFreed(c, info, key, nick))
<1> DEFINE u == PutFirst(Disown(c.nicks), key, [info |-> info, own |-> TRUE])
<1>1. Good(u) /\ Owned(u)
  BY OwnPutGood DEF Sound
<1>2. OwnJoinFreed(c, info, key, nick) =
        [exists |-> c.exists, nick |-> nick, joined |-> TRUE, nicks |-> u,
         topic |-> c.topic, mode |-> c.mode]
  BY DEF OwnJoinFreed
<1> HIDE DEF u
<1>3. QED
  BY <1>1, <1>2 DEF Sound, IsChannel

(* An available presence. *)
LEMMA PresentedSound ==
  ASSUME NEW c, Sound(c), NEW n \in Nick, NEW info \in Info,
         NEW own \in BOOLEAN, NEW forced \in BOOLEAN
  PROVE  Sound(Presented(c, n, info, own, forced))
<1>1. Good(c.nicks)
  BY DEF Sound
<1>2. CASE n \in DOMAIN c.nicks
  <2> DEFINE u == Put(c.nicks, n,
                      <<[info |-> info, own |-> c.nicks[n][1].own]>> \o Tail(c.nicks[n]))
  <2>1. Good(u) /\ (Owned(c.nicks) => Owned(u))
    BY <1>1, <1>2, WrittenGood
  <2>2. Presented(c, n, info, own, forced) = WithNicks(c, u)
    BY <1>2 DEF Presented, SetInfo
  <2> HIDE DEF u
  <2>3. QED
    BY <2>1, <2>2, WithNicksSound
<1>3. CASE n \notin DOMAIN c.nicks /\ (own \/ n = c.nick)
  BY <1>3, OwnJoinSound DEF Presented
<1>4. CASE n \notin DOMAIN c.nicks /\ ~(own \/ n = c.nick)
  <2> DEFINE r == [info |-> info, own |-> FALSE]
  <2>1. r \in NickRec /\ ~r.own
    BY DEF NickRec
  <2>2. Presented(c, n, info, own, forced) = WithNicks(c, PutLast(c.nicks, n, r))
    BY <1>4 DEF Presented
  <2> HIDE DEF r
  <2>3. QED
    BY <1>1, <2>1, <2>2, PutLastGood, WithNicksSound
<1>5. QED
  BY <1>2, <1>3, <1>4

-----------------------------------------------------------------------------
(* The invariant. *)

ChannelInv ==
  /\ connected \in BOOLEAN
  /\ Sound(channel)
  /\ sent \in Seq(Stanza)

LEMMA SentType ==
  /\ <<>> \in Seq(Stanza)
  /\ \A n \in Nick : <<Enter(n)>> \in Seq(Stanza) /\ <<Update(n)>> \in Seq(Stanza)
                     /\ <<Leave(n)>> \in Seq(Stanza) /\ <<Leave(n), Enter(n)>> \in Seq(Stanza)
<1>1. \A n \in Nick : Enter(n) \in Stanza /\ Update(n) \in Stanza /\ Leave(n) \in Stanza
  BY DEF Stanza, Enter, Update, Leave
<1>2. QED
  BY <1>1

(* What the administration commands and the answers of own_join send. *)
LEMMA RequestType ==
  /\ Say \in Stanza /\ Features \in Stanza /\ List \in Stanza
  /\ Invite \in Stanza /\ Destroy \in Stanza
  /\ \A t \in Topic \cup {NULL} : Subject(t) \in Stanza
  /\ \A m \in Mode : Configure(m) \in Stanza
  /\ \A n \in Nick, rank \in Rank : Role(n, rank) \in Stanza
  /\ \A j \in Jid, rank \in Rank : Affiliation(j, rank) \in Stanza
  BY DEF Stanza, Say, Features, List, Invite, Destroy, Subject, Configure, Role, Affiliation

LEMMA AvailableSends ==
  ASSUME NEW created \in BOOLEAN, NEW c, NEW d
  PROVE  (IF created THEN <<Form>> ELSE <<>>) \o JoinSends(c, d) \in Seq(Stanza)
<1>1. Form \in Stanza /\ Features \in Stanza
  BY DEF Stanza, Form, Features
<1>2. (IF created THEN <<Form>> ELSE <<>>) \in Seq(Stanza)
  BY <1>1
<1>3. JoinSends(c, d) \in Seq(Stanza)
  BY <1>1 DEF JoinSends
<1>4. QED
  BY <1>2, <1>3

LEMMA ChannelInitInv == ChannelInit => ChannelInv
  BY NickAssumption, FreshSound, SentType DEF ChannelInit, ChannelInv

(* A departure: ours takes the channel away, and another's is not ours. *)
LEMMA DepartsSound ==
  ASSUME ChannelInv, NEW n, NEW kicked \in BOOLEAN, Departs(n, kicked)
  PROVE  Sound(channel') /\ sent' \in Seq(Stanza)
<1>1. Sound(channel) /\ Good(channel.nicks) /\ channel.nick \in Nick
  BY DEF ChannelInv, Sound, IsChannel
<1>2. CASE n \notin DOMAIN channel.nicks
  BY <1>1, <1>2, SentType DEF Departs
<1>3. CASE n \in DOMAIN channel.nicks /\ channel.nicks[n][1].own
  BY <1>1, <1>3, SentType, FreshSound DEF Departs
<1>4. CASE n \in DOMAIN channel.nicks /\ ~channel.nicks[n][1].own
  <2>1. channel' = WithNicks(channel, RemoveHead(channel.nicks, n)) /\ sent' = <<>>
    BY <1>4 DEF Departs
  <2>2. /\ Good(RemoveHead(channel.nicks, n))
        /\ Owned(channel.nicks) => Owned(RemoveHead(channel.nicks, n))
    BY <1>1, <1>4, RemoveHeadGood
  <2>3. QED
    BY <1>1, <2>1, <2>2, WithNicksSound, SentType
<1>5. QED
  BY <1>2, <1>3, <1>4

(* A command that only asks the room leaves the channel as it is. *)
LEMMA AskInv ==
  ASSUME ChannelInv, NEW stanza \in Stanza, Ask(stanza)
  PROVE  ChannelInv'
<1>1. <<stanza>> \in Seq(Stanza)
  OBVIOUS
<1>2. QED
  BY <1>1 DEF ChannelInv, Ask

LEMMA ChannelNextInv == ChannelInv /\ [ChannelNext]_channel_vars => ChannelInv'
<1> SUFFICES ASSUME ChannelInv, [ChannelNext]_channel_vars PROVE ChannelInv'
  OBVIOUS
<1>0. /\ connected \in BOOLEAN /\ Sound(channel) /\ channel.nick \in Nick
      /\ sent \in Seq(Stanza)
  BY DEF ChannelInv, Sound, IsChannel
<1>1. CASE muc_join(FirstNick)
  BY <1>0, <1>1, FreshSound, SentType, NickAssumption DEF muc_join, ChannelInv
<1>2. CASE muc_part
  BY <1>0, <1>2, FreshSound, SentType DEF muc_part, ChannelInv
<1>3. CASE Cycle
  BY <1>0, <1>3, FreshSound, SentType DEF Cycle, ChannelInv
<1>4. ASSUME NEW n \in Nick, muc_nick(n) PROVE ChannelInv'
  BY <1>0, <1>4, SentType DEF muc_nick, ChannelInv
<1>5. CASE sig_set_presence
  BY <1>0, <1>5, SentType DEF sig_set_presence, ChannelInv
<1>6. ASSUME NEW n \in Nick, NEW info \in Info, NEW own \in BOOLEAN, NEW forced \in BOOLEAN,
             NEW created \in BOOLEAN, available(n, info, own, forced, created)
      PROVE  ChannelInv'
  <2>1. Sound(channel')
    <3>1. CASE RenamesItself(channel, n, forced)
      <4>1. PICK key \in Nick, nick \in Nick :
              channel' = OwnJoinFreed(channel, info, key, nick)
        BY <1>6, <3>1 DEF available
      <4>2. QED
        BY <1>0, <4>1, OwnJoinFreedSound
    <3>2. CASE ~RenamesItself(channel, n, forced)
      <4>1. channel' = Presented(channel, n, info, own, forced)
        BY <1>6, <3>2 DEF available
      <4>2. QED
        BY <1>0, <4>1, PresentedSound
    <3>3. QED
      BY <3>1, <3>2
  <2>2. sent' \in Seq(Stanza)
    BY <1>6, AvailableSends DEF available
  <2>3. QED
    BY <1>0, <1>6, <2>1, <2>2 DEF available, ChannelInv
<1>7. ASSUME NEW n \in Nick, NEW new \in Nick, NickChange(n, new) PROVE ChannelInv'
  <2>1. Sound(Renamed(channel, n, new))
    BY <1>0, RenamedSound
  <2>2. QED
    BY <1>0, <1>7, <2>1, SentType DEF NickChange, ChannelInv
<1>8. ASSUME NEW n \in Nick, NEW code \in Code, unavailable(n, code) PROVE ChannelInv'
  <2>1. connected' = connected
    BY <1>8 DEF unavailable
  <2>2. CASE \E kicked \in BOOLEAN : Departs(n, kicked)
    BY <1>0, <2>1, <2>2, DepartsSound DEF ChannelInv
  <2>3. CASE channel' = channel /\ sent' = <<>>
    BY <1>0, <2>1, <2>3, SentType DEF ChannelInv
  <2>4. QED
    BY <1>8, <2>2, <2>3 DEF unavailable
<1>9. ASSUME NEW n \in Nick \cup {NULL}, NEW code \in Error, error_presence(n, code)
      PROVE  ChannelInv'
  <2>1. connected' = connected
    BY <1>9 DEF error_presence
  <2>2. CASE channel' = channel /\ sent' = <<>>
    BY <1>0, <2>1, <2>2, SentType DEF ChannelInv
  <2>3. CASE channel' = NoChannel /\ sent' = <<Leave(channel.nick)>>
    BY <1>0, <2>1, <2>3, FreshSound, SentType DEF ChannelInv
  <2>4. CASE /\ ~channel.joined
             /\ channel' = [exists |-> TRUE, nick |-> NextNick(channel.nick),
                            joined |-> FALSE, nicks |-> channel.nicks,
                            topic |-> channel.topic, mode |-> channel.mode]
             /\ sent' = <<Enter(NextNick(channel.nick))>>
    <3>1. NextNick(channel.nick) \in Nick
      BY <1>0, NickAssumption DEF NextNick
    <3>2. Sound(channel')
      BY <1>0, <2>4, <3>1 DEF Sound, IsChannel
    <3>3. QED
      BY <1>0, <2>1, <2>4, <3>1, <3>2, SentType DEF ChannelInv
  <2>5. QED
    BY <1>9, <2>2, <2>3, <2>4 DEF error_presence
<1>10. CASE LinkLost
  BY <1>0, <1>10, FreshSound, SentType DEF LinkLost, ChannelInv
<1>11. CASE sig_connected
  BY <1>0, <1>11, FreshSound, SentType, NickAssumption DEF sig_connected, ChannelInv
<1>12. CASE \E stanza \in Stanza : Ask(stanza)
  BY <1>12, AskInv
<1>13. ASSUME NEW t \in Topic \cup {NULL}, topic(t) PROVE ChannelInv'
  BY <1>0, <1>13, SentType, WithTopicSound DEF topic, ChannelInv
<1>14. ASSUME NEW m \in Mode, sig_features(m) PROVE ChannelInv'
  BY <1>0, <1>14, SentType, WithModeSound DEF sig_features, ChannelInv
<1>15. CASE sig_recv_message \/ sig_recv_iq
  BY <1>0, <1>15, SentType
     DEF sig_recv_message, sig_recv_iq, Printed, ChannelInv
<1>16. CASE invite
  BY <1>1, <1>16 DEF invite
<1>17. CASE Stays
  BY <1>1, <1>2, <1>3, <1>4, <1>5, <1>17 DEF Stays
<1>18. CASE Asks
  BY <1>12, <1>18, RequestType
     DEF Asks, send_message, cmd_me, cmd_topic, disco_request, muc_set_mode, muc_set_role,
         muc_set_affiliation, muc_get_role, muc_get_affiliation, cmd_invite, muc_destroy
<1>19. CASE Presences
  BY <1>6, <1>7, <1>8, <1>9, <1>19 DEF Presences
<1>20. CASE Messages
  BY <1>13, <1>14, <1>15, <1>16, <1>20 DEF Messages
<1>21. CASE UNCHANGED channel_vars
  BY <1>0, <1>21 DEF channel_vars, ChannelInv
<1>22. QED
  BY <1>10, <1>11, <1>17, <1>18, <1>19, <1>20, <1>21 DEF ChannelNext

LEMMA ChannelAlways == ChannelSpec => []ChannelInv
<1>1. ChannelInit => ChannelInv
  BY ChannelInitInv
<1>2. ChannelInv /\ [ChannelNext]_channel_vars => ChannelInv'
  BY ChannelNextInv
<1>3. QED
  BY <1>1, <1>2, PTL DEF ChannelSpec

-----------------------------------------------------------------------------
(* The theorems. *)

(* The variables keep their types, and no chain of the table of nicks is ever *)
(* empty, whatever the user does and the room sends.                          *)
THEOREM ChannelTypeCorrect == ChannelSpec => []TypeOK
<1>1. ChannelInv => TypeOK
  BY DEF ChannelInv, Sound, IsChannel, Good, Table, TypeOK
<1>2. QED
  BY <1>1, ChannelAlways, PTL

(* A joined room always has exactly one record of ours, the first of its      *)
(* chain: the one that nick_part and nick_kicked find for the nick under      *)
(* which it lies.  That holds when status 210 makes own_join rename the       *)
(* record to its own freed string too, whatever the string reads then: what   *)
(* is lost there is the nick, not the record.                                 *)
THEOREM OwnRecordKept == ChannelSpec => []OwnRecord
<1>1. ChannelInv => OwnRecord
  BY DEF ChannelInv, Sound, Good, HeadsOnly, Unique, Owned,
         OwnRecord, OwnFirst, OwnWhenJoined, OwnOnce
<1>2. QED
  BY <1>1, ChannelAlways, PTL

=============================================================================
