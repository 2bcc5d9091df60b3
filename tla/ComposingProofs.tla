---------------------------- MODULE ComposingProofs ----------------------------
(***************************************************************************)
(* Theorems about Composing, for any timeout and any number of timers and  *)
(* of stanzas in flight.                                                   *)
(***************************************************************************)
EXTENDS Composing, TLAPS

TimerSet == [age : 0..COMPOSING_TIMEOUT, of : {"query", "freed"}]

LEMMA Concatenated ==
  ASSUME NEW A, NEW a \in Seq(A), NEW b \in Seq(A)
  PROVE  /\ a \o b \in Seq(A) /\ Len(a \o b) = Len(a) + Len(b)
         /\ \A j \in 1..Len(a) : (a \o b)[j] = a[j]
         /\ \A j \in 1..Len(b) : (a \o b)[Len(a) + j] = b[j]
<1>1. a \o b \in Seq(A) /\ Len(a \o b) = Len(a) + Len(b)
  OBVIOUS
<1>2. \A j \in 1..Len(a) : (a \o b)[j] = a[j]
  OBVIOUS
<1>3. \A j \in 1..Len(b) : (a \o b)[Len(a) + j] = b[j]
  OBVIOUS
<1> QED BY <1>1, <1>2, <1>3

(* What is left of a sequence without one element. *)
LEMMA RemoveAtLeaves ==
  ASSUME NEW A, NEW s \in Seq(A), NEW i \in 1..Len(s)
  PROVE  /\ RemoveAt(s, i) \in Seq(A)
         /\ Len(RemoveAt(s, i)) = Len(s) - 1
         /\ \A j \in 1..Len(s) : j # i =>
              \E k \in 1..Len(RemoveAt(s, i)) : RemoveAt(s, i)[k] = s[j]
         /\ \A k \in 1..Len(RemoveAt(s, i)) :
              \E j \in 1..Len(s) : RemoveAt(s, i)[k] = s[j]
<1>0. PICK a, b : a = SubSeq(s, 1, i - 1) /\ b = SubSeq(s, i + 1, Len(s))
  OBVIOUS
<1>1. Len(s) \in Nat /\ i \in Nat
  OBVIOUS
<1>2. /\ a \in Seq(A) /\ Len(a) = i - 1
      /\ \A j \in 1..(i - 1) : a[j] = s[j]
  BY <1>0, <1>1
<1>3. /\ b \in Seq(A) /\ Len(b) = Len(s) - i
      /\ \A j \in 1..(Len(s) - i) : b[j] = s[i + j]
  BY <1>0, <1>1
<1>4. RemoveAt(s, i) = a \o b
  BY <1>0 DEF RemoveAt
<1>5. /\ a \o b \in Seq(A) /\ Len(a \o b) = Len(s) - 1
      /\ \A j \in 1..Len(a) : (a \o b)[j] = a[j]
      /\ \A j \in 1..Len(b) : (a \o b)[Len(a) + j] = b[j]
  <2>1. /\ a \o b \in Seq(A) /\ Len(a \o b) = Len(a) + Len(b)
        /\ \A j \in 1..Len(a) : (a \o b)[j] = a[j]
        /\ \A j \in 1..Len(b) : (a \o b)[Len(a) + j] = b[j]
    <3>1. a \in Seq(A) /\ b \in Seq(A)
      BY <1>2, <1>3
    <3> QED BY <3>1, Concatenated
  <2>2. Len(a) + Len(b) = Len(s) - 1
    BY <1>1, <1>2, <1>3
  <2> QED BY <2>1, <2>2
<1>6. ASSUME NEW j \in 1..Len(s), j < i
      PROVE  j \in 1..Len(a \o b) /\ (a \o b)[j] = s[j]
  <2>1. j \in 1..(i - 1) /\ j \in 1..(Len(s) - 1)
    BY <1>1, <1>6
  <2>2. a[j] = s[j] /\ j \in 1..Len(a)
    BY <1>2, <2>1
  <2>3. (a \o b)[j] = a[j]
    BY <1>5, <2>2
  <2> QED BY <1>5, <2>1, <2>2, <2>3
<1>7. ASSUME NEW j \in 1..Len(s), j > i
      PROVE  j - 1 \in 1..Len(a \o b) /\ (a \o b)[j - 1] = s[j]
  <2>1. j - i \in 1..(Len(s) - i) /\ i + (j - i) = j /\ (i - 1) + (j - i) = j - 1
    BY <1>1, <1>7
  <2>2. (a \o b)[j - 1] = b[j - i] /\ b[j - i] = s[j]
    BY <1>1, <1>2, <1>3, <1>5, <2>1
  <2>3. j - 1 \in 1..(Len(s) - 1)
    BY <1>1, <1>7
  <2> QED BY <1>5, <2>2, <2>3
<1>8. ASSUME NEW j \in 1..Len(s), j # i
      PROVE  \E k \in 1..Len(a \o b) : (a \o b)[k] = s[j]
  <2>1. CASE j < i
    BY <1>6, <2>1
  <2>2. CASE j > i
    BY <1>7, <2>2
  <2> QED BY <1>1, <1>8, <2>1, <2>2
<1>9. ASSUME NEW k \in 1..Len(a \o b)
      PROVE  \E j \in 1..Len(s) : (a \o b)[k] = s[j]
  <2>1. CASE k < i
    <3>1. k \in 1..(i - 1) /\ k \in 1..Len(s) /\ k \in 1..Len(a)
      BY <1>1, <1>2, <2>1
    <3> QED BY <1>2, <1>5, <3>1
  <2>2. CASE k >= i
    <3>1. k + 1 \in 1..Len(s) /\ k + 1 > i /\ (k + 1) - 1 = k
      BY <1>1, <1>5, <2>2
    <3> QED BY <1>7, <3>1
  <2> QED BY <1>1, <1>5, <2>1, <2>2
<1>10. /\ \A j \in 1..Len(s) : j # i => \E k \in 1..Len(a \o b) : (a \o b)[k] = s[j]
       /\ \A k \in 1..Len(a \o b) : \E j \in 1..Len(s) : (a \o b)[k] = s[j]
  BY <1>8, <1>9
<1>11. a \o b \in Seq(A) /\ Len(a \o b) = Len(s) - 1
  BY <1>5
<1>12. PICK r : r = a \o b
  OBVIOUS
<1>13. /\ r \in Seq(A) /\ Len(r) = Len(s) - 1
       /\ \A j \in 1..Len(s) : j # i => \E k \in 1..Len(r) : r[k] = s[j]
       /\ \A k \in 1..Len(r) : \E j \in 1..Len(s) : r[k] = s[j]
  BY <1>10, <1>11, <1>12, Zenon
<1>14. RemoveAt(s, i) = r
  BY <1>4, <1>12
<1> QED BY <1>13, <1>14, Zenon

-----------------------------------------------------------------------------
(* Records *)

Told(p, x)    == [p EXCEPT !.told = x]
Saying(p, x)  == [p EXCEPT !.said = x]
Timed(q, t)   == [q EXCEPT !.time = t]
Marked(q, v)  == [q EXCEPT !.visible = v]
Aged(t, age)  == [t EXCEPT !.age = age]
OwnedBy(t, x) == [t EXCEPT !.of = x]

LEMMA ToldType ==
  ASSUME NEW p \in Peer, NEW x \in {"idle", "typing", "unsent", "unasked"}
  PROVE  /\ Told(p, x) \in Peer /\ Told(p, x).told = x
         /\ Told(p, x).online = p.online /\ Told(p, x).said = p.said
BY DEF Told, Peer

LEMMA SayingType ==
  ASSUME NEW p \in Peer, NEW x \in {NULL, "idle", "composing"}
  PROVE  /\ Saying(p, x) \in Peer /\ Saying(p, x).said = x
         /\ Saying(p, x).online = p.online /\ Saying(p, x).told = p.told
BY DEF Saying, Peer

LEMMA TimedType ==
  ASSUME NEW q \in Query, NEW t \in 0..COMPOSING_TIMEOUT \cup {NULL}
  PROVE  Timed(q, t) \in Query /\ Timed(q, t).time = t /\ Timed(q, t).visible = q.visible
BY DEF Timed, Query

LEMMA MarkedType ==
  ASSUME NEW q \in Query, NEW v \in BOOLEAN
  PROVE  Marked(q, v) \in Query /\ Marked(q, v).visible = v /\ Marked(q, v).time = q.time
BY DEF Marked, Query

LEMMA AgedType ==
  ASSUME NEW t \in TimerSet, NEW age \in 0..COMPOSING_TIMEOUT
  PROVE  Aged(t, age) \in TimerSet /\ Aged(t, age).of = t.of
BY DEF Aged, TimerSet

LEMMA OwnedByType ==
  ASSUME NEW t \in TimerSet, NEW x \in {"query", "freed"}
  PROVE  OwnedBy(t, x) \in TimerSet /\ OwnedBy(t, x).of = x
BY DEF OwnedBy, TimerSet

LEMMA TimerType ==
  Timer("query") \in TimerSet /\ Timer("query").of = "query"
BY TimeoutAssumption DEF Timer, TimerSet

(* A query is no null pointer, and a time is none either. *)
LEMMA NotNull ==
  /\ \A q \in Query : q # NULL
  /\ \A n \in Nat : n # NULL
  /\ NULL # "composing" /\ NULL # "idle"
BY NullAssumption

LEMMA OlderType ==
  /\ \A age \in 0..COMPOSING_TIMEOUT : Older(age) \in 0..COMPOSING_TIMEOUT
  /\ Older(NULL) = NULL
<1>1. ASSUME NEW age \in 0..COMPOSING_TIMEOUT PROVE Older(age) \in 0..COMPOSING_TIMEOUT
  <2>1. age # NULL
    BY TimeoutAssumption, NotNull
  <2> QED BY <2>1, TimeoutAssumption DEF Older
<1> QED BY <1>1 DEF Older

(* The mark that a message of the peer leaves says what the peer said. *)
LEMMA ShownSays ==
  ASSUME NEW m \in Message
  PROVE  /\ Shown(m) <=> Says(m) = "composing"
         /\ Shown(m) \in BOOLEAN /\ Says(m) \in {"composing", "idle"}
<1>1. /\ m.body \in BOOLEAN /\ m.x \in {"none", "empty", "composing"}
      /\ m.state \in {"none", "active", "composing"}
      /\ m.body => m.state = "none"
      /\ ~m.body /\ m.x = "empty" => m.state # "composing"
      /\ ~m.body /\ m.x = "composing" => m.state # "active"
  BY DEF Message
<1>2. Shown(m) <=> ~m.body /\ "composing" \in {m.x, m.state}
  BY <1>1 DEF Shown, EventShown
<1> QED BY <1>2 DEF Says, Shown, EventShown

-----------------------------------------------------------------------------
(* The inductive invariant.  A peer that has said something since the query  *)
(* exists has sent it in the last stanza, which is either in flight or shown. *)

LastSaid(stanzas, said) ==
  LET m == stanzas[Len(stanzas)]
  IN  m \in Message /\ (Shown(m) <=> said = "composing")

MarkFollows ==
  /\ ~session => peer.said = NULL
  /\ session /\ query # NULL /\ peer.said # NULL =>
       IF down = <<>> THEN query.visible <=> peer.said = "composing"
       ELSE LastSaid(down, peer.said)

(* No timer holds the memory of a query when there is none. *)
TimersOwned == query = NULL => \A i \in DOMAIN timers : timers[i].of = "freed"

ComposingInv == TypeOK /\ TypingIsWatched /\ MarkFollows /\ TimersOwned

LEMMA ForgottenType ==
  ASSUME NEW told \in {"idle", "typing", "unsent", "unasked"}, NEW why \in {"unsent", "unasked"}
  PROVE  Forgotten(told, why) \in {"idle", "unsent", "unasked"} /\ Forgotten(told, why) # "typing"
BY DEF Forgotten

LEMMA Types ==
  ASSUME TypeOK
  PROVE  /\ peer \in Peer /\ peer.told \in {"idle", "typing", "unsent", "unasked"} /\ peer.online \in BOOLEAN
         /\ peer.said \in {NULL, "idle", "composing"}
         /\ query # NULL => /\ query \in Query /\ query.visible \in BOOLEAN
                            /\ query.time \in 0..COMPOSING_TIMEOUT \cup {NULL}
         /\ timers \in Seq(TimerSet) /\ DOMAIN timers = 1..Len(timers) /\ Len(timers) \in Nat
         /\ down \in Seq(Message \cup {OFFLINE})
         /\ session \in BOOLEAN /\ asked \in BOOLEAN /\ keylog \in BOOLEAN
BY DEF TypeOK, Peer, Query, TimerSet

(* "xmpp composing start" and "xmpp composing stop". *)
LEMMA StartType ==
  ASSUME TypeOK, sig_composing_start
  PROVE  peer' \in Peer /\ peer'.said = peer.said
<1>1. peer' = IF asked /\ peer.online THEN Told(peer, "typing") ELSE peer
  BY DEF sig_composing_start, Told
<1> QED BY <1>1, Types, ToldType

LEMMA StopType ==
  ASSUME TypeOK, sig_composing_stop
  PROVE  peer' \in Peer /\ peer'.said = peer.said /\ peer'.told # "typing"
<1>1. PICK told : told = IF asked THEN "idle" ELSE Forgotten(peer.told, "unasked")
  OBVIOUS
<1>2. told \in {"idle", "unsent", "unasked"} /\ told # "typing"
  <2>1. peer.told \in {"idle", "typing", "unsent", "unasked"}
    BY Types
  <2> QED BY <1>1, <2>1, ForgottenType
<1>3. peer' = Told(peer, told)
  BY <1>1 DEF sig_composing_stop, Told
<1>4. peer \in Peer
  BY Types
<1> QED BY <1>2, <1>3, <1>4, ToldType

(* What says nothing of the peer and keeps the mark keeps its meaning. *)
LEMMA MarkKept ==
  ASSUME MarkFollows, session' = session, down' = down, peer'.said = peer.said,
         query' # NULL => query # NULL /\ query'.visible = query.visible
  PROVE  MarkFollows'
BY DEF MarkFollows, LastSaid

-----------------------------------------------------------------------------
(* The user *)

LEMMA KeyPressedInv ==
  ASSUME ComposingInv, KeyPressed
  PROVE  ComposingInv'
<1> USE DEF ComposingInv
<1>1. /\ session /\ keylog /\ query # NULL
      /\ UNCHANGED <<session, asked, keylog, down>>
  BY DEF KeyPressed
<1>2. query \in Query /\ timers \in Seq(TimerSet) /\ Len(timers) \in Nat
  BY <1>1, Types
<1>3. query' = Timed(query, 0)
  BY DEF KeyPressed, Timed
<1>4. query' \in Query /\ query'.time = 0 /\ query'.visible = query.visible /\ query' # NULL
      /\ query'.time # NULL
  <2>1. 0 \in 0..COMPOSING_TIMEOUT \cup {NULL}
    BY TimeoutAssumption
  <2> QED BY <1>2, <1>3, <2>1, TimedType, NotNull
<1>5. CASE /\ query.time = NULL /\ Len(timers) < MaxTimers
           /\ timers' = Append(timers, Timer("query")) /\ sig_composing_start
  <2>1. peer' \in Peer /\ peer'.said = peer.said
    BY <1>5, StartType
  <2>2. /\ timers' \in Seq(TimerSet) /\ Len(timers') = Len(timers) + 1
        /\ timers'[Len(timers) + 1] = Timer("query")
        /\ Len(timers) + 1 \in DOMAIN timers'
    BY <1>2, <1>5, TimerType
  <2>3. TypeOK'
    <3>1. Len(timers') <= MaxTimers
      BY <1>2, <1>5, <2>2, BoundAssumption
    <3> QED BY <1>1, <1>4, <2>1, <2>2, <3>1 DEF TypeOK, TimerSet
  <2>4. TypingIsWatched'
    BY <1>1, <1>4, <2>2, TimerType DEF TypingIsWatched
  <2>5. MarkFollows' /\ TimersOwned'
    BY <1>1, <1>4, <2>1, MarkKept DEF TimersOwned
  <2> QED BY <2>3, <2>4, <2>5
<1>6. CASE query.time # NULL /\ UNCHANGED <<timers, peer>>
  <2>1. TypeOK'
    BY <1>1, <1>4, <1>6 DEF TypeOK
  <2>2. TypingIsWatched'
    BY <1>1, <1>4, <1>6 DEF TypingIsWatched
  <2>3. MarkFollows' /\ TimersOwned'
    BY <1>1, <1>4, <1>6, MarkKept DEF TimersOwned
  <2> QED BY <2>1, <2>2, <2>3
<1> QED BY <1>5, <1>6 DEF KeyPressed

LEMMA ReturnPressedInv ==
  ASSUME ComposingInv, ReturnPressed
  PROVE  ComposingInv'
<1> USE DEF ComposingInv
<1>1. /\ session /\ query # NULL /\ UNCHANGED <<session, timers, asked, keylog, down>>
  BY DEF ReturnPressed
<1>2. query' = Timed(query, NULL) /\ query \in Query
  BY <1>1, Types DEF ReturnPressed, Timed
<1>3. query' \in Query /\ query'.visible = query.visible
  BY <1>2, TimedType
<1>4. PICK sent \in BOOLEAN :
        peer' = Told(peer, IF sent THEN "idle" ELSE Forgotten(peer.told, "unsent"))
  BY DEF ReturnPressed, Told
<1>5. PICK told : told = IF sent THEN "idle" ELSE Forgotten(peer.told, "unsent")
  OBVIOUS
<1>6. told \in {"idle", "unsent", "unasked"} /\ told # "typing" /\ peer \in Peer
  <2>1. peer.told \in {"idle", "typing", "unsent", "unasked"} /\ peer \in Peer
    BY Types
  <2> QED BY <1>5, <2>1, ForgottenType
<1>7. peer' = Told(peer, told)
  BY <1>4, <1>5
<1>8. peer' \in Peer /\ peer'.said = peer.said /\ peer'.told # "typing"
  BY <1>6, <1>7, ToldType
<1>9. TypeOK' /\ TypingIsWatched'
  BY <1>1, <1>3, <1>8 DEF TypeOK, TypingIsWatched
<1>10. MarkFollows' /\ TimersOwned'
  BY <1>1, <1>3, <1>8, MarkKept, NotNull DEF TimersOwned
<1> QED BY <1>9, <1>10

LEMMA MessageSentInv ==
  ASSUME ComposingInv, MessageSent
  PROVE  ComposingInv'
<1> USE DEF ComposingInv
<1>1. peer' = Told(peer, "idle") /\ UNCHANGED <<session, query, timers, asked, keylog, down>>
  BY DEF MessageSent, Told
<1>2. peer' \in Peer /\ peer'.said = peer.said /\ peer'.told # "typing"
  <2>1. peer \in Peer
    BY Types
  <2> QED BY <1>1, <2>1, ToldType
<1>3. TypeOK' /\ TypingIsWatched'
  BY <1>1, <1>2 DEF TypeOK, TypingIsWatched
<1>4. MarkFollows' /\ TimersOwned'
  BY <1>1, <1>2, MarkKept DEF TimersOwned
<1> QED BY <1>3, <1>4

LEMMA WindowChangedInv ==
  ASSUME ComposingInv, sig_window_changed
  PROVE  ComposingInv'
<1>1. keylog' \in BOOLEAN /\ UNCHANGED <<session, query, timers, asked, peer, down>>
  BY DEF sig_window_changed
<1> QED BY <1>1 DEF ComposingInv, TypeOK, TypingIsWatched, MarkFollows, LastSaid, TimersOwned

(* The timers whose memory is given to a query, or taken from it. *)
LEMMA OwnersChanged ==
  ASSUME TypeOK, NEW owner \in {"freed", "query"},
         timers' = [i \in DOMAIN timers |-> [timers[i] EXCEPT !.of = owner]]
  PROVE  /\ timers' \in Seq(TimerSet) /\ Len(timers') = Len(timers)
         /\ \A i \in DOMAIN timers' : timers'[i].of = owner
<1>1. timers \in Seq(TimerSet) /\ DOMAIN timers = 1..Len(timers) /\ Len(timers) \in Nat
  BY Types
<1>2. timers' = [i \in 1..Len(timers) |-> OwnedBy(timers[i], owner)]
  BY <1>1 DEF OwnedBy
<1>3. \A i \in 1..Len(timers) : OwnedBy(timers[i], owner) \in TimerSet /\ OwnedBy(timers[i], owner).of = owner
  BY <1>1, OwnedByType
<1>4. timers' \in [1..Len(timers) -> TimerSet]
  BY <1>2, <1>3
<1> QED BY <1>1, <1>2, <1>3, <1>4

LEMMA QueryCreateInv ==
  ASSUME ComposingInv, xmpp_query_create
  PROVE  ComposingInv'
<1> USE DEF ComposingInv
<1>1. /\ query = NULL /\ query' = [time |-> NULL, visible |-> FALSE]
      /\ UNCHANGED <<session, asked, keylog, down>>
  BY DEF xmpp_query_create
<1>2. query' \in Query
  BY <1>1 DEF Query
<1>3. peer' = Saying(peer, NULL) /\ peer \in Peer
  BY Types DEF xmpp_query_create, Saying
<1>4. peer' \in Peer /\ peer'.said = NULL /\ peer'.told = peer.told
  BY <1>3, SayingType
<1>5. peer.told # "typing"
  BY <1>1 DEF TypingIsWatched
<1>6. timers' \in Seq(TimerSet) /\ Len(timers') = Len(timers)
  BY OwnersChanged DEF xmpp_query_create
<1>7. TypeOK'
  BY <1>1, <1>2, <1>4, <1>6 DEF TypeOK, TimerSet
<1>8. TypingIsWatched' /\ MarkFollows' /\ TimersOwned'
  BY <1>2, <1>4, <1>5, NotNull DEF TypingIsWatched, MarkFollows, TimersOwned
<1> QED BY <1>7, <1>8

LEMMA QueryDestroyedInv ==
  ASSUME ComposingInv, sig_query_destroyed
  PROVE  ComposingInv'
<1> USE DEF ComposingInv
<1>1. query # NULL /\ query' = NULL /\ UNCHANGED <<session, asked, keylog, down>>
  BY DEF sig_query_destroyed
<1>2. peer' \in Peer /\ peer'.said = peer.said /\ peer'.told # "typing"
  <2>1. CASE query.time # NULL /\ session
    BY <2>1, StopType DEF sig_query_destroyed
  <2>2. CASE ~ (query.time # NULL /\ session)
    BY <2>2, Types DEF sig_query_destroyed, TypingIsWatched
  <2> QED BY <2>1, <2>2
<1>3. /\ timers' \in Seq(TimerSet) /\ Len(timers') = Len(timers)
      /\ \A i \in DOMAIN timers' : timers'[i].of = "freed"
  BY OwnersChanged DEF sig_query_destroyed
<1>4. TypeOK'
  BY <1>1, <1>2, <1>3 DEF TypeOK, TimerSet
<1>5. TypingIsWatched' /\ MarkFollows' /\ TimersOwned'
  BY <1>1, <1>2, <1>3 DEF TypingIsWatched, MarkFollows, TimersOwned
<1> QED BY <1>4, <1>5

-----------------------------------------------------------------------------
(* Timers *)

(* While the peer believes that the user types, a timer that ends without     *)
(* telling it so leaves another one.                                          *)
LEMMA StopComposingInv ==
  ASSUME ComposingInv, NEW i \in DOMAIN timers, stop_composing(i)
  PROVE  ComposingInv'
<1> USE DEF ComposingInv
<1>1. /\ timers \in Seq(TimerSet) /\ Len(timers) \in Nat /\ i \in 1..Len(timers)
      /\ timers[i] \in TimerSet /\ UNCHANGED <<session, asked, keylog, down>>
  BY Types DEF stop_composing
<1>2. /\ RemoveAt(timers, i) \in Seq(TimerSet) /\ Len(RemoveAt(timers, i)) = Len(timers) - 1
      /\ \A j \in 1..Len(timers) : j # i =>
           \E k \in 1..Len(RemoveAt(timers, i)) : RemoveAt(timers, i)[k] = timers[j]
      /\ \A k \in 1..Len(RemoveAt(timers, i)) :
           \E j \in 1..Len(timers) : RemoveAt(timers, i)[k] = timers[j]
  BY <1>1, RemoveAtLeaves
<1>3. CASE ~Typing(timers[i]) /\ timers' = RemoveAt(timers, i) /\ UNCHANGED <<query, peer>>
  <2>1. Len(timers') <= MaxTimers
    BY <1>1, <1>2, <1>3, BoundAssumption DEF TypeOK
  <2>2. TypeOK'
    BY <1>1, <1>2, <1>3, <2>1 DEF TypeOK, TimerSet
  <2>3. TypingIsWatched'
    <3> SUFFICES ASSUME peer.told = "typing"
                 PROVE  /\ session /\ query # NULL /\ query.time # NULL
                        /\ \E k \in DOMAIN timers' : timers'[k].of = "query"
      BY <1>1, <1>3 DEF TypingIsWatched
    <3>1. PICK j \in 1..Len(timers) : timers[j].of = "query"
      BY <1>1 DEF TypingIsWatched
    <3>2. session /\ query # NULL /\ query.time # NULL
      BY DEF TypingIsWatched
    <3>3. j # i
      BY <1>3, <3>1, <3>2 DEF Typing
    <3>4. PICK k \in 1..Len(timers') : timers'[k] = timers[j]
      BY <1>2, <1>3, <3>3
    <3>5. k \in DOMAIN timers'
      BY <1>2, <1>3
    <3> QED BY <3>1, <3>2, <3>4, <3>5
  <2>4. MarkFollows'
    BY <1>1, <1>3, MarkKept
  <2>5. TimersOwned'
    <3> SUFFICES ASSUME query = NULL, NEW k \in 1..Len(timers')
                 PROVE  timers'[k].of = "freed"
      BY <1>2, <1>3 DEF TimersOwned
    <3>1. PICK j \in 1..Len(timers) : timers'[k] = timers[j]
      BY <1>2, <1>3
    <3>2. timers[j].of = "freed"
      BY <1>1 DEF TimersOwned
    <3> QED BY <3>1, <3>2
  <2> QED BY <2>2, <2>3, <2>4, <2>5
<1>4. CASE timers' = [timers EXCEPT ![i].age = 0] /\ UNCHANGED <<query, peer>>
  <2>1. PICK t : t = Aged(timers[i], 0)
    OBVIOUS
  <2>2. t \in TimerSet /\ t.of = timers[i].of
    <3>1. 0 \in 0..COMPOSING_TIMEOUT
      BY TimeoutAssumption
    <3> QED BY <1>1, <2>1, <3>1, AgedType
  <2>3. timers' = [timers EXCEPT ![i] = t]
    BY <1>4, <2>1 DEF Aged
  <2>4. /\ timers' \in Seq(TimerSet) /\ Len(timers') = Len(timers)
        /\ DOMAIN timers' = DOMAIN timers /\ \A j \in DOMAIN timers : timers'[j].of = timers[j].of
    BY <1>1, <2>2, <2>3
  <2>5. TypeOK'
    BY <1>1, <1>4, <2>4 DEF TypeOK, TimerSet
  <2>6. TypingIsWatched'
    BY <1>1, <1>4, <2>4 DEF TypingIsWatched
  <2>7. MarkFollows' /\ TimersOwned'
    BY <1>1, <1>4, <2>4, MarkKept DEF TimersOwned
  <2> QED BY <2>5, <2>6, <2>7
<1>5. CASE /\ Typing(timers[i]) /\ timers' = RemoveAt(timers, i)
           /\ query' = [query EXCEPT !.time = NULL] /\ sig_composing_stop
  <2>1. Len(timers') <= MaxTimers
    BY <1>1, <1>2, <1>5, BoundAssumption DEF TypeOK
  <2>2. peer' \in Peer /\ peer'.said = peer.said /\ peer'.told # "typing"
    BY <1>5, StopType
  <2>3. query # NULL /\ query \in Query
    <3>1. query # NULL
      BY <1>5 DEF Typing, TimersOwned
    <3> QED BY <3>1, Types
  <2>4. query' = Timed(query, NULL)
    BY <1>5 DEF Timed
  <2>5. query' \in Query /\ query'.visible = query.visible
    BY <2>3, <2>4, TimedType
  <2>6. TypeOK'
    BY <1>1, <1>2, <1>5, <2>1, <2>2, <2>5 DEF TypeOK, TimerSet
  <2>7. TypingIsWatched'
    BY <2>2 DEF TypingIsWatched
  <2>8. MarkFollows' /\ TimersOwned'
    BY <1>1, <2>2, <2>3, <2>5, MarkKept, NotNull DEF TimersOwned
  <2> QED BY <2>6, <2>7, <2>8
<1> QED BY <1>3, <1>4, <1>5 DEF stop_composing

LEMMA TickInv ==
  ASSUME ComposingInv, Tick
  PROVE  ComposingInv'
<1> USE DEF ComposingInv
<1>1. /\ timers \in Seq(TimerSet) /\ Len(timers) \in Nat /\ DOMAIN timers = 1..Len(timers)
      /\ UNCHANGED <<session, asked, keylog, peer, down>>
  BY Types DEF Tick
<1>2. /\ timers' \in Seq(TimerSet) /\ Len(timers') = Len(timers) /\ DOMAIN timers' = DOMAIN timers
      /\ \A i \in DOMAIN timers : timers'[i].of = timers[i].of
  <2>1. timers' = [i \in 1..Len(timers) |-> Aged(timers[i], Older(timers[i].age))]
    BY <1>1 DEF Tick, Aged
  <2>2. ASSUME NEW i \in 1..Len(timers)
        PROVE  /\ Aged(timers[i], Older(timers[i].age)) \in TimerSet
               /\ Aged(timers[i], Older(timers[i].age)).of = timers[i].of
    <3>0. timers[i] \in TimerSet
      BY <1>1
    <3>1. timers[i] \in TimerSet /\ timers[i].age \in 0..COMPOSING_TIMEOUT
      BY <3>0 DEF TimerSet
    <3>2. Older(timers[i].age) \in 0..COMPOSING_TIMEOUT
      BY <3>1, OlderType
    <3> QED BY <3>1, <3>2, AgedType
  <2>3. timers' \in [1..Len(timers) -> TimerSet]
    BY <2>1, <2>2
  <2>4. \A i \in 1..Len(timers) : timers'[i].of = timers[i].of
    BY <2>1, <2>2
  <2> QED BY <1>1, <2>3, <2>4
<1>3. query = NULL => query' = NULL
  BY DEF Tick
<1>4. query # NULL => /\ query' \in Query /\ query' # NULL /\ query'.visible = query.visible
                      /\ query.time # NULL => query'.time # NULL
  <2> SUFFICES ASSUME query # NULL
               PROVE  /\ query' \in Query /\ query' # NULL /\ query'.visible = query.visible
                      /\ query.time # NULL => query'.time # NULL
    OBVIOUS
  <2>1. query \in Query /\ query.time \in 0..COMPOSING_TIMEOUT \cup {NULL}
    BY Types
  <2>2. query' = Timed(query, Older(query.time))
    BY DEF Tick, Timed
  <2>3. Older(query.time) \in 0..COMPOSING_TIMEOUT \cup {NULL}
    BY <2>1, OlderType
  <2>4. query.time # NULL => Older(query.time) # NULL
    <3>1. query.time # NULL => Older(query.time) \in 0..COMPOSING_TIMEOUT
      BY <2>1, OlderType
    <3>2. \A n \in 0..COMPOSING_TIMEOUT : n # NULL
      BY TimeoutAssumption, NotNull
    <3> QED BY <3>1, <3>2
  <2>5. query' \in Query /\ query'.time = Older(query.time) /\ query'.visible = query.visible
    BY <2>1, <2>2, <2>3, TimedType
  <2> QED BY <2>4, <2>5, NotNull
<1>5. TypeOK'
  BY <1>1, <1>2, <1>3, <1>4 DEF TypeOK, TimerSet
<1>6. TypingIsWatched'
  BY <1>1, <1>2, <1>4 DEF TypingIsWatched
<1>7. MarkFollows' /\ TimersOwned'
  BY <1>1, <1>2, <1>3, <1>4, MarkKept DEF TimersOwned
<1> QED BY <1>5, <1>6, <1>7

-----------------------------------------------------------------------------
(* The peer and the session *)

(* The last of a sequence, after one is added or the first is taken. *)
LEMMA Appended ==
  ASSUME NEW A, NEW s \in Seq(A), NEW x \in A
  PROVE  /\ Append(s, x) \in Seq(A) /\ Append(s, x) # <<>>
         /\ Append(s, x)[Len(Append(s, x))] = x
<1>1. Append(s, x) \in Seq(A) /\ Len(Append(s, x)) = Len(s) + 1 /\ Len(s) \in Nat
  OBVIOUS
<1>2. Append(s, x)[Len(s) + 1] = x
  OBVIOUS
<1> QED BY <1>1, <1>2

LEMMA Tailed ==
  ASSUME NEW A, NEW s \in Seq(A), s # <<>>
  PROVE  /\ Tail(s) \in Seq(A) /\ Head(s) \in A
         /\ Tail(s) = <<>> => Head(s) = s[Len(s)]
         /\ Tail(s) # <<>> => Tail(s)[Len(Tail(s))] = s[Len(s)]
<1>1. Len(s) \in Nat /\ Len(s) > 0 /\ Head(s) = s[1] /\ Head(s) \in A
  OBVIOUS
<1>2. /\ Tail(s) \in Seq(A) /\ Len(Tail(s)) = Len(s) - 1
      /\ \A k \in 1..(Len(s) - 1) : Tail(s)[k] = s[k + 1]
  OBVIOUS
<1>3. CASE Len(s) = 1
  <2>1. Len(Tail(s)) = 0
    BY <1>2, <1>3
  <2>2. Tail(s) = <<>>
    <3>1. PICK t : t = Tail(s)
      OBVIOUS
    <3>2. t \in Seq(A) /\ Len(t) = 0
      BY <1>2, <2>1, <3>1
    <3>3. t = <<>>
      BY <3>2
    <3> QED BY <3>1, <3>3
  <2> QED BY <1>1, <1>2, <1>3, <2>2
<1>4. CASE Len(s) > 1
  <2>1. Len(s) - 1 \in 1..(Len(s) - 1) /\ (Len(s) - 1) + 1 = Len(s)
    BY <1>1, <1>4
  <2>2. Tail(s)[Len(s) - 1] = s[Len(s)]
    BY <1>2, <2>1
  <2>3. Tail(s) # <<>>
    BY <1>1, <1>2, <1>4
  <2> QED BY <1>1, <1>2, <2>2, <2>3
<1> QED BY <1>1, <1>3, <1>4

LEMMA PeerSendsInv ==
  ASSUME ComposingInv, NEW m \in Message, PeerSends(m)
  PROVE  ComposingInv'
<1> USE DEF ComposingInv
<1>1. /\ session /\ down' = Append(down, m)
      /\ UNCHANGED <<session, query, timers, asked, keylog>>
  BY DEF PeerSends
<1>2. Shown(m) <=> Says(m) = "composing"
  BY ShownSays
<1>3. Says(m) \in {NULL, "idle", "composing"}
  BY ShownSays
<1>4. peer' = Saying(peer, Says(m)) /\ peer \in Peer
  BY Types DEF PeerSends, Saying
<1>5. peer' \in Peer /\ peer'.said = Says(m) /\ peer'.told = peer.told
  BY <1>3, <1>4, SayingType
<1>6. /\ down' \in Seq(Message \cup {OFFLINE}) /\ down' # <<>>
      /\ down'[Len(down')] = m
  <2>1. down \in Seq(Message \cup {OFFLINE}) /\ m \in Message \cup {OFFLINE}
    BY Types
  <2> QED BY <1>1, <2>1, Appended
<1>7. TypeOK'
  BY <1>1, <1>5, <1>6 DEF TypeOK
<1>8. TypingIsWatched' /\ TimersOwned'
  BY <1>1, <1>5 DEF TypingIsWatched, TimersOwned
<1>9. MarkFollows'
  BY <1>1, <1>2, <1>5, <1>6 DEF MarkFollows, LastSaid
<1> QED BY <1>7, <1>8, <1>9

LEMMA PeerLeavesInv ==
  ASSUME ComposingInv, PeerLeaves
  PROVE  ComposingInv'
<1> USE DEF ComposingInv
<1>1. /\ peer' = [online |-> FALSE, told |-> "idle", said |-> NULL]
      /\ down' = IF session THEN Append(down, OFFLINE) ELSE <<>>
      /\ UNCHANGED <<session, query, timers, asked, keylog>>
  BY DEF PeerLeaves
<1>2. peer' \in Peer /\ peer'.said = NULL /\ peer'.told # "typing"
  BY <1>1 DEF Peer
<1>3. down' \in Seq(Message \cup {OFFLINE})
  BY <1>1, Types
<1>4. TypeOK'
  BY <1>1, <1>2, <1>3 DEF TypeOK
<1> QED BY <1>1, <1>2, <1>4 DEF TypingIsWatched, TimersOwned, MarkFollows

LEMMA PeerComesInv ==
  ASSUME ComposingInv, PeerComes
  PROVE  ComposingInv'
<1> USE DEF ComposingInv
<1>1. UNCHANGED <<session, query, timers, asked, keylog, down>>
  BY DEF PeerComes
<1>2. peer' = [peer EXCEPT !.online = TRUE] /\ peer \in Peer
  BY Types DEF PeerComes
<1>3. peer' \in Peer /\ peer'.said = peer.said /\ peer'.told = peer.told
  BY <1>2 DEF Peer
<1>4. TypeOK' /\ TypingIsWatched' /\ TimersOwned'
  BY <1>1, <1>3 DEF TypeOK, TypingIsWatched, TimersOwned
<1>5. MarkFollows'
  BY <1>1, <1>3, MarkKept
<1> QED BY <1>4, <1>5

LEMMA ConnectedInv ==
  ASSUME ComposingInv, Connected
  PROVE  ComposingInv'
<1>1. ~session /\ session' = TRUE /\ UNCHANGED <<query, timers, asked, keylog, peer, down>>
  BY DEF Connected
<1>2. peer.said = NULL
  BY <1>1 DEF ComposingInv, MarkFollows
<1> QED BY <1>1, <1>2 DEF ComposingInv, TypeOK, TypingIsWatched, MarkFollows, TimersOwned

LEMMA DisconnectedInv ==
  ASSUME ComposingInv, Disconnected
  PROVE  ComposingInv'
<1> USE DEF ComposingInv
<1>1. session' = FALSE /\ asked' = FALSE /\ down' = <<>> /\ UNCHANGED <<query, keylog>>
  BY DEF Disconnected
<1>2. PICK p : p = Told(peer, "idle")
  OBVIOUS
<1>3. p \in Peer /\ p.told = "idle"
  <2>1. peer \in Peer
    BY Types
  <2> QED BY <1>2, <2>1, ToldType
<1>4. peer' = Saying(p, NULL)
  BY <1>2 DEF Disconnected, Saying, Told
<1>5. peer' \in Peer /\ peer'.said = NULL /\ peer'.told # "typing"
  BY <1>3, <1>4, SayingType
<1>6. /\ timers' \in Seq(TimerSet) /\ Len(timers') <= MaxTimers
      /\ TimersOwned'
  <2>1. /\ timers \in Seq(TimerSet) /\ Len(timers) \in Nat /\ Len(timers) <= MaxTimers
        /\ DOMAIN timers = 1..Len(timers)
    BY Types DEF TypeOK
  <2>2. CASE UNCHANGED timers
    BY <1>1, <2>1, <2>2 DEF TimersOwned
  <2>3. ASSUME NEW i \in DOMAIN timers, timers[i].of = "query", timers' = RemoveAt(timers, i)
        PROVE  timers' \in Seq(TimerSet) /\ Len(timers') <= MaxTimers /\ TimersOwned'
    <3>1. i \in 1..Len(timers)
      BY <2>1
    <3>2. RemoveAt(timers, i) \in Seq(TimerSet) /\ Len(RemoveAt(timers, i)) = Len(timers) - 1
      BY <2>1, <3>1, RemoveAtLeaves
    <3>3. Len(timers') <= MaxTimers
      BY <2>1, <2>3, <3>2, BoundAssumption
    <3>4. query # NULL
      BY <2>3 DEF TimersOwned
    <3> QED BY <1>1, <2>3, <3>2, <3>3, <3>4 DEF TimersOwned
  <2> QED BY <2>2, <2>3 DEF Disconnected
<1>7. TypeOK'
  <2>1. query' \in {NULL} \cup Query /\ keylog' \in BOOLEAN
    BY <1>1 DEF TypeOK
  <2>2. down' \in Seq(Message \cup {OFFLINE})
    BY <1>1
  <2>3. session' \in BOOLEAN /\ asked' \in BOOLEAN
    BY <1>1
  <2> QED BY <1>5, <1>6, <2>1, <2>2, <2>3 DEF TypeOK, TimerSet
<1> QED BY <1>1, <1>5, <1>6, <1>7 DEF TypingIsWatched, MarkFollows

(* What the peer is told when a stanza of its is handled. *)
LEMMA ReceiveInv ==
  ASSUME ComposingInv, Receive
  PROVE  ComposingInv'
<1> USE DEF ComposingInv
<1>1. down # <<>> /\ down' = Tail(down) /\ UNCHANGED <<session, timers, keylog>>
  BY DEF Receive
<1>2. /\ Tail(down) \in Seq(Message \cup {OFFLINE}) /\ Head(down) \in Message \cup {OFFLINE}
      /\ Tail(down) = <<>> => Head(down) = down[Len(down)]
      /\ Tail(down) # <<>> => Tail(down)[Len(Tail(down))] = down[Len(down)]
  <2>1. down \in Seq(Message \cup {OFFLINE})
    BY Types
  <2> QED BY <1>1, <2>1, Tailed
<1>3. asked' \in BOOLEAN
  BY Types DEF Receive, sig_offline, sig_recv_message
<1>4. OFFLINE \notin Message
  BY DEF Message
<1>5. PICK told : told = IF asked' THEN peer.told ELSE Forgotten(peer.told, "unasked")
  OBVIOUS
<1>6. told \in {"idle", "typing", "unsent", "unasked"} /\ (told = "typing" => peer.told = "typing")
  <2>1. peer.told \in {"idle", "typing", "unsent", "unasked"}
    BY Types
  <2> QED BY <1>5, <2>1, ForgottenType
<1>7. peer' = Told(peer, told) /\ peer \in Peer
  BY <1>5, Types DEF Receive, Told
<1>8. peer' \in Peer /\ peer'.told = told /\ peer'.said = peer.said
  BY <1>6, <1>7, ToldType
<1>9. query = NULL => query' = NULL
  BY DEF Receive, sig_offline, sig_recv_message
<1>10. query # NULL => /\ query' \in Query /\ query' # NULL /\ query'.time = query.time
                       /\ Head(down) \in Message => (query'.visible <=> Shown(Head(down)))
  <2> SUFFICES ASSUME query # NULL
               PROVE  /\ query' \in Query /\ query' # NULL /\ query'.time = query.time
                      /\ Head(down) \in Message => (query'.visible <=> Shown(Head(down)))
    OBVIOUS
  <2>1. query \in Query
    BY Types
  <2>2. CASE Head(down) = OFFLINE
    <3>1. query' = query
      BY <2>2 DEF Receive, sig_offline
    <3> QED BY <1>4, <2>1, <2>2, <3>1
  <2>3. CASE Head(down) # OFFLINE
    <3>1. Head(down) \in Message
      BY <1>2, <2>3
    <3>2. query' = Marked(query, Shown(Head(down)))
      BY <2>3 DEF Receive, sig_recv_message, Marked
    <3>3. Shown(Head(down)) \in BOOLEAN
      BY <3>1, ShownSays
    <3>4. query' \in Query /\ query'.visible = Shown(Head(down)) /\ query'.time = query.time
      BY <2>1, <3>2, <3>3, MarkedType
    <3> QED BY <3>4, NotNull
  <2> QED BY <2>2, <2>3
<1>11. TypeOK'
  BY <1>1, <1>2, <1>3, <1>8, <1>9, <1>10 DEF TypeOK
<1>12. TypingIsWatched'
  BY <1>1, <1>6, <1>8, <1>10 DEF TypingIsWatched
<1>13. TimersOwned'
  BY <1>1, <1>10 DEF TimersOwned
<1>14. MarkFollows'
  <2>1. ~session' => peer'.said = NULL
    BY <1>1, <1>8 DEF MarkFollows
  <2>2. ASSUME session', query' # NULL, peer'.said # NULL
        PROVE  IF down' = <<>> THEN query'.visible <=> peer'.said = "composing"
               ELSE LastSaid(down', peer'.said)
    <3>1. query # NULL
      BY <1>9, <2>2
    <3>2. LastSaid(down, peer.said)
      BY <1>1, <1>8, <2>2, <3>1 DEF MarkFollows
    <3>3. CASE down' = <<>>
      BY <1>1, <1>2, <1>8, <1>10, <3>1, <3>2, <3>3 DEF LastSaid
    <3>4. CASE down' # <<>>
      BY <1>1, <1>2, <1>8, <3>2, <3>4 DEF LastSaid
    <3> QED BY <3>3, <3>4
  <2> QED BY <2>1, <2>2 DEF MarkFollows
<1> QED BY <1>11, <1>12, <1>13, <1>14

-----------------------------------------------------------------------------
(* The invariant *)

LEMMA ComposingInitInv == ComposingInit => ComposingInv
<1> SUFFICES ASSUME ComposingInit PROVE ComposingInv
  OBVIOUS
<1>1. peer \in Peer /\ peer.told = "idle" /\ peer.said = NULL
  BY DEF ComposingInit, Peer
<1>2. TypeOK
  <2>1. timers = <<>> /\ down = <<>>
    BY DEF ComposingInit
  <2>2. timers \in Seq(TimerSet) /\ Len(timers) = 0 /\ down \in Seq(Message \cup {OFFLINE})
    BY <2>1
  <2>3. Len(timers) <= MaxTimers
    BY <2>2, BoundAssumption
  <2> QED BY <1>1, <2>2, <2>3 DEF ComposingInit, TypeOK, TimerSet
<1>3. TypingIsWatched /\ MarkFollows
  BY <1>1 DEF ComposingInit, TypingIsWatched, MarkFollows
<1>4. TimersOwned
  BY DEF ComposingInit, TimersOwned
<1> QED BY <1>2, <1>3, <1>4 DEF ComposingInv

LEMMA ComposingNextInv == ComposingInv /\ [ComposingNext]_composing_vars => ComposingInv'
<1> SUFFICES ASSUME ComposingInv, [ComposingNext]_composing_vars PROVE ComposingInv'
  OBVIOUS
<1>1. CASE KeyPressed \/ ReturnPressed \/ MessageSent \/ sig_window_changed
  BY <1>1, KeyPressedInv, ReturnPressedInv, MessageSentInv, WindowChangedInv
<1>2. CASE xmpp_query_create \/ sig_query_destroyed
  BY <1>2, QueryCreateInv, QueryDestroyedInv
<1>3. CASE \E i \in DOMAIN timers : stop_composing(i)
  BY <1>3, StopComposingInv
<1>4. CASE Tick \/ Receive
  BY <1>4, TickInv, ReceiveInv
<1>5. CASE \E m \in Message : PeerSends(m)
  BY <1>5, PeerSendsInv
<1>6. CASE PeerLeaves \/ PeerComes \/ Connected \/ Disconnected
  BY <1>6, PeerLeavesInv, PeerComesInv, ConnectedInv, DisconnectedInv
<1>7. CASE UNCHANGED composing_vars
  BY <1>7 DEF composing_vars, ComposingInv, TypeOK, TypingIsWatched, MarkFollows, LastSaid,
              TimersOwned
<1> QED BY <1>1, <1>2, <1>3, <1>4, <1>5, <1>6, <1>7 DEF ComposingNext

(* The four parts hold together in every state: one is preserved with the help *)
(* of the others.                                                              *)
THEOREM ComposingInvariance == ComposingSpec => []ComposingInv
<1>1. ComposingInit => ComposingInv
  BY ComposingInitInv
<1>2. ComposingInv /\ [ComposingNext]_composing_vars => ComposingInv'
  BY ComposingNextInv
<1> QED BY <1>1, <1>2, PTL DEF ComposingSpec

(* The state of queries, timers and stanzas keeps its type. *)
THEOREM ComposingTypeCorrect == ComposingSpec => []TypeOK
<1>1. ComposingInv => TypeOK
  BY DEF ComposingInv
<1> QED BY <1>1, ComposingInvariance, PTL

(* A peer believes that the user types only while a timer of fe-composing.c *)
(* is set for the query that remembers the key.                             *)
THEOREM TypingAlwaysWatched == ComposingSpec => []TypingIsWatched
<1>1. ComposingInv => TypingIsWatched
  BY DEF ComposingInv
<1> QED BY <1>1, ComposingInvariance, PTL

(* The status bar shows what the peer last said, whichever of the two        *)
(* protocols it used.                                                        *)
THEOREM MarkShowsLastEvent == ComposingSpec => []ShowsLastEvent
<1>1. ComposingInv => ShowsLastEvent
  BY DEF ComposingInv, MarkFollows, ShowsLastEvent
<1> QED BY <1>1, ComposingInvariance, PTL

=============================================================================
