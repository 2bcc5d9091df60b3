----------------------------- MODULE MucRoomProofs -----------------------------
(***************************************************************************)
(* Theorems about MucRoom, for any number of occupants and nicks and any   *)
(* number of stanzas in flight, of a room that leaves the user's nick as   *)
(* asked for and removes people with the codes that the client knows.      *)
(*                                                                         *)
(* The inductive invariant is a prediction.  The stanzas in flight lead    *)
(* the client from the channel that it has to another one, and that one is *)
(* the room as it is now; or the channel of somebody who waits for the     *)
(* room's word; or no channel any more, and then the room will be told.    *)
(***************************************************************************)
EXTENDS MucRoom, MucChannelProofs, FiniteSetTheorems

(* What the theorems suppose of the room: MucForced shows the first needed,  *)
(* and the client ignores removals with other codes (muc-events.c:406).      *)
NickKept      == ~Forces
KnownRemovals == RemovalCode \subseteq {NULL, 301, 307} /\ Kicks \subseteq {301, 307}

-----------------------------------------------------------------------------
(* How the client handles a stanza.                                           *)
(* The stanzas that the room sends, without the invitation. *)
APresence   == [type : {"available"}, nick : Nick, info : Info, own : BOOLEAN, forced : {FALSE}]
ADeparture  == [type : {"unavailable"}, nick : Nick, code : {NULL, 301, 307}]
ANick       == [type : {"destroyed", "error"}, nick : Nick]
ANickChange == [type : {"changed"}, nick : Nick, new : Nick]
AMessage    == [type : {"message"}, nick : Nick, by : Person]
ASubject    == [type : {"subject"}, topic : Topic \cup {NULL}]
AMode       == [type : {"features"}, mode : Mode]
AnAnswer    == [type : {"answer"}]

Told ==
  APresence \cup ADeparture \cup ANick \cup ANickChange \cup AMessage \cup ASubject \cup AMode \cup AnAnswer

Departed(c, n) ==
  IF n \notin DOMAIN c.nicks THEN c
  ELSE IF c.nicks[n][1].own THEN NoChannel ELSE WithNicks(c, RemoveHead(c.nicks, n))

Retried(c) ==
  [exists |-> TRUE, nick |-> NextNick(c.nick), joined |-> FALSE, nicks |-> c.nicks,
   topic |-> c.topic, mode |-> c.mode]

(* The channel after a stanza. *)
Handled(c, m) ==
  IF ~c.exists THEN c
  ELSE CASE m.type = "available" -> Presented(c, m.nick, m.info, m.own, m.forced)
         [] m.type \in {"unavailable", "destroyed"} -> Departed(c, m.nick)
         [] m.type = "changed"   -> Renamed(c, m.nick, m.new)
         [] m.type = "error"     -> IF c.joined \/ m.nick # c.nick THEN c ELSE Retried(c)
         [] m.type = "subject"   -> WithTopic(c, m.topic)
         [] m.type = "features"  -> WithMode(c, m.mode)
         [] OTHER                -> c

(* A channel as the handlers keep it: nothing is known of the mode of a room  *)
(* that was not entered.                                                      *)
State(c) == Sound(c) /\ (c.exists /\ ~c.joined => c.mode = NULL)

(* The stanzas that end a stay: a removal, which the client answers, or the   *)
(* destruction of the room, when the user stays out of it (out).              *)
Final(m, out) ==
  \/ m.type = "unavailable" /\ m.code # NULL
  \/ m.type = "destroyed" /\ out

(* A stanza that is handled as it was meant, as one of n in flight.           *)
Meant(c, m, n, out) ==
  /\ c.exists /\ ~Handled(c, m).exists => Final(m, out)
  /\ c.exists /\ m.type = "message" => (m.nick = c.nick <=> m.by = Me)
  /\ c.exists /\ ~c.joined /\ m.type = "error" => n = 1
  /\ c.exists /\ ~c.joined => m.type # "features"

(* The stanzas q lead from one channel to another. *)
Path(traj, q, out) ==
  /\ \A i \in 1..Len(q) :
       traj[i + 1] = Handled(traj[i], q[i]) /\ Meant(traj[i], q[i], Len(q), out)
  /\ \A i \in 1..(Len(q) + 1) :
       State(traj[i]) /\ (~traj[i].exists => ~traj[Len(q) + 1].exists)

Leads(c, q, out, d) ==
  \E traj : Path(traj, q, out) /\ traj[1] = c /\ traj[Len(q) + 1] = d

-----------------------------------------------------------------------------
(* Each stanza leaves a channel as the handlers keep it. *)

(* The type of a stanza tells which fields it has. *)
LEMMA ToldKinds ==
  ASSUME NEW m
  PROVE  /\ m \in APresence => m.type = "available"
         /\ m \in ADeparture => m.type = "unavailable"
         /\ m \in ANick => m.type \in {"destroyed", "error"}
         /\ m \in ANickChange => m.type = "changed"
         /\ m \in AMessage => m.type = "message"
         /\ m \in ASubject => m.type = "subject"
         /\ m \in AMode => m.type = "features"
         /\ m \in AnAnswer => m.type = "answer"
<1>1. (m \in APresence => m.type = "available") /\ (m \in ADeparture => m.type = "unavailable")
  BY DEF APresence, ADeparture
<1>2. (m \in ANick => m.type \in {"destroyed", "error"}) /\ (m \in ANickChange => m.type = "changed")
  BY DEF ANick, ANickChange
<1>3. (m \in AMessage => m.type = "message") /\ (m \in ASubject => m.type = "subject")
  BY DEF AMessage, ASubject
<1>4. (m \in AMode => m.type = "features") /\ (m \in AnAnswer => m.type = "answer")
  BY DEF AMode, AnAnswer
<1> QED BY <1>1, <1>2, <1>3, <1>4

(* Which set a stanza is of, by its type. *)
LEMMA ToldIs ==
  ASSUME NEW m \in Told
  PROVE  \/ m.type = "available" /\ m \in APresence
         \/ m.type = "unavailable" /\ m \in ADeparture
         \/ m.type \in {"destroyed", "error"} /\ m \in ANick
         \/ m.type = "changed" /\ m \in ANickChange
         \/ m.type = "message" /\ m \in AMessage
         \/ m.type = "subject" /\ m \in ASubject
         \/ m.type = "features" /\ m \in AMode
         \/ m.type = "answer" /\ m \in AnAnswer
BY ToldKinds DEF Told

(* The fields of a presence. *)
LEMMA ToldPresence ==
  ASSUME NEW m \in Told, m.type = "available"
  PROVE  m.nick \in Nick /\ m.info \in Info /\ m.own \in BOOLEAN /\ m.forced = FALSE
<1>1. m \in APresence
  BY ToldIs
<1> QED BY <1>1 DEF APresence

(* The fields of a departure. *)
LEMMA ToldDeparture ==
  ASSUME NEW m \in Told, m.type = "unavailable"
  PROVE  m.nick \in Nick /\ m.code \in {NULL, 301, 307}
<1>1. m \in ADeparture
  BY ToldIs
<1> QED BY <1>1 DEF ADeparture

(* The nick that a stanza names. *)
LEMMA ToldNick ==
  ASSUME NEW m \in Told, m.type \in {"unavailable", "destroyed", "error", "changed", "message"}
  PROVE  m.nick \in Nick
<1>1. m \in ADeparture \/ m \in ANick \/ m \in ANickChange \/ m \in AMessage
  BY ToldIs
<1> QED BY <1>1 DEF ADeparture, ANick, ANickChange, AMessage

(* All that the handlers read of a stanza. *)
LEMMA ToldTypes ==
  ASSUME NEW m \in Told
  PROVE  /\ m.type \in {"available", "unavailable", "destroyed", "error", "changed",
                        "message", "subject", "features", "answer"}
         /\ m.type = "available" =>
              m.nick \in Nick /\ m.info \in Info /\ m.own \in BOOLEAN /\ m.forced = FALSE
         /\ m.type = "unavailable" => m.nick \in Nick /\ m.code \in {NULL, 301, 307}
         /\ m.type \in {"destroyed", "error"} => m.nick \in Nick
         /\ m.type = "changed" => m.nick \in Nick /\ m.new \in Nick
         /\ m.type = "message" => m.nick \in Nick /\ m.by \in Person
         /\ m.type = "subject" => m.topic \in Topic \cup {NULL}
         /\ m.type = "features" => m.mode \in Mode
<1>1. m.type \in {"available", "unavailable", "destroyed", "error", "changed",
                  "message", "subject", "features", "answer"}
  BY ToldIs
<1>2. m.type = "available" =>
        m.nick \in Nick /\ m.info \in Info /\ m.own \in BOOLEAN /\ m.forced = FALSE
  BY ToldPresence
<1>3. m.type = "unavailable" => m.nick \in Nick /\ m.code \in {NULL, 301, 307}
  BY ToldDeparture
<1>4. m.type \in {"destroyed", "error"} => m.nick \in Nick
  BY ToldNick
<1>5. m.type = "changed" => m.nick \in Nick /\ m.new \in Nick
  <2>1. m.type = "changed" => m \in ANickChange
    BY ToldIs
  <2> QED BY <2>1 DEF ANickChange
<1>6. m.type = "message" => m.nick \in Nick /\ m.by \in Person
  <2>1. m.type = "message" => m \in AMessage
    BY ToldIs
  <2> QED BY <2>1 DEF AMessage
<1>7. m.type = "subject" => m.topic \in Topic \cup {NULL}
  <2>1. m.type = "subject" => m \in ASubject
    BY ToldIs
  <2> QED BY <2>1 DEF ASubject
<1>8. m.type = "features" => m.mode \in Mode
  <2>1. m.type = "features" => m \in AMode
    BY ToldIs
  <2> QED BY <2>1 DEF AMode
<1> QED BY <1>1, <1>2, <1>3, <1>4, <1>5, <1>6, <1>7, <1>8

(* A departure leaves a channel as the handlers keep it. *)
LEMMA DepartedSound ==
  ASSUME NEW c, Sound(c), NEW n
  PROVE  /\ Sound(Departed(c, n))
         /\ Departed(c, n).exists => Departed(c, n).joined = c.joined /\ Departed(c, n).mode = c.mode
<1>1. Good(c.nicks) /\ Sound(NoChannel) /\ ~NoChannel.exists
  BY NickAssumption, FreshSound DEF Sound, NoChannel
<1>2. CASE n \notin DOMAIN c.nicks
  BY <1>2 DEF Departed
<1>3. CASE n \in DOMAIN c.nicks /\ c.nicks[n][1].own
  BY <1>1, <1>3 DEF Departed
<1>4. CASE n \in DOMAIN c.nicks /\ ~c.nicks[n][1].own
  <2>1. PICK t : t = RemoveHead(c.nicks, n)
    OBVIOUS
  <2>2. Good(t) /\ (Owned(c.nicks) => Owned(t))
    BY <1>1, <1>4, <2>1, RemoveHeadGood
  <2>3. Departed(c, n) = WithNicks(c, t)
    BY <1>4, <2>1 DEF Departed
  <2>4. Sound(WithNicks(c, t))
    BY <2>2, WithNicksSound
  <2> QED BY <2>3, <2>4 DEF WithNicks
<1> QED BY <1>2, <1>3, <1>4

(* The parts of a channel that changes of the table leave alone. *)
LEMMA RenamedKeeps ==
  ASSUME NEW c, NEW old, NEW new
  PROVE  /\ Renamed(c, old, new).exists = c.exists /\ Renamed(c, old, new).joined = c.joined
         /\ Renamed(c, old, new).mode = c.mode /\ Renamed(c, old, new).topic = c.topic
BY DEF Renamed, WithNicks

(* A presence leaves the topic and the mode alone. *)
LEMMA PresentedKeeps ==
  ASSUME NEW c, NEW n, NEW x, NEW own, NEW forced \in BOOLEAN,
         NEW d, d = Presented(c, n, x, own, forced)
  PROVE  /\ d.exists = c.exists /\ d.mode = c.mode /\ d.topic = c.topic
         /\ c.joined => d.joined
BY DEF Presented, SetInfo, WithNicks, OwnJoin, Renamed

(* A refusal, which changes the nick that is asked for, leaves a channel well  *)
(* formed.                                                                    *)
LEMMA RetriedSound ==
  ASSUME NEW c, Sound(c), ~c.joined
  PROVE  Sound(Retried(c)) /\ Retried(c).nick \in Nick
<1>1. NextNick(c.nick) \in Nick
  BY NickAssumption DEF NextNick, Sound, IsChannel
<1> QED BY <1>1 DEF Sound, IsChannel, Retried

(* The cases of Handled. *)
LEMMA HandledIs ==
  ASSUME NEW c, c.exists, NEW m
  PROVE  /\ m.type = "available" =>
              Handled(c, m) = Presented(c, m.nick, m.info, m.own, m.forced)
         /\ m.type \in {"unavailable", "destroyed"} => Handled(c, m) = Departed(c, m.nick)
         /\ m.type = "changed" => Handled(c, m) = Renamed(c, m.nick, m.new)
         /\ m.type = "error" =>
              Handled(c, m) = IF c.joined \/ m.nick # c.nick THEN c ELSE Retried(c)
         /\ m.type = "subject" => Handled(c, m) = WithTopic(c, m.topic)
         /\ m.type = "features" => Handled(c, m) = WithMode(c, m.mode)
         /\ m.type \in {"message", "answer"} => Handled(c, m) = c
<1>1. ASSUME m.type = "available"
      PROVE  Handled(c, m) = Presented(c, m.nick, m.info, m.own, m.forced)
  BY <1>1 DEF Handled
<1>2. ASSUME m.type \in {"unavailable", "destroyed"} PROVE Handled(c, m) = Departed(c, m.nick)
  BY <1>2 DEF Handled
<1>3. ASSUME m.type = "changed" PROVE Handled(c, m) = Renamed(c, m.nick, m.new)
  BY <1>3 DEF Handled
<1>4. ASSUME m.type = "error"
      PROVE  Handled(c, m) = IF c.joined \/ m.nick # c.nick THEN c ELSE Retried(c)
  BY <1>4 DEF Handled
<1>5. ASSUME m.type = "subject" PROVE Handled(c, m) = WithTopic(c, m.topic)
  BY <1>5 DEF Handled
<1>6. ASSUME m.type = "features" PROVE Handled(c, m) = WithMode(c, m.mode)
  BY <1>6 DEF Handled
<1>7. ASSUME m.type = "message" PROVE Handled(c, m) = c
  BY <1>7 DEF Handled
<1>8. ASSUME m.type = "answer" PROVE Handled(c, m) = c
  BY <1>8 DEF Handled
<1> QED BY <1>1, <1>2, <1>3, <1>4, <1>5, <1>6, <1>7, <1>8

(* Handling a stanza keeps State. *)
LEMMA HandledState ==
  ASSUME NEW c, State(c), NEW m \in Told, c.exists /\ ~c.joined => m.type # "features"
  PROVE  State(Handled(c, m)) /\ (~c.exists => Handled(c, m) = c)
<1>0. /\ Sound(c) /\ (c.exists /\ ~c.joined => c.mode = NULL)
      /\ c.exists \in BOOLEAN /\ c.joined \in BOOLEAN
  BY DEF State, Sound, IsChannel
<1>1. CASE ~c.exists
  BY <1>1 DEF Handled
<1>2. CASE c.exists /\ m.type = "available"
  <2>1. PICK d : d = Presented(c, m.nick, m.info, m.own, m.forced)
    OBVIOUS
  <2>2. m.nick \in Nick /\ m.info \in Info /\ m.own \in BOOLEAN /\ m.forced \in BOOLEAN
    BY <1>2, ToldTypes
  <2>3. Handled(c, m) = d
    BY <1>0, <1>2, <2>1, <2>2, HandledIs
  <2>4. Sound(d)
    BY <1>0, <2>1, <2>2, PresentedSound
  <2>5. d.exists = c.exists /\ d.mode = c.mode /\ (c.joined => d.joined)
    BY <2>1, <2>2, PresentedKeeps
  <2> QED BY <1>0, <1>2, <2>3, <2>4, <2>5 DEF State
<1>3. CASE c.exists /\ m.type \in {"unavailable", "destroyed"}
  <2>1. Handled(c, m) = Departed(c, m.nick)
    BY <1>0, <1>3, HandledIs
  <2> QED BY <1>0, <1>3, <2>1, DepartedSound DEF State
<1>4. CASE c.exists /\ m.type = "changed"
  <2>1. Handled(c, m) = Renamed(c, m.nick, m.new)
    BY <1>0, <1>4, HandledIs
  <2>2. Sound(Renamed(c, m.nick, m.new))
    BY <1>0, <1>4, ToldTypes, RenamedSound
  <2> QED BY <1>0, <1>4, <2>1, <2>2, RenamedKeeps DEF State
<1>5. CASE c.exists /\ m.type = "error"
  <2>1. Handled(c, m) = IF c.joined \/ m.nick # c.nick THEN c ELSE Retried(c)
    BY <1>0, <1>5, HandledIs
  <2>2. ~c.joined => Sound(Retried(c)) /\ Retried(c).mode = c.mode
    BY <1>0, RetriedSound DEF Retried
  <2> QED BY <1>0, <1>5, <2>1, <2>2 DEF State
<1>6. CASE c.exists /\ m.type = "subject"
  <2>1. Handled(c, m) = WithTopic(c, m.topic)
    BY <1>0, <1>6, HandledIs
  <2>2. Sound(WithTopic(c, m.topic))
    BY <1>0, <1>6, ToldTypes, WithTopicSound
  <2> QED BY <1>0, <1>6, <2>1, <2>2 DEF State, WithTopic
<1>7. CASE c.exists /\ m.type = "features"
  <2>1. Handled(c, m) = WithMode(c, m.mode)
    BY <1>0, <1>7, HandledIs
  <2>2. Sound(WithMode(c, m.mode))
    BY <1>0, <1>7, ToldTypes, WithModeSound
  <2> QED BY <1>0, <1>7, <2>1, <2>2 DEF State, WithMode
<1>8. CASE c.exists /\ m.type \in {"message", "answer"}
  BY <1>0, <1>8, HandledIs
<1> QED BY <1>0, <1>1, <1>2, <1>3, <1>4, <1>5, <1>6, <1>7, <1>8, ToldTypes

-----------------------------------------------------------------------------
(* Stanzas that lead from one channel to another. *)

(* A concatenation, index by index. *)
LEMMA Joined2 ==
  ASSUME NEW A, NEW a \in Seq(A), NEW b \in Seq(A)
  PROVE  /\ a \o b \in Seq(A) /\ Len(a \o b) = Len(a) + Len(b)
         /\ \A j \in 1..Len(a) : (a \o b)[j] = a[j]
         /\ \A j \in 1..Len(b) : (a \o b)[Len(a) + j] = b[j]
<1>1. a \o b \in Seq(A) /\ Len(a \o b) = Len(a) + Len(b)
  OBVIOUS
<1>2. \A j \in 1..Len(a) : (a \o b)[j] = a[j]
  OBVIOUS
<1>3. \A j \in 1..Len(b) : (a \o b)[Len(a) + j] = b[j]
  OBVIOUS
<1> QED BY <1>1, <1>2, <1>3

(* Both ends of a way are states of a channel. *)
LEMMA LeadsEnds ==
  ASSUME NEW c, NEW d, NEW q \in Seq(Told), NEW out, Leads(c, q, out, d)
  PROVE  /\ State(c) /\ State(d) /\ (~c.exists => ~d.exists)
         /\ q = <<>> => c = d
<1>1. PICK traj : Path(traj, q, out) /\ traj[1] = c /\ traj[Len(q) + 1] = d
  BY DEF Leads
<1>2. Len(q) \in Nat /\ 1 \in 1..(Len(q) + 1) /\ Len(q) + 1 \in 1..(Len(q) + 1)
  OBVIOUS
<1>3. \A i \in 1..(Len(q) + 1) : State(traj[i]) /\ (~traj[i].exists => ~traj[Len(q) + 1].exists)
  BY <1>1 DEF Path
<1>4. q = <<>> => Len(q) + 1 = 1
  OBVIOUS
<1> QED BY <1>1, <1>2, <1>3, <1>4

(* The empty sequence of stanzas leads from a channel to itself.              *)
LEMMA LeadsNowhere ==
  ASSUME NEW c, State(c), NEW out
  PROVE  Leads(c, <<>>, out, c)
<1>1. PICK traj : traj = [i \in 1..1 |-> c]
  OBVIOUS
<1>2. traj[1] = c
  BY <1>1
<1>3. Path(traj, <<>>, out)
  <2>1. Len(<<>>) = 0 /\ 1..0 = {} /\ 0 + 1 = 1 /\ \A i \in 1..1 : i = 1
    OBVIOUS
  <2> QED BY <1>2, <2>1 DEF Path
<1> QED BY <1>2, <1>3 DEF Leads

(* One stanza leads to the channel after it. *)
LEMMA LeadsOne ==
  ASSUME NEW c, State(c), NEW m \in Told, NEW out, Meant(c, m, 1, out)
  PROVE  Leads(c, <<m>>, out, Handled(c, m))
<1>1. PICK d : d = Handled(c, m)
  OBVIOUS
<1>2. State(d) /\ (~c.exists => d = c)
  BY <1>1, HandledState DEF Meant
<1>3. PICK traj : traj = [i \in 1..2 |-> IF i = 1 THEN c ELSE d]
  OBVIOUS
<1>4. traj[1] = c /\ traj[2] = d
  BY <1>3
<1>5. PICK q : q = <<m>>
  OBVIOUS
<1>6. Len(q) = 1 /\ q[1] = m /\ 1 + 1 = 2
  BY <1>5
<1>7. Path(traj, q, out)
  <2>1. \A i \in 1..1 : traj[i + 1] = Handled(traj[i], q[i]) /\ Meant(traj[i], q[i], 1, out)
    <3>1. \A i \in 1..1 : i = 1
      OBVIOUS
    <3> QED BY <1>1, <1>4, <1>6, <3>1
  <2>2. \A i \in 1..2 : State(traj[i]) /\ (~traj[i].exists => ~traj[2].exists)
    <3>1. \A i \in 1..2 : i = 1 \/ i = 2
      OBVIOUS
    <3> QED BY <1>2, <1>4, <3>1
  <2> QED BY <1>6, <2>1, <2>2 DEF Path
<1> QED BY <1>1, <1>4, <1>5, <1>6, <1>7 DEF Leads

(* Without channel nothing is handled. *)
LEMMA LeadsStill ==
  ASSUME NEW c, State(c), ~c.exists, NEW q \in Seq(Told), NEW out
  PROVE  Leads(c, q, out, c)
<1>1. PICK traj : traj = [i \in 1..(Len(q) + 1) |-> c]
  OBVIOUS
<1>2. Len(q) \in Nat /\ \A i \in 1..(Len(q) + 1) : traj[i] = c
  BY <1>1
<1>3. ASSUME NEW i \in 1..Len(q)
      PROVE  traj[i + 1] = Handled(traj[i], q[i]) /\ Meant(traj[i], q[i], Len(q), out)
  <2>1. i \in 1..(Len(q) + 1) /\ i + 1 \in 1..(Len(q) + 1)
    BY <1>2
  <2>2. traj[i] = c /\ traj[i + 1] = c
    BY <1>2, <2>1
  <2>3. Handled(c, q[i]) = c
    BY DEF Handled
  <2> QED BY <2>2, <2>3 DEF Meant
<1>4. Path(traj, q, out)
  BY <1>2, <1>3 DEF Path
<1>5. traj[1] = c /\ traj[Len(q) + 1] = c
  BY <1>2
<1> QED BY <1>4, <1>5 DEF Leads

(* One way after the other.  A refusal that makes the client try again is     *)
(* alone.                                                                     *)
Errorless(q) == \A i \in 1..Len(q) : q[i].type # "error"

(* Where q leads from c to d and more from d to e, both lead from c to e. *)
LEMMA LeadsOn ==
  ASSUME NEW c, NEW d, NEW e, NEW q \in Seq(Told), NEW more \in Seq(Told), NEW out,
         Leads(c, q, out, d), Leads(d, more, out, e),
         q = <<>> \/ d.joined \/ ~d.exists \/ (Errorless(q) /\ Errorless(more))
  PROVE  Leads(c, q \o more, out, e)
<1>1. PICK t : Path(t, q, out) /\ t[1] = c /\ t[Len(q) + 1] = d
  BY DEF Leads
<1>2. PICK u : Path(u, more, out) /\ u[1] = d /\ u[Len(more) + 1] = e
  BY DEF Leads
<1>3. PICK n, k, all : n = Len(q) /\ k = Len(more) /\ all = q \o more
  OBVIOUS
<1>4. n \in Nat /\ k \in Nat
  BY <1>3
<1>5. /\ all \in Seq(Told) /\ Len(all) = n + k
      /\ \A i \in 1..n : all[i] = q[i]
      /\ \A i \in 1..k : all[n + i] = more[i]
  BY <1>3, Joined2
<1>6. PICK traj : traj = [i \in 1..(n + k + 1) |-> IF i <= n + 1 THEN t[i] ELSE u[i - n]]
  OBVIOUS
<1>7. ASSUME NEW i \in 1..(n + 1) PROVE traj[i] = t[i]
  BY <1>4, <1>6
<1>8. ASSUME NEW i \in 1..(k + 1) PROVE traj[n + i] = u[i]
  <2>1. n + i \in 1..(n + k + 1) /\ (n + i) - n = i
    BY <1>4
  <2>2. CASE i = 1
    BY <1>1, <1>2, <1>3, <1>4, <1>6, <2>1, <2>2
  <2>3. CASE i # 1
    <3>1. ~(n + i <= n + 1)
      BY <1>4, <2>3
    <3> QED BY <1>6, <2>1, <3>1
  <2> QED BY <2>2, <2>3
<1>9. /\ \A i \in 1..n : t[i + 1] = Handled(t[i], q[i]) /\ Meant(t[i], q[i], n, out)
      /\ \A i \in 1..(n + 1) : State(t[i]) /\ (~t[i].exists => ~d.exists)
  BY <1>1, <1>3 DEF Path
<1>10. /\ \A i \in 1..k : u[i + 1] = Handled(u[i], more[i]) /\ Meant(u[i], more[i], k, out)
       /\ \A i \in 1..(k + 1) : State(u[i]) /\ (~u[i].exists => ~e.exists)
  BY <1>2, <1>3 DEF Path
<1>11. d.exists \in BOOLEAN /\ d.joined \in BOOLEAN /\ (~d.exists => ~e.exists)
  <2>1. 1 \in 1..(k + 1) /\ State(u[1])
    BY <1>4, <1>10
  <2> QED BY <1>2, <1>10, <2>1 DEF State, Sound, IsChannel
<1>12. ASSUME NEW i \in 1..n
       PROVE  t[i].exists /\ ~t[i].joined /\ q[i].type = "error" => n + k = 1
  <2> SUFFICES ASSUME t[i].exists, ~t[i].joined, q[i].type = "error" PROVE n + k = 1
    OBVIOUS
  <2>1. n = 1 /\ i = 1
    BY <1>4, <1>9 DEF Meant
  <2>2. d = Handled(t[1], q[1])
    BY <1>1, <1>3, <1>9, <2>1
  <2>3. d = t[1] \/ d = Retried(t[1])
    BY <2>1, <2>2, HandledIs
  <2>4. d.exists /\ ~d.joined
    BY <2>1, <2>3 DEF Retried
  <2>5. ~Errorless(q)
    BY <1>3 DEF Errorless
  <2>6. q = <<>>
    BY <2>4, <2>5
  <2>7. Len(q) = 0
    BY <2>6
  <2>8. n = 0
    BY <1>3, <2>7
  <2> QED BY <2>1, <2>8
<1>13. ASSUME NEW i \in 1..k
       PROVE  u[i].exists /\ ~u[i].joined /\ more[i].type = "error" => n + k = 1
  <2> SUFFICES ASSUME u[i].exists, ~u[i].joined, more[i].type = "error" PROVE n + k = 1
    OBVIOUS
  <2>1. k = 1 /\ i = 1
    BY <1>4, <1>10 DEF Meant
  <2>2. d.exists /\ ~d.joined
    BY <1>2, <2>1
  <2>3. ~Errorless(more)
    BY <1>3 DEF Errorless
  <2>4. q = <<>>
    BY <2>2, <2>3
  <2> QED BY <1>3, <2>1, <2>4
<1>14. ASSUME NEW i \in 1..(n + k)
       PROVE  traj[i + 1] = Handled(traj[i], all[i]) /\ Meant(traj[i], all[i], n + k, out)
  <2>1. CASE i <= n
    <3>1. i \in 1..n /\ i \in 1..(n + 1) /\ i + 1 \in 1..(n + 1)
      BY <1>4, <2>1
    <3>2. traj[i] = t[i] /\ traj[i + 1] = t[i + 1] /\ all[i] = q[i]
      BY <1>5, <1>7, <3>1
    <3>3. t[i + 1] = Handled(t[i], q[i]) /\ Meant(t[i], q[i], n, out)
      BY <1>9, <3>1
    <3>4. Meant(t[i], q[i], n + k, out)
      BY <1>12, <3>1, <3>3 DEF Meant
    <3> QED BY <3>2, <3>3, <3>4
  <2>2. CASE i > n
    <3>1. PICK j : j = i - n
      OBVIOUS
    <3>2. j \in 1..k /\ j \in 1..(k + 1) /\ j + 1 \in 1..(k + 1) /\ n + j = i /\ n + (j + 1) = i + 1
      BY <1>4, <2>2, <3>1
    <3>3. traj[i] = u[j]
      BY <1>8, <3>2
    <3>4. traj[i + 1] = u[j + 1]
      BY <1>8, <3>2
    <3>5. all[i] = more[j]
      BY <1>5, <3>2
    <3>6. u[j + 1] = Handled(u[j], more[j]) /\ Meant(u[j], more[j], k, out)
      BY <1>10, <3>2
    <3>7. Meant(u[j], more[j], n + k, out)
      BY <1>13, <3>2, <3>6 DEF Meant
    <3> QED BY <3>3, <3>4, <3>5, <3>6, <3>7
  <2> QED BY <1>4, <2>1, <2>2
<1>15. n + k + 1 = n + (k + 1) /\ k + 1 \in 1..(k + 1) /\ 1 \in 1..(n + 1)
  BY <1>4
<1>16. traj[n + k + 1] = e /\ traj[1] = c
  BY <1>1, <1>2, <1>3, <1>7, <1>8, <1>15
<1>17. ASSUME NEW i \in 1..(n + k + 1)
       PROVE  State(traj[i]) /\ (~traj[i].exists => ~e.exists)
  <2>1. CASE i <= n + 1
    <3>1. i \in 1..(n + 1)
      BY <1>4, <2>1
    <3> QED BY <1>7, <1>9, <1>11, <3>1
  <2>2. CASE i > n + 1
    <3>1. PICK j : j = i - n
      OBVIOUS
    <3>2. j \in 1..(k + 1) /\ n + j = i
      BY <1>4, <2>2, <3>1
    <3>3. traj[i] = u[j]
      BY <1>8, <3>2
    <3> QED BY <1>10, <3>2, <3>3
  <2> QED BY <1>4, <2>1, <2>2
<1>18. Path(traj, all, out)
  BY <1>5, <1>14, <1>16, <1>17 DEF Path
<1> QED BY <1>3, <1>5, <1>16, <1>18 DEF Leads

(* The first stanza is handled, as it was meant. *)
LEMMA LeadsFrom ==
  ASSUME NEW c, NEW d, NEW q \in Seq(Told), NEW out, Leads(c, q, out, d), q # <<>>
  PROVE  /\ Head(q) \in Told /\ Tail(q) \in Seq(Told)
         /\ Meant(c, Head(q), 1, out) \/ Len(q) # 1
         /\ Meant(c, Head(q), Len(q), out)
         /\ Len(q) = 1 <=> Tail(q) = <<>>
         /\ Leads(Handled(c, Head(q)), Tail(q), out, d)
<1>1. PICK t : Path(t, q, out) /\ t[1] = c /\ t[Len(q) + 1] = d
  BY DEF Leads
<1>2. PICK n, m, rest : n = Len(q) /\ m = Head(q) /\ rest = Tail(q)
  OBVIOUS
<1>3. /\ n \in Nat /\ n >= 1 /\ m = q[1] /\ m \in Told
      /\ rest \in Seq(Told) /\ Len(rest) = n - 1
      /\ \A i \in 1..(n - 1) : rest[i] = q[i + 1]
  <2>1. Len(q) \in Nat /\ Len(q) # 0
    BY EmptySeq
  <2>2. /\ Tail(q) \in Seq(Told) /\ Len(Tail(q)) = Len(q) - 1
        /\ \A i \in 1..(Len(q) - 1) : Tail(q)[i] = q[i + 1]
    BY HeadTailProperties
  <2>3. Head(q) = q[1] /\ q[1] \in Told
    BY <2>1
  <2> QED BY <1>2, <2>1, <2>2, <2>3
<1>4. /\ \A i \in 1..n : t[i + 1] = Handled(t[i], q[i]) /\ Meant(t[i], q[i], n, out)
      /\ \A i \in 1..(n + 1) : State(t[i]) /\ (~t[i].exists => ~d.exists)
  BY <1>1, <1>2 DEF Path
<1>5. PICK traj : traj = [i \in 1..n |-> t[i + 1]]
  OBVIOUS
<1>6. ASSUME NEW i \in 1..(n - 1)
      PROVE  traj[i + 1] = Handled(traj[i], rest[i]) /\ Meant(traj[i], rest[i], n - 1, out)
  <2>1. i \in 1..n /\ i + 1 \in 1..n /\ n # 1
    BY <1>3
  <2>2. traj[i] = t[i + 1] /\ traj[i + 1] = t[(i + 1) + 1] /\ rest[i] = q[i + 1]
    BY <1>3, <1>5, <2>1
  <2>3. t[(i + 1) + 1] = Handled(t[i + 1], q[i + 1]) /\ Meant(t[i + 1], q[i + 1], n, out)
    BY <1>4, <2>1
  <2>4. Meant(t[i + 1], q[i + 1], n - 1, out)
    BY <2>1, <2>3 DEF Meant
  <2> QED BY <2>2, <2>3, <2>4
<1>7. (n - 1) + 1 = n /\ 1 \in 1..n /\ n \in 1..n
  BY <1>3
<1>8. traj[1] = Handled(c, m) /\ traj[n] = d
  <2>1. traj[1] = t[1 + 1] /\ traj[n] = t[n + 1]
    BY <1>5, <1>7
  <2>2. t[1 + 1] = Handled(t[1], q[1])
    BY <1>4, <1>7
  <2> QED BY <1>1, <1>2, <1>3, <2>1, <2>2
<1>9. \A i \in 1..n : State(traj[i]) /\ (~traj[i].exists => ~traj[n].exists)
  <2> SUFFICES ASSUME NEW i \in 1..n PROVE State(traj[i]) /\ (~traj[i].exists => ~traj[n].exists)
    OBVIOUS
  <2>1. i + 1 \in 1..(n + 1) /\ traj[i] = t[i + 1]
    BY <1>3, <1>5
  <2> QED BY <1>4, <1>8, <2>1
<1>10. Path(traj, rest, out)
  BY <1>3, <1>6, <1>7, <1>9 DEF Path
<1>11. Leads(Handled(c, m), rest, out, d)
  BY <1>3, <1>7, <1>8, <1>10 DEF Leads
<1>12. Meant(c, m, n, out)
  BY <1>1, <1>3, <1>4, <1>7
<1>13. n = 1 <=> rest = <<>>
  BY <1>3, EmptySeq
<1> QED BY <1>2, <1>3, <1>11, <1>12, <1>13

(* Whether the user stays out matters to the destruction of the room only.    *)
LEMMA LeadsOut ==
  ASSUME NEW c, NEW d, NEW q \in Seq(Told), NEW out, Leads(c, q, out, d),
         NEW out2, (out => out2) \/ (\A i \in 1..Len(q) : q[i].type # "destroyed")
  PROVE  Leads(c, q, out2, d)
<1>1. PICK t : Path(t, q, out) /\ t[1] = c /\ t[Len(q) + 1] = d
  BY DEF Leads
<1>2. ASSUME NEW i \in 1..Len(q), Meant(t[i], q[i], Len(q), out)
      PROVE  Meant(t[i], q[i], Len(q), out2)
  BY <1>2 DEF Meant, Final
<1>3. Path(t, q, out2)
  BY <1>1, <1>2 DEF Path
<1> QED BY <1>1, <1>3 DEF Leads

(* One more stanza to a channel that the user is in, or that is gone. *)
LEMMA LeadsMore ==
  ASSUME NEW c, NEW d, NEW q \in Seq(Told), NEW out, Leads(c, q, out, d),
         NEW m \in Told, Meant(d, m, 1, out), q = <<>> \/ d.joined \/ ~d.exists
  PROVE  Leads(c, q \o <<m>>, out, Handled(d, m)) /\ q \o <<m>> \in Seq(Told)
<1>1. State(d)
  BY LeadsEnds
<1>2. Leads(d, <<m>>, out, Handled(d, m))
  BY <1>1, LeadsOne
<1>3. PICK more : more = <<m>>
  OBVIOUS
<1>4. more \in Seq(Told)
  BY <1>3
<1>5. Leads(c, q \o more, out, Handled(d, m))
  BY <1>2, <1>3, <1>4, LeadsOn
<1>6. q \o more \in Seq(Told)
  BY <1>4, Joined2
<1> QED BY <1>3, <1>5, <1>6

(* Whatever else the room sends to a channel that will be gone. *)
LEMMA LeadsGone ==
  ASSUME NEW c, NEW d, NEW q \in Seq(Told), NEW out, Leads(c, q, out, d), ~d.exists,
         NEW more \in Seq(Told)
  PROVE  Leads(c, q \o more, out, d) /\ q \o more \in Seq(Told)
<1>1. Leads(d, more, out, d)
  BY LeadsEnds, LeadsStill
<1> QED BY <1>1, LeadsOn, Joined2

-----------------------------------------------------------------------------
(* A table of nicks that holds the occupants of a room, and what the room     *)
(* says of one of them.                                                       *)

Occupants(r) == {p \in Person : r[p] # NULL}
Distinct(r)  == \A p, q \in Occupants(r) : r[p] = r[q] => p = q

Lists(t, r, i) ==
  /\ \A n \in DOMAIN t : \E p \in Occupants(r) : n = r[p]
  /\ \A p \in Occupants(r) : /\ r[p] \in DOMAIN t
                             /\ Len(t[r[p]]) = 1
                             /\ t[r[p]][1].info = i[p]
                             /\ t[r[p]][1].own <=> p = Me

(* A chain of one record. *)
LEMMA SingleChain ==
  ASSUME NEW s \in Seq(NickRec), Len(s) = 1, NEW r \in NickRec
  PROVE  /\ s # <<>> /\ s[1] \in NickRec /\ Head(s) = s[1] /\ Tail(s) = <<>>
         /\ Len(<<r>> \o Tail(s)) = 1 /\ (<<r>> \o Tail(s))[1] = r
<1>1. s # <<>>
  OBVIOUS
<1>2. s[1] \in NickRec /\ Head(s) = s[1]
  BY <1>1, TailOfChain
<1>3. Tail(s) \in Seq(NickRec) /\ Len(Tail(s)) = 0
  <2>1. Tail(s) \in Seq(NickRec) /\ Len(Tail(s)) = Len(s) - 1
    BY <1>1, TailOfChain
  <2> QED BY <2>1
<1>4. Tail(s) = <<>>
  BY <1>3, EmptySeq
<1>5. Len(<<r>> \o Tail(s)) = 1 /\ (<<r>> \o Tail(s))[1] = r
  <2>1. Len(<<r>> \o Tail(s)) = Len(Tail(s)) + 1 /\ (<<r>> \o Tail(s))[1] = r
    BY <1>3, FrontOfChain
  <2> QED BY <1>3, <2>1
<1> QED BY <1>1, <1>2, <1>4, <1>5

(* A table that lists the room has a record per occupant. *)
LEMMA ListsOf ==
  ASSUME NEW t, Good(t), NEW r, NEW i, Lists(t, r, i), NEW p \in Occupants(r)
  PROVE  /\ p \in Person /\ r[p] \in DOMAIN t /\ r[p] \in Nick
         /\ t[r[p]] \in Seq(NickRec) /\ Len(t[r[p]]) = 1
         /\ t[r[p]][1].info = i[p] /\ (t[r[p]][1].own <=> p = Me)
BY DEF Lists, Good, Table, Occupants

(* An occupant who is described anew. *)
LEMMA ListsSet ==
  ASSUME NEW t, Good(t), NEW r, Distinct(r), NEW i \in [Person -> Info], Lists(t, r, i),
         NEW p \in Occupants(r), NEW x \in Info,
         NEW u, u = Put(t, r[p], <<[info |-> x, own |-> t[r[p]][1].own]>> \o Tail(t[r[p]]))
  PROVE  Lists(u, r, [i EXCEPT ![p] = x])
<1>1. /\ p \in Person /\ r[p] \in DOMAIN t /\ r[p] \in Nick
      /\ t[r[p]] \in Seq(NickRec) /\ Len(t[r[p]]) = 1
      /\ t[r[p]][1].own <=> p = Me
  BY ListsOf
<1>2. PICK n, s, o : n = r[p] /\ s = t[r[p]] /\ o = t[r[p]][1].own
  OBVIOUS
<1>3. o \in BOOLEAN
  BY <1>1, <1>2, HeadOfChain
<1>4. PICK rec : rec = [info |-> x, own |-> o]
  OBVIOUS
<1>5. rec \in NickRec /\ rec.info = x /\ rec.own = o
  BY <1>3, <1>4 DEF NickRec
<1>6. u = Put(t, n, <<rec>> \o Tail(s))
  BY <1>2, <1>4
<1>7. PICK v : v = <<rec>> \o Tail(s)
  OBVIOUS
<1>8. Len(v) = 1 /\ v[1] = rec
  BY <1>1, <1>2, <1>5, <1>7, SingleChain
<1>9. DOMAIN u = DOMAIN t /\ u[n] = v /\ \A m \in DOMAIN t : m # n => u[m] = t[m]
  BY <1>1, <1>2, <1>6, <1>7 DEF Put
<1>10. PICK j : j = [i EXCEPT ![p] = x]
  OBVIOUS
<1>11. j[p] = x /\ \A q \in Person : q # p => j[q] = i[q]
  BY <1>1, <1>10
<1>12. ASSUME NEW q \in Occupants(r)
       PROVE  r[q] \in DOMAIN u /\ Len(u[r[q]]) = 1 /\ u[r[q]][1].info = j[q] /\ (u[r[q]][1].own <=> q = Me)
  <2>1. CASE q = p
    BY <1>1, <1>2, <1>5, <1>8, <1>9, <1>11, <2>1
  <2>2. CASE q # p
    <3>1. r[q] # n /\ r[q] \in DOMAIN t /\ q \in Person
      BY <1>2, <2>2, ListsOf DEF Distinct
    <3>2. u[r[q]] = t[r[q]] /\ j[q] = i[q] /\ r[q] \in DOMAIN u
      BY <1>9, <1>11, <2>2, <3>1
    <3>3. Len(t[r[q]]) = 1 /\ t[r[q]][1].info = i[q] /\ (t[r[q]][1].own <=> q = Me)
      BY ListsOf
    <3> QED BY <3>2, <3>3
  <2> QED BY <2>1, <2>2
<1>13. \A m \in DOMAIN u : \E q \in Occupants(r) : m = r[q]
  BY <1>9 DEF Lists
<1>14. Lists(u, r, j)
  BY <1>12, <1>13 DEF Lists
<1> QED BY <1>10, <1>14

(* The table u is t with a chain for n, of one record. *)
Begins(u, t, n, rec) ==
  /\ DOMAIN u = DOMAIN t \cup {n} /\ \A m \in DOMAIN t : m # n => u[m] = t[m]
  /\ Len(u[n]) = 1 /\ u[n][1] = rec

Untaken(r, n) == \A q \in Occupants(r) : r[q] # n

(* One who was outside comes in as n. *)
LEMMA ListsAdd ==
  ASSUME NEW t, NEW r \in [Person -> Nick \cup {NULL}], NEW i, Lists(t, r, i),
         NEW p \in Person, r[p] = NULL, NEW n \in Nick, Untaken(r, n),
         NEW rec, rec.info = i[p], rec.own <=> p = Me,
         NEW u, Begins(u, t, n, rec)
  PROVE  Lists(u, [r EXCEPT ![p] = n], i)
<1> DEFINE r2 == [r EXCEPT ![p] = n]
<1>0. /\ DOMAIN u = DOMAIN t \cup {n} /\ \A m \in DOMAIN t : m # n => u[m] = t[m]
      /\ \A q \in Occupants(r) : r[q] # n
      /\ Len(u[n]) = 1 /\ u[n][1].info = i[p] /\ (u[n][1].own <=> p = Me)
  BY DEF Begins, Untaken
<1>1. r2[p] = n /\ \A q \in Person : q # p => r2[q] = r[q]
  OBVIOUS
<1> HIDE DEF r2
<1>2. p \notin Occupants(r) /\ Occupants(r2) = Occupants(r) \cup {p}
  BY <1>1, NickAssumption DEF Occupants
<1>3. \A q \in Occupants(r) : r2[q] = r[q]
  BY <1>1, <1>2 DEF Occupants
<1>4. ASSUME NEW m \in DOMAIN u PROVE \E q \in Occupants(r2) : m = r2[q]
  <2>1. CASE m = n
    BY <1>1, <1>2, <2>1
  <2>2. CASE m # n
    <3>1. PICK q \in Occupants(r) : m = r[q]
      BY <1>0, <2>2 DEF Lists
    <3> QED BY <1>2, <1>3, <3>1
  <2> QED BY <2>1, <2>2
<1>5. ASSUME NEW q \in Occupants(r2)
      PROVE  r2[q] \in DOMAIN u /\ Len(u[r2[q]]) = 1 /\ u[r2[q]][1].info = i[q]
             /\ (u[r2[q]][1].own <=> q = Me)
  <2>1. CASE q = p
    BY <1>0, <1>1, <2>1
  <2>2. CASE q # p
    <3>1. q \in Occupants(r) /\ r2[q] = r[q] /\ r[q] \in DOMAIN t /\ r[q] # n
      BY <1>0, <1>2, <1>3, <2>2 DEF Lists
    <3>2. u[r2[q]] = t[r[q]] /\ r2[q] \in DOMAIN u
      BY <1>0, <3>1
    <3> QED BY <3>1, <3>2 DEF Lists
  <2> QED BY <2>1, <2>2
<1>6. Lists(u, r2, i)
  BY <1>4, <1>5 DEF Lists
<1> QED BY <1>6 DEF r2

(* One who was inside is out. *)
LEMMA ListsRemove ==
  ASSUME NEW t, Good(t), NEW r \in [Person -> Nick \cup {NULL}], Distinct(r), NEW i, Lists(t, r, i),
         NEW p \in Occupants(r)
  PROVE  /\ Lists(RemoveHead(t, r[p]), [r EXCEPT ![p] = NULL], i)
         /\ Good(RemoveHead(t, r[p]))
         /\ [r EXCEPT ![p] = NULL] \in [Person -> Nick \cup {NULL}]
         /\ Distinct([r EXCEPT ![p] = NULL])
<1>0. PICK u, r2 : u = RemoveHead(t, r[p]) /\ r2 = [r EXCEPT ![p] = NULL]
  OBVIOUS
<1>1. p \in Person /\ r[p] \in DOMAIN t /\ Len(t[r[p]]) = 1
  BY ListsOf
<1>2. r2[p] = NULL /\ \A q \in Person : q # p => r2[q] = r[q]
  BY <1>0, <1>1
<1>3. Occupants(r2) = Occupants(r) \ {p}
  BY <1>2 DEF Occupants
<1>4. r2 \in [Person -> Nick \cup {NULL}]
  BY <1>0
<1>5. Distinct(r2)
  BY <1>2, <1>3 DEF Distinct, Occupants
<1>6. u = Restrict(t, DOMAIN t \ {r[p]})
  BY <1>0, <1>1 DEF RemoveHead
<1>7. DOMAIN u = DOMAIN t \ {r[p]} /\ \A m \in DOMAIN u : u[m] = t[m]
  BY <1>6 DEF Restrict
<1>8. \A q \in Occupants(r2) : q \in Occupants(r) /\ q # p /\ r2[q] = r[q] /\ r[q] # r[p]
  BY <1>2, <1>3 DEF Distinct, Occupants
<1>9. ASSUME NEW m \in DOMAIN u PROVE \E q \in Occupants(r2) : m = r2[q]
  <2>1. m \in DOMAIN t /\ m # r[p]
    BY <1>7
  <2>2. PICK q \in Occupants(r) : m = r[q]
    BY <2>1 DEF Lists
  <2>3. q # p
    BY <2>1, <2>2
  <2> QED BY <1>3, <1>8, <2>2, <2>3
<1>10. ASSUME NEW q \in Occupants(r2)
       PROVE  r2[q] \in DOMAIN u /\ Len(u[r2[q]]) = 1 /\ u[r2[q]][1].info = i[q]
             /\ (u[r2[q]][1].own <=> q = Me)
  <2>1. q \in Occupants(r) /\ r2[q] = r[q] /\ r2[q] \in DOMAIN u
    BY <1>7, <1>8 DEF Lists
  <2>2. u[r2[q]] = t[r[q]]
    BY <1>7, <2>1
  <2> QED BY <2>1, <2>2 DEF Lists
<1>11. Good(u)
  BY <1>0, <1>1, RemoveHeadGood
<1>12. Lists(u, r2, i)
  BY <1>9, <1>10 DEF Lists
<1> QED BY <1>0, <1>4, <1>5, <1>11, <1>12

(* Nobody else is marked as the user. *)
LEMMA ListsDisown ==
  ASSUME NEW t, Good(t), NEW r, r[Me] = NULL, NEW i, Lists(t, r, i)
  PROVE  Lists(Disown(t), r, i)
<1>1. PICK u : u = Disown(t)
  OBVIOUS
<1>2. DOMAIN u = DOMAIN t /\ \A n \in DOMAIN t : u[n] = [k \in DOMAIN t[n] |-> [info |-> t[n][k].info, own |-> FALSE]]
  BY <1>1 DEF Disown
<1>3. ASSUME NEW p \in Occupants(r)
      PROVE  r[p] \in DOMAIN u /\ Len(u[r[p]]) = 1 /\ u[r[p]][1].info = i[p] /\ (u[r[p]][1].own <=> p = Me)
  <2>1. r[p] \in DOMAIN t /\ Len(t[r[p]]) = 1 /\ t[r[p]][1].info = i[p] /\ p # Me
    BY DEF Lists, Occupants
  <2>2. PICK n, s : n = r[p] /\ s = t[r[p]]
    OBVIOUS
  <2>3. n \in DOMAIN u /\ u[n] = [k \in DOMAIN s |-> [info |-> s[k].info, own |-> FALSE]]
    BY <1>2, <2>1, <2>2
  <2>4. s \in Seq(NickRec) /\ Len(s) = 1 /\ 1 \in DOMAIN s
    <3>1. s \in Seq(NickRec) /\ Len(s) = 1
      BY <2>1, <2>2 DEF Good, Table
    <3> QED BY <3>1
  <2>5. Len(u[n]) = 1 
    BY <2>3, <2>4
  <2>6. u[n][1].info = s[1].info /\ ~u[n][1].own
    BY <2>3, <2>4
  <2> QED BY <2>1, <2>2, <2>3, <2>5, <2>6
<1>4. Lists(u, r, i)
  BY <1>2, <1>3 DEF Lists
<1> QED BY <1>1, <1>4

(* A chain for a nick that had none. *)
LEMMA FirstOfChain ==
  ASSUME NEW t, NEW n, n \notin DOMAIN t, NEW rec
  PROVE  Begins(PutLast(t, n, rec), t, n, rec) /\ Begins(PutFirst(t, n, rec), t, n, rec)
<1>1. Chain(t, n) = <<>> /\ Append(<<>>, rec) = <<rec>> /\ <<rec>> \o <<>> = <<rec>>
  BY DEF Chain
<1>2. ASSUME NEW u, u = Put(t, n, <<rec>>) PROVE Begins(u, t, n, rec)
  <2>1. DOMAIN u = DOMAIN t \cup {n} /\ (\A m \in DOMAIN t : m # n => u[m] = t[m]) /\ u[n] = <<rec>>
    BY <1>2 DEF Put
  <2>2. Len(<<rec>>) = 1 /\ <<rec>>[1] = rec
    OBVIOUS
  <2> QED BY <2>1, <2>2 DEF Begins
<1>3. PutLast(t, n, rec) = Put(t, n, <<rec>>) /\ PutFirst(t, n, rec) = Put(t, n, <<rec>>)
  BY <1>1 DEF PutLast, PutFirst
<1> QED BY <1>2, <1>3

(* r2 is r but for p.                                                         *)
Moved(r, p, n, r2) == r2 = [r EXCEPT ![p] = n]

(* A joined channel that shows the room. *)
People(r) == r \in [Person -> Nick \cup {NULL}] /\ Distinct(r)

Shows(c, r, i) ==
  /\ c.exists /\ c.joined
  /\ r[Me] # NULL /\ c.nick = r[Me]
  /\ Lists(c.nicks, r, i)

(* A presence of somebody who is inside. *)
LEMMA ShowsInfo ==
  ASSUME NEW c, Sound(c), NEW r, People(r), NEW i \in [Person -> Info], Shows(c, r, i),
         NEW p \in Occupants(r), NEW x \in Info, NEW own \in BOOLEAN, NEW forced \in BOOLEAN,
         NEW d, d = Presented(c, r[p], x, own, forced), NEW i2, Moved(i, p, x, i2)
  PROVE  Shows(d, r, i2) /\ d.topic = c.topic /\ d.mode = c.mode
<1>1. Good(c.nicks) /\ Lists(c.nicks, r, i) /\ r[p] \in DOMAIN c.nicks
  BY ListsOf DEF Sound, Shows
<1>2. PICK u : u = Put(c.nicks, r[p], <<[info |-> x, own |-> c.nicks[r[p]][1].own]>> \o Tail(c.nicks[r[p]]))
  OBVIOUS
<1>3. d = WithNicks(c, u)
  BY <1>1, <1>2 DEF Presented, SetInfo
<1>4. Lists(u, r, [i EXCEPT ![p] = x])
  BY <1>1, <1>2, ListsSet DEF People
<1>5. i2 = [i EXCEPT ![p] = x]
  BY DEF Moved
<1>6. Shows(d, r, i2)
  BY <1>3, <1>4, <1>5 DEF Shows, WithNicks
<1>7. d.topic = c.topic /\ d.mode = c.mode
  BY <1>3 DEF WithNicks
<1> QED BY <1>6, <1>7

(* The presence of a newcomer. *)
LEMMA ShowsNew ==
  ASSUME NEW c, Sound(c), NEW r, People(r), NEW i \in [Person -> Info], Shows(c, r, i),
         NEW p \in Other, r[p] = NULL, NEW n \in Nick, Untaken(r, n),
         NEW own, ~own, NEW forced \in BOOLEAN,
         NEW d, d = Presented(c, n, i[p], own, forced), NEW r2, Moved(r, p, n, r2)
  PROVE  Shows(d, r2, i) /\ d.topic = c.topic /\ d.mode = c.mode
<1> USE DEF Moved
<1>1. /\ Good(c.nicks) /\ Lists(c.nicks, r, i) /\ n \notin DOMAIN c.nicks
      /\ Me \in Occupants(r) /\ n # c.nick
  <2>1. Good(c.nicks) /\ Lists(c.nicks, r, i) /\ Me \in Occupants(r) /\ c.nick = r[Me]
    BY DEF Sound, Shows, Occupants, Person
  <2> QED BY <2>1 DEF Lists, Untaken
<1>2. PICK rec : rec = [info |-> i[p], own |-> FALSE]
  OBVIOUS
<1>3. PICK u : u = PutLast(c.nicks, n, rec)
  OBVIOUS
<1>4. d = WithNicks(c, u)
  BY <1>1, <1>2, <1>3 DEF Presented
<1>5. p \in Person /\ p # Me
  BY PersonAssumption DEF Person
<1>6. rec.info = i[p] /\ ~rec.own
  BY <1>2
<1>7. Begins(u, c.nicks, n, rec)
  BY <1>1, <1>3, FirstOfChain
<1>8. rec.own <=> p = Me
  BY <1>5, <1>6
<1>9. r \in [Person -> Nick \cup {NULL}]
  BY DEF People
<1>10. Lists(u, r2, i)
  BY <1>1, <1>5, <1>6, <1>7, <1>8, <1>9, ListsAdd
<1>11. r2[Me] = r[Me]
  BY <1>5, <1>9 DEF Person
<1>12. Shows(d, r2, i)
  BY <1>4, <1>10, <1>11 DEF Shows, WithNicks
<1>13. d.topic = c.topic /\ d.mode = c.mode
  BY <1>4 DEF WithNicks
<1> QED BY <1>12, <1>13

(* The departure of somebody else, and of the user. *)
LEMMA ShowsGone ==
  ASSUME NEW c, Sound(c), NEW r, People(r), NEW i, Shows(c, r, i),
         NEW p \in Occupants(r), p # Me, NEW d, d = Departed(c, r[p]),
         NEW r2, Moved(r, p, NULL, r2)
  PROVE  Shows(d, r2, i) /\ d.topic = c.topic /\ d.mode = c.mode
<1> USE DEF Moved
<1>1. /\ Good(c.nicks) /\ Lists(c.nicks, r, i) /\ r[p] \in DOMAIN c.nicks
      /\ ~c.nicks[r[p]][1].own /\ p \in Person
  <2>1. Good(c.nicks) /\ Lists(c.nicks, r, i)
    BY DEF Sound, Shows
  <2> QED BY <2>1, ListsOf
<1>2. PICK u : u = RemoveHead(c.nicks, r[p])
  OBVIOUS
<1>3. d = WithNicks(c, u)
  BY <1>1, <1>2 DEF Departed
<1>4. Lists(u, r2, i)
  BY <1>1, <1>2, ListsRemove DEF People
<1>5. r2[Me] = r[Me]
  BY DEF People, Person
<1>6. Shows(d, r2, i)
  BY <1>3, <1>4, <1>5 DEF Shows, WithNicks
<1> QED BY <1>3, <1>6 DEF WithNicks

(* The departure of the user ends the channel.                                *)
LEMMA OwnGone ==
  ASSUME NEW c, Sound(c), NEW r, People(r), NEW i, Shows(c, r, i)
  PROVE  Departed(c, r[Me]) = NoChannel
<1>1. Good(c.nicks) /\ Lists(c.nicks, r, i) /\ Me \in Occupants(r)
  BY DEF Sound, Shows, Occupants, Person
<1>2. r[Me] \in DOMAIN c.nicks /\ c.nicks[r[Me]][1].own
  BY <1>1, ListsOf
<1> QED BY <1>2 DEF Departed

(* A change of nick: somebody else's record moves, and so does the user's.    *)
LEMMA ShowsRenamed ==
  ASSUME NEW c, Sound(c), NEW r, People(r), NEW i \in [Person -> Info], Shows(c, r, i),
         NEW p \in Occupants(r), NEW n \in Nick, Untaken(r, n),
         NEW d, d = Renamed(c, r[p], n), NEW r2, Moved(r, p, n, r2)
  PROVE  Shows(d, r2, i) /\ d.topic = c.topic /\ d.mode = c.mode
<1> USE DEF Moved
<1>1. PICK t, old, k : t = c.nicks /\ old = r[p] /\ k = r[Me]
  OBVIOUS
<1>2. Good(t) /\ Lists(t, r, i) /\ c.nick = k /\ k # NULL /\ r \in [Person -> Nick \cup {NULL}] /\ Distinct(r)
  BY <1>1 DEF Sound, Shows, People
<1>3. /\ p \in Person /\ old \in DOMAIN t
      /\ t[old] \in Seq(NickRec) /\ Len(t[old]) = 1
      /\ t[old][1].info = i[p] /\ (t[old][1].own <=> p = Me)
  BY <1>1, <1>2, ListsOf
<1>4. PICK h : h = t[old][1]
  OBVIOUS
<1>5. Head(t[old]) = h /\ h \in NickRec /\ h.info = i[p] /\ (h.own <=> p = Me)
  BY <1>2, <1>3, <1>4, HeadOfChain
<1>6. PICK t1, r1 : t1 = RemoveHead(t, old) /\ r1 = [r EXCEPT ![p] = NULL]
  OBVIOUS
<1>7. Lists(t1, r1, i) /\ Good(t1) /\ r1 \in [Person -> Nick \cup {NULL}] /\ Distinct(r1)
  BY <1>1, <1>2, <1>6, ListsRemove
<1>8. r1[p] = NULL /\ \A q \in Person : q # p => r1[q] = r[q]
  BY <1>2, <1>3, <1>6
<1>9. r2 = [r1 EXCEPT ![p] = n]
  BY <1>2, <1>3, <1>6
<1>10. Untaken(r1, n)
  BY <1>8 DEF Occupants, Untaken
<1>11. n \notin DOMAIN t1
  BY <1>7, <1>10 DEF Lists, Untaken
<1>12. r2[p] = n /\ \A q \in Person : q # p => r2[q] = r[q]
  BY <1>2, <1>3
<1>13. CASE p = Me
  <2>1. PICK t2 : t2 = Disown(t1)
    OBVIOUS
  <2>2. PICK rec : rec = [info |-> h.info, own |-> TRUE]
    OBVIOUS
  <2>3. rec.info = i[p] /\ rec.own
    BY <1>5, <2>2
  <2>4. PICK u : u = PutFirst(t2, n, rec)
    OBVIOUS
  <2>5. Lists(t2, r1, i)
    BY <1>7, <1>8, <1>13, <2>1, ListsDisown
  <2>6. n \notin DOMAIN t2
    BY <1>11, <2>1 DEF Disown
  <2>7. Begins(u, t2, n, rec)
    BY <2>4, <2>6, FirstOfChain
  <2>8. rec.info = i[p] /\ (rec.own <=> p = Me)
    BY <1>13, <2>3
  <2>9. Lists(u, r2, i)
    <3>1. p \in Person /\ r1[p] = NULL /\ r1 \in [Person -> Nick \cup {NULL}]
      BY <1>3, <1>7, <1>8
    <3>2. Lists(u, [r1 EXCEPT ![p] = n], i)
      BY <1>10, <2>5, <2>7, <2>8, <3>1, ListsAdd
    <3> QED BY <1>9, <3>2
  <2>10. d = [exists |-> c.exists, nick |-> n, joined |-> c.joined, nicks |-> u,
              topic |-> c.topic, mode |-> c.mode]
    <3>1. c.nick = old /\ old \in DOMAIN c.nicks /\ Head(c.nicks[old]) = h
      BY <1>1, <1>2, <1>3, <1>5, <1>13
    <3>2. d = [exists |-> c.exists, nick |-> n, joined |-> c.joined,
               nicks |-> PutFirst(Disown(RemoveHead(c.nicks, old)), n, [info |-> h.info, own |-> TRUE]),
               topic |-> c.topic, mode |-> c.mode]
      BY <1>1, <3>1 DEF Renamed
    <3> QED BY <1>1, <1>6, <2>1, <2>2, <2>4, <3>2
  <2>11. r2[Me] = n /\ n # NULL
    BY <1>12, <1>13, NickAssumption
  <2>12. d.exists = c.exists /\ d.joined = c.joined /\ d.nick = n /\ d.nicks = u
         /\ d.topic = c.topic /\ d.mode = c.mode
    BY <2>10
  <2> QED BY <2>9, <2>11, <2>12 DEF Shows
<1>14. CASE p # Me
  <2>1. PICK u : u = PutLast(t1, n, h)
    OBVIOUS
  <2>2. Begins(u, t1, n, h)
    BY <1>11, <2>1, FirstOfChain
  <2>3. h.info = i[p] /\ (h.own <=> p = Me)
    BY <1>5
  <2>4. Lists(u, r2, i)
    <3>1. p \in Person /\ r1[p] = NULL /\ r1 \in [Person -> Nick \cup {NULL}] /\ Lists(t1, r1, i)
      BY <1>3, <1>7, <1>8
    <3>2. Lists(u, [r1 EXCEPT ![p] = n], i)
      BY <1>10, <2>2, <2>3, <3>1, ListsAdd
    <3> QED BY <1>9, <3>2
  <2>5. d = WithNicks(c, u)
    <3>1. old # c.nick
      <4>1. Me \in Occupants(r)
        BY <1>1, <1>2 DEF Occupants, Person
      <4> QED BY <1>1, <1>2, <1>14, <4>1 DEF Distinct
    <3>2. old \in DOMAIN c.nicks /\ Head(c.nicks[old]) = h /\ ~h.own
      BY <1>1, <1>3, <1>5, <1>14
    <3>3. d = WithNicks(c, PutLast(RemoveHead(c.nicks, old), n, h))
      BY <1>1, <3>1, <3>2 DEF Renamed
    <3> QED BY <1>1, <1>6, <2>1, <3>3
  <2>6. r2[Me] = r[Me]
    BY <1>12, <1>14 DEF Person
  <2>7. d.exists = c.exists /\ d.joined = c.joined /\ d.nick = c.nick /\ d.nicks = u
         /\ d.topic = c.topic /\ d.mode = c.mode
    BY <2>5 DEF WithNicks
  <2> QED BY <2>4, <2>6, <2>7 DEF Shows
<1> QED BY <1>13, <1>14

-----------------------------------------------------------------------------
(* Whoever enters is presented everybody, in some order.                      *)

(* SetToSeq enumerates a finite set, each element once. *)
LEMMA Enumerated ==
  ASSUME NEW S, IsFiniteSet(S), NEW s, s = SetToSeq(S)
  PROVE  /\ s \in Seq(S)
         /\ \A j, k \in 1..Len(s) : s[j] = s[k] => j = k
         /\ \A x \in S : \E j \in 1..Len(s) : s[j] = x
<1>1. PICK n : n = Cardinality(S)
  OBVIOUS
<1>2. n \in Nat /\ ExistsBijection(1..n, S)
  BY <1>1, FS_CardinalityType
<1>3. PICK g : g \in Bijection(1..n, S)
  BY <1>2 DEF ExistsBijection
<1>4. g \in [1..n -> S] /\ IsInjective(g)
  BY <1>3 DEF Bijection, Injection
<1>5. s = CHOOSE f \in [1..n -> S] : IsInjective(f)
  BY <1>1 DEF SetToSeq
<1>6. s \in [1..n -> S] /\ IsInjective(s)
  BY <1>4, <1>5
<1>7. s \in Injection(1..n, S)
  BY <1>6 DEF Injection
<1>8. 1 \in Int /\ n \in Int
  BY <1>2
<1>9. Cardinality(1..n) = n
  <2>1. Cardinality(1..n) = IF 1 > n THEN 0 ELSE n - 1 + 1
    BY <1>8, FS_Interval
  <2> QED BY <1>2, <2>1
<1>10. s \in Surjection(1..n, S)
  BY <1>1, <1>7, <1>9, FS_Injection
<1>11. s \in Seq(S) /\ Len(s) = n
  BY <1>2, <1>6
<1>12. \A x \in S : \E j \in 1..n : s[j] = x
  BY <1>10 DEF Surjection
<1>13. \A j, k \in 1..n : s[j] = s[k] => j = k
  BY <1>6 DEF IsInjective
<1> QED BY <1>11, <1>12, <1>13

(* The presences of the occupants, and the records of the first k - 1.        *)
Introduced(r, i, s) == [k \in 1..Len(s) |-> Available(r[s[k]], i[s[k]], FALSE, FALSE)]

Who(r, n) == CHOOSE p \in Occupants(r) : r[p] = n

Met(r, i, s, k) ==
  [n \in {x \in Nick : \E j \in 1..(k - 1) : r[s[j]] = x} |->
    <<[info |-> i[Who(r, n)], own |-> FALSE]>>]

(* A nick belongs to one occupant. *)
LEMMA WhoIs ==
  ASSUME NEW r, People(r), NEW p \in Occupants(r)
  PROVE  Who(r, r[p]) = p
<1>1. Who(r, r[p]) \in Occupants(r) /\ r[Who(r, r[p])] = r[p]
  BY DEF Who
<1> QED BY <1>1 DEF People, Distinct

(* The table holds the first k of s. *)
Holds(t, r, i, s, k) ==
  /\ \A n \in DOMAIN t : \E j \in 1..k : r[s[j]] = n
  /\ \A j \in 1..k : /\ r[s[j]] \in DOMAIN t /\ Len(t[r[s[j]]]) = 1
                     /\ t[r[s[j]]][1].info = i[s[j]] /\ ~t[r[s[j]]][1].own

(* The table after k - 1 presentations lists those that were presented. *)
LEMMA MetIs ==
  ASSUME NEW r, People(r), NEW i \in [Person -> Info], NEW s \in Seq(Occupants(r)),
         NEW k \in 1..(Len(s) + 1), NEW t, t = Met(r, i, s, k)
  PROVE  Holds(t, r, i, s, k - 1) /\ Good(t) /\ ~Owned(t)
<1>1. DOMAIN t = {x \in Nick : \E j \in 1..(k - 1) : r[s[j]] = x}
  BY DEF Met
<1>2. \A n \in DOMAIN t : t[n] = <<[info |-> i[Who(r, n)], own |-> FALSE]>>
  BY DEF Met
<1>3. ASSUME NEW j \in 1..(k - 1)
      PROVE  /\ s[j] \in Occupants(r) /\ r[s[j]] \in DOMAIN t /\ Who(r, r[s[j]]) = s[j]
             /\ i[s[j]] \in Info
  <2>1. j \in 1..Len(s)
    OBVIOUS
  <2>2. s[j] \in Occupants(r)
    BY <2>1
  <2>3. s[j] \in Person /\ r[s[j]] \in Nick
    BY <2>2 DEF Occupants, People
  <2> QED BY <1>1, <2>2, <2>3, WhoIs
<1>4. ASSUME NEW n \in DOMAIN t
      PROVE  /\ n \in Nick /\ t[n] \in Seq(NickRec) /\ t[n] # <<>>
             /\ Len(t[n]) = 1 /\ ~t[n][1].own
  <2>1. PICK j \in 1..(k - 1) : r[s[j]] = n
    BY <1>1
  <2>2. n \in Nick /\ i[Who(r, n)] \in Info
    BY <1>1, <1>3, <2>1
  <2>3. PICK rec : rec = [info |-> i[Who(r, n)], own |-> FALSE]
    OBVIOUS
  <2>4. rec \in NickRec /\ ~rec.own
    BY <2>2, <2>3 DEF NickRec
  <2>5. t[n] = <<rec>>
    BY <1>2, <2>3
  <2>6. <<rec>> \in Seq(NickRec) /\ <<rec>> # <<>> /\ Len(<<rec>>) = 1 /\ <<rec>>[1] = rec
    BY <2>4
  <2> QED BY <2>2, <2>4, <2>5, <2>6
<1>5. Good(t)
  <2>1. Table(t)
    BY <1>4 DEF Table
  <2>2. HeadsOnly(t)
    BY <1>4 DEF HeadsOnly
  <2>3. Unique(t)
    BY <1>4 DEF Unique
  <2> QED BY <2>1, <2>2, <2>3 DEF Good
<1>6. ~Owned(t)
  BY <1>4 DEF Owned
<1>7. ASSUME NEW j \in 1..(k - 1)
      PROVE  /\ r[s[j]] \in DOMAIN t /\ Len(t[r[s[j]]]) = 1
             /\ t[r[s[j]]][1].info = i[s[j]] /\ ~t[r[s[j]]][1].own
  <2>1. PICK rec : rec = [info |-> i[s[j]], own |-> FALSE]
    OBVIOUS
  <2>2. r[s[j]] \in DOMAIN t /\ t[r[s[j]]] = <<rec>>
    BY <1>2, <1>3, <2>1
  <2>3. Len(<<rec>>) = 1 /\ <<rec>>[1] = rec /\ rec.info = i[s[j]] /\ ~rec.own
    BY <2>1
  <2> QED BY <2>2, <2>3
<1>8. \A n \in DOMAIN t : \E j \in 1..(k - 1) : r[s[j]] = n
  BY <1>1
<1>9. Holds(t, r, i, s, k - 1)
  BY <1>7, <1>8 DEF Holds
<1> QED BY <1>5, <1>6, <1>9

(* The channel of somebody who asked for n and was told of the records t. *)
Entering(n, t) == WithNicks(NewChannel(n), t)

(* A channel that is being filled is not joined and well formed. *)
LEMMA EnteringIs ==
  ASSUME NEW n \in Nick, NEW t, Good(t), ~Owned(t), NEW c, c = Entering(n, t)
  PROVE  /\ c.exists /\ ~c.joined /\ c.nick = n /\ c.nicks = t /\ c.topic = NULL /\ c.mode = NULL
         /\ State(c)
<1>1. c.exists /\ ~c.joined /\ c.nick = n /\ c.nicks = t /\ c.topic = NULL /\ c.mode = NULL
  BY DEF Entering, WithNicks, NewChannel
<1>2. Sound(NewChannel(n)) /\ ~Owned(NewChannel(n).nicks)
  BY FreshSound DEF NewChannel, Owned, NoNicks
<1>3. Sound(c)
  BY <1>2, WithNicksSound DEF Entering
<1> QED BY <1>1, <1>3 DEF State

(* One more occupant is presented. *)
LEMMA MetNext ==
  ASSUME NEW r, People(r), NEW i \in [Person -> Info], NEW s \in Seq(Occupants(r)),
         \A j, k \in 1..Len(s) : s[j] = s[k] => j = k,
         NEW n \in Nick, Untaken(r, n), NEW k \in 1..Len(s), NEW own, ~own, NEW forced \in BOOLEAN
  PROVE  Presented(Entering(n, Met(r, i, s, k)), r[s[k]], i[s[k]], own, forced)
           = Entering(n, Met(r, i, s, k + 1))
<1>1. PICK t, u, p, c : /\ t = Met(r, i, s, k) /\ u = Met(r, i, s, k + 1) /\ p = s[k]
                        /\ c = Entering(n, t)
  OBVIOUS
<1>2. k \in Nat /\ k \in 1..(Len(s) + 1) /\ k + 1 \in 1..(Len(s) + 1) /\ (k + 1) - 1 = k
  OBVIOUS
<1>3. p \in Occupants(r) /\ r[p] \in Nick /\ r[p] # n
  BY <1>1 DEF Occupants, People, Untaken
<1>4. Holds(t, r, i, s, k - 1) /\ Good(t) /\ ~Owned(t)
  BY <1>1, <1>2, MetIs
<1>5. r[p] \notin DOMAIN t
  <2> SUFFICES ASSUME r[p] \in DOMAIN t PROVE FALSE
    OBVIOUS
  <2>1. PICK j \in 1..(k - 1) : r[s[j]] = r[p]
    BY <1>4 DEF Holds
  <2>2. j \in 1..Len(s) /\ j # k
    BY <1>2
  <2>3. s[j] = p
    BY <1>3, <2>1, <2>2 DEF People, Distinct
  <2> QED BY <1>1, <2>2, <2>3
<1>6. c.exists /\ ~c.joined /\ c.nick = n /\ c.nicks = t
  BY <1>1, <1>4, EnteringIs
<1>7. PICK rec : rec = [info |-> i[p], own |-> FALSE]
  OBVIOUS
<1>8. PutLast(t, r[p], rec) = Put(t, r[p], <<rec>>)
  <2>1. Chain(t, r[p]) = <<>> /\ Append(<<>>, rec) = <<rec>>
    BY <1>5 DEF Chain
  <2> QED BY <2>1 DEF PutLast
<1>9. Put(t, r[p], <<rec>>) = u
  <2>1. PICK v : v = Put(t, r[p], <<rec>>)
    OBVIOUS
  <2>2. v = [m \in DOMAIN t \cup {r[p]} |-> IF m = r[p] THEN <<rec>> ELSE t[m]]
    BY <2>1 DEF Put
  <2>3. DOMAIN t = {x \in Nick : \E j \in 1..(k - 1) : r[s[j]] = x}
    BY <1>1 DEF Met
  <2>4. DOMAIN u = {x \in Nick : \E j \in 1..k : r[s[j]] = x}
    BY <1>1, <1>2 DEF Met
  <2>5. \A j \in 1..k : j = k \/ j \in 1..(k - 1)
    BY <1>2
  <2>6. 1..(k - 1) \subseteq 1..k /\ k \in 1..k
    BY <1>2
  <2>7. DOMAIN u = DOMAIN t \cup {r[p]}
    BY <1>1, <1>3, <2>3, <2>4, <2>5, <2>6
  <2>8. u[r[p]] = <<rec>>
    <3>1. u[r[p]] = <<[info |-> i[Who(r, r[p])], own |-> FALSE]>>
      BY <1>1, <2>7 DEF Met
    <3>2. Who(r, r[p]) = p
      BY <1>3, WhoIs
    <3> QED BY <1>7, <3>1, <3>2
  <2>9. \A m \in DOMAIN t : u[m] = t[m]
    BY <1>1, <2>7 DEF Met
  <2>10. DOMAIN v = DOMAIN u
    BY <2>2, <2>7
  <2>11. \A m \in DOMAIN u : v[m] = u[m]
    BY <1>5, <2>2, <2>7, <2>8, <2>9
  <2>12. u = [m \in DOMAIN u |-> u[m]]
    BY <1>1 DEF Met
  <2>13. v = [m \in DOMAIN v |-> v[m]]
    BY <2>2
  <2> QED BY <2>1, <2>10, <2>11, <2>12, <2>13
<1>10. Presented(c, r[p], i[p], own, forced) = WithNicks(c, PutLast(t, r[p], rec))
  BY <1>3, <1>5, <1>6, <1>7 DEF Presented
<1>11. WithNicks(c, u) = Entering(n, u)
  BY <1>1 DEF Entering, WithNicks
<1>12. Presented(c, r[p], i[p], own, forced) = Entering(n, u)
  BY <1>8, <1>9, <1>10, <1>11
<1> QED BY <1>1, <1>12

(* The presentation of the occupants fills the table of a new channel. *)
LEMMA LeadsIntroduced ==
  ASSUME NEW r, People(r), NEW i \in [Person -> Info], NEW s \in Seq(Occupants(r)),
         \A j, k \in 1..Len(s) : s[j] = s[k] => j = k,
         NEW n \in Nick, Untaken(r, n), NEW out, NEW q, q = Introduced(r, i, s)
  PROVE  /\ q \in Seq(Told) /\ Errorless(q)
         /\ Leads(NewChannel(n), q, out, Entering(n, Met(r, i, s, Len(s) + 1)))
<1>1. PICK h : h = Len(s)
  OBVIOUS
<1>2. h \in Nat /\ 1 \in 1..(h + 1) /\ h + 1 \in 1..(h + 1)
  BY <1>1
<1>3. PICK traj : traj = [k \in 1..(h + 1) |-> Entering(n, Met(r, i, s, k))]
  OBVIOUS
<1>4. \A k \in 1..(h + 1) : traj[k] = Entering(n, Met(r, i, s, k))
  BY <1>3
<1>5. ASSUME NEW k \in 1..(h + 1) PROVE traj[k].exists /\ ~traj[k].joined /\ State(traj[k])
  <2>1. PICK t : t = Met(r, i, s, k)
    OBVIOUS
  <2>2. Good(t) /\ ~Owned(t)
    BY <1>1, <2>1, MetIs
  <2> QED BY <1>4, <2>1, <2>2, EnteringIs
<1>6. q = [k \in 1..h |-> Available(r[s[k]], i[s[k]], FALSE, FALSE)]
  BY <1>1 DEF Introduced
<1>7. ASSUME NEW k \in 1..h
      PROVE  /\ q[k] = Available(r[s[k]], i[s[k]], FALSE, FALSE)
             /\ q[k] \in Told /\ q[k].type = "available"
             /\ q[k].nick = r[s[k]] /\ q[k].info = i[s[k]] /\ ~q[k].own /\ ~q[k].forced
  <2>1. q[k] = Available(r[s[k]], i[s[k]], FALSE, FALSE)
    BY <1>6
  <2>2. s[k] \in Occupants(r)
    BY <1>1
  <2>3. r[s[k]] \in Nick /\ i[s[k]] \in Info
    BY <2>2 DEF Occupants, People
  <2>4. PICK a, b : a = r[s[k]] /\ b = i[s[k]]
    OBVIOUS
  <2>5. q[k] = [type |-> "available", nick |-> a, info |-> b, own |-> FALSE, forced |-> FALSE]
    BY <2>1, <2>4 DEF Available
  <2>6. q[k] \in Told
    BY <2>3, <2>4, <2>5 DEF APresence, Told
  <2>7. q[k].type = "available" /\ q[k].nick = a /\ q[k].info = b /\ ~q[k].own /\ ~q[k].forced
    BY <2>5
  <2> QED BY <2>1, <2>4, <2>6, <2>7
<1>8. q \in Seq(Told) /\ Len(q) = h
  <2>1. \A k \in 1..h : q[k] \in Told
    BY <1>7
  <2>2. DOMAIN q = 1..h /\ q = [k \in 1..h |-> q[k]]
    BY <1>6
  <2>3. q \in [1..h -> Told]
    BY <2>1, <2>2
  <2> QED BY <1>2, <2>3
<1>9. Errorless(q)
  BY <1>7, <1>8 DEF Errorless
<1>10. ASSUME NEW k \in 1..h
       PROVE  traj[k + 1] = Handled(traj[k], q[k]) /\ Meant(traj[k], q[k], h, out)
  <2>1. k \in 1..(h + 1) /\ k + 1 \in 1..(h + 1) /\ k \in 1..Len(s)
    BY <1>1, <1>2
  <2>2. /\ q[k].type = "available" /\ q[k].nick = r[s[k]] /\ q[k].info = i[s[k]]
        /\ ~q[k].own /\ ~q[k].forced /\ q[k] \in Told
    BY <1>7
  <2>3. PICK own, forced : own = q[k].own /\ forced = q[k].forced
    OBVIOUS
  <2>4. forced \in BOOLEAN /\ ~own
    BY <2>2, <2>3, ToldTypes
  <2>5. Handled(traj[k], q[k]) = Presented(traj[k], r[s[k]], i[s[k]], own, forced)
    <3>1. traj[k].exists
      BY <1>5, <2>1
    <3>2. Handled(traj[k], q[k]) = Presented(traj[k], q[k].nick, q[k].info, q[k].own, q[k].forced)
      BY <2>2, <3>1, HandledIs
    <3> QED BY <2>2, <2>3, <3>2
  <2>6. Presented(Entering(n, Met(r, i, s, k)), r[s[k]], i[s[k]], own, forced)
          = Entering(n, Met(r, i, s, k + 1))
    BY <2>1, <2>4, MetNext
  <2>7. traj[k + 1] = Handled(traj[k], q[k])
    BY <1>4, <2>1, <2>5, <2>6
  <2>8. traj[k + 1].exists
    BY <1>5, <2>1
  <2>9. Meant(traj[k], q[k], h, out)
    BY <2>2, <2>7, <2>8 DEF Meant
  <2> QED BY <2>7, <2>9
<1>11. Path(traj, q, out)
  BY <1>5, <1>8, <1>10 DEF Path
<1>12. traj[1] = NewChannel(n)
  <2>1. PICK t : t = Met(r, i, s, 1)
    OBVIOUS
  <2>2. t = NoNicks
    <3>1. {x \in Nick : \E j \in 1..(1 - 1) : r[s[j]] = x} = {}
      OBVIOUS
    <3> QED BY <2>1, <3>1 DEF Met, NoNicks
  <2>3. Entering(n, NoNicks) = NewChannel(n)
    BY DEF Entering, WithNicks, NewChannel
  <2> QED BY <1>2, <1>4, <2>1, <2>2, <2>3
<1>13. traj[h + 1] = Entering(n, Met(r, i, s, h + 1))
  BY <1>2, <1>4
<1>14. Leads(NewChannel(n), q, out, Entering(n, Met(r, i, s, h + 1)))
  BY <1>8, <1>11, <1>12, <1>13 DEF Leads
<1> QED BY <1>1, <1>8, <1>9, <1>14

(* Everybody was presented. *)
LEMMA MetAll ==
  ASSUME NEW r, People(r), r[Me] = NULL, NEW i \in [Person -> Info], NEW s \in Seq(Occupants(r)),
         \A p \in Occupants(r) : \E j \in 1..Len(s) : s[j] = p,
         NEW t, t = Met(r, i, s, Len(s) + 1)
  PROVE  Lists(t, r, i) /\ Good(t) /\ ~Owned(t)
<1>1. PICK k : k = Len(s)
  OBVIOUS
<1>2. PICK h : h = k + 1
  OBVIOUS
<1>3. k \in Nat /\ h \in 1..(Len(s) + 1) /\ h - 1 = k /\ t = Met(r, i, s, h)
  BY <1>1, <1>2
<1>4. Holds(t, r, i, s, h - 1) /\ Good(t) /\ ~Owned(t)
  BY <1>3, MetIs
<1>5. /\ \A m \in DOMAIN t : \E j \in 1..k : r[s[j]] = m
      /\ \A j \in 1..k : /\ r[s[j]] \in DOMAIN t /\ Len(t[r[s[j]]]) = 1
                         /\ t[r[s[j]]][1].info = i[s[j]] /\ ~t[r[s[j]]][1].own
  BY <1>3, <1>4 DEF Holds
<1>6. ASSUME NEW m \in DOMAIN t PROVE \E p \in Occupants(r) : m = r[p]
  <2>1. PICK j \in 1..k : r[s[j]] = m
    BY <1>5
  <2>2. s[j] \in Occupants(r)
    BY <1>1
  <2> QED BY <2>1, <2>2
<1>7. ASSUME NEW p \in Occupants(r)
      PROVE  r[p] \in DOMAIN t /\ Len(t[r[p]]) = 1 /\ t[r[p]][1].info = i[p] /\ (t[r[p]][1].own <=> p = Me)
  <2>1. PICK j \in 1..k : s[j] = p
    BY <1>1
  <2>2. r[p] \in DOMAIN t /\ Len(t[r[p]]) = 1 /\ t[r[p]][1].info = i[p] /\ ~t[r[p]][1].own
    BY <1>5, <2>1
  <2>3. p # Me
    BY DEF Occupants
  <2> QED BY <2>2, <2>3
<1>8. Lists(t, r, i)
  BY <1>6, <1>7 DEF Lists
<1> QED BY <1>4, <1>8

(* The user's presence comes last.                                            *)
LEMMA OwnPresented ==
  ASSUME NEW c, ~c.joined, NEW n, c.nick = n, n \notin DOMAIN c.nicks, NEW x, NEW own,
         NEW forced \in BOOLEAN, ~forced, NEW d, d = Presented(c, n, x, own, forced),
         NEW rec, rec = [info |-> x, own |-> TRUE]
  PROVE  /\ d.exists = c.exists /\ d.nick = n /\ d.topic = c.topic /\ d.mode = c.mode
         /\ d.joined /\ d.nicks = PutFirst(Disown(c.nicks), n, rec)
<1>1. d = OwnJoin(c, n, x, forced)
  BY DEF Presented
<1>2. d = [exists |-> c.exists, nick |-> c.nick, joined |-> TRUE,
           nicks |-> PutFirst(Disown(c.nicks), n, [info |-> x, own |-> TRUE]),
           topic |-> c.topic, mode |-> c.mode]
  BY <1>1 DEF OwnJoin
<1> QED BY <1>2

(* The presence of the user, the last one, joins the channel. *)
LEMMA ShowsEntry ==
  ASSUME NEW r, People(r), r[Me] = NULL, NEW i \in [Person -> Info], NEW n \in Nick, Untaken(r, n),
         NEW t, Lists(t, r, i), Good(t), ~Owned(t), NEW own,
         NEW forced \in BOOLEAN, ~forced, NEW d, d = Presented(Entering(n, t), n, i[Me], own, forced)
  PROVE  Shows(d, [r EXCEPT ![Me] = n], i) /\ d.topic = NULL /\ d.mode = NULL
<1>1. PICK c : c = Entering(n, t)
  OBVIOUS
<1>2. c.exists /\ ~c.joined /\ c.nick = n /\ c.nicks = t /\ c.topic = NULL /\ c.mode = NULL
  BY <1>1, EnteringIs
<1>3. n \notin DOMAIN t
  BY DEF Lists, Untaken
<1>4. PICK t2, rec, u : /\ t2 = Disown(t) /\ rec = [info |-> i[Me], own |-> TRUE]
                        /\ u = PutFirst(t2, n, rec)
  OBVIOUS
<1>5. Lists(t2, r, i)
  BY <1>4, ListsDisown
<1>6. n \notin DOMAIN t2
  BY <1>3, <1>4 DEF Disown
<1>7. Begins(u, t2, n, rec)
  BY <1>4, <1>6, FirstOfChain
<1>8. rec.info = i[Me] /\ (rec.own <=> Me = Me)
  BY <1>4
<1>9. Me \in Person /\ r \in [Person -> Nick \cup {NULL}]
  BY DEF Person, People
<1>10. PICK r2 : r2 = [r EXCEPT ![Me] = n]
  OBVIOUS
<1>11. Lists(u, r2, i)
  BY <1>5, <1>7, <1>8, <1>9, <1>10, ListsAdd
<1>12. r2[Me] = n /\ n # NULL
  BY <1>9, <1>10, NickAssumption
<1>13. /\ d.exists = c.exists /\ d.nick = n /\ d.topic = c.topic /\ d.mode = c.mode
       /\ d.joined /\ d.nicks = PutFirst(Disown(c.nicks), n, rec)
  <2>1. PICK x : x = i[Me]
    OBVIOUS
  <2>2. d = Presented(c, n, x, own, forced) /\ rec = [info |-> x, own |-> TRUE]
    BY <1>1, <1>4, <2>1
  <2>3. n \notin DOMAIN c.nicks /\ c.nick = n /\ ~c.joined
    BY <1>2, <1>3
  <2> QED BY <2>2, <2>3, OwnPresented
<1>14. d.exists /\ d.joined /\ d.nick = n /\ d.nicks = u
  BY <1>2, <1>4, <1>13
<1>15. Shows(d, r2, i)
  BY <1>11, <1>12, <1>14 DEF Shows
<1> QED BY <1>2, <1>10, <1>13, <1>15

-----------------------------------------------------------------------------
(* The stanzas of the room. *)

OwnPresence(n, i) == Available(n, i, TRUE, FALSE)
Presence(n, i)    == Available(n, i, FALSE, FALSE)

(* The presences of occupants are stanzas of the room. *)
LEMMA PresenceTold ==
  ASSUME NEW n \in Nick, NEW i \in Info, NEW m, m = OwnPresence(n, i) \/ m = Presence(n, i)
  PROVE  /\ m \in Told /\ m.type = "available" /\ m.nick = n /\ m.info = i
         /\ m.own \in BOOLEAN /\ m.forced \in BOOLEAN /\ ~m.forced
         /\ m = Presence(n, i) => ~m.own
<1>1. CASE m = OwnPresence(n, i)
  <2>1. m = [type |-> "available", nick |-> n, info |-> i, own |-> TRUE, forced |-> FALSE]
    BY <1>1 DEF OwnPresence, Available
  <2>2. m \in Told
    BY <2>1 DEF APresence, Told
  <2>3. /\ m.type = "available" /\ m.nick = n /\ m.info = i
        /\ m.own \in BOOLEAN /\ m.forced \in BOOLEAN /\ ~m.forced
    BY <2>1
  <2>4. m # Presence(n, i)
    <3>1. Presence(n, i) = [type |-> "available", nick |-> n, info |-> i, own |-> FALSE, forced |-> FALSE]
      BY DEF Presence, Available
    <3> QED BY <2>1, <3>1
  <2> QED BY <2>2, <2>3, <2>4
<1>2. CASE m = Presence(n, i)
  <2>1. m = [type |-> "available", nick |-> n, info |-> i, own |-> FALSE, forced |-> FALSE]
    BY <1>2 DEF Presence, Available
  <2>2. m \in Told
    BY <2>1 DEF APresence, Told
  <2>3. /\ m.type = "available" /\ m.nick = n /\ m.info = i /\ ~m.own
        /\ m.own \in BOOLEAN /\ m.forced \in BOOLEAN /\ ~m.forced
    BY <2>1
  <2> QED BY <2>2, <2>3
<1> QED BY <1>1, <1>2

(* So are the other stanzas. *)
LEMMA OthersTold ==
  /\ \A n \in Nick, code \in {NULL, 301, 307} : Unavailable(n, code) \in Told
  /\ \A n \in Nick : Destroyed(n) \in Told /\ Refused(n) \in Told
  /\ \A n, new \in Nick : Changed(n, new) \in Told
  /\ \A p \in Person : room[p] \in Nick => Message(p) \in Told
  /\ \A t \in Topic \cup {NULL} : SubjectIs(t) \in Told
  /\ \A m \in Mode : FeaturesAre(m) \in Told
  /\ Answer \in Told
<1>1. \A n \in Nick, code \in {NULL, 301, 307} : Unavailable(n, code) \in Told
  BY DEF Unavailable, ADeparture, Told
<1>2. \A n \in Nick : Destroyed(n) \in Told /\ Refused(n) \in Told
  BY DEF Destroyed, Refused, ANick, Told
<1>3. \A n, new \in Nick : Changed(n, new) \in Told
  BY DEF Changed, ANickChange, Told
<1>4. \A p \in Person : room[p] \in Nick => Message(p) \in Told
  BY DEF Message, AMessage, Told
<1>5. \A t \in Topic \cup {NULL} : SubjectIs(t) \in Told
  BY DEF SubjectIs, ASubject, Told
<1>6. \A m \in Mode : FeaturesAre(m) \in Told
  BY DEF FeaturesAre, AMode, Told
<1>7. Answer \in Told
  BY DEF Answer, AnAnswer, Told
<1> QED BY <1>1, <1>2, <1>3, <1>4, <1>5, <1>6, <1>7

-----------------------------------------------------------------------------
(* The way into the room, for somebody who asked for n.                       *)
Theme(t) == IF t = NULL THEN <<>> ELSE <<SubjectIs(t)>>

Admits(n, q, out, r, i, theme) ==
  \E d : Leads(NewChannel(n), q, out, d) /\ Shows(d, r, i) /\ d.topic = theme /\ d.mode = NULL

(* The way into the room: presentation, own presence, subject. *)
LEMMA LeadsIn ==
  ASSUME NEW r, People(r), r[Me] = NULL, NEW i \in [Person -> Info], NEW n \in Nick, Untaken(r, n),
         NEW theme \in Topic \cup {NULL}, NEW out, NEW s, s = SetToSeq(Occupants(r)),
         NEW q1, q1 = Introduced(r, i, s),
         NEW m, m = OwnPresence(n, i[Me]),
         NEW q3, q3 = Theme(theme),
         NEW r2, Moved(r, Me, n, r2), NEW q0, q0 = <<m>>
  PROVE  /\ q1 \in Seq(Told) /\ q0 \in Seq(Told) /\ q3 \in Seq(Told)
         /\ Admits(n, (q1 \o q0) \o q3, out, r2, i, theme)
<1>1. IsFiniteSet(Occupants(r))
  <2>1. Occupants(r) \subseteq Other
    BY DEF Occupants, Person
  <2> QED BY <2>1, PersonAssumption, FS_Subset
<1>2. /\ s \in Seq(Occupants(r))
      /\ \A j, k \in 1..Len(s) : s[j] = s[k] => j = k
      /\ \A x \in Occupants(r) : \E j \in 1..Len(s) : s[j] = x
  BY <1>1, Enumerated
<1>3. PICK t, c : t = Met(r, i, s, Len(s) + 1) /\ c = Entering(n, t)
  OBVIOUS
<1>4. q1 \in Seq(Told) /\ Errorless(q1) /\ Leads(NewChannel(n), q1, out, c)
  BY <1>2, <1>3, LeadsIntroduced
<1>5. Lists(t, r, i) /\ Good(t) /\ ~Owned(t)
  BY <1>2, <1>3, MetAll
<1>6. c.exists /\ ~c.joined /\ State(c)
  BY <1>3, <1>5, EnteringIs
<1>7. i[Me] \in Info
  BY DEF Person
<1>8. /\ m \in Told /\ m.type = "available" /\ m.nick = n /\ m.info = i[Me]
      /\ m.forced \in BOOLEAN /\ ~m.forced
  BY <1>7, PresenceTold
<1>9. PICK own, forced, d : own = m.own /\ forced = m.forced /\ d = Presented(c, n, i[Me], own, forced)
  OBVIOUS
<1>10. Handled(c, m) = d
  BY <1>6, <1>8, <1>9, HandledIs
<1>11. Shows(d, [r EXCEPT ![Me] = n], i) /\ d.topic = NULL /\ d.mode = NULL
  <2>1. forced \in BOOLEAN /\ ~forced
    BY <1>8, <1>9
  <2>2. d = Presented(Entering(n, t), n, i[Me], own, forced)
    BY <1>3, <1>9
  <2> QED BY <1>5, <2>1, <2>2, ShowsEntry
<1>12. d.exists /\ d.joined
  BY <1>11 DEF Shows
<1>13. Meant(c, m, 1, out)
  BY <1>8, <1>10, <1>12 DEF Meant
<1>14. Leads(c, <<m>>, out, d)
  BY <1>6, <1>8, <1>10, <1>13, LeadsOne
<1>15. PICK q2 : q2 = <<m>>
  OBVIOUS
<1>16. q2 \in Seq(Told) /\ Errorless(q2)
  BY <1>8, <1>15 DEF Errorless
<1>17. Leads(NewChannel(n), q1 \o q2, out, d) /\ q1 \o q2 \in Seq(Told)
  <2>1. Leads(NewChannel(n), q1 \o q2, out, d)
    BY <1>4, <1>14, <1>15, <1>16, LeadsOn
  <2> QED BY <1>4, <1>16, <2>1, Joined2
<1>18. PICK q12 : q12 = q1 \o q2
  OBVIOUS
<1>19. Leads(NewChannel(n), q12, out, d) /\ q12 \in Seq(Told)
  BY <1>17, <1>18
<1>20. q3 \in Seq(Told) /\ \E e : /\ Leads(NewChannel(n), q12 \o q3, out, e)
                                 /\ Shows(e, [r EXCEPT ![Me] = n], i) /\ e.topic = theme /\ e.mode = NULL
  <2>1. CASE theme = NULL
    <3>1. q3 = <<>>
      BY <2>1 DEF Theme
    <3>2. q3 \in Seq(Told)
      BY <3>1
    <3>3. q12 \o q3 = q12
      BY <1>19, <3>1
    <3> QED BY <1>11, <1>19, <2>1, <3>2, <3>3
  <2>2. CASE theme # NULL
    <3>1. PICK w, e : w = SubjectIs(theme) /\ e = WithTopic(d, theme)
      OBVIOUS
    <3>2. w \in Told /\ w.type = "subject" /\ w.topic = theme
      BY <3>1, OthersTold DEF SubjectIs
    <3>3. Handled(d, w) = e
      BY <1>12, <3>1, <3>2, HandledIs
    <3>4. e.exists /\ e.joined /\ e.nick = d.nick /\ e.nicks = d.nicks /\ e.topic = theme /\ e.mode = NULL
      BY <1>11, <1>12, <3>1 DEF WithTopic
    <3>5. Meant(d, w, 1, out)
      BY <1>12, <3>2, <3>3, <3>4 DEF Meant
    <3>6. Leads(NewChannel(n), q12 \o <<w>>, out, e)
      BY <1>12, <1>19, <3>2, <3>3, <3>5, LeadsMore
    <3>7. q3 = <<w>>
      BY <2>2, <3>1 DEF Theme
    <3>8. q3 \in Seq(Told)
      BY <3>2, <3>7
    <3>9. Shows(e, [r EXCEPT ![Me] = n], i)
      BY <1>11, <3>4 DEF Shows
    <3> QED BY <3>4, <3>6, <3>7, <3>8, <3>9
  <2> QED BY <2>1, <2>2
<1>21. q0 = q2 /\ q0 \in Seq(Told)
  BY <1>15, <1>16
<1>22. Admits(n, (q1 \o q0) \o q3, out, r2, i, theme)
  BY <1>18, <1>20, <1>21 DEF Admits, Moved
<1> QED BY <1>4, <1>20, <1>21, <1>22

(* What the room says to the user who enters as n. *)
Welcome(r, i, n, theme, q1, q0, q3, r2) ==
  /\ People(r) /\ r[Me] = NULL /\ i \in [Person -> Info] /\ n \in Nick /\ Untaken(r, n)
  /\ theme \in Topic \cup {NULL} /\ Moved(r, Me, n, r2)
  /\ q1 = Introduced(r, i, SetToSeq(Occupants(r)))
  /\ q0 = <<OwnPresence(n, i[Me])>> /\ q3 = Theme(theme)

(* The same, of the arguments in one. *)
LEMMA WelcomeLeadsIn ==
  ASSUME NEW r, NEW i, NEW n, NEW theme, NEW q1, NEW q0, NEW q3, NEW r2, NEW out,
         Welcome(r, i, n, theme, q1, q0, q3, r2)
  PROVE  /\ q1 \in Seq(Told) /\ q0 \in Seq(Told) /\ q3 \in Seq(Told)
         /\ Admits(n, (q1 \o q0) \o q3, out, r2, i, theme)
<1>1. PICK s, w : s = SetToSeq(Occupants(r)) /\ w = OwnPresence(n, i[Me])
  OBVIOUS
<1>2. q1 = Introduced(r, i, s) /\ q0 = <<w>> /\ q3 = Theme(theme)
  BY <1>1 DEF Welcome
<1>3. /\ People(r) /\ r[Me] = NULL /\ i \in [Person -> Info] /\ n \in Nick /\ Untaken(r, n)
      /\ theme \in Topic \cup {NULL} /\ Moved(r, Me, n, r2)
  BY DEF Welcome
<1> QED BY <1>1, <1>2, <1>3, LeadsIn

-----------------------------------------------------------------------------
(* What is on its way to the room. *)

None(s, kind) == \A j \in 1..Len(s) : s[j].kind # kind
Some(s, kind) == \E j \in 1..Len(s) : s[j].kind = kind

(* Nothing that enters comes after what destroys the room. *)
NothingAfterDestroy(s) ==
  \A j, k \in 1..Len(s) : j < k /\ s[j].kind = "destroy" => s[k].kind # "enter"

(* The user is outside and stays there, or leaves for good. *)
Outside(s, r) == r[Me] = NULL /\ None(s, "enter")

Parting(s) ==
  \E j \in 1..Len(s) : s[j].kind = "leave" /\ \A k \in 1..Len(s) : k > j => s[k].kind # "enter"

Leaving(s, r) == Outside(s, r) \/ Parting(s)

(* The user asks for the nick n, and for nothing else. *)
Asking(s, n) ==
  \E j \in 1..Len(s) : /\ s[j].kind = "enter" /\ s[j].nick = n
                       /\ \A k \in 1..Len(s) : k # j => s[k].kind = "update"

Updates(s) == \A j \in 1..Len(s) : s[j].kind = "update"

(* One element more, at the end. *)
LEMMA OneMore ==
  ASSUME NEW s \in Seq(Stanza), NEW x \in Stanza, NEW s2, s2 = s \o <<x>>
  PROVE  /\ s2 \in Seq(Stanza) /\ Len(s) \in Nat /\ Len(s2) = Len(s) + 1
         /\ \A j \in 1..Len(s) : s2[j] = s[j]
         /\ s2[Len(s) + 1] = x
<1>1. Len(s) \in Nat /\ s2 \in Seq(Stanza) /\ Len(s2) = Len(s) + 1
  OBVIOUS
<1>2. \A j \in 1..Len(s) : s2[j] = s[j]
  OBVIOUS
<1>3. s2[Len(s) + 1] = x
  OBVIOUS
<1> QED BY <1>1, <1>2, <1>3

(* One element less, in front. *)
LEMMA OneLess ==
  ASSUME NEW s \in Seq(Stanza), s # <<>>, NEW s2, s2 = Tail(s)
  PROVE  /\ s2 \in Seq(Stanza) /\ Len(s) \in Nat /\ Len(s) >= 1 /\ Len(s2) = Len(s) - 1
         /\ Head(s) = s[1] /\ Head(s) \in Stanza
         /\ \A j \in 1..Len(s2) : s2[j] = s[j + 1]
<1>1. Len(s) \in Nat /\ Len(s) # 0
  BY EmptySeq
<1>2. Tail(s) \in Seq(Stanza) /\ Len(Tail(s)) = Len(s) - 1 /\ \A j \in 1..(Len(s) - 1) : Tail(s)[j] = s[j + 1]
  BY HeadTailProperties
<1>3. Head(s) = s[1] /\ s[1] \in Stanza
  BY <1>1
<1> QED BY <1>1, <1>2, <1>3

(* One more stanza to the room. *)
LEMMA SentMore ==
  ASSUME NEW s \in Seq(Stanza), NEW x \in Stanza, NEW s2, s2 = s \o <<x>>, NEW r
  PROVE  /\ s2 \in Seq(Stanza)
         /\ \A kind : x.kind # kind /\ None(s, kind) => None(s2, kind)
         /\ \A kind : x.kind = kind \/ Some(s, kind) => Some(s2, kind)
         /\ (x.kind # "enter" \/ None(s, "destroy")) /\ NothingAfterDestroy(s) => NothingAfterDestroy(s2)
         /\ x.kind # "enter" /\ Leaving(s, r) => Leaving(s2, r)
         /\ x.kind = "leave" => Leaving(s2, r)
<1>1. PICK n : n = Len(s)
  OBVIOUS
<1>2. /\ s2 \in Seq(Stanza) /\ n \in Nat /\ Len(s2) = n + 1
      /\ \A j \in 1..n : s2[j] = s[j]
      /\ s2[n + 1] = x
  BY <1>1, OneMore
<1>3. \A j \in 1..(n + 1) : j \in 1..n \/ j = n + 1
  BY <1>2
<1>4. 1..n \subseteq 1..(n + 1) /\ n + 1 \in 1..(n + 1) /\ \A j \in 1..n : j < n + 1 /\ ~(n + 1 < j)
  BY <1>2
<1>5. ASSUME NEW kind, x.kind # kind, None(s, kind) PROVE None(s2, kind)
  BY <1>1, <1>2, <1>3, <1>5 DEF None
<1>6. ASSUME NEW kind, x.kind = kind \/ Some(s, kind) PROVE Some(s2, kind)
  BY <1>1, <1>2, <1>4, <1>6 DEF Some
<1>7. ASSUME x.kind # "enter" \/ None(s, "destroy"), NothingAfterDestroy(s)
      PROVE  NothingAfterDestroy(s2)
  <2> SUFFICES ASSUME NEW j \in 1..(n + 1), NEW k \in 1..(n + 1), j < k, s2[j].kind = "destroy"
               PROVE  s2[k].kind # "enter"
    BY <1>2 DEF NothingAfterDestroy
  <2>1. j \in 1..n
    BY <1>2
  <2>2. s[j].kind = "destroy"
    BY <1>2, <2>1
  <2>3. CASE k = n + 1
    BY <1>1, <1>2, <1>7, <2>1, <2>2, <2>3 DEF None
  <2>4. CASE k \in 1..n
    BY <1>1, <1>2, <1>7, <2>1, <2>2, <2>4 DEF NothingAfterDestroy
  <2> QED BY <1>3, <2>3, <2>4
<1>8. ASSUME x.kind # "enter", Leaving(s, r) PROVE Leaving(s2, r)
  <2>1. CASE Outside(s, r)
    <3>1. None(s2, "enter")
      BY <1>5, <1>8, <2>1 DEF Outside
    <3> QED BY <2>1, <3>1 DEF Outside, Leaving
  <2>2. CASE Parting(s)
    <3>1. PICK j \in 1..n : s[j].kind = "leave" /\ \A k \in 1..n : k > j => s[k].kind # "enter"
      BY <1>1, <2>2 DEF Parting
    <3>2. j \in 1..(n + 1) /\ s2[j].kind = "leave"
      BY <1>2, <1>4, <3>1
    <3>3. ASSUME NEW k \in 1..(n + 1), k > j PROVE s2[k].kind # "enter"
      BY <1>2, <1>3, <1>8, <3>1, <3>3
    <3>4. Parting(s2)
      BY <1>2, <3>2, <3>3 DEF Parting
    <3> QED BY <3>4 DEF Leaving
  <2> QED BY <1>8, <2>1, <2>2 DEF Leaving
<1>9. ASSUME x.kind = "leave" PROVE Leaving(s2, r)
  <2>1. \A k \in 1..(n + 1) : ~(k > n + 1)
    BY <1>2
  <2>2. Parting(s2)
    BY <1>2, <1>4, <1>9, <2>1 DEF Parting
  <2> QED BY <2>2 DEF Leaving
<1> QED BY <1>2, <1>5, <1>6, <1>7, <1>8, <1>9

(* What one more stanza does to the requests of the user. *)
LEMMA AskedMore ==
  ASSUME NEW s \in Seq(Stanza), NEW x \in Stanza, NEW s2, s2 = s \o <<x>>, NEW n
  PROVE  /\ x.kind = "update" /\ Asking(s, n) => Asking(s2, n)
         /\ x.kind = "update" /\ Updates(s) => Updates(s2)
         /\ x.kind = "enter" /\ x.nick = n /\ Updates(s) => Asking(s2, n)
<1>1. PICK h : h = Len(s)
  OBVIOUS
<1>2. /\ h \in Nat /\ Len(s2) = h + 1
      /\ \A j \in 1..h : s2[j] = s[j]
      /\ s2[h + 1] = x
  BY <1>1, OneMore
<1>3. \A j \in 1..(h + 1) : j \in 1..h \/ j = h + 1
  BY <1>2
<1>4. 1..h \subseteq 1..(h + 1) /\ h + 1 \in 1..(h + 1) /\ h + 1 \notin 1..h
  BY <1>2
<1>5. ASSUME x.kind = "update", Asking(s, n) PROVE Asking(s2, n)
  <2>1. PICK j \in 1..h : /\ s[j].kind = "enter" /\ s[j].nick = n
                          /\ \A k \in 1..h : k # j => s[k].kind = "update"
    BY <1>1, <1>5 DEF Asking
  <2>2. j \in 1..(h + 1) /\ s2[j].kind = "enter" /\ s2[j].nick = n
    BY <1>2, <1>4, <2>1
  <2>3. \A k \in 1..(h + 1) : k # j => s2[k].kind = "update"
    BY <1>2, <1>3, <1>5, <2>1
  <2> QED BY <1>2, <2>2, <2>3 DEF Asking
<1>6. ASSUME x.kind = "update", Updates(s) PROVE Updates(s2)
  BY <1>1, <1>2, <1>3, <1>6 DEF Updates
<1>7. ASSUME x.kind = "enter", x.nick = n, Updates(s) PROVE Asking(s2, n)
  <2>1. \A k \in 1..(h + 1) : k # h + 1 => s2[k].kind = "update"
    BY <1>1, <1>2, <1>3, <1>7 DEF Updates
  <2> QED BY <1>2, <1>4, <1>7, <2>1 DEF Asking
<1> QED BY <1>5, <1>6, <1>7

(* The room handles the first. *)
LEMMA SentLess ==
  ASSUME NEW s \in Seq(Stanza), s # <<>>, NEW x, x = Head(s), NEW s2, s2 = Tail(s)
  PROVE  /\ s2 \in Seq(Stanza) /\ x \in Stanza
         /\ \A kind : None(s, kind) => None(s2, kind) /\ x.kind # kind
         /\ \A kind : Some(s, kind) => x.kind = kind \/ Some(s2, kind)
         /\ NothingAfterDestroy(s) =>
              NothingAfterDestroy(s2) /\ (x.kind = "destroy" => None(s2, "enter"))
         /\ Parting(s) => Parting(s2) \/ (x.kind = "leave" /\ None(s2, "enter"))
<1>1. PICK n, h : n = Len(s) /\ h = Len(s2)
  OBVIOUS
<1>2. /\ s2 \in Seq(Stanza) /\ n \in Nat /\ n >= 1 /\ h = n - 1 /\ h \in Nat
      /\ x = s[1] /\ x \in Stanza
      /\ \A j \in 1..h : s2[j] = s[j + 1]
  BY <1>1, OneLess
<1>3. 1 \in 1..n /\ \A j \in 1..h : j + 1 \in 1..n /\ 1 < j + 1
  BY <1>2
<1>4. \A j \in 1..n : j # 1 => j - 1 \in 1..h /\ s2[j - 1] = s[j]
  <2> SUFFICES ASSUME NEW j \in 1..n, j # 1 PROVE j - 1 \in 1..h /\ s2[j - 1] = s[j]
    OBVIOUS
  <2>1. j - 1 \in 1..h /\ (j - 1) + 1 = j
    BY <1>2
  <2> QED BY <1>2, <2>1
<1>5. ASSUME NEW kind, None(s, kind) PROVE None(s2, kind) /\ x.kind # kind
  BY <1>1, <1>2, <1>3, <1>5 DEF None
<1>6. ASSUME NEW kind, Some(s, kind) PROVE x.kind = kind \/ Some(s2, kind)
  BY <1>1, <1>2, <1>4, <1>6 DEF Some
<1>7. ASSUME NothingAfterDestroy(s)
      PROVE  NothingAfterDestroy(s2) /\ (x.kind = "destroy" => None(s2, "enter"))
  <2>1. NothingAfterDestroy(s2)
    <3> SUFFICES ASSUME NEW j \in 1..h, NEW k \in 1..h, j < k, s2[j].kind = "destroy"
                 PROVE  s2[k].kind # "enter"
      BY <1>1 DEF NothingAfterDestroy
    <3>1. j + 1 \in 1..n /\ k + 1 \in 1..n /\ j + 1 < k + 1
      BY <1>2
    <3>2. s[j + 1].kind = "destroy" /\ s2[k] = s[k + 1]
      BY <1>2
    <3> QED BY <1>1, <1>7, <3>1, <3>2 DEF NothingAfterDestroy
  <2>2. ASSUME x.kind = "destroy" PROVE None(s2, "enter")
    BY <1>1, <1>2, <1>3, <1>7, <2>2 DEF None, NothingAfterDestroy
  <2> QED BY <2>1, <2>2
<1>8. ASSUME Parting(s) PROVE Parting(s2) \/ (x.kind = "leave" /\ None(s2, "enter"))
  <2>1. PICK j \in 1..n : s[j].kind = "leave" /\ \A k \in 1..n : k > j => s[k].kind # "enter"
    BY <1>1, <1>8 DEF Parting
  <2>2. CASE j = 1
    BY <1>1, <1>2, <1>3, <2>1, <2>2 DEF None
  <2>3. CASE j # 1
    <3>1. j - 1 \in 1..h /\ s2[j - 1].kind = "leave"
      BY <1>4, <2>1, <2>3
    <3>2. ASSUME NEW k \in 1..h, k > j - 1 PROVE s2[k].kind # "enter"
      <4>0. s2[k] = s[k + 1] /\ k + 1 \in 1..n
        BY <1>2, <1>3
      <4>1. k + 1 > j
        <5>1. j \in Int /\ k \in Int
          OBVIOUS
        <5> QED BY <3>2, <5>1
      <4> QED BY <2>1, <4>0, <4>1
    <3> QED BY <1>1, <3>1, <3>2 DEF Parting
  <2> QED BY <2>2, <2>3
<1> QED BY <1>2, <1>5, <1>6, <1>7, <1>8

(* What the first stanza was, of a user who asks or updates. *)
LEMMA AskedLess ==
  ASSUME NEW s \in Seq(Stanza), s # <<>>, NEW x, x = Head(s), NEW s2, s2 = Tail(s), NEW n
  PROVE  /\ Asking(s, n) => \/ x.kind = "enter" /\ x.nick = n /\ Updates(s2)
                            \/ x.kind = "update" /\ Asking(s2, n)
         /\ Updates(s) => x.kind = "update" /\ Updates(s2)
<1>1. PICK k, h : k = Len(s) /\ h = Len(s2)
  OBVIOUS
<1>2. /\ k \in Nat /\ k >= 1 /\ h = k - 1 /\ h \in Nat
      /\ x = s[1]
      /\ \A j \in 1..h : s2[j] = s[j + 1]
  BY <1>1, OneLess
<1>3. 1 \in 1..k /\ \A j \in 1..h : j + 1 \in 1..k /\ j + 1 # 1
  BY <1>2
<1>4. \A j \in 1..k : j # 1 => j - 1 \in 1..h /\ s2[j - 1] = s[j]
  <2> SUFFICES ASSUME NEW j \in 1..k, j # 1 PROVE j - 1 \in 1..h /\ s2[j - 1] = s[j]
    OBVIOUS
  <2>1. j - 1 \in 1..h /\ (j - 1) + 1 = j
    BY <1>2
  <2> QED BY <1>2, <2>1
<1>5. ASSUME Updates(s) PROVE x.kind = "update" /\ Updates(s2)
  BY <1>1, <1>2, <1>3, <1>5 DEF Updates
<1>6. ASSUME Asking(s, n)
      PROVE  \/ x.kind = "enter" /\ x.nick = n /\ Updates(s2)
             \/ x.kind = "update" /\ Asking(s2, n)
  <2>1. PICK j \in 1..k : /\ s[j].kind = "enter" /\ s[j].nick = n
                          /\ \A l \in 1..k : l # j => s[l].kind = "update"
    BY <1>1, <1>6 DEF Asking
  <2>2. CASE j = 1
    BY <1>1, <1>2, <1>3, <2>1, <2>2 DEF Updates
  <2>3. CASE j # 1
    <3>1. x.kind = "update"
      BY <1>2, <1>3, <2>1, <2>3
    <3>2. j - 1 \in 1..h /\ s2[j - 1].kind = "enter" /\ s2[j - 1].nick = n
      BY <1>4, <2>1, <2>3
    <3>3. ASSUME NEW l \in 1..h, l # j - 1 PROVE s2[l].kind = "update"
      <4>0. s2[l] = s[l + 1] /\ l + 1 \in 1..k
        BY <1>2, <1>3
      <4>1. l + 1 # j
        <5>1. j \in Int /\ l \in Int
          OBVIOUS
        <5> QED BY <3>3, <5>1
      <4> QED BY <2>1, <4>0, <4>1
    <3> QED BY <1>1, <3>1, <3>2, <3>3 DEF Asking
  <2> QED BY <2>2, <2>3
<1> QED BY <1>5, <1>6

-----------------------------------------------------------------------------
(* The prediction.  The stanzas q lead the channel c to d, which is the room  *)
(* as it is now, or waits for the room's word, or is gone.                    *)

InRoom(c, s, r, i, theme, m, f, d) ==
  /\ Shows(d, r, i) /\ d.topic = theme
  /\ f => d.mode = m \/ ~c.joined \/ Some(s, "features")

Waiting(c, s, q, r, d) ==
  /\ d = NewChannel(d.nick) /\ r[Me] = NULL
  /\ \/ q = <<>> /\ Asking(s, d.nick)
     \/ q = <<Refused(c.nick)>> /\ Updates(s)

Gone(c, s, r, d) == ~d.exists /\ (~c.exists => Leaving(s, r))

Way(c, s, q, r, out, d) ==
  /\ q \in Seq(Told) /\ out \in BOOLEAN
  /\ out => Outside(s, r)
  /\ Leads(c, q, out, d)

Predicted(c, s, q, r, i, theme, m, f) ==
  \E out, d : /\ Way(c, s, q, r, out, d)
              /\ InRoom(c, s, r, i, theme, m, f, d) \/ Waiting(c, s, q, r, d) \/ Gone(c, s, r, d)

(* Both ends of a way, and what of an empty one. *)
LEMMA WayIs ==
  ASSUME NEW c, NEW s, NEW q, NEW r, NEW out, NEW d, Way(c, s, q, r, out, d)
  PROVE  /\ State(c) /\ State(d) /\ Sound(c) /\ Sound(d)
         /\ c.exists \in BOOLEAN /\ c.joined \in BOOLEAN /\ d.exists \in BOOLEAN /\ d.joined \in BOOLEAN
         /\ c.nick \in Nick /\ d.nick \in Nick
         /\ ~c.exists => ~d.exists
         /\ q = <<>> => c = d
<1>1. State(c) /\ State(d) /\ (~c.exists => ~d.exists) /\ (q = <<>> => c = d)
  BY LeadsEnds DEF Way
<1> QED BY <1>1 DEF State, Sound, IsChannel

(* A refusal is handled by the channel that asked.                            *)
LEMMA RefusedIs ==
  ASSUME NEW c, State(c), c.exists, NEW w, w = Refused(c.nick)
  PROVE  /\ w \in Told /\ w.type = "error" /\ w.nick = c.nick
         /\ Handled(c, w) = IF c.joined THEN c ELSE Retried(c)
<1>1. c.nick \in Nick
  BY DEF State, Sound, IsChannel
<1>2. w \in Told /\ w.type = "error" /\ w.nick = c.nick
  BY <1>1, OthersTold DEF Refused
<1>3. c.joined \in BOOLEAN
  BY DEF State, Sound, IsChannel
<1>4. Handled(c, w) = IF c.joined \/ w.nick # c.nick THEN c ELSE Retried(c)
  BY <1>2, HandledIs
<1> QED BY <1>2, <1>3, <1>4

(* What is in flight to somebody who waits. *)
LEMMA WaitingIs ==
  ASSUME NEW c, NEW s, NEW q, NEW r, NEW out, NEW d, Way(c, s, q, r, out, d), Waiting(c, s, q, r, d)
  PROVE  /\ d.exists /\ ~d.joined /\ c.exists /\ ~c.joined
         /\ q # <<>> => q = <<Refused(c.nick)>> /\ d = Retried(c)
         /\ q = <<>> => c = d
<1>1. d.exists /\ ~d.joined
  BY DEF Waiting, NewChannel
<1>2. State(c) /\ c.exists /\ c.exists \in BOOLEAN /\ c.joined \in BOOLEAN /\ (q = <<>> => c = d)
  BY <1>1, WayIs
<1>3. CASE q = <<>>
  BY <1>1, <1>2, <1>3
<1>4. CASE q # <<>>
  <2>1. PICK w : w = Refused(c.nick)
    OBVIOUS
  <2>2. q = <<w>>
    BY <1>4, <2>1 DEF Waiting
  <2>3. Head(q) = w /\ Tail(q) = <<>>
    BY <2>2
  <2>4. q \in Seq(Told) /\ Leads(c, q, out, d)
    BY DEF Way
  <2>5. Leads(Handled(c, w), <<>>, out, d)
    <3>1. Leads(Handled(c, Head(q)), Tail(q), out, d)
      BY <1>4, <2>4, LeadsFrom
    <3> QED BY <2>3, <3>1
  <2>6. <<>> \in Seq(Told)
    OBVIOUS
  <2>7. Handled(c, w) = d
    BY <2>5, <2>6, LeadsEnds
  <2>8. Handled(c, w) = IF c.joined THEN c ELSE Retried(c)
    BY <1>2, <2>1, RefusedIs
  <2>9. ~c.joined
    BY <1>1, <1>2, <2>7, <2>8
  <2> QED BY <1>1, <1>2, <1>4, <2>1, <2>2, <2>7, <2>8, <2>9
<1> QED BY <1>3, <1>4

(* The user asks for something, or tells of a new show.                       *)
LEMMA Asked ==
  ASSUME NEW c, NEW s \in Seq(Stanza), NEW q, NEW r, NEW i, NEW theme, NEW m, NEW f \in BOOLEAN,
         Predicted(c, s, q, r, i, theme, m, f), c.exists,
         NEW x \in Stanza, x.kind # "leave", x.kind # "update" => c.joined,
         x.kind = "enter" => \A j \in 1..Len(q) : q[j].type # "destroyed",
         NEW s2, s2 = s \o <<x>>
  PROVE  Predicted(c, s2, q, r, i, theme, m, f)
<1>1. PICK out, d :
        /\ Way(c, s, q, r, out, d)
        /\ InRoom(c, s, r, i, theme, m, f, d) \/ Waiting(c, s, q, r, d) \/ Gone(c, s, r, d)
  BY DEF Predicted
<1>2. PICK out2 \in BOOLEAN : out2 <=> out /\ x.kind # "enter"
  OBVIOUS
<1>3. /\ \A kind : x.kind # kind /\ None(s, kind) => None(s2, kind)
      /\ \A kind : Some(s, kind) => Some(s2, kind)
  BY SentMore
<1>4. Leads(c, q, out2, d)
  <2>1. Leads(c, q, out, d) /\ q \in Seq(Told) /\ out \in BOOLEAN
    BY <1>1 DEF Way
  <2>2. (out => out2) \/ (\A j \in 1..Len(q) : q[j].type # "destroyed")
    BY <1>2
  <2> QED BY <2>1, <2>2, LeadsOut
<1>5. out2 => Outside(s2, r)
  BY <1>1, <1>2, <1>3 DEF Way, Outside
<1>6. Way(c, s2, q, r, out2, d)
  BY <1>1, <1>4, <1>5 DEF Way
<1>7. CASE InRoom(c, s, r, i, theme, m, f, d)
  <2>1. InRoom(c, s2, r, i, theme, m, f, d)
    BY <1>3, <1>7 DEF InRoom
  <2> QED BY <1>6, <2>1 DEF Predicted
<1>8. CASE Waiting(c, s, q, r, d)
  <2>1. x.kind = "update"
    BY <1>1, <1>8, WaitingIs
  <2>2. (Asking(s, d.nick) => Asking(s2, d.nick)) /\ (Updates(s) => Updates(s2))
    BY <2>1, AskedMore
  <2>3. Waiting(c, s2, q, r, d)
    BY <1>8, <2>2 DEF Waiting
  <2> QED BY <1>6, <2>3 DEF Predicted
<1>9. CASE Gone(c, s, r, d)
  <2>1. Gone(c, s2, r, d)
    BY <1>9 DEF Gone
  <2> QED BY <1>6, <2>1 DEF Predicted
<1> QED BY <1>1, <1>7, <1>8, <1>9

-----------------------------------------------------------------------------
(* The client handles a stanza. *)

(* What the client answers to m, which makes its channel c to e.              *)
Replied(c, m, e, w) ==
  \/ /\ w = <<>>
     /\ c.joined \/ ~e.joined
     /\ m.type = "error" => c.joined \/ m.nick # c.nick
     /\ m.type = "unavailable" /\ m.code # NULL => e.exists
  \/ w = <<Features>> /\ m.type = "available"
  \/ w = <<Leave(c.nick)>> /\ m.type = "unavailable" /\ ~e.exists
  \/ w = <<Enter(NextNick(c.nick))>> /\ m.type = "error" /\ ~c.joined /\ e = Retried(c)

(* sig_recv_presence does with a presence what Handled says. *)
LEMMA ReceivePresence ==
  ASSUME State(channel), channel.exists, NEW m \in Told, m.type = "available", Receive(m)
  PROVE  /\ UNCHANGED connected /\ channel' = Handled(channel, m)
         /\ Replied(channel, m, channel', sent')
<1>1. available(m.nick, m.info, m.own, m.forced, FALSE) /\ ~RenamesItself(channel, m.nick, m.forced)
  <2>1. m.forced = FALSE
    BY ToldTypes
  <2> QED BY <2>1 DEF Receive, RenamesItself
<1>2. /\ channel' = Presented(channel, m.nick, m.info, m.own, m.forced)
      /\ sent' = JoinSends(channel, channel') /\ UNCHANGED connected
  <2>1. sent' = <<>> \o JoinSends(channel, channel')
    BY <1>1 DEF available
  <2>2. JoinSends(channel, channel') = <<Features>> \/ JoinSends(channel, channel') = <<>>
    BY DEF JoinSends
  <2>3. sent' = JoinSends(channel, channel')
    BY <2>1, <2>2
  <2> QED BY <1>1, <2>3 DEF available
<1>3. channel' = Handled(channel, m)
  BY <1>2, HandledIs
<1>4. m.forced \in BOOLEAN
  BY ToldTypes
<1>5. channel'.mode = channel.mode
  BY <1>2, <1>4, PresentedKeeps
<1>6. ~channel.joined => channel'.mode = NULL
  BY <1>5 DEF State
<1>7. CASE sent' = <<>>
  <2>1. <<>> # <<Features>>
    OBVIOUS
  <2>2. channel.joined \/ ~channel'.joined
    BY <1>2, <1>6, <1>7, <2>1 DEF JoinSends
  <2> QED BY <1>2, <1>3, <1>7, <2>2 DEF Replied
<1>8. CASE sent' = <<Features>>
  BY <1>2, <1>3, <1>8 DEF Replied
<1> QED BY <1>2, <1>7, <1>8 DEF JoinSends

(* And with a departure. *)
LEMMA ReceiveDeparture ==
  ASSUME State(channel), channel.exists, NEW m \in Told, m.type \in {"unavailable", "destroyed"},
         Receive(m)
  PROVE  /\ UNCHANGED connected /\ channel' = Handled(channel, m)
         /\ Replied(channel, m, channel', sent')
<1>1. PICK n : n = m.nick
  OBVIOUS
<1>2. Handled(channel, m) = Departed(channel, n)
  BY <1>1, HandledIs
<1>4. ~NoChannel.joined /\ ~NoChannel.exists
  BY DEF NoChannel
<1>5. ASSUME NEW kicked, Departs(n, kicked)
      PROVE  /\ channel' = Departed(channel, n)
             /\ ~kicked => sent' = <<>>
             /\ kicked => IF channel'.exists THEN sent' = <<>> ELSE sent' = <<Leave(channel.nick)>>
  <2>1. CASE n \notin DOMAIN channel.nicks
    BY <1>5, <2>1 DEF Departs, Departed
  <2>2. CASE n \in DOMAIN channel.nicks /\ channel.nicks[n][1].own
    <3>1. /\ channel' = NoChannel /\ (~kicked => sent' = <<>>)
          /\ kicked => sent' = <<Leave(channel.nick)>>
      BY <1>5, <2>2 DEF Departs
    <3>2. Departed(channel, n) = NoChannel
      BY <2>2 DEF Departed
    <3> QED BY <1>4, <3>1, <3>2
  <2>3. CASE n \in DOMAIN channel.nicks /\ ~channel.nicks[n][1].own
    <3>1. channel' = WithNicks(channel, RemoveHead(channel.nicks, n)) /\ sent' = <<>>
      BY <1>5, <2>3 DEF Departs
    <3>2. Departed(channel, n) = WithNicks(channel, RemoveHead(channel.nicks, n))
      BY <2>3 DEF Departed
    <3>3. channel'.exists
      BY <3>1 DEF WithNicks
    <3> QED BY <3>1, <3>2, <3>3
  <2> QED BY <2>1, <2>2, <2>3
<1>6. PICK code : code = (IF m.type = "unavailable" THEN m.code ELSE NULL)
  OBVIOUS
<1>7. code \in {NULL, 301, 307} /\ (m.type = "unavailable" => m.code = code)
  BY <1>6, ToldDeparture
<1>8. unavailable(n, code)
  <2>1. CASE m.type = "unavailable"
    BY <1>1, <1>6, <2>1 DEF Receive
  <2>2. CASE m.type = "destroyed"
    BY <1>1, <1>6, <2>2 DEF Receive
  <2> QED BY <2>1, <2>2
<1>9. channel.joined \/ ~Departed(channel, n).joined
  <2>1. CASE n \notin DOMAIN channel.nicks
    BY <2>1 DEF Departed
  <2>2. CASE n \in DOMAIN channel.nicks /\ channel.nicks[n][1].own
    <3>1. Departed(channel, n) = NoChannel
      BY <2>2 DEF Departed
    <3> QED BY <1>4, <3>1
  <2>3. CASE n \in DOMAIN channel.nicks /\ ~channel.nicks[n][1].own
    <3>1. Departed(channel, n) = WithNicks(channel, RemoveHead(channel.nicks, n))
      BY <2>3 DEF Departed
    <3> QED BY <3>1 DEF WithNicks
  <2> QED BY <2>1, <2>2, <2>3
<1>10. UNCHANGED connected
  BY <1>8 DEF unavailable
<1>11. (code = NULL /\ Departs(n, FALSE)) \/ (code \in {301, 307} /\ Departs(n, TRUE))
  BY <1>7, <1>8 DEF unavailable
<1>12. CASE code = NULL
  <2>1. channel' = Departed(channel, n) /\ sent' = <<>>
    BY <1>5, <1>11, <1>12, RoomAssumption
  <2>2. channel.joined \/ ~channel'.joined
    BY <1>9, <2>1
  <2>3. m.type = "unavailable" => m.code = NULL
    BY <1>7, <1>12
  <2> QED BY <1>2, <1>10, <2>1, <2>2, <2>3 DEF Replied
<1>13. CASE code \in {301, 307}
  <2>1. /\ channel' = Departed(channel, n)
        /\ IF channel'.exists THEN sent' = <<>> ELSE sent' = <<Leave(channel.nick)>>
    BY <1>5, <1>11, <1>13, RoomAssumption
  <2>2. m.type = "unavailable"
    BY <1>6, <1>13, RoomAssumption
  <2>3. CASE channel'.exists
    <3>1. channel.joined \/ ~channel'.joined
      BY <1>9, <2>1
    <3>2. sent' = <<>>
      BY <2>1, <2>3
    <3> QED BY <1>2, <1>10, <2>1, <2>2, <2>3, <3>1, <3>2 DEF Replied
  <2>4. CASE ~channel'.exists
    BY <1>2, <1>10, <2>1, <2>2, <2>4 DEF Replied
  <2> QED BY <2>3, <2>4
<1> QED BY <1>7, <1>12, <1>13

(* The handlers do what Handled says, and send what Replied says. *)
LEMMA ReceiveIs ==
  ASSUME State(channel), channel.exists, NEW m \in Told, Receive(m)
  PROVE  /\ UNCHANGED connected /\ channel' = Handled(channel, m)
         /\ Replied(channel, m, channel', sent')
<1>1. CASE m.type = "available"
  BY <1>1, ReceivePresence
<1>2. CASE m.type \in {"unavailable", "destroyed"}
  BY <1>2, ReceiveDeparture
<1>3. CASE m.type = "changed"
  <2>1. NickChange(m.nick, m.new)
    BY <1>3 DEF Receive
  <2>2. channel' = Renamed(channel, m.nick, m.new) /\ sent' = <<>> /\ UNCHANGED connected
    BY <2>1 DEF NickChange
  <2>3. channel'.joined = channel.joined
    BY <2>2, RenamedKeeps
  <2>4. Handled(channel, m) = channel'
    BY <1>3, <2>2, HandledIs
  <2>5. channel.joined \/ ~channel'.joined
    BY <2>3 DEF State, Sound, IsChannel
  <2> QED BY <1>3, <2>2, <2>4, <2>5 DEF Replied
<1>4. CASE m.type = "error"
  <2>1. error_presence(m.nick, 409)
    BY <1>4 DEF Receive
  <2>0. m.nick \in Nick
    BY <1>4, ToldNick
  <2>2. m.nick \in Nick /\ m.nick # NULL
    BY <2>0, NickAssumption
  <2>3. Handled(channel, m) = IF channel.joined \/ m.nick # channel.nick THEN channel ELSE Retried(channel)
    BY <1>4, HandledIs
  <2>4. CASE channel.joined \/ m.nick # channel.nick
    <3>1. channel' = channel /\ sent' = <<>> /\ UNCHANGED connected
      BY <2>1, <2>2, <2>4 DEF error_presence
    <3>2. channel.joined \/ ~channel'.joined
      BY <3>1 DEF State, Sound, IsChannel
    <3> QED BY <1>4, <2>3, <2>4, <3>1, <3>2 DEF Replied
  <2>5. CASE ~(channel.joined \/ m.nick # channel.nick)
    <3>1. /\ channel' = Retried(channel) /\ sent' = <<Enter(NextNick(channel.nick))>>
          /\ UNCHANGED connected
      BY <2>1, <2>5 DEF error_presence, Retried
    <3> QED BY <1>4, <2>3, <2>5, <3>1 DEF Replied
  <2> QED BY <2>4, <2>5
<1>5. CASE m.type = "subject"
  <2>1. topic(m.topic)
    BY <1>5 DEF Receive
  <2>2. channel' = WithTopic(channel, m.topic) /\ sent' = <<>> /\ UNCHANGED connected
    BY <2>1 DEF topic
  <2>3. channel.joined \/ ~channel'.joined
    BY <2>2 DEF WithTopic, State, Sound, IsChannel
  <2>4. Handled(channel, m) = channel'
    BY <1>5, <2>2, HandledIs
  <2> QED BY <1>5, <2>2, <2>3, <2>4 DEF Replied
<1>6. CASE m.type = "features"
  <2>1. sig_features(m.mode)
    BY <1>6 DEF Receive
  <2>2. channel' = WithMode(channel, m.mode) /\ sent' = <<>> /\ UNCHANGED connected
    BY <2>1 DEF sig_features
  <2>3. channel.joined \/ ~channel'.joined
    BY <2>2 DEF WithMode, State, Sound, IsChannel
  <2>4. Handled(channel, m) = channel'
    BY <1>6, <2>2, HandledIs
  <2> QED BY <1>6, <2>2, <2>3, <2>4 DEF Replied
<1>7. CASE m.type \in {"message", "answer"}
  <2>1. Printed
    <3>1. CASE m.type = "message"
      BY <3>1 DEF Receive, sig_recv_message
    <3>2. CASE m.type = "answer"
      BY <3>2 DEF Receive, sig_recv_iq
    <3> QED BY <1>7, <3>1, <3>2
  <2>2. channel' = channel /\ sent' = <<>> /\ UNCHANGED connected
    BY <2>1 DEF Printed
  <2>3. channel.joined \/ ~channel'.joined
    BY <2>2 DEF State, Sound, IsChannel
  <2>4. Handled(channel, m) = channel'
    BY <1>7, <2>2, HandledIs
  <2> QED BY <1>7, <2>2, <2>3, <2>4 DEF Replied
<1> QED BY <1>1, <1>2, <1>3, <1>4, <1>5, <1>6, <1>7, ToldTypes

(* The presences of the user are stanzas. *)
LEMMA PresenceStanzas ==
  ASSUME NEW n \in Nick
  PROVE  /\ Enter(n) \in Stanza /\ Enter(n).kind = "enter" /\ Enter(n).nick = n
         /\ Update(n) \in Stanza /\ Update(n).kind = "update"
         /\ Leave(n) \in Stanza /\ Leave(n).kind = "leave"
BY DEF Stanza, Enter, Update, Leave

(* And so is the question for the features. *)
LEMMA FeaturesStanza == Features \in Stanza /\ Features.kind = "features"
BY DEF Stanza, Features

(* The answer of the client is one stanza at most.                            *)
Reply(c, x, e, y) ==
  \/ y.kind = "features" /\ x.type = "available"
  \/ y.kind = "leave" /\ x.type = "unavailable" /\ ~e.exists
  \/ y.kind = "enter" /\ y.nick = NextNick(c.nick) /\ x.type = "error" /\ ~c.joined /\ e = Retried(c)

Adds(c, x, e, w, s, s2) ==
  \/ w = <<>> /\ s2 = s
  \/ \E y \in Stanza : s2 = s \o <<y>> /\ w = <<y>> /\ Reply(c, x, e, y)

(* What the client sends after a stanza. *)
LEMMA ReplyIs ==
  ASSUME NEW c, State(c), NEW x, NEW e, NEW w, Replied(c, x, e, w),
         NEW s \in Seq(Stanza), NEW s2, s2 = s \o w
  PROVE  Adds(c, x, e, w, s, s2)
<1>1. c.nick \in Nick /\ NextNick(c.nick) \in Nick
  BY NickAssumption DEF NextNick, State, Sound, IsChannel
<1>2. CASE w = <<>>
  BY <1>2 DEF Adds
<1>3. CASE w = <<Features>> /\ x.type = "available"
  BY <1>3, FeaturesStanza DEF Adds, Reply
<1>4. CASE w = <<Leave(c.nick)>> /\ x.type = "unavailable" /\ ~e.exists
  BY <1>1, <1>4, PresenceStanzas DEF Adds, Reply
<1>5. CASE w = <<Enter(NextNick(c.nick))>> /\ x.type = "error" /\ ~c.joined /\ e = Retried(c)
  BY <1>1, <1>5, PresenceStanzas DEF Adds, Reply
<1> QED BY <1>2, <1>3, <1>4, <1>5 DEF Replied

(* A delivery to somebody who is in the room. *)
LEMMA DeliveredInRoom ==
  ASSUME NEW c, NEW s \in Seq(Stanza), NEW q, NEW r, NEW i, NEW theme, NEW m, NEW f,
         NEW out, NEW d, Way(c, s, q, r, out, d), InRoom(c, s, r, i, theme, m, f, d),
         c.exists, q # <<>>, NEW x, x = Head(q), NEW e, e = Handled(c, x),
         NEW w, Replied(c, x, e, w), NEW q2, q2 = Tail(q), NEW s2, s2 = s \o w
  PROVE  /\ Predicted(e, s2, q2, r, i, theme, m, f)
         /\ s2 \in Seq(Stanza) /\ (e.exists /\ None(s, "leave") => None(s2, "leave"))
         /\ NothingAfterDestroy(s) => NothingAfterDestroy(s2)
<1>1. d.exists /\ d.joined /\ r[Me] # NULL
  BY DEF InRoom, Shows
<1>2. out \in BOOLEAN /\ ~out /\ q \in Seq(Told) /\ Leads(c, q, out, d)
  BY <1>1 DEF Way, Outside
<1>3. /\ Leads(e, q2, out, d) /\ q2 \in Seq(Told) /\ Meant(c, x, Len(q), out)
      /\ Len(q) = 1 <=> q2 = <<>>
  BY <1>2, LeadsFrom
<1>4. /\ State(c) /\ (~e.exists => ~d.exists) /\ (q2 = <<>> => e = d)
      /\ e.exists \in BOOLEAN /\ e.joined \in BOOLEAN /\ c.joined \in BOOLEAN
  <2>1. State(c)
    BY <1>2, LeadsEnds
  <2>2. State(e) /\ (~e.exists => ~d.exists) /\ (q2 = <<>> => e = d)
    BY <1>3, LeadsEnds
  <2> QED BY <2>1, <2>2 DEF State, Sound, IsChannel
<1>5. Way(e, s2, q2, r, out, d)
  BY <1>2, <1>3 DEF Way
<1>6. ASSUME s2 \in Seq(Stanza), ~c.joined => ~e.joined \/ Some(s2, "features"),
             Some(s, "features") => Some(s2, "features")
      PROVE  Predicted(e, s2, q2, r, i, theme, m, f)
  <2>1. InRoom(e, s2, r, i, theme, m, f, d)
    BY <1>6 DEF InRoom
  <2> QED BY <1>5, <2>1 DEF Predicted
<1>7. CASE w = <<>> /\ s2 = s
  <2>1. c.joined \/ ~e.joined
    <3>1. w # <<Features>> /\ w # <<Leave(c.nick)>> /\ w # <<Enter(NextNick(c.nick))>>
      BY <1>7
    <3> QED BY <3>1 DEF Replied
  <2> QED BY <1>6, <1>7, <2>1
<1>8. CASE \E y \in Stanza : s2 = s \o <<y>> /\ y.kind = "features" /\ x.type = "available"
  <2>1. PICK y \in Stanza : s2 = s \o <<y>> /\ y.kind = "features"
    BY <1>8
  <2>2. /\ s2 \in Seq(Stanza) /\ Some(s2, "features")
        /\ None(s, "leave") => None(s2, "leave")
        /\ NothingAfterDestroy(s) => NothingAfterDestroy(s2)
    BY <2>1, SentMore
  <2> QED BY <1>6, <2>2
<1>9. CASE ~e.exists
  BY <1>1, <1>4, <1>9
<1>10. CASE x.type = "error" /\ ~c.joined /\ e = Retried(c)
  <2>1. ~e.joined
    BY <1>10 DEF Retried
  <2>2. Len(q) = 1
    BY <1>3, <1>10 DEF Meant
  <2> QED BY <1>1, <1>3, <1>4, <2>1, <2>2
<1>11. Adds(c, x, e, w, s, s2)
  BY <1>4, ReplyIs
<1> QED BY <1>7, <1>8, <1>9, <1>10, <1>11 DEF Adds, Reply

(* A delivery to somebody who waits: the refusal, and the next nick. *)
LEMMA DeliveredWaiting ==
  ASSUME NEW c, NEW s \in Seq(Stanza), NEW q, NEW r, NEW i, NEW theme, NEW m, NEW f,
         NEW out, NEW d, Way(c, s, q, r, out, d), Waiting(c, s, q, r, d),
         c.exists, q # <<>>, NEW x, x = Head(q), NEW e, e = Handled(c, x),
         NEW w, Replied(c, x, e, w), NEW q2, q2 = Tail(q), NEW s2, s2 = s \o w
  PROVE  /\ Predicted(e, s2, q2, r, i, theme, m, f)
         /\ s2 \in Seq(Stanza) /\ (e.exists /\ None(s, "leave") => None(s2, "leave"))
         /\ NothingAfterDestroy(s) => NothingAfterDestroy(s2)
<1>1. /\ d.exists /\ ~d.joined /\ ~c.joined /\ d = Retried(c)
      /\ State(c) /\ State(d) /\ q = <<Refused(c.nick)>>
  BY WaitingIs, WayIs
<1>2. PICK z : z = Refused(c.nick)
  OBVIOUS
<1>3. x = z /\ q2 = <<>>
  BY <1>1, <1>2
<1>4. x.type = "error" /\ x.nick = c.nick /\ e = d
  BY <1>1, <1>2, <1>3, RefusedIs
<1>5. Updates(s)
  BY <1>1 DEF Waiting
<1>6. d = NewChannel(d.nick) /\ r[Me] = NULL /\ d.nick = NextNick(c.nick)
  BY <1>1 DEF Waiting, Retried
<1>7. PICK y \in Stanza : s2 = s \o <<y>> /\ y.kind = "enter" /\ y.nick = d.nick
  <2>1. w # <<>>
    <3>1. <<>> # <<Features>> /\ <<>> # <<Leave(c.nick)>> /\ <<>> # <<Enter(NextNick(c.nick))>>
      OBVIOUS
    <3> QED BY <1>1, <1>4, <3>1 DEF Replied
  <2>2. Adds(c, x, e, w, s, s2)
    BY <1>1, ReplyIs
  <2>3. PICK y \in Stanza : s2 = s \o <<y>> /\ Reply(c, x, e, y)
    BY <2>1, <2>2 DEF Adds
  <2> QED BY <1>4, <1>6, <2>3 DEF Reply
<1>8. Asking(s2, d.nick)
  BY <1>5, <1>7, AskedMore
<1>9. /\ s2 \in Seq(Stanza)
      /\ None(s, "leave") => None(s2, "leave")
      /\ NothingAfterDestroy(s) => NothingAfterDestroy(s2)
  <2>1. None(s, "destroy")
    BY <1>5 DEF Updates, None
  <2> QED BY <1>7, <2>1, SentMore
<1>10. PICK no \in BOOLEAN : ~no
  OBVIOUS
<1>11. Way(e, s2, q2, r, no, d)
  <2>1. Leads(d, <<>>, no, d)
    BY <1>1, LeadsNowhere
  <2>2. <<>> \in Seq(Told)
    OBVIOUS
  <2> QED BY <1>3, <1>4, <1>10, <2>1, <2>2 DEF Way
<1>12. Waiting(e, s2, q2, r, d)
  BY <1>3, <1>6, <1>8 DEF Waiting
<1> QED BY <1>9, <1>11, <1>12 DEF Predicted

(* A delivery to somebody who is gone or will be. *)
LEMMA DeliveredGone ==
  ASSUME NEW c, NEW s \in Seq(Stanza), NEW q, NEW r, NEW i, NEW theme, NEW m, NEW f,
         NEW out, NEW d, Way(c, s, q, r, out, d), Gone(c, s, r, d),
         c.exists, q # <<>>, NEW x, x = Head(q), NEW e, e = Handled(c, x),
         NEW w, Replied(c, x, e, w), NEW q2, q2 = Tail(q), NEW s2, s2 = s \o w
  PROVE  /\ Predicted(e, s2, q2, r, i, theme, m, f)
         /\ s2 \in Seq(Stanza) /\ (e.exists /\ None(s, "leave") => None(s2, "leave"))
         /\ NothingAfterDestroy(s) => NothingAfterDestroy(s2)
<1>1. ~d.exists
  BY DEF Gone
<1>2. out \in BOOLEAN /\ q \in Seq(Told) /\ Leads(c, q, out, d) /\ (out => Outside(s, r))
  BY DEF Way
<1>3. /\ Leads(e, q2, out, d) /\ q2 \in Seq(Told) /\ Meant(c, x, Len(q), out)
      /\ Len(q) = 1 <=> q2 = <<>>
  BY <1>2, LeadsFrom
<1>4. /\ State(c) /\ (q2 = <<>> => e = d)
      /\ e.exists \in BOOLEAN /\ e.joined \in BOOLEAN /\ c.joined \in BOOLEAN
  <2>1. State(c)
    BY <1>2, LeadsEnds
  <2>2. State(e) /\ (q2 = <<>> => e = d)
    BY <1>3, LeadsEnds
  <2> QED BY <2>1, <2>2 DEF State, Sound, IsChannel
<1>5. ASSUME out => Outside(s2, r), ~e.exists => Leaving(s2, r)
      PROVE  Predicted(e, s2, q2, r, i, theme, m, f)
  <2>1. Way(e, s2, q2, r, out, d)
    BY <1>2, <1>3, <1>5 DEF Way
  <2>2. Gone(e, s2, r, d)
    BY <1>1, <1>5 DEF Gone
  <2> QED BY <2>1, <2>2 DEF Predicted
<1>6. CASE w = <<>> /\ s2 = s
  <2>1. x.type = "unavailable" /\ x.code # NULL => e.exists
    <3>1. w # <<Features>> /\ w # <<Leave(c.nick)>> /\ w # <<Enter(NextNick(c.nick))>>
      BY <1>6
    <3> QED BY <3>1 DEF Replied
  <2>2. ASSUME ~e.exists PROVE Leaving(s2, r)
    <3>1. Final(x, out)
      BY <1>3, <2>2 DEF Meant
    <3>2. out
      BY <2>1, <2>2, <3>1 DEF Final
    <3> QED BY <1>2, <1>6, <3>2 DEF Leaving
  <2> QED BY <1>2, <1>5, <1>6, <2>2
<1>7. CASE \E y \in Stanza : s2 = s \o <<y>> /\ y.kind = "features" /\ x.type = "available"
  <2>1. PICK y \in Stanza : s2 = s \o <<y>> /\ y.kind = "features" /\ x.type = "available"
    BY <1>7
  <2>2. /\ s2 \in Seq(Stanza) /\ (None(s, "enter") => None(s2, "enter"))
        /\ None(s, "leave") => None(s2, "leave")
        /\ NothingAfterDestroy(s) => NothingAfterDestroy(s2)
    BY <2>1, SentMore
  <2>3. e.exists
    <3>1. e = Presented(c, x.nick, x.info, x.own, x.forced)
      BY <2>1, HandledIs
    <3>2. x \in Told
      BY <1>2, LeadsFrom
    <3>3. x.forced \in BOOLEAN
      BY <2>1, <3>2, ToldTypes
    <3> QED BY <3>1, <3>3, PresentedKeeps
  <2> QED BY <1>2, <1>5, <2>2, <2>3 DEF Outside
<1>8. CASE \E y \in Stanza : s2 = s \o <<y>> /\ y.kind = "leave" /\ ~e.exists
  <2>1. PICK y \in Stanza : s2 = s \o <<y>> /\ y.kind = "leave" /\ ~e.exists
    BY <1>8
  <2>2. /\ s2 \in Seq(Stanza) /\ (None(s, "enter") => None(s2, "enter"))
        /\ Leaving(s2, r)
        /\ NothingAfterDestroy(s) => NothingAfterDestroy(s2)
    BY <2>1, SentMore
  <2> QED BY <1>2, <1>5, <2>1, <2>2 DEF Outside
<1>9. CASE x.type = "error" /\ ~c.joined /\ e = Retried(c)
  <2>1. e.exists
    BY <1>9 DEF Retried
  <2>2. Len(q) = 1
    BY <1>3, <1>9 DEF Meant
  <2> QED BY <1>1, <1>3, <1>4, <2>1, <2>2
<1>10. Adds(c, x, e, w, s, s2)
  BY <1>4, ReplyIs
<1> QED BY <1>6, <1>7, <1>8, <1>9, <1>10 DEF Adds, Reply

(* The client handles a stanza as it was meant.                               *)
(* The channel c handles x, the first of q, and becomes e; what it sends is    *)
(* added to s.                                                                *)
Handles(c, s, q, x, e, s2, q2) ==
  /\ c.exists /\ q # <<>> /\ x = Head(q) /\ q2 = Tail(q) /\ e = Handled(c, x)
  /\ \E w : Replied(c, x, e, w) /\ s2 = s \o w

(* What is on its way to the room may lie before what is left of it. *)
Sendable(s, e, s2) ==
  /\ s2 \in Seq(Stanza) /\ (e.exists /\ None(s, "leave") => None(s2, "leave"))
  /\ NothingAfterDestroy(s) => NothingAfterDestroy(s2)

(* Handling a stanza keeps the prediction. *)
LEMMA Delivered ==
  ASSUME NEW c, NEW s \in Seq(Stanza), NEW q, NEW r, NEW i, NEW theme, NEW m, NEW f,
         Predicted(c, s, q, r, i, theme, m, f), NEW x, NEW e, NEW s2, NEW q2,
         Handles(c, s, q, x, e, s2, q2)
  PROVE  Predicted(e, s2, q2, r, i, theme, m, f) /\ Sendable(s, e, s2)
<1> PICK w : Replied(c, x, e, w) /\ s2 = s \o w
  BY DEF Handles
<1>0. c.exists /\ q # <<>> /\ x = Head(q) /\ q2 = Tail(q) /\ e = Handled(c, x)
  BY DEF Handles
<1>1. PICK out, d :
        /\ Way(c, s, q, r, out, d)
        /\ InRoom(c, s, r, i, theme, m, f, d) \/ Waiting(c, s, q, r, d) \/ Gone(c, s, r, d)
  BY DEF Predicted
<1>2. CASE InRoom(c, s, r, i, theme, m, f, d)
  <2>1. /\ Predicted(e, s2, q2, r, i, theme, m, f)
        /\ s2 \in Seq(Stanza) /\ (e.exists /\ None(s, "leave") => None(s2, "leave"))
        /\ NothingAfterDestroy(s) => NothingAfterDestroy(s2)
    BY <1>0, <1>1, <1>2, DeliveredInRoom
  <2> QED BY <2>1 DEF Sendable
<1>3. CASE Waiting(c, s, q, r, d)
  <2>1. /\ Predicted(e, s2, q2, r, i, theme, m, f)
        /\ s2 \in Seq(Stanza) /\ (e.exists /\ None(s, "leave") => None(s2, "leave"))
        /\ NothingAfterDestroy(s) => NothingAfterDestroy(s2)
    BY <1>0, <1>1, <1>3, DeliveredWaiting
  <2> QED BY <2>1 DEF Sendable
<1>4. CASE Gone(c, s, r, d)
  <2>1. /\ Predicted(e, s2, q2, r, i, theme, m, f)
        /\ s2 \in Seq(Stanza) /\ (e.exists /\ None(s, "leave") => None(s2, "leave"))
        /\ NothingAfterDestroy(s) => NothingAfterDestroy(s2)
    BY <1>0, <1>1, <1>4, DeliveredGone
  <2> QED BY <2>1 DEF Sendable
<1> QED BY <1>1, <1>2, <1>3, <1>4

-----------------------------------------------------------------------------
(* The room acts.  What is left on its way to it, when the room r has handled *)
(* a stanza or acted on its own, says as much of the stay as before.          *)
Aside(s) == ~Updates(s) /\ \A n : ~Asking(s, n)

Ahead(s, s2, r) ==
  /\ s2 \in Seq(Stanza)
  /\ None(s, "enter") => None(s2, "enter")
  /\ Parting(s) => Parting(s2)
  /\ Some(s, "features") => Some(s2, "features")
  /\ r[Me] = NULL => /\ \A n : Asking(s, n) => Asking(s2, n)
                     /\ Updates(s) => Updates(s2)

(* Nothing was handled. *)
LEMMA AheadStill ==
  ASSUME NEW s \in Seq(Stanza), NEW r
  PROVE  Ahead(s, s, r)
BY DEF Ahead

(* One stanza that does not enter, leave or ask for the features was handled. *)
LEMMA AheadOne ==
  ASSUME NEW s \in Seq(Stanza), s # <<>>, NEW x, x = Head(s), NEW s2, s2 = Tail(s), NEW r,
         x.kind # "leave", x.kind # "features", x.kind = "enter" => r[Me] # NULL
  PROVE  Ahead(s, s2, r) /\ (x.kind # "enter" /\ x.kind # "update" => Aside(s))
<1>1. /\ s2 \in Seq(Stanza) /\ (None(s, "enter") => None(s2, "enter"))
      /\ Some(s, "features") => Some(s2, "features")
      /\ Parting(s) => Parting(s2)
  BY SentLess
<1>2. ASSUME NEW n, Asking(s, n)
      PROVE  (x.kind = "enter" /\ x.nick = n /\ Updates(s2)) \/ (x.kind = "update" /\ Asking(s2, n))
  BY <1>2, AskedLess
<1>3. Updates(s) => x.kind = "update" /\ Updates(s2)
  <2>1. PICK n : n = x
    OBVIOUS
  <2> QED BY AskedLess
<1> QED BY <1>1, <1>2, <1>3 DEF Ahead, Aside

(* A channel that shows the room shows it still after the stanzas more, which *)
(* tell of what becomes of the room.                                          *)
Turns(more, r, i, theme, m, f, r2, i2, theme2, m2, f2) ==
  /\ more \in Seq(Told)
  /\ r2[Me] = NULL => r[Me] = NULL
  /\ r[Me] = NULL => r2[Me] = NULL
  /\ \A d, out : State(d) /\ Shows(d, r, i) =>
       \E e : /\ Leads(d, more, out, e) /\ Shows(e, r2, i2)
              /\ d.topic = theme => e.topic = theme2
              /\ f2 => f /\ (d.mode = m => e.mode = m2)

(* Whatever the room does to somebody who will be gone. *)
LEMMA ActsGone ==
  ASSUME NEW c, NEW s, NEW q, NEW r, NEW out, NEW d, Way(c, s, q, r, out, d), Gone(c, s, r, d),
         NEW s2, NEW r2, Outside(s, r) => Outside(s2, r2), c.exists \/ Leaving(s2, r2),
         NEW more \in Seq(Told), NEW i, NEW theme, NEW m, NEW f
  PROVE  Predicted(c, s2, q \o more, r2, i, theme, m, f)
<1>1. q \in Seq(Told) /\ Leads(c, q, out, d) /\ ~d.exists /\ out \in BOOLEAN /\ (out => Outside(s, r))
  BY DEF Way, Gone
<1>2. Leads(c, q \o more, out, d) /\ q \o more \in Seq(Told)
  BY <1>1, LeadsGone
<1>3. Way(c, s2, q \o more, r2, out, d)
  BY <1>1, <1>2 DEF Way
<1>4. Gone(c, s2, r2, d)
  BY <1>1 DEF Gone
<1> QED BY <1>3, <1>4 DEF Predicted

(* The room acts and tells of it: the prediction holds of the room as it is after. *)
LEMMA Acts ==
  ASSUME NEW c, NEW s, NEW q, NEW r, NEW i, NEW theme, NEW m, NEW f,
         Predicted(c, s, q, r, i, theme, m, f),
         NEW s2, Ahead(s, s2, r), NEW more, NEW r2, NEW i2, NEW theme2, NEW m2, NEW f2,
         Turns(more, r, i, theme, m, f, r2, i2, theme2, m2, f2),
         NEW q2, \/ q2 = q /\ r[Me] = NULL
                 \/ q2 = q \o more /\ (r[Me] # NULL \/ Aside(s))
  PROVE  Predicted(c, s2, q2, r2, i2, theme2, m2, f2)
<1>1. PICK out, d :
        /\ Way(c, s, q, r, out, d)
        /\ InRoom(c, s, r, i, theme, m, f, d) \/ Waiting(c, s, q, r, d) \/ Gone(c, s, r, d)
  BY DEF Predicted
<1>2. more \in Seq(Told) /\ q \in Seq(Told) /\ out \in BOOLEAN /\ Leads(c, q, out, d)
  BY <1>1 DEF Turns, Way
<1>3. (r[Me] = NULL => r2[Me] = NULL) /\ (r2[Me] = NULL => r[Me] = NULL)
  BY DEF Turns
<1>4. CASE InRoom(c, s, r, i, theme, m, f, d)
  <2>1. Shows(d, r, i) /\ d.topic = theme /\ r[Me] # NULL /\ d.joined
    BY <1>4 DEF InRoom, Shows
  <2>2. State(d)
    BY <1>1, WayIs
  <2>3. PICK e : /\ Leads(d, more, out, e) /\ Shows(e, r2, i2)
                 /\ d.topic = theme => e.topic = theme2
                 /\ f2 => f /\ (d.mode = m => e.mode = m2)
    BY <2>1, <2>2 DEF Turns
  <2>4. Leads(c, q \o more, out, e)
    BY <1>2, <2>1, <2>3, LeadsOn
  <2>5. q \o more \in Seq(Told)
    BY <1>2, Joined2
  <2>6. ~out
    BY <1>1, <2>1 DEF Way, Outside
  <2>7. Way(c, s2, q \o more, r2, out, e)
    BY <1>2, <2>4, <2>5, <2>6 DEF Way
  <2>8. InRoom(c, s2, r2, i2, theme2, m2, f2, e)
    BY <1>4, <2>1, <2>3 DEF InRoom, Ahead
  <2>9. q2 = q \o more
    BY <2>1
  <2> QED BY <2>7, <2>8, <2>9 DEF Predicted
<1>5. CASE Waiting(c, s, q, r, d)
  <2>1. r[Me] = NULL /\ d = NewChannel(d.nick) /\ ~Aside(s)
    BY <1>5 DEF Waiting, Aside
  <2>2. q2 = q
    BY <2>1
  <2>3. Waiting(c, s2, q2, r2, d)
    BY <1>3, <1>5, <2>1, <2>2 DEF Waiting, Ahead
  <2>4. PICK no \in BOOLEAN : ~no
    OBVIOUS
  <2>5. \A j \in 1..Len(q) : q[j].type # "destroyed"
    <3>1. CASE q = <<>>
      BY <3>1
    <3>2. CASE q # <<>>
      <4>1. State(c) /\ c.exists
        BY <1>1, <1>5, WaitingIs, WayIs
      <4>2. PICK w : w = Refused(c.nick)
        OBVIOUS
      <4>3. w.type = "error"
        BY <4>1, <4>2, RefusedIs
      <4>4. q = <<w>>
        BY <1>1, <1>5, <3>2, <4>2, WaitingIs
      <4> QED BY <4>3, <4>4
    <3> QED BY <3>1, <3>2
  <2>6. Leads(c, q, no, d)
    BY <1>2, <2>5, LeadsOut
  <2>7. Way(c, s2, q2, r2, no, d)
    BY <1>2, <2>2, <2>4, <2>6 DEF Way
  <2> QED BY <2>3, <2>7 DEF Predicted
<1>6. CASE Gone(c, s, r, d)
  <2>1. Outside(s, r) => Outside(s2, r2)
    BY <1>3 DEF Outside, Ahead
  <2>2. c.exists \/ Leaving(s2, r2)
    BY <1>6, <2>1 DEF Gone, Leaving, Ahead
  <2>3. PICK none \in Seq(Told) : none = <<>>
    <3>1. <<>> \in Seq(Told)
      OBVIOUS
    <3> QED BY <3>1
  <2>4. Predicted(c, s2, q \o more, r2, i2, theme2, m2, f2) /\ Predicted(c, s2, q \o none, r2, i2, theme2, m2, f2)
    BY <1>1, <1>2, <1>6, <2>1, <2>2, ActsGone
  <2>5. q \o none = q
    BY <1>2, <2>3
  <2> QED BY <2>4, <2>5
<1> QED BY <1>1, <1>4, <1>5, <1>6

(* The user is sent out, or the room is destroyed. *)
LEMMA ActsOut ==
  ASSUME NEW c, NEW s, NEW q, NEW r, NEW i, NEW theme, NEW m, NEW f,
         Predicted(c, s, q, r, i, theme, m, f), People(r), r[Me] # NULL,
         NEW s2, Ahead(s, s2, r), NEW r2, r2[Me] = NULL, NEW i2, NEW theme2, NEW m2, NEW f2,
         NEW out2 \in BOOLEAN, out2 => None(s2, "enter"),
         NEW w \in Told, w.type \in {"unavailable", "destroyed"}, w.nick = r[Me], Final(w, out2),
         NEW q2, q2 = q \o <<w>>
  PROVE  Predicted(c, s2, q2, r2, i2, theme2, m2, f2)
<1>1. PICK out, d :
        /\ Way(c, s, q, r, out, d)
        /\ InRoom(c, s, r, i, theme, m, f, d) \/ Waiting(c, s, q, r, d) \/ Gone(c, s, r, d)
  BY DEF Predicted
<1>2. q \in Seq(Told) /\ out \in BOOLEAN /\ Leads(c, q, out, d) /\ ~out
  BY <1>1 DEF Way, Outside
<1>3. CASE InRoom(c, s, r, i, theme, m, f, d)
  <2>1. Shows(d, r, i) /\ d.exists /\ d.joined
    BY <1>3 DEF InRoom, Shows
  <2>2. State(d) /\ Sound(d) /\ c.exists
    BY <1>1, <2>1, WayIs
  <2>3. Handled(d, w) = NoChannel
    <3>1. Handled(d, w) = Departed(d, w.nick)
      BY <2>1, HandledIs
    <3>2. Departed(d, r[Me]) = NoChannel
      BY <2>1, <2>2, OwnGone
    <3> QED BY <3>1, <3>2
  <2>4. Meant(d, w, 1, out2)
    BY <2>1 DEF Meant
  <2>5. Leads(c, q, out2, d)
    BY <1>2, LeadsOut
  <2>6. Leads(c, q2, out2, NoChannel) /\ q2 \in Seq(Told)
    <3>1. Leads(c, q \o <<w>>, out2, Handled(d, w)) /\ q \o <<w>> \in Seq(Told)
      BY <1>2, <2>1, <2>4, <2>5, LeadsMore
    <3> QED BY <2>3, <3>1
  <2>7. Way(c, s2, q2, r2, out2, NoChannel)
    BY <2>6 DEF Way, Outside
  <2>8. Gone(c, s2, r2, NoChannel)
    BY <2>2 DEF Gone, NoChannel
  <2> QED BY <2>7, <2>8 DEF Predicted
<1>4. CASE Gone(c, s, r, d)
  <2>1. ~Outside(s, r)
    BY DEF Outside
  <2>2. c.exists \/ Leaving(s2, r2)
    BY <1>4, <2>1 DEF Gone, Leaving, Ahead
  <2>3. PICK more \in Seq(Told) : more = <<w>>
    <3>1. <<w>> \in Seq(Told)
      OBVIOUS
    <3> QED BY <3>1
  <2>4. Predicted(c, s2, q \o more, r2, i2, theme2, m2, f2)
    BY <1>1, <1>4, <2>1, <2>2, ActsGone
  <2> QED BY <2>3, <2>4
<1> QED BY <1>1, <1>3, <1>4 DEF Waiting

(* Somebody who waits asks to enter: no answer is on its way.                 *)
First(s, x, s2) == s # <<>> /\ x = Head(s) /\ s2 = Tail(s)

(* Somebody who waits, and whose request is the next stanza, has nothing else in flight. *)
LEMMA WaitingAsks ==
  ASSUME NEW c, NEW s \in Seq(Stanza), NEW q, NEW r, NEW out, NEW d, Way(c, s, q, r, out, d),
         Waiting(c, s, q, r, d),
         NEW x, NEW s2, First(s, x, s2), x.kind = "enter"
  PROVE  q = <<>> /\ c = d /\ x.nick = d.nick /\ Updates(s2)
<1>1. PICK n : n = d.nick
  OBVIOUS
<1>2. ~Updates(s)
  <2>1. Updates(s) => x.kind = "update"
    BY <1>1, AskedLess DEF First
  <2> QED BY <2>1
<1>3. q = <<>> /\ Asking(s, n)
  BY <1>1, <1>2 DEF Waiting
<1>4. x.nick = n /\ Updates(s2)
  BY <1>3, AskedLess DEF First
<1>5. c = d
  BY <1>3, WayIs
<1> QED BY <1>1, <1>3, <1>4, <1>5

(* The user asks to enter as x.nick, which somebody has. *)
LEMMA ActsRefused ==
  ASSUME NEW c, NEW s \in Seq(Stanza), NEW q, NEW r, NEW i, NEW theme, NEW m, NEW f,
         Predicted(c, s, q, r, i, theme, m, f), r[Me] = NULL,
         s # <<>>, NEW x, x = Head(s), x.kind = "enter", x.nick \in Nick, NEW s2, s2 = Tail(s),
         NEW w, w = Refused(x.nick), NEW q2, q2 = q \o <<w>>
  PROVE  Predicted(c, s2, q2, r, i, theme, m, f)
<1>1. PICK out, d :
        /\ Way(c, s, q, r, out, d)
        /\ InRoom(c, s, r, i, theme, m, f, d) \/ Waiting(c, s, q, r, d) \/ Gone(c, s, r, d)
  BY DEF Predicted
<1>2. ~InRoom(c, s, r, i, theme, m, f, d)
  BY DEF InRoom, Shows
<1>3. w \in Told
  BY OthersTold
<1>4. CASE Waiting(c, s, q, r, d)
  <2>1. /\ d = NewChannel(d.nick) /\ State(d) /\ d.exists /\ ~d.joined /\ State(c)
        /\ d.exists \in BOOLEAN /\ d.joined \in BOOLEAN
    BY <1>1, <1>4, WaitingIs, WayIs DEF Waiting
  <2>2. q = <<>> /\ c = d /\ x.nick = d.nick /\ Updates(s2)
    <3>1. Way(c, s, q, r, out, d) /\ Waiting(c, s, q, r, d) /\ First(s, x, s2)
      BY <1>1, <1>4 DEF First
    <3> QED BY <3>1, WaitingAsks
  <2>3. x.nick = d.nick /\ Updates(s2)
    BY <2>2
  <2>4. /\ w.type = "error" /\ w.nick = d.nick
        /\ Handled(d, w) = Retried(d)
    BY <2>1, <2>3, RefusedIs
  <2>5. PICK e : e = Retried(d)
    OBVIOUS
  <2>6. e = NewChannel(e.nick) /\ e.exists
    <3>1. PICK n, k : n = d.nick /\ k = NextNick(n)
      OBVIOUS
    <3>2. d.nicks = NoNicks /\ d.topic = NULL /\ d.mode = NULL
      BY <2>1, <3>1 DEF NewChannel
    <3>3. e = NewChannel(k)
      BY <2>5, <3>1, <3>2 DEF Retried, NewChannel
    <3>4. e.nick = k /\ e.exists
      BY <3>3 DEF NewChannel
    <3> QED BY <3>3, <3>4
  <2>7. PICK no \in BOOLEAN : ~no
    OBVIOUS
  <2>8. Meant(d, w, 1, no)
    BY <2>4, <2>5, <2>6 DEF Meant
  <2>9. Leads(d, <<w>>, no, e)
    BY <1>3, <2>1, <2>4, <2>5, <2>8, LeadsOne
  <2>10. q2 = <<w>> /\ q2 \in Seq(Told)
    BY <1>3, <2>2
  <2>11. Way(c, s2, q2, r, no, e)
    BY <2>2, <2>7, <2>9, <2>10 DEF Way
  <2>12. Waiting(c, s2, q2, r, e)
    BY <2>2, <2>3, <2>6, <2>10 DEF Waiting
  <2> QED BY <2>11, <2>12 DEF Predicted
<1>5. CASE Gone(c, s, r, d)
  <2>1. /\ None(s, "enter") => x.kind # "enter"
        /\ Parting(s) => Parting(s2) \/ x.kind = "leave"
    BY SentLess
  <2>2. ~Outside(s, r)
    BY <2>1 DEF Outside
  <2>3. c.exists \/ Leaving(s2, r)
    BY <1>5, <2>1, <2>2 DEF Gone, Leaving
  <2>4. PICK more \in Seq(Told) : more = <<w>>
    <3>1. <<w>> \in Seq(Told)
      BY <1>3
    <3> QED BY <3>1
  <2>5. Predicted(c, s2, q \o more, r, i, theme, m, f)
    BY <1>1, <1>5, <2>2, <2>3, ActsGone
  <2> QED BY <2>4, <2>5
<1> QED BY <1>1, <1>2, <1>4, <1>5

(* The user enters as x.nick. *)
LEMMA ActsAdmitted ==
  ASSUME NEW c, NEW s \in Seq(Stanza), NEW q, NEW r, NEW i \in [Person -> Info],
         NEW theme \in Topic \cup {NULL}, NEW m, NEW f,
         Predicted(c, s, q, r, i, theme, m, f), People(r), r[Me] = NULL,
         s # <<>>, NEW x, x = Head(s), x.kind = "enter", x.nick \in Nick, NEW s2, s2 = Tail(s),
         Untaken(r, x.nick), NEW r2, Moved(r, Me, x.nick, r2),
         NEW o, o = SetToSeq(Occupants(r)),
         NEW q1, q1 = Introduced(r, i, o), NEW w, w = OwnPresence(x.nick, i[Me]),
         NEW q3, q3 = Theme(theme),
         NEW q2, q2 = ((q \o q1) \o <<w>>) \o q3, NEW f2
  PROVE  Predicted(c, s2, q2, r2, i, theme, m, f2)
<1>1. PICK out, d :
        /\ Way(c, s, q, r, out, d)
        /\ InRoom(c, s, r, i, theme, m, f, d) \/ Waiting(c, s, q, r, d) \/ Gone(c, s, r, d)
  BY DEF Predicted
<1>2. ~InRoom(c, s, r, i, theme, m, f, d)
  BY DEF InRoom, Shows
<1>3. PICK no \in BOOLEAN : ~no
  OBVIOUS
<1>4. PICK n, q0 : n = x.nick /\ q0 = <<w>>
  OBVIOUS
<1>5. /\ q1 \in Seq(Told) /\ q0 \in Seq(Told) /\ q3 \in Seq(Told)
      /\ Admits(n, (q1 \o q0) \o q3, no, r2, i, theme)
  <2>1. Welcome(r, i, n, theme, q1, q0, q3, r2)
    BY <1>4 DEF Welcome
  <2> QED BY <2>1, WelcomeLeadsIn
<1>6. PICK e : /\ Leads(NewChannel(n), (q1 \o q0) \o q3, no, e)
               /\ Shows(e, r2, i) /\ e.topic = theme /\ e.mode = NULL
  BY <1>5 DEF Admits
<1>7. q \in Seq(Told)
  BY <1>1 DEF Way
<1>10. q2 = ((q \o q1) \o q0) \o q3 /\ q2 \in Seq(Told)
  <2>1. q \o q1 \in Seq(Told)
    BY <1>5, <1>7, Joined2
  <2>2. (q \o q1) \o q0 \in Seq(Told)
    BY <1>5, <2>1, Joined2
  <2>3. ((q \o q1) \o q0) \o q3 \in Seq(Told)
    BY <1>5, <2>2, Joined2
  <2> QED BY <1>4, <2>3
<1>11. CASE Waiting(c, s, q, r, d)
  <2>1. /\ d = NewChannel(d.nick) /\ State(c) /\ ~c.joined
    BY <1>1, <1>11, WaitingIs, WayIs DEF Waiting
  <2>2. q = <<>> /\ c = d /\ x.nick = d.nick /\ Updates(s2)
    <3>1. Way(c, s, q, r, out, d) /\ Waiting(c, s, q, r, d) /\ First(s, x, s2)
      BY <1>1, <1>11 DEF First
    <3> QED BY <3>1, WaitingAsks
  <2>3. x.nick = d.nick /\ Updates(s2)
    BY <2>2
  <2>4. q2 = (q1 \o q0) \o q3
    <3>1. <<>> \o q1 = q1
      BY <1>5
    <3> QED BY <1>10, <2>2, <3>1
  <2>5. Leads(c, q2, no, e)
    BY <1>4, <1>6, <2>1, <2>2, <2>3, <2>4
  <2>6. Way(c, s2, q2, r2, no, e)
    BY <1>3, <1>10, <2>5 DEF Way
  <2>7. InRoom(c, s2, r2, i, theme, m, f2, e)
    BY <1>6, <2>1 DEF InRoom
  <2> QED BY <2>6, <2>7 DEF Predicted
<1>12. CASE Gone(c, s, r, d)
  <2>1. /\ None(s, "enter") => x.kind # "enter"
        /\ Parting(s) => Parting(s2) \/ x.kind = "leave"
    BY SentLess
  <2>2. ~Outside(s, r)
    BY <2>1 DEF Outside
  <2>3. c.exists \/ Parting(s2)
    BY <1>12, <2>1, <2>2 DEF Gone, Leaving
  <2>4. Leads(c, q, out, d) /\ ~d.exists /\ out \in BOOLEAN /\ ~out
    BY <1>1, <1>12, <2>2 DEF Way, Gone
  <2>5. Leads(c, q \o q1, out, d) /\ q \o q1 \in Seq(Told)
    BY <1>5, <1>7, <2>4, LeadsGone
  <2>6. Leads(c, (q \o q1) \o q0, out, d) /\ (q \o q1) \o q0 \in Seq(Told)
    BY <1>5, <2>4, <2>5, LeadsGone
  <2>7. Leads(c, q2, out, d)
    <3>1. Leads(c, ((q \o q1) \o q0) \o q3, out, d)
      BY <1>5, <2>4, <2>6, LeadsGone
    <3> QED BY <1>10, <3>1
  <2>8. Way(c, s2, q2, r2, out, d)
    BY <1>10, <2>4, <2>7 DEF Way
  <2>9. Gone(c, s2, r2, d)
    BY <2>3, <2>4 DEF Gone, Leaving
  <2> QED BY <2>8, <2>9 DEF Predicted
<1> QED BY <1>1, <1>2, <1>11, <1>12

(* The room tells its features. *)
LEMMA ActsFeatures ==
  ASSUME NEW c, NEW s \in Seq(Stanza), NEW q, NEW r, NEW i, NEW theme, NEW m \in Mode, NEW f,
         Predicted(c, s, q, r, i, theme, m, f),
         s # <<>>, NEW x, x = Head(s), x.kind = "features", NEW s2, s2 = Tail(s),
         NEW w, w = FeaturesAre(m), NEW q2, q2 = q \o <<w>>, NEW f2
  PROVE  Predicted(c, s2, q2, r, i, theme, m, f2)
<1>1. PICK out, d :
        /\ Way(c, s, q, r, out, d)
        /\ InRoom(c, s, r, i, theme, m, f, d) \/ Waiting(c, s, q, r, d) \/ Gone(c, s, r, d)
  BY DEF Predicted
<1>2. w \in Told /\ w.type = "features" /\ w.mode = m
  BY OthersTold DEF FeaturesAre
<1>3. q \in Seq(Told) /\ Leads(c, q, out, d) /\ out \in BOOLEAN
  BY <1>1 DEF Way
<1>4. /\ None(s, "enter") => None(s2, "enter")
      /\ Parting(s) => Parting(s2)
  BY SentLess
<1>5. CASE InRoom(c, s, r, i, theme, m, f, d)
  <2>1. Shows(d, r, i) /\ d.topic = theme /\ r[Me] # NULL /\ d.exists /\ d.joined
    BY <1>5 DEF InRoom, Shows
  <2>2. PICK e : e = WithMode(d, m)
    OBVIOUS
  <2>3. Handled(d, w) = e
    BY <1>2, <2>1, <2>2, HandledIs
  <2>4. e.exists /\ e.joined /\ e.nick = d.nick /\ e.nicks = d.nicks /\ e.topic = d.topic /\ e.mode = m
    BY <2>1, <2>2 DEF WithMode
  <2>5. Meant(d, w, 1, out)
    BY <1>2, <2>1, <2>3, <2>4 DEF Meant
  <2>6. Leads(c, q2, out, e) /\ q2 \in Seq(Told)
    BY <1>2, <1>3, <2>1, <2>3, <2>5, LeadsMore
  <2>7. ~out
    BY <1>1, <2>1 DEF Way, Outside
  <2>8. Way(c, s2, q2, r, out, e)
    BY <1>3, <2>6, <2>7 DEF Way
  <2>9. InRoom(c, s2, r, i, theme, m, f2, e)
    BY <2>1, <2>4 DEF InRoom, Shows
  <2> QED BY <2>8, <2>9 DEF Predicted
<1>6. CASE Waiting(c, s, q, r, d)
  <2>1. x.kind = "enter" \/ x.kind = "update"
    <3>1. Asking(s, d.nick) \/ Updates(s)
      BY <1>6 DEF Waiting
    <3> QED BY <3>1, AskedLess
  <2> QED BY <2>1
<1>7. CASE Gone(c, s, r, d)
  <2>1. Outside(s, r) => Outside(s2, r)
    BY <1>4 DEF Outside
  <2>2. c.exists \/ Leaving(s2, r)
    BY <1>4, <1>7, <2>1 DEF Gone, Leaving
  <2>3. PICK more \in Seq(Told) : more = <<w>>
    <3>1. <<w>> \in Seq(Told)
      BY <1>2
    <3> QED BY <3>1
  <2>4. Predicted(c, s2, q \o more, r, i, theme, m, f2)
    BY <1>1, <1>7, <2>1, <2>2, ActsGone
  <2> QED BY <2>3, <2>4
<1> QED BY <1>1, <1>5, <1>6, <1>7

(* The user leaves: the client has no channel any more. *)
LEMMA ActsLeft ==
  ASSUME NEW c, NEW s \in Seq(Stanza), NEW q, NEW r, NEW i, NEW theme, NEW m, NEW f,
         Predicted(c, s, q, r, i, theme, m, f), ~c.exists,
         s # <<>>, NEW x, x = Head(s), NEW s2, s2 = Tail(s),
         NEW r2, r2[Me] = NULL, NEW more \in Seq(Told), NEW q2, q2 = q \/ q2 = q \o more
  PROVE  Predicted(c, s2, q2, r2, i, theme, m, f)
<1>1. PICK out, d :
        /\ Way(c, s, q, r, out, d)
        /\ InRoom(c, s, r, i, theme, m, f, d) \/ Waiting(c, s, q, r, d) \/ Gone(c, s, r, d)
  BY DEF Predicted
<1>2. State(c) /\ ~d.exists
  BY <1>1, WayIs
<1>3. Gone(c, s, r, d)
  BY <1>1, <1>2, WaitingIs DEF InRoom, Shows
<1>4. Leaving(s2, r2)
  <2>1. /\ None(s, "enter") => None(s2, "enter")
        /\ Parting(s) => Parting(s2) \/ None(s2, "enter")
    BY SentLess
  <2> QED BY <1>3, <2>1 DEF Gone, Leaving, Outside
<1>5. PICK no \in BOOLEAN : ~no
  OBVIOUS
<1>6. q \in Seq(Told) /\ q \o more \in Seq(Told)
  BY <1>1, Joined2 DEF Way
<1>7. Leads(c, q2, no, c)
  BY <1>2, <1>6, LeadsStill
<1>8. Way(c, s2, q2, r2, no, c)
  BY <1>5, <1>6, <1>7 DEF Way
<1>9. Gone(c, s2, r2, c)
  BY <1>4 DEF Gone
<1> QED BY <1>8, <1>9 DEF Predicted

-----------------------------------------------------------------------------
(* What the stanzas of the room tell a channel that shows it. *)

(* One stanza leads on.                                                       *)
LEMMA TurnsOn ==
  ASSUME NEW d, State(d), NEW r, NEW i, Shows(d, r, i), NEW w \in Told, NEW out,
         NEW e, e = Handled(d, w), e.exists, w.type = "message" => (w.nick = r[Me] <=> w.by = Me)
  PROVE  Leads(d, <<w>>, out, e)
<1>1. d.exists /\ d.joined /\ d.nick = r[Me]
  BY DEF Shows
<1>2. Meant(d, w, 1, out)
  BY <1>1 DEF Meant
<1> QED BY <1>2, LeadsOne

(* Two stanzas, one after the other. *)
LEMMA TurnsTwo ==
  ASSUME NEW d, NEW e, NEW g, NEW out, NEW w \in Told, NEW z \in Told,
         Leads(d, <<w>>, out, e), Leads(e, <<z>>, out, g), e.joined
  PROVE  Leads(d, <<w, z>>, out, g)
<1>1. PICK a, b : a = <<w>> /\ b = <<z>>
  OBVIOUS
<1>2. a \in Seq(Told) /\ b \in Seq(Told) /\ a \o b = <<w, z>>
  <2>1. <<w>> \o <<z>> = <<w, z>>
    <3>1. /\ <<w>> \in Seq(Told) /\ <<z>> \in Seq(Told) /\ Len(<<w>>) = 1 /\ Len(<<z>>) = 1
          /\ 1 \in 1..1 /\ 1 + 1 = 2 /\ <<w>>[1] = w /\ <<z>>[1] = z
      OBVIOUS
    <3>2. /\ <<w>> \o <<z>> \in Seq(Told) /\ Len(<<w>> \o <<z>>) = 2
          /\ (<<w>> \o <<z>>)[1] = w /\ (<<w>> \o <<z>>)[2] = z
      BY <3>1, Joined2
    <3>3. <<w, z>> \in Seq(Told) /\ Len(<<w, z>>) = 2 /\ <<w, z>>[1] = w /\ <<w, z>>[2] = z
      OBVIOUS
    <3>4. \A j \in 1..2 : j = 1 \/ j = 2
      OBVIOUS
    <3>5. PICK k, h : k = <<w>> \o <<z>> /\ h = <<w, z>>
      OBVIOUS
    <3>6. k \in Seq(Told) /\ h \in Seq(Told) /\ Len(k) = Len(h) /\ \A j \in 1..Len(k) : k[j] = h[j]
      BY <3>2, <3>3, <3>4, <3>5
    <3> QED BY <3>5, <3>6, SeqEqual
  <2>2. <<w>> \in Seq(Told) /\ <<z>> \in Seq(Told)
    OBVIOUS
  <2> QED BY <1>1, <2>1, <2>2
<1>3. Leads(d, a \o b, out, g)
  BY <1>1, <1>2, LeadsOn
<1> QED BY <1>2, <1>3

(* Somebody inside has another role, affiliation or show.                     *)
LEMMA TurnsPresence ==
  ASSUME NEW r, People(r), NEW i \in [Person -> Info], NEW theme, NEW m, NEW f,
         NEW p \in Occupants(r), NEW x \in Info, NEW i2, Moved(i, p, x, i2),
         NEW w, w = OwnPresence(r[p], x) \/ w = Presence(r[p], x)
  PROVE  Turns(<<w>>, r, i, theme, m, f, r, i2, theme, m, f)
<1>1. r[p] \in Nick
  BY DEF People, Occupants
<1>2. /\ w \in Told /\ w.type = "available" /\ w.nick = r[p] /\ w.info = x
      /\ w.own \in BOOLEAN /\ w.forced \in BOOLEAN
  BY <1>1, PresenceTold
<1>3. ASSUME NEW d, NEW out, State(d), Shows(d, r, i)
      PROVE  \E e : /\ Leads(d, <<w>>, out, e) /\ Shows(e, r, i2)
                    /\ e.topic = d.topic /\ e.mode = d.mode
  <2>1. Sound(d) /\ d.exists
    BY <1>3 DEF State, Shows
  <2>2. PICK own, forced, e : own = w.own /\ forced = w.forced /\ e = Presented(d, r[p], x, own, forced)
    OBVIOUS
  <2>3. own \in BOOLEAN /\ forced \in BOOLEAN
    BY <1>2, <2>2
  <2>4. Shows(e, r, i2) /\ e.topic = d.topic /\ e.mode = d.mode
    BY <1>3, <2>1, <2>2, <2>3, ShowsInfo
  <2>5. Shows(e, r, i2)
    BY <2>4
  <2>6. e = Handled(d, w)
    BY <1>2, <2>1, <2>2, HandledIs
  <2>7. e.exists
    BY <2>5 DEF Shows
  <2>8. Leads(d, <<w>>, out, e)
    BY <1>2, <1>3, <2>6, <2>7, TurnsOn
  <2> QED BY <2>4, <2>5, <2>8
<1>4. <<w>> \in Seq(Told)
  BY <1>2
<1> QED BY <1>3, <1>4 DEF Turns

(* Somebody else enters. *)
LEMMA TurnsEnters ==
  ASSUME NEW r, People(r), NEW i \in [Person -> Info], NEW theme, NEW m, NEW f,
         NEW p \in Other, r[p] = NULL, NEW n \in Nick, Untaken(r, n), NEW r2, Moved(r, p, n, r2),
         NEW w, w = Presence(n, i[p])
  PROVE  Turns(<<w>>, r, i, theme, m, f, r2, i, theme, m, f)
<1>1. p \in Person /\ i[p] \in Info /\ p # Me
  BY PersonAssumption DEF Person
<1>2. /\ w \in Told /\ w.type = "available" /\ w.nick = n /\ w.info = i[p]
      /\ w.own \in BOOLEAN /\ ~w.own /\ w.forced \in BOOLEAN
  BY <1>1, PresenceTold
<1>3. ASSUME NEW d, NEW out, State(d), Shows(d, r, i)
      PROVE  \E e : /\ Leads(d, <<w>>, out, e) /\ Shows(e, r2, i)
                    /\ e.topic = d.topic /\ e.mode = d.mode
  <2>1. Sound(d) /\ d.exists
    BY <1>3 DEF State, Shows
  <2>2. PICK own, forced, e : own = w.own /\ forced = w.forced /\ e = Presented(d, n, i[p], own, forced)
    OBVIOUS
  <2>3. forced \in BOOLEAN /\ ~own
    BY <1>2, <2>2
  <2>5. Shows(e, r2, i) /\ e.topic = d.topic /\ e.mode = d.mode
    BY <1>3, <2>1, <2>2, <2>3, ShowsNew
  <2>6. e = Handled(d, w)
    BY <1>2, <2>1, <2>2, HandledIs
  <2>7. e.exists
    BY <2>5 DEF Shows
  <2>8. Leads(d, <<w>>, out, e)
    BY <1>2, <1>3, <2>6, <2>7, TurnsOn
  <2> QED BY <2>5, <2>8
<1>4. <<w>> \in Seq(Told)
  BY <1>2
<1>5. r2[Me] = r[Me]
  BY <1>1 DEF Moved, People, Person
<1> QED BY <1>3, <1>4, <1>5 DEF Turns

(* Somebody else leaves or is removed. *)
LEMMA TurnsLeaves ==
  ASSUME NEW r, People(r), NEW i \in [Person -> Info], NEW theme, NEW m, NEW f,
         NEW p \in Occupants(r), p # Me, NEW r2, Moved(r, p, NULL, r2),
         NEW code \in {NULL, 301, 307}, NEW w, w = Unavailable(r[p], code)
  PROVE  Turns(<<w>>, r, i, theme, m, f, r2, i, theme, m, f)
<1>1. r[p] \in Nick
  BY DEF People, Occupants
<1>2. w \in Told /\ w.type = "unavailable" /\ w.nick = r[p]
  <2>1. w \in Told
    BY <1>1, OthersTold
  <2> QED BY <2>1 DEF Unavailable
<1>3. ASSUME NEW d, NEW out, State(d), Shows(d, r, i)
      PROVE  \E e : /\ Leads(d, <<w>>, out, e) /\ Shows(e, r2, i)
                    /\ e.topic = d.topic /\ e.mode = d.mode
  <2>1. Sound(d) /\ d.exists
    BY <1>3 DEF State, Shows
  <2>2. PICK e : e = Departed(d, r[p])
    OBVIOUS
  <2>4. Shows(e, r2, i) /\ e.topic = d.topic /\ e.mode = d.mode
    BY <1>3, <2>1, <2>2, ShowsGone
  <2>5. e = Handled(d, w)
    BY <1>2, <2>1, <2>2, HandledIs
  <2>6. e.exists
    BY <2>4 DEF Shows
  <2>7. Leads(d, <<w>>, out, e)
    BY <1>2, <1>3, <2>5, <2>6, TurnsOn
  <2> QED BY <2>4, <2>7
<1>4. <<w>> \in Seq(Told)
  BY <1>2
<1>5. r2[Me] = r[Me]
  BY DEF Moved, People, Person, Occupants
<1> QED BY <1>3, <1>4, <1>5 DEF Turns

(* Somebody inside takes another nick. *)
LEMMA TurnsRenames ==
  ASSUME NEW r, People(r), NEW i \in [Person -> Info], NEW theme, NEW m, NEW f,
         NEW p \in Occupants(r), NEW n \in Nick, Untaken(r, n), NEW r2, Moved(r, p, n, r2),
         NEW w, w = Changed(r[p], n),
         NEW z, z = OwnPresence(n, i[p]) \/ z = Presence(n, i[p])
  PROVE  Turns(<<w, z>>, r, i, theme, m, f, r2, i, theme, m, f)
<1>1. r[p] \in Nick /\ p \in Person /\ i[p] \in Info
  BY DEF People, Occupants
<1>2. w \in Told /\ w.type = "changed" /\ w.nick = r[p] /\ w.new = n
  BY <1>1, OthersTold DEF Changed
<1>3. z \in Told
  BY <1>1, PresenceTold
<1>4. /\ r2[p] = n /\ (\A o \in Person : o # p => r2[o] = r[o])
      /\ p \in Occupants(r2)
  BY <1>1, NickAssumption DEF Moved, People, Occupants
<1>5. People(r2)
  <2>1. r2 \in [Person -> Nick \cup {NULL}]
    BY <1>1 DEF Moved, People
  <2>2. \A o \in Occupants(r2) : o # p => o \in Occupants(r) /\ r2[o] = r[o]
    BY <1>4 DEF Occupants
  <2>3. ASSUME NEW o \in Occupants(r2), NEW u \in Occupants(r2), r2[o] = r2[u] PROVE o = u
    BY <1>4, <2>2, <2>3 DEF Untaken, People, Distinct
  <2> QED BY <2>1, <2>3 DEF People, Distinct
<1>6. Moved(i, p, i[p], i)
  BY DEF Moved
<1>7. z = OwnPresence(r2[p], i[p]) \/ z = Presence(r2[p], i[p])
  BY <1>4
<1>8. \A yes : Turns(<<z>>, r2, i, theme, m, yes, r2, i, theme, m, yes)
  BY <1>1, <1>4, <1>5, <1>6, <1>7, TurnsPresence
<1>9. ASSUME NEW d, NEW out, State(d), Shows(d, r, i)
      PROVE  \E g : /\ Leads(d, <<w, z>>, out, g) /\ Shows(g, r2, i)
                    /\ d.topic = theme => g.topic = theme
                    /\ d.mode = m => g.mode = m
  <2>1. Sound(d) /\ d.exists
    BY <1>9 DEF State, Shows
  <2>2. PICK e : e = Renamed(d, r[p], n)
    OBVIOUS
  <2>4. Shows(e, r2, i) /\ e.topic = d.topic /\ e.mode = d.mode
    BY <1>9, <2>1, <2>2, ShowsRenamed
  <2>5. e = Handled(d, w)
    BY <1>2, <2>1, <2>2, HandledIs
  <2>6. e.exists /\ e.joined
    BY <2>4 DEF Shows
  <2>7. Leads(d, <<w>>, out, e)
    BY <1>2, <1>9, <2>5, <2>6, TurnsOn
  <2>8. State(e)
    <3>1. <<w>> \in Seq(Told)
      BY <1>2
    <3> QED BY <2>7, <3>1, LeadsEnds
  <2>9. PICK g : /\ Leads(e, <<z>>, out, g) /\ Shows(g, r2, i)
                 /\ e.topic = theme => g.topic = theme
                 /\ e.mode = m => g.mode = m
    <3>1. PICK yes \in BOOLEAN : yes
      OBVIOUS
    <3>2. Turns(<<z>>, r2, i, theme, m, yes, r2, i, theme, m, yes)
      BY <1>8
    <3> QED BY <2>4, <2>8, <3>1, <3>2 DEF Turns
  <2>10. Leads(d, <<w, z>>, out, g)
    BY <1>2, <1>3, <2>6, <2>7, <2>9, TurnsTwo
  <2> QED BY <2>4, <2>9, <2>10
<1>10. <<w, z>> \in Seq(Told)
  BY <1>2, <1>3
<1>11. (r2[Me] = NULL => r[Me] = NULL) /\ (r[Me] = NULL => r2[Me] = NULL)
  <2>1. CASE p = Me
    BY <1>1, <1>4, <2>1, NickAssumption
  <2>2. CASE p # Me
    BY <1>4, <2>2 DEF Person
  <2> QED BY <2>1, <2>2
<1> QED BY <1>9, <1>10, <1>11 DEF Turns

(* Another subject. *)
LEMMA TurnsSubject ==
  ASSUME NEW r, NEW i, NEW theme, NEW m, NEW f, NEW t \in Topic \cup {NULL},
         NEW w, w = SubjectIs(t)
  PROVE  Turns(<<w>>, r, i, theme, m, f, r, i, t, m, f)
<1>1. w \in Told /\ w.type = "subject" /\ w.topic = t
  BY OthersTold DEF SubjectIs
<1>2. ASSUME NEW d, NEW out, State(d), Shows(d, r, i)
      PROVE  \E e : /\ Leads(d, <<w>>, out, e) /\ Shows(e, r, i)
                    /\ e.topic = t /\ e.mode = d.mode
  <2>1. d.exists
    BY <1>2 DEF Shows
  <2>2. PICK e : e = WithTopic(d, t)
    OBVIOUS
  <2>3. e.exists = d.exists /\ e.joined = d.joined /\ e.nick = d.nick /\ e.nicks = d.nicks
        /\ e.topic = t /\ e.mode = d.mode
    BY <2>2 DEF WithTopic
  <2>4. Shows(e, r, i)
    BY <1>2, <2>3 DEF Shows
  <2>5. e = Handled(d, w)
    BY <1>1, <2>1, <2>2, HandledIs
  <2>6. Leads(d, <<w>>, out, e)
    BY <1>1, <1>2, <2>1, <2>3, <2>5, TurnsOn
  <2> QED BY <2>3, <2>4, <2>6
<1>3. <<w>> \in Seq(Told)
  BY <1>1
<1> QED BY <1>2, <1>3 DEF Turns

(* What is only printed: messages, which are attributed, answers and refusals. *)
LEMMA TurnsPrinted ==
  ASSUME NEW r, NEW i, NEW theme, NEW m, NEW f, NEW m2, NEW f2, f2 => f /\ m2 = m,
         NEW w \in Told, w.type \in {"message", "answer", "error"},
         w.type = "message" => (w.nick = r[Me] <=> w.by = Me)
  PROVE  Turns(<<w>>, r, i, theme, m, f, r, i, theme, m2, f2)
<1>1. ASSUME NEW d, NEW out, State(d), Shows(d, r, i)
      PROVE  Leads(d, <<w>>, out, d)
  <2>1. d.exists /\ d.joined
    BY <1>1 DEF Shows
  <2>2. d = Handled(d, w)
    BY <2>1, HandledIs
  <2> QED BY <1>1, <2>1, <2>2, TurnsOn
<1>2. <<w>> \in Seq(Told)
  OBVIOUS
<1> QED BY <1>1, <1>2 DEF Turns

-----------------------------------------------------------------------------
(* Who is in the room. *)

(* Somebody gets a nick that is free. *)
LEMMA PeopleIn ==
  ASSUME NEW r, People(r), NEW p \in Person, NEW n \in Nick, Untaken(r, n), NEW r2, Moved(r, p, n, r2)
  PROVE  People(r2) /\ r2[p] = n /\ \A o \in Person : o # p => r2[o] = r[o]
<1>1. r \in [Person -> Nick \cup {NULL}] /\ Distinct(r)
  BY DEF People
<1>2. r2 \in [Person -> Nick \cup {NULL}] /\ r2[p] = n /\ \A o \in Person : o # p => r2[o] = r[o]
  BY <1>1 DEF Moved
<1>3. \A o \in Occupants(r2) : o # p => o \in Occupants(r) /\ r2[o] = r[o]
  BY <1>2 DEF Occupants
<1>4. \A o \in Occupants(r) : r[o] # n
  BY DEF Untaken
<1>5. ASSUME NEW o \in Occupants(r2), NEW u \in Occupants(r2), r2[o] = r2[u] PROVE o = u
  BY <1>1, <1>2, <1>3, <1>4, <1>5 DEF Distinct
<1> QED BY <1>2, <1>5 DEF People, Distinct

(* Somebody goes. *)
LEMMA PeopleOut ==
  ASSUME NEW r, People(r), NEW p \in Person, NEW r2, Moved(r, p, NULL, r2)
  PROVE  People(r2) /\ r2[p] = NULL /\ \A o \in Person : o # p => r2[o] = r[o]
<1>1. r \in [Person -> Nick \cup {NULL}] /\ Distinct(r)
  BY DEF People
<1>2. r2 \in [Person -> Nick \cup {NULL}] /\ r2[p] = NULL /\ \A o \in Person : o # p => r2[o] = r[o]
  BY <1>1 DEF Moved
<1>3. \A o \in Occupants(r2) : o \in Occupants(r) /\ r2[o] = r[o]
  BY <1>2 DEF Occupants
<1>4. ASSUME NEW o \in Occupants(r2), NEW u \in Occupants(r2), r2[o] = r2[u] PROVE o = u
  BY <1>1, <1>3, <1>4 DEF Distinct
<1> QED BY <1>2, <1>4 DEF People, Distinct

(* An empty room. *)
LEMMA NobodyIn ==
  ASSUME NEW r, r = [p \in Person |-> NULL]
  PROVE  People(r) /\ r[Me] = NULL
<1>1. \A p \in Person : r[p] = NULL
  OBVIOUS
<1> QED BY <1>1 DEF People, Distinct, Occupants, Person

-----------------------------------------------------------------------------
(* The inductive invariant. *)

Typed ==
  /\ toRoom \in Seq(Stanza) /\ info \in [Person -> Info]
  /\ subject \in Topic \cup {NULL} /\ mode \in Mode /\ fresh \in BOOLEAN

(* The client leaves a room that it has a channel for no more. *)
LeftLast == channel.exists => None(toRoom, "leave")

(* An invitation, which no channel waits for, is all that is in flight. *)
Invited == toClient = <<Invitation>> /\ toRoom = <<>> /\ ~channel.exists /\ room[Me] = NULL

Foretold == Predicted(channel, toRoom, toClient, room, info, subject, mode, fresh)

IInv ==
  /\ Typed
  /\ People(room)
  /\ NothingAfterDestroy(toRoom)
  /\ LeftLast
  /\ Invited \/ Foretold

(* Nothing is on its way to the room. *)
LEMMA NothingSent ==
  ASSUME NEW s, s = <<>>, NEW r
  PROVE  /\ s \in Seq(Stanza) /\ NothingAfterDestroy(s) /\ (\A kind : None(s, kind))
         /\ ~Parting(s) /\ Updates(s) /\ (\A n : ~Asking(s, n))
<1>1. s \in Seq(Stanza) /\ Len(s) = 0 /\ 1..0 = {}
  OBVIOUS
<1> QED BY <1>1 DEF NothingAfterDestroy, None, Parting, Updates, Asking

(* The absence of a channel is a state that its record may be in.             *)
LEMMA NoChannelState == State(NoChannel) /\ ~NoChannel.exists
BY NickAssumption, FreshSound DEF State, NoChannel

(* So is a channel that was just created, which has not joined.               *)
LEMMA NewChannelState ==
  ASSUME NEW n \in Nick, NEW c, c = NewChannel(n)
  PROVE  State(c) /\ c.exists /\ ~c.joined /\ c.nick = n
BY FreshSound DEF State, NewChannel

(* Neither in the room nor on the way. *)
LEMMA PredictedOut ==
  ASSUME NEW s, s = <<>>, NEW q, q = <<>>, NEW r, r[Me] = NULL, NEW i, NEW theme, NEW m, NEW f
  PROVE  Predicted(NoChannel, s, q, r, i, theme, m, f)
<1>1. PICK no \in BOOLEAN : ~no
  OBVIOUS
<1>2. Leads(NoChannel, q, no, NoChannel)
  BY NoChannelState, LeadsNowhere
<1>3. q \in Seq(Told)
  OBVIOUS
<1>4. Way(NoChannel, s, q, r, no, NoChannel)
  BY <1>1, <1>2, <1>3 DEF Way
<1>5. Leaving(s, r)
  BY NothingSent DEF Leaving, Outside
<1>6. Gone(NoChannel, s, r, NoChannel)
  BY <1>5, NoChannelState DEF Gone
<1> QED BY <1>4, <1>6 DEF Predicted

(* Whoever has no channel, with nothing on its way to the room, is outside. *)
LEMMA AtRest ==
  ASSUME NEW c, NEW s, s = <<>>, NEW q, NEW r, NEW i, NEW theme, NEW m, NEW f,
         Predicted(c, s, q, r, i, theme, m, f), ~c.exists
  PROVE  r[Me] = NULL
<1>1. PICK out, d :
        /\ Way(c, s, q, r, out, d)
        /\ InRoom(c, s, r, i, theme, m, f, d) \/ Waiting(c, s, q, r, d) \/ Gone(c, s, r, d)
  BY DEF Predicted
<1>2. ~d.exists
  BY <1>1, WayIs
<1>3. Gone(c, s, r, d)
  BY <1>1, <1>2, WaitingIs DEF InRoom, Shows
<1> QED BY <1>3, NothingSent DEF Gone, Leaving, Outside

(* The user asks to enter. *)
LEMMA PredictedEntering ==
  ASSUME NEW n \in Nick, NEW x, x = Enter(n), NEW s, s = <<x>>, NEW q, q = <<>>,
         NEW c, c = NewChannel(n),
         NEW r, r[Me] = NULL, NEW i, NEW theme, NEW m, NEW f
  PROVE  /\ Predicted(c, s, q, r, i, theme, m, f)
         /\ s \in Seq(Stanza) /\ NothingAfterDestroy(s) /\ None(s, "leave")
<1>1. PICK no \in BOOLEAN : ~no
  OBVIOUS
<1>2. State(c) /\ c.exists /\ ~c.joined /\ c.nick = n
  BY NewChannelState
<1>3. x \in Stanza /\ x.kind = "enter" /\ x.nick = n
  BY PresenceStanzas
<1>4. PICK none : none = <<>>
  OBVIOUS
<1>5. none \in Seq(Stanza) /\ s = none \o <<x>>
  BY <1>3, <1>4
<1>6. /\ NothingAfterDestroy(none) /\ (\A kind : None(none, kind)) /\ Updates(none)
  BY <1>4, NothingSent
<1>7. Asking(s, n)
  BY <1>3, <1>5, <1>6, AskedMore
<1>8. s \in Seq(Stanza) /\ NothingAfterDestroy(s) /\ None(s, "leave")
  BY <1>3, <1>5, <1>6, SentMore
<1>9. Leads(c, q, no, c)
  BY <1>2, LeadsNowhere
<1>10. q \in Seq(Told)
  OBVIOUS
<1>11. Way(c, s, q, r, no, c)
  BY <1>1, <1>9, <1>10 DEF Way
<1>12. Waiting(c, s, q, r, c)
  BY <1>2, <1>7 DEF Waiting
<1> QED BY <1>8, <1>11, <1>12 DEF Predicted

(* The user leaves. *)
LEMMA PredictedParting ==
  ASSUME NEW c, NEW s \in Seq(Stanza), NEW q, NEW r, NEW i, NEW theme, NEW m, NEW f,
         Predicted(c, s, q, r, i, theme, m, f),
         NEW x \in Stanza, x.kind = "leave", NEW s2, s2 = s \o <<x>>
  PROVE  Predicted(NoChannel, s2, q, r, i, theme, m, f)
<1>1. q \in Seq(Told)
  BY DEF Predicted, Way
<1>2. PICK no \in BOOLEAN : ~no
  OBVIOUS
<1>3. Leads(NoChannel, q, no, NoChannel)
  BY <1>1, NoChannelState, LeadsStill
<1>4. Way(NoChannel, s2, q, r, no, NoChannel)
  BY <1>1, <1>2, <1>3 DEF Way
<1>5. Leaving(s2, r)
  BY SentMore
<1>6. Gone(NoChannel, s2, r, NoChannel)
  BY <1>5, NoChannelState DEF Gone
<1> QED BY <1>4, <1>6 DEF Predicted

(* The invariant holds at first. *)
LEMMA IInvInit == RoomInit => IInv
<1> SUFFICES ASSUME RoomInit PROVE IInv
  OBVIOUS
<1>1. People(room) /\ room[Me] = NULL
  BY NobodyIn DEF RoomInit
<1>2. Foretold
  BY <1>1, PredictedOut DEF RoomInit, ChannelInit, Foretold
<1>3. NothingAfterDestroy(toRoom) /\ toRoom \in Seq(Stanza)
  BY NothingSent DEF RoomInit
<1>4. LeftLast
  BY NoChannelState DEF RoomInit, ChannelInit, LeftLast
<1>5. info \in [Person -> Info] /\ subject \in Topic \cup {NULL} /\ mode \in Mode /\ fresh \in BOOLEAN
  BY RoomAssumption DEF RoomInit
<1> QED BY <1>1, <1>2, <1>3, <1>4, <1>5 DEF IInv, Typed

-----------------------------------------------------------------------------
(* The user acts. *)

Untouched == UNCHANGED <<room, info, subject, mode, fresh, toClient>>

(* The prediction depends on what Untouched names only. *)
LEMMA UntouchedIs ==
  ASSUME Untouched
  PROVE  /\ UNCHANGED room /\ UNCHANGED info /\ UNCHANGED subject /\ UNCHANGED mode
         /\ UNCHANGED fresh /\ UNCHANGED toClient
BY DEF Untouched

(* A stanza that leaves the channel as it is. *)
Posts(x) ==
  /\ channel.exists /\ x \in Stanza
  /\ toRoom' = toRoom \o <<x>>
  /\ UNCHANGED channel
  /\ Untouched

(* A command that sends one stanza leaves the way of the client alone. *)
LEMMA IInvPosts ==
  ASSUME IInv, NEW x, Posts(x), x.kind # "leave", x.kind # "update" => channel.joined,
         x.kind = "enter" => ~Ending
  PROVE  IInv'
<1>1. /\ channel.exists /\ x \in Stanza /\ toRoom' = toRoom \o <<x>> /\ channel' = channel
      /\ room' = room /\ info' = info /\ subject' = subject /\ mode' = mode /\ fresh' = fresh
      /\ toClient' = toClient
  BY UntouchedIs DEF Posts
<1>2. /\ toRoom \in Seq(Stanza) /\ fresh \in BOOLEAN /\ NothingAfterDestroy(toRoom)
      /\ None(toRoom, "leave") /\ Foretold
  BY <1>1 DEF IInv, Typed, LeftLast, Invited
<1>3. x.kind = "enter" => None(toRoom, "destroy") /\ \A j \in 1..Len(toClient) : toClient[j].type # "destroyed"
  <2> SUFFICES ASSUME ~Ending
               PROVE  None(toRoom, "destroy") /\ \A j \in 1..Len(toClient) : toClient[j].type # "destroyed"
    OBVIOUS
  <2>1. toClient \in Seq(Told)
    BY <1>2 DEF Foretold, Predicted, Way
  <2>2. DOMAIN toClient = 1..Len(toClient) /\ DOMAIN toRoom = 1..Len(toRoom)
    BY <1>2, <2>1
  <2> QED BY <2>2 DEF Ending, None
<1>4. PICK s2 : s2 = toRoom \o <<x>>
  OBVIOUS
<1>5. s2 \in Seq(Stanza) /\ NothingAfterDestroy(s2) /\ None(s2, "leave")
  BY <1>1, <1>2, <1>3, <1>4, SentMore
<1>6. Predicted(channel, s2, toClient, room, info, subject, mode, fresh)
  BY <1>1, <1>2, <1>3, <1>4, Asked DEF Foretold
<1>7. toRoom' = s2
  BY <1>1, <1>4
<1>8. Foretold'
  BY <1>1, <1>6, <1>7 DEF Foretold
<1>9. Typed' /\ People(room)' /\ NothingAfterDestroy(toRoom)' /\ LeftLast'
  <2>1. Typed'
    BY <1>1, <1>5, <1>7 DEF IInv, Typed
  <2>2. People(room)'
    BY <1>1 DEF IInv
  <2>3. NothingAfterDestroy(toRoom)'
    BY <1>5, <1>7
  <2>4. LeftLast'
    BY <1>5, <1>7 DEF LeftLast
  <2> QED BY <2>1, <2>2, <2>3, <2>4
<1> QED BY <1>8, <1>9 DEF IInv

(* The user, who is outside with nothing in flight, asks to enter. *)
Joins ==
  /\ toRoom = <<>> /\ toClient = <<>> /\ ~channel.exists /\ room[Me] = NULL
  /\ channel' = NewChannel(FirstNick) /\ sent' = <<Enter(FirstNick)>> /\ Sends
  /\ Untouched

(* A channel that waits. *)
LEMMA IInvJoins == IInv /\ Joins => IInv'
<1> SUFFICES ASSUME IInv, Joins PROVE IInv'
  OBVIOUS
<1>1. /\ toRoom = <<>> /\ toClient = <<>> /\ ~channel.exists
      /\ channel' = NewChannel(FirstNick) /\ sent' = <<Enter(FirstNick)>>
      /\ toRoom' = toRoom \o sent'
      /\ room' = room /\ info' = info /\ subject' = subject /\ mode' = mode /\ fresh' = fresh
      /\ toClient' = toClient
  BY UntouchedIs DEF Joins, Sends
<1>3. room[Me] = NULL
  BY DEF Joins
<1>4. PICK n, x, s2, q : n = FirstNick /\ x = Enter(n) /\ s2 = <<x>> /\ q = <<>>
  OBVIOUS
<1>5. toRoom' = s2 /\ toClient' = q /\ n \in Nick
  BY <1>1, <1>4, NickAssumption
<1>6. /\ Predicted(NewChannel(n), s2, q, room, info, subject, mode, fresh)
      /\ s2 \in Seq(Stanza) /\ NothingAfterDestroy(s2) /\ None(s2, "leave")
  BY <1>3, <1>4, <1>5, PredictedEntering
<1>7. Foretold'
  BY <1>1, <1>4, <1>5, <1>6 DEF Foretold
<1>8. Typed'
  BY <1>1, <1>5, <1>6 DEF IInv, Typed
<1>9. People(room)' /\ NothingAfterDestroy(toRoom)' /\ LeftLast'
  BY <1>1, <1>5, <1>6 DEF IInv, LeftLast
<1> QED BY <1>7, <1>8, <1>9 DEF IInv

(* /JOIN. *)
LEMMA IInvJoin == IInv /\ Join => IInv'
<1> SUFFICES ASSUME IInv, Join PROVE IInv'
  OBVIOUS
<1>1. /\ toRoom = <<>> /\ toClient = <<>> /\ ~channel.exists
      /\ channel' = NewChannel(FirstNick) /\ sent' = <<Enter(FirstNick)>> /\ Sends
  BY DEF Join, User, muc_join, Quiet
<1>2. Untouched
  BY DEF Join, User, about, Untouched
<1>3. Foretold
  BY <1>1 DEF IInv, Invited
<1>4. room[Me] = NULL
  BY <1>1, <1>3, AtRest DEF Foretold
<1>5. Joins
  BY <1>1, <1>2, <1>4 DEF Joins
<1> QED BY <1>5, IInvJoins

(* /PART: no channel, and a departure on its way. *)
LEMMA IInvPart == IInv /\ Part => IInv'
<1> SUFFICES ASSUME IInv, Part PROVE IInv'
  OBVIOUS
<1>1. /\ channel.exists /\ channel' = NoChannel /\ sent' = <<Leave(channel.nick)>>
      /\ toRoom' = toRoom \o sent'
      /\ room' = room /\ info' = info /\ subject' = subject /\ mode' = mode /\ fresh' = fresh
      /\ toClient' = toClient
  BY DEF Part, User, muc_part, Sends, about
<1>2. Foretold
  BY <1>1 DEF IInv, Invited
<1>3. channel.nick \in Nick
  BY <1>2, WayIs DEF Foretold, Predicted
<1>4. PICK x, s2 : x = Leave(channel.nick) /\ s2 = toRoom \o <<x>>
  OBVIOUS
<1>5. toRoom' = s2 /\ x \in Stanza /\ x.kind = "leave"
  BY <1>1, <1>3, <1>4, PresenceStanzas
<1>6. toRoom \in Seq(Stanza) /\ NothingAfterDestroy(toRoom)
  BY DEF IInv, Typed
<1>7. Predicted(NoChannel, s2, toClient, room, info, subject, mode, fresh)
  BY <1>2, <1>4, <1>5, <1>6, PredictedParting DEF Foretold
<1>8. s2 \in Seq(Stanza) /\ NothingAfterDestroy(s2)
  BY <1>4, <1>5, <1>6, SentMore
<1>9. Foretold'
  BY <1>1, <1>5, <1>7 DEF Foretold
<1>10. Typed'
  BY <1>1, <1>5, <1>8 DEF IInv, Typed
<1>11. People(room)' /\ NothingAfterDestroy(toRoom)' /\ LeftLast'
  BY <1>1, <1>5, <1>8, NoChannelState DEF IInv, LeftLast
<1> QED BY <1>9, <1>10, <1>11 DEF IInv

(* /NICK sends a request. *)
LEMMA IInvNick == IInv /\ NickCmd => IInv'
<1> SUFFICES ASSUME IInv, channel.joined, ~Ending, NEW n \in Nick, User(muc_nick(n)) PROVE IInv'
  BY DEF NickCmd
<1>1. PICK x : x = Enter(n)
  OBVIOUS
<1>2. x \in Stanza /\ x.kind = "enter"
  BY <1>1, PresenceStanzas
<1>3. Posts(x)
  BY <1>1, <1>2 DEF User, muc_nick, Sends, about, Posts, Untouched
<1> QED BY <1>2, <1>3, IInvPosts

(* A change of presence sends an update. *)
LEMMA IInvAway == IInv /\ Away => IInv'
<1> SUFFICES ASSUME IInv, Away PROVE IInv'
  OBVIOUS
<1>1. PICK x : x = Update(channel.nick)
  OBVIOUS
<1>2. channel.exists
  BY DEF Away, User, sig_set_presence
<1>3. channel.nick \in Nick
  BY <1>2, WayIs DEF IInv, Invited, Foretold, Predicted
<1>4. x \in Stanza /\ x.kind = "update"
  BY <1>1, <1>3, PresenceStanzas
<1>5. Posts(x)
  BY <1>1, <1>4 DEF Away, User, sig_set_presence, Sends, about, Posts, Untouched
<1> QED BY <1>4, <1>5, IInvPosts

(* The requests of the user are stanzas. *)
LEMMA AskStanzas ==
  /\ Say \in Stanza /\ Say.kind = "say"
  /\ \A t \in Topic \cup {NULL} : Subject(t) \in Stanza /\ Subject(t).kind = "subject" /\ Subject(t).topic = t
  /\ \A m \in Mode : Configure(m) \in Stanza /\ Configure(m).kind = "configure" /\ Configure(m).mode = m
  /\ \A n \in Nick, rank \in Rank : Role(n, rank) \in Stanza /\ Role(n, rank).kind = "role"
  /\ \A j \in Jid, rank \in Rank :
       Affiliation(j, rank) \in Stanza /\ Affiliation(j, rank).kind = "affiliation"
  /\ List \in Stanza /\ List.kind = "list"
  /\ Destroy \in Stanza /\ Destroy.kind = "destroy"
<1>1. Say \in Stanza /\ Say.kind = "say"
  BY DEF Say, Stanza
<1>2. \A t \in Topic \cup {NULL} : Subject(t) \in Stanza /\ Subject(t).kind = "subject" /\ Subject(t).topic = t
  BY DEF Subject, Stanza
<1>3. \A m \in Mode : Configure(m) \in Stanza /\ Configure(m).kind = "configure" /\ Configure(m).mode = m
  BY DEF Configure, Stanza
<1>4. \A n \in Nick, rank \in Rank : Role(n, rank) \in Stanza /\ Role(n, rank).kind = "role"
  BY DEF Role, Stanza
<1>5. \A j \in Jid, rank \in Rank :
        Affiliation(j, rank) \in Stanza /\ Affiliation(j, rank).kind = "affiliation"
  BY DEF Affiliation, Stanza
<1>6. List \in Stanza /\ List.kind = "list" /\ Destroy \in Stanza /\ Destroy.kind = "destroy"
  BY DEF List, Destroy, Stanza
<1> QED BY <1>1, <1>2, <1>3, <1>4, <1>5, <1>6

(* The commands that leave the stay alone send one stanza. *)
LEMMA IInvRequests == IInv /\ Requests => IInv'
<1> SUFFICES ASSUME IInv, Requests PROVE IInv'
  OBVIOUS
<1>1. ASSUME NEW x \in Stanza, Request(Ask(x)), x.kind \notin {"enter", "update", "leave"}
      PROVE  IInv'
  <2>1. Posts(x) /\ channel.joined
    BY <1>1 DEF Request, Ask, Sends, about, Posts, Untouched
  <2> QED BY <1>1, <2>1, IInvPosts
<1>2. CASE Request(send_message)
  <2>1. Request(Ask(Say))
    BY <1>2 DEF send_message, Request
  <2> QED BY <1>1, <2>1, AskStanzas
<1>3. ASSUME NEW t \in Topic \cup {NULL}, Request(cmd_topic(t)) PROVE IInv'
  <2>1. Request(Ask(Subject(t)))
    BY <1>3 DEF cmd_topic, Request
  <2> QED BY <1>1, <2>1, AskStanzas
<1>4. CASE Request(disco_request)
  <2>1. Request(Ask(Features))
    BY <1>4 DEF disco_request, Request
  <2> QED BY <1>1, <2>1, FeaturesStanza
<1>5. ASSUME NEW m \in Mode, Request(muc_set_mode(m)) PROVE IInv'
  <2>1. Request(Ask(Configure(m)))
    BY <1>5 DEF muc_set_mode, Request
  <2> QED BY <1>1, <2>1, AskStanzas
<1>6. ASSUME NEW n \in DOMAIN channel.nicks, NEW rank \in Rank \ {"outcast"}, Request(muc_set_role(n, rank))
      PROVE  IInv'
  <2>1. Request(Ask(Role(n, rank))) /\ channel.exists
    BY <1>6 DEF muc_set_role, Request, Ask
  <2>2. Sound(channel)
    BY <2>1, WayIs DEF IInv, Invited, Foretold, Predicted
  <2>3. n \in Nick
    BY <2>2 DEF Sound, Good, Table
  <2> QED BY <1>1, <2>1, <2>3, AskStanzas
<1>7. ASSUME NEW j \in Jid, NEW rank \in Rank \ {"none"}, Request(muc_set_affiliation(j, rank))
      PROVE  IInv'
  <2>1. Request(Ask(Affiliation(j, rank)))
    BY <1>7 DEF muc_set_affiliation, Request
  <2> QED BY <1>1, <2>1, AskStanzas
<1>8. CASE Request(muc_get_affiliation)
  <2>1. Request(Ask(List))
    BY <1>8 DEF muc_get_affiliation, Request
  <2> QED BY <1>1, <2>1, AskStanzas
<1>9. CASE Request(muc_destroy)
  <2>1. Request(Ask(Destroy))
    BY <1>9 DEF muc_destroy, Request
  <2> QED BY <1>1, <2>1, AskStanzas
<1> QED BY <1>2, <1>3, <1>4, <1>5, <1>6, <1>7, <1>8, <1>9 DEF Requests

-----------------------------------------------------------------------------
(* A stanza is delivered, or all of them are lost. *)

(* A stanza that comes when there is no channel is dropped. *)
LEMMA DeliveredToNobody ==
  ASSUME NEW c, NEW s, NEW q, NEW r, NEW i, NEW theme, NEW m, NEW f,
         Predicted(c, s, q, r, i, theme, m, f), ~c.exists, q # <<>>, NEW q2, q2 = Tail(q)
  PROVE  Predicted(c, s, q2, r, i, theme, m, f) /\ Head(q) \in Told
<1>1. PICK out, d :
        /\ Way(c, s, q, r, out, d)
        /\ InRoom(c, s, r, i, theme, m, f, d) \/ Waiting(c, s, q, r, d) \/ Gone(c, s, r, d)
  BY DEF Predicted
<1>2. State(c) /\ ~d.exists
  BY <1>1, WayIs
<1>3. Gone(c, s, r, d)
  BY <1>1, <1>2, WaitingIs DEF InRoom, Shows
<1>4. q \in Seq(Told)
  BY <1>1 DEF Way
<1>5. q2 \in Seq(Told) /\ Head(q) \in Told
  BY <1>4, HeadTailProperties
<1>6. PICK no \in BOOLEAN : ~no
  OBVIOUS
<1>7. Leads(c, q2, no, c)
  BY <1>2, <1>5, LeadsStill
<1>8. Way(c, s, q2, r, no, c)
  BY <1>5, <1>6, <1>7 DEF Way
<1>9. Gone(c, s, r, c)
  BY <1>3 DEF Gone
<1> QED BY <1>5, <1>8, <1>9 DEF Predicted

(* A stanza is handled: the first step of the way is made. *)
LEMMA IInvDeliver == IInv /\ Deliver => IInv'
<1> SUFFICES ASSUME IInv, Deliver PROVE IInv'
  OBVIOUS
<1>1. /\ toClient # <<>> /\ toClient' = Tail(toClient) /\ toRoom' = toRoom \o sent'
      /\ room' = room /\ info' = info /\ subject' = subject /\ mode' = mode /\ fresh' = fresh
  BY DEF Deliver, Sends, about
<1>2. toRoom \in Seq(Stanza) /\ NothingAfterDestroy(toRoom)
  BY DEF IInv, Typed
<1>3. CASE channel.exists
  <2>1. Foretold /\ None(toRoom, "leave")
    BY <1>3 DEF IInv, Invited, LeftLast
  <2>2. PICK x : x = Head(toClient)
    OBVIOUS
  <2>3. State(channel) /\ toClient \in Seq(Told)
    BY <2>1, WayIs DEF Foretold, Predicted, Way
  <2>4. x \in Told
    BY <1>1, <2>2, <2>3, HeadTailProperties
  <2>5. Receive(x)
    BY <1>3, <2>2 DEF Deliver
  <2>6. channel' = Handled(channel, x) /\ Replied(channel, x, channel', sent')
    BY <1>3, <2>3, <2>4, <2>5, ReceiveIs
  <2>7. PICK e, w, q2, s2 : e = channel' /\ w = sent' /\ q2 = Tail(toClient) /\ s2 = toRoom \o w
    OBVIOUS
  <2>8. Predicted(e, s2, q2, room, info, subject, mode, fresh) /\ Sendable(toRoom, e, s2)
    <3>1. Handles(channel, toRoom, toClient, x, e, s2, q2)
      BY <1>1, <1>3, <2>2, <2>6, <2>7 DEF Handles
    <3>2. Predicted(channel, toRoom, toClient, room, info, subject, mode, fresh)
      BY <2>1 DEF Foretold
    <3> QED BY <1>2, <3>1, <3>2, Delivered
  <2>9. toRoom' = s2 /\ toClient' = q2
    BY <1>1, <2>7
  <2>10. Foretold'
    BY <1>1, <2>7, <2>8, <2>9 DEF Foretold
  <2>11. Typed'
    BY <1>1, <2>8, <2>9 DEF IInv, Typed, Sendable
  <2>12. People(room)' /\ NothingAfterDestroy(toRoom)' /\ LeftLast'
    BY <1>1, <1>2, <2>1, <2>7, <2>8, <2>9 DEF IInv, LeftLast, Sendable
  <2> QED BY <2>10, <2>11, <2>12 DEF IInv
<1>4. CASE ~channel.exists /\ Invited
  <2>1. Head(toClient) = Invitation /\ Tail(toClient) = <<>> /\ toRoom = <<>> /\ room[Me] = NULL
    BY <1>4 DEF Invited
  <2>2. invite
    BY <1>4, <2>1 DEF Deliver, Invitation
  <2>3. channel' = NewChannel(FirstNick) /\ sent' = <<Enter(FirstNick)>>
    BY <2>2 DEF invite, muc_join
  <2>4. PICK n, x, s2, q : n = FirstNick /\ x = Enter(n) /\ s2 = <<x>> /\ q = <<>>
    OBVIOUS
  <2>5. toRoom' = s2 /\ toClient' = q /\ n \in Nick
    BY <1>1, <2>1, <2>3, <2>4, NickAssumption
  <2>6. /\ Predicted(NewChannel(n), s2, q, room, info, subject, mode, fresh)
        /\ s2 \in Seq(Stanza) /\ NothingAfterDestroy(s2) /\ None(s2, "leave")
    BY <2>1, <2>4, <2>5, PredictedEntering
  <2>7. Foretold'
    BY <1>1, <2>3, <2>4, <2>5, <2>6 DEF Foretold
  <2>8. Typed'
    BY <1>1, <2>5, <2>6 DEF IInv, Typed
  <2>9. People(room)' /\ NothingAfterDestroy(toRoom)' /\ LeftLast'
    BY <1>1, <2>5, <2>6 DEF IInv, LeftLast
  <2> QED BY <2>7, <2>8, <2>9 DEF IInv
<1>5. CASE ~channel.exists /\ Foretold
  <2>1. PICK q2 : q2 = Tail(toClient)
    OBVIOUS
  <2>2. /\ Predicted(channel, toRoom, q2, room, info, subject, mode, fresh)
        /\ Head(toClient) \in Told
    BY <1>1, <1>5, <2>1, DeliveredToNobody DEF Foretold
  <2>3. Head(toClient).type # "invitation"
    <3>1. PICK w : w = Head(toClient)
      OBVIOUS
    <3>2. w \in Told
      BY <2>2, <3>1
    <3>3. w.type # "invitation"
      BY <3>2, ToldIs
    <3> QED BY <3>1, <3>3
  <2>4. channel' = channel /\ sent' = <<>>
    BY <1>5, <2>3 DEF Deliver
  <2>5. toRoom' = toRoom
    BY <1>1, <1>2, <2>4
  <2>6. Foretold'
    BY <1>1, <2>1, <2>2, <2>4, <2>5 DEF Foretold
  <2>7. Typed'
    BY <1>1, <2>5 DEF IInv, Typed
  <2>8. People(room)' /\ NothingAfterDestroy(toRoom)' /\ LeftLast'
    BY <1>1, <2>4, <2>5 DEF IInv, LeftLast
  <2> QED BY <2>6, <2>7, <2>8 DEF IInv
<1> QED BY <1>3, <1>4, <1>5 DEF IInv

(* The stream breaks, and everybody starts anew. *)
LEMMA IInvLost == IInv /\ Lost => IInv'
<1> SUFFICES ASSUME IInv, Lost PROVE IInv'
  OBVIOUS
<1>1. /\ channel' = NoChannel /\ toRoom' = <<>> /\ toClient' = <<>>
      /\ room' = [room EXCEPT ![Me] = NULL]
      /\ info' = info /\ subject' = subject /\ mode' = mode /\ fresh' = fresh
  BY DEF Lost, LinkLost, about
<1>2. PICK r2 : r2 = [room EXCEPT ![Me] = NULL]
  OBVIOUS
<1>3. People(r2) /\ r2[Me] = NULL
  <2>1. Moved(room, Me, NULL, r2) /\ Me \in Person /\ People(room)
    BY <1>2 DEF Moved, Person, IInv
  <2> QED BY <2>1, PeopleOut
<1>4. PICK s, q : s = <<>> /\ q = <<>>
  OBVIOUS
<1>5. Predicted(NoChannel, s, q, r2, info, subject, mode, fresh)
  BY <1>3, <1>4, PredictedOut
<1>6. s \in Seq(Stanza) /\ NothingAfterDestroy(s)
  BY <1>4, NothingSent
<1>7. Foretold'
  BY <1>1, <1>2, <1>4, <1>5 DEF Foretold
<1>8. Typed'
  BY <1>1, <1>4, <1>6 DEF IInv, Typed
<1>9. People(room)' /\ NothingAfterDestroy(toRoom)' /\ LeftLast'
  BY <1>1, <1>2, <1>3, <1>4, <1>6, NoChannelState DEF LeftLast
<1> QED BY <1>7, <1>8, <1>9 DEF IInv

(* A step that changes nothing of this. *)
LEMMA IInvStill ==
  ASSUME IInv, UNCHANGED channel, UNCHANGED toRoom, UNCHANGED toClient, UNCHANGED room,
         UNCHANGED info, UNCHANGED subject, UNCHANGED mode, UNCHANGED fresh
  PROVE  IInv'
<1>1. Typed' /\ LeftLast'
  BY DEF IInv, Typed, LeftLast
<1>2. People(room)' /\ NothingAfterDestroy(toRoom)'
  BY DEF IInv
<1>3. (Invited \/ Foretold)'
  BY DEF IInv, Invited, Foretold
<1> QED BY <1>1, <1>2, <1>3 DEF IInv

(* Without session nothing is in flight and the user is outside, which is     *)
(* what a new session that begins with a join finds.                          *)
Offline == ~connected => toRoom = <<>> /\ toClient = <<>> /\ ~channel.exists /\ room[Me] = NULL

(* A new session, with a join or without. *)
LEMMA IInvConnected == IInv /\ Offline /\ Connected => IInv'
<1> SUFFICES ASSUME IInv, Offline, Connected PROVE IInv'
  OBVIOUS
<1>1. /\ toRoom = <<>> /\ toClient = <<>> /\ ~channel.exists /\ room[Me] = NULL
  BY DEF Offline, Connected, sig_connected
<1>2. Untouched /\ Sends
  BY DEF Connected, about, Untouched
<1>3. CASE channel' = channel /\ sent' = <<>>
  <2>1. toRoom' = toRoom
    BY <1>1, <1>2, <1>3 DEF Sends
  <2> QED BY <1>2, <1>3, <2>1, IInvStill DEF Untouched
<1>4. CASE channel' = NewChannel(FirstNick) /\ sent' = <<Enter(FirstNick)>>
  <2>1. Joins
    BY <1>1, <1>2, <1>4 DEF Joins
  <2> QED BY <2>1, IInvJoins
<1> QED BY <1>3, <1>4 DEF Connected, sig_connected

-----------------------------------------------------------------------------
(* The room handles the stanzas of the client.  The client c, what is in      *)
(* flight and the room agree: the invariant, of somebody who is not invited.  *)
Sent(c, s) ==
  s \in Seq(Stanza) /\ NothingAfterDestroy(s) /\ (c.exists => None(s, "leave"))

Fits(r, i, theme, m, f) ==
  /\ People(r) /\ i \in [Person -> Info]
  /\ theme \in Topic \cup {NULL} /\ m \in Mode /\ f \in BOOLEAN

Agree(c, s, q, r, i, theme, m, f) ==
  /\ Predicted(c, s, q, r, i, theme, m, f)
  /\ Sent(c, s) /\ Fits(r, i, theme, m, f)

(* Agree is the invariant, of somebody who is not invited. *)
LEMMA AgreeIs == IInv /\ Foretold => Agree(channel, toRoom, toClient, room, info, subject, mode, fresh)
<1> SUFFICES ASSUME IInv, Foretold PROVE Agree(channel, toRoom, toClient, room, info, subject, mode, fresh)
  OBVIOUS
<1>1. Predicted(channel, toRoom, toClient, room, info, subject, mode, fresh)
  BY DEF Foretold
<1>2. Sent(channel, toRoom)
  BY DEF IInv, Typed, LeftLast, Sent
<1>3. Fits(room, info, subject, mode, fresh)
  BY DEF IInv, Typed, Fits
<1> QED BY <1>1, <1>2, <1>3 DEF Agree

(* A step of the room ends with these in flight and this in the room. *)
Becomes(s, q, r, i, theme, m, f) ==
  /\ channel' = channel /\ toRoom' = s /\ toClient' = q
  /\ room' = r /\ info' = i /\ subject' = theme /\ mode' = m /\ fresh' = f

(* A step of the room that ends in agreement keeps the invariant. *)
LEMMA IInvBecomes ==
  ASSUME NEW s, NEW q, NEW r, NEW i, NEW theme, NEW m, NEW f,
         Becomes(s, q, r, i, theme, m, f), Agree(channel, s, q, r, i, theme, m, f)
  PROVE  IInv'
<1>1. Foretold'
  BY DEF Becomes, Agree, Foretold
<1>2. Typed'
  BY DEF Becomes, Agree, Sent, Fits, Typed
<1>3. (People(room) /\ NothingAfterDestroy(toRoom) /\ LeftLast)'
  BY DEF Becomes, Agree, Sent, Fits, LeftLast
<1> QED BY <1>1, <1>2, <1>3 DEF IInv

(* What the first stanza to the room may be. *)
LEMMA FirstIs ==
  ASSUME NEW c, NEW s, Sent(c, s), NEW x, NEW s2, First(s, x, s2)
  PROVE  /\ Sent(c, s2) /\ x \in Stanza
         /\ c.exists => x.kind # "leave"
         /\ x.kind = "destroy" => None(s2, "enter")
BY SentLess DEF Sent, First

(* The fields of a stanza of the client. *)
LEMMA StanzaIs ==
  ASSUME NEW x \in Stanza
  PROVE  /\ x.kind \in {"enter", "update", "leave"} => x.nick \in Nick
         /\ x.kind = "subject" => x.topic \in Topic \cup {NULL}
         /\ x.kind = "configure" => x.mode \in Mode
         /\ x.kind \in {"role", "affiliation"} => x.rank \in Rank
         /\ x.kind \in {"enter", "update", "leave", "subject", "configure", "role", "affiliation",
                        "say", "features", "form", "list", "invite", "destroy"}
BY DEF Stanza

(* One stanza that takes nothing from the prediction is handled. *)
LEMMA FirstAhead ==
  ASSUME NEW c, NEW s, Sent(c, s), NEW x, NEW s2, First(s, x, s2), NEW r,
         x.kind # "leave", x.kind # "features", x.kind = "enter" => r[Me] # NULL
  PROVE  Ahead(s, s2, r) /\ (x.kind # "enter" /\ x.kind # "update" => Aside(s))
BY AheadOne DEF Sent, First

(* The stanzas more are told to a user who is in the room, or to any. *)
Hears(q, more, q2, r, s) ==
  \/ q2 = q /\ r[Me] = NULL
  \/ q2 = q \o more /\ (r[Me] # NULL \/ Aside(s))

(* A step of the room that its stanzas tell. *)
LEMMA AgreeTurns ==
  ASSUME NEW c, NEW s, NEW q, NEW r, NEW i, NEW theme, NEW m, NEW f,
         Agree(c, s, q, r, i, theme, m, f),
         NEW s2, Sent(c, s2), Ahead(s, s2, r),
         NEW more, NEW r2, NEW i2, NEW theme2, NEW m2, NEW f2,
         Turns(more, r, i, theme, m, f, r2, i2, theme2, m2, f2), Fits(r2, i2, theme2, m2, f2),
         NEW q2, Hears(q, more, q2, r, s)
  PROVE  Agree(c, s2, q2, r2, i2, theme2, m2, f2)
<1>1. Predicted(c, s, q, r, i, theme, m, f)
  BY DEF Agree
<1>2. Predicted(c, s2, q2, r2, i2, theme2, m2, f2)
  BY <1>1, Acts DEF Hears
<1> QED BY <1>2 DEF Agree

(* A stanza that is printed and changes nothing. *)
LEMMA AgreePrinted ==
  ASSUME NEW c, NEW s, NEW q, NEW r, NEW i, NEW theme, NEW m, NEW f,
         Agree(c, s, q, r, i, theme, m, f), NEW s2, Sent(c, s2), Ahead(s, s2, r),
         NEW w \in Told, w.type \in {"message", "answer", "error"},
         w.type = "message" => (w.nick = r[Me] <=> w.by = Me),
         NEW m2 \in Mode, NEW f2 \in BOOLEAN, f2 => f /\ m2 = m,
         NEW more, more = <<w>>, NEW q2, Hears(q, more, q2, r, s)
  PROVE  Agree(c, s2, q2, r, i, theme, m2, f2)
<1>1. Turns(more, r, i, theme, m, f, r, i, theme, m2, f2)
  BY TurnsPrinted
<1>2. Fits(r, i, theme, m2, f2)
  BY DEF Agree, Fits
<1> QED BY <1>1, <1>2, AgreeTurns

(* A presence of somebody inside. *)
LEMMA AgreePresence ==
  ASSUME NEW c, NEW s, NEW q, NEW r, NEW i, NEW theme, NEW m, NEW f,
         Agree(c, s, q, r, i, theme, m, f), NEW s2, Sent(c, s2), Ahead(s, s2, r),
         NEW p \in Occupants(r), NEW x \in Info, NEW i2, Moved(i, p, x, i2),
         NEW w, w = OwnPresence(r[p], x) \/ w = Presence(r[p], x),
         NEW more, more = <<w>>, NEW q2, Hears(q, more, q2, r, s)
  PROVE  Agree(c, s2, q2, r, i2, theme, m, f)
<1>1. People(r) /\ i \in [Person -> Info] /\ p \in Person
  BY DEF Agree, Fits, Occupants
<1>2. Turns(more, r, i, theme, m, f, r, i2, theme, m, f)
  BY <1>1, TurnsPresence
<1>3. i2 \in [Person -> Info]
  BY <1>1 DEF Moved
<1>4. Fits(r, i2, theme, m, f)
  BY <1>3 DEF Agree, Fits
<1> QED BY <1>2, <1>4, AgreeTurns

(* A new nick of somebody inside. *)
LEMMA AgreeRenames ==
  ASSUME NEW c, NEW s, NEW q, NEW r, NEW i, NEW theme, NEW m, NEW f,
         Agree(c, s, q, r, i, theme, m, f), NEW s2, Sent(c, s2), Ahead(s, s2, r),
         NEW p \in Occupants(r), NEW n \in Nick, Untaken(r, n), NEW r2, Moved(r, p, n, r2),
         NEW w, w = Changed(r[p], n), NEW z, z = OwnPresence(n, i[p]) \/ z = Presence(n, i[p]),
         NEW more, more = <<w, z>>, NEW q2, Hears(q, more, q2, r, s)
  PROVE  Agree(c, s2, q2, r2, i, theme, m, f)
<1>1. People(r) /\ i \in [Person -> Info] /\ p \in Person
  BY DEF Agree, Fits, Occupants
<1>2. Turns(more, r, i, theme, m, f, r2, i, theme, m, f)
  BY <1>1, TurnsRenames
<1>3. People(r2)
  BY <1>1, PeopleIn
<1>4. Fits(r2, i, theme, m, f)
  BY <1>3 DEF Agree, Fits
<1> QED BY <1>2, <1>4, AgreeTurns

(* Somebody else enters. *)
LEMMA AgreeEnters ==
  ASSUME NEW c, NEW s, NEW q, NEW r, NEW i, NEW theme, NEW m, NEW f,
         Agree(c, s, q, r, i, theme, m, f), NEW s2, Sent(c, s2), Ahead(s, s2, r),
         NEW p \in Other, r[p] = NULL, NEW n \in Nick, Untaken(r, n), NEW r2, Moved(r, p, n, r2),
         NEW w, w = Presence(n, i[p]), NEW more, more = <<w>>, NEW q2, Hears(q, more, q2, r, s)
  PROVE  Agree(c, s2, q2, r2, i, theme, m, f)
<1>1. People(r) /\ i \in [Person -> Info] /\ p \in Person
  BY DEF Agree, Fits, Person
<1>2. Turns(more, r, i, theme, m, f, r2, i, theme, m, f)
  BY <1>1, TurnsEnters
<1>3. People(r2)
  BY <1>1, PeopleIn
<1>4. Fits(r2, i, theme, m, f)
  BY <1>3 DEF Agree, Fits
<1> QED BY <1>2, <1>4, AgreeTurns

(* Somebody else leaves or is removed. *)
LEMMA AgreeLeaves ==
  ASSUME NEW c, NEW s, NEW q, NEW r, NEW i, NEW theme, NEW m, NEW f,
         Agree(c, s, q, r, i, theme, m, f), NEW s2, Sent(c, s2), Ahead(s, s2, r),
         NEW p \in Occupants(r), p # Me, NEW r2, Moved(r, p, NULL, r2),
         NEW code \in {NULL, 301, 307}, NEW w, w = Unavailable(r[p], code),
         NEW more, more = <<w>>, NEW q2, Hears(q, more, q2, r, s)
  PROVE  Agree(c, s2, q2, r2, i, theme, m, f)
<1>1. People(r) /\ i \in [Person -> Info] /\ p \in Person
  BY DEF Agree, Fits, Occupants
<1>2. Turns(more, r, i, theme, m, f, r2, i, theme, m, f)
  BY <1>1, TurnsLeaves
<1>3. People(r2)
  BY <1>1, PeopleOut
<1>4. Fits(r2, i, theme, m, f)
  BY <1>3 DEF Agree, Fits
<1> QED BY <1>2, <1>4, AgreeTurns

(* A new subject. *)
LEMMA AgreeSubject ==
  ASSUME NEW c, NEW s, NEW q, NEW r, NEW i, NEW theme, NEW m, NEW f,
         Agree(c, s, q, r, i, theme, m, f), NEW s2, Sent(c, s2), Ahead(s, s2, r),
         NEW t \in Topic \cup {NULL}, NEW w, w = SubjectIs(t),
         NEW more, more = <<w>>, NEW q2, Hears(q, more, q2, r, s)
  PROVE  Agree(c, s2, q2, r, i, t, m, f)
<1>1. Turns(more, r, i, theme, m, f, r, i, t, m, f)
  BY TurnsSubject
<1>2. Fits(r, i, t, m, f)
  BY DEF Agree, Fits
<1> QED BY <1>1, <1>2, AgreeTurns

(* What the room and the client agree on, and what is left to the room. *)
Acting(s2) ==
  /\ Agree(channel, toRoom, toClient, room, info, subject, mode, fresh)
  /\ Sent(channel, s2) /\ Ahead(toRoom, s2, room)
  /\ toRoom' = s2 /\ channel' = channel

Same == room' = room /\ info' = info /\ subject' = subject /\ mode' = mode /\ fresh' = fresh

(* Tell speaks to those who are inside. *)
LEMMA TellIs ==
  ASSUME NEW more, Tell(more), NEW s, NEW q2, q2 = toClient'
  PROVE  Hears(toClient, more, q2, room, s)
BY DEF Tell, Hears

(* Who is outside hears nothing. *)
LEMMA ActingUnheard ==
  ASSUME NEW s2, Acting(s2), room[Me] = NULL, toClient' = toClient, Same
  PROVE  IInv'
<1>1. PICK w, more, q2 : w = Answer /\ more = <<w>> /\ q2 = toClient
  OBVIOUS
<1>2. w \in Told /\ w.type = "answer"
  BY <1>1 DEF Answer, AnAnswer, Told
<1>3. Hears(toClient, more, q2, room, toRoom)
  BY <1>1 DEF Hears
<1>4. mode \in Mode /\ fresh \in BOOLEAN
  BY DEF Acting, Agree, Fits
<1>5. Agree(channel, toRoom, toClient, room, info, subject, mode, fresh)
      /\ Sent(channel, s2) /\ Ahead(toRoom, s2, room)
  BY DEF Acting
<1>6. Agree(channel, s2, q2, room, info, subject, mode, fresh)
  BY <1>1, <1>2, <1>3, <1>4, <1>5, AgreePrinted
<1>7. Becomes(s2, q2, room, info, subject, mode, fresh)
  BY <1>1 DEF Acting, Same, Becomes
<1> QED BY <1>6, <1>7, IInvBecomes

(* The room says something that is printed and changes nothing. *)
LEMMA ActingPrinted ==
  ASSUME NEW s2, Acting(s2), NEW w \in Told, w.type \in {"message", "answer", "error"},
         w.type = "message" => (w.nick = room[Me] <=> w.by = Me),
         NEW more, more = <<w>>, Hears(toClient, more, toClient', room, toRoom),
         room' = room, info' = info, subject' = subject,
         mode' \in Mode, fresh' \in BOOLEAN, fresh' => fresh /\ mode' = mode
  PROVE  IInv'
<1>1. PICK q2, m2, f2 : q2 = toClient' /\ m2 = mode' /\ f2 = fresh'
  OBVIOUS
<1>2. m2 \in Mode /\ f2 \in BOOLEAN /\ (f2 => fresh /\ m2 = mode) /\ Hears(toClient, more, q2, room, toRoom)
  BY <1>1
<1>3. Agree(channel, toRoom, toClient, room, info, subject, mode, fresh)
      /\ Sent(channel, s2) /\ Ahead(toRoom, s2, room)
  BY DEF Acting
<1>4. Agree(channel, s2, q2, room, info, subject, m2, f2)
  BY <1>2, <1>3, AgreePrinted
<1>5. Becomes(s2, q2, room, info, subject, m2, f2)
  BY <1>1 DEF Acting, Becomes
<1> QED BY <1>4, <1>5, IInvBecomes

(* The presence of somebody inside is told. *)
LEMMA ActingPresence ==
  ASSUME NEW s2, Acting(s2), NEW p \in Occupants(room), NEW x \in Info,
         NEW w, w = OwnPresence(room[p], x) \/ w = Presence(room[p], x),
         NEW more, more = <<w>>, Hears(toClient, more, toClient', room, toRoom),
         Moved(info, p, x, info'), room' = room, subject' = subject, mode' = mode, fresh' = fresh
  PROVE  IInv'
<1>1. PICK q2, i2 : q2 = toClient' /\ i2 = info'
  OBVIOUS
<1>2. Moved(info, p, x, i2) /\ Hears(toClient, more, q2, room, toRoom)
  BY <1>1
<1>3. Agree(channel, toRoom, toClient, room, info, subject, mode, fresh)
      /\ Sent(channel, s2) /\ Ahead(toRoom, s2, room)
  BY DEF Acting
<1>4. Agree(channel, s2, q2, room, i2, subject, mode, fresh)
  BY <1>2, <1>3, AgreePresence
<1>5. Becomes(s2, q2, room, i2, subject, mode, fresh)
  BY <1>1 DEF Acting, Becomes
<1> QED BY <1>4, <1>5, IInvBecomes

(* Somebody inside has a new nick. *)
LEMMA ActingRenames ==
  ASSUME NEW s2, Acting(s2), NEW p \in Occupants(room), NEW n \in Nick, Untaken(room, n),
         NEW w, w = Changed(room[p], n),
         NEW z, z = OwnPresence(n, info[p]) \/ z = Presence(n, info[p]),
         NEW more, more = <<w, z>>, Hears(toClient, more, toClient', room, toRoom),
         Moved(room, p, n, room'), info' = info, subject' = subject, mode' = mode, fresh' = fresh
  PROVE  IInv'
<1>1. PICK q2, r2 : q2 = toClient' /\ r2 = room'
  OBVIOUS
<1>2. Moved(room, p, n, r2) /\ Hears(toClient, more, q2, room, toRoom)
  BY <1>1
<1>3. Agree(channel, toRoom, toClient, room, info, subject, mode, fresh)
      /\ Sent(channel, s2) /\ Ahead(toRoom, s2, room)
  BY DEF Acting
<1>4. Agree(channel, s2, q2, r2, info, subject, mode, fresh)
  BY <1>2, <1>3, AgreeRenames
<1>5. Becomes(s2, q2, r2, info, subject, mode, fresh)
  BY <1>1 DEF Acting, Becomes
<1> QED BY <1>4, <1>5, IInvBecomes

(* Somebody else leaves or is removed. *)
LEMMA ActingLeaves ==
  ASSUME NEW s2, Acting(s2), NEW p \in Occupants(room), p # Me, NEW code \in {NULL, 301, 307},
         NEW w, w = Unavailable(room[p], code),
         NEW more, more = <<w>>, Hears(toClient, more, toClient', room, toRoom),
         Moved(room, p, NULL, room'), info' = info, subject' = subject, mode' = mode, fresh' = fresh
  PROVE  IInv'
<1>1. PICK q2, r2 : q2 = toClient' /\ r2 = room'
  OBVIOUS
<1>2. Moved(room, p, NULL, r2) /\ Hears(toClient, more, q2, room, toRoom)
  BY <1>1
<1>3. Agree(channel, toRoom, toClient, room, info, subject, mode, fresh)
      /\ Sent(channel, s2) /\ Ahead(toRoom, s2, room)
  BY DEF Acting
<1>4. Agree(channel, s2, q2, r2, info, subject, mode, fresh)
  BY <1>2, <1>3, AgreeLeaves
<1>5. Becomes(s2, q2, r2, info, subject, mode, fresh)
  BY <1>1 DEF Acting, Becomes
<1> QED BY <1>4, <1>5, IInvBecomes

(* Somebody inside is given another role or affiliation, or is out. *)
LEMMA ActingRanked ==
  ASSUME NEW s2, Acting(s2), NEW p \in Occupants(room), NEW rank, rank \in Info \/ p # Me,
         Ranked(p, rank), UNCHANGED about
  PROVE  IInv'
<1>1. PICK q2 : q2 = toClient'
  OBVIOUS
<1>2. CASE rank \in Info
  <2>1. PICK w, more : w = Available(room[p], rank, p = Me, FALSE) /\ more = <<w>>
    OBVIOUS
  <2>2. w = OwnPresence(room[p], rank) \/ w = Presence(room[p], rank)
    BY <2>1 DEF Available, OwnPresence, Presence
  <2>3. Tell(more) /\ room' = room
    BY <1>2, <2>1 DEF Ranked
  <2>4. Hears(toClient, more, q2, room, toRoom)
    BY <1>1, <2>3, TellIs
  <2>5. Hears(toClient, more, toClient', room, toRoom)
    BY <1>1, <2>4
  <2>6. Moved(info, p, rank, info')
    BY <1>2 DEF Ranked, Moved
  <2>7. subject' = subject /\ mode' = mode /\ fresh' = fresh
    BY DEF about
  <2> QED BY <1>2, <2>1, <2>2, <2>3, <2>5, <2>6, <2>7, ActingPresence
<1>3. CASE rank \notin Info
  <2>1. PICK code : code = IF rank = "none" THEN 307 ELSE 301
    OBVIOUS
  <2>2. PICK w, more : w = Unavailable(room[p], code) /\ more = <<w>>
    OBVIOUS
  <2>3. code \in {NULL, 301, 307}
    BY <2>1
  <2>4. Tell(more) /\ info' = info
    BY <1>3, <2>1, <2>2 DEF Ranked
  <2>5. Hears(toClient, more, q2, room, toRoom)
    BY <1>1, <2>4, TellIs
  <2>6. Hears(toClient, more, toClient', room, toRoom)
    BY <1>1, <2>5
  <2>7. Moved(room, p, NULL, room')
    BY <1>3 DEF Ranked, Moved
  <2>8. subject' = subject /\ mode' = mode /\ fresh' = fresh
    BY DEF about
  <2> QED BY <1>3, <2>2, <2>3, <2>4, <2>6, <2>7, <2>8, ActingLeaves
<1> QED BY <1>2, <1>3

(* Inside and Taken in the terms of the lemmas. *)
LEMMA InsideIs ==
  /\ Inside = Occupants(room)
  /\ room[Me] # NULL => Me \in Occupants(room)
  /\ \A n : ~Taken(n) => Untaken(room, n)
  /\ \A p : p \in Other /\ room[p] # NULL => p \in Occupants(room) /\ p # Me
BY PersonAssumption DEF Inside, Occupants, Taken, Untaken, Person

(* The user enters the room. *)
LEMMA IInvEnters ==
  ASSUME Agree(channel, toRoom, toClient, room, info, subject, mode, fresh),
         NEW x, NEW s2, First(toRoom, x, s2), x.kind = "enter", room[Me] = NULL, ~Taken(x.nick),
         Enters(x.nick, FALSE), toRoom' = s2, channel' = channel, subject' = subject, mode' = mode
  PROVE  IInv'
<1>1. PICK n, o, q1, w, q3, q2, r2, f2 :
        /\ n = x.nick /\ o = SetToSeq(Occupants(room)) /\ q1 = Introduced(room, info, o)
        /\ w = OwnPresence(n, info[Me]) /\ q3 = Theme(subject)
        /\ q2 = toClient' /\ r2 = room' /\ f2 = fresh'
  OBVIOUS
<1>2. /\ Predicted(channel, toRoom, toClient, room, info, subject, mode, fresh)
      /\ People(room) /\ toRoom \in Seq(Stanza)
      /\ info \in [Person -> Info] /\ subject \in Topic \cup {NULL} /\ mode \in Mode
  BY DEF Agree, Sent, Fits
<1>3. Sent(channel, s2) /\ n \in Nick
  BY <1>1, FirstIs, StanzaIs DEF Agree
<1>4. Inside \ {Me} = Occupants(room)
  BY InsideIs DEF Occupants
<1>5. q2 = ((toClient \o q1) \o <<w>>) \o q3
  BY <1>1, <1>4 DEF Enters, Introduced, OwnPresence, Theme
<1>6. f2 \in BOOLEAN /\ info' = info /\ Moved(room, Me, n, r2)
  BY <1>1 DEF Enters, Moved
<1>7. Untaken(room, n)
  BY <1>1, InsideIs
<1>8. toRoom # <<>> /\ x = Head(toRoom) /\ s2 = Tail(toRoom)
  BY DEF First
<1>9. Predicted(channel, s2, q2, r2, info, subject, mode, f2)
  BY <1>1, <1>2, <1>3, <1>5, <1>6, <1>7, <1>8, ActsAdmitted
<1>10. People(r2)
  BY <1>2, <1>3, <1>6, <1>7, PeopleIn DEF Person
<1>11. Fits(r2, info, subject, mode, f2)
  BY <1>2, <1>6, <1>10 DEF Fits
<1>12. Becomes(s2, q2, r2, info, subject, mode, f2)
  BY <1>1, <1>6 DEF Becomes
<1> QED BY <1>3, <1>9, <1>11, <1>12, IInvBecomes DEF Agree

(* The nick that the user asks for is taken. *)
LEMMA IInvRefused ==
  ASSUME Agree(channel, toRoom, toClient, room, info, subject, mode, fresh),
         NEW x, NEW s2, First(toRoom, x, s2), x.kind = "enter", room[Me] = NULL,
         Replies(<<Refused(x.nick)>>), toRoom' = s2, channel' = channel,
         subject' = subject, mode' = mode
  PROVE  IInv'
<1>1. PICK w, q2 : w = Refused(x.nick) /\ q2 = toClient'
  OBVIOUS
<1>2. /\ Predicted(channel, toRoom, toClient, room, info, subject, mode, fresh)
      /\ toRoom \in Seq(Stanza) /\ Fits(room, info, subject, mode, fresh)
  BY DEF Agree, Sent
<1>3. Sent(channel, s2) /\ x.nick \in Nick
  BY FirstIs, StanzaIs DEF Agree
<1>4. q2 = toClient \o <<w>> /\ room' = room /\ info' = info /\ fresh' = fresh
  BY <1>1 DEF Replies
<1>5. toRoom # <<>> /\ x = Head(toRoom) /\ s2 = Tail(toRoom)
  BY DEF First
<1>6. Predicted(channel, s2, q2, room, info, subject, mode, fresh)
  BY <1>1, <1>2, <1>3, <1>4, <1>5, ActsRefused
<1>7. Becomes(s2, q2, room, info, subject, mode, fresh)
  BY <1>1, <1>4 DEF Becomes
<1> QED BY <1>2, <1>3, <1>6, <1>7, IInvBecomes DEF Agree

(* The user, who is in the room, is answered. *)
LEMMA IInvAnswered ==
  ASSUME NEW s2, Acting(s2), room[Me] # NULL, NEW n \in Nick, Answers(n),
         subject' = subject, mode' = mode
  PROVE  IInv'
<1>1. Me \in Occupants(room) /\ info \in [Person -> Info] /\ Me \in Person
  BY InsideIs DEF Acting, Agree, Fits, Person
<1>2. CASE n = room[Me]
  <2>1. PICK w, more : w = OwnPresence(room[Me], info[Me]) /\ more = <<w>>
    OBVIOUS
  <2>2. toClient' = toClient \o more /\ room' = room /\ info' = info /\ fresh' = fresh
    BY <1>2, <2>1 DEF Answers, Replies, OwnPresence
  <2>3. Hears(toClient, more, toClient', room, toRoom)
    BY <2>2 DEF Hears
  <2>4. Moved(info, Me, info[Me], info') /\ info[Me] \in Info
    BY <1>1, <2>2 DEF Moved
  <2> QED BY <1>1, <2>1, <2>2, <2>3, <2>4, ActingPresence
<1>3. CASE n # room[Me] /\ Taken(n)
  <2>1. PICK w, more : w = Refused(n) /\ more = <<w>>
    OBVIOUS
  <2>2. toClient' = toClient \o more /\ room' = room /\ info' = info /\ fresh' = fresh
    BY <1>3, <2>1 DEF Answers, Replies
  <2>3. Hears(toClient, more, toClient', room, toRoom)
    BY <2>2 DEF Hears
  <2>4. w \in Told /\ w.type = "error"
    BY <2>1 DEF Refused, ANick, Told
  <2>5. mode \in Mode /\ fresh \in BOOLEAN
    BY DEF Acting, Agree, Fits
  <2> QED BY <2>1, <2>2, <2>3, <2>4, <2>5, ActingPrinted
<1>4. CASE n # room[Me] /\ ~Taken(n)
  <2>1. PICK w, z, more : w = Changed(room[Me], n) /\ z = OwnPresence(n, info[Me]) /\ more = <<w, z>>
    OBVIOUS
  <2>2. /\ toClient' = toClient \o more /\ room' = [room EXCEPT ![Me] = n]
        /\ info' = info /\ fresh' = fresh
    BY <1>4, <2>1 DEF Answers, OwnPresence
  <2>3. Hears(toClient, more, toClient', room, toRoom)
    BY <2>2 DEF Hears
  <2>4. Moved(room, Me, n, room') /\ Untaken(room, n)
    BY <1>4, <2>2, InsideIs DEF Moved
  <2> QED BY <1>1, <2>1, <2>2, <2>3, <2>4, ActingRenames
<1> QED BY <1>2, <1>3, <1>4

(* The room handles a presence of the user. *)
LEMMA IInvHandlesPresence ==
  ASSUME NickKept, Agree(channel, toRoom, toClient, room, info, subject, mode, fresh),
         NEW x, NEW s2, First(toRoom, x, s2), x.kind \in {"enter", "update", "leave"},
         HandlesPresence(x), toRoom' = s2, channel' = channel
  PROVE  IInv'
<1>1. /\ x.nick \in Nick /\ Sent(channel, s2) /\ (channel.exists => x.kind # "leave")
      /\ subject' = subject /\ mode' = mode
  BY FirstIs, StanzaIs DEF Agree, HandlesPresence
<1>2. ASSUME x.kind # "leave", x.kind = "enter" => room[Me] # NULL PROVE Acting(s2)
  BY <1>1, <1>2, StanzaIs, FirstAhead, FirstIs DEF Agree, Acting
<1>3. CASE x.kind = "enter" /\ Answers(x.nick)
  <2>1. CASE room[Me] # NULL
    BY <1>1, <1>2, <1>3, <2>1, IInvAnswered
  <2>2. CASE room[Me] = NULL /\ Taken(x.nick)
    <3>1. Replies(<<Refused(x.nick)>>)
      BY <1>3, <2>2 DEF Answers, NickKept
    <3> QED BY <1>1, <1>3, <2>2, <3>1, IInvRefused
  <2>3. CASE room[Me] = NULL /\ ~Taken(x.nick)
    <3>1. Enters(x.nick, FALSE)
      BY <1>3, <2>3 DEF Answers, NickKept
    <3> QED BY <1>1, <1>3, <2>3, <3>1, IInvEnters
  <2> QED BY <2>1, <2>2, <2>3
<1>4. CASE x.kind = "update" /\ room[Me] # NULL /\ Answers(x.nick)
  BY <1>1, <1>2, <1>4, IInvAnswered
<1>5. CASE /\ x.kind = "update" /\ (room[Me] = NULL \/ x.nick = room[Me])
           /\ Tell(<<Available(x.nick, info[Me], TRUE, FALSE)>>)
           /\ UNCHANGED <<room, info, fresh>>
  <2>1. Acting(s2) /\ room' = room /\ info' = info /\ fresh' = fresh
    BY <1>2, <1>5
  <2>2. CASE room[Me] = NULL
    <3>1. toClient' = toClient
      BY <1>5, <2>2 DEF Tell
    <3> QED BY <1>1, <2>1, <2>2, <3>1, ActingUnheard DEF Same
  <2>3. CASE room[Me] # NULL
    <3>1. Me \in Occupants(room) /\ info \in [Person -> Info] /\ Me \in Person
      BY <2>1, <2>3, InsideIs DEF Acting, Agree, Fits, Person
    <3>2. PICK w, more : w = OwnPresence(room[Me], info[Me]) /\ more = <<w>>
      OBVIOUS
    <3>3. toClient' = toClient \o more
      BY <1>5, <2>3, <3>2 DEF Tell, OwnPresence
    <3>4. Hears(toClient, more, toClient', room, toRoom)
      BY <2>3, <3>3 DEF Hears
    <3>5. Moved(info, Me, info[Me], info') /\ info[Me] \in Info
      BY <2>1, <3>1 DEF Moved
    <3> QED BY <1>1, <2>1, <3>1, <3>2, <3>4, <3>5, ActingPresence
  <2> QED BY <2>2, <2>3
<1>6. CASE /\ x.kind = "leave"
           /\ Tell(<<Unavailable(room[Me], NULL)>>)
           /\ room' = [room EXCEPT ![Me] = NULL]
           /\ UNCHANGED <<info, fresh>>
  <2>1. PICK w, more, q2, r2 :
          w = Unavailable(room[Me], NULL) /\ more = (IF room[Me] = NULL THEN <<>> ELSE <<w>>)
          /\ q2 = toClient' /\ r2 = room'
    OBVIOUS
  <2>2. /\ Predicted(channel, toRoom, toClient, room, info, subject, mode, fresh)
        /\ toRoom \in Seq(Stanza) /\ Fits(room, info, subject, mode, fresh) /\ People(room)
    BY DEF Agree, Sent, Fits
  <2>3. more \in Seq(Told)
    <3>1. room[Me] # NULL => w \in Told
      <4>1. room[Me] # NULL => room[Me] \in Nick
        BY <2>2 DEF People, Person
      <4> QED BY <2>1, <4>1 DEF Unavailable, ADeparture, Told
    <3> QED BY <2>1, <3>1
  <2>4. q2 = toClient \/ q2 = toClient \o more
    BY <1>6, <2>1 DEF Tell
  <2>5. Moved(room, Me, NULL, r2) /\ Me \in Person
    BY <1>6, <2>1 DEF Moved, Person
  <2>6. People(r2) /\ r2[Me] = NULL
    BY <2>2, <2>5, PeopleOut
  <2>7. toRoom # <<>> /\ x = Head(toRoom) /\ s2 = Tail(toRoom) /\ ~channel.exists
    BY <1>1, <1>6 DEF First
  <2>8. Predicted(channel, s2, q2, r2, info, subject, mode, fresh)
    BY <2>2, <2>3, <2>4, <2>6, <2>7, ActsLeft
  <2>9. Becomes(s2, q2, r2, info, subject, mode, fresh)
    BY <1>1, <1>6, <2>1 DEF Becomes
  <2>10. Fits(r2, info, subject, mode, fresh)
    BY <2>2, <2>6 DEF Fits
  <2> QED BY <1>1, <2>8, <2>9, <2>10, IInvBecomes DEF Agree
<1> QED BY <1>3, <1>4, <1>5, <1>6 DEF HandlesPresence

(* The user is out for good: removed, or the room is destroyed. *)
LEMMA IInvOut ==
  ASSUME NEW s2, Acting(s2), room[Me] # NULL, NEW out2 \in BOOLEAN, out2 => None(s2, "enter"),
         NEW w \in Told, w.type \in {"unavailable", "destroyed"}, w.nick = room[Me], Final(w, out2),
         toClient' = toClient \o <<w>>, People(room'), room'[Me] = NULL, info' = info,
         subject' \in Topic \cup {NULL}, mode' \in Mode, fresh' = fresh
  PROVE  IInv'
<1>1. PICK q2, r2, t2, m2 : q2 = toClient' /\ r2 = room' /\ t2 = subject' /\ m2 = mode'
  OBVIOUS
<1>2. /\ Predicted(channel, toRoom, toClient, room, info, subject, mode, fresh)
      /\ Ahead(toRoom, s2, room) /\ People(room) /\ Sent(channel, s2)
  BY DEF Acting, Agree, Fits
<1>3. q2 = toClient \o <<w>> /\ r2[Me] = NULL
  BY <1>1
<1>4. Predicted(channel, s2, q2, r2, info, t2, m2, fresh)
  BY <1>2, <1>3, ActsOut
<1>5. Fits(r2, info, t2, m2, fresh)
  BY <1>1 DEF Acting, Agree, Fits
<1>6. Becomes(s2, q2, r2, info, t2, m2, fresh)
  BY <1>1 DEF Acting, Becomes
<1> QED BY <1>2, <1>4, <1>5, <1>6, IInvBecomes DEF Agree

(* The room handles a message or a request of the user. *)
LEMMA IInvHandlesRequest ==
  ASSUME Agree(channel, toRoom, toClient, room, info, subject, mode, fresh),
         NEW x, NEW s2, First(toRoom, x, s2), x.kind \notin {"enter", "update", "leave"},
         HandlesRequest(x), toRoom' = s2, channel' = channel
  PROVE  IInv'
<1>1. x \in Stanza /\ Sent(channel, s2) /\ (x.kind = "destroy" => None(s2, "enter"))
  BY FirstIs DEF Agree
<1>2. ASSUME x.kind # "features" PROVE Acting(s2) /\ Aside(toRoom)
  BY <1>1, <1>2, FirstAhead DEF Agree, Acting
<1>3. CASE /\ x.kind = "features"
           /\ toClient' = Append(toClient, FeaturesAre(mode))
           /\ fresh' = TRUE
           /\ UNCHANGED <<room, info, subject, mode>>
  <2>1. PICK w, q2, f2 : w = FeaturesAre(mode) /\ q2 = toClient' /\ f2 = fresh'
    OBVIOUS
  <2>2. /\ Predicted(channel, toRoom, toClient, room, info, subject, mode, fresh)
        /\ toRoom \in Seq(Stanza) /\ Fits(room, info, subject, mode, fresh)
        /\ mode \in Mode /\ toClient \in Seq(Told)
    BY DEF Agree, Sent, Fits, Predicted, Way
  <2>3. q2 = toClient \o <<w>>
    <3>1. q2 = Append(toClient, w)
      BY <1>3, <2>1
    <3> QED BY <2>2, <3>1
  <2>4. toRoom # <<>> /\ x = Head(toRoom) /\ s2 = Tail(toRoom) /\ f2 \in BOOLEAN
    BY <1>3, <2>1 DEF First
  <2>5. Predicted(channel, s2, q2, room, info, subject, mode, f2)
    BY <1>3, <2>1, <2>2, <2>3, <2>4, ActsFeatures
  <2>6. Fits(room, info, subject, mode, f2)
    BY <2>2, <2>4 DEF Fits
  <2>7. Becomes(s2, q2, room, info, subject, mode, f2)
    BY <1>3, <2>1 DEF Becomes
  <2> QED BY <1>1, <2>5, <2>6, <2>7, IInvBecomes DEF Agree
<1>4. CASE x.kind # "features" /\ Replies(<<Answer>>) /\ UNCHANGED <<subject, mode>>
  <2>1. PICK w, more : w = Answer /\ more = <<w>>
    OBVIOUS
  <2>2. w \in Told /\ w.type = "answer"
    BY <2>1 DEF Answer, AnAnswer, Told
  <2>3. toClient' = toClient \o more /\ room' = room /\ info' = info /\ fresh' = fresh
    BY <1>4, <2>1 DEF Replies
  <2>4. Hears(toClient, more, toClient', room, toRoom)
    BY <1>2, <1>4, <2>3 DEF Hears
  <2>5. mode \in Mode /\ fresh \in BOOLEAN
    BY DEF Agree, Fits
  <2> QED BY <1>2, <1>4, <2>1, <2>2, <2>3, <2>4, <2>5, ActingPrinted
<1>5. CASE room[Me] # NULL /\ x.kind = "say" /\ Replies(<<Message(Me)>>) /\ UNCHANGED <<subject, mode>>
  <2>1. PICK w, more : w = Message(Me) /\ more = <<w>>
    OBVIOUS
  <2>2. w \in Told /\ w.type = "message" /\ w.nick = room[Me] /\ w.by = Me
    <3>1. People(room) /\ Me \in Person
      BY DEF Agree, Fits, Person
    <3>2. room[Me] \in Nick
      BY <1>5, <3>1 DEF People
    <3> QED BY <2>1, <3>1, <3>2 DEF Message, AMessage, Told
  <2>3. toClient' = toClient \o more /\ room' = room /\ info' = info /\ fresh' = fresh
    BY <1>5, <2>1 DEF Replies
  <2>4. Hears(toClient, more, toClient', room, toRoom)
    BY <1>5, <2>3 DEF Hears
  <2>5. mode \in Mode /\ fresh \in BOOLEAN
    BY DEF Agree, Fits
  <2> QED BY <1>2, <1>5, <2>1, <2>2, <2>3, <2>4, <2>5, ActingPrinted
<1>6. CASE /\ room[Me] # NULL /\ x.kind = "subject" /\ subject' = x.topic
           /\ Replies(<<SubjectIs(x.topic)>>) /\ UNCHANGED mode
  <2>1. PICK t, w, more, q2 : t = x.topic /\ w = SubjectIs(t) /\ more = <<w>> /\ q2 = toClient'
    OBVIOUS
  <2>2. q2 = toClient \o more /\ room' = room /\ info' = info /\ fresh' = fresh
    BY <1>6, <2>1 DEF Replies
  <2>3. Hears(toClient, more, q2, room, toRoom)
    BY <1>6, <2>2 DEF Hears
  <2>4. t \in Topic \cup {NULL}
    BY <1>1, <1>6, <2>1, StanzaIs
  <2>5. Agree(channel, s2, q2, room, info, t, mode, fresh)
    BY <1>1, <1>2, <1>6, <2>1, <2>3, <2>4, AgreeSubject DEF Acting
  <2>6. Becomes(s2, q2, room, info, t, mode, fresh)
    BY <1>6, <2>1, <2>2 DEF Becomes
  <2> QED BY <2>5, <2>6, IInvBecomes
<1>7. CASE /\ room[Me] # NULL /\ x.kind = "configure" /\ mode' = x.mode
           /\ fresh' = (fresh /\ x.mode = mode)
           /\ toClient' = Append(toClient, Answer)
           /\ UNCHANGED <<room, info, subject>>
  <2>1. PICK w, more : w = Answer /\ more = <<w>>
    OBVIOUS
  <2>2. w \in Told /\ w.type = "answer" /\ w.type # "message"
    BY <2>1 DEF Answer, AnAnswer, Told
  <2>3. toClient' = toClient \o more
    <3>1. toClient \in Seq(Told)
      BY DEF Agree, Predicted, Way
    <3>2. toClient' = Append(toClient, w)
      BY <1>7, <2>1
    <3> QED BY <2>1, <2>2, <3>1, <3>2
  <2>4. Hears(toClient, more, toClient', room, toRoom)
    BY <1>7, <2>3 DEF Hears
  <2>5. mode' \in Mode
    BY <1>1, <1>7, StanzaIs
  <2>6. fresh' \in BOOLEAN /\ (fresh' => fresh /\ mode' = mode)
    BY <1>7
  <2> QED BY <1>2, <1>7, <2>1, <2>2, <2>4, <2>5, <2>6, ActingPrinted
<1>8. CASE /\ room[Me] # NULL /\ x.kind \in {"role", "affiliation"}
           /\ \E p \in Other : /\ room[p] # NULL /\ Ranked(p, x.rank)
           /\ UNCHANGED about
  <2>1. PICK p \in Other : room[p] # NULL /\ Ranked(p, x.rank)
    BY <1>8
  <2> QED BY <1>2, <1>8, <2>1, InsideIs, ActingRanked
<1>9. CASE /\ room[Me] # NULL /\ x.kind = "destroy" /\ room' = [p \in Person |-> NULL]
           /\ toClient' = Append(toClient, Destroyed(room[Me]))
           /\ subject' = NULL /\ mode' = FirstMode /\ UNCHANGED <<info, fresh>>
  <2>1. PICK w : w = Destroyed(room[Me])
    OBVIOUS
  <2>10. PICK yes \in BOOLEAN : yes
    OBVIOUS
  <2>2. room[Me] \in Nick /\ toClient \in Seq(Told)
    BY <1>9 DEF Agree, Fits, People, Person, Predicted, Way
  <2>3. w \in Told /\ w.type = "destroyed" /\ w.nick = room[Me]
    BY <2>1, <2>2 DEF Destroyed, ANick, Told
  <2>4. toClient' = toClient \o <<w>>
    <3>1. toClient' = Append(toClient, w)
      BY <1>9, <2>1
    <3> QED BY <2>2, <2>3, <3>1
  <2>5. Final(w, yes)
    BY <2>3, <2>10 DEF Final
  <2>6. PICK r2 : r2 = room'
    OBVIOUS
  <2>7. People(r2) /\ r2[Me] = NULL
    BY <1>9, <2>6, NobodyIn
  <2>8. subject' \in Topic \cup {NULL} /\ mode' \in Mode /\ info' = info /\ fresh' = fresh
    BY <1>9, RoomAssumption
  <2>9. People(room') /\ room'[Me] = NULL
    BY <2>6, <2>7
  <2> QED BY <1>1, <1>2, <1>9, <2>3, <2>4, <2>5, <2>8, <2>9, IInvOut
<1> QED BY <1>3, <1>4, <1>5, <1>6, <1>7, <1>8, <1>9 DEF HandlesRequest

(* The room handles a stanza. *)
LEMMA IInvRoomHandles == NickKept /\ IInv /\ RoomHandles => IInv'
<1> SUFFICES ASSUME NickKept, IInv, RoomHandles PROVE IInv'
  OBVIOUS
<1>1. PICK x, s2 : x = Head(toRoom) /\ s2 = Tail(toRoom)
  OBVIOUS
<1>2. First(toRoom, x, s2) /\ toRoom' = s2 /\ channel' = channel
  BY <1>1 DEF RoomHandles, First
<1>3. Agree(channel, toRoom, toClient, room, info, subject, mode, fresh)
  BY AgreeIs DEF RoomHandles, IInv, Invited
<1>4. CASE x.kind \in {"enter", "update", "leave"}
  <2>1. HandlesPresence(x)
    BY <1>1, <1>4 DEF RoomHandles
  <2> QED BY <1>2, <1>3, <1>4, <2>1, IInvHandlesPresence
<1>5. CASE x.kind \notin {"enter", "update", "leave"}
  <2>1. HandlesRequest(x)
    BY <1>1, <1>5 DEF RoomHandles
  <2> QED BY <1>2, <1>3, <1>5, <2>1, IInvHandlesRequest
<1> QED BY <1>4, <1>5

-----------------------------------------------------------------------------
(* The others act. *)

(* The others act, with everything in flight as it was. *)
LEMMA MovesIs ==
  ASSUME IInv, Foretold, Moves, NEW s2, s2 = toRoom
  PROVE  Acting(s2)
<1>1. Agree(channel, toRoom, toClient, room, info, subject, mode, fresh)
  BY AgreeIs
<1>2. Sent(channel, s2) /\ toRoom \in Seq(Stanza)
  BY <1>1 DEF Agree, Sent
<1>3. Ahead(toRoom, s2, room)
  BY <1>2, AheadStill
<1> QED BY <1>1, <1>2, <1>3 DEF Moves, Acting

(* The invitation is all that is in flight, whatever the others do. *)
LEMMA InvitedStill ==
  ASSUME IInv, Invited, Moves, toClient' = toClient, People(room'), room'[Me] = NULL,
         info' \in [Person -> Info], subject' \in Topic \cup {NULL}, mode' \in Mode, fresh' \in BOOLEAN
  PROVE  IInv'
<1>1. channel' = channel /\ toRoom' = toRoom
  BY DEF Moves
<1>2. Typed' /\ LeftLast'
  BY <1>1 DEF IInv, Typed, LeftLast
<1>3. People(room)' /\ NothingAfterDestroy(toRoom)'
  BY <1>1 DEF IInv
<1>4. Invited'
  BY <1>1 DEF Invited
<1> QED BY <1>2, <1>3, <1>4 DEF IInv

(* The types, and who the others are. *)
LEMMA TypedIs ==
  ASSUME IInv
  PROVE  /\ info \in [Person -> Info] /\ subject \in Topic \cup {NULL} /\ mode \in Mode /\ fresh \in BOOLEAN
         /\ People(room) /\ Me \in Person /\ \A p \in Other : p \in Person /\ p # Me
BY PersonAssumption DEF IInv, Typed, Person

(* Somebody else enters. *)
LEMMA IInvOtherEnters ==
  ASSUME IInv, Moves, NEW p \in Other, NEW n \in Nick, OtherEnters(p, n)
  PROVE  IInv'
<1>1. /\ room[p] = NULL /\ Untaken(room, n) /\ Moved(room, p, n, room')
      /\ info' = info /\ subject' = subject /\ mode' = mode /\ fresh' = fresh
  BY InsideIs DEF OtherEnters, Moved, about
<1>2. PICK w, more, q2, r2, s2 :
        w = Presence(n, info[p]) /\ more = <<w>> /\ q2 = toClient' /\ r2 = room' /\ s2 = toRoom
  OBVIOUS
<1>3. Tell(more)
  BY <1>2 DEF OtherEnters, Presence
<1>4. Moved(room, p, n, r2)
  BY <1>1, <1>2
<1>5. CASE Foretold
  <2>1. Acting(s2)
    BY <1>2, <1>5, MovesIs
  <2>2. Agree(channel, toRoom, toClient, room, info, subject, mode, fresh)
        /\ Sent(channel, s2) /\ Ahead(toRoom, s2, room)
    BY <2>1 DEF Acting
  <2>3. Hears(toClient, more, q2, room, toRoom)
    BY <1>2, <1>3, TellIs
  <2>4. Agree(channel, s2, q2, r2, info, subject, mode, fresh)
    BY <1>1, <1>2, <1>4, <2>2, <2>3, AgreeEnters
  <2>5. Becomes(s2, q2, r2, info, subject, mode, fresh)
    BY <1>1, <1>2, <2>1 DEF Acting, Becomes
  <2> QED BY <2>4, <2>5, IInvBecomes
<1>6. CASE Invited
  <2>1. toClient' = toClient /\ room[Me] = NULL
    BY <1>3, <1>6 DEF Tell, Invited
  <2>2. People(r2) /\ r2[Me] = NULL
    BY <1>1, <1>4, <2>1, TypedIs, PeopleIn
  <2> QED BY <1>1, <1>2, <1>6, <2>1, <2>2, TypedIs, InvitedStill
<1> QED BY <1>5, <1>6 DEF IInv

(* Somebody else leaves, or is removed with a code that is known. *)
LEMMA IInvOtherLeaves ==
  ASSUME KnownRemovals, IInv, Moves, NEW p \in Other, NEW code \in RemovalCode, OtherLeaves(p, code)
  PROVE  IInv'
<1>1. /\ room[p] # NULL /\ Moved(room, p, NULL, room') /\ code \in {NULL, 301, 307}
      /\ info' = info /\ subject' = subject /\ mode' = mode /\ fresh' = fresh
  BY DEF OtherLeaves, Moved, about, KnownRemovals
<1>2. PICK w, more, q2, r2, s2 :
        w = Unavailable(room[p], code) /\ more = <<w>> /\ q2 = toClient' /\ r2 = room' /\ s2 = toRoom
  OBVIOUS
<1>3. Tell(more)
  BY <1>2 DEF OtherLeaves
<1>4. p \in Occupants(room) /\ p # Me
  BY <1>1, InsideIs
<1>5. CASE Foretold
  <2>1. Acting(s2)
    BY <1>2, <1>5, MovesIs
  <2>2. Hears(toClient, more, q2, room, toRoom)
    BY <1>2, <1>3, TellIs
  <2>3. Hears(toClient, more, toClient', room, toRoom)
    BY <1>2, <2>2
  <2> QED BY <1>1, <1>2, <1>4, <2>1, <2>3, ActingLeaves
<1>6. CASE Invited
  <2>1. toClient' = toClient /\ room[Me] = NULL
    BY <1>3, <1>6 DEF Tell, Invited
  <2>2. Moved(room, p, NULL, r2)
    BY <1>1, <1>2
  <2>3. People(r2) /\ r2[Me] = NULL
    BY <1>4, <2>1, <2>2, TypedIs, PeopleOut
  <2> QED BY <1>1, <1>2, <1>6, <2>1, <2>3, TypedIs, InvitedStill
<1> QED BY <1>5, <1>6 DEF IInv

(* Somebody else has a new nick. *)
LEMMA IInvOtherRenames ==
  ASSUME IInv, Moves, NEW p \in Other, NEW n \in Nick, OtherRenames(p, n)
  PROVE  IInv'
<1>1. /\ room[p] # NULL /\ Untaken(room, n) /\ Moved(room, p, n, room')
      /\ info' = info /\ subject' = subject /\ mode' = mode /\ fresh' = fresh
  BY InsideIs DEF OtherRenames, Moved, about
<1>2. PICK w, z, more, q2, r2, s2 :
        /\ w = Changed(room[p], n) /\ z = Presence(n, info[p]) /\ more = <<w, z>>
        /\ q2 = toClient' /\ r2 = room' /\ s2 = toRoom
  OBVIOUS
<1>3. Tell(more)
  BY <1>2 DEF OtherRenames, Presence
<1>4. p \in Occupants(room)
  BY <1>1, InsideIs
<1>5. CASE Foretold
  <2>1. Acting(s2)
    BY <1>2, <1>5, MovesIs
  <2>2. Hears(toClient, more, q2, room, toRoom)
    BY <1>2, <1>3, TellIs
  <2>3. Hears(toClient, more, toClient', room, toRoom)
    BY <1>2, <2>2
  <2> QED BY <1>1, <1>2, <1>4, <2>1, <2>3, ActingRenames
<1>6. CASE Invited
  <2>1. toClient' = toClient /\ room[Me] = NULL
    BY <1>3, <1>6 DEF Tell, Invited
  <2>2. Moved(room, p, n, r2)
    BY <1>1, <1>2
  <2>3. People(r2) /\ r2[Me] = NULL
    BY <1>1, <2>1, <2>2, TypedIs, PeopleIn
  <2> QED BY <1>1, <1>2, <1>6, <2>1, <2>3, TypedIs, InvitedStill
<1> QED BY <1>5, <1>6 DEF IInv

(* Somebody has another role, affiliation or show. *)
LEMMA IInvChanges ==
  ASSUME IInv, Moves, NEW p \in Person, NEW i \in Info, Changes(p, i)
  PROVE  IInv'
<1>1. room[p] # NULL /\ Ranked(p, i) /\ UNCHANGED about /\ p \in Occupants(room)
  BY DEF Changes, Occupants
<1>2. CASE Foretold
  <2>1. PICK s2 : s2 = toRoom
    OBVIOUS
  <2>2. Acting(s2)
    BY <1>2, <2>1, MovesIs
  <2> QED BY <1>1, <2>2, ActingRanked
<1>3. CASE Invited
  <2>1. /\ toClient' = toClient /\ room' = room /\ info' = [info EXCEPT ![p] = i]
        /\ subject' = subject /\ mode' = mode /\ fresh' = fresh
    BY <1>1, <1>3 DEF Ranked, Tell, Invited, about
  <2>2. info' \in [Person -> Info]
    BY <2>1, TypedIs
  <2>3. People(room') /\ room'[Me] = NULL
    BY <1>3, <2>1, TypedIs DEF Invited
  <2> QED BY <1>3, <2>1, <2>2, <2>3, TypedIs, InvitedStill
<1> QED BY <1>2, <1>3 DEF IInv

(* The user is removed. *)
LEMMA IInvKick ==
  ASSUME KnownRemovals, IInv, Moves, NEW code \in Kicks, Kick(code)
  PROVE  IInv'
<1>1. PICK w, s2, r2 : w = Unavailable(room[Me], code) /\ s2 = toRoom /\ r2 = room'
  OBVIOUS
<1>2. /\ room[Me] # NULL /\ Moved(room, Me, NULL, r2) /\ toClient' = toClient \o <<w>>
      /\ info' = info /\ subject' = subject /\ mode' = mode /\ fresh' = fresh
  BY <1>1 DEF Kick, Tell, Moved, about
<1>3. Foretold
  BY <1>2 DEF IInv, Invited
<1>4. Acting(s2)
  BY <1>1, <1>3, MovesIs
<1>5. code \in {301, 307} /\ code # NULL
  BY RoomAssumption DEF KnownRemovals
<1>6. room[Me] \in Nick
  BY <1>2, TypedIs DEF People
<1>7. w \in Told /\ w.type = "unavailable" /\ w.nick = room[Me] /\ w.code # NULL
  BY <1>1, <1>5, <1>6 DEF Unavailable, ADeparture, Told
<1>8. PICK no \in BOOLEAN : ~no
  OBVIOUS
<1>9. Final(w, no)
  BY <1>7 DEF Final
<1>10. People(r2) /\ r2[Me] = NULL
  BY <1>2, TypedIs, PeopleOut
<1>11. People(room') /\ room'[Me] = NULL
  BY <1>1, <1>10
<1> QED BY <1>2, <1>4, <1>7, <1>8, <1>9, <1>11, TypedIs, IInvOut

(* A message of somebody else. *)
LEMMA IInvOtherSpeaks ==
  ASSUME IInv, Moves, NEW p \in Other, OtherSpeaks(p)
  PROVE  IInv'
<1>1. room[p] # NULL /\ p \in Occupants(room) /\ p # Me /\ Same
  BY InsideIs DEF OtherSpeaks, Same, about
<1>2. PICK w, more, q2, s2 : w = Message(p) /\ more = <<w>> /\ q2 = toClient' /\ s2 = toRoom
  OBVIOUS
<1>3. Tell(more)
  BY <1>2 DEF OtherSpeaks
<1>4. CASE Foretold /\ room[Me] # NULL
  <2>1. Acting(s2)
    BY <1>2, <1>4, MovesIs
  <2>2. Hears(toClient, more, q2, room, toRoom)
    BY <1>2, <1>3, TellIs
  <2>3. Hears(toClient, more, toClient', room, toRoom)
    BY <1>2, <2>2
  <2>4. room[p] \in Nick /\ p \in Person
    BY <1>1, TypedIs DEF People
  <2>5. room[p] # room[Me]
    BY <1>1, <1>4, TypedIs, InsideIs DEF People, Distinct
  <2>6. w \in Told /\ w.type = "message" /\ w.nick = room[p] /\ w.by = p
    BY <1>2, <2>4 DEF Message, AMessage, Told
  <2>7. w.type \in {"message", "answer", "error"} /\ (w.nick = room[Me] <=> w.by = Me)
    BY <1>1, <2>5, <2>6
  <2>8. mode' \in Mode /\ fresh' \in BOOLEAN /\ (fresh' => fresh /\ mode' = mode)
        /\ room' = room /\ info' = info /\ subject' = subject
    BY <1>1, TypedIs DEF Same
  <2> QED BY <1>2, <2>1, <2>3, <2>6, <2>7, <2>8, ActingPrinted
<1>5. CASE Foretold /\ room[Me] = NULL
  <2>1. Acting(s2)
    BY <1>2, <1>5, MovesIs
  <2>2. toClient' = toClient
    BY <1>3, <1>5 DEF Tell
  <2> QED BY <1>1, <1>5, <2>1, <2>2, ActingUnheard
<1>6. CASE Invited
  <2>1. toClient' = toClient /\ room' = room /\ room[Me] = NULL
    BY <1>1, <1>3, <1>6 DEF Tell, Invited, Same
  <2> QED BY <1>1, <1>6, <2>1, TypedIs, InvitedStill DEF Same
<1> QED BY <1>4, <1>5, <1>6 DEF IInv

(* Somebody else sets the subject. *)
LEMMA IInvOtherSetsSubject ==
  ASSUME IInv, Moves, NEW p \in Other, NEW t \in Topic \cup {NULL}, OtherSetsSubject(p, t)
  PROVE  IInv'
<1>1. room' = room /\ info' = info /\ subject' = t /\ mode' = mode /\ fresh' = fresh
  BY DEF OtherSetsSubject
<1>2. PICK w, more, q2, s2 : w = SubjectIs(t) /\ more = <<w>> /\ q2 = toClient' /\ s2 = toRoom
  OBVIOUS
<1>3. Tell(more)
  BY <1>2 DEF OtherSetsSubject
<1>4. CASE Foretold
  <2>1. Acting(s2)
    BY <1>2, <1>4, MovesIs
  <2>2. Hears(toClient, more, q2, room, toRoom)
    BY <1>2, <1>3, TellIs
  <2>3. Agree(channel, s2, q2, room, info, t, mode, fresh)
    BY <1>2, <2>1, <2>2, AgreeSubject DEF Acting
  <2>4. Becomes(s2, q2, room, info, t, mode, fresh)
    BY <1>1, <1>2, <2>1 DEF Acting, Becomes
  <2> QED BY <2>3, <2>4, IInvBecomes
<1>5. CASE Invited
  <2>1. toClient' = toClient /\ room[Me] = NULL
    BY <1>3, <1>5 DEF Tell, Invited
  <2> QED BY <1>1, <1>5, <2>1, TypedIs, InvitedStill
<1> QED BY <1>4, <1>5 DEF IInv

(* Somebody else configures the room. *)
LEMMA IInvOtherConfigures ==
  ASSUME IInv, Moves, NEW p \in Other, NEW m \in Mode, OtherConfigures(p, m)
  PROVE  IInv'
<1>1. room' = room /\ info' = info /\ subject' = subject /\ mode' = m
      /\ fresh' \in BOOLEAN /\ ~fresh'
  BY DEF OtherConfigures
<1>2. PICK w, more, q2, s2 : w = Answer /\ more = <<w>> /\ q2 = toClient' /\ s2 = toRoom
  OBVIOUS
<1>3. Tell(more)
  BY <1>2 DEF OtherConfigures
<1>4. CASE Foretold
  <2>1. Acting(s2)
    BY <1>2, <1>4, MovesIs
  <2>2. Hears(toClient, more, q2, room, toRoom)
    BY <1>2, <1>3, TellIs
  <2>3. Hears(toClient, more, toClient', room, toRoom)
    BY <1>2, <2>2
  <2>4. w \in Told /\ w.type = "answer" /\ w.type # "message"
    BY <1>2 DEF Answer, AnAnswer, Told
  <2> QED BY <1>1, <1>2, <2>1, <2>3, <2>4, ActingPrinted
<1>5. CASE Invited
  <2>1. toClient' = toClient /\ room[Me] = NULL
    BY <1>3, <1>5 DEF Tell, Invited
  <2> QED BY <1>1, <1>5, <2>1, TypedIs, InvitedStill
<1> QED BY <1>4, <1>5 DEF IInv

(* Whoever is outside, with nothing in flight, has no channel. *)
LEMMA OutAtRest ==
  ASSUME NEW c, NEW s, s = <<>>, NEW q, q = <<>>, NEW r, NEW i, NEW theme, NEW m, NEW f,
         Predicted(c, s, q, r, i, theme, m, f), r[Me] = NULL
  PROVE  ~c.exists
<1>1. PICK out, d :
        /\ Way(c, s, q, r, out, d)
        /\ InRoom(c, s, r, i, theme, m, f, d) \/ Waiting(c, s, q, r, d) \/ Gone(c, s, r, d)
  BY DEF Predicted
<1>2. c = d
  BY <1>1, WayIs
<1>3. ~InRoom(c, s, r, i, theme, m, f, d)
  BY DEF InRoom, Shows
<1>4. ~Waiting(c, s, q, r, d)
  BY NothingSent DEF Waiting
<1> QED BY <1>1, <1>2, <1>3, <1>4 DEF Gone

(* The user, who is outside, is invited. *)
LEMMA IInvOtherInvites ==
  ASSUME IInv, Moves, NEW p \in Other, OtherInvites(p)
  PROVE  IInv'
<1>1. /\ toRoom = <<>> /\ toClient = <<>> /\ room[Me] = NULL /\ toClient' = <<Invitation>>
      /\ room' = room /\ info' = info /\ subject' = subject /\ mode' = mode /\ fresh' = fresh
      /\ channel' = channel /\ toRoom' = toRoom
  BY DEF OtherInvites, Quiet, about, Moves
<1>2. Foretold
  BY <1>1 DEF IInv, Invited
<1>3. ~channel.exists
  BY <1>1, <1>2, OutAtRest DEF Foretold
<1>4. Invited'
  BY <1>1, <1>3 DEF Invited
<1>5. Typed' /\ LeftLast'
  BY <1>1 DEF IInv, Typed, LeftLast
<1>6. People(room)' /\ NothingAfterDestroy(toRoom)'
  BY <1>1 DEF IInv
<1> QED BY <1>4, <1>5, <1>6 DEF IInv

-----------------------------------------------------------------------------
(* The invariant holds always. *)

(* At first there is no session. *)
LEMMA OfflineInit == RoomInit => Offline
BY NobodyIn, NoChannelState DEF RoomInit, ChannelInit, Offline

(* A step of the user or of the stream's other end leaves the session alone. *)
LEMMA SessionStays ==
  ASSUME Join \/ Part \/ NickCmd \/ Away \/ Requests \/ Deliver \/ RoomHandles \/ Moves
  PROVE  connected' = connected
<1>1. CASE Join \/ Part \/ NickCmd \/ Away
  BY <1>1 DEF Join, Part, NickCmd, Away, User, muc_join, muc_part, muc_nick, sig_set_presence
<1>2. CASE Requests
  BY <1>2 DEF Requests, Request, send_message, cmd_topic, disco_request, muc_set_mode,
              muc_set_role, muc_set_affiliation, muc_get_affiliation, muc_destroy, Ask
<1>3. CASE Deliver
  <2>1. ASSUME NEW m, Receive(m) PROVE connected' = connected
    BY <2>1 DEF Receive, available, unavailable, NickChange, error_presence, topic, sig_features,
                sig_recv_message, sig_recv_iq, Printed
  <2> QED BY <1>3, <2>1 DEF Deliver, invite, muc_join
<1>4. CASE RoomHandles \/ Moves
  BY <1>4 DEF RoomHandles, Moves
<1> QED BY <1>1, <1>2, <1>3, <1>4

(* Neither the user nor the stream's other end has a step without session. *)
LEMMA SessionNeeded ==
  ASSUME Offline, ~connected
  PROVE  ~(Join \/ Part \/ NickCmd \/ Away \/ Requests \/ Deliver \/ Lost \/ RoomHandles)
<1>1. toRoom = <<>> /\ toClient = <<>> /\ ~channel.exists
  BY DEF Offline
<1>2. ~(Join \/ Part \/ NickCmd \/ Away \/ Lost)
  BY <1>1 DEF Join, Part, NickCmd, Away, User, muc_join, muc_part, muc_nick, sig_set_presence,
              Lost, LinkLost
<1>3. ~Requests
  BY <1>1 DEF Requests, Request, send_message, cmd_topic, disco_request, muc_set_mode,
              muc_set_role, muc_set_affiliation, muc_get_affiliation, muc_destroy, Ask
<1>4. ~(Deliver \/ RoomHandles)
  BY <1>1 DEF Deliver, RoomHandles
<1> QED BY <1>2, <1>3, <1>4

(* What the others do without session tells the client nothing. *)
OtherMoves ==
  \/ \E p \in Other, n \in Nick : OtherEnters(p, n) \/ OtherRenames(p, n)
  \/ \E p \in Other, code \in RemovalCode : OtherLeaves(p, code)
  \/ \E p \in Person, i \in Info : Changes(p, i)
  \/ \E code \in Kicks : Kick(code)
  \/ \E p \in Other : OtherSpeaks(p) \/ OtherInvites(p)
  \/ \E p \in Other, t \in Topic \cup {NULL} : OtherSetsSubject(p, t)
  \/ \E p \in Other, m \in Mode : OtherConfigures(p, m)

LEMMA MovesUnheard ==
  ASSUME IInv, ~connected, room[Me] = NULL, OtherMoves
  PROVE  toClient' = toClient /\ room'[Me] = NULL
<1>1. ASSUME NEW p \in Other, NEW n, room' = [room EXCEPT ![p] = n] PROVE room'[Me] = NULL
  BY <1>1, TypedIs DEF People
<1>2. ASSUME NEW stanzas, Tell(stanzas) PROVE toClient' = toClient
  BY <1>2 DEF Tell
<1>3. ASSUME NEW p \in Other, NEW n \in Nick, OtherEnters(p, n) \/ OtherRenames(p, n)
      PROVE  toClient' = toClient /\ room'[Me] = NULL
  BY <1>1, <1>2, <1>3 DEF OtherEnters, OtherRenames
<1>4. ASSUME NEW p \in Other, NEW code \in RemovalCode, OtherLeaves(p, code)
      PROVE  toClient' = toClient /\ room'[Me] = NULL
  BY <1>1, <1>2, <1>4 DEF OtherLeaves
<1>5. ASSUME NEW p \in Person, NEW i \in Info, Changes(p, i)
      PROVE  toClient' = toClient /\ room'[Me] = NULL
  BY <1>2, <1>5 DEF Changes, Ranked
<1>6. ASSUME NEW code \in Kicks, Kick(code) PROVE toClient' = toClient /\ room'[Me] = NULL
  BY <1>6 DEF Kick
<1>7. ASSUME NEW p \in Other, OtherSpeaks(p) \/ OtherInvites(p)
      PROVE  toClient' = toClient /\ room'[Me] = NULL
  BY <1>2, <1>7 DEF OtherSpeaks, OtherInvites
<1>8. ASSUME NEW p \in Other, NEW t \in Topic \cup {NULL}, OtherSetsSubject(p, t)
      PROVE  toClient' = toClient /\ room'[Me] = NULL
  BY <1>2, <1>8 DEF OtherSetsSubject
<1>9. ASSUME NEW p \in Other, NEW m \in Mode, OtherConfigures(p, m)
      PROVE  toClient' = toClient /\ room'[Me] = NULL
  BY <1>2, <1>9 DEF OtherConfigures
<1> QED BY <1>3, <1>4, <1>5, <1>6, <1>7, <1>8, <1>9 DEF OtherMoves

(* Every step keeps Offline. *)
LEMMA OfflineNext == IInv /\ Offline /\ [RoomNext]_room_vars => Offline'
<1> SUFFICES ASSUME IInv, Offline, [RoomNext]_room_vars PROVE Offline'
  OBVIOUS
<1>1. CASE Lost
  <2>1. People(room)
    BY DEF IInv
  <2>2. /\ toRoom' = <<>> /\ toClient' = <<>> /\ channel' = NoChannel
        /\ room' = [room EXCEPT ![Me] = NULL]
    BY <1>1 DEF Lost, LinkLost
  <2>3. Me \in DOMAIN room
    BY <2>1 DEF People, Person
  <2> QED BY <2>2, <2>3, NoChannelState DEF Offline
<1>2. CASE Connected
  BY <1>2 DEF Connected, sig_connected, Offline
<1>3. CASE Join \/ Part \/ NickCmd \/ Away \/ Requests \/ Deliver \/ RoomHandles
  BY <1>3, SessionStays, SessionNeeded DEF Offline
<1>4. CASE Moves /\ OtherMoves
  <2>1. connected' = connected /\ channel' = channel /\ toRoom' = toRoom
    BY <1>4 DEF Moves
  <2>2. ~connected => toClient' = toClient /\ room'[Me] = NULL
    BY <1>4, MovesUnheard DEF Offline
  <2> QED BY <2>1, <2>2 DEF Offline
<1>5. CASE UNCHANGED room_vars
  BY <1>5 DEF room_vars, Offline
<1> QED BY <1>1, <1>2, <1>3, <1>4, <1>5 DEF RoomNext, OtherMoves

(* Every step keeps the invariant. *)
LEMMA IInvNext ==
  NickKept /\ KnownRemovals /\ IInv /\ Offline /\ [RoomNext]_room_vars => IInv'
<1> SUFFICES ASSUME NickKept, KnownRemovals, IInv, Offline, [RoomNext]_room_vars PROVE IInv'
  OBVIOUS
<1>1. CASE Join \/ Part \/ NickCmd \/ Away \/ Requests
  BY <1>1, IInvJoin, IInvPart, IInvNick, IInvAway, IInvRequests
<1>2. CASE Deliver \/ Lost \/ Connected \/ RoomHandles
  BY <1>2, IInvDeliver, IInvLost, IInvConnected, IInvRoomHandles
<1>3. CASE Moves /\ \E p \in Other, n \in Nick : OtherEnters(p, n)
  BY <1>3, IInvOtherEnters
<1>4. CASE Moves /\ \E p \in Other, code \in RemovalCode : OtherLeaves(p, code)
  BY <1>4, IInvOtherLeaves
<1>5. CASE Moves /\ \E p \in Other, n \in Nick : OtherRenames(p, n)
  BY <1>5, IInvOtherRenames
<1>6. CASE Moves /\ \E p \in Person, i \in Info : Changes(p, i)
  BY <1>6, IInvChanges
<1>7. CASE Moves /\ \E code \in Kicks : Kick(code)
  BY <1>7, IInvKick
<1>8. CASE Moves /\ \E p \in Other : OtherSpeaks(p)
  BY <1>8, IInvOtherSpeaks
<1>9. CASE Moves /\ \E p \in Other, t \in Topic \cup {NULL} : OtherSetsSubject(p, t)
  BY <1>9, IInvOtherSetsSubject
<1>10. CASE Moves /\ \E p \in Other, m \in Mode : OtherConfigures(p, m)
  BY <1>10, IInvOtherConfigures
<1>11. CASE Moves /\ \E p \in Other : OtherInvites(p)
  BY <1>11, IInvOtherInvites
<1>12. CASE UNCHANGED room_vars
  <2>1. /\ channel' = channel /\ toRoom' = toRoom /\ toClient' = toClient /\ room' = room
        /\ info' = info /\ subject' = subject /\ mode' = mode /\ fresh' = fresh
    BY <1>12 DEF room_vars
  <2> QED BY <2>1, IInvStill
<1> QED BY <1>1, <1>2, <1>3, <1>4, <1>5, <1>6, <1>7, <1>8, <1>9, <1>10, <1>11, <1>12 DEF RoomNext

(* The prediction holds always: the stanzas in flight lead the client to the  *)
(* room as it is now, to the room's word that it waits for, or to no channel. *)
(* Offline comes with it, since a session may begin with a join.              *)
THEOREM RoomInvariance ==
  ASSUME NickKept, KnownRemovals
  PROVE  RoomSpec => []IInv
<1>1. RoomInit => IInv /\ Offline
  BY IInvInit, OfflineInit
<1>2. IInv /\ Offline /\ [RoomNext]_room_vars => IInv' /\ Offline'
  BY IInvNext, OfflineNext
<1> QED BY <1>1, <1>2, PTL DEF RoomSpec

(* With nothing in flight the prediction is about the channel itself. *)
LEMMA QuietShows ==
  ASSUME NEW c, NEW s, s = <<>>, NEW q, q = <<>>, NEW r, NEW i, NEW theme, NEW m, NEW f,
         Predicted(c, s, q, r, i, theme, m, f), c.exists
  PROVE  Shows(c, r, i) /\ c.topic = theme /\ (f => c.mode = m)
<1>1. PICK out, d :
        /\ Way(c, s, q, r, out, d)
        /\ InRoom(c, s, r, i, theme, m, f, d) \/ Waiting(c, s, q, r, d) \/ Gone(c, s, r, d)
  BY DEF Predicted
<1>2. c = d
  BY <1>1, WayIs
<1>3. ~Waiting(c, s, q, r, d) /\ ~Gone(c, s, r, d)
  BY <1>2, NothingSent DEF Waiting, Gone
<1>4. InRoom(c, s, r, i, theme, m, f, c)
  BY <1>1, <1>2, <1>3
<1>5. ~Some(s, "features")
  BY NothingSent DEF None, Some
<1> QED BY <1>4, <1>5 DEF InRoom, Shows

(* The same of the variables. *)
LEMMA QuietIs == IInv /\ Quiet /\ channel.exists =>
  /\ Shows(channel, room, info) /\ channel.topic = subject /\ (fresh => channel.mode = mode)
  /\ People(room)
<1> SUFFICES ASSUME IInv, Quiet, channel.exists
             PROVE  /\ Shows(channel, room, info) /\ channel.topic = subject
                    /\ fresh => channel.mode = mode
                    /\ People(room)
  OBVIOUS
<1>1. Foretold /\ People(room)
  BY DEF IInv, Invited
<1>2. Predicted(channel, toRoom, toClient, room, info, subject, mode, fresh)
  BY <1>1 DEF Foretold
<1>3. toRoom = <<>> /\ toClient = <<>>
  BY DEF Quiet
<1> QED BY <1>1, <1>2, <1>3, QuietShows

-----------------------------------------------------------------------------
(* The theorems. *)

(* The table of nicks lists the occupants, each once, with what the room said *)
(* last of them, whenever nothing is in flight.                               *)
THEOREM NamesAreOccupantsKept ==
  ASSUME NickKept, KnownRemovals
  PROVE  RoomSpec => []NamesAreOccupants
<1>1. IInv => NamesAreOccupants
  <2> SUFFICES ASSUME IInv, Settled
               PROVE  /\ DOMAIN channel.nicks = {room[p] : p \in Inside}
                      /\ \A p \in Inside : /\ Len(channel.nicks[room[p]]) = 1
                                           /\ channel.nicks[room[p]][1].info = info[p]
    BY DEF NamesAreOccupants
  <2>1. Lists(channel.nicks, room, info) /\ Inside = Occupants(room)
    BY QuietIs, InsideIs DEF Settled, Shows
  <2>2. \A n : n \in DOMAIN channel.nicks <=> \E p \in Inside : n = room[p]
    BY <2>1 DEF Lists
  <2> QED BY <2>1, <2>2 DEF Lists
<1> QED BY <1>1, RoomInvariance, PTL

(* The client knows the user's nick, and marks that record and no other. *)
THEOREM OwnNickKnownKept ==
  ASSUME NickKept, KnownRemovals
  PROVE  RoomSpec => []OwnNickKnown
<1>1. IInv => OwnNickKnown
  <2> SUFFICES ASSUME IInv, Settled
               PROVE  /\ channel.nick = room[Me]
                      /\ \A n \in DOMAIN channel.nicks : channel.nicks[n][1].own <=> n = room[Me]
    BY DEF OwnNickKnown
  <2>1. Shows(channel, room, info) /\ People(room)
    BY QuietIs DEF Settled
  <2>2. channel.nick = room[Me] /\ Me \in Occupants(room) /\ Lists(channel.nicks, room, info)
    BY <2>1, InsideIs DEF Shows
  <2>3. ASSUME NEW n \in DOMAIN channel.nicks
        PROVE  channel.nicks[n][1].own <=> n = room[Me]
    <3>1. PICK p \in Occupants(room) : n = room[p]
      BY <2>2 DEF Lists
    <3>2. channel.nicks[n][1].own <=> p = Me
      BY <2>2, <3>1 DEF Lists
    <3>3. room[p] = room[Me] <=> p = Me
      BY <2>1, <2>2 DEF People, Distinct
    <3> QED BY <3>1, <3>2, <3>3
  <2> QED BY <2>2, <2>3
<1> QED BY <1>1, RoomInvariance, PTL

(* There is a joined channel if and only if the user is in the room, whenever *)
(* nothing is in flight.                                                      *)
THEOREM JoinedOrGoneKept ==
  ASSUME NickKept, KnownRemovals
  PROVE  RoomSpec => []JoinedOrGone
<1>1. IInv => JoinedOrGone
  <2> SUFFICES ASSUME IInv, Quiet
               PROVE  /\ channel.exists <=> room[Me] # NULL
                      /\ channel.exists => channel.joined
    BY DEF JoinedOrGone
  <2>1. channel.exists => room[Me] # NULL /\ channel.joined
    BY QuietIs DEF Shows
  <2>2. ASSUME ~channel.exists PROVE room[Me] = NULL
    <3>1. toRoom = <<>> /\ Foretold
      BY DEF Quiet, IInv, Invited
    <3> QED BY <2>2, <3>1, AtRest DEF Foretold
  <2> QED BY <2>1, <2>2
<1> QED BY <1>1, RoomInvariance, PTL

(* The topic of the channel is the subject of the room, whenever nothing is   *)
(* in flight.                                                                 *)
THEOREM TopicIsSubjectKept ==
  ASSUME NickKept, KnownRemovals
  PROVE  RoomSpec => []TopicIsSubject
<1>1. IInv => TopicIsSubject
  BY QuietIs DEF TopicIsSubject, Settled
<1> QED BY <1>1, RoomInvariance, PTL

(* The mode of the channel is the room's, unless the room was configured since *)
(* it was told, whenever nothing is in flight.                                 *)
THEOREM ModeKnownKept ==
  ASSUME NickKept, KnownRemovals
  PROVE  RoomSpec => []ModeKnown
<1>1. IInv => ModeKnown
  BY QuietIs DEF ModeKnown, Settled
<1> QED BY <1>1, RoomInvariance, PTL

(* A message that is about to be printed passes for the user's if and only if *)
(* the user wrote it, whatever is in flight.                                  *)
THEOREM MessagesAttributedKept ==
  ASSUME NickKept, KnownRemovals
  PROVE  RoomSpec => []MessagesAttributed
<1>1. IInv => MessagesAttributed
  <2> SUFFICES ASSUME IInv, channel.exists, toClient # <<>>, Head(toClient).type = "message"
               PROVE  ShownAs(channel, Head(toClient).nick) = "own" <=> Head(toClient).by = Me
    BY DEF MessagesAttributed
  <2>1. Foretold
    BY DEF IInv, Invited
  <2>2. PICK out, d : Way(channel, toRoom, toClient, room, out, d)
    BY <2>1 DEF Foretold, Predicted
  <2>3. toClient \in Seq(Told) /\ Leads(channel, toClient, out, d)
    BY <2>2 DEF Way
  <2>4. PICK w, k : w = Head(toClient) /\ k = Len(toClient)
    OBVIOUS
  <2>5. w \in Told /\ Meant(channel, w, k, out)
    BY <2>3, <2>4, LeadsFrom
  <2>6. w.nick = channel.nick <=> w.by = Me
    BY <2>4, <2>5 DEF Meant
  <2>7. w.nick \in Nick
    BY <2>4, <2>5, ToldNick
  <2>8. ShownAs(channel, w.nick) = "own" <=> w.nick = channel.nick
    BY <2>7, NickAssumption DEF ShownAs
  <2> QED BY <2>4, <2>6, <2>8
<1> QED BY <1>1, RoomInvariance, PTL

=============================================================================
