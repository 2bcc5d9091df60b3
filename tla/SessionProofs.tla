--------------------------- MODULE SessionProofs ---------------------------
(***************************************************************************)
(* Theorems about Session and Registration, for all settings, reasons and  *)
(* shows and any number of attempts.  The inductive invariant follows what *)
(* the user asked for through the records that carry it: from the server   *)
(* record of a session to the connection record that is saved from it,     *)
(* through its copies and attempts, to the next server record.             *)
(***************************************************************************)
EXTENDS Registration, TLAPS

(* A connection record that waits in the queue, and that of a server record. *)
Queued(c) == c \in Connrec /\ c.nick = "full" /\ c.real_jid = NULL
InUse(c)  == c \in Connrec /\ c.nick = "shown" /\ c.real_jid = "full"

(* The record holds the password that was typed, if one was. *)
Remembers(c, n) == n = 0 \/ (n = 1 /\ c.prompted_password = "typed")

(* The session made from c will be as the user asked; that of s is. *)
Restores(c, w) ==
  IF c.reconnection
  THEN c.show = w.show /\ (c.show # AVAILABLE => c.away_reason \in {w.reason, GARBAGE})
  ELSE w.show = AVAILABLE

AsWanted(s, w) ==
  /\ s.show = w.show
  /\ s.usermode_away <=> s.show # AVAILABLE
  /\ s.show # AVAILABLE => s.away_reason \in {w.reason, GARBAGE}

(* A server record before its session, and one with an acceptable priority. *)
Blank(s) == s.away_reason = NULL /\ ~s.usermode_away
Valid(s) == s \in Server /\ s.priority \in -128..127
Heard(h) == h \in Presence /\ h.priority \in -128..127

Known(s, h) ==
  \/ h = [show |-> s.show, status |-> s.away_reason, priority |-> s.priority]
  \/ /\ s.show # AVAILABLE /\ s.away_reason = NULL
     /\ h = [show |-> AVAILABLE, status |-> NULL, priority |-> s.priority]

Inv ==
  /\ TypeOK
  /\ TimerWhileConnecting
  /\ reconnect => phase = "none" /\ Queued(conn)
  /\ phase # "none" => InUse(conn) /\ server.jid = "full"
  /\ Remembers(conn, prompts)
  /\ reconnect \/ Connecting => Restores(conn, wanted)
  /\ Connecting => Blank(server)
  /\ phase = "online" => AsWanted(server, wanted) /\ Known(server, heard)

-----------------------------------------------------------------------------
(* Connection records. *)

LEMMA ConnrecFields ==
  ASSUME NEW c \in Connrec
  PROVE  /\ \A x \in JidForm : [c EXCEPT !.nick = x] \in Connrec
         /\ \A x \in JidForm : [c EXCEPT !.real_jid = x] \in Connrec
         /\ \A x \in BOOLEAN : [c EXCEPT !.reconnection = x] \in Connrec
         /\ \A x \in Shows : [c EXCEPT !.show = x] \in Connrec
         /\ \A x \in Priorities : [c EXCEPT !.priority = x] \in Connrec
         /\ \A x \in Reasons : [c EXCEPT !.away_reason = x] \in Connrec
         /\ \A x \in {NULL, "", "typed"} : [c EXCEPT !.password = x] \in Connrec
         /\ \A x \in {NULL, "typed"} : [c EXCEPT !.prompted_password = x] \in Connrec
<1>1. \A x \in JidForm : [c EXCEPT !.nick = x] \in Connrec
  BY DEF Connrec
<1>2. \A x \in JidForm : [c EXCEPT !.real_jid = x] \in Connrec
  BY DEF Connrec
<1>3. \A x \in BOOLEAN : [c EXCEPT !.reconnection = x] \in Connrec
  BY DEF Connrec
<1>4. \A x \in Shows : [c EXCEPT !.show = x] \in Connrec
  BY DEF Connrec
<1>5. \A x \in Priorities : [c EXCEPT !.priority = x] \in Connrec
  BY DEF Connrec
<1>6. \A x \in Reasons : [c EXCEPT !.away_reason = x] \in Connrec
  BY DEF Connrec
<1>7. \A x \in {NULL, "", "typed"} : [c EXCEPT !.password = x] \in Connrec
  BY DEF Connrec
<1>8. \A x \in {NULL, "typed"} : [c EXCEPT !.prompted_password = x] \in Connrec
  BY DEF Connrec
<1> QED BY <1>1, <1>2, <1>3, <1>4, <1>5, <1>6, <1>7, <1>8

(* An attempt is made from a record of the queue: what the user asked for and *)
(* typed stays in it.                                                         *)
LEMMA NickKeptInUse ==
  ASSUME NEW c, Queued(c)
  PROVE  /\ InUse(NickKept(c))
         /\ \A w : Restores(c, w) => Restores(NickKept(c), w)
         /\ \A n : Remembers(c, n) => Remembers(NickKept(c), n)
<1> DEFINE d == [c EXCEPT !.real_jid = "full"]
           e == [d EXCEPT !.nick = "shown"]
<1>1. c \in Connrec /\ c.nick = "full" /\ c.real_jid = NULL
  BY DEF Queued
<1>2. NickKept(c) = e
  BY <1>1 DEF NickKept
<1>3. d \in Connrec
  BY <1>1, ConnrecFields DEF JidForm
<1>4. e \in Connrec
  <2> HIDE DEF d
  <2> QED BY <1>3, ConnrecFields DEF JidForm
<1>5. /\ e.nick = "shown" /\ e.real_jid = "full"
      /\ e.reconnection = c.reconnection /\ e.show = c.show
      /\ e.away_reason = c.away_reason /\ e.prompted_password = c.prompted_password
  BY <1>1 DEF Connrec
<1> HIDE DEF d, e
<1>6. InUse(e)
  BY <1>4, <1>5 DEF InUse
<1>7. \A w : Restores(c, w) => Restores(e, w)
  BY <1>5 DEF Restores
<1>8. \A n : Remembers(c, n) => Remembers(e, n)
  BY <1>5 DEF Remembers
<1> QED BY <1>2, <1>6, <1>7, <1>8

(* So it does in the copy that goes back to the queue, with the JID. *)
LEMMA CopyQueued ==
  ASSUME NEW c, InUse(c), NEW d \in CopyConn(c)
  PROVE  /\ Queued(d)
         /\ \A w : Restores(c, w) => Restores(d, w)
         /\ \A n : Remembers(c, n) => Remembers(d, n)
<1>1. c \in Connrec /\ c.real_jid = "full"
  BY DEF InUse
<1>2. PICK pw \in {NULL, c.password} :
        d = [c EXCEPT !.nick = c.real_jid, !.real_jid = NULL, !.password = pw]
  BY DEF CopyConn
<1> DEFINE d1 == [c EXCEPT !.nick = "full"]
           d2 == [d1 EXCEPT !.real_jid = NULL]
           d3 == [d2 EXCEPT !.password = pw]
<1>3. d = d3
  BY <1>1, <1>2
<1>4. pw \in {NULL, "", "typed"}
  BY <1>1, <1>2 DEF Connrec
<1>5. d1 \in Connrec
  BY <1>1, ConnrecFields DEF JidForm
<1>6. d2 \in Connrec
  <2> HIDE DEF d1
  <2> QED BY <1>5, ConnrecFields DEF JidForm
<1>7. d3 \in Connrec
  <2> HIDE DEF d2
  <2> QED BY <1>4, <1>6, ConnrecFields
<1>8. /\ d3.nick = "full" /\ d3.real_jid = NULL
      /\ d3.reconnection = c.reconnection /\ d3.show = c.show
      /\ d3.away_reason = c.away_reason /\ d3.prompted_password = c.prompted_password
  BY <1>1 DEF Connrec
<1> HIDE DEF d1, d2, d3
<1>9. Queued(d)
  BY <1>3, <1>7, <1>8 DEF Queued
<1>10. \A w : Restores(c, w) => Restores(d, w)
  BY <1>3, <1>8 DEF Restores
<1>11. \A n : Remembers(c, n) => Remembers(d, n)
  BY <1>3, <1>8 DEF Remembers
<1> QED BY <1>9, <1>10, <1>11

(* The status of a session is saved in its connection record. *)
LEMMA SaveStatusInUse ==
  ASSUME NEW c, InUse(c), NEW s \in Server
  PROVE  /\ InUse(SaveStatus(c, s))
         /\ \A w : AsWanted(s, w) => Restores(SaveStatus(c, s), w)
         /\ \A n : Remembers(c, n) => Remembers(SaveStatus(c, s), n)
<1> DEFINE reason == IF s.usermode_away THEN s.away_reason ELSE NULL
           c1 == [c EXCEPT !.reconnection = TRUE]
           c2 == [c1 EXCEPT !.show = s.show]
           c3 == [c2 EXCEPT !.priority = s.priority]
           c4 == [c3 EXCEPT !.away_reason = reason]
<1>1. c \in Connrec /\ c.nick = "shown" /\ c.real_jid = "full"
  BY DEF InUse
<1>2. SaveStatus(c, s) = c4
  BY DEF SaveStatus
<1>3. s.show \in Shows /\ s.priority \in Priorities /\ reason \in Reasons
  BY DEF Server, Reasons
<1>4. c1 \in Connrec
  BY <1>1, ConnrecFields
<1>5. c2 \in Connrec
  <2> HIDE DEF c1
  <2> QED BY <1>3, <1>4, ConnrecFields
<1>6. c3 \in Connrec
  <2> HIDE DEF c2
  <2> QED BY <1>3, <1>5, ConnrecFields
<1>7. c4 \in Connrec
  <2> HIDE DEF c3, reason
  <2> QED BY <1>3, <1>6, ConnrecFields
<1>8. /\ c4.nick = "shown" /\ c4.real_jid = "full" /\ c4.reconnection /\ c4.show = s.show
      /\ c4.away_reason = reason /\ c4.prompted_password = c.prompted_password
  BY <1>1 DEF Connrec
<1> HIDE DEF c1, c2, c3, c4
<1>9. InUse(c4)
  BY <1>7, <1>8 DEF InUse
<1>10. ASSUME NEW w, AsWanted(s, w) PROVE Restores(c4, w)
  BY <1>8, <1>10 DEF Restores, AsWanted
<1>11. \A n : Remembers(c, n) => Remembers(c4, n)
  BY <1>8 DEF Remembers
<1> QED BY <1>2, <1>9, <1>10, <1>11

-----------------------------------------------------------------------------
(* Server records. *)

LEMMA ServerFields ==
  ASSUME NEW s \in Server
  PROVE  /\ \A x \in Shows : [s EXCEPT !.show = x] \in Server
         /\ \A x \in Reasons : [s EXCEPT !.away_reason = x] \in Server
         /\ \A x \in Priorities : [s EXCEPT !.priority = x] \in Server
         /\ \A x \in BOOLEAN : [s EXCEPT !.usermode_away = x] \in Server
<1>1. \A x \in Shows : [s EXCEPT !.show = x] \in Server
  BY DEF Server
<1>2. \A x \in Reasons : [s EXCEPT !.away_reason = x] \in Server
  BY DEF Server
<1>3. \A x \in Priorities : [s EXCEPT !.priority = x] \in Server
  BY DEF Server
<1>4. \A x \in BOOLEAN : [s EXCEPT !.usermode_away = x] \in Server
  BY DEF Server
<1> QED BY <1>1, <1>2, <1>3, <1>4

(* A new server record is blank and has an acceptable priority. *)
LEMMA InitServerBlank ==
  ASSUME settings \in [normal : Priority, away : PriorityAway], NEW c \in Connrec
  PROVE  /\ Valid(InitServer(c)) /\ Blank(InitServer(c))
         /\ InitServer(c).jid = c.nick
<1>1. settings.normal \in Priorities /\ 0 \in Priorities /\ 0 \in -128..127
  BY DEF Priorities
<1> DEFINE p == IF xmpp_priority_out_of_bound(settings.normal) THEN 0 ELSE settings.normal
<1>2. p \in Priorities /\ p \in -128..127
  BY <1>1 DEF xmpp_priority_out_of_bound
<1>3. InitServer(c) = [jid |-> c.nick, show |-> UNAVAILABLE, away_reason |-> NULL,
                       priority |-> p, usermode_away |-> FALSE]
  BY DEF InitServer
<1> HIDE DEF p
<1>4. c.nick \in JidForm /\ UNAVAILABLE \in Shows /\ NULL \in Reasons
  BY DEF Connrec, Shows, Reasons
<1>5. InitServer(c) \in Server
  BY <1>2, <1>3, <1>4 DEF Server
<1>6. /\ InitServer(c).away_reason = NULL /\ InitServer(c).usermode_away = FALSE
      /\ InitServer(c).priority = p /\ InitServer(c).jid = c.nick
  BY <1>3
<1> QED BY <1>2, <1>5, <1>6 DEF Valid, Blank

(* A change of presence reaches the record and the XMPP server alike. *)
LEMMA SetPresenceKnown ==
  ASSUME NEW s, Valid(s), NEW h, NEW show \in Shows, NEW status \in Reasons,
         NEW kept \in Reasons, NEW p \in Priorities,
         NEW r, r = SetPresence(s, h, show, status, kept, p),
         xmpp_presence_changed(show, s.show, status, s.away_reason, p, s.priority)
  PROVE  /\ Valid(r.server) /\ r.server.jid = s.jid
         /\ r.server.show = show /\ r.server.away_reason = kept
         /\ r.server.priority = IF xmpp_priority_out_of_bound(p) THEN s.priority ELSE p
         /\ r.server.usermode_away <=> show # AVAILABLE
         /\ r.heard = [show |-> show, status |-> kept, priority |-> r.server.priority]
         /\ Heard(r.heard)
<1> DEFINE q  == IF xmpp_priority_out_of_bound(p) THEN s.priority ELSE p
           away == show # AVAILABLE
           s1 == [s EXCEPT !.show = show]
           s2 == [s1 EXCEPT !.away_reason = kept]
           s3 == [s2 EXCEPT !.priority = q]
           s4 == [s3 EXCEPT !.usermode_away = away]
<1>1. s \in Server /\ s.priority \in -128..127
  BY DEF Valid
<1>2. q \in Priorities /\ q \in -128..127
  BY <1>1 DEF Server, xmpp_priority_out_of_bound
<1>3. r = [server |-> s4, heard |-> [show |-> show, status |-> kept, priority |-> q]]
  BY DEF SetPresence
<1>4. s1 \in Server
  BY <1>1, ServerFields
<1>5. s2 \in Server
  <2> HIDE DEF s1
  <2> QED BY <1>4, ServerFields
<1>6. s3 \in Server
  <2> HIDE DEF s2, q
  <2> QED BY <1>2, <1>5, ServerFields
<1>7. s4 \in Server
  <2> HIDE DEF s3
  <2> QED BY <1>6, ServerFields
<1>8. /\ s4.jid = s.jid /\ s4.show = show /\ s4.away_reason = kept
      /\ s4.priority = q /\ s4.usermode_away = away
  BY <1>1 DEF Server
<1> HIDE DEF s1, s2, s3, s4
<1>9. /\ r.server = s4
      /\ r.heard = [show |-> show, status |-> kept, priority |-> q]
  BY <1>3
<1>10. Valid(r.server)
  BY <1>2, <1>7, <1>8, <1>9 DEF Valid
<1>11. Heard(r.heard)
  BY <1>2, <1>9 DEF Heard, Presence
<1>12. r.server.usermode_away <=> show # AVAILABLE
  BY <1>8, <1>9
<1> QED BY <1>8, <1>9, <1>10, <1>11, <1>12

LEMMA SetPresenceSame ==
  ASSUME NEW s, NEW h, NEW show, NEW status, NEW kept, NEW p,
         ~xmpp_presence_changed(show, s.show, status, s.away_reason, p, s.priority)
  PROVE  SetPresence(s, h, show, status, kept, p) = [server |-> s, heard |-> h]
  BY DEF SetPresence

(* The handlers of "server connected", in either order: the session is as the *)
(* user asked and the XMPP server knows it.                                   *)
LEMMA SigConnectedKnown ==
  ASSUME NEW s, Valid(s), Blank(s), s.show = AVAILABLE,
         NEW c \in Connrec, NEW w, Restores(c, w),
         NEW newest_first \in BOOLEAN, NEW r, r = SigConnected(newest_first, s, c)
  PROVE  /\ Valid(r.server) /\ r.server.jid = s.jid
         /\ AsWanted(r.server, w)
         /\ Known(r.server, r.heard) /\ Heard(r.heard)
<1> USE DEF Valid, Blank
<1> DEFINE same  == ~xmpp_presence_changed(c.show, s.show, c.away_reason, s.away_reason,
                                           c.priority, s.priority)
           first == [show |-> AVAILABLE, status |-> NULL, priority |-> s.priority]
<1>1. /\ s \in Server /\ s.away_reason = NULL /\ s.usermode_away = FALSE
      /\ s.priority \in Priorities /\ s.priority \in -128..127
      /\ c.show \in Shows /\ c.away_reason \in Reasons /\ c.priority \in Priorities
      /\ c.reconnection \in BOOLEAN
  BY DEF Server, Connrec
<1>2. Heard(first)
  <2>1. AVAILABLE \in Shows /\ NULL \in Reasons
    BY ShowAssumption DEF Shows, Reasons
  <2> QED BY <1>1, <2>1 DEF Heard, Presence
<1>3. Known(s, first)
  BY <1>1 DEF Known
<1>4. CASE ~c.reconnection
  <2>1. r = [server |-> s, heard |-> first]
    BY <1>4 DEF SigConnected, FirstPresence
  <2>2. AsWanted(s, w)
    BY <1>1, <1>4 DEF AsWanted, Restores
  <2> QED BY <1>1, <1>2, <1>3, <2>1, <2>2
<1>5. CASE c.reconnection /\ same
  <2>1. c.show = AVAILABLE /\ c.away_reason = NULL /\ c.priority = s.priority
    BY <1>1, <1>5 DEF xmpp_presence_changed
  <2>2. \A h : Restored(s, h, c) = [server |-> s, heard |-> h]
    BY <1>5, SetPresenceSame DEF Restored
  <2>3. FirstPresence(s, Nothing, c) = first
    BY <1>5 DEF FirstPresence
  <2>4. AsWanted(s, w)
    BY <1>1, <1>5, <2>1 DEF AsWanted, Restores
  <2>5. CASE ~newest_first
    <3>1. r = [server |-> s, heard |-> first]
      BY <1>5, <2>2, <2>3, <2>5 DEF SigConnected
    <3> QED BY <1>1, <1>2, <1>3, <2>4, <3>1
  <2>6. CASE newest_first
    <3>1. Restored(s, Nothing, c).server = s /\ Restored(s, Nothing, c).heard = Nothing
      BY <2>2
    <3> DEFINE d == [c EXCEPT !.away_reason = NULL]
    <3>2. /\ d.show = c.show /\ d.away_reason = NULL /\ d.priority = c.priority
          /\ d.reconnection = c.reconnection
      BY DEF Connrec
    <3>3. FirstPresence(s, Nothing, d) = first
      <4> HIDE DEF d
      <4> QED BY <1>1, <1>5, <2>1, <3>2 DEF FirstPresence, xmpp_presence_changed
    <3>4. r = [server |-> s, heard |-> first]
      BY <1>5, <2>6, <3>1, <3>3 DEF SigConnected
    <3> QED BY <1>1, <1>2, <1>3, <2>4, <3>4
  <2> QED BY <2>5, <2>6
<1>6. CASE c.reconnection /\ ~same
  <2> DEFINE t(h) == Restored(s, h, c)
  <2>1. ASSUME NEW h
        PROVE  /\ Valid(t(h).server) /\ t(h).server.jid = s.jid
               /\ t(h).server.show = c.show /\ t(h).server.away_reason = c.away_reason
               /\ t(h).server.usermode_away <=> c.show # AVAILABLE
               /\ t(h).heard = [show |-> c.show, status |-> c.away_reason,
                                priority |-> t(h).server.priority]
               /\ Heard(t(h).heard)
    <3>1. PICK g : g = t(h)
      OBVIOUS
    <3>2. g = SetPresence(s, h, c.show, c.away_reason, c.away_reason, c.priority)
      BY <3>1 DEF Restored
    <3>3. Valid(s)
      OBVIOUS
    <3> HIDE DEF t, Valid
    <3>4. xmpp_presence_changed(c.show, s.show, c.away_reason, s.away_reason,
                                c.priority, s.priority)
      BY <1>6
    <3>5. /\ Valid(g.server) /\ g.server.jid = s.jid
          /\ g.server.show = c.show /\ g.server.away_reason = c.away_reason
          /\ g.server.usermode_away <=> c.show # AVAILABLE
          /\ g.heard = [show |-> c.show, status |-> c.away_reason,
                        priority |-> g.server.priority]
          /\ Heard(g.heard)
      BY <1>1, <3>2, <3>3, <3>4, SetPresenceKnown
    <3> QED BY <3>1, <3>5
  <2>2. \A h : t(h).server = t(Nothing).server
    BY <1>6 DEF Restored, SetPresence
  <2> HIDE DEF t
  <2> DEFINE u == t(Nothing).server
  <2>3. AsWanted(u, w)
    BY <1>6, <2>1 DEF AsWanted, Restores
  <2>4. Known(u, t(Nothing).heard)
    BY <2>1 DEF Known
  <2>5. CASE ~newest_first
    <3>1. FirstPresence(s, Nothing, c) = Nothing
      BY <1>6 DEF FirstPresence
    <3>2. r = t(Nothing)
      BY <1>6, <2>5, <3>1 DEF SigConnected, t
    <3> QED BY <2>1, <2>3, <2>4, <3>2
  <2>6. CASE newest_first
    <3> DEFINE d == [c EXCEPT !.away_reason = NULL]
               h == FirstPresence(u, t(Nothing).heard, d)
    <3>1. /\ d.show = c.show /\ d.away_reason = NULL /\ d.priority = c.priority
          /\ d.reconnection = c.reconnection
      BY DEF Connrec
    <3>2. r.server = u /\ r.heard = h
      BY <1>6, <2>6 DEF SigConnected, t
    <3> HIDE DEF d
    <3>3. CASE xmpp_presence_changed(d.show, u.show, d.away_reason, u.away_reason, d.priority, u.priority)
      <4>1. h = t(Nothing).heard
        BY <1>6, <3>1, <3>3 DEF FirstPresence
      <4> QED BY <2>1, <2>3, <2>4, <3>2, <4>1
    <3>4. CASE ~xmpp_presence_changed(d.show, u.show, d.away_reason, u.away_reason, d.priority, u.priority)
      <4>1. h = [show |-> AVAILABLE, status |-> NULL, priority |-> u.priority]
        BY <3>4 DEF FirstPresence
      <4>2. u.away_reason = NULL
        BY <3>1, <3>4 DEF xmpp_presence_changed
      <4>3. Known(u, h)
        BY <4>1, <4>2 DEF Known
      <4>4. Heard(h)
        <5>1. AVAILABLE \in Shows /\ NULL \in Reasons
          BY ShowAssumption DEF Shows, Reasons
        <5>2. u.priority \in Priorities /\ u.priority \in -128..127
          BY <2>1 DEF Server
        <5> QED BY <4>1, <5>1, <5>2 DEF Heard, Presence
      <4> QED BY <2>1, <2>3, <3>2, <4>3, <4>4
    <3> QED BY <3>3, <3>4
  <2> QED BY <2>5, <2>6
<1> QED BY <1>1, <1>4, <1>5, <1>6

-----------------------------------------------------------------------------
(* The invariant. *)

LEMMA TypeParts ==
  TypeOK <=>
    /\ settings \in [normal : Priority, away : PriorityAway]
    /\ phase \in Phase
    /\ Valid(server)
    /\ conn \in Connrec
    /\ reconnect \in BOOLEAN /\ lookup \in BOOLEAN
    /\ stale \in BOOLEAN /\ timer \in BOOLEAN
    /\ Heard(heard)
    /\ wanted \in [show : Show, reason : Reason \cup {NULL}]
    /\ prompts \in Nat
  BY DEF TypeOK, Valid, Heard

LEMMA NothingHeard == Heard(Nothing)
  BY DEF Heard, Nothing, Presence, Shows, Reasons, Priorities

(* Before anything happens. *)
LEMMA NewQueued ==
  /\ Queued(NewConnrec)
  /\ \A w : w.show = AVAILABLE => Restores(NewConnrec, w)
  /\ Remembers(NewConnrec, 0)
<1>1. NewConnrec \in Connrec
  BY DEF NewConnrec, Connrec, JidForm, Shows, Reasons, Priorities
<1> QED BY <1>1 DEF NewConnrec, Queued, Restores, Remembers

LEMMA InitInv == Init => Inv
<1> SUFFICES ASSUME Init PROVE Inv
  OBVIOUS
<1>1. Valid(server)
  BY DEF Init, Valid, Server, JidForm, Shows, Reasons, Priorities
<1>2. wanted \in [show : Show, reason : Reason \cup {NULL}]
  BY ShowAssumption DEF Init
<1>3. conn \in Connrec
  BY NewQueued DEF Init, Queued
<1>4. Heard(heard)
  BY NothingHeard DEF Init
<1>5. TypeOK
  BY <1>1, <1>2, <1>3, <1>4, TypeParts DEF Init, Phase
<1>6. Remembers(conn, prompts)
  BY NewQueued DEF Init
<1> QED BY <1>5, <1>6 DEF Init, Inv, TimerWhileConnecting, Connecting

(* An attempt starts. *)
LEMMA AttemptInv ==
  ASSUME Inv, phase = "none", NEW c, Queued(c), StartAttempt(c),
         prompts' \in Nat, Remembers(c, prompts'), Restores(c, wanted'),
         wanted' \in [show : Show, reason : Reason \cup {NULL}]
  PROVE  Inv'
<1>1. TypeOK /\ c \in Connrec /\ c.nick = "full"
  BY DEF Inv, Queued
<1>2. /\ InUse(NickKept(c)) /\ Remembers(NickKept(c), prompts')
      /\ Restores(NickKept(c), wanted')
  BY NickKeptInUse
<1>3. /\ Valid(server') /\ Blank(server') /\ server'.jid = "full"
  BY <1>1, TypeParts, InitServerBlank DEF StartAttempt
<1>4. ~timer /\ ~lookup
  BY DEF Inv, TimerWhileConnecting, Connecting
<1>5. CASE phase' = "lookup" /\ lookup' = TRUE /\ timer' = TRUE
           /\ conn' = NickKept(c) /\ reconnect' = FALSE
  <2>1. TypeOK'
    BY <1>1, <1>2, <1>3, <1>5, TypeParts DEF TypeOK, Valid, Heard, StartAttempt, InUse, Phase
  <2> QED BY <1>2, <1>3, <1>5, <2>1 DEF Inv, TimerWhileConnecting, Connecting
<1>6. CASE reconnect' = TRUE /\ conn' \in CopyConn(NickKept(c))
           /\ UNCHANGED <<phase, lookup, timer>>
  <2>1. Queued(conn') /\ Remembers(conn', prompts') /\ Restores(conn', wanted')
    BY <1>2, <1>6, CopyQueued
  <2>2. TypeOK'
    BY <1>1, <1>3, <1>6, <2>1, TypeParts DEF TypeOK, Valid, Heard, StartAttempt, Queued, Phase
  <2> QED BY <1>4, <1>6, <2>1, <2>2 DEF Inv, TimerWhileConnecting, Connecting
<1> QED BY <1>5, <1>6 DEF StartAttempt

(* A server record goes away. *)
LEMMA EndInv ==
  ASSUME Inv, NEW lost \in BOOLEAN, NEW c, InUse(c), End(lost, c),
         Remembers(c, prompts), lost => Restores(c, wanted),
         lookup' = FALSE, stale' \in BOOLEAN, UNCHANGED <<settings, wanted, prompts>>
  PROVE  Inv'
<1>1. TypeOK /\ c \in Connrec
  BY DEF Inv, InUse
<1>2. /\ phase' = "none" /\ timer' = FALSE /\ heard' = Nothing
      /\ reconnect' = lost /\ server' = server
      /\ IF lost THEN conn' \in CopyConn(c) ELSE conn' = c
  BY DEF End
<1>3. /\ lost => Queued(conn') /\ Restores(conn', wanted)
      /\ Remembers(conn', prompts) /\ conn' \in Connrec
  BY <1>1, <1>2, CopyQueued DEF Queued
<1>4. TypeOK'
  BY <1>1, <1>2, <1>3, NothingHeard, TypeParts DEF TypeOK, Valid, Heard, Phase
<1> QED BY <1>2, <1>3, <1>4 DEF Inv, TimerWhileConnecting, Connecting

(* Passwords do not matter to the rest of a connection record. *)
LEMMA PasswordInUse ==
  ASSUME NEW c, InUse(c), NEW pw \in {NULL, "", "typed"}, NEW w, Restores(c, w)
  PROVE  LET d == [c EXCEPT !.password = pw]
             e == [d EXCEPT !.prompted_password = "typed"] IN
         /\ InUse(d) /\ Restores(d, w)
         /\ d.prompted_password = c.prompted_password
         /\ InUse(e) /\ Restores(e, w)
         /\ e.prompted_password = "typed"
<1> DEFINE d == [c EXCEPT !.password = pw]
           e == [d EXCEPT !.prompted_password = "typed"]
<1>1. c \in Connrec /\ c.nick = "shown" /\ c.real_jid = "full"
  BY DEF InUse
<1>2. d \in Connrec
  BY <1>1, ConnrecFields
<1>3. e \in Connrec
  <2> HIDE DEF d
  <2> QED BY <1>2, ConnrecFields
<1>4. /\ d.nick = "shown" /\ d.real_jid = "full" /\ d.reconnection = c.reconnection
      /\ d.show = c.show /\ d.away_reason = c.away_reason
      /\ d.prompted_password = c.prompted_password
  BY <1>1 DEF Connrec
<1>5. /\ e.nick = d.nick /\ e.real_jid = d.real_jid /\ e.reconnection = d.reconnection
      /\ e.show = d.show /\ e.away_reason = d.away_reason
      /\ e.prompted_password = "typed"
  <2> HIDE DEF d
  <2> QED BY <1>2 DEF Connrec
<1> HIDE DEF d, e
<1>6. InUse(d) /\ InUse(e)
  BY <1>2, <1>3, <1>4, <1>5 DEF InUse
<1>7. Restores(d, w) /\ Restores(e, w)
  BY <1>4, <1>5 DEF Restores
<1>8. d.prompted_password = c.prompted_password /\ e.prompted_password = "typed"
  BY <1>4, <1>5
<1> QED BY <1>6, <1>7, <1>8 DEF d, e

LEMMA StreamOpenedInv == Inv /\ StreamOpened => Inv'
<1> SUFFICES ASSUME Inv, StreamOpened PROVE Inv'
  OBVIOUS
<1>1. /\ TypeOK /\ phase = "lookup" /\ phase' = "auth" /\ timer /\ lookup /\ ~reconnect
      /\ InUse(conn) /\ server.jid = "full" /\ Blank(server) /\ Restores(conn, wanted)
      /\ Remembers(conn, prompts)
      /\ UNCHANGED <<settings, server, reconnect, lookup, stale, timer, heard, wanted>>
  BY DEF StreamOpened, Inv, TimerWhileConnecting, Connecting
<1>2. /\ InUse(conn') /\ Restores(conn', wanted) /\ Remembers(conn', prompts') /\ prompts' \in Nat
  <2>1. prompts \in Nat /\ conn.prompted_password \in {NULL, "typed"}
    BY <1>1 DEF TypeOK, Connrec
  <2>2. CASE /\ conn.prompted_password # NULL
             /\ conn' = [conn EXCEPT !.password = conn.prompted_password]
             /\ prompts' = prompts
    <3>1. /\ InUse(conn') /\ Restores(conn', wanted)
          /\ conn'.prompted_password = conn.prompted_password
      BY <1>1, <2>1, <2>2, PasswordInUse
    <3> QED BY <1>1, <2>1, <2>2, <3>1 DEF Remembers
  <2>3. CASE conn' = conn /\ prompts' = prompts
    BY <1>1, <2>1, <2>3
  <2>4. CASE /\ conn.prompted_password = NULL
             /\ conn' = [conn EXCEPT !.password = "typed", !.prompted_password = "typed"]
             /\ prompts' = prompts + 1
    <3>1. InUse(conn') /\ Restores(conn', wanted) /\ conn'.prompted_password = "typed"
      BY <1>1, <2>4, PasswordInUse
    <3>2. prompts = 0
      BY <1>1, <2>4, NullAssumption DEF Remembers
    <3> QED BY <2>4, <3>1, <3>2 DEF Remembers
  <2>5. CASE conn' = [conn EXCEPT !.password = ""] /\ prompts' = prompts
    <3>1. /\ InUse(conn') /\ Restores(conn', wanted)
          /\ conn'.prompted_password = conn.prompted_password
      BY <1>1, <2>5, PasswordInUse
    <3> QED BY <1>1, <2>1, <2>5, <3>1 DEF Remembers
  <2> QED BY <2>2, <2>3, <2>4, <2>5 DEF StreamOpened
<1>3. TypeOK'
  BY <1>1, <1>2 DEF TypeOK, InUse, Phase
<1> QED BY <1>1, <1>2, <1>3 DEF Inv, TimerWhileConnecting, Connecting

LEMMA AuthenticatedInv == Inv /\ Authenticated => Inv'
<1> SUFFICES ASSUME Inv, Authenticated PROVE Inv'
  OBVIOUS
<1> DEFINE s == [server EXCEPT !.show = AVAILABLE]
<1>1. /\ TypeOK /\ phase = "auth" /\ phase' = "online" /\ lookup' = FALSE /\ timer' = FALSE
      /\ InUse(conn) /\ server.jid = "full" /\ Blank(server) /\ Restores(conn, wanted)
      /\ Remembers(conn, prompts) /\ ~reconnect
      /\ UNCHANGED <<settings, reconnect, stale, wanted, prompts>>
  BY DEF Authenticated, Inv, Connecting
<1>2. server \in Server /\ server.priority \in -128..127 /\ conn \in Connrec
  BY <1>1 DEF TypeOK
<1>3. Valid(s) /\ Blank(s) /\ s.show = AVAILABLE /\ s.jid = "full"
  <2>1. s \in Server
    BY <1>2, ShowAssumption, ServerFields DEF Shows
  <2>2. /\ s.jid = server.jid /\ s.show = AVAILABLE /\ s.away_reason = server.away_reason
        /\ s.usermode_away = server.usermode_away /\ s.priority = server.priority
    BY <1>2 DEF Server
  <2> HIDE DEF s
  <2> QED BY <1>1, <1>2, <2>1, <2>2 DEF Valid, Blank
<1> HIDE DEF s
<1>4. PICK newest_first \in BOOLEAN :
        /\ server' = SigConnected(newest_first, s, conn).server
        /\ heard'  = SigConnected(newest_first, s, conn).heard
  BY DEF Authenticated, s
<1>5. /\ Valid(server') /\ server'.jid = "full" /\ AsWanted(server', wanted)
      /\ Known(server', heard') /\ Heard(heard')
  BY <1>1, <1>2, <1>3, <1>4, SigConnectedKnown
<1>6. InUse(conn') /\ Remembers(conn', prompts)
  <2>1. CASE conn' = conn
    BY <1>1, <2>1
  <2>2. CASE conn' = [conn EXCEPT !.away_reason = NULL]
    <3>1. conn' \in Connrec
      BY <1>2, <2>2, ConnrecFields DEF Reasons
    <3>2. /\ conn'.nick = conn.nick /\ conn'.real_jid = conn.real_jid
          /\ conn'.prompted_password = conn.prompted_password
      BY <1>2, <2>2 DEF Connrec
    <3> QED BY <1>1, <3>1, <3>2 DEF InUse, Remembers
  <2> QED BY <2>1, <2>2 DEF Authenticated
<1>7. TypeOK'
  BY <1>1, <1>5, <1>6 DEF TypeOK, Valid, Heard, InUse, Phase
<1> QED BY <1>1, <1>5, <1>6, <1>7 DEF Inv, TimerWhileConnecting, Connecting

LEMMA SetAwayInv ==
  ASSUME Inv, NEW show \in Show, NEW reason \in Reason \cup {NULL}, set_away(show, reason)
  PROVE  Inv'
<1> DEFINE p == IF show = AWAY THEN settings.away ELSE settings.normal
           r == SetPresence(server, heard, show, reason, reason, p)
<1>1. /\ TypeOK /\ phase = "online" /\ Valid(server) /\ Heard(heard)
      /\ InUse(conn) /\ server.jid = "full" /\ Remembers(conn, prompts) /\ ~reconnect
      /\ ~timer /\ ~lookup
      /\ AsWanted(server, wanted) /\ Known(server, heard)
  BY TypeParts DEF set_away, Inv, TimerWhileConnecting, Connecting
<1>2. /\ server' = r.server /\ heard' = r.heard
      /\ wanted' = [show |-> show, reason |-> reason]
      /\ UNCHANGED <<settings, phase, conn, reconnect, lookup, stale, timer, prompts>>
  BY DEF set_away
<1>3. p \in Priorities /\ show \in Shows /\ reason \in Reasons
  BY <1>1 DEF TypeOK, Priorities, Shows, Reasons
<1> HIDE DEF p
<1>4. /\ Valid(server') /\ server'.jid = "full" /\ AsWanted(server', wanted')
      /\ Known(server', heard') /\ Heard(heard')
  <2>1. CASE ~xmpp_presence_changed(show, server.show, reason, server.away_reason, p, server.priority)
    <3>1. server' = server /\ heard' = heard
      BY <1>2, <2>1, SetPresenceSame
    <3>2. show = server.show /\ reason = server.away_reason
      BY <2>1 DEF xmpp_presence_changed
    <3>3. AsWanted(server, wanted')
      BY <1>1, <1>2, <3>2 DEF AsWanted
    <3> QED BY <1>1, <3>1, <3>3
  <2>2. CASE xmpp_presence_changed(show, server.show, reason, server.away_reason, p, server.priority)
    <3>1. /\ Valid(r.server) /\ r.server.jid = server.jid
          /\ r.server.show = show /\ r.server.away_reason = reason
          /\ r.server.usermode_away <=> show # AVAILABLE
          /\ r.heard = [show |-> show, status |-> reason, priority |-> r.server.priority]
          /\ Heard(r.heard)
      BY <1>1, <1>3, <2>2, SetPresenceKnown
    <3> HIDE DEF r
    <3>2. AsWanted(r.server, wanted')
      BY <1>2, <3>1 DEF AsWanted
    <3>3. Known(r.server, r.heard)
      BY <3>1 DEF Known
    <3> QED BY <1>1, <1>2, <3>1, <3>2, <3>3
  <2> QED BY <2>1, <2>2
<1>5. TypeOK'
  BY <1>1, <1>2, <1>4 DEF TypeOK, Valid, Heard
<1> QED BY <1>1, <1>2, <1>4, <1>5 DEF Inv, TimerWhileConnecting, Connecting

LEMMA ReadSettingsInv ==
  ASSUME Inv, NEW normal \in Priority, NEW away \in PriorityAway, read_settings(normal, away)
  PROVE  Inv'
<1> DEFINE p == IF server.show = AWAY THEN away ELSE normal
<1>1. /\ TypeOK /\ settings' \in [normal : Priority, away : PriorityAway]
      /\ UNCHANGED <<phase, conn, reconnect, lookup, stale, timer, wanted, prompts>>
  BY DEF Inv, read_settings
<1>2. CASE UNCHANGED <<server, heard>>
  <2>1. TypeOK'
    BY <1>1, <1>2 DEF TypeOK
  <2> QED BY <1>1, <1>2, <2>1 DEF Inv, TimerWhileConnecting, Connecting
<1>3. CASE /\ phase = "online" /\ server.priority # p
           /\ \E kept \in {server.away_reason, GARBAGE} :
                LET r == SetPresence(server, heard, server.show, server.away_reason, kept, p)
                IN server' = r.server /\ heard' = r.heard
  <2>1. PICK kept \in {server.away_reason, GARBAGE} :
          LET r == SetPresence(server, heard, server.show, server.away_reason, kept, p)
          IN server' = r.server /\ heard' = r.heard
    BY <1>3
  <2> DEFINE r == SetPresence(server, heard, server.show, server.away_reason, kept, p)
  <2>2. /\ Valid(server) /\ InUse(conn) /\ server.jid = "full" /\ AsWanted(server, wanted)
        /\ Remembers(conn, prompts) /\ ~reconnect /\ ~timer /\ ~lookup
    BY <1>1, <1>3, TypeParts DEF Inv, TimerWhileConnecting, Connecting
  <2>3. p \in Priorities /\ server.show \in Shows /\ server.away_reason \in Reasons /\ kept \in Reasons
    BY <2>2 DEF Valid, Server, Priorities, Reasons
  <2>4. xmpp_presence_changed(server.show, server.show, server.away_reason,
                              server.away_reason, p, server.priority)
    BY <1>3 DEF xmpp_presence_changed
  <2> HIDE DEF p
  <2>5. /\ Valid(r.server) /\ r.server.jid = server.jid
        /\ r.server.show = server.show /\ r.server.away_reason = kept
        /\ r.server.usermode_away <=> server.show # AVAILABLE
        /\ r.heard = [show |-> server.show, status |-> kept, priority |-> r.server.priority]
        /\ Heard(r.heard)
    BY <2>2, <2>3, <2>4, SetPresenceKnown
  <2>6. server' = r.server /\ heard' = r.heard
    BY <2>1
  <2> HIDE DEF r
  <2>7. AsWanted(r.server, wanted)
    BY <2>1, <2>2, <2>5 DEF AsWanted
  <2>8. Known(r.server, r.heard)
    BY <2>5 DEF Known
  <2>9. TypeOK'
    BY <1>1, <2>5, <2>6 DEF TypeOK, Valid, Heard
  <2> QED BY <1>1, <1>3, <2>2, <2>5, <2>6, <2>7, <2>8, <2>9 DEF Inv, TimerWhileConnecting, Connecting
<1>4. \/ UNCHANGED <<server, heard>>
      \/ /\ phase = "online" /\ server.priority # p
         /\ \E kept \in {server.away_reason, GARBAGE} :
              LET r == SetPresence(server, heard, server.show, server.away_reason, kept, p)
              IN server' = r.server /\ heard' = r.heard
  BY DEF read_settings
<1> QED BY <1>2, <1>3, <1>4

(* /RECONNECT ends a session and starts an attempt from what is saved of it. *)
LEMMA CmdReconnectInv == Inv /\ CmdReconnect => Inv'
<1> SUFFICES ASSUME Inv, CmdReconnect PROVE Inv'
  OBVIOUS
<1>1. /\ TypeOK /\ phase = "online" /\ Valid(server) /\ InUse(conn)
      /\ Remembers(conn, prompts) /\ ~reconnect /\ AsWanted(server, wanted)
  BY TypeParts DEF CmdReconnect, Inv
<1>2. PICK c \in CopyConn(SaveStatus(conn, server)) :
        server' = InitServer(c) /\ conn' = NickKept(c)
  BY DEF CmdReconnect
<1>3. Queued(c) /\ Remembers(c, prompts) /\ Restores(c, wanted)
  <2>1. server \in Server
    BY <1>1 DEF Valid
  <2> QED BY <1>1, <1>2, <2>1, SaveStatusInUse, CopyQueued
<1>4. InUse(conn') /\ Remembers(conn', prompts) /\ Restores(conn', wanted)
  BY <1>2, <1>3, NickKeptInUse
<1>5. Valid(server') /\ Blank(server') /\ server'.jid = "full"
  BY <1>1, <1>2, <1>3, InitServerBlank DEF TypeOK, Queued
<1>6. /\ phase' = "lookup" /\ lookup' = TRUE /\ timer' = TRUE /\ heard' = Nothing
      /\ UNCHANGED <<settings, reconnect, stale, wanted, prompts>>
  BY DEF CmdReconnect
<1>7. TypeOK'
  BY <1>1, <1>4, <1>5, <1>6, NothingHeard DEF TypeOK, Valid, Heard, InUse, Phase
<1> QED BY <1>1, <1>4, <1>5, <1>6, <1>7 DEF Inv, TimerWhileConnecting, Connecting

-----------------------------------------------------------------------------
LEMMA NextInv == Inv /\ [Next]_vars => Inv'
<1> SUFFICES ASSUME Inv, [Next]_vars PROVE Inv'
  OBVIOUS
<1>1. /\ TypeOK /\ (phase = "online" => ~lookup) /\ Remembers(conn, prompts)
      /\ reconnect => phase = "none" /\ Queued(conn) /\ Restores(conn, wanted)
      /\ phase # "none" => InUse(conn)
      /\ Connecting => Restores(conn, wanted)
      /\ phase = "online" => AsWanted(server, wanted)
      /\ timer => Connecting
  BY DEF Inv, TimerWhileConnecting, Connecting
<1>2. CASE Connect
  <2>1. wanted' \in [show : Show, reason : Reason \cup {NULL}] /\ wanted'.show = AVAILABLE
    BY <1>2, ShowAssumption DEF Connect
  <2> QED BY <1>2, <2>1, NewQueued, AttemptInv DEF Connect
<1>3. CASE Reconnect
  BY <1>1, <1>3, AttemptInv DEF Reconnect, TypeOK
<1>4. CASE StreamOpened
  BY <1>4, StreamOpenedInv
<1>5. CASE StreamFails
  <2>1. TypeOK'
    BY <1>1, <1>5 DEF StreamFails, TypeOK, Phase
  <2> QED BY <1>5, <2>1 DEF StreamFails, Inv, TimerWhileConnecting, Connecting
<1>6. CASE Authenticated
  BY <1>6, AuthenticatedInv
<1>7. CASE AuthFails
  BY <1>1, <1>7, EndInv DEF AuthFails, TypeOK
<1>8. CASE check_connection_timeout
  <2>1. lookup /\ phase \notin {"none", "online"}
    BY <1>8 DEF check_connection_timeout, Inv, TimerWhileConnecting, Connecting
  <2> QED BY <1>1, <1>8, <2>1, EndInv DEF check_connection_timeout
<1>9. CASE LinkLost
  <2>1. InUse(conn) /\ server \in Server /\ stale \in BOOLEAN
    BY <1>1, <1>9 DEF LinkLost, TypeOK
  <2>2. /\ InUse(SaveStatus(conn, server)) /\ Restores(SaveStatus(conn, server), wanted)
        /\ Remembers(SaveStatus(conn, server), prompts)
    BY <1>1, <1>9, <2>1, SaveStatusInUse DEF LinkLost
  <2>3. lookup' = FALSE
    BY <1>1, <1>9 DEF LinkLost, TypeOK
  <2> QED BY <1>9, <2>1, <2>2, <2>3, EndInv DEF LinkLost
<1>10. CASE Disconnect
  BY <1>1, <1>10, EndInv DEF Disconnect, TypeOK
<1>11. CASE CmdReconnect
  BY <1>11, CmdReconnectInv
<1>12. CASE CancelReconnect
  <2>1. TypeOK'
    BY <1>1, <1>12 DEF CancelReconnect, TypeOK
  <2> QED BY <1>12, <2>1 DEF CancelReconnect, Inv, TimerWhileConnecting, Connecting
<1>13. CASE disconnect_all
  BY <1>1, <1>13, EndInv DEF disconnect_all, TypeOK
<1>14. CASE \E show \in Show, reason \in Reason \cup {NULL} : set_away(show, reason)
  BY <1>14, SetAwayInv
<1>15. CASE \E normal \in Priority, away \in PriorityAway : read_settings(normal, away)
  BY <1>15, ReadSettingsInv
<1>16. CASE UNCHANGED vars
  <2>1. TypeOK'
    BY <1>1, <1>16 DEF vars, TypeOK
  <2> QED BY <1>16, <2>1 DEF vars, Inv, TimerWhileConnecting, Connecting
<1> QED BY <1>2, <1>3, <1>4, <1>5, <1>6, <1>7, <1>8, <1>9, <1>10, <1>11, <1>12,
           <1>13, <1>14, <1>15, <1>16 DEF Next

(* The session is always as the inductive invariant says. *)
THEOREM SessionInvariant == Spec => []Inv
<1>1. Init => Inv
  BY InitInv
<1>2. Inv /\ [Next]_vars => Inv'
  BY NextInv
<1> QED BY <1>1, <1>2, PTL DEF Spec

(* xmpp_priority_out_of_bound: the types hold, and no priority that XMPP does *)
(* not have is kept or announced, whatever the settings are.                  *)
THEOREM SessionTypeOK == Spec => []TypeOK
<1>1. Inv => TypeOK
  BY DEF Inv
<1> QED BY <1>1, SessionInvariant, PTL

(* The timeout of xmpp_server_connect and the place in lookup_servers last as *)
(* long as the attempt.                                                       *)
THEOREM SessionTimer == Spec => []TimerWhileConnecting
<1>1. Inv => TimerWhileConnecting
  BY DEF Inv
<1> QED BY <1>1, SessionInvariant, PTL

(* "Don't forget the resource part of the jid on reconnection" (NEWS 0.52),   *)
(* for any number of attempts and copies of the connection record.            *)
THEOREM SessionIdentity == Spec => []IdentityKept
<1>1. Inv => IdentityKept
  BY DEF Inv, IdentityKept
<1> QED BY <1>1, SessionInvariant, PTL

(* "No more password prompt on reconnection" (NEWS 0.52), likewise. *)
THEOREM SessionNotAskedAgain == Spec => []NotAskedAgain
<1>1. Inv => NotAskedAgain
  BY DEF Inv, Remembers, NotAskedAgain
<1> QED BY <1>1, SessionInvariant, PTL

(* The XMPP server knows the presence of the server record, in whatever order *)
(* the two handlers of "server connected" are served.                         *)
THEOREM SessionPresenceKnown == Spec => []PresenceKnown
<1>1. Inv => PresenceKnown
  BY DEF Inv, Known, PresenceKnown
<1> QED BY <1>1, SessionInvariant, PTL

(* The status that the user asked for last survives any number of losses and  *)
(* failed attempts (sig_save_status, sig_server_connect_copy, sig_connected). *)
THEOREM SessionStatusSurvives == Spec => []StatusSurvives
<1>1. Inv => StatusSurvives
  BY DEF Inv, AsWanted, StatusSurvives
<1> QED BY <1>1, SessionInvariant, PTL

-----------------------------------------------------------------------------
(* Registration. *)

(* What the callbacks of registration.c do to the session is what the user    *)
(* could do: a session that is registered first is a session.                 *)
THEOREM RegistrationImplementsSession == RegistrationSpec => Spec
<1>1. RegistrationInit => Init
  BY DEF RegistrationInit
<1>2. [RegistrationNext]_<<vars, registration_vars>> => [Next]_vars
  BY DEF RegistrationNext, registration_vars, cmd_xmppregister, register_lm_open_cb,
         handle_register, register_lm_close_cb, registration_deinit, Next
<1> QED BY <1>1, <1>2, PTL DEF RegistrationSpec, Spec

(* Each record has one line and one verdict to come. *)
RegistrationInv ==
  /\ CallbacksHaveRecord
  /\ OneVerdict
  /\ rd \in BOOLEAN
  /\ rd => line.refs = 1

(* A callback that learns the outcome ends the registration. *)
LEMMA CleanupInv ==
  ASSUME RegistrationInv, line.calls # {}, rd_cleanup
  PROVE  /\ line'.calls = {} /\ rd' = FALSE
         /\ owed' \in {owed - 1, 0} => RegistrationInv'
<1>1. rd = TRUE /\ line.refs = 1 /\ owed = 1
  BY DEF RegistrationInv, CallbacksHaveRecord, OneVerdict
<1>2. line' = [refs |-> line.refs - 1, calls |-> {}]
  BY <1>1 DEF rd_cleanup, Release
<1>3. rd' = FALSE
  BY DEF rd_cleanup
<1>4. line'.calls = {}
  BY <1>2
<1>5. ASSUME owed' \in {owed - 1, 0} PROVE owed' = 0
  BY <1>1, <1>5
<1> QED BY <1>3, <1>4, <1>5 DEF RegistrationInv, CallbacksHaveRecord, OneVerdict

(* The four parts hold together, in whatever order the line breaks, answers   *)
(* and is closed (rd_cleanup, register_lm_open_cb, handle_register,           *)
(* register_lm_close_cb).                                                     *)
THEOREM RegistrationInvariant == RegistrationSpec => []RegistrationInv
<1>1. RegistrationInit => RegistrationInv
  <2> SUFFICES ASSUME RegistrationInit PROVE RegistrationInv
    OBVIOUS
  <2>1. rd = FALSE /\ owed = 0 /\ line.calls = {}
    BY DEF RegistrationInit, NoLine
  <2> QED BY <2>1 DEF RegistrationInv, CallbacksHaveRecord, OneVerdict
<1>2. RegistrationInv /\ [RegistrationNext]_<<vars, registration_vars>> => RegistrationInv'
  <2> SUFFICES ASSUME RegistrationInv, [RegistrationNext]_<<vars, registration_vars>>
               PROVE  RegistrationInv'
    OBVIOUS
  <2>1. CASE UNCHANGED registration_vars
    BY <2>1 DEF registration_vars, RegistrationInv, CallbacksHaveRecord, OneVerdict
  <2>2. CASE cmd_xmppregister
    <3>1. rd = FALSE /\ owed = 0
      BY <2>2 DEF cmd_xmppregister, RegistrationInv, OneVerdict
    <3>2. CASE rd' = TRUE /\ line' = OpenLine({"open", "close"}) /\ owed' = owed + 1
      <4>1. line'.refs = 1 /\ owed' = 1
        BY <3>1, <3>2 DEF OpenLine
      <4> QED BY <3>2, <4>1 DEF RegistrationInv, CallbacksHaveRecord, OneVerdict
    <3>3. CASE rd' = rd /\ owed' = owed /\ line' \in {NoLine, Release(NoLine)}
      <4>1. line'.calls = {}
        BY <3>3 DEF NoLine, Release
      <4> QED BY <3>1, <3>3, <4>1 DEF RegistrationInv, CallbacksHaveRecord, OneVerdict
    <3> QED BY <2>2, <3>2, <3>3 DEF cmd_xmppregister
  <2>3. CASE register_lm_open_cb
    <3>1. line.calls # {}
      BY <2>3 DEF register_lm_open_cb
    <3>2. CASE line' = OpenLine({"reply", "close"}) /\ UNCHANGED <<rd, owed>>
      <4>1. rd = TRUE /\ line'.refs = 1
        BY <3>1, <3>2 DEF OpenLine, RegistrationInv, CallbacksHaveRecord
      <4> QED BY <3>2, <4>1 DEF RegistrationInv, CallbacksHaveRecord, OneVerdict
    <3> QED BY <2>3, <3>1, <3>2, CleanupInv DEF register_lm_open_cb, Verdict
  <2>4. CASE handle_register
    <3>1. line.calls # {}
      BY <2>4 DEF handle_register
    <3> QED BY <2>4, <3>1, CleanupInv DEF handle_register, Verdict
  <2>5. CASE register_lm_close_cb
    <3>1. line.calls # {}
      BY <2>5 DEF register_lm_close_cb
    <3> QED BY <2>5, <3>1, CleanupInv DEF register_lm_close_cb, Verdict
  <2>6. CASE registration_deinit
    <3>1. rd = TRUE /\ line.refs = 1 /\ rd' = FALSE /\ owed' = 0
      BY <2>6 DEF registration_deinit, rd_cleanup, RegistrationInv
    <3>2. line'.calls = {}
      BY <2>6, <3>1 DEF registration_deinit, rd_cleanup, Release
    <3> QED BY <3>1, <3>2 DEF RegistrationInv, CallbacksHaveRecord, OneVerdict
  <2> QED BY <2>1, <2>2, <2>3, <2>4, <2>5, <2>6 DEF RegistrationNext, registration_vars
<1> QED BY <1>1, <1>2, PTL DEF RegistrationSpec

(* While Loudmouth may still call back for the connection of a registration, *)
(* the record that the callback is given is allocated.                       *)
THEOREM RegistrationCallbacks == RegistrationSpec => []CallbacksHaveRecord
<1>1. RegistrationInv => CallbacksHaveRecord
  BY DEF RegistrationInv
<1> QED BY <1>1, RegistrationInvariant, PTL

(* A registration is told its outcome once: it is owed an outcome exactly    *)
(* while it has a record.                                                    *)
THEOREM RegistrationToldOnce == RegistrationSpec => []OneVerdict
<1>1. RegistrationInv => OneVerdict
  BY DEF RegistrationInv
<1> QED BY <1>1, RegistrationInvariant, PTL

=============================================================================
