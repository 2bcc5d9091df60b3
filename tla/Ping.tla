-------------------------------- MODULE Ping --------------------------------
(***************************************************************************)
(* Pings and the lag of servers: core/xep/ping.c, with the list of what is *)
(* awaited of tool_datalist.c and the features of servers of disco.c.      *)
(*                                                                         *)
(* A timer pings the servers that support it, one ping at a time, and      *)
(* disconnects those that do not answer; the user pings whom he likes.     *)
(* Time is in units of the timer, and the code only looks at how long ago  *)
(* something was: the model keeps ages, up to a bound.                     *)
(***************************************************************************)
EXTENDS Naturals, Sequences, FiniteSets

CONSTANTS
  Server,    \* the accounts that may be connected
  Entity,    \* those who can be pinged besides the servers
  Pinged,    \* bound: whom the user pings from each account
  LagCheck,  \* the setting lag_check_time
  MaxLag,    \* the setting lag_max_before_disconnect
  MaxPings,  \* bound: pings of an account in flight when the user sends one
  NULL       \* the C null pointer, and a time of zero

ASSUME LagAssumption == LagCheck \in Nat \ {0} /\ MaxLag \in Nat \ {0, 1}
ASSUME BoundAssumption ==
  Pinged \in [Server -> SUBSET (Entity \cup {"domain"})] /\ MaxPings \in Nat
ASSUME EntityAssumption == IsFiniteSet(Entity)
ASSUME NullAssumption == NULL \notin Nat

VARIABLES
  record,     \* the server record of each account, as far as pings go
  supported,  \* supported_servers: a list of server records
  pings,      \* pings: what is awaited of entities
  flight,     \* pings that were sent, without a result yet
  link,       \* the stream of each account: "up", "dead", or "closed"
  report      \* the lag or ping that the last step reported

ping_vars == <<record, supported, pings, flight, link, report>>

-----------------------------------------------------------------------------
(* Times. *)

Old  == MaxLag + 1      \* of a ping
Long == LagCheck + 1    \* of the last check
Age  == 0..Old

(* How long an entity takes is told, and nothing depends on it. *)
Oldest(dest) == IF dest = "domain" THEN Old ELSE 1

Older(age, oldest) == IF age \in {NULL, oldest} THEN age ELSE age + 1

(* Records.  A lag_last_check of 0 is long ago. *)

Domain == "domain"
Id     == 1..(MaxPings + 2 + Cardinality(Entity))

Record == [connected : BOOLEAN, ping_id : Id \cup {NULL},
           lag_sent : Age \cup {NULL}, lag_last_check : 0..Long]

NewRecord(connected) ==
  [connected |-> connected, ping_id |-> NULL, lag_sent |-> NULL,
   lag_last_check |-> Long]

(* A ping in flight, with the time since it was sent. *)
Sent(s, dest, id) == [server |-> s, dest |-> dest, id |-> id, age |-> 0]

InFlight(s) == {m \in flight : m.server = s}

(* Loudmouth gives each stanza an id of its own. *)
NewId(s) ==
  CHOOSE id \in Id :
    /\ \A m \in InFlight(s) : m.id # id
    /\ \A p \in pings : p.server = s => p.id # id
    /\ record[s].ping_id # id

(* request_ping to the server's own domain. *)
Asked(s, r) ==
  [r EXCEPT !.ping_id = NewId(s), !.lag_sent = 0, !.lag_last_check = 0]

(* The record when its ping was answered. *)
Answered(r) == [r EXCEPT !.ping_id = NULL, !.lag_sent = NULL]

(* g_slist_remove for each of those who are gone: the others keep their order. *)
Without(list, gone) ==
  LET kept  == {i \in 1..Len(list) : list[i] \notin gone}
      order == CHOOSE o \in [1..Cardinality(kept) -> kept] :
                 \A i, j \in DOMAIN o : i < j => o[i] < o[j]
  IN  [i \in DOMAIN order |-> list[order[i]]]

(* Mutant of Cleaned: the whole list of servers is emptied. *)
Cleaned_Everything(gone) ==
  /\ supported' = <<>>
  /\ pings' = {p \in pings : p.server \notin gone}

(* Mutant of Cleaned: the list of servers keeps the record. *)
Cleaned_KeepsServer(gone) ==
  /\ pings' = {p \in pings : p.server \notin gone}
  /\ UNCHANGED supported

(* "server disconnected": sig_disconnected and datalist_cleanup.  The server *)
(* record is freed after that.                                               *)
Cleaned(gone) ==
  /\ supported' = Without(supported, gone)
  /\ pings' = {p \in pings : p.server \notin gone}

-----------------------------------------------------------------------------
(* Actions *)

(* A session is established. *)
Connect(s) ==
  /\ link[s] = "closed"
  /\ link' = [link EXCEPT ![s] = "up"]
  /\ record' = [record EXCEPT ![s] = NewRecord(TRUE)]
  /\ report' = NULL
  /\ UNCHANGED <<supported, pings, flight>>

Supported(s) == \E i \in 1..Len(supported) : supported[i] = s

(* The server answers disco_request, pings among its features: sig_recv_iq of *)
(* disco.c and sig_server_features.  Features without pings change nothing.   *)
sig_server_features(s) ==
  /\ link[s] = "up"
  /\ supported' = IF Supported(s) THEN supported ELSE <<s>> \o supported
  /\ report' = NULL
  /\ UNCHANGED <<record, pings, flight, link>>

(* What is awaited of jid takes the place of what was. *)
datalist_add(s, jid) ==
  pings' = {p \in pings : p.server # s \/ p.jid # jid}
           \cup {[server |-> s, jid |-> jid, id |-> NewId(s), age |-> 0]}

(* /PING: request_ping.  The server's own domain has its place in the record. *)
cmd_ping(s, dest) ==
  /\ link[s] # "closed"
  /\ Cardinality(InFlight(s)) < MaxPings
  /\ flight' = flight \cup {Sent(s, dest, NewId(s))}
  /\ IF dest = Domain
     THEN record' = [record EXCEPT ![s] = Asked(s, @)] /\ UNCHANGED pings
     ELSE datalist_add(s, dest) /\ UNCHANGED record
  /\ report' = NULL
  /\ UNCHANGED <<supported, link>>

(* Mutant of Pong: an answer is taken for that of the last ping. *)
Pong_AnyId(m) ==
  LET s == m.server
      r == record[s]
      awaited == {p \in pings : p.server = s /\ p.jid = m.dest}
  IN  \/ /\ m.dest = Domain /\ r.ping_id # NULL
         /\ record' = [record EXCEPT ![s].ping_id = NULL, ![s].lag_sent = NULL]
         /\ report' = [measured |-> r.lag_sent, real |-> m.age]
      \/ /\ m.dest = Domain => r.ping_id = NULL
         /\ report' = IF awaited = {} THEN NULL
                      ELSE [measured |-> (CHOOSE p \in awaited : TRUE).age, real |-> m.age]
         /\ UNCHANGED record

(* Mutant of Pong: lag_sent is not reset. *)
Pong_StillWaits(m) ==
  LET s == m.server
      r == record[s]
  IN  IF m.dest = Domain /\ r.ping_id = m.id
      THEN /\ record' = [record EXCEPT ![s].ping_id = NULL]
           /\ report' = [measured |-> r.lag_sent, real |-> m.age]
      ELSE report' = NULL /\ UNCHANGED record

(* Mutant of Pong: lag_sent is reset before the lag is computed. *)
Pong_ResetFirst(m) ==
  LET s == m.server
      r == record[s]
  IN  IF m.dest = Domain /\ r.ping_id = m.id
      THEN /\ record' = [record EXCEPT ![s].ping_id = NULL, ![s].lag_sent = NULL]
           /\ report' = [measured |-> NULL, real |-> m.age]
      ELSE report' = NULL /\ UNCHANGED record

(* sig_recv_iq of ping.c, for the answer to m: the lag of the server, or the *)
(* time that an entity took, if the id is that of the last ping.  What is    *)
(* awaited of an entity stays in the list.                                   *)
Pong(m) ==
  LET s == m.server
      r == record[s]
      awaited == {p \in pings : p.server = s /\ p.jid = m.dest /\ p.id = m.id}
  IN  IF m.dest = Domain /\ r.ping_id = m.id
      THEN /\ record' = [record EXCEPT ![s] = Answered(@)]
           /\ report' = [measured |-> r.lag_sent, real |-> m.age]
      ELSE /\ report' = IF awaited = {} THEN NULL
                        ELSE [measured |-> (CHOOSE p \in awaited : TRUE).age, real |-> m.age]
           /\ UNCHANGED record

(* The result arrives.  An error is as if nothing came: ping.c ignores it. *)
Answer(m) ==
  /\ link[m.server] = "up"
  /\ flight' = flight \ {m}
  /\ Pong(m)
  /\ UNCHANGED <<supported, pings, link>>

Waiting(r) == r.lag_sent # NULL

Late(r) == r.lag_sent # NULL /\ r.lag_sent > MaxLag
Due(r)  == ~Waiting(r) /\ r.lag_last_check > LagCheck

(* check_ping_func walks the list.  A server that is late is disconnected,    *)
(* which frees the node that the walk stands on: the walk goes on as if it    *)
(* were there, or stops.                                                      *)
check_ping_func ==
  \E n \in 0..Len(supported) :
    LET met  == {supported[i] : i \in 1..n}
        gone == {s \in met : Late(record[s])}
        due  == {s \in met : Due(record[s]) /\ record[s].connected}
    IN  /\ n = Len(supported) \/ (n > 0 /\ supported[n] \in gone)
        /\ Cleaned(gone)
        /\ link' = [s \in Server |-> IF s \in gone THEN "closed" ELSE link[s]]
        /\ record' = [s \in Server |-> IF s \in gone THEN NewRecord(FALSE)
                                       ELSE IF s \in due THEN Asked(s, record[s]) ELSE record[s]]
        /\ flight' = {m \in flight : m.server \notin gone}
                     \cup {Sent(s, Domain, NewId(s)) : s \in due}
        /\ report' = NULL

(* The session ends otherwise: the stream breaks, or the user leaves. *)
Disconnected(s) ==
  /\ link[s] # "closed"
  /\ link' = [link EXCEPT ![s] = "closed"]
  /\ record' = [record EXCEPT ![s] = NewRecord(FALSE)]
  /\ flight' = flight \ InFlight(s)
  /\ Cleaned({s})
  /\ report' = NULL

(* Nothing comes through any more, and nobody says so. *)
LinkDies(s) ==
  /\ link[s] = "up"
  /\ link' = [link EXCEPT ![s] = "dead"]
  /\ report' = NULL
  /\ UNCHANGED <<record, supported, pings, flight>>

(* Time passes. *)
Tick ==
  /\ record' = [s \in Server |->
       [record[s] EXCEPT !.lag_sent = Older(@, Old),
                         !.lag_last_check = Older(@, Long)]]
  /\ pings'  = {[p EXCEPT !.age = Older(@, Oldest(p.jid))] : p \in pings}
  /\ flight' = {[m EXCEPT !.age = Older(@, Oldest(m.dest))] : m \in flight}
  /\ report' = NULL
  /\ UNCHANGED <<supported, link>>

-----------------------------------------------------------------------------
PingInit ==
  /\ record = [s \in Server |-> NewRecord(FALSE)]
  /\ supported = <<>>
  /\ pings = {}
  /\ flight = {}
  /\ link = [s \in Server |-> "closed"]
  /\ report = NULL

PingNext ==
  \/ \E s \in Server :
       \/ Connect(s)
       \/ sig_server_features(s)
       \/ \E dest \in Pinged[s] : cmd_ping(s, dest)
       \/ Disconnected(s)
       \/ LinkDies(s)
  \/ \E m \in flight : Answer(m)
  \/ check_ping_func
  \/ Tick

(* The timer runs every second, and seconds pass. *)
PingSpec ==
  /\ PingInit /\ [][PingNext]_ping_vars
  /\ WF_ping_vars(check_ping_func)
  /\ WF_ping_vars(Tick)

-----------------------------------------------------------------------------
(* Properties *)

TypeOK ==
  /\ record \in [Server -> Record]
  /\ supported \in Seq(Server)
  /\ pings \subseteq [server : Server, jid : Entity, id : Id, age : Age]
  /\ flight \subseteq [server : Server, dest : Entity \cup {Domain}, id : Id, age : Age]
  /\ link \in [Server -> {"up", "dead", "closed"}]
  /\ report = NULL \/ report \in [measured : Age, real : Age]

(* Nothing is kept of a server record that was freed, however its session    *)
(* ended: the timer never walks to it, and the next session of the account   *)
(* does not get the answers that the last one waited for.                    *)
NothingOfFreedServers ==
  /\ \A i, j \in 1..Len(supported) :
       /\ record[supported[i]].connected
       /\ supported[i] = supported[j] => i = j
  /\ \A p \in pings : record[p.server].connected

(* NEWS 0.50: "XMPP Ping (XEP-0199) support using the command /PING, it also *)
(* allows the lag-meter to work".  A time that is reported is that of the    *)
(* ping whose answer came, whatever was pinged again meanwhile.              *)
ReportsItsPing == report # NULL => report.measured = report.real

(* A server is disconnected for its lag only when it owes an answer for      *)
(* longer than the setting allows.                                           *)
OnlyLateServersDropped ==
  [][\A s \in Server :
       check_ping_func /\ link[s] # "closed" /\ link'[s] = "closed" =>
         \E m \in InFlight(s) : m.dest = Domain /\ m.age > MaxLag]_ping_vars

(* A link that is dead is noticed, whichever server is dropped before it in  *)
(* the same walk, unless other servers are late again and again: the walk    *)
(* may end at each of them.                                                  *)
DeadLinkNoticed ==
  \A s \in Server :
    \/ link[s] = "dead" /\ Supported(s) ~> link[s] = "closed"
    \/ []<>(\E o \in Server \ {s} : Late(record[o]))

=============================================================================
