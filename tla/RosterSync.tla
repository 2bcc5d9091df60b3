----------------------------- MODULE RosterSync -----------------------------
(***************************************************************************)
(* The roster and subscription commands of the user                        *)
(* (src/src/core/xmpp-commands.c), the copy of the roster that the XMPP    *)
(* server keeps, and the stanzas that are in flight between the two,       *)
(* composed with the client's roster (Roster).                             *)
(*                                                                         *)
(* A /ROSTER command changes nothing in the client.  It sends an item to   *)
(* the server, which replaces its own item for that JID and pushes it back *)
(* to every client of the account; update_user then shows it.  /PRESENCE   *)
(* sends a presence, which the server answers with a push of the item that *)
(* it changed.  The stream keeps the order of the stanzas of each          *)
(* direction.  The server is external: it does what RFC 6121 asks of one   *)
(* and what the handlers of the client expect.  The presences by which it  *)
(* tells the client of the contacts' requests and answers change nothing   *)
(* there and are left out.                                                 *)
(***************************************************************************)
EXTENDS Roster

CONSTANTS
  MaxInFlight,   \* bound: stanzas that wait in either direction
  Managed,       \* bound: contacts that this client's commands are about
  HurryCounts,   \* a command typed before the last one took effect counts
  ANY            \* no opinion, or somebody else has decided since

ASSUME BoundAssumption ==
  MaxInFlight \in Nat \ {0} /\ Managed \subseteq Contact /\ HurryCounts \in BOOLEAN

(* The null pointer is no JID and no subscription, and no opinion is none of *)
(* the opinions.                                                              *)
ASSUME DistinctAssumption ==
  /\ NULL \notin Contact \cup XmppSubscription
  /\ ANY \notin BOOLEAN \cup Name \cup Group \cup {NULL}

VARIABLES
  server,   \* the server's items: JID -> name, group and subscription
  asked,    \* contacts that the server has asked on the user's behalf
  asking,   \* contacts that ask the user and have had no answer
  up,       \* stanzas on their way to the server
  down,     \* roster items on their way to the client
  wanted    \* what the user last asked for each JID, attribute by attribute

sync_vars == <<connected, roster, user, my_resources, server, asked, asking,
               up, down, wanted>>

(* sees: the user sees the presence of the contact; seen: the other way. *)
NoWish == [listed |-> ANY, name |-> ANY, group |-> ANY, sees |-> ANY, seen |-> ANY]

Item(jid, subscription, name, group) ==
  [jid |-> jid, subscription |-> subscription, name |-> name, group |-> group]

Presence(jid, type) == [jid |-> jid, presence |-> type]

(* The <query/> of sig_connected. *)
Query == Item(NULL, NULL, NULL, NULL)

Room == Len(up) + Len(down) < MaxInFlight

Ready == connected /\ Room

(* Stanzas that may change the item of the JID are in flight. *)
Busy(jid) == \E q \in {up, down} : \E i \in 1..Len(q) : q[i].jid \in {jid, NULL}

Send(stanza) == up' = Append(up, stanza)

(* What the user asks for; a hurried command may be told not to count, but   *)
(* for the subscriptions: the client adds nothing of its own to those.       *)
Wish(jid, wish) ==
  wanted' = [wanted EXCEPT ![jid] =
               IF Busy(jid) /\ ~HurryCounts
               THEN [NoWish EXCEPT !.sees = wish.sees, !.seen = wish.seen] ELSE wish]

client_vars == <<connected, roster, user, my_resources>>
server_vars == <<server, asked, asking>>

-----------------------------------------------------------------------------
(* The commands.  REMOVE, NAME and GROUP are refused when the JID is not   *)
(* in the client's roster.                                                 *)

(* The item has no name and no group.  For a JID that is listed it replaces *)
(* both: what was asked for them before counts no more.  Without -nosub the *)
(* contact is asked for its presence.                                       *)
cmd_roster_add(jid, nosub) ==
  /\ Ready
  /\ up' = Append(up, Item(jid, NULL, NULL, NULL))
           \o (IF nosub THEN <<>> ELSE <<Presence(jid, "subscribe")>>)
  /\ Wish(jid, [NoWish EXCEPT !.listed = TRUE, !.seen = wanted[jid].seen,
                              !.sees = IF nosub THEN wanted[jid].sees ELSE ANY])
  /\ UNCHANGED <<client_vars, server_vars, down>>

cmd_roster_remove(jid) ==
  /\ Ready /\ Listed(jid)
  /\ Send(Item(jid, "remove", NULL, NULL))
  /\ Wish(jid, [NoWish EXCEPT !.listed = FALSE, !.sees = FALSE, !.seen = FALSE])
  /\ UNCHANGED <<client_vars, server_vars, down>>

(* Mutant of cmd_roster_name: the item does not repeat the group. *)
cmd_roster_name_DropsGroup(jid, name) ==
  /\ Ready /\ Listed(jid)
  /\ Send(Item(jid, NULL, name, NULL))
  /\ Wish(jid, [wanted[jid] EXCEPT !.name = name, !.listed = TRUE])
  /\ UNCHANGED <<client_vars, server_vars, down>>

(* The item repeats the group that the client knows. *)
cmd_roster_name(jid, name) ==
  /\ Ready /\ Listed(jid)
  /\ Send(Item(jid, NULL, name, GroupOf(jid)))
  /\ Wish(jid, [wanted[jid] EXCEPT !.name = name, !.listed = TRUE])
  /\ UNCHANGED <<client_vars, server_vars, down>>

(* The item repeats the name that the client knows. *)
cmd_roster_group(jid, group) ==
  /\ Ready /\ Listed(jid)
  /\ Send(Item(jid, NULL, user[jid].name, group))
  /\ Wish(jid, [wanted[jid] EXCEPT !.group = group, !.listed = TRUE])
  /\ UNCHANGED <<client_vars, server_vars, down>>

(* /PRESENCE.  An answer is about the request that the contact has made; an  *)
(* acceptance may list the contact, and so does a request.                   *)
cmd_presence_accept(jid) ==
  /\ Ready
  /\ Send(Presence(jid, "subscribed"))
  /\ Wish(jid, [wanted[jid] EXCEPT !.listed = ANY,
                                   !.seen = IF jid \in asking /\ ~Busy(jid)
                                            THEN TRUE ELSE ANY])
  /\ UNCHANGED <<client_vars, server_vars, down>>

(* Mutant of cmd_presence_deny: the user's own subscription is ended. *)
cmd_presence_deny_Unsubscribes(jid) ==
  /\ Ready
  /\ Send(Presence(jid, "unsubscribe"))
  /\ Wish(jid, [wanted[jid] EXCEPT !.seen = FALSE])
  /\ UNCHANGED <<client_vars, server_vars, down>>

cmd_presence_deny(jid) ==
  /\ Ready
  /\ Send(Presence(jid, "unsubscribed"))
  /\ Wish(jid, [wanted[jid] EXCEPT !.seen = FALSE])
  /\ UNCHANGED <<client_vars, server_vars, down>>

cmd_presence_subscribe(jid) ==
  /\ Ready
  /\ Send(Presence(jid, "subscribe"))
  /\ Wish(jid, [wanted[jid] EXCEPT !.listed = ANY, !.sees = ANY])
  /\ UNCHANGED <<client_vars, server_vars, down>>

cmd_presence_unsubscribe(jid) ==
  /\ Ready
  /\ Send(Presence(jid, "unsubscribe"))
  /\ Wish(jid, [wanted[jid] EXCEPT !.sees = FALSE])
  /\ UNCHANGED <<client_vars, server_vars, down>>

-----------------------------------------------------------------------------
(* The server, external. *)

(* Who sees whom, as an item says it. *)
Sees(s) == s \in {"to", "both"}
Seen(s) == s \in {"from", "both"}
Mutual(sees, seen) ==
  IF sees THEN IF seen THEN "both" ELSE "to" ELSE IF seen THEN "from" ELSE "none"

Held(jid) ==
  IF jid \in DOMAIN server THEN server[jid]
  ELSE [name |-> NULL, group |-> NULL, subscription |-> "none"]

ItemOf(jid, held) == Item(jid, held.subscription, held.name, held.group)

(* A client that has not asked for the roster yet gets no push. *)
Interested == connected /\ \A i \in 1..Len(up) : up[i] # Query

Push(items) == down' = IF Interested THEN down \o items ELSE down

Keep(jid, held) == server' = Put(server, jid, held) /\ Push(<<ItemOf(jid, held)>>)

(* A roster result carries every item; their order does not matter. *)
Result ==
  LET order == CHOOSE o \in [1..Cardinality(DOMAIN server) -> DOMAIN server] :
                 \A i, j \in DOMAIN o : i # j => o[i] # o[j]
  IN  [i \in DOMAIN order |-> ItemOf(order[i], server[order[i]])]

(* The item of a set replaces the name and group of the server's.  A removal *)
(* ends the subscriptions; that of an item that does not exist is an error,   *)
(* which the client ignores.                                                 *)
Stores(item) ==
  IF item.subscription # "remove"
  THEN /\ Keep(item.jid, [name |-> item.name, group |-> item.group,
                          subscription |-> Held(item.jid).subscription])
       /\ UNCHANGED <<asked, asking>>
  ELSE /\ server' = Restrict(server, DOMAIN server \ {item.jid})
       /\ Push(IF item.jid \in DOMAIN server THEN <<Item(item.jid, "remove", NULL, NULL)>> ELSE <<>>)
       /\ asked' = asked \ {item.jid}
       /\ asking' = asking \ {item.jid}

(* The subscription of a contact becomes another, and its item exists. *)
Becomes(jid, sees, seen) ==
  LET held == [Held(jid) EXCEPT !.subscription = Mutual(sees, seen)] IN
  IF jid \in DOMAIN server /\ held = server[jid] THEN UNCHANGED <<server, down>>
  ELSE Keep(jid, held)

Ended(jid, sees, seen) ==
  IF jid \in DOMAIN server THEN Becomes(jid, sees, seen) ELSE UNCHANGED <<server, down>>

(* A presence of the user. *)
Subscribes(jid, type) ==
  LET s == Held(jid).subscription IN
  \/ /\ type = "subscribe"
     /\ Becomes(jid, Sees(s), Seen(s))
     /\ asked' = IF Sees(s) THEN asked ELSE asked \cup {jid}
     /\ UNCHANGED asking
  \/ /\ type = "unsubscribe"
     /\ Ended(jid, FALSE, Seen(s))
     /\ asked' = asked \ {jid}
     /\ UNCHANGED asking
  \/ /\ type = "subscribed"
     /\ IF jid \in asking THEN Becomes(jid, Sees(s), TRUE) ELSE UNCHANGED <<server, down>>
     /\ asking' = asking \ {jid}
     /\ UNCHANGED asked
  \/ /\ type = "unsubscribed"
     /\ Ended(jid, Sees(s), FALSE)
     /\ asking' = asking \ {jid}
     /\ UNCHANGED asked

ServerHandles ==
  /\ up # <<>>
  /\ up' = Tail(up)
  /\ LET stanza == Head(up) IN
     IF "presence" \in DOMAIN stanza THEN Subscribes(stanza.jid, stanza.presence)
     ELSE IF stanza = Query THEN down' = down \o Result /\ UNCHANGED server_vars
     ELSE Stores(stanza)
  /\ UNCHANGED <<client_vars, wanted>>

(* The user edits the roster from another client of the account. *)
OtherClient ==
  \E jid \in Contact :
    \E item \in {Item(jid, "remove", NULL, NULL)} \cup
                {Item(jid, NULL, name, group) : name \in Name \cup {NULL},
                                             group \in Group \cup {NULL}} :
    /\ Room
    /\ Stores(item)
    /\ Wish(jid, NoWish)
    /\ UNCHANGED <<client_vars, up>>

(* A contact asks, withdraws, or answers a request of the user.  What it     *)
(* takes back of its own will is no wish of the user.                        *)
ContactActs(jid) ==
  LET s == Held(jid).subscription IN
  /\ Room
  /\ UNCHANGED <<client_vars, up>>
  /\ \/ /\ ~Seen(s)
        /\ asking' = asking \cup {jid}
        /\ UNCHANGED <<server, asked, down, wanted>>
     \/ /\ Ended(jid, Sees(s), FALSE)
        /\ asking' = asking \ {jid}
        /\ wanted' = [wanted EXCEPT ![jid].seen = IF @ = TRUE THEN ANY ELSE @]
        /\ UNCHANGED asked
     \/ /\ jid \in asked
        /\ Becomes(jid, TRUE, Seen(s))
        /\ asked' = asked \ {jid}
        /\ UNCHANGED <<asking, wanted>>
     \/ /\ Ended(jid, FALSE, Seen(s))
        /\ asked' = asked \ {jid}
        /\ UNCHANGED <<asking, wanted>>

-----------------------------------------------------------------------------
(* The stream. *)

Connect == sig_connected /\ up' = <<Query>> /\ UNCHANGED <<server_vars, down, wanted>>

Receive ==
  /\ down # <<>>
  /\ update_user(Head(down).jid, Head(down).subscription,
                 Head(down).name, Head(down).group)
  /\ down' = Tail(down)
  /\ UNCHANGED <<server_vars, up, wanted>>

(* What is in flight is lost, and the user knows it. *)
Disconnect ==
  /\ roster_cleanup
  /\ up' = <<>> /\ down' = <<>>
  /\ wanted' = [jid \in Contact |-> NoWish]
  /\ UNCHANGED server_vars

SyncInit ==
  /\ Init
  /\ server = <<>> /\ asked = {} /\ asking = {}
  /\ up = <<>> /\ down = <<>>
  /\ wanted = [jid \in Contact |-> NoWish]

SyncNext ==
  \/ \E jid \in Managed :
       \/ \E nosub \in BOOLEAN : cmd_roster_add(jid, nosub)
       \/ cmd_roster_remove(jid)
       \/ \E name \in Name \cup {NULL} : cmd_roster_name(jid, name)
       \/ \E group \in Group \cup {NULL} : cmd_roster_group(jid, group)
       \/ cmd_presence_accept(jid)
       \/ cmd_presence_deny(jid)
       \/ cmd_presence_subscribe(jid)
       \/ cmd_presence_unsubscribe(jid)
       \/ ContactActs(jid)
  \/ ServerHandles
  \/ OtherClient
  \/ Connect
  \/ Receive
  \/ Disconnect

SyncSpec == SyncInit /\ [][SyncNext]_sync_vars

-----------------------------------------------------------------------------
Quiet == connected /\ up = <<>> /\ down = <<>>

(* Once every stanza has been delivered, the client shows the server's     *)
(* roster, with the subscription status of each contact: sig_recv_iq       *)
(* applies pushes that carry whole items, whatever commands, answers and   *)
(* edits from elsewhere have crossed each other.                           *)
ClientShowsServer ==
  Quiet =>
    /\ DOMAIN user = DOMAIN server
    /\ \A jid \in DOMAIN server :
         [name |-> user[jid].name, group |-> GroupOf(jid),
          subscription |-> user[jid].subscription] = server[jid]

(* docs/GENERAL: /ROSTER NAME "Changes the name (or nickname) of a JID",   *)
(* /ROSTER GROUP "Changes the group of a JID", /ROSTER ADD adds and /ROSTER *)
(* REMOVE removes one.  Once every stanza has been delivered, each request *)
(* that nobody has overridden stands: a command changes its own attribute  *)
(* of its own JID and undoes no other request.                             *)
RequestsHonoured ==
  Quiet =>
    \A jid \in Contact :
      /\ wanted[jid].listed # ANY => (wanted[jid].listed <=> jid \in DOMAIN server)
      /\ jid \in DOMAIN server =>
           /\ wanted[jid].name  \in {ANY, server[jid].name}
           /\ wanted[jid].group \in {ANY, server[jid].group}

(* docs/GENERAL: /PRESENCE DENY "so the contact won't see your presence      *)
(* anymore", ACCEPT "will be able to", UNSUBSCRIBE "so you won't see their   *)
(* presence anymore", /ROSTER REMOVE "The subscriptions will be removed      *)
(* too".  Once every stanza has been delivered, who sees whom is what the    *)
(* user last decided, whatever the contact asked and answered meanwhile and  *)
(* whatever else was changed about it.                                       *)
SubscriptionsHonoured ==
  Quiet =>
    \A jid \in Contact :
      /\ wanted[jid].seen \in {ANY, Seen(Held(jid).subscription)}
      /\ wanted[jid].sees = FALSE => ~Sees(Held(jid).subscription)

=============================================================================
