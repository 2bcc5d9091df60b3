------------------------------- MODULE Roster -------------------------------
(***************************************************************************)
(* The roster of one XMPP account: src/src/core/rosters.c and              *)
(* rosters-tools.c.                                                        *)
(*                                                                         *)
(* The roster keeps the contacts that the server lists, the group of each  *)
(* one, and the resources of each contact that are online.  It is driven   *)
(* by the stanzas that the server sends: roster items, and presences of    *)
(* the contacts and of the other resources of the account.  Every handler  *)
(* runs to its end in irssi's single thread, so a handler is one action.   *)
(*                                                                         *)
(* Data that no property looks at is abstracted: a group is the set of its *)
(* contacts, whatever the order in which they are shown, and a JID is a    *)
(* pair of a bare JID and a resource, NULL when it has none.               *)
(* Resource names are numbers, in the order in which strcmp puts them.     *)
(***************************************************************************)
EXTENDS Integers, Sequences, FiniteSets, Functions

CONSTANTS
  Contact,       \* the bare JIDs that the server may list
  OwnJid,        \* server->jid, the bare JID of the account
  OwnRes,        \* server->resource, the resource of this connection
  Gateway,       \* the contacts that send presences from their bare JID
  Res,           \* the names of resources
  Subscription,  \* the subscription attributes of items, NULL for none
  Group,         \* the names of groups
  Name,          \* the names that the user gives to contacts
  Show,          \* the values of show that a presence can carry
  Priority,      \* the priorities that a presence can carry
  Status,        \* the status texts
  NULL           \* the C null pointer: no resource, group, name, ...

(* The empty string: the name create_resource gives to a null resource. *)
EmptyName == 0

(* XMPP_PRESENCE_UNAVAILABLE and XMPP_PRESENCE_ERROR, the values of show *)
(* that no available presence carries.                                    *)
UNAVAILABLE == 0
ERROR       == 1

ASSUME ResAssumption ==
  /\ Res \subseteq Nat \ {EmptyName}
  /\ OwnRes \in Res

ASSUME DataAssumption ==
  /\ Show \subseteq Nat \ {UNAVAILABLE, ERROR}
  /\ Priority \subseteq Int

ASSUME NullAssumption ==
  /\ NULL \notin Int
  /\ NULL \notin Group \cup Name \cup Status

Jid == Contact \cup {OwnJid}

(* xmpp_subscription. *)
XmppSubscription == {"remove", "none", "to", "from", "both"}

ASSUME SubscriptionAssumption == Subscription \subseteq XmppSubscription \cup {NULL}

VARIABLES
  connected,     \* the server is connected
  roster,        \* server->roster: the contacts of each group that exists
  user,          \* the record of each contact that is allocated
  my_resources   \* server->my_resources: the other resources of the account

vars == <<connected, roster, user, my_resources>>

-----------------------------------------------------------------------------
(* The function f with one argument changed or added. *)
Put(f, key, value) ==
  [k \in DOMAIN f \cup {key} |-> IF k = key THEN value ELSE f[k]]

(* Lists of resources. *)

Resource == [name     : Res \cup {EmptyName},
             show     : Nat,
             priority : Int,
             status   : Status \cup {NULL}]

(* create_resource, with the show, priority and status that its caller sets *)
(* before it lets go of the record.                                         *)
NewResource(res) ==
  [name     |-> IF res = NULL THEN EmptyName ELSE res,
   show     |-> UNAVAILABLE,
   priority |-> 0,
   status   |-> NULL]

(* func_sort_resource(a, b) <= 0: a may stand before b. *)
Precedes(a, b) ==
  \/ a.priority > b.priority
  \/ /\ a.priority = b.priority
     /\ \/ a.show > b.show
        \/ a.show = b.show /\ a.name <= b.name

(* The orders in which n elements can be put. *)
Orders(n) ==
  {p \in [1..n -> 1..n] : \A i, j \in 1..n : i # j => p[i] # p[j]}

(* What g_slist_sort makes of a list of resources. *)
Sorted(list) ==
  {[i \in 1..Len(list) |-> list[p[i]]] : p \in
     {q \in Orders(Len(list)) :
        \A i, j \in 1..Len(list) : i < j => Precedes(list[q[i]], list[q[j]])}}

(* Mutant of Has: a record in error is taken for a resource that is gone. *)
Has_NotInError(list, res) ==
  \E i \in 1..Len(list) : list[i].name = res /\ list[i].show # ERROR

(* rosters_find_resource: the first resource of that name.  A null resource *)
(* has no name, and find_resource_func matches it with no record.           *)
Has(list, res) == \E i \in 1..Len(list) : list[i].name = res
Find(list, res) ==
  CHOOSE i \in 1..Len(list) :
    /\ list[i].name = res
    /\ \A j \in 1..(i - 1) : list[j].name # res

RemoveAt(list, n) ==
  [i \in 1..(Len(list) - 1) |-> IF i < n THEN list[i] ELSE list[i + 1]]

(* Mutant of Announced: a presence without priority takes the priority away. *)
Announced_ResetsPriority(old, show, priority, status) ==
  [old EXCEPT !.show     = show,
              !.priority = IF priority = NULL THEN 0 ELSE priority,
              !.status   = status]

(* The record that an available presence leaves.  A presence without        *)
(* priority leaves the record the one it has.                               *)
Announced(old, show, priority, status) ==
  [old EXCEPT !.show     = show,
              !.priority = IF priority = NULL THEN @ ELSE priority,
              !.status   = status]

(* Mutant of WithPresence: the list is sorted when a record is created only. *)
WithPresence_SortsNewOnly(list, res, show, priority, status) ==
  IF Has(list, res)
  THEN {[list EXCEPT ![Find(list, res)] = Announced(@, show, priority, status)]}
  ELSE Sorted(<<Announced(NewResource(res), show, priority, status)>> \o list)

(* The lists that an available presence can leave: the record is found or   *)
(* created in front, and written and sorted if it is new or has changed.    *)
WithPresence(list, res, show, priority, status) ==
  LET new == ~Has(list, res)
      all == IF new THEN <<NewResource(res)>> \o list ELSE list
      pos == IF new THEN 1 ELSE Find(list, res)
      rec == Announced(all[pos], show, priority, status)
  IN  IF new \/ rec # all[pos] THEN Sorted([all EXCEPT ![pos] = rec]) ELSE {list}

(* Mutant of Without: the head of the list goes, not the record found. *)
Without_Head(list, res) == IF Has(list, res) THEN Tail(list) ELSE list

Without(list, res) ==
  IF Has(list, res) THEN RemoveAt(list, Find(list, res)) ELSE list

(* user_presence_error leaves the resource where it stands in the list. *)
WithError(list, res) ==
  IF Has(list, res) THEN [list EXCEPT ![Find(list, res)].show = ERROR] ELSE list

-----------------------------------------------------------------------------
(* Roster items. *)

User == [name         : Name \cup {NULL},
         subscription : XmppSubscription \ {"remove"},
         error        : BOOLEAN,
         resources    : Seq(Resource)]

NewUser(name) ==
  [name |-> name, subscription |-> "none", error |-> FALSE, resources |-> <<>>]

(* What a presence changes in a contact's record, and what an item does. *)
Present(rec, error, resources) ==
  [rec EXCEPT !.error = error, !.resources = resources]

(* Mutant of Renamed: an item without a name leaves the old name. *)
Renamed_KeepsName(rec, name, subscription) ==
  [rec EXCEPT !.name = IF name = NULL THEN @ ELSE name,
              !.subscription = IF subscription = NULL THEN "none" ELSE subscription]

Renamed(rec, name, subscription) ==
  [rec EXCEPT !.name = name,
              !.subscription = IF subscription = NULL THEN "none" ELSE subscription]

Listed(jid) == \E g \in DOMAIN roster : jid \in roster[g]

(* rosters_find_user: the group that the contact is found in. *)
GroupOf(jid) == CHOOSE g \in DOMAIN roster : jid \in roster[g]

(* find_or_add_group(group), then the contact is appended to its users. *)
AddTo(groups, group, jid) ==
  Put(groups, group,
      {jid} \cup IF group \in DOMAIN groups THEN groups[group] ELSE {})

(* move_user takes the contact from the users of its group. *)
TakeFrom(groups, group, jid) == [groups EXCEPT ![group] = @ \ {jid}]

(* Mutant of Placed: move_user forgets to take the contact from its old group. *)
Placed_Copies(jid, group) == AddTo(roster, group, jid)

(* The roster after the first half of update_user, which adds the contact  *)
(* to the group of the item or moves it there.                             *)
Placed(jid, group) ==
  IF ~Listed(jid) THEN AddTo(roster, group, jid)
  ELSE IF GroupOf(jid) = group THEN roster
  ELSE AddTo(TakeFrom(roster, GroupOf(jid), jid), group, jid)

(* Mutant of Removed: the record is freed but stays in a group that others *)
(* share.                                                                  *)
Removed_Dangles(groups, group, jid) ==
  IF groups[group] = {jid}
  THEN Restrict(groups, DOMAIN groups \ {group})
  ELSE groups

(* update_subscription with "remove" takes the contact from the group of   *)
(* the item and drops that group if it is empty.                           *)
Removed(groups, group, jid) ==
  IF groups[group] = {jid}
  THEN Restrict(groups, DOMAIN groups \ {group})
  ELSE TakeFrom(groups, group, jid)

(* Mutant of update_user: "remove" is stored like any other subscription. *)
update_user_KeepsRemoved(jid, subscription, name, group) ==
  /\ connected
  /\ roster' = Placed(jid, group)
  /\ user' = Put(user, jid, Renamed(IF Listed(jid) THEN user[jid] ELSE NewUser(name),
                                    name, subscription))
  /\ UNCHANGED <<connected, my_resources>>

(* update_user, called for one <item/> of a roster result or push.  The    *)
(* items of one stanza do not look at each other, so a stanza with several *)
(* items is as many steps.                                                 *)
update_user(jid, subscription, name, group) ==
  /\ connected
  /\ IF subscription = "remove"
     THEN /\ roster' = Removed(Placed(jid, group), group, jid)
          /\ user' = Restrict(user, DOMAIN user \ {jid})
     ELSE LET old == IF Listed(jid) THEN user[jid] ELSE NewUser(name)
          IN  /\ roster' = Placed(jid, group)
              /\ user' = Put(user, jid, Renamed(old, name, subscription))
  /\ UNCHANGED <<connected, my_resources>>

-----------------------------------------------------------------------------
(* Presences. *)

(* The JIDs that presences come from.  A gateway has no resource. *)
Sender == {s \in Jid \X (Res \cup {NULL}) : s[2] = NULL <=> s[1] \in Gateway}

(* update_user_presence.  A presence of this very connection is ignored. *)
update_user_presence(jid, res, show, priority, status) ==
  /\ connected
  /\ \/ /\ Listed(jid)
        /\ \E list \in WithPresence(user[jid].resources, res, show, priority, status) :
             user' = [user EXCEPT ![jid] = Present(@, FALSE, list)]
        /\ UNCHANGED my_resources
     \/ /\ ~Listed(jid) /\ jid = OwnJid /\ res # OwnRes
        /\ my_resources' \in WithPresence(my_resources, res, show, priority, status)
        /\ UNCHANGED user
  /\ UNCHANGED <<connected, roster>>

user_unavailable(jid, res) ==
  /\ connected
  /\ \/ /\ Listed(jid)
        /\ user' = [user EXCEPT ![jid] = Present(@, FALSE, Without(@.resources, res))]
        /\ UNCHANGED my_resources
     \/ /\ ~Listed(jid) /\ jid = OwnJid
        /\ my_resources' = Without(my_resources, res)
        /\ UNCHANGED user
  /\ UNCHANGED <<connected, roster>>

user_presence_error(jid, res) ==
  /\ connected
  /\ \/ /\ Listed(jid)
        /\ user' = [user EXCEPT ![jid] = Present(@, @.error \/ ~Has(@.resources, res),
                                                 WithError(@.resources, res))]
        /\ UNCHANGED my_resources
     \/ /\ ~Listed(jid) /\ jid = OwnJid
        /\ my_resources' = WithError(my_resources, res)
        /\ UNCHANGED user
  /\ UNCHANGED <<connected, roster>>

-----------------------------------------------------------------------------
(* The connection. *)

(* A new server record, whose roster is then requested. *)
sig_connected ==
  /\ ~connected
  /\ connected' = TRUE
  /\ roster' = <<>> /\ user' = <<>> /\ my_resources' = <<>>

(* The handler returns early when the roster is empty. *)
roster_cleanup ==
  /\ connected
  /\ connected' = FALSE
  /\ roster' = <<>> /\ user' = <<>>
  /\ my_resources' = IF DOMAIN roster = {} THEN my_resources ELSE <<>>

-----------------------------------------------------------------------------
Init ==
  /\ connected = FALSE
  /\ roster = <<>> /\ user = <<>> /\ my_resources = <<>>

RosterItem ==
  \E jid \in Contact, subscription \in Subscription,
     name \in Name \cup {NULL}, group \in Group \cup {NULL} :
    update_user(jid, subscription, name, group)

Available ==
  \E sender \in Sender, show \in Show,
     priority \in Priority \cup {NULL}, status \in Status \cup {NULL} :
    update_user_presence(sender[1], sender[2], show, priority, status)

Unavailable == \E sender \in Sender : user_unavailable(sender[1], sender[2])

Error == \E sender \in Sender : user_presence_error(sender[1], sender[2])

Next ==
  \/ RosterItem
  \/ Available
  \/ Unavailable
  \/ Error
  \/ sig_connected
  \/ roster_cleanup

Spec == Init /\ [][Next]_vars

-----------------------------------------------------------------------------
(* rosters_resolve_name(jid) for a contact: the resource that /QUERY, /MSG *)
(* and the commands that need a full JID address, NULL for the bare JID.   *)
rosters_resolve_name(jid) ==
  LET resources == user[jid].resources
  IN  IF resources = <<>> \/ resources[1].name = EmptyName THEN NULL
      ELSE resources[1].name

TypeOK ==
  /\ connected \in BOOLEAN
  /\ DOMAIN roster \subseteq Group \cup {NULL}
  /\ roster \in [DOMAIN roster -> SUBSET Contact]
  /\ DOMAIN user \subseteq Contact
  /\ user \in [DOMAIN user -> User]
  /\ my_resources \in Seq(Resource)

(* A contact stands in one group only: whatever items the server pushes,   *)
(* update_user moves a contact that is already listed and never adds it a  *)
(* second time, else rosters_find_user would serve one of two copies.      *)
OneEntryPerContact ==
  \A g, h \in DOMAIN roster : g # h => roster[g] \cap roster[h] = {}

(* The groups hold the records that are allocated, no more and no fewer:   *)
(* cleanup_user leaves no freed contact behind in a group, and no record   *)
(* is lost when a contact moves or its group is dropped.                   *)
RecordsListed == DOMAIN user = UNION {roster[g] : g \in DOMAIN roster}

(* docs/GENERAL, /QUERY: "the conversation window will be on the resource  *)
(* with the highest priority".  rosters_resolve_name takes the first of    *)
(* the list, so no sequence of presences, errors and departures may leave  *)
(* a resource of higher priority behind it.                                *)
ResolvesToHighest ==
  \A jid \in DOMAIN user :
    LET resources == user[jid].resources
        res       == rosters_resolve_name(jid)
    IN  res # NULL =>
          \E i \in 1..Len(resources) :
            /\ resources[i].name = res
            /\ \A j \in 1..Len(resources) :
                 resources[j].priority <= resources[i].priority

(* "find resource or create it if it doesn't exist" (rosters.c:366): a     *)
(* resource that is announced again does not get a second record, which    *)
(* user_unavailable, removing one, would leave behind as a ghost.          *)
DistinctNames(list) ==
  \A i, j \in 1..Len(list) : i # j => list[i].name # list[j].name

OneRecordPerResource ==
  /\ \A jid \in DOMAIN user : DistinctNames(user[jid].resources)
  /\ DistinctNames(my_resources)

-----------------------------------------------------------------------------
(* The table of presences that the lists stand for.  A server record that  *)
(* is disconnected stands for an empty one.                                *)
Lists ==
  [jid \in DOMAIN user \cup {OwnJid} |->
     IF jid \in DOMAIN user THEN user[jid].resources ELSE my_resources]

Rows ==
  UNION {{<<jid, Lists[jid][i].name>> : i \in 1..Len(Lists[jid])} :
           jid \in DOMAIN Lists}

Row(jid, res) ==
  LET rec == Lists[jid][Find(Lists[jid], res)]
  IN  [show |-> rec.show, priority |-> rec.priority, status |-> rec.status]

Table == INSTANCE PresenceTable WITH
  contacts <- DOMAIN user,
  online   <- IF connected THEN [key \in Rows |-> Row(key[1], key[2])] ELSE <<>>

(* Whatever the order of items and presences, the groups, the contacts and *)
(* their sorted lists behave as the table does: no handler loses, doubles  *)
(* or mixes up what two resources announced, and a record that is moved,   *)
(* renamed or sorted keeps what its resources said.                        *)
TracksPresence == Table!Spec

(* Each stanza does to the table what it says, and nothing else: a presence *)
(* of one resource never changes or removes the row of another, and an item *)
(* never changes a row but by removing the contact.  A presence of somebody *)
(* who is not tracked does nothing.                                         *)
StanzasTellTable ==
  [][/\ \A jid \in Contact, subscription \in Subscription,
          name \in Name \cup {NULL}, group \in Group \cup {NULL} :
          update_user(jid, subscription, name, group) =>
            IF subscription = "remove" THEN Table!Unlist(jid) ELSE Table!List(jid)
     /\ \A sender \in Sender :
          LET jid == sender[1]
              res == sender[2]
          IN  /\ \A show \in Show, priority \in Priority \cup {NULL},
                   status \in Status \cup {NULL} :
                   update_user_presence(jid, res, show, priority, status) =>
                     Table!Announce(jid, res, show, priority, status)
              /\ user_unavailable(jid, res) => Table!Leave(jid, res)
              /\ user_presence_error(jid, res) => Table!Fail(jid, res)
    ]_vars

=============================================================================
