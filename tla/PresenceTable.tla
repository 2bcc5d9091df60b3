--------------------------- MODULE PresenceTable ---------------------------
(***************************************************************************)
(* What the roster promises to the rest of irssi-xmpp about presence: a    *)
(* table with one row for each resource that is online, of the contacts    *)
(* that the server lists and of the account itself.  A row holds what the  *)
(* resource last said of itself.  Roster implements this table with sorted *)
(* lists of records hanging from contacts that hang from groups.           *)
(***************************************************************************)
EXTENDS Integers, Functions

CONSTANTS Contact, OwnJid, OwnRes, Res, Show, Priority, Status, NULL

VARIABLES
  contacts,   \* the JIDs that the server lists
  online      \* <<jid, resource>> -> what the resource last announced

vars == <<contacts, online>>

ERROR == 1

Init == contacts = {} /\ online = <<>>

(* The JIDs whose presence is tracked; not this very connection's own. *)
Tracked(jid, res) == jid \in contacts \/ (jid = OwnJid /\ res # OwnRes)

List(jid) == contacts' = contacts \cup {jid} /\ UNCHANGED online

(* A contact that is no longer listed is offline. *)
Unlist(jid) ==
  /\ contacts' = contacts \ {jid}
  /\ online' = Restrict(online, {key \in DOMAIN online : key[1] # jid})

(* A resource that does not announce a priority keeps the one it had. *)
Announce(jid, res, show, priority, status) ==
  LET old == IF <<jid, res>> \in DOMAIN online
             THEN online[<<jid, res>>].priority ELSE 0
  IN  /\ Tracked(jid, res)
      /\ online' = [key \in DOMAIN online \cup {<<jid, res>>} |->
                       IF key # <<jid, res>> THEN online[key]
                       ELSE [show     |-> show,
                             priority |-> IF priority = NULL THEN old ELSE priority,
                             status   |-> status]]
      /\ UNCHANGED contacts

Leave(jid, res) ==
  /\ online' = Restrict(online, DOMAIN online \ {<<jid, res>>})
  /\ UNCHANGED contacts

(* A presence of type error does not end the resource's row. *)
Fail(jid, res) ==
  /\ online' = [key \in DOMAIN online |->
                  IF key = <<jid, res>> THEN [online[key] EXCEPT !.show = ERROR]
                  ELSE online[key]]
  /\ UNCHANGED contacts

Disconnect == contacts' = {} /\ online' = <<>>

Next ==
  \/ \E jid \in Contact : List(jid) \/ Unlist(jid)
  \/ \E jid \in Contact \cup {OwnJid}, res \in Res :
       \/ \E show \in Show, priority \in Priority \cup {NULL},
            status \in Status \cup {NULL} :
            Announce(jid, res, show, priority, status)
       \/ Leave(jid, res)
       \/ Fail(jid, res)
  \/ Disconnect

Spec == Init /\ [][Next]_vars

=============================================================================
