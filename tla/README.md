# A TLA+ model of irssi-xmpp

irssi-xmpp is a plugin that teaches the irssi chat client the XMPP protocol.  It
is single threaded: irssi's GLib main loop calls it back for a stanza that
Loudmouth received, for a timer, for a command that the user typed or for an
irssi signal, and each callback runs to its end.  What makes it hard is the
*order* of those callbacks: stanzas of several peers, user commands whose effect
comes back later as a stanza, timers that race answers, and disconnections with
automatic reconnections at any point.

Paths below are relative to `src/src/` unless they start with `docs/` or `NEWS`.

## Inventory

| component | source | state | operations | correct when |
|---|---|---|---|---|
| roster | `core/rosters.c`, `core/rosters-tools.c` | groups, contacts, resources of each contact, own resources | roster item, presence available / unavailable / error, connect, disconnect, name resolution | a contact is listed once; its resources are those that are online; the first one has the highest priority |
| roster commands | `core/xmpp-commands.c` | none (reads the roster) | `/ROSTER ADD, REMOVE, NAME, GROUP`, `/PRESENCE ACCEPT, DENY, SUBSCRIBE, UNSUBSCRIBE` | once every stanza is delivered the client, the server and the user's requests agree, and who sees whom is what the user decided |
| connection | `core/xmpp-servers.c`, `core/stanzas.c` | server record, Loudmouth connection, connect timeout, message handlers | connect, open, authenticate, close, time out, disconnect, clean up | no timer or handler outlives the connection; one outcome per attempt |
| reconnection | `core/xmpp-servers-reconnect.c` | connection record: nick, full JID, password, presence | copy, save status, restore presence | a reconnection restores JID, password and presence |
| presence and settings | `core/protocol.c`, `core/xmpp-settings.c` | show, away reason, priority | `/AWAY`, `/SET xmpp_priority` | the XMPP server knows the show, reason and priority that the client holds |
| multi-user chat | `core/xep/muc*.c` | rooms, own nick, nick list, topic, mode | join, part, nick change, kick, errors, messages, `/TOPIC`, `/MODE`, roles, affiliations, invitations, destruction | own nick, nick list, topic and mode follow the room; the user's messages, and no others, pass for the user's |
| ping and lag | `core/xep/ping.c`, `core/xep/tool_datalist.c` | outstanding pings, list of servers that answer pings | ping, pong, lag check, lag disconnect | a pong is matched with its own ping; a dead link is noticed |
| service discovery | `core/xep/disco.c` | features of the server | request, answer, disconnect | features are those of the live connection |
| registration | `core/xep/registration.c` | one record per attempt | register, open, answer, close | exactly one outcome, then the record is freed |
| composing | `core/xep/composing.c`, `core/xep/chatstates.c`, `fe-common/xep/fe-composing.c` | composing id per peer, timers per query | typing, timeout, message, offline, query destroyed | the peer is told once that typing starts and once that it stops |
| queries | `core/xmpp-queries.c`, `fe-common/fe-xmpp-queries.c` | irssi's queries | create, raise | one query per conversation |
| front end, tools | `fe-common`, `fe-text`, `core/tools.c` | windows, formats | printing, completion, recoding | layout and conversions |

Components interact through irssi signals (synchronous calls in a fixed order),
through the shared server record, and through stanzas that come back from the
XMPP server.  The behaviours that are hard:

- the roster changes only by pushes: commands, pushes of other clients and the
  answer to the roster request cross each other;
- presences of several resources come in any order, and a list sorted by hand
  decides which resource a conversation goes to;
- an attempt to connect has four callbacks and a timeout, each of which may be
  the last one, and the record that they share is freed by irssi;
- a session may be lost and retried any number of times, and the connection
  record is copied, by irssi and by the plugin, at each retry;
- in a room the client's idea of its own nick, of the occupants and of being
  inside is always late, and kicks, refusals and forced nicks arrive meanwhile.

`PROJECT.json` lists each hazard at its line with the properties that watch it.

## Modules

| module | models | with |
|---|---|---|
| `Roster` | `rosters.c`, `rosters-tools.c` | nothing: items and presences are inputs |
| `PresenceTable` | what the roster promises about presence, abstractly | |
| `RosterSync` | the `/ROSTER` and `/PRESENCE` commands and `rosters.c` across a stream | `Roster`, an external XMPP server |
| `Session` | `xmpp-servers.c`, `xmpp-servers-reconnect.c`, `protocol.c`, `xmpp-settings.c`, `/AWAY` | irssi's server core, external |
| `Registration` | `core/xep/registration.c` | `Session`, which a registration may start |
| `MucChannel` | `core/xep/muc.c`, `muc-events.c`, `muc-nicklist.c`, `muc-commands.c`, `muc-reconnect.c`, the room's part of `muc-role.c` and `muc-affiliation.c` | nothing: what a room sends is an input |
| `MucRoom` | the channel across a stream | `MucChannel`, an external room |
| `Ping` | `core/xep/ping.c`, `core/xep/tool_datalist.c`, `core/xep/disco.c` | the servers and the network, external |
| `Composing` | `core/xep/composing.c`, `core/xep/chatstates.c`, `fe-common/xep/fe-composing.c`, `core/xmpp-queries.c` | a peer and irssi's keys and queries, external |
| `RosterProofs`, `RosterTableProofs` | theorems about `Roster`, and about `Roster` as an implementation of `PresenceTable` | TLAPS |
| `RosterSyncProofs`, `PingProofs`, `ComposingProofs` | theorems about the module of that name | TLAPS |
| `SessionProofs` | theorems about `Session` and `Registration` | TLAPS |
| `MucChannelProofs`, `MucRoomProofs` | theorems about `MucChannel`, and about it in a room | TLAPS |
| `MC*` | the values of the constants for TLC | |

### Roster

`roster` maps each group that exists to its contacts, `user` each allocated
contact to its record (name, subscription, error flag, sorted list of
resources), `my_resources` is the list of the account's other resources.  One
action is one handler: `sig_connected`, `update_user` (an item, from a result or
a push), `update_user_presence` (available), `user_unavailable`,
`user_presence_error`, `roster_cleanup`.  `Sorted` is `g_slist_sort` with
`func_sort_resource`: highest priority first, then the highest show, then by name.

Abstractions: a group is the set of its contacts (their order is layout); a JID
is a pair; names of resources are numbers in `strcmp` order, 0 being the empty
name that `create_resource` gives to a NULL resource; an `<iq/>` with several
items is several steps; a presence of somebody who is not tracked leaves
everything as it is and is no step; presences from the account's bare JID are not
enumerated.  A contact in `Gateway` sends presences without resource.

`PresenceTable` is a table with a row per online resource.  `Table` in `Roster`
is the refinement mapping, `TracksPresence` says that the lists implement the
table, and `StanzasTellTable` that each stanza does to it what it says.

### RosterSync

`up` and `down` are the stanzas in flight, `server` is the server's roster
(RFC 6121: an item replaces the old one and is pushed to every client; the answer
to the query is the list of items).  A command changes nothing but `up`;
`Receive` hands the next item to `update_user`.  `wanted` is a history variable:
what the user last asked for each attribute, reset when somebody else (another
client, a removal, a lost stream) decided since.

`/PRESENCE` sends one presence, and the server keeps the subscription: `asked` holds
the contacts that it asked on the user's behalf, `asking` those that ask the user and
have had no answer, and the item of a contact says who sees whom (`Mutual`).  A contact
asks, withdraws, agrees and refuses at any moment (`ContactActs`).  An answer of the user
is about the request that the contact had made when it was typed: an acceptance that
crosses a withdrawal decides nothing.  `/ROSTER ADD` sends two stanzas, unless `-nosub`.
Wishes about subscriptions count even when they are typed in a hurry, since the client
adds nothing of its own to those stanzas.

### Session

One account: a loop over the servers is a step on the only one.  `phase` is where
the server record is between `xmpp_server_init_connect` and its end.  `Connect`,
`Reconnect`, `StreamOpened`, `StreamFails`, `Authenticated`, `AuthFails`,
`check_connection_timeout`, `LinkLost`, `Disconnect` are the callbacks of
Loudmouth, irssi and the timer with all that they call (`server_connect_finished`,
the signals, `save_status`, `restore_presence`, `sig_connected`, the copy of the
connection record).  `set_away` and `read_settings` are the user's.  "silent" is
an attempt whose callbacks returned early and which only the timeout can end.
irssi copies the password of the record it finds in its setup, or none: both are
possible.  Two handlers of "server connected" (`xmpp-servers-reconnect.c` and `xmpp-servers.c`) run at
each login; both ask irssi for the same place, so the model tries both orders
(`newest_first`).  `GARBAGE` is what memory holds after it was freed.  `stale` says that
`lookup_servers` holds a freed record; `disconnect_all` skips such records in the
model, since reading one is undefined.

### Registration

`rd` says that the record of a registration exists, `line` is its Loudmouth connection:
the references that the code holds and the callbacks that Loudmouth may still make.
`cmd_xmppregister`, `register_lm_open_cb`, `handle_register`, `register_lm_close_cb` and
`registration_deinit` are the command, the callbacks and the unloading of the module; the
answer that succeeds is followed by `/XMPPCONNECT`, which is `Connect` of `Session`.  The
error path that releases the connection twice (`registration.c:230`) is a step to
`Release(NoLine)`; what memory does then is not modelled.  `Session`'s properties are
checked of this composition.

### MucChannel and MucRoom

`channel` is the `MUC_REC`: the nick, whether it is joined, the topic, the mode, and the
hash table of nicks, a chain of records per nick with the mark of `channel->ownnick`.  The
actions are the commands (`muc_join`, `muc_part`, `Cycle`, `muc_nick`, `sig_set_presence`,
`send_message`, `cmd_topic`, `muc_set_mode`, `muc_set_role`, `muc_set_affiliation`, ...),
the presence handlers (`available`, `unavailable`, `NickChange`, `error_presence`) with any
nick, code and mark, and the handlers of messages and answers (`sig_recv_message`,
`sig_recv_iq`): `sent` is what the
step sent.  Affiliation, role, show and status arrive together and are one value.
Status 210 of the very nick that was asked for makes `own_join` hand the record's own
string to the rename, which frees it and copies it afterwards (`RenamesItself`): our record
and `channel->nick` then get any string, not even the same one (`OwnJoinFreed`, over all of
`Nick`).  A new session may begin with a join (`sig_connected`, for a room with autojoin).

`MucRoom` adds a room that follows XEP-0045 with FIFO streams both ways.  The
others enter, leave, rename themselves and are kicked; the room refuses taken
nicks, removes the user, or forces another nick (`Forces`).  Two things the user
does not do there, because the client does confuse them: come back (`Join`) while
stanzas of an earlier stay are in flight, and `/NICK` before the join has ended or while
the room is being destroyed (`Ending`).
Presences carry no mark of the stay or request they answer, so the client would
keep ghosts or take another occupant for itself.  The destruction of a room is a stanza of
its own (`Destroyed`), which the client takes for a departure without status.  `Cycle` is in `MucChannel` only,
for the same reason.

The room keeps a subject, a configuration and what it knows of each person (`info`), which
the user may change as far as the code has a command for it; the others speak, set the
subject, configure the room and invite.  A message carries who wrote it (`by`), which the
client cannot see, for `MessagesAttributed`.  `fresh` says that the configuration has not
changed since the user entered or was told of it: the client asks for it then only.

### Ping

`record` holds what the server records keep for pings, `supported` and `pings` are the
two static lists.  The actions are the command (`cmd_ping`, with `request_ping`), the
result of a ping (`Answer`, `Pong`), the announcement of the server
(`sig_server_features`), the timer's walk over the servers (`check_ping_func`) and the end
of a session (`Disconnected`, which runs `datalist_cleanup`).  `server_disconnect` inside
the walk frees the node that the walk stands on; reading its `next` is undefined, and the
model lets the walk go on or stop there (a crash is not modelled).  `flight` is the pings
without a result: an error is ignored by the code, so it is as good as silence.  An answer
carries the age of its ping, which the code cannot see, for `ReportsItsPing`.

### Composing

One account and one peer, a full JID with a query.  `KeyPressed` and `ReturnPressed` are the
branches of `sig_gui_key_pressed`, `stop_composing(i)` is the i-th of the timers, which
`g_timeout_add` starts for each stretch of typing and which a message does not end.  A timer
holds its query by address: after `sig_query_destroyed` it reads freed memory, which may
have become the next query (`xmpp_query_create` chooses), or is taken for no query at all; a
crash is not modelled.  `peer.told` is what the peer was told; of one that was told of
typing and that no timer will tell of the end, it says why: RETURN was on a line that sends
nothing ("unsent"), or the peer no longer asks ("unasked").  `peer.said` is what it last said, unknown (`NULL`) after it, the session
or the query went away.  The setting `xmpp_send_composing` and the window that has the focus
are one flag, `keylog`: either makes keys count or not.

The handlers of `composing.c` and `chatstates.c` run in irssi's order, the newest of equal
priority first; with the other order, chat states would never show.

## Runs

| run | checks | shows |
|---|---|---|
| `roster_presence` | `TypeOK`, `ResolvesToHighest`, `OneRecordPerResource`, `TracksPresence`, `StanzasTellTable` | presences of two resources of a contact and of the account, with priorities of both signs and none, interleaved with items: the sorted lists implement the table, and names resolve to the highest priority |
| `roster_gateway` | `OneRecordPerResource`, violated | each presence of a gateway adds a record |
| `roster_sync` | `OneEntryPerContact`, `RecordsListed`, `ClientShowsServer`, `RequestsHonoured`, `SubscriptionsHonoured` | two contacts, added, renamed, moved between groups and removed, who ask and are asked for presence, with up to three stanzas in flight: each is listed once and has one record; after delivery client and server agree, every unhurried command stands, and who sees whom is what the user decided last |
| `roster_lost_update` | `RequestsHonoured`, violated | `/ROSTER NAME` and `/ROSTER GROUP` typed in a row: the second undoes the first |
| `session` | `TypeOK`, `PresenceKnown`, `TimerWhileConnecting`, `StatusSurvives`, `IdentityKept`, `NotAskedAgain`, `CallbacksHaveRecord`, `OneVerdict`, `AttemptEnds` | losses, failures, timeouts, retries, `/AWAY` and settings at any moment, before and after registrations: status, JID and password survive; every attempt ends; each registration is told its outcome once, and no callback is left without its record |
| `session_reason` | `ReasonKept`, violated | a change of priority while away loses the reason |
| `session_lookup` | `LookupExists`, violated | an attempt that times out stays in `lookup_servers`, freed |
| `muc_channel` | `TypeOK`, `OwnRecord` | every presence a room could send, sensible or not, also where the code reads a string that it freed: one record of ours, the first of the nick under which it lies |
| `muc_room` | `NamesAreOccupants`, `OwnNickKnown`, `JoinedOrGone`, `TopicIsSubject`, `ModeKnown`, `MessagesAttributed`, `JoinEnds` | a user, another occupant and the room act while stanzas are in flight: after delivery nicks, own nick, topic and mode are the room's; messages are told apart at every moment |
| `muc_forced` | `NamesAreOccupants`, violated | a forced nick makes the client take another occupant for itself |
| `ping` | `TypeOK`, `NothingOfFreedServers`, `ReportsItsPing`, `OnlyLateServersDropped`, `DeadLinkNoticed` | two sessions, pings of the user and the timer, silent deaths of links: each time told is that of its ping, and dead links, and only late ones, are dropped |
| `composing` | `TypeOK`, `TypingIsWatched`, `ShowsLastEvent`, `TypingEnds` | typing, messages, queries, events in both protocols, departures and lost sessions, interleaved with the timers: a peer who was told that the user types is told of the end or knows it, but for the cases that `TypingEnds` excludes, and the mark shows what the peer last said |

Every property of a passing run has a mutant, a plausible bug in one definition,
that the run finds.

### Bounds, and why they are enough

- *Roster.* The handlers treat contacts one at a time and meet others only through
  a shared group.  Sorting compares two records at a time: two resources with two priorities and
  "no priority" show each outcome.  The theorems of `RosterProofs` hold for any number.
- *RosterSync.* `MaxInFlight = 2`, and `/ROSTER ADD` may be typed while one waits and puts
  two: three stanzas cross, a command, a push of another client and an answer.  The
  violation needs two.  Two contacts, so that a result has several items and a group
  outlives a member; this client's commands and the contacts' requests are about one of
  them (`Managed`), the other client edits both: items of two contacts meet in the
  group that they share only, and the server keeps each subscription for itself.
- *Session.* Two reasons, three values of show and settings inside and outside the
  range of XMPP.  The number of losses and retries is not bounded.
- *MucChannel.* Three nicks: the one asked for, the alternate one and the one with
  an underscore; `MaxChain = 2` records of a nick (the table is a bug's playground
  beyond what XEP-0045 rooms send; `OwnRecordKept` is proved for any `MaxChain`).
- *MucRoom.* Three moves (`MaxMoves`) of one other occupant, the room, and the user's
  commands that do not end the stay; three stanzas in flight when somebody acts
  (`MaxInFlight`): a rename, a departure and a kick can all be under way while the client
  asks for another nick.  With two others, both alternate nicks may be taken, and the
  client tries them in turn for as long as they are: `JoinEnds` is claimed for one.
  `RemovalCode` is {none, 301}: 307 takes the same branch as 301, and the client ignores
  the removals with 321, 322 and 332.  One subject beside none, two modes.
- *Ping.* Ages stop one above the setting that they are compared with (`Old`, `Long`), and at 1
  for entities, whose time is only told.  The user has two pings of an account in flight
  (`MaxPings`), so that one replaces the other, and pings from one account (`Pinged`);
  the other account's pings are the timer's.  The bound also keeps the user from pinging the
  server of a dead link for ever, which would put off its disconnection each time.
- *Composing.* `COMPOSING_TIMEOUT = 3` units: a key may come early enough to renew the time, or
  too late.  Two timers (`MaxTimers`), one of an earlier message; two stanzas in flight.
- `HurryCounts = FALSE` drops the wishes of a command that is typed while an earlier
  one on the same JID is in flight; `roster_lost_update` sets it to TRUE.

### Fairness

- `Session`: weak fairness of `check_connection_timeout` only.  GLib fires a timeout
  that stays set; nothing is assumed of Loudmouth, the network or the user.
- `MucRoom`: weak fairness of `Deliver` and `RoomHandles`: stanzas sent on a stream
  that does not break arrive, and a room answers.
- `Ping`: weak fairness of `check_ping_func`, a timer of every second that is never removed,
  and of `Tick`.  Answers need not come.  Where other servers are dropped for lag again
  and again, the walk may end at them each time; `DeadLinkNoticed` claims nothing there.
- `Composing`: weak fairness of the timers and of `Tick`.  `TypingEnds` excludes users who
  type for ever, a last RETURN on a line that sends nothing, and a peer that asks no more,
  the last two where nothing ever follows.
- `Registration` adds no fairness: a server that never answers leaves a registration
  pending, since the code has no timeout for it.
- `RosterSync` and `MucChannel` state safety only.

## Findings

1. `rosters.c:367` (`roster_gateway`): a resource created for a presence without
   resource has the name "", which a later search for NULL does not find.
2. `xmpp-commands.c:335` (`roster_lost_update`): each `/ROSTER` command sends back the
   attribute that the client last saw.
3. `protocol.c:39` (`session_reason`): the reason is freed before it is copied.
4. `xmpp-servers.c:473` (`session_lookup`): the timeout frees a record that
   `lookup_servers` still holds.
5. `core/xep/muc-events.c:112` (`muc_forced`): after a forced nick `channel->nick` stays.

Seen while modelling, and modelled as it is, without a statement of the repository to
set it against: a move leaves an empty group behind where a removal does not; `/ROSTER
ADD` of a listed contact wipes its name and group; a priority set while a
reconnection waits is replaced by the old one; `restore_channels` returns when there
is something to restore (`muc-reconnect.c:82`), so rooms are not joined again;
`channel->chanop` is read before the modes that decide it; a taken alternate nick is
retried for ever; if irssi runs the newest handler of "server connected" first, who is
away without a reason is announced as available after a reconnection (`PresenceKnown`
leaves that case out); RETURN on an emptied line leaves the peer with "composing"
(`fe-composing.c:100`); a room that says it changed the nick to the one asked for makes the
client read a freed string, and a kick or departure of the user then finds no record
(`muc-events.c:112`, `muc-nicklist.c:99`); a peer that leaves while it types keeps its mark in the status bar; after
a reconnection typing is not announced before the next RETURN; a registration whose
server is silent stays pending; `/XMPPPASSWD` leaves the old password in the connection
record; the default configuration of a new room is sent as a `get` (`muc-events.c:313`).

Seen, and outside the models: `parse_timezone` of `core/xep/datetime.c` computes with
unsigned numbers, so that offsets west of Greenwich are wrong where `long` is wider than
`int`; the list of nicks in `fe-common/xmpp-completion.c` says "first complete with online
contacts" and prepends, so that they come last; a change of `xmpp_set_nick_as_username`
while an attempt is under way leaves `server->nick` as it was.

## Proofs

Theorems hold for every value of the constants under the named assumptions of their module:

| module | theorem | says |
|---|---|---|
| `RosterProofs` | `TypeCorrect` | `Spec => []TypeOK` |
| | `ContactsListedOnce` | `Spec => []OneEntryPerContact` |
| | `RecordsAreListed` | `Spec => []RecordsListed` |
| | `HighestPriorityResolved` | `Spec => []ResolvesToHighest` |
| | `ResourcesRecordedOnce` | `Gateway = {}` implies `Spec => []OneRecordPerResource` |
| `RosterTableProofs` | `RosterImplementsTable` | `NoGateway`, `NotOwnContact` imply `Spec => TracksPresence` |
| | `StanzasTellTheTable` | the same imply `Spec => StanzasTellTable` |
| `RosterSyncProofs` | `SyncInvariance` | `SyncSpec => []SyncInv` |
| | `ContactsListedOnceInSync` | `SyncSpec => []OneEntryPerContact` |
| | `RecordsAreListedInSync` | `SyncSpec => []RecordsListed` |
| | `ServerShown` | `SyncSpec => []ClientShowsServer` |
| | `RequestsAreHonoured` | `~HurryCounts` implies `SyncSpec => []RequestsHonoured` |
| | `SubscriptionsAreHonoured` | `SyncSpec => []SubscriptionsHonoured` |
| `MucChannelProofs` | `ChannelTypeCorrect` | `ChannelSpec => []TypeOK` |
| | `OwnRecordKept` | `ChannelSpec => []OwnRecord` |
| `MucRoomProofs` | `RoomInvariance` | `NickKept`, `KnownRemovals` imply `RoomSpec => []IInv` |
| | `NamesAreOccupantsKept` | the same imply `RoomSpec => []NamesAreOccupants` |
| | `OwnNickKnownKept` | ... `RoomSpec => []OwnNickKnown` |
| | `JoinedOrGoneKept` | ... `RoomSpec => []JoinedOrGone` |
| | `TopicIsSubjectKept` | ... `RoomSpec => []TopicIsSubject` |
| | `ModeKnownKept` | ... `RoomSpec => []ModeKnown` |
| | `MessagesAttributedKept` | ... `RoomSpec => []MessagesAttributed` |
| `SessionProofs` | `SessionTypeOK` | `Spec => []TypeOK` |
| | `SessionTimer` | `Spec => []TimerWhileConnecting` |
| | `SessionIdentity` | `Spec => []IdentityKept` |
| | `SessionNotAskedAgain` | `Spec => []NotAskedAgain` |
| | `SessionPresenceKnown` | `Spec => []PresenceKnown` |
| | `SessionStatusSurvives` | `Spec => []StatusSurvives` |
| | `RegistrationImplementsSession` | `RegistrationSpec => Spec` |
| | `RegistrationInvariant` | `RegistrationSpec => []RegistrationInv` |
| | `RegistrationCallbacks` | `RegistrationSpec => []CallbacksHaveRecord` |
| | `RegistrationToldOnce` | `RegistrationSpec => []OneVerdict` |
| `PingProofs` | `PingInvariance` | `PingSpec => []IInv` |
| | `PingTypeCorrect` | `PingSpec => []TypeOK` |
| | `NothingKeptOfFreedServers` | `PingSpec => []NothingOfFreedServers` |
| | `LagIsOfItsPing` | `PingSpec => []ReportsItsPing` |
| | `DroppedServersAreLate` | `PingSpec => OnlyLateServersDropped` |
| `ComposingProofs` | `ComposingInvariance` | `ComposingSpec => []ComposingInv` |
| | `ComposingTypeCorrect` | `ComposingSpec => []TypeOK` |
| | `TypingAlwaysWatched` | `ComposingSpec => []TypingIsWatched` |
| | `MarkShowsLastEvent` | `ComposingSpec => []ShowsLastEvent` |

*Roster.* `OneEntryPerContact` is not inductive without `RecordsListed`: that a contact
that has no record is in no group is what makes the insertion of a new one safe.
`ResolvesToHighest` speaks of the first record only; the inductive form is that whole
lists are sorted (removing the first must leave a highest one in front) and that no
two records have the same name, but for the records of gateways.  `IInv` is the
conjunction.  The lemmas say what each operator on lists returns: `Find` the first
record of a name (by the least element of a set of naturals), `Sorted` a sorted
permutation, `WithPresence`, `Without` and `WithError` good lists from good lists.

*PresenceTable.* A list *says* a row per record.  The lemmas give what each operator makes a
list say: a presence adds or replaces one row, a departure removes the rows of one
resource, and sorting leaves what is said, since the order in which `Sorted` puts the records
is onto (the pigeonhole principle, `FS_Injection`).  `IInv` of `RosterProofs` keeps the names of a
list apart, so that the record found is the only one.  Each handler is then a step of
the table or a stutter.  `NoGateway` and `NotOwnContact` are needed: a gateway's records
pile up (`roster_gateway`), and an account that lists itself as a contact has its
resources in two places, of which a presence reaches one.

*RosterSync.* `SyncInv` adds to the invariant of `Roster` what the stanzas in flight are about
to do.  `Latest`: the last push in flight about a contact tells what the server keeps of
it, and when none is in flight the client shows that already; with nothing in flight this is
`ClientShowsServer`.  It is claimed once the query of the roster was answered, before which
`Fresh` says that the client has nothing.  `Decided`: of the user's presences to a contact
in flight, the last that matters is the one that was wanted last, or the server did as wanted.
`Requested` is the same of the commands on the roster, and of `~HurryCounts` only: such a
command carries the attributes that it does not set as the client last saw them, which is
what the server keeps when nothing else is in flight.  `roster_lost_update` shows what
happens otherwise.

*MucChannel.* `OwnRecord` is inductive with the types, as `ChannelInv`: every chain is a
non-empty sequence, a record marked as ours is the first of its chain, two chains do
not both have one, and a joined channel has one.  The one delicate step is a change of
nick: the record that moves is ours, and then no other is, so it may go to the front
of its new chain; or it is not, and goes to the end.  A rename that reads the freed string
changes where the record lies, and none of this.

*MucRoom.* Nothing that the client holds is the room's while stanzas are in flight, so the
invariant is a prediction (`Foretold`): handled one after the other, the stanzas on their
way to the client lead its channel to another one (`Leads`, a sequence of channels), and
that one *shows* the room as it is now (`InRoom`); or belongs to somebody whom the room has
not let in yet, with one request or one refusal in flight (`Waiting`); or is none, and then
the client has left or is about to (`Gone`).  With nothing in flight the two channels are
the same, and the five properties of `Settled` and `Quiet` follow.  On the way each stanza
must be handled as it was meant (`Meant`): it ends the channel only if the stay is over, a
message is the user's if and only if its nick is the channel's, which is
`MessagesAttributed`, and a refusal meets the channel that asked.  A step of the room adds
stanzas at the far end of the way, so one lemma per kind of stanza (`Turns...`) says that
a channel which shows the room shows it after them as well; a delivery takes the first step
of the way (`Delivered`); a command of the user leaves the way alone.  The lemmas below
those say what a presence, a departure or another nick does to a table that lists the
occupants (`Lists...`), and that the presentation of the occupants builds one
(`LeadsIntroduced`).  `NickKept` is `~Forces`, which `muc_forced` shows needed;
`KnownRemovals` leaves out the removals with status 321, 322 and 332, which the client
ignores (`muc-events.c:406`).  The proof asked for the guard `Ending` as it is now: with
an earlier, weaker one, which let the user type `/NICK` after the room had handled a
destruction and before the client had heard of it, the invariant is not inductive.

`IInv` alone is not inductive: a session may begin with a join, which must find nothing in
flight and the user outside.  `Offline` says so of the time without session, and the two are
proved together.

*Session.* None of the six is inductive: a status that the user sets in one session is
seen again only in the next one, after it went through a connection record, any number
of copies of it, and the record of the next attempt.  `Inv` says for each of these
stations what it holds: a record that waits is as irssi will want it (`Queued`: the full
JID is its nick) and remembers the password that was typed (`Remembers`); that of an
attempt or session has the full JID aside (`InUse`); while nothing is connected the record
would restore what the user asked for (`Restores`); a server record is blank until its
session is up (`Blank`), and then as wanted (`AsWanted`), and the XMPP server knows it
(`Known`).  There is a lemma for each function that moves the data (`CopyConn`,
`NickKept`, `SaveStatus`, `SigConnected` with both orders of "server connected",
`SetPresence`), and one step per callback.

*Registration.* `RegistrationInv` adds to `CallbacksHaveRecord` that a record holds the
only reference to its connection, so that the callback that frees the one ends the other;
`OneVerdict` follows for each step from it.
`RegistrationImplementsSession` carries every theorem about `Session`, and `AttemptEnds`,
over to the composition: what registration does to a session, the user could do.

*Ping.* `ReportsItsPing` compares the age of an answer with the time of the record that it
meets, which makes sense only while ids tell pings apart.  `IInv` says so: no two pings of an
account in flight have the same id (`UniqueIds`), at most one ping is awaited of a JID
(`OnePerJid`), and what is awaited with the id of a ping in flight is that ping, as old
(`Awaited`; `PingHeld` for the ping of the timer).  A new ping gets an id that is not in flight,
which exists because fewer are in flight than there are ids (`Counted`, a count of finite
sets).  `Without` picks an increasing enumeration, whose existence (`Enumerated`) is an
induction on a number, done by its least counterexample.

*Composing.* `TypingIsWatched` is not inductive: a timer that was started for a query
that is gone must not be taken for the timer of the next one, unless that one got the same
memory (`TimersOwned`).  `MarkFollows` generalises `ShowsLastEvent` to the stanzas in
flight: the last of them says what the peer said last.

No invariant and no action property of a run is only model-checked.  Out of the prover's
reach and with TLC alone: `AttemptEnds`, `JoinEnds`, `DeadLinkNoticed` and `TypingEnds` (liveness
under fairness), and anything that needs induction over data; no module uses a RECURSIVE
operator.

## Not modelled

Completion, printing, the status bar, recoding and module loading keep no state that
another step reads, or only lay out text.  Version, vCard, out-of-band data and delay
answer a stanza or annotate it.  `stanzas.c` turns stanzas into signals and signals into
stanzas, which the actions of the models start from.  Of a message to a person,
`send_message` and `sig_recv_message` only build and pass on texts.  `/XMPPUNREGISTER`,
`/XMPPPASSWD`, `/ROSTER FULL` and `/QUOTE` send or print one thing.  Passwords of rooms
are part of a stanza that the room refuses or not.  SSL and proxy parameters are one of
the ways an attempt fails.  The features of entities other than the own server, and
answers to their requests, are printed or sent and kept by nobody.

## Plan

Done: `Roster`, `PresenceTable`, `RosterSync` with subscriptions, `Session`,
`Registration`, `MucChannel` and `MucRoom` with topics, modes, messages and
administration, `Ping`, `Composing`; the safety proofs of all of them.

Next: what the theorems about `MucRoom` leave out.  Of a room with `Forces`, everything but
`OwnNickKnown` and `MessagesAttributed` should follow from the same prediction with the
nick of the channel left open; and of one that removes with codes that the client ignores,
what holds of everybody who was not removed so.
