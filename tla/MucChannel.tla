----------------------------- MODULE MucChannel -----------------------------
(***************************************************************************)
(* A room of multi-user chat as the client sees it: core/xep/muc.c,        *)
(* muc-events.c, muc-nicklist.c, muc-commands.c and muc-reconnect.c.       *)
(*                                                                         *)
(* The client keeps one record for the room (channel): the nick it asked   *)
(* for, whether it is joined, the topic and mode, and the nicks it was     *)
(* told of, in a hash table of chains that irssi shares with the code.     *)
(* Whatever the room sends is an input here; module MucRoom gives it a     *)
(* room that follows XEP-0045.  An occupant's affiliation, role, show and  *)
(* status, which each presence replaces together, are one value (info).    *)
(* Texts that are only printed, and server->last_invite, which irssi reads *)
(* when the user types /JOIN -invite, are left out.                        *)
(***************************************************************************)
EXTENDS Naturals, Sequences, Functions

CONSTANTS
  Nick,          \* the nicks of rooms
  FirstNick,     \* the nick that /JOIN asks for (setting "nick")
  AltNick,       \* the setting "alternate_nick"
  Underscored,   \* the nick that follows each one: "%s_"
  Info,          \* what a presence says of an occupant
  Jid,           \* the people an administrator may name
  Topic,         \* the subjects of rooms
  Mode,          \* the modes that the features of a room stand for
  Code,          \* the first status code of an unavailable presence, or NULL
  Error,         \* the codes of error presences
  MaxChain,      \* bound: records of the same nick
  NULL           \* the C null pointer

ASSUME NickAssumption ==
  /\ {FirstNick, AltNick} \subseteq Nick
  /\ Underscored \in [Nick -> Nick]
  /\ NULL \notin Nick
ASSUME TopicAssumption == NULL \notin Topic /\ NULL \notin Mode
ASSUME BoundAssumption == MaxChain \in Nat

VARIABLES
  connected,   \* server->connected
  channel,     \* the MUC_REC
  sent         \* the stanzas that the last step sent to the room

channel_vars == <<connected, channel, sent>>

-----------------------------------------------------------------------------
(* Stanzas to the room.  "enter" is a presence with <x xmlns='.../muc'/>,    *)
(* which joins or changes the nick; "update" is a plain presence.  The       *)
(* administrator names an occupant by nick for a role ("none" is a kick) and *)
(* by JID for an affiliation ("outcast" is a ban).                           *)
Rank == Info \cup {"none", "outcast"}

Stanza ==
  [kind : {"enter", "update", "leave"}, nick : Nick]
  \cup [kind : {"subject"}, topic : Topic \cup {NULL}]
  \cup [kind : {"configure"}, mode : Mode]
  \cup [kind : {"role"}, nick : Nick, rank : Rank]
  \cup [kind : {"affiliation"}, jid : Jid, rank : Rank]
  \cup [kind : {"say", "features", "form", "list", "invite", "destroy"}]

Enter(n)  == [kind |-> "enter",  nick |-> n]
Update(n) == [kind |-> "update", nick |-> n]
Leave(n)  == [kind |-> "leave",  nick |-> n]

Subject(t)           == [kind |-> "subject", topic |-> t]
Configure(m)         == [kind |-> "configure", mode |-> m]
Role(n, rank)        == [kind |-> "role", nick |-> n, rank |-> rank]
Affiliation(j, rank) == [kind |-> "affiliation", jid |-> j, rank |-> rank]
Say      == [kind |-> "say"]
Features == [kind |-> "features"]   \* disco_request
Form     == [kind |-> "form"]       \* the owner asks for the configuration form
List     == [kind |-> "list"]       \* who has a role or an affiliation
Invite   == [kind |-> "invite"]
Destroy  == [kind |-> "destroy"]

(* The table of nicks: a chain of records for each nick.  own marks the      *)
(* record that channel->ownnick points to.                                   *)
NickRec == [info : Info, own : BOOLEAN]

Put(f, key, value) ==
  [k \in DOMAIN f \cup {key} |-> IF k = key THEN value ELSE f[k]]

Chain(t, n) == IF n \in DOMAIN t THEN t[n] ELSE <<>>

PutLast(t, n, r)  == Put(t, n, Append(Chain(t, n), r))

(* nicklist_set_own moves our own record to the front of its chain. *)
PutFirst(t, n, r) == Put(t, n, <<r>> \o Chain(t, n))

(* Mutant of RemoveHead: a nick whose last record goes keeps its chain. *)
RemoveHead_LeavesEmpty(t, n) == Put(t, n, Tail(t[n]))

(* nick_hash_remove, for the record that nicklist_find returned: the first   *)
(* of its chain.                                                             *)
RemoveHead(t, n) ==
  IF Len(t[n]) = 1 THEN Restrict(t, DOMAIN t \ {n}) ELSE Put(t, n, Tail(t[n]))

Disown(t) == [n \in DOMAIN t |-> [i \in DOMAIN t[n] |-> [info |-> t[n][i].info, own |-> FALSE]]]

NoNicks   == [n \in {} |-> <<>>]
NoChannel == [exists |-> FALSE, nick |-> FirstNick, joined |-> FALSE, nicks |-> NoNicks,
              topic |-> NULL, mode |-> NULL]

(* muc_create and sig_channel_created. *)
NewChannel(n) == [exists |-> TRUE, nick |-> n, joined |-> FALSE, nicks |-> NoNicks,
                  topic |-> NULL, mode |-> NULL]

WithNicks(c, t) == [exists |-> c.exists, nick |-> c.nick, joined |-> c.joined, nicks |-> t,
                    topic |-> c.topic, mode |-> c.mode]

(* Mutant of WithTopic: a subject that is emptied is taken for none. *)
WithTopic_NeverEmpty(c, t) ==
  [exists |-> c.exists, nick |-> c.nick, joined |-> c.joined, nicks |-> c.nicks,
   topic |-> IF t = NULL THEN c.topic ELSE t, mode |-> c.mode]

(* topic: an empty subject leaves no topic. *)
WithTopic(c, t) == [exists |-> c.exists, nick |-> c.nick, joined |-> c.joined, nicks |-> c.nicks,
                    topic |-> t, mode |-> c.mode]

(* sig_features: the mode is what the features of the room stand for. *)
WithMode(c, m)  == [exists |-> c.exists, nick |-> c.nick, joined |-> c.joined, nicks |-> c.nicks,
                    topic |-> c.topic, mode |-> m]

(* Mutant of Renamed: our own record is put at the end of its new chain. *)
Renamed_OwnLast(c, old, new) ==
  IF old \notin DOMAIN c.nicks THEN c
  ELSE [exists |-> c.exists, nick |-> IF old = c.nick THEN new ELSE c.nick, joined |-> c.joined,
        nicks |-> PutLast(RemoveHead(c.nicks, old), new, Head(c.nicks[old])),
        topic |-> c.topic, mode |-> c.mode]

(* Mutant of Renamed: channel->nick keeps the nick that was left. *)
Renamed_KeepsNick(c, old, new) ==
  IF old \notin DOMAIN c.nicks THEN c
  ELSE WithNicks(c, PutFirst(RemoveHead(c.nicks, old), new, Head(c.nicks[old])))

(* nick_changed and xmpp_nicklist_rename.  The record of channel->nick       *)
(* becomes our own, whatever record it was.                                  *)
Renamed(c, old, new) ==
  IF old \notin DOMAIN c.nicks THEN c
  ELSE LET r == Head(c.nicks[old])
           t == RemoveHead(c.nicks, old)
       IN  IF old = c.nick
           THEN [exists |-> c.exists, nick |-> new, joined |-> c.joined,
                 nicks |-> PutFirst(Disown(t), new, [info |-> r.info, own |-> TRUE]),
                 topic |-> c.topic, mode |-> c.mode]
           ELSE WithNicks(c, IF r.own THEN PutFirst(t, new, r) ELSE PutLast(t, new, r))

(* nick_mode and nick_presence. *)
SetInfo(c, n, info) ==
  WithNicks(c, Put(c.nicks, n, <<[info |-> info, own |-> c.nicks[n][1].own]>> \o Tail(c.nicks[n])))

(* own_join; forced is status code 210.  The call of nick_changed comes      *)
(* after the record of the forced nick was inserted.  Where that is the nick *)
(* that was asked for, OwnJoinFreed stands for it.                           *)
OwnJoin(c, n, info, forced) ==
  LET j == [exists |-> c.exists, nick |-> c.nick, joined |-> TRUE,
            nicks |-> PutFirst(Disown(c.nicks), n, [info |-> info, own |-> TRUE]),
            topic |-> c.topic, mode |-> c.mode]
  IN  IF c.joined THEN c
      ELSE IF forced THEN Renamed(j, c.nick, n) ELSE j

(* own_join, when the room says 210 of the nick that was asked for.  The new *)
(* nick that it passes to nick_changed is then the string of the very record *)
(* that is renamed: xmpp_nicklist_rename frees it and copies it afterwards,  *)
(* once for the record (key) and once for channel->nick (nick).  What memory *)
(* holds by then may be any string.                                          *)
RenamesItself(c, n, forced) == forced /\ n = c.nick /\ ~c.joined /\ n \notin DOMAIN c.nicks

OwnJoinFreed(c, info, key, nick) ==
  [exists |-> c.exists, nick |-> nick, joined |-> TRUE,
   nicks |-> PutFirst(Disown(c.nicks), key, [info |-> info, own |-> TRUE]),
   topic |-> c.topic, mode |-> c.mode]

(* own_event and nick_event, for the nick of an available presence. *)
Presented(c, n, info, own, forced) ==
  IF n \in DOMAIN c.nicks THEN SetInfo(c, n, info)
  ELSE IF own \/ n = c.nick THEN OwnJoin(c, n, info, forced)
       ELSE WithNicks(c, PutLast(c.nicks, n, [info |-> info, own |-> FALSE]))

-----------------------------------------------------------------------------
(* Actions: commands *)

(* /JOIN, or an invitation to a room with autojoin: muc_join, send_join. *)
muc_join(n) ==
  /\ connected
  /\ ~channel.exists
  /\ channel' = NewChannel(n)
  /\ sent' = <<Enter(n)>>
  /\ UNCHANGED connected

(* /PART, or the window of the room is closed: muc_part. *)
muc_part ==
  /\ channel.exists
  /\ channel' = NoChannel
  /\ sent' = <<Leave(channel.nick)>>
  /\ UNCHANGED connected

(* /CYCLE: irssi destroys the channel and joins it again with get_join_data. *)
Cycle ==
  /\ channel.exists
  /\ channel' = NewChannel(channel.nick)
  /\ sent' = <<Leave(channel.nick), Enter(channel.nick)>>
  /\ UNCHANGED connected

(* /NICK: muc_nick.  Nothing changes before the room's answer. *)
muc_nick(n) ==
  /\ channel.exists
  /\ sent' = <<Enter(n)>>
  /\ UNCHANGED <<connected, channel>>

(* /AWAY: sig_set_presence, send_muc_presence. *)
sig_set_presence ==
  /\ channel.exists
  /\ sent' = <<Update(channel.nick)>>
  /\ UNCHANGED <<connected, channel>>

-----------------------------------------------------------------------------
(* Actions: commands that only ask the room for something.  The room's answer *)
(* changes the channel, if anything does.                                     *)

Ask(stanza) ==
  /\ channel.exists
  /\ sent' = <<stanza>>
  /\ UNCHANGED <<connected, channel>>

(* A line typed in the window of the room, or /ME, which is printed when the  *)
(* room sends it back.                                                        *)
send_message == Ask(Say)
cmd_me       == send_message

(* /TOPIC and /TOPIC -delete. *)
cmd_topic(t) == Ask(Subject(t))

(* /MODE without and with a mode. *)
disco_request   == Ask(Features)
muc_set_mode(m) == Ask(Configure(m))

(* /ROLE and /KICK, /AFFILIATION and /BAN; without nick or JID they list.     *)
muc_set_role(n, rank)        == Ask(Role(n, rank))
muc_get_role                 == Ask(List)
muc_set_affiliation(j, rank) == Ask(Affiliation(j, rank))
muc_get_affiliation          == Ask(List)

cmd_invite  == Ask(Invite)
muc_destroy == Ask(Destroy)

-----------------------------------------------------------------------------
(* Actions: stanzas from the room.  Those for a room that is not in          *)
(* server->channels are left to other handlers.                              *)

(* Mutant of JoinSends: the features are not asked for. *)
JoinSends_Nothing(c, d) == <<>>

(* The end of own_join: who enters asks for the features of the room. *)
JoinSends(c, d) == IF ~c.joined /\ d.joined /\ d.mode = NULL THEN <<Features>> ELSE <<>>

(* created is status code 201: the owner of a new room asks for its form. *)
available(n, info, own, forced, created) ==
  /\ channel.exists
  /\ IF RenamesItself(channel, n, forced)
     THEN \E key, nick \in Nick : channel' = OwnJoinFreed(channel, info, key, nick)
     ELSE channel' = Presented(channel, n, info, own, forced)
  /\ sent' = (IF created THEN <<Form>> ELSE <<>>) \o JoinSends(channel, channel')
  /\ UNCHANGED connected

(* Mutant of ShownAs: our messages are told by the nick that was asked for. *)
ShownAs_FirstNick(c, n) == IF n = FirstNick THEN "own" ELSE "other"

(* sig_recv_message: how a message is shown is told by channel->nick. *)
ShownAs(c, n) == IF n = NULL THEN "room" ELSE IF n = c.nick THEN "own" ELSE "other"

(* sig_recv_message for a message that has a subject; what has a body only is *)
(* printed.                                                                   *)
topic(t) ==
  /\ channel.exists
  /\ channel' = WithTopic(channel, t)
  /\ sent' = <<>>
  /\ UNCHANGED connected

sig_features(m) ==
  /\ channel.exists
  /\ channel' = WithMode(channel, m)
  /\ sent' = <<>>
  /\ UNCHANGED connected

(* Stanzas that are printed and change nothing: messages of the occupants     *)
(* (sig_recv_message, error_message), and answers to requests (sig_recv_iq,   *)
(* admin, error_destroy).                                                     *)
Printed ==
  /\ channel.exists
  /\ sent' = <<>>
  /\ UNCHANGED <<connected, channel>>

sig_recv_message == Printed
sig_recv_iq      == Printed

(* invite, when the room is one to join automatically; other invitations are  *)
(* printed.                                                                   *)
invite == muc_join(FirstNick)

(* Status code 303: nick_changed. *)
NickChange(n, new) ==
  /\ channel.exists
  /\ Len(Chain(channel.nicks, new)) < MaxChain
  /\ channel' = Renamed(channel, n, new)
  /\ sent' = <<>>
  /\ UNCHANGED connected

(* Mutant of Departs: a kick takes the record away and keeps the channel. *)
Departs_KickStays(n, kicked) ==
  /\ channel' = IF n \notin DOMAIN channel.nicks THEN channel
                ELSE IF channel.nicks[n][1].own /\ ~kicked THEN NoChannel
                     ELSE WithNicks(channel, RemoveHead(channel.nicks, n))
  /\ sent' = <<>>

(* nick_part and nick_kicked.  A kick does not set left, so the channel that *)
(* it destroys is parted as well (sig_channel_destroyed).                    *)
Departs(n, kicked) ==
  IF n \notin DOMAIN channel.nicks
  THEN channel' = channel /\ sent' = <<>>
  ELSE IF channel.nicks[n][1].own
       THEN channel' = NoChannel /\ sent' = IF kicked THEN <<Leave(channel.nick)>> ELSE <<>>
       ELSE channel' = WithNicks(channel, RemoveHead(channel.nicks, n)) /\ sent' = <<>>

(* Mutant of unavailable: bans are not handled. *)
unavailable_KicksOnly(n, code) ==
  /\ channel.exists
  /\ \/ code = NULL /\ Departs(n, FALSE)
     \/ code = 307 /\ Departs(n, TRUE)
     \/ code \notin {NULL, 307} /\ channel' = channel /\ sent' = <<>>
  /\ UNCHANGED connected

(* unavailable, for the first status code of the stanza.  Codes other than   *)
(* 307 (kick) and 301 (ban) are ignored.                                     *)
unavailable(n, code) ==
  /\ channel.exists
  /\ \/ code = NULL /\ Departs(n, FALSE)
     \/ code \in {301, 307} /\ Departs(n, TRUE)
     \/ code \notin {NULL, 301, 307} /\ channel' = channel /\ sent' = <<>>
  /\ UNCHANGED connected

(* Mutant of NextNick: the alternate nick is tried again and again. *)
NextNick_AltOnly(n) == AltNick

(* The alternate nick, or the nick that was refused with an underscore. *)
NextNick(n) == IF n # AltNick THEN AltNick ELSE Underscored[n]

(* error_join and error_presence.  406 and 409 mean that the nick is taken;  *)
(* other errors destroy the channel, which parts it as well.                 *)
error_presence(n, code) ==
  /\ channel.exists
  /\ IF channel.joined \/ n \notin {NULL, channel.nick}
     THEN channel' = channel /\ sent' = <<>>
     ELSE IF code \in {406, 409}
          THEN /\ channel' = [exists |-> TRUE, nick |-> NextNick(channel.nick),
                              joined |-> FALSE, nicks |-> channel.nicks,
                              topic |-> channel.topic, mode |-> channel.mode]
               /\ sent' = <<Enter(NextNick(channel.nick))>>
          ELSE channel' = NoChannel /\ sent' = <<Leave(channel.nick)>>
  /\ UNCHANGED connected

-----------------------------------------------------------------------------
(* The connection.  irssi destroys the channels of a server that it          *)
(* disconnects, and nothing can be sent any more.  save_channels keeps what  *)
(* is needed to join them again, and restore_channels returns at once when   *)
(* there is something to restore: the rooms of a lost session stay left.     *)
LinkLost ==
  /\ connected
  /\ connected' = FALSE
  /\ channel' = NoChannel
  /\ sent' = <<>>

(* A room whose setup says autojoin is joined, unless the connection says    *)
(* not to, as a reconnection does.                                           *)
sig_connected ==
  /\ ~connected
  /\ connected' = TRUE
  /\ \/ sent' = <<>> /\ UNCHANGED channel
     \/ /\ ~channel.exists
        /\ channel' = NewChannel(FirstNick)
        /\ sent' = <<Enter(FirstNick)>>

ChannelInit ==
  /\ connected = FALSE
  /\ channel = NoChannel
  /\ sent = <<>>

(* Commands that act on the stay, and those that only ask. *)
Stays ==
  \/ muc_join(FirstNick)
  \/ muc_part
  \/ Cycle
  \/ \E n \in Nick : muc_nick(n)
  \/ sig_set_presence

Asks ==
  \/ send_message
  \/ cmd_me
  \/ \E t \in Topic \cup {NULL} : cmd_topic(t)
  \/ disco_request
  \/ \E m \in Mode : muc_set_mode(m)
  \/ \E n \in Nick, rank \in Rank : muc_set_role(n, rank)
  \/ \E j \in Jid, rank \in Rank : muc_set_affiliation(j, rank)
  \/ muc_get_role
  \/ muc_get_affiliation
  \/ cmd_invite
  \/ muc_destroy

(* Stanzas of the room. *)
Presences ==
  \/ \E n \in Nick, info \in Info, own, forced, created \in BOOLEAN :
       available(n, info, own, forced, created)
  \/ \E n, new \in Nick : NickChange(n, new)
  \/ \E n \in Nick, code \in Code : unavailable(n, code)
  \/ \E n \in Nick \cup {NULL}, code \in Error : error_presence(n, code)

Messages ==
  \/ \E t \in Topic \cup {NULL} : topic(t)
  \/ \E m \in Mode : sig_features(m)
  \/ sig_recv_message
  \/ sig_recv_iq
  \/ invite

ChannelNext ==
  \/ Stays
  \/ Asks
  \/ Presences
  \/ Messages
  \/ LinkLost
  \/ sig_connected

ChannelSpec == ChannelInit /\ [][ChannelNext]_channel_vars

-----------------------------------------------------------------------------
(* Properties *)

(* The types; no chain of the table is empty, so nicklist_find never meets a *)
(* nick whose last record was removed.                                       *)
TypeOK ==
  /\ connected \in BOOLEAN
  /\ channel.topic \in Topic \cup {NULL} /\ channel.mode \in Mode \cup {NULL}
  /\ channel.exists \in BOOLEAN /\ channel.joined \in BOOLEAN /\ channel.nick \in Nick
  /\ DOMAIN channel.nicks \subseteq Nick
  /\ \A n \in DOMAIN channel.nicks : channel.nicks[n] \in Seq(NickRec) \ {<<>>}
  /\ sent \in Seq(Stanza)

(* Whatever the room sends, in whatever order, and whatever own_join reads   *)
(* of memory that was freed, a joined room has one record that is our own,   *)
(* and it is the first of its nick: a kick or a departure for the nick under *)
(* which it lies ends the channel, and one for any other nick, or for a      *)
(* namesake in the same chain, does not.  Which nick that is, is another     *)
(* matter: OwnJoinFreed may leave it under one that the room does not know.  *)
OwnFirst ==
  \A n \in DOMAIN channel.nicks : \A i \in 2..Len(channel.nicks[n]) : ~channel.nicks[n][i].own

OwnWhenJoined ==
  channel.joined => \E n \in DOMAIN channel.nicks : channel.nicks[n][1].own

OwnOnce ==
  \A m, n \in DOMAIN channel.nicks : channel.nicks[m][1].own /\ channel.nicks[n][1].own => m = n

OwnRecord == OwnFirst /\ OwnWhenJoined /\ OwnOnce

=============================================================================
