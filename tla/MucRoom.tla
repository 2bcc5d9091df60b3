------------------------------ MODULE MucRoom ------------------------------
(***************************************************************************)
(* A room of multi-user chat, its other occupants, and the stanzas in      *)
(* flight between it and the client of MucChannel.                         *)
(*                                                                         *)
(* The room is external: it does what XEP-0045 asks of one and what the    *)
(* handlers of the client expect.  Each direction of the stream keeps its  *)
(* order.  While stanzas are in flight the client's idea of the room is    *)
(* late; the properties compare the two when nothing is.  The room is old: *)
(* whoever enters it finds it configured.                                  *)
(***************************************************************************)
EXTENDS MucChannel, SequencesExt

CONSTANTS
  Me,           \* the user
  Other,        \* the other people
  RemovalCode,  \* the first status codes with which the room removes others
  Kicks,        \* the status codes with which the room removes the user
  Forces,       \* the room changes the nick of the user who enters
  FirstInfo,    \* what a room knows of a newcomer
  FirstMode,    \* the mode of a room that was just created
  MaxMoves,     \* bound: what the others do, and the user other than coming,
                \* leaving and changing nick
  MaxInFlight   \* bound: stanzas waiting when somebody acts

ASSUME MovesAssumption == MaxMoves \in Nat /\ MaxInFlight \in Nat \ {0}
ASSUME PersonAssumption == Me \notin Other /\ IsFiniteSet(Other) /\ Jid = Other
ASSUME RoomAssumption ==
  /\ FirstInfo \in Info /\ FirstMode \in Mode /\ Forces \in BOOLEAN
  /\ NULL \notin {301, 307}

VARIABLES
  room,      \* the nick of each person in the room, NULL for those outside
  info,      \* what the room knows of each person
  subject,   \* the subject of the room, or NULL
  mode,      \* its configuration
  fresh,     \* which has not changed since the user entered or was told of it
  toRoom,    \* stanzas on their way to the room
  toClient,  \* stanzas on their way to the client
  moves      \* what was done so far, see MaxMoves

room_vars == <<connected, channel, sent, room, info, subject, mode, fresh,
               toRoom, toClient, moves>>

(* What is said in the room and of the room. *)
about == <<subject, mode, fresh>>

Person == Other \cup {Me}
Inside == {p \in Person : room[p] # NULL}
Taken(n) == \E p \in Inside : room[p] = n

Quiet == toRoom = <<>> /\ toClient = <<>>
Slack == Len(toRoom) + Len(toClient) < MaxInFlight

-----------------------------------------------------------------------------
(* Stanzas to the client; by is the person who wrote a message.  A room that   *)
(* is destroyed sends whoever is inside out without status code.              *)
Available(n, i, own, forced) ==
  [type |-> "available", nick |-> n, info |-> i, own |-> own, forced |-> forced]
Unavailable(n, code)  == [type |-> "unavailable", nick |-> n, code |-> code]
Destroyed(n)          == [type |-> "destroyed", nick |-> n]
Changed(n, new)       == [type |-> "changed", nick |-> n, new |-> new]
Refused(n)            == [type |-> "error", nick |-> n]
Message(p)            == [type |-> "message", nick |-> room[p], by |-> p]
SubjectIs(t)          == [type |-> "subject", topic |-> t]
FeaturesAre(m)        == [type |-> "features", mode |-> m]
Answer                == [type |-> "answer"]
Invitation            == [type |-> "invitation"]

(* The room tells the client, who is inside, of a change. *)
Tell(stanzas) == toClient' = IF room[Me] # NULL THEN toClient \o stanzas ELSE toClient

-----------------------------------------------------------------------------
(* The client acts, and its stanzas go to the room. *)

Sends == toRoom' = toRoom \o sent'

User(command) ==
  /\ Slack
  /\ command
  /\ Sends
  /\ UNCHANGED <<room, info, about, toClient, moves>>

(* The user does not come back before the last stay is over on both sides,    *)
(* and waits for the end of a join before /NICK: presences carry no mark of   *)
(* the stay or request they belong to, and the client mixes them up.  Nor     *)
(* does the user change nick in a room that is being destroyed.               *)
Ending ==
  \/ \E i \in DOMAIN toRoom : toRoom[i].kind = "destroy"
  \/ \E i \in DOMAIN toClient : toClient[i].type = "destroyed"

Join     == Quiet /\ User(muc_join(FirstNick))
Part     == User(muc_part)
NickCmd  == channel.joined /\ ~Ending /\ \E n \in Nick : User(muc_nick(n))
Away     == User(sig_set_presence)

(* Commands of the user who is in the room that leave the stay alone.         *)
Request(command) ==
  /\ channel.joined
  /\ Slack
  /\ moves < MaxMoves
  /\ moves' = moves + 1
  /\ command
  /\ Sends
  /\ UNCHANGED <<room, info, about, toClient>>

Requests ==
  \/ Request(send_message)
  \/ \E t \in Topic \cup {NULL} : Request(cmd_topic(t))
  \/ Request(disco_request)
  \/ \E m \in Mode : Request(muc_set_mode(m))
  \/ \E n \in DOMAIN channel.nicks, rank \in Rank \ {"outcast"} :
       n # channel.nick /\ Request(muc_set_role(n, rank))
  \/ \E j \in Jid, rank \in Rank \ {"none"} : Request(muc_set_affiliation(j, rank))
  \/ Request(muc_get_affiliation)
  \/ Request(muc_destroy)

(* sig_recv_presence, sig_recv_message and sig_recv_iq: the first stanza is   *)
(* handled.  Without channel only invitations are.                            *)
Receive(m) ==
  CASE m.type = "available"   -> available(m.nick, m.info, m.own, m.forced, FALSE)
    [] m.type = "unavailable" -> unavailable(m.nick, m.code)
    [] m.type = "destroyed"   -> unavailable(m.nick, NULL)
    [] m.type = "changed"     -> NickChange(m.nick, m.new)
    [] m.type = "error"       -> error_presence(m.nick, 409)
    [] m.type = "subject"     -> topic(m.topic)
    [] m.type = "features"    -> sig_features(m.mode)
    [] m.type = "message"     -> sig_recv_message
    [] OTHER                  -> sig_recv_iq

Deliver ==
  /\ toClient # <<>>
  /\ toClient' = Tail(toClient)
  /\ IF channel.exists THEN Receive(Head(toClient))
     ELSE IF Head(toClient).type = "invitation" THEN invite
          ELSE sent' = <<>> /\ UNCHANGED <<connected, channel>>
  /\ Sends
  /\ UNCHANGED <<room, info, about, moves>>

(* The stream breaks: what was in flight is lost and the user is outside. *)
Lost ==
  /\ LinkLost
  /\ toRoom' = <<>>
  /\ toClient' = <<>>
  /\ room' = [room EXCEPT ![Me] = NULL]
  /\ UNCHANGED <<info, about, moves>>

(* A new session, which may begin with a join. *)
Connected ==
  /\ sig_connected
  /\ Sends
  /\ UNCHANGED <<room, info, about, toClient, moves>>

-----------------------------------------------------------------------------
(* The room handles the stanzas of the client. *)

(* The user enters as n: the occupants are presented, the user last, and the  *)
(* subject follows.                                                           *)
Enters(n, forced) ==
  /\ fresh' = TRUE
  /\ UNCHANGED info
  /\ room' = [room EXCEPT ![Me] = n]
  /\ LET others == SetToSeq(Inside \ {Me}) IN
     toClient' = toClient
                 \o [k \in 1..Len(others) |-> Available(room[others[k]], info[others[k]], FALSE, FALSE)]
                 \o <<Available(n, info[Me], TRUE, forced)>>
                 \o (IF subject = NULL THEN <<>> ELSE <<SubjectIs(subject)>>)

Replies(stanzas) == toClient' = toClient \o stanzas /\ UNCHANGED <<room, info, fresh>>

Answers(n) ==
  IF room[Me] = NULL
  THEN IF Forces
       THEN \E f \in {g \in Nick : ~Taken(g) /\ g # n} : Enters(f, TRUE)
       ELSE IF Taken(n) THEN Replies(<<Refused(n)>>) ELSE Enters(n, FALSE)
  ELSE IF n = room[Me]
       THEN Replies(<<Available(n, info[Me], TRUE, FALSE)>>)
       ELSE IF Taken(n)
            THEN Replies(<<Refused(n)>>)
            ELSE /\ toClient' = toClient \o <<Changed(room[Me], n), Available(n, info[Me], TRUE, FALSE)>>
                 /\ room' = [room EXCEPT ![Me] = n]
                 /\ UNCHANGED <<info, fresh>>

(* Somebody has another role, affiliation or show, or is out. *)
Ranked(p, rank) ==
  IF rank \in Info
  THEN /\ info' = [info EXCEPT ![p] = rank]
       /\ Tell(<<Available(room[p], rank, p = Me, FALSE)>>)
       /\ UNCHANGED room
  ELSE /\ room' = [room EXCEPT ![p] = NULL]
       /\ Tell(<<Unavailable(room[p], IF rank = "none" THEN 307 ELSE 301)>>)
       /\ UNCHANGED info

(* A presence.  A plain one says no more than the last one did; from somebody  *)
(* who is outside it is dropped.                                               *)
HandlesPresence(m) ==
  /\ UNCHANGED <<subject, mode>>
  /\ \/ m.kind = "enter" /\ Answers(m.nick)
     \/ m.kind = "update" /\ m.nick # room[Me] /\ room[Me] # NULL /\ Answers(m.nick)
     \/ /\ m.kind = "update" /\ (room[Me] = NULL \/ m.nick = room[Me])
        /\ Tell(<<Available(m.nick, info[Me], TRUE, FALSE)>>)
        /\ UNCHANGED <<room, info, fresh>>
     \/ /\ m.kind = "leave"
        /\ Tell(<<Unavailable(room[Me], NULL)>>)
        /\ room' = [room EXCEPT ![Me] = NULL]
        /\ UNCHANGED <<info, fresh>>

(* A message or a request of the user.  The features are told to anybody;     *)
(* whoever is outside is refused the rest, and so may be one who has no right *)
(* to it.                                                                     *)
HandlesRequest(m) ==
  \/ /\ m.kind = "features"
     /\ toClient' = Append(toClient, FeaturesAre(mode))
     /\ fresh' = TRUE
     /\ UNCHANGED <<room, info, subject, mode>>
  \/ /\ room[Me] = NULL \/ m.kind # "say"
     /\ m.kind # "features"
     /\ Replies(<<Answer>>)
     /\ UNCHANGED <<subject, mode>>
  \/ /\ room[Me] # NULL
     /\ \/ /\ m.kind = "say"
           /\ Replies(<<Message(Me)>>)
           /\ UNCHANGED <<subject, mode>>
        \/ /\ m.kind = "subject"
           /\ subject' = m.topic
           /\ Replies(<<SubjectIs(m.topic)>>)
           /\ UNCHANGED mode
        \/ /\ m.kind = "configure"
           /\ mode' = m.mode
           /\ fresh' = (fresh /\ m.mode = mode)
           /\ toClient' = Append(toClient, Answer)
           /\ UNCHANGED <<room, info, subject>>
        \/ /\ m.kind \in {"role", "affiliation"}
           /\ \E p \in Other :
                /\ room[p] # NULL
                /\ IF m.kind = "role" THEN room[p] = m.nick ELSE p = m.jid
                /\ Ranked(p, m.rank)
           /\ UNCHANGED about
        \/ /\ m.kind = "destroy"
           /\ room' = [p \in Person |-> NULL]
           /\ toClient' = Append(toClient, Destroyed(room[Me]))
           /\ subject' = NULL
           /\ mode' = FirstMode
           /\ UNCHANGED <<info, fresh>>

RoomHandles ==
  /\ toRoom # <<>>
  /\ toRoom' = Tail(toRoom)
  /\ IF Head(toRoom).kind \in {"enter", "update", "leave"}
     THEN HandlesPresence(Head(toRoom)) ELSE HandlesRequest(Head(toRoom))
  /\ UNCHANGED <<connected, channel, sent, moves>>

-----------------------------------------------------------------------------
(* The other occupants, and the room on its own. *)

Moves ==
  /\ moves < MaxMoves
  /\ Slack
  /\ moves' = moves + 1
  /\ UNCHANGED <<connected, channel, sent, toRoom>>

OtherEnters(p, n) ==
  /\ room[p] = NULL
  /\ ~Taken(n)
  /\ room' = [room EXCEPT ![p] = n]
  /\ Tell(<<Available(n, info[p], FALSE, FALSE)>>)
  /\ UNCHANGED <<info, about>>

OtherLeaves(p, code) ==
  /\ room[p] # NULL
  /\ room' = [room EXCEPT ![p] = NULL]
  /\ Tell(<<Unavailable(room[p], code)>>)
  /\ UNCHANGED <<info, about>>

OtherRenames(p, n) ==
  /\ room[p] # NULL
  /\ ~Taken(n)
  /\ room' = [room EXCEPT ![p] = n]
  /\ Tell(<<Changed(room[p], n), Available(n, info[p], FALSE, FALSE)>>)
  /\ UNCHANGED <<info, about>>

Changes(p, i) ==
  /\ room[p] # NULL
  /\ info[p] # i
  /\ Ranked(p, i)
  /\ UNCHANGED about

Kick(code) ==
  /\ room[Me] # NULL
  /\ room' = [room EXCEPT ![Me] = NULL]
  /\ Tell(<<Unavailable(room[Me], code)>>)
  /\ UNCHANGED <<info, about>>

OtherSpeaks(p) ==
  /\ room[p] # NULL
  /\ Tell(<<Message(p)>>)
  /\ UNCHANGED <<room, info, about>>

OtherSetsSubject(p, t) ==
  /\ room[p] # NULL
  /\ subject' = t
  /\ Tell(<<SubjectIs(t)>>)
  /\ UNCHANGED <<room, info, mode, fresh>>

(* A new configuration is told by a message without subject or body. *)
OtherConfigures(p, m) ==
  /\ room[p] # NULL
  /\ mode # m
  /\ mode' = m
  /\ fresh' = FALSE
  /\ Tell(<<Answer>>)
  /\ UNCHANGED <<room, info, subject>>

(* The user is invited while outside, and not on the way in or out. *)
OtherInvites(p) ==
  /\ connected
  /\ Quiet
  /\ room[p] # NULL /\ room[Me] = NULL
  /\ toClient' = <<Invitation>>
  /\ UNCHANGED <<room, info, about>>

-----------------------------------------------------------------------------
RoomInit ==
  /\ ChannelInit
  /\ room = [p \in Person |-> NULL]
  /\ info = [p \in Person |-> FirstInfo]
  /\ subject = NULL
  /\ mode = FirstMode
  /\ fresh = TRUE
  /\ toRoom = <<>>
  /\ toClient = <<>>
  /\ moves = 0

RoomNext ==
  \/ Join
  \/ Part
  \/ NickCmd
  \/ Away
  \/ Requests
  \/ Deliver
  \/ Lost
  \/ Connected
  \/ RoomHandles
  \/ Moves /\ \E p \in Other, n \in Nick : OtherEnters(p, n)
  \/ Moves /\ \E p \in Other, code \in RemovalCode : OtherLeaves(p, code)
  \/ Moves /\ \E p \in Other, n \in Nick : OtherRenames(p, n)
  \/ Moves /\ \E p \in Person, i \in Info : Changes(p, i)
  \/ Moves /\ \E code \in Kicks : Kick(code)
  \/ Moves /\ \E p \in Other : OtherSpeaks(p)
  \/ Moves /\ \E p \in Other, t \in Topic \cup {NULL} : OtherSetsSubject(p, t)
  \/ Moves /\ \E p \in Other, m \in Mode : OtherConfigures(p, m)
  \/ Moves /\ \E p \in Other : OtherInvites(p)

(* Stanzas that were sent arrive, unless the stream breaks first. *)
RoomSpec == RoomInit /\ [][RoomNext]_room_vars /\ WF_room_vars(Deliver) /\ WF_room_vars(RoomHandles)

-----------------------------------------------------------------------------
(* Properties *)

Settled == Quiet /\ channel.exists /\ channel.joined

(* docs/MUC: "/NAME Lists the nicks in the room".  Once every stanza has been *)
(* handled, the list holds the occupants and no one else, each once, with     *)
(* what the room last said of them.                                           *)
NamesAreOccupants ==
  Settled =>
    /\ DOMAIN channel.nicks = {room[p] : p \in Inside}
    /\ \A p \in Inside : /\ Len(channel.nicks[room[p]]) = 1
                         /\ channel.nicks[room[p]][1].info = info[p]

(* Once every stanza has been handled, the client knows which nick is the     *)
(* user's: it marks the user's record, addresses the room with that nick, and *)
(* tells its own messages by it.                                              *)
OwnNickKnown ==
  Settled =>
    /\ channel.nick = room[Me]
    /\ \A n \in DOMAIN channel.nicks : channel.nicks[n][1].own <=> n = room[Me]

(* Once every stanza has been handled, there is a channel if and only if the  *)
(* user is in the room, and it is joined: each attempt to join ends in the    *)
(* room or without channel, and whoever is out has no window that says in.    *)
JoinedOrGone ==
  Quiet => /\ channel.exists <=> room[Me] # NULL
           /\ channel.exists => channel.joined

(* docs/MUC: "/TOPIC Changes the topic of the room".  Once every stanza has    *)
(* been handled, the topic of the channel is the subject of the room, whoever *)
(* set or removed it, before the user entered or after.                       *)
TopicIsSubject == Settled => channel.topic = subject

(* docs/MUC: "/MODE Get channel mode".  Once every stanza has been handled,   *)
(* the mode of the channel is the room's, unless the room was configured      *)
(* again since the user entered or typed /MODE.                               *)
ModeKnown == Settled /\ fresh => channel.mode = mode

(* Whenever a message of the room is about to be printed, it passes for the   *)
(* user's if and only if the user wrote it, whatever changes of nick, refused *)
(* or not, lie between its sending and its return.                            *)
MessagesAttributed ==
  (channel.exists /\ toClient # <<>>) =>
    (Head(toClient).type = "message" =>
       (ShownAs(channel, Head(toClient).nick) = "own" <=> Head(toClient).by = Me))

(* A nick that is taken is replaced until the user is in the room, or the     *)
(* channel is destroyed.                                                      *)
JoinEnds == channel.exists /\ ~channel.joined ~> ~channel.exists \/ channel.joined

=============================================================================
