------------------------------- MODULE Session -------------------------------
(***************************************************************************)
(* The connection of one account: core/xmpp-servers.c,                     *)
(* core/xmpp-servers-reconnect.c, the presence handler of core/protocol.c, *)
(* core/xmpp-settings.c and /AWAY of core/xmpp-commands.c.                 *)
(*                                                                         *)
(* A connection record (conn) holds what is needed to log in; a server     *)
(* record (server) lives for one attempt and the session that follows it.  *)
(* When a session is lost, irssi copies the connection record, puts it in  *)
(* its queue of reconnections, and starts a new attempt from it later.     *)
(* irssi's own part of this (the lists of servers, the queue, the order in *)
(* which signals are served) is external and modelled from the way the     *)
(* handlers use it.  Accounts share nothing but the settings, so one is    *)
(* enough: a loop over the servers is a step on the only one.              *)
(***************************************************************************)
EXTENDS Integers

CONSTANTS
  Show,            \* the values of show that /AWAY can set
  Reason,          \* the texts that the user gives with /AWAY
  Priority,        \* the values given to xmpp_priority
  PriorityAway,    \* the values given to xmpp_priority_away
  NULL,            \* the C null pointer
  GARBAGE          \* the contents of memory read after it was freed

(* Three of the values of enum XMPP_PRESENCE. *)
UNAVAILABLE == 0
AWAY        == 4
AVAILABLE   == 5

ASSUME ShowAssumption == Show \subseteq Nat \ {UNAVAILABLE} /\ {AWAY, AVAILABLE} \subseteq Show
ASSUME PriorityAssumption == Priority \cup PriorityAway \subseteq Int /\ Priority # {} /\ PriorityAway # {}
ASSUME NullAssumption == NULL \notin Reason \cup {"typed", GARBAGE} /\ GARBAGE \notin Reason

VARIABLES
  settings,   \* xmpp_priority and xmpp_priority_away
  phase,      \* where the server record is between its creation and its end
  server,     \* the server record
  conn,       \* the connection record of the server, or of the reconnection
  reconnect,  \* conn waits in irssi's queue of reconnections
  lookup,     \* the server record is in lookup_servers
  stale,      \* lookup_servers holds a server record that was freed
  timer,      \* server->timeout_tag is set: the connect timeout runs
  heard,      \* the presence that the XMPP server last had from this session
  wanted,     \* the show and reason that the user last asked for
  prompts     \* passwords typed since the user's /CONNECT

vars == <<settings, phase, server, conn, reconnect, lookup, stale, timer,
          heard, wanted, prompts>>

(* "lookup": lm_connection_open was called; "auth": the stream is open and   *)
(* authentication goes on; "silent": Loudmouth gave up and calls no more;    *)
(* "online": the server record is connected and in irssi's servers.          *)
Phase == {"none", "lookup", "auth", "silent", "online"}

Connecting == phase \in {"lookup", "auth", "silent"}

-----------------------------------------------------------------------------
(* The records.  A JID is either the account's "full" JID, with the resource *)
(* that the user configured, or the "shown" one that xmpp_server_init_connect *)
(* leaves in conn->nick for irssi to display.                                *)
JidForm == {"full", "shown", NULL}

Priorities == Priority \cup PriorityAway \cup {0}
Reasons    == Reason \cup {NULL, GARBAGE}
Shows      == Show \cup {UNAVAILABLE}

Connrec == [nick : JidForm, real_jid : JidForm, reconnection : BOOLEAN,
            show : Shows, away_reason : Reasons, priority : Priorities,
            password : {NULL, "", "typed"}, prompted_password : {NULL, "typed"}]

Server  == [jid : JidForm, show : Shows, away_reason : Reasons,
            priority : Priorities, usermode_away : BOOLEAN]

Presence == [show : Shows, status : Reasons, priority : Priorities]

(* No presence was sent in this session, or there is no session. *)
Nothing == [show |-> UNAVAILABLE, status |-> NULL, priority |-> 0]

NewConnrec == [nick |-> "full", real_jid |-> NULL, reconnection |-> FALSE,
               show |-> UNAVAILABLE, away_reason |-> NULL, priority |-> 0,
               password |-> NULL, prompted_password |-> NULL]

xmpp_priority_out_of_bound(p) == p \notin -128..127

xmpp_presence_changed(show, old_show, status, old_status, p, old_p) ==
  show # old_show \/ status # old_status \/ p # old_p

(* xmpp_server_init_connect: the server record takes its JID from conn->nick, *)
(* which is kept in real_jid and replaced by what irssi displays.             *)
InitServer(c) ==
  [jid |-> c.nick, show |-> UNAVAILABLE, away_reason |-> NULL,
   priority |-> IF xmpp_priority_out_of_bound(settings.normal) THEN 0 ELSE settings.normal,
   usermode_away |-> FALSE]

NickKept(c) ==
  [c EXCEPT !.real_jid = IF c.real_jid = NULL THEN c.nick ELSE c.real_jid,
            !.nick = "shown"]

(* Mutants: the copy does not take the JID back from real_jid; it forgets the *)
(* password that was typed.                                                   *)
CopyConn_KeepsNick(c) == {[c EXCEPT !.password = pw] : pw \in {NULL, c.password}}

CopyConn_ForgetsPassword(c) ==
  {[c EXCEPT !.nick = c.real_jid, !.real_jid = NULL, !.password = pw, !.prompted_password = NULL]
     : pw \in {NULL, c.password}}

(* sig_server_connect_copy, and the fields that irssi copies itself.  The     *)
(* password is that of the setup of the server, or the old one.               *)
CopyConn(c) ==
  {[c EXCEPT !.nick = c.real_jid, !.real_jid = NULL, !.password = pw] : pw \in {NULL, c.password}}

(* Mutant of SaveStatus: the show is not saved. *)
SaveStatus_NoShow(c, s) ==
  [c EXCEPT !.reconnection = TRUE, !.priority = s.priority,
            !.away_reason = IF s.usermode_away THEN s.away_reason ELSE NULL]

(* sig_save_status, for a server that was connected; irssi keeps the reason   *)
(* of a user who is away.                                                     *)
SaveStatus(c, s) ==
  [c EXCEPT !.reconnection = TRUE, !.show = s.show, !.priority = s.priority,
            !.away_reason = IF s.usermode_away THEN s.away_reason ELSE NULL]

(* Mutant of SetPresence: the priority out of bound is announced. *)
SetPresence_OutOfBound(s, h, show, status, kept, p) ==
  IF ~xmpp_presence_changed(show, s.show, status, s.away_reason, p, s.priority)
  THEN [server |-> s, heard |-> h]
  ELSE [server |-> [s EXCEPT !.show = show, !.away_reason = kept, !.priority = p,
                             !.usermode_away = show # AVAILABLE],
        heard  |-> [show |-> show, status |-> kept, priority |-> p]]

(* sig_set_presence: the server record and what the XMPP server has heard     *)
(* after a request, where kept is what g_strdup reads from status.            *)
SetPresence(s, h, show, status, kept, p) ==
  IF ~xmpp_presence_changed(show, s.show, status, s.away_reason, p, s.priority)
  THEN [server |-> s, heard |-> h]
  ELSE LET q == IF xmpp_priority_out_of_bound(p) THEN s.priority ELSE p
       IN  [server |-> [s EXCEPT !.show = show, !.away_reason = kept,
                                 !.priority = q, !.usermode_away = show # AVAILABLE],
            heard  |-> [show |-> show, status |-> kept, priority |-> q]]

(* The server record goes away.  irssi queues a reconnection when            *)
(* connection_lost is set; server_cleanup stops the timer and closes the      *)
(* connection, so the XMPP server drops the session.                          *)
End(lost, c) ==
  /\ phase' = "none"
  /\ timer' = FALSE
  /\ heard' = Nothing
  /\ reconnect' = lost
  /\ IF lost THEN conn' \in CopyConn(c) ELSE conn' = c
  /\ UNCHANGED server

-----------------------------------------------------------------------------
(* Actions *)

(* xmpp_server_connect, with the outcomes of the calls that may fail there.   *)
StartAttempt(c) ==
  /\ server' = InitServer(c)
  /\ \/ /\ phase' = "lookup"
        /\ lookup' = TRUE
        /\ timer' = TRUE
        /\ conn' = NickKept(c)
        /\ reconnect' = FALSE
     \/ /\ reconnect' = TRUE          \* err: connection_lost is set
        /\ conn' \in CopyConn(NickKept(c))
        /\ UNCHANGED <<phase, lookup, timer>>
  /\ UNCHANGED <<settings, stale, heard>>

(* The user connects the account. *)
Connect ==
  /\ phase = "none"
  /\ ~reconnect
  /\ StartAttempt(NewConnrec)
  /\ wanted' = [show |-> AVAILABLE, reason |-> NULL]
  /\ prompts' = 0

(* irssi takes the connection record out of its queue. *)
Reconnect ==
  /\ reconnect
  /\ StartAttempt(conn)
  /\ UNCHANGED <<wanted, prompts>>

(* Mutant of StreamOpened: the timeout is stopped when the stream opens. *)
StreamOpened_StopsTimer ==
  /\ phase = "lookup"
  /\ phase' = "auth"
  /\ timer' = FALSE
  /\ UNCHANGED <<settings, server, conn, reconnect, lookup, stale, heard, wanted, prompts>>

(* lm_open_cb: the password is asked for unless there is one.  Either prompt   *)
(* may be answered with nothing.                                              *)
StreamOpened ==
  /\ phase = "lookup"
  /\ phase' = "auth"
  /\ \/ /\ conn.prompted_password # NULL
        /\ conn' = [conn EXCEPT !.password = conn.prompted_password]
        /\ UNCHANGED prompts
     \/ /\ conn.prompted_password = NULL
        /\ conn.password \notin {NULL, ""}
        /\ UNCHANGED <<conn, prompts>>
     \/ /\ conn.prompted_password = NULL
        /\ conn.password \in {NULL, ""}
        /\ \/ /\ conn' = [conn EXCEPT !.password = "typed", !.prompted_password = "typed"]
              /\ prompts' = prompts + 1
           \/ /\ conn' = [conn EXCEPT !.password = ""]
              /\ UNCHANGED prompts
  /\ UNCHANGED <<settings, server, reconnect, lookup, stale, timer, heard, wanted>>

(* lm_open_cb and lm_close_cb return at once for a stream that could not be   *)
(* opened, or that breaks before the session is established.                  *)
StreamFails ==
  /\ phase \in {"lookup", "auth"}
  /\ phase' = "silent"
  /\ UNCHANGED <<settings, server, conn, reconnect, lookup, stale, timer,
                 heard, wanted, prompts>>

(* Mutant of FirstPresence: a reconnection never sends it. *)
FirstPresence_NotAgain(s, h, c) ==
  IF c.reconnection THEN h ELSE [show |-> AVAILABLE, status |-> NULL, priority |-> s.priority]

(* The handlers of "server connected".  That of xmpp-servers.c sends a first  *)
(* presence, unless the reconnection changes it.                              *)
FirstPresence(s, h, c) ==
  IF c.reconnection /\ xmpp_presence_changed(c.show, s.show, c.away_reason,
                                             s.away_reason, c.priority, s.priority)
  THEN h
  ELSE [show |-> AVAILABLE, status |-> NULL, priority |-> s.priority]

(* That of xmpp-servers-reconnect.c restores the presence and drops the reason *)
(* from the connection record.                                                 *)
Restored(s, h, c) == SetPresence(s, h, c.show, c.away_reason, c.away_reason, c.priority)

(* Both ask for the same place among the handlers; irssi decides which of the *)
(* two is served first.                                                       *)
SigConnected(newest_first, s, c) ==
  IF ~c.reconnection THEN [server |-> s, heard |-> FirstPresence(s, Nothing, c)]
  ELSE IF newest_first
       THEN LET r == Restored(s, Nothing, c)
            IN  [server |-> r.server,
                 heard  |-> FirstPresence(r.server, r.heard, [c EXCEPT !.away_reason = NULL])]
       ELSE Restored(s, FirstPresence(s, Nothing, c), c)

(* Mutant of Authenticated: the timeout is left running. *)
Authenticated_LeavesTimer ==
  /\ phase = "auth"
  /\ phase' = "online"
  /\ lookup' = FALSE
  /\ \E newest_first \in BOOLEAN :
       LET r == SigConnected(newest_first, [server EXCEPT !.show = AVAILABLE], conn) IN
         /\ server' = r.server
         /\ heard'  = r.heard
  /\ UNCHANGED <<settings, conn, reconnect, stale, timer, wanted, prompts>>

(* lm_auth_cb with success. *)
Authenticated ==
  /\ phase = "auth"
  /\ phase' = "online"
  /\ lookup' = FALSE
  /\ timer' = FALSE
  /\ \E newest_first \in BOOLEAN :
       LET r == SigConnected(newest_first, [server EXCEPT !.show = AVAILABLE], conn) IN
         /\ server' = r.server
         /\ heard'  = r.heard
  /\ conn' = IF conn.reconnection THEN [conn EXCEPT !.away_reason = NULL] ELSE conn
  /\ UNCHANGED <<settings, reconnect, stale, wanted, prompts>>

(* lm_auth_cb without success: the attempt fails and is not tried again. *)
AuthFails ==
  /\ phase = "auth"
  /\ lookup' = FALSE
  /\ End(FALSE, conn)
  /\ UNCHANGED <<settings, stale, wanted, prompts>>

(* check_connection_timeout: the server is disconnected, which removes it    *)
(* from irssi's servers and not from lookup_servers.                         *)
check_connection_timeout ==
  /\ timer
  /\ IF lookup /\ phase # "online"
     THEN /\ End(TRUE, conn)
          /\ lookup' = FALSE
          /\ stale' = TRUE
     ELSE /\ timer' = FALSE
          /\ UNCHANGED <<phase, heard, reconnect, conn, server, lookup, stale>>
  /\ UNCHANGED <<settings, wanted, prompts>>

(* lm_close_cb: an established session breaks. *)
LinkLost ==
  /\ phase = "online"
  /\ End(TRUE, SaveStatus(conn, server))
  /\ UNCHANGED <<settings, lookup, stale, wanted, prompts>>

(* /DISCONNECT: sig_server_quit announces the departure, then irssi           *)
(* disconnects the server whether it is connected or not.                    *)
Disconnect ==
  /\ phase # "none"
  /\ End(FALSE, conn)
  /\ lookup' = FALSE
  /\ stale' = (stale \/ lookup)
  /\ UNCHANGED <<settings, wanted, prompts>>

(* /RECONNECT of a connected server: a copy of the connection record, with   *)
(* the status saved, is connected as soon as the server is disconnected.     *)
CmdReconnect ==
  /\ phase = "online"
  /\ \E c \in CopyConn(SaveStatus(conn, server)) :
       /\ server' = InitServer(c)
       /\ conn' = NickKept(c)
  /\ phase' = "lookup"
  /\ lookup' = TRUE
  /\ timer' = TRUE
  /\ heard' = Nothing
  /\ UNCHANGED <<settings, reconnect, stale, wanted, prompts>>

(* The user removes the reconnection from irssi's queue. *)
CancelReconnect ==
  /\ reconnect
  /\ reconnect' = FALSE
  /\ UNCHANGED <<settings, phase, server, conn, lookup, stale, timer,
                 heard, wanted, prompts>>

(* disconnect_all, before /UPGRADE or when the module is unloaded.  What is   *)
(* left of a freed record has no type any more and is passed over.            *)
disconnect_all ==
  /\ phase # "none"
  /\ End(FALSE, conn)
  /\ lookup' = FALSE
  /\ UNCHANGED <<settings, stale, wanted, prompts>>

(* /AWAY: set_away. *)
set_away(show, reason) ==
  /\ phase = "online"
  /\ LET p == IF show = AWAY THEN settings.away ELSE settings.normal
         r == SetPresence(server, heard, show, reason, reason, p) IN
       /\ server' = r.server
       /\ heard'  = r.heard
  /\ wanted' = [show |-> show, reason |-> reason]
  /\ UNCHANGED <<settings, phase, conn, reconnect, lookup, stale, timer, prompts>>

(* /SET and read_settings.  The reason is passed by the pointer that          *)
(* sig_set_presence frees before it copies from it.                           *)
read_settings(normal, away) ==
  /\ settings' = [normal |-> normal, away |-> away]
  /\ LET p == IF server.show = AWAY THEN away ELSE normal IN
     IF phase = "online" /\ server.priority # p
     THEN \E kept \in {server.away_reason} \cup (IF server.away_reason = NULL THEN {} ELSE {GARBAGE}) :
            LET r == SetPresence(server, heard, server.show, server.away_reason, kept, p)
            IN server' = r.server /\ heard' = r.heard
     ELSE UNCHANGED <<server, heard>>
  /\ UNCHANGED <<phase, conn, reconnect, lookup, stale, timer, wanted, prompts>>

-----------------------------------------------------------------------------
Init ==
  /\ settings \in [normal : Priority, away : PriorityAway]
  /\ phase = "none"
  /\ server = [jid |-> NULL, show |-> UNAVAILABLE, away_reason |-> NULL,
               priority |-> 0, usermode_away |-> FALSE]
  /\ conn = NewConnrec
  /\ reconnect = FALSE
  /\ lookup = FALSE
  /\ stale = FALSE
  /\ timer = FALSE
  /\ heard = Nothing
  /\ wanted = [show |-> AVAILABLE, reason |-> NULL]
  /\ prompts = 0

Next ==
  \/ Connect
  \/ Reconnect
  \/ StreamOpened
  \/ StreamFails
  \/ Authenticated
  \/ AuthFails
  \/ check_connection_timeout
  \/ LinkLost
  \/ Disconnect
  \/ CmdReconnect
  \/ CancelReconnect
  \/ disconnect_all
  \/ \E show \in Show, reason \in Reason \cup {NULL} : set_away(show, reason)
  \/ \E normal \in Priority, away \in PriorityAway : read_settings(normal, away)

(* GLib calls a timeout that has expired; nothing else is sure to happen. *)
Spec == Init /\ [][Next]_vars /\ WF_vars(check_connection_timeout)

-----------------------------------------------------------------------------
(* Properties *)

(* The types; a priority announced to the XMPP server is one it accepts      *)
(* (xmpp_priority_out_of_bound), whatever the settings are.                  *)
TypeOK ==
  /\ settings \in [normal : Priority, away : PriorityAway]
  /\ phase \in Phase
  /\ server \in Server
  /\ conn \in Connrec
  /\ reconnect \in BOOLEAN
  /\ lookup \in BOOLEAN
  /\ stale \in BOOLEAN
  /\ timer \in BOOLEAN
  /\ heard \in Presence
  /\ wanted \in [show : Show, reason : Reason \cup {NULL}]
  /\ prompts \in Nat
  /\ server.priority \in -128..127 /\ heard.priority \in -128..127

(* The timeout of xmpp_server_connect runs for as long as the attempt lasts,  *)
(* and does not outlive it: the server record that it points to is in         *)
(* lookup_servers.                                                            *)
TimerWhileConnecting ==
  /\ timer <=> Connecting
  /\ lookup <=> Connecting

(* Every session, first or restored after any number of failed attempts, is   *)
(* announced, and the XMPP server knows the show, status and priority that    *)
(* the server record holds, in whatever order irssi serves the two handlers   *)
(* of "server connected".  Only who is away without giving a reason depends   *)
(* on the order: when the older handler comes last, it takes the restored     *)
(* presence for the one of the reconnection and announces "available".        *)
PresenceKnown ==
  phase = "online" =>
    \/ heard = [show |-> server.show, status |-> server.away_reason, priority |-> server.priority]
    \/ /\ server.show # AVAILABLE /\ server.away_reason = NULL
       /\ heard = [show |-> AVAILABLE, status |-> NULL, priority |-> server.priority]

(* However often the connection is lost, and however many attempts fail, the  *)
(* session that comes back has the show that the user asked for last, and the *)
(* reason when the user is away (or garbage, see ReasonKept).                 *)
StatusSurvives ==
  phase = "online" =>
    /\ server.show = wanted.show
    /\ server.show # AVAILABLE => server.away_reason \in {wanted.reason, GARBAGE}

(* NEWS 0.52: "Don't forget the resource part of the jid on reconnection".    *)
(* Every attempt logs in with the JID that the user configured, although      *)
(* conn->nick is replaced for display and taken back for each copy.           *)
IdentityKept == phase # "none" => server.jid = "full"

(* NEWS 0.52: "No more password prompt on reconnection".  A password that was *)
(* typed is not asked for again, whatever irssi copies from its own setup.    *)
NotAskedAgain == prompts <= 1

(* An attempt comes to an end, even when Loudmouth never calls back.          *)
AttemptEnds == Connecting ~> ~Connecting

(* NEWS 0.52: "Add a way to dynamicly change the priority while away": the    *)
(* change keeps the reason of the user who is away.                           *)
ReasonKept ==
  phase = "online" /\ server.show # AVAILABLE => server.away_reason = wanted.reason

(* The comment of sig_session_save: "disconnect all servers before            *)
(* performing it".  disconnect_all walks lookup_servers, whose members exist. *)
LookupExists == ~stale

=============================================================================
