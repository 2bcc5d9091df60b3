------------------------------ MODULE Composing ------------------------------
(***************************************************************************)
(* Who types: core/xep/composing.c, core/xep/chatstates.c, the keys and    *)
(* timers of fe-common/xep/fe-composing.c, the status bar's mark           *)
(* (fe-text/xep/text-composing.c) and queries (core/xmpp-queries.c), for   *)
(* an account and a peer, a full JID that understands message events       *)
(* (XEP-0022), chat states (XEP-0085), or both.                            *)
(***************************************************************************)
EXTENDS Naturals, Sequences, SequencesExt

CONSTANTS
  COMPOSING_TIMEOUT,  \* of fe-composing.c, in units of time
  MaxTimers,          \* bound: timers that run when the user starts to type
  MaxInFlight,        \* bound: stanzas in flight when the peer sends one
  NULL                \* the C null pointer, and a time of zero

ASSUME TimeoutAssumption == COMPOSING_TIMEOUT \in Nat \ {0}
ASSUME BoundAssumption == MaxTimers \in Nat /\ MaxInFlight \in Nat

(* What a query keeps, and what the peer was told and last said. *)
Query == [time : 0..COMPOSING_TIMEOUT \cup {NULL}, visible : BOOLEAN]

Peer == [online : BOOLEAN, told : {"idle", "typing", "unsent", "unasked"},
         said : {NULL, "idle", "composing"}]

ASSUME NullAssumption == NULL \notin Nat /\ NULL \notin Query /\ NULL \notin {"idle", "composing"}

VARIABLES
  session,  \* the account is connected
  query,    \* the query with the peer, if there is one
  timers,   \* the sources of stop_composing, and whose memory they hold
  asked,    \* composings has the peer: its last message asked for events
  keylog,   \* keys count: keylog_active, xmpp_send_composing and query active
  peer,     \* the peer: online, what it was told, and what it last said
  down      \* stanzas of the peer in flight

composing_vars == <<session, query, timers, asked, keylog, peer, down>>

-----------------------------------------------------------------------------
(* The stanzas of the peer: messages, with their event and chat state, and *)
(* its departure.  The chat state of a message with a body is left out: it *)
(* hides the mark, as the body does.                                       *)

OFFLINE == [body |-> FALSE, x |-> "none", state |-> "none"]

Says(m) == IF ~m.body /\ "composing" \in {m.x, m.state} THEN "composing" ELSE "idle"

Message ==
  {m \in [body : BOOLEAN, x : {"none", "empty", "composing"},
          state : {"none", "active", "composing"}] :
     /\ m # OFFLINE
     /\ m.body => m.state = "none"
     /\ ~m.body /\ m.x = "empty" => m.state # "composing"
     /\ ~m.body /\ m.x = "composing" => m.state # "active"}

(* What the peer knows when it hears no more of the user's typing: because    *)
(* RETURN sent nothing ("unsent"), or because it does not ask any more        *)
(* ("unasked").                                                               *)
Forgotten(told, why) == IF told = "typing" THEN why ELSE told

(* "xmpp composing start" and "xmpp composing stop": composing.c tells a peer *)
(* that asked for it.                                                         *)
sig_composing_start ==
  peer' = IF asked /\ peer.online THEN [peer EXCEPT !.told = "typing"] ELSE peer

sig_composing_stop ==
  peer' = [peer EXCEPT !.told = IF asked THEN "idle" ELSE Forgotten(@, "unasked")]

Timer(of) == [age |-> 0, of |-> of]

-----------------------------------------------------------------------------
(* The user *)

(* Mutant of KeyPressed: each key sets a timer. *)
KeyPressed_AlwaysTimer ==
  /\ session /\ keylog /\ query # NULL
  /\ query' = [query EXCEPT !.time = 0]
  /\ timers' = Append(timers, Timer("query"))
  /\ IF query.time = NULL THEN sig_composing_start ELSE UNCHANGED peer
  /\ UNCHANGED <<session, asked, keylog, down>>

(* A key that types, on a line that is neither empty nor a command. *)
KeyPressed ==
  /\ session /\ keylog /\ query # NULL
  /\ \/ /\ query.time = NULL
        /\ Len(timers) < MaxTimers
        /\ query' = [query EXCEPT !.time = 0]
        /\ timers' = Append(timers, Timer("query"))
        /\ sig_composing_start
     \/ /\ query.time # NULL
        /\ query.time < COMPOSING_TIMEOUT - 1
        /\ query' = [query EXCEPT !.time = 0]
        /\ UNCHANGED <<timers, peer>>
  /\ UNCHANGED <<session, asked, keylog, down>>

(* RETURN.  A message ends the typing for the peer; a command or an empty    *)
(* line does not.                                                            *)
ReturnPressed ==
  /\ session /\ keylog /\ query # NULL
  /\ query' = [query EXCEPT !.time = NULL]
  /\ \E sent \in BOOLEAN :
       peer' = [peer EXCEPT !.told = IF sent THEN "idle" ELSE Forgotten(@, "unsent")]
  /\ UNCHANGED <<session, timers, asked, keylog, down>>

(* A message that no key of the query sent, as with /MSG. *)
MessageSent ==
  /\ session
  /\ peer' = [peer EXCEPT !.told = "idle"]
  /\ UNCHANGED <<session, query, timers, asked, keylog, down>>

(* Another window, or the setting xmpp_send_composing. *)
sig_window_changed ==
  /\ keylog' = ~keylog
  /\ UNCHANGED <<session, query, timers, asked, peer, down>>

(* xmpp_query_create.  The memory may be that of a query that was destroyed, *)
(* which timers still hold.                                                  *)
xmpp_query_create ==
  /\ session /\ query = NULL
  /\ query' = [time |-> NULL, visible |-> FALSE]
  /\ \E owner \in {"freed", "query"} :
       timers' = [i \in DOMAIN timers |-> [timers[i] EXCEPT !.of = owner]]
  /\ peer' = [peer EXCEPT !.said = NULL]
  /\ UNCHANGED <<session, asked, keylog, down>>

sig_query_destroyed ==
  /\ query # NULL
  /\ IF query.time # NULL /\ session THEN sig_composing_stop ELSE UNCHANGED peer
  /\ query' = NULL
  /\ timers' = [i \in DOMAIN timers |-> [timers[i] EXCEPT !.of = "freed"]]
  /\ UNCHANGED <<session, asked, keylog, down>>

-----------------------------------------------------------------------------
(* Timers *)

Typing(t) == t.of = "query" /\ query.time # NULL /\ session

(* Mutant of stop_composing: a timer that finds the user typing is not set   *)
(* again.                                                                    *)
stop_composing_Once(i) ==
  /\ timers[i].age = COMPOSING_TIMEOUT
  /\ timers' = RemoveAt(timers, i)
  /\ IF Typing(timers[i]) /\ query.time = COMPOSING_TIMEOUT
     THEN sig_composing_stop /\ query' = [query EXCEPT !.time = NULL]
     ELSE UNCHANGED <<query, peer>>
  /\ UNCHANGED <<session, asked, keylog, down>>

(* Mutant of stop_composing: every timer finds the user typing. *)
stop_composing_Renews(i) ==
  /\ timers[i].age = COMPOSING_TIMEOUT
  /\ timers' = IF Typing(timers[i]) THEN [timers EXCEPT ![i].age = 0]
                ELSE RemoveAt(timers, i)
  /\ UNCHANGED <<session, query, asked, keylog, peer, down>>

(* What a timer finds in memory that was freed ends it. *)
stop_composing(i) ==
  /\ timers[i].age = COMPOSING_TIMEOUT
  /\ \/ /\ ~Typing(timers[i])
        /\ timers' = RemoveAt(timers, i)
        /\ UNCHANGED <<query, peer>>
     \/ /\ Typing(timers[i]) /\ query.time < COMPOSING_TIMEOUT
        /\ timers' = [timers EXCEPT ![i].age = 0]
        /\ UNCHANGED <<query, peer>>
     \/ /\ Typing(timers[i]) /\ query.time = COMPOSING_TIMEOUT
        /\ timers' = RemoveAt(timers, i)
        /\ query' = [query EXCEPT !.time = NULL]
        /\ sig_composing_stop
  /\ UNCHANGED <<session, asked, keylog, down>>

Older(age) == IF age \in {NULL, COMPOSING_TIMEOUT} THEN age ELSE age + 1

(* Time passes. *)
Tick ==
  /\ timers' = [i \in DOMAIN timers |-> [timers[i] EXCEPT !.age = Older(@)]]
  /\ query' = IF query = NULL THEN NULL ELSE [query EXCEPT !.time = Older(@)]
  /\ UNCHANGED <<session, asked, keylog, peer, down>>

-----------------------------------------------------------------------------
(* The peer and the session *)

EventShown(m) == ~m.body /\ m.x = "composing"

(* Mutant of Shown: chat states are looked at first. *)
Shown_StatesFirst(m) == EventShown(m)

(* The mark of the status bar after m: the handler of composing.c, then that *)
(* of chatstates.c; irssi serves the newest of equal handlers first.         *)
Shown(m) == m.state = "composing" \/ (m.state # "active" /\ EventShown(m))

(* sig_recv_message: a message with an event tells whether its sender asks   *)
(* for events.  An event alone says whether the sender types.                *)
sig_recv_message(m) ==
  /\ asked' = IF m.body /\ m.x # "none" THEN m.x = "composing" ELSE asked
  /\ query' = IF query = NULL THEN NULL ELSE [query EXCEPT !.visible = Shown(m)]

sig_offline == asked' = FALSE /\ UNCHANGED query

Receive ==
  /\ down # <<>>
  /\ IF Head(down) = OFFLINE THEN sig_offline ELSE sig_recv_message(Head(down))
  /\ peer' = [peer EXCEPT !.told = IF asked' THEN @ ELSE Forgotten(@, "unasked")]
  /\ down' = Tail(down)
  /\ UNCHANGED <<session, timers, keylog>>

PeerSends(m) ==
  /\ session /\ peer.online /\ Len(down) < MaxInFlight
  /\ down' = Append(down, m)
  /\ peer' = [peer EXCEPT !.said = Says(m)]
  /\ UNCHANGED <<session, query, timers, asked, keylog>>

PeerLeaves ==
  /\ peer.online
  /\ session => Len(down) < MaxInFlight
  /\ peer' = [online |-> FALSE, told |-> "idle", said |-> NULL]
  /\ down' = IF session THEN Append(down, OFFLINE) ELSE <<>>
  /\ UNCHANGED <<session, query, timers, asked, keylog>>

PeerComes ==
  /\ ~peer.online
  /\ peer' = [peer EXCEPT !.online = TRUE]
  /\ UNCHANGED <<session, query, timers, asked, keylog, down>>

Connected ==
  /\ ~session
  /\ session' = TRUE
  /\ UNCHANGED <<query, timers, asked, keylog, peer, down>>

(* "server disconnected": the peers that asked are forgotten, and one timer  *)
(* of the query is removed (g_source_remove_by_user_data removes one).       *)
Disconnected ==
  /\ session
  /\ session' = FALSE
  /\ asked' = FALSE
  /\ \/ \E i \in DOMAIN timers : timers[i].of = "query" /\ timers' = RemoveAt(timers, i)
     \/ (\A i \in DOMAIN timers : timers[i].of = "freed") /\ UNCHANGED timers
  /\ peer' = [peer EXCEPT !.told = "idle", !.said = NULL]
  /\ down' = <<>>
  /\ UNCHANGED <<query, keylog>>

-----------------------------------------------------------------------------
ComposingInit ==
  /\ session = FALSE
  /\ query = NULL
  /\ timers = <<>>
  /\ asked = FALSE
  /\ keylog = FALSE
  /\ peer = [online |-> TRUE, told |-> "idle", said |-> NULL]
  /\ down = <<>>

ComposingNext ==
  \/ KeyPressed \/ ReturnPressed \/ MessageSent
  \/ sig_window_changed
  \/ xmpp_query_create \/ sig_query_destroyed
  \/ \E i \in DOMAIN timers : stop_composing(i)
  \/ Tick
  \/ Receive
  \/ \E m \in Message : PeerSends(m)
  \/ PeerLeaves \/ PeerComes
  \/ Connected \/ Disconnected

(* Time passes, and GLib fires the timers that are due. *)
ComposingSpec ==
  /\ ComposingInit /\ [][ComposingNext]_composing_vars
  /\ WF_composing_vars(\E i \in DOMAIN timers : stop_composing(i))
  /\ WF_composing_vars(Tick)

-----------------------------------------------------------------------------
(* Properties *)

TypeOK ==
  /\ session \in BOOLEAN /\ asked \in BOOLEAN /\ keylog \in BOOLEAN
  /\ query \in {NULL} \cup Query
  /\ timers \in Seq([age : 0..COMPOSING_TIMEOUT, of : {"query", "freed"}])
  /\ Len(timers) <= MaxTimers
  /\ peer \in Peer
  /\ down \in Seq(Message \cup {OFFLINE})

(* Whenever the peer believes that the user types, the query remembers when  *)
(* and a timer is set that will end it: whatever messages, lost sessions and *)
(* timers of earlier messages came between.                                  *)
TypingIsWatched ==
  peer.told = "typing" =>
    /\ session
    /\ query # NULL
    /\ query.time # NULL
    /\ \E i \in DOMAIN timers : timers[i].of = "query"

(* A peer that was told that the user types is told of the end, or knows it   *)
(* because a message came or a session ended.  Three cases are excluded: the  *)
(* user types for ever; his last RETURN was on a line that sends nothing      *)
(* (fe-composing.c:100), and nothing ever follows; the peer did not ask any   *)
(* more, and nothing ever follows.                                            *)
TypingEnds ==
  \/ []<><<KeyPressed>>_composing_vars
  \/ <>[](peer.told = "unsent")
  \/ <>[](peer.told = "unasked")
  \/ peer.told = "typing" ~> peer.told = "idle"

(* docs/GENERAL: "you can see when your contacts are typing a messages with  *)
(* "composing" appearing in the statusbar".  The mark shows what the peer    *)
(* last said, in the terms of either protocol, since the query exists and    *)
(* while neither side went away.                                             *)
ShowsLastEvent ==
  session /\ query # NULL /\ down = <<>> /\ peer.said # NULL =>
    (query.visible <=> peer.said = "composing")

=============================================================================
