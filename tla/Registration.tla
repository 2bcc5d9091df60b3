----------------------------- MODULE Registration -----------------------------
(***************************************************************************)
(* The registration of an account before its first session:               *)
(* core/xep/registration.c, composed with Session.                         *)
(*                                                                         *)
(* /XMPPREGISTER keeps a record (rd) that the callbacks of a Loudmouth     *)
(* connection of its own (line) point to.  The record is freed by the      *)
(* callback that learns the outcome, or when the module is unloaded; the   *)
(* line may only call back while it lives.  A registration that succeeds   *)
(* types /XMPPCONNECT for the user, which is Session's Connect.            *)
(*                                                                         *)
(* Records share nothing, so one is enough.  /XMPPUNREGISTER and           *)
(* /XMPPPASSWD send one stanza, change nothing and are left out.           *)
(***************************************************************************)
EXTENDS Session

VARIABLES
  rd,     \* the record exists
  line,   \* the connection of the registration, as Loudmouth sees it
  owed    \* registrations that were started and have had no verdict

registration_vars == <<rd, line, owed>>

(* The references that the code holds to the line, and the callbacks that     *)
(* Loudmouth may still make; it forgets them with the last reference.         *)
NoLine   == [refs |-> 0, calls |-> {}]
OpenLine(calls) == [refs |-> 1, calls |-> calls]

Release(l) == [refs |-> l.refs - 1, calls |-> IF l.refs = 1 THEN {} ELSE l.calls]

-----------------------------------------------------------------------------
(* Mutant of rd_cleanup: the record goes and the line stays open. *)
rd_cleanup_LeavesLine ==
  /\ rd' = FALSE
  /\ line' = line

(* The handler is invalidated and the line closed.  Closing calls             *)
(* register_lm_close_cb with LM_DISCONNECT_REASON_OK, which returns at once.  *)
rd_cleanup ==
  /\ rd' = FALSE
  /\ line' = Release(line)

(* "xmpp registration failed", "xmpp registration succeed" and "xmpp register *)
(* error" tell the user what became of the registration.                      *)
Verdict == owed' = owed - 1

-----------------------------------------------------------------------------
(* Actions *)

(* cmd_xmppregister and start_registration.  What fails before the line is    *)
(* stored in the record releases it once.  lm_connection_open fails after:    *)
(* the error path releases the line, and so does rd_cleanup; what follows is  *)
(* not defined, and the line counts as dead.                                  *)
cmd_xmppregister ==
  /\ ~rd
  /\ \/ rd' = TRUE /\ line' = OpenLine({"open", "close"}) /\ owed' = owed + 1
     \/ UNCHANGED rd /\ line' = NoLine /\ UNCHANGED owed
     \/ UNCHANGED rd /\ line' = Release(NoLine) /\ UNCHANGED owed
  /\ UNCHANGED vars

(* register_lm_open_cb and send_register: the request leaves, or not. *)
register_lm_open_cb ==
  /\ "open" \in line.calls
  /\ \/ line' = OpenLine({"reply", "close"}) /\ UNCHANGED <<rd, owed>>
     \/ rd_cleanup /\ Verdict
  /\ UNCHANGED vars

(* handle_register, for the reply to the request; others are dropped.  A      *)
(* session of the account that the user has started meanwhile stays alone.    *)
handle_register ==
  /\ "reply" \in line.calls
  /\ rd_cleanup
  /\ Verdict
  /\ \/ UNCHANGED vars                   \* <error/>, or there is a session
     \/ phase = "none" /\ ~reconnect /\ Connect

(* Mutant of register_lm_close_cb: the user is told of lines that break while *)
(* they open only.                                                            *)
register_lm_close_cb_OpenOnly ==
  /\ "close" \in line.calls
  /\ rd_cleanup
  /\ IF "open" \in line.calls THEN Verdict ELSE UNCHANGED owed
  /\ UNCHANGED vars

(* register_lm_close_cb: the line breaks. *)
register_lm_close_cb ==
  /\ "close" \in line.calls
  /\ rd_cleanup
  /\ Verdict
  /\ UNCHANGED vars

(* The module is unloaded: a registration is given up without a word. *)
registration_deinit ==
  /\ rd
  /\ rd_cleanup
  /\ owed' = 0
  /\ UNCHANGED vars

-----------------------------------------------------------------------------
RegistrationInit ==
  /\ Init
  /\ rd = FALSE
  /\ line = NoLine
  /\ owed = 0

RegistrationNext ==
  \/ Next /\ UNCHANGED registration_vars
  \/ cmd_xmppregister
  \/ register_lm_open_cb
  \/ handle_register
  \/ register_lm_close_cb
  \/ registration_deinit

RegistrationSpec ==
  /\ RegistrationInit
  /\ [][RegistrationNext]_<<vars, registration_vars>>
  /\ WF_vars(check_connection_timeout)

-----------------------------------------------------------------------------
(* Properties *)

(* Each callback that Loudmouth may still make finds the record it points to, *)
(* whichever of the outcomes came first: the line breaks while the request is *)
(* answered, the module goes while the line opens.                            *)
CallbacksHaveRecord == line.calls # {} => rd

(* Every registration that was started is still under way or has been told   *)
(* its outcome, once.                                                        *)
OneVerdict == owed = IF rd THEN 1 ELSE 0

=============================================================================
