------------------------------ MODULE MCSession ------------------------------
(* Instances of Session and Registration for TLC. *)
EXTENDS Registration

(* Away, available, free for chat. *)
ThreeShows == {4, 5, 6}
TwoShows   == {4, 5}

(* The default settings, and one more value of each that the user may set;   *)
(* 200 is a priority that XMPP does not have.                                 *)
DefaultPriority     == {0}
DefaultPriorityAway == {-1}
ManyPriorities      == {0, 5, 200}
ManyPrioritiesAway  == {-1, 0}

(* Settings that XMPP accepts. *)
GoodPriorities == {0, 5}

=============================================================================
