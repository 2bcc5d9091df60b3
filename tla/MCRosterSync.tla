---------------------------- MODULE MCRosterSync ----------------------------
(* Instances of RosterSync for TLC. *)
EXTENDS RosterSync

CONSTANTS alice, bob, own, work, al

OneContact  == {alice}
TwoContacts == {alice, bob}

=============================================================================
