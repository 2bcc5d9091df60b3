---------------------------- MODULE MCMucChannel ----------------------------
(* An instance of MucChannel for TLC: three nicks, one of them another's. *)
EXTENDS MucChannel

ThreeNicks == {"al", "alt", "alt_"}
NextUnderscore == [n \in ThreeNicks |-> IF n = "alt" THEN "alt_" ELSE n]

(* Departure, ban, kick, change of nick, removal; nick in use, forbidden. *)
Codes  == {NULL, 301, 307, 321}
Errors == {403, 409}

=============================================================================
