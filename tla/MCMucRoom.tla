----------------------------- MODULE MCMucRoom -----------------------------
(* Instances of MucRoom for TLC: three nicks, one of them free at any time. *)
EXTENDS MucRoom

CONSTANTS bob

ThreeNicks == {"al", "alt", "alt_"}
NextUnderscore == [n \in Nick |-> IF n = "alt" THEN "alt_" ELSE n]

(* A departure, and the codes that the client knows. *)
KnownCodes  == {NULL, 301}
OnlyKick    == {307}
NoCodes     == {}

=============================================================================
