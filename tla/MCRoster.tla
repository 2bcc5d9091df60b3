------------------------------ MODULE MCRoster ------------------------------
(* Instances of Roster for TLC. *)
EXTENDS Roster

CONSTANTS alice, icq, own, work, al

(* One contact and the account itself, with priorities of both signs. *)
OneContact == {alice}
BothSigns  == {-1, 3}

(* A contact that is a gateway to another network. *)
Transport == {icq}

(* Available. *)
OneShow == {5}

=============================================================================
