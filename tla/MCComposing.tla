----------------------------- MODULE MCComposing -----------------------------
(* An instance of Composing for TLC. *)
EXTENDS Composing

=============================================================================
