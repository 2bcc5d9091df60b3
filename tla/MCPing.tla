------------------------------- MODULE MCPing -------------------------------
(* An instance of Ping for TLC: the user pings from home, and only the timer *)
(* from work.                                                                *)
EXTENDS Ping

CONSTANTS home, work, bob

TwoServers == {home, work}
OneEntity  == {bob}
FromHome   == [s \in TwoServers |-> IF s = home THEN {Domain, bob} ELSE {}]

=============================================================================
