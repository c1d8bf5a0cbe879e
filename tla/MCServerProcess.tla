--------------------------- MODULE MCServerProcess ---------------------------
(* Instances of ServerProcess for TLC.                                      *)
EXTENDS ServerProcess

CONSTANTS c1, c2, c3

MCClients == {c1, c2, c3}
=============================================================================
