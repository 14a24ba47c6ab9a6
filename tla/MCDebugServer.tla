---------------------------- MODULE MCDebugServer ----------------------------
(* Model values for the HTTP server.                                       *)
EXTENDS DebugServer, TLC

CONSTANTS c1, c2

MCClients   == {c1, c2}
MCOneClient == {c1}

(* Connections are handled alike.                                          *)
MCSymmetry == Permutations(MCClients)
=============================================================================
