---------------------------- MODULE MCEchoServer ----------------------------
(* An instance of the echo server for TLC. *)
EXTENDS EchoProperties

CONSTANTS p1, p2

MCPeers == {p1, p2}
MCObjects == MCPeers \cup {Listener}
MCMaxIn == [p \in MCPeers |-> IF p = p1 THEN 1 ELSE 0]
MCMaxFaults == [o \in MCObjects |-> IF o = p1 THEN 0 ELSE 1]
=============================================================================
