---------------------------- MODULE MCSysSocket ----------------------------
(* An instance of the sockets for TLC. *)
EXTENDS SysSocket, TLC

Symmetric == Permutations(Objects) \cup Permutations(Addrs)
=============================================================================
