--------------------------- MODULE MCConnections ---------------------------
(***************************************************************************)
(* The instances of Connections that TLC checks.                           *)
(***************************************************************************)
EXTENDS Connections, TLC

Symmetry == Permutations(Conn) \cup Permutations(Peer)
=============================================================================
