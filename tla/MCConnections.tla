--------------------------- MODULE MCConnections ---------------------------
(* An instance of Connections for TLC: two connections at a time.           *)
EXTENDS Connections

CONSTANTS c1, c2
=============================================================================
