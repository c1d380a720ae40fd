--------------------------- MODULE MCConnectTable ---------------------------
(* An instance of ConnectTable for TLC: two addresses of one device, one of *)
(* which Linux ignores, and one of another that is refused.                 *)
EXTENDS ConnectTable

CONSTANTS a1, a2, a3, s1, s2, w1, w2, n1, n2

MCSession == [a \in {a1, a2, a3} |-> IF a = a3 THEN s2 ELSE s1]
=============================================================================
