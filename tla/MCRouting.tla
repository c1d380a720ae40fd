----------------------------- MODULE MCRouting -----------------------------
(* Instances of Routing for TLC.                                           *)
EXTENDS Routing, TLC

CONSTANTS f1, f2, d1, d2, c1, c2, s1, s2
============================================================================
