----------------------------- MODULE MCUpgrader -----------------------------
(* An instance of Upgrader for TLC: two initiators, two attempts in all.    *)
EXTENDS Upgrader

CONSTANTS i1, i2, o1, o2
=============================================================================
