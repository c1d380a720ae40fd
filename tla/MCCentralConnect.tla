--------------------------- MODULE MCCentralConnect ---------------------------
(* An instance of CentralConnect for TLC: two connect time-outs may run.    *)
EXTENDS CentralConnect

MCMaxTimers == [t \in Kinds |-> IF t = "connect8" THEN 2 ELSE 1]
===============================================================================
