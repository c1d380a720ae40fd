---------------------------- MODULE MCBleChunks ----------------------------
(* Instances of BleChunks for TLC: messages of two and three chunks, two   *)
(* of the same length to the same device.                                  *)
EXTENDS BleChunks, TLC

CONSTANTS bob, carol, m1, m2, m3

MCMsgs == {m1, m2, m3}
MCTotal == (m1 :> 3) @@ (m2 :> 3) @@ (m3 :> 2)
AllToBob == [m \in MCMsgs |-> bob]
ThirdToCarol == (m1 :> bob) @@ (m2 :> bob) @@ (m3 :> carol)
FirstToCarol == (m1 :> carol) @@ (m2 :> bob) @@ (m3 :> bob)
===========================================================================
