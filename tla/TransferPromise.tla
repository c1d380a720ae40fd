-------------------------- MODULE TransferPromise --------------------------
(***************************************************************************)
(* What a file transfer promises its two users, without frames, streams or *)
(* acks: the receiver decides each transfer at most once; the sender may   *)
(* always end up not knowing, but what it does report (delivered, or       *)
(* refused by the receiver) is what the receiver decided.                  *)
(***************************************************************************)
CONSTANT Files

VARIABLES
  report,   (* what each Send has told its user                              *)
  saved,    (* transfers the receiver has reported saved                     *)
  failed    (* transfers the receiver has reported failed                    *)

vars == <<report, saved, failed>>

Init ==
  /\ report = [s \in Files |-> "pending"]
  /\ saved = {}
  /\ failed = {}

Undecided(s) == s \notin saved \cup failed

Save(s) == Undecided(s) /\ saved' = saved \cup {s} /\ UNCHANGED <<report, failed>>
Fail(s) == Undecided(s) /\ failed' = failed \cup {s} /\ UNCHANGED <<report, saved>>

Report(s, r) ==
  /\ report[s] = "pending"
  /\ report' = [report EXCEPT ![s] = r]
  /\ UNCHANGED <<saved, failed>>

Delivered(s) == s \in saved /\ Report(s, "delivered")
Refused(s) == s \in failed /\ Report(s, "refused")
Unknown(s) == Report(s, "unknown")

Next == \E s \in Files : Save(s) \/ Fail(s) \/ Delivered(s) \/ Refused(s) \/ Unknown(s)

Spec == Init /\ [][Next]_vars
===========================================================================
