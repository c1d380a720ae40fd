------------------------------ MODULE Upgrader ------------------------------
(***************************************************************************)
(* The upgrade of BLE to WebRTC (BLEWebRTCUpgrader of webrtc_upgrade.go,    *)
(* WebRTCConn of webrtc.go): several initiators, each with a slot for the   *)
(* one offer it waits on, and one responder, which broadcasts its answers.  *)
(* Offers and answers travel over BLE (BleChunks) and may be lost: nothing  *)
(* makes them arrive. What happens to a connection after OnConnected is in  *)
(* Routing. Each attempt has a goroutine at either end; OnSDPReceived runs  *)
(* on the BLE queue.                                                        *)
(***************************************************************************)

CONSTANTS
  Initiators,  (* nodes with the lower nickname                              *)
  Offers,      (* attempts: the WebRTCConn made for an offer (bound)         *)
  None

ASSUME NoneAssumption == None \notin Offers \cup Initiators \cup (Offers \X Offers)

VARIABLES
  owner,       (* the initiator that made an attempt                         *)
  at,          (* where the initiator's goroutine of an attempt is           *)
  pc,          (* the initiator's connection                                 *)
  pending,     (* pendingOffers, for the responder                           *)
  hold,        (* the slot OnSDPReceived took, and the answer for it         *)
  answers,     (* answers that were set on a connection (history)            *)
  inbox,       (* answers on their way to each initiator                     *)
  far          (* the responder's end: goroutine and connection in one       *)

initiatorVars == <<owner, at, pc, pending, hold, answers>>
vars == <<initiatorVars, inbox, far>>

Init ==
  /\ owner = [o \in Offers |-> None] /\ at = [o \in Offers |-> "none"]
  /\ pc = [o \in Offers |-> "new"]
  /\ pending = [i \in Initiators |-> None] /\ hold = [i \in Initiators |-> None]
  /\ answers = [o \in Offers |-> {}]
  /\ inbox = [i \in Initiators |-> {}] /\ far = [o \in Offers |-> "none"]

---------------------------------------------------------------------------
(* The initiator                                                           *)

Goto(o, l) == at' = [at EXCEPT ![o] = l] /\ UNCHANGED owner
Close(o) == pc' = [pc EXCEPT ![o] = "closed"]
Free(i) == pending' = [pending EXCEPT ![i] = None]

(* OnBLEPeerFound: looks at the slot; the offer is made after the unlock.  *)
Found(i, o) ==
  /\ at[o] = "none"
  /\ pending[i] = None
  /\ owner' = [owner EXCEPT ![o] = i]
  /\ at' = [at EXCEPT ![o] = "gather"]
  /\ UNCHANGED <<pc, pending, hold, answers, inbox, far>>

(* NewWebRTCOffer fails and closes what it made (the attempt is as if never *)
(* begun), or the offer takes the slot and is sent.                         *)
Offer(o) ==
  /\ at[o] = "gather"
  /\ \/ Goto(o, "none") /\ UNCHANGED pending
     \/ Goto(o, "wait") /\ pending' = [pending EXCEPT ![owner[o]] = o]
  /\ UNCHANGED <<pc, hold, answers, inbox, far>>

(* The select of the goroutine: both cases may be ready.                   *)
Connected(o) ==
  /\ at[o] = "wait" /\ pc[o] = "up"
  /\ Goto(o, "handed")
  /\ UNCHANGED <<pc, pending, hold, answers, inbox, far>>
TimeoutLeaksConn(o) ==             (* mutant: only the slot is given back    *)
  /\ at[o] = "wait"
  /\ Goto(o, "closing")
  /\ UNCHANGED <<pc, pending, hold, answers, inbox, far>>
Timeout(o) ==
  /\ at[o] = "wait"
  /\ Goto(o, "closing") /\ Close(o)
  /\ UNCHANGED <<pending, hold, answers, inbox, far>>
TimeoutKeepsSlot(o) ==             (* mutant: the slot stays taken           *)
  /\ at[o] = "closing"
  /\ Goto(o, "failed")
  /\ UNCHANGED <<pc, pending, hold, answers, inbox, far>>
(* It frees the slot of the peer, whatever offer holds it by now.          *)
TimeoutFrees(o) ==
  /\ at[o] = "closing"
  /\ Goto(o, "failed") /\ Free(owner[o])
  /\ UNCHANGED <<pc, hold, answers, inbox, far>>

Received(i, a) == inbox' = [inbox EXCEPT ![i] = @ \ {a}]
TakeKeepsSlot(i, a) ==             (* mutant: the slot is only read          *)
  /\ a \in inbox[i] /\ hold[i] = None
  /\ Received(i, a)
  /\ hold' = [hold EXCEPT ![i] = IF pending[i] = None THEN None ELSE <<pending[i], a>>]
  /\ UNCHANGED <<owner, at, pc, pending, answers, far>>
(* OnSDPReceived with an answer takes the offer that waits, whosever       *)
(* answer it is, and frees the slot under one lock ...                     *)
Take(i, a) ==
  /\ a \in inbox[i] /\ hold[i] = None
  /\ Received(i, a)
  /\ hold' = [hold EXCEPT ![i] = IF pending[i] = None THEN None ELSE <<pending[i], a>>]
  /\ Free(i)
  /\ UNCHANGED <<owner, at, pc, answers, far>>
(* ... then sets it; a connection that is closed or has one refuses, and   *)
(* any does if it cannot read the SDP.                                     *)
SetAnswer(i) ==
  /\ hold[i] # None
  /\ LET o == hold[i][1] IN
       \/ /\ answers' = [answers EXCEPT ![o] = @ \cup {hold[i][2]}]
          /\ IF pc[o] = "closed" \/ answers[o] # {} THEN Close(o) ELSE UNCHANGED pc
       \/ Close(o) /\ UNCHANGED answers
  /\ hold' = [hold EXCEPT ![i] = None]
  /\ UNCHANGED <<owner, at, pending, inbox, far>>

---------------------------------------------------------------------------
(* The responder                                                           *)

Far(o, l) == far' = [far EXCEPT ![o] = l]

(* OnSDPReceived with an offer starts a goroutine ...                      *)
Receive(o) ==
  /\ at[o] \notin {"none", "gather"} /\ far[o] = "none"
  /\ Far(o, "gather")
  /\ UNCHANGED <<initiatorVars, inbox>>
(* ... in which NewWebRTCAnswer fails, or the answer goes to all centrals, *)
Answer(o) ==
  /\ far[o] = "gather"
  /\ \/ Far(o, "closed") /\ UNCHANGED inbox
     \/ /\ Far(o, "new")
        /\ inbox' = [i \in Initiators |-> inbox[i] \cup {o}]
  /\ UNCHANGED initiatorVars
(* ... and which hands the connection over or gives up.                    *)
RConnected(o) ==
  /\ far[o] = "up"
  /\ Far(o, "handed")
  /\ UNCHANGED <<initiatorVars, inbox>>
RTimeout(o) ==
  /\ far[o] \in {"new", "up"}
  /\ Far(o, "closed")
  /\ UNCHANGED <<initiatorVars, inbox>>

---------------------------------------------------------------------------
(* ICE connects the two ends of one offer, and an end learns that the other *)
(* was closed.                                                              *)
Ice(o) ==
  /\ answers[o] = {o}
  /\ \/ /\ pc[o] = "new" /\ far[o] \in {"new", "up", "handed"}
        /\ pc' = [pc EXCEPT ![o] = "up"] /\ UNCHANGED far
     \/ pc[o] # "closed" /\ far[o] = "new" /\ Far(o, "up") /\ UNCHANGED pc
  /\ UNCHANGED <<owner, at, pending, hold, answers, inbox>>
Break(o) ==
  /\ \/ pc[o] = "up" /\ far[o] = "closed" /\ Close(o) /\ UNCHANGED far
     \/ far[o] \in {"up", "handed"} /\ pc[o] = "closed" /\ Far(o, "closed") /\ UNCHANGED pc
  /\ UNCHANGED <<owner, at, pending, hold, answers, inbox>>

Next ==
  \/ \E o \in Offers :
       \/ Offer(o) \/ Connected(o) \/ Timeout(o) \/ TimeoutFrees(o)
       \/ Receive(o) \/ Answer(o) \/ RConnected(o) \/ RTimeout(o) \/ Ice(o) \/ Break(o)
  \/ \E i \in Initiators : SetAnswer(i) \/ \E o \in Offers : Found(i, o) \/ Take(i, o)

Spec == Init /\ [][Next]_vars

(* Goroutines run on and their time-outs end.                              *)
Fairness ==
  /\ \A o \in Offers : /\ WF_vars(Offer(o)) /\ WF_vars(Timeout(o)) /\ WF_vars(TimeoutFrees(o))
                       /\ WF_vars(Answer(o)) /\ WF_vars(RTimeout(o))
  /\ \A i \in Initiators : WF_vars(SetAnswer(i))
FairSpec == Spec /\ Fairness

---------------------------------------------------------------------------
TypeOK ==
  /\ owner \in [Offers -> Initiators \cup {None}]
  /\ at \in [Offers -> {"none", "gather", "wait", "closing", "handed", "failed"}]
  /\ far \in [Offers -> {"none", "gather", "new", "up", "handed", "closed"}]
  /\ pc \in [Offers -> {"new", "up", "closed"}]
  /\ pending \in [Initiators -> Offers \cup {None}]
  /\ hold \in [Initiators -> (Offers \X Offers) \cup {None}]
  /\ answers \in [Offers -> SUBSET Offers] /\ inbox \in [Initiators -> SUBSET Offers]

(* The slot is that of an attempt that still waits. One that is left taken *)
(* would turn every later OnBLEPeerFound away (webrtc_upgrade.go:68-71).   *)
SlotWaits ==
  \A i \in Initiators : pending[i] # None =>
    owner[pending[i]] = i /\ at[pending[i]] \in {"wait", "closing"}

(* Answers are broadcast and time-outs free other attempts' slots, yet no  *)
(* connection is ever given a second answer (webrtc_upgrade.go:156-161).   *)
AnsweredOnce == \A o \in Offers : \A a, b \in answers[o] : a = b

(* Every connection that was made is handed over or closed in the end: one *)
(* whose slot was overwritten or freed by another attempt, too.            *)
EveryConnEnds ==
  \A o \in Offers : at[o] = "wait" ~> at[o] = "handed" \/ pc[o] = "closed"
=============================================================================
