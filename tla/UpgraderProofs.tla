--------------------------- MODULE UpgraderProofs ---------------------------
(***************************************************************************)
(* Theorems about Upgrader for any number of initiators and attempts: the  *)
(* offer that waits, and the answer a connection is given.                 *)
(***************************************************************************)
EXTENDS Upgrader, TLAPS

USE NoneAssumption

---------------------------------------------------------------------------
(* Type correctness.                                                       *)
LEMMA InitiatorType ==
  ASSUME TypeOK, NEW o \in Offers, Offer(o) \/ Connected(o) \/ Timeout(o) \/ TimeoutFrees(o)
  PROVE  TypeOK'
<1>1. CASE Offer(o) \/ Connected(o) \/ Timeout(o)
  BY <1>1 DEF TypeOK, Offer, Connected, Timeout, Goto, Close
<1>2. CASE TimeoutFrees(o)
  BY <1>2 DEF TypeOK, TimeoutFrees, Goto, Free
<1>. QED BY <1>1, <1>2

LEMMA TakeType ==
  ASSUME TypeOK, NEW a \in Offers, NEW i \in Initiators, Take(i, a)
  PROVE  TypeOK'
<1>1. hold' \in [Initiators -> (Offers \X Offers) \cup {None}]
  BY DEF TypeOK, Take
<1>. QED BY <1>1 DEF TypeOK, Take, Received, Free

LEMMA SetAnswerType ==
  ASSUME TypeOK, NEW i \in Initiators, SetAnswer(i)
  PROVE  TypeOK'
<1>1. hold[i] \in Offers \X Offers
  BY DEF TypeOK, SetAnswer
<1>. DEFINE o == hold[i][1]
            a == hold[i][2]
<1>2. o \in Offers /\ a \in Offers
  BY <1>1
<1>3. /\ answers' = [answers EXCEPT ![o] = @ \cup {a}] \/ answers' = answers
      /\ pc' \in [Offers -> {"new", "up", "closed"}]
  BY <1>2 DEF TypeOK, SetAnswer, Close
<1>4. answers' \in [Offers -> SUBSET Offers]
  BY <1>2, <1>3 DEF TypeOK
<1>. QED BY <1>3, <1>4 DEF TypeOK, SetAnswer

LEMMA ResponderType ==
  ASSUME TypeOK, NEW o \in Offers,
         Receive(o) \/ Answer(o) \/ RConnected(o) \/ RTimeout(o) \/ Ice(o) \/ Break(o)
  PROVE  TypeOK'
<1>1. CASE Answer(o)
  BY <1>1 DEF TypeOK, Answer, Far, initiatorVars
<1>2. CASE Receive(o) \/ RConnected(o) \/ RTimeout(o)
  BY <1>2 DEF TypeOK, Receive, RConnected, RTimeout, Far, initiatorVars
<1>3. CASE Ice(o) \/ Break(o)
  BY <1>3 DEF TypeOK, Ice, Break, Close, Far
<1>. QED BY <1>1, <1>2, <1>3

LEMMA StepType == TypeOK /\ [Next]_vars => TypeOK'
<1>. SUFFICES ASSUME TypeOK, [Next]_vars
              PROVE  TypeOK'
  OBVIOUS
<1>1. ASSUME NEW i \in Initiators, NEW o \in Offers, Found(i, o)
      PROVE  TypeOK'
  BY <1>1 DEF TypeOK, Found
<1>2. CASE UNCHANGED vars
  BY <1>2 DEF TypeOK, vars, initiatorVars
<1>. QED BY <1>1, <1>2, InitiatorType, TakeType, SetAnswerType, ResponderType DEF Next

(* Every variable keeps its type.                                          *)
THEOREM TypeCorrect == Spec => []TypeOK
<1>1. Init => TypeOK
  BY DEF Init, TypeOK
<1>. QED BY <1>1, StepType, PTL DEF Spec

---------------------------------------------------------------------------
(* The slot and the answer. An attempt that has not been offered is in no  *)
(* slot and in nobody's hands; one that is in a slot or in a callback's    *)
(* hands has no answer yet, is there once, and belongs to that initiator.  *)
Held(i, o) == hold[i] # None /\ hold[i][1] = o
Slots ==
  \A i \in Initiators, o \in Offers :
    /\ pending[i] = o => /\ owner[o] = i /\ at[o] \in {"wait", "closing"}
                         /\ answers[o] = {} /\ ~Held(i, o)
    /\ Held(i, o) => owner[o] = i /\ answers[o] = {} /\ at[o] \notin {"none", "gather"}
    /\ at[o] \in {"none", "gather"} => answers[o] = {}
    /\ at[o] = "gather" => owner[o] \in Initiators
    /\ pc[o] = "up" => answers[o] # {}
Inv == TypeOK /\ Slots /\ AnsweredOnce

LEMMA InitiatorSlots ==
  ASSUME Inv, NEW x \in Offers, Offer(x) \/ Connected(x) \/ Timeout(x) \/ TimeoutFrees(x)
  PROVE  Slots'
<1>1. CASE Offer(x)
  BY <1>1 DEF Inv, TypeOK, Slots, Held, Offer, Goto
<1>2. CASE Connected(x)
  <2>1. \A i \in Initiators : pending[i] # x
    BY <1>2 DEF Inv, Slots, Connected
  <2>2. at' = [at EXCEPT ![x] = "handed"] /\ at[x] = "wait" /\ UNCHANGED <<owner, pc, pending, hold, answers>>
    BY <1>2 DEF Connected, Goto
  <2>. QED BY <2>1, <2>2 DEF Inv, TypeOK, Slots, Held
<1>3. CASE Timeout(x)
  BY <1>3 DEF Inv, TypeOK, Slots, Held, Timeout, Goto, Close
<1>4. CASE TimeoutFrees(x)
  BY <1>4 DEF Inv, TypeOK, Slots, Held, TimeoutFrees, Goto, Free
<1>. QED BY <1>1, <1>2, <1>3, <1>4

LEMMA FoundSlots ==
  ASSUME Inv, NEW j \in Initiators, NEW x \in Offers, Found(j, x)
  PROVE  Slots'
BY DEF Inv, TypeOK, Slots, Held, Found

LEMMA TakeSlots ==
  ASSUME Inv, NEW j \in Initiators, NEW a \in Offers, Take(j, a)
  PROVE  Slots'
<1>1. hold'[j] = IF pending[j] = None THEN None ELSE <<pending[j], a>>
  BY DEF Inv, TypeOK, Take
<1>2. \A i \in Initiators \ {j} : hold'[i] = hold[i] /\ pending'[i] = pending[i]
  BY DEF Inv, TypeOK, Take, Free
<1>3. pending'[j] = None /\ UNCHANGED <<owner, at, answers, pc>>
  BY DEF Inv, TypeOK, Take, Free
<1>4. \A o \in Offers : Held(j, o)' => pending[j] = o
  BY <1>1 DEF Held
<1>5. \A i \in Initiators \ {j}, o \in Offers : Held(i, o)' <=> Held(i, o)
  BY <1>2 DEF Held
<1>. QED BY <1>2, <1>3, <1>4, <1>5 DEF Inv, TypeOK, Slots

LEMMA SetAnswerSlots ==
  ASSUME Inv, NEW j \in Initiators, SetAnswer(j)
  PROVE  Slots' /\ AnsweredOnce'
<1>1. PICK x \in Offers, a \in Offers : hold[j] = <<x, a>>
  BY DEF Inv, TypeOK, SetAnswer
<1>2. Held(j, x) /\ owner[x] = j /\ answers[x] = {} /\ at[x] \notin {"none", "gather"}
  <2>1. Held(j, x)
    BY <1>1 DEF SetAnswer, Held
  <2>. QED BY <2>1, <1>1 DEF Inv, Slots
<1>3. /\ answers' = [answers EXCEPT ![x] = {a}] \/ answers' = answers
      /\ UNCHANGED <<owner, at, pending>>
  <2>1. hold[j][1] = x /\ hold[j][2] = a
    BY <1>1
  <2>2. answers' = [answers EXCEPT ![x] = answers[x] \cup {a}] \/ answers' = answers
    BY <2>1 DEF SetAnswer
  <2>3. answers[x] \cup {a} = {a}
    BY <1>2
  <2>. QED BY <2>2, <2>3 DEF SetAnswer
<1>4. hold' = [hold EXCEPT ![j] = None]
  BY DEF SetAnswer
<1>5. \A i \in Initiators, o \in Offers : Held(i, o)' => i # j /\ Held(i, o)
  BY <1>4 DEF Inv, TypeOK, Held
<1>6. \A i \in Initiators : pending[i] # x /\ (i # j => ~Held(i, x))
  <2>1. ASSUME NEW i \in Initiators, pending[i] = x
        PROVE  FALSE
    <3>1. owner[x] = i /\ ~Held(i, x)
      BY <2>1, <1>1 DEF Inv, Slots
    <3>. QED BY <3>1, <1>2
  <2>2. ASSUME NEW i \in Initiators, Held(i, x)
        PROVE  i = j
    BY <2>2, <1>1, <1>2 DEF Inv, Slots
  <2>. QED BY <2>1, <2>2
<1>7. \A o \in Offers \ {x} : answers'[o] = answers[o]
  BY <1>3 DEF Inv, TypeOK
<1>8. Slots'
  <2>1. \A o \in Offers : pc'[o] = "up" => pc[o] = "up"
    BY <1>1 DEF Inv, TypeOK, SetAnswer, Close
  <2>2. pc'[x] = "up" => answers'[x] # {}
    BY <1>1, <1>2, <2>1 DEF Inv, Slots
  <2>. QED BY <2>2, <1>1, <1>2, <1>3, <1>5, <1>6, <1>7, <2>1 DEF Inv, Slots
<1>9. AnsweredOnce'
  BY <1>3, <1>7 DEF Inv, TypeOK, AnsweredOnce
<1>. QED BY <1>8, <1>9

LEMMA StepInv == Inv /\ [Next]_vars => Inv'
<1>. SUFFICES ASSUME Inv, [Next]_vars
              PROVE  Slots' /\ AnsweredOnce'
  BY StepType DEF Inv
<1>1. CASE UNCHANGED initiatorVars
  BY <1>1 DEF Inv, Slots, Held, AnsweredOnce, initiatorVars
<1>2. ASSUME NEW o \in Offers, Ice(o) \/ Break(o)
      PROVE  Slots' /\ AnsweredOnce'
  <2>1. \A q \in Offers : pc'[q] = "up" => pc[q] = "up" \/ (q = o /\ answers[o] = {o})
    BY <1>2 DEF Inv, TypeOK, Ice, Break, Close
  <2>2. UNCHANGED <<owner, at, pending, hold, answers>>
    BY <1>2 DEF Ice, Break
  <2>. QED BY <2>1, <2>2 DEF Inv, Slots, Held, AnsweredOnce
<1>3. ASSUME NEW o \in Offers, Offer(o) \/ Connected(o) \/ Timeout(o) \/ TimeoutFrees(o)
      PROVE  Slots' /\ AnsweredOnce'
  <2>1. answers' = answers
    BY <1>3 DEF Offer, Connected, Timeout, TimeoutFrees
  <2>. QED BY <1>3, <2>1, InitiatorSlots DEF Inv, AnsweredOnce
<1>4. ASSUME NEW i \in Initiators, NEW o \in Offers, Found(i, o) \/ Take(i, o)
      PROVE  Slots' /\ AnsweredOnce'
  <2>1. answers' = answers
    BY <1>4 DEF Found, Take
  <2>. QED BY <1>4, <2>1, FoundSlots, TakeSlots DEF Inv, AnsweredOnce
<1>5. ASSUME NEW i \in Initiators, SetAnswer(i)
      PROVE  Slots' /\ AnsweredOnce'
  BY <1>5, SetAnswerSlots
<1>6. \/ UNCHANGED initiatorVars
      \/ \E o \in Offers : Ice(o) \/ Break(o)
      \/ \E o \in Offers : Offer(o) \/ Connected(o) \/ Timeout(o) \/ TimeoutFrees(o)
      \/ \E i \in Initiators, o \in Offers : Found(i, o) \/ Take(i, o)
      \/ \E i \in Initiators : SetAnswer(i)
  BY DEF Next, vars, Receive, Answer, RConnected, RTimeout
<1>. QED BY <1>1, <1>2, <1>3, <1>4, <1>5, <1>6

LEMMA AlwaysInv == Spec => []Inv
<1>1. Init => Inv
  BY DEF Init, Inv, TypeOK, Slots, Held, AnsweredOnce
<1>. QED BY <1>1, StepInv, PTL DEF Spec

(* A slot is always that of an attempt of the same initiator that still    *)
(* waits: overlapping attempts and time-outs never leave one taken.        *)
THEOREM SlotsWait == Spec => []SlotWaits
<1>1. Inv => SlotWaits
  BY DEF Inv, TypeOK, Slots, SlotWaits
<1>. QED BY <1>1, AlwaysInv, PTL

(* No connection is ever given a second answer, although every answer      *)
(* reaches every initiator.                                                *)
THEOREM OneAnswer == Spec => []AnsweredOnce
<1>1. Inv => AnsweredOnce
  BY DEF Inv
<1>. QED BY <1>1, AlwaysInv, PTL
=============================================================================
