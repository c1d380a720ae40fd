--------------------------- MODULE RoutingProofs ---------------------------
(***************************************************************************)
(* Theorems about Routing for any number of callbacks, connections and     *)
(* Send calls, on either platform.                                         *)
(***************************************************************************)
EXTENDS Routing, TLAPS

USE ActorsAssumption, PlatformAssumption, BoundAssumption

---------------------------------------------------------------------------
(* Type correctness, one step per kind of actor.                           *)
LEMMA CallbackType ==
  ASSUME TypeOK, NEW k \in Callbacks,
         Call(k) \/ Attach(k) \/ RegisterBle(k) \/ GreetBle(k) \/ Inbound(k) \/ InboundWrite(k)
  PROVE  TypeOK'
<1>1. CASE Call(k) \/ Attach(k) \/ RegisterBle(k)
  BY <1>1 DEF TypeOK, Call, Attach, RegisterBle, Register, Goto, Entries, Transports, rtcVars, streamVars
<1>2. CASE GreetBle(k)
  BY <1>2 DEF TypeOK, GreetBle, Goto, Hello, Dial, Streams, Transports, rtcVars, streamVars
<1>3. CASE Inbound(k) \/ InboundWrite(k)
  BY <1>3 DEF TypeOK, Inbound, InboundWrite, Goto, Entries, rtcVars, streamVars
<1>. QED BY <1>1, <1>2, <1>3

LEMMA ReaderType == ASSUME TypeOK, NEW e \in Entries, ReaderEnds(e) PROVE TypeOK'
BY DEF TypeOK, ReaderEnds, Entries, rtcVars, streamVars

LEMMA IceType ==
  ASSUME TypeOK, NEW c \in Conns, NEW s \in {"up"} \cup Dead, Ice(c, s)
  PROVE  /\ ice' \in [Conns -> {"new", "up"} \cup Dead]
         /\ closers' \in [Conns -> Nat]
  BY DEF TypeOK, Ice

LEMMA ConnType ==
  ASSUME TypeOK, NEW c \in Conns,
         \/ Connect(c) \/ Break(c) \/ Hook(c) \/ AttachRtc(c)
         \/ RegisterRtc(c) \/ Supersede(c) \/ ClosePipe(c) \/ OnClose(c) \/ OnCloseEnds(c)
  PROVE  TypeOK'
<1>1. CASE Connect(c) \/ Break(c)
  <2>1. PICK s \in {"up"} \cup Dead : Ice(c, s)
    BY <1>1 DEF Connect, Break, Dead
  <2>2. ice' \in [Conns -> {"new", "up"} \cup Dead] /\ closers' \in [Conns -> Nat]
    BY <2>1, IceType
  <2>. QED BY <1>1, <2>2 DEF TypeOK, Connect, Break, bleVars, streamVars
<1>2. CASE Hook(c) \/ AttachRtc(c) \/ RegisterRtc(c)
  BY <1>2 DEF TypeOK, Hook, AttachRtc, RegisterRtc, Register, Advance, Transports, bleVars, streamVars
<1>3. CASE Supersede(c) \/ ClosePipe(c)
  BY <1>3 DEF TypeOK, Supersede, ClosePipe, Advance, Hello, Dial, Streams, Transports, streamVars
<1>4. CASE OnClose(c)
  BY <1>4 DEF TypeOK, OnClose, Unregister, bleVars, streamVars
<1>5. CASE OnCloseEnds(c)
  <2>1. halfway' \in [Conns -> Nat]
    BY <1>5 DEF TypeOK, OnCloseEnds
  <2>2. CASE wentry # None /\ ice[wentry] # "closed"
    <3>1. ice' \in [Conns -> {"new", "up"} \cup Dead] /\ closers' \in [Conns -> Nat]
      BY <1>5, <2>2, IceType DEF TypeOK, OnCloseEnds, Dead
    <3>. QED BY <1>5, <2>1, <3>1 DEF TypeOK, OnCloseEnds, bleVars, streamVars
  <2>3. CASE ~(wentry # None /\ ice[wentry] # "closed")
    BY <1>5, <2>1, <2>3 DEF TypeOK, OnCloseEnds, bleVars, streamVars
  <2>. QED BY <2>2, <2>3
<1>. QED BY <1>1, <1>2, <1>3, <1>4, <1>5

LEMMA StreamType ==
  ASSUME TypeOK,
         \/ \E s \in Sends : Lookup(s) \/ ForgetRoute(s)
         \/ \E x \in Streams : OpenStream(x) \/ LockEntry(x) \/ CloseStream(x)
  PROVE  TypeOK'
<1>1. ASSUME NEW s \in Sends, Lookup(s) \/ ForgetRoute(s)
      PROVE  TypeOK'
  BY <1>1 DEF TypeOK, Lookup, ForgetRoute, Unregister, Dial, Streams, Transports, bleVars, rtcVars
<1>2. ASSUME NEW x \in Streams, OpenStream(x) \/ LockEntry(x) \/ CloseStream(x)
      PROVE  TypeOK'
  BY <1>2 DEF TypeOK, OpenStream, LockEntry, CloseStream, bleVars, rtcVars
<1>. QED BY <1>1, <1>2

LEMMA StepType == TypeOK /\ [Next]_vars => TypeOK'
<1>. SUFFICES ASSUME TypeOK, [Next]_vars
              PROVE  TypeOK'
  OBVIOUS
<1>1. CASE UNCHANGED vars
  BY <1>1 DEF TypeOK, vars, bleVars, rtcVars, streamVars
<1>. QED BY <1>1, CallbackType, ReaderType, ConnType, StreamType DEF Next

(* Every variable keeps its type, whatever the actors do.                  *)
THEOREM TypeCorrect == Spec => []TypeOK
<1>1. Init => TypeOK
  BY DEF Init, TypeOK, Dead
<1>. QED BY <1>1, StepType, PTL DEF Spec

---------------------------------------------------------------------------
(* Attach opens a pipe and closes that of the entry it replaces; an upgrade *)
(* closes the pipe of the entry it took, whatever was attached since.      *)
Closing(e) == \E c \in Conns : removed[c] = e /\ stage[c] = "superseded"

LEMMA StepNoReaderLeft == TypeOK /\ NoReaderLeft /\ [Next]_vars => NoReaderLeft'
<1>. SUFFICES ASSUME TypeOK, NoReaderLeft, [Next]_vars, NEW e \in open'
              PROVE  e = entry' \/ Closing(e)'
  BY DEF NoReaderLeft, Closing
<1>0. e \in open => e = entry \/ Closing(e)
  BY DEF NoReaderLeft, Closing
<1>1. ASSUME NEW k \in Callbacks, Attach(k)
      PROVE  e = entry' \/ Closing(e)'
  BY <1>0, <1>1 DEF Attach, Closing, rtcVars
<1>2. ASSUME NEW c \in Conns, Supersede(c)
      PROVE  e = entry' \/ Closing(e)'
  <2>1. removed'[c] = entry /\ stage'[c] = "superseded"
    BY <1>2 DEF TypeOK, Supersede, Advance
  <2>2. \A d \in Conns \ {c} : removed'[d] = removed[d] /\ stage'[d] = stage[d]
    BY <1>2 DEF TypeOK, Supersede, Advance
  <2>3. e \in open /\ stage[c] # "superseded"
    BY <1>2 DEF Supersede
  <2>. QED BY <1>0, <2>1, <2>2, <2>3 DEF Closing
<1>3. ASSUME NEW c \in Conns, ClosePipe(c)
      PROVE  e = entry' \/ Closing(e)'
  <2>1. e \in open /\ e # removed[c] /\ entry' = entry /\ removed' = removed
    BY <1>3 DEF ClosePipe
  <2>2. \A d \in Conns \ {c} : stage'[d] = stage[d]
    BY <1>3 DEF TypeOK, ClosePipe, Advance
  <2>. QED BY <1>0, <2>1, <2>2 DEF Closing
<1>4. ASSUME NEW c \in Conns, Hook(c) \/ AttachRtc(c) \/ RegisterRtc(c)
      PROVE  e = entry' \/ Closing(e)'
  <2>1. /\ open' = open /\ entry' = entry /\ removed' = removed
        /\ stage[c] # "superseded" /\ \A d \in Conns \ {c} : stage'[d] = stage[d]
    BY <1>4 DEF TypeOK, Hook, AttachRtc, RegisterRtc, Advance, bleVars
  <2>. QED BY <1>0, <2>1 DEF Closing
<1>5. CASE UNCHANGED <<entry, open, removed, stage>>
  BY <1>0, <1>5 DEF Closing
<1>6. \/ \E k \in Callbacks : Attach(k)
      \/ \E c \in Conns : \/ Supersede(c) \/ ClosePipe(c)
                          \/ Hook(c) \/ AttachRtc(c) \/ RegisterRtc(c)
      \/ UNCHANGED <<entry, open, removed, stage>>
  BY DEF Next, vars, bleVars, rtcVars, Call, RegisterBle, GreetBle, Inbound, InboundWrite, ReaderEnds,
         Connect, Break, OnClose, OnCloseEnds, Lookup, ForgetRoute, OpenStream, LockEntry, CloseStream
<1>. QED BY <1>1, <1>2, <1>3, <1>4, <1>5, <1>6

(* However many callbacks attach the peer, and wherever an upgrade is      *)
(* between taking its entry and closing that entry's pipe, no pipe but the *)
(* current entry's is left open with nobody about to close it.             *)
THEOREM NoReaderIsLeft == Spec => []NoReaderLeft
<1>1. Init => NoReaderLeft
  BY DEF Init, NoReaderLeft
<1>. QED BY <1>1, StepNoReaderLeft, TypeCorrect, PTL DEF Spec

---------------------------------------------------------------------------
(* Before any connection is handed over nothing unregisters the peer:      *)
(* there is an entry whenever there is a route, so no Send is refused one. *)
Untouched == \A c \in Conns : stage[c] = "none"

Backed ==
  /\ registry \in {None, "ble"}
  /\ registry = "ble" => entry # None
  /\ \A c \in Conns : closers[c] = 0 /\ halfway[c] = 0
  /\ \A k \in Callbacks : cb[k] = "register" => entry # None
  /\ \A s \in Sends : at[s] # "forget" /\ (at[s] = "dial" => on[s] = "ble" /\ entry # None)

FallbackInv == Untouched => Backed

LEMMA StepUntouched == ASSUME TypeOK, [Next]_vars, Untouched' PROVE Untouched
<1>1. ASSUME NEW c \in Conns, stage[c] # "none"
      PROVE  stage'[c] # "none"
  BY <1>1 DEF TypeOK, Next, vars, bleVars, rtcVars, streamVars, Call, Attach, RegisterBle, GreetBle,
     Inbound, InboundWrite, ReaderEnds, Connect, Break, Hook, AttachRtc, RegisterRtc, Supersede, ClosePipe, OnClose,
     OnCloseEnds, Lookup, ForgetRoute, OpenStream, LockEntry, CloseStream, Advance
<1>. QED BY <1>1 DEF Untouched

LEMMA CallbackBacked ==
  ASSUME TypeOK, Backed, NEW k \in Callbacks,
         Call(k) \/ Attach(k) \/ RegisterBle(k) \/ GreetBle(k) \/ Inbound(k) \/ InboundWrite(k)
  PROVE  Backed'
<1>1. CASE Call(k)
  BY <1>1 DEF TypeOK, Backed, Call, Goto, rtcVars, streamVars
<1>2. CASE Attach(k)
  BY <1>2 DEF TypeOK, Backed, Attach, Goto, rtcVars, streamVars
<1>3. CASE RegisterBle(k)
  BY <1>3 DEF TypeOK, Backed, RegisterBle, Register, Goto, rtcVars, streamVars
<1>4. CASE GreetBle(k)
  <2>1. \A s \in Sends : at'[s] = at[s] /\ on'[s] = on[s]
    BY <1>4 DEF TypeOK, GreetBle, Hello, Dial, Streams, streamVars
  <2>. QED BY <1>4, <2>1 DEF TypeOK, Backed, GreetBle, Goto, rtcVars
<1>5. CASE Inbound(k) \/ InboundWrite(k)
  BY <1>5 DEF TypeOK, Backed, Inbound, InboundWrite, Goto, rtcVars, streamVars
<1>. QED BY <1>1, <1>2, <1>3, <1>4, <1>5

(* A connection nobody was handed can only change its own state.           *)
LEMMA ConnBacked ==
  ASSUME TypeOK, Untouched, Backed, NEW c \in Conns, Untouched',
         \/ Connect(c) \/ Break(c) \/ Hook(c) \/ AttachRtc(c)
         \/ RegisterRtc(c) \/ Supersede(c) \/ ClosePipe(c) \/ OnClose(c) \/ OnCloseEnds(c)
  PROVE  Backed'
<1>1. CASE Connect(c) \/ Break(c)
  <2>1. closers' = closers
    BY <1>1 DEF Untouched, Connect, Break, Ice
  <2>. QED BY <1>1, <2>1 DEF Backed, Connect, Break, bleVars, streamVars
<1>2. ~Hook(c)
  BY DEF TypeOK, Untouched, Hook, Advance
<1>3. ~AttachRtc(c) /\ ~RegisterRtc(c) /\ ~Supersede(c) /\ ~ClosePipe(c)
  BY DEF Untouched, AttachRtc, RegisterRtc, Supersede, ClosePipe
<1>4. ~OnClose(c) /\ ~OnCloseEnds(c)
  BY DEF Backed, OnClose, OnCloseEnds
<1>. QED BY <1>1, <1>2, <1>3, <1>4

LEMMA StreamBacked ==
  ASSUME TypeOK, Backed,
         \/ \E s \in Sends : Lookup(s) \/ ForgetRoute(s)
         \/ \E x \in Streams : OpenStream(x) \/ LockEntry(x) \/ CloseStream(x)
  PROVE  Backed'
<1>1. ASSUME NEW s \in Sends, Lookup(s)
      PROVE  Backed'
  BY <1>1 DEF TypeOK, Backed, Lookup, Dial, Streams, bleVars, rtcVars
<1>2. ASSUME NEW s \in Sends, ForgetRoute(s)
      PROVE  FALSE
  BY <1>2 DEF Backed, ForgetRoute
<1>3. ASSUME NEW x \in Streams, OpenStream(x)
      PROVE  Backed'
  BY <1>3 DEF TypeOK, Backed, OpenStream, Streams, bleVars, rtcVars
<1>4. ASSUME NEW x \in Streams, LockEntry(x) \/ CloseStream(x)
      PROVE  Backed'
  BY <1>4 DEF TypeOK, Backed, LockEntry, CloseStream, Streams, bleVars, rtcVars
<1>. QED BY <1>1, <1>2, <1>3, <1>4

LEMMA StepFallback == TypeOK /\ FallbackInv /\ [Next]_vars => FallbackInv'
<1>. SUFFICES ASSUME TypeOK, FallbackInv, [Next]_vars, Untouched'
              PROVE  Backed'
  BY DEF FallbackInv
<1>1. Untouched /\ Backed
  BY StepUntouched DEF FallbackInv
<1>2. CASE UNCHANGED vars
  BY <1>1, <1>2 DEF Backed, vars, bleVars, rtcVars, streamVars
<1>3. ASSUME NEW k \in Callbacks,
             Call(k) \/ Attach(k) \/ RegisterBle(k) \/ GreetBle(k) \/ Inbound(k) \/ InboundWrite(k)
      PROVE  Backed'
  BY <1>1, <1>3, CallbackBacked
<1>4. ASSUME NEW c \in Conns,
             \/ Connect(c) \/ Break(c) \/ Hook(c) \/ AttachRtc(c)
             \/ RegisterRtc(c) \/ Supersede(c) \/ ClosePipe(c) \/ OnClose(c) \/ OnCloseEnds(c)
      PROVE  Backed'
  BY <1>1, <1>4, ConnBacked
<1>5. ASSUME NEW e \in Entries, ReaderEnds(e)
      PROVE  Backed'
  BY <1>1, <1>5 DEF Backed, ReaderEnds, rtcVars, streamVars
<1>. QED BY <1>1, <1>2, <1>3, <1>4, <1>5, StreamBacked DEF Next

(* Without an upgrade a BLE route is never lost; with one it stays until   *)
(* a connection is handed over.                                            *)
THEOREM FallbackKept == Spec => FallbackStays
<1>1. Init => FallbackInv
  BY DEF Init, FallbackInv, Backed, Streams, Transports
<1>2. TypeOK /\ FallbackInv /\ [Next]_vars
      => [registry = "ble" /\ (\A c \in Conns : stage[c] = "none") => registry' = "ble"]_vars
  <2>. SUFFICES ASSUME TypeOK, FallbackInv, Next, registry = "ble", Untouched
                PROVE  registry' = "ble"
    BY DEF Untouched
  <2>1. Backed
    BY DEF FallbackInv
  <2>2. ASSUME NEW s \in Sends, ForgetRoute(s)
        PROVE  FALSE
    BY <2>1, <2>2 DEF Backed, ForgetRoute
  <2>3. ASSUME NEW c \in Conns, RegisterRtc(c) \/ OnClose(c)
        PROVE  FALSE
    BY <2>1, <2>3 DEF Backed, Untouched, RegisterRtc, OnClose
  <2>4. ASSUME NEW k \in Callbacks, RegisterBle(k)
        PROVE  registry' = "ble"
    BY <2>4 DEF RegisterBle, Register
  <2>5. \/ \E s \in Sends : ForgetRoute(s)
        \/ \E c \in Conns : RegisterRtc(c) \/ OnClose(c)
        \/ \E k \in Callbacks : RegisterBle(k)
        \/ UNCHANGED registry
    BY DEF Next, Call, Attach, GreetBle, Inbound, InboundWrite, Connect, Break, Hook, AttachRtc,
           ReaderEnds, Supersede, ClosePipe, OnCloseEnds, Lookup, OpenStream, LockEntry, CloseStream
  <2>. QED BY <2>2, <2>3, <2>4, <2>5
<1>. QED BY <1>1, <1>2, StepFallback, TypeCorrect, PTL DEF Spec, FallbackStays
---------------------------------------------------------------------------
(* On bleQueue one callback runs at a time, so that the entry a message    *)
(* was read for is still the peer's when it is written, unless an upgrade  *)
(* has taken it since.                                                     *)
Running(k) == cb[k] \notin {"idle", "done"}
OneAtATime == \A k, l \in Callbacks : Running(k) /\ Running(l) => k = l
Taken(e) == \E c \in Conns : removed[c] = e
Aimed(k) == cb[k] = "write" => into[k] # None /\ (into[k] = entry \/ Taken(into[k]))
Unused(k) == cb[k] \in {"idle", "attach"} => k # entry /\ ~Taken(k)
Current == entry # None => entry \in open /\ ~Taken(entry)
Past == \A k \in dropped : cb[k] = "done" /\ into[k] # None
Flowing == (\A k \in Callbacks : Aimed(k) /\ Unused(k)) /\ Current /\ Past
NotYetTaken == \A c \in Conns : stage[c] \notin {"superseded", "done"} => removed[c] = None
FlowInv == OneAtATime /\ NotYetTaken /\ Flowing /\ DataReachesReader

LEMMA StepNotYetTaken == ASSUME TypeOK, NotYetTaken, [Next]_vars PROVE NotYetTaken'
<1>1. CASE UNCHANGED <<stage, removed>>
  BY <1>1 DEF NotYetTaken
<1>2. ASSUME NEW c \in Conns, Hook(c) \/ AttachRtc(c) \/ RegisterRtc(c)
      PROVE  NotYetTaken'
  BY <1>2 DEF TypeOK, NotYetTaken, Hook, AttachRtc, RegisterRtc, Advance
<1>3. ASSUME NEW c \in Conns, Supersede(c) \/ ClosePipe(c)
      PROVE  NotYetTaken'
  BY <1>3 DEF TypeOK, NotYetTaken, Supersede, ClosePipe, Advance
<1>4. \/ UNCHANGED <<stage, removed>>
      \/ \E c \in Conns : \/ Supersede(c) \/ ClosePipe(c)
                          \/ Hook(c) \/ AttachRtc(c) \/ RegisterRtc(c)
  BY DEF Next, vars, rtcVars, Call, Attach, RegisterBle, GreetBle, Inbound, InboundWrite, ReaderEnds,
         Connect, Break, OnClose, OnCloseEnds, Lookup, ForgetRoute, OpenStream, LockEntry, CloseStream
<1>. QED BY <1>1, <1>2, <1>3, <1>4

LEMMA StepOneAtATime ==
  ASSUME Serial, TypeOK, OneAtATime, [Next]_vars
  PROVE  OneAtATime'
<1>1. CASE UNCHANGED cb
  BY <1>1 DEF OneAtATime, Running
<1>2. ASSUME NEW k \in Callbacks, Call(k)
      PROVE  OneAtATime'
  <2>1. /\ \A l \in Callbacks : ~Running(l)
        /\ \A l \in Callbacks \ {k} : cb'[l] = cb[l]
    BY <1>2 DEF TypeOK, Call, Goto, Running
  <2>. QED BY <2>1 DEF OneAtATime, Running
<1>3. ASSUME NEW k \in Callbacks,
             Attach(k) \/ RegisterBle(k) \/ GreetBle(k) \/ Inbound(k) \/ InboundWrite(k)
      PROVE  OneAtATime'
  <2>1. Running(k) /\ \A l \in Callbacks \ {k} : cb'[l] = cb[l]
    BY <1>3 DEF TypeOK, Attach, RegisterBle, GreetBle, Inbound, InboundWrite, Goto, Running
  <2>. QED BY <2>1 DEF OneAtATime, Running
<1>4. \/ UNCHANGED cb
      \/ \E k \in Callbacks : \/ Call(k) \/ Attach(k) \/ RegisterBle(k)
                              \/ GreetBle(k) \/ Inbound(k) \/ InboundWrite(k)
  BY DEF Next, vars, bleVars, ReaderEnds, Connect, Break, Hook, AttachRtc, RegisterRtc, Supersede,
         ClosePipe, OnClose, OnCloseEnds, Lookup, ForgetRoute, OpenStream, LockEntry, CloseStream
<1>. QED BY <1>1, <1>2, <1>3, <1>4

(* The steps that change what Flowing and DataReachesReader speak of.      *)
LEMMA StepFlowing ==
  ASSUME TypeOK, OneAtATime, NotYetTaken, Flowing, DataReachesReader, [Next]_vars
  PROVE  Flowing' /\ DataReachesReader'
<1>1. CASE UNCHANGED <<entry, open, ended, cb, into, dropped, removed>>
  BY <1>1 DEF Flowing, Aimed, Unused, Current, Past, DataReachesReader, Taken
<1>2. ASSUME NEW k \in Callbacks, Call(k) \/ RegisterBle(k) \/ GreetBle(k)
      PROVE  Flowing' /\ DataReachesReader'
  <2>1. /\ UNCHANGED <<entry, open, ended, into, dropped, removed>>
        /\ cb'[k] \notin {"idle", "write"} /\ (cb[k] # "idle" => cb'[k] # "attach")
        /\ \A l \in Callbacks \ {k} : cb'[l] = cb[l]
    BY <1>2 DEF TypeOK, Call, RegisterBle, GreetBle, Goto, rtcVars
  <2>2. \A l \in Callbacks : Aimed(l)' /\ Unused(l)'
    BY <2>1 DEF Flowing, Aimed, Unused, Taken
  <2>3. Past' /\ k \notin dropped
    <3>1. cb[k] # "done"
      BY <1>2 DEF Call, RegisterBle, GreetBle
    <3>. QED BY <2>1, <3>1 DEF TypeOK, Flowing, Past
  <2>. QED BY <2>1, <2>2, <2>3 DEF Flowing, Current, DataReachesReader, Taken
<1>3. ASSUME NEW k \in Callbacks, Attach(k)
      PROVE  Flowing' /\ DataReachesReader'
  <2>1. \A l \in Callbacks : cb'[l] # "write"
    BY <1>3 DEF TypeOK, OneAtATime, Running, Attach, Goto
  <2>2. /\ entry' = k /\ k \in open' /\ UNCHANGED <<ended, into, dropped, removed>>
        /\ cb'[k] = "register" /\ \A l \in Callbacks \ {k} : cb'[l] = cb[l]
    BY <1>3 DEF TypeOK, Attach, Goto, rtcVars
  <2>3. ~Taken(k) /\ cb[k] = "attach"
    BY <1>3 DEF Flowing, Unused, Attach
  <2>4. \A l \in Callbacks : Aimed(l)' /\ Unused(l)'
    BY <2>1, <2>2 DEF Flowing, Aimed, Unused, Taken
  <2>5. Past'
    <3>1. k \notin dropped
      BY <2>3 DEF Flowing, Past
    <3>. QED BY <2>2, <3>1 DEF TypeOK, Flowing, Past
  <2>. QED BY <2>2, <2>3, <2>4, <2>5 DEF Flowing, Current, DataReachesReader, Taken
<1>4. ASSUME NEW k \in Callbacks, Inbound(k)
      PROVE  Flowing' /\ DataReachesReader'
  <2>1. /\ UNCHANGED <<entry, open, ended, dropped, removed>> /\ cb[k] = "use" /\ k \in Data
        /\ \A l \in Callbacks \ {k} : cb'[l] = cb[l] /\ into'[l] = into[l]
    BY <1>4 DEF TypeOK, Inbound, Goto, rtcVars
  <2>2. /\ cb'[k] \in {"write", "done"} /\ into'[k] = entry
        /\ cb'[k] = "write" => entry # None
    BY <1>4 DEF TypeOK, Inbound, Goto
  <2>3. k \notin dropped /\ Past'
    <3>1. k \notin dropped
      BY <2>1 DEF Flowing, Past
    <3>. QED BY <2>1, <3>1 DEF TypeOK, Flowing, Past
  <2>4. Aimed(k)' /\ Unused(k)'
    BY <2>1, <2>2 DEF Aimed, Unused
  <2>5. \A l \in Callbacks \ {k} : Aimed(l)' /\ Unused(l)'
    BY <2>1 DEF Flowing, Aimed, Unused, Taken
  <2>6. DataReachesReader'
    BY <2>1, <2>3 DEF TypeOK, DataReachesReader
  <2>. QED BY <2>1, <2>3, <2>4, <2>5, <2>6 DEF Flowing, Current, Taken
<1>5. ASSUME NEW k \in Callbacks, InboundWrite(k)
      PROVE  Flowing' /\ DataReachesReader'
  <2>1. /\ UNCHANGED <<entry, open, ended, into, removed>> /\ cb[k] = "write" /\ cb'[k] = "done"
        /\ \A l \in Callbacks \ {k} : cb'[l] = cb[l]
        /\ dropped' = IF into[k] \in open \ ended THEN dropped ELSE dropped \cup {k}
    BY <1>5 DEF TypeOK, InboundWrite, Goto, rtcVars
  <2>2. into[k] \in open \/ Taken(into[k])
    BY <2>1 DEF Flowing, Aimed, Current
  <2>3. DataReachesReader'
    BY <2>1, <2>2 DEF DataReachesReader, Taken
  <2>4. \A l \in Callbacks : Aimed(l)' /\ Unused(l)'
    BY <2>1 DEF Flowing, Aimed, Unused, Taken
  <2>5. Past'
    <3>1. into[k] # None
      BY <2>1 DEF Flowing, Aimed
    <3>. QED BY <2>1, <3>1 DEF TypeOK, Flowing, Past
  <2>. QED BY <2>1, <2>3, <2>4, <2>5 DEF Flowing, Current, Taken
<1>6. ASSUME NEW e \in Entries, ReaderEnds(e)
      PROVE  Flowing' /\ DataReachesReader'
  BY <1>6 DEF ReaderEnds, Flowing, Aimed, Unused, Current, Past, DataReachesReader, Taken, rtcVars
<1>7. ASSUME NEW c \in Conns, Supersede(c)
      PROVE  Flowing' /\ DataReachesReader'
  <2>1. /\ UNCHANGED <<open, ended, cb, into, dropped>> /\ entry' = None /\ removed'[c] = entry
        /\ \A d \in Conns \ {c} : removed'[d] = removed[d]
    BY <1>7 DEF TypeOK, Supersede
  <2>2. removed[c] = None
    BY <1>7 DEF NotYetTaken, Supersede
  <2>3. \A x \in Entries : Taken(x)' <=> Taken(x) \/ x = entry
    BY <2>1, <2>2 DEF Taken, Entries
  <2>6. \A l \in Callbacks : Unused(l)'
    BY <2>1, <2>3 DEF Flowing, Unused, Entries
  <2>7. ASSUME NEW l \in Callbacks PROVE Aimed(l)'
    <3>1. cb[l] = "write" => into[l] \in Entries /\ (into[l] = entry \/ Taken(into[l]))
      BY DEF TypeOK, Flowing, Aimed
    <3>2. cb'[l] = "write" => into'[l] # None /\ Taken(into[l])'
      BY <2>1, <2>3, <3>1 DEF Entries
    <3>. QED BY <2>1, <3>2 DEF Aimed, Taken
  <2>8. DataReachesReader'
    <3>. SUFFICES ASSUME NEW l \in dropped
                  PROVE  into[l] \in ended \/ \E d \in Conns : removed'[d] = into[l]
      BY <2>1 DEF DataReachesReader
    <3>1. into[l] # None
      BY DEF Flowing, Past
    <3>2. ASSUME NEW d \in Conns, removed[d] = into[l]
          PROVE  removed'[d] = into[l]
      BY <2>1, <2>2, <3>1, <3>2
    <3>. QED BY <3>2 DEF DataReachesReader
  <2>. QED BY <2>1, <2>6, <2>7, <2>8 DEF Flowing, Current, Past
<1>8. ASSUME NEW c \in Conns, ClosePipe(c)
      PROVE  Flowing' /\ DataReachesReader'
  BY <1>8 DEF ClosePipe, Flowing, Aimed, Unused, Current, Past, DataReachesReader, Taken
<1>9. \/ UNCHANGED <<entry, open, ended, cb, into, dropped, removed>>
      \/ \E k \in Callbacks : \/ Call(k) \/ Attach(k) \/ RegisterBle(k)
                              \/ GreetBle(k) \/ Inbound(k) \/ InboundWrite(k)
      \/ \E e \in Entries : ReaderEnds(e)
      \/ \E c \in Conns : Supersede(c) \/ ClosePipe(c)
  BY DEF Next, vars, bleVars, rtcVars, Connect, Break, Hook, AttachRtc, RegisterRtc, OnClose,
         OnCloseEnds, Lookup, ForgetRoute, OpenStream, LockEntry, CloseStream
<1>. QED BY <1>1, <1>2, <1>3, <1>4, <1>5, <1>6, <1>7, <1>8, <1>9

(* On a Mac, where the callbacks run one at a time, no message that        *)
(* arrives over BLE meets a pipe that another callback has closed, however *)
(* many found peers and messages follow one another: it is lost only when  *)
(* its reader had returned or an upgrade took its entry. (On Windows the   *)
(* callbacks run beside each other, and a second Attach may close the pipe *)
(* in between.)                                                            *)
THEOREM DataIsRead == ASSUME Serial PROVE Spec => []DataReachesReader
<1>1. Init => FlowInv
  BY DEF Init, FlowInv, OneAtATime, Running, NotYetTaken, Flowing, Aimed, Unused,
         Current, Past, Taken, DataReachesReader
<1>2. TypeOK /\ FlowInv /\ [Next]_vars => FlowInv'
  BY StepOneAtATime, StepNotYetTaken, StepFlowing DEF FlowInv
<1>3. FlowInv => DataReachesReader
  BY DEF FlowInv
<1>. QED BY <1>1, <1>2, <1>3, TypeCorrect, PTL DEF Spec
============================================================================
