------------------------ MODULE CentralConnectProofs ------------------------
(***************************************************************************)
(* Theorems about CentralConnect for any number of callbacks on the queue  *)
(* and of blocks that wait.                                                *)
(***************************************************************************)
EXTENDS CentralConnect, TLAPS

---------------------------------------------------------------------------
(* The queue of callbacks and the blocks that wait.                        *)
Queue == Seq({"connected", "failed", "lost"})
Has(q, c) == \E i \in DOMAIN q : q[i] = c
Last(q) == q[Len(q)]

LEMMA PopFacts ==
  ASSUME NEW q \in Queue, q # <<>>
  PROVE  /\ Tail(q) \in Queue
         /\ Tail(q) # <<>> => Last(Tail(q)) = Last(q)
         /\ Head(q) # Last(q) => Tail(q) # <<>>
         /\ \A c : Has(q, c) /\ c # Head(q) => Has(Tail(q), c)
<1>1. /\ Tail(q) \in Queue /\ Len(q) \in Nat \ {0} /\ Len(Tail(q)) = Len(q) - 1
      /\ DOMAIN q = 1..Len(q) /\ DOMAIN Tail(q) = 1..(Len(q) - 1)
      /\ \A i \in 1..(Len(q) - 1) : Tail(q)[i] = q[i + 1]
      /\ Head(q) = q[1]
  BY DEF Queue
<1>2. Len(q) = 1 <=> Tail(q) = <<>>
  BY <1>1 DEF Queue
<1>3. ASSUME NEW c, Has(q, c), c # Head(q)
      PROVE  Has(Tail(q), c)
  <2>1. PICK i \in 1..Len(q) : q[i] = c
    BY <1>1, <1>3 DEF Has
  <2>2. i - 1 \in 1..(Len(q) - 1) /\ Tail(q)[i - 1] = c
    BY <1>1, <1>3, <2>1
  <2>. QED BY <1>1, <2>2 DEF Has
<1>. QED BY <1>1, <1>2, <1>3 DEF Last

LEMMA PushFacts ==
  ASSUME NEW q \in Queue, NEW c \in {"connected", "failed", "lost"}
  PROVE  /\ Append(q, c) \in Queue /\ Append(q, c) # <<>>
         /\ Last(Append(q, c)) = c /\ Has(Append(q, c), c)
         /\ \A d : Has(q, d) => Has(Append(q, c), d)
<1>1. /\ Append(q, c) \in Queue /\ Len(q) \in Nat /\ Len(Append(q, c)) = Len(q) + 1
      /\ DOMAIN q = 1..Len(q) /\ DOMAIN Append(q, c) = 1..(Len(q) + 1)
      /\ \A i \in 1..Len(q) : Append(q, c)[i] = q[i]
      /\ Append(q, c)[Len(q) + 1] = c
  BY DEF Queue
<1>. QED BY <1>1 DEF Has, Last

Blocks == [Kinds -> Nat]
Bounded(ts) == \A t \in Kinds : ts[t] <= MaxTimers[t]

LEMMA ScheduleFacts ==
  ASSUME NEW ts \in Blocks, Bounded(ts), NEW t \in Kinds
  PROVE  /\ Schedule(ts, t) \in Blocks /\ Bounded(Schedule(ts, t))
         /\ Schedule(ts, t)[t] > 0
         /\ \A k \in Kinds \ {t} : Schedule(ts, t)[k] = ts[k]
BY BoundAssumption DEF Blocks, Bounded, Schedule

LEMMA FiredFacts ==
  ASSUME timers \in Blocks, Bounded(timers), NEW t \in Kinds, Fires(t)
  PROVE  /\ Others(t) \in Blocks /\ Bounded(Others(t))
         /\ \A k \in Kinds \ {t} : Others(t)[k] = timers[k]
BY BoundAssumption DEF Blocks, Bounded, Fires, Others

LEMMA KindFacts ==
  {"connect8", "connect4", "retry", "services"} = Kinds
BY DEF Kinds

---------------------------------------------------------------------------
(* The inductive invariant. Once Bluetooth was switched off only its first *)
(* three parts are kept.                                                   *)
Types == /\ TypeOK
         /\ owed \in Queue /\ timers \in Blocks /\ Bounded(timers)
(* A mark is that of a known peripheral, and once connected its callback   *)
(* is on the queue.                                                        *)
MarkIsKnown == connecting => known
MarkIsHeard == connecting /\ Connected => owed # <<>>
(* GATT answers and readiness belong to a connection whose didDisconnect    *)
(* is still to come.                                                       *)
Lives == ready \/ asked # {} => Connected \/ Has(owed, "lost") \/ lost
MarkIsNew == connecting /\ ready => owed # <<>> \/ lost
(* What ends a mark: the time-outs, of which the second only counts while  *)
(* the attempt is under way.                                               *)
MarkEnds ==
  connecting => \/ owed # <<>> \/ lost \/ Fires("connect8")
                \/ Fires("connect4") /\ os = "connecting"
(* The last callback on the queue tells the state of the connection.       *)
InStep == ~lost /\ owed # <<>> => (Last(owed) = "connected" <=> Connected)
(* Nothing happens before Bluetooth is on.                                 *)
Asleep ==
  ~lost /\ power # "on" =>
    /\ ~scanning /\ ~known /\ recovery = "idle" /\ owed = <<>> /\ asked = {} /\ os = "off"
    /\ \A t \in Kinds : ~Fires(t)
(* A known peripheral goes on, connected or not.                           *)
GoesOn ==
  known /\ Connected => ready \/ lost \/ owed # <<>> \/ asked # {} \/ Fires("services")
ComesBack ==
  known /\ os = "off" =>
    lost \/ owed # <<>> \/ Fires("retry") \/ (connecting /\ Fires("connect8"))

Marks == MarkIsKnown /\ MarkIsHeard /\ MarkIsNew /\ MarkEnds
IInv == Types /\ Marks /\ Lives /\ InStep /\ Asleep /\ GoesOn /\ ComesBack

LEMMA InitIInv == Init => IInv
<1>. SUFFICES ASSUME Init
              PROVE  IInv
  OBVIOUS
<1>1. owed \in Queue /\ timers \in Blocks /\ (\A t \in Kinds : timers[t] = 0)
  BY DEF Init, Queue, Blocks
<1>2. Types
  <2>1. Bounded(timers)
    BY <1>1, BoundAssumption DEF Bounded
  <2>. QED BY <1>1, <2>1 DEF Init, Types, TypeOK, Queue, Blocks, Bounded, Requests
<1>3. \A t \in Kinds : ~Fires(t)
  BY <1>1 DEF Fires
<1>. QED BY <1>2, <1>3 DEF Init, IInv, Marks, MarkIsKnown, MarkIsHeard, MarkIsNew, MarkEnds, Lives,
            InStep, Asleep, GoesOn, ComesBack, Connected

---------------------------------------------------------------------------
(* The scan, the radio and Bluetooth itself.                               *)
LEMMA ScanIInv ==
  ASSUME IInv, PowerOn \/ StopStartupScan \/ RecoveryStarts \/ RecoveryStops \/ OtherGivenUp
  PROVE  IInv'
<1>1. UNCHANGED <<lost, tableVars, os, owed, asked, timers>>
  BY DEF PowerOn, StopStartupScan, RecoveryStarts, RecoveryStops, OtherGivenUp, scanVars
<1>2. Types'
  BY <1>1 DEF IInv, Types, TypeOK, Queue, Blocks, Bounded, tableVars, scanVars,
     PowerOn, StopStartupScan, RecoveryStarts, RecoveryStops, OtherGivenUp, RecoveryScan
<1>3. Asleep'
  BY <1>1 DEF IInv, Asleep, Fires, tableVars, scanVars, PowerOn, StopStartupScan, RecoveryStarts,
     RecoveryStops, OtherGivenUp, RecoveryScan
<1>. QED BY <1>1, <1>2, <1>3
       DEF IInv, Marks, MarkIsKnown, MarkIsHeard, MarkIsNew, MarkEnds, Lives,
         InStep, Asleep, GoesOn, ComesBack, Connected, Fires, tableVars

LEMMA PowerOffIInv ==
  ASSUME IInv, PowerOff
  PROVE  IInv'
<1>1. lost' = TRUE /\ os' = "off" /\ UNCHANGED <<tableVars, asked, timers>>
  BY DEF PowerOff
<1>2. owed' \in Queue
  BY PushFacts DEF IInv, Types, PowerOff
<1>3. Types'
  BY <1>1, <1>2 DEF IInv, Types, TypeOK, Queue, Blocks, Bounded, tableVars, PowerOff
<1>. QED BY <1>1, <1>3
       DEF IInv, Marks, MarkIsKnown, MarkIsHeard, MarkIsNew, MarkEnds, Lives,
         InStep, Asleep, GoesOn, ComesBack, Connected, Fires, tableVars

LEMMA RadioIInv ==
  ASSUME IInv, OsConnects \/ OsFails \/ OsLoses
  PROVE  IInv'
<1>. DEFINE c == IF os' = "connected" THEN "connected"
                 ELSE IF os = "connecting" THEN "failed" ELSE "lost"
<1>1. /\ os # "off" /\ os' \in {"connected", "off"} /\ owed' = Append(owed, c)
      /\ os' = "connected" => os = "connecting"
      /\ UNCHANGED <<scanVars, recovery, tableVars, asked, timers>>
  BY DEF OsConnects, OsFails, OsLoses, Os
<1>2. c \in {"connected", "failed", "lost"} /\ (c = "connected" <=> os' = "connected")
      /\ (os = "connected" => c = "lost")
  BY <1>1
<1>. HIDE DEF c
<1>3. /\ owed' \in Queue /\ owed' # <<>> /\ Last(owed') = c /\ Has(owed', c)
      /\ \A d : Has(owed, d) => Has(owed', d)
  BY <1>1, <1>2, PushFacts DEF IInv, Types
<1>4. Types'
  BY <1>1, <1>3 DEF IInv, Types, TypeOK, Queue, Blocks, Bounded, tableVars, scanVars
<1>. QED BY <1>1, <1>2, <1>3, <1>4
       DEF IInv, Marks, MarkIsKnown, MarkIsHeard, MarkIsNew, MarkEnds, Lives,
         InStep, Asleep, GoesOn, ComesBack, Connected, Fires, tableVars, scanVars

---------------------------------------------------------------------------
(* What connectPeripheral and dropPeripheral do to the invariant.           *)

(* Types of the tables follow from those of what an action changes.        *)
LEMMA TypesKept ==
  ASSUME Types, UNCHANGED scanVars,
         recovery' \in {"idle", "soon", "scan"},
         {known', connecting', ready', retried', reasked'} \subseteq BOOLEAN,
         os' \in {"off", "connecting", "connected"}, owed' \in Queue, asked' \subseteq Requests,
         timers' \in Blocks, Bounded(timers')
  PROVE  Types'
BY DEF Types, TypeOK, Queue, Blocks, Bounded, scanVars

LEMMA ConnectEffect ==
  ASSUME Types, NEW ts \in Blocks, Bounded(ts), Connect(ts), ~connecting
  PROVE  /\ connecting' = TRUE /\ timers' \in Blocks /\ Bounded(timers') /\ timers'["connect8"] > 0
         /\ \A k \in Kinds \ {"connect8"} : timers'[k] = ts[k]
         /\ os' = IF os = "off" /\ power = "on" THEN "connecting" ELSE os
         /\ owed' \in Queue
         /\ Connected => owed' # <<>> /\ Last(owed') = "connected"
         /\ ~Connected => owed' = owed
         /\ \A d : Has(owed, d) => Has(owed', d)
<1>1. timers' = Schedule(ts, "connect8")
      /\ owed' = IF Connected THEN Append(owed, "connected") ELSE owed
  BY DEF Connect
<1>2. owed' \in Queue /\ (Connected => owed' # <<>> /\ Last(owed') = "connected")
      /\ \A d : Has(owed, d) => Has(owed', d)
  BY <1>1, PushFacts DEF Types
<1>. QED BY <1>1, <1>2, ScheduleFacts, KindFacts DEF Connect

LEMMA DiscoverIInv ==
  ASSUME IInv, DidDiscover
  PROVE  IInv'
<1>1. scanning /\ UNCHANGED <<scanVars, recovery, ready, retried, reasked, asked>>
  BY DEF DidDiscover
<1>2. CASE known
  <2>1. UNCHANGED <<known, connecting, os, owed, timers>>
    BY <1>2 DEF DidDiscover
  <2>2. Types'
    BY <1>1, <2>1 DEF IInv, Types, TypeOK, Queue, Blocks, Bounded, scanVars
  <2>. QED BY <1>1, <2>1, <2>2
       DEF IInv, Marks, MarkIsKnown, MarkIsHeard, MarkIsNew, MarkEnds, Lives,
         InStep, Asleep, GoesOn, ComesBack, Connected, Fires, scanVars
<1>3. CASE ~known
  <2>1. known' = TRUE /\ Connect(timers) /\ ~connecting
    BY <1>3 DEF DidDiscover, IInv, Marks, MarkIsKnown
  <2>2. /\ connecting' = TRUE /\ timers' \in Blocks /\ Bounded(timers') /\ timers'["connect8"] > 0
        /\ \A k \in Kinds \ {"connect8"} : timers'[k] = timers[k]
        /\ os' = IF os = "off" /\ power = "on" THEN "connecting" ELSE os
        /\ owed' \in Queue
        /\ Connected => owed' # <<>> /\ Last(owed') = "connected"
        /\ ~Connected => owed' = owed
        /\ \A d : Has(owed, d) => Has(owed', d)
    BY <2>1, ConnectEffect DEF IInv, Types
  <2>3. Types'
    BY <1>1, <2>1, <2>2, TypesKept DEF IInv, Types, TypeOK, scanVars
  <2>4. lost \/ power = "on"
    BY <1>1 DEF IInv, Asleep
  <2>5. Has(owed, "lost") => owed # <<>>
    BY DEF Has
  <2>. QED BY <1>1, <2>1, <2>2, <2>3, <2>4, <2>5
       DEF IInv, Marks, MarkIsKnown, MarkIsHeard, MarkIsNew, MarkEnds, Lives,
         InStep, Asleep, GoesOn, ComesBack, Connected, Fires, scanVars
<1>. QED BY <1>2, <1>3

LEMMA RetryIInv ==
  ASSUME IInv, Retry
  PROVE  IInv'
<1>1. Fires("retry") /\ UNCHANGED <<scanVars, recovery, ready, retried, reasked, asked>>
  BY DEF Retry
<1>2. /\ Others("retry") \in Blocks /\ Bounded(Others("retry"))
      /\ \A k \in Kinds \ {"retry"} : Others("retry")[k] = timers[k]
  BY <1>1, FiredFacts, KindFacts DEF IInv, Types
<1>3. lost \/ power = "on"
  BY <1>1, KindFacts DEF IInv, Asleep
<1>4. Has(owed, "lost") => owed # <<>>
  BY DEF Has
<1>5. CASE ready \/ os # "off" \/ connecting
  <2>1. timers' = Others("retry") /\ UNCHANGED <<connecting, os, owed>> /\ known' \in {known, TRUE}
    BY <1>5 DEF Retry, Connect
  <2>2. known' = known \/ (os = "off" /\ ~ready /\ connecting)
    BY <1>5 DEF Retry
  <2>3. Types'
    BY <1>1, <1>2, <2>1, TypesKept DEF IInv, Types, TypeOK, scanVars
  <2>4. known' = known
    BY <2>1, <2>2 DEF IInv, Types, TypeOK, Marks, MarkIsKnown
  <2>5. \A k \in {"connect8", "connect4", "services"} : timers'[k] = timers[k]
    BY <1>2, <2>1, KindFacts
  <2>6. Marks' /\ Lives' /\ InStep'
    BY <1>1, <2>1, <2>4, <2>5
       DEF IInv, Marks, MarkIsKnown, MarkIsHeard, MarkIsNew, MarkEnds, Lives,
         InStep, Asleep, GoesOn, ComesBack, Connected, Fires, scanVars
  <2>7. Asleep'
    BY <1>1, <1>3 DEF Asleep, scanVars
  <2>8. GoesOn'
    BY <1>1, <2>1, <2>4, <2>5 DEF IInv, GoesOn, Connected, Fires, scanVars
  <2>9. ComesBack'
    BY <1>1, <1>3, <1>4, <1>5, <2>1, <2>4, <2>5
       DEF IInv, Marks, MarkIsKnown, MarkIsHeard, MarkIsNew, MarkEnds, Lives,
         InStep, Asleep, GoesOn, ComesBack, Connected, Fires, scanVars
  <2>. QED BY <2>3, <2>6, <2>7, <2>8, <2>9 DEF IInv
<1>6. CASE ~(ready \/ os # "off" \/ connecting)
  <2>1. known' = TRUE /\ Connect(Others("retry")) /\ ~connecting
    BY <1>6 DEF Retry
  <2>2. /\ connecting' = TRUE /\ timers' \in Blocks /\ Bounded(timers') /\ timers'["connect8"] > 0
        /\ os' = IF os = "off" /\ power = "on" THEN "connecting" ELSE os
        /\ owed' \in Queue
        /\ ~Connected => owed' = owed
    BY <1>2, <2>1, ConnectEffect DEF IInv, Types
  <2>3. Types'
    BY <1>1, <2>1, <2>2, TypesKept DEF IInv, Types, TypeOK, scanVars
  <2>. QED BY <1>1, <1>3, <1>4, <1>6, <2>1, <2>2, <2>3
       DEF IInv, Marks, MarkIsKnown, MarkIsHeard, MarkIsNew, MarkEnds, Lives,
         InStep, Asleep, GoesOn, ComesBack, Connected, Fires, scanVars
<1>. QED BY <1>5, <1>6

LEMMA DropIInv ==
  ASSUME IInv, NEW queue \in Queue, Drop(queue), lost \/ power = "on",
         queue = owed \/ (owed # <<>> /\ queue = Tail(owed) /\ Head(owed) # "lost"),
         UNCHANGED scanVars, recovery' \in {"idle", "soon", "scan"},
         asked' \subseteq asked, timers' \in Blocks, Bounded(timers')
  PROVE  IInv'
<1>1. /\ known' = FALSE /\ connecting' = FALSE /\ ready' = FALSE /\ retried' = FALSE
      /\ reasked' = FALSE /\ os' = "off"
      /\ owed' = Append(queue, "lost") \/ (~Connected /\ owed' = queue)
  BY DEF Drop, Forget, MarkUnready
<1>2. /\ \A d : Has(owed, d) /\ d = "lost" => Has(queue, d)
      /\ queue # <<>> => owed # <<>> /\ Last(queue) = Last(owed)
  BY PopFacts DEF IInv, Types
<1>3. /\ owed' \in Queue
      /\ Has(queue, "lost") => Has(owed', "lost")
      /\ Connected => Has(owed', "lost")
      /\ (owed' = queue /\ ~Connected) \/ Last(owed') = "lost"
  BY <1>1, PushFacts
<1>4. Types'
  BY <1>1, <1>3, TypesKept DEF IInv, Types, TypeOK
<1>5. InStep'
  BY <1>1, <1>2, <1>3 DEF IInv, InStep, Connected, scanVars
<1>6. Lives'
  BY <1>1, <1>2, <1>3 DEF IInv, Lives, scanVars
<1>. QED BY <1>1, <1>4, <1>5, <1>6
    
       DEF IInv, Marks, MarkIsKnown, MarkIsHeard, MarkIsNew, MarkEnds, Asleep, GoesOn, ComesBack,
           scanVars

---------------------------------------------------------------------------
(* Callbacks of the connection.                                            *)
LEMMA DidConnectIInv ==
  ASSUME IInv, DidConnect
  PROVE  IInv'
<1>1. /\ owed # <<>> /\ Head(owed) = "connected" /\ owed' = Tail(owed)
      /\ connecting' = FALSE /\ retried' = FALSE
      /\ asked' = IF Connected THEN asked \cup {"services"} ELSE asked
      /\ UNCHANGED <<scanVars, recovery, known, ready, reasked, os, timers>>
  BY DEF DidConnect, Next1, Ask
<1>2. /\ owed' \in Queue
      /\ owed' # <<>> => Last(owed') = Last(owed)
      /\ Last(owed) # "connected" => owed' # <<>>
      /\ Has(owed, "lost") => Has(owed', "lost")
  BY <1>1, PopFacts DEF IInv, Types
<1>3. Types'
  BY <1>1, <1>2, TypesKept DEF IInv, Types, TypeOK, scanVars, Requests
<1>4. lost \/ power = "on"
  BY <1>1 DEF IInv, Asleep
<1>. QED BY <1>1, <1>2, <1>3, <1>4
       DEF IInv, Marks, MarkIsKnown, MarkIsHeard, MarkIsNew, MarkEnds, Lives,
         InStep, Asleep, GoesOn, ComesBack, Connected, Fires, scanVars

LEMMA DidFailIInv ==
  ASSUME IInv, DidFail
  PROVE  IInv'
<1>1. /\ owed # <<>> /\ Head(owed) = "failed"
      /\ UNCHANGED <<scanVars, recovery, asked>>
  BY DEF DidFail, Next1
<1>2. /\ Tail(owed) \in Queue
      /\ Tail(owed) # <<>> => Last(Tail(owed)) = Last(owed)
      /\ Last(owed) # "failed" => Tail(owed) # <<>>
      /\ Has(owed, "lost") => Has(Tail(owed), "lost")
  BY <1>1, PopFacts DEF IInv, Types
<1>3. lost \/ power = "on"
  BY <1>1 DEF IInv, Asleep
<1>4. CASE retried
  <2>1. Drop(Tail(owed)) /\ UNCHANGED timers
    BY <1>4 DEF DidFail
  <2>. QED BY <1>1, <1>2, <1>3, <2>1, DropIInv DEF IInv, Types, TypeOK
<1>5. CASE ~retried
  <2>1. /\ retried' = TRUE /\ connecting' = FALSE /\ owed' = Tail(owed)
        /\ timers' = Schedule(timers, "retry") /\ UNCHANGED <<known, ready, reasked, os>>
    BY <1>5 DEF DidFail
  <2>2. /\ timers' \in Blocks /\ Bounded(timers') /\ timers'["retry"] > 0
        /\ \A k \in Kinds \ {"retry"} : timers'[k] = timers[k]
    BY <2>1, ScheduleFacts, KindFacts DEF IInv, Types
  <2>3. Types'
    BY <1>1, <1>2, <2>1, <2>2, TypesKept DEF IInv, Types, TypeOK, scanVars
  <2>. QED BY <1>1, <1>2, <1>3, <2>1, <2>2, <2>3
       DEF IInv, Marks, MarkIsKnown, MarkIsHeard, MarkIsNew, MarkEnds, Lives,
         InStep, Asleep, GoesOn, ComesBack, Connected, Fires, scanVars
<1>. QED BY <1>4, <1>5

LEMMA DidDisconnectIInv ==
  ASSUME IInv, DidDisconnect
  PROVE  IInv'
<1>1. /\ owed # <<>> /\ Head(owed) = "lost" /\ owed' = Tail(owed)
      /\ known' = FALSE /\ connecting' = FALSE /\ ready' = FALSE /\ retried' = FALSE
      /\ reasked' = FALSE /\ asked' = {}
      /\ UNCHANGED <<scanVars, recovery, os, timers>>
  BY DEF DidDisconnect, Next1, MarkUnready
<1>2. owed' \in Queue /\ (owed' # <<>> => Last(owed') = Last(owed))
  BY <1>1, PopFacts DEF IInv, Types
<1>3. Types'
  BY <1>1, <1>2, TypesKept DEF IInv, Types, TypeOK, scanVars
<1>4. lost \/ power = "on"
  BY <1>1 DEF IInv, Asleep
<1>. QED BY <1>1, <1>2, <1>3, <1>4
       DEF IInv, Marks, MarkIsKnown, MarkIsHeard, MarkIsNew, MarkEnds, Lives,
         InStep, Asleep, GoesOn, ComesBack, Connected, Fires, scanVars

---------------------------------------------------------------------------
(* Time-outs.                                                              *)
LEMMA Timeout8IInv ==
  ASSUME IInv, Timeout8
  PROVE  IInv'
<1>1. Fires("connect8") /\ UNCHANGED <<scanVars, recovery, os, owed>>
  BY DEF Timeout8
<1>2. /\ Others("connect8") \in Blocks /\ Bounded(Others("connect8"))
      /\ \A k \in Kinds \ {"connect8"} : Others("connect8")[k] = timers[k]
  BY <1>1, FiredFacts, KindFacts DEF IInv, Types
<1>3. lost \/ power = "on"
  BY <1>1, KindFacts DEF IInv, Asleep
<1>4. CASE Waits /\ os = "connecting"
  <2>1. timers' = Schedule(Others("connect8"), "connect4") /\ UNCHANGED <<tableVars, asked>>
    BY <1>4 DEF Timeout8, Connected
  <2>2. /\ timers' \in Blocks /\ Bounded(timers') /\ timers'["connect4"] > 0
        /\ timers'["retry"] = timers["retry"] /\ timers'["services"] = timers["services"]
    BY <1>2, <2>1, ScheduleFacts, KindFacts
  <2>3. Types'
    BY <1>1, <2>1, <2>2, TypesKept DEF IInv, Types, TypeOK, scanVars, tableVars
  <2>. QED BY <1>1, <1>3, <1>4, <2>1, <2>2, <2>3
       DEF IInv, Marks, MarkIsKnown, MarkIsHeard, MarkIsNew, MarkEnds, Lives,
         InStep, Asleep, GoesOn, ComesBack, Connected, Fires, scanVars, tableVars
<1>5. CASE ~(Waits /\ os = "connecting")
  <2>1. timers' = Others("connect8")
    BY <1>5 DEF Timeout8
  <2>2. timers' \in Blocks /\ Bounded(timers')
        /\ timers'["retry"] = timers["retry"] /\ timers'["services"] = timers["services"]
        /\ timers'["connect4"] = timers["connect4"]
    BY <1>2, <2>1, KindFacts
  <2>3. CASE Waits /\ Connected
    <3>1. /\ connecting' = FALSE /\ asked' = asked \cup {"services"}
          /\ UNCHANGED <<known, ready, retried, reasked>>
      BY <2>3 DEF Timeout8, Ask
    <3>2. Types'
      BY <1>1, <2>2, <3>1, TypesKept DEF IInv, Types, TypeOK, scanVars, Requests
    <3>. QED BY <1>1, <1>3, <2>2, <2>3, <3>1, <3>2
       DEF IInv, Marks, MarkIsKnown, MarkIsHeard, MarkIsNew, MarkEnds, Lives,
         InStep, Asleep, GoesOn, ComesBack, Connected, Fires, scanVars
  <2>4. CASE Waits /\ os = "off"
    <3>1. /\ known' = FALSE /\ connecting' = FALSE /\ ready' = FALSE /\ retried' = FALSE
          /\ reasked' = FALSE /\ asked' = asked
      BY <2>4 DEF Timeout8, Connected, Forget, MarkUnready
    <3>2. Types'
      BY <1>1, <2>2, <3>1, TypesKept DEF IInv, Types, TypeOK, scanVars
    <3>. QED BY <1>1, <1>3, <2>2, <2>4, <3>1, <3>2
       DEF IInv, Marks, MarkIsKnown, MarkIsHeard, MarkIsNew, MarkEnds, Lives,
         InStep, Asleep, GoesOn, ComesBack, Connected, Fires, scanVars
  <2>5. CASE ~Waits
    <3>1. UNCHANGED <<tableVars, asked>>
      BY <2>5 DEF Timeout8
    <3>2. connecting => owed # <<>> \/ lost
      BY <2>5 DEF Waits, IInv, Marks, MarkIsKnown, MarkIsNew
    <3>3. Types'
      BY <1>1, <2>2, <3>1, TypesKept DEF IInv, Types, TypeOK, scanVars, tableVars
    <3>. QED BY <1>1, <1>3, <2>2, <3>1, <3>2, <3>3
       DEF IInv, Marks, MarkIsKnown, MarkIsHeard, MarkIsNew, MarkEnds, Lives,
         InStep, Asleep, GoesOn, ComesBack, Connected, Fires, scanVars, tableVars
  <2>6. os \in {"off", "connecting", "connected"}
    BY DEF IInv, Types, TypeOK
  <2>. QED BY <1>5, <2>3, <2>4, <2>5, <2>6 DEF Connected
<1>. QED BY <1>4, <1>5

LEMMA Timeout4IInv ==
  ASSUME IInv, Timeout4
  PROVE  IInv'
<1>1. Fires("connect4") /\ timers' = Others("connect4") /\ UNCHANGED <<scanVars, asked>>
  BY DEF Timeout4
<1>2. /\ timers' \in Blocks /\ Bounded(timers')
      /\ \A k \in Kinds \ {"connect4"} : timers'[k] = timers[k]
  BY <1>1, FiredFacts, KindFacts DEF IInv, Types
<1>3. lost \/ power = "on"
  BY <1>1, KindFacts DEF IInv, Asleep
<1>4. CASE Waits /\ os = "connecting"
  <2>1. Drop(owed) /\ RecoveryScan
    BY <1>4 DEF Timeout4
  <2>2. recovery' \in {"idle", "soon", "scan"}
    BY <2>1 DEF RecoveryScan, IInv, Types, TypeOK
  <2>. QED BY <1>1, <1>2, <1>3, <2>1, <2>2, DropIInv DEF IInv, Types
<1>5. CASE ~(Waits /\ os = "connecting")
  <2>1. UNCHANGED <<tableVars, os, owed, recovery>>
    BY <1>5 DEF Timeout4
  <2>2. Types'
    BY <1>1, <1>2, <2>1, TypesKept DEF IInv, Types, TypeOK, scanVars, tableVars
  <2>3. connecting => owed # <<>> \/ lost \/ Fires("connect8")
    BY <1>5 DEF Waits, IInv, Marks, MarkIsKnown, MarkIsNew, MarkEnds
  <2>4. \A k \in {"connect8", "retry", "services"} : timers'[k] = timers[k]
    BY <1>2, KindFacts
  <2>. QED BY <1>1, <1>3, <2>1, <2>2, <2>3, <2>4
       DEF IInv, Marks, MarkIsKnown, MarkIsHeard, MarkIsNew, MarkEnds, Lives,
         InStep, Asleep, GoesOn, ComesBack, Connected, Fires, scanVars, tableVars
<1>. QED BY <1>4, <1>5

---------------------------------------------------------------------------
(* GATT.                                                                   *)
LEMMA AskAgainIInv ==
  ASSUME IInv, AskAgain
  PROVE  IInv'
<1>1. /\ Fires("services") /\ timers' = Others("services")
      /\ asked' = IF known /\ Connected THEN asked \cup {"services"} ELSE asked
      /\ UNCHANGED <<scanVars, recovery, tableVars, os, owed>>
  BY DEF AskAgain, Ask
<1>2. /\ timers' \in Blocks /\ Bounded(timers')
      /\ \A k \in Kinds \ {"services"} : timers'[k] = timers[k]
  BY <1>1, FiredFacts, KindFacts DEF IInv, Types
<1>3. lost \/ power = "on"
  BY <1>1, KindFacts DEF IInv, Asleep
<1>4. Types'
  BY <1>1, <1>2, TypesKept DEF IInv, Types, TypeOK, scanVars, tableVars, Requests
<1>5. \A k \in {"connect8", "connect4", "retry"} : timers'[k] = timers[k]
  BY <1>2, KindFacts
<1>. QED BY <1>1, <1>3, <1>4, <1>5
       DEF IInv, Marks, MarkIsKnown, MarkIsHeard, MarkIsNew, MarkEnds, Lives,
         InStep, Asleep, GoesOn, ComesBack, Connected, Fires, scanVars, tableVars

LEMMA ServicesIInv ==
  ASSUME IInv, DidDiscoverServices
  PROVE  IInv'
<1>1. "services" \in asked /\ UNCHANGED <<scanVars>>
  BY DEF DidDiscoverServices
<1>2. lost \/ power = "on"
  BY <1>1 DEF IInv, Asleep
<1>3. \/ /\ reasked' = FALSE
         /\ asked' = Ask(asked \ {"services"}, "characteristics")
         /\ UNCHANGED <<known, connecting, ready, retried, os, owed, recovery, timers>>
      \/ /\ Connected /\ reasked' = TRUE /\ timers' = Schedule(timers, "services")
         /\ asked' = asked \ {"services"}
         /\ UNCHANGED <<known, connecting, ready, retried, os, owed, recovery>>
      \/ Drop(owed) /\ RecoveryScan /\ asked' = asked \ {"services"} /\ UNCHANGED timers
  BY DEF DidDiscoverServices
<1>4. CASE /\ reasked' = FALSE
           /\ asked' = Ask(asked \ {"services"}, "characteristics")
           /\ UNCHANGED <<known, connecting, ready, retried, os, owed, recovery, timers>>
  <2>1. asked' = IF Connected THEN (asked \ {"services"}) \cup {"characteristics"}
                 ELSE asked \ {"services"}
    BY <1>4 DEF Ask
  <2>2. Types'
    BY <1>1, <1>4, <2>1, TypesKept DEF IInv, Types, TypeOK, scanVars, Requests
  <2>3. Connected => asked' # {}
    BY <2>1
  <2>4. asked # {}
    BY <1>1
  <2>. QED BY <1>1, <1>2, <1>4, <2>2, <2>3, <2>4
       DEF IInv, Marks, MarkIsKnown, MarkIsHeard, MarkIsNew, MarkEnds, Lives,
         InStep, Asleep, GoesOn, ComesBack, Connected, Fires, scanVars
<1>5. CASE /\ Connected /\ reasked' = TRUE /\ timers' = Schedule(timers, "services")
           /\ asked' = asked \ {"services"}
           /\ UNCHANGED <<known, connecting, ready, retried, os, owed, recovery>>
  <2>1. /\ timers' \in Blocks /\ Bounded(timers') /\ timers'["services"] > 0
        /\ \A k \in {"connect8", "connect4", "retry"} : timers'[k] = timers[k]
    BY <1>5, ScheduleFacts, KindFacts DEF IInv, Types
  <2>2. Types'
    BY <1>1, <1>5, <2>1, TypesKept DEF IInv, Types, TypeOK, scanVars
  <2>. QED BY <1>1, <1>2, <1>5, <2>1, <2>2
       DEF IInv, Marks, MarkIsKnown, MarkIsHeard, MarkIsNew, MarkEnds, Lives,
         InStep, Asleep, GoesOn, ComesBack, Connected, Fires, scanVars
<1>6. CASE Drop(owed) /\ RecoveryScan /\ asked' = asked \ {"services"} /\ UNCHANGED timers
  <2>1. recovery' \in {"idle", "soon", "scan"}
    BY <1>6 DEF RecoveryScan, IInv, Types, TypeOK
  <2>. QED BY <1>1, <1>2, <1>6, <2>1, DropIInv DEF IInv, Types
<1>. QED BY <1>3, <1>4, <1>5, <1>6

LEMMA CharacteristicsIInv ==
  ASSUME IInv, DidDiscoverCharacteristics \/ DidReadNickname
  PROVE  IInv'
<1>1. asked # {} /\ UNCHANGED <<scanVars, recovery, timers>>
  BY DEF DidDiscoverCharacteristics, DidReadNickname
<1>2. lost \/ power = "on"
  BY <1>1 DEF IInv, Asleep
<1>3. CASE /\ ready' = TRUE /\ asked' \subseteq asked \cup {"nickname"}
           /\ UNCHANGED <<known, connecting, retried, reasked, os, owed>>
  <2>1. Types'
    BY <1>1, <1>3, TypesKept DEF IInv, Types, TypeOK, scanVars, Requests
  <2>2. Has(owed, "lost") => owed # <<>>
    BY DEF Has
  <2>. QED BY <1>1, <1>2, <1>3, <2>1, <2>2
       DEF IInv, Marks, MarkIsKnown, MarkIsHeard, MarkIsNew, MarkEnds, Lives,
         InStep, Asleep, GoesOn, ComesBack, Connected, Fires, scanVars
<1>4. CASE Drop(owed) /\ asked' \subseteq asked
  BY <1>1, <1>2, <1>4, DropIInv DEF IInv, Types, TypeOK
<1>. QED BY <1>3, <1>4 DEF DidDiscoverCharacteristics, DidReadNickname, Notify, Ask

---------------------------------------------------------------------------
LEMMA NextIInv == IInv /\ [Next]_vars => IInv'
<1>. SUFFICES ASSUME IInv, [Next]_vars
              PROVE  IInv'
  OBVIOUS
<1>1. CASE UNCHANGED vars
  BY <1>1 DEF vars, scanVars, tableVars, Types, TypeOK, Queue, Blocks, Bounded,
         IInv, Marks, MarkIsKnown, MarkIsHeard, MarkIsNew, MarkEnds, Lives,
         InStep, Asleep, GoesOn, ComesBack, Connected, Fires
<1>. QED BY <1>1, ScanIInv, PowerOffIInv, RadioIInv, DiscoverIInv, RetryIInv, DidConnectIInv, DidFailIInv,
            DidDisconnectIInv, Timeout8IInv, Timeout4IInv, AskAgainIInv, ServicesIInv,
            CharacteristicsIInv DEF Next, Callback, Block

LEMMA Invariance == Spec => []IInv
BY InitIInv, NextIInv, PTL DEF Spec

(* Every variable keeps its type, and no more blocks wait than are counted. *)
THEOREM TypeCorrect == Spec => []TypeOK
<1>1. IInv => TypeOK
  BY DEF IInv, Types
<1>. QED BY <1>1, Invariance, PTL

(* A connect mark always has a time-out or a callback that will end it.     *)
THEOREM MarksAreWatched == Spec => []Watched
<1>1. IInv => Watched
  BY DEF IInv, Marks, MarkEnds, Watched
<1>. QED BY <1>1, Invariance, PTL

(* What counts as ready is connected, or about to be cleared.              *)
THEOREM ReadyHolds == Spec => []ReadyIsConnected
<1>1. IInv => ReadyIsConnected
  BY DEF IInv, Lives, ReadyIsConnected, Has, Owed
<1>. QED BY <1>1, Invariance, PTL

(* A peripheral that is known, and so no longer connected to when it is     *)
(* discovered, always has something to go on with.                         *)
THEOREM NeverStuck == Spec => []NotStuck
<1>1. IInv => NotStuck
  <2>1. {"services", "retry", "connect8"} \subseteq Kinds
    BY KindFacts
  <2>2. IInv => os \in {"off", "connecting", "connected"} /\ GoesOn /\ ComesBack
    BY DEF IInv, Types, TypeOK
  <2>3. Fires("services") \/ Fires("retry") \/ Fires("connect8") => \E t \in Kinds : Fires(t)
    BY <2>1
  <2>. QED BY <2>2, <2>3 DEF GoesOn, ComesBack, NotStuck, Connected
<1>. QED BY <1>1, Invariance, PTL
=============================================================================
