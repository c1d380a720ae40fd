--------------------------- MODULE CentralConnect ---------------------------
(***************************************************************************)
(* How a Mac finds, connects and keeps one peripheral                      *)
(* (ble_corebluetooth.m). Every delegate callback and every dispatch_after *)
(* block runs on the serial bleQueue, so each is one action; CoreBluetooth *)
(* and the radio are the environment. The tables are keyed by peripheral   *)
(* and no callback touches two keys, so one peripheral stands for all.     *)
(* Names are left out: they decide only what the peer is called.           *)
(***************************************************************************)
EXTENDS Naturals, Sequences

CONSTANTS
  MaxOwed,     (* connection callbacks the OS has waiting (bound)            *)
  MaxTimers    (* blocks of each kind that wait (bound; more are not counted) *)

Kinds == {"connect8", "connect4", "retry", "services"}
ASSUME BoundAssumption ==
  MaxOwed \in Nat \ {0} /\ MaxTimers \in [Kinds -> Nat \ {0}]
Requests == {"services", "characteristics", "nickname"}

VARIABLES
  power,       (* CBManagerState                                             *)
  lost,        (* Bluetooth was switched off at some time (history)          *)
  started,     (* startupScanStarted                                         *)
  continuous,  (* autoScanContinuous                                         *)
  scanning,    (* CoreBluetooth scans                                        *)
  stopAt,      (* the block that ends a start-up scan waits                  *)
  recovery,    (* recoveryScanScheduled, and which of its blocks waits       *)
  known,       (* it is in _peripherals                                      *)
  connecting,  (* it is in _connectingPeripheralIDs                          *)
  ready,       (* it is in _readyPeripheralIDs                               *)
  retried,     (* _connectRetryCounts                                        *)
  reasked,     (* _serviceDiscoveryRetryCounts                               *)
  os,          (* CBPeripheralState                                          *)
  owed,        (* didConnect, didFail, didDisconnect callbacks on the queue  *)
  asked,       (* GATT requests whose callback is due                        *)
  timers       (* dispatch_after blocks that wait, by kind                   *)

scanVars == <<power, lost, started, continuous, scanning, stopAt>>
tableVars == <<known, connecting, ready, retried, reasked>>
vars == <<scanVars, recovery, tableVars, os, owed, asked, timers>>

Init ==
  /\ power = "unknown" /\ recovery = "idle"
  /\ lost = FALSE /\ started = FALSE /\ continuous = FALSE /\ scanning = FALSE
  /\ stopAt = FALSE
  /\ known = FALSE /\ connecting = FALSE /\ ready = FALSE
  /\ retried = FALSE /\ reasked = FALSE
  /\ os = "off" /\ owed = <<>>
  /\ asked = {} /\ timers = [t \in Kinds |-> 0]

---------------------------------------------------------------------------
(* What the handlers are made of                                           *)

Connected == os = "connected"
HasRoom == Len(owed) < MaxOwed

(* CoreBluetooth answers a request only while the peripheral is connected. *)
Ask(rest, r) == IF Connected THEN rest \cup {r} ELSE rest

Schedule(ts, t) == [ts EXCEPT ![t] = IF @ < MaxTimers[t] THEN @ + 1 ELSE @]
Fires(t) == timers[t] > 0
Others(t) == [timers EXCEPT ![t] = @ - 1]     (* the blocks left when it ran *)

ConnectUnwatched(ts) ==                (* mutant: no time-out is scheduled  *)
  IF connecting THEN timers' = ts /\ UNCHANGED <<connecting, os, owed>>
  ELSE /\ connecting' = TRUE
       /\ timers' = ts
       /\ os' = IF os = "off" /\ power = "on" THEN "connecting" ELSE os
       /\ owed' = IF Connected THEN Append(owed, "connected") ELSE owed
(* connectPeripheral:name:central:, ts being the blocks that wait.         *)
Connect(ts) ==
  IF connecting THEN timers' = ts /\ UNCHANGED <<connecting, os, owed>>
  ELSE /\ connecting' = TRUE
       /\ timers' = Schedule(ts, "connect8")
       /\ os' = IF os = "off" /\ power = "on" THEN "connecting" ELSE os
       /\ owed' = IF Connected THEN Append(owed, "connected") ELSE owed

MarkUnready ==
  /\ connecting' = FALSE /\ ready' = FALSE
  /\ retried' = FALSE /\ reasked' = FALSE

Forget == MarkUnready /\ known' = FALSE

DropKeepsEntry(queue) ==               (* mutant: the table entry stays     *)
  /\ MarkUnready /\ UNCHANGED known
  /\ os' = "off"
  /\ \/ (Connected \/ (os = "connecting" /\ HasRoom)) /\ owed' = Append(queue, "lost")
     \/ ~Connected /\ owed' = queue
(* dropPeripheral: os and owed become what cancelPeripheralConnection makes *)
(* of them; os is that of the object the handler holds, queue what is owed. *)
Drop(queue) ==
  /\ Forget
  /\ os' = "off"
  /\ \/ (Connected \/ (os = "connecting" /\ HasRoom)) /\ owed' = Append(queue, "lost")
     \/ ~Connected /\ owed' = queue

(* scheduleRecoveryScan                                                    *)
RecoveryScan ==
  recovery' = IF recovery = "idle" /\ power = "on" /\ ~continuous THEN "soon" ELSE recovery

(* notifyPeer                                                              *)
Notify == ready' = TRUE

---------------------------------------------------------------------------
(* The scan                                                                *)

(* centralManagerDidUpdateState: the first time it starts the scan, for    *)
(* ever or for BDPEER_DARWIN_BLE_STARTUP_SCAN_SECONDS. Never again.         *)
PowerOn ==
  /\ power # "on"
  /\ power' = "on"
  /\ IF started THEN UNCHANGED <<started, continuous, scanning, stopAt>>
     ELSE /\ started' = TRUE /\ scanning' = TRUE
          /\ \E c \in BOOLEAN : continuous' = c /\ stopAt' = ~c
  /\ UNCHANGED <<lost, recovery, tableVars, os, owed, asked, timers>>

(* Bluetooth is switched off: scan and connections end, with or without a  *)
(* didDisconnect; the code only logs it.                                   *)
PowerOff ==
  /\ power = "on"
  /\ power' = "off" /\ lost' = TRUE /\ scanning' = FALSE
  /\ os' = "off"
  /\ owed' \in {owed} \cup (IF os = "off" \/ ~HasRoom THEN {} ELSE {Append(owed, "lost")})
  /\ UNCHANGED <<started, continuous, stopAt, recovery, tableVars, asked, timers>>

StopStartupScan ==
  /\ stopAt
  /\ stopAt' = FALSE /\ scanning' = FALSE
  /\ UNCHANGED <<power, lost, started, continuous, recovery, tableVars, os, owed, asked, timers>>

(* The two blocks of scheduleRecoveryScan.                                 *)
RecoveryStarts ==
  /\ recovery = "soon"
  /\ recovery' = "scan"
  /\ scanning' = (scanning \/ power = "on")
  /\ UNCHANGED <<power, lost, started, continuous, stopAt, tableVars, os, owed, asked, timers>>
RecoveryStops ==
  /\ recovery = "scan"
  /\ recovery' = "idle" /\ scanning' = FALSE
  /\ UNCHANGED <<power, lost, started, continuous, stopAt, tableVars, os, owed, asked, timers>>

(* Another peripheral is given up: the recovery scan is the same for all.  *)
OtherGivenUp ==
  /\ recovery = "idle"
  /\ power = "on"
  /\ RecoveryScan
  /\ UNCHANGED <<scanVars, tableVars, os, owed, asked, timers>>

(* didDiscoverPeripheral: a known one only has its name refreshed. A scan  *)
(* with options:nil reports a peripheral once, and again when CoreBluetooth *)
(* sees fit: allowed at any time of a scan, assumed at none.               *)
DidDiscover ==
  /\ scanning
  /\ Connected => HasRoom
  /\ IF known THEN UNCHANGED <<known, connecting, os, owed, timers>>
     ELSE known' = TRUE /\ Connect(timers)
  /\ UNCHANGED <<scanVars, recovery, ready, retried, reasked, asked>>

---------------------------------------------------------------------------
(* Connecting                                                              *)

Next1(c) == owed # <<>> /\ Head(owed) = c

DidConnect ==
  /\ Next1("connected")
  /\ owed' = Tail(owed)
  /\ connecting' = FALSE /\ retried' = FALSE
  /\ asked' = Ask(asked, "services")
  /\ UNCHANGED <<scanVars, recovery, known, ready, reasked, os, timers>>

DidFailKeepsMark ==                    (* mutant: retry finds it connecting *)
  /\ Next1("failed")
  /\ IF retried THEN Drop(Tail(owed)) /\ UNCHANGED timers
     ELSE /\ retried' = TRUE /\ owed' = Tail(owed)
          /\ timers' = Schedule(timers, "retry")
          /\ UNCHANGED <<known, connecting, ready, reasked, os>>
  /\ UNCHANGED <<scanVars, recovery, asked>>
(* didFailToConnect: one retry after a second, then the peripheral goes.   *)
DidFail ==
  /\ Next1("failed")
  /\ IF retried THEN Drop(Tail(owed)) /\ UNCHANGED timers
     ELSE /\ retried' = TRUE /\ connecting' = FALSE /\ owed' = Tail(owed)
          /\ timers' = Schedule(timers, "retry")
          /\ UNCHANGED <<known, ready, reasked, os>>
  /\ UNCHANGED <<scanVars, recovery, asked>>

Retry ==
  /\ Fires("retry")
  /\ IF ready \/ os # "off"
     THEN timers' = Others("retry") /\ UNCHANGED <<known, connecting, os, owed>>
     ELSE known' = TRUE /\ Connect(Others("retry"))
  /\ UNCHANGED <<scanVars, recovery, ready, retried, reasked, asked>>

DidDisconnectKeepsReady ==             (* mutant: only the table entry goes *)
  /\ Next1("lost")
  /\ owed' = Tail(owed)
  /\ known' = FALSE
  /\ asked' = {}
  /\ UNCHANGED <<scanVars, recovery, connecting, ready, retried, reasked, os, timers>>
(* didDisconnectPeripheral; no GATT callback of the connection follows it. *)
DidDisconnect ==
  /\ Next1("lost")
  /\ owed' = Tail(owed)
  /\ MarkUnready /\ known' = FALSE
  /\ asked' = {}
  /\ UNCHANGED <<scanVars, recovery, os, timers>>

Waits == connecting /\ ~ready /\ known

(* The block 8 s after a connect request.                                  *)
Timeout8 ==
  /\ Fires("connect8")
  /\ timers' = IF Waits /\ os = "connecting" THEN Schedule(Others("connect8"), "connect4")
               ELSE Others("connect8")
  /\ IF Waits /\ Connected
     THEN connecting' = FALSE /\ asked' = Ask(asked, "services")
          /\ UNCHANGED <<known, ready, retried, reasked>>
     ELSE IF Waits /\ os = "off" THEN Forget /\ UNCHANGED asked
     ELSE UNCHANGED <<tableVars, asked>>
  /\ UNCHANGED <<scanVars, recovery, os, owed>>

(* 4 s later, still connecting: given up, and looked for again.            *)
Timeout4 ==
  /\ Fires("connect4")
  /\ timers' = Others("connect4")
  /\ IF Waits /\ os = "connecting" THEN Drop(owed) /\ RecoveryScan
     ELSE UNCHANGED <<tableVars, os, owed, recovery>>
  /\ UNCHANGED <<scanVars, asked>>

---------------------------------------------------------------------------
(* GATT                                                                    *)

DidDiscoverServices ==
  /\ "services" \in asked
  /\ \E found \in {"service", "empty", "error"} :
       /\ \/ /\ found = "service"
             /\ reasked' = FALSE
             /\ asked' = Ask(asked \ {"services"}, "characteristics")
             /\ UNCHANGED <<known, connecting, ready, retried, os, owed, recovery, timers>>
          \/ /\ found = "empty" /\ ~reasked /\ Connected
             /\ reasked' = TRUE
             /\ timers' = Schedule(timers, "services")
             /\ asked' = asked \ {"services"}
             /\ UNCHANGED <<known, connecting, ready, retried, os, owed, recovery>>
          \/ /\ found = "error" \/ (found = "empty" /\ ~(~reasked /\ Connected))
             /\ Drop(owed) /\ RecoveryScan
             /\ asked' = asked \ {"services"}
             /\ UNCHANGED timers
  /\ UNCHANGED scanVars

AskAgain ==
  /\ Fires("services")
  /\ timers' = Others("services")
  /\ asked' = IF known THEN Ask(asked, "services") ELSE asked
  /\ UNCHANGED <<scanVars, recovery, tableVars, os, owed>>

DidDiscoverCharacteristics ==
  /\ "characteristics" \in asked
  /\ \/ /\ asked' = Ask(asked \ {"characteristics"}, "nickname")
        /\ Notify
        /\ UNCHANGED <<known, connecting, retried, reasked, os, owed>>
     \/ /\ Drop(owed)
        /\ asked' = asked \ {"characteristics"}
  /\ UNCHANGED <<scanVars, recovery, timers>>

(* The nickname was read, or could not be: the peer is called by another.  *)
DidReadNickname ==
  /\ "nickname" \in asked
  /\ asked' = asked \ {"nickname"}
  /\ Notify
  /\ UNCHANGED <<scanVars, recovery, known, connecting, retried, reasked, os, owed, timers>>

---------------------------------------------------------------------------
(* CoreBluetooth and the radio                                             *)

Os(from, to, callback) ==
  /\ os = from
  /\ HasRoom
  /\ os' = to
  /\ owed' = Append(owed, callback)
  /\ UNCHANGED <<scanVars, recovery, tableVars, asked, timers>>

OsConnects == Os("connecting", "connected", "connected")
OsFails == Os("connecting", "off", "failed")
OsLoses == Os("connected", "off", "lost")

Callback ==
  \/ DidConnect \/ DidFail \/ DidDisconnect
  \/ DidDiscoverServices \/ DidDiscoverCharacteristics \/ DidReadNickname
Block ==
  \/ Retry \/ Timeout8 \/ Timeout4 \/ AskAgain
  \/ StopStartupScan \/ RecoveryStarts \/ RecoveryStops

Next ==
  \/ PowerOn \/ PowerOff \/ OtherGivenUp \/ DidDiscover \/ Callback \/ Block
  \/ OsConnects \/ OsFails \/ OsLoses

Spec == Init /\ [][Next]_vars

(* The queue runs its callbacks and blocks, and CoreBluetooth answers a    *)
(* GATT request of a connection that stays. Nothing is assumed of what a   *)
(* scan reports, nor that a connect request is ever answered.              *)
Fairness ==
  /\ WF_vars(DidConnect) /\ WF_vars(DidFail) /\ WF_vars(DidDisconnect)
  /\ WF_vars(DidDiscoverServices) /\ WF_vars(DidDiscoverCharacteristics)
  /\ WF_vars(Timeout8) /\ WF_vars(Timeout4) /\ WF_vars(Retry) /\ WF_vars(AskAgain)

FairSpec == Spec /\ Fairness

---------------------------------------------------------------------------
TypeOK ==
  /\ power \in {"unknown", "on", "off"} /\ recovery \in {"idle", "soon", "scan"}
  /\ {lost, started, continuous, scanning, stopAt} \subseteq BOOLEAN
  /\ {known, connecting, ready, retried, reasked} \subseteq BOOLEAN
  /\ os \in {"off", "connecting", "connected"}
  /\ owed \in Seq({"connected", "failed", "lost"})
  /\ asked \subseteq Requests
  /\ timers \in [Kinds -> Nat] /\ \A t \in Kinds : timers[t] <= MaxTimers[t]

Owed(c) == \E i \in DOMAIN owed : owed[i] = c

(* The mark that keeps other callbacks from connecting never outlives the  *)
(* attempt: a time-out or a callback that removes it is still to come      *)
(* (ble_corebluetooth.m:405-449), unless Bluetooth was switched off.       *)
Watched ==
  connecting => Fires("connect8") \/ Fires("connect4") \/ owed # <<>> \/ lost

(* A peripheral that counts as ready is connected, or its didDisconnect is *)
(* about to clear it, whatever old connection a late callback came from    *)
(* (ble_corebluetooth.m:389, 500-503).                                     *)
ReadyIsConnected == ready => Connected \/ Owed("lost") \/ lost

(* didDiscoverPeripheral does nothing for a peripheral it knows, so one    *)
(* that is known must be ready or have a request, a callback or a block    *)
(* pending: otherwise it would never be tried again.                       *)
NotStuck ==
  known => \/ ready \/ lost \/ os = "connecting" \/ owed # <<>> \/ asked # {}
           \/ \E t \in Kinds : Fires(t)

(* Whatever fails, times out or crosses: a peripheral that is known gets   *)
(* ready, or is forgotten, so that its next report connects it again       *)
(* (ble_corebluetooth.m:405-550). The one way to neither is a connect       *)
(* request that CoreBluetooth never answers, whose mark a late didFail of  *)
(* an earlier attempt has removed, and with it the time-outs' interest.    *)
Settles == known ~> (ready \/ ~known \/ lost \/ [](os = "connecting" /\ ~connecting))
=============================================================================
