---------------------------- MODULE ConnectTable ----------------------------
(***************************************************************************)
(* How a Windows and a Linux node connect to the addresses they hear over  *)
(* BLE, and what a Send finds in the tables (ble_windows.go, ble_linux.go, *)
(* ble_connect_backoff.go). Windows works on one address at a time, in the *)
(* loop that also scans; Linux starts a goroutine for each advertisement.  *)
(* The two differ in the steps, not in the shape: `build` is chosen in     *)
(* Init. Assemblers are in BleChunks, the core's callbacks in Routing.     *)
(* Stopping (ctx.Done) is left out: the process ends with it.              *)
(***************************************************************************)
EXTENDS Naturals, FiniteSets

CONSTANTS
  Addrs,       (* connectable addresses that advertise the service           *)
  Nameless,    (* those without a nickname in their manufacturer data        *)
  Refused,     (* those that fail the checks after the connection for good:  *)
               (* no data characteristic, no session, our own nickname       *)
  Sessions,    (* session IDs of the devices                                 *)
  Session,     (* the device behind an address: random addresses change      *)
  Workers,     (* goroutines that connect (bound); Windows uses one          *)
  Senders,     (* goroutines that send (bound)                               *)
  None

ASSUME AddrsAssumption == Nameless \subseteq Addrs /\ Refused \subseteq Addrs
ASSUME KeysAssumption ==
  /\ Session \in [Addrs -> Sessions] /\ Addrs \cap Sessions = {}
  /\ {None, "pending"} \cap (Addrs \cup Sessions) = {} /\ None # "pending"

VARIABLES
  build,       (* "windows" or "linux"                                       *)
  phase,       (* Windows: the loop scans, or connects to what it found      *)
  cand,        (* Windows: what the last scan window found                   *)
  backoff,     (* addresses not found less than two minutes ago              *)
  connecting,  (* windowsConnecting                                          *)
  chars,       (* windowsDataChars by session, linuxDataChars by address     *)
  link,        (* GATT connections: "off", "up", "subscribed"                *)
  lost,        (* addresses whose connection broke after all (history)       *)
  at, addr,    (* where each worker is, and its address                      *)
  attached,    (* peers the core has a BLE entry for                         *)
  send, dest,  (* where each sender is, and the entry it read                *)
  suppress,    (* windowsSuppressLocalWrites                                 *)
  calm         (* from here on the radio works (environment)                 *)

loopVars == <<phase, cand, backoff>>
connVars == <<connecting, chars, link, lost, at, addr, attached>>
sendVars == <<send, dest, suppress>>
vars == <<build, loopVars, connVars, sendVars, calm>>

Windows == build = "windows"
Key(a) == IF Windows THEN Session[a] ELSE a
Marked(a) == IF Windows THEN a \in connecting ELSE chars[a] # None
(* The Linux scan callback returns unless the manufacturer data has a name. *)
Ignored(a) == ~Windows /\ a \in Nameless

Init ==
  /\ build \in {"windows", "linux"}
  /\ phase = "scan" /\ cand = {} /\ backoff = {}
  /\ connecting = {} /\ chars = [k \in Addrs \cup Sessions |-> None]
  /\ link = [a \in Addrs |-> "off"] /\ lost = {} /\ attached = {}
  /\ at = [w \in Workers |-> "idle"] /\ addr = [w \in Workers |-> None]
  /\ send = [n \in Senders |-> "idle"] /\ dest = [n \in Senders |-> None]
  /\ suppress = 0 /\ calm = FALSE

---------------------------------------------------------------------------
(* The Windows loop                                                        *)

ScanAll ==                         (* mutant: the back-off is not looked at  *)
  /\ Windows /\ phase = "scan"
  /\ \E found \in SUBSET Addrs :
       /\ calm => found = Addrs
       /\ cand' = found
  /\ phase' = "connect"
  /\ UNCHANGED <<build, backoff, connVars, sendVars, calm>>
(* scanWindowsBLEWindow: what was heard and is not in back-off. A window    *)
(* that fails is started again. Once all is calm it hears everyone.         *)
Scan ==
  /\ Windows /\ phase = "scan"
  /\ \E found \in SUBSET (Addrs \ backoff) :
       /\ calm => found = Addrs \ backoff
       /\ cand' = found
  /\ phase' = "connect"
  /\ UNCHANGED <<build, backoff, connVars, sendVars, calm>>

AllIdle == \A w \in Workers : at[w] = "idle"
NextWindow ==
  /\ phase = "connect" /\ cand = {} /\ AllIdle
  /\ phase' = "scan"
  /\ UNCHANGED <<build, cand, backoff, connVars, sendVars, calm>>

ExpireNever(a) == a \in backoff /\ UNCHANGED vars   (* mutant: never over      *)
(* connectBackoffTable.Active, two minutes later.                          *)
Expire(a) ==
  /\ a \in backoff
  /\ backoff' = backoff \ {a}
  /\ UNCHANGED <<build, phase, cand, connVars, sendVars, calm>>

---------------------------------------------------------------------------
(* Connecting                                                              *)

Goto(w, l) == at' = [at EXCEPT ![w] = l] /\ UNCHANGED addr
Finish(w) == at' = [at EXCEPT ![w] = "idle"] /\ addr' = [addr EXCEPT ![w] = None]
SetLink(a, l) == link' = [link EXCEPT ![a] = l]
Start(w, a) == at' = [at EXCEPT ![w] = "connect"] /\ addr' = [addr EXCEPT ![w] = a]

(* beginWindowsConnect for the next address found, or the start of         *)
(* connectAndSubscribe for one that Linux does not ignore: tests and sets  *)
(* the mark under the lock.                                                *)
Begin(w, a) ==
  /\ at[w] = "idle" /\ ~Marked(a) /\ ~Ignored(a)
  /\ \/ ~Windows /\ chars' = [chars EXCEPT ![a] = "pending"] /\ UNCHANGED <<cand, connecting>>
     \/ /\ Windows /\ phase = "connect" /\ AllIdle /\ a \in cand
        /\ cand' = cand \ {a} /\ connecting' = connecting \cup {a} /\ UNCHANGED chars
  /\ Start(w, a)
  /\ UNCHANGED <<build, phase, backoff, link, lost, attached, sendVars, calm>>
Skip(a) ==
  /\ phase = "connect" /\ AllIdle /\ a \in cand /\ Marked(a)
  /\ cand' = cand \ {a}
  /\ UNCHANGED <<build, phase, backoff, connVars, sendVars, calm>>

CleanupKeepsMark(a, known) ==      (* mutant: an early return without cleanup *)
  /\ connecting' = IF known THEN connecting \ {a} ELSE connecting
  /\ chars' = IF known THEN [chars EXCEPT ![Key(a)] = None] ELSE chars
(* cleanup and cleanupSentinel; a Windows session counts once it was read. *)
Cleanup(a, known) ==
  /\ connecting' = connecting \ {a}
  /\ chars' = IF known \/ ~Windows THEN [chars EXCEPT ![Key(a)] = None] ELSE chars

(* adapter.Connect. Windows backs off from an address it did not find.     *)
Connect(w) ==
  LET a == addr[w] IN
  /\ at[w] = "connect"
  /\ \/ /\ SetLink(a, "up") /\ Goto(w, "discover")
        /\ backoff' = backoff \ {a}
        /\ UNCHANGED <<connecting, chars>>
     \/ /\ ~calm
        /\ backoff' \in {backoff} \cup (IF Windows THEN {backoff \cup {a}} ELSE {})
        /\ Cleanup(a, FALSE) /\ Finish(w)
        /\ UNCHANGED link
  /\ UNCHANGED <<build, phase, cand, lost, attached, sendVars, calm>>

(* Services, characteristics, names: the entry is published and, on         *)
(* Windows, the peer announced; or a call fails, or the peer is refused.    *)
Discover(w) ==
  LET a == addr[w] IN
  /\ at[w] = "discover"
  /\ \/ /\ a \notin Refused
        /\ chars' = [chars EXCEPT ![Key(a)] = a]
        /\ attached' = IF Windows THEN attached \cup {Key(a)} ELSE attached
        /\ Goto(w, "subscribe")
        /\ UNCHANGED <<connecting, link>>
     \/ /\ ~calm \/ a \in Refused
        /\ \E known \in BOOLEAN, l \in {"up", "off"} :
             Cleanup(a, known) /\ SetLink(a, l) /\ (l = "up" => ~known) /\ (l = "off" => Windows)
        /\ Finish(w) /\ UNCHANGED attached
  /\ UNCHANGED <<build, loopVars, lost, sendVars, calm>>

(* EnableNotifications.                                                    *)
Subscribe(w) ==
  LET a == addr[w] IN
  /\ at[w] = "subscribe"
  /\ \/ SetLink(a, "subscribed") /\ UNCHANGED <<connecting, chars>>
     \/ ~calm /\ Cleanup(a, TRUE) /\ UNCHANGED link
  /\ Finish(w)
  /\ UNCHANGED <<build, loopVars, lost, attached, sendVars, calm>>

LoseForgets(a) ==                  (* mutant: the entry goes with the link   *)
  /\ ~calm /\ link[a] = "subscribed"
  /\ SetLink(a, "off") /\ lost' = lost \cup {a}
  /\ chars' = [chars EXCEPT ![Key(a)] = None]
  /\ UNCHANGED <<build, loopVars, connecting, at, addr, attached, sendVars, calm>>
(* The connection breaks later: neither build has a handler for it.        *)
Lose(a) ==
  /\ ~calm /\ link[a] = "subscribed"
  /\ SetLink(a, "off") /\ lost' = lost \cup {a}
  /\ UNCHANGED <<build, loopVars, connecting, chars, at, addr, attached, sendVars, calm>>

---------------------------------------------------------------------------
(* Data                                                                    *)

(* A message of a peer arrives and attaches it: over a subscription, or, on *)
(* Windows, as a write of the peer's central, unless it is swallowed.       *)
Notified(a) ==
  /\ link[a] = "subscribed"
  /\ attached' = attached \cup {Key(a)}
  /\ UNCHANGED <<build, loopVars, connecting, chars, link, lost, at, addr, sendVars, calm>>
Written(s) ==
  /\ Windows
  /\ IF suppress > 0 THEN suppress' = suppress - 1 /\ UNCHANGED attached
     ELSE attached' = attached \cup {s} /\ UNCHANGED suppress
  /\ UNCHANGED <<build, loopVars, connecting, chars, link, lost, at, addr, send, dest, calm>>

(* BLECentralSendData looks the peer up; Windows notifies one it has no     *)
(* entry for. (One chunk stands for all.)                                   *)
LookupSend(n) ==
  /\ send[n] = "idle"
  /\ \E k \in attached :
       /\ dest' = [dest EXCEPT ![n] = chars[k]]
       /\ send' = [send EXCEPT ![n] = IF chars[k] # None THEN "write"
                                      ELSE IF Windows THEN "notify" ELSE "idle"]
  /\ UNCHANGED <<build, loopVars, connVars, suppress, calm>>
EndSend(n) == send' = [send EXCEPT ![n] = "idle"] /\ dest' = [dest EXCEPT ![n] = None]
WriteChunk(n) ==
  /\ send[n] = "write"
  /\ EndSend(n)
  /\ UNCHANGED <<build, loopVars, connVars, suppress, calm>>

(* BLEPeripheralSendDataTo counts up before Write, which runs WriteEvent.  *)
Suppress(n) ==
  /\ send[n] = "notify"
  /\ suppress' = suppress + 1
  /\ send' = [send EXCEPT ![n] = "echo"]
  /\ UNCHANGED <<build, loopVars, connVars, dest, calm>>
EchoUncounted(n) ==                (* mutant: the count stays                 *)
  /\ send[n] = "echo"
  /\ EndSend(n)
  /\ UNCHANGED <<build, loopVars, connVars, suppress, calm>>
Echo(n) ==
  /\ send[n] = "echo"
  /\ suppress' = IF suppress > 0 THEN suppress - 1 ELSE 0
  /\ EndSend(n)
  /\ UNCHANGED <<build, loopVars, connVars, calm>>

Calm == ~calm /\ calm' = TRUE /\ UNCHANGED <<build, loopVars, connVars, sendVars>>

Next ==
  \/ Scan \/ NextWindow \/ Calm
  \/ \E a \in Addrs : Expire(a) \/ Skip(a) \/ Lose(a) \/ Notified(a)
  \/ \E w \in Workers : \/ \E a \in Addrs : Begin(w, a)
                        \/ Connect(w) \/ Discover(w) \/ Subscribe(w)
  \/ \E s \in Sessions : Written(s)
  \/ \E n \in Senders : LookupSend(n) \/ WriteChunk(n) \/ Suppress(n) \/ Echo(n)

Spec == Init /\ [][Next]_vars

(* The loop and the goroutines go on, calls return, the back-off ends, and *)
(* an address that advertises is heard.                                    *)
Fairness ==
  /\ WF_vars(Scan) /\ WF_vars(NextWindow)
  /\ \A a \in Addrs : /\ WF_vars(Expire(a)) /\ WF_vars(Skip(a))
                      /\ WF_vars(\E w \in Workers : Begin(w, a))
  /\ \A w \in Workers : WF_vars(Connect(w)) /\ WF_vars(Discover(w)) /\ WF_vars(Subscribe(w))
FairSpec == Spec /\ Fairness

---------------------------------------------------------------------------
TypeOK ==
  /\ build \in {"windows", "linux"} /\ phase \in {"scan", "connect"} /\ calm \in BOOLEAN
  /\ cand \subseteq Addrs /\ backoff \subseteq Addrs /\ connecting \subseteq Addrs
  /\ chars \in [Addrs \cup Sessions -> Addrs \cup {None, "pending"}]
  /\ link \in [Addrs -> {"off", "up", "subscribed"}] /\ lost \subseteq Addrs
  /\ at \in [Workers -> {"idle", "connect", "discover", "subscribe"}]
  /\ addr \in [Workers -> Addrs \cup {None}]
  /\ attached \subseteq Addrs \cup Sessions
  /\ send \in [Senders -> {"idle", "write", "notify", "echo"}]
  /\ dest \in [Senders -> Addrs \cup {None, "pending"}] /\ suppress \in Nat

(* However advertisements of one address come in, one goroutine at most    *)
(* connects to it (ble_linux.go:82-90, ble_windows.go:186-194).            *)
OneConnector ==
  \A v, w \in Workers : at[v] # "idle" /\ at[w] # "idle" /\ addr[v] = addr[w] => v = w

(* The mark that keeps an address from being tried belongs to an attempt   *)
(* under way or to a connection that was made: no failure, at any step,    *)
(* leaves it behind (ble_linux.go:92-99, ble_windows.go:270-286).          *)
NoMarkLeft ==
  \A a \in Addrs : Marked(a) =>
    \/ \E w \in Workers : at[w] # "idle" /\ addr[w] = a
    \/ link[a] = "subscribed" \/ a \in lost

(* A Send never writes to the empty characteristic that stands for a        *)
(* connection in progress (ble_linux.go:85).                                *)
NoSendToSentinel == \A n \in Senders : dest[n] # "pending"

(* No address is tried while it is in back-off, though the back-off is     *)
(* looked at when the address is heard, not when it is connected to        *)
(* (ble_windows.go:120, 294).                                              *)
BackoffKept == \A w \in Workers : at[w] = "connect" => addr[w] \notin backoff

(* A write of a peer can be taken for the echo of a notification only while *)
(* one is being written (ble_windows.go:244, 446-460).                      *)
SuppressionEnds == suppress <= Cardinality({n \in Senders : send[n] = "echo"})

(* Once the radio works, every address that never lost a connection, is not *)
(* refused and, on Linux, has a nickname in its manufacturer data is        *)
(* connected, whatever failed or was backed off from before. (No program of *)
(* this version puts a nickname there.)                                     *)
Reached ==
  \A a \in Addrs \ Refused :
    <>calm /\ ~Ignored(a) => <>(link[a] = "subscribed" \/ a \in lost)
=============================================================================
