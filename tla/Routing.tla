------------------------------ MODULE Routing ------------------------------
(***************************************************************************)
(* How one node routes to one BLE peer: transport.Registry, the peer's     *)
(* entries in BLETransport and WebRTCTransport, the callbacks of           *)
(* service_ble.go and service_ble_windows.go that set them, and the Send   *)
(* calls that use them. Every map is keyed by peer and no operation        *)
(* touches two keys, so one peer stands for all.                           *)
(*                                                                         *)
(* Actors: the BLE callbacks (on a Mac all on bleQueue, one at a time; on  *)
(* Windows on threads of their own), handleWebRTCConn of each upgraded     *)
(* connection, its OnClose goroutines, the Send calls and Hello goroutines, *)
(* and the reader of each entry, which may end by itself.                  *)
(***************************************************************************)
EXTENDS Naturals, FiniteSets

CONSTANTS
  Found,    (* callbacks for a found peer or a central that subscribed       *)
  Data,     (* callbacks for a message the peer sent over BLE                *)
  Conns,    (* WebRTC connections the upgrader makes with the peer           *)
  Sends,    (* Service.Send calls                                            *)
  Serial,   (* service_ble.go (bleQueue); otherwise service_ble_windows.go   *)
  Hellos,   (* bound: callbacks and connections whose Hello goroutine gets a *)
            (* turn (no other is ever scheduled)                             *)
  MaxLosses, (* bound: OnClose goroutines a connection has at a time         *)
  None

Callbacks == Found \cup Data
Entries == Callbacks              (* the bleEntry a callback attached        *)
Streams == Sends \cup Hellos
Transports == {"ble", "webrtc"}

ASSUME ActorsAssumption ==
  /\ Found \cap Data = {} /\ Callbacks \cap Conns = {}
  /\ Sends \cap (Callbacks \cup Conns) = {}
  /\ None \notin Transports \cup Callbacks \cup Conns
  /\ Transports \cap (Callbacks \cup Conns) = {}
ASSUME PlatformAssumption == Serial \in BOOLEAN /\ (~Serial => Conns = {})
ASSUME BoundAssumption == MaxLosses \in Nat \ {0} /\ Hellos \subseteq Found \cup Conns

VARIABLES
  registry,   (* the transport registered for the peer                       *)
  entry,      (* BLETransport.entries                                        *)
  open,       (* the entries whose pipe no Attach or Close has closed        *)
  ended,      (* the entries whose reader returned and closed its end        *)
  wentry,     (* WebRTCTransport.conns                                       *)
  cb,         (* where each callback is                                      *)
  into,       (* the entry each InboundData writes to                        *)
  dropped,    (* InboundData calls that met a closed pipe                    *)
  ice,        (* PeerConnectionState of each connection                      *)
  stage,      (* where handleWebRTCConn of each connection is                *)
  removed,    (* the BLE entry that handleWebRTCConn took out of the map     *)
  closers,    (* OnClose goroutines about to Unregister                      *)
  halfway,    (* OnClose goroutines about to call webrtcT.Close              *)
  at,         (* where each outbound stream is                               *)
  on          (* the transport it chose, then the entry or connection it uses *)

bleVars == <<entry, open, ended, cb, into, dropped>>
rtcVars == <<wentry, ice, stage, removed, closers, halfway>>
streamVars == <<at, on>>
vars == <<registry, bleVars, rtcVars, streamVars>>

Dead == {"down", "failed", "closed"}

Init ==
  /\ registry = None
  /\ entry = None
  /\ open = {}
  /\ ended = {}
  /\ wentry = None
  /\ cb = [k \in Callbacks |-> "idle"]
  /\ into = [k \in Callbacks |-> None]
  /\ dropped = {}
  /\ ice = [c \in Conns |-> "new"]
  /\ stage = [c \in Conns |-> "none"]
  /\ removed = [c \in Conns |-> None]
  /\ closers = [c \in Conns |-> 0]
  /\ halfway = [c \in Conns |-> 0]
  /\ at = [x \in Streams |-> "idle"]
  /\ on = [x \in Streams |-> None]

Register(t) == registry' = t
Unregister == registry' = None

(* A stream over t is about to be opened.                                  *)
Dial(x, t) == at' = [at EXCEPT ![x] = "dial"] /\ on' = [on EXCEPT ![x] = t]
Hello(x, t) == IF x \in Hellos THEN Dial(x, t) ELSE UNCHANGED streamVars

---------------------------------------------------------------------------
(* BLE callbacks                                                           *)

Goto(k, l) == cb' = [cb EXCEPT ![k] = l]

CallAnytime(k) ==                  (* mutant: the queue is not serial          *)
  /\ cb[k] = "idle"
  /\ Goto(k, IF (IF Serial THEN k \in Data ELSE registry # None) THEN "use" ELSE "attach")
  /\ UNCHANGED <<registry, entry, open, ended, into, dropped, rtcVars, streamVars>>

(* The callback is called. A Mac attaches every peer found; data goes to   *)
(* whatever is attached. Windows looks the peer up first.                  *)
Call(k) ==
  /\ cb[k] = "idle"
  /\ Serial => \A l \in Callbacks : cb[l] \in {"idle", "done"}
  /\ Goto(k, IF (IF Serial THEN k \in Data ELSE registry # None) THEN "use" ELSE "attach")
  /\ UNCHANGED <<registry, entry, open, ended, into, dropped, rtcVars, streamVars>>

(* BLETransport.Attach: the entry replaces the old one and closes its pipe. *)
Attach(k) ==
  /\ cb[k] = "attach"
  /\ entry' = k
  /\ open' = (open \ {entry}) \cup {k}
  /\ Goto(k, "register")
  /\ UNCHANGED <<registry, ended, into, dropped, rtcVars, streamVars>>

RegisterBle(k) ==
  /\ cb[k] = "register"
  /\ Register("ble")
  /\ Goto(k, "use")
  /\ UNCHANGED <<entry, open, ended, into, dropped, rtcVars, streamVars>>

(* A found peer is sent a Hello by a goroutine of its own.                 *)
GreetBle(k) ==
  /\ cb[k] = "use"
  /\ k \in Found
  /\ Goto(k, "done")
  /\ Hello(k, "ble")
  /\ UNCHANGED <<registry, entry, open, ended, into, dropped, rtcVars>>

(* InboundData reads the entry under the lock ...                          *)
Inbound(k) ==
  /\ cb[k] = "use"
  /\ k \in Data
  /\ into' = [into EXCEPT ![k] = entry]
  /\ Goto(k, IF entry = None THEN "done" ELSE "write")
  /\ UNCHANGED <<registry, entry, open, ended, dropped, rtcVars, streamVars>>

(* ... and writes to its pipe after it; a pipe closed at either end drops   *)
(* the message.                                                            *)
InboundWrite(k) ==
  /\ cb[k] = "write"
  /\ dropped' = IF into[k] \in open \ ended THEN dropped ELSE dropped \cup {k}
  /\ Goto(k, "done")
  /\ UNCHANGED <<registry, entry, open, ended, into, rtcVars, streamVars>>

(* onInboundStream returns although nobody closed the pipe: a message it    *)
(* was given is no frame, or its file failed. It closes the reading end;    *)
(* the entry stays in the map.                                             *)
ReaderEnds(e) ==
  /\ e \in open \ ended
  /\ \E k \in Data : into[k] = e /\ k \notin dropped
  /\ ended' = ended \cup {e}
  /\ UNCHANGED <<registry, entry, open, cb, into, dropped, rtcVars, streamVars>>

---------------------------------------------------------------------------
(* WebRTC connections                                                      *)

(* The connection changes its state; each loss starts an OnClose goroutine, *)
(* if OnClose is set by then.                                              *)
Ice(c, s) ==
  /\ ice' = [ice EXCEPT ![c] = s]
  /\ closers' = IF s \in Dead /\ stage[c] # "none" THEN [closers EXCEPT ![c] = @ + 1]
                ELSE closers
Connect(c) ==
  /\ ice[c] \in {"new", "down"}      (* a connection may come back            *)
  /\ Ice(c, "up")
  /\ UNCHANGED <<registry, bleVars, wentry, stage, removed, halfway, streamVars>>
Break(c) ==
  /\ closers[c] + halfway[c] < MaxLosses
  /\ \/ ice[c] = "up" /\ Ice(c, "down")
     \/ ice[c] = "down" /\ Ice(c, "failed")
     \/ ice[c] = "up" /\ Ice(c, "closed")
  /\ UNCHANGED <<registry, bleVars, wentry, stage, removed, halfway, streamVars>>

Advance(c, s) == stage' = [stage EXCEPT ![c] = s]

(* handleWebRTCConn, once Connected() is closed: sets OnClose, ...         *)
Hook(c) ==
  /\ stage[c] = "none"
  /\ ice[c] # "new"
  /\ Advance(c, "hooked")
  /\ UNCHANGED <<registry, bleVars, wentry, ice, removed, closers, halfway, streamVars>>
(* ... attaches the connection, ...                                        *)
AttachRtc(c) ==
  /\ stage[c] = "hooked"
  /\ wentry' = c
  /\ Advance(c, "attached")
  /\ UNCHANGED <<registry, bleVars, ice, removed, closers, halfway, streamVars>>
(* ... registers it, ...                                                   *)
RegisterRtc(c) ==
  /\ stage[c] = "attached"
  /\ Register("webrtc")
  /\ Advance(c, "registered")
  /\ UNCHANGED <<bleVars, wentry, ice, removed, closers, halfway, streamVars>>
(* ... takes the BLE entry out of the map, under the lock, ...             *)
Supersede(c) ==
  /\ stage[c] = "registered"
  /\ removed' = [removed EXCEPT ![c] = entry]
  /\ entry' = None
  /\ Advance(c, "superseded")
  /\ UNCHANGED <<registry, open, ended, cb, into, dropped, wentry, ice, closers, halfway, streamVars>>
ClosePipeOfNow(c) ==               (* mutant: the map is read again after the unlock *)
  /\ stage[c] = "superseded"
  /\ open' = open \ {entry}
  /\ Advance(c, "done")
  /\ Hello(c, "webrtc")
  /\ UNCHANGED <<registry, entry, ended, cb, into, dropped, wentry, ice, removed, closers, halfway>>

(* ... closes its pipe after the unlock, and sends a Hello.                *)
ClosePipe(c) ==
  /\ stage[c] = "superseded"
  /\ open' = open \ {removed[c]}
  /\ Advance(c, "done")
  /\ Hello(c, "webrtc")
  /\ UNCHANGED <<registry, entry, ended, cb, into, dropped, wentry, ice, removed, closers, halfway>>

(* OnClose removes the peer's route, whatever it is by now, ...            *)
OnClose(c) ==
  /\ closers[c] > 0
  /\ Unregister
  /\ closers' = [closers EXCEPT ![c] = @ - 1]
  /\ halfway' = [halfway EXCEPT ![c] = @ + 1]
  /\ UNCHANGED <<bleVars, wentry, ice, stage, removed, streamVars>>

OnCloseForgets(c) ==               (* mutant: the entry is left in the map    *)
  /\ halfway[c] > 0
  /\ halfway' = [halfway EXCEPT ![c] = @ - 1]
  /\ UNCHANGED <<registry, bleVars, wentry, ice, stage, removed, closers, streamVars>>

(* ... and closes the connection attached by now.                          *)
OnCloseEnds(c) ==
  /\ halfway[c] > 0
  /\ halfway' = [halfway EXCEPT ![c] = @ - 1]
  /\ wentry' = None
  /\ IF wentry # None /\ ice[wentry] # "closed" THEN Ice(wentry, "closed")
     ELSE UNCHANGED <<ice, closers>>
  /\ UNCHANGED <<registry, bleVars, stage, removed, streamVars>>

---------------------------------------------------------------------------
(* Outbound streams                                                        *)

Lookup(s) ==
  /\ at[s] = "idle"
  /\ IF registry = None THEN at' = [at EXCEPT ![s] = "done"] /\ UNCHANGED on
     ELSE Dial(s, registry)
  /\ UNCHANGED <<registry, bleVars, rtcVars>>

OpenStreamBusy(x) ==               (* mutant: a busy entry is ErrNoConnection  *)
  LET o == IF on[x] = "ble" THEN entry ELSE wentry
      busy == \E y \in Streams : at[y] = "writing" /\ on[y] = o
  IN
  /\ at[x] = "dial"
  /\ IF o = None \/ busy
     THEN /\ at' = [at EXCEPT ![x] = IF x \in Sends THEN "forget" ELSE "done"]
          /\ on' = [on EXCEPT ![x] = None]
     ELSE /\ at' = [at EXCEPT ![x] = "wait"]
          /\ on' = [on EXCEPT ![x] = o]
  /\ UNCHANGED <<registry, bleVars, rtcVars>>

(* OpenStream reads the map; ErrNoConnection makes Send unregister.        *)
OpenStream(x) ==
  LET o == IF on[x] = "ble" THEN entry ELSE wentry IN
  /\ at[x] = "dial"
  /\ IF o = None THEN /\ at' = [at EXCEPT ![x] = IF x \in Sends THEN "forget" ELSE "done"]
                      /\ on' = [on EXCEPT ![x] = None]
     ELSE /\ at' = [at EXCEPT ![x] = "wait"]
          /\ on' = [on EXCEPT ![x] = o]
  /\ UNCHANGED <<registry, bleVars, rtcVars>>
ForgetRoute(s) ==
  /\ at[s] = "forget"
  /\ Unregister
  /\ at' = [at EXCEPT ![s] = "done"]
  /\ UNCHANGED <<on, bleVars, rtcVars>>

(* writeMu of the entry is held until the stream is closed.                *)
LockEntry(x) ==
  /\ at[x] = "wait"
  /\ \A y \in Streams : at[y] = "writing" => on[y] # on[x]
  /\ at' = [at EXCEPT ![x] = "writing"]
  /\ UNCHANGED <<on, registry, bleVars, rtcVars>>
CloseStream(x) ==
  /\ at[x] = "writing"
  /\ at' = [at EXCEPT ![x] = "done"]
  /\ on' = [on EXCEPT ![x] = None]
  /\ UNCHANGED <<registry, bleVars, rtcVars>>

---------------------------------------------------------------------------
Next ==
  \/ \E k \in Callbacks : \/ Call(k) \/ Attach(k) \/ RegisterBle(k)
                          \/ GreetBle(k) \/ Inbound(k) \/ InboundWrite(k)
  \/ \E e \in Entries : ReaderEnds(e)
  \/ \E c \in Conns : \/ Connect(c) \/ Break(c) \/ Hook(c) \/ AttachRtc(c)
                      \/ RegisterRtc(c) \/ Supersede(c) \/ ClosePipe(c)
                      \/ OnClose(c) \/ OnCloseEnds(c)
  \/ \E s \in Sends : Lookup(s) \/ ForgetRoute(s)
  \/ \E x \in Streams : OpenStream(x) \/ LockEntry(x) \/ CloseStream(x)

Spec == Init /\ [][Next]_vars

(* Goroutines that were started run on.                                    *)
Fairness ==
  \A c \in Conns : WF_vars(OnClose(c)) /\ WF_vars(OnCloseEnds(c))
FairSpec == Spec /\ Fairness

---------------------------------------------------------------------------
TypeOK ==
  /\ registry \in Transports \cup {None}
  /\ entry \in Entries \cup {None}
  /\ open \subseteq Entries
  /\ ended \subseteq Entries
  /\ wentry \in Conns \cup {None}
  /\ cb \in [Callbacks -> {"idle", "attach", "register", "use", "write", "done"}]
  /\ into \in [Callbacks -> Entries \cup {None}]
  /\ dropped \subseteq Callbacks
  /\ ice \in [Conns -> {"new", "up"} \cup Dead]
  /\ stage \in [Conns -> {"none", "hooked", "attached", "registered", "superseded", "done"}]
  /\ removed \in [Conns -> Entries \cup {None}]
  /\ closers \in [Conns -> Nat]
  /\ halfway \in [Conns -> Nat]
  /\ at \in [Streams -> {"idle", "dial", "forget", "wait", "writing", "done"}]
  /\ on \in [Streams -> Transports \cup Entries \cup Conns \cup {None}]

(* Of all pipes ever made for the peer only that of the current entry is   *)
(* open, but for one that an upgrade has taken out of the map and is about *)
(* to close: whoever attaches the peer in between, no reader is left       *)
(* waiting on a pipe nobody closes (ble.go:38-51, 89-102).                 *)
NoReaderLeft ==
  \A e \in open : e = entry \/ \E c \in Conns : removed[c] = e /\ stage[c] = "superseded"

(* Without an upgrade a BLE route is never lost: it stays until a WebRTC   *)
(* connection is handed over, whatever Send calls and callbacks do         *)
(* (2026-05-15-ble-data-transport.md:1126).                                *)
FallbackStays ==
  [][registry = "ble" /\ (\A c \in Conns : stage[c] = "none") => registry' = "ble"]_vars

(* What arrives for a known peer reaches its reader (ble.go:53), unless     *)
(* that reader had returned by itself or an upgrade had taken its entry:    *)
(* no callback that attaches the peer again closes a pipe under a message.  *)
DataReachesReader ==
  \A k \in dropped : into[k] \in ended \/ \E c \in Conns : removed[c] = into[k]

(* A connection that was attached alive and breaks later is taken out of   *)
(* the map (service_ble.go:106-109).                                       *)
BrokenLeaves ==
  \A c \in Conns : [](wentry = c /\ ice[c] = "up" => (ice[c] \in Dead ~> wentry # c))
============================================================================
