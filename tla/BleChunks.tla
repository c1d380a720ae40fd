----------------------------- MODULE BleChunks -----------------------------
(***************************************************************************)
(* How a message crosses BLE: the sender cuts it into numbered chunks, the *)
(* receiver puts consecutive chunks together again. One device sends to    *)
(* several; the four forms of the code differ in these constants:          *)
(*   mac central    Serial   Path = "write"   (sendDataToPeripheral)       *)
(*   mac peripheral Serial   Path = "notify"  (sendDataToCentral)          *)
(*   Linux central           Path = "write"   (BLECentralSendData)         *)
(*   Windows        Session  Path = either    (MakeSessionDataChunks)      *)
(* and a receiver ChecksTotal (ChunkAssembler, SessionChunkAssembler) or   *)
(* does not (handleDataChunk), and Forgets a lost connection or does not.  *)
(***************************************************************************)
EXTENDS Naturals, Sequences

CONSTANTS
  Peers,        (* the devices this one sends to                             *)
  Msgs,         (* the messages                                              *)
  To,           (* [Msgs -> Peers]                                           *)
  Total,        (* [Msgs -> Nat], the chunks of each message                 *)
  Room,         (* chunks the radio holds for a peer before it refuses more  *)
  Serial,       (* all sending runs in blocks of one serial queue (bleQueue) *)
  Path,         (* "write" without response, or "notify"                     *)
  Session,      (* chunks carry the recipient; a notify reaches every peer   *)
  ChecksTotal,  (* a chunk of a message of another length is not taken       *)
  Forgets,      (* the receiver drops its partial message on a disconnect    *)
  None          (* no message                                                *)

ASSUME MessagesAssumption ==
  /\ To \in [Msgs -> Peers]
  /\ Total \in [Msgs -> Nat \ {0}]
  /\ None \notin Msgs
  /\ Room \in Nat \ {0}
ASSUME FormAssumption ==
  /\ Serial \in BOOLEAN /\ Session \in BOOLEAN
  /\ ChecksTotal \in BOOLEAN /\ Forgets \in BOOLEAN
  /\ Path \in {"write", "notify"}

VARIABLES
  todo,       (* messages not begun                                          *)
  current,    (* the message being sent to each peer                         *)
  next,       (* index of the chunk of each message that is sent next        *)
  pending,    (* _pendingNotifies                                            *)
  refused,    (* updateValue returned NO: the OS owes a ready callback       *)
  draining,   (* inside peripheralManagerIsReadyToUpdateSubscribers          *)
  up,         (* the connection of each peer                                 *)
  air,        (* chunks on their way to each peer                            *)
  asm,        (* the chunks each receiver has put together                   *)
  started,    (* messages whose first chunk was received (history)           *)
  delivered   (* what the receivers have passed on                           *)

senderVars == <<todo, current, next, pending, refused, draining>>
receiverVars == <<asm, started, delivered>>
vars == <<senderVars, up, air, receiverVars>>

Chunks == {c \in [msg : Msgs, idx : Nat] : c.idx < Total[c.msg]}
IsLast(c) == c.idx + 1 = Total[c.msg]

Init ==
  /\ todo = Msgs
  /\ current = [p \in Peers |-> None]
  /\ next = [m \in Msgs |-> 0]
  /\ pending = <<>>
  /\ refused = FALSE
  /\ draining = FALSE
  /\ up = [p \in Peers |-> TRUE]
  /\ air = [p \in Peers |-> <<>>]
  /\ asm = [p \in Peers |-> <<>>]
  /\ started = {}
  /\ delivered = {}

---------------------------------------------------------------------------
(* The sender                                                              *)

(* bleQueue runs one block or callback at a time; elsewhere writeMu of the *)
(* peer's entry lets one writer at it.                                     *)
Free(p) == IF Serial THEN ~draining /\ \A q \in Peers : current[q] = None
           ELSE current[p] = None

HasRoom(p) == Len(air[p]) < Room
Audience(c) == IF Session /\ Path = "notify" THEN Peers ELSE {To[c.msg]}

(* The radio takes c. What it has no room or no connection for is lost.    *)
Put(c) ==
  air' = [q \in Peers |-> IF q \in Audience(c) /\ up[q] /\ HasRoom(q)
                          THEN Append(air[q], c) ELSE air[q]]

ThisChunk(p) == [msg |-> current[p], idx |-> next[current[p]]]

(* Chunk c of peer p was handed over; the last one ends the message.       *)
Sent(p, c) ==
  /\ next' = [next EXCEPT ![c.msg] = c.idx + 1]
  /\ current' = IF IsLast(c) THEN [current EXCEPT ![p] = None] ELSE current

Begin(m) ==
  /\ m \in todo
  /\ Free(To[m])
  /\ todo' = todo \ {m}
  /\ current' = IF up[To[m]] THEN [current EXCEPT ![To[m]] = m] ELSE current
  /\ UNCHANGED <<next, pending, refused, draining, up, air, receiverVars>>

Queues == Serial /\ Path = "notify"

(* A chunk is written. Nobody looks at what became of it.                  *)
SendChunk(p) ==
  LET c == ThisChunk(p) IN
  /\ ~Queues
  /\ current[p] # None
  /\ Put(c)
  /\ Sent(p, c)
  /\ UNCHANGED <<todo, pending, refused, draining, up, receiverVars>>

(* updateValue returned YES.                                               *)
NotifyChunk(p) ==
  LET c == ThisChunk(p) IN
  /\ Queues
  /\ current[p] # None
  /\ up[p] => HasRoom(p)
  /\ Put(c)
  /\ Sent(p, c)
  /\ UNCHANGED <<todo, pending, refused, draining, up, receiverVars>>

(* updateValue returned NO: this chunk and all that follow are queued.     *)
QueueRest(p) ==
  LET m == current[p]
      rest == [i \in 1..(Total[m] - next[m]) |-> [msg |-> m, idx |-> next[m] + i - 1]]
  IN
  /\ Queues
  /\ m # None
  /\ up[p]
  /\ ~HasRoom(p)
  /\ pending' = pending \o rest
  /\ refused' = TRUE
  /\ next' = [next EXCEPT ![m] = Total[m]]
  /\ current' = [current EXCEPT ![p] = None]
  /\ UNCHANGED <<todo, draining, up, air, receiverVars>>

(* The ready callback: the OS can take chunks again.                       *)
Ready ==
  /\ refused
  /\ ~draining
  /\ \A p \in Peers : current[p] = None /\ HasRoom(p)
  /\ refused' = FALSE
  /\ draining' = TRUE
  /\ UNCHANGED <<todo, current, next, pending, up, air, receiverVars>>

DrainOne ==                              (* mutant: an if, not a while      *)
  LET c == Head(pending) IN
  /\ draining
  /\ pending # <<>>
  /\ HasRoom(To[c.msg])
  /\ Put(c)
  /\ pending' = Tail(pending)
  /\ draining' = FALSE
  /\ UNCHANGED <<todo, current, next, refused, up, receiverVars>>

(* Its loop: while the queue is not empty and updateValue returns YES.     *)
DrainChunk ==
  LET c == Head(pending) IN
  /\ draining
  /\ pending # <<>>
  /\ HasRoom(To[c.msg])
  /\ Put(c)
  /\ pending' = Tail(pending)
  /\ UNCHANGED <<todo, current, next, refused, draining, up, receiverVars>>
DrainEnds ==
  /\ draining
  /\ pending # <<>> => ~HasRoom(To[Head(pending).msg])
  /\ draining' = FALSE
  /\ refused' = (pending # <<>>)
  /\ UNCHANGED <<todo, current, next, pending, up, air, receiverVars>>

---------------------------------------------------------------------------
(* The receiver                                                            *)

ContinuesAny(buf, c) == buf # <<>>       (* mutant: indexes not compared    *)
ContinuesOther(buf, c) ==                (* mutant: totals not compared     *)
  buf # <<>> /\ c.idx = Len(buf)

(* c follows what buf holds: there is something, its index is the next one *)
(* and, in Go, its total is that of the chunk buf began with.              *)
Continues(buf, c) ==
  /\ buf # <<>>
  /\ c.idx = Len(buf)
  /\ ChecksTotal => Total[c.msg] = Total[buf[1].msg]

FeedKeeps(buf, c) ==                     (* mutant: index 0 does not reset  *)
  IF c.idx = 0 \/ Continues(buf, c) THEN Append(buf, c) ELSE <<>>

(* Feed: the first chunk starts over, a chunk out of order resets.         *)
Feed(buf, c) ==
  IF c.idx = 0 THEN <<c>> ELSE IF Continues(buf, c) THEN Append(buf, c) ELSE <<>>

IsForAny(p, c) == TRUE                   (* mutant: recipient not compared  *)
IsFor(p, c) == Session => To[c.msg] = p

(* The chunk arrives at p; the last one passes the buffer on.              *)
Hear(p) ==
  LET c == Head(air[p])
      buf == Feed(asm[p], c)
      whole == buf # <<>> /\ IsLast(c)
  IN
  /\ air[p] # <<>>
  /\ air' = [air EXCEPT ![p] = Tail(@)]
  /\ IF IsFor(p, c)
     THEN /\ asm' = [asm EXCEPT ![p] = IF whole THEN <<>> ELSE buf]
          /\ delivered' = IF whole THEN delivered \cup {[to |-> p, buf |-> buf]}
                          ELSE delivered
          /\ started' = IF c.idx = 0 THEN started \cup {c.msg} ELSE started
     ELSE UNCHANGED receiverVars
  /\ UNCHANGED <<senderVars, up>>

---------------------------------------------------------------------------
(* The radio                                                               *)

(* A write without response may be dropped by either side's stack, and the *)
(* Go code ignores the error of every write.                               *)
LoseChunk(p) ==
  /\ ~Queues
  /\ air[p] # <<>>
  /\ air' = [air EXCEPT ![p] = Tail(@)]
  /\ UNCHANGED <<senderVars, up, receiverVars>>

(* The connection breaks, and may come back.                               *)
Disconnect(p) ==
  /\ up[p]
  /\ up' = [up EXCEPT ![p] = FALSE]
  /\ air' = [air EXCEPT ![p] = <<>>]
  /\ asm' = IF Forgets THEN [asm EXCEPT ![p] = <<>>] ELSE asm
  /\ UNCHANGED <<senderVars, started, delivered>>
Reconnect(p) ==
  /\ ~up[p]
  /\ up' = [up EXCEPT ![p] = TRUE]
  /\ UNCHANGED <<senderVars, air, receiverVars>>

Next ==
  \/ \E m \in Msgs : Begin(m)
  \/ \E p \in Peers : \/ SendChunk(p) \/ NotifyChunk(p) \/ QueueRest(p)
                      \/ Hear(p) \/ LoseChunk(p) \/ Disconnect(p) \/ Reconnect(p)
  \/ Ready \/ DrainChunk \/ DrainEnds

Spec == Init /\ [][Next]_vars

(* Blocks and callbacks of the serial queue run to their end, and chunks   *)
(* that are on the air arrive.                                             *)
Fairness ==
  /\ \A p \in Peers : WF_vars(NotifyChunk(p)) /\ WF_vars(QueueRest(p)) /\ WF_vars(Hear(p))
  /\ WF_vars(Ready) /\ WF_vars(DrainChunk) /\ WF_vars(DrainEnds)

FairSpec == Spec /\ Fairness

---------------------------------------------------------------------------
TypeOK ==
  /\ todo \subseteq Msgs
  /\ current \in [Peers -> Msgs \cup {None}]
  /\ next \in [Msgs -> Nat]
  /\ pending \in Seq(Chunks)
  /\ refused \in BOOLEAN
  /\ draining \in BOOLEAN
  /\ up \in [Peers -> BOOLEAN]
  /\ air \in [Peers -> Seq(Chunks)]
  /\ asm \in [Peers -> Seq(Chunks)]
  /\ started \subseteq Msgs
  /\ delivered \subseteq [to : Peers, buf : Seq(Chunks)]

(* A delivered buffer is a run of chunks 0, 1, 2, ... that ends with the   *)
(* last chunk of a message: it never has a gap and is never cut short.     *)
Consecutive ==
  \A d \in delivered :
    /\ d.buf # <<>>
    /\ \A i \in DOMAIN d.buf : d.buf[i].idx = i - 1
    /\ IsLast(d.buf[Len(d.buf)])

(* An assembler that compares totals (Go) never joins chunks of messages   *)
(* of different lengths (ble_chunk.go:84).                                 *)
OneLength ==
  ChecksTotal => \A d \in delivered : \A i \in DOMAIN d.buf :
    Total[d.buf[i].msg] = Len(d.buf)

(* A session device passes on only what was sent to it, although every     *)
(* notification reaches every subscriber (ble_chunk.go:108-110, 170-172).  *)
Mine == \A d \in delivered : \A i \in DOMAIN d.buf : To[d.buf[i].msg] = d.to

(* A message whose first chunk arrived takes no bytes of an older one: a   *)
(* buffer that began with another message holds none of its chunks         *)
(* (ble_corebluetooth.m:624-627).                                          *)
StaleStaysOut ==
  \A d \in delivered : \A i \in DOMAIN d.buf :
    d.buf[i].msg # d.buf[1].msg => d.buf[i].msg \notin started

(* A queued notification is never forgotten: the queue empties.            *)
PendingDrains == pending # <<>> ~> pending = <<>>
===========================================================================
