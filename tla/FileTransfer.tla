--------------------------- MODULE FileTransfer ---------------------------
(***************************************************************************)
(* Service.Send and onInboundStream (src/internal/core/service.go) with    *)
(* the frame protocol of src/internal/transfer: one peer runs any number   *)
(* of concurrent Send calls towards one other peer, which saves the files  *)
(* and answers each with a FILE_ACK.                                       *)
(*                                                                         *)
(* The three backends differ in what a stream is, and that is all this     *)
(* module keeps of them:                                                   *)
(*   libp2p  every Send has a stream and an inbound reader of its own;     *)
(*   ble     all Sends share one pipe and one reader, frames can be lost   *)
(*           without an error, a write never blocks;                       *)
(*   webrtc  all Sends share one pipe and one reader, nothing is lost      *)
(*           while the connection lives, a write blocks on a full window.  *)
(***************************************************************************)
EXTENDS Integers, Sequences, FiniteSets

CONSTANTS
  Files,      (* Send calls with req.File; an element is its transfer ID     *)
  Texts,      (* Send calls with req.Content                                 *)
  Chunks,     (* [Files -> Nat], number of FILE_CHUNK frames of the file     *)
  Paths,      (* paths of the receiver's download directory                  *)
  Name,       (* [Files -> Paths], where FILE_START's Name is saved          *)
  Transport,  (* the backend the registry holds for the peer                 *)
  Pipe,       (* the one stream of a shared backend                          *)
  Window,     (* frames in flight before a writer of a reliable stream waits *)
  Hole,       (* file bytes nobody wrote                                     *)
  Absent      (* a path with no file                                         *)

Sends == Files \cup Texts

ASSUME SendsAssumption ==
  /\ Files \cap Texts = {}
  /\ Chunks \in [Files -> Nat]
  /\ Name \in [Files -> Paths]
ASSUME TransportAssumption ==
  /\ Transport \in {"libp2p", "ble", "webrtc"}
  /\ Window \in Nat \ {0}
ASSUME NamesAssumption ==
  /\ Pipe \notin Sends
  /\ \A s \in Sends : s # "idle" /\ s # "closed"

Shared == Transport # "libp2p"
StreamOf(s) == IF Shared THEN Pipe ELSE s
Streams == {StreamOf(s) : s \in Sends}

VARIABLES
  pc,         (* where each Send call is                                     *)
  pos,        (* frames each Send call has written                           *)
  acks,       (* Service.acks: the transfer IDs with a registered channel    *)
  taking,     (* deliverAck calls between the unlock and the channel send    *)
  ackCh,      (* content of each Send call's ack channel                     *)
  link,       (* the connection is up                                        *)
  wire,       (* frames written to each stream and not yet read              *)
  reader,     (* each stream's onInboundStream: idle, in ReadFile, returned  *)
  got,        (* chunks the ReadFile of each stream has hashed               *)
  linked,     (* the open file of that ReadFile is still the one at its path *)
  disk,       (* the download directory                                      *)
  saved,      (* transfer IDs answered EventFileDone by the receiver         *)
  failed,     (* transfer IDs answered EventError by the receiver            *)
  shown,      (* texts the receiver has shown                                *)
  ackFlight   (* sendFileAck calls and FILE_ACK frames on their way          *)

senderVars == <<pc, pos, acks, taking, ackCh>>
fileVars == <<got, linked, disk>>
receiverVars == <<reader, fileVars, saved, failed, shown, ackFlight>>
vars == <<senderVars, link, wire, receiverVars>>

Data == Files \X (Nat \ {0})
ASSUME AbsentAssumption == Absent \notin Seq(Data \cup {Hole})

Content(s) == [k \in 1..Chunks[s] |-> <<s, k>>]

Start(s) == [type |-> "FILE_START", id |-> s]
Chunk(s, k) == [type |-> "FILE_CHUNK", data |-> <<s, k>>]
End(s) == [type |-> "FILE_END", sum |-> Content(s)]
Text(s) == [type |-> "TEXT", id |-> s]

Frame ==
  [type : {"FILE_START"}, id : Files] \cup [type : {"FILE_CHUNK"}, data : Data]
    \cup [type : {"FILE_END"}, sum : Seq(Data)] \cup [type : {"TEXT"}, id : Texts]

(* The number of frames a Send call writes, and the n-th of them.          *)
FrameCount(s) == IF s \in Files THEN Chunks[s] + 2 ELSE 1
NthFrame(s, n) ==
  IF s \in Texts THEN Text(s)
  ELSE IF n = 1 THEN Start(s)
  ELSE IF n = FrameCount(s) THEN End(s)
  ELSE Chunk(s, n - 1)

Ack == [id : Files, ok : BOOLEAN]
Returned == {"sent", "done", "nacked", "gaveup", "failed"}

Init ==
  /\ pc = [s \in Sends |-> "new"]
  /\ pos = [s \in Sends |-> 0]
  /\ acks = {}
  /\ taking = {}
  /\ ackCh = [s \in Files |-> "empty"]
  /\ link = TRUE
  /\ wire = [c \in Streams |-> <<>>]
  /\ reader = [c \in Streams |-> "idle"]
  /\ got = [c \in Streams |-> <<>>]
  /\ linked = [c \in Streams |-> FALSE]
  /\ disk = [p \in Paths |-> Absent]
  /\ saved = {}
  /\ failed = {}
  /\ shown = {}
  /\ ackFlight = {}

---------------------------------------------------------------------------
(* Conditions and effects the actions share                                *)

(* writeMu of a shared backend: held by the one Send that has the stream.  *)
WriterFree == Shared => \A u \in Sends : pc[u] # "streaming"

Reading(c) == reader[c] \in Files
PathOf(c) == Name[reader[c]]

(* os.File.Write at offset o of a file: earlier bytes nobody wrote read 0. *)
WriteAt(d, o, x) ==
  [i \in 1..(IF Len(d) > o THEN Len(d) ELSE o + 1) |->
     IF i = o + 1 THEN x ELSE IF i <= Len(d) THEN d[i] ELSE Hole]

(* ReadFrame: the next frame of stream c has one of these types, and is    *)
(* consumed.                                                               *)
Read(c, types) ==
  /\ wire[c] # <<>>
  /\ Head(wire[c]).type \in types
  /\ wire' = [wire EXCEPT ![c] = Tail(@)]

(* A reliable stream ends when the connection is lost, a libp2p stream     *)
(* also when the Send that owns it has closed it.                          *)
Ended(c) ==
  /\ wire[c] = <<>>
  /\ \/ ~link
     \/ /\ ~Shared
        /\ pc[c] \in {"waiting"} \cup Returned

(* ReadFrame returns an error: the stream ended or, over BLE, what was put *)
(* together from chunks of two messages (BleChunks) is no frame.           *)
ReadError(c) ==
  \/ Ended(c) /\ UNCHANGED wire
  \/ /\ Transport = "ble"
     /\ wire[c] # <<>>
     /\ wire' = [wire EXCEPT ![c] = Tail(@)]

---------------------------------------------------------------------------
(* Mutated actions: plausible bugs the properties below must notice. None  *)
(* is part of the specification.                                           *)

OpenUnregistered(s) ==    (* the ack channel is not there before the frames *)
  /\ pc[s] = "new"
  /\ link
  /\ WriterFree
  /\ pc' = [pc EXCEPT ![s] = "streaming"]
  /\ UNCHANGED <<pos, acks, taking, ackCh, link, wire, receiverVars>>

HearAnyAck(s) ==          (* the error inside the ack is not looked at      *)
  /\ pc[s] = "waiting"
  /\ ackCh[s] # "empty"
  /\ pc' = [pc EXCEPT ![s] = "done"]
  /\ ackCh' = [ackCh EXCEPT ![s] = "empty"]
  /\ UNCHANGED <<pos, acks, taking, link, wire, receiverVars>>

GiveUpLeaks(s) ==         (* dropAck is forgotten                           *)
  /\ pc[s] = "waiting"
  /\ pc' = [pc EXCEPT ![s] = "gaveup"]
  /\ UNCHANGED <<pos, acks, taking, ackCh, link, wire, receiverVars>>

GiveUpWaits(s) ==         (* the timer branch does not return               *)
  /\ pc[s] = "waiting"
  /\ acks' = acks \ {s}
  /\ UNCHANGED <<pc, pos, taking, ackCh, link, wire, receiverVars>>

FailSilently(c, t) ==     (* ReadFile's error is not reported               *)
  /\ reader' = [reader EXCEPT ![c] = "closed"]
  /\ got' = [got EXCEPT ![c] = <<>>]
  /\ UNCHANGED <<senderVars, link, saved, failed, shown, ackFlight>>

EofEndsFile(c) ==         (* EOF is taken for the end of the file           *)
  /\ Reading(c)
  /\ Ended(c)
  /\ saved' = saved \cup {reader[c]}
  /\ ackFlight' = ackFlight \cup {[id |-> reader[c], ok |-> TRUE]}
  /\ reader' = [reader EXCEPT ![c] = "closed"]
  /\ UNCHANGED <<senderVars, link, wire, fileVars, failed, shown>>

---------------------------------------------------------------------------
(* The sender                                                              *)

(* OpenStream succeeds and, for a file, the ack channel is registered      *)
(* before the first frame is written.                                      *)
Open(s) ==
  /\ pc[s] = "new"
  /\ link
  /\ WriterFree
  /\ pc' = [pc EXCEPT ![s] = "streaming"]
  /\ acks' = IF s \in Files THEN acks \cup {s} ELSE acks
  /\ UNCHANGED <<pos, taking, ackCh, link, wire, receiverVars>>

(* OpenStream has no connection, or the file cannot be stat'ed.            *)
Refuse(s) ==
  /\ pc[s] = "new"
  /\ ~link \/ (s \in Files /\ WriterFree)
  /\ pc' = [pc EXCEPT ![s] = "failed"]
  /\ UNCHANGED <<pos, acks, taking, ackCh, link, wire, receiverVars>>

(* One frame leaves through the stream. The window of a reliable stream    *)
(* holds the writer back; BLE's sendFn never does.                         *)
Write(s) ==
  LET c == StreamOf(s) IN
  /\ pc[s] = "streaming"
  /\ pos[s] < FrameCount(s)
  /\ link
  /\ Transport # "ble" => Len(wire[c]) < Window
  /\ pos' = [pos EXCEPT ![s] = @ + 1]
  /\ wire' = [wire EXCEPT ![c] = Append(@, NthFrame(s, pos[s] + 1))]
  /\ UNCHANGED <<pc, acks, taking, ackCh, link, receiverVars>>

(* io.Copy fails: the connection is gone, or the source file cannot be     *)
(* read any further. dropAck, and the error is returned.                   *)
Abort(s) ==
  /\ pc[s] = "streaming"
  /\ pos[s] < FrameCount(s)
  /\ ~link \/ s \in Files
  /\ pc' = [pc EXCEPT ![s] = "failed"]
  /\ acks' = acks \ {s}
  /\ UNCHANGED <<pos, taking, ackCh, link, wire, receiverVars>>

(* Everything is written: the stream is closed (writeMu released) before   *)
(* the wait for the ack begins.                                            *)
CloseStream(s) ==
  /\ pc[s] = "streaming"
  /\ pos[s] = FrameCount(s)
  /\ pc' = [pc EXCEPT ![s] = IF s \in Files THEN "waiting" ELSE "sent"]
  /\ UNCHANGED <<pos, acks, taking, ackCh, link, wire, receiverVars>>

(* select: the ack channel has a result.                                   *)
HearAck(s) ==
  /\ pc[s] = "waiting"
  /\ ackCh[s] # "empty"
  /\ pc' = [pc EXCEPT ![s] = IF ackCh[s] = "ok" THEN "done" ELSE "nacked"]
  /\ ackCh' = [ackCh EXCEPT ![s] = "empty"]
  /\ UNCHANGED <<pos, acks, taking, link, wire, receiverVars>>

(* select: the timer fired or ctx is cancelled. Go may take this branch    *)
(* although the ack channel is ready too.                                  *)
GiveUp(s) ==
  /\ pc[s] = "waiting"
  /\ pc' = [pc EXCEPT ![s] = "gaveup"]
  /\ acks' = acks \ {s}
  /\ UNCHANGED <<pos, taking, ackCh, link, wire, receiverVars>>

(* deliverAck under acksMu: an unknown ID ends here.                       *)
TakeAck(a) ==
  /\ a \in ackFlight
  /\ ackFlight' = ackFlight \ {a}
  /\ acks' = acks \ {a.id}
  /\ taking' = IF a.id \in acks THEN taking \cup {a} ELSE taking
  /\ UNCHANGED <<pc, pos, ackCh, link, wire, reader, fileVars, saved, failed, shown>>

(* deliverAck after the unlock: a send that never blocks.                  *)
PutAck(a) ==
  /\ a \in taking
  /\ taking' = taking \ {a}
  /\ ackCh' = [ackCh EXCEPT ![a.id] =
                 IF @ # "empty" THEN @ ELSE IF a.ok THEN "ok" ELSE "err"]
  /\ UNCHANGED <<pc, pos, acks, link, wire, receiverVars>>

---------------------------------------------------------------------------
(* The receiver                                                            *)

(* ReadFile returned an error: EventError, a negative ack, and the handler *)
(* returns, which ends the reader of this stream for good.                 *)
FailFile(c, t) ==
  /\ failed' = failed \cup {t}
  /\ ackFlight' = ackFlight \cup {[id |-> t, ok |-> FALSE]}
  /\ reader' = [reader EXCEPT ![c] = "closed"]
  /\ got' = [got EXCEPT ![c] = <<>>]
  /\ UNCHANGED <<senderVars, link, saved, shown>>

(* A text outside a file.                                                  *)
RecvText(c) ==
  /\ reader[c] = "idle"
  /\ Read(c, {"TEXT"})
  /\ shown' = shown \cup {Head(wire[c]).id}
  /\ UNCHANGED <<senderVars, link, reader, fileVars, saved, failed, ackFlight>>

(* FILE_START: os.Create truncates whatever is at the path.                *)
RecvStart(c) ==
  LET t == Head(wire[c]).id IN
  /\ reader[c] = "idle"
  /\ Read(c, {"FILE_START"})
  /\ reader' = [reader EXCEPT ![c] = t]
  /\ got' = [got EXCEPT ![c] = <<>>]
  /\ linked' = [linked EXCEPT ![c] = TRUE]
  /\ disk' = [disk EXCEPT ![Name[t]] = <<>>]
  /\ UNCHANGED <<senderVars, link, saved, failed, shown, ackFlight>>

(* FILE_START: os.Create fails.                                            *)
CannotCreate(c) ==
  /\ reader[c] = "idle"
  /\ Read(c, {"FILE_START"})
  /\ FailFile(c, Head(wire[c]).id)
  /\ UNCHANGED <<linked, disk>>

(* A chunk or an end outside a file: no case of the switch.                *)
SkipFrame(c) ==
  /\ reader[c] = "idle"
  /\ Read(c, {"FILE_CHUNK", "FILE_END"})
  /\ UNCHANGED <<senderVars, link, receiverVars>>

(* FILE_CHUNK inside ReadFile: written at this descriptor's own offset,    *)
(* then hashed. A file that lost its path is written all the same.         *)
RecvChunk(c) ==
  LET x == Head(wire[c]).data IN
  /\ Reading(c)
  /\ Read(c, {"FILE_CHUNK"})
  /\ got' = [got EXCEPT ![c] = Append(@, x)]
  /\ disk' = IF linked[c]
             THEN [disk EXCEPT ![PathOf(c)] = WriteAt(@, Len(got[c]), x)]
             ELSE disk
  /\ UNCHANGED <<senderVars, link, reader, linked, saved, failed, shown, ackFlight>>

(* FILE_END with the checksum of what was hashed: EventFileDone.           *)
RecvEnd(c) ==
  /\ Reading(c)
  /\ Read(c, {"FILE_END"})
  /\ Head(wire[c]).sum = got[c]
  /\ saved' = saved \cup {reader[c]}
  /\ ackFlight' = ackFlight \cup {[id |-> reader[c], ok |-> TRUE]}
  /\ reader' = [reader EXCEPT ![c] = "idle"]
  /\ got' = [got EXCEPT ![c] = <<>>]
  /\ linked' = [linked EXCEPT ![c] = FALSE]
  /\ UNCHANGED <<senderVars, link, disk, failed, shown>>

(* FILE_END with another checksum. os.Remove's own error is ignored, so    *)
(* the file may stay; if it goes, every open descriptor loses its path.    *)
ChecksumMismatch(c) ==
  /\ Reading(c)
  /\ Read(c, {"FILE_END"})
  /\ Head(wire[c]).sum # got[c]
  /\ FailFile(c, reader[c])
  /\ \/ /\ disk' = [disk EXCEPT ![PathOf(c)] = Absent]
        /\ linked' = [k \in Streams |->
             linked[k] /\ k # c /\ (Reading(k) => PathOf(k) # PathOf(c))]
     \/ /\ linked' = [linked EXCEPT ![c] = FALSE]
        /\ UNCHANGED disk

(* Any other frame inside ReadFile: what was written so far stays.         *)
UnexpectedFrame(c) ==
  /\ Reading(c)
  /\ Read(c, {"FILE_START", "TEXT"})
  /\ FailFile(c, reader[c])
  /\ linked' = [linked EXCEPT ![c] = FALSE]
  /\ UNCHANGED disk

(* The disk write of a chunk fails (f.Write).                              *)
CannotWrite(c) ==
  /\ Reading(c)
  /\ Read(c, {"FILE_CHUNK"})
  /\ FailFile(c, reader[c])
  /\ linked' = [linked EXCEPT ![c] = FALSE]
  /\ UNCHANGED disk

(* ReadFrame returns an error in the middle of a file, and between frames. *)
EndInsideFile(c) ==
  /\ Reading(c)
  /\ ReadError(c)
  /\ FailFile(c, reader[c])
  /\ linked' = [linked EXCEPT ![c] = FALSE]
  /\ UNCHANGED disk
EndBetweenFrames(c) ==
  /\ reader[c] = "idle"
  /\ ReadError(c)
  /\ reader' = [reader EXCEPT ![c] = "closed"]
  /\ UNCHANGED <<senderVars, link, fileVars, saved, failed, shown, ackFlight>>

(* The handler has returned. Over BLE it closed its end of the pipe, and    *)
(* InboundData drops what arrives. Elsewhere nobody drains what is left: a  *)
(* closed libp2p stream gets no more window (or, over QUIC, fails the next  *)
(* write, which Abort allows for a file), noCloseRWC keeps webrtc's open.   *)
Discard(c) ==
  /\ reader[c] = "closed"
  /\ Transport = "ble"
  /\ wire[c] # <<>>
  /\ wire' = [wire EXCEPT ![c] = Tail(@)]
  /\ UNCHANGED <<senderVars, link, receiverVars>>

---------------------------------------------------------------------------
(* The network                                                             *)

(* BLE: a frame with a missing or unroutable chunk vanishes silently.      *)
LoseFrame(c) ==
  /\ Transport = "ble"
  /\ reader[c] # "closed"
  /\ wire[c] # <<>>
  /\ wire' = [wire EXCEPT ![c] = Tail(@)]
  /\ UNCHANGED <<senderVars, link, receiverVars>>

(* sendFileAck gives up silently (no route, no stream, write error), or    *)
(* the frame is lost on the way back.                                      *)
LoseAck(a) ==
  /\ a \in ackFlight
  /\ ackFlight' = ackFlight \ {a}
  /\ UNCHANGED <<senderVars, link, wire, reader, fileVars, saved, failed, shown>>

(* The connection of a reliable backend is lost. What was in flight may or *)
(* may not still reach the reader of each stream.                          *)
LinkDown ==
  /\ Transport # "ble"
  /\ link
  /\ link' = FALSE
  /\ \E kept \in SUBSET Streams :
       wire' = [c \in Streams |-> IF c \in kept THEN wire[c] ELSE <<>>]
  /\ UNCHANGED <<senderVars, receiverVars>>

---------------------------------------------------------------------------
Sender(s) == Open(s) \/ Refuse(s) \/ Write(s) \/ Abort(s) \/ CloseStream(s)
FileSender(s) == HearAck(s) \/ GiveUp(s)
Receiver(c) ==
  \/ RecvText(c) \/ RecvStart(c) \/ CannotCreate(c) \/ SkipFrame(c)
  \/ RecvChunk(c) \/ RecvEnd(c) \/ ChecksumMismatch(c) \/ UnexpectedFrame(c)
  \/ CannotWrite(c) \/ EndInsideFile(c) \/ EndBetweenFrames(c) \/ Discard(c)

Next ==
  \/ \E s \in Sends : Sender(s)
  \/ \E s \in Files : FileSender(s)
  \/ \E c \in Streams : Receiver(c) \/ LoseFrame(c)
  \/ \E a \in Ack : TakeAck(a) \/ PutAck(a) \/ LoseAck(a)
  \/ LinkDown

Spec == Init /\ [][Next]_vars

(* The Go runtime schedules every runnable goroutine: an open stream is    *)
(* written and closed, an inbound stream is read, a timer fires. Nothing   *)
(* is assumed of the network, of errors or of the user.                    *)
Fairness ==
  /\ \A s \in Sends : WF_vars(Write(s)) /\ WF_vars(CloseStream(s))
                      /\ WF_vars(~link /\ Abort(s))
  /\ \A s \in Files : WF_vars(HearAck(s)) /\ WF_vars(GiveUp(s))
  /\ \A c \in Streams : WF_vars(Receiver(c))

FairSpec == Spec /\ Fairness

---------------------------------------------------------------------------
TypeOK ==
  /\ pc \in [Sends -> {"new", "streaming", "waiting"} \cup Returned]
  /\ pos \in [Sends -> Nat]
  /\ acks \subseteq Files
  /\ taking \subseteq Ack
  /\ ackCh \in [Files -> {"empty", "ok", "err"}]
  /\ link \in BOOLEAN
  /\ wire \in [Streams -> Seq(Frame)]
  /\ reader \in [Streams -> {"idle", "closed"} \cup Files]
  /\ got \in [Streams -> Seq(Data)]
  /\ linked \in [Streams -> BOOLEAN]
  /\ disk \in [Paths -> Seq(Data \cup {Hole}) \cup {Absent}]
  /\ saved \subseteq Files
  /\ failed \subseteq Files
  /\ shown \subseteq Texts
  /\ ackFlight \subseteq Ack

(* A Send reports its file delivered only when the receiver has reported   *)
(* the same transfer saved (the reason the ack exists: service.go:461-462).*)
DoneOnlyIfSaved == \A s \in Files : pc[s] = "done" => s \in saved

(* No verdict is lost inside the sender and none leaks: while a Send waits *)
(* its ack channel is registered, or being answered, or holds the answer,  *)
(* exactly one of them; once it returned nothing stays registered.         *)
AckSlotOwned ==
  \A s \in Files :
    /\ pc[s] = "waiting" =>
         /\ s \in acks \/ ackCh[s] # "empty" \/ \E a \in taking : a.id = s
         /\ s \in acks => ackCh[s] = "empty" /\ \A a \in taking : a.id # s
    /\ pc[s] \in Returned => s \notin acks

(* A verdict that reaches the sender finds its channel: only the acks of a *)
(* Send that already returned are discarded.                               *)
AckInTime ==
  \A a \in ackFlight : pc[a.id] \in {"streaming", "waiting"} => a.id \in acks

(* The receiver decides each transfer once: never both saved and failed,   *)
(* and never twice (a decided transfer is not read again).                 *)
OneVerdict ==
  /\ saved \cap failed = {}
  /\ \A c \in Streams : reader[c] \notin saved \cup failed

(* What is on disk when the receiver reports a file saved is the file that *)
(* was sent under that transfer ID, byte for byte.                         *)
SavedIntact ==
  [][\A s \in saved' \ saved : disk'[Name[s]] = Content(s)]_vars

(* Damage is never silent: a path that holds anything but a whole file of  *)
(* that name is being received or some transfer to it was reported failed. *)
DamageIsReported ==
  \A p \in Paths :
    \/ disk[p] = Absent
    \/ \E s \in Files : Name[s] = p /\ disk[p] = Content(s)
    \/ \E s \in failed : Name[s] = p
    \/ \E c \in Streams : reader[c] \in Files /\ PathOf(c) = p

(* Every Send that got its stream returns, or is blocked for ever in the   *)
(* one place the code has for it: a write into a full window whose reader   *)
(* has returned while the connection stays up (service.go:454 has neither a *)
(* deadline nor ctx, the ack timer of service.go:473 starts after it).      *)
BlockedWrite(s) ==
  LET c == StreamOf(s) IN
  /\ pc[s] = "streaming" /\ pos[s] < FrameCount(s)
  /\ link /\ reader[c] = "closed" /\ Len(wire[c]) = Window
ReturnsOrBlocked ==
  \A s \in Sends : pc[s] = "streaming" ~> (pc[s] \in Returned \/ []BlockedWrite(s))

(* The sender's and the receiver's reports are those TransferPromise       *)
(* allows (the abstract specification this module implements).             *)
Report(s) ==
  CASE pc[s] = "done" -> "delivered"
    [] pc[s] = "nacked" -> "refused"
    [] pc[s] \in {"gaveup", "failed"} -> "unknown"
    [] OTHER -> "pending"

Promise == INSTANCE TransferPromise WITH report <- [s \in Files |-> Report(s)]
KeepsPromise == Promise!Spec
===========================================================================
